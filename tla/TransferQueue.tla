--------------------------- MODULE TransferQueue ---------------------------
(***************************************************************************)
(* The application's side of file transfers: one SftpTransferQueue per     *)
(* terminal session and the scheduler that feeds every session's Queued    *)
(* tasks to its SSH connection, at most max_parallel_transfers at a time.  *)
(*                                                                         *)
(* All of it runs on the user-interface thread, so each action below is a  *)
(* whole handler.  start_queued_sftp_transfers, with which most handlers   *)
(* end, is a loop that sends one command per turn to a worker on another   *)
(* thread: `scheduling` is TRUE while it turns, every turn is a step, and  *)
(* no other handler runs before it ends.                                   *)
(*                                                                         *)
(* The connection workers are left open here: they may report any event    *)
(* about any transfer at any time, and stop at any time.  TransferSystem   *)
(* closes the system with the real workers.                                *)
(***************************************************************************)
EXTENDS Integers, FiniteSets, Sequences

CONSTANTS
  MaxSessions,     \* bound: sessions opened in one run of the application
  MaxTransfers,    \* bound: transfers submitted per session
  MaxConnections,  \* bound: connections made per session
  Limits           \* the selectable values of max_parallel_transfers

ASSUME SessionsAssumption    == MaxSessions \in Nat
ASSUME TransfersAssumption   == MaxTransfers \in Nat
ASSUME ConnectionsAssumption == MaxConnections \in Nat
ASSUME LimitsAssumption      == Limits \subseteq 1..8 /\ Limits # {}

Sessions    == 1..MaxSessions
TransferIds == 1..MaxTransfers
Tasks       == Sessions \X TransferIds
Connections == Sessions \X (1..MaxConnections)
NoHandle    == 0

\* SftpTransferState, and "Absent" for an id that no task of the queue has.
ActiveStates   == {"Running", "Cancelling"}
FinishedStates == {"Completed", "Failed", "Cancelled"}
TransferStates ==
  ActiveStates \union FinishedStates \union {"Absent", "Queued", "Conflict"}

\* SessionState as the window shows it; "Idle" stands for Disconnected and
\* Failed, "Connecting" for Connecting and Authenticating.
LinkStates == {"Idle", "Connecting", "Connected", "Disconnecting"}

Commands ==
  [op : {"Transfer"}, id : TransferIds, overwrite : BOOLEAN]
    \union [op : {"CancelTransfer"}, id : TransferIds]
    \union [op : {"Disconnect"}]

VARIABLES
  nextSession,  \* next_session_id
  open,         \* the sessions in the window; ids grow, so the Vec is in id order
  link,         \* connection_state
  closing,      \* the sessions with close_when_disconnected
  generation,   \* how many connections a session has started
  handle,       \* connection_handle: the connection it commands, or NoHandle
  state,        \* state of each transfer task
  overwrite,    \* its overwrite flag
  nextId,       \* next_id of each queue
  limit,        \* transfer_settings.max_parallel_transfers
  cursor,       \* next_transfer_session_cursor
  scheduling,   \* start_queued_sftp_transfers is turning
  commands,     \* the command channel of each connection
  listening     \* the connections whose worker still receives commands

queueVars == <<state, overwrite, nextId>>
linkVars  == <<link, handle, closing, generation>>
windowVars == <<nextSession, open>>
loopVars  == <<cursor, scheduling>>
vars == <<nextSession, open, link, closing, generation, handle, state, overwrite,
          nextId, limit, cursor, scheduling, commands, listening>>

-----------------------------------------------------------------------------
Active == {t \in Tasks : state[t] \in ActiveStates}
Queued == {t \in Tasks : state[t] = "Queued"}

TasksOf(s) == {t \in Tasks : t[1] = s}

\* The handle of session s reaches a worker that receives commands.
Reachable(s) == handle[s] # NoHandle /\ <<s, handle[s]>> \in listening

Send(s, command) ==
  commands' = [commands EXCEPT ![<<s, handle[s]>>] = Append(@, command)]

SetState(t, to) == state' = [state EXCEPT ![t] = to]

\* Wrong: fail_pending that fails the waiting tasks only.
FailWaitingOnly(s) ==
  [t \in Tasks |-> IF t[1] = s /\ state[t] \in {"Queued", "Conflict"} THEN "Failed" ELSE state[t]]

\* Wrong: fail_pending that forgets tasks being cancelled.
FailUncancelled(s) ==
  [t \in Tasks |-> IF t[1] = s /\ state[t] \in {"Queued", "Conflict", "Running"}
                   THEN "Failed" ELSE state[t]]

\* fail_pending: every unfinished task of session s fails.
AfterFailPending(s) ==
  [t \in Tasks |-> IF t[1] = s /\ state[t] \notin FinishedStates \union {"Absent"}
                   THEN "Failed" ELSE state[t]]

\* Wrong: the session is removed, and its queue is not.
RemoveSessionOnly(s) ==
  /\ open' = open \ {s}
  /\ closing' = closing \ {s}
  /\ link' = [link EXCEPT ![s] = "Idle"]
  /\ handle' = [handle EXCEPT ![s] = NoHandle]
  /\ UNCHANGED state

\* remove_session: the session leaves the window with its queue and handle.
RemoveSession(s) ==
  /\ open' = open \ {s}
  /\ closing' = closing \ {s}
  /\ link' = [link EXCEPT ![s] = "Idle"]
  /\ handle' = [handle EXCEPT ![s] = NoHandle]
  /\ state' = [t \in Tasks |-> IF t[1] = s THEN "Absent" ELSE state[t]]

Init ==
  /\ nextSession = 1
  /\ open = {}
  /\ link = [s \in Sessions |-> "Idle"]
  /\ closing = {}
  /\ generation = [s \in Sessions |-> 0]
  /\ handle = [s \in Sessions |-> NoHandle]
  /\ state = [t \in Tasks |-> "Absent"]
  /\ overwrite = [t \in Tasks |-> FALSE]
  /\ nextId = [s \in Sessions |-> 1]
  /\ limit \in Limits
  /\ cursor = 0
  /\ scheduling = FALSE
  /\ commands = [c \in Connections |-> <<>>]
  /\ listening = {}

-----------------------------------------------------------------------------
(* The window: sessions, connections, settings.                            *)

\* create_session_for_profile
OpenSession ==
  /\ ~scheduling
  /\ nextSession \in Sessions
  /\ open' = open \union {nextSession}
  /\ nextSession' = nextSession + 1
  /\ UNCHANGED <<queueVars, linkVars, loopVars, limit, commands, listening>>

\* start_connection_plan: a new worker, whatever the transfer queue holds.  Its
\* guard, can_connect, is checked by connect_profile_in_session; looking up and
\* asking for credentials, in between, is taken as part of this step.
StartConnection(s) ==
  /\ ~scheduling
  /\ s \in open
  /\ link[s] = "Idle"
  /\ generation[s] < MaxConnections
  /\ generation' = [generation EXCEPT ![s] = @ + 1]
  /\ handle' = [handle EXCEPT ![s] = generation[s] + 1]
  /\ listening' = listening \union {<<s, generation[s] + 1>>}
  /\ link' = [link EXCEPT ![s] = "Connecting"]
  /\ closing' = closing \ {s}
  /\ UNCHANGED <<queueVars, windowVars, loopVars, limit, commands>>

CanDisconnect(s) == s \in open /\ link[s] \in {"Connecting", "Connected"}

\* ConnectionHandle::disconnect through the session's handle
RequestDisconnect(s) ==
  /\ Send(s, [op |-> "Disconnect"])
  /\ link' = [link EXCEPT ![s] = "Disconnecting"]
  /\ UNCHANGED <<open, handle, state>>

\* disconnect_session: asks the worker; one that no longer listens is given up.
DisconnectSession(s) ==
  /\ ~scheduling
  /\ CanDisconnect(s)
  /\ \/ /\ Reachable(s)
        /\ RequestDisconnect(s)
        /\ UNCHANGED closing
     \/ /\ ~Reachable(s)
        /\ s \notin closing
        /\ link' = [link EXCEPT ![s] = "Idle"]
        /\ handle' = [handle EXCEPT ![s] = NoHandle]
        /\ UNCHANGED <<open, closing, state, commands>>
     \/ /\ ~Reachable(s)
        /\ s \in closing
        /\ RemoveSession(s)
        /\ UNCHANGED commands
  /\ UNCHANGED <<nextSession, generation, overwrite, nextId, loopVars, limit, listening>>

\* close_session: orderly when there is a connection to close.
CloseSession(s) ==
  /\ ~scheduling
  /\ s \in open
  /\ \/ /\ CanDisconnect(s) /\ Reachable(s)
        /\ RequestDisconnect(s)
        /\ closing' = closing \union {s}
     \/ /\ ~(CanDisconnect(s) /\ Reachable(s))
        /\ RemoveSession(s)
        /\ UNCHANGED commands
  /\ UNCHANGED <<nextSession, generation, overwrite, nextId, loopVars, limit, listening>>

\* Wrong: the setting is taken without its clamp.
SetUnclamped(n) ==
  /\ ~scheduling
  /\ n # limit
  /\ limit' = n + 1
  /\ scheduling' = TRUE
  /\ UNCHANGED <<queueVars, linkVars, windowVars, cursor, commands, listening>>

\* set_max_parallel_transfers
SetMaxParallelTransfers(n) ==
  /\ ~scheduling
  /\ n # limit
  /\ limit' = n
  /\ scheduling' = TRUE
  /\ UNCHANGED <<queueVars, linkVars, windowVars, cursor, commands, listening>>

-----------------------------------------------------------------------------
(* The user's transfer commands.                                           *)

\* enqueue_sftp_transfer: every caller passes overwrite = false.
Enqueue(s) ==
  /\ ~scheduling
  /\ s \in open
  /\ nextId[s] \in TransferIds
  /\ SetState(<<s, nextId[s]>>, "Queued")
  /\ nextId' = [nextId EXCEPT ![s] = @ + 1]
  /\ scheduling' = TRUE
  /\ UNCHANGED <<overwrite, linkVars, windowVars, limit, cursor, commands, listening>>

\* cancel_sftp_transfer of a task the worker never had, or no longer has.
CancelWaiting(t) ==
  /\ ~scheduling
  /\ state[t] \in {"Queued", "Conflict"}
  /\ SetState(t, "Cancelled")
  /\ scheduling' = TRUE
  /\ UNCHANGED <<overwrite, nextId, linkVars, windowVars, limit, cursor, commands, listening>>

\* cancel_sftp_transfer of a running task: signal the worker, or fail the task
\* when there is none to signal.
CancelRunning(t) ==
  /\ ~scheduling
  /\ state[t] = "Running"
  /\ \/ /\ Reachable(t[1])
        /\ SetState(t, "Cancelling")
        /\ Send(t[1], [op |-> "CancelTransfer", id |-> t[2]])
        /\ UNCHANGED scheduling
     \/ /\ ~Reachable(t[1])
        /\ SetState(t, "Failed")
        /\ scheduling' = TRUE
        /\ UNCHANGED commands
  /\ UNCHANGED <<overwrite, nextId, linkVars, windowVars, limit, cursor, listening>>

\* Wrong: the answer starts the transfer at once, past the queue.
ReplaceAtOnce(t) ==
  /\ ~scheduling
  /\ state[t] = "Conflict"
  /\ SetState(t, "Running")
  /\ overwrite' = [overwrite EXCEPT ![t] = TRUE]
  /\ scheduling' = TRUE
  /\ UNCHANGED <<nextId, linkVars, windowVars, limit, cursor, commands, listening>>

\* Wrong: retry_with_overwrite does not look at the task's state.
ReplaceUnasked(t) ==
  /\ ~scheduling
  /\ state[t] \in {"Conflict", "Cancelling"}
  /\ SetState(t, "Queued")
  /\ overwrite' = [overwrite EXCEPT ![t] = TRUE]
  /\ scheduling' = TRUE
  /\ UNCHANGED <<nextId, linkVars, windowVars, limit, cursor, commands, listening>>

\* replace_sftp_transfer_destination
ReplaceDestination(t) ==
  /\ ~scheduling
  /\ state[t] = "Conflict"
  /\ SetState(t, "Queued")
  /\ overwrite' = [overwrite EXCEPT ![t] = TRUE]
  /\ scheduling' = TRUE
  /\ UNCHANGED <<nextId, linkVars, windowVars, limit, cursor, commands, listening>>

\* clear_finished_sftp_transfers
ClearFinished(s) ==
  /\ ~scheduling
  /\ \E t \in TasksOf(s) : state[t] \in FinishedStates
  /\ state' = [t \in Tasks |-> IF t[1] = s /\ state[t] \in FinishedStates
                               THEN "Absent" ELSE state[t]]
  /\ UNCHANGED <<overwrite, nextId, linkVars, windowVars, loopVars, limit, commands, listening>>

-----------------------------------------------------------------------------
(* start_queued_sftp_transfers, one turn of its loop at a time.            *)

\* take_next_queued_sftp_transfer: round robin over the sessions from the
\* cursor, and within a session the oldest Queued task.
Position(s) == Cardinality({o \in open : o < s})
Distance(s) == (Position(s) + Cardinality(open) - (cursor % Cardinality(open)))
                 % Cardinality(open)

IsNextQueued(t) ==
  /\ t \in Queued
  /\ \A u \in Queued : \/ u[1] = t[1] /\ t[2] <= u[2]
                       \/ u[1] # t[1] /\ Distance(t[1]) < Distance(u[1])

\* Wrong: the limit is passed by one.
TakeOneTooMany(t) ==
  /\ scheduling
  /\ Cardinality(Active) <= limit
  /\ IsNextQueued(t)
  /\ cursor' = (Position(t[1]) + 1) % Cardinality(open)
  /\ UNCHANGED <<overwrite, nextId, linkVars, windowVars, limit, scheduling, listening>>

TakeTask(t) ==
  /\ scheduling
  /\ Cardinality(Active) < limit
  /\ IsNextQueued(t)
  /\ cursor' = (Position(t[1]) + 1) % Cardinality(open)
  /\ UNCHANGED <<overwrite, nextId, linkVars, windowVars, limit, scheduling, listening>>

\* The task is Running and its command is on its way.
StartTask(t) ==
  /\ link[t[1]] = "Connected" /\ Reachable(t[1])
  /\ SetState(t, "Running")
  /\ Send(t[1], [op |-> "Transfer", id |-> t[2], overwrite |-> overwrite[t]])
  /\ TakeTask(t)

\* No connection to send it on: the task fails and its slot is free again.
RefuseTask(t) ==
  /\ ~(link[t[1]] = "Connected" /\ Reachable(t[1]))
  /\ SetState(t, "Failed")
  /\ UNCHANGED commands
  /\ TakeTask(t)

EndScheduling ==
  /\ scheduling
  /\ Cardinality(Active) >= limit \/ Queued = {}
  /\ scheduling' = FALSE
  /\ cursor' = IF open = {} /\ Cardinality(Active) < limit THEN 0 ELSE cursor
  /\ UNCHANGED <<queueVars, linkVars, windowVars, limit, commands, listening>>

-----------------------------------------------------------------------------
(* handle_connection_event, for a session that is still in the window.     *)

\* StateChanged: the reported state replaces whatever the window showed.
HandleStateChanged(s, reported) ==
  /\ ~scheduling
  /\ s \in open
  /\ link' = [link EXCEPT ![s] = reported]
  /\ UNCHANGED <<queueVars, windowVars, closing, generation, handle, loopVars,
                 limit, commands, listening>>

\* StateChanged(Disconnected): no start_queued_sftp_transfers follows.
HandleDisconnected(s) ==
  /\ ~scheduling
  /\ s \in open
  /\ IF s \in closing
     THEN RemoveSession(s)
     ELSE /\ link' = [link EXCEPT ![s] = "Idle"]
          /\ handle' = [handle EXCEPT ![s] = NoHandle]
          /\ state' = AfterFailPending(s)
          /\ UNCHANGED <<open, closing>>
  /\ UNCHANGED <<nextSession, generation, overwrite, nextId, loopVars, limit,
                 commands, listening>>

\* Failed: the same clean-up as an orderly end.
HandleFailed(s) == HandleDisconnected(s)

\* A transfer event for task t, which leaves it in `to` if mark_* accepts it.
HandleTransferEvent(t, accepted, to) ==
  /\ ~scheduling
  /\ t[1] \in open
  /\ state' = [state EXCEPT ![t] = IF @ \in accepted THEN to ELSE @]
  /\ UNCHANGED <<overwrite, nextId, linkVars, windowVars, limit, cursor, commands, listening>>

UnfinishedStates == TransferStates \ (FinishedStates \union {"Absent"})

\* Wrong: a conflict gives its slot to nobody.
ConflictKeepsQuiet(t) ==
  /\ HandleTransferEvent(t, {"Running"}, "Conflict")
  /\ UNCHANGED scheduling

\* TransferConflict with mark_conflict
HandleConflict(t) ==
  /\ HandleTransferEvent(t, {"Running"}, "Conflict")
  /\ scheduling' = TRUE

\* complete_sftp_transfer with mark_completed: schedules only what it completed.
HandleCompleted(t) ==
  /\ HandleTransferEvent(t, ActiveStates, "Completed")
  /\ scheduling' = (state[t] \in ActiveStates)

\* TransferCancelled with mark_cancelled
HandleCancelled(t) ==
  /\ HandleTransferEvent(t, UnfinishedStates, "Cancelled")
  /\ scheduling' = TRUE

\* Wrong: mark_failed does not look at is_finished.
FailAnyTask(t) ==
  /\ HandleTransferEvent(t, TransferStates \ {"Absent"}, "Failed")
  /\ scheduling' = TRUE

\* SftpFailed of a transfer or a cancellation, with mark_failed
HandleTransferFailed(t) ==
  /\ HandleTransferEvent(t, UnfinishedStates, "Failed")
  /\ scheduling' = TRUE

-----------------------------------------------------------------------------
(* The open environment: what the connection workers may do to this state. *)

\* The sessions some worker has ever worked for.
Started == {s \in Sessions : generation[s] > 0}

WorkerTakesCommand(c) ==
  /\ commands[c] # <<>>
  /\ commands' = [commands EXCEPT ![c] = Tail(@)]
  /\ UNCHANGED <<queueVars, linkVars, windowVars, loopVars, limit, listening>>

WorkerStops(c) ==
  /\ c \in listening
  /\ listening' = listening \ {c}
  /\ UNCHANGED <<queueVars, linkVars, windowVars, loopVars, limit, commands>>

-----------------------------------------------------------------------------
Window ==
  \/ OpenSession
  \/ \E s \in Sessions : StartConnection(s) \/ DisconnectSession(s) \/ CloseSession(s)
  \/ \E n \in Limits : SetMaxParallelTransfers(n)

User ==
  \/ \E s \in Sessions : Enqueue(s) \/ ClearFinished(s)
  \/ \E t \in Tasks : CancelWaiting(t) \/ CancelRunning(t) \/ ReplaceDestination(t)

Loop ==
  \/ \E t \in Tasks : StartTask(t) \/ RefuseTask(t)
  \/ EndScheduling

Report ==
  \/ \E s \in Started, reported \in LinkStates \ {"Idle"} :
       HandleStateChanged(s, reported)
  \/ \E s \in Started : HandleDisconnected(s) \/ HandleFailed(s)
  \/ \E t \in Started \X TransferIds :
       \/ HandleConflict(t) \/ HandleCompleted(t)
       \/ HandleCancelled(t) \/ HandleTransferFailed(t)

Worker == \E c \in Connections : WorkerTakesCommand(c) \/ WorkerStops(c)

Next == Window \/ User \/ Loop \/ Report \/ Worker

Spec == Init /\ [][Next]_vars

-----------------------------------------------------------------------------
(* Properties.                                                             *)

\* Every variable keeps its type, and only tasks the queue numbered exist.
TypeOK ==
  /\ nextSession \in 1..(MaxSessions + 1)
  /\ open \subseteq Sessions
  /\ link \in [Sessions -> LinkStates]
  /\ closing \subseteq Sessions
  /\ generation \in [Sessions -> 0..MaxConnections]
  /\ handle \in [Sessions -> 0..MaxConnections]
  /\ state \in [Tasks -> TransferStates]
  /\ overwrite \in [Tasks -> BOOLEAN]
  /\ nextId \in [Sessions -> 1..(MaxTransfers + 1)]
  /\ limit \in Limits
  /\ cursor \in Nat
  /\ scheduling \in BOOLEAN
  /\ commands \in [Connections -> Seq(Commands)]
  /\ listening \subseteq Connections

\* A task occupies the queue only under an id that next_id has passed and in a
\* session that is in the window, and a session that is not in the window
\* commands no connection: what lets a removed session's late events be ignored.
QueueConsistent ==
  /\ \A t \in Tasks : state[t] # "Absent" => t[1] \in open /\ t[2] < nextId[t[1]]
  /\ \A s \in Sessions \ open : handle[s] = NoHandle /\ link[s] = "Idle"
  /\ closing \subseteq open

\* max_parallel_transfers bounds all sessions together: whatever the user and
\* the workers do, the step that adds a running transfer stays within the limit
\* of that moment.  Lowering the limit may leave more running than it allows.
ActiveNeverGrowsPastLimit ==
  [][Cardinality(Active') > Cardinality(Active) => Cardinality(Active') <= limit']_vars

SettledStep ==
  \A t \in Tasks :
    /\ state[t] \in FinishedStates => state'[t] \in {state[t], "Absent"}
    /\ state[t] = "Absent" /\ t[2] < nextId[t[1]] => state'[t] = "Absent"

\* A finished transfer never runs, asks or finishes again, and its id is never
\* given to another: a duplicated or late event of its attempt finds nothing.
SettledForGood == [][SettledStep]_vars

\* The scheduler is at rest although a Queued task could have a slot.
Stalled == ~scheduling /\ Queued # {} /\ Cardinality(Active) < limit

\* One step takes session s its connection, and with it a running transfer: all
\* its tasks are settled or gone.
SessionLost(s) ==
  /\ \E t \in TasksOf(s) : t \in Active
  /\ \A t \in TasksOf(s) : state'[t] \in FinishedStates \union {"Absent"}
  /\ link'[s] = "Idle" /\ handle'[s] = NoHandle

RefilledStep == Stalled' => Stalled \/ \E s \in Sessions : SessionLost(s)

\* Whoever frees a slot or queues a task has the scheduler fill the slot; the one
\* exception is the loss of a session, whose slots other sessions' Queued tasks
\* do not get until another transfer event comes (start_queued_sftp_transfers is
\* not called on Disconnected, on Failed and in remove_session).
SlotsRefilled == [][RefilledStep]_vars

-----------------------------------------------------------------------------
(* The queue keeps the promise of TransferPromise.                         *)

PhaseOf(t) ==
  CASE state[t] = "Queued" -> "Waiting"
    [] state[t] \in ActiveStates -> "Active"
    [] state[t] = "Conflict" -> "Asking"
    [] state[t] \in FinishedStates -> "Settled"
    [] state[t] = "Absent" -> IF t[2] < nextId[t[1]] THEN "Gone" ELSE "Unborn"

Promise == INSTANCE TransferPromise
  WITH phase <- [t \in Tasks |-> PhaseOf(t)], slots <- limit

KeepsPromise == Promise!PromiseSpec
=============================================================================
