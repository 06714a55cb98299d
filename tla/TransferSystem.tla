--------------------------- MODULE TransferSystem ---------------------------
(***************************************************************************)
(* The transfer subsystem whole: the application's queues and scheduler    *)
(* (TransferQueue), and for every SSH connection the worker that relays    *)
(* its commands (the main loop of run_connection_plan), the file worker    *)
(* and its transfer tasks (FileWorker), joined by the connection's command *)
(* channel, the file worker's command channel and one event channel.       *)
(*                                                                         *)
(* The event pump of a connection hands each event to the session that     *)
(* started the connection, whichever connection that session has by then.  *)
(***************************************************************************)
EXTENDS TransferQueue

CONSTANTS
  MaxAttempts,    \* bound: Transfer commands per id and connection; see FileWorker
  EventCapacity   \* EVENT_CHANNEL_CAPACITY

\* The application sends a Transfer command at most twice under one id.
ASSUME AttemptsAssumption == MaxAttempts \in Nat \ {0, 1}
ASSUME CapacityAssumption == EventCapacity \in Nat \ {0}

VARIABLES
  conn,         \* where run_connection_plan is, for each connection
  worker, fileCommands, fileClosed, cancellations, phase, confirmed, result,
  flag, events  \* see FileWorker

Files == INSTANCE FileWorker

workerVars  == <<worker, fileCommands, fileClosed>>
attemptVars == <<cancellations, phase, confirmed, result, flag>>
fileVars    == <<workerVars, attemptVars, events>>
systemVars  == <<conn, fileVars>>
allVars     == <<vars, systemVars>>

\* "Unmade"; "Opening", then "Authenticating" until the shell is open; "Running"
\* its main loop;
\* "Closing" between StateChanged(Disconnecting) and StateChanged(Disconnected);
\* "Returning" after its last event; "Ended" with its channels dropped.
ConnStates ==
  {"Unmade", "Opening", "Authenticating", "Running", "Closing", "Returning", "Ended"}
Establishing == {"Opening", "Authenticating"}

TransferEvents == {"TransferCompleted", "TransferConflict", "TransferCancelled", "SftpFailed"}
EndingEvents   == {"Disconnected", "Failed"}
StateEvents    == {"Connecting", "Connected", "Disconnecting"}

SystemInit ==
  /\ Init
  /\ conn = [c \in Connections |-> "Unmade"]
  /\ Files!FileInit

\* The application holds no handle of connection c any more.
HandleDropped(c) == handle[c[1]] # c[2]

-----------------------------------------------------------------------------
(* The user-interface thread.                                              *)

\* start_connection_plan spawns the worker.
Connect(s) ==
  /\ StartConnection(s)
  /\ conn' = [conn EXCEPT ![<<s, generation[s] + 1>>] = "Opening"]
  /\ UNCHANGED fileVars

Interface ==
  /\ \/ OpenSession
     \/ \E s \in Sessions : DisconnectSession(s) \/ CloseSession(s)
     \/ \E n \in Limits : SetMaxParallelTransfers(n)
     \/ User
  /\ UNCHANGED systemVars

Schedule == Loop /\ UNCHANGED systemVars

\* handle_connection_event on the session of connection c.
Handle(s, event) ==
  \/ /\ s \notin open
     /\ UNCHANGED vars
  \/ /\ event.kind \in StateEvents
     /\ HandleStateChanged(s, event.kind)
  \/ /\ event.kind = "Disconnected"
     /\ HandleDisconnected(s)
  \/ /\ event.kind = "Failed"
     /\ HandleFailed(s)
  \/ /\ event.kind = "TransferConflict"
     /\ HandleConflict(<<s, event.id>>)
  \/ /\ event.kind = "TransferCompleted"
     /\ HandleCompleted(<<s, event.id>>)
  \/ /\ event.kind = "TransferCancelled"
     /\ HandleCancelled(<<s, event.id>>)
  \/ /\ event.kind = "SftpFailed"
     /\ HandleTransferFailed(<<s, event.id>>)

Pump(c) ==
  /\ ~scheduling
  /\ events[c] # <<>>
  /\ Handle(c[1], Head(events[c]))
  /\ events' = [events EXCEPT ![c] = Tail(@)]
  /\ UNCHANGED <<conn, workerVars, attemptVars>>

-----------------------------------------------------------------------------
(* The connection worker.                                                  *)

Become(c, to) == conn' = [conn EXCEPT ![c] = to]

\* One command leaves the channel of connection c.
ReceiveCommand(c, ops) ==
  /\ commands[c] # <<>>
  /\ Head(commands[c]).op \in ops
  /\ WorkerTakesCommand(c)

\* The host is reached: StateChanged(Authenticating), which like Connecting, sent
\* when the window already says so, the window shows as "Connecting".
ReportAuthenticating(c) ==
  /\ conn[c] = "Opening"
  /\ Become(c, "Authenticating")
  /\ Files!SendEvent(c, [kind |-> "Connecting"])
  /\ UNCHANGED <<vars, workerVars, attemptVars>>

\* The shell is open: StateChanged(Connected).
ReportConnected(c) ==
  /\ conn[c] = "Authenticating"
  /\ Become(c, "Running")
  /\ Files!SendEvent(c, [kind |-> "Connected"])
  /\ UNCHANGED <<vars, workerVars, attemptVars>>

\* wait_for_operation ignores file commands until the shell is open.
IgnoreCommand(c) ==
  /\ conn[c] \in Establishing
  /\ ReceiveCommand(c, {"Transfer", "CancelTransfer"})
  /\ UNCHANGED systemVars

\* RemoteFiles::dispatch to an open file worker.
RelayCommand(c) ==
  /\ conn[c] = "Running"
  /\ ReceiveCommand(c, {"Transfer", "CancelTransfer"})
  /\ fileCommands' = [fileCommands EXCEPT ![c] = Append(@, Head(commands[c]))]
  /\ UNCHANGED <<conn, worker, fileClosed, attemptVars, events>>

\* Wrong: without a backend the command is dropped without a word.
DropTransfer(c) ==
  /\ conn[c] = "Running"
  /\ ReceiveCommand(c, {"Transfer"})
  /\ UNCHANGED systemVars

\* RemoteFiles::dispatch when neither SFTP nor SCP can take the transfer.
RefuseTransfer(c) ==
  /\ conn[c] = "Running"
  /\ ReceiveCommand(c, {"Transfer"})
  /\ Files!SendEvent(c, [kind |-> "SftpFailed", id |-> Head(commands[c]).id])
  /\ UNCHANGED <<conn, workerVars, attemptVars>>

\* finish_disconnection begins: StateChanged(Disconnecting).
BeginClosing(c) ==
  /\ Become(c, "Closing")
  /\ Files!SendEvent(c, [kind |-> "Disconnecting"])
  /\ UNCHANGED <<workerVars, attemptVars>>

\* A Disconnect command, or every handle dropped.
BeginDisconnection(c) ==
  /\ conn[c] \in Establishing \union {"Running"}
  /\ \/ ReceiveCommand(c, {"Disconnect"})
     \/ commands[c] = <<>> /\ HandleDropped(c) /\ UNCHANGED vars
  /\ BeginClosing(c)

\* The remote shell has ended: the same, with commands left in the channel.
ShellCloses(c) ==
  /\ conn[c] = "Running"
  /\ BeginClosing(c)
  /\ UNCHANGED vars

\* Shell and transports are closed: StateChanged(Disconnected).
FinishDisconnection(c) ==
  /\ conn[c] = "Closing"
  /\ Become(c, "Returning")
  /\ Files!SendEvent(c, [kind |-> "Disconnected"])
  /\ UNCHANGED <<vars, workerVars, attemptVars>>

\* report_failure
FailConnection(c) ==
  /\ conn[c] \in Establishing \union {"Running"}
  /\ Become(c, "Returning")
  /\ Files!SendEvent(c, [kind |-> "Failed"])
  /\ UNCHANGED <<vars, workerVars, attemptVars>>

\* run_connection_plan returns: its receivers and its RemoteFiles are dropped.
Return(c) ==
  /\ conn[c] = "Returning"
  /\ Become(c, "Ended")
  /\ WorkerStops(c)
  /\ fileClosed' = fileClosed \union {c}
  /\ UNCHANGED <<worker, fileCommands, attemptVars, events>>

\* What the worker does of its own accord; whether a connection is ever
\* established, or breaks, is up to the user, the server and the network.
WorkerTurn(c) ==
  \/ IgnoreCommand(c) \/ RelayCommand(c) \/ RefuseTransfer(c)
  \/ BeginDisconnection(c) \/ FinishDisconnection(c) \/ Return(c)

ConnectionStep(c) ==
  \/ WorkerTurn(c)
  \/ ReportAuthenticating(c) \/ ReportConnected(c) \/ ShellCloses(c) \/ FailConnection(c)

FileWorkerStep(c) == Files!WorkerStep(c) /\ UNCHANGED <<vars, conn>>
TaskStep(a)       == Files!AttemptStep(a) /\ UNCHANGED <<vars, conn>>

-----------------------------------------------------------------------------
SystemNext ==
  \/ \E s \in Sessions : Connect(s)
  \/ Interface
  \/ Schedule
  \/ \E c \in Connections : Pump(c) \/ ConnectionStep(c) \/ FileWorkerStep(c)
  \/ \E a \in Files!Attempts : TaskStep(a)

SystemSpec == SystemInit /\ [][SystemNext]_allVars

\* Every loop turns: the interface finishes its scheduling, the workers take their
\* next step, and the interface thread, whose executor serves its tasks in turn,
\* gets to a waiting event however often the user keeps it busy (strong fairness:
\* a scheduling loop disables the pump).  Nothing is assumed of the user, of the
\* network, nor of the transfer tasks, which may wait for it for ever.
Fairness ==
  /\ WF_allVars(Schedule)
  /\ \A c \in Connections : /\ SF_allVars(Pump(c))
                            /\ WF_allVars(WorkerTurn(c))
                            /\ WF_allVars(FileWorkerStep(c))

\* The network answers: every transfer task takes its next step.
TasksProgress == \A a \in Files!Attempts : WF_allVars(TaskStep(a))

FairSystemSpec == SystemSpec /\ Fairness

-----------------------------------------------------------------------------
(* Properties.                                                             *)

Occurs(item, channel) == \E i \in DOMAIN channel : channel[i] = item

HasTransferEvent(c, id) ==
  \E i \in DOMAIN events[c] : events[c][i].kind \in TransferEvents /\ events[c][i].id = id

HasTransferCommand(channel, id) ==
  \E i \in DOMAIN channel : channel[i].op = "Transfer" /\ channel[i].id = id

\* Connection c has told, will tell or is bound to tell the application that it is
\* over: a worker nobody holds a handle of disconnects by itself.
EndAnnounced(c) ==
  \/ conn[c] = "Closing"
  \/ conn[c] \in Establishing \union {"Running"} /\ HandleDropped(c)
  \/ \E i \in DOMAIN events[c] : events[c][i].kind \in EndingEvents

\* Something on connection c will still settle transfer id in the application.
Carried(c, id) ==
  \/ HasTransferCommand(commands[c], id) /\ conn[c] \in Establishing \union {"Running"}
  \/ HasTransferCommand(fileCommands[c], id) /\ worker[c] = "Running"
  \/ \E n \in 1..MaxAttempts :
       phase[<<c, id, n>>] \in Files!WorkingPhases \union {"Reporting"}
  \/ HasTransferEvent(c, id)
  \/ EndAnnounced(c)

\* No Running task is forgotten: its command, its attempt, a report of the
\* attempt or the end of its connection is still on the way to the application,
\* whatever was cancelled, replaced, disconnected or reconnected meanwhile.
RunningIsCarried ==
  \A t \in Tasks : state[t] = "Running" =>
    \E k \in 1..MaxConnections : Carried(<<t[1], k>>, t[2])

\* Two attempts at one transfer never work at the same time, on one connection or
\* on two: they would write to the same destination.
OneWorkingAttempt ==
  \A a, b \in Files!Attempts :
    /\ a[1][1] = b[1][1] /\ a[2] = b[2]
    /\ phase[a] \in Files!WorkingPhases /\ phase[b] \in Files!WorkingPhases
    => a = b

\* All attempts at task t, on whichever of its session's connections.
AttemptsAt(t) ==
  {a \in Files!Attempts : a[1][1] = t[1] /\ a[2] = t[2] /\ phase[a] # "Unborn"}

\* A task is attempted at most twice, and may replace its destination only on the
\* second attempt, after the first has ended in a conflict; the conflict and its
\* answer may lie on two connections.
OverwriteAnswersConflict ==
  \A t \in Tasks :
    /\ Cardinality(AttemptsAt(t)) <= 2
    /\ \A a \in AttemptsAt(t) : confirmed[a] <=>
         \E b \in AttemptsAt(t) \ {a} :
           ~confirmed[b] /\ result[b] = "TransferConflict" /\ phase[b] # "Reporting"

\* While the network answers, every Running task leaves that state, whatever the
\* user does to its session and although workers die under it.
RunningSettles ==
  TasksProgress => \A t \in Tasks : state[t] = "Running" ~> state[t] # "Running"

\* The end of a connection frees the slots of its session, those of tasks that
\* wait for the network or for an unanswered cancellation included.
LostConnectionFreesSlots ==
  \A c \in Connections, id \in TransferIds :
    LET t == <<c[1], id>> IN
    conn[c] = "Returning" /\ state[t] \in ActiveStates ~> state[t] \notin ActiveStates

\* A file worker whose connection is over ends, and takes all its tasks with it,
\* although they may be waiting for a network that never answers.
FileWorkersEnd ==
  \A c \in Connections : c \in fileClosed ~>
    /\ worker[c] = "Stopped"
    /\ \A a \in Files!AttemptsOf(c) : Files!Ended(a)

\* state.rs, sftp_transfer_queue_tracks_multiple_active_tasks_and_conflicts_release_slots:
\* a task whose attempt reports a conflict comes to hold no slot.
ConflictReleasesSlot ==
  TasksProgress => \A c \in Connections, id \in TransferIds :
    Occurs([kind |-> "TransferConflict", id |-> id], events[c])
      ~> state[<<c[1], id>>] \notin ActiveStates

\* connection.rs, cancel_transfer: "Requests cancellation of an active SFTP
\* transfer".  A cancellation the file worker takes while an attempt at that
\* transfer works raises the flag of that attempt.
CancellationReachesAttempt ==
  [][\A a \in Files!Attempts :
       /\ phase[a] \in {"Checking", "Copying"}
       /\ fileCommands[a[1]] # <<>>
       /\ Head(fileCommands[a[1]]) = [op |-> "CancelTransfer", id |-> a[2]]
       /\ fileCommands'[a[1]] = Tail(fileCommands[a[1]])
       => flag'[a]]_allVars

\* Every variable keeps its type; no channel of events passes its capacity.
SystemTypeOK ==
  /\ TypeOK
  /\ conn \in [Connections -> ConnStates]
  /\ worker \in [Connections -> {"Running", "Joining", "Stopped"}]
  /\ fileClosed \subseteq Connections
  /\ cancellations \in [Connections -> [TransferIds -> 0..MaxAttempts]]
  /\ phase \in [Files!Attempts -> Files!AttemptPhases]
  /\ confirmed \in [Files!Attempts -> BOOLEAN]
  /\ result \in [Files!Attempts -> Files!Results \union {Files!NoResult}]
  /\ flag \in [Files!Attempts -> BOOLEAN]
  /\ \A c \in Connections : Len(events[c]) <= EventCapacity
=============================================================================
