------------------------ MODULE TransferSystemProofs ------------------------
(***************************************************************************)
(* What the transfer subsystem guarantees for every number of sessions,    *)
(* transfers and connections, every capacity of the event channels and     *)
(* every choice of Limits.                                                 *)
(*                                                                         *)
(* First the queue alone (TransferQueue), whatever its workers report.     *)
(* Its inductive invariant is TypeOK together with QueueConsistent: the    *)
(* scheduler's cursor has a type only because a session with a Queued task *)
(* is in the window, so the window is not empty when a task is taken, and  *)
(* an enqueued task is new only because next_id has passed all others.     *)
(*                                                                         *)
(* Then the queue with its connections and their file workers.  That a     *)
(* Running task is always carried needs to know where the order to         *)
(* transfer it is (one place at a time: OnceOK), what the connections have *)
(* told and still have to tell (HandleOK, OrderOK, LinkOK), and that what  *)
(* a connection does after its end was heard of concerns settled tasks     *)
(* only (SettledOK).                                                       *)
(***************************************************************************)
EXTENDS TransferSystem, FiniteSetTheorems, SequenceTheorems, TLAPS

-----------------------------------------------------------------------------
(* The queue: its inductive invariant.                                     *)

IInv == TypeOK /\ QueueConsistent

-----------------------------------------------------------------------------
(* Finite sets of the model.                                               *)

\* There are finitely many sessions, so those in the window can be counted.
LEMMA SessionsFinite ==
  ASSUME NEW S \in SUBSET Sessions
  PROVE  IsFiniteSet(S) /\ Cardinality(S) \in Nat
<1>1. IsFiniteSet(Sessions)
  BY FS_Interval, SessionsAssumption DEF Sessions
<1> QED
  BY <1>1, FS_Subset, FS_CardinalityType

\* There are finitely many transfers, so the active ones can be counted.
LEMMA TasksFinite ==
  ASSUME NEW T \in SUBSET Tasks
  PROVE  IsFiniteSet(T) /\ Cardinality(T) \in Nat
<1>1. IsFiniteSet(Sessions) /\ IsFiniteSet(TransferIds)
  BY FS_Interval, SessionsAssumption, TransfersAssumption DEF Sessions, TransferIds
<1>2. IsFiniteSet(Tasks)
  BY <1>1, FS_Product DEF Tasks
<1> QED
  BY <1>2, FS_Subset, FS_CardinalityType

-----------------------------------------------------------------------------
(* The helpers of the actions.                                             *)

\* What start_queued_sftp_transfers, cancel and disconnect send is a command on
\* the channel of a connection that exists.
LEMMA SendType ==
  ASSUME TypeOK, NEW s \in Sessions, Reachable(s),
         NEW command \in Commands, Send(s, command)
  PROVE  commands' \in [Connections -> Seq(Commands)]
<1>1. <<s, handle[s]>> \in Connections
  BY DEF TypeOK, Reachable
<1>2. commands[<<s, handle[s]>>] \in Seq(Commands)
  BY <1>1 DEF TypeOK
<1>3. Append(commands[<<s, handle[s]>>], command) \in Seq(Commands)
  BY <1>2
<1> QED
  BY <1>1, <1>3 DEF TypeOK, Send

\* What a counter or a handle may start from.
LEMMA ZeroTypes ==
  0 \in 0..MaxConnections /\ NoHandle \in 0..MaxConnections /\ 1 \in 1..(MaxTransfers + 1)
BY ConnectionsAssumption, TransfersAssumption DEF NoHandle

LEMMA CommandTypes ==
  /\ [op |-> "Disconnect"] \in Commands
  /\ \A id \in TransferIds : [op |-> "CancelTransfer", id |-> id] \in Commands
  /\ \A id \in TransferIds, b \in BOOLEAN :
       [op |-> "Transfer", id |-> id, overwrite |-> b] \in Commands
BY DEF Commands

\* A task is a session and an id.
LEMMA TaskParts ==
  ASSUME NEW t \in Tasks
  PROVE  t[1] \in Sessions /\ t[2] \in TransferIds /\ t = <<t[1], t[2]>>
BY DEF Tasks

\* remove_session leaves nothing of the session behind.
LEMMA RemoveSessionKeeps ==
  ASSUME IInv, NEW s \in Sessions, RemoveSession(s),
         UNCHANGED <<nextSession, generation, overwrite, nextId, loopVars, limit, listening>>,
         commands' \in [Connections -> Seq(Commands)]
  PROVE  IInv'
<1> USE DEF IInv, RemoveSession, loopVars
<1>1. TypeOK'
  BY ConnectionsAssumption DEF TypeOK, LinkStates, TransferStates, NoHandle
<1>2. QueueConsistent'
  BY DEF TypeOK, QueueConsistent, NoHandle
<1> QED
  BY <1>1, <1>2

\* A request to disconnect touches the link and the command channel alone.
LEMMA RequestDisconnectKeeps ==
  ASSUME IInv, NEW s \in open, Reachable(s), RequestDisconnect(s),
         UNCHANGED <<nextSession, generation, overwrite, nextId, loopVars, limit, listening>>,
         closing' \subseteq open
  PROVE  IInv'
<1> USE DEF IInv, RequestDisconnect, loopVars
<1>1. commands' \in [Connections -> Seq(Commands)]
  BY SendType, CommandTypes DEF TypeOK
<1>2. TypeOK'
  BY <1>1 DEF TypeOK, LinkStates
<1>3. QueueConsistent'
  BY DEF TypeOK, QueueConsistent
<1> QED
  BY <1>2, <1>3

-----------------------------------------------------------------------------
(* The inductive invariant.                                                *)

LEMMA InitIInv == Init => IInv
<1> SUFFICES ASSUME Init PROVE IInv
  OBVIOUS
<1> USE DEF Init
<1>1. nextSession \in 1..(MaxSessions + 1)
  BY SessionsAssumption
<1>2. commands \in [Connections -> Seq(Commands)]
  OBVIOUS
<1>3. TypeOK
  BY <1>1, <1>2, ZeroTypes DEF TypeOK, LinkStates, TransferStates
<1>4. QueueConsistent
  BY DEF QueueConsistent
<1> QED
  BY <1>3, <1>4 DEF IInv

LEMMA WindowStep == ASSUME IInv, Window PROVE IInv'
<1> USE DEF IInv, queueVars, linkVars, windowVars, loopVars
<1>1. CASE OpenSession
  <2>1. nextSession' \in 1..(MaxSessions + 1)
    BY <1>1, SessionsAssumption DEF OpenSession, TypeOK, Sessions
  <2>2. TypeOK'
    BY <1>1, <2>1 DEF OpenSession, TypeOK
  <2>3. QueueConsistent'
    BY <1>1 DEF OpenSession, QueueConsistent
  <2> QED
    BY <2>2, <2>3
<1>2. ASSUME NEW s \in Sessions, StartConnection(s) PROVE IInv'
  BY <1>2, ConnectionsAssumption
  DEF StartConnection, TypeOK, QueueConsistent, LinkStates, Connections
<1>3. ASSUME NEW s \in Sessions, DisconnectSession(s) PROVE IInv'
  <2>1. CASE Reachable(s)
    BY <1>3, <2>1, RequestDisconnectKeeps
    DEF DisconnectSession, CanDisconnect, QueueConsistent, RequestDisconnect
  <2>2. CASE ~Reachable(s) /\ s \in closing
    BY <1>3, <2>2, RemoveSessionKeeps DEF DisconnectSession, TypeOK
  <2>3. CASE ~Reachable(s) /\ s \notin closing
    <3>1. TypeOK'
      BY <1>3, <2>3, ZeroTypes, ZenonT(60) DEF DisconnectSession, TypeOK, LinkStates
    <3>2. QueueConsistent'
      BY <1>3, <2>3 DEF DisconnectSession, TypeOK, QueueConsistent
    <3> QED
      BY <3>1, <3>2
  <2> QED
    BY <2>1, <2>2, <2>3
<1>4. ASSUME NEW s \in Sessions, CloseSession(s) PROVE IInv'
  <2>1. CASE CanDisconnect(s) /\ Reachable(s)
    BY <1>4, <2>1, RequestDisconnectKeeps DEF CloseSession, QueueConsistent
  <2>2. CASE ~(CanDisconnect(s) /\ Reachable(s))
    BY <1>4, <2>2, RemoveSessionKeeps DEF CloseSession, TypeOK
  <2> QED
    BY <2>1, <2>2
<1>5. ASSUME NEW n \in Limits, SetMaxParallelTransfers(n) PROVE IInv'
  BY <1>5 DEF SetMaxParallelTransfers, TypeOK, QueueConsistent
<1> QED
  BY <1>1, <1>2, <1>3, <1>4, <1>5 DEF Window

LEMMA UserStep == ASSUME IInv, User PROVE IInv'
<1> USE DEF IInv, linkVars, windowVars, loopVars, SetState
<1>1. ASSUME NEW s \in Sessions, Enqueue(s) PROVE IInv'
  <2>1. <<s, nextId[s]>> \in Tasks
    BY <1>1 DEF Enqueue, Tasks
  <2>2. TypeOK'
    BY <1>1, <2>1, TransfersAssumption DEF Enqueue, TypeOK, TransferIds, TransferStates
  <2>3. QueueConsistent'
    BY <1>1, <2>1, TaskParts DEF Enqueue, TypeOK, QueueConsistent, TransferIds
  <2> QED
    BY <2>2, <2>3
<1>2. ASSUME NEW s \in Sessions, ClearFinished(s) PROVE IInv'
  BY <1>2 DEF ClearFinished, TypeOK, QueueConsistent, TransferStates
<1>3. ASSUME NEW t \in Tasks, CancelWaiting(t) PROVE IInv'
  BY <1>3 DEF CancelWaiting, TypeOK, QueueConsistent, TransferStates, FinishedStates
<1>4. ASSUME NEW t \in Tasks, CancelRunning(t) PROVE IInv'
  <2>1. commands' \in [Connections -> Seq(Commands)]
    BY <1>4, SendType, CommandTypes, TaskParts DEF CancelRunning, TypeOK
  <2> QED
    BY <1>4, <2>1
    DEF CancelRunning, TypeOK, QueueConsistent, TransferStates, ActiveStates, FinishedStates
<1>5. ASSUME NEW t \in Tasks, ReplaceDestination(t) PROVE IInv'
  BY <1>5 DEF ReplaceDestination, TypeOK, QueueConsistent, TransferStates
<1> QED
  BY <1>1, <1>2, <1>3, <1>4, <1>5 DEF User

\* Taking a task moves the cursor within the window, which is not empty then.
LEMMA TakeTaskCursor ==
  ASSUME IInv, NEW t \in Tasks, TakeTask(t)
  PROVE  cursor' \in Nat
<1>1. t[1] \in open
  BY DEF IInv, QueueConsistent, TakeTask, IsNextQueued, Queued
<1>2. Cardinality(open) \in Nat /\ Cardinality(open) # 0
  BY <1>1, SessionsFinite, FS_EmptySet DEF IInv, TypeOK
<1>3. Position(t[1]) \in Nat
  BY SessionsFinite DEF Position, IInv, TypeOK
<1> QED
  BY <1>2, <1>3 DEF TakeTask

LEMMA LoopStep == ASSUME IInv, Loop PROVE IInv'
<1> USE DEF IInv, queueVars, linkVars, windowVars, SetState
<1>1. ASSUME NEW t \in Tasks, StartTask(t) PROVE IInv'
  <2>1. commands' \in [Connections -> Seq(Commands)]
    BY <1>1, SendType, CommandTypes, TaskParts DEF StartTask, TypeOK
  <2>2. cursor' \in Nat
    BY <1>1, TakeTaskCursor DEF StartTask
  <2>3. state[t] = "Queued"
    BY <1>1 DEF StartTask, TakeTask, IsNextQueued, Queued
  <2> QED
    BY <1>1, <2>1, <2>2, <2>3
    DEF StartTask, TakeTask, TypeOK, QueueConsistent, TransferStates, ActiveStates
<1>2. ASSUME NEW t \in Tasks, RefuseTask(t) PROVE IInv'
  <2>1. cursor' \in Nat
    BY <1>2, TakeTaskCursor DEF RefuseTask
  <2>2. state[t] = "Queued"
    BY <1>2 DEF RefuseTask, TakeTask, IsNextQueued, Queued
  <2> QED
    BY <1>2, <2>1, <2>2
    DEF RefuseTask, TakeTask, TypeOK, QueueConsistent, TransferStates, FinishedStates
<1>3. CASE EndScheduling
  BY <1>3 DEF EndScheduling, TypeOK, QueueConsistent
<1> QED
  BY <1>1, <1>2, <1>3 DEF Loop

\* A transfer event changes no task but one that the queue has.
LEMMA TransferEventKeeps ==
  ASSUME IInv, NEW t \in Tasks,
         NEW accepted \in SUBSET (TransferStates \ {"Absent"}), NEW to \in TransferStates,
         HandleTransferEvent(t, accepted, to), scheduling' \in BOOLEAN
  PROVE  IInv'
BY DEF IInv, HandleTransferEvent, TypeOK, QueueConsistent, linkVars, windowVars

LEMMA ReportStep == ASSUME IInv, Report PROVE IInv'
<1> USE DEF IInv, queueVars, windowVars, loopVars
<1>1. ASSUME NEW s \in Sessions, NEW reported \in LinkStates, HandleStateChanged(s, reported)
      PROVE  IInv'
  BY <1>1 DEF HandleStateChanged, TypeOK, QueueConsistent
<1>2. ASSUME NEW s \in Sessions, HandleDisconnected(s) PROVE IInv'
  <2>1. CASE s \in closing
    BY <1>2, <2>1, RemoveSessionKeeps DEF HandleDisconnected, TypeOK
  <2>2. CASE s \notin closing
    <3>1. TypeOK'
      <4>1. state' \in [Tasks -> TransferStates]
        BY <1>2, <2>2
        DEF HandleDisconnected, AfterFailPending, TypeOK, TransferStates, FinishedStates
      <4> QED
        BY <1>2, <2>2, <4>1, ZeroTypes, ZenonT(60) DEF HandleDisconnected, TypeOK, LinkStates
    <3>2. QueueConsistent'
      BY <1>2, <2>2
      DEF HandleDisconnected, AfterFailPending, TypeOK, QueueConsistent, NoHandle
    <3> QED
      BY <3>1, <3>2
  <2> QED
    BY <2>1, <2>2
<1>3. ASSUME NEW s \in Sessions, HandleFailed(s) PROVE IInv'
  BY <1>2, <1>3 DEF HandleFailed
<1>4. ASSUME NEW t \in Tasks, \/ HandleConflict(t) \/ HandleCompleted(t)
                              \/ HandleCancelled(t) \/ HandleTransferFailed(t)
      PROVE  IInv'
  <2> USE DEF TransferStates, ActiveStates, FinishedStates, UnfinishedStates
  <2>1. CASE HandleConflict(t)
    BY <2>1, TransferEventKeeps DEF HandleConflict
  <2>2. CASE HandleCompleted(t)
    BY <2>2, TransferEventKeeps DEF HandleCompleted
  <2>3. CASE HandleCancelled(t)
    BY <2>3, TransferEventKeeps DEF HandleCancelled
  <2>4. CASE HandleTransferFailed(t)
    BY <2>4, TransferEventKeeps DEF HandleTransferFailed
  <2> QED
    BY <1>4, <2>1, <2>2, <2>3, <2>4
<1>5. Started \subseteq Sessions /\ Started \X TransferIds \subseteq Tasks
  BY DEF Started, Tasks
<1> QED
  BY <1>1, <1>2, <1>3, <1>4, <1>5 DEF Report

LEMMA WorkerStep == ASSUME IInv, Worker PROVE IInv'
<1> USE DEF IInv, queueVars, linkVars, windowVars, loopVars
<1>1. ASSUME NEW c \in Connections, WorkerTakesCommand(c) PROVE IInv'
  <2>1. Tail(commands[c]) \in Seq(Commands)
    BY <1>1 DEF WorkerTakesCommand, TypeOK
  <2> QED
    BY <1>1, <2>1 DEF WorkerTakesCommand, TypeOK, QueueConsistent
<1>2. ASSUME NEW c \in Connections, WorkerStops(c) PROVE IInv'
  BY <1>2 DEF WorkerStops, TypeOK, QueueConsistent
<1> QED
  BY <1>1, <1>2 DEF Worker

LEMMA NextIInv == IInv /\ [Next]_vars => IInv'
<1> SUFFICES ASSUME IInv, [Next]_vars PROVE IInv'
  OBVIOUS
<1>1. CASE Next
  BY <1>1, WindowStep, UserStep, LoopStep, ReportStep, WorkerStep DEF Next
<1>2. CASE UNCHANGED vars
  BY <1>2 DEF vars, IInv, TypeOK, QueueConsistent
<1> QED
  BY <1>1, <1>2

\* The invariant holds in every reachable state.
LEMMA Invariance == Spec => []IInv
<1>1. Init => IInv
  BY InitIInv
<1>2. IInv /\ [Next]_vars => IInv'
  BY NextIInv
<1> QED
  BY <1>1, <1>2, PTL DEF Spec

\* Every variable of the queues and the scheduler keeps its type.
THEOREM TypeCorrectness == Spec => []TypeOK
<1>1. IInv => TypeOK
  BY DEF IInv
<1> QED
  BY <1>1, Invariance, PTL

\* A task lives only in a session that is in the window and under an id that
\* has been given; a session that has left commands no connection.
THEOREM Consistency == Spec => []QueueConsistent
<1>1. IInv => QueueConsistent
  BY DEF IInv
<1> QED
  BY <1>1, Invariance, PTL

-----------------------------------------------------------------------------
(* The limit.                                                              *)

\* No handler but the scheduler's StartTask makes a task active.
LEMMA OnlyStartActivates ==
  ASSUME IInv, [Next]_vars, \A t \in Tasks : ~StartTask(t)
  PROVE  Active' \subseteq Active
<1> USE DEF IInv, Active, ActiveStates, SetState, RemoveSession, RequestDisconnect, queueVars
<1>1. CASE Window
  BY <1>1 DEF Window, OpenSession, StartConnection, DisconnectSession, CloseSession,
              SetMaxParallelTransfers, TypeOK
<1>2. CASE User
  BY <1>2 DEF User, Enqueue, ClearFinished, CancelWaiting, CancelRunning,
              ReplaceDestination, TypeOK
<1>3. CASE Loop
  BY <1>3 DEF Loop, RefuseTask, EndScheduling, TypeOK
<1>4. CASE Report
  BY <1>4 DEF Report, HandleStateChanged, HandleDisconnected, HandleFailed, AfterFailPending,
              HandleTransferEvent, HandleConflict, HandleCompleted, HandleCancelled,
              HandleTransferFailed, TypeOK
<1>5. CASE Worker
  BY <1>5 DEF Worker, WorkerTakesCommand, WorkerStops
<1>6. CASE UNCHANGED vars
  BY <1>6 DEF vars
<1> QED
  BY <1>1, <1>2, <1>3, <1>4, <1>5, <1>6 DEF Next

\* StartTask adds one task where fewer than `limit` are active.
LEMMA StartFindsSlot ==
  ASSUME IInv, NEW t \in Tasks, StartTask(t)
  PROVE  Cardinality(Active') <= limit'
<1>1. Active' = Active \union {t}
  BY DEF StartTask, TakeTask, IsNextQueued, Queued, SetState, Active, ActiveStates, IInv, TypeOK
<1>2. IsFiniteSet(Active) /\ Cardinality(Active) \in Nat
  BY TasksFinite DEF Active
<1>3. Cardinality(Active') <= Cardinality(Active) + 1
  BY <1>1, <1>2, FS_AddElement
<1>4. Cardinality(Active) < limit /\ limit' = limit /\ limit \in Nat
  BY LimitsAssumption DEF StartTask, TakeTask, IInv, TypeOK
<1>5. Cardinality(Active') \in Nat
  BY <1>1, <1>2, FS_AddElement, SMTT(30)
<1> QED
  BY <1>2, <1>3, <1>4, <1>5

\* max_parallel_transfers bounds the running transfers of all sessions together:
\* a step that adds one never exceeds the limit in force.
THEOREM LimitRespected == Spec => ActiveNeverGrowsPastLimit
<1> DEFINE A == Cardinality(Active') > Cardinality(Active) => Cardinality(Active') <= limit'
<1>1. IInv /\ [Next]_vars => A
  <2> SUFFICES ASSUME IInv, [Next]_vars PROVE A
    OBVIOUS
  <2>1. CASE \E t \in Tasks : StartTask(t)
    BY <2>1, StartFindsSlot
  <2>2. CASE \A t \in Tasks : ~StartTask(t)
    <3>1. Active' \subseteq Active
      BY <2>2, OnlyStartActivates
    <3>2. IsFiniteSet(Active) /\ Cardinality(Active) \in Nat
      BY TasksFinite DEF Active
    <3>3. Cardinality(Active') <= Cardinality(Active) /\ Cardinality(Active') \in Nat
      BY <3>1, <3>2, FS_Subset, FS_CardinalityType
    <3> QED
      BY <3>2, <3>3
  <2> QED
    BY <2>1, <2>2
<1> QED
  BY <1>1, Invariance, PTL DEF Spec, ActiveNeverGrowsPastLimit

-----------------------------------------------------------------------------
(* Settled transfers.                                                      *)

\* A step that leaves the queues alone settles nothing and revives nothing.
LEMMA SameState == ASSUME state' = state PROVE SettledStep
BY DEF SettledStep

LEMMA NextSettled == ASSUME IInv, [Next]_vars PROVE SettledStep
<1> USE DEF IInv, TypeOK, FinishedStates, SetState, RemoveSession, RequestDisconnect, queueVars
<1>1. CASE Window
  BY <1>1 DEF SettledStep, Window, OpenSession, StartConnection, DisconnectSession,
              CloseSession, SetMaxParallelTransfers
<1>2. CASE User
  <2>1. ASSUME NEW s \in Sessions, Enqueue(s) PROVE SettledStep
    <3>1. <<s, nextId[s]>> \in Tasks
      BY <2>1 DEF Enqueue, Tasks
    <3>2. state[<<s, nextId[s]>>] = "Absent"
      BY <2>1, <3>1, TaskParts DEF Enqueue, QueueConsistent, TransferIds
    <3>3. ASSUME NEW t \in Tasks, t # <<s, nextId[s]>> PROVE state'[t] = state[t]
      BY <2>1, <3>1, <3>3 DEF Enqueue
    <3>4. nextId[s] \in Nat /\ ~(nextId[s] < nextId[s])
      OBVIOUS
    <3>5. ASSUME NEW t \in Tasks, t = <<s, nextId[s]>>
          PROVE  state[t] = "Absent" /\ ~(t[2] < nextId[t[1]])
      BY <3>2, <3>4, <3>5
    <3> QED
      BY <3>3, <3>5 DEF SettledStep
  <2>2. ASSUME NEW s \in Sessions, ClearFinished(s) PROVE SettledStep
    BY <2>2 DEF ClearFinished, SettledStep
  <2>3. ASSUME NEW t \in Tasks, CancelWaiting(t) \/ CancelRunning(t) \/ ReplaceDestination(t)
        PROVE  SettledStep
    BY <2>3 DEF CancelWaiting, CancelRunning, ReplaceDestination, SettledStep
  <2> QED
    BY <1>2, <2>1, <2>2, <2>3 DEF User
<1>3. CASE Loop
  BY <1>3 DEF SettledStep, Loop, StartTask, RefuseTask, EndScheduling, TakeTask,
              IsNextQueued, Queued
<1>4. CASE Report
  BY <1>4 DEF SettledStep, Report, HandleStateChanged, HandleDisconnected, HandleFailed,
              AfterFailPending, HandleTransferEvent, HandleConflict, HandleCompleted,
              HandleCancelled, HandleTransferFailed, ActiveStates, UnfinishedStates, TransferStates
<1>5. CASE Worker
  BY <1>5, SameState DEF Worker, WorkerTakesCommand, WorkerStops
<1>6. CASE UNCHANGED vars
  BY <1>6, SameState DEF vars
<1> QED
  BY <1>1, <1>2, <1>3, <1>4, <1>5, <1>6 DEF Next

\* Late and duplicate reports of an attempt that has ended find nothing to change,
\* and an id is never given twice.
THEOREM Settlement == Spec => SettledForGood
<1>1. IInv /\ [Next]_vars => SettledStep
  BY NextSettled
<1> QED
  BY <1>1, Invariance, PTL DEF Spec, SettledForGood

-----------------------------------------------------------------------------
(* The scheduler.                                                          *)

\* A step that touches neither the tasks nor the limit nor the loop stalls nothing.
LEMMA SameQueue ==
  ASSUME Active' = Active, Queued' = Queued, limit' = limit, scheduling' = scheduling
  PROVE  RefilledStep
BY DEF RefilledStep, Stalled

\* While the loop turns, the scheduler is not at rest.
LEMMA LoopTurns == ASSUME scheduling' = TRUE PROVE RefilledStep
BY DEF RefilledStep, Stalled

\* A session that loses its connection and all its unfinished tasks: either it had active ones, or
\* no slot is freed.
LEMMA LosingSession ==
  ASSUME IInv, NEW s \in Sessions, limit' = limit, scheduling' = scheduling,
         link'[s] = "Idle", handle'[s] = NoHandle,
         \A t \in Tasks : t[1] # s => state'[t] = state[t],
         \A t \in Tasks : t[1] = s => state'[t] \in FinishedStates \union {"Absent"}
  PROVE  RefilledStep
<1>1. CASE \E t \in TasksOf(s) : t \in Active
  <2>1. SessionLost(s)
    BY <1>1 DEF SessionLost, TasksOf
  <2> QED
    BY <2>1 DEF RefilledStep
<1>2. CASE \A t \in TasksOf(s) : t \notin Active
  <2>1. Active' = Active
    BY <1>2 DEF Active, TasksOf, ActiveStates, FinishedStates
  <2>2. Queued' \subseteq Queued
    BY DEF Queued, FinishedStates
  <2> QED
    BY <2>1, <2>2 DEF RefilledStep, Stalled
<1> QED
  BY <1>1, <1>2

LEMMA NextRefilled == ASSUME IInv, [Next]_vars PROVE RefilledStep
<1> USE DEF IInv, TypeOK, queueVars, loopVars
<1>1. ASSUME NEW s \in Sessions, RemoveSession(s), UNCHANGED <<limit, scheduling>>
      PROVE  RefilledStep
  BY <1>1, LosingSession DEF RemoveSession
<1>2. ASSUME UNCHANGED <<state, limit, scheduling>> PROVE RefilledStep
  BY <1>2, SameQueue DEF Active, Queued
<1>3. CASE Window
  BY <1>1, <1>2, <1>3, LoopTurns
  DEF Window, OpenSession, StartConnection, DisconnectSession, CloseSession, RequestDisconnect,
      SetMaxParallelTransfers
<1>4. CASE User
  <2>1. ASSUME NEW s \in Sessions, ClearFinished(s) PROVE RefilledStep
    <3>1. Active' = Active /\ Queued' = Queued
      BY <2>1 DEF ClearFinished, Active, Queued, ActiveStates, FinishedStates
    <3> QED
      BY <2>1, <3>1, SameQueue DEF ClearFinished
  <2>2. ASSUME NEW t \in Tasks, CancelRunning(t) PROVE RefilledStep
    <3>1. CASE scheduling' = TRUE
      BY <3>1, LoopTurns
    <3>2. CASE SetState(t, "Cancelling") /\ UNCHANGED scheduling
      <4>1. Active' = Active /\ Queued' = Queued
        BY <2>2, <3>2 DEF CancelRunning, SetState, Active, Queued, ActiveStates
      <4> QED
        BY <2>2, <3>2, <4>1, SameQueue DEF CancelRunning
    <3> QED
      BY <2>2, <3>1, <3>2 DEF CancelRunning
  <2> QED
    BY <1>4, <2>1, <2>2, LoopTurns DEF User, Enqueue, CancelWaiting, ReplaceDestination
<1>5. CASE Loop
  <2>1. CASE EndScheduling
    BY <2>1, TasksFinite, LimitsAssumption
    DEF EndScheduling, RefilledStep, Stalled, Active, Queued
  <2> QED
    BY <1>5, <2>1, LoopTurns DEF Loop, StartTask, RefuseTask, TakeTask
<1>6. CASE Report
  <2>1. ASSUME NEW s \in Sessions, HandleDisconnected(s) PROVE RefilledStep
    <3>1. CASE s \in closing
      BY <1>1, <2>1, <3>1 DEF HandleDisconnected
    <3>2. CASE s \notin closing
      <4>1. ASSUME NEW t \in Tasks
            PROVE  /\ t[1] # s => state'[t] = state[t]
                   /\ t[1] = s => state'[t] \in FinishedStates \union {"Absent"}
        BY <2>1, <3>2, <4>1 DEF HandleDisconnected, AfterFailPending, FinishedStates
      <4>2. /\ limit' = limit /\ scheduling' = scheduling
            /\ link'[s] = "Idle" /\ handle'[s] = NoHandle
        BY <2>1, <3>2 DEF HandleDisconnected
      <4> QED
        BY <4>1, <4>2, LosingSession
    <3> QED
      BY <3>1, <3>2
  <2>2. ASSUME NEW t \in Tasks, HandleCompleted(t) PROVE RefilledStep
    <3>1. CASE state[t] \in ActiveStates
      BY <2>2, <3>1, LoopTurns DEF HandleCompleted
    <3>2. CASE state[t] \notin ActiveStates
      BY <1>2, <2>2, <3>2 DEF HandleCompleted, HandleTransferEvent
    <3> QED
      BY <3>1, <3>2
  <2>3. Started \subseteq Sessions /\ Started \X TransferIds \subseteq Tasks
    BY DEF Started, Tasks
  <2>4. ASSUME NEW t \in Tasks, HandleConflict(t) \/ HandleCancelled(t) \/ HandleTransferFailed(t)
        PROVE  RefilledStep
    BY <2>4, LoopTurns DEF HandleConflict, HandleCancelled, HandleTransferFailed
  <2>5. ASSUME NEW s \in Sessions, NEW reported, HandleStateChanged(s, reported)
        PROVE  RefilledStep
    BY <1>2, <2>5 DEF HandleStateChanged
  <2> QED
    BY <1>6, <2>1, <2>2, <2>3, <2>4, <2>5 DEF Report, HandleFailed
<1>7. CASE Worker
  BY <1>2, <1>7 DEF Worker, WorkerTakesCommand, WorkerStops
<1>8. CASE UNCHANGED vars
  BY <1>2, <1>8 DEF vars
<1> QED
  BY <1>3, <1>4, <1>5, <1>6, <1>7, <1>8 DEF Next

\* Slots do not stay empty beside Queued tasks, but for the slots of a lost session.
THEOREM Refill == Spec => SlotsRefilled
<1>1. IInv /\ [Next]_vars => RefilledStep
  BY NextRefilled
<1> QED
  BY <1>1, Invariance, PTL DEF Spec, SlotsRefilled

-----------------------------------------------------------------------------
(* The refinement of TransferPromise.                                      *)

PhaseMap == [t \in Tasks |-> PhaseOf(t)]

\* The promise's Advance, in terms of the phases of single tasks.
LEMMA AdvanceStep ==
  ASSUME NEW S \in SUBSET Tasks, NEW from, NEW to,
         \A t \in S : PhaseOf(t) \in from /\ PhaseOf(t)' = to,
         \A t \in Tasks \ S : PhaseOf(t)' = PhaseOf(t),
         limit' = limit
  PROVE  Promise!Advance(S, from, to)
<1>1. PhaseMap' = [t \in Tasks |-> IF t \in S THEN to ELSE PhaseMap[t]]
  BY DEF PhaseMap
<1> QED
  BY <1>1 DEF PhaseMap, Promise!Advance

\* A task whose entry does not change stays in its phase.
LEMMA PhaseKept ==
  ASSUME NEW t \in Tasks, state'[t] = state[t], nextId'[t[1]] = nextId[t[1]]
  PROVE  PhaseOf(t)' = PhaseOf(t)
BY DEF PhaseOf

\* The phase that a task's state stands for, when its id has been given.
LEMMA Phases ==
  ASSUME IInv, NEW t \in Tasks
  PROVE  /\ state[t] = "Queued" => PhaseOf(t) = "Waiting"
         /\ state[t] \in ActiveStates => PhaseOf(t) = "Active"
         /\ state[t] = "Conflict" => PhaseOf(t) = "Asking"
         /\ state[t] \in FinishedStates => PhaseOf(t) = "Settled"
         /\ state[t] = "Absent" /\ t[2] < nextId[t[1]] => PhaseOf(t) = "Gone"
         /\ state[t] = "Absent" /\ ~(t[2] < nextId[t[1]]) => PhaseOf(t) = "Unborn"
         /\ state[t] \in UnfinishedStates => PhaseOf(t) \in Promise!Pending
         /\ state[t] # "Absent" => t[2] < nextId[t[1]]
BY DEF PhaseOf, ActiveStates, FinishedStates, UnfinishedStates, TransferStates,
       Promise!Pending, IInv, TypeOK, QueueConsistent

\* A step of one task.
LEMMA OneTask ==
  ASSUME IInv, NEW t \in Tasks, NEW from, NEW to, NEW into \in TransferStates,
         SetState(t, into), UNCHANGED <<nextId, limit>>,
         PhaseOf(t) \in from, PhaseOf(t)' = to
  PROVE  Promise!Advance({t}, from, to)
<1>1. ASSUME NEW u \in Tasks \ {t} PROVE PhaseOf(u)' = PhaseOf(u)
  BY PhaseKept DEF SetState, IInv, TypeOK
<1> QED
  BY <1>1, AdvanceStep

\* A step that changes no phase.
LEMMA NoTask ==
  ASSUME \A t \in Tasks : PhaseOf(t)' = PhaseOf(t), limit' = limit
  PROVE  UNCHANGED <<PhaseMap, limit>>
BY DEF PhaseMap

\* TransferPromise counts with the same Cardinality.
LEMMA SameCardinality == \A S : Promise!Cardinality(S) = Cardinality(S)
BY DEF Cardinality, Promise!Cardinality

PromiseStep == [Promise!PromiseNext]_<<PhaseMap, limit>>

LEMMA Untouched == ASSUME UNCHANGED <<state, nextId, limit>> PROVE PromiseStep
BY PhaseKept, NoTask DEF PromiseStep

LEMMA SubmitStep ==
  ASSUME IInv, IInv', NEW s \in Sessions, Enqueue(s)
  PROVE  PromiseStep
<1>1. PICK t \in Tasks : t = <<s, nextId[s]>> /\ t[1] = s /\ t[2] = nextId[s]
  BY DEF Enqueue, Tasks
<1>2. nextId[s] \in Nat /\ nextId' = [nextId EXCEPT ![s] = @ + 1] /\ limit' = limit
  BY DEF Enqueue, IInv, TypeOK
<1>3. PhaseOf(t) = "Unborn"
  BY <1>1, <1>2, Phases
<1>4. PhaseOf(t)' = "Waiting"
  <2>1. state'[t] = "Queued"
    BY <1>1 DEF Enqueue, SetState, IInv, TypeOK
  <2> QED
    BY <2>1 DEF PhaseOf, ActiveStates, FinishedStates
<1>5. ASSUME NEW u \in Tasks \ {t} PROVE PhaseOf(u)' = PhaseOf(u)
  <2>1. state'[u] = state[u]
    BY <1>1, <1>5 DEF Enqueue, SetState, IInv, TypeOK
  <2>2. u[1] \in Sessions /\ u[2] \in Nat /\ u = <<u[1], u[2]>>
    BY TaskParts DEF TransferIds
  <2>3. CASE u[1] # s
    BY <1>2, <2>1, <2>2, <2>3, PhaseKept DEF IInv, TypeOK
  <2>4. CASE u[1] = s
    <3>1. u[2] # nextId[s]
      BY <1>1, <1>5, <2>2, <2>4
    <3>2. nextId'[u[1]] = nextId[s] + 1
      BY <1>2, <2>4 DEF IInv, TypeOK
    <3>3. u[2] < nextId'[u[1]] <=> u[2] < nextId[u[1]]
      BY <1>2, <2>2, <2>4, <3>1, <3>2
    <3> QED
      BY <2>1, <3>3 DEF PhaseOf
  <2> QED
    BY <2>3, <2>4
<1>6. Promise!Submit(t)
  BY <1>1, <1>2, <1>3, <1>4, <1>5, AdvanceStep DEF Promise!Submit
<1> QED
  BY <1>1, <1>6 DEF PromiseStep, Promise!PromiseNext

\* Tasks that leave the queue: cleared, or gone with their session.
LEMMA ForgetStep ==
  ASSUME IInv, NEW S \in SUBSET Tasks,
         \A t \in S : state[t] # "Absent",
         state' = [t \in Tasks |-> IF t \in S THEN "Absent" ELSE state[t]],
         UNCHANGED <<nextId, limit>>
  PROVE  PromiseStep
<1>1. ASSUME NEW t \in S PROVE PhaseOf(t) \in Promise!Pending \union {"Settled"}
  BY <1>1, Phases DEF IInv, TypeOK, UnfinishedStates, TransferStates
<1>2. ASSUME NEW t \in S PROVE PhaseOf(t)' = "Gone"
  <2>1. state'[t] = "Absent" /\ t[2] < nextId'[t[1]]
    BY <1>2, Phases
  <2> QED
    BY <2>1 DEF PhaseOf, ActiveStates, FinishedStates
<1>3. ASSUME NEW t \in Tasks \ S PROVE PhaseOf(t)' = PhaseOf(t)
  BY <1>3, PhaseKept
<1>4. Promise!Forget(S)
  BY <1>1, <1>2, <1>3, AdvanceStep DEF Promise!Forget
<1> QED
  BY <1>4 DEF PromiseStep, Promise!PromiseNext

\* Tasks that end, by an event, a refusal, a cancellation or a lost session.
LEMMA SettleStep ==
  ASSUME IInv, NEW S \in SUBSET Tasks, NEW ending \in FinishedStates,
         \A t \in S : state[t] \in UnfinishedStates,
         state' = [t \in Tasks |-> IF t \in S THEN ending ELSE state[t]],
         UNCHANGED <<nextId, limit>>
  PROVE  PromiseStep
<1>1. ASSUME NEW t \in S PROVE PhaseOf(t) \in Promise!Pending
  BY <1>1, Phases
<1>2. ASSUME NEW t \in S PROVE PhaseOf(t)' = "Settled"
  <2>1. state'[t] = ending
    BY <1>2
  <2> QED
    BY <2>1 DEF PhaseOf, FinishedStates, ActiveStates
<1>3. ASSUME NEW t \in Tasks \ S PROVE PhaseOf(t)' = PhaseOf(t)
  BY <1>3, PhaseKept
<1>4. Promise!Settle(S)
  BY <1>1, <1>2, <1>3, AdvanceStep DEF Promise!Settle
<1> QED
  BY <1>4 DEF PromiseStep, Promise!PromiseNext

\* The same for one task.
LEMMA SettleOne ==
  ASSUME IInv, NEW t \in Tasks, NEW ending \in FinishedStates,
         state[t] \in UnfinishedStates, SetState(t, ending), UNCHANGED <<nextId, limit>>
  PROVE  PromiseStep
<1>1. state' = [u \in Tasks |-> IF u \in {t} THEN ending ELSE state[u]]
  BY DEF SetState, IInv, TypeOK
<1> QED
  BY <1>1, SettleStep

LEMMA WindowPromise == ASSUME IInv, Window PROVE PromiseStep
<1> USE DEF queueVars
<1>1. ASSUME NEW s \in Sessions, RemoveSession(s), UNCHANGED <<nextId, limit>>
      PROVE  PromiseStep
  <2> DEFINE S == {t \in TasksOf(s) : state[t] # "Absent"}
  <2>1. state' = [t \in Tasks |-> IF t \in S THEN "Absent" ELSE state[t]]
    BY <1>1 DEF RemoveSession, TasksOf, IInv, TypeOK
  <2>2. S \in SUBSET Tasks /\ \A t \in S : state[t] # "Absent"
    BY DEF TasksOf
  <2> HIDE DEF S
  <2> QED
    BY <1>1, <2>1, <2>2, ForgetStep
<1>2. ASSUME NEW s \in Sessions, DisconnectSession(s) \/ CloseSession(s) PROVE PromiseStep
  BY <1>1, <1>2, Untouched DEF DisconnectSession, CloseSession, RequestDisconnect
<1>3. ASSUME NEW n \in Limits, SetMaxParallelTransfers(n) PROVE PromiseStep
  <2>1. PhaseMap' = PhaseMap
    BY <1>3, PhaseKept DEF SetMaxParallelTransfers, PhaseMap
  <2>2. Promise!ChangeSlots(n)
    BY <1>3, <2>1 DEF SetMaxParallelTransfers, Promise!ChangeSlots, PhaseMap
  <2> QED
    BY <2>2 DEF PromiseStep, Promise!PromiseNext
<1> QED
  BY <1>2, <1>3, Untouched DEF Window, OpenSession, StartConnection

LEMMA UserPromise == ASSUME IInv, IInv', User PROVE PromiseStep
<1>1. ASSUME NEW s \in Sessions, ClearFinished(s) PROVE PromiseStep
  <2> DEFINE S == {t \in TasksOf(s) : state[t] \in FinishedStates}
  <2>1. state' = [t \in Tasks |-> IF t \in S THEN "Absent" ELSE state[t]]
    BY <1>1 DEF ClearFinished, TasksOf, IInv, TypeOK
  <2>2. S \in SUBSET Tasks /\ \A t \in S : state[t] # "Absent"
    BY DEF TasksOf, FinishedStates
  <2>3. UNCHANGED <<nextId, limit>>
    BY <1>1 DEF ClearFinished
  <2> HIDE DEF S
  <2> QED
    BY <2>1, <2>2, <2>3, ForgetStep
<1>2. ASSUME NEW t \in Tasks, CancelWaiting(t) PROVE PromiseStep
  BY <1>2, SettleOne DEF CancelWaiting, FinishedStates, UnfinishedStates, TransferStates
<1>3. ASSUME NEW t \in Tasks, CancelRunning(t) PROVE PromiseStep
  <2>1. UNCHANGED <<nextId, limit>> /\ state[t] = "Running"
    BY <1>3 DEF CancelRunning
  <2>2. CASE SetState(t, "Failed")
    BY <2>1, <2>2, SettleOne
    DEF FinishedStates, UnfinishedStates, TransferStates, ActiveStates
  <2>3. CASE SetState(t, "Cancelling")
    <3>1. ASSUME NEW u \in Tasks PROVE PhaseOf(u)' = PhaseOf(u)
      <4>1. CASE u = t
        BY <2>1, <2>3, <4>1 DEF SetState, PhaseOf, ActiveStates, FinishedStates, IInv, TypeOK
      <4>2. CASE u # t
        BY <2>1, <2>3, <4>2, PhaseKept DEF SetState, IInv, TypeOK
      <4> QED
        BY <4>1, <4>2
    <3> QED
      BY <2>1, <3>1, NoTask DEF PromiseStep
  <2> QED
    BY <1>3, <2>2, <2>3 DEF CancelRunning
<1>4. ASSUME NEW t \in Tasks, ReplaceDestination(t) PROVE PromiseStep
  <2>1. SetState(t, "Queued") /\ UNCHANGED <<nextId, limit>> /\ PhaseOf(t) = "Asking"
    BY <1>4, Phases DEF ReplaceDestination
  <2>2. PhaseOf(t)' = "Waiting"
    <3>1. state'[t] = "Queued"
      BY <2>1 DEF SetState, IInv, TypeOK
    <3> QED
      BY <3>1 DEF PhaseOf, ActiveStates, FinishedStates
  <2>3. Promise!Retry(t)
    BY <2>1, <2>2, OneTask DEF Promise!Retry, TransferStates
  <2> QED
    BY <2>3 DEF PromiseStep, Promise!PromiseNext
<1> QED
  BY <1>1, <1>2, <1>3, <1>4, SubmitStep DEF User

LEMMA LoopPromise == ASSUME IInv, Loop PROVE PromiseStep
<1>1. ASSUME NEW t \in Tasks, TakeTask(t)
      PROVE  state[t] = "Queued" /\ UNCHANGED <<nextId, limit>> /\ Cardinality(Active) < limit
  BY <1>1 DEF TakeTask, IsNextQueued, Queued
<1>2. ASSUME NEW t \in Tasks, StartTask(t) PROVE PromiseStep
  <2>1. PhaseOf(t) = "Waiting" /\ SetState(t, "Running") /\ UNCHANGED <<nextId, limit>>
    BY <1>1, <1>2, Phases DEF StartTask
  <2>2. PhaseOf(t)' = "Active"
    <3>1. state'[t] = "Running"
      BY <2>1 DEF SetState, IInv, TypeOK
    <3> QED
      BY <3>1 DEF PhaseOf, ActiveStates, FinishedStates
  <2>3. Promise!Occupied = Active
    BY Phases DEF Promise!Occupied, Active, PhaseOf, ActiveStates, FinishedStates,
                  IInv, TypeOK, TransferStates
  <2>4. Cardinality(Promise!Occupied) < limit
    BY <1>1, <1>2, <2>3 DEF StartTask
  <2>5. Promise!Advance({t}, {"Waiting"}, "Active")
    BY <2>1, <2>2, OneTask DEF TransferStates, ActiveStates
  <2>6. Promise!Start(t)
    BY <2>4, <2>5, SameCardinality DEF Promise!Start
  <2> QED
    BY <2>6 DEF PromiseStep, Promise!PromiseNext
<1>3. ASSUME NEW t \in Tasks, RefuseTask(t) PROVE PromiseStep
  BY <1>1, <1>3, SettleOne DEF RefuseTask, FinishedStates, UnfinishedStates, TransferStates
<1>4. CASE EndScheduling
  BY <1>4, Untouched DEF EndScheduling, queueVars
<1> QED
  BY <1>2, <1>3, <1>4 DEF Loop

LEMMA ReportPromise == ASSUME IInv, Report PROVE PromiseStep
<1>1. ASSUME NEW s \in Sessions, HandleDisconnected(s) PROVE PromiseStep
  <2>1. CASE s \in closing
    <3> DEFINE S == {t \in TasksOf(s) : state[t] # "Absent"}
    <3>1. state' = [t \in Tasks |-> IF t \in S THEN "Absent" ELSE state[t]]
      BY <1>1, <2>1 DEF HandleDisconnected, RemoveSession, TasksOf, IInv, TypeOK
    <3>2. S \in SUBSET Tasks /\ \A t \in S : state[t] # "Absent"
      BY DEF TasksOf
    <3>3. UNCHANGED <<nextId, limit>>
      BY <1>1 DEF HandleDisconnected
    <3> HIDE DEF S
    <3> QED
      BY <3>1, <3>2, <3>3, ForgetStep
  <2>2. CASE s \notin closing
    <3> DEFINE S == {t \in TasksOf(s) : state[t] \in UnfinishedStates}
    <3>1. state' = [t \in Tasks |-> IF t \in S THEN "Failed" ELSE state[t]]
      BY <1>1, <2>2 DEF HandleDisconnected, AfterFailPending, TasksOf, UnfinishedStates,
                        IInv, TypeOK
    <3>2. S \in SUBSET Tasks /\ \A t \in S : state[t] \in UnfinishedStates
      BY DEF TasksOf
    <3>3. UNCHANGED <<nextId, limit>> /\ "Failed" \in FinishedStates
      BY <1>1 DEF HandleDisconnected, FinishedStates
    <3> HIDE DEF S
    <3> QED
      BY <3>1, <3>2, <3>3, SettleStep
  <2> QED
    BY <2>1, <2>2
<1>2. ASSUME NEW t \in Tasks, NEW accepted \in SUBSET UnfinishedStates,
             NEW ending \in FinishedStates, HandleTransferEvent(t, accepted, ending)
      PROVE  PromiseStep
  <2>1. UNCHANGED <<nextId, limit>>
    BY <1>2 DEF HandleTransferEvent
  <2>2. CASE state[t] \in accepted
    BY <1>2, <2>1, <2>2, SettleOne DEF HandleTransferEvent, SetState, IInv, TypeOK
  <2>3. CASE state[t] \notin accepted
    BY <1>2, <2>1, <2>3, Untouched DEF HandleTransferEvent, IInv, TypeOK
  <2> QED
    BY <2>2, <2>3
<1>3. ASSUME NEW t \in Tasks, HandleConflict(t) PROVE PromiseStep
  <2>1. UNCHANGED <<nextId, limit>>
    BY <1>3 DEF HandleConflict, HandleTransferEvent
  <2>2. CASE state[t] = "Running"
    <3>1. SetState(t, "Conflict") /\ PhaseOf(t) = "Active"
      BY <1>3, <2>2, Phases
      DEF HandleConflict, HandleTransferEvent, SetState, ActiveStates, IInv, TypeOK
    <3>2. PhaseOf(t)' = "Asking"
      <4>1. state'[t] = "Conflict"
        BY <3>1 DEF SetState, IInv, TypeOK
      <4> QED
        BY <4>1 DEF PhaseOf, ActiveStates, FinishedStates
    <3>3. Promise!Ask(t)
      BY <2>1, <3>1, <3>2, OneTask DEF Promise!Ask, TransferStates
    <3> QED
      BY <3>3 DEF PromiseStep, Promise!PromiseNext
  <2>3. CASE state[t] # "Running"
    BY <1>3, <2>1, <2>3, Untouched DEF HandleConflict, HandleTransferEvent, IInv, TypeOK
  <2> QED
    BY <2>2, <2>3
<1>4. ASSUME NEW t \in Tasks, HandleCompleted(t) \/ HandleCancelled(t) \/ HandleTransferFailed(t)
      PROVE  PromiseStep
  <2>1. ActiveStates \in SUBSET UnfinishedStates /\ UnfinishedStates \in SUBSET UnfinishedStates
    BY DEF ActiveStates, UnfinishedStates, TransferStates, FinishedStates
  <2>2. {"Completed", "Cancelled", "Failed"} \subseteq FinishedStates
    BY DEF FinishedStates
  <2> QED
    BY <1>2, <1>4, <2>1, <2>2 DEF HandleCompleted, HandleCancelled, HandleTransferFailed
<1>5. ASSUME NEW s \in Sessions, NEW reported, HandleStateChanged(s, reported)
      PROVE  PromiseStep
  BY <1>5, Untouched DEF HandleStateChanged, queueVars
<1>6. Started \subseteq Sessions /\ Started \X TransferIds \subseteq Tasks
  BY DEF Started, Tasks
<1> QED
  BY <1>1, <1>3, <1>4, <1>5, <1>6 DEF Report, HandleFailed

LEMMA NextPromise == ASSUME IInv, IInv', [Next]_vars PROVE PromiseStep
<1>1. CASE Worker
  BY <1>1, Untouched DEF Worker, WorkerTakesCommand, WorkerStops, queueVars
<1>2. CASE UNCHANGED vars
  BY <1>2, Untouched DEF vars
<1> QED
  BY <1>1, <1>2, WindowPromise, UserPromise, LoopPromise, ReportPromise DEF Next

LEMMA InitPromise == Init => Promise!PromiseInit
<1> SUFFICES ASSUME Init PROVE Promise!PromiseInit
  OBVIOUS
<1>1. ASSUME NEW t \in Tasks PROVE PhaseOf(t) = "Unborn"
  <2>1. state[t] = "Absent" /\ nextId[t[1]] = 1
    BY TaskParts DEF Init
  <2>2. ~(t[2] < 1)
    BY TaskParts DEF TransferIds
  <2> QED
    BY <2>1, <2>2 DEF PhaseOf, ActiveStates, FinishedStates
<1> QED
  BY <1>1 DEF Init, Promise!PromiseInit

\* The queues, the scheduler and the handlers implement TransferPromise, whatever
\* the connection workers report and whenever they stop.
THEOREM Implementation == Spec => KeepsPromise
<1>1. Init => Promise!PromiseInit
  BY InitPromise
<1>2. IInv /\ IInv' /\ [Next]_vars => [Promise!PromiseNext]_(Promise!pvars)
  BY NextPromise DEF PromiseStep, Promise!pvars, PhaseMap
<1> QED
  BY <1>1, <1>2, Invariance, PTL DEF Spec, KeepsPromise, Promise!PromiseSpec

-----------------------------------------------------------------------------
(* The inductive invariant of the whole system.                            *)

Links == 1..MaxConnections
Alive == Establishing \union {"Running"}
Quits == {"Completed", "Failed", "Cancelled", "Absent"}

WorkerCommands ==
  [op : {"Transfer"}, id : TransferIds, overwrite : BOOLEAN]
    \union [op : {"CancelTransfer"}, id : TransferIds]
Events ==
  [kind : TransferEvents, id : TransferIds] \union [kind : EndingEvents \union StateEvents]

\* What SystemTypeOK says, and what the channels carry.
ChannelsOK ==
  /\ SystemTypeOK
  /\ fileCommands \in [Connections -> Seq(WorkerCommands)]
  /\ events \in [Connections -> Seq(Events)]

EndingPending(c) == \E i \in DOMAIN events[c] : events[c][i].kind \in EndingEvents

\* Something of session s has ended or is bound to end, and says so.
Doomed(s) == \E k \in Links : EndAnnounced(<<s, k>>)

\* A connection is made in the order of its session's generations, its channels are
\* empty and nothing is attempted before, and its file worker runs as long as it does.
LifeOK ==
  /\ \A s \in Sessions : handle[s] <= generation[s]
  /\ \A s \in Sessions, k \in Links : conn[<<s, k>>] = "Unmade" <=> generation[s] < k
  /\ \A c \in Connections :
       conn[c] = "Unmade" => commands[c] = <<>> /\ events[c] = <<>> /\ fileCommands[c] = <<>>
  /\ \A c \in Connections : c \in fileClosed <=> conn[c] = "Ended"
  /\ \A c \in Connections : conn[c] # "Ended" => worker[c] = "Running"
  /\ \A a \in Files!Attempts : phase[a] # "Unborn" => conn[a[1]] # "Unmade"

\* A session that has a handle has not yet heard that its connection is over.
HandleOK ==
  \A s \in Sessions : handle[s] # NoHandle =>
    conn[<<s, handle[s]>>] \in Alive \union {"Closing"} \/ EndingPending(<<s, handle[s]>>)

\* "Connected" reaches the window before the end of the same connection does.
OrderOK ==
  \A c \in Connections : \A i \in DOMAIN events[c] : events[c][i].kind = "Connected" =>
    \/ conn[c] \in {"Running", "Closing"}
    \/ \E j \in DOMAIN events[c] : i < j /\ events[c][j].kind \in EndingEvents

\* A window that says "Connected" commands a connection that is, or some connection
\* of the session is about to end.
LinkOK ==
  \A s \in Sessions : link[s] = "Connected" /\ handle[s] # NoHandle =>
    conn[<<s, handle[s]>>] = "Running" \/ Doomed(s)

TransferAt(channel, i, id, b) ==
  i \in DOMAIN channel /\ channel[i] = [op |-> "Transfer", id |-> id, overwrite |-> b]

InCommands(t, b, k, i) == TransferAt(commands[<<t[1], k>>], i, t[2], b)
InWorker(t, b, k, i)   == TransferAt(fileCommands[<<t[1], k>>], i, t[2], b)
Att(t, k, n)           == <<<<t[1], k>>, t[2], n>>
InTask(t, b, k, n)     == phase[Att(t, k, n)] # "Unborn" /\ confirmed[Att(t, k, n)] = b

Numbers == 1..MaxAttempts

\* The order to transfer task t (the first, or the one that may replace) is
\* somewhere.
Ordered(t, b) ==
  \E k \in Links :
    \/ \E i \in Nat : InCommands(t, b, k, i) \/ InWorker(t, b, k, i)
    \/ \E n \in Numbers : InTask(t, b, k, n)

\* It is nowhere twice: a command, in one place of one channel, or one attempt.
Once(t, b) ==
  \A k, l \in Links :
    /\ \A i, j \in Nat : InCommands(t, b, k, i) /\ InCommands(t, b, l, j) => k = l /\ i = j
    /\ \A i, j \in Nat : InWorker(t, b, k, i) /\ InWorker(t, b, l, j) => k = l /\ i = j
    /\ \A i, j \in Numbers : InTask(t, b, k, i) /\ InTask(t, b, l, j) => k = l /\ i = j
    /\ \A i, j \in Nat : ~(InCommands(t, b, k, i) /\ InWorker(t, b, l, j))
    /\ \A i \in Nat, j \in Numbers : ~(InCommands(t, b, k, i) /\ InTask(t, b, l, j))
    /\ \A i \in Nat, j \in Numbers : ~(InWorker(t, b, k, i) /\ InTask(t, b, l, j))

OnceOK == \A t \in Tasks, b \in BOOLEAN : Once(t, b)

\* It was given: the task has an id, does not wait for it, and has the user's consent.
GivenOK ==
  \A t \in Tasks :
    /\ overwrite[t] => t[2] < nextId[t[1]]
    /\ \A b \in BOOLEAN : Ordered(t, b) =>
         /\ t[2] < nextId[t[1]]
         /\ ~(state[t] = "Queued" /\ overwrite[t] = b)
         /\ b => overwrite[t]

Reported(a) ==
  /\ phase[a] \in {"Clearing", "Done", "Aborted"}
  /\ ~confirmed[a]
  /\ result[a] = "TransferConflict"

\* The first attempt at task t has reported its conflict.
Answered(t) == \E k \in Links, n \in Numbers : Reported(Att(t, k, n))

Conflicts(t, k, i) ==
  /\ i \in DOMAIN events[<<t[1], k>>]
  /\ events[<<t[1], k>>][i] = [kind |-> "TransferConflict", id |-> t[2]]

\* Attempts are numbered from one, have a result when they have worked, and one that
\* may replace its destination finds no conflict.
AttemptsOK ==
  \A a \in Files!Attempts :
    /\ phase[a] = "Unborn" => ~confirmed[a] /\ result[a] = Files!NoResult
    /\ phase[a] \in Files!WorkingPhases => result[a] = Files!NoResult
    /\ phase[a] = "Reporting" => result[a] \in Files!Results
    /\ result[a] = "TransferConflict" => ~confirmed[a]
    /\ phase[a] # "Unborn" => phase[<<a[1], a[2], 1>>] # "Unborn"

\* A conflict is told once, and the user is asked, or has answered, only about one
\* that was told.
ConflictOK ==
  \A t \in Tasks :
    /\ state[t] = "Conflict" => ~overwrite[t]
    /\ state[t] = "Conflict" \/ overwrite[t] => Answered(t)
    /\ \A k \in Links, i \in Nat : Conflicts(t, k, i) =>
         /\ Answered(t)
         /\ state[t] # "Conflict" /\ ~overwrite[t]
         /\ \A l \in Links, j \in Nat : Conflicts(t, l, j) => k = l /\ i = j

\* The application has heard that connection c is over.
Forgotten(c) == conn[c] \in {"Returning", "Ended"} /\ ~EndingPending(c)

\* Whatever such a connection still does with a task, the task is settled.
SettledOK ==
  \A t \in Tasks, k \in Links : Forgotten(<<t[1], k>>) =>
    \A b \in BOOLEAN :
      (\E i \in Nat : InWorker(t, b, k, i)) \/ (\E n \in Numbers : InTask(t, b, k, n))
        => state[t] \in Quits

\* A command that reaches a worker before its shell is open will be ignored.
IgnoredOK ==
  \A t \in Tasks, k \in Links, b \in BOOLEAN, i \in Nat :
    state[t] = "Running" /\ conn[<<t[1], k>>] \in Establishing /\ InCommands(t, b, k, i)
      => Doomed(t[1])

SystemIInv ==
  /\ IInv
  /\ ChannelsOK
  /\ LifeOK
  /\ HandleOK
  /\ OrderOK
  /\ LinkOK
  /\ OnceOK
  /\ GivenOK
  /\ AttemptsOK
  /\ ConflictOK
  /\ SettledOK
  /\ IgnoredOK
  /\ RunningIsCarried

-----------------------------------------------------------------------------
(* Channels.                                                               *)

\* What send does to a channel.
LEMMA Appended ==
  ASSUME NEW S, NEW q \in Seq(S), NEW x \in S
  PROVE  /\ Append(q, x) \in Seq(S)
         /\ Len(q) \in Nat /\ Len(Append(q, x)) = Len(q) + 1
         /\ DOMAIN q = 1..Len(q) /\ DOMAIN Append(q, x) = 1..(Len(q) + 1)
         /\ \A i \in 1..Len(q) : Append(q, x)[i] = q[i]
         /\ Append(q, x)[Len(q) + 1] = x
OBVIOUS

\* What receive does to a channel.
LEMMA Received ==
  ASSUME NEW S, NEW q \in Seq(S), q # <<>>
  PROVE  /\ Head(q) \in S /\ Head(q) = q[1] /\ 1 \in DOMAIN q
         /\ Tail(q) \in Seq(S)
         /\ Len(q) \in Nat \ {0} /\ Len(Tail(q)) = Len(q) - 1
         /\ DOMAIN q = 1..Len(q) /\ DOMAIN Tail(q) = 1..(Len(q) - 1)
         /\ \A i \in DOMAIN Tail(q) : i + 1 \in DOMAIN q /\ Tail(q)[i] = q[i + 1]
         /\ \A i \in DOMAIN q : i = 1 \/ (i - 1 \in DOMAIN Tail(q) /\ Tail(q)[i - 1] = q[i])
<1>1. Len(q) \in Nat \ {0} /\ DOMAIN q = 1..Len(q)
  BY EmptySeq, SMTT(30)
<1>2. Tail(q) \in Seq(S) /\ Len(Tail(q)) = Len(q) - 1
  BY <1>1, SMTT(30)
<1>3. DOMAIN Tail(q) = 1..(Len(q) - 1) /\ \A i \in 1..(Len(q) - 1) : Tail(q)[i] = q[i + 1]
  BY <1>1, <1>2, SMTT(30)
<1>4. Head(q) = q[1] /\ q[1] \in S
  BY <1>1
<1> QED
  BY <1>1, <1>2, <1>3, <1>4

\* A connection is a session and a number.
LEMMA ConnectionParts ==
  ASSUME NEW c \in Connections
  PROVE  /\ c[1] \in Sessions /\ c[2] \in Links /\ c = <<c[1], c[2]>>
         /\ c[2] \in Nat /\ c[2] >= 1
BY ConnectionsAssumption DEF Connections, Links

LEMMA LinkConnection ==
  ASSUME NEW s \in Sessions, NEW k \in Links
  PROVE  <<s, k>> \in Connections
BY DEF Connections, Links

LEMMA AttemptParts ==
  ASSUME NEW a \in Files!Attempts
  PROVE  /\ a[1] \in Connections /\ a[2] \in TransferIds /\ a[3] \in Numbers
         /\ a = <<a[1], a[2], a[3]>>
BY DEF Files!Attempts, Numbers

LEMMA TaskAttempt ==
  ASSUME NEW t \in Tasks, NEW k \in Links, NEW n \in Numbers
  PROVE  /\ Att(t, k, n) \in Files!Attempts
         /\ \A l \in Links, m \in Numbers : Att(t, k, n) = Att(t, l, m) => k = l /\ n = m
BY LinkConnection, TaskParts DEF Files!Attempts, Numbers, Att

LEMMA TransferAtAppend ==
  ASSUME NEW S, NEW q \in Seq(S), NEW x \in S, NEW i \in Nat, NEW id, NEW b
  PROVE  TransferAt(Append(q, x), i, id, b) <=>
           \/ TransferAt(q, i, id, b)
           \/ i = Len(q) + 1 /\ x = [op |-> "Transfer", id |-> id, overwrite |-> b]
<1>1. i \in DOMAIN Append(q, x) <=> i \in DOMAIN q \/ i = Len(q) + 1
  BY Appended
<1>2. i \in DOMAIN q => Append(q, x)[i] = q[i] /\ i # Len(q) + 1
  BY Appended
<1>3. i = Len(q) + 1 => Append(q, x)[i] = x
  BY Appended
<1> QED
  BY <1>1, <1>2, <1>3 DEF TransferAt

LEMMA TransferAtTail ==
  ASSUME NEW S, NEW q \in Seq(S), q # <<>>, NEW i \in Nat, NEW id, NEW b
  PROVE  /\ TransferAt(Tail(q), i, id, b) <=> i # 0 /\ TransferAt(q, i + 1, id, b)
         /\ TransferAt(q, 1, id, b) <=>
              Head(q) = [op |-> "Transfer", id |-> id, overwrite |-> b]
<1>1. i \in DOMAIN Tail(q) <=> i # 0 /\ i + 1 \in DOMAIN q
  BY Received
<1>2. i \in DOMAIN Tail(q) => Tail(q)[i] = q[i + 1]
  BY Received
<1>3. 1 \in DOMAIN q /\ q[1] = Head(q)
  BY Received
<1> QED
  BY <1>1, <1>2, <1>3 DEF TransferAt

\* The head of a channel is a Transfer command.
LEMMA TransferAtHead ==
  ASSUME NEW S, NEW q \in Seq(S), q # <<>>, NEW id, NEW b
  PROVE  TransferAt(q, 1, id, b) <=> Head(q) = [op |-> "Transfer", id |-> id, overwrite |-> b]
<1>1. 1 \in DOMAIN q /\ q[1] = Head(q)
  BY Received
<1> QED
  BY <1>1 DEF TransferAt

\* A Transfer command is made of an id and a consent.
LEMMA TransferCommand ==
  ASSUME NEW x \in Commands \union WorkerCommands, x.op = "Transfer"
  PROVE  /\ x.id \in TransferIds /\ x.overwrite \in BOOLEAN
         /\ x = [op |-> "Transfer", id |-> x.id, overwrite |-> x.overwrite]
         /\ x \in WorkerCommands
BY DEF Commands, WorkerCommands

LEMMA CancelCommand ==
  ASSUME NEW x \in Commands \union WorkerCommands, x.op = "CancelTransfer"
  PROVE  x.id \in TransferIds /\ x \in WorkerCommands
BY DEF Commands, WorkerCommands

-----------------------------------------------------------------------------
(* The whole system is one of those TransferQueue leaves open.             *)

\* A connection that has an event to deliver was started.
LEMMA EventfulStarted ==
  ASSUME TypeOK, LifeOK, NEW c \in Connections, events[c] # <<>>
  PROVE  c[1] \in Started
<1>1. conn[c] # "Unmade"
  BY DEF LifeOK
<1>2. ~(generation[c[1]] < c[2])
  BY <1>1, ConnectionParts DEF LifeOK
<1> QED
  BY <1>2, ConnectionParts DEF TypeOK, Started

\* The pump delivers what TransferQueue lets a worker report.
LEMMA PumpReports ==
  ASSUME ChannelsOK, LifeOK, NEW c \in Connections, Pump(c)
  PROVE  [Next]_vars
<1> DEFINE e == Head(events[c])
<1>1. c[1] \in Started /\ c[1] \in Sessions
  BY EventfulStarted, ConnectionParts DEF Pump, ChannelsOK, SystemTypeOK
<1>2. e \in Events
  BY Received DEF Pump, ChannelsOK
<1>3. CASE UNCHANGED vars
  BY <1>3
<1>4. CASE e.kind \in StateEvents /\ HandleStateChanged(c[1], e.kind)
  <2>1. e.kind \in LinkStates \ {"Idle"}
    BY <1>4 DEF StateEvents, LinkStates
  <2> QED
    BY <1>1, <1>4, <2>1 DEF Next, Report
<1>5. CASE HandleDisconnected(c[1]) \/ HandleFailed(c[1])
  BY <1>1, <1>5 DEF Next, Report
<1>6. ASSUME NEW id \in TransferIds, \/ HandleConflict(<<c[1], id>>) \/ HandleCompleted(<<c[1], id>>)
                                     \/ HandleCancelled(<<c[1], id>>)
                                     \/ HandleTransferFailed(<<c[1], id>>)
      PROVE  [Next]_vars
  <2>1. <<c[1], id>> \in Started \X TransferIds
    BY <1>1
  <2> QED
    BY <1>6, <2>1 DEF Next, Report
<1>7. e.kind \in TransferEvents => e.id \in TransferIds
  BY <1>2 DEF Events, TransferEvents, EndingEvents, StateEvents
<1>8. Handle(c[1], e)
  BY DEF Pump
<1> QED
  BY <1>3, <1>4, <1>5, <1>6, <1>7, <1>8 DEF Handle, TransferEvents

\* A connection worker takes commands, stops, or leaves the queue alone.
LEMMA ConnectionIsWorker ==
  ASSUME NEW c \in Connections, ConnectionStep(c)
  PROVE  [Next]_vars
<1>1. WorkerTakesCommand(c) \/ WorkerStops(c) \/ UNCHANGED vars
  BY DEF ConnectionStep, WorkerTurn, IgnoreCommand, RelayCommand, RefuseTransfer,
         BeginDisconnection, FinishDisconnection, Return, ReportAuthenticating,
         ReportConnected, ShellCloses, FailConnection, ReceiveCommand
<1> QED
  BY <1>1 DEF Next, Worker

\* Every step of the system is a step of TransferQueue or leaves its state alone.
LEMMA SystemStepIsQueueStep ==
  ASSUME ChannelsOK, LifeOK, [SystemNext]_allVars
  PROVE  [Next]_vars
<1>1. ASSUME NEW s \in Sessions, Connect(s) PROVE [Next]_vars
  BY <1>1 DEF Connect, Next, Window
<1>2. CASE Interface
  BY <1>2 DEF Interface, Next, Window
<1>3. CASE Schedule
  BY <1>3 DEF Schedule, Next
<1>4. ASSUME NEW c \in Connections, Pump(c) \/ ConnectionStep(c) \/ FileWorkerStep(c)
      PROVE  [Next]_vars
  BY <1>4, PumpReports, ConnectionIsWorker DEF FileWorkerStep
<1>5. ASSUME NEW a \in Files!Attempts, TaskStep(a) PROVE [Next]_vars
  BY <1>5 DEF TaskStep
<1>6. CASE UNCHANGED allVars
  BY <1>6 DEF allVars
<1> QED
  BY <1>1, <1>2, <1>3, <1>4, <1>5, <1>6 DEF SystemNext

-----------------------------------------------------------------------------
(* What a step of the interface does that starts nothing.                  *)

\* Task t is neither started nor asked about, waits again only with the user's
\* consent, and stays settled.
Steady(t) ==
  /\ state'[t] = "Running" => state[t] = "Running"
  /\ state'[t] = "Conflict" => state[t] = "Conflict"
  /\ state'[t] = "Queued" =>
       \/ state[t] = "Queued" /\ overwrite'[t] = overwrite[t]
       \/ ~(t[2] < nextId[t[1]]) /\ overwrite'[t] = overwrite[t]
       \/ state[t] = "Conflict" /\ overwrite'[t] = TRUE
  /\ \/ overwrite'[t] = overwrite[t]
     \/ state[t] = "Conflict" /\ state'[t] = "Queued"
  /\ state[t] \in Quits /\ t[2] < nextId[t[1]] => state'[t] \in Quits
  /\ nextId[t[1]] \in Nat /\ nextId'[t[1]] \in Nat /\ nextId[t[1]] <= nextId'[t[1]]

\* A command that is no Transfer may be sent through a handle.
Sends(c) ==
  \/ commands'[c] = commands[c]
  \/ \E x \in Commands :
       /\ x.op # "Transfer"
       /\ handle[c[1]] = c[2]
       /\ commands'[c] = Append(commands[c], x)

QuietStep ==
  /\ \A t \in Tasks : Steady(t)
  /\ generation' = generation
  /\ \A s \in Sessions : handle'[s] \in {handle[s], NoHandle}
  /\ \A s \in Sessions : link'[s] \in {link[s], "Idle", "Disconnecting"}
  /\ \A c \in Connections : Sends(c)

LEMMA StayQuit ==
  ASSUME SettledStep, NEW t \in Tasks, state[t] \in Quits, t[2] < nextId[t[1]]
  PROVE  state'[t] \in Quits
BY DEF SettledStep, Quits, FinishedStates

\* A step that leaves the queue of task t alone.
LEMMA SteadySame ==
  ASSUME IInv, NEW t \in Tasks, state'[t] = state[t], UNCHANGED <<overwrite, nextId>>
  PROVE  Steady(t)
BY TaskParts, TransfersAssumption DEF Steady, IInv, TypeOK

\* A task that is removed, cancelled, failed or completed is steady.
LEMMA SteadyQuit ==
  ASSUME IInv, NEW t \in Tasks, state'[t] \in Quits, UNCHANGED <<overwrite, nextId>>
  PROVE  Steady(t)
BY TaskParts, TransfersAssumption DEF Steady, IInv, TypeOK, Quits

LEMMA RemoveSteady ==
  ASSUME IInv, NEW s \in Sessions, RemoveSession(s), UNCHANGED <<overwrite, nextId>>
  PROVE  \A t \in Tasks : Steady(t)
<1> TAKE t \in Tasks
<1>1. CASE t[1] = s
  <2>1. state'[t] = "Absent"
    BY <1>1 DEF RemoveSession
  <2> QED
    BY <2>1, SteadyQuit DEF Quits
<1>2. CASE t[1] # s
  <2>1. state'[t] = state[t]
    BY <1>2 DEF RemoveSession
  <2> QED
    BY <2>1, SteadySame
<1> QED
  BY <1>1, <1>2

LEMMA SendSends ==
  ASSUME IInv, NEW s \in Sessions, Reachable(s), NEW x \in Commands, x.op # "Transfer", Send(s, x)
  PROVE  \A c \in Connections : Sends(c)
<1> TAKE c \in Connections
<1>1. CASE c = <<s, handle[s]>>
  <2>1. commands'[c] = Append(commands[c], x)
    BY <1>1 DEF IInv, TypeOK, Send
  <2> QED
    BY <1>1, <2>1 DEF Sends
<1>2. CASE c # <<s, handle[s]>>
  BY <1>2 DEF IInv, TypeOK, Send, Sends
<1> QED
  BY <1>1, <1>2

LEMMA DisconnectQuiet ==
  ASSUME IInv, NEW s \in Sessions, DisconnectSession(s) \/ CloseSession(s)
  PROVE  QuietStep
<1>1. CASE Reachable(s) /\ RequestDisconnect(s) /\ UNCHANGED <<generation, overwrite, nextId>>
  <2>1. \A c \in Connections : Sends(c)
    BY <1>1, SendSends, CommandTypes DEF RequestDisconnect
  <2>2. \A t \in Tasks : Steady(t)
    BY <1>1, SteadySame DEF RequestDisconnect
  <2>3. \A u \in Sessions : link'[u] \in {link[u], "Disconnecting"}
    BY <1>1 DEF RequestDisconnect, IInv, TypeOK
  <2> QED
    BY <1>1, <2>1, <2>2, <2>3 DEF QuietStep, RequestDisconnect
<1>2. CASE RemoveSession(s) /\ UNCHANGED <<generation, overwrite, nextId, commands>>
  <2>1. \A t \in Tasks : Steady(t)
    BY <1>2, RemoveSteady
  <2>2. \A u \in Sessions : link'[u] \in {link[u], "Idle"} /\ handle'[u] \in {handle[u], NoHandle}
    BY <1>2 DEF RemoveSession, IInv, TypeOK
  <2> QED
    BY <1>2, <2>1, <2>2 DEF QuietStep, Sends
<1>3. CASE /\ link' = [link EXCEPT ![s] = "Idle"]
           /\ handle' = [handle EXCEPT ![s] = NoHandle]
           /\ UNCHANGED <<generation, state, overwrite, nextId, commands>>
  <2>1. \A t \in Tasks : Steady(t)
    BY <1>3, SteadySame
  <2>2. \A u \in Sessions : link'[u] \in {link[u], "Idle"} /\ handle'[u] \in {handle[u], NoHandle}
    BY <1>3 DEF IInv, TypeOK
  <2> QED
    BY <1>3, <2>1, <2>2 DEF QuietStep, Sends
<1> QED
  BY <1>1, <1>2, <1>3 DEF DisconnectSession, CloseSession

\* The other steps send at most a CancelTransfer and leave links and handles alone.
LEMMA QueueQuiet ==
  ASSUME IInv, UNCHANGED <<generation, handle, link>>, \A c \in Connections : Sends(c),
         \A t \in Tasks : Steady(t)
  PROVE  QuietStep
BY DEF QuietStep

LEMMA UserQuiet ==
  ASSUME IInv, [Next]_vars, User
  PROVE  QuietStep
<1> USE DEF linkVars, windowVars, loopVars, SetState
<1>1. ASSUME NEW s \in Sessions, Enqueue(s) PROVE QuietStep
  <2>1. <<s, nextId[s]>> \in Tasks
    BY <1>1 DEF Enqueue, Tasks
  <2>2. ASSUME NEW t \in Tasks PROVE Steady(t)
    <3>1. nextId[t[1]] \in Nat /\ nextId'[t[1]] \in Nat /\ nextId[t[1]] <= nextId'[t[1]]
      BY <1>1, TaskParts, TransfersAssumption DEF Enqueue, IInv, TypeOK
    <3>2. CASE t = <<s, nextId[s]>>
      <4>1. state'[t] = "Queued" /\ ~(t[2] < nextId[t[1]]) /\ overwrite'[t] = overwrite[t]
        BY <1>1, <2>1, <3>1, <3>2 DEF Enqueue, IInv, TypeOK
      <4> QED
        BY <3>1, <4>1 DEF Steady
    <3>3. CASE t # <<s, nextId[s]>>
      <4>1. state'[t] = state[t] /\ overwrite'[t] = overwrite[t]
        BY <1>1, <2>1, <3>3 DEF Enqueue, IInv, TypeOK
      <4> QED
        BY <3>1, <4>1 DEF Steady
    <3> QED
      BY <3>2, <3>3
  <2> QED
    BY <1>1, <2>2, QueueQuiet DEF Enqueue, Sends
<1>2. ASSUME NEW s \in Sessions, ClearFinished(s) PROVE QuietStep
  <2>1. ASSUME NEW t \in Tasks PROVE Steady(t)
    <3>1. state'[t] = state[t] \/ state'[t] = "Absent"
      BY <1>2 DEF ClearFinished
    <3> QED
      BY <1>2, <3>1, SteadySame, SteadyQuit DEF ClearFinished, Quits
  <2> QED
    BY <1>2, <2>1, QueueQuiet DEF ClearFinished, Sends
<1>3. ASSUME NEW u \in Tasks, CancelWaiting(u) PROVE QuietStep
  <2>1. ASSUME NEW t \in Tasks PROVE Steady(t)
    <3>1. state'[t] = state[t] \/ state'[t] = "Cancelled"
      BY <1>3 DEF CancelWaiting, IInv, TypeOK
    <3> QED
      BY <1>3, <3>1, SteadySame, SteadyQuit DEF CancelWaiting, Quits
  <2> QED
    BY <1>3, <2>1, QueueQuiet DEF CancelWaiting, Sends
<1>4. ASSUME NEW u \in Tasks, CancelRunning(u) PROVE QuietStep
  <2>1. ASSUME NEW t \in Tasks PROVE Steady(t)
    <3>1. \/ state'[t] = state[t] \/ state'[t] = "Failed"
          \/ state'[t] = "Cancelling" /\ state[t] = "Running"
      BY <1>4 DEF CancelRunning, IInv, TypeOK
    <3>2. UNCHANGED <<overwrite, nextId>>
      BY <1>4 DEF CancelRunning
    <3>3. CASE state'[t] = "Cancelling" /\ state[t] = "Running"
      BY <3>2, <3>3, TaskParts, TransfersAssumption DEF Steady, IInv, TypeOK, Quits
    <3> QED
      BY <3>1, <3>2, <3>3, SteadySame, SteadyQuit DEF Quits
  <2>2. \A c \in Connections : Sends(c)
    <3>1. u[1] \in Sessions /\ u[2] \in TransferIds
      BY TaskParts
    <3>2. CASE Reachable(u[1])
      BY <1>4, <3>1, <3>2, SendSends, CommandTypes DEF CancelRunning
    <3>3. CASE ~Reachable(u[1])
      BY <1>4, <3>3 DEF CancelRunning, Sends
    <3> QED
      BY <3>2, <3>3
  <2> QED
    BY <1>4, <2>1, <2>2, QueueQuiet DEF CancelRunning
<1>5. ASSUME NEW u \in Tasks, ReplaceDestination(u) PROVE QuietStep
  <2>1. ASSUME NEW t \in Tasks PROVE Steady(t)
    <3>1. nextId' = nextId /\ nextId[t[1]] \in Nat
      BY <1>5, TaskParts, TransfersAssumption DEF ReplaceDestination, IInv, TypeOK
    <3>2. CASE t = u
      <4>1. state[t] = "Conflict" /\ state'[t] = "Queued" /\ overwrite'[t] = TRUE
        BY <1>5, <3>2 DEF ReplaceDestination, IInv, TypeOK
      <4> QED
        BY <3>1, <4>1 DEF Steady, Quits
    <3>3. CASE t # u
      <4>1. state'[t] = state[t] /\ overwrite'[t] = overwrite[t]
        BY <1>5, <3>3 DEF ReplaceDestination, IInv, TypeOK
      <4> QED
        BY <3>1, <4>1 DEF Steady
    <3> QED
      BY <3>2, <3>3
  <2> QED
    BY <1>5, <2>1, QueueQuiet DEF ReplaceDestination, Sends
<1> QED
  BY <1>1, <1>2, <1>3, <1>4, <1>5 DEF User

LEMMA RefuseQuiet ==
  ASSUME IInv, NEW u \in Tasks, RefuseTask(u)
  PROVE  QuietStep
<1>1. ASSUME NEW t \in Tasks PROVE Steady(t)
  <2>1. state'[t] = state[t] \/ state'[t] = "Failed"
    BY DEF RefuseTask, SetState, IInv, TypeOK
  <2> QED
    BY <2>1, SteadySame, SteadyQuit DEF RefuseTask, TakeTask, Quits
<1> QED
  BY <1>1, QueueQuiet DEF RefuseTask, TakeTask, Sends, linkVars

\* Opening a session, a new limit and the end of the loop leave all of it alone.
LEMMA OtherQuiet ==
  ASSUME IInv, UNCHANGED <<queueVars, linkVars, commands>>
  PROVE  QuietStep
<1>1. \A t \in Tasks : Steady(t)
  BY SteadySame DEF queueVars
<1> QED
  BY <1>1, QueueQuiet DEF Sends, linkVars

LEMMA InterfaceQuiet ==
  ASSUME IInv, [Next]_vars, Interface
  PROVE  QuietStep /\ UNCHANGED systemVars
BY DisconnectQuiet, UserQuiet, OtherQuiet DEF Interface, OpenSession, SetMaxParallelTransfers

LEMMA ScheduleQuiet ==
  ASSUME IInv, Schedule, \A t \in Tasks : ~StartTask(t)
  PROVE  QuietStep /\ UNCHANGED systemVars
BY RefuseQuiet, OtherQuiet DEF Schedule, Loop, EndScheduling

-----------------------------------------------------------------------------
(* Quiet steps keep the invariant.                                         *)

\* The end of a connection stays announced while nobody hears of it.
LEMMA AnnouncedKept ==
  ASSUME NEW c, EndAnnounced(c), conn'[c] = conn[c], events'[c] = events[c],
         handle'[c[1]] = c[2] => handle[c[1]] = c[2]
  PROVE  EndAnnounced(c)'
BY DEF EndAnnounced, HandleDropped

LEMMA DroppedStays ==
  ASSUME NEW c \in Connections, handle'[c[1]] \in {handle[c[1]], NoHandle}
  PROVE  handle'[c[1]] = c[2] => handle[c[1]] = c[2]
BY ConnectionParts DEF NoHandle

LEMMA DoomedKept ==
  ASSUME NEW s \in Sessions, Doomed(s), handle'[s] \in {handle[s], NoHandle},
         \A k \in Links : conn'[<<s, k>>] = conn[<<s, k>>] /\ events'[<<s, k>>] = events[<<s, k>>]
  PROVE  Doomed(s)'
<1>1. PICK k \in Links : EndAnnounced(<<s, k>>)
  BY DEF Doomed
<1>2. EndAnnounced(<<s, k>>)'
  BY <1>1, LinkConnection, DroppedStays, AnnouncedKept
<1> QED
  BY <1>2 DEF Doomed

\* A command that is no Transfer moves no order.
LEMMA SendsNoOrder ==
  ASSUME IInv, NEW c \in Connections, Sends(c), NEW i \in Nat, NEW id, NEW b
  PROVE  TransferAt(commands[c], i, id, b)' <=> TransferAt(commands[c], i, id, b)
<1>1. CASE commands'[c] = commands[c]
  BY <1>1 DEF TransferAt
<1>2. ASSUME NEW x \in Commands, x.op # "Transfer", commands'[c] = Append(commands[c], x)
      PROVE  TransferAt(commands[c], i, id, b)' <=> TransferAt(commands[c], i, id, b)
  <2>1. commands[c] \in Seq(Commands)
    BY DEF IInv, TypeOK
  <2>2. x # [op |-> "Transfer", id |-> id, overwrite |-> b]
    BY <1>2
  <2>3. TransferAt(Append(commands[c], x), i, id, b) <=> TransferAt(commands[c], i, id, b)
    BY <2>1, <2>2, TransferAtAppend
  <2> QED
    BY <1>2, <2>3 DEF TransferAt
<1> QED
  BY <1>1, <1>2 DEF Sends

\* Where the orders of every task are, as far as the two channels and the attempts
\* tell.
SameCommands ==
  \A t \in Tasks, b \in BOOLEAN, k \in Links, i \in Nat :
    InCommands(t, b, k, i)' <=> InCommands(t, b, k, i)
SameWorkers ==
  \A t \in Tasks, b \in BOOLEAN, k \in Links, i \in Nat :
    InWorker(t, b, k, i)' <=> InWorker(t, b, k, i)
SameTasks ==
  \A t \in Tasks, b \in BOOLEAN, k \in Links, n \in Numbers :
    InTask(t, b, k, n)' <=> InTask(t, b, k, n)

LEMMA QuietSame ==
  ASSUME IInv, QuietStep, UNCHANGED systemVars
  PROVE  SameCommands /\ SameWorkers /\ SameTasks
<1>1. SameCommands
  BY SendsNoOrder, LinkConnection, TaskParts DEF SameCommands, InCommands, QuietStep
<1>2. SameWorkers /\ SameTasks
  BY DEF SameWorkers, SameTasks, InWorker, InTask, TransferAt, systemVars, fileVars, workerVars,
         attemptVars
<1> QED
  BY <1>1, <1>2

LEMMA SameOrdered ==
  ASSUME SameCommands, SameWorkers, SameTasks, NEW t \in Tasks, NEW b \in BOOLEAN
  PROVE  Ordered(t, b)' <=> Ordered(t, b)
BY DEF Ordered, SameCommands, SameWorkers, SameTasks

LEMMA SameOnce ==
  ASSUME OnceOK, SameCommands, SameWorkers, SameTasks
  PROVE  OnceOK'
BY DEF OnceOK, Once, SameCommands, SameWorkers, SameTasks

\* Given orders stay given when every task is steady.
LEMMA SteadyGiven ==
  ASSUME IInv, IInv', GivenOK, ConflictOK, \A t \in Tasks : Steady(t),
         \A t \in Tasks, b \in BOOLEAN : Ordered(t, b)' => Ordered(t, b)
  PROVE  GivenOK'
<1> SUFFICES ASSUME NEW t \in Tasks
             PROVE  /\ overwrite'[t] => t[2] < nextId'[t[1]]
                    /\ \A b \in BOOLEAN : Ordered(t, b)' =>
                         /\ t[2] < nextId'[t[1]]
                         /\ ~(state'[t] = "Queued" /\ overwrite'[t] = b)
                         /\ b => overwrite'[t]
  BY DEF GivenOK
<1>1. t[1] \in Sessions /\ t[2] \in Nat
  BY TaskParts, TransfersAssumption DEF TransferIds
<1>2. t[2] < nextId[t[1]] => t[2] < nextId'[t[1]]
  BY <1>1 DEF Steady
<1>3. state[t] = "Conflict" => t[2] < nextId[t[1]]
  BY DEF IInv, QueueConsistent
<1>4. overwrite[t] \in BOOLEAN /\ overwrite'[t] \in BOOLEAN
  BY DEF IInv, TypeOK
<1>5. overwrite'[t] => t[2] < nextId'[t[1]]
  BY <1>2, <1>3 DEF Steady, GivenOK
<1>6. ASSUME NEW b \in BOOLEAN, Ordered(t, b)'
      PROVE  /\ t[2] < nextId'[t[1]]
             /\ ~(state'[t] = "Queued" /\ overwrite'[t] = b)
             /\ b => overwrite'[t]
  <2>1. Ordered(t, b)
    BY <1>6
  <2>2. t[2] < nextId[t[1]] /\ ~(state[t] = "Queued" /\ overwrite[t] = b) /\ (b => overwrite[t])
    BY <2>1 DEF GivenOK
  <2>3. state[t] = "Conflict" => ~overwrite[t]
    BY DEF ConflictOK
  <2>4. b => overwrite'[t]
    BY <2>2, <2>3 DEF Steady
  <2>5. ~(state'[t] = "Queued" /\ overwrite'[t] = b)
    BY <2>2, <2>3, <1>4 DEF Steady
  <2> QED
    BY <1>2, <2>2, <2>4, <2>5
<1> QED
  BY <1>5, <1>6

\* Nothing is told or asked anew when every task is steady.
LEMMA SteadyConflict ==
  ASSUME IInv, ConflictOK, \A t \in Tasks : Steady(t), UNCHANGED <<phase, confirmed, result, events>>
  PROVE  ConflictOK'
<1> SUFFICES ASSUME NEW t \in Tasks
             PROVE  /\ state'[t] = "Conflict" => ~overwrite'[t]
                    /\ state'[t] = "Conflict" \/ overwrite'[t] => Answered(t)'
                    /\ \A k \in Links, i \in Nat : Conflicts(t, k, i)' =>
                         /\ Answered(t)'
                         /\ state'[t] # "Conflict" /\ ~overwrite'[t]
                         /\ \A l \in Links, j \in Nat : Conflicts(t, l, j)' => k = l /\ i = j
  BY DEF ConflictOK
<1>1. Answered(t)' <=> Answered(t)
  BY DEF Answered, Reported
<1>2. \A k \in Links, i \in Nat : Conflicts(t, k, i)' <=> Conflicts(t, k, i)
  BY DEF Conflicts
<1>3. state'[t] = "Conflict" => state[t] = "Conflict" /\ overwrite'[t] = overwrite[t]
  BY DEF Steady
<1>4. overwrite'[t] => overwrite[t] \/ state[t] = "Conflict"
  BY DEF Steady
<1> QED
  BY <1>1, <1>2, <1>3, <1>4 DEF ConflictOK

LEMMA SteadySettled ==
  ASSUME SettledOK, GivenOK, \A t \in Tasks : Steady(t), SameWorkers, SameTasks,
         UNCHANGED <<conn, events>>
  PROVE  SettledOK'
<1> SUFFICES ASSUME NEW t \in Tasks, NEW k \in Links, Forgotten(<<t[1], k>>)', NEW b \in BOOLEAN,
                    \/ \E i \in Nat : InWorker(t, b, k, i)'
                    \/ \E n \in Numbers : InTask(t, b, k, n)'
             PROVE  state'[t] \in Quits
  BY DEF SettledOK
<1>1. (\E i \in Nat : InWorker(t, b, k, i)) \/ (\E n \in Numbers : InTask(t, b, k, n))
  BY DEF SameWorkers, SameTasks
<1>2. Forgotten(<<t[1], k>>)
  BY DEF Forgotten, EndingPending
<1>3. state[t] \in Quits
  BY <1>1, <1>2 DEF SettledOK
<1>4. Ordered(t, b)
  BY <1>1 DEF Ordered
<1>5. t[2] < nextId[t[1]]
  BY <1>4 DEF GivenOK
<1> QED
  BY <1>3, <1>5 DEF Steady

LEMMA SteadyIgnored ==
  ASSUME IgnoredOK, \A t \in Tasks : Steady(t), SameCommands,
         \A c \in Connections : conn'[c] \in Establishing => conn[c] \in Establishing,
         \A s \in Sessions : Doomed(s) => Doomed(s)'
  PROVE  IgnoredOK'
<1> SUFFICES ASSUME NEW t \in Tasks, NEW k \in Links, NEW b \in BOOLEAN, NEW i \in Nat,
                    state'[t] = "Running", conn'[<<t[1], k>>] \in Establishing,
                    InCommands(t, b, k, i)'
             PROVE  Doomed(t[1])'
  BY DEF IgnoredOK
<1>1. state[t] = "Running" /\ InCommands(t, b, k, i) /\ conn[<<t[1], k>>] \in Establishing
  BY TaskParts, LinkConnection DEF Steady, SameCommands
<1>2. Doomed(t[1])
  BY <1>1 DEF IgnoredOK
<1> QED
  BY <1>2, TaskParts

\* A command that is on its way stays in its channel when another is appended.
LEMMA SendsCarries ==
  ASSUME IInv, NEW c \in Connections, Sends(c), NEW id, HasTransferCommand(commands[c], id)
  PROVE  HasTransferCommand(commands[c], id)'
<1>1. PICK i \in DOMAIN commands[c] : commands[c][i].op = "Transfer" /\ commands[c][i].id = id
  BY DEF HasTransferCommand
<1>2. ASSUME NEW x \in Commands, commands'[c] = Append(commands[c], x)
      PROVE  i \in DOMAIN commands'[c] /\ commands'[c][i] = commands[c][i]
  <2>1. commands[c] \in Seq(Commands)
    BY DEF IInv, TypeOK
  <2> QED
    BY <1>2, <2>1, Appended
<1>3. i \in DOMAIN commands'[c] /\ commands'[c][i] = commands[c][i]
  BY <1>2 DEF Sends
<1> QED
  BY <1>1, <1>3 DEF HasTransferCommand

LEMMA QuietCarried ==
  ASSUME IInv, RunningIsCarried, QuietStep, UNCHANGED systemVars
  PROVE  RunningIsCarried'
<1> SUFFICES ASSUME NEW t \in Tasks, state'[t] = "Running"
             PROVE  \E k \in Links : Carried(<<t[1], k>>, t[2])'
  BY DEF RunningIsCarried, Links
<1>1. state[t] = "Running"
  BY DEF QuietStep, Steady
<1>2. PICK k \in Links : Carried(<<t[1], k>>, t[2])
  BY <1>1 DEF RunningIsCarried, Links
<1> DEFINE c == <<t[1], k>>
<1>3. c \in Connections
  BY TaskParts, LinkConnection
<1>4. HasTransferCommand(commands[c], t[2]) => HasTransferCommand(commands[c], t[2])'
  BY <1>3, SendsCarries DEF QuietStep
<1>5. EndAnnounced(c) => EndAnnounced(c)'
  <2>1. handle'[c[1]] \in {handle[c[1]], NoHandle}
    BY <1>3, ConnectionParts DEF QuietStep
  <2>2. conn'[c] = conn[c] /\ events'[c] = events[c]
    BY DEF systemVars, fileVars
  <2> QED
    BY <1>3, <2>1, <2>2, DroppedStays, AnnouncedKept
<1>6. Carried(c, t[2])'
  BY <1>2, <1>4, <1>5
  DEF Carried, systemVars, fileVars, workerVars, attemptVars, HasTransferCommand, HasTransferEvent
<1> QED
  BY <1>6

LEMMA QuietLife ==
  ASSUME IInv, ChannelsOK, LifeOK, HandleOK, QuietStep, UNCHANGED systemVars
  PROVE  LifeOK' /\ HandleOK'
<1> USE DEF systemVars, fileVars, workerVars, attemptVars
<1>1. ASSUME NEW s \in Sessions PROVE handle'[s] <= generation'[s]
  <2>1. generation[s] \in Nat /\ handle[s] <= generation[s]
    BY ConnectionsAssumption DEF LifeOK, IInv, TypeOK
  <2>2. generation'[s] = generation[s] /\ handle'[s] \in {handle[s], 0}
    BY DEF QuietStep, NoHandle
  <2> QED
    BY <2>1, <2>2
<1>2. \A c \in Connections : conn[c] = "Unmade" => commands'[c] = <<>>
  <2> TAKE c \in Connections
  <2> SUFFICES ASSUME conn[c] = "Unmade" PROVE commands'[c] = <<>>
    OBVIOUS
  <2>1. commands[c] = <<>> /\ generation[c[1]] < c[2] /\ handle[c[1]] <= generation[c[1]]
    BY ConnectionParts DEF LifeOK
  <2>2. handle[c[1]] # c[2]
    BY <2>1, ConnectionParts DEF IInv, TypeOK
  <2> QED
    BY <2>1, <2>2 DEF QuietStep, Sends
<1>3. LifeOK'
  <2>1. \A s \in Sessions, k \in Links : conn'[<<s, k>>] = "Unmade" <=> generation'[s] < k
    BY DEF LifeOK, QuietStep
  <2>2. \A c \in Connections :
          conn'[c] = "Unmade" => commands'[c] = <<>> /\ events'[c] = <<>> /\ fileCommands'[c] = <<>>
    BY <1>2 DEF LifeOK
  <2> QED
    BY <1>1, <2>1, <2>2 DEF LifeOK
<1>4. HandleOK'
  BY DEF HandleOK, QuietStep, EndingPending
<1> QED
  BY <1>3, <1>4

LEMMA QuietLink ==
  ASSUME LinkOK, QuietStep, UNCHANGED systemVars
  PROVE  LinkOK'
<1> SUFFICES ASSUME NEW s \in Sessions, link'[s] = "Connected", handle'[s] # NoHandle
             PROVE  conn'[<<s, handle'[s]>>] = "Running" \/ Doomed(s)'
  BY DEF LinkOK
<1>1. link[s] = "Connected" /\ handle'[s] = handle[s] /\ handle[s] # NoHandle
  BY DEF QuietStep
<1>2. conn[<<s, handle[s]>>] = "Running" \/ Doomed(s)
  BY <1>1 DEF LinkOK
<1>3. Doomed(s) => Doomed(s)'
  BY DoomedKept DEF QuietStep, systemVars, fileVars
<1> QED
  BY <1>1, <1>2, <1>3 DEF systemVars

LEMMA QuietKeeps ==
  ASSUME SystemIInv, IInv', QuietStep, UNCHANGED systemVars
  PROVE  SystemIInv'
<1> USE DEF SystemIInv
<1>1. SameCommands /\ SameWorkers /\ SameTasks
  BY QuietSame
<1>2. ChannelsOK'
  BY DEF ChannelsOK, SystemTypeOK, IInv, systemVars, fileVars, workerVars, attemptVars
<1>3. LifeOK' /\ HandleOK' /\ LinkOK'
  BY QuietLife, QuietLink
<1>4. OrderOK' /\ AttemptsOK'
  BY DEF OrderOK, AttemptsOK, systemVars, fileVars, attemptVars
<1>5. OnceOK' /\ GivenOK'
  BY <1>1, SameOnce, SteadyGiven, SameOrdered DEF QuietStep
<1>6. ConflictOK' /\ SettledOK'
  BY <1>1, SteadyConflict, SteadySettled DEF QuietStep, systemVars, fileVars, attemptVars
<1>7. IgnoredOK'
  <2>1. \A s \in Sessions : Doomed(s) => Doomed(s)'
    BY DoomedKept DEF QuietStep, systemVars, fileVars
  <2> QED
    BY <1>1, <2>1, SteadyIgnored DEF QuietStep, systemVars
<1>8. RunningIsCarried'
  BY QuietCarried
<1> QED
  BY <1>2, <1>3, <1>4, <1>5, <1>6, <1>7, <1>8

-----------------------------------------------------------------------------
(* Starting a task.                                                        *)

\* What StartTask does to the whole system.
LEMMA StartEffect ==
  ASSUME SystemIInv, NEW u \in Tasks, StartTask(u), UNCHANGED systemVars,
         NEW h, h = handle[u[1]], NEW c, c = <<u[1], h>>
  PROVE  /\ h \in Links /\ c \in Connections /\ conn[c] # "Unmade"
         /\ link[u[1]] = "Connected"
         /\ state[u] = "Queued"
         /\ state' = [state EXCEPT ![u] = "Running"]
         /\ UNCHANGED <<overwrite, nextId, handle, generation, link>>
         /\ commands' = [commands EXCEPT ![c] =
              Append(@, [op |-> "Transfer", id |-> u[2], overwrite |-> overwrite[u]])]
<1> USE DEF SystemIInv, IInv, TypeOK
<1>1. u[1] \in Sessions
  BY TaskParts
<1>2. h # 0 /\ c \in listening
  BY DEF StartTask, Reachable, NoHandle
<1>3. h \in Links /\ c \in Connections
  BY <1>1, <1>2, ConnectionParts DEF Links
<1>4. conn[c] # "Unmade"
  <2>1. ~(generation[u[1]] < h)
    BY <1>1, <1>3, ConnectionsAssumption DEF LifeOK, Links
  <2> QED
    BY <1>1, <1>3, <2>1 DEF LifeOK
<1> QED
  BY <1>3, <1>4
  DEF StartTask, TakeTask, IsNextQueued, Queued, SetState, Send, linkVars

LEMMA StartCommands ==
  ASSUME SystemIInv, NEW u \in Tasks, StartTask(u), UNCHANGED systemVars,
         NEW h, h = handle[u[1]], NEW c, c = <<u[1], h>>
  PROVE  \A t \in Tasks, b \in BOOLEAN, k \in Links, i \in Nat :
           InCommands(t, b, k, i)' <=>
             \/ InCommands(t, b, k, i)
             \/ t = u /\ b = overwrite[u] /\ k = h /\ i = Len(commands[c]) + 1
<1> TAKE t \in Tasks, b \in BOOLEAN, k \in Links, i \in Nat
<1> DEFINE x == [op |-> "Transfer", id |-> u[2], overwrite |-> overwrite[u]]
<1>1. c \in Connections /\ h \in Links /\ commands' = [commands EXCEPT ![c] = Append(@, x)]
  BY StartEffect
<1>2. commands \in [Connections -> Seq(Commands)] /\ overwrite[u] \in BOOLEAN /\ x \in Commands
  BY TaskParts DEF SystemIInv, IInv, TypeOK, Commands
<1>3. <<t[1], k>> \in Connections
  BY TaskParts, LinkConnection
<1>4. CASE <<t[1], k>> = c
  <2>1. commands'[c] = Append(commands[c], x) /\ commands[c] \in Seq(Commands)
    BY <1>1, <1>2
  <2>2. TransferAt(Append(commands[c], x), i, t[2], b) <=>
          \/ TransferAt(commands[c], i, t[2], b)
          \/ i = Len(commands[c]) + 1 /\ x = [op |-> "Transfer", id |-> t[2], overwrite |-> b]
    BY <1>2, <2>1, TransferAtAppend
  <2>3. x = [op |-> "Transfer", id |-> t[2], overwrite |-> b] <=> u[2] = t[2] /\ b = overwrite[u]
    OBVIOUS
  <2>4. u[2] = t[2] <=> t = u
    BY <1>4, TaskParts
  <2>5. k = h
    BY <1>4
  <2>6. InCommands(t, b, k, i)' <=> TransferAt(Append(commands[c], x), i, t[2], b)
    BY <1>4, <2>1 DEF InCommands, TransferAt
  <2> QED
    BY <1>4, <2>2, <2>3, <2>4, <2>5, <2>6 DEF InCommands
<1>5. CASE <<t[1], k>> # c
  <2>1. commands'[<<t[1], k>>] = commands[<<t[1], k>>]
    BY <1>1, <1>2, <1>3, <1>5
  <2> QED
    BY <1>5, <2>1 DEF InCommands, TransferAt
<1> QED
  BY <1>4, <1>5

\* A task that waits is nowhere ordered as it would be now.
LEMMA WaitingUnordered ==
  ASSUME SystemIInv, NEW u \in Tasks, state[u] = "Queued", NEW k \in Links, NEW b \in BOOLEAN
  PROVE  /\ ~Ordered(u, overwrite[u])
         /\ \A i \in Nat : ~InCommands(u, b, k, i)
<1> USE DEF SystemIInv
<1>1. overwrite[u] \in BOOLEAN
  BY DEF IInv, TypeOK
<1>2. ~Ordered(u, overwrite[u])
  BY <1>1 DEF GivenOK
<1>3. ASSUME NEW i \in Nat, InCommands(u, b, k, i) PROVE FALSE
  <2>1. Ordered(u, b)
    BY <1>3 DEF Ordered
  <2>2. b = FALSE /\ overwrite[u]
    BY <1>1, <1>2, <2>1 DEF GivenOK
  <2>3. PICK l \in Links, n \in Numbers : Reported(Att(u, l, n))
    BY <2>2 DEF ConflictOK, Answered
  <2>4. Att(u, l, n) \in Files!Attempts
    BY TaskAttempt
  <2>5. confirmed[Att(u, l, n)] = FALSE /\ phase[Att(u, l, n)] # "Unborn"
    BY <2>3, <2>4 DEF Reported, ChannelsOK, SystemTypeOK
  <2>6. InTask(u, FALSE, l, n)
    BY <2>5 DEF InTask
  <2> QED
    BY <1>3, <2>2, <2>6 DEF OnceOK, Once
<1> QED
  BY <1>2, <1>3

LEMMA StartKeeps ==
  ASSUME SystemIInv, IInv', NEW u \in Tasks, StartTask(u), UNCHANGED systemVars,
         NEW h, h = handle[u[1]], NEW c, c = <<u[1], h>>
  PROVE  SystemIInv'
<1> USE DEF SystemIInv
<1> DEFINE x == [op |-> "Transfer", id |-> u[2], overwrite |-> overwrite[u]]
<1>1. /\ h \in Links /\ c \in Connections /\ conn[c] # "Unmade"
      /\ link[u[1]] = "Connected"
      /\ state[u] = "Queued"
      /\ state' = [state EXCEPT ![u] = "Running"]
      /\ UNCHANGED <<overwrite, nextId, handle, generation, link>>
      /\ commands' = [commands EXCEPT ![c] = Append(@, x)]
  BY StartEffect
<1>2. u[1] \in Sessions /\ u[2] \in TransferIds
  BY TaskParts
<1>3. /\ state \in [Tasks -> TransferStates] /\ overwrite \in [Tasks -> BOOLEAN]
      /\ commands \in [Connections -> Seq(Commands)]
  BY DEF IInv, TypeOK
<1>4. SameWorkers /\ SameTasks
  BY DEF SameWorkers, SameTasks, InWorker, InTask, TransferAt, systemVars, fileVars, workerVars,
         attemptVars
<1>5. \A t \in Tasks, b \in BOOLEAN, k \in Links, i \in Nat :
        InCommands(t, b, k, i)' <=>
           \/ InCommands(t, b, k, i)
           \/ t = u /\ b = overwrite[u] /\ k = h /\ i = Len(commands[c]) + 1
  BY StartCommands
<1>6. ~Ordered(u, overwrite[u])
  BY <1>1, WaitingUnordered
<1>7. \A k \in Links, b \in BOOLEAN, i \in Nat : ~InCommands(u, b, k, i)
  BY <1>1, WaitingUnordered
<1>8. \A s \in Sessions : Doomed(s) => Doomed(s)'
  BY <1>1, DoomedKept DEF systemVars, fileVars
<1>9. ChannelsOK'
  BY DEF ChannelsOK, SystemTypeOK, IInv, systemVars, fileVars, workerVars, attemptVars
<1>10. LifeOK' /\ HandleOK'
  <2>1. \A d \in Connections : conn[d] = "Unmade" => commands'[d] = <<>>
    BY <1>1, <1>3 DEF LifeOK
  <2> QED
    BY <1>1, <2>1 DEF LifeOK, HandleOK, EndingPending, systemVars, fileVars, workerVars, attemptVars
<1>11. OrderOK' /\ AttemptsOK'
  BY DEF OrderOK, AttemptsOK, systemVars, fileVars, attemptVars
<1>12. LinkOK'
  BY <1>1, <1>8 DEF LinkOK, systemVars
<1>13. OnceOK'
  <2> SUFFICES ASSUME NEW t \in Tasks, NEW b \in BOOLEAN, NEW k \in Links, NEW l \in Links
      PROVE
    /\ \A i, j \in Nat : InCommands(t, b, k, i)' /\ InCommands(t, b, l, j)' => k = l /\ i = j
    /\ \A i, j \in Nat : InWorker(t, b, k, i)' /\ InWorker(t, b, l, j)' => k = l /\ i = j
    /\ \A i, j \in Numbers : InTask(t, b, k, i)' /\ InTask(t, b, l, j)' => k = l /\ i = j
    /\ \A i, j \in Nat : ~(InCommands(t, b, k, i)' /\ InWorker(t, b, l, j)')
    /\ \A i \in Nat, j \in Numbers : ~(InCommands(t, b, k, i)' /\ InTask(t, b, l, j)')
    /\ \A i \in Nat, j \in Numbers : ~(InWorker(t, b, k, i)' /\ InTask(t, b, l, j)')
    BY DEF OnceOK, Once
  <2>1. CASE t = u /\ b = overwrite[u]
    <3>1. \A m \in Links : /\ \A i \in Nat : ~InCommands(t, b, m, i) /\ ~InWorker(t, b, m, i)
                           /\ \A n \in Numbers : ~InTask(t, b, m, n)
      BY <1>6, <2>1 DEF Ordered
    <3> QED
      BY <1>4, <1>5, <2>1, <3>1 DEF SameWorkers, SameTasks
  <2>2. CASE ~(t = u /\ b = overwrite[u])
    <3>1. \A m \in Links, i \in Nat : InCommands(t, b, m, i)' <=> InCommands(t, b, m, i)
      BY <1>5, <2>2
    <3> QED
      BY <1>4, <3>1 DEF SameWorkers, SameTasks, OnceOK, Once
  <2> QED
    BY <2>1, <2>2
<1>14. GivenOK'
  <2>1. \A t \in Tasks, b \in BOOLEAN :
          Ordered(t, b)' => Ordered(t, b) \/ (t = u /\ b = overwrite[u])
    BY <1>4, <1>5 DEF Ordered, SameWorkers, SameTasks
  <2>2. u[2] < nextId[u[1]]
    BY <1>1 DEF IInv, QueueConsistent
  <2>3. \A t \in Tasks : state'[t] = "Queued" => state[t] = "Queued" /\ t # u
    BY <1>1, <1>3
  <2> QED
    BY <1>1, <2>1, <2>2, <2>3 DEF GivenOK
<1>15. ConflictOK'
  <2>1. \A t \in Tasks : state'[t] = "Conflict" => state[t] = "Conflict"
    BY <1>1, <1>3
  <2> QED
    BY <1>1, <2>1 DEF ConflictOK, Conflicts, Answered, Reported, systemVars, fileVars, attemptVars
<1>16. SettledOK'
  <2>1. \A d \in Connections : Forgotten(d)' <=> Forgotten(d)
    BY DEF Forgotten, EndingPending, systemVars, fileVars
  <2>2. \A t \in Tasks : state[t] \in Quits => state'[t] \in Quits
    BY <1>1, <1>3 DEF Quits
  <2> QED
    BY <1>4, <2>1, <2>2, LinkConnection, TaskParts DEF SettledOK, SameWorkers, SameTasks
<1>17. IgnoredOK'
  <2> SUFFICES ASSUME NEW t \in Tasks, NEW k \in Links, NEW b \in BOOLEAN, NEW i \in Nat,
                      state'[t] = "Running", conn[<<t[1], k>>] \in Establishing,
                      InCommands(t, b, k, i)'
               PROVE  Doomed(t[1])'
    BY DEF IgnoredOK, systemVars
  <2>1. CASE t = u
    <3>1. k = h
      BY <1>5, <1>7, <2>1
    <3>2. conn[c] # "Running"
      BY <2>1, <3>1 DEF Establishing
    <3>3. Doomed(u[1])
      BY <1>1, <1>2, <3>2 DEF LinkOK, Links, NoHandle
    <3> QED
      BY <1>2, <1>8, <2>1, <3>3
  <2>2. CASE t # u
    BY <1>1, <1>3, <1>5, <1>8, <2>2, TaskParts DEF IgnoredOK
  <2> QED
    BY <2>1, <2>2
<1>18. RunningIsCarried'
  <2> SUFFICES ASSUME NEW t \in Tasks, state'[t] = "Running"
               PROVE  \E k \in Links : Carried(<<t[1], k>>, t[2])'
    BY DEF RunningIsCarried, Links
  <2>0. commands[c] \in Seq(Commands) /\ commands'[c] = Append(commands[c], x) /\ x \in Commands
    BY <1>1, <1>2, <1>3 DEF Commands
  <2>1. CASE t = u
    <3>1. Len(commands[c]) + 1 \in DOMAIN commands'[c] /\ commands'[c][Len(commands[c]) + 1] = x
      BY <2>0, Appended
    <3>2. HasTransferCommand(commands[c], u[2])'
      BY <3>1 DEF HasTransferCommand
    <3>3. conn[c] \in Alive \/ EndAnnounced(c)
      BY <1>1, <1>2 DEF HandleOK, EndingPending, EndAnnounced, Links, NoHandle
    <3>4. EndAnnounced(c) => EndAnnounced(c)'
      BY <1>1 DEF EndAnnounced, HandleDropped, systemVars, fileVars
    <3>5. Carried(c, u[2])'
      BY <3>2, <3>3, <3>4 DEF Carried, Alive, systemVars
    <3> QED
      BY <1>1, <2>1, <3>5
  <2>2. CASE t # u
    <3>1. state[t] = "Running"
      BY <1>1, <1>3, <2>2
    <3>2. PICK k \in Links : Carried(<<t[1], k>>, t[2])
      BY <3>1 DEF RunningIsCarried, Links
    <3> DEFINE d == <<t[1], k>>
    <3>3. d \in Connections
      BY TaskParts, LinkConnection
    <3>4. HasTransferCommand(commands[d], t[2]) => HasTransferCommand(commands[d], t[2])'
      <4>1. CASE d = c
        <5>1. \A i \in DOMAIN commands[c] :
                i \in DOMAIN commands'[c] /\ commands'[c][i] = commands[c][i]
          BY <2>0, Appended
        <5> QED
          BY <4>1, <5>1 DEF HasTransferCommand
      <4>2. CASE d # c
        BY <1>1, <1>3, <3>3, <4>2 DEF HasTransferCommand
      <4> QED
        BY <4>1, <4>2
    <3>5. EndAnnounced(d) => EndAnnounced(d)'
      BY <1>1 DEF EndAnnounced, HandleDropped, systemVars, fileVars
    <3>6. Carried(d, t[2])'
      BY <3>2, <3>4, <3>5
      DEF Carried, systemVars, fileVars, workerVars, attemptVars, HasTransferCommand,
          HasTransferEvent
    <3> QED
      BY <3>6
  <2> QED
    BY <2>1, <2>2
<1> QED
  BY <1>9, <1>10, <1>11, <1>12, <1>13, <1>14, <1>15, <1>16, <1>17, <1>18

-----------------------------------------------------------------------------
(* A new connection.                                                       *)

LEMMA ConnectKeeps ==
  ASSUME SystemIInv, IInv', NEW s \in Sessions, Connect(s),
         NEW g, g = generation[s] + 1, NEW c, c = <<s, g>>
  PROVE  SystemIInv'
<1> USE DEF SystemIInv
<1>1. /\ UNCHANGED <<state, overwrite, nextId, commands, fileVars>>
      /\ generation' = [generation EXCEPT ![s] = g]
      /\ handle' = [handle EXCEPT ![s] = g]
      /\ link' = [link EXCEPT ![s] = "Connecting"]
      /\ conn' = [conn EXCEPT ![c] = "Opening"]
      /\ generation[s] < MaxConnections
  BY DEF Connect, StartConnection, queueVars
<1>2. g \in Links /\ c \in Connections /\ g # NoHandle
  <2>1. generation[s] \in 0..MaxConnections
    BY DEF IInv, TypeOK
  <2>2. g \in Links /\ g # 0
    BY <1>1, <2>1, ConnectionsAssumption DEF Links
  <2> QED
    BY <2>2, LinkConnection DEF NoHandle
<1>3. conn[c] = "Unmade"
  <2>1. generation[s] < g
    BY ConnectionsAssumption DEF IInv, TypeOK
  <2> QED
    BY <1>2, <2>1 DEF LifeOK
<1>4. commands[c] = <<>> /\ events[c] = <<>> /\ fileCommands[c] = <<>>
  BY <1>2, <1>3 DEF LifeOK
<1>5. conn \in [Connections -> ConnStates]
  BY DEF ChannelsOK, SystemTypeOK
<1>6. SameCommands /\ SameWorkers /\ SameTasks
  BY <1>1 DEF SameCommands, SameWorkers, SameTasks, InCommands, InWorker, InTask, TransferAt, fileVars,
              workerVars, attemptVars
<1>7. ASSUME NEW d \in Connections, EndAnnounced(d) PROVE EndAnnounced(d)'
  <2>1. d # c
    BY <1>3, <1>4, <1>7 DEF EndAnnounced, Establishing
  <2>2. conn'[d] = conn[d] /\ events'[d] = events[d]
    BY <1>1, <1>5, <2>1 DEF fileVars
  <2>3. handle'[d[1]] = d[2] => handle[d[1]] = d[2]
    <3>1. CASE d[1] = s
      <4>1. handle'[d[1]] = g
        BY <1>1, <3>1 DEF IInv, TypeOK
      <4>2. d[2] # g
        BY <2>1, <3>1, ConnectionParts
      <4> QED
        BY <4>1, <4>2
    <3>2. CASE d[1] # s
      BY <1>1, <3>2, ConnectionParts DEF IInv, TypeOK
    <3> QED
      BY <3>1, <3>2
  <2> QED
    BY <1>7, <2>2, <2>3, AnnouncedKept
<1>8. \A r \in Sessions : Doomed(r) => Doomed(r)'
  BY <1>7, LinkConnection DEF Doomed
<1>9. ChannelsOK'
  <2>1. conn' \in [Connections -> ConnStates]
    BY <1>1, <1>5 DEF ConnStates
  <2> QED
    BY <1>1, <2>1 DEF ChannelsOK, SystemTypeOK, IInv, fileVars, workerVars, attemptVars
<1>10. LifeOK'
  <2>1. generation \in [Sessions -> 0..MaxConnections] /\ handle \in [Sessions -> 0..MaxConnections]
    BY DEF IInv, TypeOK
  <2>2. \A r \in Sessions : handle'[r] <= generation'[r]
    BY <1>1, <2>1, ConnectionsAssumption DEF LifeOK
  <2>3. ASSUME NEW r \in Sessions, NEW k \in Links
        PROVE  conn'[<<r, k>>] = "Unmade" <=> generation'[r] < k
    <3>1. <<r, k>> \in Connections /\ k \in Nat
      BY LinkConnection DEF Links
    <3>2. conn[<<r, k>>] = "Unmade" <=> generation[r] < k
      BY DEF LifeOK
    <3>3. CASE r = s /\ k = g
      <4>1. conn'[<<r, k>>] = "Opening" /\ generation'[r] = g
        BY <1>1, <1>2, <1>5, <2>1, <3>3
      <4> QED
        BY <3>1, <3>3, <4>1
    <3>4. CASE r = s /\ k # g
      <4>1. conn'[<<r, k>>] = conn[<<r, k>>] /\ generation'[r] = generation[s] + 1
        BY <1>1, <1>5, <2>1, <3>1, <3>4
      <4>2. generation[s] \in Nat
        BY <2>1, ConnectionsAssumption
      <4> QED
        BY <3>1, <3>2, <3>4, <4>1, <4>2
    <3>5. CASE r # s
      <4>1. conn'[<<r, k>>] = conn[<<r, k>>] /\ generation'[r] = generation[r]
        BY <1>1, <1>5, <2>1, <3>1, <3>5
      <4> QED
        BY <3>2, <4>1
    <3> QED
      BY <3>3, <3>4, <3>5
  <2>4. \A d \in Connections : conn'[d] = conn[d] \/ (d = c /\ conn'[d] = "Opening" /\ conn[d] = "Unmade")
    BY <1>1, <1>3, <1>5
  <2> QED
    BY <1>1, <2>2, <2>3, <2>4, AttemptParts DEF LifeOK, fileVars, workerVars, attemptVars
<1>11. HandleOK'
  <2> SUFFICES ASSUME NEW r \in Sessions, handle'[r] # NoHandle
               PROVE  \/ conn'[<<r, handle'[r]>>] \in Alive \union {"Closing"}
                      \/ EndingPending(<<r, handle[r]>>)'
    BY DEF HandleOK
  <2>1. CASE r = s
    <3>1. handle'[r] = g /\ conn'[c] = "Opening"
      BY <1>1, <1>2, <1>5, <2>1 DEF IInv, TypeOK
    <3> QED
      BY <2>1, <3>1 DEF Alive, Establishing
  <2>2. CASE r # s
    <3>1. handle'[r] = handle[r]
      BY <1>1, <2>2 DEF IInv, TypeOK
    <3>2. handle[r] \in Links
      BY <2>2, <3>1, SMTT(30) DEF IInv, TypeOK, Links, NoHandle
    <3>3. conn'[<<r, handle[r]>>] = conn[<<r, handle[r]>>]
      BY <1>1, <1>5, <2>2, <3>2, LinkConnection
    <3> QED
      BY <1>1, <3>1, <3>3 DEF HandleOK, EndingPending, fileVars
  <2> QED
    BY <2>1, <2>2
<1>12. OrderOK' /\ AttemptsOK'
  <2>1. \A d \in Connections : conn[d] \in {"Running", "Closing"} => conn'[d] = conn[d]
    BY <1>1, <1>3, <1>5
  <2> QED
    BY <1>1, <2>1 DEF OrderOK, AttemptsOK, fileVars, attemptVars
<1>13. LinkOK'
  <2> SUFFICES ASSUME NEW r \in Sessions, link'[r] = "Connected", handle'[r] # NoHandle
               PROVE  conn'[<<r, handle'[r]>>] = "Running" \/ Doomed(r)'
    BY DEF LinkOK
  <2>1. r # s /\ link[r] = "Connected" /\ handle'[r] = handle[r]
    BY <1>1 DEF IInv, TypeOK
  <2>2. handle[r] \in Links
    BY <2>1, SMTT(30) DEF IInv, TypeOK, Links, NoHandle
  <2>3. conn'[<<r, handle[r]>>] = conn[<<r, handle[r]>>]
    BY <1>1, <1>5, <2>1, <2>2, LinkConnection
  <2> QED
    BY <1>8, <2>1, <2>3 DEF LinkOK
<1>14. OnceOK' /\ GivenOK'
  BY <1>1, <1>6, SameOnce, SameOrdered DEF GivenOK
<1>15. ConflictOK'
  BY <1>1 DEF ConflictOK, Conflicts, Answered, Reported, fileVars, attemptVars
<1>16. SettledOK'
  <2>1. \A d \in Connections : Forgotten(d)' => Forgotten(d)
    BY <1>1, <1>5 DEF Forgotten, EndingPending, fileVars
  <2> QED
    BY <1>1, <1>6, <2>1, LinkConnection, TaskParts DEF SettledOK, SameWorkers, SameTasks
<1>17. IgnoredOK'
  <2> SUFFICES ASSUME NEW t \in Tasks, NEW k \in Links, NEW b \in BOOLEAN, NEW i \in Nat,
                      state'[t] = "Running", conn'[<<t[1], k>>] \in Establishing,
                      InCommands(t, b, k, i)'
               PROVE  Doomed(t[1])'
    BY DEF IgnoredOK
  <2>1. InCommands(t, b, k, i) /\ state[t] = "Running"
    BY <1>1, <1>6 DEF SameCommands
  <2>2. <<t[1], k>> # c
    BY <1>4, <2>1 DEF InCommands, TransferAt
  <2>3. conn[<<t[1], k>>] \in Establishing
    BY <1>1, <1>5, <2>2, TaskParts, LinkConnection
  <2> QED
    BY <1>8, <2>1, <2>3, TaskParts DEF IgnoredOK
<1>18. RunningIsCarried'
  <2> SUFFICES ASSUME NEW t \in Tasks, state'[t] = "Running"
               PROVE  \E k \in Links : Carried(<<t[1], k>>, t[2])'
    BY DEF RunningIsCarried, Links
  <2>1. PICK k \in Links : Carried(<<t[1], k>>, t[2])
    BY <1>1 DEF RunningIsCarried, Links
  <2>2. <<t[1], k>> \in Connections
    BY TaskParts, LinkConnection
  <2>3. EndAnnounced(<<t[1], k>>) => EndAnnounced(<<t[1], k>>)'
    BY <1>7, <2>2
  <2>4. conn[<<t[1], k>>] \in Establishing \union {"Running"} => conn'[<<t[1], k>>] = conn[<<t[1], k>>]
    BY <1>1, <1>3, <1>5, <2>2 DEF Establishing
  <2>5. Carried(<<t[1], k>>, t[2])'
    BY <1>1, <2>1, <2>3, <2>4
    DEF Carried, fileVars, workerVars, attemptVars, HasTransferCommand, HasTransferEvent
  <2> QED
    BY <2>5
<1> QED
  BY <1>9, <1>10, <1>11, <1>12, <1>13, <1>14, <1>15, <1>16, <1>17, <1>18

-----------------------------------------------------------------------------
(* What the workers leave alone, and where they move the orders.           *)

\* The application's own state, but for the channels.
Unheard == UNCHANGED <<state, overwrite, nextId, link, handle, generation>>

\* Every order that is anywhere was there before, at most one place further back in
\* each channel.
Shifted(t, b, dc, df) ==
  \A k \in Links :
    /\ \A i \in Nat : InCommands(t, b, k, i)' => InCommands(t, b, k, i + dc[<<t[1], k>>])
    /\ \A i \in Nat : InWorker(t, b, k, i)' => InWorker(t, b, k, i + df[<<t[1], k>>])
    /\ \A n \in Numbers : InTask(t, b, k, n)' => InTask(t, b, k, n)

Shifts(dc, df) == \A t \in Tasks, b \in BOOLEAN : Shifted(t, b, dc, df)

LEMMA ShiftOnce ==
  ASSUME NEW dc \in [Connections -> Nat], NEW df \in [Connections -> Nat],
         NEW t \in Tasks, NEW b \in BOOLEAN, Once(t, b), Shifted(t, b, dc, df)
  PROVE  Once(t, b)'
<1> SUFFICES ASSUME NEW k \in Links, NEW l \in Links
    PROVE
    /\ \A i, j \in Nat : InCommands(t, b, k, i)' /\ InCommands(t, b, l, j)' => k = l /\ i = j
    /\ \A i, j \in Nat : InWorker(t, b, k, i)' /\ InWorker(t, b, l, j)' => k = l /\ i = j
    /\ \A i, j \in Numbers : InTask(t, b, k, i)' /\ InTask(t, b, l, j)' => k = l /\ i = j
    /\ \A i, j \in Nat : ~(InCommands(t, b, k, i)' /\ InWorker(t, b, l, j)')
    /\ \A i \in Nat, j \in Numbers : ~(InCommands(t, b, k, i)' /\ InTask(t, b, l, j)')
    /\ \A i \in Nat, j \in Numbers : ~(InWorker(t, b, k, i)' /\ InTask(t, b, l, j)')
  BY DEF Once
<1>1. dc[<<t[1], k>>] \in Nat /\ dc[<<t[1], l>>] \in Nat
      /\ df[<<t[1], k>>] \in Nat /\ df[<<t[1], l>>] \in Nat
  BY TaskParts, LinkConnection
<1>2. PICK p \in Nat, q \in Nat, v \in Nat, w \in Nat :
        /\ p = dc[<<t[1], k>>] /\ q = dc[<<t[1], l>>]
        /\ v = df[<<t[1], k>>] /\ w = df[<<t[1], l>>]
  BY <1>1
<1>3. /\ \A i \in Nat : InCommands(t, b, k, i)' => InCommands(t, b, k, i + p)
      /\ \A i \in Nat : InCommands(t, b, l, i)' => InCommands(t, b, l, i + q)
      /\ \A i \in Nat : InWorker(t, b, k, i)' => InWorker(t, b, k, i + v)
      /\ \A i \in Nat : InWorker(t, b, l, i)' => InWorker(t, b, l, i + w)
      /\ \A n \in Numbers : InTask(t, b, k, n)' => InTask(t, b, k, n)
      /\ \A n \in Numbers : InTask(t, b, l, n)' => InTask(t, b, l, n)
  BY <1>2 DEF Shifted
<1>4. /\ \A i, j \in Nat : InCommands(t, b, k, i) /\ InCommands(t, b, l, j) => k = l /\ i = j
      /\ \A i, j \in Nat : InWorker(t, b, k, i) /\ InWorker(t, b, l, j) => k = l /\ i = j
      /\ \A i, j \in Numbers : InTask(t, b, k, i) /\ InTask(t, b, l, j) => k = l /\ i = j
      /\ \A i, j \in Nat : ~(InCommands(t, b, k, i) /\ InWorker(t, b, l, j))
      /\ \A i \in Nat, j \in Numbers : ~(InCommands(t, b, k, i) /\ InTask(t, b, l, j))
      /\ \A i \in Nat, j \in Numbers : ~(InWorker(t, b, k, i) /\ InTask(t, b, l, j))
  BY DEF Once
<1>5. ASSUME NEW i \in Nat, NEW j \in Nat, InCommands(t, b, k, i)', InCommands(t, b, l, j)'
      PROVE  k = l /\ i = j
  <2>1. InCommands(t, b, k, i + p) /\ InCommands(t, b, l, j + q)
    BY <1>3, <1>5
  <2>2. i + p \in Nat /\ j + q \in Nat
    OBVIOUS
  <2>3. k = l /\ i + p = j + q
    BY <1>4, <2>1, <2>2
  <2> QED
    BY <1>2, <2>3
<1>6. ASSUME NEW i \in Nat, NEW j \in Nat, InWorker(t, b, k, i)', InWorker(t, b, l, j)'
      PROVE  k = l /\ i = j
  <2>1. InWorker(t, b, k, i + v) /\ InWorker(t, b, l, j + w)
    BY <1>3, <1>6
  <2>2. i + v \in Nat /\ j + w \in Nat
    OBVIOUS
  <2>3. k = l /\ i + v = j + w
    BY <1>4, <2>1, <2>2
  <2> QED
    BY <1>2, <2>3
<1>7. \A i, j \in Numbers : InTask(t, b, k, i)' /\ InTask(t, b, l, j)' => k = l /\ i = j
  BY <1>3, <1>4
<1>8. ASSUME NEW i \in Nat, NEW j \in Nat, InCommands(t, b, k, i)', InWorker(t, b, l, j)' PROVE FALSE
  <2>1. InCommands(t, b, k, i + p) /\ InWorker(t, b, l, j + w)
    BY <1>3, <1>8
  <2>2. i + p \in Nat /\ j + w \in Nat
    OBVIOUS
  <2> QED
    BY <1>4, <2>1, <2>2
<1>9. ASSUME NEW i \in Nat, NEW j \in Numbers, InCommands(t, b, k, i)', InTask(t, b, l, j)' PROVE FALSE
  <2>1. InCommands(t, b, k, i + p) /\ InTask(t, b, l, j)
    BY <1>3, <1>9
  <2>2. i + p \in Nat
    OBVIOUS
  <2> QED
    BY <1>4, <2>1, <2>2
<1>10. ASSUME NEW i \in Nat, NEW j \in Numbers, InWorker(t, b, k, i)', InTask(t, b, l, j)' PROVE FALSE
  <2>1. InWorker(t, b, k, i + v) /\ InTask(t, b, l, j)
    BY <1>3, <1>10
  <2>2. i + v \in Nat
    OBVIOUS
  <2> QED
    BY <1>4, <2>1, <2>2
<1> QED
  BY <1>5, <1>6, <1>7, <1>8, <1>9, <1>10

LEMMA ShiftOrdered ==
  ASSUME NEW dc \in [Connections -> Nat], NEW df \in [Connections -> Nat], Shifts(dc, df)
  PROVE  \A t \in Tasks, b \in BOOLEAN : Ordered(t, b)' => Ordered(t, b)
<1> SUFFICES ASSUME NEW t \in Tasks, NEW b \in BOOLEAN, Ordered(t, b)' PROVE Ordered(t, b)
  OBVIOUS
<1>1. PICK k \in Links :
        \/ \E i \in Nat : InCommands(t, b, k, i)' \/ InWorker(t, b, k, i)'
        \/ \E n \in Numbers : InTask(t, b, k, n)'
  BY DEF Ordered
<1>2. dc[<<t[1], k>>] \in Nat /\ df[<<t[1], k>>] \in Nat
  BY TaskParts, LinkConnection
<1>3. \A i \in Nat : i + dc[<<t[1], k>>] \in Nat /\ i + df[<<t[1], k>>] \in Nat
  BY <1>2
<1> QED
  BY <1>1, <1>3 DEF Ordered, Shifts, Shifted

LEMMA ShiftGiven ==
  ASSUME GivenOK, Unheard, NEW dc \in [Connections -> Nat], NEW df \in [Connections -> Nat],
         Shifts(dc, df)
  PROVE  GivenOK'
<1>1. \A t \in Tasks, b \in BOOLEAN : Ordered(t, b)' => Ordered(t, b)
  BY ShiftOrdered
<1> QED
  BY <1>1 DEF GivenOK, Unheard

\* Taking the head of a command channel brings every order one place forward.
LEMMA TakeShifts ==
  ASSUME IInv, NEW c \in Connections, commands[c] # <<>>,
         commands' = [commands EXCEPT ![c] = Tail(@)],
         NEW t \in Tasks, NEW b \in BOOLEAN, NEW k \in Links, NEW i \in Nat
  PROVE  InCommands(t, b, k, i)' <=>
           IF <<t[1], k>> = c THEN i # 0 /\ InCommands(t, b, k, i + 1) ELSE InCommands(t, b, k, i)
<1>1. commands \in [Connections -> Seq(Commands)] /\ <<t[1], k>> \in Connections
  BY TaskParts, LinkConnection DEF IInv, TypeOK
<1>2. CASE <<t[1], k>> = c
  <2>1. commands'[c] = Tail(commands[c]) /\ commands[c] \in Seq(Commands)
    BY <1>1
  <2>2. TransferAt(Tail(commands[c]), i, t[2], b) <=> i # 0 /\ TransferAt(commands[c], i + 1, t[2], b)
    BY <2>1, TransferAtTail
  <2> QED
    BY <1>2, <2>1, <2>2 DEF InCommands, TransferAt
<1>3. CASE <<t[1], k>> # c
  <2>1. commands'[<<t[1], k>>] = commands[<<t[1], k>>]
    BY <1>1, <1>3
  <2> QED
    BY <1>3, <2>1 DEF InCommands, TransferAt
<1> QED
  BY <1>2, <1>3

LEMMA WorkerTakeShifts ==
  ASSUME ChannelsOK, NEW c \in Connections, fileCommands[c] # <<>>,
         fileCommands' = [fileCommands EXCEPT ![c] = Tail(@)],
         NEW t \in Tasks, NEW b \in BOOLEAN, NEW k \in Links, NEW i \in Nat
  PROVE  InWorker(t, b, k, i)' <=>
           IF <<t[1], k>> = c THEN i # 0 /\ InWorker(t, b, k, i + 1) ELSE InWorker(t, b, k, i)
<1>1. fileCommands \in [Connections -> Seq(WorkerCommands)] /\ <<t[1], k>> \in Connections
  BY TaskParts, LinkConnection DEF ChannelsOK
<1>2. CASE <<t[1], k>> = c
  <2>1. fileCommands'[c] = Tail(fileCommands[c]) /\ fileCommands[c] \in Seq(WorkerCommands)
    BY <1>1
  <2>2. TransferAt(Tail(fileCommands[c]), i, t[2], b) <=>
          i # 0 /\ TransferAt(fileCommands[c], i + 1, t[2], b)
    BY <2>1, TransferAtTail
  <2> QED
    BY <1>2, <2>1, <2>2 DEF InWorker, TransferAt
<1>3. CASE <<t[1], k>> # c
  <2>1. fileCommands'[<<t[1], k>>] = fileCommands[<<t[1], k>>]
    BY <1>1, <1>3
  <2> QED
    BY <1>3, <2>1 DEF InWorker, TransferAt
<1> QED
  BY <1>2, <1>3

\* A command that stays in the channel when its head is taken.
LEMMA TailCarries ==
  ASSUME NEW S, NEW q \in Seq(S), q # <<>>, NEW id, HasTransferCommand(q, id)
  PROVE  \/ HasTransferCommand(Tail(q), id)
         \/ Head(q).op = "Transfer" /\ Head(q).id = id
<1>1. PICK i \in DOMAIN q : q[i].op = "Transfer" /\ q[i].id = id
  BY DEF HasTransferCommand
<1>2. i = 1 \/ (i - 1 \in DOMAIN Tail(q) /\ Tail(q)[i - 1] = q[i])
  BY Received
<1>3. Head(q) = q[1]
  BY Received
<1> QED
  BY <1>1, <1>2, <1>3 DEF HasTransferCommand

LEMMA AppendCarries ==
  ASSUME NEW S, NEW q \in Seq(S), NEW x \in S, NEW id
  PROVE  /\ HasTransferCommand(q, id) => HasTransferCommand(Append(q, x), id)
         /\ x.op = "Transfer" /\ x.id = id => HasTransferCommand(Append(q, x), id)
<1>1. \A i \in DOMAIN q : i \in DOMAIN Append(q, x) /\ Append(q, x)[i] = q[i]
  BY Appended
<1>2. Len(q) + 1 \in DOMAIN Append(q, x) /\ Append(q, x)[Len(q) + 1] = x
  BY Appended
<1> QED
  BY <1>1, <1>2 DEF HasTransferCommand

-----------------------------------------------------------------------------
(* Sending an event.                                                       *)

\* An event is added to the channel of connection c.
Sent(c, e) == events' = [events EXCEPT ![c] = Append(@, e)]

LEMMA SentEffect ==
  ASSUME ChannelsOK, NEW c \in Connections, NEW e \in Events, Files!SendEvent(c, e)
  PROVE  /\ Sent(c, e)
         /\ events' \in [Connections -> Seq(Events)]
         /\ \A d \in Connections : Len(events'[d]) <= EventCapacity
<1>1. events \in [Connections -> Seq(Events)] /\ \A d \in Connections : Len(events[d]) <= EventCapacity
  BY DEF ChannelsOK, SystemTypeOK
<1>2. Sent(c, e) /\ Len(events[c]) < EventCapacity
  BY DEF Files!SendEvent, Sent
<1>3. /\ Append(events[c], e) \in Seq(Events)
      /\ Len(events[c]) \in Nat /\ Len(Append(events[c], e)) = Len(events[c]) + 1
  BY <1>1, Appended
<1>4. events' \in [Connections -> Seq(Events)]
  BY <1>1, <1>2, <1>3 DEF Sent
<1>5. Len(events'[c]) <= EventCapacity
  BY <1>1, <1>2, <1>3, CapacityAssumption DEF Sent
<1> QED
  BY <1>1, <1>2, <1>4, <1>5 DEF Sent

\* What was in the channels stays there, in its place; the event comes last.
LEMMA SentEvents ==
  ASSUME ChannelsOK, NEW c \in Connections, NEW e \in Events, Sent(c, e)
  PROVE  /\ \A d \in Connections : \A i \in DOMAIN events[d] :
              i \in DOMAIN events'[d] /\ events'[d][i] = events[d][i]
         /\ \A d \in Connections : \A i \in DOMAIN events'[d] :
              \/ i \in DOMAIN events[d] /\ events'[d][i] = events[d][i]
              \/ d = c /\ i = Len(events[c]) + 1 /\ events'[d][i] = e
         /\ Len(events[c]) + 1 \in DOMAIN events'[c] /\ events'[c][Len(events[c]) + 1] = e
         /\ \A i \in DOMAIN events[c] : i < Len(events[c]) + 1
<1>1. events \in [Connections -> Seq(Events)]
  BY DEF ChannelsOK
<1>2. \A d \in Connections : d # c => events'[d] = events[d]
  BY <1>1 DEF Sent
<1>3. events'[c] = Append(events[c], e) /\ events[c] \in Seq(Events)
  BY <1>1 DEF Sent
<1>4. /\ Len(events[c]) \in Nat
      /\ DOMAIN events[c] = 1..Len(events[c]) /\ DOMAIN events'[c] = 1..(Len(events[c]) + 1)
      /\ \A i \in 1..Len(events[c]) : events'[c][i] = events[c][i]
      /\ events'[c][Len(events[c]) + 1] = e
  BY <1>3, Appended
<1>5. \A i \in DOMAIN events'[c] :
        \/ i \in DOMAIN events[c] /\ events'[c][i] = events[c][i]
        \/ i = Len(events[c]) + 1 /\ events'[c][i] = e
  BY <1>4
<1>6. \A i \in DOMAIN events[c] : i \in DOMAIN events'[c] /\ events'[c][i] = events[c][i]
  BY <1>4
<1> QED
  BY <1>2, <1>4, <1>5, <1>6, SMTT(30)

LEMMA SentKeeps ==
  ASSUME ChannelsOK, NEW c \in Connections, NEW e \in Events, Sent(c, e), NEW d \in Connections
  PROVE  /\ EndingPending(d) => EndingPending(d)'
         /\ EndingPending(d)' => EndingPending(d) \/ (d = c /\ e.kind \in EndingEvents)
         /\ e.kind \in EndingEvents => EndingPending(c)'
         /\ \A id \in TransferIds : HasTransferEvent(d, id) => HasTransferEvent(d, id)'
BY SentEvents DEF EndingPending, HasTransferEvent

\* The conflicts told are the old ones and perhaps this one.
LEMMA SentConflicts ==
  ASSUME ChannelsOK, NEW c \in Connections, NEW e \in Events, Sent(c, e),
         NEW t \in Tasks, NEW k \in Links, NEW i \in Nat
  PROVE  Conflicts(t, k, i)' =>
           \/ Conflicts(t, k, i)
           \/ /\ <<t[1], k>> = c /\ i = Len(events[c]) + 1
              /\ e = [kind |-> "TransferConflict", id |-> t[2]]
BY SentEvents, LinkConnection, TaskParts DEF Conflicts

-----------------------------------------------------------------------------
(* The course of a connection, one event per step.                         *)

\* Connection c goes on to `to` and says so with event e.
LifeStep(c, to, e) ==
  /\ Unheard
  /\ UNCHANGED <<workerVars, attemptVars>>
  /\ conn[c] \in Alive \union {"Closing"}
  /\ conn' = [conn EXCEPT ![c] = to]
  /\ e \in [kind : EndingEvents \union StateEvents]
  /\ Files!SendEvent(c, e)
  /\ \/ to \in {"Authenticating", "Running"} /\ conn[c] \in Establishing
     \/ to = "Closing" /\ conn[c] \in Alive
     \/ to = "Returning" /\ e.kind \in EndingEvents
  /\ e.kind = "Connected" => to = "Running"
  /\ \/ UNCHANGED commands
     \/ /\ commands[c] # <<>> /\ Head(commands[c]).op = "Disconnect"
        /\ commands' = [commands EXCEPT ![c] = Tail(@)]

LEMMA LifeShifts ==
  ASSUME IInv, NEW c \in Connections,
         \/ UNCHANGED commands
         \/ /\ commands[c] # <<>>
            /\ commands' = [commands EXCEPT ![c] = Tail(@)],
         UNCHANGED <<fileCommands, phase, confirmed>>
  PROVE  \E dc \in [Connections -> Nat], df \in [Connections -> Nat] : Shifts(dc, df)
<1> DEFINE zero == [d \in Connections |-> 0]
           one  == [d \in Connections |-> IF d = c THEN 1 ELSE 0]
<1>1. zero \in [Connections -> Nat] /\ one \in [Connections -> Nat]
  OBVIOUS
<1>2. \A t \in Tasks, k \in Links : <<t[1], k>> \in Connections
  BY TaskParts, LinkConnection
<1>3. \A t \in Tasks, k \in Links : zero[<<t[1], k>>] = 0
  BY <1>2
<1>4. \A t \in Tasks, k \in Links : one[<<t[1], k>>] = IF <<t[1], k>> = c THEN 1 ELSE 0
  BY <1>2
<1> HIDE DEF zero, one
<1>5. \A i \in Nat : i + 0 = i
  OBVIOUS
<1>6. SameWorkers /\ SameTasks
  BY DEF SameWorkers, SameTasks, InWorker, InTask, TransferAt
<1>7. CASE UNCHANGED commands
  <2>1. SameCommands
    BY <1>7 DEF SameCommands, InCommands, TransferAt
  <2>2. Shifts(zero, zero)
    BY <1>3, <1>5, <1>6, <2>1 DEF Shifts, Shifted, SameCommands, SameWorkers, SameTasks
  <2> QED
    BY <1>1, <2>2
<1>8. CASE commands[c] # <<>> /\ commands' = [commands EXCEPT ![c] = Tail(@)]
  <2>1. ASSUME NEW t \in Tasks, NEW b \in BOOLEAN, NEW k \in Links, NEW i \in Nat,
               InCommands(t, b, k, i)'
        PROVE  InCommands(t, b, k, i + one[<<t[1], k>>])
    <3>1. IF <<t[1], k>> = c THEN i # 0 /\ InCommands(t, b, k, i + 1) ELSE InCommands(t, b, k, i)
      BY <1>8, <2>1, TakeShifts, ZenonT(60)
    <3> QED
      BY <1>4, <1>5, <3>1
  <2>2. Shifts(one, zero)
    BY <1>3, <1>5, <1>6, <2>1 DEF Shifts, Shifted, SameWorkers, SameTasks
  <2> QED
    BY <1>1, <2>2
<1> QED
  BY <1>7, <1>8

\* The end of any connection stays announced.
LEMMA LifeAnnounced ==
  ASSUME ChannelsOK, NEW c \in Connections, NEW to, NEW e, LifeStep(c, to, e),
         NEW d \in Connections
  PROVE  /\ EndAnnounced(d) => EndAnnounced(d)'
         /\ conn[d] \in Alive => conn'[d] \in Alive \/ EndAnnounced(d)'
         /\ conn[d] = "Running" => conn'[d] = "Running" \/ EndAnnounced(d)'
         /\ conn[d] \in Alive \union {"Closing"} =>
              conn'[d] \in Alive \union {"Closing"} \/ EndingPending(d)'
         /\ conn'[d] \in Establishing => conn[d] \in Establishing
         /\ conn[d] \in {"Running", "Closing"} =>
              conn'[d] \in {"Running", "Closing"} \/ (d = c /\ e.kind \in EndingEvents)
<1>1. e \in Events /\ Sent(c, e)
  BY DEF LifeStep, Events, Files!SendEvent, Sent
<1>2. conn \in [Connections -> ConnStates]
  BY DEF ChannelsOK, SystemTypeOK
<1>3. /\ EndingPending(d) => EndingPending(d)'
      /\ e.kind \in EndingEvents => EndingPending(c)'
  BY <1>1, SentKeeps
<1>4. CASE d = c
  <2>1. conn'[d] = to
    BY <1>2, <1>4 DEF LifeStep
  <2>2. EndingPending(d)' => EndAnnounced(d)'
    BY DEF EndingPending, EndAnnounced
  <2>3. HandleDropped(d)' <=> HandleDropped(d)
    BY DEF LifeStep, Unheard, HandleDropped
  <2>4. EndAnnounced(d) <=>
          \/ conn[d] = "Closing"
          \/ conn[d] \in Establishing \union {"Running"} /\ HandleDropped(d)
          \/ EndingPending(d)
    BY DEF EndAnnounced, EndingPending
  <2>5. conn'[d] = "Closing" \/ (conn'[d] \in Establishing \union {"Running"} /\ HandleDropped(d)')
          => EndAnnounced(d)'
    BY DEF EndAnnounced
  <2> QED
    BY <1>3, <1>4, <2>1, <2>2, <2>3, <2>4, <2>5 DEF LifeStep, Alive, Establishing
<1>5. CASE d # c
  <2>1. conn'[d] = conn[d]
    BY <1>2, <1>5 DEF LifeStep
  <2>2. events'[d] = events[d]
    BY <1>1, <1>5 DEF Sent, ChannelsOK
  <2>3. handle' = handle
    BY DEF LifeStep, Unheard
  <2> QED
    BY <2>1, <2>2, <2>3, AnnouncedKept DEF Alive, EndingPending
<1> QED
  BY <1>4, <1>5

LEMMA LifeChannels ==
  ASSUME SystemIInv, IInv', NEW c \in Connections, NEW to, NEW e, LifeStep(c, to, e)
  PROVE  /\ ChannelsOK' /\ LifeOK' /\ HandleOK' /\ OrderOK' /\ LinkOK'
         /\ \A s \in Sessions : Doomed(s) => Doomed(s)'
<1> USE DEF SystemIInv
<1>1. e \in Events /\ Sent(c, e) /\ conn \in [Connections -> ConnStates]
  BY DEF LifeStep, Events, Files!SendEvent, Sent, ChannelsOK, SystemTypeOK
<1>2. events' \in [Connections -> Seq(Events)] /\ \A d \in Connections : Len(events'[d]) <= EventCapacity
  BY <1>1, SentEffect DEF LifeStep
<1>3. to \in ConnStates \ {"Unmade", "Ended"} /\ conn[c] \notin {"Unmade", "Ended"}
  BY DEF LifeStep, ConnStates, Alive, Establishing
<1>4. conn' \in [Connections -> ConnStates] /\ \A d \in Connections : d # c => conn'[d] = conn[d]
  BY <1>1, <1>3 DEF LifeStep
<1>5. conn'[c] = to
  BY <1>1 DEF LifeStep
<1>6. ChannelsOK'
  BY <1>2, <1>4 DEF ChannelsOK, SystemTypeOK, IInv, LifeStep, workerVars, attemptVars
<1>7. \A s \in Sessions : Doomed(s) => Doomed(s)'
  BY LifeAnnounced, LinkConnection DEF Doomed
<1>8. LifeOK'
  <2>1. \A d \in Connections : (conn'[d] = "Unmade" <=> conn[d] = "Unmade") /\ (conn'[d] = "Ended" <=> conn[d] = "Ended")
    BY <1>3, <1>4, <1>5
  <2>2. \A d \in Connections : conn[d] = "Unmade" =>
          commands'[d] = commands[d] /\ events'[d] = events[d] /\ fileCommands'[d] = fileCommands[d]
    <3> SUFFICES ASSUME NEW d \in Connections, d # c
                 PROVE  commands'[d] = commands[d] /\ events'[d] = events[d]
      BY <1>3 DEF LifeStep, workerVars
    <3> QED
      BY <1>1 DEF LifeStep, Sent, ChannelsOK, IInv, TypeOK
  <2> QED
    BY <2>1, <2>2, LinkConnection, AttemptParts DEF LifeOK, LifeStep, Unheard, workerVars, attemptVars
<1>9. HandleOK'
  <2> SUFFICES ASSUME NEW s \in Sessions, NEW h, h = handle[s], h # NoHandle
               PROVE  \/ conn'[<<s, h>>] \in Alive \union {"Closing"}
                      \/ EndingPending(<<s, h>>)'
    BY DEF HandleOK, LifeStep, Unheard, EndingPending
  <2>1. h \in Links
    BY DEF IInv, TypeOK, Links, NoHandle
  <2>2. <<s, h>> \in Connections
    BY <2>1, LinkConnection
  <2>3. EndingPending(<<s, h>>) => EndingPending(<<s, h>>)'
    BY <1>1, <2>2, SentKeeps
  <2>4. conn[<<s, h>>] \in Alive \union {"Closing"} \/ EndingPending(<<s, h>>)
    BY DEF HandleOK
  <2> QED
    BY <2>2, <2>3, <2>4, LifeAnnounced
<1>10. LinkOK'
  <2> SUFFICES ASSUME NEW s \in Sessions, NEW h, h = handle[s], link[s] = "Connected", h # NoHandle
               PROVE  conn'[<<s, h>>] = "Running" \/ Doomed(s)'
    BY DEF LinkOK, LifeStep, Unheard
  <2>1. h \in Links /\ <<s, h>> \in Connections
    BY LinkConnection DEF IInv, TypeOK, Links, NoHandle
  <2>2. EndAnnounced(<<s, h>>)' => Doomed(s)'
    BY <2>1 DEF Doomed
  <2>3. conn[<<s, h>>] = "Running" \/ Doomed(s)
    BY DEF LinkOK
  <2> QED
    BY <1>7, <2>1, <2>2, <2>3, LifeAnnounced
<1>11. OrderOK'
  <2> SUFFICES ASSUME NEW d \in Connections, NEW i \in DOMAIN events'[d], events'[d][i].kind = "Connected"
               PROVE  \/ conn'[d] \in {"Running", "Closing"}
                      \/ \E j \in DOMAIN events'[d] : i < j /\ events'[d][j].kind \in EndingEvents
    BY DEF OrderOK
  <2>1. CASE i \in DOMAIN events[d] /\ events'[d][i] = events[d][i]
    <3>1. \/ conn[d] \in {"Running", "Closing"}
          \/ \E j \in DOMAIN events[d] : i < j /\ events[d][j].kind \in EndingEvents
      BY <2>1 DEF OrderOK
    <3>2. ASSUME NEW j \in DOMAIN events[d], i < j, events[d][j].kind \in EndingEvents
          PROVE  j \in DOMAIN events'[d] /\ events'[d][j].kind \in EndingEvents
      BY <1>1, <3>2, SentEvents
    <3>3. CASE d = c /\ e.kind \in EndingEvents
      <4>1. /\ Len(events[c]) + 1 \in DOMAIN events'[c] /\ events'[c][Len(events[c]) + 1] = e
            /\ i < Len(events[c]) + 1
        BY <1>1, <2>1, <3>3, SentEvents
      <4> QED
        BY <3>3, <4>1
    <3> QED
      BY <3>1, <3>2, <3>3, LifeAnnounced
  <2>2. CASE d = c /\ events'[d][i] = e
    BY <1>5, <2>2 DEF LifeStep
  <2> QED
    BY <1>1, <2>1, <2>2, SentEvents
<1> QED
  BY <1>6, <1>7, <1>8, <1>9, <1>10, <1>11

LEMMA LifeOrders ==
  ASSUME SystemIInv, IInv', NEW c \in Connections, NEW to, NEW e, LifeStep(c, to, e)
  PROVE  OnceOK' /\ GivenOK' /\ AttemptsOK' /\ ConflictOK' /\ SettledOK' /\ IgnoredOK'
<1> USE DEF SystemIInv
<1>1. e \in Events /\ Sent(c, e) /\ conn \in [Connections -> ConnStates]
  BY DEF LifeStep, Events, Files!SendEvent, Sent, ChannelsOK, SystemTypeOK
<1>2. PICK dc \in [Connections -> Nat], df \in [Connections -> Nat] : Shifts(dc, df)
  BY LifeShifts DEF LifeStep, workerVars, attemptVars
<1>3. OnceOK' /\ GivenOK'
  BY <1>2, ShiftOnce, ShiftGiven DEF LifeStep, OnceOK, Shifts
<1>4. AttemptsOK'
  BY DEF AttemptsOK, LifeStep, attemptVars
<1>5. ConflictOK'
  <2>1. \A t \in Tasks, k \in Links, i \in Nat : Conflicts(t, k, i)' => Conflicts(t, k, i)
    BY <1>1, SentConflicts DEF LifeStep, EndingEvents, StateEvents
  <2>2. \A t \in Tasks : Answered(t)' <=> Answered(t)
    BY DEF Answered, Reported, LifeStep, attemptVars
  <2> QED
    BY <2>1, <2>2 DEF ConflictOK, LifeStep, Unheard
<1>6. SettledOK'
  <2>1. \A d \in Connections : Forgotten(d)' => Forgotten(d)
    <3> SUFFICES ASSUME NEW d \in Connections, Forgotten(d)' PROVE Forgotten(d)
      OBVIOUS
    <3>1. ~EndingPending(d) /\ (d = c => e.kind \notin EndingEvents)
      BY <1>1, SentKeeps DEF Forgotten
    <3>2. d # c
      <4>1. d = c => conn'[d] = to
        BY <1>1 DEF LifeStep
      <4> QED
        BY <3>1, <4>1 DEF Forgotten, LifeStep
    <3>3. conn'[d] = conn[d]
      BY <1>1, <3>2 DEF LifeStep
    <3> QED
      BY <3>1, <3>3 DEF Forgotten
  <2>2. SameWorkers /\ SameTasks
    BY DEF SameWorkers, SameTasks, InWorker, InTask, TransferAt, LifeStep, workerVars, attemptVars
  <2> QED
    BY <2>1, <2>2, LinkConnection, TaskParts
    DEF SettledOK, SameWorkers, SameTasks, LifeStep, Unheard
<1>7. IgnoredOK'
  <2> SUFFICES ASSUME NEW t \in Tasks, NEW k \in Links, NEW b \in BOOLEAN, NEW i \in Nat,
                      state[t] = "Running", conn'[<<t[1], k>>] \in Establishing,
                      InCommands(t, b, k, i)'
               PROVE  Doomed(t[1])'
    BY DEF IgnoredOK, LifeStep, Unheard
  <2>1. conn[<<t[1], k>>] \in Establishing
    BY LifeAnnounced, TaskParts, LinkConnection
  <2>2. i + dc[<<t[1], k>>] \in Nat
    BY TaskParts, LinkConnection
  <2>3. InCommands(t, b, k, i + dc[<<t[1], k>>])
    BY <1>2 DEF Shifts, Shifted
  <2>4. Doomed(t[1])
    BY <2>1, <2>2, <2>3 DEF IgnoredOK
  <2> QED
    BY <2>4, LifeChannels, TaskParts
<1> QED
  BY <1>3, <1>4, <1>5, <1>6, <1>7

LEMMA LifeKeeps ==
  ASSUME SystemIInv, IInv', NEW c \in Connections, NEW to, NEW e, LifeStep(c, to, e)
  PROVE  SystemIInv'
<1>1. RunningIsCarried'
  <2> SUFFICES ASSUME NEW t \in Tasks, state[t] = "Running"
               PROVE  \E k \in Links : Carried(<<t[1], k>>, t[2])'
    BY DEF RunningIsCarried, Links, LifeStep, Unheard
  <2>1. PICK k \in Links : Carried(<<t[1], k>>, t[2])
    BY DEF SystemIInv, RunningIsCarried, Links
  <2> DEFINE d == <<t[1], k>>
  <2>2. d \in Connections /\ t[2] \in TransferIds
    BY TaskParts, LinkConnection
  <2>3. HasTransferCommand(commands[d], t[2]) => HasTransferCommand(commands[d], t[2])'
    <3>1. commands \in [Connections -> Seq(Commands)]
      BY DEF SystemIInv, IInv, TypeOK
    <3>2. CASE commands'[d] = commands[d]
      BY <3>2 DEF HasTransferCommand
    <3>3. CASE /\ commands'[d] = Tail(commands[d]) /\ commands[d] # <<>>
               /\ Head(commands[d]).op = "Disconnect"
      <4>1. commands[d] \in Seq(Commands)
        BY <2>2, <3>1
      <4>2. HasTransferCommand(commands[d], t[2]) => HasTransferCommand(Tail(commands[d]), t[2])
        BY <3>3, <4>1, TailCarries
      <4> QED
        BY <3>3, <4>2 DEF HasTransferCommand
    <3> QED
      BY <2>2, <3>1, <3>2, <3>3 DEF LifeStep
  <2>4. HasTransferEvent(d, t[2]) => HasTransferEvent(d, t[2])'
    <3>1. e \in Events /\ Sent(c, e)
      BY DEF LifeStep, Events, Files!SendEvent, Sent
    <3> QED
      BY <2>2, <3>1, SentKeeps DEF SystemIInv
  <2>5. HasTransferCommand(fileCommands[d], t[2]) => HasTransferCommand(fileCommands[d], t[2])'
    BY DEF HasTransferCommand, LifeStep, workerVars
  <2>6. /\ EndAnnounced(d) => EndAnnounced(d)'
        /\ conn[d] \in Alive => conn'[d] \in Alive \/ EndAnnounced(d)'
    BY <2>2, LifeAnnounced DEF SystemIInv
  <2>7. Carried(d, t[2])'
    BY <2>1, <2>3, <2>4, <2>5, <2>6 DEF Carried, Alive, LifeStep, workerVars, attemptVars
  <2> QED
    BY <2>7
<1> QED
  BY <1>1, LifeChannels, LifeOrders DEF SystemIInv

-----------------------------------------------------------------------------
(* The steps of a connection worker.                                       *)

LEMMA ReturnKeeps ==
  ASSUME SystemIInv, IInv', NEW c \in Connections, Return(c)
  PROVE  SystemIInv'
<1> USE DEF SystemIInv
<1>1. /\ Unheard /\ UNCHANGED <<commands, worker, fileCommands, attemptVars, events>>
      /\ conn[c] = "Returning" /\ conn' = [conn EXCEPT ![c] = "Ended"]
      /\ fileClosed' = fileClosed \union {c}
  BY DEF Return, Become, WorkerStops, Unheard, queueVars, linkVars
<1>2. conn \in [Connections -> ConnStates]
  BY DEF ChannelsOK, SystemTypeOK
<1>3. \A d \in Connections : conn'[d] = conn[d] \/ (d = c /\ conn'[d] = "Ended" /\ conn[d] = "Returning")
  BY <1>1, <1>2
<1>4. \A d \in Connections : /\ EndAnnounced(d)' <=> EndAnnounced(d)
                             /\ EndingPending(d)' <=> EndingPending(d)
                             /\ Forgotten(d)' <=> Forgotten(d)
  BY <1>1, <1>3 DEF EndAnnounced, EndingPending, HandleDropped, Forgotten, Establishing, Unheard
<1>5. \A s \in Sessions : Doomed(s)' <=> Doomed(s)
  BY <1>4, LinkConnection DEF Doomed
<1>6. ChannelsOK'
  <2>1. conn' \in [Connections -> ConnStates]
    BY <1>1, <1>2 DEF ConnStates
  <2> QED
    BY <1>1, <2>1 DEF ChannelsOK, SystemTypeOK, IInv, attemptVars
<1>7. LifeOK'
  <2>1. \A d \in Connections : (conn'[d] = "Unmade" <=> conn[d] = "Unmade")
    BY <1>3
  <2>2. \A d \in Connections : d \in fileClosed' <=> conn'[d] = "Ended"
    BY <1>1, <1>2 DEF LifeOK
  <2>3. \A d \in Connections : conn'[d] # "Ended" => conn[d] # "Ended"
    BY <1>3
  <2> QED
    BY <1>1, <2>1, <2>2, <2>3, LinkConnection, AttemptParts DEF LifeOK, Unheard, attemptVars
<1>8. HandleOK' /\ LinkOK'
  <2> SUFFICES ASSUME NEW s \in Sessions, NEW h, h = handle[s], h # NoHandle
               PROVE  /\ conn'[<<s, h>>] \in Alive \union {"Closing"} \/ EndingPending(<<s, h>>)'
                      /\ link[s] = "Connected" => conn'[<<s, h>>] = "Running" \/ Doomed(s)'
    BY <1>1 DEF HandleOK, LinkOK, Unheard, EndingPending
  <2>1. <<s, h>> \in Connections
    BY LinkConnection DEF IInv, TypeOK, Links, NoHandle
  <2>2. conn[<<s, h>>] \in Alive \union {"Closing"} => conn'[<<s, h>>] = conn[<<s, h>>]
    BY <1>3, <2>1 DEF Alive, Establishing
  <2> QED
    BY <1>4, <1>5, <2>1, <2>2 DEF HandleOK, LinkOK, Alive
<1>9. OrderOK' /\ AttemptsOK'
  BY <1>1, <1>3 DEF OrderOK, AttemptsOK, attemptVars
<1>10. SameCommands /\ SameWorkers /\ SameTasks
  BY <1>1 DEF SameCommands, SameWorkers, SameTasks, InCommands, InWorker, InTask, TransferAt,
              attemptVars
<1>11. OnceOK' /\ GivenOK'
  BY <1>1, <1>10, SameOnce, SameOrdered DEF GivenOK, Unheard
<1>12. ConflictOK'
  BY <1>1 DEF ConflictOK, Conflicts, Answered, Reported, Unheard, attemptVars
<1>13. SettledOK'
  BY <1>1, <1>4, <1>10, LinkConnection, TaskParts DEF SettledOK, SameWorkers, SameTasks, Unheard
<1>14. IgnoredOK'
  <2>1. \A d \in Connections : conn'[d] \in Establishing => conn[d] \in Establishing
    BY <1>3 DEF Establishing
  <2> QED
    BY <1>1, <1>5, <1>10, <2>1, LinkConnection, TaskParts DEF IgnoredOK, SameCommands, Unheard
<1>15. RunningIsCarried'
  <2>1. \A d \in Connections : conn[d] \in Establishing \union {"Running"} => conn'[d] = conn[d]
    BY <1>3 DEF Establishing
  <2>2. \A d \in Connections, id \in TransferIds : Carried(d, id) => Carried(d, id)'
    BY <1>1, <1>4, <2>1 DEF Carried, HasTransferCommand, HasTransferEvent, attemptVars
  <2> QED
    BY <1>1, <2>2, TaskParts, LinkConnection DEF RunningIsCarried, Links, Unheard
<1> QED
  BY <1>6, <1>7, <1>8, <1>9, <1>11, <1>12, <1>13, <1>14, <1>15

\* What the worker of c does with one command of the application: its own state and
\* everybody's course stay; events may be sent that end nothing.
TakeStep(c) ==
  /\ Unheard
  /\ UNCHANGED <<conn, worker, fileClosed, attemptVars>>
  /\ conn[c] \in Alive
  /\ commands[c] # <<>>
  /\ Head(commands[c]).op \in {"Transfer", "CancelTransfer"}
  /\ commands' = [commands EXCEPT ![c] = Tail(@)]

\* The orders of the other channel and of the attempts may have grown.
LEMMA TakeLife ==
  ASSUME SystemIInv, IInv', NEW c \in Connections, TakeStep(c),
         fileCommands' \in [Connections -> Seq(WorkerCommands)],
         \A d \in Connections : d # c => fileCommands'[d] = fileCommands[d],
         \/ UNCHANGED events
         \/ \E id \in TransferIds :
              Files!SendEvent(c, [kind |-> "SftpFailed", id |-> id])
  PROVE  /\ ChannelsOK' /\ LifeOK' /\ HandleOK' /\ OrderOK' /\ LinkOK' /\ AttemptsOK' /\ ConflictOK'
         /\ \A d \in Connections : /\ EndAnnounced(d)' <=> EndAnnounced(d)
                                   /\ Forgotten(d)' <=> Forgotten(d)
         /\ \A s \in Sessions : Doomed(s)' <=> Doomed(s)
<1> USE DEF SystemIInv
<1>1. conn[c] # "Unmade"
  BY DEF TakeStep, Alive, Establishing
<1>2. /\ events' \in [Connections -> Seq(Events)]
      /\ \A d \in Connections : Len(events'[d]) <= EventCapacity
      /\ \A d \in Connections : d # c => events'[d] = events[d]
      /\ \A d \in Connections : \A i \in DOMAIN events[d] :
              i \in DOMAIN events'[d] /\ events'[d][i] = events[d][i]
      /\ \A d \in Connections : \A i \in DOMAIN events'[d] :
              \/ i \in DOMAIN events[d] /\ events'[d][i] = events[d][i]
              \/ events'[d][i].kind = "SftpFailed"
  <2>1. CASE UNCHANGED events
    BY <2>1 DEF ChannelsOK, SystemTypeOK
  <2>2. ASSUME NEW id \in TransferIds, Files!SendEvent(c, [kind |-> "SftpFailed", id |-> id])
        PROVE  <1>2
    <3> DEFINE e == [kind |-> "SftpFailed", id |-> id]
    <3>1. e \in Events /\ e.kind = "SftpFailed"
      BY DEF Events, TransferEvents
    <3> HIDE DEF e
    <3>2. Sent(c, e)
      BY <2>2 DEF Files!SendEvent, Sent, e
    <3>3. \A d \in Connections : d # c => events'[d] = events[d]
      BY <3>2 DEF Sent, ChannelsOK
    <3>4. /\ events' \in [Connections -> Seq(Events)]
          /\ \A d \in Connections : Len(events'[d]) <= EventCapacity
      BY <2>2, <3>1, SentEffect DEF e
    <3> QED
      BY <3>1, <3>2, <3>3, <3>4, SentEvents
  <2> QED
    BY <2>1, <2>2
<1>3. \A d \in Connections : EndingPending(d)' <=> EndingPending(d)
  BY <1>2 DEF EndingPending, EndingEvents
<1>4. \A d \in Connections : EndAnnounced(d)' <=> EndAnnounced(d)
  <2>1. \A d \in Connections : EndAnnounced(d) <=>
          \/ conn[d] = "Closing"
          \/ conn[d] \in Establishing \union {"Running"} /\ HandleDropped(d)
          \/ EndingPending(d)
    BY DEF EndAnnounced, EndingPending
  <2>2. \A d \in Connections : EndAnnounced(d)' <=>
          \/ conn'[d] = "Closing"
          \/ conn'[d] \in Establishing \union {"Running"} /\ HandleDropped(d)'
          \/ EndingPending(d)'
    BY DEF EndAnnounced, EndingPending
  <2> QED
    BY <1>3, <2>1, <2>2 DEF HandleDropped, TakeStep, Unheard
<1>5. \A s \in Sessions : Doomed(s)' <=> Doomed(s)
  BY <1>4, LinkConnection DEF Doomed
<1>6. \A d \in Connections : Forgotten(d)' <=> Forgotten(d)
  BY <1>3 DEF Forgotten, TakeStep
<1>7. ChannelsOK'
  BY <1>2 DEF ChannelsOK, SystemTypeOK, IInv, TakeStep, attemptVars
<1>8. LifeOK'
  <2>1. \A d \in Connections : d # c => commands'[d] = commands[d]
    BY DEF TakeStep, IInv, TypeOK
  <2>2. ASSUME NEW d \in Connections, conn[d] = "Unmade"
        PROVE  commands'[d] = <<>> /\ events'[d] = <<>> /\ fileCommands'[d] = <<>>
    <3>1. d # c /\ commands[d] = <<>> /\ events[d] = <<>> /\ fileCommands[d] = <<>>
      BY <1>1, <2>2 DEF LifeOK
    <3> QED
      BY <1>2, <2>1, <3>1
  <2>3. UNCHANGED <<conn, handle, generation, worker, fileClosed, phase>>
    BY DEF TakeStep, Unheard, attemptVars
  <2> QED
    BY <2>2, <2>3 DEF LifeOK
<1>9. HandleOK' /\ LinkOK'
  <2> SUFFICES ASSUME NEW s \in Sessions, NEW h, h = handle[s], h # NoHandle
               PROVE  /\ conn[<<s, h>>] \in Alive \union {"Closing"} \/ EndingPending(<<s, h>>)'
                      /\ link[s] = "Connected" => conn[<<s, h>>] = "Running" \/ Doomed(s)'
    BY DEF HandleOK, LinkOK, TakeStep, Unheard, EndingPending
  <2>1. <<s, h>> \in Connections
    BY LinkConnection DEF IInv, TypeOK, Links, NoHandle
  <2> QED
    BY <1>3, <1>5, <2>1 DEF HandleOK, LinkOK
<1>10. OrderOK'
  <2> SUFFICES ASSUME NEW d \in Connections, NEW i \in DOMAIN events'[d], events'[d][i].kind = "Connected"
               PROVE  \/ conn[d] \in {"Running", "Closing"}
                      \/ \E j \in DOMAIN events'[d] : i < j /\ events'[d][j].kind \in EndingEvents
    BY DEF OrderOK, TakeStep
  <2>1. i \in DOMAIN events[d] /\ events[d][i].kind = "Connected"
    BY <1>2
  <2>2. \/ conn[d] \in {"Running", "Closing"}
        \/ \E j \in DOMAIN events[d] : i < j /\ events[d][j].kind \in EndingEvents
    BY <2>1 DEF OrderOK
  <2> QED
    BY <1>2, <2>2
<1>11. AttemptsOK'
  BY DEF AttemptsOK, TakeStep, attemptVars
<1>12. ConflictOK'
  <2>1. \A t \in Tasks, k \in Links, i \in Nat : Conflicts(t, k, i)' => Conflicts(t, k, i)
    BY <1>2, LinkConnection, TaskParts DEF Conflicts
  <2>2. \A t \in Tasks : Answered(t)' <=> Answered(t)
    BY DEF Answered, Reported, TakeStep, attemptVars
  <2> QED
    BY <2>1, <2>2 DEF ConflictOK, TakeStep, Unheard
<1> QED
  BY <1>4, <1>5, <1>6, <1>7, <1>8, <1>9, <1>10, <1>11, <1>12

\* Any other command stays in its channel.
LEMMA TakeCarries ==
  ASSUME IInv, NEW c \in Connections, TakeStep(c), NEW d \in Connections, NEW id,
         HasTransferCommand(commands[d], id)
  PROVE  \/ HasTransferCommand(commands[d], id)'
         \/ d = c /\ Head(commands[c]).op = "Transfer" /\ Head(commands[c]).id = id
<1>1. commands \in [Connections -> Seq(Commands)]
  BY DEF IInv, TypeOK
<1>2. CASE d = c
  <2>1. commands'[d] = Tail(commands[c]) /\ commands[c] \in Seq(Commands) /\ commands[c] # <<>>
    BY <1>1, <1>2 DEF TakeStep
  <2>2. HasTransferCommand(Tail(commands[c]), id) \/ (Head(commands[c]).op = "Transfer" /\ Head(commands[c]).id = id)
    BY <1>2, <2>1, TailCarries
  <2> QED
    BY <1>2, <2>1, <2>2 DEF HasTransferCommand
<1>3. CASE d # c
  <2>1. commands'[d] = commands[d]
    BY <1>1, <1>3 DEF TakeStep
  <2> QED
    BY <2>1 DEF HasTransferCommand
<1> QED
  BY <1>2, <1>3

\* The order at the head of the channel.
LEMMA HeadOrder ==
  ASSUME IInv, NEW c \in Connections, TakeStep(c), Head(commands[c]).op = "Transfer"
  PROVE  LET x == Head(commands[c]) IN
         /\ x \in WorkerCommands /\ x.id \in TransferIds /\ x.overwrite \in BOOLEAN
         /\ <<c[1], x.id>> \in Tasks
         /\ InCommands(<<c[1], x.id>>, x.overwrite, c[2], 1)
<1> DEFINE x == Head(commands[c])
<1>1. commands[c] \in Seq(Commands) /\ commands[c] # <<>>
  BY DEF IInv, TypeOK, TakeStep
<1>2. x \in Commands
  BY <1>1, Received
<1>3. /\ x \in WorkerCommands /\ x.id \in TransferIds /\ x.overwrite \in BOOLEAN
      /\ x = [op |-> "Transfer", id |-> x.id, overwrite |-> x.overwrite]
  BY <1>2, TransferCommand
<1>4. TransferAt(commands[c], 1, x.id, x.overwrite)
  BY <1>1, <1>3, TransferAtTail
<1>5. <<c[1], x.id>> \in Tasks /\ <<c[1], c[2]>> = c
  BY <1>3, ConnectionParts DEF Tasks
<1> QED
  BY <1>3, <1>4, <1>5 DEF InCommands

\* IgnoreCommand and RefuseTransfer: the order is gone.
LEMMA TakeAwayKeeps ==
  ASSUME SystemIInv, IInv', NEW c \in Connections, TakeStep(c), UNCHANGED fileCommands,
         \/ conn[c] \in Establishing /\ UNCHANGED events
         \/ /\ Head(commands[c]).op = "Transfer"
            /\ Files!SendEvent(c, [kind |-> "SftpFailed", id |-> Head(commands[c]).id])
  PROVE  SystemIInv'
<1> USE DEF SystemIInv
<1>1. /\ ChannelsOK' /\ LifeOK' /\ HandleOK' /\ OrderOK' /\ LinkOK' /\ AttemptsOK' /\ ConflictOK'
      /\ \A d \in Connections : /\ EndAnnounced(d)' <=> EndAnnounced(d)
                                /\ Forgotten(d)' <=> Forgotten(d)
      /\ \A s \in Sessions : Doomed(s)' <=> Doomed(s)
  <2>1. /\ fileCommands' \in [Connections -> Seq(WorkerCommands)]
        /\ \A d \in Connections : d # c => fileCommands'[d] = fileCommands[d]
    BY DEF ChannelsOK
  <2>2. Head(commands[c]).op = "Transfer" => Head(commands[c]).id \in TransferIds
    BY HeadOrder
  <2> QED
    BY <2>1, <2>2, TakeLife
<1>2. PICK dc \in [Connections -> Nat], df \in [Connections -> Nat] : Shifts(dc, df)
  BY LifeShifts DEF TakeStep, attemptVars
<1>3. OnceOK' /\ GivenOK'
  BY <1>2, ShiftOnce, ShiftGiven DEF TakeStep, OnceOK, Shifts
<1>4. SameWorkers /\ SameTasks
  BY DEF SameWorkers, SameTasks, InWorker, InTask, TransferAt, TakeStep, attemptVars
<1>5. SettledOK'
  BY <1>1, <1>4, LinkConnection, TaskParts DEF SettledOK, SameWorkers, SameTasks, TakeStep, Unheard
<1>6. IgnoredOK'
  <2> SUFFICES ASSUME NEW t \in Tasks, NEW k \in Links, NEW b \in BOOLEAN, NEW i \in Nat,
                      state[t] = "Running", conn[<<t[1], k>>] \in Establishing,
                      InCommands(t, b, k, i)'
               PROVE  Doomed(t[1])'
    BY DEF IgnoredOK, TakeStep, Unheard
  <2>1. i + dc[<<t[1], k>>] \in Nat
    BY TaskParts, LinkConnection
  <2>2. InCommands(t, b, k, i + dc[<<t[1], k>>])
    BY <1>2 DEF Shifts, Shifted
  <2> QED
    BY <1>1, <2>1, <2>2, TaskParts DEF IgnoredOK
<1>7. RunningIsCarried'
  <2> SUFFICES ASSUME NEW t \in Tasks, state[t] = "Running"
               PROVE  \E k \in Links : Carried(<<t[1], k>>, t[2])'
    BY DEF RunningIsCarried, Links, TakeStep, Unheard
  <2>1. PICK k \in Links : Carried(<<t[1], k>>, t[2])
    BY DEF RunningIsCarried, Links
  <2> DEFINE d == <<t[1], k>>
  <2>2. d \in Connections /\ t[2] \in TransferIds
    BY TaskParts, LinkConnection
  <2>3. CASE d = c /\ Head(commands[c]).op = "Transfer" /\ Head(commands[c]).id = t[2]
    <3> DEFINE x == Head(commands[c])
    <3>1. x.overwrite \in BOOLEAN /\ InCommands(t, x.overwrite, k, 1)
      <4>1. <<c[1], x.id>> = t /\ c[2] = k
        BY <2>3, TaskParts
      <4> QED
        BY <2>3, <4>1, HeadOrder
    <3>2. CASE conn[c] \in Establishing
      <4>1. Doomed(t[1])'
        BY <1>1, <2>3, <3>1, <3>2, TaskParts DEF IgnoredOK
      <4>2. PICK l \in Links : EndAnnounced(<<t[1], l>>)'
        BY <4>1 DEF Doomed
      <4> QED
        BY <4>2 DEF Carried
    <3>3. CASE Files!SendEvent(c, [kind |-> "SftpFailed", id |-> x.id])
      <4> DEFINE e == [kind |-> "SftpFailed", id |-> t[2]]
      <4>1. e \in Events /\ e.kind \in TransferEvents /\ e.id = t[2]
        BY <2>2 DEF Events, TransferEvents
      <4>2. Sent(c, e)
        BY <2>3, <3>3 DEF Files!SendEvent, Sent
      <4>3. HasTransferEvent(c, t[2])'
        <5> HIDE DEF e
        <5>1. Len(events[c]) + 1 \in DOMAIN events'[c] /\ events'[c][Len(events[c]) + 1] = e
          BY <4>1, <4>2, SentEvents
        <5> QED
          BY <4>1, <5>1 DEF HasTransferEvent
      <4>4. Carried(d, t[2])'
        BY <2>3, <4>3 DEF Carried
      <4> QED
        BY <4>4
    <3> QED
      BY <3>2, <3>3
  <2>4. CASE ~(d = c /\ Head(commands[c]).op = "Transfer" /\ Head(commands[c]).id = t[2])
    <3>1. HasTransferCommand(commands[d], t[2]) => HasTransferCommand(commands[d], t[2])'
      BY <2>2, <2>4, TakeCarries
    <3>2. HasTransferEvent(d, t[2]) => HasTransferEvent(d, t[2])'
      <4>1. CASE UNCHANGED events
        BY <4>1 DEF HasTransferEvent
      <4>2. CASE /\ Head(commands[c]).op = "Transfer"
                 /\ Files!SendEvent(c, [kind |-> "SftpFailed", id |-> Head(commands[c]).id])
        <5> DEFINE e == [kind |-> "SftpFailed", id |-> Head(commands[c]).id]
        <5>1. e \in Events
          BY <4>2, HeadOrder DEF Events, TransferEvents
        <5>2. Sent(c, e)
          BY <4>2 DEF Files!SendEvent, Sent
        <5> QED
          BY <2>2, <5>1, <5>2, SentKeeps
      <4> QED
        BY <4>1, <4>2
    <3>3. Carried(d, t[2])'
      BY <1>1, <2>1, <2>2, <3>1, <3>2 DEF Carried, TakeStep, attemptVars, HasTransferCommand
    <3> QED
      BY <3>3
  <2> QED
    BY <2>3, <2>4
<1> QED
  BY <1>1, <1>3, <1>5, <1>6, <1>7

\* RelayCommand: the order goes on to the file worker.
LEMMA RelayKeeps ==
  ASSUME SystemIInv, IInv', NEW c \in Connections, TakeStep(c), conn[c] = "Running",
         fileCommands' = [fileCommands EXCEPT ![c] = Append(@, Head(commands[c]))],
         UNCHANGED events
  PROVE  SystemIInv'
<1> USE DEF SystemIInv
<1> DEFINE x == Head(commands[c])
           last == Len(fileCommands[c]) + 1
<1>1. /\ commands[c] \in Seq(Commands) /\ commands[c] # <<>>
      /\ fileCommands \in [Connections -> Seq(WorkerCommands)]
      /\ commands \in [Connections -> Seq(Commands)]
  BY DEF IInv, TypeOK, TakeStep, ChannelsOK
<1>2. x \in WorkerCommands
  <2>1. x \in Commands /\ x.op \in {"Transfer", "CancelTransfer"}
    BY <1>1, Received DEF TakeStep
  <2> QED
    BY <2>1, TransferCommand, CancelCommand
<1>3. /\ fileCommands' \in [Connections -> Seq(WorkerCommands)]
      /\ fileCommands'[c] = Append(fileCommands[c], x)
      /\ \A d \in Connections : d # c => fileCommands'[d] = fileCommands[d]
  <2>1. Append(fileCommands[c], x) \in Seq(WorkerCommands)
    BY <1>1, <1>2, Appended
  <2> QED
    BY <1>1, <2>1
<1>4. /\ ChannelsOK' /\ LifeOK' /\ HandleOK' /\ OrderOK' /\ LinkOK' /\ AttemptsOK' /\ ConflictOK'
      /\ \A d \in Connections : /\ EndAnnounced(d)' <=> EndAnnounced(d)
                                /\ Forgotten(d)' <=> Forgotten(d)
      /\ \A s \in Sessions : Doomed(s)' <=> Doomed(s)
  BY <1>3, TakeLife
<1>5. ASSUME NEW t \in Tasks, NEW b \in BOOLEAN, NEW k \in Links, NEW i \in Nat
      PROVE  /\ InCommands(t, b, k, i)' <=>
                  IF <<t[1], k>> = c THEN i # 0 /\ InCommands(t, b, k, i + 1)
                                     ELSE InCommands(t, b, k, i)
             /\ InWorker(t, b, k, i)' <=>
                  \/ InWorker(t, b, k, i)
                  \/ <<t[1], k>> = c /\ i = last /\ InCommands(t, b, k, 1)
  <2>1. InCommands(t, b, k, i)' <=>
          IF <<t[1], k>> = c THEN i # 0 /\ InCommands(t, b, k, i + 1) ELSE InCommands(t, b, k, i)
    BY <1>1, TakeShifts DEF TakeStep
  <2>2. CASE <<t[1], k>> = c
    <3>1. fileCommands[c] \in Seq(WorkerCommands)
      BY <1>1
    <3>2. TransferAt(Append(fileCommands[c], x), i, t[2], b) <=>
            \/ TransferAt(fileCommands[c], i, t[2], b)
            \/ i = last /\ x = [op |-> "Transfer", id |-> t[2], overwrite |-> b]
      BY <1>2, <3>1, TransferAtAppend
    <3>3. TransferAt(commands[c], 1, t[2], b) <=> x = [op |-> "Transfer", id |-> t[2], overwrite |-> b]
      BY <1>1, TransferAtHead
    <3>4. InWorker(t, b, k, i)' <=> TransferAt(Append(fileCommands[c], x), i, t[2], b)
      BY <1>3, <2>2 DEF InWorker, TransferAt
    <3> QED
      BY <2>1, <2>2, <3>2, <3>3, <3>4 DEF InWorker, InCommands
  <2>3. CASE <<t[1], k>> # c
    <3>1. fileCommands'[<<t[1], k>>] = fileCommands[<<t[1], k>>]
      BY <1>3, <2>3, TaskParts, LinkConnection
    <3> QED
      BY <2>1, <2>3, <3>1 DEF InWorker, TransferAt
  <2> QED
    BY <2>2, <2>3
<1>6. SameTasks
  BY DEF SameTasks, InTask, TakeStep, attemptVars
<1> HIDE DEF last
<1>7. ASSUME NEW t \in Tasks, NEW b \in BOOLEAN, Ordered(t, b)' PROVE Ordered(t, b)
  <2>1. PICK k \in Links :
          \/ \E i \in Nat : InCommands(t, b, k, i)' \/ InWorker(t, b, k, i)'
          \/ \E n \in Numbers : InTask(t, b, k, n)'
    BY <1>7 DEF Ordered
  <2>2. \A i \in Nat : i + 1 \in Nat
    OBVIOUS
  <2> QED
    BY <1>5, <1>6, <2>1, <2>2 DEF Ordered, SameTasks
<1>8. GivenOK'
  BY <1>7 DEF GivenOK, TakeStep, Unheard
<1>9. OnceOK'
  <2> SUFFICES ASSUME NEW t \in Tasks, NEW b \in BOOLEAN PROVE Once(t, b)'
    BY DEF OnceOK
  <2>1. CASE \E m \in Links : <<t[1], m>> = c /\ InCommands(t, b, m, 1)
    <3>1. PICK m \in Links : <<t[1], m>> = c /\ InCommands(t, b, m, 1)
      BY <2>1
    <3>2. /\ \A k \in Links, i \in Nat : InCommands(t, b, k, i) => k = m /\ i = 1
          /\ \A k \in Links, i \in Nat : ~InWorker(t, b, k, i)
          /\ \A k \in Links, n \in Numbers : ~InTask(t, b, k, n)
      BY <3>1 DEF OnceOK, Once
    <3>3. ASSUME NEW k \in Links, NEW i \in Nat PROVE ~InCommands(t, b, k, i)'
      <4>1. i # 0 => i + 1 # 1 /\ i + 1 \in Nat
        OBVIOUS
      <4> QED
        BY <1>5, <3>1, <3>2, <4>1
    <3>4. \A k \in Links, i \in Nat : InWorker(t, b, k, i)' => k = m /\ i = last
      BY <1>5, <3>2
    <3>5. \A k \in Links, n \in Numbers : ~InTask(t, b, k, n)'
      BY <1>6, <3>2 DEF SameTasks
    <3> QED
      BY <3>3, <3>4, <3>5 DEF Once
  <2>2. CASE ~\E m \in Links : <<t[1], m>> = c /\ InCommands(t, b, m, 1)
    <3> DEFINE dc == [d \in Connections |-> IF d = c THEN 1 ELSE 0]
               df == [d \in Connections |-> 0]
    <3>1. dc \in [Connections -> Nat] /\ df \in [Connections -> Nat]
      OBVIOUS
    <3>2. \A k \in Links : /\ df[<<t[1], k>>] = 0
                           /\ dc[<<t[1], k>>] = IF <<t[1], k>> = c THEN 1 ELSE 0
      BY TaskParts, LinkConnection
    <3> HIDE DEF dc, df
    <3>3. \A i \in Nat : i + 0 = i
      OBVIOUS
    <3>4. \A k \in Links, i \in Nat : InCommands(t, b, k, i)' => InCommands(t, b, k, i + dc[<<t[1], k>>])
      BY <1>5, <3>2, <3>3
    <3>5. \A k \in Links, i \in Nat : InWorker(t, b, k, i)' => InWorker(t, b, k, i + df[<<t[1], k>>])
      BY <1>5, <2>2, <3>2, <3>3
    <3>6. Shifted(t, b, dc, df)
      BY <1>6, <3>4, <3>5 DEF Shifted, SameTasks
    <3> QED
      BY <3>1, <3>6, ShiftOnce DEF OnceOK
  <2> QED
    BY <2>1, <2>2
<1>10. SettledOK'
  <2> SUFFICES ASSUME NEW t \in Tasks, NEW k \in Links, Forgotten(<<t[1], k>>), NEW b \in BOOLEAN,
                      \/ \E i \in Nat : InWorker(t, b, k, i)'
                      \/ \E n \in Numbers : InTask(t, b, k, n)'
               PROVE  state[t] \in Quits
    BY <1>4, TaskParts, LinkConnection DEF SettledOK, TakeStep, Unheard
  <2>1. <<t[1], k>> # c
    BY DEF Forgotten
  <2> QED
    BY <1>5, <1>6, <2>1 DEF SettledOK, SameTasks
<1>11. IgnoredOK'
  <2> SUFFICES ASSUME NEW t \in Tasks, NEW k \in Links, NEW b \in BOOLEAN, NEW i \in Nat,
                      state[t] = "Running", conn[<<t[1], k>>] \in Establishing,
                      InCommands(t, b, k, i)'
               PROVE  Doomed(t[1])'
    BY DEF IgnoredOK, TakeStep, Unheard
  <2>1. <<t[1], k>> # c
    BY DEF Establishing
  <2> QED
    BY <1>4, <1>5, <2>1, TaskParts DEF IgnoredOK
<1>12. RunningIsCarried'
  <2> SUFFICES ASSUME NEW t \in Tasks, state[t] = "Running"
               PROVE  \E k \in Links : Carried(<<t[1], k>>, t[2])'
    BY DEF RunningIsCarried, Links, TakeStep, Unheard
  <2>1. PICK k \in Links : Carried(<<t[1], k>>, t[2])
    BY DEF RunningIsCarried, Links
  <2> DEFINE d == <<t[1], k>>
  <2>2. d \in Connections
    BY TaskParts, LinkConnection
  <2>3. HasTransferCommand(fileCommands[d], t[2]) => HasTransferCommand(fileCommands[d], t[2])'
    <3>1. CASE d = c
      <4>1. HasTransferCommand(fileCommands[c], t[2]) => HasTransferCommand(Append(fileCommands[c], x), t[2])
        BY <1>1, <1>2, AppendCarries
      <4> QED
        BY <1>3, <3>1, <4>1 DEF HasTransferCommand
    <3>2. CASE d # c
      BY <1>3, <2>2, <3>2 DEF HasTransferCommand
    <3> QED
      BY <3>1, <3>2
  <2>4. CASE d = c /\ x.op = "Transfer" /\ x.id = t[2]
    <3>1. HasTransferCommand(Append(fileCommands[c], x), t[2])
      BY <1>1, <1>2, <2>4, AppendCarries
    <3>2. HasTransferCommand(fileCommands[d], t[2])'
      BY <1>3, <2>4, <3>1 DEF HasTransferCommand
    <3>3. worker'[d] = "Running"
      BY <2>4 DEF LifeOK, TakeStep
    <3>4. Carried(d, t[2])'
      BY <3>2, <3>3 DEF Carried
    <3> QED
      BY <3>4
  <2>5. CASE ~(d = c /\ x.op = "Transfer" /\ x.id = t[2])
    <3>1. HasTransferCommand(commands[d], t[2]) => HasTransferCommand(commands[d], t[2])'
      BY <2>2, <2>5, TakeCarries
    <3>2. Carried(d, t[2])'
      BY <1>4, <2>1, <2>2, <2>3, <3>1 DEF Carried, TakeStep, attemptVars, HasTransferEvent
    <3> QED
      BY <3>2
  <2> QED
    BY <2>4, <2>5
<1> QED
  BY <1>4, <1>8, <1>9, <1>10, <1>11, <1>12

LEMMA ConnectionKeeps ==
  ASSUME SystemIInv, IInv', NEW c \in Connections, ConnectionStep(c)
  PROVE  SystemIInv'
<1> USE DEF Become, ReceiveCommand, WorkerTakesCommand, queueVars, linkVars, Unheard, vars
<1>1. CASE IgnoreCommand(c)
  <2>1. TakeStep(c)
    BY <1>1 DEF IgnoreCommand, TakeStep, Alive, systemVars, fileVars, workerVars
  <2> QED
    BY <1>1, <2>1, TakeAwayKeeps DEF IgnoreCommand, systemVars, fileVars, workerVars
<1>2. CASE RelayCommand(c)
  <2>1. TakeStep(c)
    BY <1>2 DEF RelayCommand, TakeStep, Alive
  <2> QED
    BY <1>2, <2>1, RelayKeeps DEF RelayCommand
<1>3. CASE RefuseTransfer(c)
  <2>1. TakeStep(c)
    BY <1>3 DEF RefuseTransfer, TakeStep, Alive, workerVars
  <2> QED
    BY <1>3, <2>1, TakeAwayKeeps DEF RefuseTransfer, workerVars
<1>4. CASE BeginDisconnection(c)
  <2>1. LifeStep(c, "Closing", [kind |-> "Disconnecting"])
    BY <1>4 DEF BeginDisconnection, BeginClosing, LifeStep, Alive, StateEvents
  <2> QED
    BY <2>1, LifeKeeps
<1>5. CASE FinishDisconnection(c)
  <2>1. LifeStep(c, "Returning", [kind |-> "Disconnected"])
    BY <1>5 DEF FinishDisconnection, LifeStep, EndingEvents
  <2> QED
    BY <2>1, LifeKeeps
<1>6. CASE Return(c)
  BY <1>6, ReturnKeeps
<1>7. CASE ReportAuthenticating(c)
  <2>1. LifeStep(c, "Authenticating", [kind |-> "Connecting"])
    BY <1>7 DEF ReportAuthenticating, LifeStep, Alive, StateEvents, Establishing
  <2> QED
    BY <2>1, LifeKeeps
<1>8. CASE ReportConnected(c)
  <2>1. LifeStep(c, "Running", [kind |-> "Connected"])
    BY <1>8 DEF ReportConnected, LifeStep, Alive, StateEvents, Establishing
  <2> QED
    BY <2>1, LifeKeeps
<1>9. CASE ShellCloses(c)
  <2>1. LifeStep(c, "Closing", [kind |-> "Disconnecting"])
    BY <1>9 DEF ShellCloses, BeginClosing, LifeStep, Alive, StateEvents
  <2> QED
    BY <2>1, LifeKeeps
<1>10. CASE FailConnection(c)
  <2>1. LifeStep(c, "Returning", [kind |-> "Failed"])
    BY <1>10 DEF FailConnection, LifeStep, Alive, EndingEvents
  <2> QED
    BY <2>1, LifeKeeps
<1> QED
  BY <1>1, <1>2, <1>3, <1>4, <1>5, <1>6, <1>7, <1>8, <1>9, <1>10 DEF ConnectionStep, WorkerTurn

-----------------------------------------------------------------------------
(* The steps of a file worker.                                             *)

\* A file worker's step happens beside the application and the connections.
Beside == UNCHANGED <<vars, conn, fileClosed, events>>

LEMMA BesideKeeps ==
  ASSUME SystemIInv, Beside
  PROVE  /\ HandleOK' /\ OrderOK' /\ LinkOK' /\ IgnoredOK'
         /\ SameCommands
         /\ \A d \in Connections : /\ EndAnnounced(d)' <=> EndAnnounced(d)
                                   /\ Forgotten(d)' <=> Forgotten(d)
<1> USE DEF SystemIInv, Beside, vars
<1>1. \A d \in Connections : /\ EndAnnounced(d)' <=> EndAnnounced(d)
                             /\ Forgotten(d)' <=> Forgotten(d)
                             /\ EndingPending(d)' <=> EndingPending(d)
  BY DEF EndAnnounced, HandleDropped, Forgotten, EndingPending
<1>2. \A s \in Sessions : Doomed(s)' <=> Doomed(s)
  BY <1>1, LinkConnection DEF Doomed
<1>3. SameCommands
  BY DEF SameCommands, InCommands, TransferAt
<1>4. HandleOK' /\ OrderOK'
  BY DEF HandleOK, OrderOK, EndingPending
<1>5. LinkOK' /\ IgnoredOK'
  BY <1>2, <1>3, TaskParts DEF LinkOK, IgnoredOK, SameCommands
<1> QED
  BY <1>1, <1>3, <1>4, <1>5

\* FileWorker counts with the same Cardinality.
LEMMA FilesCardinality == \A S : Files!Cardinality(S) = Cardinality(S)
BY DEF Cardinality, Files!Cardinality

\* The order at the head of a file worker's channel becomes the next attempt: the
\* first, or the second after one that had the other consent.
LEMMA NextUnborn ==
  ASSUME SystemIInv, NEW t \in Tasks, NEW b \in BOOLEAN, NEW k \in Links, InWorker(t, b, k, 1)
  PROVE  \E n \in Numbers :
           /\ Files!NextAttempt(<<t[1], k>>, t[2]) = Att(t, k, n)
           /\ phase[Att(t, k, n)] = "Unborn"
           /\ n = 1 \/ phase[Att(t, k, 1)] # "Unborn"
<1> DEFINE B == {n \in Numbers : phase[Att(t, k, n)] # "Unborn"}
<1>1. 1 \in Numbers /\ 2 \in Numbers
  BY AttemptsAssumption DEF Numbers
<1>2. \A n \in Numbers : ~InTask(t, b, k, n)
  BY DEF SystemIInv, OnceOK, Once
<1>3. \A n \in B : InTask(t, ~b, k, n)
  <2> TAKE n \in B
  <2>1. confirmed[Att(t, k, n)] \in BOOLEAN
    BY TaskAttempt DEF SystemIInv, ChannelsOK, SystemTypeOK
  <2>2. confirmed[Att(t, k, n)] # b
    BY <1>2 DEF InTask
  <2> QED
    BY <2>1, <2>2 DEF InTask
<1>4. \A m, n \in B : m = n
  BY <1>3 DEF SystemIInv, OnceOK, Once
<1>5. \A n \in B : 1 \in B
  <2> TAKE n \in B
  <2>1. Att(t, k, n) \in Files!Attempts
    BY TaskAttempt
  <2>2. phase[<<Att(t, k, n)[1], Att(t, k, n)[2], 1>>] # "Unborn"
    BY <2>1 DEF SystemIInv, AttemptsOK
  <2>3. <<Att(t, k, n)[1], Att(t, k, n)[2], 1>> = Att(t, k, 1)
    BY DEF Att
  <2> QED
    BY <1>1, <2>2, <2>3
<1>6. Files!NextAttempt(<<t[1], k>>, t[2]) = Att(t, k, 1 + Cardinality(B))
  BY FilesCardinality DEF Files!NextAttempt, Att, Numbers
<1>7. CASE B = {}
  <2>1. Cardinality(B) = 0
    BY <1>7, FS_EmptySet
  <2>2. phase[Att(t, k, 1)] = "Unborn"
    BY <1>1, <1>7
  <2> HIDE DEF B
  <2>3. 1 + Cardinality(B) = 1
    BY <2>1
  <2> QED
    BY <1>1, <1>6, <2>2, <2>3
<1>8. CASE B # {}
  <2>1. 1 \in B /\ B = {1}
    BY <1>4, <1>5, <1>8
  <2>2. Cardinality(B) = 1
    BY <2>1, FS_Singleton
  <2>3. phase[Att(t, k, 2)] = "Unborn"
    BY <1>1, <2>1
  <2>4. phase[Att(t, k, 1)] # "Unborn"
    BY <2>1
  <2> HIDE DEF B
  <2>5. 1 + Cardinality(B) = 2
    BY <2>2
  <2> QED
    BY <1>1, <1>6, <2>3, <2>4, <2>5
<1> QED
  BY <1>7, <1>8

\* The worker of connection k takes the order to transfer t as its attempt n.
TakesOrder(t, b, k, n) ==
  LET c == <<t[1], k>> IN
  /\ InWorker(t, b, k, 1)
  /\ Beside /\ UNCHANGED <<worker, result, flag>>
  /\ fileCommands[c] # <<>> /\ fileCommands' = [fileCommands EXCEPT ![c] = Tail(@)]
  /\ \A id \in TransferIds : HasTransferCommand(fileCommands[c], id) =>
       id = t[2] \/ HasTransferCommand(Tail(fileCommands[c]), id)
  /\ phase' = [phase EXCEPT ![Att(t, k, n)] = "Checking"]
  /\ confirmed' = [confirmed EXCEPT ![Att(t, k, n)] = b]
  /\ cancellations' \in [Connections -> [TransferIds -> 0..MaxAttempts]]
  /\ phase[Att(t, k, n)] = "Unborn"
  /\ n = 1 \/ phase[Att(t, k, 1)] # "Unborn"

LEMMA TakeEffect ==
  ASSUME SystemIInv, NEW c \in Connections, Files!TakeTransfer(c), UNCHANGED <<vars, conn>>
  PROVE  \E t \in Tasks, b \in BOOLEAN, k \in Links, n \in Numbers : TakesOrder(t, b, k, n)
<1> DEFINE x == Head(fileCommands[c])
<1>1. fileCommands[c] \in Seq(WorkerCommands) /\ fileCommands[c] # <<>> /\ x.op = "Transfer"
  BY DEF Files!TakeTransfer, Files!TakesHead, SystemIInv, ChannelsOK
<1>2. x \in WorkerCommands
  BY <1>1, Received
<1>3. /\ x.id \in TransferIds /\ x.overwrite \in BOOLEAN
      /\ x = [op |-> "Transfer", id |-> x.id, overwrite |-> x.overwrite]
  BY <1>1, <1>2, TransferCommand
<1>4. TransferAt(fileCommands[c], 1, x.id, x.overwrite)
  BY <1>1, <1>3, TransferAtHead
<1>5. \A id : HasTransferCommand(fileCommands[c], id) =>
        id = x.id \/ HasTransferCommand(Tail(fileCommands[c]), id)
  BY <1>1, TailCarries
<1>6. PICK id \in TransferIds, b \in BOOLEAN : id = x.id /\ b = x.overwrite
  BY <1>3
<1>7. PICK t \in Tasks, k \in Links : c = <<t[1], k>> /\ t[2] = id
  <2>1. <<c[1], id>> \in Tasks /\ c[2] \in Links /\ c = <<<<c[1], id>>[1], c[2]>>
    BY ConnectionParts DEF Tasks
  <2> QED
    BY <2>1
<1>8. InWorker(t, b, k, 1)
  BY <1>4, <1>6, <1>7 DEF InWorker
<1>9. PICK n \in Numbers :
        /\ Files!NextAttempt(<<t[1], k>>, t[2]) = Att(t, k, n)
        /\ phase[Att(t, k, n)] = "Unborn"
        /\ n = 1 \/ phase[Att(t, k, 1)] # "Unborn"
  BY <1>8, NextUnborn
<1>10. /\ phase' = [phase EXCEPT ![Att(t, k, n)] = "Checking"]
       /\ confirmed' = [confirmed EXCEPT ![Att(t, k, n)] = b]
       /\ cancellations' = [cancellations EXCEPT ![c][id] = Att(t, k, n)[3]]
  BY <1>6, <1>7, <1>9 DEF Files!TakeTransfer
<1>11. cancellations' \in [Connections -> [TransferIds -> 0..MaxAttempts]]
  <2>1. Att(t, k, n)[3] \in 0..MaxAttempts
    BY AttemptsAssumption DEF Att, Numbers
  <2> QED
    BY <1>10, <2>1 DEF SystemIInv, ChannelsOK, SystemTypeOK
<1>12. Beside /\ UNCHANGED <<worker, result, flag>>
  BY DEF Files!TakeTransfer, Beside
<1>13. fileCommands' = [fileCommands EXCEPT ![c] = Tail(@)]
  BY DEF Files!TakeTransfer, Files!TakesHead
<1>14. TakesOrder(t, b, k, n)
  BY <1>1, <1>5, <1>6, <1>7, <1>8, <1>9, <1>10, <1>11, <1>12, <1>13 DEF TakesOrder
<1> QED
  BY <1>14

LEMMA TakeOrders ==
  ASSUME SystemIInv, NEW t \in Tasks, NEW b \in BOOLEAN, NEW k \in Links, NEW n \in Numbers,
         TakesOrder(t, b, k, n)
  PROVE  \A u \in Tasks, d \in BOOLEAN, l \in Links :
           /\ \A i \in Nat : InWorker(u, d, l, i)' <=>
                IF u[1] = t[1] /\ l = k THEN i # 0 /\ InWorker(u, d, l, i + 1)
                                       ELSE InWorker(u, d, l, i)
           /\ \A m \in Numbers : InTask(u, d, l, m)' <=>
                InTask(u, d, l, m) \/ (u = t /\ d = b /\ l = k /\ m = n)
<1> PICK c \in Connections : c = <<t[1], k>>
  BY TaskParts, LinkConnection
<1>0. \A u \in Tasks, d \in BOOLEAN, l \in Links, i \in Nat : InWorker(u, d, l, i)' <=>
        IF <<u[1], l>> = c THEN i # 0 /\ InWorker(u, d, l, i + 1) ELSE InWorker(u, d, l, i)
  <2>1. ChannelsOK /\ fileCommands[c] # <<>> /\ fileCommands' = [fileCommands EXCEPT ![c] = Tail(@)]
    BY DEF TakesOrder, SystemIInv
  <2> QED
    BY <2>1, WorkerTakeShifts
<1> TAKE u \in Tasks, d \in BOOLEAN, l \in Links
<1>1. Att(t, k, n) \in Files!Attempts
  BY TaskAttempt
<1>2. \A i \in Nat : InWorker(u, d, l, i)' <=>
        IF <<u[1], l>> = <<t[1], k>> THEN i # 0 /\ InWorker(u, d, l, i + 1) ELSE InWorker(u, d, l, i)
  BY <1>0
<1>3. <<u[1], l>> = <<t[1], k>> <=> u[1] = t[1] /\ l = k
  OBVIOUS
<1>4. phase \in [Files!Attempts -> Files!AttemptPhases] /\ confirmed \in [Files!Attempts -> BOOLEAN]
  BY DEF SystemIInv, ChannelsOK, SystemTypeOK
<1>5. ASSUME NEW m \in Numbers
      PROVE  InTask(u, d, l, m)' <=> InTask(u, d, l, m) \/ (u = t /\ d = b /\ l = k /\ m = n)
  <2>1. Att(u, l, m) \in Files!Attempts
    BY TaskAttempt
  <2>2. Att(u, l, m) = Att(t, k, n) <=> u = t /\ l = k /\ m = n
    BY TaskParts DEF Att
  <2>3. CASE Att(u, l, m) = Att(t, k, n)
    <3>1. phase'[Att(u, l, m)] = "Checking" /\ confirmed'[Att(u, l, m)] = b
      BY <1>1, <1>4, <2>3 DEF TakesOrder
    <3>2. phase[Att(u, l, m)] = "Unborn"
      BY <2>3 DEF TakesOrder
    <3>3. InTask(u, d, l, m)' <=> phase'[Att(u, l, m)] # "Unborn" /\ confirmed'[Att(u, l, m)] = d
      BY DEF InTask, Att
    <3> QED
      BY <2>2, <2>3, <3>1, <3>2, <3>3 DEF InTask
  <2>4. CASE Att(u, l, m) # Att(t, k, n)
    <3>1. phase'[Att(u, l, m)] = phase[Att(u, l, m)] /\ confirmed'[Att(u, l, m)] = confirmed[Att(u, l, m)]
      BY <1>4, <2>1, <2>4 DEF TakesOrder
    <3>2. InTask(u, d, l, m)' <=> phase'[Att(u, l, m)] # "Unborn" /\ confirmed'[Att(u, l, m)] = d
      BY DEF InTask, Att
    <3> QED
      BY <2>2, <2>4, <3>1, <3>2 DEF InTask
  <2> QED
    BY <2>3, <2>4
<1> QED
  BY <1>2, <1>3, <1>5

LEMMA TakeTransferKeeps ==
  ASSUME SystemIInv, IInv', NEW t \in Tasks, NEW b \in BOOLEAN, NEW k \in Links, NEW n \in Numbers,
         TakesOrder(t, b, k, n)
  PROVE  SystemIInv'
<1> USE DEF SystemIInv
<1> DEFINE c == <<t[1], k>>
           a == Att(t, k, n)
<1>1. c \in Connections /\ a \in Files!Attempts /\ a[1] = c
  BY TaskParts, LinkConnection, TaskAttempt DEF Att
<1>2. /\ phase \in [Files!Attempts -> Files!AttemptPhases]
      /\ confirmed \in [Files!Attempts -> BOOLEAN]
      /\ fileCommands \in [Connections -> Seq(WorkerCommands)]
  BY DEF ChannelsOK, SystemTypeOK
<1>3. /\ phase'[a] = "Checking" /\ phase[a] = "Unborn" /\ confirmed'[a] = b
      /\ \A d \in Files!Attempts : d # a => phase'[d] = phase[d] /\ confirmed'[d] = confirmed[d]
      /\ UNCHANGED <<result, flag, worker, fileClosed, conn, events, vars>>
  BY <1>1, <1>2 DEF TakesOrder, Beside
<1>4. /\ HandleOK' /\ OrderOK' /\ LinkOK' /\ IgnoredOK'
      /\ SameCommands
      /\ \A d \in Connections : /\ EndAnnounced(d)' <=> EndAnnounced(d)
                                /\ Forgotten(d)' <=> Forgotten(d)
  BY BesideKeeps DEF TakesOrder
<1>5. \A u \in Tasks, d \in BOOLEAN, l \in Links :
        /\ \A i \in Nat : InWorker(u, d, l, i)' <=>
             IF u[1] = t[1] /\ l = k THEN i # 0 /\ InWorker(u, d, l, i + 1)
                                    ELSE InWorker(u, d, l, i)
        /\ \A m \in Numbers : InTask(u, d, l, m)' <=>
             InTask(u, d, l, m) \/ (u = t /\ d = b /\ l = k /\ m = n)
  BY TakeOrders
<1>6. /\ fileCommands' \in [Connections -> Seq(WorkerCommands)]
      /\ fileCommands'[c] = Tail(fileCommands[c]) /\ fileCommands[c] # <<>>
      /\ \A d \in Connections : d # c => fileCommands'[d] = fileCommands[d]
  <2>1. fileCommands[c] \in Seq(WorkerCommands) /\ fileCommands[c] # <<>>
    BY <1>1, <1>2 DEF TakesOrder
  <2>2. Tail(fileCommands[c]) \in Seq(WorkerCommands)
    BY <2>1, Received
  <2> QED
    BY <1>1, <1>2, <2>1, <2>2 DEF TakesOrder
<1>7. ChannelsOK'
  <2>1. phase' \in [Files!Attempts -> Files!AttemptPhases]
    BY <1>2 DEF TakesOrder, Files!AttemptPhases, Files!WorkingPhases
  <2>2. confirmed' \in [Files!Attempts -> BOOLEAN]
    BY <1>2 DEF TakesOrder
  <2>3. cancellations' \in [Connections -> [TransferIds -> 0..MaxAttempts]]
    BY DEF TakesOrder
  <2> QED
    BY <1>3, <1>6, <2>1, <2>2, <2>3 DEF ChannelsOK, SystemTypeOK, IInv
<1>8. LifeOK'
  <2>1. conn[c] # "Unmade"
    BY <1>1, <1>6 DEF LifeOK
  <2>2. \A d \in Files!Attempts : phase'[d] # "Unborn" => conn[d[1]] # "Unmade"
    BY <1>1, <1>3, <2>1 DEF LifeOK
  <2>3. \A d \in Connections : conn[d] = "Unmade" => fileCommands'[d] = <<>>
    BY <1>6, <2>1 DEF LifeOK
  <2> QED
    BY <1>3, <2>2, <2>3 DEF LifeOK, vars
<1>9. AttemptsOK'
  <2> SUFFICES ASSUME NEW d \in Files!Attempts
       PROVE /\ phase'[d] = "Unborn" => ~confirmed'[d] /\ result'[d] = Files!NoResult
             /\ phase'[d] \in Files!WorkingPhases => result'[d] = Files!NoResult
             /\ phase'[d] = "Reporting" => result'[d] \in Files!Results
             /\ result'[d] = "TransferConflict" => ~confirmed'[d]
             /\ phase'[d] # "Unborn" => phase'[<<d[1], d[2], 1>>] # "Unborn"
    BY DEF AttemptsOK
  <2>1. 1 \in Numbers
    BY AttemptsAssumption DEF Numbers
  <2>2. <<d[1], d[2], 1>> \in Files!Attempts
    BY <2>1, AttemptParts DEF Files!Attempts, Numbers
  <2>3. Files!NoResult # "TransferConflict" /\ "Checking" \notin {"Unborn", "Reporting"}
    BY DEF Files!NoResult
  <2>4. result' = result
    BY <1>3
  <2>5. CASE d = a
    <3>1. result[a] = Files!NoResult
      BY <1>1, <1>3 DEF AttemptsOK
    <3>2. phase'[<<a[1], a[2], 1>>] # "Unborn"
      <4>1. <<a[1], a[2], 1>> = Att(t, k, 1) /\ Att(t, k, 1) \in Files!Attempts
        BY <2>1, TaskAttempt DEF Att
      <4>2. CASE n = 1
        BY <1>3, <2>3, <4>1, <4>2
      <4>3. CASE phase[Att(t, k, 1)] # "Unborn"
        BY <1>3, <4>1, <4>3
      <4> QED
        BY <4>2, <4>3 DEF TakesOrder
    <3> QED
      BY <1>3, <2>3, <2>4, <2>5, <3>1, <3>2
  <2>6. CASE d # a
    <3>1. phase'[d] = phase[d] /\ confirmed'[d] = confirmed[d]
      BY <1>3, <2>6
    <3>2. phase[<<d[1], d[2], 1>>] # "Unborn" => phase'[<<d[1], d[2], 1>>] # "Unborn"
      BY <1>3, <2>2, <2>3
    <3> QED
      BY <2>4, <3>1, <3>2 DEF AttemptsOK
  <2> QED
    BY <2>5, <2>6
<1>10. \A u \in Tasks : Answered(u)' <=> Answered(u)
  <2>1. \A d \in Files!Attempts : Reported(d)' <=> Reported(d)
    BY <1>3 DEF Reported
  <2>2. ASSUME NEW u \in Tasks PROVE Answered(u)' <=> \E l \in Links, m \in Numbers : Reported(Att(u, l, m))'
    BY DEF Answered, Reported, Att
  <2> QED
    BY <2>1, <2>2, TaskAttempt DEF Answered
<1>11. ConflictOK'
  BY <1>3, <1>10 DEF ConflictOK, Conflicts, vars
<1>12. \A u \in Tasks, d \in BOOLEAN : Ordered(u, d)' => Ordered(u, d)
  <2> SUFFICES ASSUME NEW u \in Tasks, NEW d \in BOOLEAN, Ordered(u, d)' PROVE Ordered(u, d)
    OBVIOUS
  <2>1. PICK l \in Links :
          \/ \E i \in Nat : InCommands(u, d, l, i)' \/ InWorker(u, d, l, i)'
          \/ \E m \in Numbers : InTask(u, d, l, m)'
    BY DEF Ordered
  <2>2. \A i \in Nat : i + 1 \in Nat
    OBVIOUS
  <2>3. InWorker(t, b, k, 1) /\ 1 \in Nat
    BY DEF TakesOrder
  <2> QED
    BY <1>4, <1>5, <2>1, <2>2, <2>3 DEF Ordered, SameCommands
<1>13. GivenOK'
  BY <1>3, <1>12 DEF GivenOK, vars
<1>14. OnceOK'
  <2> SUFFICES ASSUME NEW u \in Tasks, NEW d \in BOOLEAN PROVE Once(u, d)'
    BY DEF OnceOK
  <2>1. CASE u = t /\ d = b
    <3>0. InWorker(t, b, k, 1) /\ 1 \in Nat
      BY DEF TakesOrder
    <3>1. Once(t, b)
      BY DEF OnceOK
    <3>2. /\ \A l \in Links, i \in Nat : InWorker(t, b, l, i) => l = k /\ i = 1
          /\ \A l \in Links, i \in Nat : ~InCommands(t, b, l, i)
          /\ \A l \in Links, m \in Numbers : ~InTask(t, b, l, m)
      BY <3>0, <3>1 DEF Once
    <3>3. ASSUME NEW l \in Links, NEW i \in Nat PROVE ~InWorker(t, b, l, i)'
      <4>1. i # 0 => i + 1 # 1 /\ i + 1 \in Nat
        OBVIOUS
      <4> QED
        BY <1>5, <3>2, <4>1
    <3>4. \A l \in Links, i \in Nat : ~InCommands(t, b, l, i)'
      BY <1>4, <3>2 DEF SameCommands
    <3>5. \A l \in Links, m \in Numbers : InTask(t, b, l, m)' => l = k /\ m = n
      BY <1>5, <3>2
    <3> QED
      BY <2>1, <3>3, <3>4, <3>5 DEF Once
  <2>2. CASE ~(u = t /\ d = b)
    <3> DEFINE df == [e \in Connections |-> IF e = c THEN 1 ELSE 0]
               dc == [e \in Connections |-> 0]
    <3>1. dc \in [Connections -> Nat] /\ df \in [Connections -> Nat]
      OBVIOUS
    <3>2. \A l \in Links : /\ dc[<<u[1], l>>] = 0
                           /\ df[<<u[1], l>>] = IF u[1] = t[1] /\ l = k THEN 1 ELSE 0
      BY TaskParts, LinkConnection
    <3> HIDE DEF dc, df
    <3>3. \A i \in Nat : i + 0 = i
      OBVIOUS
    <3>4. \A l \in Links, i \in Nat : InCommands(u, d, l, i)' => InCommands(u, d, l, i + dc[<<u[1], l>>])
      BY <1>4, <3>2, <3>3 DEF SameCommands
    <3>5. \A l \in Links, i \in Nat : InWorker(u, d, l, i)' => InWorker(u, d, l, i + df[<<u[1], l>>])
      BY <1>5, <3>2, <3>3
    <3>6. \A l \in Links, m \in Numbers : InTask(u, d, l, m)' => InTask(u, d, l, m)
      BY <1>5, <2>2
    <3>7. Shifted(u, d, dc, df)
      BY <3>4, <3>5, <3>6 DEF Shifted
    <3> QED
      BY <3>1, <3>7, ShiftOnce DEF OnceOK
  <2> QED
    BY <2>1, <2>2
<1>15. SettledOK'
  <2> SUFFICES ASSUME NEW u \in Tasks, NEW l \in Links, Forgotten(<<u[1], l>>), NEW d \in BOOLEAN,
                      \/ \E i \in Nat : InWorker(u, d, l, i)'
                      \/ \E m \in Numbers : InTask(u, d, l, m)'
               PROVE  state[u] \in Quits
    BY <1>3, <1>4, TaskParts, LinkConnection DEF SettledOK, vars
  <2>1. \/ \E i \in Nat : InWorker(u, d, l, i)
        \/ \E m \in Numbers : InTask(u, d, l, m)
    <3>1. \A i \in Nat : i + 1 \in Nat
      OBVIOUS
    <3>2. InWorker(t, b, k, 1) /\ 1 \in Nat
      BY DEF TakesOrder
    <3> QED
      BY <1>5, <3>1, <3>2
  <2> QED
    BY <2>1 DEF SettledOK
<1>16. RunningIsCarried'
  <2> SUFFICES ASSUME NEW u \in Tasks, state[u] = "Running"
               PROVE  \E l \in Links : Carried(<<u[1], l>>, u[2])'
    BY <1>3 DEF RunningIsCarried, Links, vars
  <2>1. PICK l \in Links : Carried(<<u[1], l>>, u[2])
    BY DEF RunningIsCarried, Links
  <2> DEFINE d == <<u[1], l>>
  <2>2. d \in Connections /\ u[2] \in TransferIds
    BY TaskParts, LinkConnection
  <2>3. HasTransferCommand(fileCommands[d], u[2]) =>
          HasTransferCommand(fileCommands[d], u[2])' \/ (d = c /\ u[2] = t[2])
    <3>1. CASE d = c
      <4>1. HasTransferCommand(fileCommands[c], u[2]) =>
              u[2] = t[2] \/ HasTransferCommand(Tail(fileCommands[c]), u[2])
        BY <2>2 DEF TakesOrder
      <4> QED
        BY <1>6, <3>1, <4>1 DEF HasTransferCommand
    <3>2. CASE d # c
      BY <1>6, <2>2, <3>2 DEF HasTransferCommand
    <3> QED
      BY <3>1, <3>2
  <2>4. CASE d = c /\ u[2] = t[2]
    <3>1. <<d, u[2], n>> = a
      BY <2>4 DEF Att
    <3>2. phase'[<<d, u[2], n>>] = "Checking"
      BY <1>3, <3>1
    <3>3. n \in 1..MaxAttempts
      BY DEF Numbers
    <3> HIDE DEF d
    <3>4. Carried(d, u[2])'
      BY <3>2, <3>3 DEF Carried, Files!WorkingPhases
    <3> QED
      BY <3>4 DEF d
  <2>5. CASE ~(d = c /\ u[2] = t[2])
    <3>1. ASSUME NEW m \in 1..MaxAttempts, phase[<<d, u[2], m>>] \in Files!WorkingPhases \union {"Reporting"}
          PROVE  phase'[<<d, u[2], m>>] = phase[<<d, u[2], m>>]
      <4>1. <<d, u[2], m>> \in Files!Attempts
        BY <2>2 DEF Files!Attempts
      <4>2. <<d, u[2], m>> # a
        BY <1>3, <3>1 DEF Files!WorkingPhases
      <4> QED
        BY <1>3, <4>1, <4>2
    <3>2. HasTransferCommand(commands[d], u[2])' <=> HasTransferCommand(commands[d], u[2])
      BY <1>3 DEF HasTransferCommand, vars
    <3>3. HasTransferEvent(d, u[2])' <=> HasTransferEvent(d, u[2])
      BY <1>3 DEF HasTransferEvent
    <3>4. EndAnnounced(d)' <=> EndAnnounced(d)
      BY <1>4, <2>2
    <3>5. UNCHANGED <<conn, worker>>
      BY <1>3
    <3> HIDE DEF d
    <3>6. Carried(d, u[2])'
      BY <2>1, <2>3, <2>5, <3>1, <3>2, <3>3, <3>4, <3>5 DEF Carried, d
    <3> QED
      BY <3>6 DEF d
  <2> QED
    BY <2>4, <2>5
<1> QED
  BY <1>4, <1>7, <1>8, <1>9, <1>11, <1>13, <1>14, <1>15, <1>16

\* A step of a file worker that moves no order.
StillStep ==
  /\ Beside
  /\ UNCHANGED <<confirmed, result>>
  /\ SameWorkers /\ SameTasks
  /\ \A t \in Tasks : Answered(t) => Answered(t)'

LEMMA StillKeeps ==
  ASSUME SystemIInv, StillStep
  PROVE  /\ HandleOK' /\ OrderOK' /\ LinkOK' /\ IgnoredOK'
         /\ OnceOK' /\ GivenOK' /\ ConflictOK' /\ SettledOK'
         /\ \A d \in Connections : EndAnnounced(d)' <=> EndAnnounced(d)
<1> USE DEF SystemIInv, StillStep
<1>1. /\ HandleOK' /\ OrderOK' /\ LinkOK' /\ IgnoredOK'
      /\ SameCommands
      /\ \A d \in Connections : /\ EndAnnounced(d)' <=> EndAnnounced(d)
                                /\ Forgotten(d)' <=> Forgotten(d)
  BY BesideKeeps
<1>2. OnceOK'
  BY <1>1, SameOnce
<1>3. GivenOK'
  BY <1>1, SameOrdered DEF GivenOK, Beside, vars
<1>4. ConflictOK'
  BY DEF ConflictOK, Conflicts, Beside, vars
<1>5. SettledOK'
  BY <1>1, TaskParts, LinkConnection DEF SettledOK, SameWorkers, SameTasks, Beside, vars
<1> QED
  BY <1>1, <1>2, <1>3, <1>4, <1>5

LEMMA TakeCancelKeeps ==
  ASSUME SystemIInv, IInv', NEW c \in Connections, Files!TakeCancel(c), UNCHANGED <<vars, conn>>
  PROVE  SystemIInv'
<1> USE DEF SystemIInv
<1>1. /\ Beside /\ UNCHANGED <<worker, cancellations, phase, confirmed, result>>
      /\ fileCommands[c] # <<>> /\ fileCommands' = [fileCommands EXCEPT ![c] = Tail(@)]
      /\ Head(fileCommands[c]).op = "CancelTransfer"
  BY DEF Files!TakeCancel, Files!TakesHead, Beside
<1>2. fileCommands \in [Connections -> Seq(WorkerCommands)]
  BY DEF ChannelsOK
<1>3. fileCommands' \in [Connections -> Seq(WorkerCommands)]
  <2>1. Tail(fileCommands[c]) \in Seq(WorkerCommands)
    BY <1>1, <1>2, Received
  <2> QED
    BY <1>1, <1>2, <2>1
<1>4. flag' \in [Files!Attempts -> BOOLEAN]
  BY DEF Files!TakeCancel, ChannelsOK, SystemTypeOK
<1>5. ChannelsOK'
  BY <1>1, <1>3, <1>4 DEF ChannelsOK, SystemTypeOK, IInv, Beside
<1>6. LifeOK' /\ AttemptsOK'
  <2>1. \A d \in Connections : conn[d] = "Unmade" => fileCommands'[d] = <<>>
    BY <1>1, <1>2 DEF LifeOK
  <2> QED
    BY <1>1, <2>1 DEF LifeOK, AttemptsOK, Beside, vars
<1>7. \A t \in Tasks, b \in BOOLEAN, k \in Links, i \in Nat : InWorker(t, b, k, i)' <=>
        IF <<t[1], k>> = c THEN i # 0 /\ InWorker(t, b, k, i + 1) ELSE InWorker(t, b, k, i)
  BY <1>1, WorkerTakeShifts
<1>8. SameTasks /\ \A t \in Tasks : Answered(t)' <=> Answered(t)
  BY <1>1 DEF SameTasks, InTask, Answered, Reported
<1>9. /\ HandleOK' /\ OrderOK' /\ LinkOK' /\ IgnoredOK'
      /\ SameCommands
      /\ \A d \in Connections : /\ EndAnnounced(d)' <=> EndAnnounced(d)
                                /\ Forgotten(d)' <=> Forgotten(d)
  BY <1>1, BesideKeeps
<1>10. PICK dc \in [Connections -> Nat], df \in [Connections -> Nat] : Shifts(dc, df)
  <2> DEFINE df == [e \in Connections |-> IF e = c THEN 1 ELSE 0]
             dc == [e \in Connections |-> 0]
  <2>1. dc \in [Connections -> Nat] /\ df \in [Connections -> Nat]
    OBVIOUS
  <2>2. \A t \in Tasks, k \in Links : /\ dc[<<t[1], k>>] = 0
                                      /\ df[<<t[1], k>>] = IF <<t[1], k>> = c THEN 1 ELSE 0
    BY TaskParts, LinkConnection
  <2> HIDE DEF dc, df
  <2>3. \A i \in Nat : i + 0 = i
    OBVIOUS
  <2>4. Shifts(dc, df)
    BY <1>7, <1>8, <1>9, <2>2, <2>3 DEF Shifts, Shifted, SameCommands, SameTasks
  <2> QED
    BY <2>1, <2>4
<1>11. OnceOK' /\ GivenOK'
  <2>1. Unheard
    BY <1>1 DEF Beside, vars, Unheard
  <2> QED
    BY <1>10, <2>1, ShiftOnce, ShiftGiven DEF OnceOK, Shifts
<1>12. ConflictOK'
  BY <1>1, <1>8 DEF ConflictOK, Conflicts, Beside, vars
<1>13. SettledOK'
  <2>1. \A i \in Nat : i + 1 \in Nat
    OBVIOUS
  <2> QED
    BY <1>1, <1>7, <1>8, <1>9, <2>1, TaskParts, LinkConnection
    DEF SettledOK, SameTasks, Beside, vars
<1>14. RunningIsCarried'
  <2>1. \A d \in Connections, id \in TransferIds :
          HasTransferCommand(fileCommands[d], id) => HasTransferCommand(fileCommands[d], id)'
    <3> TAKE d \in Connections, id \in TransferIds
    <3>1. CASE d = c
      <4>1. fileCommands'[d] = Tail(fileCommands[c]) /\ fileCommands[c] \in Seq(WorkerCommands)
        BY <1>1, <1>2, <3>1
      <4>2. HasTransferCommand(fileCommands[c], id) => HasTransferCommand(Tail(fileCommands[c]), id)
        BY <1>1, <4>1, TailCarries
      <4> QED
        BY <3>1, <4>1, <4>2 DEF HasTransferCommand
    <3>2. CASE d # c
      BY <1>1, <1>2, <3>2 DEF HasTransferCommand
    <3> QED
      BY <3>1, <3>2
  <2>2. \A d \in Connections, id \in TransferIds : Carried(d, id) => Carried(d, id)'
    <3>1. \A d \in Connections, id \in TransferIds :
            /\ HasTransferCommand(commands[d], id)' <=> HasTransferCommand(commands[d], id)
            /\ HasTransferEvent(d, id)' <=> HasTransferEvent(d, id)
      BY <1>1 DEF HasTransferCommand, HasTransferEvent, Beside, vars
    <3> QED
      BY <1>1, <1>9, <2>1, <3>1 DEF Carried, Beside
  <2> QED
    BY <1>1, <2>2, TaskParts, LinkConnection DEF RunningIsCarried, Links, Beside, vars
<1> QED
  BY <1>5, <1>6, <1>9, <1>11, <1>12, <1>13, <1>14

LEMMA ShutDownKeeps ==
  ASSUME SystemIInv, IInv', NEW c \in Connections, Files!ShutDown(c), UNCHANGED <<vars, conn>>
  PROVE  SystemIInv'
<1> USE DEF SystemIInv
<1>1. /\ Beside /\ UNCHANGED <<fileCommands, cancellations, phase, confirmed, result>>
      /\ c \in fileClosed /\ fileCommands[c] = <<>>
      /\ worker' = [worker EXCEPT ![c] = "Joining"]
      /\ flag' \in [Files!Attempts -> BOOLEAN]
  BY DEF Files!ShutDown, Beside, ChannelsOK, SystemTypeOK
<1>2. worker \in [Connections -> {"Running", "Joining", "Stopped"}]
  BY DEF ChannelsOK, SystemTypeOK
<1>3. ChannelsOK'
  BY <1>1, <1>2 DEF ChannelsOK, SystemTypeOK, IInv, Beside
<1>4. LifeOK' /\ AttemptsOK'
  <2>1. \A d \in Connections : conn[d] # "Ended" => worker'[d] = "Running"
    BY <1>1, <1>2 DEF LifeOK
  <2> QED
    BY <1>1, <2>1 DEF LifeOK, AttemptsOK, Beside, vars
<1>5. StillStep
  BY <1>1 DEF StillStep, SameWorkers, SameTasks, InWorker, InTask, TransferAt, Answered, Reported
<1>6. RunningIsCarried'
  <2>1. \A d \in Connections, id \in TransferIds :
          HasTransferCommand(fileCommands[d], id) => worker'[d] = worker[d]
    <3> TAKE d \in Connections, id \in TransferIds
    <3>1. d = c => ~HasTransferCommand(fileCommands[d], id)
      BY <1>1 DEF HasTransferCommand
    <3> QED
      BY <1>1, <1>2, <3>1
  <2>2. \A d \in Connections : EndAnnounced(d)' <=> EndAnnounced(d)
    BY <1>5, StillKeeps
  <2>3. \A d \in Connections, id \in TransferIds : Carried(d, id) => Carried(d, id)'
    BY <1>1, <2>1, <2>2 DEF Carried, HasTransferCommand, HasTransferEvent, Beside, vars
  <2> QED
    BY <1>1, <2>3, TaskParts, LinkConnection DEF RunningIsCarried, Links, Beside, vars
<1> QED
  BY <1>3, <1>4, <1>5, <1>6, StillKeeps

LEMMA JoinKeeps ==
  ASSUME SystemIInv, IInv', NEW c \in Connections, Files!Join(c), UNCHANGED <<vars, conn>>
  PROVE  SystemIInv'
<1> USE DEF SystemIInv
<1>1. /\ Beside /\ UNCHANGED <<fileCommands, cancellations, confirmed, result, flag>>
      /\ worker[c] = "Joining" /\ worker' = [worker EXCEPT ![c] = "Stopped"]
      /\ phase' = [a \in Files!Attempts |-> IF a[1] = c /\ ~Files!Ended(a) THEN "Aborted" ELSE phase[a]]
  BY DEF Files!Join, Beside
<1>2. /\ worker \in [Connections -> {"Running", "Joining", "Stopped"}]
      /\ phase \in [Files!Attempts -> Files!AttemptPhases]
  BY DEF ChannelsOK, SystemTypeOK
<1>3. conn[c] = "Ended"
  BY <1>1 DEF LifeOK
<1>4. \A a \in Files!Attempts :
        \/ phase'[a] = phase[a]
        \/ a[1] = c /\ phase'[a] = "Aborted" /\ phase[a] \notin {"Unborn", "Done", "Aborted"}
  BY <1>1 DEF Files!Ended
<1>5. ChannelsOK'
  <2>1. phase' \in [Files!Attempts -> Files!AttemptPhases]
    BY <1>1, <1>2, <1>4 DEF Files!AttemptPhases
  <2> QED
    BY <1>1, <1>2, <2>1 DEF ChannelsOK, SystemTypeOK, IInv, Beside
<1>6. LifeOK'
  <2>1. \A d \in Connections : conn[d] # "Ended" => worker'[d] = "Running"
    BY <1>1, <1>2, <1>3 DEF LifeOK
  <2>2. \A a \in Files!Attempts : phase'[a] # "Unborn" => phase[a] # "Unborn"
    BY <1>4
  <2> QED
    BY <1>1, <2>1, <2>2 DEF LifeOK, Beside, vars
<1>7. AttemptsOK'
  <2>1. \A a \in Files!Attempts : <<a[1], a[2], 1>> \in Files!Attempts
    BY AttemptsAssumption, AttemptParts DEF Files!Attempts
  <2>2. "Aborted" \notin Files!WorkingPhases \union {"Unborn", "Reporting"}
    BY DEF Files!WorkingPhases
  <2> QED
    BY <1>1, <1>4, <2>1, <2>2 DEF AttemptsOK
<1>8. StillStep
  <2>1. SameTasks
    BY <1>1, <1>4, TaskAttempt DEF SameTasks, InTask, Att
  <2>2. \A a \in Files!Attempts : Reported(a) => Reported(a)'
    BY <1>1, <1>4 DEF Reported
  <2>3. ASSUME NEW t \in Tasks, Answered(t) PROVE Answered(t)'
    <3>1. PICK k \in Links, n \in Numbers : Reported(Att(t, k, n))
      BY <2>3 DEF Answered
    <3>2. Reported(Att(t, k, n))'
      BY <2>2, <3>1, TaskAttempt DEF Att, Reported
    <3> QED
      BY <3>2 DEF Answered
  <2> QED
    BY <1>1, <2>1, <2>3 DEF StillStep, SameWorkers, InWorker, TransferAt
<1>9. RunningIsCarried'
  <2> SUFFICES ASSUME NEW t \in Tasks, state[t] = "Running"
               PROVE  \E k \in Links : Carried(<<t[1], k>>, t[2])'
    BY <1>1 DEF RunningIsCarried, Links, Beside, vars
  <2>1. PICK k \in Links : Carried(<<t[1], k>>, t[2])
    BY DEF RunningIsCarried, Links
  <2> DEFINE d == <<t[1], k>>
  <2>2. d \in Connections
    BY TaskParts, LinkConnection
  <2>3. EndAnnounced(d)' <=> EndAnnounced(d)
    BY <1>8, <2>2, StillKeeps
  <2>4. ASSUME NEW n \in 1..MaxAttempts, phase[<<d, t[2], n>>] \in Files!WorkingPhases \union {"Reporting"}
        PROVE  phase'[<<d, t[2], n>>] = phase[<<d, t[2], n>>] \/ EndAnnounced(d)
    <3>1. <<d, t[2], n>> = Att(t, k, n) /\ Att(t, k, n) \in Files!Attempts /\ n \in Numbers
      BY TaskAttempt DEF Att, Numbers
    <3>2. CASE d # c
      BY <1>4, <3>1, <3>2 DEF Att
    <3>3. CASE d = c
      <4>1. confirmed[Att(t, k, n)] \in BOOLEAN /\ phase[Att(t, k, n)] # "Unborn"
        BY <2>4, <3>1 DEF ChannelsOK, SystemTypeOK, Files!WorkingPhases
      <4>2. InTask(t, confirmed[Att(t, k, n)], k, n)
        BY <4>1 DEF InTask
      <4>3. ~Forgotten(d)
        BY <3>1, <4>1, <4>2 DEF SettledOK, Quits
      <4>4. EndingPending(d)
        BY <1>3, <3>3, <4>3 DEF Forgotten
      <4> QED
        BY <4>4 DEF EndingPending, EndAnnounced
    <3> QED
      BY <3>2, <3>3
  <2>5. worker[d] = "Running" => worker'[d] = "Running"
    BY <1>1, <1>2, <2>2
  <2>6. Carried(d, t[2])'
    BY <1>1, <2>1, <2>3, <2>4, <2>5 DEF Carried, HasTransferCommand, HasTransferEvent, Beside, vars
  <2> QED
    BY <2>6
<1> QED
  BY <1>5, <1>6, <1>7, <1>8, <1>9, StillKeeps

LEMMA FileWorkerKeeps ==
  ASSUME SystemIInv, IInv', NEW c \in Connections, FileWorkerStep(c)
  PROVE  SystemIInv'
BY TakeEffect, TakeTransferKeeps, TakeCancelKeeps, ShutDownKeeps, JoinKeeps
DEF FileWorkerStep, Files!WorkerStep

-----------------------------------------------------------------------------
(* The steps of a transfer task.                                           *)

\* Attempt a goes on to phase `to` and has come to r.
Goes(a, to, r) ==
  /\ UNCHANGED <<vars, conn, workerVars, confirmed, flag>>
  /\ phase' = [phase EXCEPT ![a] = to]
  /\ result' = [result EXCEPT ![a] = r]
  /\ cancellations' \in [Connections -> [TransferIds -> 0..MaxAttempts]]
  /\ \/ phase[a] \in Files!WorkingPhases /\ to \in Files!WorkingPhases /\ r = result[a]
     \/ /\ phase[a] \in Files!WorkingPhases /\ to = "Reporting"
        /\ r \in Files!Results
        /\ r = "TransferConflict" => ~confirmed[a]
     \/ phase[a] = "Reporting" /\ to = "Clearing" /\ r = result[a]
     \/ phase[a] = "Clearing" /\ to = "Done" /\ r = result[a]

LEMMA GoesKeeps ==
  ASSUME SystemIInv, IInv', NEW a \in Files!Attempts, NEW to, NEW r, Goes(a, to, r)
  PROVE  /\ AttemptsOK'
         /\ phase' \in [Files!Attempts -> Files!AttemptPhases]
         /\ result' \in [Files!Attempts -> Files!Results \union {Files!NoResult}]
         /\ \A d \in Files!Attempts : phase'[d] = "Unborn" <=> phase[d] = "Unborn"
         /\ SameCommands /\ SameWorkers /\ SameTasks
         /\ \A d \in Files!Attempts : Reported(d) => Reported(d)'
         /\ \A t \in Tasks : Answered(t) => Answered(t)'
<1> USE DEF SystemIInv
<1>1. /\ phase \in [Files!Attempts -> Files!AttemptPhases]
      /\ result \in [Files!Attempts -> Files!Results \union {Files!NoResult}]
  BY DEF ChannelsOK, SystemTypeOK
<1>2. /\ phase'[a] = to /\ result'[a] = r
      /\ \A d \in Files!Attempts : d # a => phase'[d] = phase[d] /\ result'[d] = result[d]
      /\ confirmed' = confirmed
  BY <1>1 DEF Goes
<1>3. /\ to \in Files!AttemptPhases \ {"Unborn"} /\ phase[a] # "Unborn"
      /\ phase[a] \notin {"Done", "Aborted"}
      /\ r \in Files!Results \union {Files!NoResult}
  BY <1>1 DEF Goes, Files!AttemptPhases, Files!WorkingPhases
<1>4. \A d \in Files!Attempts : phase'[d] = "Unborn" <=> phase[d] = "Unborn"
  BY <1>2, <1>3
<1>5. SameCommands /\ SameWorkers
  BY DEF SameCommands, SameWorkers, InCommands, InWorker, TransferAt, Goes, vars, workerVars
<1>6. SameTasks
  BY <1>2, <1>4, TaskAttempt DEF SameTasks, InTask, Att
<1>7. \A d \in Files!Attempts : Reported(d) => Reported(d)'
  <2> SUFFICES ASSUME NEW d \in Files!Attempts, Reported(d) PROVE Reported(d)'
    OBVIOUS
  <2>1. CASE d = a
    <3>1. phase[a] = "Clearing" /\ to = "Done" /\ r = result[a]
      BY <2>1 DEF Reported, Goes, Files!WorkingPhases
    <3> QED
      BY <1>2, <2>1, <3>1 DEF Reported
  <2>2. CASE d # a
    BY <1>2, <2>2 DEF Reported
  <2> QED
    BY <2>1, <2>2
<1>8. ASSUME NEW t \in Tasks, Answered(t) PROVE Answered(t)'
  <2>1. PICK k \in Links, n \in Numbers : Reported(Att(t, k, n))
    BY <1>8 DEF Answered
  <2>2. Reported(Att(t, k, n))'
    BY <1>7, <2>1, TaskAttempt DEF Att, Reported
  <2> QED
    BY <2>2 DEF Answered
<1>9. AttemptsOK'
  <2> SUFFICES ASSUME NEW d \in Files!Attempts
       PROVE /\ phase'[d] = "Unborn" => ~confirmed'[d] /\ result'[d] = Files!NoResult
             /\ phase'[d] \in Files!WorkingPhases => result'[d] = Files!NoResult
             /\ phase'[d] = "Reporting" => result'[d] \in Files!Results
             /\ result'[d] = "TransferConflict" => ~confirmed'[d]
             /\ phase'[d] # "Unborn" => phase'[<<d[1], d[2], 1>>] # "Unborn"
    BY DEF AttemptsOK
  <2>1. <<d[1], d[2], 1>> \in Files!Attempts
    BY AttemptsAssumption, AttemptParts DEF Files!Attempts
  <2>2. phase'[d] # "Unborn" => phase'[<<d[1], d[2], 1>>] # "Unborn"
    BY <1>4, <2>1 DEF AttemptsOK
  <2>3. CASE d = a
    <3>1. /\ phase[a] \in Files!WorkingPhases => result[a] = Files!NoResult
          /\ result[a] = "TransferConflict" => ~confirmed[a]
      BY DEF AttemptsOK
    <3>2. Files!NoResult # "TransferConflict"
      BY DEF Files!NoResult
    <3> QED
      BY <1>2, <1>3, <2>2, <2>3, <3>1, <3>2 DEF Goes, Files!WorkingPhases
  <2>4. CASE d # a
    BY <1>2, <2>2, <2>4 DEF AttemptsOK
  <2> QED
    BY <2>3, <2>4
<1>10. /\ phase' \in [Files!Attempts -> Files!AttemptPhases]
       /\ result' \in [Files!Attempts -> Files!Results \union {Files!NoResult}]
  BY <1>1, <1>3 DEF Goes
<1> QED
  BY <1>4, <1>5, <1>6, <1>7, <1>8, <1>9, <1>10

\* A task that works on and says nothing.
LEMMA SilentKeeps ==
  ASSUME SystemIInv, IInv', NEW a \in Files!Attempts, NEW to, NEW r, Goes(a, to, r),
         UNCHANGED events, phase[a] # "Reporting"
  PROVE  SystemIInv'
<1> USE DEF SystemIInv
<1>1. /\ AttemptsOK'
      /\ phase' \in [Files!Attempts -> Files!AttemptPhases]
      /\ result' \in [Files!Attempts -> Files!Results \union {Files!NoResult}]
      /\ \A d \in Files!Attempts : phase'[d] = "Unborn" <=> phase[d] = "Unborn"
      /\ SameCommands /\ SameWorkers /\ SameTasks
      /\ \A t \in Tasks : Answered(t) => Answered(t)'
  BY GoesKeeps
<1>2. Beside /\ UNCHANGED <<worker, fileCommands, confirmed, flag>>
  BY DEF Goes, Beside, workerVars
<1>3. ChannelsOK'
  BY <1>1, <1>2 DEF ChannelsOK, SystemTypeOK, IInv, Beside, Goes
<1>4. LifeOK'
  BY <1>1, <1>2 DEF LifeOK, Beside, vars
<1>5. /\ HandleOK' /\ OrderOK' /\ LinkOK' /\ IgnoredOK'
      /\ \A d \in Connections : /\ EndAnnounced(d)' <=> EndAnnounced(d)
                                /\ Forgotten(d)' <=> Forgotten(d)
  BY <1>2, BesideKeeps
<1>6. OnceOK' /\ GivenOK'
  BY <1>1, <1>2, SameOnce, SameOrdered DEF GivenOK, Beside, vars
<1>7. ConflictOK'
  BY <1>1, <1>2 DEF ConflictOK, Conflicts, Beside, vars
<1>8. SettledOK'
  BY <1>1, <1>2, <1>5, TaskParts, LinkConnection DEF SettledOK, SameWorkers, SameTasks, Beside, vars
<1>9. RunningIsCarried'
  <2>1. \A d \in Files!Attempts : phase[d] \in Files!WorkingPhases \union {"Reporting"} =>
          phase'[d] \in Files!WorkingPhases \union {"Reporting"}
    <3> TAKE d \in Files!Attempts
    <3>1. CASE d = a
      <4>1. phase'[a] = to
        BY DEF Goes, ChannelsOK, SystemTypeOK
      <4> QED
        BY <3>1, <4>1 DEF Goes, Files!WorkingPhases
    <3>2. CASE d # a
      BY <3>2 DEF Goes, ChannelsOK, SystemTypeOK
    <3> QED
      BY <3>1, <3>2
  <2>2. \A d \in Connections, id \in TransferIds, n \in 1..MaxAttempts : <<d, id, n>> \in Files!Attempts
    BY DEF Files!Attempts
  <2>3. \A d \in Connections, id \in TransferIds :
          /\ HasTransferCommand(commands[d], id)' <=> HasTransferCommand(commands[d], id)
          /\ HasTransferCommand(fileCommands[d], id)' <=> HasTransferCommand(fileCommands[d], id)
          /\ HasTransferEvent(d, id)' <=> HasTransferEvent(d, id)
    BY <1>2 DEF HasTransferCommand, HasTransferEvent, Beside, vars
  <2>4. \A d \in Connections, id \in TransferIds : Carried(d, id) => Carried(d, id)'
    BY <1>2, <1>5, <2>1, <2>2, <2>3 DEF Carried, Beside
  <2> QED
    BY <1>2, <2>4, TaskParts, LinkConnection DEF RunningIsCarried, Links, Beside, vars
<1> QED
  BY <1>1, <1>3, <1>4, <1>5, <1>6, <1>7, <1>8, <1>9

\* A transfer event sent beside the application and the connections ends nothing.
LEMMA TellKeeps ==
  ASSUME SystemIInv, UNCHANGED <<vars, conn>>, NEW c \in Connections,
         NEW e \in [kind : TransferEvents, id : TransferIds], Files!SendEvent(c, e)
  PROVE  /\ events' \in [Connections -> Seq(Events)]
         /\ \A d \in Connections : Len(events'[d]) <= EventCapacity
         /\ \A d \in Connections : d # c => events'[d] = events[d]
         /\ HandleOK' /\ OrderOK' /\ LinkOK' /\ IgnoredOK'
         /\ HasTransferEvent(c, e.id)'
         /\ \A d \in Connections :
              /\ EndAnnounced(d)' <=> EndAnnounced(d)
              /\ Forgotten(d)' <=> Forgotten(d)
              /\ \A id \in TransferIds : HasTransferEvent(d, id) => HasTransferEvent(d, id)'
<1> USE DEF SystemIInv, vars
<1>1. /\ e \in Events /\ e.kind \in TransferEvents
      /\ e.kind \notin EndingEvents /\ e.kind # "Connected"
  BY DEF Events, TransferEvents, EndingEvents
<1>2. /\ Sent(c, e)
      /\ events' \in [Connections -> Seq(Events)]
      /\ \A d \in Connections : Len(events'[d]) <= EventCapacity
  BY <1>1, SentEffect
<1>3. \A d \in Connections : d # c => events'[d] = events[d]
  BY <1>2 DEF Sent, ChannelsOK
<1>4. \A d \in Connections :
        /\ EndingPending(d)' <=> EndingPending(d)
        /\ \A id \in TransferIds : HasTransferEvent(d, id) => HasTransferEvent(d, id)'
  BY <1>1, <1>2, SentKeeps
<1>5. HasTransferEvent(c, e.id)'
  BY <1>1, <1>2, SentEvents DEF HasTransferEvent
<1>6. \A d \in Connections : EndAnnounced(d)' <=> EndAnnounced(d)
  <2>1. \A d \in Connections : EndAnnounced(d) <=>
          \/ conn[d] = "Closing"
          \/ conn[d] \in Establishing \union {"Running"} /\ HandleDropped(d)
          \/ EndingPending(d)
    BY DEF EndAnnounced, EndingPending
  <2>2. \A d \in Connections : EndAnnounced(d)' <=>
          \/ conn'[d] = "Closing"
          \/ conn'[d] \in Establishing \union {"Running"} /\ HandleDropped(d)'
          \/ EndingPending(d)'
    BY DEF EndAnnounced, EndingPending
  <2> QED
    BY <1>4, <2>1, <2>2 DEF HandleDropped
<1>7. \A d \in Connections : Forgotten(d)' <=> Forgotten(d)
  BY <1>4 DEF Forgotten
<1>8. \A s \in Sessions : Doomed(s)' <=> Doomed(s)
  BY <1>6, LinkConnection DEF Doomed
<1>9. HandleOK'
  <2> SUFFICES ASSUME NEW s \in Sessions, NEW h, h = handle[s], h # NoHandle
               PROVE  conn[<<s, h>>] \in Alive \union {"Closing"} \/ EndingPending(<<s, h>>)'
    BY DEF HandleOK, EndingPending
  <2>1. <<s, h>> \in Connections
    BY LinkConnection DEF IInv, TypeOK, Links, NoHandle
  <2> QED
    BY <1>4, <2>1 DEF HandleOK
<1>10. LinkOK'
  BY <1>8 DEF LinkOK
<1>11. IgnoredOK'
  <2>1. SameCommands
    BY DEF SameCommands, InCommands, TransferAt
  <2> QED
    BY <1>8, <2>1, TaskParts DEF IgnoredOK, SameCommands
<1>12. OrderOK'
  <2> SUFFICES ASSUME NEW d \in Connections, NEW i \in DOMAIN events'[d], events'[d][i].kind = "Connected"
               PROVE  \/ conn[d] \in {"Running", "Closing"}
                      \/ \E j \in DOMAIN events'[d] : i < j /\ events'[d][j].kind \in EndingEvents
    BY DEF OrderOK
  <2>1. i \in DOMAIN events[d] /\ events[d][i].kind = "Connected"
    BY <1>1, <1>2, SentEvents
  <2>2. \/ conn[d] \in {"Running", "Closing"}
        \/ \E j \in DOMAIN events[d] : i < j /\ events[d][j].kind \in EndingEvents
    BY <2>1 DEF OrderOK
  <2>3. \A j \in DOMAIN events[d] : j \in DOMAIN events'[d] /\ events'[d][j] = events[d][j]
    BY <1>1, <1>2, SentEvents
  <2> QED
    BY <2>2, <2>3
<1> QED
  BY <1>2, <1>3, <1>4, <1>5, <1>6, <1>7, <1>9, <1>10, <1>11, <1>12

LEMMA ReportKeeps ==
  ASSUME SystemIInv, IInv', NEW a \in Files!Attempts, Files!Report(a), UNCHANGED <<vars, conn>>
  PROVE  SystemIInv'
<1> USE DEF SystemIInv
<1> PICK c \in Connections : c = a[1]
  BY AttemptParts
<1>1. c \in Connections /\ a[2] \in TransferIds
  BY AttemptParts
<1>2. phase[a] = "Reporting" /\ result[a] \in Files!Results
  BY DEF Files!Report, AttemptsOK
<1>3. Goes(a, "Clearing", result[a])
  BY <1>2 DEF Files!Report, Files!Move, Goes, ChannelsOK, SystemTypeOK, workerVars, Files!workerVars
<1>4. PICK e \in [kind : TransferEvents, id : TransferIds] :
        e = [kind |-> result[a], id |-> a[2]] /\ Files!SendEvent(c, e)
  <2>1. [kind |-> result[a], id |-> a[2]] \in [kind : TransferEvents, id : TransferIds]
    BY <1>1, <1>2 DEF Files!Results, TransferEvents
  <2> QED
    BY <2>1 DEF Files!Report
<1>5. /\ events' \in [Connections -> Seq(Events)]
      /\ \A d \in Connections : Len(events'[d]) <= EventCapacity
      /\ \A d \in Connections : d # c => events'[d] = events[d]
      /\ HandleOK' /\ OrderOK' /\ LinkOK' /\ IgnoredOK'
      /\ HasTransferEvent(c, a[2])'
      /\ \A d \in Connections :
           /\ EndAnnounced(d)' <=> EndAnnounced(d)
           /\ Forgotten(d)' <=> Forgotten(d)
           /\ \A id \in TransferIds : HasTransferEvent(d, id) => HasTransferEvent(d, id)'
  <2>1. e.id = a[2]
    BY <1>4
  <2> QED
    BY <1>4, <2>1, TellKeeps
<1>6. /\ AttemptsOK'
      /\ phase' \in [Files!Attempts -> Files!AttemptPhases]
      /\ result' \in [Files!Attempts -> Files!Results \union {Files!NoResult}]
      /\ \A d \in Files!Attempts : phase'[d] = "Unborn" <=> phase[d] = "Unborn"
      /\ SameCommands /\ SameWorkers /\ SameTasks
      /\ \A t \in Tasks : Answered(t) => Answered(t)'
  BY <1>3, GoesKeeps
<1>7. UNCHANGED <<worker, fileCommands, fileClosed, confirmed, flag>>
  BY <1>3 DEF Goes, workerVars
<1>8. ChannelsOK'
  BY <1>3, <1>5, <1>6, <1>7 DEF ChannelsOK, SystemTypeOK, IInv, Goes
<1>9. LifeOK'
  <2>1. conn[c] # "Unmade"
    BY <1>2 DEF LifeOK
  <2> QED
    BY <1>5, <1>6, <1>7, <2>1, ZenonT(30) DEF LifeOK, vars
<1>10. OnceOK' /\ GivenOK'
  BY <1>6, SameOnce, SameOrdered DEF GivenOK, vars
<1>11. SettledOK'
  BY <1>5, <1>6, TaskParts, LinkConnection DEF SettledOK, SameWorkers, SameTasks, vars
<1>12. PICK t0 \in Tasks, k0 \in Links, n0 \in Numbers :
         /\ t0 = <<c[1], a[2]>> /\ k0 = c[2] /\ n0 = a[3] /\ a = Att(t0, k0, n0) /\ c = <<t0[1], k0>>
  <2>1. <<c[1], a[2]>> \in Tasks /\ c[2] \in Links /\ a[3] \in Numbers
    BY <1>1, AttemptParts, ConnectionParts DEF Tasks
  <2>2. a = Att(<<c[1], a[2]>>, c[2], a[3]) /\ c = <<<<c[1], a[2]>>[1], c[2]>>
    BY <1>1, AttemptParts, ConnectionParts DEF Att
  <2> QED
    BY <2>1, <2>2
<1>13. ASSUME result[a] = "TransferConflict"
       PROVE  /\ Answered(t0)' /\ ~Answered(t0)
              /\ state[t0] # "Conflict" /\ ~overwrite[t0]
              /\ \A k \in Links, i \in Nat : ~Conflicts(t0, k, i)
  <2>1. confirmed[a] = FALSE
    BY <1>13 DEF AttemptsOK, ChannelsOK, SystemTypeOK
  <2>2. Reported(a)'
    <3>1. phase'[a] = "Clearing" /\ result'[a] = result[a] /\ confirmed'[a] = confirmed[a]
      BY <1>3, <1>7 DEF Goes, ChannelsOK, SystemTypeOK
    <3> QED
      BY <1>13, <2>1, <3>1 DEF Reported
  <2>3. Answered(t0)'
    BY <1>12, <2>2 DEF Answered, Reported, Att
  <2>4. ~Answered(t0)
    <3> SUFFICES ASSUME NEW l \in Links, NEW m \in Numbers, Reported(Att(t0, l, m)) PROVE FALSE
      BY DEF Answered
    <3>1. InTask(t0, FALSE, k0, n0)
      BY <1>2, <1>12, <2>1 DEF InTask
    <3>2. confirmed[Att(t0, l, m)] = FALSE /\ phase[Att(t0, l, m)] # "Unborn"
      BY TaskAttempt DEF Reported, ChannelsOK, SystemTypeOK
    <3>3. InTask(t0, FALSE, l, m)
      BY <3>2 DEF InTask
    <3>4. l = k0 /\ m = n0
      BY <3>1, <3>3 DEF OnceOK, Once
    <3> QED
      BY <1>2, <1>12, <3>4 DEF Reported
  <2> QED
    BY <2>3, <2>4 DEF ConflictOK
<1>14. \A t \in Tasks, k \in Links, i \in Nat : Conflicts(t, k, i)' =>
         \/ Conflicts(t, k, i)
         \/ t = t0 /\ k = k0 /\ i = Len(events[c]) + 1 /\ result[a] = "TransferConflict"
  <2> TAKE t \in Tasks, k \in Links, i \in Nat
  <2> SUFFICES ASSUME Conflicts(t, k, i)', ~Conflicts(t, k, i)
               PROVE  t = t0 /\ k = k0 /\ i = Len(events[c]) + 1 /\ result[a] = "TransferConflict"
    OBVIOUS
  <2>1. e \in Events /\ Sent(c, e)
    BY <1>4 DEF Events, Files!SendEvent, Sent
  <2>2. e.id = a[2] /\ e.kind = result[a]
    BY <1>4
  <2>3. /\ <<t[1], k>> = c /\ i = Len(events[c]) + 1
        /\ e = [kind |-> "TransferConflict", id |-> t[2]]
    BY <1>1, <2>1, SentConflicts
  <2>4. t[2] = a[2] /\ result[a] = "TransferConflict"
    BY <2>2, <2>3
  <2>5. t = <<t[1], t[2]>> /\ c[1] = t[1] /\ c[2] = k
    BY <2>3, TaskParts
  <2> QED
    BY <1>12, <2>3, <2>4, <2>5
<1>15. ConflictOK'
  <2> SUFFICES ASSUME NEW t \in Tasks
       PROVE /\ state[t] = "Conflict" => ~overwrite[t]
             /\ state[t] = "Conflict" \/ overwrite[t] => Answered(t)'
             /\ \A k \in Links, i \in Nat : Conflicts(t, k, i)' =>
                  /\ Answered(t)'
                  /\ state[t] # "Conflict" /\ ~overwrite[t]
                  /\ \A l \in Links, j \in Nat : Conflicts(t, l, j)' => k = l /\ i = j
    BY DEF ConflictOK, vars
  <2>1. CASE t = t0 /\ result[a] = "TransferConflict"
    BY <1>13, <1>14, <2>1
  <2>2. CASE ~(t = t0 /\ result[a] = "TransferConflict")
    BY <1>6, <1>14, <2>2 DEF ConflictOK
  <2> QED
    BY <2>1, <2>2
<1>16. RunningIsCarried'
  <2> SUFFICES ASSUME NEW t \in Tasks, state[t] = "Running"
               PROVE  \E k \in Links : Carried(<<t[1], k>>, t[2])'
    BY DEF RunningIsCarried, Links, vars
  <2>1. PICK k \in Links : Carried(<<t[1], k>>, t[2])
    BY DEF RunningIsCarried, Links
  <2>2. PICK d \in Connections : d = <<t[1], k>>
    BY TaskParts, LinkConnection
  <2>3. CASE d = c /\ t[2] = a[2]
    <3>1. HasTransferEvent(c, a[2])'
      BY <1>5
    <3>2. HasTransferEvent(<<t[1], k>>, t[2])'
      BY <2>2, <2>3, <3>1 DEF HasTransferEvent
    <3>3. Carried(<<t[1], k>>, t[2])'
      BY <3>2 DEF Carried
    <3> QED
      BY <3>3
  <2>4. CASE ~(d = c /\ t[2] = a[2])
    <3>1. \A n \in 1..MaxAttempts : phase'[<<d, t[2], n>>] = phase[<<d, t[2], n>>]
      <4> TAKE n \in 1..MaxAttempts
      <4>1. <<d, t[2], n>> \in Files!Attempts /\ <<d, t[2], n>> # a
        BY <2>4, TaskParts DEF Files!Attempts
      <4> QED
        BY <1>3, <4>1 DEF Goes, ChannelsOK, SystemTypeOK
    <3>2. /\ HasTransferCommand(commands[d], t[2])' <=> HasTransferCommand(commands[d], t[2])
          /\ HasTransferCommand(fileCommands[d], t[2])' <=> HasTransferCommand(fileCommands[d], t[2])
      BY <1>7 DEF HasTransferCommand, vars
    <3>3. HasTransferEvent(d, t[2]) => HasTransferEvent(d, t[2])'
      BY <1>5, TaskParts
    <3>4. EndAnnounced(d)' <=> EndAnnounced(d)
      BY <1>5
    <3>5. Carried(d, t[2])
      BY <2>1, <2>2
    <3>6. Carried(d, t[2])'
      BY <1>7, <3>1, <3>2, <3>3, <3>4, <3>5 DEF Carried
    <3>7. Carried(<<t[1], k>>, t[2])'
      BY <2>2, <3>6 DEF Carried, HasTransferCommand, HasTransferEvent, EndAnnounced, HandleDropped
    <3> QED
      BY <3>7
  <2> QED
    BY <2>3, <2>4
<1> QED
  BY <1>5, <1>6, <1>8, <1>9, <1>10, <1>11, <1>15, <1>16

LEMMA AttemptKeeps ==
  ASSUME SystemIInv, IInv', NEW a \in Files!Attempts, TaskStep(a)
  PROVE  SystemIInv'
<1> USE DEF Files!Conclude, Files!Move, workerVars, Files!workerVars
<1>0. /\ phase \in [Files!Attempts -> Files!AttemptPhases]
      /\ result \in [Files!Attempts -> Files!Results \union {Files!NoResult}]
      /\ cancellations \in [Connections -> [TransferIds -> 0..MaxAttempts]]
  BY DEF SystemIInv, ChannelsOK, SystemTypeOK
<1>1. ASSUME NEW r \in Files!Results, phase[a] \in Files!WorkingPhases,
             r = "TransferConflict" => ~confirmed[a],
             Files!Conclude(a, r), UNCHANGED <<vars, conn>>
      PROVE  SystemIInv'
  <2>1. Goes(a, "Reporting", r)
    BY <1>0, <1>1 DEF Goes
  <2> QED
    BY <1>1, <2>1, SilentKeeps DEF Files!WorkingPhases
<1>2. CASE Files!FindConflict(a) /\ UNCHANGED <<vars, conn>>
  BY <1>1, <1>2 DEF Files!FindConflict, Files!WorkingPhases, Files!Results
<1>3. CASE Files!ObserveCancellation(a) /\ UNCHANGED <<vars, conn>>
  BY <1>1, <1>3 DEF Files!ObserveCancellation, Files!WorkingPhases, Files!Results
<1>4. CASE Files!Install(a) /\ UNCHANGED <<vars, conn>>
  BY <1>1, <1>4 DEF Files!Install, Files!WorkingPhases, Files!Results
<1>5. CASE Files!FailAttempt(a) /\ UNCHANGED <<vars, conn>>
  BY <1>1, <1>5 DEF Files!FailAttempt, Files!WorkingPhases, Files!Results
<1>6. result = [result EXCEPT ![a] = result[a]]
  BY <1>0
<1>7. CASE Files!BeginCopy(a) /\ UNCHANGED <<vars, conn>>
  <2>1. Goes(a, "Copying", result[a])
    BY <1>0, <1>6, <1>7 DEF Goes, Files!BeginCopy, Files!WorkingPhases
  <2> QED
    BY <1>7, <2>1, SilentKeeps DEF Files!BeginCopy
<1>8. CASE Files!FinishCopy(a) /\ UNCHANGED <<vars, conn>>
  <2>1. Goes(a, "Installing", result[a])
    BY <1>0, <1>6, <1>8 DEF Goes, Files!FinishCopy, Files!WorkingPhases
  <2> QED
    BY <1>8, <2>1, SilentKeeps DEF Files!FinishCopy
<1>9. CASE Files!ClearCancellation(a) /\ UNCHANGED <<vars, conn>>
  <2>1. cancellations' \in [Connections -> [TransferIds -> 0..MaxAttempts]]
    <3>1. Files!NoAttempt \in 0..MaxAttempts
      BY AttemptsAssumption DEF Files!NoAttempt
    <3> QED
      BY <1>0, <1>9, <3>1 DEF Files!ClearCancellation
  <2>2. Goes(a, "Done", result[a])
    BY <1>6, <1>9, <2>1 DEF Goes, Files!ClearCancellation
  <2> QED
    BY <1>9, <2>2, SilentKeeps DEF Files!ClearCancellation
<1>10. CASE Files!Report(a) /\ UNCHANGED <<vars, conn>>
  BY <1>10, ReportKeeps
<1> QED
  BY <1>2, <1>3, <1>4, <1>5, <1>7, <1>8, <1>9, <1>10 DEF TaskStep, Files!AttemptStep

-----------------------------------------------------------------------------
(* The event pump.                                                         *)

\* Event e of connection c reaches the application.
Hears(c, e) ==
  /\ UNCHANGED <<conn, workerVars, attemptVars, commands, generation, overwrite, nextId>>
  /\ events[c] # <<>> /\ e = Head(events[c])
  /\ events' = [events EXCEPT ![c] = Tail(@)]
  /\ \A s \in Sessions : handle'[s] \in {handle[s], NoHandle}
  /\ \A t \in Tasks : state'[t] \in Quits \union {"Conflict"} \/ state'[t] = state[t]
  /\ \A t \in Tasks : state[t] \in Quits => state'[t] \in Quits

\* What remains in the channels was there, one place further back in that of c.
LEMMA HeardEvents ==
  ASSUME ChannelsOK, NEW c \in Connections, NEW e, Hears(c, e)
  PROVE  /\ e \in Events /\ 1 \in DOMAIN events[c] /\ events[c][1] = e
         /\ events' \in [Connections -> Seq(Events)]
         /\ \A d \in Connections : Len(events'[d]) <= EventCapacity
         /\ \A d \in Connections : d # c => events'[d] = events[d]
         /\ \A i \in DOMAIN events'[c] :
              /\ i \in Nat /\ i # 0 /\ i + 1 \in DOMAIN events[c]
              /\ events'[c][i] = events[c][i + 1]
         /\ \A i \in DOMAIN events[c] :
              i = 1 \/ (i - 1 \in DOMAIN events'[c] /\ events'[c][i - 1] = events[c][i])
<1>1. events \in [Connections -> Seq(Events)] /\ \A d \in Connections : Len(events[d]) <= EventCapacity
  BY DEF ChannelsOK, SystemTypeOK
<1>2. events[c] \in Seq(Events) /\ events[c] # <<>>
  BY <1>1 DEF Hears
<1>3. /\ Head(events[c]) \in Events /\ Head(events[c]) = events[c][1] /\ 1 \in DOMAIN events[c]
      /\ Tail(events[c]) \in Seq(Events)
      /\ Len(events[c]) \in Nat \ {0} /\ Len(Tail(events[c])) = Len(events[c]) - 1
      /\ DOMAIN Tail(events[c]) = 1..(Len(events[c]) - 1)
      /\ \A i \in DOMAIN Tail(events[c]) :
           i + 1 \in DOMAIN events[c] /\ Tail(events[c])[i] = events[c][i + 1]
      /\ \A i \in DOMAIN events[c] :
           i = 1 \/ (i - 1 \in DOMAIN Tail(events[c]) /\ Tail(events[c])[i - 1] = events[c][i])
  BY <1>2, Received
<1>4. /\ events'[c] = Tail(events[c]) /\ events' \in [Connections -> Seq(Events)]
      /\ \A d \in Connections : d # c => events'[d] = events[d]
  BY <1>1, <1>3 DEF Hears
<1>5. \A d \in Connections : Len(events'[d]) <= EventCapacity
  <2>1. Len(events'[c]) <= EventCapacity
    BY <1>1, <1>3, <1>4, CapacityAssumption
  <2> QED
    BY <1>1, <1>4, <2>1
<1>6. \A i \in DOMAIN events'[c] : i \in Nat /\ i # 0
  BY <1>3, <1>4
<1> QED
  BY <1>3, <1>4, <1>5, <1>6 DEF Hears

LEMMA HeardTells ==
  ASSUME ChannelsOK, OrderOK, NEW c \in Connections, NEW e, Hears(c, e)
  PROVE  /\ OrderOK'
         /\ \A d \in Connections :
              /\ EndingPending(d)' => EndingPending(d)
              /\ EndingPending(d) => EndingPending(d)' \/ (d = c /\ e.kind \in EndingEvents)
              /\ \A id : HasTransferEvent(d, id) =>
                   HasTransferEvent(d, id)' \/ (d = c /\ e.kind \in TransferEvents /\ e.id = id)
         /\ e.kind = "Connected" =>
              conn[c] \in {"Running", "Closing"} \/ EndingPending(c)'
<1>1. /\ e \in Events /\ 1 \in DOMAIN events[c] /\ events[c][1] = e
      /\ \A d \in Connections : d # c => events'[d] = events[d]
      /\ \A i \in DOMAIN events'[c] :
           /\ i \in Nat /\ i # 0 /\ i + 1 \in DOMAIN events[c]
           /\ events'[c][i] = events[c][i + 1]
      /\ \A i \in DOMAIN events[c] :
           i = 1 \/ (i - 1 \in DOMAIN events'[c] /\ events'[c][i - 1] = events[c][i])
  BY HeardEvents
<1>2. conn' = conn
  BY DEF Hears
<1>3. \A i \in DOMAIN events[c] : i \in Int
  BY <1>1 DEF ChannelsOK
<1>4. OrderOK'
  <2> SUFFICES ASSUME NEW d \in Connections, NEW i \in DOMAIN events'[d], events'[d][i].kind = "Connected"
               PROVE  \/ conn[d] \in {"Running", "Closing"}
                      \/ \E j \in DOMAIN events'[d] : i < j /\ events'[d][j].kind \in EndingEvents
    BY <1>2 DEF OrderOK
  <2>1. CASE d # c
    BY <1>1, <2>1 DEF OrderOK
  <2>2. CASE d = c
    <3>1. i \in Nat /\ i # 0 /\ i + 1 \in DOMAIN events[c] /\ events[c][i + 1].kind = "Connected"
      BY <1>1, <2>2
    <3>2. \/ conn[c] \in {"Running", "Closing"}
          \/ \E j \in DOMAIN events[c] : i + 1 < j /\ events[c][j].kind \in EndingEvents
      BY <3>1 DEF OrderOK
    <3>3. ASSUME NEW j \in DOMAIN events[c], i + 1 < j, events[c][j].kind \in EndingEvents
          PROVE  \E m \in DOMAIN events'[c] : i < m /\ events'[c][m].kind \in EndingEvents
      <4>1. j # 1 /\ i < j - 1
        BY <1>3, <3>1, <3>3
      <4>2. j - 1 \in DOMAIN events'[c] /\ events'[c][j - 1] = events[c][j]
        BY <1>1, <4>1
      <4> QED
        BY <3>3, <4>1, <4>2
    <3> QED
      BY <2>2, <3>2, <3>3
  <2> QED
    BY <2>1, <2>2
<1>5. ASSUME NEW d \in Connections
      PROVE  /\ EndingPending(d)' => EndingPending(d)
             /\ EndingPending(d) => EndingPending(d)' \/ (d = c /\ e.kind \in EndingEvents)
             /\ \A id : HasTransferEvent(d, id) =>
                   HasTransferEvent(d, id)' \/ (d = c /\ e.kind \in TransferEvents /\ e.id = id)
  <2>1. CASE d # c
    BY <1>1, <2>1 DEF EndingPending, HasTransferEvent
  <2>2. CASE d = c
    <3>1. EndingPending(c)' => EndingPending(c)
      BY <1>1 DEF EndingPending
    <3>2. EndingPending(c) => EndingPending(c)' \/ e.kind \in EndingEvents
      BY <1>1 DEF EndingPending
    <3>3. ASSUME NEW id, HasTransferEvent(c, id)
          PROVE  HasTransferEvent(c, id)' \/ (e.kind \in TransferEvents /\ e.id = id)
      BY <1>1, <3>3 DEF HasTransferEvent
    <3> QED
      BY <2>2, <3>1, <3>2, <3>3
  <2> QED
    BY <2>1, <2>2
<1>6. e.kind = "Connected" => conn[c] \in {"Running", "Closing"} \/ EndingPending(c)'
  <2> SUFFICES ASSUME e.kind = "Connected", conn[c] \notin {"Running", "Closing"}
               PROVE  EndingPending(c)'
    OBVIOUS
  <2>1. PICK j \in DOMAIN events[c] : 1 < j /\ events[c][j].kind \in EndingEvents
    BY <1>1 DEF OrderOK
  <2>2. j # 1
    BY <1>3, <2>1
  <2> QED
    BY <1>1, <2>1, <2>2 DEF EndingPending
<1> QED
  BY <1>4, <1>5, <1>6

LEMMA HeardConflicts ==
  ASSUME ChannelsOK, NEW c \in Connections, NEW e, Hears(c, e),
         NEW t \in Tasks, NEW k \in Links, NEW i \in Nat, Conflicts(t, k, i)'
  PROVE  IF <<t[1], k>> = c THEN i # 0 /\ i + 1 \in Nat /\ Conflicts(t, k, i + 1)
                            ELSE Conflicts(t, k, i)
<1>1. <<t[1], k>> \in Connections
  BY TaskParts, LinkConnection
<1>2. i \in DOMAIN events'[<<t[1], k>>] /\ events'[<<t[1], k>>][i] = [kind |-> "TransferConflict", id |-> t[2]]
  BY DEF Conflicts
<1>3. /\ \A d \in Connections : d # c => events'[d] = events[d]
      /\ \A j \in DOMAIN events'[c] :
           /\ j \in Nat /\ j # 0 /\ j + 1 \in DOMAIN events[c]
           /\ events'[c][j] = events[c][j + 1]
  BY HeardEvents
<1>4. CASE <<t[1], k>> = c
  <2>1. i # 0 /\ i + 1 \in DOMAIN events[c] /\ events[c][i + 1] = [kind |-> "TransferConflict", id |-> t[2]]
    BY <1>2, <1>3, <1>4
  <2>2. Conflicts(t, k, i + 1)
    BY <1>4, <2>1 DEF Conflicts
  <2> QED
    BY <1>4, <2>1, <2>2
<1>5. CASE <<t[1], k>> # c
  <2>1. events'[<<t[1], k>>] = events[<<t[1], k>>]
    BY <1>1, <1>3, <1>5
  <2>2. Conflicts(t, k, i)
    BY <1>2, <2>1 DEF Conflicts
  <2> QED
    BY <1>5, <2>2
<1> QED
  BY <1>4, <1>5

\* What every event leaves as it was.
LEMMA HeardKeeps ==
  ASSUME SystemIInv, IInv', NEW c \in Connections, NEW e, Hears(c, e)
  PROVE  /\ ChannelsOK' /\ LifeOK' /\ OrderOK' /\ OnceOK' /\ GivenOK' /\ AttemptsOK'
         /\ SameCommands /\ SameWorkers /\ SameTasks
         /\ \A t \in Tasks : Answered(t)' <=> Answered(t)
<1> USE DEF SystemIInv
<1>1. /\ UNCHANGED <<conn, worker, fileCommands, fileClosed, cancellations, phase, confirmed, result,
                     flag, commands, generation, overwrite, nextId>>
      /\ \A s \in Sessions : handle'[s] \in {handle[s], NoHandle}
      /\ events[c] # <<>>
  BY DEF Hears, workerVars, attemptVars
<1>2. /\ events' \in [Connections -> Seq(Events)]
      /\ \A d \in Connections : Len(events'[d]) <= EventCapacity
      /\ \A d \in Connections : d # c => events'[d] = events[d]
  BY HeardEvents
<1>3. ChannelsOK'
  BY <1>1, <1>2 DEF ChannelsOK, SystemTypeOK, IInv
<1>4. LifeOK'
  <2>1. \A s \in Sessions : handle'[s] <= generation[s]
    <3> TAKE s \in Sessions
    <3>1. generation[s] \in Nat /\ handle[s] <= generation[s]
      BY ConnectionsAssumption DEF LifeOK, IInv, TypeOK
    <3>2. handle'[s] = handle[s] \/ handle'[s] = 0
      BY <1>1 DEF NoHandle
    <3> QED
      BY <3>1, <3>2
  <2>2. conn[c] # "Unmade"
    BY <1>1 DEF LifeOK
  <2> QED
    BY <1>1, <1>2, <2>1, <2>2 DEF LifeOK
<1>5. OrderOK'
  BY HeardTells
<1>6. AttemptsOK'
  BY <1>1 DEF AttemptsOK
<1>7. SameCommands /\ SameWorkers /\ SameTasks
  BY <1>1 DEF SameCommands, SameWorkers, SameTasks, InCommands, InWorker, InTask, TransferAt
<1>8. OnceOK'
  BY <1>7, SameOnce
<1>9. GivenOK'
  <2>1. \A t \in Tasks : state'[t] = "Queued" => state[t] = "Queued"
    BY DEF Hears, Quits
  <2> QED
    BY <1>1, <1>7, <2>1, SameOrdered DEF GivenOK
<1>10. \A t \in Tasks : Answered(t)' <=> Answered(t)
  BY <1>1 DEF Answered, Reported
<1> QED
  BY <1>3, <1>4, <1>5, <1>6, <1>7, <1>8, <1>9, <1>10

\* Conflicts that are still to be heard of are those of before.
LEMMA HeardConflictOK ==
  ASSUME SystemIInv, NEW c \in Connections, NEW e, Hears(c, e),
         \A t \in Tasks : Answered(t)' <=> Answered(t),
         \A t \in Tasks : state'[t] = "Conflict" =>
           \/ state[t] = "Conflict"
           \/ t[1] = c[1] /\ e = [kind |-> "TransferConflict", id |-> t[2]]
  PROVE  ConflictOK'
<1> USE DEF SystemIInv
<1> SUFFICES ASSUME NEW t \in Tasks
     PROVE /\ state'[t] = "Conflict" => ~overwrite[t]
           /\ state'[t] = "Conflict" \/ overwrite[t] => Answered(t)
           /\ \A k \in Links, i \in Nat : Conflicts(t, k, i)' =>
                /\ Answered(t)
                /\ state'[t] # "Conflict" /\ ~overwrite[t]
                /\ \A l \in Links, j \in Nat : Conflicts(t, l, j)' => k = l /\ i = j
  BY DEF ConflictOK, Hears
<1>1. \A k \in Links, i \in Nat : Conflicts(t, k, i)' =>
        \E m \in Nat : Conflicts(t, k, m) /\ m = IF <<t[1], k>> = c THEN i + 1 ELSE i
  <2> TAKE k \in Links, i \in Nat
  <2> SUFFICES ASSUME Conflicts(t, k, i)'
               PROVE  \E m \in Nat : Conflicts(t, k, m) /\ m = IF <<t[1], k>> = c THEN i + 1 ELSE i
    OBVIOUS
  <2>1. IF <<t[1], k>> = c THEN i # 0 /\ i + 1 \in Nat /\ Conflicts(t, k, i + 1) ELSE Conflicts(t, k, i)
    BY HeardConflicts
  <2> QED
    BY <2>1
<1>2. ASSUME t[1] = c[1], e = [kind |-> "TransferConflict", id |-> t[2]]
      PROVE  /\ Answered(t) /\ ~overwrite[t]
             /\ \A k \in Links, i \in Nat : ~Conflicts(t, k, i)'
  <2>1. c[2] \in Links /\ c = <<t[1], c[2]>>
    BY <1>2, ConnectionParts
  <2>2. Conflicts(t, c[2], 1)
    <3>1. 1 \in DOMAIN events[c] /\ events[c][1] = e
      BY HeardEvents
    <3>2. events[<<t[1], c[2]>>] = events[c]
      BY <2>1
    <3> QED
      BY <1>2, <3>1, <3>2 DEF Conflicts
  <2>3. /\ Answered(t) /\ ~overwrite[t]
        /\ \A l \in Links, j \in Nat : Conflicts(t, l, j) => c[2] = l /\ 1 = j
    BY <2>1, <2>2 DEF ConflictOK
  <2>4. ASSUME NEW k \in Links, NEW i \in Nat, Conflicts(t, k, i)' PROVE FALSE
    <3>1. IF <<t[1], k>> = c THEN i # 0 /\ i + 1 \in Nat /\ Conflicts(t, k, i + 1) ELSE Conflicts(t, k, i)
      BY <2>4, HeardConflicts
    <3>2. CASE <<t[1], k>> = c
      <4>1. i + 1 = 1 /\ i # 0
        BY <2>3, <3>1, <3>2
      <4> QED
        BY <4>1
    <3>3. CASE <<t[1], k>> # c
      BY <2>1, <2>3, <3>1, <3>3
    <3> QED
      BY <3>2, <3>3
  <2> QED
    BY <2>3, <2>4
<1>3. /\ state[t] = "Conflict" => ~overwrite[t]
      /\ state[t] = "Conflict" \/ overwrite[t] => Answered(t)
      /\ \A k \in Links, i \in Nat : Conflicts(t, k, i) =>
           /\ Answered(t)
           /\ state[t] # "Conflict" /\ ~overwrite[t]
           /\ \A l \in Links, j \in Nat : Conflicts(t, l, j) => k = l /\ i = j
  BY DEF ConflictOK
<1>4. ASSUME NEW k \in Links, NEW i \in Nat, Conflicts(t, k, i)'
      PROVE  /\ Answered(t)
             /\ state'[t] # "Conflict" /\ ~overwrite[t]
             /\ \A l \in Links, j \in Nat : Conflicts(t, l, j)' => k = l /\ i = j
  <2>1. PICK m \in Nat : Conflicts(t, k, m) /\ m = IF <<t[1], k>> = c THEN i + 1 ELSE i
    BY <1>1, <1>4
  <2>2. Answered(t) /\ state[t] # "Conflict" /\ ~overwrite[t]
    BY <1>3, <2>1
  <2>3. state'[t] # "Conflict"
    BY <1>2, <1>4, <2>2
  <2>4. ASSUME NEW l \in Links, NEW j \in Nat, Conflicts(t, l, j)' PROVE k = l /\ i = j
    <3>1. PICK p \in Nat : Conflicts(t, l, p) /\ p = IF <<t[1], l>> = c THEN j + 1 ELSE j
      BY <1>1, <2>4
    <3>2. k = l /\ m = p
      BY <1>3, <2>1, <3>1
    <3> QED
      BY <2>1, <3>1, <3>2
  <2> QED
    BY <2>2, <2>3, <2>4
<1> QED
  BY <1>2, <1>3, <1>4

\* An event that ends nothing.
LEMMA HeardOn ==
  ASSUME SystemIInv, IInv', NEW c \in Connections, NEW e, Hears(c, e),
         e.kind \notin EndingEvents, handle' = handle,
         \A s \in Sessions : link'[s] = "Connected" =>
           link[s] = "Connected" \/ (s = c[1] /\ e.kind = "Connected"),
         \A t \in Tasks : state'[t] = "Conflict" =>
           \/ state[t] = "Conflict"
           \/ t[1] = c[1] /\ e = [kind |-> "TransferConflict", id |-> t[2]],
         \A t \in Tasks : state'[t] = "Running" =>
           /\ state[t] = "Running"
           /\ ~(t[1] = c[1] /\ e.kind \in TransferEvents /\ e.id = t[2])
  PROVE  SystemIInv'
<1> USE DEF SystemIInv
<1>1. /\ ChannelsOK' /\ LifeOK' /\ OrderOK' /\ OnceOK' /\ GivenOK' /\ AttemptsOK'
      /\ SameCommands /\ SameWorkers /\ SameTasks
      /\ \A t \in Tasks : Answered(t)' <=> Answered(t)
  BY HeardKeeps
<1>2. ConflictOK'
  BY <1>1, HeardConflictOK
<1>3. UNCHANGED <<conn, worker, fileCommands, phase, commands, handle>>
  BY DEF Hears, workerVars, attemptVars
<1>4. \A d \in Connections :
        /\ EndingPending(d)' <=> EndingPending(d)
        /\ \A id : HasTransferEvent(d, id) =>
             HasTransferEvent(d, id)' \/ (d = c /\ e.kind \in TransferEvents /\ e.id = id)
  BY HeardTells
<1>5. \A d \in Connections : EndAnnounced(d)' <=> EndAnnounced(d)
  <2>1. \A d \in Connections : EndAnnounced(d) <=>
          \/ conn[d] = "Closing"
          \/ conn[d] \in Establishing \union {"Running"} /\ HandleDropped(d)
          \/ EndingPending(d)
    BY DEF EndAnnounced, EndingPending
  <2>2. \A d \in Connections : EndAnnounced(d)' <=>
          \/ conn'[d] = "Closing"
          \/ conn'[d] \in Establishing \union {"Running"} /\ HandleDropped(d)'
          \/ EndingPending(d)'
    BY DEF EndAnnounced, EndingPending
  <2> QED
    BY <1>3, <1>4, <2>1, <2>2 DEF HandleDropped
<1>6. \A d \in Connections : Forgotten(d)' <=> Forgotten(d)
  BY <1>3, <1>4 DEF Forgotten
<1>7. \A s \in Sessions : Doomed(s)' <=> Doomed(s)
  BY <1>5, LinkConnection DEF Doomed
<1>8. HandleOK'
  <2> SUFFICES ASSUME NEW s \in Sessions, NEW h, h = handle[s], h # NoHandle
               PROVE  conn[<<s, h>>] \in Alive \union {"Closing"} \/ EndingPending(<<s, h>>)'
    BY <1>3 DEF HandleOK, EndingPending
  <2>1. <<s, h>> \in Connections
    BY LinkConnection DEF IInv, TypeOK, Links, NoHandle
  <2> QED
    BY <1>4, <2>1 DEF HandleOK
<1>9. LinkOK'
  <2> SUFFICES ASSUME NEW s \in Sessions, NEW h, h = handle[s], link'[s] = "Connected", h # NoHandle
               PROVE  conn[<<s, h>>] = "Running" \/ Doomed(s)
    BY <1>3, <1>7 DEF LinkOK
  <2>1. CASE link[s] = "Connected"
    BY <2>1 DEF LinkOK
  <2>2. CASE s = c[1] /\ e.kind = "Connected"
    <3>1. conn[c] \in {"Running", "Closing"} \/ EndingPending(c)
      BY <1>4, <2>2, HeardTells
    <3>2. CASE c[2] = h /\ conn[c] = "Running"
      BY <2>2, <3>2, ConnectionParts
    <3>3. CASE ~(c[2] = h /\ conn[c] = "Running")
      <4>1. EndAnnounced(c)
        BY <2>2, <3>1, <3>3 DEF EndAnnounced, EndingPending, HandleDropped
      <4> QED
        BY <2>2, <4>1, ConnectionParts DEF Doomed
    <3> QED
      BY <3>2, <3>3
  <2> QED
    BY <2>1, <2>2
<1>10. SettledOK'
  BY <1>1, <1>6, TaskParts, LinkConnection DEF SettledOK, SameWorkers, SameTasks, Hears
<1>11. IgnoredOK'
  BY <1>1, <1>3, <1>7, TaskParts DEF IgnoredOK, SameCommands
<1>12. RunningIsCarried'
  <2> SUFFICES ASSUME NEW t \in Tasks, state'[t] = "Running"
               PROVE  \E k \in Links : Carried(<<t[1], k>>, t[2])'
    BY DEF RunningIsCarried, Links
  <2>1. state[t] = "Running" /\ ~(t[1] = c[1] /\ e.kind \in TransferEvents /\ e.id = t[2])
    OBVIOUS
  <2>2. PICK k \in Links : Carried(<<t[1], k>>, t[2])
    BY <2>1 DEF RunningIsCarried, Links
  <2>3. PICK d \in Connections : d = <<t[1], k>>
    BY TaskParts, LinkConnection
  <2>4. HasTransferEvent(d, t[2]) => HasTransferEvent(d, t[2])'
    <3>1. ~(d = c /\ e.kind \in TransferEvents /\ e.id = t[2])
      BY <2>1, <2>3
    <3> QED
      BY <1>4, <3>1
  <2>5. /\ HasTransferCommand(commands[d], t[2])' <=> HasTransferCommand(commands[d], t[2])
        /\ HasTransferCommand(fileCommands[d], t[2])' <=> HasTransferCommand(fileCommands[d], t[2])
    BY <1>3 DEF HasTransferCommand
  <2>6. Carried(d, t[2])
    BY <2>2, <2>3
  <2>7. Carried(d, t[2])'
    BY <1>3, <1>5, <2>4, <2>5, <2>6 DEF Carried
  <2>8. Carried(<<t[1], k>>, t[2])'
    BY <2>3, <2>7 DEF Carried, HasTransferCommand, HasTransferEvent, EndAnnounced, HandleDropped
  <2> QED
    BY <2>8
<1> QED
  BY <1>1, <1>2, <1>8, <1>9, <1>10, <1>11, <1>12

\* The end of a connection, or any event of a session that is gone: the session
\* has no handle any more and all its tasks are settled.
LEMMA HeardOver ==
  ASSUME SystemIInv, IInv', NEW c \in Connections, NEW e, Hears(c, e),
         handle'[c[1]] = NoHandle,
         \A s \in Sessions : s # c[1] => handle'[s] = handle[s] /\ link'[s] = link[s],
         \A t \in Tasks : IF t[1] = c[1] THEN state'[t] \in Quits ELSE state'[t] = state[t]
  PROVE  SystemIInv'
<1> USE DEF SystemIInv
<1>1. /\ ChannelsOK' /\ LifeOK' /\ OrderOK' /\ OnceOK' /\ GivenOK' /\ AttemptsOK'
      /\ SameCommands /\ SameWorkers /\ SameTasks
      /\ \A t \in Tasks : Answered(t)' <=> Answered(t)
  BY HeardKeeps
<1>2. ConflictOK'
  <2>1. \A t \in Tasks : state'[t] = "Conflict" => state[t] = "Conflict"
    BY DEF Quits
  <2> QED
    BY <1>1, <2>1, HeardConflictOK
<1>3. UNCHANGED <<conn, worker, fileCommands, phase, commands>>
  BY DEF Hears, workerVars, attemptVars
<1>4. \A d \in Connections : d[1] # c[1] => events'[d] = events[d]
  BY HeardEvents
<1>5. \A s \in Sessions, k \in Links : s # c[1] =>
        /\ EndAnnounced(<<s, k>>)' <=> EndAnnounced(<<s, k>>)
        /\ EndingPending(<<s, k>>)' <=> EndingPending(<<s, k>>)
        /\ Forgotten(<<s, k>>)' <=> Forgotten(<<s, k>>)
        /\ \A id : HasTransferEvent(<<s, k>>, id)' <=> HasTransferEvent(<<s, k>>, id)
  <2> TAKE s \in Sessions, k \in Links
  <2> SUFFICES ASSUME s # c[1]
               PROVE  /\ EndAnnounced(<<s, k>>)' <=> EndAnnounced(<<s, k>>)
                      /\ EndingPending(<<s, k>>)' <=> EndingPending(<<s, k>>)
                      /\ Forgotten(<<s, k>>)' <=> Forgotten(<<s, k>>)
                      /\ \A id : HasTransferEvent(<<s, k>>, id)' <=> HasTransferEvent(<<s, k>>, id)
    OBVIOUS
  <2>1. events'[<<s, k>>] = events[<<s, k>>] /\ handle'[s] = handle[s]
    BY <1>4, LinkConnection
  <2> QED
    BY <1>3, <2>1 DEF EndAnnounced, EndingPending, Forgotten, HandleDropped, HasTransferEvent
<1>6. \A s \in Sessions : s # c[1] => (Doomed(s)' <=> Doomed(s))
  BY <1>5 DEF Doomed
<1>7. HandleOK' /\ LinkOK'
  <2> SUFFICES ASSUME NEW s \in Sessions, NEW h, h = handle[s], handle'[s] # NoHandle
               PROVE  /\ s # c[1] /\ handle'[s] = h
                      /\ conn[<<s, h>>] \in Alive \union {"Closing"} \/ EndingPending(<<s, h>>)'
                      /\ link'[s] = "Connected" => conn[<<s, h>>] = "Running" \/ Doomed(s)'
    BY <1>3 DEF HandleOK, LinkOK, EndingPending
  <2>1. s # c[1] /\ handle'[s] = h /\ link'[s] = link[s]
    OBVIOUS
  <2>2. h \in Links /\ h # NoHandle
    BY <2>1 DEF IInv, TypeOK, Links, NoHandle
  <2> QED
    BY <1>5, <1>6, <2>1, <2>2 DEF HandleOK, LinkOK
<1>8. SettledOK'
  <2> SUFFICES ASSUME NEW t \in Tasks, NEW k \in Links, Forgotten(<<t[1], k>>)', NEW b \in BOOLEAN,
                      \/ \E i \in Nat : InWorker(t, b, k, i)
                      \/ \E n \in Numbers : InTask(t, b, k, n)
               PROVE  state'[t] \in Quits
    BY <1>1 DEF SettledOK, SameWorkers, SameTasks
  <2>1. CASE t[1] = c[1]
    BY <2>1
  <2>2. CASE t[1] # c[1]
    <3>1. Forgotten(<<t[1], k>>)
      BY <1>5, <2>2, TaskParts
    <3> QED
      BY <2>2, <3>1 DEF SettledOK
  <2> QED
    BY <2>1, <2>2
<1>9. \A t \in Tasks : state'[t] = "Running" => state[t] = "Running" /\ t[1] # c[1] /\ t[1] \in Sessions
  BY TaskParts DEF Quits
<1>10. IgnoredOK'
  BY <1>1, <1>3, <1>6, <1>9 DEF IgnoredOK, SameCommands
<1>11. RunningIsCarried'
  <2> SUFFICES ASSUME NEW t \in Tasks, state'[t] = "Running"
               PROVE  \E k \in Links : Carried(<<t[1], k>>, t[2])'
    BY DEF RunningIsCarried, Links
  <2>1. state[t] = "Running" /\ t[1] # c[1] /\ t[1] \in Sessions
    BY <1>9
  <2>2. PICK k \in Links : Carried(<<t[1], k>>, t[2])
    BY <2>1 DEF RunningIsCarried, Links
  <2>3. /\ HasTransferCommand(commands[<<t[1], k>>], t[2])' <=> HasTransferCommand(commands[<<t[1], k>>], t[2])
        /\ HasTransferCommand(fileCommands[<<t[1], k>>], t[2])' <=>
             HasTransferCommand(fileCommands[<<t[1], k>>], t[2])
    BY <1>3 DEF HasTransferCommand
  <2>4. /\ EndAnnounced(<<t[1], k>>)' <=> EndAnnounced(<<t[1], k>>)
        /\ HasTransferEvent(<<t[1], k>>, t[2])' <=> HasTransferEvent(<<t[1], k>>, t[2])
    BY <1>5, <2>1
  <2>5. Carried(<<t[1], k>>, t[2])'
    BY <1>3, <2>2, <2>3, <2>4 DEF Carried
  <2> QED
    BY <2>5
<1> QED
  BY <1>1, <1>2, <1>7, <1>8, <1>10, <1>11

LEMMA EventForm ==
  ASSUME NEW e \in Events, e.kind \in TransferEvents
  PROVE  e.id \in TransferIds /\ e = [kind |-> e.kind, id |-> e.id]
         /\ e.kind \notin EndingEvents \union StateEvents
BY DEF Events, TransferEvents, EndingEvents, StateEvents

\* Pump(c) hands over event e.
Pumps(c, e) ==
  /\ events[c] # <<>> /\ e = Head(events[c])
  /\ events' = [events EXCEPT ![c] = Tail(@)]
  /\ UNCHANGED <<conn, workerVars, attemptVars>>

\* What mark_* of a transfer event does to the tasks.
LEMMA MarkKeeps ==
  ASSUME SystemIInv, IInv', NEW c \in Connections, NEW e, e \in Events, e.kind \in TransferEvents,
         Pumps(c, e), NEW accepted, NEW to,
         "Running" \in accepted, accepted \subseteq UnfinishedStates,
         to = "Conflict" => accepted = {"Running"} /\ e.kind = "TransferConflict",
         to \in Quits \union {"Conflict"},
         HandleTransferEvent(<<c[1], e.id>>, accepted, to)
  PROVE  SystemIInv'
<1>1. c[1] \in Sessions /\ e.id \in TransferIds /\ <<c[1], e.id>> \in Tasks
  BY EventForm, ConnectionParts DEF Tasks
<1>2. UNCHANGED <<link, handle, generation, overwrite, nextId, commands>>
  BY DEF HandleTransferEvent, linkVars
<1>3. state \in [Tasks -> TransferStates]
  BY DEF SystemIInv, IInv, TypeOK
<1>4. \A t \in Tasks : state'[t] = IF t = <<c[1], e.id>> /\ state[t] \in accepted THEN to ELSE state[t]
  BY <1>1, <1>3 DEF HandleTransferEvent
<1>5. UnfinishedStates \intersect Quits = {}
  BY DEF UnfinishedStates, FinishedStates, Quits
<1>6. Hears(c, e)
  <2>1. \A t \in Tasks : state[t] \in Quits => state'[t] \in Quits
    BY <1>4, <1>5
  <2>2. \A t \in Tasks : state'[t] \in Quits \union {"Conflict"} \/ state'[t] = state[t]
    BY <1>4
  <2> QED
    BY <1>2, <2>1, <2>2 DEF Hears, Pumps
<1>7. e.kind \notin EndingEvents
  BY EventForm
<1>8. \A t \in Tasks : t = <<t[1], t[2]>>
  BY TaskParts
<1>9. ASSUME NEW t \in Tasks, state'[t] = "Conflict"
      PROVE  state[t] = "Conflict" \/ (t[1] = c[1] /\ e = [kind |-> "TransferConflict", id |-> t[2]])
  <2>1. CASE t = <<c[1], e.id>> /\ state[t] \in accepted
    <3>1. to = "Conflict"
      BY <1>4, <1>9, <2>1
    <3>2. t[1] = c[1] /\ t[2] = e.id
      BY <2>1
    <3> QED
      BY <3>1, <3>2, EventForm
  <2>2. CASE ~(t = <<c[1], e.id>> /\ state[t] \in accepted)
    BY <1>4, <1>9, <2>2
  <2> QED
    BY <2>1, <2>2
<1>10. ASSUME NEW t \in Tasks, state'[t] = "Running"
       PROVE  state[t] = "Running" /\ ~(t[1] = c[1] /\ e.kind \in TransferEvents /\ e.id = t[2])
  <2>1. to # "Running"
    BY DEF Quits
  <2>2. state[t] = "Running" /\ ~(t = <<c[1], e.id>> /\ state[t] \in accepted)
    BY <1>4, <1>10, <2>1
  <2> QED
    BY <1>8, <2>2
<1>11. handle' = handle
  BY <1>2
<1>12. \A s \in Sessions : link'[s] = "Connected" =>
         link[s] = "Connected" \/ (s = c[1] /\ e.kind = "Connected")
  BY <1>2
<1>13. \A t \in Tasks : state'[t] = "Conflict" =>
         \/ state[t] = "Conflict"
         \/ t[1] = c[1] /\ e = [kind |-> "TransferConflict", id |-> t[2]]
  BY <1>9
<1>14. \A t \in Tasks : state'[t] = "Running" =>
         /\ state[t] = "Running"
         /\ ~(t[1] = c[1] /\ e.kind \in TransferEvents /\ e.id = t[2])
  BY <1>10
<1> QED
  BY <1>6, <1>7, <1>11, <1>12, <1>13, <1>14, HeardOn

LEMMA PumpKeeps ==
  ASSUME SystemIInv, IInv', NEW c \in Connections, Pump(c)
  PROVE  SystemIInv'
<1>1. PICK e : e = Head(events[c])
  OBVIOUS
<1>2. PICK s : s = c[1]
  OBVIOUS
<1>3. events \in [Connections -> Seq(Events)] /\ events[c] # <<>>
  BY DEF SystemIInv, ChannelsOK, Pump
<1>4. e \in Events
  BY <1>1, <1>3
<1>5. s \in Sessions
  BY <1>2, ConnectionParts
<1>6. Handle(s, e)
  BY <1>1, <1>2 DEF Pump
<1>7. /\ UNCHANGED <<conn, workerVars, attemptVars>>
      /\ events' = [events EXCEPT ![c] = Tail(@)]
      /\ Pumps(c, e)
  BY <1>1 DEF Pump, Pumps
<1>8. state \in [Tasks -> TransferStates] /\ handle \in [Sessions -> 0..MaxConnections]
  BY DEF SystemIInv, IInv, TypeOK, NoHandle
<1>9. link \in [Sessions -> LinkStates]
  BY DEF SystemIInv, IInv, TypeOK
<1>10. CASE s \notin open /\ UNCHANGED vars
  <2>1. UNCHANGED <<link, handle, state, overwrite, nextId, generation, commands>>
    BY <1>10 DEF vars
  <2>2. handle[s] = NoHandle /\ \A t \in Tasks : t[1] = s => state[t] = "Absent"
    BY <1>5, <1>10 DEF SystemIInv, IInv, QueueConsistent
  <2>3. Hears(c, e)
    BY <1>1, <1>3, <1>7, <2>1 DEF Hears
  <2>4. handle'[c[1]] = NoHandle
    BY <1>2, <2>1, <2>2
  <2>5. \A r \in Sessions : r # c[1] => handle'[r] = handle[r] /\ link'[r] = link[r]
    BY <2>1
  <2>6. \A t \in Tasks : IF t[1] = c[1] THEN state'[t] \in Quits ELSE state'[t] = state[t]
    BY <1>2, <2>1, <2>2 DEF Quits
  <2> QED
    BY <2>3, <2>4, <2>5, <2>6, HeardOver
<1>11. CASE e.kind \in StateEvents /\ HandleStateChanged(s, e.kind)
  <2>1. /\ UNCHANGED <<handle, state, overwrite, nextId, generation, commands>>
        /\ link' = [link EXCEPT ![s] = e.kind]
    BY <1>11 DEF HandleStateChanged, queueVars
  <2>2. Hears(c, e)
    BY <1>1, <1>3, <1>7, <2>1 DEF Hears
  <2>3. e.kind \notin EndingEvents /\ e.kind \notin TransferEvents
    BY <1>11 DEF StateEvents, EndingEvents, TransferEvents
  <2>4. \A r \in Sessions : link'[r] = "Connected" =>
          link[r] = "Connected" \/ (r = c[1] /\ e.kind = "Connected")
    BY <1>2, <1>9, <2>1
  <2> QED
    BY <2>1, <2>2, <2>3, <2>4, HeardOn
<1>12. CASE HandleDisconnected(s)
  <2>1. /\ UNCHANGED <<overwrite, nextId, generation, commands>>
        /\ handle' = [handle EXCEPT ![s] = NoHandle]
        /\ link' = [link EXCEPT ![s] = "Idle"]
    BY <1>12 DEF HandleDisconnected, RemoveSession
  <2>2. \/ state' = AfterFailPending(s)
        \/ state' = [t \in Tasks |-> IF t[1] = s THEN "Absent" ELSE state[t]]
    BY <1>12 DEF HandleDisconnected, RemoveSession
  <2>3. \A t \in Tasks : IF t[1] = s THEN state'[t] \in Quits ELSE state'[t] = state[t]
    BY <2>2 DEF AfterFailPending, FinishedStates, Quits
  <2>4. \A r \in Sessions : handle'[r] = IF r = s THEN NoHandle ELSE handle[r]
    BY <1>8, <2>1
  <2>5. \A r \in Sessions : r # s => link'[r] = link[r]
    BY <1>9, <2>1
  <2>6. \A t \in Tasks : state[t] \in Quits => state'[t] \in Quits
    BY <2>3
  <2>7. \A t \in Tasks : state'[t] \in Quits \union {"Conflict"} \/ state'[t] = state[t]
    BY <2>3
  <2>8. Hears(c, e)
    BY <1>1, <1>3, <1>7, <2>1, <2>4, <2>6, <2>7 DEF Hears
  <2> QED
    BY <1>2, <1>5, <2>3, <2>4, <2>5, <2>8, HeardOver
<1>13. /\ UnfinishedStates = {"Queued", "Running", "Cancelling", "Conflict"}
       /\ ActiveStates \subseteq UnfinishedStates /\ "Running" \in ActiveStates
  BY DEF UnfinishedStates, TransferStates, FinishedStates, ActiveStates
<1>14. {"Completed", "Failed", "Cancelled"} \subseteq Quits
  BY DEF Quits
<1>15. CASE e.kind = "TransferConflict" /\ HandleConflict(<<s, e.id>>)
  BY <1>2, <1>4, <1>7, <1>13, <1>15, MarkKeeps DEF HandleConflict, TransferEvents
<1>16. CASE e.kind = "TransferCompleted" /\ HandleCompleted(<<s, e.id>>)
  BY <1>2, <1>4, <1>7, <1>13, <1>14, <1>16, MarkKeeps DEF HandleCompleted, TransferEvents
<1>17. CASE e.kind = "TransferCancelled" /\ HandleCancelled(<<s, e.id>>)
  BY <1>2, <1>4, <1>7, <1>13, <1>14, <1>17, MarkKeeps DEF HandleCancelled, TransferEvents
<1>18. CASE e.kind = "SftpFailed" /\ HandleTransferFailed(<<s, e.id>>)
  BY <1>2, <1>4, <1>7, <1>13, <1>14, <1>18, MarkKeeps DEF HandleTransferFailed, TransferEvents
<1> QED
  BY <1>6, <1>10, <1>11, <1>12, <1>15, <1>16, <1>17, <1>18 DEF Handle, HandleFailed

-----------------------------------------------------------------------------
(* The invariant holds in every state.                                     *)

LEMMA InitSystemIInv == SystemInit => SystemIInv
<1> SUFFICES ASSUME SystemInit PROVE SystemIInv
  OBVIOUS
<1>1. IInv
  BY InitIInv DEF SystemInit
<1>2. /\ link = [s \in Sessions |-> "Idle"]
      /\ generation = [s \in Sessions |-> 0]
      /\ handle = [s \in Sessions |-> NoHandle]
      /\ state = [t \in Tasks |-> "Absent"]
      /\ overwrite = [t \in Tasks |-> FALSE]
      /\ commands = [c \in Connections |-> <<>>]
      /\ conn = [c \in Connections |-> "Unmade"]
  BY DEF SystemInit, Init
<1>3. /\ worker = [c \in Connections |-> "Running"]
      /\ fileCommands = [c \in Connections |-> <<>>]
      /\ fileClosed = {}
      /\ cancellations = [c \in Connections |-> [id \in TransferIds |-> 0]]
      /\ phase = [a \in Files!Attempts |-> "Unborn"]
      /\ confirmed = [a \in Files!Attempts |-> FALSE]
      /\ result = [a \in Files!Attempts |-> Files!NoResult]
      /\ flag = [a \in Files!Attempts |-> FALSE]
      /\ events = [c \in Connections |-> <<>>]
  BY DEF SystemInit, Files!FileInit, Files!NoAttempt
<1>4. /\ \A c \in Connections : events[c] = <<>> /\ Len(events[c]) = 0 /\ DOMAIN events[c] = {}
      /\ \A c \in Connections : fileCommands[c] = <<>> /\ commands[c] = <<>>
      /\ \A c \in Connections : DOMAIN fileCommands[c] = {} /\ DOMAIN commands[c] = {}
  BY <1>2, <1>3
<1>5. ChannelsOK
  <2>1. SystemTypeOK
    <3>1. TypeOK
      BY <1>1 DEF IInv
    <3>2. \A c \in Connections : Len(events[c]) <= EventCapacity
      BY <1>4, CapacityAssumption
    <3>3. "Unborn" \in Files!AttemptPhases
      BY DEF Files!AttemptPhases
    <3>4. [id \in TransferIds |-> 0] \in [TransferIds -> 0..MaxAttempts]
      BY AttemptsAssumption
    <3> QED
      BY <1>2, <1>3, <3>1, <3>2, <3>3, <3>4 DEF SystemTypeOK, ConnStates
  <2> QED
    BY <1>3, <2>1 DEF ChannelsOK
<1>6. LifeOK
  <2>1. \A s \in Sessions, k \in Links : conn[<<s, k>>] = "Unmade" /\ generation[s] < k
    <3> TAKE s \in Sessions, k \in Links
    <3>1. <<s, k>> \in Connections
      BY LinkConnection
    <3>2. 0 < k
      BY ConnectionsAssumption DEF Links
    <3> QED
      BY <1>2, <3>1, <3>2
  <2>2. \A a \in Files!Attempts : phase[a] = "Unborn"
    BY <1>3
  <2> QED
    BY <1>2, <1>3, <1>4, <2>1, <2>2 DEF LifeOK, NoHandle
<1>7. HandleOK /\ OrderOK /\ LinkOK
  BY <1>2, <1>4 DEF HandleOK, OrderOK, LinkOK
<1>8. \A t \in Tasks, b \in BOOLEAN, k \in Links :
        /\ \A i \in Nat : ~InCommands(t, b, k, i) /\ ~InWorker(t, b, k, i) /\ ~Conflicts(t, k, i)
        /\ \A n \in Numbers : ~InTask(t, b, k, n) /\ ~Reported(Att(t, k, n))
  <2> TAKE t \in Tasks, b \in BOOLEAN, k \in Links
  <2>1. <<t[1], k>> \in Connections
    BY TaskParts, LinkConnection
  <2>2. \A i \in Nat : ~InCommands(t, b, k, i) /\ ~InWorker(t, b, k, i) /\ ~Conflicts(t, k, i)
    BY <1>4, <2>1 DEF InCommands, InWorker, Conflicts, TransferAt
  <2>3. \A n \in Numbers : phase[Att(t, k, n)] = "Unborn"
    BY <1>3, TaskAttempt
  <2> QED
    BY <2>2, <2>3 DEF InTask, Reported
<1>9. OnceOK
  BY <1>8 DEF OnceOK, Once
<1>10. \A t \in Tasks, b \in BOOLEAN : ~Ordered(t, b)
  BY <1>8 DEF Ordered
<1>11. GivenOK
  BY <1>2, <1>10 DEF GivenOK
<1>12. AttemptsOK
  BY <1>3 DEF AttemptsOK, Files!WorkingPhases, Files!NoResult
<1>13. ConflictOK
  BY <1>2, <1>8 DEF ConflictOK
<1>14. SettledOK
  BY <1>2 DEF SettledOK, Quits
<1>15. IgnoredOK /\ RunningIsCarried
  BY <1>2 DEF IgnoredOK, RunningIsCarried
<1> QED
  BY <1>1, <1>5, <1>6, <1>7, <1>9, <1>11, <1>12, <1>13, <1>14, <1>15 DEF SystemIInv

LEMMA StutterQuiet ==
  ASSUME IInv, UNCHANGED allVars
  PROVE  QuietStep /\ UNCHANGED systemVars
<1>1. UNCHANGED <<queueVars, linkVars, commands>> /\ UNCHANGED systemVars
  BY DEF allVars, vars, queueVars, linkVars
<1> QED
  BY <1>1, OtherQuiet

LEMMA NextSystemIInv == SystemIInv /\ [SystemNext]_allVars => SystemIInv'
<1> SUFFICES ASSUME SystemIInv, [SystemNext]_allVars PROVE SystemIInv'
  OBVIOUS
<1>1. [Next]_vars
  BY SystemStepIsQueueStep DEF SystemIInv
<1>2. IInv /\ IInv'
  BY <1>1, NextIInv DEF SystemIInv
<1>3. ASSUME NEW s \in Sessions, Connect(s) PROVE SystemIInv'
  <2>1. PICK g : g = generation[s] + 1
    OBVIOUS
  <2>2. PICK c : c = <<s, g>>
    OBVIOUS
  <2> QED
    BY <1>2, <1>3, <2>1, <2>2, ConnectKeeps
<1>4. CASE Interface
  BY <1>1, <1>2, <1>4, InterfaceQuiet, QuietKeeps
<1>5. CASE Schedule
  <2>1. ASSUME NEW u \in Tasks, StartTask(u) PROVE SystemIInv'
    <3>1. PICK h : h = handle[u[1]]
      OBVIOUS
    <3>2. PICK c : c = <<u[1], h>>
      OBVIOUS
    <3>3. UNCHANGED systemVars
      BY <1>5 DEF Schedule
    <3> QED
      BY <1>2, <2>1, <3>1, <3>2, <3>3, StartKeeps
  <2>2. CASE \A t \in Tasks : ~StartTask(t)
    BY <1>2, <1>5, <2>2, ScheduleQuiet, QuietKeeps
  <2> QED
    BY <2>1, <2>2
<1>6. ASSUME NEW c \in Connections, Pump(c) \/ ConnectionStep(c) \/ FileWorkerStep(c)
      PROVE  SystemIInv'
  BY <1>2, <1>6, PumpKeeps, ConnectionKeeps, FileWorkerKeeps
<1>7. ASSUME NEW a \in Files!Attempts, TaskStep(a) PROVE SystemIInv'
  BY <1>2, <1>7, AttemptKeeps
<1>8. CASE UNCHANGED allVars
  BY <1>2, <1>8, StutterQuiet, QuietKeeps
<1> QED
  BY <1>3, <1>4, <1>5, <1>6, <1>7, <1>8 DEF SystemNext

LEMMA SystemInvariance == SystemSpec => []SystemIInv
BY InitSystemIInv, NextSystemIInv, PTL DEF SystemSpec

\* Every variable of the whole subsystem keeps its type, and an event channel never
\* holds more than EVENT_CHANNEL_CAPACITY events.
THEOREM SystemTypeCorrectness == SystemSpec => []SystemTypeOK
<1>1. SystemIInv => SystemTypeOK
  BY DEF SystemIInv, ChannelsOK
<1> QED
  BY <1>1, SystemInvariance, PTL

\* No Running task of a queue is forgotten by the connections that serve it:
\* something that will settle it is on its way (sftp/transfers.rs, with
\* connection.rs and the file worker of remote_files.rs).
THEOREM RunningCarried == SystemSpec => []RunningIsCarried
<1>1. SystemIInv => RunningIsCarried
  BY DEF SystemIInv
<1> QED
  BY <1>1, SystemInvariance, PTL

\* The subsystem is an implementation of the queue in its open environment: what the
\* connections and their workers do is what TransferQueue lets them do.
THEOREM SystemImplementsQueue == SystemSpec => Spec
<1>1. SystemInit => Init
  BY DEF SystemInit
<1>2. SystemIInv /\ [SystemNext]_allVars => [Next]_vars
  BY SystemStepIsQueueStep DEF SystemIInv
<1> QED
  BY <1>1, <1>2, SystemInvariance, PTL DEF SystemSpec, Spec

\* Hence max_parallel_transfers bounds the transfers of all connections together.
THEOREM SystemLimitRespected == SystemSpec => ActiveNeverGrowsPastLimit
BY SystemImplementsQueue, LimitRespected, PTL

\* And the subsystem keeps the promise of TransferPromise.
THEOREM SystemKeepsPromise == SystemSpec => KeepsPromise
BY SystemImplementsQueue, Implementation, PTL

LEMMA AttemptAtTask ==
  ASSUME NEW t \in Tasks, NEW a \in AttemptsAt(t)
  PROVE  \E k \in Links, n \in Numbers : a = Att(t, k, n) /\ InTask(t, confirmed[a], k, n)
<1>1. a \in Files!Attempts /\ a[1][1] = t[1] /\ a[2] = t[2] /\ phase[a] # "Unborn"
  BY DEF AttemptsAt
<1>2. /\ a[1] \in Connections /\ a[3] \in Numbers /\ a = <<a[1], a[2], a[3]>>
      /\ a[1][2] \in Links /\ a[1] = <<a[1][1], a[1][2]>>
  BY <1>1, AttemptParts, ConnectionParts
<1>3. a = Att(t, a[1][2], a[3])
  BY <1>1, <1>2 DEF Att
<1> QED
  BY <1>1, <1>2, <1>3 DEF InTask

LEMMA OneOrder ==
  ASSUME SystemIInv, NEW t \in Tasks, NEW a \in AttemptsAt(t), NEW b \in AttemptsAt(t),
         confirmed[a] = confirmed[b]
  PROVE  a = b
<1>1. confirmed[a] \in BOOLEAN
  BY DEF AttemptsAt, SystemIInv, ChannelsOK, SystemTypeOK
<1>2. PICK k \in Links, n \in Numbers : a = Att(t, k, n) /\ InTask(t, confirmed[a], k, n)
  BY AttemptAtTask
<1>3. PICK l \in Links, m \in Numbers : b = Att(t, l, m) /\ InTask(t, confirmed[b], l, m)
  BY AttemptAtTask
<1>4. Once(t, confirmed[a])
  BY <1>1 DEF SystemIInv, OnceOK
<1>5. k = l /\ n = m
  BY <1>2, <1>3, <1>4 DEF Once
<1> QED
  BY <1>2, <1>3, <1>5

LEMMA ConfirmedAnswers ==
  ASSUME SystemIInv, NEW t \in Tasks, NEW a \in AttemptsAt(t), confirmed[a]
  PROVE  \E b \in AttemptsAt(t) : Reported(b)
<1>1. PICK k \in Links, n \in Numbers : InTask(t, confirmed[a], k, n)
  BY AttemptAtTask
<1>2. confirmed[a] = TRUE
  BY DEF AttemptsAt, SystemIInv, ChannelsOK, SystemTypeOK
<1>3. Ordered(t, TRUE)
  BY <1>1, <1>2 DEF Ordered
<1>4. Answered(t)
  BY <1>3 DEF SystemIInv, GivenOK, ConflictOK
<1>5. PICK l \in Links, m \in Numbers : Reported(Att(t, l, m))
  BY <1>4 DEF Answered
<1>6. Att(t, l, m) \in Files!Attempts /\ Att(t, l, m)[1][1] = t[1] /\ Att(t, l, m)[2] = t[2]
  BY TaskAttempt DEF Att
<1>7. Att(t, l, m) \in AttemptsAt(t)
  BY <1>5, <1>6 DEF AttemptsAt, Reported
<1> QED
  BY <1>5, <1>7

\* Two attempts at one transfer never write to the same destination together, on
\* whichever connections of the session they run (FileWorkerHandle::spawn).
THEOREM OneAttemptWorks == SystemSpec => []OneWorkingAttempt
<1>1. ASSUME SystemIInv PROVE OneWorkingAttempt
  <2> SUFFICES ASSUME NEW a \in Files!Attempts, NEW b \in Files!Attempts,
                      a[1][1] = b[1][1], a[2] = b[2],
                      phase[a] \in Files!WorkingPhases, phase[b] \in Files!WorkingPhases
               PROVE  a = b
    BY DEF OneWorkingAttempt
  <2>1. PICK t \in Tasks : t[1] = a[1][1] /\ t[2] = a[2]
    <3>1. a[1] \in Connections /\ a[2] \in TransferIds
      BY AttemptParts
    <3>2. a[1][1] \in Sessions
      BY <3>1, ConnectionParts
    <3>3. <<a[1][1], a[2]>> \in Tasks
      BY <3>1, <3>2 DEF Tasks
    <3> QED
      BY <3>3
  <2>2. "Unborn" \notin Files!WorkingPhases
    BY DEF Files!WorkingPhases
  <2>3. a \in AttemptsAt(t) /\ b \in AttemptsAt(t)
    BY <2>1, <2>2 DEF AttemptsAt
  <2>4. ASSUME NEW x \in AttemptsAt(t), NEW y \in AttemptsAt(t), confirmed[x], ~confirmed[y],
               phase[y] \in Files!WorkingPhases
        PROVE  FALSE
    <3>1. PICK z \in AttemptsAt(t) : Reported(z)
      BY <1>1, <2>4, ConfirmedAnswers
    <3>2. ~confirmed[z] /\ phase[z] \notin Files!WorkingPhases
      BY <3>1 DEF Reported, Files!WorkingPhases
    <3>3. confirmed[z] = confirmed[y]
      BY <1>1, <2>4, <3>2 DEF AttemptsAt, SystemIInv, ChannelsOK, SystemTypeOK
    <3>4. z = y
      BY <1>1, <2>4, <3>1, <3>3, OneOrder
    <3> QED
      BY <2>4, <3>2, <3>4
  <2>5. confirmed[a] = confirmed[b]
    <3>1. confirmed[a] \in BOOLEAN /\ confirmed[b] \in BOOLEAN
      BY <1>1 DEF SystemIInv, ChannelsOK, SystemTypeOK
    <3> QED
      BY <2>3, <2>4, <3>1
  <2> QED
    BY <1>1, <2>3, <2>5, OneOrder
<1> QED
  BY <1>1, SystemInvariance, PTL

\* A transfer is attempted at most twice, and the attempt that may replace the
\* destination is the answer to the conflict the other one reported
\* (replace_sftp_transfer_destination, on whichever connection).
THEOREM OverwriteIsAnswer == SystemSpec => []OverwriteAnswersConflict
<1>1. ASSUME SystemIInv PROVE OverwriteAnswersConflict
  <2> SUFFICES ASSUME NEW t \in Tasks
               PROVE  /\ Cardinality(AttemptsAt(t)) <= 2
                      /\ \A a \in AttemptsAt(t) : confirmed[a] <=>
                           \E b \in AttemptsAt(t) \ {a} :
                             ~confirmed[b] /\ result[b] = "TransferConflict" /\ phase[b] # "Reporting"
    BY DEF OverwriteAnswersConflict
  <2>1. \A a, b \in AttemptsAt(t) : confirmed[a] = confirmed[b] => a = b
    BY <1>1, OneOrder
  <2>2. \A a \in AttemptsAt(t) : confirmed[a] \in BOOLEAN
    BY <1>1 DEF AttemptsAt, SystemIInv, ChannelsOK, SystemTypeOK
  <2>3. Cardinality(AttemptsAt(t)) <= 2
    <3>1. \E x, y : AttemptsAt(t) \subseteq {x, y}
      <4>1. \E x : \A a \in AttemptsAt(t) : confirmed[a] = TRUE => a = x
        BY <2>1
      <4>2. \E y : \A a \in AttemptsAt(t) : confirmed[a] = FALSE => a = y
        BY <2>1
      <4> QED
        BY <2>2, <4>1, <4>2
    <3>2. PICK x, y : AttemptsAt(t) \subseteq {x, y}
      BY <3>1
    <3>3. IsFiniteSet({x}) /\ Cardinality({x}) = 1
      BY FS_Singleton
    <3>4. IsFiniteSet({x} \union {y}) /\ Cardinality({x} \union {y}) \in {1, 2}
      BY <3>3, FS_AddElement
    <3>5. {x, y} = {x} \union {y}
      OBVIOUS
    <3>6. /\ IsFiniteSet(AttemptsAt(t))
          /\ Cardinality(AttemptsAt(t)) <= Cardinality({x} \union {y})
      BY <3>2, <3>4, <3>5, FS_Subset
    <3>7. Cardinality(AttemptsAt(t)) \in Nat
      BY <3>6, FS_CardinalityType
    <3> QED
      BY <3>4, <3>6, <3>7
  <2>4. ASSUME NEW a \in AttemptsAt(t), confirmed[a]
        PROVE  \E b \in AttemptsAt(t) \ {a} :
                 ~confirmed[b] /\ result[b] = "TransferConflict" /\ phase[b] # "Reporting"
    <3>1. PICK b \in AttemptsAt(t) : Reported(b)
      BY <1>1, <2>4, ConfirmedAnswers
    <3> QED
      BY <2>4, <3>1 DEF Reported
  <2>5. ASSUME NEW a \in AttemptsAt(t), NEW b \in AttemptsAt(t) \ {a}, ~confirmed[b]
        PROVE  confirmed[a]
    BY <2>1, <2>2, <2>5
  <2> QED
    BY <2>3, <2>4, <2>5
<1> QED
  BY <1>1, SystemInvariance, PTL
=============================================================================
