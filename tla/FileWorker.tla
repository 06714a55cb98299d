----------------------------- MODULE FileWorker -----------------------------
(***************************************************************************)
(* The file worker of each SSH connection (FileWorkerHandle::spawn) and    *)
(* the tasks it spawns, one per attempt at a transfer.                     *)
(*                                                                         *)
(* The worker reads its command channel in order.  A Transfer command puts *)
(* a fresh cancellation flag into a map under the transfer's id and spawns *)
(* a task; a CancelTransfer command raises whatever flag the map holds.    *)
(* The task works, reports its result on the connection's event channel    *)
(* and only then removes its id from the map, a step the worker's own      *)
(* steps may precede.  Directory and file requests, which the worker runs  *)
(* between two commands, only delay it, and every step may be delayed.     *)
(***************************************************************************)
EXTENDS Integers, FiniteSets, Sequences

CONSTANTS
  Connections,    \* the connections that may ever be made
  TransferIds,    \* the transfer ids
  MaxAttempts,    \* bound: Transfer commands per id; the application sends two
  EventCapacity   \* EVENT_CHANNEL_CAPACITY

\* The n-th attempt at transfer id on connection c is <<c, id, n>>.
Attempts == Connections \X TransferIds \X (1..MaxAttempts)

WorkingPhases == {"Checking", "Copying", "Installing"}
AttemptPhases ==
  WorkingPhases \union {"Unborn", "Reporting", "Clearing", "Done", "Aborted"}
Results == {"TransferCompleted", "TransferConflict", "TransferCancelled", "SftpFailed"}
NoResult  == "None"
NoAttempt == 0

VARIABLES
  worker,         \* "Running", "Joining" once its channel is closed, "Stopped"
  fileCommands,   \* the worker's command channel
  fileClosed,     \* the connections that dropped their FileWorkerHandle
  cancellations,  \* the map: id -> the attempt whose flag it holds
  phase,          \* where each attempt is
  confirmed,      \* the overwrite argument of each attempt
  result,         \* what each attempt came to
  flag,           \* the cancellation flag of each attempt
  events          \* the event channel of each connection

workerVars  == <<worker, fileCommands, fileClosed>>
attemptVars == <<cancellations, phase, confirmed, result, flag>>
fileVars    == <<worker, fileCommands, fileClosed, cancellations, phase, confirmed,
                 result, flag, events>>

FileInit ==
  /\ worker = [c \in Connections |-> "Running"]
  /\ fileCommands = [c \in Connections |-> <<>>]
  /\ fileClosed = {}
  /\ cancellations = [c \in Connections |-> [id \in TransferIds |-> NoAttempt]]
  /\ phase = [a \in Attempts |-> "Unborn"]
  /\ confirmed = [a \in Attempts |-> FALSE]
  /\ result = [a \in Attempts |-> NoResult]
  /\ flag = [a \in Attempts |-> FALSE]
  /\ events = [c \in Connections |-> <<>>]

\* Wrong: a channel without a capacity.
SendUnbounded(c, event) == events' = [events EXCEPT ![c] = Append(@, event)]

\* mpsc::Sender::send: waits while the channel is full.
SendEvent(c, event) ==
  /\ Len(events[c]) < EventCapacity
  /\ events' = [events EXCEPT ![c] = Append(@, event)]

-----------------------------------------------------------------------------
(* The worker loop.                                                        *)

NextAttempt(c, id) ==
  <<c, id, 1 + Cardinality({n \in 1..MaxAttempts : phase[<<c, id, n>>] # "Unborn"})>>

TakesHead(c, op) ==
  /\ worker[c] = "Running"
  /\ fileCommands[c] # <<>>
  /\ Head(fileCommands[c]).op = op
  /\ fileCommands' = [fileCommands EXCEPT ![c] = Tail(@)]

TakeTransfer(c) ==
  /\ TakesHead(c, "Transfer")
  /\ LET command == Head(fileCommands[c])
         a == NextAttempt(c, command.id)
     IN  /\ phase' = [phase EXCEPT ![a] = "Checking"]
         /\ confirmed' = [confirmed EXCEPT ![a] = command.overwrite]
         /\ cancellations' = [cancellations EXCEPT ![c][command.id] = a[3]]
  /\ UNCHANGED <<worker, fileClosed, result, flag, events>>

\* A cancellation of an id the map does not hold is dropped without a trace.
TakeCancel(c) ==
  /\ TakesHead(c, "CancelTransfer")
  /\ LET id == Head(fileCommands[c]).id
         n  == cancellations[c][id]
     IN  flag' = IF n = NoAttempt THEN flag ELSE [flag EXCEPT ![<<c, id, n>>] = TRUE]
  /\ UNCHANGED <<worker, fileClosed, cancellations, phase, confirmed, result, events>>

\* The channel is closed and drained: raise every flag of the map, then join.
ShutDown(c) ==
  /\ worker[c] = "Running"
  /\ c \in fileClosed
  /\ fileCommands[c] = <<>>
  /\ worker' = [worker EXCEPT ![c] = "Joining"]
  /\ flag' = [a \in Attempts |-> flag[a] \/ (a[1] = c /\ cancellations[c][a[2]] = a[3])]
  /\ UNCHANGED <<fileCommands, fileClosed, cancellations, phase, confirmed, result, events>>

AttemptsOf(c) == {a \in Attempts : a[1] = c}
Ended(a)      == phase[a] \in {"Unborn", "Done", "Aborted"}

\* Wrong: the worker waits for its tasks for as long as they like.
JoinAll(c) ==
  /\ worker[c] = "Joining"
  /\ \A a \in AttemptsOf(c) : Ended(a)
  /\ worker' = [worker EXCEPT ![c] = "Stopped"]
  /\ UNCHANGED <<fileCommands, fileClosed, cancellations, phase, confirmed, result, flag, events>>

\* Every task ended, or the two seconds are over and the others are aborted.
Join(c) ==
  /\ worker[c] = "Joining"
  /\ worker' = [worker EXCEPT ![c] = "Stopped"]
  /\ phase' = [a \in Attempts |-> IF a[1] = c /\ ~Ended(a) THEN "Aborted" ELSE phase[a]]
  /\ UNCHANGED <<fileCommands, fileClosed, cancellations, confirmed, result, flag, events>>

-----------------------------------------------------------------------------
(* A transfer task.                                                        *)

Move(a, to) ==
  /\ phase' = [phase EXCEPT ![a] = to]
  /\ UNCHANGED <<workerVars, cancellations, confirmed, flag>>

Conclude(a, outcome) ==
  /\ result' = [result EXCEPT ![a] = outcome]
  /\ Move(a, "Reporting")
  /\ UNCHANGED events

\* The destination exists and may not be replaced: found before the copy or,
\* by the SCP backend only, when the copy could not be installed.
FindConflict(a) ==
  /\ phase[a] \in {"Checking", "Installing"}
  /\ ~confirmed[a]
  /\ Conclude(a, "TransferConflict")

\* The flag is read before the copy, at every chunk of it, and after it.
ObserveCancellation(a) ==
  /\ phase[a] \in {"Checking", "Copying"}
  /\ flag[a]
  /\ Conclude(a, "TransferCancelled")

BeginCopy(a) ==
  /\ phase[a] = "Checking"
  /\ ~flag[a]
  /\ Move(a, "Copying")
  /\ UNCHANGED <<result, events>>

FinishCopy(a) ==
  /\ phase[a] = "Copying"
  /\ ~flag[a]
  /\ Move(a, "Installing")
  /\ UNCHANGED <<result, events>>

Install(a) ==
  /\ phase[a] = "Installing"
  /\ Conclude(a, "TransferCompleted")

FailAttempt(a) ==
  /\ phase[a] \in WorkingPhases
  /\ Conclude(a, "SftpFailed")

\* transfer_result_event
Report(a) ==
  /\ phase[a] = "Reporting"
  /\ SendEvent(a[1], [kind |-> result[a], id |-> a[2]])
  /\ Move(a, "Clearing")
  /\ UNCHANGED result

\* cancellations.remove(&transfer_id), whoever's flag is there by now.
ClearCancellation(a) ==
  /\ phase[a] = "Clearing"
  /\ phase' = [phase EXCEPT ![a] = "Done"]
  /\ cancellations' = [cancellations EXCEPT ![a[1]][a[2]] = NoAttempt]
  /\ UNCHANGED <<workerVars, confirmed, result, flag, events>>

AttemptStep(a) ==
  \/ FindConflict(a) \/ ObserveCancellation(a) \/ BeginCopy(a) \/ FinishCopy(a)
  \/ Install(a) \/ FailAttempt(a) \/ Report(a) \/ ClearCancellation(a)

WorkerStep(c) == TakeTransfer(c) \/ TakeCancel(c) \/ ShutDown(c) \/ Join(c)

FileWorkerNext ==
  \/ \E c \in Connections : WorkerStep(c)
  \/ \E a \in Attempts : AttemptStep(a)
=============================================================================
