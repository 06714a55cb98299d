---------------------------- MODULE LocalTerminal ----------------------------
(***************************************************************************)
(* The worker of a local terminal (remcmd-local): the thread that owns the *)
(* PTY, its shell and the command channel, and the thread that reads the   *)
(* PTY's output.  The two share the event channel, which is unbounded, and *)
(* the flag by which the reader says that it failed.                       *)
(***************************************************************************)
EXTENDS Naturals, Sequences

CONSTANTS DefaultSize, MaxReads

VARIABLES
  commands, events, handle, listening,   \* see ConnectionWorker
  pc,           \* where run_local_terminal is
  child,        \* the shell process
  reader,       \* the output thread
  readerFailed, \* reader_failed
  reads,        \* the output read from the PTY
  remote,       \* the size of the PTY
  received      \* what was written to the PTY

threadVars == <<pc, child, reader, readerFailed, reads, remote, received>>
vars       == <<commands, events, handle, listening, threadVars>>

Places == {"Start", "Starting", "Polling", "Inspecting", "Ended"}

\* "Stuck": a shell whose kill failed.
Children == {"None", "Running", "Exited", "Dead", "Stuck"}

Started       == [kind |-> "Started"]
Output        == [kind |-> "Output"]
Resized(size) == [kind |-> "Resized", size |-> size]
Exited        == [kind |-> "Exited"]
Failed        == [kind |-> "Failed"]

LocalInit ==
  /\ pc = "Start"
  /\ child = "None"
  /\ reader = "None" /\ readerFailed = FALSE /\ reads = 0
  /\ remote = DefaultSize /\ received = <<>>

\* A send whose failure is ignored; without a receiver the event is dropped.
Tell(event) == events' = IF listening THEN Append(events, event) ELSE events

-----------------------------------------------------------------------------
(* The thread of the PTY.                                                  *)

\* The worker thread, the PTY or the shell cannot be made; or its input or output
\* cannot be taken, and the shell is killed; or the output thread is started.
StartShell ==
  /\ pc = "Start"
  /\ \/ /\ child' \in {"None", "Dead"}
        /\ pc' = "Ended"
        /\ Tell(Failed)
        /\ UNCHANGED reader
     \/ /\ child' = "Running"
        /\ reader' \in {"Reading", "None"}
        /\ pc' = "Starting"
        /\ UNCHANGED events
  /\ UNCHANGED <<commands, handle, listening, readerFailed, reads, remote, received>>

KillAndReturn == pc' = "Ended" /\ child' = "Dead"

AnnounceStart ==
  /\ pc = "Starting"
  /\ IF listening
       THEN Tell(Started) /\ pc' = "Polling" /\ UNCHANGED child
       ELSE KillAndReturn /\ UNCHANGED events
  /\ UNCHANGED <<commands, handle, listening, reader, readerFailed, reads, remote, received>>

CheckReader ==
  /\ pc = "Polling"
  /\ IF readerFailed THEN KillAndReturn ELSE pc' = "Inspecting" /\ UNCHANGED child
  /\ UNCHANGED <<commands, events, handle, listening, reader, readerFailed, reads, remote, received>>

\* try_wait: the shell has ended by itself, or cannot be inspected.
InspectShell ==
  /\ pc = "Inspecting"
  /\ KillAndReturn
  /\ \/ child = "Exited" /\ Tell(Exited)
     \/ Tell(Failed)
  /\ UNCHANGED <<commands, handle, listening, reader, readerFailed, reads, remote, received>>

\* recv_timeout answers a command; or nothing came, and the loop goes round.
TakeCommand ==
  /\ pc = "Inspecting"
  /\ child # "Exited"
  /\ \/ /\ commands # <<>> /\ Head(commands).kind = "Input"
        /\ \/ /\ received' = Append(received, Head(commands).n)
              /\ pc' = "Polling"
              /\ UNCHANGED <<child, events>>
           \/ KillAndReturn /\ Tell(Failed) /\ UNCHANGED received
        /\ UNCHANGED remote
     \/ /\ commands # <<>> /\ Head(commands).kind = "Resize"
        /\ \/ /\ remote' = Head(commands).size
              /\ Tell(Resized(remote'))
              /\ IF listening THEN pc' = "Polling" /\ UNCHANGED child ELSE KillAndReturn
           \/ KillAndReturn /\ Tell(Failed) /\ UNCHANGED remote
        /\ UNCHANGED received
     \/ /\ IF commands # <<>> THEN Head(commands).kind = "Disconnect" ELSE ~handle
        /\ pc' = "Ended"
        /\ \/ child' = "Dead" /\ (Tell(Exited) \/ Tell(Failed))
           \/ child' = "Stuck" /\ Tell(Failed)
        /\ UNCHANGED <<remote, received>>
  /\ commands' = IF commands = <<>> THEN <<>> ELSE Tail(commands)
  /\ UNCHANGED <<handle, listening, reader, readerFailed, reads>>

CommandTimeout ==
  /\ pc = "Inspecting"
  /\ child # "Exited"
  /\ commands = <<>>
  /\ pc' = "Polling"
  /\ UNCHANGED <<commands, events, handle, listening, child, reader, readerFailed, reads,
                 remote, received>>

-----------------------------------------------------------------------------
(* The output thread and the shell itself.                                 *)

ReadOutput ==
  /\ reader = "Reading"
  /\ \/ /\ reads < MaxReads
        /\ child \in {"Running", "Exited", "Stuck"}
        /\ reads' = reads + 1
        /\ Tell(Output)
        /\ reader' = IF listening THEN "Reading" ELSE "Stopped"
        /\ UNCHANGED readerFailed
     \/ /\ child \in {"Exited", "Dead"}
        /\ reader' = "Stopped"
        /\ UNCHANGED <<reads, readerFailed, events>>
     \/ /\ reader' = "Stopped"
        /\ readerFailed' = TRUE
        /\ Tell(Failed)
        /\ UNCHANGED reads
  /\ UNCHANGED <<commands, handle, listening, pc, child, remote, received>>

ShellExits ==
  /\ child = "Running"
  /\ child' = "Exited"
  /\ UNCHANGED <<commands, events, handle, listening, pc, reader, readerFailed, reads, remote,
                 received>>

LocalStep ==
  StartShell \/ AnnounceStart \/ CheckReader \/ InspectShell \/ TakeCommand \/ CommandTimeout
    \/ ReadOutput \/ ShellExits

LocalProgress ==
  StartShell \/ AnnounceStart \/ CheckReader \/ TakeCommand \/ CommandTimeout
    \/ (child = "Exited" /\ InspectShell)

LocalTypeOK ==
  /\ pc \in Places
  /\ child \in Children
  /\ reader \in {"None", "Reading", "Stopped"}
  /\ readerFailed \in BOOLEAN
  /\ reads \in 0..MaxReads
=============================================================================
