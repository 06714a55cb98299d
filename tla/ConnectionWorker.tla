-------------------------- MODULE ConnectionWorker --------------------------
(***************************************************************************)
(* The worker of one SSH connection: run_connection_plan of connection.rs  *)
(* with the transports it opens (transport.rs), the host keys it has the   *)
(* user verify (host_key.rs) and the shell it runs (shell.rs).             *)
(*                                                                         *)
(* A connection is a chain of steps: the jump hosts, then the target.  The *)
(* worker opens, verifies and authenticates one transport per step, opens  *)
(* the shell over the last one, and relays commands to the shell until it  *)
(* ends.  Every way out of the chain and of the main loop unwinds what is  *)
(* established, newest first, and tells the window how it ended.           *)
(*                                                                         *)
(* File commands and transfers are the business of FileWorker.             *)
(***************************************************************************)
EXTENDS Naturals, Sequences, FiniteSetsExt

CONSTANTS
  Steps,          \* the number of jump hosts, and one for the target
  Keys,           \* the keys a server may present
  Sizes,          \* the sizes of a PTY
  DefaultSize,    \* TERMINAL_COLUMNS x TERMINAL_ROWS, the size a PTY starts with
  KnownHosts,     \* the contents known_hosts may have: sets of <<step, key>>
  EventCapacity,  \* EVENT_CHANNEL_CAPACITY
  MaxReads        \* bound: pieces of output the shell prints

ASSUME StepsAssumption    == Steps \in Nat \ {0}
ASSUME KeysAssumption     == Keys # {}
ASSUME SizesAssumption    == DefaultSize \in Sizes
ASSUME HostsAssumption    == KnownHosts \subseteq SUBSET ((1..Steps) \X Keys)
ASSUME CapacityAssumption == EventCapacity \in Nat \ {0}
ASSUME ReadsAssumption    == MaxReads \in Nat

VARIABLES
  \* The channels between the window and its worker.
  commands,     \* the unbounded command channel
  events,       \* the bounded event channel
  handle,       \* the window still holds the sender of the commands
  listening,    \* the pump still holds the receiver of the events
  decisions,    \* the host-key decisions sent and not taken
  asking,       \* host_key_verification_pending
  \* The worker.
  pc,           \* where it is
  exit,         \* what it has left to do before it returns
  session,      \* the state of its SshSession
  step,         \* the step of the chain it is at
  presented,    \* the key the server of that step presented last
  open,         \* the transports established
  pending,      \* pending_command: a sequence of at most one command
  integration,  \* the shell probe, then the cwd hook
  reads,        \* the output read from the shell
  \* The remote side.
  recorded,     \* known_hosts as it was when the connection started
  learned,      \* the keys this connection added to it
  remote,       \* the size of the remote PTY; before there is one, latest_size
  received      \* what was typed into the shell

channelVars == <<commands, events, handle, listening, decisions, asking>>
chainVars   == <<session, step, presented, open>>
shellVars   == <<pending, integration, reads, remote, received>>
hostVars    == <<recorded, learned>>
workerVars  == <<pc, exit, chainVars, shellVars, hostVars>>

Waiting == {"Opening", "Deciding", "Trusting", "Authenticating", "OpeningShell"}
WorkerPlaces == Waiting \cup {"Start", "Ready", "Running", "Exiting", "Ended"}

SessionStates ==
  {"Disconnected", "Connecting", "Authenticating", "Connected", "Disconnecting", "Failed"}

Input(n)     == [kind |-> "Input", n |-> n]
Resize(size) == [kind |-> "Resize", size |-> size]
Disconnect   == [kind |-> "Disconnect"]

StateChanged(state) == [kind |-> "StateChanged", state |-> state]
HostKeyVerificationRequired(s, key) ==
  [kind |-> "HostKeyVerificationRequired", step |-> s, key |-> key]
Resized(size) == [kind |-> "Resized", size |-> size]
Output == [kind |-> "Output"]
Closed == [kind |-> "Closed"]
Failed == [kind |-> "Failed"]

WorkerInit ==
  /\ pc = "Start" /\ exit = <<>>
  /\ session = "Disconnected"
  /\ step = 1 /\ presented = (CHOOSE key \in Keys : TRUE) /\ open = {}
  /\ pending = <<>> /\ integration = "Detecting" /\ reads = 0
  /\ recorded \in KnownHosts /\ learned = {}
  /\ remote = DefaultSize /\ received = <<>>

ChannelInit ==
  /\ commands = <<>> /\ events = <<>>
  /\ handle = TRUE /\ listening = TRUE
  /\ decisions = <<>> /\ asking = FALSE

-----------------------------------------------------------------------------
(* How the worker speaks and how it leaves.                                *)

\* Wrong: the worker does not wait for room.
EmitWithoutRoom(event) == listening /\ events' = Append(events, event)

\* events.send(..).await, once there is room.
Emit(event) ==
  /\ listening
  /\ Len(events) < EventCapacity
  /\ events' = Append(events, event)

\* Wrong: a failure returns without closing what is established.
ChainFailsOpen == <<"Failed">>

\* Wrong: the end of a session is not told.
ShellDisconnectsSilently == <<"Disconnecting", "Close">>

\* The ways out: what is done, in order, before run_connection_plan returns.
ChainFails        == <<"Close", "Failed">>
ChainDisconnects  == <<"Close", "Disconnecting", "Disconnected">>
ShellFails        == <<"Failed", "Close">>
ShellDisconnects  == <<"Disconnecting", "Close", "Disconnected">>

Leave(way) == pc' = "Exiting" /\ exit' = way

\* The same, and what the main loop knew of the shell is gone with it.
LeaveShell(way) ==
  /\ Leave(way)
  /\ pending' = <<>> /\ integration' = "Detecting" /\ reads' = 0
  /\ UNCHANGED remote /\ received' = <<>>

\* The user, or the end of the window, stops an operation the worker waits for.
\* A key being recorded when it is stopped may still reach known_hosts.
StopWaiting ==
  /\ Leave(IF pc = "OpeningShell" THEN ShellDisconnects ELSE ChainDisconnects)
  /\ asking' = FALSE
  /\ \/ UNCHANGED learned
     \/ pc = "Trusting" /\ learned' = learned \cup {<<step, presented>>}

\* wait_for_operation and wait_for_host_key_decision: the commands taken while an
\* operation is under way. A resize is remembered, input is dropped.
TakeWhileWaiting ==
  /\ pc \in Waiting
  /\ commands # <<>>
  /\ commands' = Tail(commands)
  /\ \/ /\ Head(commands).kind = "Resize"
        /\ remote' = Head(commands).size
        /\ UNCHANGED <<pc, exit, asking, learned>>
     \/ /\ Head(commands).kind = "Input"
        /\ UNCHANGED <<pc, exit, asking, learned, remote>>
     \/ /\ Head(commands).kind = "Disconnect"
        /\ StopWaiting
        /\ UNCHANGED remote
  /\ UNCHANGED <<events, handle, listening, decisions, session, step, presented, open,
                 pending, integration, reads, received, recorded>>

\* commands.recv() answers None: the window dropped its handle.
AbandonWaiting ==
  /\ pc \in Waiting
  /\ ~handle /\ commands = <<>>
  /\ StopWaiting
  /\ UNCHANGED <<commands, events, handle, listening, decisions, chainVars, shellVars, recorded>>

\* A send that fails because the pump is gone: the worker closes what it has and
\* returns without a word.
SendFails ==
  /\ ~listening
  /\ pc \in (Waiting \cup {"Start", "Ready", "Running"}) \ {"Deciding", "Trusting"}
  /\ LeaveShell(<<"Close">>)
  /\ UNCHANGED <<channelVars, chainVars, hostVars>>

\* What is left to do on the way out, one transport or one event at a time. The
\* errors of report_failure and finish_disconnection are ignored.
Unwind ==
  /\ pc = "Exiting"
  /\ \/ /\ exit = <<>>
        /\ pc' = "Ended"
        /\ UNCHANGED <<exit, session, open, events>>
     \/ /\ exit # <<>> /\ Head(exit) = "Close"
        /\ IF open = {}
             THEN exit' = Tail(exit) /\ UNCHANGED open
             ELSE open' = open \ {Max(open)} /\ UNCHANGED exit
        /\ UNCHANGED <<pc, session, events>>
     \/ /\ exit # <<>> /\ Head(exit) # "Close"
        /\ session' = Head(exit)
        /\ \/ Emit(IF Head(exit) = "Failed" THEN Failed ELSE StateChanged(Head(exit)))
           \/ ~listening /\ UNCHANGED events
        /\ exit' = Tail(exit)
        /\ UNCHANGED <<pc, open>>
  /\ UNCHANGED <<commands, handle, listening, decisions, asking, step, presented, shellVars, hostVars>>

-----------------------------------------------------------------------------
(* The chain of transports.                                                *)

\* The session begins; an invalid plan ends it.
Begin ==
  /\ pc = "Start"
  /\ session' = "Connecting"
  /\ Emit(StateChanged("Connecting"))
  /\ \/ pc' = "Opening" /\ UNCHANGED exit
     \/ Leave(<<"Failed">>)
  /\ UNCHANGED <<commands, handle, listening, decisions, asking, step, presented, open, shellVars, hostVars>>

Known(s)   == {key \in Keys : <<s, key>> \in recorded \cup learned}

\* The server's key is in known_hosts: the transport is up. Authentication is
\* announced once, for the first step.
OpenTransport ==
  /\ pc = "Opening"
  /\ presented' \in Known(step)
  /\ open' = open \cup {step}
  /\ pc' = "Authenticating"
  /\ IF session = "Connecting"
       THEN session' = "Authenticating" /\ Emit(StateChanged("Authenticating"))
       ELSE UNCHANGED <<session, events>>
  /\ UNCHANGED <<exit, commands, handle, listening, decisions, asking, step, shellVars, hostVars>>

\* The server's key is unknown: the user is asked, and the transport is gone.
AskForKey ==
  /\ pc = "Opening"
  /\ presented' \in Keys \ Known(step)
  /\ asking' = TRUE
  /\ Emit(HostKeyVerificationRequired(step, presented'))
  /\ pc' = "Deciding"
  /\ UNCHANGED <<exit, commands, handle, listening, decisions, session, step, open, shellVars, hostVars>>

\* The network, the proxy, a timeout or a changed key fails the opening; or the
\* credentials, a timeout or the network fail the authentication; or known_hosts
\* cannot be written.
ChainStepFails ==
  /\ pc \in {"Opening", "Authenticating", "Trusting"}
  /\ Leave(ChainFails)
  /\ UNCHANGED <<channelVars, chainVars, shellVars, hostVars>>

\* The decision is taken. Without a window the channel answers with an error.
TakeDecision ==
  /\ pc = "Deciding"
  /\ decisions # <<>> \/ ~handle
  /\ asking' = FALSE
  /\ decisions' = IF decisions = <<>> THEN <<>> ELSE Tail(decisions)
  /\ IF decisions # <<>> /\ Head(decisions) = "Trust"
       THEN pc' = "Trusting" /\ UNCHANGED exit
       ELSE Leave(ChainFails)
  /\ UNCHANGED <<commands, events, handle, listening, chainVars, shellVars, hostVars>>

\* PendingHostKey::trust: the key is recorded, and the same step is opened again.
Trust ==
  /\ pc = "Trusting"
  /\ learned' = learned \cup {<<step, presented>>}
  /\ pc' = "Opening"
  /\ UNCHANGED <<exit, channelVars, chainVars, shellVars, recorded>>

Authenticate ==
  /\ pc = "Authenticating"
  /\ IF step < Steps
       THEN pc' = "Opening" /\ step' = step + 1
       ELSE pc' = "OpeningShell" /\ UNCHANGED step
  /\ UNCHANGED <<exit, channelVars, session, presented, open, shellVars, hostVars>>

\* The shell is open with the size it was asked for; a size that came meanwhile is
\* applied.
OpenShell ==
  /\ pc = "OpeningShell"
  /\ Emit(Resized(remote))
  /\ pc' = "Ready"
  /\ UNCHANGED <<exit, commands, handle, listening, decisions, asking, chainVars, shellVars,
                 hostVars>>

MarkConnected ==
  /\ pc = "Ready"
  /\ session' = "Connected"
  /\ Emit(StateChanged("Connected"))
  /\ pc' = "Running"
  /\ UNCHANGED <<exit, commands, handle, listening, decisions, asking, step, presented, open,
                 shellVars, hostVars>>

-----------------------------------------------------------------------------
(* The main loop.                                                          *)

\* The commands in the order the loop takes them.
Inbox == pending \o commands

\* coalesce_queued_resizes: how many commands, the first included, are resizes
\* in a row.
ResizeRun(queue) ==
  Max({n \in 0..Len(queue) : \A i \in 1..n : queue[i].kind = "Resize"})

\* Wrong: the command that ends the run is forgotten.
KeepAfterResizesLosing(queue) == <<>>

\* The command after the run, taken out of the channel to find that the run ends.
KeepAfterResizes(queue) ==
  LET n == ResizeRun(queue) IN IF n < Len(queue) THEN <<queue[n + 1]>> ELSE <<>>

RunCommand ==
  /\ pc = "Running"
  /\ Inbox # <<>>
  /\ \/ /\ Head(Inbox).kind = "Input"
        /\ received' = Append(received, Head(Inbox).n)
        /\ pending' = <<>>
        /\ commands' = Tail(Inbox)
        /\ UNCHANGED <<pc, exit, remote, integration, reads, events>>
     \/ /\ Head(Inbox).kind = "Resize"
        /\ LET n == ResizeRun(Inbox) IN
             /\ remote' = Inbox[n].size
             /\ Emit(Resized(Inbox[n].size))
             /\ pending' = KeepAfterResizes(Inbox)
             /\ commands' = SubSeq(Inbox, n + 2, Len(Inbox))
        /\ UNCHANGED <<pc, exit, received, integration, reads>>
     \/ /\ Head(Inbox).kind = "Disconnect"
        /\ LeaveShell(ShellDisconnects)
        /\ commands' = Tail(Inbox)
        /\ UNCHANGED events
  /\ UNCHANGED <<handle, listening, decisions, asking, chainVars, hostVars>>

\* The window dropped its handle.
AbandonShell ==
  /\ pc = "Running"
  /\ ~handle /\ Inbox = <<>>
  /\ LeaveShell(ShellDisconnects)
  /\ UNCHANGED <<channelVars, chainVars, hostVars>>

\* Input or a resize cannot be written, or the shell cannot be opened.
ShellStepFails ==
  /\ \/ pc = "Running" /\ Inbox # <<>> /\ Head(Inbox).kind \in {"Input", "Resize"}
     \/ pc = "Running" /\ integration = "Armed"
     \/ pc = "OpeningShell"
  /\ LeaveShell(ShellFails)
  /\ UNCHANGED <<channelVars, chainVars, hostVars>>

\* detect_shell answers: a shell with a hook, or none. The hook waits for output.
DetectShell ==
  /\ pc = "Running" /\ pending = <<>>
  /\ integration = "Detecting"
  /\ integration' \in {IF reads > 0 THEN "Armed" ELSE "Found", "Off"}
  /\ UNCHANGED <<pc, exit, channelVars, chainVars, pending, reads, remote, received, hostVars>>

\* What the program types itself; the user's input is numbered from 1.
Hook == 0

\* The shell has been quiet for SHELL_INTEGRATION_QUIET_PERIOD: the hook is typed.
InstallHook ==
  /\ pc = "Running" /\ pending = <<>>
  /\ integration = "Armed"
  /\ integration' = "Off"
  /\ received' = Append(received, Hook)
  /\ UNCHANGED <<pc, exit, channelVars, chainVars, pending, reads, remote, hostVars>>

ReadShell ==
  /\ pc = "Running" /\ pending = <<>>
  /\ \/ /\ reads < MaxReads
        /\ reads' = reads + 1
        /\ integration' = IF integration = "Found" THEN "Armed" ELSE integration
        /\ Emit(Output)
        /\ UNCHANGED <<pc, exit, pending, remote, received>>
     \/ Emit(Closed) /\ LeaveShell(ShellDisconnects)
  /\ UNCHANGED <<commands, handle, listening, decisions, asking, chainVars, hostVars>>

WorkerStep ==
  \/ Begin \/ OpenTransport \/ AskForKey \/ ChainStepFails \/ TakeDecision \/ Trust
  \/ Authenticate \/ OpenShell \/ MarkConnected
  \/ RunCommand \/ AbandonShell \/ ShellStepFails \/ DetectShell \/ InstallHook \/ ReadShell
  \/ TakeWhileWaiting \/ AbandonWaiting \/ SendFails \/ Unwind

\* What the runtime does in the end: take commands, unwind, and the steps of the
\* worker that wait for nobody. The network may be silent for ever.
WorkerProgress ==
  Begin \/ MarkConnected \/ RunCommand \/ AbandonShell \/ TakeWhileWaiting \/ AbandonWaiting
    \/ SendFails \/ Unwind

\* The types of the worker's state.
WorkerTypeOK ==
  /\ pc \in WorkerPlaces
  /\ exit \in Seq({"Close", "Failed", "Disconnecting", "Disconnected"})
  /\ session \in SessionStates
  /\ step \in 1..Steps /\ presented \in Keys /\ open \subseteq 1..Steps
  /\ remote \in Sizes
  /\ Len(pending) <= 1
  /\ integration \in {"Detecting", "Found", "Armed", "Off"}
  /\ reads \in 0..MaxReads
  /\ learned \subseteq (1..Steps) \X Keys
=============================================================================
