--------------------------- MODULE TerminalSystem ---------------------------
(***************************************************************************)
(* One terminal of the window and the worker behind it: an SSH connection  *)
(* (ConnectionWorker) or a local shell (LocalTerminal), joined by a        *)
(* command channel and an event channel.                                   *)
(*                                                                         *)
(* The window's side is terminal_session.rs with the host-key prompt and   *)
(* the event handlers of connection_flow.rs: what the user types, how the  *)
(* layout's size reaches the PTY and comes back, the decision on a host    *)
(* key, and the end of the session.                                        *)
(***************************************************************************)
EXTENDS ConnectionWorker

CONSTANTS
  MaxActs       \* bound: pieces of input typed and changes of the layout

ASSUME ActsAssumption == MaxActs \in Nat

VARIABLES
  kind,         \* TerminalSessionKind
  child, reader, readerFailed,   \* see LocalTerminal
  shown,        \* connection_state of the session; "Removed" without it
  prompt,       \* host_key_prompt: at most one <<step, key>>
  ptySize,      \* pty_size, the size the screen has
  pendingSize,  \* pending_pty_size: at most one size
  timer,        \* terminal_resize_task: at most one size
  layout,       \* the size the pane has room for
  layouts,      \* how often that changed
  typed,        \* how much input was sent
  approved      \* the keys the user was shown when they chose to trust

Local == INSTANCE LocalTerminal

localVars  == <<child, reader, readerFailed>>
sizeVars   == <<ptySize, pendingSize, timer, layout, layouts>>
windowVars == <<kind, shown, prompt, sizeVars, typed, approved>>
allVars    == <<channelVars, workerVars, localVars, windowVars>>

SystemInit ==
  /\ kind \in {"Ssh", "Local"}
  /\ WorkerInit /\ ChannelInit
  /\ Local!LocalInit
  /\ kind = "Local" => recorded = {}
  /\ shown = "Connecting"
  /\ prompt = {}
  /\ ptySize = DefaultSize /\ pendingSize = {} /\ timer = {}
  /\ layout = DefaultSize /\ layouts = 0
  /\ typed = 0
  /\ approved = {}

-----------------------------------------------------------------------------
(* The user.                                                               *)

CanDisconnect == shown \in {"Connecting", "Authenticating", "Connected"}

\* The command channel's receiver is dropped when the worker returns.
Send(command) == pc # "Ended" /\ commands' = Append(commands, command)

\* send_terminal_input: only a connected session takes input.
Type ==
  /\ shown = "Connected" /\ handle
  /\ typed + layouts < MaxActs
  /\ Send(Input(typed + 1))
  /\ typed' = typed + 1
  /\ UNCHANGED <<events, handle, listening, decisions, asking, workerVars, localVars, kind, shown,
                 prompt, sizeVars, approved>>

\* The pane of a terminal in use is resized.
Lay ==
  /\ CanDisconnect
  /\ typed + layouts < MaxActs
  /\ layouts' = layouts + 1
  /\ layout' \in Sizes \ {layout}
  /\ UNCHANGED <<channelVars, workerVars, localVars, kind, shown, prompt, ptySize, pendingSize,
                 timer, typed, approved>>

\* Wrong: the decision leaves the prompt up, so that it can be answered again.
AnswerPromptTwice(decision) ==
  /\ shown # "Removed" /\ handle
  /\ prompt # {}
  /\ UNCHANGED prompt
  /\ IF asking /\ pc # "Ended"
       THEN /\ asking' = FALSE
            /\ decisions' = Append(decisions, decision)
            /\ approved' = IF decision = "Trust" THEN approved \cup prompt ELSE approved
       ELSE UNCHANGED <<asking, decisions, approved>>
  /\ UNCHANGED <<commands, events, handle, listening, workerVars, localVars, kind, shown, sizeVars,
                 typed>>

\* trust_pending_host_key and reject_pending_host_key take the prompt;
\* send_host_key_decision sends the decision if one is awaited.
AnswerPrompt(decision) ==
  /\ shown # "Removed" /\ handle
  /\ prompt # {}
  /\ prompt' = {}
  /\ IF asking /\ pc # "Ended"
       THEN /\ asking' = FALSE
            /\ decisions' = Append(decisions, decision)
            /\ approved' = IF decision = "Trust" THEN approved \cup prompt ELSE approved
       ELSE UNCHANGED <<asking, decisions, approved>>
  /\ UNCHANGED <<commands, events, handle, listening, workerVars, localVars, kind, shown, sizeVars,
                 typed>>

\* disconnect_session. A worker that has returned cannot be told: the session fails.
DisconnectSession ==
  /\ CanDisconnect
  /\ timer' = {}
  /\ \/ /\ handle /\ Send(Disconnect)
        /\ shown' = "Disconnecting"
        /\ UNCHANGED handle
     \/ /\ ~handle \/ pc = "Ended"
        /\ shown' = "Failed"
        /\ handle' = FALSE
        /\ UNCHANGED commands
  /\ UNCHANGED <<events, listening, decisions, asking, workerVars, localVars, kind, prompt,
                 ptySize, pendingSize, layout, layouts, typed, approved>>

\* remove_session drops the screen and the handle; the pump stays and its events find no session.
\* With the window's entity the pump goes too.
RemoveSession ==
  /\ shown # "Removed"
  /\ shown' = "Removed"
  /\ handle' = FALSE
  /\ listening' \in {TRUE, FALSE}
  /\ timer' = {} /\ prompt' = {}
  /\ ptySize' = DefaultSize /\ pendingSize' = {} /\ layout' = DefaultSize
  /\ UNCHANGED <<commands, events, decisions, asking, workerVars, localVars, kind, layouts, typed,
                 approved>>

-----------------------------------------------------------------------------
(* The size of the terminal.                                               *)

\* apply_terminal_layout, with every frame: a size that is neither the PTY's nor on
\* its way there is staged, and sent when the layout has settled.
Render ==
  /\ shown # "Removed"
  /\ layout # (IF pendingSize = {} THEN ptySize ELSE CHOOSE size \in pendingSize : TRUE)
  /\ pendingSize' = {layout}
  /\ timer' = {layout}
  /\ UNCHANGED <<channelVars, workerVars, localVars, kind, shown, prompt, ptySize, layout, layouts,
                 typed, approved>>

\* TERMINAL_RESIZE_DEBOUNCE is over.
ResizeTimer ==
  /\ timer # {}
  /\ timer' = {}
  /\ IF timer = pendingSize /\ handle /\ pc # "Ended"
       THEN \E size \in timer : Send(Resize(size))
       ELSE UNCHANGED commands
  /\ UNCHANGED <<events, handle, listening, decisions, asking, workerVars, localVars, kind, shown,
                 prompt, ptySize, pendingSize, layout, layouts, typed, approved>>

\* Wrong: an acknowledgement leaves the size awaited.
KeepingPending(size) == pendingSize

\* acknowledge_resize: only the size awaited clears it.
PendingAfter(size) == pendingSize \ {size}

-----------------------------------------------------------------------------
(* The pump and the handlers of the events.                                *)

\* The session is over: its handle and its timer go.
SessionOver(state) ==
  /\ shown' = state
  /\ handle' = FALSE
  /\ timer' = {}
  /\ prompt' = {}
  /\ UNCHANGED <<ptySize, pendingSize>>

Handle(event) ==
  \/ /\ shown = "Removed" \/ event.kind \in {"Output", "Closed"}
     /\ UNCHANGED <<shown, handle, timer, prompt, ptySize, pendingSize>>
  \/ /\ shown # "Removed"
     /\ event.kind = "StateChanged" /\ event.state # "Disconnected"
     /\ shown' = event.state
     /\ prompt' = IF event.state \in {"Authenticating", "Connected"} THEN {} ELSE prompt
     /\ UNCHANGED <<handle, timer, ptySize, pendingSize>>
  \/ /\ shown # "Removed"
     /\ event.kind = "Started"
     /\ shown' = "Connected"
     /\ UNCHANGED <<handle, timer, prompt, ptySize, pendingSize>>
  \/ /\ shown # "Removed"
     /\ event.kind = "HostKeyVerificationRequired"
     /\ prompt' = {<<event.step, event.key>>}
     /\ UNCHANGED <<shown, handle, timer, ptySize, pendingSize>>
  \/ /\ shown # "Removed"
     /\ event.kind = "Resized"
     /\ ptySize' = event.size
     /\ pendingSize' = PendingAfter(event.size)
     /\ UNCHANGED <<shown, handle, timer, prompt>>
  \/ /\ shown # "Removed"
     /\ event.kind = "Exited" \/ (event.kind = "StateChanged" /\ event.state = "Disconnected")
     /\ SessionOver("Disconnected")
  \/ /\ shown # "Removed"
     /\ event.kind = "Failed"
     /\ SessionOver("Failed")

Pump ==
  /\ listening
  /\ events # <<>>
  /\ Handle(Head(events))
  /\ events' = Tail(events)
  /\ UNCHANGED <<commands, listening, decisions, asking, workerVars, localVars, kind, layout,
                 layouts, typed, approved>>

-----------------------------------------------------------------------------
SshStep == kind = "Ssh" /\ WorkerStep /\ UNCHANGED <<localVars, windowVars>>

LocalStep ==
  /\ kind = "Local"
  /\ Local!LocalStep
  /\ UNCHANGED <<decisions, asking, exit, chainVars, pending, integration, hostVars, windowVars>>

Next ==
  \/ Type \/ Lay \/ DisconnectSession \/ RemoveSession
  \/ \E decision \in {"Trust", "Reject"} : AnswerPrompt(decision)
  \/ Render \/ ResizeTimer \/ Pump
  \/ SshStep \/ LocalStep

\* The user-interface thread renders, runs its timers and the pump; the worker takes
\* its commands. Nobody owes an answer of the network, the user or the shell.
Fairness ==
  /\ WF_allVars(Render) /\ WF_allVars(ResizeTimer) /\ WF_allVars(Pump)
  /\ WF_allVars(kind = "Ssh" /\ WorkerProgress /\ UNCHANGED <<localVars, windowVars>>)
  /\ WF_allVars(/\ kind = "Local" /\ Local!LocalProgress
                /\ UNCHANGED <<decisions, asking, exit, chainVars, pending, integration, hostVars,
                               windowVars>>)

Spec == SystemInit /\ [][Next]_allVars /\ Fairness

-----------------------------------------------------------------------------
\* The types of the state, the worker's and the window's.
TerminalTypeOK ==
  /\ kind = "Ssh" => WorkerTypeOK
  /\ kind = "Local" => Local!LocalTypeOK
  /\ shown \in SessionStates \cup {"Removed"}
  /\ prompt \subseteq (1..Steps) \X Keys /\ Cardinality(prompt) <= 1
  /\ {ptySize, layout} \cup pendingSize \cup timer \subseteq Sizes
  /\ Len(events) <= EventCapacity \/ kind = "Local"
  /\ approved \subseteq (1..Steps) \X Keys

\* A connection adds to known_hosts only keys the user was looking at, for that
\* very step, when they chose to trust (trust_pending_host_key, send_host_key_decision).
OnlyApprovedKeysLearned == learned \subseteq approved

\* The transports established are always the first steps of the chain, so that none
\* is closed under one that runs through it; and a worker that has returned has
\* closed them all, or killed its shell (disconnect_established, close_resources).
ClosedInOrder ==
  /\ \E n \in 0..Steps : open = 1..n
  /\ pc = "Ended" => open = {} /\ child # "Running" /\ child # "Exited"

\* All that was and will be typed into the shell as things stand; Hook where a place is
\* not taken by input of the user.
Stream ==
  received \o [i \in DOMAIN Inbox |-> IF Inbox[i].kind = "Input" THEN Inbox[i].n ELSE Hook]

Ordered(stream, n) ==
  /\ {stream[i] : i \in DOMAIN stream} \ {Hook} = 1..n
  /\ \A i, j \in DOMAIN stream :
       i < j /\ Hook \notin {stream[i], stream[j]} => stream[i] < stream[j]

\* What was typed and what is on its way to a running shell is everything the user
\* typed, once, in order: no coalescing of resizes, no command taken while waiting
\* and no hook typed by the program loses or overtakes a key (run_connection_plan,
\* coalesce_queued_resizes, run_local_terminal).
TypedInOrder == pc \in {"Running", "Polling", "Inspecting"} => Ordered(Stream, typed)

\* Once the layout is at rest, a connected terminal's screen, its PTY and its layout
\* come to have one size, whatever resizes crossed whatever acknowledgements
\* (apply_terminal_layout, schedule_terminal_resize, acknowledge_resize).
SizesSettle ==
  <>[](shown = "Connected" /\ pc # "Ended" => layout = ptySize /\ layout = remote /\ pendingSize = {})

\* A session the user disconnects comes to rest, even when late events of the worker
\* show it in another state first; and a worker that returned is not shown as
\* connected for ever, unless it was a local one whose output thread failed
\* (disconnect_session, finish_disconnection, the end of run_local_terminal).
EndReachesWindow ==
  /\ (shown = "Disconnecting") ~> (shown \in {"Disconnected", "Failed", "Removed"})
  /\ (pc = "Ended") ~> (shown \in {"Disconnected", "Failed", "Removed"} \/ readerFailed)
=============================================================================
