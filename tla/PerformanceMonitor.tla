------------------------- MODULE PerformanceMonitor -------------------------
(***************************************************************************)
(* The performance panel of the window and the monitors that feed it:      *)
(* sync_performance_monitoring and ServerPerformanceState                  *)
(* (app/performance.rs), what the connection worker does with the command  *)
(* (remcmd-ssh connection.rs), and PerformanceMonitorHandle (performance.rs*)
(* of remcmd-ssh).                                                         *)
(*                                                                         *)
(* The window keeps, for each session, whether it has asked for samples.   *)
(* The worker keeps the handle of the monitor it has spawned.  A monitor   *)
(* is a task of its own: dropping its handle only asks it to stop, and it  *)
(* may be collecting a sample then, so that samples arrive late, after the *)
(* connection's last state too.  Each connection has an event channel and  *)
(* the window a loop that reads it, which outlives the connection as long  *)
(* as a monitor does.                                                      *)
(*                                                                         *)
(* Of a connection's life only what the panel depends on is here, see      *)
(* ConnectionWorker and SessionFlow for the rest.  Of a sample only the    *)
(* connection it was taken through matters.                                *)
(***************************************************************************)
EXTENDS Naturals, Sequences

CONSTANTS
  Sessions,       \* the ids of SSH sessions, each used once
  MaxConnections, \* bound: connections ever started
  MaxActs,        \* bound: acts of the user
  MaxSamples      \* bound: samples waiting in one channel

VARIABLES
  \* The window.
  used, open,     \* session ids ever given, and the sessions there are
  state,          \* connection_state
  handle,         \* connection_handle: the connection, or 0
  closing,        \* close_when_disconnected
  perf,           \* ServerPerformanceState
  active,         \* active_session_id: at most one session
  watching,       \* right_sidebar_open, with right_sidebar_view at Performance
  acts,
  \* The connections, numbered as they are started.
  started, owner,
  phase,          \* of the worker
  commands,       \* waiting in the command channel
  monitor,        \* performance_monitor: whether the worker holds a handle
  stopping,       \* monitors told to stop that have not yet done so
  events          \* waiting in the event channel

window == <<used, open, state, handle, closing, perf, active, watching, acts>>
vars == <<window, started, owner, phase, commands, monitor, stopping, events>>

Connections == 1..MaxConnections
States == {"Disconnected", "Connecting", "Connected", "Disconnecting", "Failed"}
StateEvents == {"Connected", "Disconnecting", "Disconnected", "Failed"}
Samples == {"Snapshot", "PerformanceFailed"}
Commands == {"On", "Off", "Disconnect"}

\* clear_connection; the counters of the previous sample come and go with the snapshot.
Cleared == [monitoring |-> FALSE, loading |-> FALSE, error |-> FALSE, snapshot |-> 0]

Init ==
  /\ used = {} /\ open = {} /\ active = {} /\ watching = FALSE /\ acts = 0
  /\ state = [s \in Sessions |-> "Disconnected"]
  /\ handle = [s \in Sessions |-> 0]
  /\ closing = [s \in Sessions |-> FALSE]
  /\ perf = [s \in Sessions |-> Cleared]
  /\ started = 0
  /\ owner \in [Connections -> Sessions]
  /\ phase = [c \in Connections |-> "New"]
  /\ commands = [c \in Connections |-> <<>>]
  /\ monitor = [c \in Connections |-> FALSE]
  /\ stopping = [c \in Connections |-> 0]
  /\ events = [c \in Connections |-> <<>>]

-----------------------------------------------------------------------------
(* sync_performance_monitoring, at the end of a handler: p is what the     *)
(* handler has made of perf, and out of the commands.                      *)

ShouldMonitor(s) ==
  watching /\ s \in active /\ state[s] = "Connected" /\ handle[s] # 0

\* send fails without a handle and once the worker has returned.
Heard(c) == c # 0 /\ phase[c] # "Ended"

Synced(s, p) ==
  IF s \notin open' \/ p.monitoring = ShouldMonitor(s)' THEN p
  ELSE IF handle'[s] = 0 THEN [p EXCEPT !.monitoring = FALSE, !.loading = FALSE]
  ELSE IF ~Heard(handle'[s]) THEN [p EXCEPT !.monitoring = FALSE, !.loading = FALSE, !.error = TRUE]
  ELSE [p EXCEPT !.monitoring = ShouldMonitor(s)',
                 !.loading = ShouldMonitor(s)' /\ p.snapshot = 0,
                 !.error = p.error /\ ~ShouldMonitor(s)']

Told(c, p) ==
  LET s == owner[c] IN
  s \in open' /\ handle'[s] = c /\ Heard(c) /\ p[s].monitoring # ShouldMonitor(s)'

Sync(p, out) ==
  /\ perf' = [s \in Sessions |-> Synced(s, p[s])]
  /\ commands' = [c \in Connections |->
       IF ~Told(c, p) THEN out[c]
       ELSE Append(out[c], IF ShouldMonitor(owner[c])' THEN "On" ELSE "Off")]

-----------------------------------------------------------------------------
(* The user.                                                               *)

Act == acts < MaxActs /\ acts' = acts + 1

\* A session is made, with a tab that is shown.
OpenSession(s) ==
  /\ Act
  /\ s \notin used /\ used' = used \cup {s} /\ open' = open \cup {s}
  /\ active' = {s}
  /\ UNCHANGED <<state, handle, closing, watching, started, owner, phase, monitor, stopping, events>>
  /\ Sync(perf, commands)

\* set_active_pane, show_home, show_about, select_profile.
Show(shown) ==
  /\ Act
  /\ active' = shown
  /\ UNCHANGED <<used, open, state, handle, closing, watching, started, owner, phase, monitor,
                 stopping, events>>
  /\ Sync(perf, commands)

\* edit_profile leaves the monitoring as it is.
EditProfile ==
  /\ Act
  /\ active' = {}
  /\ UNCHANGED <<used, open, state, handle, closing, perf, watching, started, owner, phase,
                 commands, monitor, stopping, events>>

\* toggle_right_sidebar, set_right_sidebar_view.
SetSidebar(performance) ==
  /\ Act
  /\ watching' = performance
  /\ UNCHANGED <<used, open, state, handle, closing, active, started, owner, phase, monitor,
                 stopping, events>>
  /\ Sync(perf, commands)

\* start_connection_plan.  What the last connection had to say of its state has been heard.
StartConnection(s) ==
  /\ Act
  /\ s \in open /\ state[s] \in {"Disconnected", "Failed"}
  /\ \A c \in 1..started : owner[c] = s => \A i \in DOMAIN events[c] : events[c][i] \in Samples
  /\ started < MaxConnections
  /\ started' = started + 1
  /\ owner' = [owner EXCEPT ![started + 1] = s]
  /\ phase' = [phase EXCEPT ![started + 1] = "Starting"]
  /\ state' = [state EXCEPT ![s] = "Connecting"]
  /\ handle' = [handle EXCEPT ![s] = started + 1]
  /\ closing' = [closing EXCEPT ![s] = FALSE]
  /\ UNCHANGED <<used, open, perf, active, watching, commands, monitor, stopping, events>>

\* remove_session, with the pane: another may be shown.
Removed(s, shown) ==
  /\ open' = open \ {s}
  /\ handle' = [handle EXCEPT ![s] = 0]
  /\ active' = IF active = {s} THEN shown ELSE active
  /\ shown \in {{}} \cup {{t} : t \in open \ {s}}

\* disconnect_session, of a connection that was asked to go (close) or not.
Disconnect(s, close) ==
  /\ Act
  /\ s \in open /\ state[s] \in {"Connecting", "Connected"}
  /\ UNCHANGED <<used, watching, started, owner, phase, monitor, stopping, events>>
  /\ closing' = [closing EXCEPT ![s] = @ \/ close]
  /\ IF Heard(handle[s])
     THEN LET out == [commands EXCEPT ![handle[s]] = Append(@, "Disconnect")] IN
          /\ state' = [state EXCEPT ![s] = "Disconnecting"]
          /\ UNCHANGED <<open, handle>>
          /\ IF close  \* its pane goes first
             THEN /\ active' = IF active = {s} THEN {} ELSE active
                  /\ Sync(perf, out)
             ELSE active' = active /\ perf' = perf /\ commands' = out
     ELSE /\ state' = [state EXCEPT ![s] = "Failed"]
          /\ IF closing'[s]
             THEN (\E shown \in {{}} \cup {{t} : t \in open} : Removed(s, shown)) /\ Sync(perf, commands)
             ELSE /\ handle' = [handle EXCEPT ![s] = 0]
                  /\ UNCHANGED <<open, active, perf, commands>>

\* close_session of a terminal that has ended.
Close(s) ==
  /\ Act
  /\ s \in open /\ state[s] \in {"Disconnected", "Failed"}
  /\ \E shown \in {{}} \cup {{t} : t \in open} : Removed(s, shown)
  /\ UNCHANGED <<used, state, closing, watching, started, owner, phase, monitor, stopping, events>>
  /\ Sync(perf, commands)

-----------------------------------------------------------------------------
(* handle_connection_event.                                                *)

ClearedBy(p, event) == IF event \in {"Disconnected", "Failed"} THEN Cleared ELSE p

\* update, or the error of a sample.
Sampled(p, event, c) ==
  IF event = "Snapshot" THEN [p EXCEPT !.snapshot = c, !.loading = FALSE, !.error = FALSE]
  ELSE [p EXCEPT !.loading = FALSE, !.error = TRUE]

TakeEvent(c) == events[c] # <<>> /\ events' = [events EXCEPT ![c] = Tail(@)]

HandleState(c) ==
  LET s == owner[c]  event == Head(events[c])  over == event \in {"Disconnected", "Failed"} IN
  /\ TakeEvent(c) /\ event \in StateEvents /\ s \in open
  /\ state' = [state EXCEPT ![s] = event]
  /\ IF over /\ closing[s]
     THEN \E shown \in {{}} \cup {{t} : t \in open} : Removed(s, shown)
     ELSE /\ handle' = IF over THEN [handle EXCEPT ![s] = 0] ELSE handle
          /\ UNCHANGED <<open, active>>
  /\ UNCHANGED <<used, closing, watching, acts, started, owner, phase, monitor, stopping>>
  /\ Sync([perf EXCEPT ![s] = ClearedBy(@, event)], commands)

HandleSample(c) ==
  LET s == owner[c]  event == Head(events[c]) IN
  /\ TakeEvent(c) /\ event \in Samples /\ s \in open
  /\ perf' = [perf EXCEPT ![s] = Sampled(@, event, c)]
  /\ UNCHANGED <<used, open, state, handle, closing, active, watching, acts, started, owner, phase,
                 commands, monitor, stopping>>

\* The session is gone.
IgnoreEvent(c) ==
  /\ TakeEvent(c) /\ owner[c] \notin open
  /\ UNCHANGED <<window, started, owner, phase, commands, monitor, stopping>>

-----------------------------------------------------------------------------
(* The worker of a connection.                                             *)

Emit(c, event) == events' = [events EXCEPT ![c] = Append(@, event)]

\* The shell is open: the state is sent and the command loop begins.
Connect(c) ==
  /\ phase[c] = "Starting"
  /\ phase' = [phase EXCEPT ![c] = "Connected"]
  /\ Emit(c, "Connected")
  /\ UNCHANGED <<window, started, owner, commands, monitor, stopping>>

\* The handle of the monitor is dropped.
StopMonitor(c) ==
  /\ monitor' = [monitor EXCEPT ![c] = FALSE]
  /\ stopping' = [stopping EXCEPT ![c] = @ + (IF monitor[c] THEN 1 ELSE 0)]

\* SetPerformanceMonitoring; while the connection is being made it is dropped.
TakeToggle(c) ==
  /\ phase[c] \in {"Starting", "Connected"} /\ commands[c] # <<>>
  /\ Head(commands[c]) \in {"On", "Off"}
  /\ commands' = [commands EXCEPT ![c] = Tail(@)]
  /\ IF phase[c] = "Connected" /\ Head(commands[c]) = "Off" THEN StopMonitor(c)
     ELSE /\ monitor' = [monitor EXCEPT ![c] = @ \/ phase[c] = "Connected"]
          /\ UNCHANGED stopping
  /\ UNCHANGED <<window, started, owner, phase, events>>

\* Disconnect, the handle dropped by the window, or the shell closed by the server.
BeginDisconnect(c) ==
  /\ phase[c] \in {"Starting", "Connected"}
  /\ \/ commands[c] # <<>> /\ Head(commands[c]) = "Disconnect"
     \/ commands[c] = <<>> /\ ~\E s \in open : handle[s] = c
     \/ phase[c] = "Connected"
  /\ phase' = [phase EXCEPT ![c] = "Closing"]
  /\ Emit(c, "Disconnecting")
  /\ UNCHANGED <<window, started, owner, commands, monitor, stopping>>

FailConnection(c) ==
  /\ phase[c] \in {"Starting", "Connected"}
  /\ phase' = [phase EXCEPT ![c] = "Failing"]
  /\ Emit(c, "Failed")
  /\ UNCHANGED <<window, started, owner, commands, monitor, stopping>>

\* The resources are closed and the worker returns, which drops the monitor's handle.
EndWorker(c) ==
  /\ phase[c] \in {"Closing", "Failing"}
  /\ phase' = [phase EXCEPT ![c] = "Ended"]
  /\ IF phase[c] = "Closing" THEN Emit(c, "Disconnected") ELSE UNCHANGED events
  /\ StopMonitor(c)
  /\ UNCHANGED <<window, started, owner, commands>>

\* A monitor's timer; one that was told to stop may be collecting, or see the tick first.
Collect(c, sample) ==
  /\ monitor[c] \/ stopping[c] > 0
  /\ Len(events[c]) < MaxSamples
  /\ Emit(c, sample)
  /\ UNCHANGED <<window, started, owner, phase, commands, monitor, stopping>>

MonitorStops(c) ==
  /\ stopping[c] > 0 /\ stopping' = [stopping EXCEPT ![c] = @ - 1]
  /\ UNCHANGED <<window, started, owner, phase, commands, monitor, events>>

Next ==
  \/ \E s \in Sessions :
       \/ OpenSession(s) \/ StartConnection(s) \/ Close(s)
       \/ \E close \in BOOLEAN : Disconnect(s, close)
  \/ \E shown \in {{}} \cup {{s} : s \in open} : Show(shown)
  \/ EditProfile
  \/ \E performance \in BOOLEAN : SetSidebar(performance)
  \/ \E c \in Connections :
       \/ HandleState(c) \/ HandleSample(c) \/ IgnoreEvent(c)
       \/ Connect(c) \/ TakeToggle(c) \/ BeginDisconnect(c) \/ FailConnection(c) \/ EndWorker(c)
       \/ MonitorStops(c) \/ \E sample \in Samples : Collect(c, sample)

Spec == Init /\ [][Next]_vars

-----------------------------------------------------------------------------
(* Properties.                                                             *)

PerformanceTypeOK ==
  /\ used \in SUBSET Sessions /\ open \in SUBSET used
  /\ state \in [Sessions -> States] /\ handle \in [Sessions -> 0..started]
  /\ closing \in [Sessions -> BOOLEAN]
  /\ perf \in [Sessions -> [monitoring : BOOLEAN, loading : BOOLEAN, error : BOOLEAN, snapshot : 0..started]]
  /\ active \in SUBSET Sessions /\ watching \in BOOLEAN /\ acts \in Nat
  /\ started \in 0..MaxConnections /\ owner \in [Connections -> Sessions]
  /\ phase \in [Connections -> {"New", "Starting", "Connected", "Closing", "Failing", "Ended"}]
  /\ commands \in [Connections -> Seq(Commands)]
  /\ monitor \in [Connections -> BOOLEAN] /\ stopping \in [Connections -> Nat]
  /\ events \in [Connections -> Seq(StateEvents \cup Samples)]

\* The servers of two sessions are never sampled at the same time for one panel
\* (performance.rs:15).
OneMonitored ==
  \A s, t \in open : perf[s].monitoring /\ perf[t].monitoring => s = t

\* What the queue q makes of a monitor that is there or not (m).
Leads(q, m, flag) ==
  \/ \E i \in DOMAIN q :
       /\ q[i] = IF flag THEN "On" ELSE "Off"
       /\ \A j \in DOMAIN q : j > i => q[j] = "Disconnect"
  \/ m = flag /\ \A i \in DOMAIN q : q[i] = "Disconnect"

\* Once it has taken what was sent, a worker that is not on its way out samples its server
\* just when the window has asked for it, whatever toggles, disconnects and state events
\* cross each other (performance.rs:21, connection.rs:1008).
WorkerFollowsWindow ==
  \A s \in open : handle[s] # 0 =>
    LET c == handle[s] IN
    phase[c] \in {"Starting", "Connected"} => Leads(commands[c], monitor[c], perf[s].monitoring)

\* The panel promises a first sample only while one is asked for, and has neither a sample
\* nor an error to show (performance.rs:32, :616).
LoadingIsTrue ==
  \A s \in open : perf[s].loading =>
    perf[s].monitoring /\ perf[s].snapshot = 0 /\ ~perf[s].error
=============================================================================
