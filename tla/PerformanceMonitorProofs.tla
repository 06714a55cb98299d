---------------------- MODULE PerformanceMonitorProofs ----------------------
(***************************************************************************)
(* Proofs about PerformanceMonitor, for any sessions and any bounds.       *)
(*                                                                         *)
(* A worker follows the window because of who is talking: the handle of a  *)
(* session is that of the only worker of it that is not on its way out,    *)
(* only that worker still has states to report, and a session that has     *)
(* lost its handle asks for nothing once that is heard.  WindowOK says so  *)
(* of the window's side, ReportsOK of the channels'.  Every handler that   *)
(* ends in sync_performance_monitoring is an instance of SyncKeeps.        *)
(***************************************************************************)
EXTENDS PerformanceMonitor, SequenceTheorems, TLAPS

Bounds == MaxConnections \in Nat /\ MaxSamples \in Nat /\ MaxActs \in Nat

Running == {"Starting", "Connected"}
Overs   == {"Disconnected", "Failed"}
Going   == {"Connecting", "Connected", "Disconnecting"}

\* Channel c holds no more states, and channel c holds the last one.
Quiet(c) == \A i \in DOMAIN events[c] : events[c][i] \in Samples
Ends(c)  == \E i \in DOMAIN events[c] : events[c][i] \in Overs

PanelType == [monitoring : BOOLEAN, loading : BOOLEAN, error : BOOLEAN, snapshot : 0..started]

FreshOK ==
  /\ \A c \in Connections : c > started =>
       /\ phase[c] = "New" /\ commands[c] = <<>> /\ events[c] = <<>>
       /\ monitor[c] = FALSE /\ stopping[c] = 0
  /\ \A c \in 1..started : owner[c] \in used
  /\ \A s \in Sessions : s \notin used => handle[s] = 0 /\ perf[s] = Cleared

WindowOK ==
  /\ \A s, t \in active : s = t
  /\ \A s \in open : handle[s] # 0 => owner[handle[s]] = s /\ state[s] \in Going
  /\ \A s \in open : handle[s] = 0 /\ perf[s].monitoring =>
       \E c \in 1..started : owner[c] = s /\ Ends(c)

ReportsOK ==
  \A c \in 1..started :
    LET s == owner[c] IN
    /\ phase[c] = "Starting" => Quiet(c) /\ monitor[c] = FALSE
    /\ (\E i \in DOMAIN events[c] : events[c][i] = "Failed") => phase[c] \in {"Failing", "Ended"}
    /\ (\E i \in DOMAIN events[c] : events[c][i] = "Disconnected") => phase[c] = "Ended"
    /\ s \in open /\ handle[s] # c =>
         phase[c] \in {"Failing", "Ended"} /\ (handle[s] # 0 => Quiet(c))
    /\ s \in open /\ handle[s] = c =>
         /\ phase[c] \in {"Failing", "Ended"} => Ends(c)
         /\ phase[c] = "Starting" => state[s] \in {"Connecting", "Disconnecting"}

\* Nothing is asked of a worker that would not listen.
StartOK ==
  \A s \in open : handle[s] # 0 /\ phase[handle[s]] = "Starting" => ~perf[s].monitoring

IInv ==
  /\ PerformanceTypeOK /\ FreshOK /\ WindowOK /\ ReportsOK /\ StartOK
  /\ OneMonitored /\ WorkerFollowsWindow /\ LoadingIsTrue

LEMMA InitOK ==
  ASSUME Bounds, Init
  PROVE  IInv
<1>1. PerformanceTypeOK
  <2>1. \A c \in Connections : commands[c] \in Seq(Commands) /\ events[c] \in Seq(StateEvents \cup Samples)
    BY EmptySeq DEF Init
  <2>2. started = 0 /\ started \in 0..MaxConnections /\ 0 \in 0..started
    BY DEF Init, Bounds
  <2>3. perf \in [Sessions -> PanelType]
    BY <2>2 DEF Init, Cleared, PanelType
  <2> QED BY <2>1, <2>2, <2>3 DEF Init, PerformanceTypeOK, States, PanelType
<1>2. FreshOK /\ WindowOK /\ ReportsOK /\ StartOK
  BY DEF Init, FreshOK, WindowOK, ReportsOK, StartOK
<1>3. OneMonitored /\ WorkerFollowsWindow /\ LoadingIsTrue
  BY DEF Init, OneMonitored, WorkerFollowsWindow, LoadingIsTrue
<1> QED BY <1>1, <1>2, <1>3 DEF IInv

-----------------------------------------------------------------------------
(* Queues.                                                                 *)

\* A command to come decides, whatever came before it.
LEMMA LeadsAppend ==
  ASSUME NEW q \in Seq(Commands), NEW m, NEW flag \in BOOLEAN
  PROVE  Leads(Append(q, IF flag THEN "On" ELSE "Off"), m, flag)
<1> DEFINE new == IF flag THEN "On" ELSE "Off"
           r == Append(q, new)
<1>1. new \in Commands
  BY DEF Commands
<1>2. Len(q) \in Nat
  BY LenProperties
<1>3. DOMAIN r = 1..(Len(q) + 1) /\ r[Len(q) + 1] = new
  BY <1>1, AppendProperties
<1> HIDE DEF r
<1>4. \A j \in DOMAIN r : ~(j > Len(q) + 1)
  BY <1>2, <1>3
<1> QED BY <1>2, <1>3, <1>4 DEF Leads, r

LEMMA LeadsDisconnect ==
  ASSUME NEW q \in Seq(Commands), NEW m, NEW flag \in BOOLEAN, Leads(q, m, flag)
  PROVE  Leads(Append(q, "Disconnect"), m, flag)
<1> DEFINE r == Append(q, "Disconnect")
<1>1. Len(q) \in Nat /\ DOMAIN q = 1..Len(q)
  BY LenProperties
<1>2. DOMAIN r = 1..(Len(q) + 1) /\ r[Len(q) + 1] = "Disconnect" /\ \A i \in 1..Len(q) : r[i] = q[i]
  BY AppendProperties DEF Commands
<1> HIDE DEF r
<1> QED BY <1>1, <1>2 DEF Leads, r

\* The worker takes the first command and does what it says.
LEMMA LeadsTail ==
  ASSUME NEW q \in Seq(Commands), NEW m \in BOOLEAN, NEW n \in BOOLEAN, NEW flag \in BOOLEAN,
         q # <<>>, Leads(q, m, flag),
         Head(q) = (IF flag THEN "On" ELSE "Off") => n = flag, Head(q) = "Disconnect" => n = m
  PROVE  Leads(Tail(q), n, flag)
<1> DEFINE r == Tail(q)
<1>1. Len(q) \in Nat /\ DOMAIN q = 1..Len(q) /\ Len(q) >= 1
  BY LenProperties, EmptySeq
<1>2. DOMAIN r = 1..(Len(q) - 1) /\ \A i \in 1..(Len(q) - 1) : r[i] = q[i + 1]
  BY HeadTailProperties, LenProperties
<1>3. Head(q) = q[1] /\ q[1] \in Commands
  BY <1>1, HeadTailProperties, ElementOfSeq
<1> HIDE DEF r
<1>4. CASE m = flag /\ \A i \in DOMAIN q : q[i] = "Disconnect"
  BY <1>1, <1>2, <1>3, <1>4 DEF Leads, r
<1>5. CASE \E i \in DOMAIN q : q[i] = (IF flag THEN "On" ELSE "Off")
                               /\ \A j \in DOMAIN q : j > i => q[j] = "Disconnect"
  <2> PICK i \in DOMAIN q : q[i] = (IF flag THEN "On" ELSE "Off")
                            /\ \A j \in DOMAIN q : j > i => q[j] = "Disconnect"
    BY <1>5
  <2>1. CASE i = 1
    <3>1. n = flag
      BY <2>1, <1>3
    <3>2. \A j \in DOMAIN r : r[j] = "Disconnect"
      BY <2>1, <1>1, <1>2
    <3> QED BY <3>1, <3>2 DEF Leads, r
  <2>2. CASE i # 1
    <3>1. i - 1 \in DOMAIN r /\ r[i - 1] = (IF flag THEN "On" ELSE "Off")
      BY <2>2, <1>1, <1>2
    <3>2. \A j \in DOMAIN r : j > i - 1 => r[j] = "Disconnect"
      BY <1>1, <1>2
    <3> QED BY <3>1, <3>2 DEF Leads, r
  <2> QED BY <2>1, <2>2
<1> QED BY <1>4, <1>5 DEF Leads

\* What is left of a channel, and what one more event makes of it.
LEMMA Popped ==
  ASSUME NEW q \in Seq(StateEvents \cup Samples), q # <<>>
  PROVE  /\ Tail(q) \in Seq(StateEvents \cup Samples)
         /\ Head(q) \in StateEvents \cup Samples /\ Head(q) = q[1] /\ 1 \in DOMAIN q
         /\ \A i \in DOMAIN Tail(q) : i + 1 \in DOMAIN q /\ Tail(q)[i] = q[i + 1]
         /\ \A i \in DOMAIN q : i # 1 => i - 1 \in DOMAIN Tail(q) /\ Tail(q)[i - 1] = q[i]
<1>1. Len(q) \in Nat /\ DOMAIN q = 1..Len(q) /\ Len(q) >= 1
  BY LenProperties, EmptySeq
<1>2. Tail(q) \in Seq(StateEvents \cup Samples) /\ Len(Tail(q)) = Len(q) - 1 /\ Head(q) = q[1]
      /\ \A i \in 1..(Len(q) - 1) : Tail(q)[i] = q[i + 1]
  BY HeadTailProperties
<1>3. DOMAIN Tail(q) = 1..(Len(q) - 1)
  BY <1>2, LenProperties
<1>4. q[1] \in StateEvents \cup Samples
  BY <1>1, ElementOfSeq
<1> QED BY <1>1, <1>2, <1>3, <1>4

LEMMA Pushed ==
  ASSUME NEW q \in Seq(StateEvents \cup Samples), NEW e \in StateEvents \cup Samples
  PROVE  /\ Append(q, e) \in Seq(StateEvents \cup Samples)
         /\ \A i \in DOMAIN q : i \in DOMAIN Append(q, e) /\ Append(q, e)[i] = q[i]
         /\ \A i \in DOMAIN Append(q, e) : i \in DOMAIN q \/ Append(q, e)[i] = e
         /\ \E i \in DOMAIN Append(q, e) : Append(q, e)[i] = e
<1>1. Len(q) \in Nat /\ DOMAIN q = 1..Len(q)
  BY LenProperties
<1>2. /\ Append(q, e) \in Seq(StateEvents \cup Samples)
      /\ DOMAIN Append(q, e) = 1..(Len(q) + 1)
      /\ Append(q, e)[Len(q) + 1] = e /\ \A i \in 1..Len(q) : Append(q, e)[i] = q[i]
  BY AppendProperties, LenProperties
<1> QED BY <1>1, <1>2

-----------------------------------------------------------------------------
(* Synchronising.                                                          *)

Honest(p) == p.loading => p.monitoring /\ p.snapshot = 0 /\ ~p.error

\* What sync_performance_monitoring makes of the panels p and the queues out a handler leaves.
LEMMA SyncKeeps ==
  ASSUME Bounds, IInv, NEW p \in [Sessions -> PanelType], NEW out \in [Connections -> Seq(Commands)],
         Sync(p, out), UNCHANGED <<started, owner, phase, monitor>>,
         open' \subseteq Sessions, handle' \in [Sessions -> 0..started],
         \A s, t \in active' : s = t,
         \A s \in open' : handle'[s] # 0 => owner[handle'[s]] = s,
         \A s \in open' : Honest(p[s]),
         \A s \in open' : LET c == handle'[s] IN
           c # 0 /\ phase[c] \in Running => Leads(out[c], monitor[c], p[s].monitoring)
  PROVE  /\ perf' \in [Sessions -> PanelType] /\ commands' \in [Connections -> Seq(Commands)]
         /\ \A c \in Connections : c > started => commands'[c] = out[c]
         /\ \A s \in Sessions : s \notin open' => perf'[s] = p[s]
         /\ \A s \in open' : perf'[s].monitoring => ShouldMonitor(s)'
         /\ OneMonitored' /\ WorkerFollowsWindow' /\ LoadingIsTrue'
<1> USE DEF IInv
<1>0. /\ started \in 0..MaxConnections /\ owner \in [Connections -> Sessions]
      /\ phase \in [Connections -> {"New", "Starting", "Connected", "Closing", "Failing", "Ended"}]
      /\ monitor \in [Connections -> BOOLEAN]
  BY DEF PerformanceTypeOK
<1>1. \A s \in Sessions : ShouldMonitor(s)' \in BOOLEAN
  BY DEF ShouldMonitor
<1>2. ASSUME NEW s \in Sessions
      PROVE  /\ perf'[s] \in PanelType
             /\ s \notin open' => perf'[s] = p[s]
             /\ s \in open' => perf'[s].monitoring \in {FALSE, ShouldMonitor(s)'}
             /\ s \in open' => Honest(perf'[s])
             /\ s \in open' /\ handle'[s] # 0 /\ Heard(handle'[s]) => perf'[s].monitoring = ShouldMonitor(s)'
  <2>1. perf'[s] = Synced(s, p[s]) /\ p[s] \in PanelType
    BY DEF Sync
  <2>2. PICK should \in BOOLEAN : should = ShouldMonitor(s)'
    BY <1>1
  <2>3. CASE s \notin open' \/ p[s].monitoring = should
    <3>1. perf'[s] = p[s]
      BY <2>1, <2>2, <2>3 DEF Synced
    <3> QED BY <2>1, <2>2, <2>3, <3>1
  <2>4. CASE s \in open' /\ p[s].monitoring # should /\ handle'[s] = 0
    <3>1. perf'[s] = [p[s] EXCEPT !.monitoring = FALSE, !.loading = FALSE]
      BY <2>1, <2>2, <2>4 DEF Synced
    <3> QED BY <2>1, <2>2, <2>4, <3>1 DEF PanelType, Honest
  <2>5. CASE s \in open' /\ p[s].monitoring # should /\ handle'[s] # 0 /\ ~Heard(handle'[s])
    <3>1. perf'[s] = [p[s] EXCEPT !.monitoring = FALSE, !.loading = FALSE, !.error = TRUE]
      BY <2>1, <2>2, <2>5 DEF Synced
    <3> QED BY <2>1, <2>2, <2>5, <3>1 DEF PanelType, Honest
  <2>6. CASE s \in open' /\ p[s].monitoring # should /\ handle'[s] # 0 /\ Heard(handle'[s])
    <3>1. perf'[s] = [p[s] EXCEPT !.monitoring = should, !.loading = should /\ p[s].snapshot = 0,
                                  !.error = p[s].error /\ ~should]
      BY <2>1, <2>2, <2>6 DEF Synced
    <3>2. /\ perf'[s].monitoring = should /\ perf'[s].loading = (should /\ p[s].snapshot = 0)
          /\ perf'[s].error = (p[s].error /\ ~should) /\ perf'[s].snapshot = p[s].snapshot
      BY <2>1, <3>1 DEF PanelType
    <3>3. perf'[s] \in PanelType
      BY <2>1, <3>1 DEF PanelType
    <3>4. Honest(perf'[s])
      BY <3>2 DEF Honest
    <3> QED BY <2>2, <2>6, <3>2, <3>3, <3>4
  <2> QED BY <2>3, <2>4, <2>5, <2>6
<1>3. ASSUME NEW c \in Connections
      PROVE  /\ commands'[c] \in Seq(Commands)
             /\ c > started => commands'[c] = out[c]
             /\ LET s == owner[c] IN
                s \in open' /\ handle'[s] = c /\ phase[c] \in Running =>
                  Leads(commands'[c], monitor[c], perf'[s].monitoring)
  <2>1. commands'[c] = IF ~Told(c, p) THEN out[c]
                       ELSE Append(out[c], IF ShouldMonitor(owner[c])' THEN "On" ELSE "Off")
    BY DEF Sync
  <2>2. PICK should \in BOOLEAN : should = ShouldMonitor(owner[c])'
    BY <1>0, <1>1
  <2>3. CASE Told(c, p)
    <3>1. commands'[c] = Append(out[c], IF should THEN "On" ELSE "Off")
      BY <2>1, <2>2, <2>3
    <3>2. (IF should THEN "On" ELSE "Off") \in Commands
      BY DEF Commands
    <3>3. commands'[c] \in Seq(Commands)
      BY <3>1, <3>2, AppendProperties
    <3>4. owner[c] \in open' /\ handle'[owner[c]] = c /\ Heard(c)
      BY <2>3 DEF Told
    <3>5. perf'[owner[c]].monitoring = should
      <4>1. c # 0 /\ handle'[owner[c]] # 0
        BY <3>4 DEF Connections, Bounds
      <4> QED BY <1>0, <1>2, <2>2, <3>4, <4>1
    <3>6. Leads(commands'[c], monitor[c], should)
      BY <3>1, LeadsAppend
    <3>7. ~(c > started)
      BY <1>0, <3>4
    <3> QED BY <3>3, <3>5, <3>6, <3>7
  <2>4. CASE ~Told(c, p)
    <3>1. commands'[c] = out[c]
      BY <2>1, <2>4
    <3>2. ASSUME owner[c] \in open', handle'[owner[c]] = c, phase[c] \in Running
          PROVE  Leads(commands'[c], monitor[c], perf'[owner[c]].monitoring)
      <4>1. Heard(c) /\ c # 0
        BY <3>2, <1>0 DEF Heard, Running, Connections
      <4>2. p[owner[c]].monitoring = should
        BY <2>2, <2>4, <3>2, <4>1 DEF Told
      <4>3. perf'[owner[c]].monitoring = should
        BY <1>0, <1>2, <2>2, <3>2, <4>1
      <4>4. Leads(out[c], monitor[c], p[owner[c]].monitoring)
        BY <3>2, <4>1
      <4> QED BY <3>1, <4>2, <4>3, <4>4
    <3> QED BY <3>1, <3>2
  <2> QED BY <2>3, <2>4
<1>4. perf' \in [Sessions -> PanelType] /\ commands' \in [Connections -> Seq(Commands)]
  <2>1. perf' = [s \in Sessions |-> perf'[s]] /\ commands' = [c \in Connections |-> commands'[c]]
    BY DEF Sync
  <2> QED BY <2>1, <1>2, <1>3
<1>5. \A s \in open' : perf'[s].monitoring => ShouldMonitor(s)'
  BY <1>2
<1>6. OneMonitored'
  <2>1. \A s \in open' : perf'[s].monitoring => s \in active'
    BY <1>5 DEF ShouldMonitor
  <2> QED BY <2>1 DEF OneMonitored
<1>7. WorkerFollowsWindow'
  <2> SUFFICES ASSUME NEW s \in open', handle'[s] # 0, phase[handle'[s]] \in Running
               PROVE  Leads(commands'[handle'[s]], monitor[handle'[s]], perf'[s].monitoring)
    BY DEF WorkerFollowsWindow, Leads, Running
  <2>1. handle'[s] \in Connections /\ owner[handle'[s]] = s
    BY <1>0 DEF Connections, Bounds
  <2> QED BY <2>1, <1>3
<1>8. LoadingIsTrue'
  BY <1>2 DEF LoadingIsTrue, Honest
<1> QED BY <1>2, <1>3, <1>4, <1>5, <1>6, <1>7, <1>8

\* The end of every handler that synchronises.
LEMMA SyncedStep ==
  ASSUME Bounds, IInv, NEW p \in [Sessions -> PanelType], NEW out \in [Connections -> Seq(Commands)],
         Sync(p, out), UNCHANGED <<started, owner, phase, monitor, stopping>>,
         used' \subseteq Sessions, open' \subseteq used', state' \in [Sessions -> States],
         handle' \in [Sessions -> 0..started], closing' \in [Sessions -> BOOLEAN],
         active' \subseteq Sessions, watching' \in BOOLEAN, acts' \in Nat,
         events' \in [Connections -> Seq(StateEvents \cup Samples)],
         \A s, t \in active' : s = t,
         \A s \in open' : handle'[s] # 0 => owner[handle'[s]] = s /\ state'[s] \in Going,
         \A s \in open' : Honest(p[s]),
         \A s \in open' : LET c == handle'[s] IN
           c # 0 /\ phase[c] \in Running => Leads(out[c], monitor[c], p[s].monitoring),
         \A c \in Connections : c > started => out[c] = <<>> /\ events'[c] = <<>>,
         used \subseteq used',
         \A s \in Sessions : s \notin used' => handle'[s] = 0 /\ p[s] = Cleared,
         ReportsOK'
  PROVE  IInv'
<1> USE DEF IInv
<1>1. /\ perf' \in [Sessions -> PanelType] /\ commands' \in [Connections -> Seq(Commands)]
      /\ \A c \in Connections : c > started => commands'[c] = out[c]
      /\ \A s \in Sessions : s \notin open' => perf'[s] = p[s]
      /\ \A s \in open' : perf'[s].monitoring => ShouldMonitor(s)'
      /\ OneMonitored' /\ WorkerFollowsWindow' /\ LoadingIsTrue'
  BY SyncKeeps
<1>2. PerformanceTypeOK'
  BY <1>1 DEF PerformanceTypeOK, PanelType
<1>3. FreshOK'
  BY <1>1 DEF FreshOK
<1>4. WindowOK'
  BY <1>1 DEF WindowOK, ShouldMonitor
<1>5. StartOK'
  <2> SUFFICES ASSUME NEW s \in open', handle'[s] # 0, phase[handle'[s]] = "Starting", perf'[s].monitoring
               PROVE  FALSE
    BY DEF StartOK
  <2>1. state'[s] = "Connected"
    BY <1>1 DEF ShouldMonitor
  <2>2. handle'[s] \in 1..started /\ owner[handle'[s]] = s
    BY DEF PerformanceTypeOK, Bounds
  <2>3. state'[s] \in {"Connecting", "Disconnecting"}
    BY <2>2 DEF ReportsOK
  <2> QED BY <2>1, <2>3
<1> QED BY <1>1, <1>2, <1>3, <1>4, <1>5

\* What IInv says of the panels and queues as they are.
LEMMA AsTheyAre ==
  ASSUME Bounds, IInv
  PROVE  /\ perf \in [Sessions -> PanelType] /\ commands \in [Connections -> Seq(Commands)]
         /\ \A s \in open : Honest(perf[s])
         /\ \A s \in open : LET c == handle[s] IN
              c # 0 /\ phase[c] \in Running => Leads(commands[c], monitor[c], perf[s].monitoring)
         /\ \A c \in Connections : c > started => commands[c] = <<>> /\ events[c] = <<>>
         /\ \A s \in Sessions : s \notin used => handle[s] = 0 /\ perf[s] = Cleared
BY DEF IInv, PerformanceTypeOK, PanelType, LoadingIsTrue, Honest, WorkerFollowsWindow, Running, FreshOK

-----------------------------------------------------------------------------
(* The user.                                                               *)

LEMMA ShowKeeps ==
  ASSUME Bounds, IInv,
         \/ \E s \in Sessions : OpenSession(s)
         \/ \E shown \in {{}} \cup {{s} : s \in open} : Show(shown)
         \/ \E performance \in BOOLEAN : SetSidebar(performance)
  PROVE  IInv'
<1> USE DEF IInv
<1>0. PICK p, out : p = perf /\ out = commands
  OBVIOUS
<1>1. /\ p \in [Sessions -> PanelType] /\ out \in [Connections -> Seq(Commands)]
      /\ \A s \in open : Honest(p[s])
      /\ \A s \in open : LET c == handle[s] IN
           c # 0 /\ phase[c] \in Running => Leads(out[c], monitor[c], p[s].monitoring)
      /\ \A c \in Connections : c > started => out[c] = <<>> /\ events[c] = <<>>
      /\ \A s \in Sessions : s \notin used => handle[s] = 0 /\ p[s] = Cleared
  BY <1>0, AsTheyAre
<1>2. ASSUME NEW s \in Sessions, OpenSession(s)
      PROVE  IInv'
  <2>1. /\ UNCHANGED <<state, handle, closing, watching, started, owner, phase, monitor, stopping, events>>
        /\ s \notin used /\ used' = used \cup {s} /\ open' = open \cup {s} /\ active' = {s} /\ acts' = acts + 1
    BY <1>2 DEF OpenSession, Act
  <2>2. Sync(p, out)
    BY <1>0, <1>2 DEF OpenSession
  <2>3. handle[s] = 0 /\ p[s] = Cleared /\ Honest(p[s])
    BY <1>1, <2>1 DEF Honest, Cleared
  <2>4. \A t \in open' : handle'[t] # 0 => owner[handle'[t]] = t /\ state'[t] \in Going
    BY <2>1, <2>3 DEF WindowOK
  <2>5. \A t \in open' : LET c == handle'[t] IN
          c # 0 /\ phase[c] \in Running => Leads(out[c], monitor[c], p[t].monitoring)
    BY <1>1, <2>1, <2>3
  <2>6. \A t \in open' : Honest(p[t])
    BY <1>1, <2>1, <2>3
  <2>7. ReportsOK'
    <3>1. \A c \in 1..started : owner[c] # s
      BY <2>1 DEF FreshOK
    <3> QED BY <2>1, <3>1 DEF ReportsOK, Quiet, Ends
  <2>8. /\ used' \subseteq Sessions /\ open' \subseteq used' /\ state' \in [Sessions -> States]
        /\ handle' \in [Sessions -> 0..started] /\ closing' \in [Sessions -> BOOLEAN]
        /\ active' \subseteq Sessions /\ watching' \in BOOLEAN /\ acts' \in Nat
        /\ events' \in [Connections -> Seq(StateEvents \cup Samples)]
        /\ \A t, u \in active' : t = u
    BY <2>1 DEF PerformanceTypeOK
  <2>9. \A t \in Sessions : t \notin used' => handle'[t] = 0 /\ p[t] = Cleared
    BY <1>1, <2>1
  <2>10. UNCHANGED <<started, owner, phase, monitor, stopping>> /\ used \subseteq used'
    BY <2>1
  <2>11. \A c \in Connections : c > started => out[c] = <<>> /\ events'[c] = <<>>
    BY <1>1, <2>1
  <2>12. p \in [Sessions -> PanelType] /\ out \in [Connections -> Seq(Commands)]
    BY <1>1
  <2> QED BY <2>2, <2>4, <2>5, <2>6, <2>7, <2>8, <2>9, <2>10, <2>11, <2>12, SyncedStep
<1>3. ASSUME (\E shown \in {{}} \cup {{s} : s \in open} : Show(shown))
             \/ \E performance \in BOOLEAN : SetSidebar(performance)
      PROVE  IInv'
  <2>1. /\ UNCHANGED <<used, open, state, handle, closing, started, owner, phase, monitor, stopping, events>>
        /\ acts' = acts + 1 /\ watching' \in BOOLEAN
    BY <1>3 DEF Show, SetSidebar, Act, PerformanceTypeOK
  <2>2. active' = active \/ active' \in {{}} \cup {{s} : s \in open}
    BY <1>3 DEF Show, SetSidebar
  <2>3. active' \subseteq Sessions /\ \A t, u \in active' : t = u
    BY <2>2 DEF PerformanceTypeOK, WindowOK
  <2>4. Sync(p, out)
    BY <1>0, <1>3 DEF Show, SetSidebar
  <2>5. ReportsOK'
    BY <2>1 DEF ReportsOK, Quiet, Ends
  <2>6. \A t \in open' : handle'[t] # 0 => owner[handle'[t]] = t /\ state'[t] \in Going
    BY <2>1 DEF WindowOK
  <2>7. /\ used' \subseteq Sessions /\ open' \subseteq used' /\ state' \in [Sessions -> States]
        /\ handle' \in [Sessions -> 0..started] /\ closing' \in [Sessions -> BOOLEAN]
        /\ acts' \in Nat /\ events' \in [Connections -> Seq(StateEvents \cup Samples)]
    BY <2>1 DEF PerformanceTypeOK
  <2>8. UNCHANGED <<started, owner, phase, monitor, stopping>> /\ used \subseteq used'
    BY <2>1
  <2>9. \A c \in Connections : c > started => out[c] = <<>> /\ events'[c] = <<>>
    BY <1>1, <2>1
  <2>10. /\ \A t \in open' : Honest(p[t])
         /\ \A t \in open' : LET c == handle'[t] IN
              c # 0 /\ phase[c] \in Running => Leads(out[c], monitor[c], p[t].monitoring)
         /\ \A t \in Sessions : t \notin used' => handle'[t] = 0 /\ p[t] = Cleared
    BY <1>1, <2>1
  <2>11. p \in [Sessions -> PanelType] /\ out \in [Connections -> Seq(Commands)]
    BY <1>1
  <2>12. watching' \in BOOLEAN
    BY <2>1
  <2> QED BY <2>3, <2>4, <2>5, <2>6, <2>7, <2>8, <2>9, <2>10, <2>11, <2>12, SyncedStep
<1> QED BY <1>2, <1>3

LEMMA EditKeeps ==
  ASSUME Bounds, IInv, EditProfile
  PROVE  IInv'
<1> USE DEF IInv
<1>1. /\ UNCHANGED <<used, open, state, handle, closing, perf, watching, started, owner, phase,
                     commands, monitor, stopping, events>>
      /\ active' = {} /\ acts' = acts + 1
  BY DEF EditProfile, Act
<1>2. PerformanceTypeOK'
  BY <1>1 DEF PerformanceTypeOK
<1>3. FreshOK' /\ WindowOK' /\ ReportsOK' /\ StartOK'
  BY <1>1 DEF FreshOK, WindowOK, ReportsOK, StartOK, Quiet, Ends
<1>4. OneMonitored' /\ WorkerFollowsWindow' /\ LoadingIsTrue'
  BY <1>1 DEF OneMonitored, WorkerFollowsWindow, LoadingIsTrue
<1> QED BY <1>2, <1>3, <1>4

LEMMA StartKeeps ==
  ASSUME Bounds, IInv, NEW s \in Sessions, StartConnection(s)
  PROVE  IInv'
<1> USE DEF IInv
<1> DEFINE new == started + 1
<1>1. /\ s \in open /\ state[s] \in {"Disconnected", "Failed"}
      /\ \A c \in 1..started : owner[c] = s => Quiet(c)
      /\ started < MaxConnections /\ started' = new /\ acts' = acts + 1
      /\ owner' = [owner EXCEPT ![new] = s] /\ phase' = [phase EXCEPT ![new] = "Starting"]
      /\ state' = [state EXCEPT ![s] = "Connecting"] /\ handle' = [handle EXCEPT ![s] = new]
      /\ closing' = [closing EXCEPT ![s] = FALSE]
      /\ UNCHANGED <<used, open, perf, active, watching, commands, monitor, stopping, events>>
  BY DEF StartConnection, Act, Quiet
<1>2. /\ started \in Nat /\ new \in Connections /\ new > started /\ new # 0
      /\ \A c \in 1..new : c = new \/ c \in 1..started
      /\ \A c \in 1..started : c # new
  <2>1. started \in Nat /\ MaxConnections \in Nat
    BY DEF PerformanceTypeOK, Bounds
  <2> QED BY <1>1, <2>1 DEF Connections
<1>3. commands[new] = <<>> /\ events[new] = <<>> /\ monitor[new] = FALSE
  BY <1>2 DEF FreshOK
<1>4. handle[s] = 0
  BY <1>1 DEF WindowOK, Going
<1>5. ~perf[s].monitoring
  <2>1. ASSUME perf[s].monitoring PROVE FALSE
    <3>1. PICK c \in 1..started : owner[c] = s /\ Ends(c)
      BY <1>1, <1>4, <2>1 DEF WindowOK
    <3> QED BY <1>1, <3>1 DEF Quiet, Ends, Samples, Overs
  <2> QED BY <2>1
<1>6. PerformanceTypeOK'
  <2>1. handle' \in [Sessions -> 0..started']
    BY <1>1, <1>2 DEF PerformanceTypeOK
  <2>2. perf' \in [Sessions -> [monitoring : BOOLEAN, loading : BOOLEAN, error : BOOLEAN, snapshot : 0..started']]
    <3>1. 0..started \subseteq 0..started'
      BY <1>1, <1>2
    <3> QED BY <1>1, <3>1 DEF PerformanceTypeOK
  <2>3. started' \in 0..MaxConnections
    BY <1>1, <1>2 DEF Bounds
  <2> QED BY <1>1, <1>2, <2>1, <2>2, <2>3, SMTT(30) DEF PerformanceTypeOK, States
<1>7. FreshOK'
  <2>1. \A c \in Connections : c > started' => c > started /\ c # new
    BY <1>1, <1>2 DEF Connections
  <2>2. \A c \in 1..started' : owner'[c] \in used'
    BY <1>1, <1>2 DEF FreshOK, PerformanceTypeOK
  <2> QED BY <1>1, <2>1, <2>2 DEF FreshOK, PerformanceTypeOK
<1>8. WindowOK'
  <2>1. ASSUME NEW t \in open', handle'[t] # 0
        PROVE  owner'[handle'[t]] = t /\ state'[t] \in Going
    <3>1. CASE t = s
      BY <1>1, <1>2, <3>1 DEF PerformanceTypeOK, Going
    <3>2. CASE t # s
      <4>1. handle'[t] = handle[t] /\ state'[t] = state[t] /\ handle[t] \in 1..started
        BY <1>1, <1>2, <2>1, <3>2 DEF PerformanceTypeOK
      <4> QED BY <1>1, <1>2, <2>1, <4>1 DEF WindowOK, PerformanceTypeOK
    <3> QED BY <3>1, <3>2
  <2>2. ASSUME NEW t \in open', handle'[t] = 0, perf'[t].monitoring
        PROVE  \E c \in 1..started' : owner'[c] = t /\ Ends(c)'
    <3>1. t # s /\ handle[t] = 0
      BY <1>1, <1>2, <2>2 DEF PerformanceTypeOK
    <3>2. PICK c \in 1..started : owner[c] = t /\ Ends(c)
      BY <1>1, <2>2, <3>1 DEF WindowOK
    <3>3. c \in 1..started' /\ owner'[c] = owner[c]
      BY <1>1, <1>2, <3>2 DEF PerformanceTypeOK, Connections
    <3> QED BY <1>1, <3>2, <3>3 DEF Ends
  <2> QED BY <1>1, <2>1, <2>2 DEF WindowOK
<1>9. ReportsOK'
  <2>1. ASSUME NEW c \in 1..started'
        PROVE  LET t == owner'[c] IN
               /\ phase'[c] = "Starting" => Quiet(c)' /\ monitor'[c] = FALSE
               /\ (\E i \in DOMAIN events'[c] : events'[c][i] = "Failed") => phase'[c] \in {"Failing", "Ended"}
               /\ (\E i \in DOMAIN events'[c] : events'[c][i] = "Disconnected") => phase'[c] = "Ended"
               /\ t \in open' /\ handle'[t] # c =>
                    phase'[c] \in {"Failing", "Ended"} /\ (handle'[t] # 0 => Quiet(c)')
               /\ t \in open' /\ handle'[t] = c =>
                    /\ phase'[c] \in {"Failing", "Ended"} => Ends(c)'
                    /\ phase'[c] = "Starting" => state'[t] \in {"Connecting", "Disconnecting"}
    <3>1. CASE c = new
      <4>1. owner'[c] = s /\ phase'[c] = "Starting" /\ handle'[s] = c /\ state'[s] = "Connecting"
        BY <1>1, <1>2, <3>1 DEF PerformanceTypeOK
      <4>2. events'[c] = <<>> /\ monitor'[c] = FALSE
        BY <1>1, <1>3, <3>1
      <4>3. Quiet(c)' /\ \A i \in DOMAIN events'[c] : FALSE
        BY <4>2 DEF Quiet
      <4> QED BY <4>1, <4>2, <4>3
    <3>2. CASE c \in 1..started
      <4>1. c \in Connections /\ c # new /\ owner'[c] = owner[c] /\ phase'[c] = phase[c]
            /\ monitor'[c] = monitor[c] /\ events'[c] = events[c]
        BY <1>1, <1>2, <3>2 DEF PerformanceTypeOK, Connections, Bounds
      <4>2. Quiet(c)' = Quiet(c) /\ Ends(c)' = Ends(c)
        BY <4>1 DEF Quiet, Ends
      <4>3. CASE owner[c] = s
        <5>1. handle'[s] # c /\ Quiet(c) /\ handle[s] # c
          BY <1>1, <1>2, <1>4, <3>2, <4>1, <4>3 DEF PerformanceTypeOK
        <5>2. phase[c] \in {"Failing", "Ended"}
          BY <1>1, <3>2, <4>3, <5>1 DEF ReportsOK
        <5> QED BY <1>1, <3>2, <4>1, <4>2, <4>3, <5>1, <5>2 DEF ReportsOK
      <4>4. CASE owner[c] # s
        <5>1. owner[c] \in Sessions /\ handle'[owner[c]] = handle[owner[c]] /\ state'[owner[c]] = state[owner[c]]
          BY <1>1, <4>1, <4>4 DEF PerformanceTypeOK
        <5> QED BY <1>1, <3>2, <4>1, <4>2, <5>1 DEF ReportsOK
      <4> QED BY <4>3, <4>4
    <3> QED BY <1>1, <1>2, <3>1, <3>2
  <2> QED BY <2>1 DEF ReportsOK
<1>10. StartOK' /\ WorkerFollowsWindow'
  <2>1. ASSUME NEW t \in open', handle'[t] # 0
        PROVE  /\ phase'[handle'[t]] = "Starting" => ~perf'[t].monitoring
               /\ phase'[handle'[t]] \in Running =>
                    Leads(commands'[handle'[t]], monitor'[handle'[t]], perf'[t].monitoring)
    <3>1. CASE t = s
      <4>1. handle'[t] = new /\ commands'[new] = <<>> /\ monitor'[new] = FALSE /\ perf'[t] = perf[s]
        BY <1>1, <1>3, <3>1 DEF PerformanceTypeOK
      <4>2. perf'[t].monitoring = FALSE
        BY <1>1, <1>5, <3>1 DEF PerformanceTypeOK
      <4>3. Leads(<<>>, FALSE, FALSE)
        BY DEF Leads
      <4> QED BY <4>1, <4>2, <4>3
    <3>2. CASE t # s
      <4>1. handle'[t] = handle[t] /\ handle[t] \in 1..started
        BY <1>1, <1>2, <2>1, <3>2 DEF PerformanceTypeOK
      <4>2. phase'[handle'[t]] = phase[handle[t]]
        BY <1>1, <1>2, <4>1 DEF PerformanceTypeOK
      <4> QED BY <1>1, <2>1, <4>1, <4>2 DEF StartOK, WorkerFollowsWindow, Running
    <3> QED BY <3>1, <3>2
  <2> QED BY <2>1 DEF StartOK, WorkerFollowsWindow, Running, Leads
<1>11. OneMonitored' /\ LoadingIsTrue'
  BY <1>1 DEF OneMonitored, LoadingIsTrue
<1> QED BY <1>6, <1>7, <1>8, <1>9, <1>10, <1>11

-----------------------------------------------------------------------------
(* Channels.                                                               *)

LEMMA PopKeeps ==
  ASSUME Bounds, IInv, NEW c \in Connections, TakeEvent(c)
  PROVE  /\ events' \in [Connections -> Seq(StateEvents \cup Samples)]
         /\ c \in 1..started /\ owner[c] \in used
         /\ \A d \in Connections : d # c => events'[d] = events[d]
         /\ Head(events[c]) \in StateEvents \cup Samples
         /\ \E i \in DOMAIN events[c] : events[c][i] = Head(events[c])
         /\ \A i \in DOMAIN events'[c] : \E j \in DOMAIN events[c] : events[c][j] = events'[c][i]
         /\ Head(events[c]) \notin Overs /\ Ends(c) => Ends(c)'
<1> USE DEF IInv
<1>1. events[c] # <<>> /\ events' = [events EXCEPT ![c] = Tail(@)]
  BY DEF TakeEvent
<1>2. PICK q : q = events[c]
  OBVIOUS
<1>3. q \in Seq(StateEvents \cup Samples) /\ q # <<>>
  BY <1>1, <1>2 DEF PerformanceTypeOK
<1>4. /\ Tail(q) \in Seq(StateEvents \cup Samples)
      /\ Head(q) \in StateEvents \cup Samples /\ Head(q) = q[1] /\ 1 \in DOMAIN q
      /\ \A i \in DOMAIN Tail(q) : i + 1 \in DOMAIN q /\ Tail(q)[i] = q[i + 1]
      /\ \A i \in DOMAIN q : i # 1 => i - 1 \in DOMAIN Tail(q) /\ Tail(q)[i - 1] = q[i]
  BY <1>3, Popped
<1>5. events'[c] = Tail(q) /\ \A d \in Connections : d # c => events'[d] = events[d]
  BY <1>1, <1>2 DEF PerformanceTypeOK
<1>6. events' \in [Connections -> Seq(StateEvents \cup Samples)]
  BY <1>1, <1>2, <1>4 DEF PerformanceTypeOK
<1>7. c \in 1..started /\ owner[c] \in used
  BY <1>1 DEF FreshOK, PerformanceTypeOK, Connections, Bounds
<1>8. ASSUME Head(events[c]) \notin Overs, Ends(c)
      PROVE  Ends(c)'
  <2>1. PICK i \in DOMAIN q : q[i] \in Overs
    BY <1>2, <1>8 DEF Ends
  <2>2. i # 1
    BY <1>2, <1>4, <1>8, <2>1
  <2>3. i - 1 \in DOMAIN Tail(q) /\ Tail(q)[i - 1] \in Overs
    BY <1>4, <2>1, <2>2
  <2> QED BY <1>5, <2>3 DEF Ends
<1> QED BY <1>2, <1>4, <1>5, <1>6, <1>7, <1>8

LEMMA PushKeeps ==
  ASSUME Bounds, IInv, NEW c \in Connections, NEW e \in StateEvents \cup Samples, Emit(c, e)
  PROVE  /\ events' \in [Connections -> Seq(StateEvents \cup Samples)]
         /\ \A d \in Connections : d # c => events'[d] = events[d]
         /\ \A i \in DOMAIN events'[c] :
              events'[c][i] = e \/ \E j \in DOMAIN events[c] : events[c][j] = events'[c][i]
         /\ Ends(c) => Ends(c)'
         /\ e \in Overs => Ends(c)'
<1> USE DEF IInv
<1>1. events' = [events EXCEPT ![c] = Append(@, e)]
  BY DEF Emit
<1>2. PICK q : q = events[c]
  OBVIOUS
<1>3. q \in Seq(StateEvents \cup Samples)
  BY <1>2 DEF PerformanceTypeOK
<1>4. /\ Append(q, e) \in Seq(StateEvents \cup Samples)
      /\ \A i \in DOMAIN q : i \in DOMAIN Append(q, e) /\ Append(q, e)[i] = q[i]
      /\ \A i \in DOMAIN Append(q, e) : i \in DOMAIN q \/ Append(q, e)[i] = e
      /\ \E i \in DOMAIN Append(q, e) : Append(q, e)[i] = e
  BY <1>3, Pushed
<1>5. events'[c] = Append(q, e) /\ \A d \in Connections : d # c => events'[d] = events[d]
  BY <1>1, <1>2 DEF PerformanceTypeOK
<1>6. events' \in [Connections -> Seq(StateEvents \cup Samples)]
  BY <1>1, <1>2, <1>4 DEF PerformanceTypeOK
<1>7. Ends(c) => Ends(c)'
  BY <1>2, <1>4, <1>5 DEF Ends
<1>8. e \in Overs => Ends(c)'
  BY <1>4, <1>5 DEF Ends
<1>9. \A i \in DOMAIN events'[c] :
        events'[c][i] = e \/ \E j \in DOMAIN events[c] : events[c][j] = events'[c][i]
  BY <1>2, <1>4, <1>5
<1> QED BY <1>5, <1>6, <1>7, <1>8, <1>9

\* A step of a worker or a monitor: the window stays as it is.
LEMMA WorkerStep ==
  ASSUME Bounds, IInv, UNCHANGED <<window, started, owner>>,
         NEW c \in Connections, c \in 1..started,
         phase' \in [Connections -> {"New", "Starting", "Connected", "Closing", "Failing", "Ended"}],
         commands' \in [Connections -> Seq(Commands)],
         monitor' \in [Connections -> BOOLEAN], stopping' \in [Connections -> Nat],
         events' \in [Connections -> Seq(StateEvents \cup Samples)],
         \A d \in Connections : d # c =>
           /\ events'[d] = events[d] /\ phase'[d] = phase[d] /\ monitor'[d] = monitor[d]
           /\ commands'[d] = commands[d] /\ stopping'[d] = stopping[d],
         Ends(c) => Ends(c)',
         phase'[c] = "Starting" => phase[c] = "Starting" /\ Quiet(c)' /\ monitor'[c] = FALSE,
         (\E i \in DOMAIN events'[c] : events'[c][i] = "Failed") => phase'[c] \in {"Failing", "Ended"},
         (\E i \in DOMAIN events'[c] : events'[c][i] = "Disconnected") => phase'[c] = "Ended",
         phase[c] \in {"Failing", "Ended"} =>
           phase'[c] \in {"Failing", "Ended"} /\ (Quiet(c) => Quiet(c)'),
         phase'[c] \in {"Failing", "Ended"} => phase[c] \in {"Failing", "Ended"} \/ Ends(c)',
         \A flag \in BOOLEAN :
           phase'[c] \in Running /\ Leads(commands[c], monitor[c], flag) /\ (phase[c] = "Starting" => ~flag)
             => Leads(commands'[c], monitor'[c], flag),
         phase'[c] \in Running => phase[c] \in Running
  PROVE  IInv'
<1> USE DEF IInv
<1>0. UNCHANGED <<used, open, state, handle, closing, perf, active, watching, acts, started, owner>>
  BY DEF window
<1>1. PerformanceTypeOK'
  BY <1>0 DEF PerformanceTypeOK
<1>2. FreshOK'
  <2>1. started \in Nat
    BY DEF PerformanceTypeOK
  <2>2. ASSUME NEW d \in Connections, d > started
        PROVE  d # c
    BY <2>1, <2>2
  <2> QED BY <1>0, <2>2 DEF FreshOK
<1>3. started \in Nat /\ \A d \in 1..started : d \in Connections
  <2>1. started \in 0..MaxConnections /\ MaxConnections \in Nat
    BY DEF PerformanceTypeOK, Bounds
  <2> QED BY <2>1 DEF Connections
<1>4. \A d \in 1..started : d # c => Quiet(d)' = Quiet(d) /\ Ends(d)' = Ends(d)
  BY <1>3 DEF Quiet, Ends
<1>5. WindowOK'
  <2>1. ASSUME NEW t \in open, handle[t] = 0, perf[t].monitoring
        PROVE  \E d \in 1..started : owner[d] = t /\ Ends(d)'
    <3>1. PICK d \in 1..started : owner[d] = t /\ Ends(d)
      BY <2>1 DEF WindowOK
    <3> QED BY <1>4, <3>1
  <2> QED BY <1>0, <2>1 DEF WindowOK
<1>6. ReportsOK'
  <2>1. ASSUME NEW d \in 1..started
        PROVE  LET t == owner[d] IN
               /\ phase'[d] = "Starting" => Quiet(d)' /\ monitor'[d] = FALSE
               /\ (\E i \in DOMAIN events'[d] : events'[d][i] = "Failed") => phase'[d] \in {"Failing", "Ended"}
               /\ (\E i \in DOMAIN events'[d] : events'[d][i] = "Disconnected") => phase'[d] = "Ended"
               /\ t \in open /\ handle[t] # d =>
                    phase'[d] \in {"Failing", "Ended"} /\ (handle[t] # 0 => Quiet(d)')
               /\ t \in open /\ handle[t] = d =>
                    /\ phase'[d] \in {"Failing", "Ended"} => Ends(d)'
                    /\ phase'[d] = "Starting" => state[t] \in {"Connecting", "Disconnecting"}
    <3>1. CASE d # c
      <4>1. /\ events'[d] = events[d] /\ phase'[d] = phase[d] /\ monitor'[d] = monitor[d]
            /\ Quiet(d)' = Quiet(d) /\ Ends(d)' = Ends(d)
        BY <1>3, <1>4, <3>1
      <4> QED BY <4>1 DEF ReportsOK
    <3>2. CASE d = c
      <4>1. owner[c] \in open /\ handle[owner[c]] # c =>
              phase[c] \in {"Failing", "Ended"} /\ (handle[owner[c]] # 0 => Quiet(c))
        BY DEF ReportsOK
      <4>2. owner[c] \in open /\ handle[owner[c]] = c =>
              /\ phase[c] \in {"Failing", "Ended"} => Ends(c)
              /\ phase[c] = "Starting" => state[owner[c]] \in {"Connecting", "Disconnecting"}
        BY DEF ReportsOK
      <4> QED BY <3>2, <4>1, <4>2
    <3> QED BY <3>1, <3>2
  <2> QED BY <1>0, <2>1, ZenonT(60) DEF ReportsOK
<1>7. StartOK' /\ WorkerFollowsWindow'
  <2>1. ASSUME NEW t \in open, handle[t] # 0
        PROVE  /\ phase'[handle[t]] = "Starting" => ~perf[t].monitoring
               /\ phase'[handle[t]] \in Running =>
                    Leads(commands'[handle[t]], monitor'[handle[t]], perf[t].monitoring)
    <3>1. handle[t] \in Connections /\ perf[t].monitoring \in BOOLEAN
      <4>1. t \in Sessions /\ handle[t] \in 0..started /\ perf[t].monitoring \in BOOLEAN
        BY DEF PerformanceTypeOK
      <4>2. handle[t] \in 1..started
        BY <1>3, <2>1, <4>1
      <4> QED BY <1>3, <4>1, <4>2
    <3>2. /\ phase[handle[t]] = "Starting" => ~perf[t].monitoring
          /\ phase[handle[t]] \in Running => Leads(commands[handle[t]], monitor[handle[t]], perf[t].monitoring)
      BY <2>1 DEF StartOK, WorkerFollowsWindow, Running
    <3>3. CASE handle[t] # c
      BY <3>1, <3>2, <3>3
    <3>4. CASE handle[t] = c
      <4>1. PICK flag \in BOOLEAN : flag = perf[t].monitoring
        BY <3>1
      <4>2. phase'[c] = "Starting" => ~flag
        BY <3>2, <3>4, <4>1
      <4>3. phase'[c] \in Running => Leads(commands'[c], monitor'[c], flag)
        <5>1. phase'[c] \in Running => Leads(commands[c], monitor[c], flag)
          BY <3>2, <3>4, <4>1
        <5>2. phase[c] = "Starting" => ~flag
          BY <3>2, <3>4, <4>1
        <5> QED BY <5>1, <5>2
      <4> QED BY <3>4, <4>1, <4>2, <4>3
    <3> QED BY <3>3, <3>4
  <2>2. StartOK'
    BY <1>0, <2>1 DEF StartOK
  <2>3. WorkerFollowsWindow'
    <3> SUFFICES ASSUME NEW t \in open, handle[t] # 0, phase'[handle[t]] \in Running
                 PROVE  Leads(commands'[handle[t]], monitor'[handle[t]], perf[t].monitoring)
      BY <1>0 DEF WorkerFollowsWindow, Running
    <3> QED BY <2>1
  <2> QED BY <2>2, <2>3
<1>8. OneMonitored' /\ LoadingIsTrue'
  BY <1>0 DEF OneMonitored, LoadingIsTrue
<1> QED BY <1>1, <1>2, <1>5, <1>6, <1>7, <1>8

LEMMA WorkerKeeps ==
  ASSUME Bounds, IInv, NEW c \in Connections,
         \/ Connect(c) \/ TakeToggle(c) \/ BeginDisconnect(c) \/ FailConnection(c) \/ EndWorker(c)
         \/ MonitorStops(c) \/ \E sample \in Samples : Collect(c, sample)
  PROVE  IInv'
<1> USE DEF IInv
<1>0. /\ phase \in [Connections -> {"New", "Starting", "Connected", "Closing", "Failing", "Ended"}]
      /\ commands \in [Connections -> Seq(Commands)] /\ monitor \in [Connections -> BOOLEAN]
      /\ stopping \in [Connections -> Nat] /\ events \in [Connections -> Seq(StateEvents \cup Samples)]
  BY DEF PerformanceTypeOK
<1>1. \A d \in Connections : phase[d] # "New" \/ monitor[d] \/ stopping[d] > 0 => d \in 1..started
  BY DEF FreshOK, PerformanceTypeOK, Bounds, Connections
<1>2. c \in 1..started =>
        /\ phase[c] = "Starting" => Quiet(c) /\ monitor[c] = FALSE
        /\ (\E i \in DOMAIN events[c] : events[c][i] = "Failed") => phase[c] \in {"Failing", "Ended"}
        /\ (\E i \in DOMAIN events[c] : events[c][i] = "Disconnected") => phase[c] = "Ended"
  BY DEF ReportsOK
<1>3. CASE Connect(c)
  <2>1. /\ phase[c] = "Starting" /\ phase' = [phase EXCEPT ![c] = "Connected"] /\ Emit(c, "Connected")
        /\ UNCHANGED <<window, started, owner, commands, monitor, stopping>>
    BY <1>3 DEF Connect
  <2>2. c \in 1..started /\ phase'[c] = "Connected" /\ "Connected" \in StateEvents \cup Samples
    BY <1>0, <1>1, <2>1 DEF StateEvents
  <2>3. /\ events' \in [Connections -> Seq(StateEvents \cup Samples)]
        /\ \A d \in Connections : d # c => events'[d] = events[d]
        /\ \A i \in DOMAIN events'[c] :
             events'[c][i] = "Connected" \/ \E j \in DOMAIN events[c] : events[c][j] = events'[c][i]
        /\ Ends(c) => Ends(c)'
    BY <2>1, <2>2, PushKeeps
  <2>4. \A i \in DOMAIN events'[c] : events'[c][i] \notin Overs
    BY <1>2, <2>1, <2>2, <2>3 DEF Quiet, Samples, Overs
  <2> QED BY <1>0, <2>1, <2>2, <2>3, <2>4, WorkerStep DEF Overs, Running
<1>4. CASE TakeToggle(c)
  <2>1. /\ phase[c] \in Running /\ commands[c] # <<>> /\ Head(commands[c]) \in {"On", "Off"}
        /\ commands' = [commands EXCEPT ![c] = Tail(@)]
        /\ UNCHANGED <<window, started, owner, phase, events>>
    BY <1>4 DEF TakeToggle, Running
  <2>2. c \in 1..started
    BY <1>1, <2>1 DEF Running
  <2>3. PICK q \in Seq(Commands) : q = commands[c]
    BY <1>0
  <2>4. /\ monitor' \in [Connections -> BOOLEAN] /\ stopping' \in [Connections -> Nat]
        /\ \A d \in Connections : d # c => monitor'[d] = monitor[d] /\ stopping'[d] = stopping[d]
        /\ phase[c] = "Starting" => monitor'[c] = monitor[c]
        /\ phase[c] = "Connected" /\ Head(q) = "On" => monitor'[c] = TRUE
        /\ phase[c] = "Connected" /\ Head(q) = "Off" => monitor'[c] = FALSE
    <3>1. CASE phase[c] = "Connected" /\ Head(commands[c]) = "Off"
      <4>1. StopMonitor(c)
        BY <1>4, <3>1 DEF TakeToggle
      <4>2. /\ monitor' = [monitor EXCEPT ![c] = FALSE]
            /\ stopping' = [stopping EXCEPT ![c] = @ + (IF monitor[c] THEN 1 ELSE 0)]
        BY <4>1 DEF StopMonitor
      <4>3. /\ monitor' \in [Connections -> BOOLEAN] /\ stopping' \in [Connections -> Nat]
            /\ \A d \in Connections : d # c => monitor'[d] = monitor[d] /\ stopping'[d] = stopping[d]
            /\ monitor'[c] = FALSE
        BY <1>0, <4>2
      <4> QED BY <2>3, <3>1, <4>3
    <3>2. CASE ~(phase[c] = "Connected" /\ Head(commands[c]) = "Off")
      <4>1. monitor' = [monitor EXCEPT ![c] = @ \/ phase[c] = "Connected"] /\ stopping' = stopping
        BY <1>4, <3>2 DEF TakeToggle
      <4>2. monitor'[c] = (monitor[c] \/ phase[c] = "Connected")
        BY <1>0, <4>1
      <4>3. monitor' \in [Connections -> BOOLEAN]
        BY <1>0, <4>1
      <4>4. phase[c] = "Starting" => monitor'[c] = monitor[c]
        BY <1>0, <4>2
      <4>5. phase[c] = "Connected" => monitor'[c] = TRUE
        BY <4>2
      <4> QED BY <1>0, <2>3, <3>2, <4>1, <4>3, <4>4, <4>5
    <3> QED BY <3>1, <3>2
  <2>5. Tail(q) \in Seq(Commands)
    BY <2>1, <2>3, HeadTailProperties
  <2>6. /\ commands' \in [Connections -> Seq(Commands)] /\ commands'[c] = Tail(q)
        /\ \A d \in Connections : d # c => commands'[d] = commands[d]
    BY <1>0, <2>1, <2>3, <2>5
  <2>7. ASSUME NEW flag \in BOOLEAN, Leads(commands[c], monitor[c], flag), phase[c] = "Starting" => ~flag
        PROVE  Leads(commands'[c], monitor'[c], flag)
    <3>1. PICK m \in BOOLEAN, n \in BOOLEAN : m = monitor[c] /\ n = monitor'[c]
      BY <1>0, <2>4
    <3>2. Head(q) = (IF flag THEN "On" ELSE "Off") => n = flag
      <4>1. CASE phase[c] = "Starting"
        BY <1>2, <2>2, <2>4, <2>7, <3>1, <4>1
      <4>2. CASE phase[c] = "Connected"
        BY <2>4, <3>1, <4>2
      <4> QED BY <2>1, <4>1, <4>2 DEF Running
    <3>3. Head(q) # "Disconnect" /\ q # <<>>
      BY <2>1, <2>3
    <3>4. Leads(q, m, flag)
      BY <2>3, <2>7, <3>1
    <3>5. Leads(Tail(q), n, flag)
      BY <3>2, <3>3, <3>4, LeadsTail
    <3> QED BY <2>6, <3>1, <3>5
  <2>8. phase[c] = "Starting" => monitor'[c] = FALSE
    BY <1>2, <2>2, <2>4
  <2>9. Quiet(c)' = Quiet(c) /\ Ends(c)' = Ends(c)
    BY <2>1 DEF Quiet, Ends
  <2>10. /\ UNCHANGED <<window, started, owner>> /\ phase' = phase /\ events' = events
         /\ phase'[c] \in Running /\ phase[c] \notin {"Failing", "Ended"}
    BY <2>1 DEF Running
  <2>11. \A d \in Connections : d # c =>
           /\ events'[d] = events[d] /\ phase'[d] = phase[d] /\ monitor'[d] = monitor[d]
           /\ commands'[d] = commands[d] /\ stopping'[d] = stopping[d]
    BY <2>4, <2>6, <2>10
  <2>12. /\ phase' \in [Connections -> {"New", "Starting", "Connected", "Closing", "Failing", "Ended"}]
         /\ events' \in [Connections -> Seq(StateEvents \cup Samples)]
    BY <1>0, <2>10
  <2>13. /\ phase'[c] = "Starting" => phase[c] = "Starting" /\ Quiet(c)' /\ monitor'[c] = FALSE
         /\ (\E i \in DOMAIN events'[c] : events'[c][i] = "Failed") => phase'[c] \in {"Failing", "Ended"}
         /\ (\E i \in DOMAIN events'[c] : events'[c][i] = "Disconnected") => phase'[c] = "Ended"
    BY <1>2, <2>2, <2>8, <2>9, <2>10
  <2>14. phase'[c] \notin {"Failing", "Ended"} /\ phase[c] \in Running
    BY <2>10
  <2>15. \A flag \in BOOLEAN :
           phase'[c] \in Running /\ Leads(commands[c], monitor[c], flag) /\ (phase[c] = "Starting" => ~flag)
             => Leads(commands'[c], monitor'[c], flag)
    BY <2>7
  <2>16. /\ monitor' \in [Connections -> BOOLEAN] /\ stopping' \in [Connections -> Nat]
         /\ commands' \in [Connections -> Seq(Commands)] /\ (Ends(c) => Ends(c)')
    BY <2>4, <2>6, <2>9
  <2> HIDE DEF IInv
  <2> QED BY <2>2, <2>10, <2>11, <2>12, <2>13, <2>14, <2>15, <2>16, WorkerStep
<1>5. CASE BeginDisconnect(c)
  <2>1. /\ phase[c] \in Running /\ phase' = [phase EXCEPT ![c] = "Closing"] /\ Emit(c, "Disconnecting")
        /\ UNCHANGED <<window, started, owner, commands, monitor, stopping>>
    BY <1>5 DEF BeginDisconnect, Running
  <2>2. c \in 1..started /\ phase'[c] = "Closing" /\ "Disconnecting" \in StateEvents \cup Samples
    BY <1>0, <1>1, <2>1 DEF StateEvents, Running
  <2>3. /\ events' \in [Connections -> Seq(StateEvents \cup Samples)]
        /\ \A d \in Connections : d # c => events'[d] = events[d]
        /\ \A i \in DOMAIN events'[c] :
             events'[c][i] = "Disconnecting" \/ \E j \in DOMAIN events[c] : events[c][j] = events'[c][i]
        /\ Ends(c) => Ends(c)'
    BY <2>1, <2>2, PushKeeps
  <2>4. \A i \in DOMAIN events'[c] : events'[c][i] \notin Overs
    BY <1>2, <2>1, <2>2, <2>3 DEF Running, Overs
  <2> QED BY <1>0, <2>1, <2>2, <2>3, <2>4, WorkerStep DEF Overs, Running
<1>6. CASE FailConnection(c)
  <2>1. /\ phase[c] \in Running /\ phase' = [phase EXCEPT ![c] = "Failing"] /\ Emit(c, "Failed")
        /\ UNCHANGED <<window, started, owner, commands, monitor, stopping>>
    BY <1>6 DEF FailConnection, Running
  <2>2. c \in 1..started /\ phase'[c] = "Failing" /\ "Failed" \in StateEvents \cup Samples
    BY <1>0, <1>1, <2>1 DEF StateEvents, Running
  <2>3. /\ events' \in [Connections -> Seq(StateEvents \cup Samples)]
        /\ \A d \in Connections : d # c => events'[d] = events[d]
        /\ \A i \in DOMAIN events'[c] :
             events'[c][i] = "Failed" \/ \E j \in DOMAIN events[c] : events[c][j] = events'[c][i]
        /\ Ends(c)'
    BY <2>1, <2>2, PushKeeps DEF Overs
  <2>4. \A i \in DOMAIN events'[c] : events'[c][i] # "Disconnected"
    BY <1>2, <2>1, <2>2, <2>3 DEF Running
  <2> QED BY <1>0, <2>1, <2>2, <2>3, <2>4, WorkerStep DEF Running
<1>7. CASE EndWorker(c)
  <2>1. /\ phase[c] \in {"Closing", "Failing"} /\ phase' = [phase EXCEPT ![c] = "Ended"]
        /\ IF phase[c] = "Closing" THEN Emit(c, "Disconnected") ELSE UNCHANGED events
        /\ StopMonitor(c) /\ UNCHANGED <<window, started, owner, commands>>
    BY <1>7 DEF EndWorker
  <2>2. c \in 1..started /\ phase'[c] = "Ended" /\ "Disconnected" \in StateEvents \cup Samples
    BY <1>0, <1>1, <2>1 DEF StateEvents
  <2>3. /\ monitor' \in [Connections -> BOOLEAN] /\ stopping' \in [Connections -> Nat]
        /\ \A d \in Connections : d # c => monitor'[d] = monitor[d] /\ stopping'[d] = stopping[d]
    BY <1>0, <2>1 DEF StopMonitor
  <2>4. \A d \in Connections : d # c => phase'[d] = phase[d] /\ commands'[d] = commands[d]
    BY <1>0, <2>1
  <2>5. CASE phase[c] = "Closing"
    <3>1. /\ events' \in [Connections -> Seq(StateEvents \cup Samples)]
          /\ \A d \in Connections : d # c => events'[d] = events[d]
          /\ Ends(c)'
      BY <2>1, <2>2, <2>5, PushKeeps DEF Overs
    <3> QED BY <1>0, <2>1, <2>2, <2>3, <2>4, <2>5, <3>1, WorkerStep DEF Running
  <2>6. CASE phase[c] = "Failing"
    <3>1. events' = events
      BY <2>1, <2>6
    <3>2. Quiet(c)' = Quiet(c) /\ Ends(c)' = Ends(c)
      BY <3>1 DEF Quiet, Ends
    <3> QED BY <1>0, <2>1, <2>2, <2>3, <2>4, <2>6, <3>1, <3>2, WorkerStep DEF Running
  <2> QED BY <2>1, <2>5, <2>6
<1>8. CASE MonitorStops(c)
  <2>1. /\ stopping[c] > 0 /\ stopping' = [stopping EXCEPT ![c] = @ - 1]
        /\ UNCHANGED <<window, started, owner, phase, commands, monitor, events>>
    BY <1>8 DEF MonitorStops
  <2>2. /\ stopping' \in [Connections -> Nat]
        /\ \A d \in Connections : d > started => stopping'[d] = stopping[d]
    <3>1. c \in 1..started
      BY <1>1, <2>1
    <3>2. \A d \in Connections : d > started => d # c
      BY <3>1 DEF PerformanceTypeOK, Bounds
    <3>3. stopping[c] - 1 \in Nat
      BY <1>0, <2>1
    <3> QED BY <1>0, <2>1, <3>2, <3>3
  <2>3. UNCHANGED <<used, open, state, handle, closing, perf, active, watching, acts>>
    BY <2>1 DEF window
  <2>4. PerformanceTypeOK' /\ FreshOK'
    BY <2>1, <2>2, <2>3 DEF PerformanceTypeOK, FreshOK
  <2>5. WindowOK' /\ ReportsOK' /\ StartOK'
    BY <2>1, <2>3 DEF WindowOK, ReportsOK, StartOK, Quiet, Ends
  <2>6. OneMonitored' /\ WorkerFollowsWindow' /\ LoadingIsTrue'
    BY <2>1, <2>3 DEF OneMonitored, WorkerFollowsWindow, LoadingIsTrue
  <2> QED BY <2>4, <2>5, <2>6
<1>9. ASSUME NEW sample \in Samples, Collect(c, sample)
      PROVE  IInv'
  <2>1. /\ Emit(c, sample) /\ sample \in StateEvents \cup Samples /\ sample \notin Overs
        /\ UNCHANGED <<window, started, owner, phase, commands, monitor, stopping>>
    BY <1>9 DEF Collect, Samples, Overs
  <2>2. /\ events' \in [Connections -> Seq(StateEvents \cup Samples)]
        /\ \A d \in Connections : d # c => events'[d] = events[d]
        /\ \A i \in DOMAIN events'[c] :
             events'[c][i] = sample \/ \E j \in DOMAIN events[c] : events[c][j] = events'[c][i]
        /\ Ends(c) => Ends(c)'
    BY <2>1, PushKeeps
  <2>3. Quiet(c) => Quiet(c)'
    BY <2>2 DEF Quiet
  <2>4. CASE c \in 1..started
    <3>1. \A i \in DOMAIN events'[c] : events'[c][i] \in Overs =>
            \E j \in DOMAIN events[c] : events[c][j] = events'[c][i]
      BY <2>1, <2>2
    <3>2. /\ (\E i \in DOMAIN events'[c] : events'[c][i] = "Failed") => phase[c] \in {"Failing", "Ended"}
          /\ (\E i \in DOMAIN events'[c] : events'[c][i] = "Disconnected") => phase[c] = "Ended"
      BY <1>2, <2>4, <3>1 DEF Overs
    <3>3. phase[c] \in {"Failing", "Ended"} => phase[c] \in {"Failing", "Ended"} \/ Ends(c)'
      OBVIOUS
    <3> QED BY <1>0, <1>2, <2>1, <2>2, <2>3, <2>4, <3>2, WorkerStep
  <2>5. c \in 1..started
    <3>1. monitor[c] \/ stopping[c] > 0
      BY <1>9 DEF Collect
    <3> QED BY <1>1, <3>1
  <2> QED BY <2>4, <2>5
<1> QED BY <1>3, <1>4, <1>5, <1>6, <1>7, <1>8, <1>9

-----------------------------------------------------------------------------
(* Events, and the end of a session.                                       *)

\* A sample, or an event of a session that is gone.
LEMMA SampleKeeps ==
  ASSUME Bounds, IInv, NEW c \in Connections, HandleSample(c) \/ IgnoreEvent(c)
  PROVE  IInv'
<1> USE DEF IInv
<1>1. /\ TakeEvent(c)
      /\ UNCHANGED <<used, open, state, handle, closing, active, watching, acts, started, owner, phase,
                     commands, monitor, stopping>>
  BY DEF HandleSample, IgnoreEvent, window
<1>2. /\ events' \in [Connections -> Seq(StateEvents \cup Samples)]
      /\ c \in 1..started /\ owner[c] \in used
      /\ \A d \in Connections : d # c => events'[d] = events[d]
      /\ \A i \in DOMAIN events'[c] : \E j \in DOMAIN events[c] : events[c][j] = events'[c][i]
      /\ Head(events[c]) \notin Overs /\ Ends(c) => Ends(c)'
  BY <1>1, PopKeeps
<1>3. Head(events[c]) \notin Overs \/ owner[c] \notin open
  BY DEF HandleSample, IgnoreEvent, Samples, Overs
<1>4. /\ perf' \in [Sessions -> PanelType]
      /\ \A s \in Sessions : perf'[s].monitoring = perf[s].monitoring
      /\ \A s \in open : Honest(perf'[s])
      /\ \A s \in Sessions : s \notin used => perf'[s] = perf[s]
  <2>1. /\ perf \in [Sessions -> PanelType] /\ \A s \in open : Honest(perf[s])
    BY AsTheyAre
  <2>2. CASE IgnoreEvent(c)
    BY <2>1, <2>2 DEF IgnoreEvent, window
  <2>3. CASE HandleSample(c)
    <3>1. PICK s \in Sessions : s = owner[c]
      BY DEF PerformanceTypeOK
    <3>2. PICK new : new = Sampled(perf[s], Head(events[c]), c)
      OBVIOUS
    <3>3. perf' = [perf EXCEPT ![s] = new]
      BY <2>3, <3>1, <3>2 DEF HandleSample
    <3>4. c \in 0..started
      BY <1>2
    <3>5. new \in PanelType /\ new.monitoring = perf[s].monitoring /\ new.loading = FALSE
      <4>1. perf[s] \in PanelType
        BY <2>1
      <4>2. CASE Head(events[c]) = "Snapshot"
        BY <3>2, <3>4, <4>1, <4>2 DEF Sampled, PanelType
      <4>3. CASE Head(events[c]) # "Snapshot"
        BY <3>2, <4>1, <4>3 DEF Sampled, PanelType
      <4> QED BY <4>2, <4>3
    <3>6. s \in used
      BY <1>2, <3>1
    <3> QED BY <2>1, <3>3, <3>5, <3>6 DEF Honest
  <2> QED BY <2>2, <2>3
<1>5. \A d \in 1..started : d \in Connections
  BY DEF PerformanceTypeOK, Bounds, Connections
<1>6. PerformanceTypeOK'
  BY <1>1, <1>2, <1>4 DEF PerformanceTypeOK, PanelType
<1>7. FreshOK'
  <2>1. \A d \in Connections : d > started => events'[d] = events[d]
    BY <1>2 DEF PerformanceTypeOK, Bounds
  <2> QED BY <1>1, <1>4, <2>1 DEF FreshOK
<1>8. WindowOK'
  <2>1. ASSUME NEW s \in open, handle[s] = 0, perf'[s].monitoring
        PROVE  \E d \in 1..started : owner[d] = s /\ Ends(d)'
    <3>1. s \in Sessions /\ perf[s].monitoring
      BY <1>4, <2>1 DEF PerformanceTypeOK
    <3>2. PICK d \in 1..started : owner[d] = s /\ Ends(d)
      BY <2>1, <3>1 DEF WindowOK
    <3>3. CASE d = c
      BY <1>2, <1>3, <3>2, <3>3
    <3>4. CASE d # c
      BY <1>2, <1>5, <3>2, <3>4 DEF Ends
    <3> QED BY <3>2, <3>3, <3>4
  <2> QED BY <1>1, <2>1 DEF WindowOK
<1>9. ReportsOK'
  <2>1. ASSUME NEW d \in 1..started
        PROVE  LET t == owner[d] IN
               /\ phase[d] = "Starting" => Quiet(d)' /\ monitor[d] = FALSE
               /\ (\E i \in DOMAIN events'[d] : events'[d][i] = "Failed") => phase[d] \in {"Failing", "Ended"}
               /\ (\E i \in DOMAIN events'[d] : events'[d][i] = "Disconnected") => phase[d] = "Ended"
               /\ t \in open /\ handle[t] # d =>
                    phase[d] \in {"Failing", "Ended"} /\ (handle[t] # 0 => Quiet(d)')
               /\ t \in open /\ handle[t] = d =>
                    /\ phase[d] \in {"Failing", "Ended"} => Ends(d)'
                    /\ phase[d] = "Starting" => state[t] \in {"Connecting", "Disconnecting"}
    <3>1. CASE d # c
      <4>1. events'[d] = events[d] /\ Quiet(d)' = Quiet(d) /\ Ends(d)' = Ends(d)
        BY <1>2, <1>5, <3>1 DEF Quiet, Ends
      <4> QED BY <4>1 DEF ReportsOK
    <3>2. CASE d = c
      <4>1. Quiet(c) => Quiet(c)'
        BY <1>2 DEF Quiet
      <4>2. /\ phase[c] = "Starting" => Quiet(c) /\ monitor[c] = FALSE
            /\ (\E i \in DOMAIN events[c] : events[c][i] = "Failed") => phase[c] \in {"Failing", "Ended"}
            /\ (\E i \in DOMAIN events[c] : events[c][i] = "Disconnected") => phase[c] = "Ended"
        BY <1>2 DEF ReportsOK
      <4>3. owner[c] \in open /\ handle[owner[c]] # c =>
              phase[c] \in {"Failing", "Ended"} /\ (handle[owner[c]] # 0 => Quiet(c))
        BY <1>2 DEF ReportsOK
      <4>4. owner[c] \in open /\ handle[owner[c]] = c =>
              /\ phase[c] \in {"Failing", "Ended"} => Ends(c)
              /\ phase[c] = "Starting" => state[owner[c]] \in {"Connecting", "Disconnecting"}
        BY <1>2 DEF ReportsOK
      <4> QED BY <1>2, <1>3, <3>2, <4>1, <4>2, <4>3, <4>4
    <3> QED BY <3>1, <3>2
  <2> QED BY <1>1, <2>1 DEF ReportsOK
<1>10. StartOK' /\ OneMonitored' /\ LoadingIsTrue'
  <2>1. \A s \in open : s \in Sessions /\ perf'[s].monitoring = perf[s].monitoring
    BY <1>4 DEF PerformanceTypeOK
  <2> QED BY <1>1, <1>4, <2>1 DEF StartOK, OneMonitored, LoadingIsTrue, Honest
<1>11. WorkerFollowsWindow'
  <2> SUFFICES ASSUME NEW s \in open, handle[s] # 0, phase[handle[s]] \in {"Starting", "Connected"}
               PROVE  Leads(commands[handle[s]], monitor[handle[s]], perf'[s].monitoring)
    BY <1>1 DEF WorkerFollowsWindow
  <2>1. perf'[s].monitoring = perf[s].monitoring
    BY <1>4 DEF PerformanceTypeOK
  <2> QED BY <2>1 DEF WorkerFollowsWindow
<1> QED BY <1>6, <1>7, <1>8, <1>9, <1>10, <1>11

\* remove_session, at the end of a handler: events may have lost what went before.
LEMMA RemovedKeeps ==
  ASSUME Bounds, IInv, NEW s \in Sessions, s \in open, NEW shown, Removed(s, shown),
         NEW p \in [Sessions -> PanelType], p = [perf EXCEPT ![s] = p[s]],
         Sync(p, commands), UNCHANGED <<used, watching, started, owner, phase, monitor, stopping>>,
         state' \in [Sessions -> States], \A t \in Sessions : t # s => state'[t] = state[t],
         closing' \in [Sessions -> BOOLEAN], acts' \in Nat,
         events' \in [Connections -> Seq(StateEvents \cup Samples)],
         \A c \in Connections : c > started => events'[c] = <<>>,
         \A c \in 1..started :
           /\ Quiet(c) => Quiet(c)'
           /\ \A i \in DOMAIN events'[c] : \E j \in DOMAIN events[c] : events[c][j] = events'[c][i]
           /\ owner[c] # s /\ Ends(c) => Ends(c)'
  PROVE  IInv'
<1> USE DEF IInv
<1>1. /\ open' = open \ {s} /\ handle' = [handle EXCEPT ![s] = 0]
      /\ active' = IF active = {s} THEN shown ELSE active
      /\ shown \in {{}} \cup {{t} : t \in open \ {s}}
  BY DEF Removed
<1>2. PICK out : out = commands
  OBVIOUS
<1>3. /\ open' \subseteq used' /\ used' \subseteq Sessions /\ handle' \in [Sessions -> 0..started]
      /\ active' \subseteq Sessions /\ watching' \in BOOLEAN
      /\ \A t, u \in active' : t = u
  <2>1. shown \subseteq Sessions /\ \A t, u \in shown : t = u
    BY <1>1 DEF PerformanceTypeOK
  <2>2. started \in Nat
    BY DEF PerformanceTypeOK, Bounds
  <2> QED BY <1>1, <2>1, <2>2 DEF PerformanceTypeOK, WindowOK
<1>4. \A t \in open' : t \in open /\ t # s /\ t \in Sessions /\ p[t] = perf[t]
                       /\ handle'[t] = handle[t] /\ state'[t] = state[t]
  BY <1>1 DEF PerformanceTypeOK
<1>5. \A t \in open' : handle'[t] # 0 => owner[handle'[t]] = t /\ state'[t] \in Going
  BY <1>4 DEF WindowOK
<1>6. \A t \in open' : Honest(p[t])
  BY <1>4, AsTheyAre
<1>7. \A t \in open' : LET c == handle'[t] IN
        c # 0 /\ phase[c] \in Running => Leads(out[c], monitor[c], p[t].monitoring)
  BY <1>2, <1>4, AsTheyAre
<1>8. out \in [Connections -> Seq(Commands)] /\ Sync(p, out)
      /\ \A c \in Connections : c > started => out[c] = <<>> /\ events'[c] = <<>>
  BY <1>2, AsTheyAre
<1>9. \A t \in Sessions : t \notin used' => handle'[t] = 0 /\ p[t] = Cleared
  <2>1. s \in used
    BY DEF PerformanceTypeOK
  <2> QED BY <1>1, <2>1 DEF FreshOK, PerformanceTypeOK
<1>10. ReportsOK'
  <2>1. ASSUME NEW d \in 1..started
        PROVE  LET t == owner[d] IN
               /\ phase[d] = "Starting" => Quiet(d)' /\ monitor[d] = FALSE
               /\ (\E i \in DOMAIN events'[d] : events'[d][i] = "Failed") => phase[d] \in {"Failing", "Ended"}
               /\ (\E i \in DOMAIN events'[d] : events'[d][i] = "Disconnected") => phase[d] = "Ended"
               /\ t \in open' /\ handle'[t] # d =>
                    phase[d] \in {"Failing", "Ended"} /\ (handle'[t] # 0 => Quiet(d)')
               /\ t \in open' /\ handle'[t] = d =>
                    /\ phase[d] \in {"Failing", "Ended"} => Ends(d)'
                    /\ phase[d] = "Starting" => state'[t] \in {"Connecting", "Disconnecting"}
    <3>1. /\ phase[d] = "Starting" => Quiet(d) /\ monitor[d] = FALSE
          /\ (\E i \in DOMAIN events[d] : events[d][i] = "Failed") => phase[d] \in {"Failing", "Ended"}
          /\ (\E i \in DOMAIN events[d] : events[d][i] = "Disconnected") => phase[d] = "Ended"
      BY DEF ReportsOK
    <3>2. owner[d] \in open /\ handle[owner[d]] # d =>
            phase[d] \in {"Failing", "Ended"} /\ (handle[owner[d]] # 0 => Quiet(d))
      BY DEF ReportsOK
    <3>3. owner[d] \in open /\ handle[owner[d]] = d =>
            /\ phase[d] \in {"Failing", "Ended"} => Ends(d)
            /\ phase[d] = "Starting" => state[owner[d]] \in {"Connecting", "Disconnecting"}
      BY DEF ReportsOK
    <3>4. /\ phase[d] = "Starting" => Quiet(d)' /\ monitor[d] = FALSE
          /\ (\E i \in DOMAIN events'[d] : events'[d][i] = "Failed") => phase[d] \in {"Failing", "Ended"}
          /\ (\E i \in DOMAIN events'[d] : events'[d][i] = "Disconnected") => phase[d] = "Ended"
      BY <3>1, ZenonT(60)
    <3>5. CASE owner[d] \in open'
      <4>1. /\ owner[d] \in open /\ owner[d] # s
            /\ handle'[owner[d]] = handle[owner[d]] /\ state'[owner[d]] = state[owner[d]]
        BY <1>4, <3>5
      <4>2. (Quiet(d) => Quiet(d)') /\ (Ends(d) => Ends(d)')
        BY <4>1
      <4> QED BY <3>2, <3>3, <3>4, <4>1, <4>2
    <3> QED BY <3>4, <3>5
  <2> QED BY <2>1 DEF ReportsOK
<1>11. UNCHANGED <<started, owner, phase, monitor, stopping>> /\ used \subseteq used'
  OBVIOUS
<1> HIDE DEF IInv
<1> QED BY <1>3, <1>5, <1>6, <1>7, <1>8, <1>9, <1>10, <1>11, SyncedStep, ZenonT(60)

LEMMA CloseKeeps ==
  ASSUME Bounds, IInv, NEW s \in Sessions, Close(s)
  PROVE  IInv'
<1>1. /\ s \in open /\ \E shown \in {{}} \cup {{t} : t \in open} : Removed(s, shown)
      /\ UNCHANGED <<used, state, closing, watching, started, owner, phase, monitor, stopping, events>>
      /\ Sync(perf, commands) /\ acts' = acts + 1
  BY DEF Close, Act
<1>2. PICK p : p = perf
  OBVIOUS
<1>3. PICK shown : Removed(s, shown)
  BY <1>1
<1>4. p \in [Sessions -> PanelType] /\ Sync(p, commands)
  BY <1>1, <1>2, AsTheyAre
<1>5. p = [perf EXCEPT ![s] = p[s]]
  BY <1>2, <1>4
<1>6. /\ state' \in [Sessions -> States] /\ closing' \in [Sessions -> BOOLEAN] /\ acts' \in Nat
      /\ events' \in [Connections -> Seq(StateEvents \cup Samples)]
  BY <1>1 DEF IInv, PerformanceTypeOK
<1>7. \A c \in Connections : c > started => events'[c] = <<>>
  BY <1>1, AsTheyAre
<1>8. \A c \in 1..started :
        /\ Quiet(c) => Quiet(c)'
        /\ \A i \in DOMAIN events'[c] : \E j \in DOMAIN events[c] : events[c][j] = events'[c][i]
        /\ owner[c] # s /\ Ends(c) => Ends(c)'
  BY <1>1 DEF Quiet, Ends
<1>9. /\ UNCHANGED <<used, watching, started, owner, phase, monitor, stopping>>
      /\ \A t \in Sessions : t # s => state'[t] = state[t]
  BY <1>1
<1> QED BY <1>1, <1>3, <1>4, <1>5, <1>6, <1>7, <1>8, <1>9, RemovedKeeps

LEMMA DisconnectKeeps ==
  ASSUME Bounds, IInv, NEW s \in Sessions, NEW close \in BOOLEAN, Disconnect(s, close)
  PROVE  IInv'
<1>1. /\ s \in open /\ state[s] \in {"Connecting", "Connected"} /\ acts' = acts + 1
      /\ UNCHANGED <<used, watching, started, owner, phase, monitor, stopping, events>>
      /\ closing' = [closing EXCEPT ![s] = @ \/ close]
  BY DEF Disconnect, Act
<1>2. /\ closing' \in [Sessions -> BOOLEAN] /\ acts' \in Nat
      /\ events' \in [Connections -> Seq(StateEvents \cup Samples)]
      /\ used' \subseteq Sessions /\ open \subseteq used /\ s \in used
  <2>1. closing[s] \in BOOLEAN
    BY DEF IInv, PerformanceTypeOK
  <2> QED BY <1>1, <2>1 DEF IInv, PerformanceTypeOK
<1>0. started \in Nat /\ \A t \in open : t \in Sessions /\ handle[t] \in 0..started
  BY DEF IInv, PerformanceTypeOK, Bounds
<1>3. \A c \in Connections : c > started => events'[c] = <<>>
  BY <1>1, AsTheyAre
<1>4. \A c \in 1..started : Quiet(c)' = Quiet(c) /\ Ends(c)' = Ends(c)
  BY <1>1 DEF Quiet, Ends
<1>5. CASE Heard(handle[s])
  <2>1. PICK c : c = handle[s]
    OBVIOUS
  <2>2. c # 0 /\ c \in 1..started /\ c \in Connections /\ owner[c] = s
    <3>1. c # 0
      BY <1>5, <2>1 DEF Heard
    <3>2. c \in 0..started
      BY <2>1 DEF IInv, PerformanceTypeOK
    <3>3. c \in 1..started /\ started <= MaxConnections
      BY <1>0, <3>1, <3>2 DEF IInv, PerformanceTypeOK, Bounds
    <3>4. c \in Connections
      BY <1>0, <3>3 DEF Bounds, Connections
    <3>5. owner[c] = s
      BY <1>1, <2>1, <3>1 DEF IInv, WindowOK
    <3> QED BY <3>1, <3>3, <3>4, <3>5
  <2>3. PICK out : out = [commands EXCEPT ![c] = Append(@, "Disconnect")]
    OBVIOUS
  <2>4. /\ state' = [state EXCEPT ![s] = "Disconnecting"] /\ UNCHANGED <<open, handle>>
        /\ IF close
           THEN active' = (IF active = {s} THEN {} ELSE active) /\ Sync(perf, out)
           ELSE active' = active /\ perf' = perf /\ commands' = out
    BY <1>5, <2>1, <2>3 DEF Disconnect
  <2>5. commands[c] \in Seq(Commands) /\ Append(commands[c], "Disconnect") \in Seq(Commands)
    <3>1. commands[c] \in Seq(Commands) /\ "Disconnect" \in Commands
      BY <2>2 DEF IInv, PerformanceTypeOK, Commands
    <3> QED BY <3>1, AppendProperties
  <2>6. /\ out \in [Connections -> Seq(Commands)] /\ out[c] = Append(commands[c], "Disconnect")
        /\ \A d \in Connections : d # c => out[d] = commands[d]
    BY <2>2, <2>3, <2>5 DEF IInv, PerformanceTypeOK
  <2>7. /\ perf \in [Sessions -> PanelType] /\ \A t \in open : Honest(perf[t])
        /\ \A d \in Connections : d > started => out[d] = <<>> /\ events'[d] = <<>>
        /\ \A t \in Sessions : t \notin used => handle[t] = 0 /\ perf[t] = Cleared
    <3>1. \A d \in Connections : d > started => d # c
      BY <2>2 DEF IInv, PerformanceTypeOK, Bounds
    <3> QED BY <1>3, <2>6, <3>1, AsTheyAre
  <2>8. ASSUME NEW t \in open, handle[t] # 0, phase[handle[t]] \in Running
        PROVE  Leads(out[handle[t]], monitor[handle[t]], perf[t].monitoring)
    <3>1. Leads(commands[handle[t]], monitor[handle[t]], perf[t].monitoring)
      BY <2>8, AsTheyAre
    <3>2. t \in Sessions /\ handle[t] \in Connections /\ perf[t].monitoring \in BOOLEAN
      <4>1. t \in Sessions /\ handle[t] \in 1..started
        BY <1>0, <2>8
      <4>2. handle[t] \in Connections
        BY <1>0, <4>1 DEF IInv, PerformanceTypeOK, Bounds, Connections
      <4>3. perf[t].monitoring \in BOOLEAN
        BY <2>7, <4>1 DEF PanelType
      <4> QED BY <4>1, <4>2, <4>3
    <3>3. CASE handle[t] = c
      <4>1. PICK flag \in BOOLEAN : flag = perf[t].monitoring
        BY <3>2
      <4> QED BY <2>5, <2>6, <3>1, <3>3, <4>1, LeadsDisconnect
    <3>4. CASE handle[t] # c
      BY <2>6, <3>1, <3>2, <3>4
    <3> QED BY <3>3, <3>4
  <2>9. /\ state' \in [Sessions -> States] /\ open' \subseteq used' /\ handle' \in [Sessions -> 0..started]
        /\ \A t \in open' : handle'[t] # 0 => owner[handle'[t]] = t /\ state'[t] \in Going
        /\ active' \subseteq Sessions /\ \A t, u \in active' : t = u
    <3>1. active' \subseteq Sessions /\ \A t, u \in active' : t = u
      BY <2>4 DEF IInv, PerformanceTypeOK, WindowOK
    <3> QED BY <1>1, <2>4, <3>1 DEF IInv, PerformanceTypeOK, WindowOK, States, Going
  <2>10. ReportsOK'
    <3>1. \A t \in Sessions : state'[t] = state[t] \/ state'[t] = "Disconnecting"
      BY <2>4 DEF IInv, PerformanceTypeOK
    <3>2. \A d \in 1..started : owner[d] \in Sessions
      BY DEF IInv, PerformanceTypeOK, Bounds, Connections
    <3> QED BY <1>1, <1>4, <2>4, <3>1, <3>2 DEF IInv, ReportsOK
  <2>11. CASE close
    <3>1. PICK p : p = perf
      OBVIOUS
    <3>2. Sync(p, out) /\ p \in [Sessions -> PanelType]
      BY <2>4, <2>7, <2>11, <3>1
    <3>3. \A t \in open' : Honest(p[t])
      BY <2>4, <2>7, <3>1
    <3>4. \A t \in open' : LET d == handle'[t] IN
            d # 0 /\ phase[d] \in Running => Leads(out[d], monitor[d], p[t].monitoring)
      BY <2>4, <2>8, <3>1
    <3>5. \A t \in Sessions : t \notin used' => handle'[t] = 0 /\ p[t] = Cleared
      BY <1>1, <2>4, <2>7, <3>1
    <3>6. UNCHANGED <<started, owner, phase, monitor, stopping>> /\ used \subseteq used' /\ watching' \in BOOLEAN
      BY <1>1 DEF IInv, PerformanceTypeOK
    <3> QED BY <1>2, <2>6, <2>7, <2>9, <2>10, <3>2, <3>3, <3>4, <3>5, <3>6, SyncedStep
  <2>12. CASE ~close
    <3>1. active' = active /\ perf' = perf /\ commands' = out /\ open' = open /\ handle' = handle
      BY <2>4, <2>12
    <3>2. PerformanceTypeOK'
      BY <1>1, <1>2, <2>6, <2>9, <3>1 DEF IInv, PerformanceTypeOK
    <3>3. FreshOK'
      BY <1>1, <2>7, <3>1 DEF IInv, FreshOK
    <3>4. WindowOK'
      BY <1>1, <1>4, <2>9, <3>1 DEF IInv, WindowOK
    <3>5. StartOK' /\ OneMonitored' /\ LoadingIsTrue'
      BY <1>1, <3>1 DEF IInv, StartOK, OneMonitored, LoadingIsTrue
    <3>6. WorkerFollowsWindow'
      BY <1>1, <2>8, <3>1 DEF WorkerFollowsWindow, Running
    <3> QED BY <2>10, <3>2, <3>3, <3>4, <3>5, <3>6 DEF IInv
  <2> QED BY <2>11, <2>12
<1>6. CASE ~Heard(handle[s])
  <2>1. /\ state' = [state EXCEPT ![s] = "Failed"]
        /\ IF closing'[s]
           THEN (\E shown \in {{}} \cup {{t} : t \in open} : Removed(s, shown)) /\ Sync(perf, commands)
           ELSE handle' = [handle EXCEPT ![s] = 0] /\ UNCHANGED <<open, active, perf, commands>>
    BY <1>6 DEF Disconnect
  <2>2. state' \in [Sessions -> States] /\ \A t \in Sessions : t # s => state'[t] = state[t]
    BY <2>1 DEF IInv, PerformanceTypeOK, States
  <2>3. CASE closing'[s]
    <3>1. PICK shown : Removed(s, shown)
      BY <2>1, <2>3
    <3>2. PICK p : p = perf
      OBVIOUS
    <3>3. p \in [Sessions -> PanelType] /\ Sync(p, commands)
      BY <2>1, <2>3, <3>2, AsTheyAre
    <3>4. p = [perf EXCEPT ![s] = p[s]]
      BY <3>2, <3>3
    <3>5. \A c \in 1..started :
            /\ Quiet(c) => Quiet(c)'
            /\ \A i \in DOMAIN events'[c] : \E j \in DOMAIN events[c] : events[c][j] = events'[c][i]
            /\ owner[c] # s /\ Ends(c) => Ends(c)'
      BY <1>1, <1>4
    <3>6. UNCHANGED <<used, watching, started, owner, phase, monitor, stopping>>
      BY <1>1
    <3> QED BY <1>1, <1>2, <1>3, <2>2, <3>1, <3>3, <3>4, <3>5, <3>6, RemovedKeeps
  <2>4. CASE ~closing'[s]
    <3>1. handle' = [handle EXCEPT ![s] = 0] /\ UNCHANGED <<open, active, perf, commands>>
      BY <2>1, <2>4
    <3>2. handle' \in [Sessions -> 0..started] /\ \A t \in Sessions : t # s => handle'[t] = handle[t]
      BY <3>1 DEF IInv, PerformanceTypeOK, Bounds
    <3>3. handle'[s] = 0
      BY <3>1 DEF IInv, PerformanceTypeOK
    <3>4. handle[s] # 0 =>
            handle[s] \in 1..started /\ owner[handle[s]] = s /\ phase[handle[s]] = "Ended" /\ Ends(handle[s])
      <4> SUFFICES ASSUME handle[s] # 0
                   PROVE  handle[s] \in 1..started /\ owner[handle[s]] = s /\ phase[handle[s]] = "Ended"
                          /\ Ends(handle[s])
        OBVIOUS
      <4>1. handle[s] \in 1..started
        BY DEF IInv, PerformanceTypeOK, Bounds
      <4>2. owner[handle[s]] = s /\ phase[handle[s]] = "Ended"
        BY <1>1, <1>6 DEF IInv, WindowOK, Heard
      <4> QED BY <1>1, <4>1, <4>2 DEF IInv, ReportsOK
    <3>5. PerformanceTypeOK'
      BY <1>1, <1>2, <2>2, <3>1, <3>2 DEF IInv, PerformanceTypeOK
    <3>6. FreshOK'
      BY <1>1, <3>1, <3>2, <3>3 DEF IInv, FreshOK
    <3>7. WindowOK'
      <4>1. ASSUME NEW t \in open, handle'[t] # 0
            PROVE  owner[handle'[t]] = t /\ state'[t] \in Going
        <5>1. t # s /\ t \in Sessions
          BY <1>0, <3>3, <4>1
        <5> QED BY <2>2, <3>2, <4>1, <5>1 DEF IInv, WindowOK
      <4>2. ASSUME NEW t \in open, handle'[t] = 0, perf[t].monitoring
            PROVE  \E c \in 1..started : owner[c] = t /\ Ends(c)'
        <5>1. CASE handle[t] = 0
          BY <1>4, <4>2, <5>1 DEF IInv, WindowOK
        <5>2. CASE handle[t] # 0
          <6>1. t = s
            BY <1>0, <3>2, <4>2, <5>2
          <6> QED BY <1>4, <3>4, <5>2, <6>1
        <5> QED BY <5>1, <5>2
      <4> QED BY <1>1, <3>1, <4>1, <4>2 DEF IInv, WindowOK
    <3>8. ReportsOK'
      <4>1. ASSUME NEW d \in 1..started
            PROVE  LET t == owner[d] IN
                   /\ phase[d] = "Starting" => Quiet(d)' /\ monitor[d] = FALSE
                   /\ (\E i \in DOMAIN events'[d] : events'[d][i] = "Failed") => phase[d] \in {"Failing", "Ended"}
                   /\ (\E i \in DOMAIN events'[d] : events'[d][i] = "Disconnected") => phase[d] = "Ended"
                   /\ t \in open /\ handle'[t] # d =>
                        phase[d] \in {"Failing", "Ended"} /\ (handle'[t] # 0 => Quiet(d)')
                   /\ t \in open /\ handle'[t] = d =>
                        /\ phase[d] \in {"Failing", "Ended"} => Ends(d)'
                        /\ phase[d] = "Starting" => state'[t] \in {"Connecting", "Disconnecting"}
        <5>1. events'[d] = events[d] /\ Quiet(d)' = Quiet(d) /\ Ends(d)' = Ends(d) /\ owner[d] \in Sessions
          BY <1>1, <1>4 DEF IInv, PerformanceTypeOK, Bounds, Connections
        <5>2. CASE owner[d] = s
          <6>1. phase[d] \in {"Failing", "Ended"}
            BY <1>1, <3>4, <5>2 DEF IInv, ReportsOK
          <6>2. d # 0
            BY DEF IInv, PerformanceTypeOK, Bounds
          <6> QED BY <3>3, <5>1, <5>2, <6>1, <6>2 DEF IInv, ReportsOK
        <5>3. CASE owner[d] # s
          <6>1. handle'[owner[d]] = handle[owner[d]] /\ state'[owner[d]] = state[owner[d]]
            BY <2>2, <3>2, <5>1, <5>3
          <6> QED BY <5>1, <6>1 DEF IInv, ReportsOK
        <5> QED BY <5>2, <5>3
      <4> QED BY <1>1, <3>1, <4>1 DEF ReportsOK
    <3>9. StartOK' /\ OneMonitored' /\ LoadingIsTrue'
      <4>1. \A t \in open : t \in Sessions /\ (handle'[t] # 0 => handle'[t] = handle[t])
        BY <1>0, <3>2, <3>3
      <4> QED BY <1>1, <3>1, <4>1 DEF IInv, StartOK, OneMonitored, LoadingIsTrue
    <3>10. WorkerFollowsWindow'
      <4> SUFFICES ASSUME NEW t \in open, handle'[t] # 0, phase[handle'[t]] \in {"Starting", "Connected"}
                   PROVE  Leads(commands[handle'[t]], monitor[handle'[t]], perf[t].monitoring)
        BY <1>1, <3>1 DEF WorkerFollowsWindow
      <4>1. handle'[t] = handle[t]
        BY <1>0, <3>2, <3>3
      <4> QED BY <4>1 DEF IInv, WorkerFollowsWindow
    <3> QED BY <3>5, <3>6, <3>7, <3>8, <3>9, <3>10 DEF IInv
  <2> QED BY <2>3, <2>4
<1> QED BY <1>5, <1>6

\* The state that only the connection the session holds, or one of a session that holds none, has to tell.
LEMMA HandleStateKeeps ==
  ASSUME Bounds, IInv, NEW c \in Connections, HandleState(c)
  PROVE  IInv'
<1>1. PICK s \in Sessions, event \in StateEvents : s = owner[c] /\ event = Head(events[c])
  BY DEF IInv, PerformanceTypeOK, HandleState
<1>2. PICK p : p = [perf EXCEPT ![s] = ClearedBy(@, event)]
  OBVIOUS
<1>3. /\ TakeEvent(c) /\ event \in StateEvents /\ s \in open
      /\ state' = [state EXCEPT ![s] = event]
      /\ IF event \in Overs /\ closing[s]
         THEN \E shown \in {{}} \cup {{t} : t \in open} : Removed(s, shown)
         ELSE /\ handle' = IF event \in Overs THEN [handle EXCEPT ![s] = 0] ELSE handle
              /\ UNCHANGED <<open, active>>
      /\ UNCHANGED <<used, closing, watching, acts, started, owner, phase, monitor, stopping>>
      /\ Sync(p, commands)
  BY <1>1, <1>2 DEF HandleState, Overs
<1>4. /\ events' \in [Connections -> Seq(StateEvents \cup Samples)]
      /\ c \in 1..started
      /\ \A d \in Connections : d # c => events'[d] = events[d]
      /\ \E i \in DOMAIN events[c] : events[c][i] = event
      /\ \A i \in DOMAIN events'[c] : \E j \in DOMAIN events[c] : events[c][j] = events'[c][i]
      /\ event \notin Overs /\ Ends(c) => Ends(c)'
  BY <1>1, <1>3, PopKeeps
<1>5. started \in Nat /\ \A d \in 1..started : d \in Connections /\ owner[d] \in Sessions
  BY DEF IInv, PerformanceTypeOK, Bounds, Connections
<1>6. ~Quiet(c)
  BY <1>3, <1>4 DEF Quiet, StateEvents, Samples
<1>7. handle[s] \in {0, c} /\ phase[c] # "Starting"
  BY <1>1, <1>3, <1>4, <1>6 DEF IInv, ReportsOK
<1>8. event \in Overs => phase[c] \in {"Failing", "Ended"}
  BY <1>4 DEF IInv, ReportsOK, Overs
<1>9. /\ state' \in [Sessions -> States] /\ state'[s] = event
      /\ \A t \in Sessions : t # s => state'[t] = state[t]
  BY <1>3 DEF IInv, PerformanceTypeOK, States, StateEvents
<1>10. /\ p \in [Sessions -> PanelType] /\ Honest(p[s]) /\ p = [perf EXCEPT ![s] = p[s]]
       /\ \A t \in Sessions : t # s => p[t] = perf[t]
       /\ event \notin Overs => p[s] = perf[s]
  <2>1. perf \in [Sessions -> PanelType] /\ Honest(perf[s])
    BY <1>3, AsTheyAre
  <2>2. Cleared \in PanelType /\ Honest(Cleared)
    BY <1>5 DEF Cleared, PanelType, Honest
  <2>3. ClearedBy(perf[s], event) = IF event \in Overs THEN Cleared ELSE perf[s]
    BY DEF ClearedBy, Overs
  <2>4. p[s] = IF event \in Overs THEN Cleared ELSE perf[s]
    BY <1>2, <2>1, <2>3
  <2>5. p \in [Sessions -> PanelType]
    BY <1>2, <2>1, <2>2, <2>3
  <2> QED BY <1>2, <2>1, <2>2, <2>4, <2>5
<1>11. /\ closing' \in [Sessions -> BOOLEAN] /\ acts' \in Nat /\ watching' \in BOOLEAN
       /\ used' \subseteq Sessions /\ open \subseteq used' /\ used \subseteq used' /\ s \in used
       /\ UNCHANGED <<started, owner, phase, monitor, stopping>>
  BY <1>3 DEF IInv, PerformanceTypeOK
<1>12. \A d \in Connections : d > started => events'[d] = <<>>
  <2>1. \A d \in Connections : d > started => d # c
    BY <1>4, <1>5
  <2> QED BY <1>4, <2>1, AsTheyAre
<1>13. \A d \in 1..started :
         /\ Quiet(d) => Quiet(d)'
         /\ \A i \in DOMAIN events'[d] : \E j \in DOMAIN events[d] : events[d][j] = events'[d][i]
         /\ d # c => events'[d] = events[d] /\ Ends(d)' = Ends(d)
  BY <1>4, <1>5, <1>6 DEF Quiet, Ends
<1>14. CASE event \in Overs /\ closing[s]
  <2>1. PICK shown : Removed(s, shown)
    BY <1>3, <1>14
  <2>2. \A d \in 1..started :
          /\ Quiet(d) => Quiet(d)'
          /\ \A i \in DOMAIN events'[d] : \E j \in DOMAIN events[d] : events[d][j] = events'[d][i]
          /\ owner[d] # s /\ Ends(d) => Ends(d)'
    BY <1>1, <1>13
  <2>3. UNCHANGED <<used, watching, started, owner, phase, monitor, stopping>> /\ Sync(p, commands)
    BY <1>3
  <2> QED BY <1>3, <1>4, <1>9, <1>10, <1>11, <1>12, <2>1, <2>2, <2>3, RemovedKeeps
<1>15. CASE ~(event \in Overs /\ closing[s])
  <2>1. handle' = (IF event \in Overs THEN [handle EXCEPT ![s] = 0] ELSE handle) /\ UNCHANGED <<open, active>>
    BY <1>3, <1>15
  <2>2. /\ handle' \in [Sessions -> 0..started]
        /\ \A t \in Sessions : t # s => handle'[t] = handle[t]
        /\ event \in Overs => handle'[s] = 0
        /\ event \notin Overs => handle'[s] = handle[s]
    <3>1. handle \in [Sessions -> 0..started]
      BY DEF IInv, PerformanceTypeOK
    <3> QED BY <1>5, <2>1, <3>1
  <2>3. PICK out : out = commands
    OBVIOUS
  <2>4. /\ out \in [Connections -> Seq(Commands)] /\ Sync(p, out)
        /\ \A d \in Connections : d > started => out[d] = <<>> /\ events'[d] = <<>>
    BY <1>3, <1>12, <2>3, AsTheyAre
  <2>5. \A t \in open' : t \in Sessions /\ t \in open
    BY <2>1 DEF IInv, PerformanceTypeOK
  <2>6. \A t \in open' : handle'[t] # 0 => owner[handle'[t]] = t /\ state'[t] \in Going
    <3>1. ASSUME NEW t \in open', handle'[t] # 0
          PROVE  owner[handle'[t]] = t /\ state'[t] \in Going
      <4>1. handle'[t] = handle[t] /\ owner[handle[t]] = t /\ state[t] \in Going
        BY <2>2, <2>5, <3>1 DEF IInv, WindowOK
      <4>2. t = s => event \in Going
        BY <1>3, <2>2, <3>1 DEF StateEvents, Overs, Going
      <4> QED BY <1>9, <2>5, <4>1, <4>2
    <3> QED BY <3>1
  <2>7. \A t \in open' : Honest(p[t])
    BY <1>10, <2>5, AsTheyAre
  <2>8. \A t \in open' : LET d == handle'[t] IN
          d # 0 /\ phase[d] \in Running => Leads(out[d], monitor[d], p[t].monitoring)
    <3>1. ASSUME NEW t \in open', handle'[t] # 0
          PROVE  handle'[t] = handle[t] /\ p[t] = perf[t] /\ t \in open
      BY <1>10, <2>2, <2>5, <3>1
    <3> QED BY <2>3, <3>1, AsTheyAre
  <2>9. \A t \in Sessions : t \notin used' => handle'[t] = 0 /\ p[t] = Cleared
    <3>1. \A t \in Sessions : t \notin used' => t # s /\ handle[t] = 0 /\ perf[t] = Cleared
      BY <1>3, <1>11, AsTheyAre
    <3> QED BY <1>10, <2>2, <3>1
  <2>10. ReportsOK'
    <3>1. ASSUME NEW d \in 1..started
          PROVE  LET t == owner[d] IN
                 /\ phase[d] = "Starting" => Quiet(d)' /\ monitor[d] = FALSE
                 /\ (\E i \in DOMAIN events'[d] : events'[d][i] = "Failed") => phase[d] \in {"Failing", "Ended"}
                 /\ (\E i \in DOMAIN events'[d] : events'[d][i] = "Disconnected") => phase[d] = "Ended"
                 /\ t \in open /\ handle'[t] # d =>
                      phase[d] \in {"Failing", "Ended"} /\ (handle'[t] # 0 => Quiet(d)')
                 /\ t \in open /\ handle'[t] = d =>
                      /\ phase[d] \in {"Failing", "Ended"} => Ends(d)'
                      /\ phase[d] = "Starting" => state'[t] \in {"Connecting", "Disconnecting"}
      <4>1. /\ phase[d] = "Starting" => Quiet(d) /\ monitor[d] = FALSE
            /\ (\E i \in DOMAIN events[d] : events[d][i] = "Failed") => phase[d] \in {"Failing", "Ended"}
            /\ (\E i \in DOMAIN events[d] : events[d][i] = "Disconnected") => phase[d] = "Ended"
        BY DEF IInv, ReportsOK
      <4>2. owner[d] \in open /\ handle[owner[d]] # d =>
              phase[d] \in {"Failing", "Ended"} /\ (handle[owner[d]] # 0 => Quiet(d))
        BY DEF IInv, ReportsOK
      <4>3. owner[d] \in open /\ handle[owner[d]] = d =>
              /\ phase[d] \in {"Failing", "Ended"} => Ends(d)
              /\ phase[d] = "Starting" => state[owner[d]] \in {"Connecting", "Disconnecting"}
        BY DEF IInv, ReportsOK
      <4>4. /\ phase[d] = "Starting" => Quiet(d)' /\ monitor[d] = FALSE
            /\ (\E i \in DOMAIN events'[d] : events'[d][i] = "Failed") => phase[d] \in {"Failing", "Ended"}
            /\ (\E i \in DOMAIN events'[d] : events'[d][i] = "Disconnected") => phase[d] = "Ended"
        BY <1>13, <4>1
      <4>5. CASE owner[d] # s
        <5>1. /\ handle'[owner[d]] = handle[owner[d]] /\ state'[owner[d]] = state[owner[d]]
              /\ Quiet(d) => Quiet(d)'
              /\ Ends(d)' = Ends(d)
          BY <1>1, <1>5, <1>9, <1>13, <2>2, <4>5
        <5> QED BY <4>2, <4>3, <4>4, <5>1
      <4>6. CASE owner[d] = s /\ d # c
        <5>1. handle[s] # d /\ handle'[s] # d /\ (handle'[s] # 0 => handle[s] # 0)
          BY <1>7, <2>2, <4>6
        <5> QED BY <1>13, <4>2, <4>4, <4>6, <5>1
      <4>7. CASE d = c
        <5>1. handle'[s] # c => phase[c] \in {"Failing", "Ended"} /\ handle'[s] = 0
          BY <1>1, <1>3, <1>7, <1>8, <2>2, <4>2, <4>7
        <5>2. handle'[s] = c => handle[s] = c /\ event \notin Overs
          BY <1>4, <2>2
        <5>3. handle'[s] = c => (phase[c] \in {"Failing", "Ended"} => Ends(c)')
          BY <1>1, <1>3, <1>4, <4>3, <4>7, <5>2
        <5> QED BY <1>1, <1>7, <4>4, <4>7, <5>1, <5>3
      <4> QED BY <4>5, <4>6, <4>7
    <3> QED BY <1>3, <2>1, <3>1, ZenonT(60) DEF ReportsOK
  <2>11. /\ active' \subseteq Sessions /\ \A t, u \in active' : t = u
         /\ open' \subseteq used'
    BY <1>11, <2>1 DEF IInv, PerformanceTypeOK, WindowOK
  <2> HIDE DEF IInv
  <2> QED BY <1>4, <1>9, <1>10, <1>11, <2>2, <2>4, <2>6, <2>7, <2>8, <2>9, <2>10, <2>11, SyncedStep, ZenonT(60)
<1> QED BY <1>14, <1>15

LEMMA StepOK ==
  ASSUME Bounds, IInv, [Next]_vars
  PROVE  IInv'
<1>1. CASE UNCHANGED vars
  <2>1. /\ PerformanceTypeOK' /\ FreshOK'
    BY <1>1 DEF IInv, PerformanceTypeOK, FreshOK, vars, window
  <2>2. WindowOK' /\ ReportsOK' /\ StartOK'
    BY <1>1 DEF IInv, WindowOK, ReportsOK, StartOK, Quiet, Ends, vars, window
  <2>3. OneMonitored' /\ WorkerFollowsWindow' /\ LoadingIsTrue'
    BY <1>1 DEF IInv, OneMonitored, WorkerFollowsWindow, LoadingIsTrue, vars, window
  <2> QED BY <2>1, <2>2, <2>3 DEF IInv
<1>2. ASSUME NEW s \in Sessions, StartConnection(s) \/ Close(s) \/ \E close \in BOOLEAN : Disconnect(s, close)
      PROVE  IInv'
  BY <1>2, StartKeeps, CloseKeeps, DisconnectKeeps
<1>3. CASE \/ \E s \in Sessions : OpenSession(s)
           \/ \E shown \in {{}} \cup {{s} : s \in open} : Show(shown)
           \/ \E performance \in BOOLEAN : SetSidebar(performance)
  BY <1>3, ShowKeeps
<1>4. CASE EditProfile
  BY <1>4, EditKeeps
<1>5. ASSUME NEW c \in Connections, HandleState(c) \/ HandleSample(c) \/ IgnoreEvent(c)
      PROVE  IInv'
  BY <1>5, HandleStateKeeps, SampleKeeps
<1>6. ASSUME NEW c \in Connections,
             \/ Connect(c) \/ TakeToggle(c) \/ BeginDisconnect(c) \/ FailConnection(c) \/ EndWorker(c)
             \/ MonitorStops(c) \/ \E sample \in Samples : Collect(c, sample)
      PROVE  IInv'
  BY <1>6, WorkerKeeps
<1>7. \/ UNCHANGED vars
      \/ \E s \in Sessions : StartConnection(s) \/ Close(s) \/ \E close \in BOOLEAN : Disconnect(s, close)
      \/ \E s \in Sessions : OpenSession(s)
      \/ \E shown \in {{}} \cup {{s} : s \in open} : Show(shown)
      \/ \E performance \in BOOLEAN : SetSidebar(performance)
      \/ EditProfile
      \/ \E c \in Connections : HandleState(c) \/ HandleSample(c) \/ IgnoreEvent(c)
      \/ \E c \in Connections :
           \/ Connect(c) \/ TakeToggle(c) \/ BeginDisconnect(c) \/ FailConnection(c) \/ EndWorker(c)
           \/ MonitorStops(c) \/ \E sample \in Samples : Collect(c, sample)
  BY DEF Next
<1> QED BY <1>1, <1>2, <1>3, <1>4, <1>5, <1>6, <1>7

LEMMA Invariant == Bounds => (Spec => []IInv)
<1> SUFFICES ASSUME Bounds PROVE Spec => []IInv  OBVIOUS
<1>1. Init => IInv
  BY InitOK
<1>2. IInv /\ [Next]_vars => IInv'
  BY StepOK
<1> QED BY <1>1, <1>2, PTL DEF Spec

-----------------------------------------------------------------------------
(* What follows.                                                           *)

\* The window, its panels, and the workers' queues keep their types.
THEOREM PerformanceTypeCorrect == Bounds => (Spec => []PerformanceTypeOK)
<1>1. IInv => PerformanceTypeOK
  BY DEF IInv
<1> QED BY <1>1, Invariant, PTL

\* No two servers are sampled for the panel at a time (performance.rs:15).
THEOREM AtMostOneMonitored == Bounds => (Spec => []OneMonitored)
<1>1. IInv => OneMonitored
  BY DEF IInv
<1> QED BY <1>1, Invariant, PTL

\* Whatever toggles, disconnects and states cross each other, a worker that is not on its
\* way out samples just when the window asks (performance.rs:21, connection.rs:1008).
THEOREM WorkerAlwaysFollows == Bounds => (Spec => []WorkerFollowsWindow)
<1>1. IInv => WorkerFollowsWindow
  BY DEF IInv
<1> QED BY <1>1, Invariant, PTL

\* The panel waits for a first sample only while one is asked for (performance.rs:32, :616).
THEOREM LoadingAlwaysTrue == Bounds => (Spec => []LoadingIsTrue)
<1>1. IInv => LoadingIsTrue
  BY DEF IInv
<1> QED BY <1>1, Invariant, PTL
=============================================================================
