-------------------------- MODULE WorkspaceProofs --------------------------
(***************************************************************************)
(* Proofs about Workspace, for any number of sessions, panes and tabs.     *)
(*                                                                         *)
(* The inductive invariant has two halves.  LayoutOK relates panes, tabs   *)
(* and what is shown; it is kept by the four ways in which handlers change *)
(* them (Activate, OpenTab, a split, RemovePanes), each a lemma.           *)
(* SessionsOK relates sessions to panes; its conjuncts that are not        *)
(* properties say that ids are fresh, that an idle session holds no        *)
(* handle, that the quick terminal has no pane, and that a session waits   *)
(* for one thing at a time.                                                *)
(***************************************************************************)
EXTENDS Workspace, TLAPS

PanesTypeOK ==
  /\ DOMAIN panes \subseteq Ids /\ DOMAIN tabs \subseteq Ids
  /\ \A p \in DOMAIN panes : panes[p] \in [tab : Ids, session : Ids]
  /\ \A t \in DOMAIN tabs : tabs[t] \in [layout : SUBSET Ids, active : Ids]
  /\ active \in [tab : Nat, pane : Nat, session : Nat]
  /\ nextPane \in Ids /\ nextTab \in Ids
  /\ \A p \in DOMAIN panes : p < nextPane
  /\ \A t \in DOMAIN tabs : t < nextTab

LayoutOK == PanesTypeOK /\ PanesMatchTabs /\ ViewIsWhole

SessionsTypeOK ==
  /\ DOMAIN sessions \subseteq Ids
  /\ \A s \in DOMAIN sessions :
       sessions[s] \in SessionRecords
  /\ {quick, focused, pending, approval, rejected} \subseteq DOMAIN sessions \cup {None}
  /\ nextSession \in Ids
  /\ \A s \in DOMAIN sessions : s < nextSession

HandlesOK ==
  /\ \A s \in DOMAIN sessions : sessions[s].link = "Idle" => ~sessions[s].handle
  /\ quick # None => ~HasPane(quick)

\* A session is prepared, waits for its approval or waits for its secret to be deleted,
\* one of the three.
Apart ==
  /\ pending # None => pending \notin {approval, rejected}
  /\ approval # None => approval # rejected

SessionsOK == SessionsTypeOK /\ HandlesOK /\ Apart /\ NoHiddenConnection

IInv == LayoutOK /\ SessionsOK

-----------------------------------------------------------------------------
(* The layout.                                                             *)

\* Showing a pane changes the active pane of its tab and nothing of the layouts.
LEMMA ActivateKeeps ==
  ASSUME LayoutOK, NEW p \in DOMAIN panes, Activate(p), UNCHANGED <<panes, nextPane, nextTab>>,
         DOMAIN sessions \subseteq DOMAIN sessions'
  PROVE  LayoutOK'
<1> USE DEF LayoutOK
<1> DEFINE t == panes[p].tab
<1>1. t \in DOMAIN tabs /\ t \in Ids /\ p \in Ids /\ p \in tabs[t].layout
  BY DEF PanesTypeOK, PanesMatchTabs
<1>2. /\ DOMAIN tabs' = DOMAIN tabs
      /\ \A u \in DOMAIN tabs : tabs'[u].layout = tabs[u].layout
      /\ \A u \in DOMAIN tabs : tabs'[u].active = IF u = t THEN p ELSE tabs[u].active
      /\ \A u \in DOMAIN tabs : tabs'[u] \in [layout : SUBSET Ids, active : Ids]
  BY <1>1 DEF Activate, PanesTypeOK
<1>3. PanesTypeOK'
  BY <1>1, <1>2 DEF Activate, View, PanesTypeOK, Ids
<1>4. PanesMatchTabs'
  BY <1>1, <1>2 DEF PanesMatchTabs
<1>5. ViewIsWhole'
  BY <1>1, <1>2 DEF ViewIsWhole, Activate, View, NoView, None, Ids
<1> QED BY <1>3, <1>4, <1>5

\* A new tab for a session that is not shown yet.
LEMMA OpenTabKeeps ==
  ASSUME LayoutOK, NEW s \in Ids, OpenTab(s), PanesOf({s}) = {},
         DOMAIN sessions \subseteq DOMAIN sessions', s \in DOMAIN sessions'
  PROVE  LayoutOK'
<1> USE DEF LayoutOK
<1>1. nextPane \in Ids /\ nextTab \in Ids /\ nextPane \notin DOMAIN panes /\ nextTab \notin DOMAIN tabs
  BY DEF PanesTypeOK, Ids
<1>2. /\ DOMAIN panes' = DOMAIN panes \cup {nextPane}
      /\ \A p \in DOMAIN panes : panes'[p] = panes[p]
      /\ panes'[nextPane] = [tab |-> nextTab, session |-> s]
      /\ DOMAIN tabs' = DOMAIN tabs \cup {nextTab}
      /\ \A t \in DOMAIN tabs : tabs'[t] = tabs[t]
      /\ tabs'[nextTab] = [layout |-> {nextPane}, active |-> nextPane]
  BY <1>1 DEF OpenTab, With
<1>3. /\ active' = [tab |-> nextTab, pane |-> nextPane, session |-> s]
      /\ nextPane' = nextPane + 1 /\ nextTab' = nextTab + 1
  BY DEF OpenTab
<1>4. PanesTypeOK'
  <2>1. \A p \in DOMAIN panes' : panes'[p] \in [tab : Ids, session : Ids] /\ p < nextPane'
    BY <1>1, <1>2, <1>3 DEF PanesTypeOK, Ids
  <2>2. \A t \in DOMAIN tabs' : tabs'[t] \in [layout : SUBSET Ids, active : Ids] /\ t < nextTab'
    BY <1>1, <1>2, <1>3 DEF PanesTypeOK, Ids
  <2>3. active' \in [tab : Nat, pane : Nat, session : Nat] /\ nextPane' \in Ids /\ nextTab' \in Ids
    BY <1>1, <1>3 DEF Ids
  <2> QED BY <1>1, <1>2, <2>1, <2>2, <2>3 DEF PanesTypeOK
<1>5. PanesMatchTabs'
  BY <1>1, <1>2 DEF PanesMatchTabs, PanesOf, PanesTypeOK
<1>6. ViewIsWhole'
  <2>1. active'.tab = nextTab /\ active'.pane = nextPane /\ active'.session = s /\ nextTab # None
    BY <1>1, <1>3 DEF None, Ids
  <2> QED BY <1>1, <1>2, <2>1 DEF ViewIsWhole
<1> QED BY <1>4, <1>5, <1>6

\* A pane is added to the tab that is shown.
LEMMA SplitKeeps ==
  ASSUME LayoutOK, SessionsTypeOK, SplitActivePane
  PROVE  LayoutOK'
<1> USE DEF LayoutOK
<1> DEFINE t == active.tab  s == nextSession
<1>1. /\ nextPane \in Ids /\ nextPane \notin DOMAIN panes
      /\ t \in DOMAIN tabs /\ t \in Ids
      /\ s \in Ids /\ s \notin DOMAIN sessions /\ s \in DOMAIN sessions'
      /\ DOMAIN sessions \subseteq DOMAIN sessions'
  BY DEF PanesTypeOK, SessionsTypeOK, ViewIsWhole, SplitActivePane, CreateSession, With, Ids, NoView, None
<1>2. /\ DOMAIN panes' = DOMAIN panes \cup {nextPane}
      /\ \A p \in DOMAIN panes : panes'[p] = panes[p]
      /\ panes'[nextPane] = [tab |-> t, session |-> s]
      /\ DOMAIN tabs' = DOMAIN tabs
      /\ \A u \in DOMAIN tabs \ {t} : tabs'[u] = tabs[u]
      /\ tabs'[t] = [layout |-> tabs[t].layout \cup {nextPane}, active |-> nextPane]
  BY <1>1 DEF SplitActivePane, With
<1>3. PanesTypeOK'
  <2>1. tabs[t].layout \cup {nextPane} \in SUBSET Ids
    BY <1>1 DEF PanesTypeOK
  <2>2. \A u \in DOMAIN tabs' : tabs'[u] \in [layout : SUBSET Ids, active : Ids]
    BY <1>1, <1>2, <2>1 DEF PanesTypeOK
  <2> QED BY <1>1, <1>2, <2>2 DEF PanesTypeOK, SplitActivePane, Ids
<1>4. PanesMatchTabs'
  <2>1. \A p \in DOMAIN panes : panes[p].session # s
    BY <1>1 DEF PanesMatchTabs
  <2> QED BY <1>1, <1>2, <2>1 DEF PanesMatchTabs, PanesTypeOK
<1>5. ViewIsWhole'
  BY <1>1, <1>2 DEF ViewIsWhole, SplitActivePane, NoView, None, Ids
<1> QED BY <1>3, <1>4, <1>5

\* Removing panes: what stays is shown as before, or has a new active pane.
LEMMA RemoveKeeps ==
  ASSUME LayoutOK, NEW gone \in SUBSET DOMAIN panes, NEW home \in BOOLEAN, RemovePanes(gone, home),
         UNCHANGED <<nextPane, nextTab>>,
         \A p \in DOMAIN panes \ gone : panes[p].session \in DOMAIN sessions'
  PROVE  LayoutOK'
<1> USE DEF LayoutOK
<1> DEFINE rest == Remaining(gone)
<1>1. PICK next \in [rest -> DOMAIN panes \ gone] :
        /\ \A t \in rest : /\ next[t] \in tabs[t].layout
                           /\ tabs[t].active \notin gone => next[t] = tabs[t].active
        /\ tabs' = [t \in rest |-> [layout |-> tabs[t].layout \ gone, active |-> next[t]]]
        /\ \E view \in Views(gone, next) :
             active' = IF home THEN [view EXCEPT !.session = None] ELSE view
  BY DEF RemovePanes
<1>2. PICK view \in Views(gone, next) :
        active' = IF home THEN [view EXCEPT !.session = None] ELSE view
  BY <1>1
<1>3. /\ DOMAIN panes' = DOMAIN panes \ gone
      /\ \A p \in DOMAIN panes \ gone : panes'[p] = panes[p]
      /\ DOMAIN tabs' = rest /\ rest \subseteq DOMAIN tabs
      /\ \A t \in rest : /\ tabs'[t].layout = tabs[t].layout \ gone
                         /\ tabs'[t].active = next[t]
                         /\ next[t] \in DOMAIN panes \ gone
  BY <1>1 DEF RemovePanes, Restrict, Remaining
<1>4. \A t \in rest : next[t] \in Ids /\ panes[next[t]].tab = t
  BY <1>1, <1>3 DEF PanesTypeOK, PanesMatchTabs
<1>5. PanesMatchTabs'
  <2>1. \A p \in DOMAIN panes \ gone : panes[p].tab \in rest
    BY DEF PanesMatchTabs, Remaining
  <2> QED BY <1>1, <1>3, <2>1 DEF PanesMatchTabs
<1>6. \A t \in rest : View(next[t]) = [tab |-> t, pane |-> next[t], session |-> panes[next[t]].session]
  BY <1>4 DEF View
<1>7. active.pane \notin gone /\ active.tab # None => active.tab \in rest /\ next[active.tab] = active.pane
  BY <1>1 DEF ViewIsWhole, PanesMatchTabs, Remaining
<1>8. /\ view \in [tab : Nat, pane : Nat, session : Nat]
      /\ view.tab = None <=> rest = {}
      /\ view.tab = None => view = NoView
      /\ view.tab # None => /\ view.tab \in rest
                            /\ view.pane = next[view.tab]
                            /\ view.session \in {None, panes[view.pane].session}
  <2>1. CASE active.pane \notin gone
    <3>1. view = active
      BY <2>1, <1>2 DEF Views
    <3>2. CASE active.tab = None
      BY <3>1, <3>2, <1>3 DEF PanesTypeOK, ViewIsWhole
    <3>3. CASE active.tab # None
      BY <3>1, <3>3, <2>1, <1>7 DEF PanesTypeOK, ViewIsWhole
    <3> QED BY <3>2, <3>3
  <2>2. CASE active.pane \in gone /\ rest = {}
    <3>1. view = NoView
      BY <2>2, <1>2 DEF Views
    <3> QED BY <2>2, <3>1 DEF NoView, None
  <2>3. CASE active.pane \in gone /\ rest # {}
    <3>1. PICK t \in rest : view = View(next[t])
      BY <2>3, <1>2 DEF Views
    <3>2. view = [tab |-> t, pane |-> next[t], session |-> panes[next[t]].session]
      BY <3>1, <1>6
    <3>3. t \in Ids /\ next[t] \in Ids /\ panes[next[t]].session \in Ids
      BY <1>3, <1>4 DEF PanesTypeOK
    <3> QED BY <3>2, <3>3 DEF None, Ids
  <2> QED BY <2>1, <2>2, <2>3
<1>9. /\ active' \in [tab : Nat, pane : Nat, session : Nat]
      /\ active'.tab = view.tab /\ active'.pane = view.pane
      /\ active'.session \in {None, view.session}
      /\ view = NoView => active' = NoView
  BY <1>2, <1>8 DEF NoView, None
<1>10. ViewIsWhole'
  <2>1. active'.tab = None => active' = NoView
    BY <1>8, <1>9
  <2>2. active'.tab # None =>
          /\ active'.tab \in DOMAIN tabs'
          /\ active'.pane = tabs'[active'.tab].active
          /\ active'.session \in {None, panes'[active'.pane].session}
    BY <1>3, <1>8, <1>9
  <2> QED BY <1>3, <1>8, <1>9, <2>1, <2>2 DEF ViewIsWhole, NoView
<1>11. PanesTypeOK'
  <2>1. \A t \in rest : tabs'[t] \in [layout : SUBSET Ids, active : Ids]
    BY <1>1, <1>3, <1>4 DEF PanesTypeOK
  <2> QED BY <1>3, <1>9, <2>1 DEF PanesTypeOK
<1> QED BY <1>5, <1>10, <1>11

\* Nothing of the layout changes, and no session goes.
LEMMA LayoutStays ==
  ASSUME LayoutOK, UNCHANGED <<panes, tabs, active, nextPane, nextTab>>,
         DOMAIN sessions \subseteq DOMAIN sessions'
  PROVE  LayoutOK'
<1>1. PanesTypeOK'
  BY DEF LayoutOK, PanesTypeOK
<1>2. PanesMatchTabs'
  BY DEF LayoutOK, PanesMatchTabs
<1>3. ViewIsWhole'
  BY DEF LayoutOK, ViewIsWhole
<1> QED BY <1>1, <1>2, <1>3 DEF LayoutOK

-----------------------------------------------------------------------------
(* The sessions.                                                           *)

\* Only what is shown changes; what is shown of sessions stays shown.
LEMMA PanesStay ==
  ASSUME DOMAIN panes \subseteq DOMAIN panes',
         \A p \in DOMAIN panes : panes'[p] = panes[p]
  PROVE  \A s : HasPane(s) => HasPane(s)'
BY DEF HasPane, PanesOf

\* A new session, whose id no other has.
LEMMA CreateKeeps ==
  ASSUME SessionsTypeOK, NEW new \in {NewSession, Started}, CreateSession(new)
  PROVE  /\ nextSession \in Ids /\ nextSession \notin DOMAIN sessions
         /\ DOMAIN sessions' = DOMAIN sessions \cup {nextSession}
         /\ \A s \in DOMAIN sessions : sessions'[s] = sessions[s]
         /\ sessions'[nextSession] = new
         /\ nextSession' \in Ids
         /\ \A s \in DOMAIN sessions' :
              /\ s \in Ids /\ s < nextSession'
              /\ sessions'[s] \in SessionRecords
<1>1. nextSession \in Ids /\ nextSession \notin DOMAIN sessions
  BY DEF SessionsTypeOK, Ids
<1>2. /\ DOMAIN sessions' = DOMAIN sessions \cup {nextSession}
      /\ \A s \in DOMAIN sessions : sessions'[s] = sessions[s]
      /\ sessions'[nextSession] = new
      /\ nextSession' = nextSession + 1
  BY <1>1 DEF CreateSession, With
<1>3. new \in SessionRecords
  <2>1. NewSession \in SessionRecords
    BY DEF NewSession, Links, SessionRecords
  <2>2. Started \in SessionRecords
    BY DEF Started, Links, SessionRecords
  <2> QED BY <2>1, <2>2
<1>4. \A s \in DOMAIN sessions' : s \in Ids /\ s < nextSession'
  BY <1>1, <1>2 DEF SessionsTypeOK, Ids
<1>5. \A s \in DOMAIN sessions' :
        sessions'[s] \in SessionRecords
  BY <1>1, <1>2, <1>3 DEF SessionsTypeOK
<1> QED BY <1>1, <1>2, <1>4, <1>5 DEF Ids

\* remove_session and close_session: what is closed with a handle is asked to end, and
\* what is being prepared holds none, so its pane goes only with the session.
LEMMA DepartKeeps ==
  ASSUME IInv, NEW gone \in SUBSET DOMAIN panes, NEW leaving \in SUBSET DOMAIN sessions,
         NEW removed \in SUBSET DOMAIN sessions, NEW home \in BOOLEAN,
         Depart(gone, leaving, removed, home),
         \A s \in leaving : sessions[s].handle,
         \A p \in gone : panes[p].session \in leaving \cup removed
  PROVE  IInv'
<1> DEFINE G == gone \cup PanesOf(removed)  stay == DOMAIN sessions \ removed
<1> USE DEF IInv
<1>1. G \in SUBSET DOMAIN panes
  BY DEF PanesOf
<1>2. /\ DOMAIN sessions' = stay
      /\ \A s \in stay \ leaving : sessions'[s] = sessions[s]
      /\ \A s \in stay \cap leaving :
           sessions'[s] = [sessions[s] EXCEPT !.link = "Leaving", !.closing = TRUE]
      /\ RemovePanes(G, home)
      /\ quick' = IF quick \in removed THEN None ELSE quick
      /\ focused' = IF focused \in removed THEN None ELSE focused
      /\ pending' = IF pending \in removed THEN None ELSE pending
      /\ approval' = IF approval \in removed THEN None ELSE approval
      /\ rejected' = IF rejected \in removed THEN None ELSE rejected
      /\ nextSession' = nextSession /\ nextPane' = nextPane /\ nextTab' = nextTab
  BY DEF Depart, counters
<1>3. /\ DOMAIN panes' = DOMAIN panes \ G
      /\ \A p \in DOMAIN panes \ G : panes'[p] = panes[p]
  BY <1>2 DEF RemovePanes, Restrict
<1>4. \A p \in DOMAIN panes \ G : panes[p].session \in DOMAIN sessions'
  BY <1>2 DEF LayoutOK, PanesMatchTabs, PanesOf
<1>5. LayoutOK'
  BY <1>1, <1>2, <1>4, RemoveKeeps
<1>6. \A s \in stay : sessions[s] \in SessionRecords
  BY DEF SessionsOK, SessionsTypeOK
<1>7. \A s \in stay \cap leaving :
        /\ sessions'[s] \in SessionRecords
        /\ sessions'[s].link = "Leaving" /\ sessions'[s].closing
        /\ sessions'[s].handle = sessions[s].handle
  <2> TAKE s \in stay \cap leaving
  <2>1. /\ sessions[s] \in SessionRecords
        /\ sessions'[s] = [sessions[s] EXCEPT !.link = "Leaving", !.closing = TRUE]
    BY <1>2, <1>6
  <2>2. sessions'[s] \in SessionRecords
    BY <2>1 DEF Links, SessionRecords
  <2>3. sessions'[s].link = "Leaving" /\ sessions'[s].handle = sessions[s].handle
    BY <2>1
  <2>4. sessions'[s].closing
    BY <2>1
  <2> QED BY <2>2, <2>3, <2>4
<1>8. SessionsTypeOK'
  <2>1. \A s \in stay : sessions'[s] \in SessionRecords
    BY <1>2, <1>6, <1>7
  <2>2. {quick', focused', pending', approval', rejected'} \subseteq stay \cup {None}
    BY <1>2, ZenonT(60) DEF SessionsOK, SessionsTypeOK
  <2> QED BY <1>2, <2>1, <2>2 DEF SessionsOK, SessionsTypeOK
<1>9. \A s \in stay \ leaving : HasPane(s) => HasPane(s)'
  <2>1. \A p \in DOMAIN panes : panes[p].session \in stay \ leaving => p \in DOMAIN panes \ G
    BY DEF PanesOf
  <2> QED BY <1>3, <2>1 DEF HasPane, PanesOf
<1>10. \A s \in {pending', approval', rejected'} \ {None} :
         s \in {pending, approval, rejected} \ {None} /\ s \in stay \ leaving
  BY <1>2 DEF SessionsOK, SessionsTypeOK, NoHiddenConnection
<1>11. quick' # None => quick' = quick /\ ~HasPane(quick)'
  <2>1. \A s : HasPane(s)' => HasPane(s)
    BY <1>3 DEF HasPane, PanesOf
  <2> QED BY <1>2, <2>1 DEF SessionsOK, HandlesOK
<1>12. HandlesOK'
  <2>1. \A s \in stay : sessions'[s].link = "Idle" => ~sessions'[s].handle
    BY <1>2, <1>7 DEF SessionsOK, HandlesOK
  <2> QED BY <1>2, <1>11, <2>1 DEF HandlesOK, HasPane, PanesOf
<1>13. NoHiddenConnection'
  <2>1. \A s \in stay : sessions'[s].worked => HasPane(s)' \/ s = quick' \/ sessions'[s].closing
    BY <1>2, <1>7, <1>9 DEF SessionsOK, NoHiddenConnection
  <2>2. \A s \in {pending', approval', rejected'} \ {None} : HasPane(s)' /\ ~sessions'[s].handle
    BY <1>2, <1>9, <1>10 DEF SessionsOK, NoHiddenConnection
  <2> QED BY <1>2, <2>1, <2>2 DEF NoHiddenConnection, HasPane, PanesOf
<1>14. Apart'
  BY <1>2 DEF SessionsOK, Apart
<1> QED BY <1>5, <1>8, <1>12, <1>13, <1>14 DEF SessionsOK

\* activate_session_in_window: the session has a pane then, and no other gains or loses one.
LEMMA ShowKeeps ==
  ASSUME LayoutOK, SessionsTypeOK, NEW s \in DOMAIN sessions, Show(s),
         DOMAIN sessions \subseteq DOMAIN sessions'
  PROVE  /\ LayoutOK' /\ HasPane(s)'
         /\ \A u : HasPane(u) => HasPane(u)'
         /\ \A u : HasPane(u)' => HasPane(u) \/ u = s
<1>1. CASE \E p \in PanesOf({s}) : Activate(p) /\ UNCHANGED <<panes, nextPane, nextTab>>
  <2>1. PICK p \in PanesOf({s}) : Activate(p) /\ UNCHANGED <<panes, nextPane, nextTab>>
    BY <1>1
  <2>2. p \in DOMAIN panes /\ panes[p].session = s
    BY DEF PanesOf
  <2>3. LayoutOK'
    BY <2>1, <2>2, ActivateKeeps
  <2> QED BY <2>1, <2>2, <2>3 DEF HasPane, PanesOf
<1>2. CASE ~HasPane(s) /\ OpenTab(s)
  <2>1. s \in Ids /\ PanesOf({s}) = {}
    BY <1>2 DEF SessionsTypeOK, HasPane
  <2>2. LayoutOK'
    BY <1>2, <2>1, OpenTabKeeps
  <2>3. /\ DOMAIN panes' = DOMAIN panes \cup {nextPane} /\ nextPane \notin DOMAIN panes
        /\ \A p \in DOMAIN panes : panes'[p] = panes[p]
        /\ panes'[nextPane].session = s
    BY <1>2 DEF OpenTab, With, LayoutOK, PanesTypeOK, Ids
  <2> QED BY <2>2, <2>3 DEF HasPane, PanesOf
<1> QED BY <1>1, <1>2 DEF Show

\* A session that exists gets another state, and nothing else changes of the sessions.
LEMMA ChangeKeeps ==
  ASSUME SessionsTypeOK, NEW s \in DOMAIN sessions,
         NEW new \in SessionRecords,
         sessions' = [sessions EXCEPT ![s] = new], UNCHANGED nextSession
  PROVE  /\ DOMAIN sessions' = DOMAIN sessions
         /\ sessions'[s] = new
         /\ \A u \in DOMAIN sessions \ {s} : sessions'[u] = sessions[u]
         /\ DOMAIN sessions' \subseteq Ids
         /\ \A u \in DOMAIN sessions' :
              sessions'[u] \in SessionRecords
         /\ nextSession' \in Ids
         /\ \A u \in DOMAIN sessions' : u < nextSession'
BY DEF SessionsTypeOK

\* What a step that removes no session has to show: that the sessions it touches are
\* right, and so are the quick terminal and what is being prepared.
LEMMA SessionsKeep ==
  ASSUME SessionsOK, SessionsTypeOK', Apart',
         \A s \in DOMAIN sessions' :
           \/ s \in DOMAIN sessions /\ sessions'[s] = sessions[s]
           \/ /\ sessions'[s].link = "Idle" => ~sessions'[s].handle
              /\ sessions'[s].worked => HasPane(s)' \/ s = quick' \/ sessions'[s].closing,
         \A s : HasPane(s) => HasPane(s)',
         quick # None => quick' = quick,
         \A s : s = quick' /\ s # None => ~HasPane(s)',
         \A s : s \in {pending', approval', rejected'} /\ s # None => HasPane(s)' /\ ~sessions'[s].handle
  PROVE  SessionsOK'
<1>1. HandlesOK'
  <2>1. \A s \in DOMAIN sessions' : sessions'[s].link = "Idle" => ~sessions'[s].handle
    BY DEF SessionsOK, HandlesOK
  <2> QED BY <2>1 DEF HandlesOK, HasPane, PanesOf, None
<1>2. NoHiddenConnection'
  <2>1. \A s \in DOMAIN sessions' :
          sessions'[s].worked => HasPane(s)' \/ s = quick' \/ sessions'[s].closing
    <3>1. \A s \in DOMAIN sessions : s # None
      BY DEF SessionsOK, SessionsTypeOK, Ids, None
    <3> QED BY <3>1 DEF SessionsOK, NoHiddenConnection
  <2> QED BY <2>1 DEF NoHiddenConnection, HasPane, PanesOf, None
<1> QED BY <1>1, <1>2 DEF SessionsOK

\* A new session in a new pane.
LEMMA NewPaneKeeps ==
  ASSUME IInv, NEW new \in {NewSession, Started}, CreateSession(new), UNCHANGED <<quick, focused, approval, rejected>>,
         DOMAIN panes' = DOMAIN panes \cup {nextPane}, nextPane \notin DOMAIN panes,
         \A p \in DOMAIN panes : panes'[p] = panes[p],
         panes'[nextPane].session = nextSession,
         pending' = pending \/ (new = NewSession /\ pending' = nextSession)
  PROVE  SessionsOK'
<1>1. SessionsOK /\ SessionsTypeOK
  BY DEF IInv, SessionsOK
<1>2. PICK n \in Ids : n = nextSession
  BY <1>1 DEF SessionsTypeOK
<1>3. /\ n \notin DOMAIN sessions /\ DOMAIN sessions' = DOMAIN sessions \cup {n}
      /\ \A s \in DOMAIN sessions : sessions'[s] = sessions[s]
      /\ sessions'[n] = new
      /\ {quick', focused', pending', approval', rejected'} \subseteq DOMAIN sessions' \cup {None}
      /\ SessionsTypeOK'
  BY <1>1, <1>2, CreateKeeps DEF SessionsTypeOK
<1>4. HasPane(n)' /\ \A u : (HasPane(u) => HasPane(u)') /\ (HasPane(u)' => HasPane(u) \/ u = n)
  BY <1>2 DEF HasPane, PanesOf
<1>5. {quick, pending, approval, rejected} \subseteq DOMAIN sessions \cup {None}
  BY <1>1 DEF SessionsTypeOK
<1>6. \A s : s = quick' /\ s # None => ~HasPane(s)'
  BY <1>1, <1>3, <1>4, <1>5 DEF SessionsOK, HandlesOK
<1>7. \A s : s \in {pending', approval', rejected'} /\ s # None => HasPane(s)' /\ ~sessions'[s].handle
  <2>1. \A s \in {pending, approval, rejected} \ {None} : HasPane(s)' /\ ~sessions'[s].handle
    BY <1>1, <1>3, <1>4, <1>5 DEF SessionsOK, NoHiddenConnection
  <2>2. new = NewSession => HasPane(n)' /\ ~sessions'[n].handle
    BY <1>3, <1>4 DEF NewSession
  <2> QED BY <1>2, <2>1, <2>2
<1>8. sessions'[n].link = "Idle" => ~sessions'[n].handle
  BY <1>3 DEF Started, NewSession
<1>9. \A s \in DOMAIN sessions' :
        \/ s \in DOMAIN sessions /\ sessions'[s] = sessions[s]
        \/ /\ sessions'[s].link = "Idle" => ~sessions'[s].handle
           /\ sessions'[s].worked => HasPane(s)' \/ s = quick' \/ sessions'[s].closing
  BY <1>3, <1>4, <1>8
<1>10. Apart'
  BY <1>1, <1>2, <1>3, <1>5 DEF SessionsOK, Apart, Ids, None
<1> QED BY <1>1, <1>3, <1>4, <1>6, <1>7, <1>9, <1>10, SessionsKeep

\* A new session in a new tab.
LEMMA NewTabKeeps ==
  ASSUME IInv, NEW new \in {NewSession, Started}, CreateSession(new), OpenTab(nextSession),
         UNCHANGED <<quick, focused, approval, rejected>>,
         pending' = pending \/ (new = NewSession /\ pending' = nextSession)
  PROVE  IInv'
<1>1. LayoutOK /\ SessionsTypeOK
  BY DEF IInv, SessionsOK
<1>2. /\ nextSession \in Ids /\ nextSession \notin DOMAIN sessions
      /\ DOMAIN sessions' = DOMAIN sessions \cup {nextSession}
  BY <1>1, CreateKeeps
<1>3. PanesOf({nextSession}) = {}
  BY <1>1, <1>2 DEF PanesOf, LayoutOK, PanesMatchTabs
<1>4. LayoutOK'
  BY <1>1, <1>2, <1>3, OpenTabKeeps
<1>5. /\ DOMAIN panes' = DOMAIN panes \cup {nextPane} /\ nextPane \notin DOMAIN panes
      /\ \A p \in DOMAIN panes : panes'[p] = panes[p]
      /\ panes'[nextPane].session = nextSession
  BY <1>1 DEF OpenTab, With, LayoutOK, PanesTypeOK, Ids
<1>6. SessionsOK'
  BY <1>5, NewPaneKeeps
<1> QED BY <1>4, <1>6 DEF IInv

-----------------------------------------------------------------------------
(* The actions.                                                            *)

LEMMA OpenLocalTerminalKeeps == IInv /\ OpenLocalTerminal => IInv'
BY NewTabKeeps DEF OpenLocalTerminal

\* A connection refused leaves a session with neither pane nor handle.
LEMMA ConnectNewKeeps == IInv /\ ConnectNew => IInv'
<1> SUFFICES ASSUME IInv, ConnectNew
             PROVE  IInv'
  OBVIOUS
<1>1. CreateSession(NewSession) /\ UNCHANGED <<quick, focused, approval, rejected>>
  BY DEF ConnectNew
<1>2. CASE UNCHANGED <<panes, tabs, active, nextPane, nextTab, pending>>
  <2>1. LayoutOK /\ SessionsOK /\ SessionsTypeOK
    BY DEF IInv, SessionsOK
  <2>2. /\ DOMAIN sessions' = DOMAIN sessions \cup {nextSession}
        /\ \A s \in DOMAIN sessions : sessions'[s] = sessions[s]
        /\ sessions'[nextSession] = NewSession
        /\ SessionsTypeOK'
    BY <1>1, <1>2, <2>1, CreateKeeps DEF SessionsTypeOK
  <2>3. LayoutOK'
    BY <1>2, <2>1, <2>2, LayoutStays
  <2>4. \A u : HasPane(u)' <=> HasPane(u)
    BY <1>2 DEF HasPane, PanesOf
  <2>5. /\ \A s : s = quick' /\ s # None => ~HasPane(s)'
        /\ \A s : s \in {pending', approval', rejected'} /\ s # None => HasPane(s)' /\ ~sessions'[s].handle
    BY <1>1, <1>2, <2>1, <2>2, <2>4 DEF SessionsOK, SessionsTypeOK, HandlesOK, NoHiddenConnection
  <2>6. \A s \in DOMAIN sessions' :
          \/ s \in DOMAIN sessions /\ sessions'[s] = sessions[s]
          \/ ~sessions'[s].handle /\ ~sessions'[s].worked
    BY <2>2 DEF NewSession
  <2>7. Apart'
    BY <1>1, <1>2, <2>1 DEF SessionsOK, Apart
  <2>8. SessionsOK'
    BY <1>1, <2>1, <2>2, <2>4, <2>5, <2>6, <2>7, SessionsKeep
  <2> QED BY <2>3, <2>8 DEF IInv
<1>3. CASE pending = None /\ rejected = None /\ OpenTab(nextSession) /\ pending' = nextSession
  BY <1>1, <1>3, NewTabKeeps
<1> QED BY <1>2, <1>3 DEF ConnectNew

LEMMA SplitActivePaneKeeps == IInv /\ SplitActivePane => IInv'
<1> SUFFICES ASSUME IInv, SplitActivePane
             PROVE  IInv'
  OBVIOUS
<1>1. LayoutOK'
  BY SplitKeeps DEF IInv, SessionsOK
<1>2. /\ DOMAIN panes' = DOMAIN panes \cup {nextPane} /\ nextPane \notin DOMAIN panes
      /\ \A p \in DOMAIN panes : panes'[p] = panes[p]
      /\ panes'[nextPane].session = nextSession
      /\ UNCHANGED <<quick, focused, approval, rejected>>
  BY DEF SplitActivePane, With, IInv, LayoutOK, PanesTypeOK, Ids
<1>3. PICK new \in {NewSession, Started} :
        /\ CreateSession(new)
        /\ pending' = pending \/ (new = NewSession /\ pending' = nextSession)
  BY DEF SplitActivePane
<1>4. SessionsOK'
  BY <1>2, <1>3, NewPaneKeeps
<1> QED BY <1>1, <1>4 DEF IInv

LEMMA ConnectKeeps ==
  ASSUME IInv, NEW s \in DOMAIN sessions, Connect(s)
  PROVE  IInv'
<1>1. LayoutOK /\ SessionsOK /\ SessionsTypeOK
  BY DEF IInv, SessionsOK
<1>2. /\ s # quick /\ sessions[s].link = "Idle"
      /\ UNCHANGED <<sessions, quick, focused, approval, rejected, nextSession>>
  BY DEF Connect
<1>3. CASE UNCHANGED <<panes, tabs, active, nextPane, nextTab, pending>>
  <2>1. LayoutOK'
    BY <1>1, <1>2, <1>3, LayoutStays
  <2>2. SessionsOK'
    BY <1>1, <1>2, <1>3
      DEF SessionsOK, SessionsTypeOK, HandlesOK, Apart, NoHiddenConnection, HasPane, PanesOf
  <2> QED BY <2>1, <2>2 DEF IInv
<1>4. CASE pending = None /\ rejected = None /\ approval # s /\ Show(s) /\ pending' = s
  <2>1. /\ LayoutOK' /\ HasPane(s)'
        /\ \A u : HasPane(u) => HasPane(u)'
        /\ \A u : HasPane(u)' => HasPane(u) \/ u = s
    BY <1>1, <1>2, <1>4, ShowKeeps
  <2>2. SessionsTypeOK'
    BY <1>1, <1>2, <1>4 DEF SessionsTypeOK
  <2>3. \A u : u = quick' /\ u # None => ~HasPane(u)'
    BY <1>1, <1>2, <2>1 DEF SessionsOK, HandlesOK
  <2>4. \A u : u \in {pending', approval', rejected'} /\ u # None => HasPane(u)' /\ ~sessions'[u].handle
    BY <1>1, <1>2, <1>4, <2>1 DEF SessionsOK, HandlesOK, NoHiddenConnection
  <2>5. s # None
    BY <1>1 DEF SessionsTypeOK, Ids, None
  <2>6. Apart'
    BY <1>1, <1>2, <1>4, <2>5 DEF SessionsOK, Apart
  <2>7. SessionsOK'
    BY <1>1, <1>2, <2>1, <2>2, <2>3, <2>4, <2>6, SessionsKeep
  <2> QED BY <2>1, <2>7 DEF IInv
<1> QED BY <1>3, <1>4 DEF Connect, ConnectSession

\* What is being prepared has a pane: its connection is seen.
LEMMA StartConnectionKeeps == IInv /\ StartConnection => IInv'
<1> SUFFICES ASSUME IInv, StartConnection
             PROVE  IInv'
  OBVIOUS
<1>1. LayoutOK /\ SessionsOK /\ SessionsTypeOK
  BY DEF IInv, SessionsOK
<1>2. PICK s \in {pending, approval} \ {None} :
        /\ sessions' = [sessions EXCEPT ![s] = Started]
        /\ pending' = IF s = pending THEN None ELSE pending
        /\ approval' = IF s = approval THEN None ELSE approval
  BY DEF StartConnection
<1>3. /\ s \in DOMAIN sessions
      /\ sessions' = [sessions EXCEPT ![s] = Started]
      /\ pending' \in {pending, None} \ {s} /\ approval' \in {approval, None} \ {s}
      /\ rejected' = None
      /\ UNCHANGED <<panes, tabs, active, quick, focused, nextSession, nextPane, nextTab>>
  BY <1>1, <1>2 DEF StartConnection, counters, SessionsTypeOK
<1>4. Started \in SessionRecords /\ Started.link # "Idle"
  BY DEF Started, Links, SessionRecords
<1>5. /\ DOMAIN sessions' = DOMAIN sessions /\ sessions'[s] = Started
      /\ \A u \in DOMAIN sessions \ {s} : sessions'[u] = sessions[u]
      /\ SessionsTypeOK'
  BY <1>1, <1>3, <1>4, ChangeKeeps DEF SessionsTypeOK
<1>6. LayoutOK'
  BY <1>1, <1>3, <1>5, LayoutStays
<1>7. \A u : HasPane(u)' <=> HasPane(u)
  BY <1>3 DEF HasPane, PanesOf
<1>8. HasPane(s)'
  BY <1>1, <1>2, <1>7 DEF SessionsOK, NoHiddenConnection
<1>9. \A u : u = quick' /\ u # None => ~HasPane(u)'
  BY <1>1, <1>3, <1>7 DEF SessionsOK, HandlesOK
<1>10. \A u : u \in {pending', approval', rejected'} /\ u # None => HasPane(u)' /\ ~sessions'[u].handle
  <2>1. {pending, approval} \subseteq DOMAIN sessions \cup {None}
    BY <1>1 DEF SessionsTypeOK
  <2> QED BY <1>1, <1>3, <1>5, <1>7, <2>1 DEF SessionsOK, NoHiddenConnection
<1>11. Apart'
  BY <1>1, <1>3 DEF SessionsOK, Apart
<1>12. SessionsOK'
  BY <1>1, <1>3, <1>4, <1>5, <1>7, <1>8, <1>9, <1>10, <1>11, SessionsKeep
<1> QED BY <1>6, <1>12 DEF IInv

\* What waits for something else of what a connection waits for has a pane already.
LEMMA WaitKeeps ==
  ASSUME IInv, pending' \in {None, pending, rejected}, approval' \in {None, approval, pending},
         rejected' \in {None, rejected}, Apart',
         UNCHANGED <<sessions, panes, tabs, active, quick, focused, counters>>
  PROVE  IInv'
<1>1. UNCHANGED <<sessions, panes, tabs, active, quick, focused, nextSession, nextPane, nextTab>>
  BY DEF counters
<1>2. LayoutOK'
  BY <1>1, LayoutStays DEF IInv
<1>3. SessionsOK'
  BY <1>1 DEF IInv, SessionsOK, SessionsTypeOK, HandlesOK, Apart, NoHiddenConnection, HasPane, PanesOf
<1> QED BY <1>2, <1>3 DEF IInv

LEMMA AskApprovalKeeps == IInv /\ AskApproval => IInv'
BY WaitKeeps DEF AskApproval, IInv, SessionsOK, Apart

LEMMA RetryConnectionKeeps == IInv /\ RetryConnection => IInv'
BY WaitKeeps DEF RetryConnection, IInv, SessionsOK, Apart

LEMMA CancelConnectionKeeps == IInv /\ CancelConnection => IInv'
BY WaitKeeps DEF CancelConnection, IInv, SessionsOK, Apart

LEMMA RestartLocalKeeps ==
  ASSUME IInv, NEW s \in DOMAIN sessions, RestartLocal(s)
  PROVE  IInv'
<1>1. LayoutOK /\ SessionsOK /\ SessionsTypeOK
  BY DEF IInv, SessionsOK
<1>2. /\ s \notin {quick, pending, approval, rejected} /\ Show(s)
      /\ sessions' = [sessions EXCEPT ![s] = Started]
      /\ UNCHANGED <<quick, focused, pending, approval, rejected, nextSession>>
  BY DEF RestartLocal
<1>3. Started \in SessionRecords /\ Started.link # "Idle"
  BY DEF Started, Links, SessionRecords
<1>4. /\ DOMAIN sessions' = DOMAIN sessions /\ sessions'[s] = Started
      /\ \A u \in DOMAIN sessions \ {s} : sessions'[u] = sessions[u]
      /\ SessionsTypeOK'
  BY <1>1, <1>2, <1>3, ChangeKeeps DEF SessionsTypeOK
<1>5. /\ LayoutOK' /\ HasPane(s)'
      /\ \A u : HasPane(u) => HasPane(u)'
      /\ \A u : HasPane(u)' => HasPane(u) \/ u = s
  BY <1>1, <1>2, <1>4, ShowKeeps
<1>6. \A u : u = quick' /\ u # None => ~HasPane(u)'
  BY <1>1, <1>2, <1>5 DEF SessionsOK, HandlesOK
<1>7. \A u : u \in {pending', approval', rejected'} /\ u # None => HasPane(u)' /\ ~sessions'[u].handle
  BY <1>1, <1>2, <1>4, <1>5 DEF SessionsOK, SessionsTypeOK, HandlesOK, NoHiddenConnection
<1>8. Apart'
  BY <1>1, <1>2 DEF SessionsOK, Apart
<1>9. SessionsOK'
  BY <1>1, <1>2, <1>3, <1>4, <1>5, <1>6, <1>7, <1>8, SessionsKeep
<1> QED BY <1>5, <1>9 DEF IInv

\* A pane never shows the quick terminal: its session is new, or has none already.
LEMMA StartQuickTerminalKeeps == IInv /\ StartQuickTerminal => IInv'
<1> SUFFICES ASSUME IInv, StartQuickTerminal
             PROVE  IInv'
  OBVIOUS
<1>1. LayoutOK /\ SessionsOK /\ SessionsTypeOK
  BY DEF IInv, SessionsOK
<1>2. /\ focused' = quick'
      /\ UNCHANGED <<panes, tabs, active, pending, approval, rejected, nextPane, nextTab>>
  BY DEF StartQuickTerminal
<1>3. Started \in SessionRecords /\ Started.link # "Idle"
  BY DEF Started, Links, SessionRecords
<1>4. PICK q \in Ids :
        /\ q = quick' /\ q \in DOMAIN sessions' /\ sessions'[q] = Started
        /\ DOMAIN sessions' = DOMAIN sessions \cup {q}
        /\ \A u \in DOMAIN sessions \ {q} : sessions'[u] = sessions[u]
        /\ quick # None => quick' = quick
        /\ ~HasPane(q) /\ q \notin {pending, approval, rejected}
        /\ SessionsTypeOK'
  <2>1. CASE quick = None /\ CreateSession(Started) /\ quick' = nextSession
    <3>1. /\ nextSession \in Ids /\ nextSession \notin DOMAIN sessions
          /\ DOMAIN sessions' = DOMAIN sessions \cup {nextSession}
          /\ \A s \in DOMAIN sessions : sessions'[s] = sessions[s]
          /\ sessions'[nextSession] = Started
      BY <1>1, <2>1, CreateKeeps
    <3>2. SessionsTypeOK'
      BY <1>1, <1>2, <2>1, <3>1, CreateKeeps DEF SessionsTypeOK
    <3>3. ~HasPane(nextSession)
      BY <1>1, <3>1 DEF HasPane, PanesOf, LayoutOK, PanesMatchTabs
    <3>4. nextSession \notin {pending, approval, rejected}
      BY <1>1, <3>1 DEF SessionsTypeOK, Ids, None
    <3> QED BY <2>1, <3>1, <3>2, <3>3, <3>4
  <2>2. CASE /\ quick # None /\ sessions[quick].link = "Idle"
             /\ sessions' = [sessions EXCEPT ![quick] = Started]
             /\ UNCHANGED <<quick, nextSession>>
    <3>1. quick \in DOMAIN sessions /\ quick \in Ids
      BY <1>1, <2>2 DEF SessionsTypeOK
    <3>2. /\ DOMAIN sessions' = DOMAIN sessions
          /\ sessions'[quick] = Started
          /\ \A u \in DOMAIN sessions \ {quick} : sessions'[u] = sessions[u]
      BY <2>2, <3>1
    <3>3. SessionsTypeOK'
      BY <1>1, <1>2, <1>3, <2>2, <3>1, <3>2 DEF SessionsTypeOK
    <3>4. ~HasPane(quick) /\ quick \notin {pending, approval, rejected}
      BY <1>1, <2>2 DEF SessionsOK, HandlesOK, NoHiddenConnection
    <3> QED BY <2>2, <3>1, <3>2, <3>3, <3>4
  <2> QED BY <2>1, <2>2 DEF StartQuickTerminal
<1>5. LayoutOK'
  BY <1>1, <1>2, <1>4, LayoutStays
<1>6. \A u : HasPane(u)' <=> HasPane(u)
  BY <1>2 DEF HasPane, PanesOf
<1>7. \A u : u = quick' /\ u # None => ~HasPane(u)'
  BY <1>4, <1>6
<1>8. \A u : u \in {pending', approval', rejected'} /\ u # None => HasPane(u)' /\ ~sessions'[u].handle
  BY <1>1, <1>2, <1>4, <1>6 DEF SessionsOK, SessionsTypeOK, HandlesOK, NoHiddenConnection
<1>9. Apart'
  BY <1>1, <1>2 DEF SessionsOK, Apart
<1>10. SessionsOK'
  BY <1>1, <1>3, <1>4, <1>6, <1>7, <1>8, <1>9, SessionsKeep
<1> QED BY <1>5, <1>10 DEF IInv

\* Another pane is shown.
LEMMA LookKeeps ==
  ASSUME IInv, NEW p \in DOMAIN panes, Activate(p),
         UNCHANGED <<sessions, panes, quick, pending, approval, rejected, counters>>,
         focused' \in DOMAIN sessions \cup {None}
  PROVE  IInv'
<1>1. LayoutOK'
  BY ActivateKeeps DEF IInv, counters
<1>2. SessionsOK'
  BY DEF IInv, SessionsOK, SessionsTypeOK, HandlesOK, Apart, NoHiddenConnection, HasPane, PanesOf, counters
<1> QED BY <1>1, <1>2 DEF IInv

LEMMA ActivateTabKeeps ==
  ASSUME IInv, NEW t \in DOMAIN tabs, ActivateTab(t)
  PROVE  IInv'
<1>1. tabs[t].active \in DOMAIN panes
  BY DEF IInv, LayoutOK, PanesMatchTabs
<1>2. focused' \in DOMAIN sessions \cup {None}
  BY DEF ActivateTab, IInv, SessionsOK, SessionsTypeOK
<1> QED BY <1>1, <1>2, LookKeeps DEF ActivateTab

LEMMA FocusPaneKeeps ==
  ASSUME IInv, NEW p \in DOMAIN panes, FocusPane(p)
  PROVE  IInv'
<1>1. focused' \in DOMAIN sessions \cup {None}
  BY DEF FocusPane, IInv, LayoutOK, PanesMatchTabs
<1> QED BY <1>1, LookKeeps DEF FocusPane

LEMMA FocusKeeps ==
  ASSUME IInv, NEW s \in DOMAIN sessions, Focus(s)
  PROVE  IInv'
<1>1. LayoutOK'
  BY LayoutStays DEF IInv, Focus, counters
<1>2. SessionsOK'
  BY DEF IInv, Focus, counters, SessionsOK, SessionsTypeOK, HandlesOK, Apart, NoHiddenConnection, HasPane, PanesOf
<1> QED BY <1>1, <1>2 DEF IInv

LEMMA BlurKeeps == IInv /\ Blur => IInv'
<1> SUFFICES ASSUME IInv, Blur
             PROVE  IInv'
  OBVIOUS
<1>1. LayoutOK'
  BY LayoutStays DEF IInv, Blur, counters
<1>2. SessionsOK'
  BY DEF IInv, Blur, counters, SessionsOK, SessionsTypeOK, HandlesOK, Apart, NoHiddenConnection, HasPane, PanesOf
<1> QED BY <1>1, <1>2 DEF IInv

LEMMA ShowOtherKeeps == IInv /\ ShowOther => IInv'
<1> SUFFICES ASSUME IInv, ShowOther
             PROVE  IInv'
  OBVIOUS
<1>1. /\ active \in [tab : Nat, pane : Nat, session : Nat]
      /\ active' = [active EXCEPT !.session = None]
      /\ UNCHANGED <<sessions, panes, tabs, quick, pending, approval, rejected, nextSession, nextPane, nextTab>>
  BY DEF IInv, LayoutOK, PanesTypeOK, ShowOther, counters
<1>2. /\ active' \in [tab : Nat, pane : Nat, session : Nat]
      /\ active'.tab = active.tab /\ active'.pane = active.pane /\ active'.session = None
      /\ active = NoView => active' = NoView
  BY <1>1 DEF NoView, None
<1>3. LayoutOK'
  <2>1. PanesTypeOK'
    BY <1>1, <1>2 DEF IInv, LayoutOK, PanesTypeOK
  <2>2. PanesMatchTabs'
    BY <1>1 DEF IInv, LayoutOK, PanesMatchTabs
  <2>3. ViewIsWhole'
    BY <1>1, <1>2 DEF IInv, LayoutOK, ViewIsWhole
  <2> QED BY <2>1, <2>2, <2>3 DEF LayoutOK
<1>4. SessionsOK'
  BY <1>1 DEF ShowOther, IInv, SessionsOK, SessionsTypeOK, HandlesOK, Apart, NoHiddenConnection, HasPane, PanesOf
<1> QED BY <1>3, <1>4 DEF IInv

\* close_session, with the panes that go before it: none of a session that stays.
LEMMA CloseKeeps ==
  ASSUME IInv, NEW gone \in SUBSET DOMAIN panes, NEW S \in SUBSET DOMAIN sessions,
         \A p \in gone : panes[p].session \in S,
         Close(gone, S)
  PROVE  IInv'
<1>1. PICK leaving \in SUBSET {s \in S : sessions[s].link = "Live" /\ sessions[s].handle} :
        Depart(gone, leaving, S \ leaving, FALSE)
  BY DEF Close
<1>2. /\ leaving \in SUBSET DOMAIN sessions /\ S \ leaving \in SUBSET DOMAIN sessions
      /\ \A s \in leaving : sessions[s].handle
      /\ \A p \in gone : panes[p].session \in leaving \cup (S \ leaving)
  OBVIOUS
<1> QED BY <1>1, <1>2, DepartKeeps

LEMMA CloseActivePaneKeeps == IInv /\ CloseActivePane => IInv'
<1> SUFFICES ASSUME IInv, CloseActivePane
             PROVE  IInv'
  OBVIOUS
<1>1. active.pane \in DOMAIN panes
  BY DEF CloseActivePane, IInv, LayoutOK, PanesMatchTabs, ViewIsWhole, NoView
<1>2. panes[active.pane].session \in DOMAIN sessions
  BY <1>1 DEF IInv, LayoutOK, PanesMatchTabs
<1> QED BY <1>1, <1>2, CloseKeeps DEF CloseActivePane

LEMMA CloseTabKeeps ==
  ASSUME IInv, NEW t \in DOMAIN tabs, CloseTab(t)
  PROVE  IInv'
<1>1. CASE Close(PanesIn(t), {panes[p].session : p \in PanesIn(t)})
  <2>1. /\ PanesIn(t) \in SUBSET DOMAIN panes
        /\ {panes[p].session : p \in PanesIn(t)} \in SUBSET DOMAIN sessions
    BY DEF PanesIn, IInv, LayoutOK, PanesMatchTabs
  <2> QED BY <1>1, <2>1, CloseKeeps
<1>2. CASE \E p \in PanesIn(t) :
             Activate(p) /\ UNCHANGED <<sessions, panes, quick, focused, pending, approval, rejected, counters>>
  <2>1. PICK p \in DOMAIN panes :
          Activate(p) /\ UNCHANGED <<sessions, panes, quick, focused, pending, approval, rejected, counters>>
    BY <1>2 DEF PanesIn
  <2>2. focused' \in DOMAIN sessions \cup {None}
    BY <2>1 DEF IInv, SessionsOK, SessionsTypeOK
  <2> QED BY <2>1, <2>2, LookKeeps
<1> QED BY <1>1, <1>2 DEF CloseTab

LEMMA CloseSessionKeeps ==
  ASSUME IInv, NEW s \in DOMAIN sessions, CloseSession(s)
  PROVE  IInv'
BY CloseKeeps DEF CloseSession

LEMMA DeleteProfileKeeps ==
  ASSUME IInv, NEW S \in SUBSET DOMAIN sessions, DeleteProfile(S)
  PROVE  IInv'
BY DepartKeeps DEF DeleteProfile

\* A session gets another state, with no more of a handle than it had.
LEMMA LinkKeeps ==
  ASSUME IInv, NEW s \in DOMAIN sessions,
         NEW new \in SessionRecords,
         sessions' = [sessions EXCEPT ![s] = new],
         new.handle => sessions[s].handle /\ new.link # "Idle",
         new.closing = sessions[s].closing, new.worked = sessions[s].worked,
         UNCHANGED <<panes, tabs, active, quick, focused, counters>>, Apart',
         \A u \in {pending', approval', rejected'} \ {pending, approval, rejected, None} :
           u = s /\ HasPane(s) /\ ~new.handle,
         {pending', approval', rejected'} \subseteq DOMAIN sessions \cup {None}
  PROVE  IInv'
<1>1. /\ LayoutOK /\ SessionsOK /\ SessionsTypeOK
      /\ UNCHANGED <<panes, tabs, active, quick, focused, nextSession, nextPane, nextTab>>
  BY DEF IInv, SessionsOK, counters
<1>2. /\ DOMAIN sessions' = DOMAIN sessions /\ sessions'[s] = new
      /\ \A u \in DOMAIN sessions \ {s} : sessions'[u] = sessions[u]
      /\ SessionsTypeOK'
  BY <1>1, ChangeKeeps DEF SessionsTypeOK
<1>3. LayoutOK'
  BY <1>1, <1>2, LayoutStays
<1>4. \A u : HasPane(u)' <=> HasPane(u)
  BY <1>1 DEF HasPane, PanesOf
<1>5. \A u : u = quick' /\ u # None => ~HasPane(u)'
  BY <1>1, <1>4 DEF SessionsOK, HandlesOK
<1>6. \A u : u \in {pending', approval', rejected'} /\ u # None => HasPane(u)' /\ ~sessions'[u].handle
  BY <1>1, <1>2, <1>4 DEF SessionsOK, SessionsTypeOK, HandlesOK, NoHiddenConnection
<1>7. new.worked => HasPane(s)' \/ s = quick' \/ new.closing
  <2> SUFFICES ASSUME new.worked
               PROVE  HasPane(s)' \/ s = quick' \/ new.closing
    OBVIOUS
  <2>1. HasPane(s) \/ s = quick \/ sessions[s].closing
    BY <1>1 DEF SessionsOK, NoHiddenConnection
  <2> QED BY <1>1, <1>4, <2>1
<1>8. SessionsOK'
  BY <1>1, <1>2, <1>4, <1>5, <1>6, <1>7, SessionsKeep
<1> QED BY <1>3, <1>8 DEF IInv

LEMMA ReportKeeps ==
  ASSUME IInv, NEW s \in DOMAIN sessions, Report(s)
  PROVE  IInv'
<1>1. PICK link \in {"Live", "Leaving"} : sessions' = [sessions EXCEPT ![s].link = link]
  BY DEF Report
<1> DEFINE new == [sessions[s] EXCEPT !.link = link]
<1>2. sessions[s] \in SessionRecords
  BY DEF IInv, SessionsOK, SessionsTypeOK
<1>3. new \in SessionRecords /\ new.link = link
  BY <1>2 DEF Links, SessionRecords
<1>4. /\ new.handle = sessions[s].handle /\ new.closing = sessions[s].closing
      /\ new.worked = sessions[s].worked
  BY <1>2
<1>5. sessions' = [sessions EXCEPT ![s] = new]
  BY <1>1
<1>6. {pending, approval, rejected} \subseteq DOMAIN sessions \cup {None} /\ Apart'
  BY DEF IInv, SessionsOK, SessionsTypeOK, Apart, Report
<1> HIDE DEF new
<1> QED BY <1>3, <1>4, <1>5, <1>6, LinkKeeps DEF Report

\* The handle goes back; the session may wait to be prepared again, if it has a pane.
LEMMA GivesBackKeeps ==
  ASSUME IInv, NEW s \in DOMAIN sessions,
         sessions' = [sessions EXCEPT ![s].link = "Idle", ![s].handle = FALSE],
         UNCHANGED <<panes, tabs, active, quick, focused, counters>>, Apart',
         \A u \in {pending', approval', rejected'} \ {pending, approval, rejected, None} : u = s /\ HasPane(s),
         {pending', approval', rejected'} \subseteq DOMAIN sessions \cup {None}
  PROVE  IInv'
<1> DEFINE new == [sessions[s] EXCEPT !.link = "Idle", !.handle = FALSE]
<1>1. sessions[s] \in SessionRecords
  BY DEF IInv, SessionsOK, SessionsTypeOK
<1>2. new \in SessionRecords
  BY <1>1 DEF Links, SessionRecords
<1>3. ~new.handle
  BY <1>1 DEF SessionRecords
<1>4. new.closing = sessions[s].closing /\ new.worked = sessions[s].worked
  BY <1>1 DEF SessionRecords
<1>5. sessions' = [sessions EXCEPT ![s] = new]
  BY <1>1
<1> HIDE DEF new
<1> QED BY <1>2, <1>3, <1>4, <1>5, LinkKeeps

\* A session that ends gives its handle back, or goes with its pane if it was closed.
LEMMA SessionEndsKeeps ==
  ASSUME IInv, NEW s \in DOMAIN sessions, SessionEnds(s)
  PROVE  IInv'
<1>1. CASE sessions[s].closing
  <2>1. PICK gone \in SUBSET DOMAIN panes, leaving \in SUBSET DOMAIN sessions,
              removed \in SUBSET DOMAIN sessions :
          gone = {} /\ leaving = {} /\ removed = {s}
    OBVIOUS
  <2>2. Depart(gone, leaving, removed, FALSE)
    BY <1>1, <2>1 DEF SessionEnds
  <2> QED BY <2>1, <2>2, DepartKeeps
<1>2. CASE ~sessions[s].closing
  <2>1. /\ sessions' = [sessions EXCEPT ![s].link = "Idle", ![s].handle = FALSE]
        /\ UNCHANGED <<panes, tabs, active, quick, focused, pending, approval, rejected, counters>>
    BY <1>2 DEF SessionEnds
  <2>2. {pending, approval, rejected} \subseteq DOMAIN sessions \cup {None} /\ Apart
    BY DEF IInv, SessionsOK, SessionsTypeOK
  <2>3. Apart'
    BY <2>1, <2>2 DEF Apart
  <2> QED BY <2>1, <2>2, <2>3, GivesBackKeeps
<1> QED BY <1>1, <1>2

LEMMA AskHostKeyKeeps ==
  ASSUME IInv, NEW s \in DOMAIN sessions, AskHostKey(s)
  PROVE  IInv'
<1>1. PICK p \in DOMAIN panes : Activate(p)
  BY DEF AskHostKey, PanesOf
<1>2. focused' \in DOMAIN sessions \cup {None}
  BY DEF AskHostKey, IInv, SessionsOK, SessionsTypeOK
<1> QED BY <1>1, <1>2, LookKeeps DEF AskHostKey

\* A session that has had a worker, and was not closed, has a pane to be asked in.
LEMMA SecretRejectedKeeps ==
  ASSUME IInv, NEW s \in DOMAIN sessions, sessions[s].worked, SecretRejected(s)
  PROVE  IInv'
<1>1. HasPane(s)
  BY DEF SecretRejected, IInv, SessionsOK, NoHiddenConnection
<1>2. {pending, approval, rejected} \subseteq DOMAIN sessions \cup {None}
  BY DEF IInv, SessionsOK, SessionsTypeOK
<1>3. Apart'
  BY DEF SecretRejected, IInv, SessionsOK, Apart
<1> QED BY <1>1, <1>2, <1>3, GivesBackKeeps DEF SecretRejected

LEMMA DisconnectKeeps ==
  ASSUME IInv, NEW s \in DOMAIN sessions, Disconnect(s)
  PROVE  IInv'
<1>1. CASE SessionEnds(s)
  BY <1>1, SessionEndsKeeps
<1>2. CASE /\ sessions' = [sessions EXCEPT ![s].link = "Leaving"]
           /\ UNCHANGED <<panes, tabs, active, quick, focused, pending, approval, rejected, counters>>
  BY <1>2, ReportKeeps DEF Report
<1> QED BY <1>1, <1>2 DEF Disconnect

-----------------------------------------------------------------------------
(* The invariant and the theorems.                                         *)

LEMMA InitOK == Init => IInv
<1> SUFFICES ASSUME Init
             PROVE  IInv
  OBVIOUS
<1>1. DOMAIN sessions = {} /\ DOMAIN panes = {} /\ DOMAIN tabs = {}
  BY DEF Init
<1>2. LayoutOK
  BY <1>1 DEF Init, LayoutOK, PanesTypeOK, PanesMatchTabs, ViewIsWhole, NoView, None, Ids
<1>3. SessionsOK
  BY <1>1 DEF Init, SessionsOK, SessionsTypeOK, HandlesOK, Apart, NoHiddenConnection, None, Ids
<1> QED BY <1>2, <1>3 DEF IInv

LEMMA NextKeeps == IInv /\ [Next]_vars => IInv'
<1> SUFFICES ASSUME IInv, [Next]_vars
             PROVE  IInv'
  OBVIOUS
<1>1. CASE \/ OpenLocalTerminal \/ ConnectNew \/ SplitActivePane
           \/ AskApproval \/ StartConnection \/ RetryConnection \/ CancelConnection
  BY <1>1, OpenLocalTerminalKeeps, ConnectNewKeeps, SplitActivePaneKeeps, AskApprovalKeeps, StartConnectionKeeps,
     RetryConnectionKeeps, CancelConnectionKeeps
<1>2. CASE StartQuickTerminal \/ Blur \/ ShowOther \/ CloseActivePane
  BY <1>2, StartQuickTerminalKeeps, BlurKeeps, ShowOtherKeeps, CloseActivePaneKeeps
<1>3. CASE \E s \in DOMAIN sessions :
             \/ Connect(s) \/ RestartLocal(s) \/ Focus(s) \/ CloseSession(s) \/ Disconnect(s)
             \/ sessions[s].worked /\ (Report(s) \/ AskHostKey(s) \/ SecretRejected(s) \/ SessionEnds(s))
  BY <1>3, ConnectKeeps, RestartLocalKeeps, FocusKeeps, CloseSessionKeeps, DisconnectKeeps,
     ReportKeeps, AskHostKeyKeeps, SecretRejectedKeeps, SessionEndsKeeps
<1>4. CASE \E t \in DOMAIN tabs : ActivateTab(t) \/ CloseTab(t)
  BY <1>4, ActivateTabKeeps, CloseTabKeeps
<1>5. CASE \E p \in DOMAIN panes : FocusPane(p)
  BY <1>5, FocusPaneKeeps
<1>6. CASE \E S \in SUBSET DOMAIN sessions : DeleteProfile(S)
  BY <1>6, DeleteProfileKeeps
<1>7. CASE UNCHANGED vars
  <2>1. UNCHANGED <<sessions, panes, tabs, active, quick, focused, pending, approval, rejected, nextSession, nextPane, nextTab>>
    BY <1>7 DEF vars, counters
  <2>2. LayoutOK'
    BY <2>1, LayoutStays DEF IInv
  <2>3. SessionsOK'
    BY <2>1 DEF IInv, SessionsOK, SessionsTypeOK, HandlesOK, Apart, NoHiddenConnection, HasPane, PanesOf
  <2> QED BY <2>2, <2>3 DEF IInv
<1> QED BY <1>1, <1>2, <1>3, <1>4, <1>5, <1>6, <1>7 DEF Next

LEMMA Invariance == Spec => []IInv
BY InitOK, NextKeeps, PTL DEF Spec

\* The records of sessions, panes and tabs keep their types, and the quick terminal, the
\* focused terminal and the connection being prepared are sessions that exist
\* (state.rs; remove_session clears them).
THEOREM WorkspaceTypeCorrect == Spec => []WorkspaceTypeOK
<1>1. IInv => WorkspaceTypeOK
  BY DEF IInv, LayoutOK, PanesTypeOK, SessionsOK, SessionsTypeOK, WorkspaceTypeOK
<1> QED BY <1>1, Invariance, PTL

\* However sessions are opened, split, closed and lost, panes and the layouts of tabs
\* describe the same panes, and no session is shown twice (workspace.rs).
THEOREM PanesAlwaysMatchTabs == Spec => []PanesMatchTabs
<1>1. IInv => PanesMatchTabs
  BY DEF IInv, LayoutOK
<1> QED BY <1>1, Invariance, PTL

\* The active tab, pane and session always name one thing on the screen
\* (set_active_pane, remove_pane, remove_tab_record).
THEOREM ViewAlwaysWhole == Spec => []ViewIsWhole
<1>1. IInv => ViewIsWhole
  BY DEF IInv, LayoutOK
<1> QED BY <1>1, Invariance, PTL

\* A connection without a place in the window is one that was asked to end, and what is
\* being prepared has a pane to ask its questions in (close_session, start_connection_plan).
THEOREM NoConnectionHidden == Spec => []NoHiddenConnection
<1>1. IInv => NoHiddenConnection
  BY DEF IInv, SessionsOK
<1> QED BY <1>1, Invariance, PTL
=============================================================================
