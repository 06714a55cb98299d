----------------------------- MODULE Workspace -----------------------------
(***************************************************************************)
(* The tabs and panes of the window: workspace.rs with pane_layout.rs, the *)
(* quick terminal of quick_commands.rs, and what opens, closes and ends    *)
(* the terminal sessions shown in them.                                    *)
(*                                                                         *)
(* A tab is a tree of panes, each of which shows one session.  Closing a   *)
(* pane takes it away at once, while the session behind it may live on     *)
(* until its worker has ended; a session may also end, or be removed, with *)
(* its pane still there.  Which pane comes next when one goes is a matter  *)
(* of layout and left open.                                                *)
(***************************************************************************)
EXTENDS Naturals, Functions

CONSTANTS
  MaxIds        \* bound: sessions, panes and tabs ever created

VARIABLES
  sessions,     \* by id: TerminalSession
  panes,        \* by id: TerminalPane, the tab and the session of it
  tabs,         \* by id: TerminalTab, the panes of its layout and the active one
  active,       \* active_tab_id, active_pane_id and active_session_id
  quick,        \* quick_terminal_session_id
  focused,      \* focused_terminal_session_id
  pending,      \* the session of pending_connection and of its prompts
  approval,     \* the session of proxy_command_approval_prompt
  rejected,     \* credential_lookup_session_id, while its rejected secret is deleted
  nextSession, nextPane, nextTab

counters == <<nextSession, nextPane, nextTab>>
vars == <<sessions, panes, tabs, active, quick, focused, pending, approval, rejected, counters>>

\* Ids count from 1; None is the Option without one.
Ids  == Nat \ {0}
None == 0

\* Idle: can_connect. Live: can_disconnect. Leaving: Disconnecting.
Links == {"Idle", "Live", "Leaving"}

\* TerminalSession: connection_state, its handle, close_when_disconnected, and whether
\* it has ever had a worker.
SessionRecords == [link : Links, handle : BOOLEAN, closing : BOOLEAN, worked : BOOLEAN]

\* TerminalSession::new, and a session as a connection or a local terminal starts.
NewSession == [link |-> "Idle", handle |-> FALSE, closing |-> FALSE, worked |-> FALSE]
Started    == [link |-> "Live", handle |-> TRUE, closing |-> FALSE, worked |-> TRUE]

NoView  == [tab |-> None, pane |-> None, session |-> None]
View(p) == [tab |-> panes[p].tab, pane |-> p, session |-> panes[p].session]

PanesOf(S) == {p \in DOMAIN panes : panes[p].session \in S}
PanesIn(t) == {p \in DOMAIN panes : panes[p].tab = t}
HasPane(s) == PanesOf({s}) # {}

\* f with one more argument.
With(f, x, value) == [y \in DOMAIN f \cup {x} |-> IF y = x THEN value ELSE f[y]]

Init ==
  /\ sessions = <<>> /\ panes = <<>> /\ tabs = <<>>
  /\ active = NoView
  /\ quick = None /\ focused = None /\ pending = None /\ approval = None /\ rejected = None
  /\ nextSession = 1 /\ nextPane = 1 /\ nextTab = 1

-----------------------------------------------------------------------------
(* What handlers are made of.                                              *)

\* set_active_pane
Activate(p) ==
  /\ tabs' = [tabs EXCEPT ![panes[p].tab].active = p]
  /\ active' = View(p)

\* create_session_for_profile, create_local_session: the new id is nextSession.
CreateSession(session) ==
  /\ nextSession < MaxIds
  /\ sessions' = With(sessions, nextSession, session)
  /\ nextSession' = nextSession + 1

\* create_tab_for_session, and the tab is activated.
OpenTab(s) ==
  /\ nextPane < MaxIds /\ nextTab < MaxIds
  /\ panes' = With(panes, nextPane, [tab |-> nextTab, session |-> s])
  /\ tabs' = With(tabs, nextTab, [layout |-> {nextPane}, active |-> nextPane])
  /\ active' = [tab |-> nextTab, pane |-> nextPane, session |-> s]
  /\ nextPane' = nextPane + 1 /\ nextTab' = nextTab + 1

\* activate_session_in_window
Show(s) ==
  \/ \E p \in PanesOf({s}) : Activate(p) /\ UNCHANGED <<panes, nextPane, nextTab>>
  \/ ~HasPane(s) /\ OpenTab(s)

\* remove_pane for each of the panes gone (PaneLayout::without): a tab is left with
\* its other panes, the first of them active if the active one is gone, or closes;
\* with the tab that was shown a neighbour is shown in its place.
Remaining(gone) == {t \in DOMAIN tabs : ~(tabs[t].layout \subseteq gone)}

\* What may be shown then, when next has the panes that are active in the tabs left.
Views(gone, next) ==
  IF active.pane \notin gone THEN {active}
  ELSE IF active.tab \in Remaining(gone) THEN {View(next[active.tab])}
  ELSE IF Remaining(gone) = {} THEN {NoView}
  ELSE {View(next[t]) : t \in Remaining(gone)}

RemovePanes(gone, home) ==
  /\ panes' = Restrict(panes, DOMAIN panes \ gone)
  /\ \E next \in [Remaining(gone) -> DOMAIN panes \ gone] :
       /\ \A t \in Remaining(gone) :
            /\ next[t] \in tabs[t].layout
            /\ tabs[t].active \notin gone => next[t] = tabs[t].active
       /\ tabs' = [t \in Remaining(gone) |->
                     [layout |-> tabs[t].layout \ gone, active |-> next[t]]]
       /\ \E view \in Views(gone, next) :
            active' = IF home THEN [view EXCEPT !.session = None] ELSE view

\* remove_session and close_session for several sessions, after the panes gone:
\* those asked to leave stay until their worker has ended, those removed go with
\* their panes and with everything that names them. With home, the home page is shown.
Depart(gone, leaving, removed, home) ==
  /\ sessions' = [s \in DOMAIN sessions \ removed |->
                    IF s \in leaving
                      THEN [sessions[s] EXCEPT !.link = "Leaving", !.closing = TRUE]
                      ELSE sessions[s]]
  /\ RemovePanes(gone \cup PanesOf(removed), home)
  /\ quick' = IF quick \in removed THEN None ELSE quick
  /\ focused' = IF focused \in removed THEN None ELSE focused
  /\ pending' = IF pending \in removed THEN None ELSE pending
  /\ approval' = IF approval \in removed THEN None ELSE approval
  /\ rejected' = IF rejected \in removed THEN None ELSE rejected
  /\ UNCHANGED counters

\* close_session for each of S: a session that can be disconnected is asked to leave;
\* one that cannot, or whose worker cannot be told (disconnect_terminal), is removed.
Close(gone, S) ==
  \E leaving \in SUBSET {s \in S : sessions[s].link = "Live" /\ sessions[s].handle} :
    Depart(gone, leaving, S \ leaving, FALSE)

-----------------------------------------------------------------------------
(* Opening and connecting.                                                 *)

OpenLocalTerminal ==
  /\ CreateSession(Started)
  /\ OpenTab(nextSession)
  /\ UNCHANGED <<quick, focused, pending, approval, rejected>>

\* connect_profile_in_session: refused while another preparation is under way, a secret
\* is looked up or deleted, the session's proxy command waits for its approval, or the
\* profile's secrets change; else the session is shown and its connection prepared,
\* whether or not another session's approval is open.
ConnectSession(s) ==
  \/ UNCHANGED <<panes, tabs, active, nextPane, nextTab, pending>>
  \/ /\ pending = None /\ rejected = None /\ approval # s
     /\ Show(s)
     /\ pending' = s

\* connect_selected_profile and reconnect_session
Connect(s) ==
  /\ s # quick /\ sessions[s].link = "Idle"
  /\ s = active.session \/ HasPane(s)
  /\ ConnectSession(s)
  /\ UNCHANGED <<sessions, quick, focused, approval, rejected, nextSession>>

\* connect_selected_profile_in_new_session: the session is created before it is known
\* whether the connection is refused.
ConnectNew ==
  /\ CreateSession(NewSession)
  /\ \/ UNCHANGED <<panes, tabs, active, nextPane, nextTab, pending>>
     \/ /\ pending = None /\ rejected = None
        /\ OpenTab(nextSession)
        /\ pending' = nextSession
  /\ UNCHANGED <<quick, focused, approval, rejected>>

\* split_active_pane, of a local or of a remote terminal.
SplitActivePane ==
  /\ active.session # None
  /\ active.pane \in tabs[active.tab].layout
  /\ nextPane < MaxIds
  /\ panes' = With(panes, nextPane, [tab |-> active.tab, session |-> nextSession])
  /\ tabs' = [tabs EXCEPT ![active.tab] = [layout |-> @.layout \cup {nextPane}, active |-> nextPane]]
  /\ active' = [tab |-> active.tab, pane |-> nextPane, session |-> nextSession]
  /\ nextPane' = nextPane + 1
  /\ \/ CreateSession(Started) /\ UNCHANGED pending
     \/ /\ CreateSession(NewSession)
        /\ rejected = None
        /\ \/ UNCHANGED pending
           \/ pending = None /\ pending' = nextSession
  /\ UNCHANGED <<quick, focused, approval, rejected, nextTab>>

\* finish_connection_preparation, of a plan whose proxy command is not approved; the
\* approval that another session waits for is replaced.
AskApproval ==
  /\ pending # None
  /\ approval' = pending /\ pending' = None
  /\ UNCHANGED <<sessions, panes, tabs, active, quick, focused, rejected, counters>>

\* start_connection_plan, from finish_connection_preparation for the session prepared
\* or from approve_proxy_command for the session of the approval; it drops the task
\* that waits for a secret to be deleted, whosever it is.
StartConnection ==
  /\ \E s \in {pending, approval} \ {None} :
       /\ sessions' = [sessions EXCEPT ![s] = Started]
       /\ pending' = IF s = pending THEN None ELSE pending
       /\ approval' = IF s = approval THEN None ELSE approval
  /\ rejected' = None
  /\ UNCHANGED <<panes, tabs, active, quick, focused, counters>>

\* retry_connection_with_prompt, once the rejected secret is deleted; another
\* preparation gives way to it. Or a lookup takes the task's place.
RetryConnection ==
  /\ rejected # None
  /\ pending' \in {pending, rejected}
  /\ rejected' = None
  /\ UNCHANGED <<sessions, panes, tabs, active, quick, focused, approval, counters>>

\* The preparation fails or is cancelled, or so does the approval
\* (approve_proxy_command, cancel_proxy_command_approval).
CancelConnection ==
  /\ \/ pending # None /\ pending' = None /\ UNCHANGED approval
     \/ approval # None /\ approval' = None /\ UNCHANGED pending
  /\ UNCHANGED <<sessions, panes, tabs, active, quick, focused, rejected, counters>>

\* reconnect_session of a local terminal that has ended; only remote ones are prepared.
RestartLocal(s) ==
  /\ s \notin {quick, pending, approval, rejected} /\ sessions[s].link = "Idle"
  /\ HasPane(s)
  /\ Show(s)
  /\ sessions' = [sessions EXCEPT ![s] = Started]
  /\ UNCHANGED <<quick, focused, pending, approval, rejected, nextSession>>

\* toggle_bottom_panel, restart_quick_terminal
StartQuickTerminal ==
  /\ \/ /\ quick = None
        /\ CreateSession(Started)
        /\ quick' = nextSession
     \/ /\ quick # None /\ sessions[quick].link = "Idle"
        /\ sessions' = [sessions EXCEPT ![quick] = Started]
        /\ UNCHANGED <<quick, nextSession>>
  /\ focused' = quick'
  /\ UNCHANGED <<panes, tabs, active, pending, approval, rejected, nextPane, nextTab>>

-----------------------------------------------------------------------------
(* Looking at something else.                                              *)

\* activate_tab_in_window, activate_adjacent_tab: the tab's active pane is shown.
ActivateTab(t) ==
  /\ Activate(tabs[t].active)
  /\ UNCHANGED <<sessions, panes, quick, focused, pending, approval, rejected, counters>>

\* handle_pane_focus, on_terminal_mouse_down, on_terminal_scroll
FocusPane(p) ==
  /\ Activate(p)
  /\ focused' = panes[p].session
  /\ UNCHANGED <<sessions, panes, quick, pending, approval, rejected, counters>>

\* on_terminal_key_down; and the quick terminal takes the focus.
Focus(s) ==
  /\ s = quick \/ HasPane(s)
  /\ focused' = s
  /\ UNCHANGED <<sessions, panes, tabs, active, quick, pending, approval, rejected, counters>>

\* handle_pane_focus, when a pane or the quick terminal loses the focus.
Blur ==
  /\ focused # None
  /\ focused' = None
  /\ UNCHANGED <<sessions, panes, tabs, active, quick, pending, approval, rejected, counters>>

\* show_home, show_profile, edit_profile: no session is active, the tab stays behind.
ShowOther ==
  /\ active' = [active EXCEPT !.session = None]
  /\ focused' \in {focused, None}
  /\ UNCHANGED <<sessions, panes, tabs, quick, pending, approval, rejected, counters>>

-----------------------------------------------------------------------------
(* Closing.                                                                *)

\* close_active_pane: not the last of its tab.
CloseActivePane ==
  /\ active.pane # None
  /\ PanesIn(active.tab) # {active.pane}
  /\ Close({active.pane}, {panes[active.pane].session})

\* close_tab, close_other_tabs: an unsaved file keeps the tab and has it shown.
CloseTab(t) ==
  /\ \/ Close(PanesIn(t), {panes[p].session : p \in PanesIn(t)})
     \/ \E p \in PanesIn(t) :
          /\ Activate(p)
          /\ UNCHANGED <<sessions, panes, quick, focused, pending, approval, rejected, counters>>

\* close_session, from the bar of a terminal that has ended; dispose_quick_terminal.
CloseSession(s) ==
  /\ s = quick \/ sessions[s].link = "Idle"
  /\ Close({}, {s})

\* delete_profile removes the sessions of the profile, none of which is in use; if the
\* profile was selected, the home page is shown.
DeleteProfile(S) ==
  /\ S # {} /\ S \subseteq DOMAIN sessions \ {quick}
  /\ \A s \in S : sessions[s].link # "Live"
  /\ \E home \in BOOLEAN : Depart({}, {}, S, home)

\* Disconnected, Exited, Failed: the handle goes, and with it a session that was closed.
SessionEnds(s) ==
  IF sessions[s].closing
    THEN Depart({}, {}, {s}, FALSE)
    ELSE /\ sessions' = [sessions EXCEPT ![s].link = "Idle", ![s].handle = FALSE]
         /\ UNCHANGED <<panes, tabs, active, quick, focused, pending, approval, rejected, counters>>

\* disconnect_session: a worker that cannot be told has failed.
Disconnect(s) ==
  /\ sessions[s].link = "Live"
  /\ \/ /\ sessions[s].handle
        /\ sessions' = [sessions EXCEPT ![s].link = "Leaving"]
        /\ UNCHANGED <<panes, tabs, active, quick, focused, pending, approval, rejected, counters>>
     \/ SessionEnds(s)

-----------------------------------------------------------------------------
(* What workers report, at any time; only a session that has had one hears. *)

\* StateChanged, Started: also late ones, of a connection the window gave up.
Report(s) ==
  /\ \E link \in {"Live", "Leaving"} : sessions' = [sessions EXCEPT ![s].link = link]
  /\ UNCHANGED <<panes, tabs, active, quick, focused, pending, approval, rejected, counters>>

\* HostKeyVerificationRequired: the session is shown, if it still has a pane.
AskHostKey(s) ==
  /\ \E p \in PanesOf({s}) : Activate(p)
  /\ UNCHANGED <<sessions, panes, quick, focused, pending, approval, rejected, counters>>

\* Failed, with a secret rejected: a typed one is asked for again at once, a stored one
\* is deleted first. A worker fails once, and is heard before its session is connected
\* again.
SecretRejected(s) ==
  /\ s \notin {quick, pending, approval, rejected} /\ ~sessions[s].closing
  /\ sessions' = [sessions EXCEPT ![s].link = "Idle", ![s].handle = FALSE]
  /\ \/ pending' = s /\ UNCHANGED rejected
     \/ rejected' = s /\ UNCHANGED pending
  /\ UNCHANGED <<panes, tabs, active, quick, focused, approval, counters>>

Next ==
  \/ OpenLocalTerminal \/ ConnectNew \/ SplitActivePane
  \/ AskApproval \/ StartConnection \/ RetryConnection \/ CancelConnection
  \/ StartQuickTerminal \/ Blur \/ ShowOther \/ CloseActivePane
  \/ \E s \in DOMAIN sessions :
       \/ Connect(s) \/ RestartLocal(s) \/ Focus(s) \/ CloseSession(s) \/ Disconnect(s)
       \/ sessions[s].worked /\ (Report(s) \/ AskHostKey(s) \/ SecretRejected(s) \/ SessionEnds(s))
  \/ \E t \in DOMAIN tabs : ActivateTab(t) \/ CloseTab(t)
  \/ \E p \in DOMAIN panes : FocusPane(p)
  \/ \E S \in SUBSET DOMAIN sessions : DeleteProfile(S)

Spec == Init /\ [][Next]_vars

-----------------------------------------------------------------------------
WorkspaceTypeOK ==
  /\ DOMAIN sessions \subseteq Ids /\ DOMAIN panes \subseteq Ids /\ DOMAIN tabs \subseteq Ids
  /\ \A s \in DOMAIN sessions : sessions[s] \in SessionRecords
  /\ \A p \in DOMAIN panes : panes[p] \in [tab : Ids, session : Ids]
  /\ \A t \in DOMAIN tabs : tabs[t] \in [layout : SUBSET Ids, active : Ids]
  /\ active \in [tab : Nat, pane : Nat, session : Nat]
  /\ {quick, focused, pending, approval, rejected} \subseteq DOMAIN sessions \cup {None}

\* Panes and layouts are two records of one thing: each pane is in the layout of its
\* own tab and of no other, shows a session that exists and that no other pane shows,
\* and each tab has an active pane of its own. set_active_pane, remove_pane and
\* remove_tab_record return early, or panic, where this fails.
PanesMatchTabs ==
  /\ \A p \in DOMAIN panes :
       /\ panes[p].tab \in DOMAIN tabs /\ p \in tabs[panes[p].tab].layout
       /\ panes[p].session \in DOMAIN sessions
       /\ \A q \in DOMAIN panes : panes[p].session = panes[q].session => p = q
  /\ \A t \in DOMAIN tabs :
       /\ tabs[t].active \in tabs[t].layout
       /\ \A p \in tabs[t].layout : p \in DOMAIN panes /\ panes[p].tab = t

\* The window shows a tab whenever it has one, the active pane of that tab, and, unless
\* it shows a page of its own, that pane's session: three fields that every handler
\* sets on its own account (set_active_pane, remove_tab_record, remove_session).
ViewIsWhole ==
  /\ active.tab = None <=> DOMAIN tabs = {}
  /\ active.tab = None => active = NoView
  /\ active.tab # None =>
       /\ active.tab \in DOMAIN tabs
       /\ active.pane = tabs[active.tab].active
       /\ active.session \in {None, panes[active.pane].session}

\* No connection runs unseen: a session that has had a worker has a pane, or is the
\* quick terminal, or was closed and is asked to end. What is being prepared or
\* waits for its approval, or will be again once its rejected secret is gone, has a pane to be asked in and no connection
\* already (close_session, remove_session, start_connection_plan).
NoHiddenConnection ==
  /\ \A s \in DOMAIN sessions :
       sessions[s].worked => HasPane(s) \/ s = quick \/ sessions[s].closing
  /\ \A s \in {pending, approval, rejected} \ {None} : HasPane(s) /\ ~sessions[s].handle
=============================================================================
