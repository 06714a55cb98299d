------------------------------ MODULE Prompts ------------------------------
(***************************************************************************)
(* The two prompts of the window: the quick command, which goes to several *)
(* servers at once (quick_commands.rs), and the spotlight, which finds     *)
(* terminals, servers and actions by their names (spotlight.rs).           *)
(*                                                                         *)
(* A window is a record of the profiles, the sessions in the order they    *)
(* were made, the active one, and the prompt, if it was made. `reachable`  *)
(* says whether the worker of a session still takes input, which the       *)
(* window learns by sending; `input` is what the worker was given.         *)
(***************************************************************************)
EXTENDS Integers, Sequences, SequencesExt, FiniteSets

---------------------------------------------------------------------------
\* The quick command.

Available(session) == session.ssh /\ session.connected /\ session.handle
Serves(session, profile) == session.profile = profile /\ Available(session)

\* connected_ssh_profile_ids
ConnectedProfiles(w) ==
  SelectSeq(w.profiles, LAMBDA p : \E i \in DOMAIN w.sessions : Serves(w.sessions[i], p))

\* ensure_quick_command_prompt and sync_default_quick_command_targets: what every frame begins
\* with. Until the user has chosen, the connected servers are chosen.
\* Wrong: they always are.
SyncAlways(w) ==
  [w EXCEPT !.prompt = {[p EXCEPT !.selected = ToSet(ConnectedProfiles(w))] : p \in @}]
SyncTargets(w) ==
  [w EXCEPT !.prompt =
     {IF p.touched THEN p ELSE [p EXCEPT !.selected = ToSet(ConnectedProfiles(w))] : p \in @}]
EnsurePrompt(w) ==
  IF w.prompt # {} THEN w
  ELSE [w EXCEPT !.prompt = {[selected |-> ToSet(ConnectedProfiles(w)), touched |-> FALSE,
                              menu |-> FALSE, error |-> "None", text |-> <<>>]}]
Frame(w) == SyncTargets(EnsurePrompt(w))

\* toggle_quick_command_targets (its menu of the operating system is external), and
\* toggle_quick_command_target.
ToggleMenu(w) == [w EXCEPT !.prompt = {[p EXCEPT !.menu = ~@] : p \in @}]
ToggleTarget(w, profile) ==
  IF profile \notin ToSet(ConnectedProfiles(w)) THEN w
  ELSE [w EXCEPT !.prompt =
          {[p EXCEPT !.selected = (@ \ {profile}) \union ({profile} \ @),
                     !.touched = TRUE, !.error = "None"] : p \in @}]

\* quick_command_target_sessions: for each chosen profile the active session, if it is one of
\* the profile's, or else the latest; a place in w.sessions. Wrong: all of them.
EverySession(w, profile) == {i \in DOMAIN w.sessions : Serves(w.sessions[i], profile)}
TargetSession(w, profile) ==
  LET serving == EverySession(w, profile)
      active == {i \in serving : {w.sessions[i].id} = w.active}
  IN IF active # {} THEN active ELSE {i \in serving : \A j \in serving : j <= i}

TargetSessions(w, selected) ==
  UNION {TargetSession(w, profile) : profile \in ToSet(w.profiles) \intersect selected}

\* submit_quick_command: the command goes to each of the targets, whatever became of the
\* one before; the text is kept if any of them did not take it.
SubmitTo(w, p, targets) ==
  LET taken == {i \in targets : w.sessions[i].reachable} IN
  [w EXCEPT !.sessions = [i \in DOMAIN @ |->
                            IF i \in taken THEN [@[i] EXCEPT !.input = Append(@, p.text)] ELSE @[i]],
            !.prompt = {IF taken = targets THEN [p EXCEPT !.error = "None", !.text = <<>>]
                        ELSE [p EXCEPT !.error = "Failures"]}]

SubmitPrompt(w, p) ==
  LET targets == TargetSessions(w, p.selected)
      Refuse(error) == [w EXCEPT !.prompt = {[p EXCEPT !.error = error]}]
  IN CASE p.text = <<>> -> Refuse("EnterCommand")
       [] p.text # <<>> /\ p.selected = {} -> Refuse("SelectServer")
       [] p.text # <<>> /\ p.selected # {} /\ targets = {} -> Refuse("Disconnected")
       [] OTHER -> SubmitTo(w, p, targets)
Submit(w) == IF w.prompt = {} THEN w ELSE SubmitPrompt(w, CHOOSE p \in w.prompt : TRUE)

---------------------------------------------------------------------------
\* The spotlight. A text is a sequence of letters with "-" for what is not a letter or a digit.

\* match_rank: nothing typed fits all; a beginning is best, then one of a word, then any part.
Ranks(query, field) ==
  LET At(i) == i + Len(query) - 1 <= Len(field) /\ SubSeq(field, i, i + Len(query) - 1) = query
      found == {i \in DOMAIN field : At(i)}
      words == {i \in found : i = 1 \/ field[i - 1] = "-"}
  IN CASE 1 \in found -> {0}
       [] 1 \notin found /\ words # {} /\ ~\E i \in DOMAIN query : query[i] = "-" -> {1}
       [] found = {} -> {}
       [] OTHER -> {2}
MatchRank(query, fields) ==
  IF query = <<>> THEN {0}
  ELSE LET ranks == UNION {Ranks(query, field) : field \in fields}
       IN {rank \in ranks : \A other \in ranks : rank <= other}

\* spotlight_results, of entries in the order terminals, servers, actions: each that fits, by
\* section and then by rank, those of a rank in their order. Wrong: by rank alone.
Ranked(entries, query, rank) ==
  SelectSeq(entries, LAMBDA e : MatchRank(query, e.fields) = {rank})
ByRank(entries, query) == FlattenSeq([k \in 1..3 |-> Ranked(entries, query, k - 1)])
Results(entries, query) ==
  LET sections == <<"Terminals", "Servers", "Actions">>
      Of(section) == SelectSeq(entries, LAMBDA e : e.section = section)
  IN FlattenSeq([k \in 1..3 |-> ByRank(Of(sections[k]), query)])

\* toggle_spotlight, close_spotlight, and the subscription to its text.
NewSpotlight(focus) == [query |-> <<>>, cursor |-> 0, scroll |-> 0, previous |-> focus]
Toggle(s, focus) ==
  IF s.open = {} THEN [s EXCEPT !.open = {NewSpotlight(focus)}, !.focus = "input"]
  ELSE [s EXCEPT !.open = {}, !.focus = (CHOOSE o \in s.open : TRUE).previous]
TypeQuery(s, query) ==
  [s EXCEPT !.open = {IF o.query = query THEN o
                      ELSE [o EXCEPT !.query = query, !.cursor = 0, !.scroll = 0] : o \in @}]

\* menu_index
MenuIndex(current, count, key) ==
  LET last == IF count = 0 THEN 0 ELSE count - 1
      Within(i) == IF i > last THEN last ELSE IF i < 0 THEN 0 ELSE i
  IN CASE key = "up" -> Within(current - 1)
       [] key = "down" -> Within(current + 1)
       [] key = "home" -> 0
       [] key = "end" -> last
       [] OTHER -> Within(current)

\* navigate_spotlight: the list has a heading before the first row of each section, which
\* the scrolling counts. Wrong: it does not.
WithoutHeadings(results, cursor) == cursor
ChildIndex(results, cursor) ==
  cursor + Cardinality({i \in 1..(cursor + 1) :
                          i = 1 \/ results[i - 1].section # results[i].section})

Navigate(s, entries, key) ==
  [s EXCEPT !.open =
     {LET results == Results(entries, o.query)
          cursor == MenuIndex(o.cursor, Len(results), key)
      IN IF results = <<>> THEN o
         ELSE [o EXCEPT !.cursor = cursor, !.scroll = ChildIndex(results, cursor)] : o \in @}]

\* The pointer moves over a row.
Hover(s, index) == [s EXCEPT !.open = {[o EXCEPT !.cursor = index] : o \in @}]

\* confirm_spotlight and open_spotlight_target: what is opened takes the focus.
Confirm(s, entries) ==
  LET at == {o \in s.open : o.cursor < Len(Results(entries, o.query))} IN
  IF at = {} THEN s
  ELSE LET o == CHOOSE o \in at : TRUE IN
       [s EXCEPT !.open = {}, !.opened = Append(@, Results(entries, o.query)[o.cursor + 1].target),
                 !.focus = "opened"]
=============================================================================
