--------------------------- MODULE MCEditorSystem ---------------------------
(***************************************************************************)
(* EditorSystem for TLC, and checks of what else the window shows, on      *)
(* small contents: the list of files, the text of an editor, the form of a *)
(* profile, the terminal with its text, and the prompts.                   *)
(***************************************************************************)
EXTENDS EditorSystem, Integers, FiniteSets, Functions

CONSTANTS
  NoContents,   \* a model value
  Second        \* the file that only a session without trouble opens

\* Two kinds of history are followed: one connection, with one file and with trouble beside it;
\* and connections one after another, with both files, texts the host takes, and no trouble.
InTrouble == \A s \in Sessions :
  session[s].conn = 1 /\ \A f \in session[s].file : f.path # Second

Reconnecting == troubles = 0 /\ \A s \in Sessions :
  \A f \in session[s].file : f.editor \cap TooLong = {}

MCSpec == Init /\ [][Next /\ (InTrouble' \/ Reconnecting')]_vars /\ Fairness

---------------------------------------------------------------------------

\* The states a set of operations reaches in a number of steps, for models whose states are
\* values and whose operations are operators on them; After gives the set of states one
\* operation leads to. (A set that was counted is sorted, and TLC searches it faster.)
LOCAL Further(reached, After(_)) ==
  LET new == UNION {After(s) \ reached.all : s \in reached.last}
  IN [all |-> reached.all \union new, last |-> new]

LOCAL Reached(starts, After(_), steps) ==
  LET Step(reached, i) ==
        IF Cardinality(reached.all) = 0 THEN reached ELSE Further(reached, After)
  IN FoldLeft(Step, [all |-> starts, last |-> starts], [i \in 1..steps |-> i]).all

---------------------------------------------------------------------------
\* FileList on a small tree, whatever is open, known and selected in it: the rows are the open
\* part of the tree in its order, a click selects what the keys held with it say, and what was
\* deleted is gone from rows and selection.

LOCAL Up == [p \in {"d", "f", "e", "g", "h"} |->
  CASE p \in {"f", "e"} -> "d" [] p = "g" -> "e" [] OTHER -> "/"]
LOCAL Sorted == <<"d", "e", "g", "f", "h">>

LOCAL List == INSTANCE FileList
  WITH Paths <- {"/", "d", "f", "e", "g", "h"}, Directories <- {"/", "d", "e"},
       Home <- "/", Parent <- Up, Order <- Sorted

\* The tree is one FileList speaks of.
ASSUME TreeOfPaths == List!PathsAssumption

LOCAL Below(directory) == SelectSeq(Sorted, LAMBDA p : Up[p] = directory)

\* Every way the directories inside the list can be known and open.
LOCAL Lists ==
  {[List!NewBrowser EXCEPT !.entries = Below("/"), !.expanded = unfolded,
                           !.tree = [p \in known |-> Below(p)]] :
     unfolded \in SUBSET {"d", "e"}, known \in SUBSET {"d", "e"}}

LOCAL Above(p) == {q \in DOMAIN Up : q = Up[p]}
LOCAL Ancestors(p) == Above(p) \union UNION {Above(q) : q \in Above(p)}

\* A row is shown exactly if every directory above it is open and known, and the rows come
\* in the order of the tree, children right behind their directory (state.rs:252).
ASSUME RowsAreTheOpenTree ==
  \A b \in Lists :
    List!VisibleRows(b, TRUE) =
      SelectSeq(Sorted, LAMBDA p : Ancestors(p) \subseteq b.expanded \intersect DOMAIN b.tree)

LOCAL Rows(b) == List!VisibleRows(b, TRUE)
LOCAL Click(b, path, keys) == List!SelectPath(b, path, keys[1], keys[2], TRUE)
LOCAL At(b, path) == CHOOSE i \in DOMAIN Rows(b) : Rows(b)[i] = path
LOCAL HeldKeys == BOOLEAN \X BOOLEAN

\* Two clicks: the first sets the anchor unless it extended a selection, and with shift the
\* second selects all rows between it and the anchor and no others, added to what was
\* selected only with the secondary key; nothing is ever selected twice (state.rs:300).
ASSUME ClicksSelectRows ==
  \A b \in Lists : \A one, two \in Range(Rows(b)) : \A first, second \in HeldKeys :
    LET s == Click(b, one, first)
        t == Click(s, two, second)
        from == IF first[1] THEN two ELSE one
        between == {p \in Range(Rows(b)) :
                      \/ At(b, from) <= At(b, p) /\ At(b, p) <= At(b, two)
                      \/ At(b, two) <= At(b, p) /\ At(b, p) <= At(b, from)}
        before == IF second[2] THEN Range(s.selected) ELSE {}
    IN /\ Range(s.selected) = {one}
       /\ IsInjective(t.selected)
       /\ Range(t.selected) =
            IF second[1] THEN before \union between
            ELSE IF second[2] /\ two \in before THEN before \ {two} ELSE before \union {two}

\* The menu of a row is about the selection if the row is in it, and about the row if not
\* (state.rs:354).
ASSUME MenuIsAboutItsRow ==
  \A b \in Lists : \A one, two \in Range(Rows(b)) :
    LET s == List!SelectForContextMenu(Click(b, one, <<FALSE, FALSE>>), two) IN
    Range(s.selected) = {two}

\* What is deleted is neither shown nor known any longer, with all that was below it, and
\* nothing else is lost (state.rs:362).
ASSUME DeletedIsForgotten ==
  \A b \in Lists : \A gone \in SUBSET {"d", "e", "g", "h"} :
    LET left == List!RemovePaths(b, gone)
        Deleted(p) == p \in gone \/ Ancestors(p) \intersect gone # {}
    IN /\ Rows(left) = SelectSeq(Rows(b), LAMBDA p : ~Deleted(p))
       /\ List!Known(left) = {p \in List!Known(b) : ~Deleted(p)}

\* A list that asked again ignores the first answer, whichever comes first, and an answer
\* to a directory opened inside the list asked for before (state.rs:113, :132).
ASSUME OnlyTheLastRequestCounts ==
  LET opened == List!BeginTreeRequest(List!NewBrowser, "d")
      first == List!BeginRequest(opened, "d")
      second == List!BeginRequest(first, "/") IN
  /\ List!CompleteRequest(second, 1, "d", <<"f">>) = second
  /\ List!CompleteRequest(second, 2, "d", <<"f">>) = second
  /\ List!FailRequest(second, 2) = second
  /\ List!CompleteRequest(second, 3, "/", <<"d">>).path = "/"

---------------------------------------------------------------------------
\* TextEditing from every state of a short text - every text, cursor, selection and composition
\* - one operation at a time, so that what is said of one operation is said of every sequence of
\* them. The characters are a letter, one of three bytes, one of two UTF-16 units, an accent and
\* a line break.

LOCAL Chars == {"a", "c", "e", "m", "n"}
LOCAL Eight == [x \in Chars |-> CASE x \in {"a", "n"} -> 1 [] x = "m" -> 2 [] x = "c" -> 3 [] x = "e" -> 4]
LOCAL Sixteen == [x \in Chars |-> IF x = "e" THEN 2 ELSE 1]

LOCAL Text == INSTANCE TextEditing
  WITH Width8 <- Eight, Width16 <- Sixteen, Joining <- {"m"}, Newline <- "n", Space <- "a",
       Panicked <- NoContents, UndoLimit <- 2

LOCAL Sample == SeqOf(Chars, 2) \union
  {<<"c", "m", "n">>, <<"n", "a", "n">>, <<"a", "n", "e">>, <<"e", "m", "m">>, <<"n", "m", "c">>,
   <<"a", "m", "a">>, <<"e", "n", "c", "m">>, <<"c", "c", "n", "a">>}
LOCAL Ranges(text) == {r \in Text!Boundaries(text) \X Text!Boundaries(text) : r[1] <= r[2]}

\* States with and without a composition.
LOCAL States(texts) ==
  UNION {{[Text!NewEditor(t) EXCEPT !.selected = r, !.reversed = back] :
            r \in Ranges(t), back \in BOOLEAN} : t \in texts}
LOCAL Composing(texts) ==
  UNION {{[Text!NewEditor(t) EXCEPT !.selected = <<m[2], m[2]>>, !.marked = {m}] :
            m \in {r \in Ranges(t) : r[1] < r[2]}} : t \in texts}

LOCAL Sound(e) ==
  /\ e.text # NoContents
  /\ e.selected \in Ranges(e.text)
  /\ e.marked \subseteq Ranges(e.text)

LOCAL Moves(e) ==
  {Text!Left(e), Text!Right(e), Text!SelectLeft(e), Text!SelectRight(e), Text!SelectAll(e),
   Text!Home(e), Text!End(e)} \union
  {Text!Vertical(e, up) : up \in BOOLEAN} \union {Text!SelectVertical(e, up) : up \in BOOLEAN}

LOCAL Changes(e) ==
  UNION {{Text!Backspace(e, editor), Text!Delete(e, editor), Text!Insert(e, editor, <<"c">>),
          Text!Cut(e, editor, FALSE)} : editor \in BOOLEAN}

---------------------------------------------------------------------------
\* Offsets go to UTF-16 and back unchanged, and half a character goes to its end
\* (text_edit.rs:3, :16).
ASSUME OffsetsRoundTrip ==
  \A text \in Sample :
    /\ \A o \in Text!Boundaries(text) :
         Text!OffsetFromUtf16(text, Text!OffsetToUtf16(text, o)) = o
    /\ \A u \in 0..8 : Text!OffsetFromUtf16(text, u) \in Text!Boundaries(text)

\* Whatever key is pressed in whatever state, the cursor, the selection and the composition
\* stay between characters of the text, so that no cut of it can panic.
ASSUME OffsetsStayBetweenCharacters ==
  \A e \in States(Sample) \union Composing(Sample) : \A f \in Moves(e) \union Changes(e) : Sound(f)

\* What an input method says about ranges of the text itself is sound as well, in and between
\* characters.
ASSUME RangesOfTheInputMethodAreSound ==
  \A e \in States(SeqOf(Chars, 2)) : \A from, to \in 0..4 : from <= to =>
    \A editor \in BOOLEAN : Sound(Text!ReplaceTextInRange(e, editor, {<<from, to>>}, <<"e">>))

\* Where the cursor is inside the text being composed is sound if all before it are letters
\* of one byte; behind any other the code looks in the wrong place, and the selection can
\* leave the text (text_field.rs:535, file_editor.rs:618).
ASSUME CompositionBehindLetters ==
  \A text \in SeqOf({"a"}, 2), new \in SeqOf({"a"}, 2), at \in 0..2, editor \in BOOLEAN :
    at <= Len(new) =>
      Sound(Text!ReplaceAndMarkTextInRange(Text!NewField(text), editor, {}, new, {<<at, at>>}))
ASSUME CompositionCanLeaveTheText ==
  \E editor \in BOOLEAN :
    LET e == Text!ReplaceAndMarkTextInRange(Text!NewField(<<"c">>), editor, {}, <<"a">>, {<<1, 1>>})
    IN ~Sound(e) /\ e.selected[2] > Text!Bytes(e.text)

\* What was composed is replaced by what is committed and nothing else is touched
\* (replace_text_in_range without a range).
ASSUME CommitReplacesTheComposition ==
  \A e \in States({<<"c">>, <<"a", "e">>}) : \A new \in SeqOf({"a", "c"}, 2), editor \in BOOLEAN :
    LET composing == Text!ReplaceAndMarkTextInRange(e, editor, {}, <<"c">>, {})
        committed == Text!Insert(composing, editor, new)
    IN committed.text = Text!Replaced(e.text, e.selected, new)

\* In a field the composition is over then. The editor takes a commit of what was composed
\* already for no change at all: the text stays marked, and the next key replaces it
\* (file_editor.rs:577).
ASSUME CompositionEndsWithItsCommit ==
  \A e \in States({<<"a", "e">>}) : \A new \in {<<"a">>, <<"c">>}, editor \in BOOLEAN :
    LET committed == Text!Insert(Text!ReplaceAndMarkTextInRange(e, editor, {}, <<"c">>, {}), editor, new)
    IN committed.marked # {} <=> editor /\ new = <<"c">>

---------------------------------------------------------------------------
\* Graphemes: a cursor between two stays between two, and a key that removes one without a
\* selection removes one grapheme, the one before or behind the cursor.
LOCAL Stops(text) == Text!Graphemes(text) \union {Text!Bytes(text)} \union {0}
LOCAL Cursors == {e \in States(Sample) : Text!IsCursor(e) /\ e.selected[1] \in Stops(e.text)}

ASSUME CursorBetweenGraphemes ==
  \A e \in Cursors : \A f \in Moves(e) : f.selected[1] \in Stops(e.text) /\ f.selected[2] \in Stops(e.text)

ASSUME OneGraphemeRemoved ==
  \A e \in Cursors, editor \in BOOLEAN :
    LET c == Text!CursorOffset(e)
        back == Text!Backspace(e, editor)
        on == Text!Delete(e, editor)
        before == {s \in Stops(e.text) : s < c}
        behind == {s \in Stops(e.text) : s > c}
    IN /\ \E s \in before \union {0} : /\ \A t \in before : t <= s
                                       /\ back.text = Text!Replaced(e.text, <<s, c>>, <<>>)
       /\ behind = {} => on.text = e.text
       /\ behind # {} => \E s \in behind : /\ \A t \in behind : s <= t
                                           /\ on.text = Text!Replaced(e.text, <<c, s>>, <<>>)

\* Up and down again is where the cursor was, however short the line between, as long as
\* there is a line above (vertical_offset).
ASSUME UpAndDownAgain ==
  \A e \in {f \in Cursors : Text!LineStart(f.text, f.selected[1]) > 0} :
    Text!CursorOffset(Text!Vertical(Text!Vertical(e, TRUE), FALSE)) = Text!CursorOffset(e)
ASSUME DownAndUpAgain ==
  \A e \in {f \in Cursors : Text!LineEnd(f.text, f.selected[1]) < Text!Bytes(f.text)} :
    Text!CursorOffset(Text!Vertical(Text!Vertical(e, FALSE), TRUE)) = Text!CursorOffset(e)

\* A selection that is extended keeps the end the cursor is not at, also when they change
\* sides (select_to).
ASSUME AnchorStays ==
  \A e \in States(Sample) : \A o \in Text!Boundaries(e.text) :
    LET f == Text!SelectTo(e, o)
        anchor == IF e.reversed THEN e.selected[2] ELSE e.selected[1]
    IN {f.selected[1], f.selected[2]} = {anchor, o} /\ (f.selected[1] # f.selected[2] => Text!CursorOffset(f) = o)

---------------------------------------------------------------------------
\* Undo takes back the last change and redo repeats it, for as many changes as are kept, and
\* a new change ends what could be repeated.
LOCAL Do(e, change) == IF change = "back" THEN Text!Backspace(e, TRUE) ELSE Text!Insert(e, TRUE, <<change>>)

ASSUME UndoTakesBack ==
  \A e \in States({<<>>, <<"a">>, <<"m", "c">>}) : \A one, two, three \in {"a", "c", "back"} :
    LET first == Do(e, one)
        second == Do(first, two)
        third == Do(second, three)
        back == Text!Undo(third)
        Same(x, y) == x.text = y.text
    IN /\ third.undo # second.undo => Same(back, second) /\ Same(Text!Redo(back), third)
       /\ third.undo # second.undo /\ second.undo # first.undo => Same(Text!Undo(back), first)
       /\ Len(third.undo) <= 2
       /\ Do(back, "a").undo # back.undo => Do(back, "a").redo = <<>>
       /\ \A f \in {back, Text!Undo(back), Text!Redo(back)} : Sound(f)

\* A secure field never fills the clipboard, and the place of a star is the place of its
\* grapheme (secure_display_offset, copy, cut).
ASSUME SecretsStayInTheField ==
  /\ \A e \in States(Sample) : Text!Copy(e, TRUE) = e /\ Text!Cut(e, FALSE, TRUE) = e
  /\ \A text \in Sample : \A o \in Stops(text) :
       Text!SecureContentOffset(text, Text!SecureDisplayOffset(text, o)) = o

\* Cut and paste is no change, but for the line breaks a field cannot hold.
ASSUME CutAndPaste ==
  \A e \in States(Sample), editor \in BOOLEAN :
    LET f == Text!Paste(Text!Cut(e, editor, FALSE), editor) IN
    ~Text!IsCursor(e) =>
      IF editor THEN f.text = e.text
      ELSE Len(f.text) = Len(e.text) /\ \A i \in DOMAIN f.text :
             f.text[i] # e.text[i] => e.text[i] = "n"

---------------------------------------------------------------------------
\* The lines that are drawn are the lines of the text with these numbers, and together they
\* are the text (visible_line_ranges, content_metrics).
ASSUME LinesAreTheText ==
  \A text \in SeqOf({"a", "c", "n"}, 4) : \A first, last \in 0..5 :
    LET all == Text!VisibleLineRanges(text, 0, 6) IN
    /\ Cardinality(all) = Text!LineCount(text)
    /\ Text!VisibleLineRanges(text, first, last) = {l \in all : first <= l[1] /\ l[1] < last}
    /\ \A l \in all : \A i \in DOMAIN Text!Between(text, <<l[2], l[3]>>) :
         Text!Between(text, <<l[2], l[3]>>)[i] # "n"
    /\ \A k, l \in all : l[1] = k[1] + 1 => l[2] = k[3] + 1

\* The runs of a line are the line, and each is selected, marked or neither as a whole
\* (text_runs_for_line).
ASSUME RunsAreTheLine ==
  \A line \in {<<2, 5>>, <<3, 3>>} : \A a, b, c, d \in 1..6 : a <= b /\ c < d =>
    LET runs == Text!TextRunsForLine(line, <<a, b>>, {<<c, d>>})
        Of(o) == {r \in runs : r.range[1] <= o /\ o < r.range[2]}
    IN \A o \in 1..6 :
         /\ Cardinality(Of(o)) = IF line[1] <= o /\ o < line[2] THEN 1 ELSE 0
         /\ \A r \in Of(o) : (r.selected <=> a <= o /\ o < b) /\ (r.marked <=> c <= o /\ o < d)

---------------------------------------------------------------------------
\* ProfileForm for two profiles, one behind an HTTP proxy with a password and one behind a
\* command, and a third that is created: everything the user does and everything that arrives,
\* in any order, for a number of steps. A form is opened where none is.

LOCAL New(number) == IF number = 1 THEN "n" ELSE "m"
LOCAL Path(id) == CASE id = "a" -> "ka" [] id = "b" -> "kb" [] OTHER -> "kn"
LOCAL Form == INSTANCE ProfileForm WITH NewId <- New, PathFrom <- Path

LOCAL Known ==
  [a |-> [Form!BlankForm("a") EXCEPT !.name = "x", !.target = "t", !.proxy = "HttpConnect",
                                     !.address = "y", !.user = "u"],
   b |-> [Form!BlankForm("b") EXCEPT !.name = "x", !.target = "t", !.proxy = "ProxyCommand",
                                     !.approved = TRUE]]
LOCAL Digests == [a |-> "", b |-> "c"]

LOCAL Start ==
  Form!NewState([i \in {"a", "b"} |-> [mode |-> "Edit"] @@ Known[i] @@ [digest |-> Digests[i]]],
    [i \in {"a", "b", "n", "m"} |->
       [login |-> IF i = "a" THEN "w" ELSE "",
        password |-> IF i = "a" THEN "p" ELSE "", command |-> IF i = "b" THEN "c" ELSE ""]])

---------------------------------------------------------------------------
\* What can happen in a state; `choices` are the kinds of proxy the user may choose, `typed`
\* what may be typed.
LOCAL Opens(s) ==
  IF s.form # {} THEN {} ELSE {Form!OpenNew(s)} \union {Form!LoadEditor(s, i) : i \in DOMAIN s.profiles}

LOCAL Edits(s, typed, choices) ==
  IF s.form = {} THEN {}
  ELSE {Form!Type(s, t[1], t[2]) : t \in typed}
       \union {Form!SelectProxyMethod(s, p) : p \in choices}
       \union {Form!ToggleJumpHost(s, i) : i \in {"a", "b"}}
       \union {Form!SaveEditor(s), Form!CancelEditor(s)}

LOCAL Answers(s) ==
  {Form!LookupArrives(s, l, ok) : l \in s.lookups, ok \in BOOLEAN}
  \union {Form!Saved(s, j) : j \in s.saves} \union {Form!SaveFailed(s, j) : j \in s.saves}

LOCAL After(s, typed, choices) == Opens(s) \union Edits(s, typed, choices) \union Answers(s)

LOCAL Entries == {<<"name", "x">>, <<"target", "v">>, <<"address", "z">>, <<"password", "q">>,
                <<"command", "d">>}

LOCAL Chosen(s) == After(s, Entries, {"Direct", "Socks5", "ProxyCommand"})
LOCAL Forms == Reached({Start}, Chosen, 6)

\* The same without a secret that is typed and a proxy that is chosen, for longer.
LOCAL Undecided(s) == After(s, {<<"target", "v">>, <<"address", "z">>}, {})
LOCAL Untold == Reached({Start}, Undecided, 8)

---------------------------------------------------------------------------
\* No form has both a command and jump hosts, and none names itself, a host twice, or one
\* that is not there: what save_editor refuses for that cannot be made in the form, whatever
\* is chosen in whichever order (select_proxy_method, toggle_jump_host).
ASSUME RoutesAreOfOneKind ==
  \A s \in Forms : \A form \in s.form :
    /\ form.proxy = "ProxyCommand" => form.jumps = <<>>
    /\ Form!JumpsAcceptable(s, form)

\* A save never takes away a proxy's secret that was not touched, however late it is looked up
\* and whatever else is edited and saved meanwhile (proxy_secret_loaded).
ASSUME SecretsOutliveSaves ==
  \A s \in Untold :
    \A i \in {"a", "b"} : s.profiles[i].proxy = Known[i].proxy =>
      s.secrets[i].password = Start.secrets[i].password /\ s.secrets[i].command = Start.secrets[i].command

\* Whoever chooses another kind of proxy before the secret has come saves the profile without
\* it, and the stored one is deleted (profiles.rs:314).
ASSUME ChosenTooEarly ==
  LET early == Form!SelectProxyMethod(Form!LoadEditor(Start, "a"), "Socks5")
      saving == Form!SaveEditor(early)
  IN /\ saving.saves # {}
     /\ \A j \in saving.saves : Form!Saved(saving, j).secrets["a"].password = ""

\* A failed lookup of a form's secret refuses every save of it until the kind of proxy is
\* chosen again or the form is opened again; a late answer to the first form helps the second.
ASSUME FailedLookupRefuses ==
  \A l \in Form!LoadEditor(Start, "a").lookups :
    LET missing == Form!LookupArrives(Form!LoadEditor(Start, "a"), l, FALSE)
        again == Form!LoadEditor(Form!CancelEditor(Form!LoadEditor(Start, "a")), "a")
    IN /\ \A t \in Entries : Form!SaveEditor(Form!Type(missing, t[1], t[2])).saves = {}
       /\ Form!SaveEditor(Form!LookupArrives(again, l, TRUE)).saves # {}

\* The secret that arrives replaces what was typed meanwhile (load_editor).
ASSUME LateSecretReplacesTheTyped ==
  LET typed == Form!Type(Form!LoadEditor(Start, "a"), "password", "q") IN
  \A l \in typed.lookups : Form!TheForm(Form!LookupArrives(typed, l, TRUE)).password = "p"

\* A command that was approved is approved after a save only if it is the one that was, under
\* the same name, for the same target.
ASSUME ApprovalIsForTheCommand ==
  \A s \in Forms : \A i \in DOMAIN s.profiles :
    s.profiles[i].approved => /\ i = "b" /\ s.profiles[i].digest = "c"
                              /\ s.profiles[i].name = "x" /\ s.profiles[i].target = "t"

\* What is stored is for what the profile has: no password beside a command, no command but
\* the one of its digest, and no login secret of another target or method (save_editor,
\* credentials_invalidated_by_edit).
ASSUME SecretsFitTheProxy ==
  \A s \in Forms : \A i \in DOMAIN s.profiles :
    LET stored == s.secrets[i] IN
    /\ stored.password = "" \/ stored.command = ""
    /\ stored.password # "" => s.profiles[i].proxy \in Form!Proxied
    /\ stored.command # "" => s.profiles[i].proxy = "ProxyCommand" /\ s.profiles[i].digest = stored.command
    /\ stored.login # "" => s.profiles[i].target = "t" /\ s.profiles[i].auth = "Password"

\* The end of a save closes the form that is open, also one of another profile with what was
\* typed there (profiles.rs:744).
ASSUME SaveClosesAnyForm ==
  LET named == Form!Type(Form!OpenNew(Start), "name", "x")
      saving == Form!CancelEditor(Form!SaveEditor(Form!Type(named, "target", "v")))
      other == Form!Type(Form!LoadEditor(saving, "a"), "name", "y")
  IN \A j \in other.saves : j.id = "n" /\ Form!Saved(other, j).form = {}

---------------------------------------------------------------------------
\* The list of methods: its cursor is one of them, it opens at the method of the form, and
\* pressing the button chooses what the cursor is at (navigate_profile_auth, menu_index).
LOCAL Keys == {"up", "down", "home", "end"}
LOCAL Menu(s) == {Form!NavigateAuth(s, k) : k \in Keys} \union {Form!PressAuth(s)}
LOCAL Listed == Reached({Form!OpenNew(Start)}, Menu, 8)

ASSUME CursorIsInTheList ==
  /\ \A s \in Listed : s.cursor \in DOMAIN Form!Methods
  /\ \A s \in Listed : s.open => Form!TheForm(Form!PressAuth(s)).auth = Form!Methods[s.cursor]
  /\ \A m \in Range(Form!Methods) : \E s \in Listed : Form!TheForm(s).auth = m

\* Escape closes the list, and the form only the second time (cancel_editor).
ASSUME EscapeTwice ==
  \A s \in Listed : IF s.open THEN Form!CancelEditor(s).form = s.form ELSE Form!CancelEditor(s).form = {}

\* A key file goes into the form of the profile it was chosen for, however many dialogs and
\* forms were opened meanwhile (set_private_key_path).
LOCAL Keyed(s) ==
  Opens(s) \union {Form!Picked(s, i) : i \in s.dialogs}
  \union (IF s.form = {} THEN {} ELSE {Form!Browse(s), Form!CancelEditor(s)})
ASSUME KeysOfTheirProfile ==
  \A s \in Reached({Start}, Keyed, 8) : \A form \in s.form : form.key \in {"", Path(form.id)}

\* Jump hosts that are moved are the same hosts, and moving one back restores the order.
ASSUME MovedHostsStay ==
  \A jumps \in {<<"b">>, <<"b", "n">>, <<"m", "b", "n">>} :
    LET s == [Start EXCEPT !.form = {[Form!BlankForm("a") EXCEPT !.jumps = jumps]}] IN
    \A id \in Range(jumps), up \in BOOLEAN :
      LET moved == Form!MoveJumpHost(s, id, up)
          order == Form!TheForm(moved).jumps
      IN /\ IsInjective(order) /\ Range(order) = Range(jumps)
         /\ moved # s => Form!MoveJumpHost(moved, id, ~up) = s

---------------------------------------------------------------------------
\* The text of screens of two rows and three columns with narrow and wide characters, and
\* every selection in them.

LOCAL View == INSTANCE TerminalView WITH
  DefaultSize <- <<2, 1>>, History <- 1, LineHeight <- 3, MaxArrows <- 2

LOCAL Narrow(character) == [kind |-> "plain", character |-> character]
LOCAL Wide == <<[kind |-> "wide", character |-> "W"], [kind |-> "spacer", character |-> " "]>>
LOCAL Leading == <<[kind |-> "leading", character |-> " "]>>

\* The rows the engine makes.
LOCAL EngineRows ==
  {<<Narrow(a), Narrow(b), Narrow(c)>> : a, b, c \in {"x", " "}}
  \union {<<Narrow(a)>> \o Wide : a \in {"x", " "}}
  \union {Wide \o <<Narrow(a)>> : a \in {"x", " "}}
  \union {Wide \o Leading}

LOCAL Screens ==
  {[columns |-> 3, rows |-> <<[cells |-> first, wrapped |-> wrapped],
                              [cells |-> second, wrapped |-> FALSE]>>] :
     first \in EngineRows, second \in EngineRows, wrapped \in BOOLEAN}

LOCAL Points == [row : 0..1, column : 0..3]
LOCAL Selections == [anchor : Points, head : Points]

LOCAL InOrder(p, q) == p = q \/ View!Before(p, q)

---------------------------------------------------------------------------
\* What is copied are the characters that are highlighted, each once: a wide one whichever
\* half is selected, blanks at the end of a row left out, and a new line where a row ends
\* that is not continued in the next (selected_text, cell_is_selected).
LOCAL Highlighted(screen, selection, row) ==
  LET shown == SelectSeq([i \in 1..3 |-> i - 1], LAMBDA column :
        /\ View!Kind(screen, row, column) \in {"plain", "wide"}
        /\ View!IsSelected(screen, selection, row, column))
  IN [i \in DOMAIN shown |-> View!CellAt(screen, row, shown[i]).character]

LOCAL Copied(screen, selection) ==
  LET start == View!From(selection)
      end == View!To(selection)
      Line(row) == LET text == Highlighted(screen, selection, row) IN
                   IF row < end.row \/ end.column = 3 THEN View!TrimEnd(text) ELSE text
  IN IF start.row = end.row THEN Line(start.row)
     ELSE Line(0) \o (IF screen.rows[1].wrapped THEN <<>> ELSE <<"\n">>) \o Line(1)

ASSUME CopiedIsHighlighted ==
  \A screen \in Screens, selection \in Selections :
    View!SelectedText(screen, selection) = Copied(screen, selection)

\* It does not matter from which end it was dragged, and a selection made before the screen
\* became smaller is that of what is left (selected_text).
ASSUME DraggedEitherWay ==
  \A screen \in Screens, selection \in Selections :
    /\ View!SelectedText(screen, selection)
         = View!SelectedText(screen, [anchor |-> selection.head, head |-> selection.anchor])
    /\ \A larger \in 0..2 :
         View!SelectedText(screen, View!FullSelection(screen))
           = View!SelectedText(screen, [anchor |-> [row |-> 0, column |-> 0],
                                   head |-> [row |-> 1 + larger, column |-> 3 + larger]])

\* Everything selected is every row's text, as the accessibility tree has it (row_text).
ASSUME AllIsEveryRow ==
  \A screen \in Screens :
    View!SelectedText(screen, View!FullSelection(screen))
      = View!TrimEnd(View!RowText(screen, 0)) \o (IF screen.rows[1].wrapped THEN <<>> ELSE <<"\n">>)
        \o View!TrimEnd(View!RowText(screen, 1))

\* Dragging further only adds: what was selected stays, but for blanks at the end of a row.
ASSUME LongerSelectionsAdd ==
  \A screen \in Screens, p \in Points, q \in Points, r \in Points :
    InOrder(p, q) /\ InOrder(q, r) =>
      IsPrefix(View!TrimEnd(View!SelectedText(screen, [anchor |-> p, head |-> q])),
               View!SelectedText(screen, [anchor |-> p, head |-> r]))

---------------------------------------------------------------------------
\* A drag selects the cells whose middle it has passed (terminal_point_for_pixels), and every
\* cell that is laid out can be pointed at (cell_count).
ASSUME DragSelectsMiddles ==
  \A width \in 2..5 : \A from \in 0..4 * width : \A to \in from..4 * width : \A column \in 0..2 :
    LET Point(x) == View!TerminalPointForPixels(x, 0, 3, 2, width, 7)
        middle == 2 * column * width + width
    IN View!Covers([anchor |-> Point(from), head |-> Point(to)], 0, column)
         <=> 2 * from < middle /\ middle <= 2 * to

ASSUME EveryCellIsPointedAt ==
  \A cell \in 1..4, viewport \in 1..20 :
    LET count == View!CellCount(viewport, cell) IN
    /\ count * cell <= viewport \/ count = 1
    /\ (count + 1) * cell > viewport
    /\ \A n \in 0..count - 1 : \E y \in 0..viewport :
         View!TerminalPointForPixels(0, y, 1, count, 1, cell).row = n

---------------------------------------------------------------------------
\* A composed text that is asked for in two parts is the text, wherever it is parted, also
\* within a character; and the range that is answered is the one of the text (text_for_range).
LOCAL Characters == {[name |-> "n", units |-> 1], [name |-> "s", units |-> 2]}
LOCAL Composed == SeqOf(Characters, 4)

ASSUME PartsAreTheText ==
  \A text \in Composed : \A at \in 0..9 :
    LET first == View!TextForRange(text, 0, at)
        second == View!TextForRange(text, at, 9)
    IN /\ first.text \o second.text = text
       /\ first.to = second.from /\ second.to = View!Units(text)
       /\ View!TextForRange(text, second.from, second.to) = second
       /\ first.to <= at

---------------------------------------------------------------------------
\* A prompt at the right edge stays at its distance from the edge, nothing else moves, and the
\* width the row had before brings it back (reanchor_right_aligned_rows). The constants are
\* smaller than those of engine.rs, in the same order.
LOCAL Anchored(row, target) == View!Reanchor(row, FALSE, target, 1, 2, 2)
LOCAL Lines == UNION {[1..n -> {"x", "y", " "}] : n \in 1..7}
LOCAL Ink(row) == SelectSeq(row, LAMBDA c : c # " ")
LOCAL Margin(row) == Len(row) - Max({0} \union {i \in DOMAIN row : row[i] # " "})
LOCAL Resized(row, target) == [i \in 1..target |-> IF i \in DOMAIN row THEN row[i] ELSE " "]

ASSUME PromptsKeepTheirPlace ==
  \A row \in Lines : \A target \in 1..9 :
    LET moved == Resized(Anchored(row, target), target) IN
    Anchored(row, target) # row =>
      /\ Ink(moved) = Ink(row)
      /\ Margin(moved) = Margin(row)
      /\ \E n \in 1..Len(row) :
           /\ row[n] = " " /\ IsPrefix(View!TrimEnd(SubSeq(row, 1, n)), moved)
           /\ \A i \in n + 1..Len(row) - Margin(row) : row[i] # " "
      /\ Resized(Anchored(moved, Len(row)), Len(row)) = row

---------------------------------------------------------------------------
\* TerminalView for a terminal of two rows that may become one: everything the user, the remote
\* end and the timers do, in any order, for a number of steps.

LOCAL Shown(s) == View!Appearance(View!Snapshot(s.engine), s.sel)

\* Without what is only counted up.
LOCAL Uncounted(states) ==
  {[s EXCEPT !.turned = 0, !.whole = 0, !.acc = 0, !.sent = <<>>, !.typed = <<>>] : s \in states}

---------------------------------------------------------------------------
LOCAL Arrives(s) ==
  {View!Output(s, View!Written(s.engine, row)) : row \in DOMAIN s.engine.rows}
  \union {View!Output(s, View!Redrawn(s.engine))}
LOCAL Sized(s) == {View!Acknowledge(s, size) : size \in {<<1, 1>>, <<2, 1>>, <<2, 2>>}}
LOCAL Selects(s) ==
  {View!BeginSelection(s, row, shift) : row \in DOMAIN s.engine.rows, shift \in BOOLEAN}
  \union {View!MouseMove(s, DOMAIN s.engine.rows)}
  \union {View!MouseUp(s, empty) : empty \in BOOLEAN} \union {View!SelectAll(s)}
LOCAL Wheel(s) == Uncounted({View!ScrollSession(s, delta) : delta \in {-3, 3}})
LOCAL Types(s) == Uncounted({View!UserInput(s, <<"a">>)})
LOCAL Frames(s) ==
  (IF s.rendered /\ s.notified THEN {View!Render(s)} ELSE {})
  \union (IF s.redraw THEN {View!RedrawTimerFires(s)} ELSE {})
  \union {View!ShowTab(s, ~s.rendered)}

LOCAL Anything(s) ==
  Arrives(s) \union Sized(s) \union Selects(s) \union Wheel(s) \union Types(s) \union Frames(s)
  \union {View!Reset(s)}
LOCAL Painted == View!Render(View!NewState)
LOCAL Views == Reached({Painted}, Anything, 5)

\* A frame shows the screen, whatever was written, scrolled, selected or resized since the
\* last one and however many frames were skipped: only damaged rows are prepared again, and
\* a snapshot is used twice only where nothing is damaged (snapshot_for_render, prepare,
\* merge_terminal_damage).
ASSUME FramesShowTheScreen ==
  \A s \in Views : View!Render(s).canvas.rows = Shown(s)

\* What is shown is painted again whenever it has changed, at once or by the timer.
ASSUME ChangesArePainted ==
  \A s \in Views : s.rendered /\ s.canvas.rows # Shown(s) => s.notified \/ s.redraw

\* A wheel that is turned into arrow keys takes away the selection without painting it: its
\* highlight stays until the program answers (scroll_terminal_session).
ASSUME ArrowsLeaveTheHighlight ==
  LET selected == View!Render(View!SelectAll([Painted EXCEPT !.alternate = TRUE]))
      turned == View!ScrollSession(selected, 3)
  IN turned.sel = {} /\ turned.canvas.rows # Shown(turned) /\ ~turned.notified /\ ~turned.redraw

\* What is copied is what the user selected: a selection does not outlive the text under it,
\* except while the view is scrolled back, and it is always of rows that are there
\* (process_terminal_output, the handling of Resized).
ASSUME SelectedTextStays ==
  \A s \in Views :
    /\ s.sel \subseteq DOMAIN s.engine.rows
    /\ \A row \in s.sel : s.seen[row] = s.engine.rows[row] \/ s.engine.offset # 0
    /\ s.selecting => s.sel # {}

\* Scrolled back, output may change the rows under a selection, which stays and is copied as
\* they are now (process_terminal_output).
ASSUME ScrolledBackMayChange ==
  \E s \in Views : \E row \in s.sel : s.seen[row] # s.engine.rows[row]

---------------------------------------------------------------------------
\* Layouts of three sizes, two of which differ in their pixels only, while the connection lasts.
LOCAL Sizes == {<<1, 1>>, <<2, 1>>, <<2, 2>>}
LOCAL Lays(s) ==
  {View!ApplyLayout(s, size) : size \in Sizes}
  \union {View!ResizeTimerFires(s, size) : size \in s.timer}
  \union {View!Resized(s, taken) : taken \in DOMAIN s.wire}
LOCAL Bounded(states) == {s \in states : Len(s.wire) <= 3}
LOCAL Laid(s) == Bounded(Lays(s))
LOCAL Layouts == Reached({Painted}, Laid, 10)

\* One more frame of the last layout, its timer and the answer to everything under way.
LOCAL Answered(s) == IF s.wire = <<>> THEN s ELSE View!Resized(s, Len(s.wire))
LOCAL Fired(s) == IF s.timer = {} THEN s ELSE View!ResizeTimerFires(s, CHOOSE size \in s.timer : TRUE)
LOCAL Settled(s) == Answered(Fired(View!ApplyLayout(s, CHOOSE size \in s.asked : TRUE)))

LOCAL Agree(s) ==
  /\ s.timer = {} /\ s.wire = <<>> /\ s.pending = {}
  /\ s.asked = {s.pty} /\ Len(s.engine.rows) = s.pty[1]

\* Both ends come to the size of the last layout, however the layouts, the timer and the
\* acknowledgements came, within two frames: every acknowledgement asks for a frame
\* (stage_resize, schedule_terminal_resize, acknowledge_resize).
ASSUME BothEndsAgree ==
  \A s \in Layouts : s.asked # {} => Agree(Settled(Settled(s)))

\* One is not enough: a layout that is changed and changed back may be answered before the
\* size in between is, which then stands until the next frame.
ASSUME SizesMayComeBack ==
  \E s \in Layouts : s.timer = {} /\ s.wire = <<>> /\ s.pending = {} /\ s.asked # {s.pty}

\* What is under way is not forgotten: a size that is waited for has its timer or is sent.
ASSUME WaitsAreAnswered ==
  \A s \in Layouts : \A size \in s.pending :
    size \in s.timer \/ \E i \in DOMAIN s.wire : s.wire[i] = size

\* While the window grows, no size is sent twice and no frame puts the timer off: a layout that
\* is waited for, sent or in force is laid out again without effect (stage_resize).
LOCAL Growth == <<<<2, 2>>, <<1, 1>>, <<1, 2>>>>
LOCAL Larger(s) ==
  IF s.asked = {} THEN {Growth[1]}
  ELSE s.asked \union {Growth[i] : i \in {j \in 2..3 : Growth[j - 1] \in s.asked}}
LOCAL Grows(s) ==
  Bounded({View!ApplyLayout(s, size) : size \in Larger(s)}
          \union {View!ResizeTimerFires(s, size) : size \in s.timer}
          \union {View!Resized(s, taken) : taken \in DOMAIN s.wire})

ASSUME StandingLayoutsRest ==
  \A s \in Reached({Painted}, Grows, 12) : \A size \in s.asked :
    /\ View!ApplyLayout(s, size) = s
    /\ \A i, j \in DOMAIN s.wire : s.wire[i] = s.wire[j] => i = j

\* A terminal that has ended is not laid out any more: the resize is shown as an error, and the
\* size stays pending (schedule_terminal_resize, resize_terminal).
ASSUME EndedIsNotResized ==
  LET ended == View!Disconnected(Painted)
      laid == View!ApplyLayout(ended, <<1, 1>>)
      fired == View!ResizeTimerFires(laid, <<1, 1>>)
  IN fired.error /\ fired.pending = {<<1, 1>>} /\ Len(fired.engine.rows) = 2

---------------------------------------------------------------------------
\* The wheel loses no part of a line and never turns against the hand: since it was last
\* reversed, the whole lines and what is left are what was turned (scroll_terminal_session).
LOCAL Turned(s) == {View!ScrollSession(s, delta) : delta \in -4..4}
LOCAL Turns ==
  Reached({[Painted EXCEPT !.alternate = a] : a \in BOOLEAN}, Turned, 4)

ASSUME WheelKeepsParts ==
  \A s \in Turns :
    /\ s.turned = s.whole * 3 + s.acc
    /\ s.acc \in -2..2
    /\ s.whole # 0 => View!Sign(s.whole) = View!Sign(s.turned)
    /\ s.acc # 0 => View!Sign(s.acc) = View!Sign(s.turned)

---------------------------------------------------------------------------
\* What is composed is sent when it is committed, once, and never while it is composed, also
\* when the composition is changed, given up or replaced (the input handler).
LOCAL Composes(s) ==
  {View!Mark(s, text) : text \in {<<>>, <<"a">>, <<"b">>}}
  \union {View!UnmarkText(s)} \union {View!ReplaceText(s, text) : text \in {<<>>, <<"c">>}}
LOCAL Writing == Reached({Painted}, Composes, 6)

ASSUME CommitsAreSentOnce ==
  \A s \in Writing :
    /\ s.sent = s.typed
    /\ View!UnmarkText(s).marked = <<>> /\ View!UnmarkText(View!UnmarkText(s)).sent = View!UnmarkText(s).sent

---------------------------------------------------------------------------
\* Prompts. Three servers in the list, the first with two sessions and a local terminal
\* beside them, however they are connected.

LOCAL Window == INSTANCE Prompts

LOCAL Session(id, profile, state) ==
  [id |-> id, profile |-> profile, ssh |-> profile # "local", connected |-> state # "off",
   handle |-> state # "off", reachable |-> state = "on", input |-> <<>>]
LOCAL Prompted(selected, text) ==
  {[selected |-> selected, touched |-> TRUE, menu |-> FALSE, error |-> "None", text |-> text]}
LOCAL Servers == <<"p", "q", "r">>
LOCAL Windows ==
  {[profiles |-> Servers, active |-> active, prompt |-> Prompted(selected, text),
    sessions |-> [i \in 1..4 |-> Session(i, <<"p", "q", "p", "local">>[i], Append(states, "on")[i])]] :
     active \in {{}, {1}, {3}, {4}}, selected \in SUBSET ToSet(Servers), text \in {<<>>, <<"x">>},
     states \in [1..3 -> {"on", "ended", "off"}]}

LOCAL Given(w, profile) ==
  FlattenSeq([i \in DOMAIN w.sessions |-> IF w.sessions[i].profile = profile THEN w.sessions[i].input ELSE <<>>])

\* A command is typed once on each chosen server that can be reached, on the terminal in front
\* if it is one of that server's, and nowhere else; it is cleared only if none of the terminals
\* it was meant for had ended (quick_commands.rs:179).
ASSUME CommandReachesEachOnce ==
  \A w \in Windows :
    LET p == CHOOSE p \in w.prompt : TRUE
        after == Window!Submit(w)
        shown == CHOOSE p2 \in after.prompt : TRUE
        tried == {i \in DOMAIN w.sessions : w.sessions[i].profile \in p.selected /\ w.sessions[i].handle}
    IN /\ \A profile \in ToSet(Servers) \union {"local"} :
            LET its == {i \in tried : w.sessions[i].profile = profile} IN
            /\ Len(Given(after, profile)) <= 1
            /\ p.text = <<>> => Given(after, profile) = <<>>
            /\ p.text # <<>> /\ its # {} /\ (\A i \in its : w.sessions[i].reachable) =>
                 Given(after, profile) = <<p.text>>
            /\ \A i \in its : w.active = {i} /\ w.sessions[i].reachable /\ p.text # <<>> =>
                 after.sessions[i].input = <<p.text>>
       /\ \A i \in DOMAIN w.sessions : i \notin tried => after.sessions[i] = w.sessions[i]
       /\ shown.text = <<>> /\ p.text # <<>> =>
            tried # {} /\ \A i \in tried : Given(after, w.sessions[i].profile) = <<p.text>>
       /\ tried # {} /\ p.text # <<>> =>
            shown.error = "None" \/ (shown.error = "Failures" /\ shown.text = p.text)

\* Servers come and go; the window draws, and the user chooses.
LOCAL Switched(w, i) == [w EXCEPT !.sessions[i] = Session(i, @.profile, IF @.connected THEN "off" ELSE "on")]
LOCAL Choosing(w) ==
  LET drawn == Window!Frame(w) IN
  {drawn} \union {Window!Frame(Switched(w, i)) : i \in 1..2}
          \union {Window!ToggleTarget(drawn, p) : p \in ToSet(Servers)}

\* As long as the user has not chosen, the chosen servers are those connected; from then on a
\* server that connects or goes changes nothing (quick_commands.rs:44).
ASSUME ChoiceIsKept ==
  \A w \in Reached({[profiles |-> Servers, active |-> {}, prompt |-> {},
                     sessions |-> [i \in 1..2 |-> Session(i, Servers[i], "off")]]}, Choosing, 5) :
    \A p \in w.prompt : \A i \in 1..2 :
      LET now == CHOOSE p2 \in Window!Frame(Switched(w, i)).prompt : TRUE IN
      IF p.touched THEN now = p
      ELSE /\ p.selected = ToSet(Window!ConnectedProfiles(w))
           /\ now.selected = ToSet(Window!ConnectedProfiles(Switched(w, i)))

LOCAL Entry(section, field) == [section |-> section, fields |-> {field}, target |-> <<section, field>>]
LOCAL Names == {<<"a">>, <<"a", "b">>, <<"b", "a">>, <<"b", "-", "a">>, <<"c">>}
LOCAL Queries == {<<>>, <<"a">>, <<"b">>, <<"-", "a">>, <<"d">>}
LOCAL EntryLists ==
  {[i \in DOMAIN one |-> Entry("Terminals", one[i])] \o [i \in DOMAIN two |-> Entry("Servers", two[i])]
     \o <<Entry("Actions", <<"a">>)>> :
     one \in SeqOf(Names, 2), two \in SeqOf(Names, 2)}

LOCAL Part(query, field) == \E i \in 0..Len(field) : IsPrefix(query, SubSeq(field, i + 1, Len(field)))

\* The rows are the entries that have the query in them, each as often as it is there, those
\* of a section together and a beginning before what is no beginning; a row is at the place
\* the list is scrolled to for it, headings included (spotlight.rs:133, :226).
ASSUME ResultsInOrder ==
  \A entries \in EntryLists, query \in Queries :
    LET results == Window!Results(entries, query)
        Begins(e) == \E field \in e.fields : IsPrefix(query, field)
        Starts(i) == i = 1 \/ results[i].section # results[i - 1].section
        Children == FlattenSeq([i \in DOMAIN results |-> IF Starts(i) THEN <<0, i>> ELSE <<i>>])
        Order(e) == CASE e.section = "Terminals" -> 1 [] e.section = "Servers" -> 2 [] OTHER -> 3
    IN /\ \A e \in ToSet(entries) :
            Cardinality({i \in DOMAIN results : results[i] = e})
              = IF \E field \in e.fields : Part(query, field)
                THEN Cardinality({i \in DOMAIN entries : entries[i] = e}) ELSE 0
       /\ \A i \in DOMAIN results : \A j \in 1..(i - 1) :
            /\ Order(results[j]) <= Order(results[i])
            /\ results[i].section = results[j].section /\ Begins(results[i]) => Begins(results[j])
       /\ \A i \in DOMAIN results : Children[Window!ChildIndex(results, i - 1) + 1] = i

\* The spotlight is opened, closed and confirmed, its query and its cursor change, and so do
\* the entries under it, of which it keeps nothing.
LOCAL Some == <<Entry("Terminals", <<"b", "a">>), Entry("Servers", <<"a">>), Entry("Actions", <<"a", "b">>)>>
LOCAL Closed == [open |-> {}, focus |-> "terminal", opened |-> <<>>]
LOCAL Seeks(s) ==
  {Window!TypeQuery(s, query) : query \in {<<>>, <<"a">>, <<"d">>}}
  \union {Window!Navigate(s, entries, key) : entries \in {Some, Tail(Some)}, key \in {"up", "down", "home", "end"}}
  \union UNION {{Window!Hover(s, i - 1) : i \in DOMAIN Window!Results(Some, o.query)} : o \in s.open}

\* What is opened is the row that is shown as chosen, and nothing where there is none; what
\* was typed last has its first row chosen; and the focus goes back if nothing is opened.
ASSUME OpensWhatIsShown ==
  \A s \in Reached({Window!Toggle(Closed, Closed.focus)}, Seeks, 4) :
    LET o == CHOOSE o \in s.open : TRUE IN
    /\ \A entries \in {Some, Tail(Some)} :
         LET results == Window!Results(entries, o.query)
             s2 == Window!Confirm(s, entries)
         IN IF o.cursor + 1 \in DOMAIN results
            THEN s2.opened = <<results[o.cursor + 1].target>> /\ s2.open = {}
            ELSE s2 = s
    /\ Window!Toggle(s, "input") = Closed
    /\ \A query \in {<<"a">>, <<"b">>} \ {o.query} :
         LET results == Window!Results(Some, query) IN
         Window!Confirm(Window!TypeQuery(s, query), Some).opened = <<results[1].target>>

---------------------------------------------------------------------------
\* What a terminal tells of itself. In the end it says why it has ended: by its own last word
\* on it, whatever else comes of the shell, the channel and the connection behind that; and
\* only if it said nothing of a reason, by the first of these (handle_connection_event,
\* render_terminal_lifecycle).
LOCAL Says(kind) == [kind |-> kind, text |-> <<kind>>, asked |-> kind = "Disconnected"]
LOCAL Telling == {"ExitStatus", "ExitSignal", "ExitRequested", "Disconnecting"}
LOCAL Vague == {"Eof", "Closed", "Disconnected"}
LOCAL Last1(kinds, of) == CHOOSE i \in DOMAIN kinds : kinds[i] \in of /\ \A j \in (i + 1)..Len(kinds) : kinds[j] \notin of
LOCAL First1(kinds, of) == CHOOSE i \in DOMAIN kinds : kinds[i] \in of /\ \A j \in 1..(i - 1) : kinds[j] \notin of

ASSUME EndHasItsReason ==
  \A kinds \in SeqOf(Telling \union Vague \union {"Bell"}, 4) :
    LET told == View!HandleAll(View!NewTold, [i \in DOMAIN kinds |-> Says(kinds[i])])
        reason == CASE Telling \intersect Range(kinds) # {} -> kinds[Last1(kinds, Telling)]
                    [] Telling \intersect Range(kinds) = {} /\ Vague \intersect Range(kinds) # {} ->
                         kinds[First1(kinds, Vague)]
                    [] OTHER -> "None"
    IN told.reason = IF reason = "Disconnecting" THEN "Disconnected" ELSE reason

\* What is asked of a terminal is answered once, in the order of asking, with the clipboard as
\* it was stored before; what cannot be answered any more is shown as an error.
ASSUME AsksAreAnswered ==
  \A kinds \in SeqOf({"Color", "WriteToPty", "ClipboardLoad", "ClipboardStore", "Disconnected", "Bell"}, 4) :
    LET events == [i \in DOMAIN kinds |-> [Says(kinds[i]) EXCEPT !.text = <<i>>]]
        told == View!HandleAll(View!NewTold, events)
        Asks(i) == kinds[i] \in {"Color", "WriteToPty", "ClipboardLoad"}
        Ended(i) == \E j \in 1..(i - 1) : kinds[j] = "Disconnected"
        Stored(i) == {j \in 1..(i - 1) : kinds[j] = "ClipboardStore"}
        Given1(i) == IF kinds[i] # "ClipboardLoad" THEN <<i>>
                     ELSE IF Stored(i) = {} THEN <<>> ELSE <<Max(Stored(i))>>
        asked == SelectSeq([i \in DOMAIN kinds |-> i], LAMBDA i : Asks(i) /\ ~Ended(i))
    IN /\ told.answers = [k \in DOMAIN asked |-> Given1(asked[k])]
       /\ told.error <=> \E i \in DOMAIN kinds : Asks(i) /\ Ended(i)

---------------------------------------------------------------------------
\* Keys. Whatever the program behind the terminal has asked for, no two of them are the same
\* bytes; only the arrows depend on it; a key has a parameter if and only if something is held
\* with it; and a control is the character without its upper bits.

LOCAL Pressed(name, code, shift, alt, control) ==
  [name |-> name, code |-> code, shift |-> shift, alt |-> alt, control |-> control, platform |-> FALSE]
LOCAL Told ==
  {Pressed(name, 0, held[1], held[2], held[3]) :
     name \in DOMAIN View!NamedKeys \union DOMAIN View!FunctionKeys \union DOMAIN View!TildeKeys,
     held \in BOOLEAN \X BOOLEAN \X BOOLEAN}
LOCAL Modes == SUBSET {"ApplicationCursor", "LineFeedNewLine"}
LOCAL Bytes(k, modes) == CHOOSE bytes \in View!EncodeKey(k, modes) : TRUE

ASSUME KeysAreToldApart ==
  \A modes \in Modes :
    /\ \A k \in Told : /\ Cardinality(View!EncodeKey(k, modes)) = 1
                      /\ (k.shift \/ k.alt \/ k.control) <=> 59 \in Range(Bytes(k, modes))
    /\ Cardinality({Bytes(k, modes) : k \in Told}) = Cardinality(Told)
    /\ \A k \in Told : \A other \in Modes :
         Bytes(k, modes) # Bytes(k, other) => Len(Bytes(k, modes)) = 3 /\ k.name \in DOMAIN View!NamedKeys

ASSUME ControlsAreLowBits ==
  \A code \in 33..126 : \A shift \in BOOLEAN :
    LET Key(alt, control) == Pressed("char", code, shift, alt, control)
        low == View!EncodeKey(Key(FALSE, TRUE), {}) IN
    /\ code \in 64..95 \union 97..122 => low = {<<code % 32>>}
    /\ View!EncodeKey(Key(TRUE, TRUE), {}) # {}
    /\ low # {} => View!EncodeKey(Key(TRUE, TRUE), {}) = {<<View!ESC>> \o bytes : bytes \in low}
    /\ View!EncodeKey(Key(FALSE, FALSE), {}) = {}
    /\ \A bytes \in View!EncodeKey(Key(TRUE, FALSE), {}) : bytes[1] = View!ESC /\ Len(bytes) = 2
=============================================================================
