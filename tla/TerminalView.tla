---------------------------- MODULE TerminalView ----------------------------
(***************************************************************************)
(* One terminal in the window: what is painted of its screen, the          *)
(* selection, the size it is laid out in and the size of the remote one,   *)
(* and the wheel (terminal_session.rs, terminal_canvas.rs); what its       *)
(* emulator asks and tells (engine.rs, event.rs), why it has ended, the    *)
(* bytes of a key (terminal_input.rs), and at the end what it shows as     *)
(* text: the cells a pointer selects, the text of a selection and its      *)
(* highlight, the text an input method composes, and the prompt at the     *)
(* right edge of a row whose width changes (screen.rs and engine.rs in     *)
(* remcmd-terminal, terminal_session.rs, terminal_view.rs).                *)
(*                                                                         *)
(* A state is a record. The engine (alacritty_terminal) is external: it    *)
(* has a screen of rows, each a number that changes with what the row      *)
(* shows, a cursor, how far it is scrolled back, and the rows damaged      *)
(* since they were asked for, at least those that changed. A size is <<    *)
(* rows, pixels >>: its columns go with its rows. A selection is a set of  *)
(* rows. `asked`, `seen`, `turned`, `whole` and `typed` are history.       *)
(***************************************************************************)
EXTENDS Integers, Sequences, SequencesExt, FiniteSets, FiniteSetsExt

CONSTANTS DefaultSize, History, LineHeight, MaxArrows

Nothing == [full |-> FALSE, rows |-> {}]
Everything == [full |-> TRUE, rows |-> {}]

NewEngine(size) ==
  [rows |-> [i \in 1..size[1] |-> 0], cursor |-> 1, offset |-> 0, damage |-> Nothing]

\* ActiveTerminal::new in a session that is being connected.
Connect(s) ==
  [s EXCEPT !.engine = NewEngine(DefaultSize), !.damage = Everything, !.cached = {},
            !.canvas = [key |-> <<>>, cursor |-> {}, rows |-> <<>>],
            !.pty = DefaultSize, !.pending = {}, !.timer = {}, !.wire = <<>>, !.handle = TRUE,
            !.sel = {}, !.selecting = FALSE, !.marked = <<>>, !.acc = 0, !.asked = {}, !.seen = <<>>]

NewState ==
  Connect([engine |-> <<>>, damage |-> {}, cached |-> {}, canvas |-> <<>>, pty |-> <<>>,
           pending |-> {}, timer |-> {}, wire |-> <<>>, handle |-> FALSE, sel |-> {},
           selecting |-> FALSE, marked |-> <<>>, acc |-> 0, alternate |-> FALSE, error |-> FALSE,
           notified |-> TRUE, redraw |-> FALSE, rendered |-> TRUE, sent |-> <<>>, asked |-> {},
           seen |-> <<>>, turned |-> 0, whole |-> 0, typed |-> <<>>])

Notify(s) == [s EXCEPT !.notified = TRUE]

---------------------------------------------------------------------------
\* The engine.

Damaged(engine, rows) == [engine EXCEPT !.damage.rows = @ \union rows \union {engine.cursor}]

\* Something is written in a row, and the cursor goes there.
Written(engine, row) ==
  Damaged([Damaged(engine, {row}) EXCEPT !.rows[row] = 1 - @, !.cursor = row], {})

\* Everything moves, is cleared or has other colours.
Redrawn(engine) == [engine EXCEPT !.rows = [i \in DOMAIN @ |-> 1 - @[i]], !.damage.full = TRUE]

\* Positive lines go back; the view stops at either end of the history.
ScrolledBy(engine, lines) ==
  LET to == engine.offset + lines
      offset == CASE to < 0 -> 0 [] to > History -> History [] OTHER -> to IN
  IF offset = engine.offset THEN engine
  ELSE [Redrawn(engine) EXCEPT !.offset = offset]

ResizedTo(engine, rows) ==
  [engine EXCEPT !.rows = [i \in 1..rows |-> 1], !.cursor = 1, !.damage.full = TRUE]

---------------------------------------------------------------------------
\* Damage, and the frame that is prepared from it.

\* merge_terminal_damage; Wrong: only what came last counts.
LastDamage(current, incoming) == incoming

MergeDamage(current, incoming) ==
  IF current.full \/ incoming.full THEN Everything
  ELSE [full |-> FALSE, rows |-> current.rows \union incoming.rows]

CaptureDamage(s) ==
  [s EXCEPT !.damage = MergeDamage(@, s.engine.damage), !.engine.damage = Nothing]

Snapshot(engine) == [rows |-> engine.rows, cursor |-> engine.cursor, offset |-> engine.offset]

\* snapshot_for_render: the last snapshot where nothing is damaged.
SnapshotForRender(s) ==
  IF s.damage = Nothing /\ s.cached # {} THEN CHOOSE kept \in s.cached : TRUE
  ELSE Snapshot(s.engine)

\* row_from_snapshot: what a row looks like.
Row(snapshot, row, sel) == <<snapshot.rows[row], row \in sel, row = snapshot.cursor>>
Appearance(snapshot, sel) == [row \in DOMAIN snapshot.rows |-> Row(snapshot, row, sel)]

Key(snapshot, sel) == <<Len(snapshot.rows), snapshot.offset, sel>>

\* TerminalCanvasFrame::prepare
Prepare(canvas, snapshot, damage, sel) ==
  LET full == canvas.key # Key(snapshot, sel) \/ damage.full
      cursors == IF canvas.cursor = {snapshot.cursor} THEN {} ELSE canvas.cursor \union {snapshot.cursor}
      damaged == (damage.rows \union cursors) \intersect DOMAIN snapshot.rows
  IN [key |-> Key(snapshot, sel), cursor |-> {snapshot.cursor},
      rows |-> [row \in DOMAIN snapshot.rows |->
                  IF full \/ row \in damaged THEN Row(snapshot, row, sel) ELSE canvas.rows[row]]]

Render(s) ==
  LET snapshot == SnapshotForRender(s) IN
  [s EXCEPT !.damage = Nothing, !.cached = {snapshot}, !.notified = FALSE,
            !.canvas = Prepare(@, snapshot, s.damage, s.sel)]

\* schedule_terminal_redraw, and its timer.
ScheduleRedraw(s) == IF s.rendered THEN [s EXCEPT !.redraw = TRUE] ELSE s
RedrawTimerFires(s) == [Notify(s) EXCEPT !.redraw = FALSE]

\* terminal_session_is_rendered: its tab is shown or another.
ShowTab(s, shown) == Notify([s EXCEPT !.rendered = shown])

---------------------------------------------------------------------------
\* The selection; `seen` is what the rows were when the user chose it.

Cleared(s) == [s EXCEPT !.sel = {}, !.selecting = FALSE]
Chosen(s, sel) ==
  Notify([s EXCEPT !.sel = sel,
                   !.seen = [row \in DOMAIN s.engine.rows |->
                               IF row \in s.sel THEN s.seen[row] ELSE s.engine.rows[row]]])

\* A press on a row; with shift a selection is extended.
BeginSelection(s, row, shift) ==
  [Chosen(s, IF shift THEN s.sel \union {row} ELSE {row}) EXCEPT !.selecting = TRUE]
MouseMove(s, sel) == IF ~s.selecting \/ sel = s.sel THEN s ELSE Chosen(s, sel)
\* A selection of no cells is none.
MouseUp(s, empty) ==
  LET up == [s EXCEPT !.selecting = FALSE] IN
  IF empty /\ s.sel # {} THEN Notify([up EXCEPT !.sel = {}]) ELSE up
SelectAll(s) == [Chosen(s, DOMAIN s.engine.rows) EXCEPT !.selecting = FALSE]

---------------------------------------------------------------------------
\* What arrives and what is typed.

\* process_terminal_output
Output(s, engine) ==
  LET selection == IF s.engine.offset = 0 THEN Cleared(s) ELSE s IN
  ScheduleRedraw(CaptureDamage([selection EXCEPT !.engine = engine]))

SendTerminalInput(s, data) ==
  IF data = <<>> \/ ~s.handle THEN s ELSE [s EXCEPT !.sent = Append(@, data)]

\* send_terminal_user_input
UserInput(s, data) ==
  LET cleared == IF s.sel # {} \/ s.selecting THEN Notify(Cleared(s)) ELSE s
      bottom == IF s.engine.offset = 0 THEN cleared
                ELSE Notify(CaptureDamage([cleared EXCEPT !.engine = ScrolledBy(@, -History)]))
  IN IF data = <<>> THEN s ELSE SendTerminalInput(bottom, data)

\* The input method composes, and commits with unmark_text or with another text.
Mark(s, text) == Notify([s EXCEPT !.marked = text])
Commit(s, text) == IF text = <<>> THEN s ELSE [s EXCEPT !.typed = Append(@, text)]
\* Wrong: the composed text stays.
UnmarkKeeping(s) == UserInput(Commit(s, s.marked), s.marked)
UnmarkText(s) == UserInput([Commit(s, s.marked) EXCEPT !.marked = <<>>], s.marked)
ReplaceText(s, text) == UserInput([Commit(s, text) EXCEPT !.marked = <<>>], text)

\* reset_terminal
Reset(s) ==
  Notify([Cleared(s) EXCEPT !.engine = [NewEngine(<<Len(@.rows), 0>>) EXCEPT !.damage = Everything],
                            !.alternate = FALSE,
                            !.damage = Everything, !.cached = {}, !.marked = <<>>, !.acc = 0])

\* scroll_terminal_session; whole lines are taken from what the wheel has turned so far.
Sign(x) == IF x < 0 THEN -1 ELSE 1
WholeLines(x) == Sign(x) * ((Sign(x) * x) \div LineHeight)
ScrollSession(s, delta) ==
  LET reversed == Sign(s.acc) # Sign(delta)
      acc == IF reversed THEN delta ELSE s.acc + delta
      lines == WholeLines(acc)
      turned == [s EXCEPT !.acc = acc - lines * LineHeight,
                          !.turned = IF reversed \/ s.acc = 0 THEN delta ELSE @ + delta,
                          !.whole = IF reversed \/ s.acc = 0 THEN lines ELSE @ + lines]
      repeated == IF Sign(lines) * lines < MaxArrows THEN Sign(lines) * lines ELSE MaxArrows
      arrows == [i \in 1..repeated |-> Sign(lines)]
  IN CASE delta = 0 -> s
       [] delta # 0 /\ lines = 0 -> turned
       [] delta # 0 /\ lines # 0 /\ s.alternate /\ s.engine.offset = 0 ->
            SendTerminalInput(Cleared(turned), arrows)
       [] OTHER -> Notify(CaptureDamage([Cleared(turned) EXCEPT !.engine = ScrolledBy(@, lines)]))

---------------------------------------------------------------------------
\* The size. A layout stages it, a timer that a later one replaces sends it, the other end
\* acknowledges it: `wire` has the sizes that are under way.

ApplyLayout(s, size) ==
  LET target == IF s.pending = {} THEN {s.pty} ELSE s.pending
      asked == [s EXCEPT !.asked = {size}]
  IN IF target = {size} THEN asked
     ELSE Notify([asked EXCEPT !.pending = {size}, !.timer = {size}])

ResizeTimerFires(s, size) ==
  LET fired == [s EXCEPT !.timer = {}] IN
  CASE s.pending # {size} -> fired
    [] s.pending = {size} /\ s.handle -> [fired EXCEPT !.wire = Append(@, size)]
    [] OTHER -> Notify([fired EXCEPT !.error = TRUE])

\* Wrong: any acknowledgement ends the wait.
AcknowledgeAny(s, size) ==
  LET changed == s.pty[1] # size[1]
      resized == IF changed THEN CaptureDamage([Cleared(s) EXCEPT !.engine = ResizedTo(@, size[1])]) ELSE s
  IN Notify([resized EXCEPT !.pty = size, !.pending = {}])

Acknowledge(s, size) ==
  [AcknowledgeAny(s, size) EXCEPT !.pending = IF s.pending = {size} THEN {} ELSE s.pending]

\* The worker answers the last of the sizes it finds (drain_resizes).
Resized(s, taken) ==
  Acknowledge([s EXCEPT !.wire = SubSeq(@, taken + 1, Len(@))], s.wire[taken])

Disconnected(s) ==
  Notify([s EXCEPT !.handle = FALSE, !.timer = {}, !.wire = <<>>])

---------------------------------------------------------------------------
\* What the emulator tells and asks, and what the window does about it.

\* A session, as far as its terminal tells of it. The end is asked for by the user or known
\* from the connection; a reason is at most one.
NewTold == [title |-> <<>>, cwd |-> <<>>, clipboard |-> <<>>, answers |-> <<>>, error |-> FALSE,
            handle |-> TRUE, message |-> "None", reason |-> "None"]

\* send_terminal_response
Respond(t, data) == IF t.handle THEN [t EXCEPT !.answers = Append(@, data)] ELSE [t EXCEPT !.error = TRUE]

EndsBy(t, reason) == [t EXCEPT !.message = reason, !.reason = reason]
\* Wrong: the last word is the reason. Eof, Closed and Disconnected only say that it is over.
OverBy(t, reason) == EndsBy(t, reason)
EndsUnknown(t, reason) ==
  [t EXCEPT !.message = reason, !.reason = IF @ = "None" THEN reason ELSE @]

\* handle_terminal_event, and the events of the shell in handle_connection_event.
HandleTold(t, e) ==
  CASE e.kind = "Title" -> [t EXCEPT !.title = e.text]
    [] e.kind = "Directory" -> [t EXCEPT !.cwd = e.text]
    [] e.kind = "ClipboardStore" -> [t EXCEPT !.clipboard = e.text]
    [] e.kind = "ClipboardLoad" -> Respond(t, t.clipboard)
    [] e.kind \in {"Color", "WriteToPty", "TextAreaSize"} -> Respond(t, e.text)
    [] e.kind = "Bell" -> [t EXCEPT !.message = "Bell"]
    [] e.kind \in {"ExitRequested", "ChildExited", "ExitStatus", "ExitSignal"} -> EndsBy(t, e.kind)
    [] e.kind \in {"Eof", "Closed"} -> EndsUnknown(t, e.kind)
    [] e.kind = "Disconnecting" -> [t EXCEPT !.reason = "Disconnected"]
    [] e.kind = "Disconnected" ->
         [t EXCEPT !.handle = FALSE,
                   !.reason = IF @ = "None" /\ e.asked THEN "Disconnected" ELSE @]
    [] OTHER -> t

HandleAll(t, events) == FoldLeft(HandleTold, t, events)

---------------------------------------------------------------------------
\* The bytes of a key. A key is a name, or "char" with the code of the character on it. What
\* has no bytes is left to the input method.

ESC == 27
CSI == <<ESC, 91>>   \* ESC [
Decimal(n) == IF n < 10 THEN <<48 + n>> ELSE <<48 + (n \div 10), 48 + (n % 10)>>

NamedKeys ==
  [up |-> 65, down |-> 66, right |-> 67, left |-> 68, home |-> 72, end |-> 70]
FunctionKeys == [f1 |-> 80, f2 |-> 81, f3 |-> 82, f4 |-> 83]
TildeKeys ==
  [insert |-> 2, delete |-> 3, pageup |-> 5, pagedown |-> 6, f5 |-> 15, f6 |-> 17, f7 |-> 18,
   f8 |-> 19, f9 |-> 20, f10 |-> 21, f11 |-> 23, f12 |-> 24]

\* modifier_parameter; Wrong: without the one it begins with.
Bit(held, value) == IF held THEN value ELSE 0
FromZero(k) == Bit(k.shift, 1) + Bit(k.alt, 2) + Bit(k.control, 4)
Modifier(k) == 1 + Bit(k.shift, 1) + Bit(k.alt, 2) + Bit(k.control, 4)

\* cursor_key, function_key, tilde_key
WithParameters(final, k) == CSI \o <<49, 59>> \o Append(Decimal(Modifier(k)), final)
CursorKey(final, k, modes) ==
  IF Modifier(k) # 1 THEN WithParameters(final, k)
  ELSE <<ESC, IF "ApplicationCursor" \in modes THEN 79 ELSE 91, final>>
FunctionKey(final, k) == IF Modifier(k) # 1 THEN WithParameters(final, k) ELSE <<ESC, 79, final>>
TildeKey(code, k) ==
  CSI \o Decimal(code) \o (IF Modifier(k) # 1 THEN <<59>> \o Decimal(Modifier(k)) ELSE <<>>) \o <<126>>

\* control_byte, of the code of a character: at most one.
IsLower(c) == c \in 97..122
Upper(c) == IF IsLower(c) THEN c - 32 ELSE c
ControlByte(code, shift) ==
  LET c == IF shift THEN Upper(code) ELSE code IN
  CASE IsLower(c) -> {c - 96}
    [] c \in 64..95 -> {c - 64}
    [] c \in 50..55 -> {<<0, 27, 28, 29, 30, 31>>[c - 49]}
    [] c = 47 -> {31}
    [] c \in {56, 63} -> {127}
    [] OTHER -> {}

AltPrefix(k, bytes) == IF k.alt THEN <<ESC>> \o bytes ELSE bytes

\* encode_key: at most one sequence.
EncodeKey(k, modes) ==
  LET control == CASE ~k.control -> {}
                   [] k.control /\ k.name = "space" -> {0}
                   [] k.control /\ k.name = "char" -> ControlByte(k.code, k.shift)
                   [] OTHER -> {}
  IN CASE k.platform -> {}
       [] ~k.platform /\ control # {} -> {AltPrefix(k, <<byte>>) : byte \in control}
       [] OTHER ->
            CASE k.name = "enter" ->
                   {AltPrefix(k, IF "LineFeedNewLine" \in modes THEN <<13, 10>> ELSE <<13>>)}
              [] k.name = "backspace" -> {AltPrefix(k, <<127>>)}
              [] k.name = "tab" -> {AltPrefix(k, IF k.shift THEN CSI \o <<90>> ELSE <<9>>)}
              [] k.name = "escape" -> {AltPrefix(k, <<ESC>>)}
              [] k.name \in DOMAIN NamedKeys -> {CursorKey(NamedKeys[k.name], k, modes)}
              [] k.name \in DOMAIN FunctionKeys -> {FunctionKey(FunctionKeys[k.name], k)}
              [] k.name \in DOMAIN TildeKeys -> {TildeKey(TildeKeys[k.name], k)}
              [] k.name = "char" /\ k.alt -> {<<ESC, IF k.shift THEN Upper(k.code) ELSE k.code>>}
              [] OTHER -> {}

\* encode_paste, encode_focus; and encode_alternate_scroll, which is ScrollSession's arrows.
EncodePaste(text, modes) ==
  IF "BracketedPaste" \in modes
  THEN CSI \o <<50, 48, 48, 126>> \o text \o CSI \o <<50, 48, 49, 126>> ELSE text
EncodeFocus(focused, modes) ==
  IF "FocusReporting" \in modes THEN {Append(CSI, IF focused THEN 73 ELSE 79)} ELSE {}
---------------------------------------------------------------------------
\* What is shown as text.  A cell is a record of its kind and its character; a character twice
\* as wide as others has the kind "wide" and is followed by a "spacer"; where it does not fit a
\* row, the row ends in a "leading" one.  Rows and columns are counted from 0, pixels are whole
\* numbers.

LOCAL Least(a, b) == IF a < b THEN a ELSE b

\* A screen: the number of columns and its rows.
CellAt(screen, row, column) == screen.rows[row + 1].cells[column + 1]
Kind(screen, row, column) == CellAt(screen, row, column).kind

Before(p, q) == p.row < q.row \/ (p.row = q.row /\ p.column < q.column)

From(selection) == IF Before(selection.head, selection.anchor) THEN selection.head ELSE selection.anchor
To(selection) == IF Before(selection.head, selection.anchor) THEN selection.anchor ELSE selection.head
IsEmpty(selection) == selection.anchor = selection.head

Covers(selection, row, column) ==
  LET start == From(selection)
      end == To(selection) IN
  /\ ~IsEmpty(selection)
  /\ CASE start.row = end.row -> row = start.row /\ column >= start.column /\ column < end.column
       [] start.row # end.row /\ row = start.row -> column >= start.column
       [] start.row # end.row /\ row = end.row -> column < end.column
       [] OTHER -> LET p == [row |-> row, column |-> column] IN Before(start, p) /\ Before(p, end)

\* cell_is_selected: a wide character is highlighted with either half.
IsSelected(screen, selection, row, column) ==
  \/ Covers(selection, row, column)
  \/ /\ Kind(screen, row, column) = "wide" /\ column + 1 < screen.columns
     /\ Covers(selection, row, column + 1)
  \/ /\ column > 0 /\ Kind(screen, row, column - 1) = "leading"
     /\ Covers(selection, row, column - 1)

---------------------------------------------------------------------------
\* The text of a selection.

\* The columns whose characters are taken from start to end of a row: a spacer stands for its
\* character only where the selection starts with it.
TakenColumns(screen, row, start, end) ==
  [i \in 1..(end - start) |->
     LET column == start + i - 1
         kind == Kind(screen, row, column)
     IN CASE kind = "spacer" ->
               IF column = start /\ column > 0 THEN <<CellAt(screen, row, column - 1).character>> ELSE <<>>
          [] kind = "leading" ->
               IF column + 1 = end /\ column + 1 < screen.columns
               THEN <<CellAt(screen, row, column + 1).character>> ELSE <<>>
          [] OTHER -> <<CellAt(screen, row, column).character>>]

SelectedRowText(screen, row, start, end) == FlattenSeq(TakenColumns(screen, row, start, end))

TrimEnd(text) ==
  LET last == Max({0} \union {i \in DOMAIN text : text[i] # " "}) IN SubSeq(text, 1, last)

Clamp(screen, p) ==
  [row |-> Least(p.row, Len(screen.rows) - 1), column |-> Least(p.column, screen.columns)]

SelectedText(screen, selection) ==
  LET start == Clamp(screen, From(selection))
      end == Clamp(screen, To(selection))
      Line(row) ==
        LET last == IF row = end.row THEN end.column ELSE screen.columns
            text == SelectedRowText(screen, row, IF row = start.row THEN start.column ELSE 0, last)
        IN (IF last = screen.columns THEN TrimEnd(text) ELSE text)
           \o (IF row < end.row /\ ~screen.rows[row + 1].wrapped THEN <<"\n">> ELSE <<>>)
  IN IF ~Before(start, end) THEN <<>>
     ELSE FlattenSeq([i \in 1..(end.row - start.row + 1) |-> Line(start.row + i - 1)])

\* row_text, which the accessibility tree shows.
RowText(screen, row) ==
  FlattenSeq([i \in 1..screen.columns |->
    IF Kind(screen, row, i - 1) \in {"spacer", "leading"} THEN <<>>
    ELSE <<CellAt(screen, row, i - 1).character>>])

FullSelection(screen) ==
  [anchor |-> [row |-> 0, column |-> 0],
   head |-> [row |-> Len(screen.rows) - 1, column |-> screen.columns]]

---------------------------------------------------------------------------
\* From pixels to cells: a pointer is between two columns, and in a row.

Rounded(x, unit) == (2 * x + unit) \div (2 * unit)

TerminalPointForPixels(x, y, columns, rows, width, height) ==
  [row |-> Least(y \div height, rows - 1), column |-> Least(Rounded(x, width), columns)]

CellCount(viewport, cell) == IF viewport < cell THEN 1 ELSE viewport \div cell

---------------------------------------------------------------------------
\* A composed text, of characters that count one or two in UTF-16.

Units(text) == FoldLeft(LAMBDA n, c : n + c.units, 0, text)

\* utf16_offset_to_utf8: the characters that end at or before the offset.
Utf16OffsetToUtf8(text, offset) ==
  Max({n \in 0..Len(text) : Units(SubSeq(text, 1, n)) <= offset})

\* text_for_range: the text and the range it has.
TextForRange(text, from, to) ==
  LET first == Least(from, Units(text))
      end == IF to < first THEN first ELSE Least(to, Units(text))
      start == Utf16OffsetToUtf8(text, first)
      stop == Utf16OffsetToUtf8(text, end)
  IN [text |-> SubSeq(text, start + 1, stop), from |-> Units(SubSeq(text, 1, start)),
      to |-> Units(SubSeq(text, 1, stop))]

---------------------------------------------------------------------------
\* reanchor_right_aligned_row: the last word of a row that a wide gap sets apart keeps its
\* distance from the right edge. `row` is a sequence of characters, " " an empty cell.
Reanchor(row, wrapped, target, maxMargin, maxSuffix, minGap) ==
  LET current == Len(row)
      last == Max({0} \union {i \in DOMAIN row : row[i] # " "})
      margin == current - last
      start == Max({0} \union {i \in 1..last : row[i] = " "})
      width == last - start
      prefix == Max({0} \union {i \in 1..start : row[i] # " "})
      to == target - margin - width
      moves == /\ current # target /\ target > 0 /\ ~wrapped
               /\ last > 0 /\ margin <= maxMargin /\ width <= maxSuffix
               /\ prefix > 0 /\ start - prefix >= minGap
               /\ target >= margin /\ to >= prefix + minGap /\ to # start
      length == IF moves /\ target > current THEN target ELSE current
  IN IF ~moves THEN row
     ELSE [i \in 1..length |->
             CASE i \in to + 1..to + width -> row[i - to + start]
               [] i \notin to + 1..to + width /\ i <= start -> row[i]
               [] OTHER -> " "]
=============================================================================
