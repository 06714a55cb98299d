---------------------------- MODULE TextEditing ----------------------------
(***************************************************************************)
(* The text of an input field and of the file editor (text_field.rs,       *)
(* file_editor.rs, text_edit.rs): a cursor or selection, the text an input *)
(* method is composing, and in the editor what can be undone.              *)
(*                                                                         *)
(* A text is a sequence of characters. Width8 and Width16 are the bytes    *)
(* and the UTF-16 units of one, and a member of Joining belongs to the     *)
(* grapheme of the character before it. Every offset counts bytes, as in   *)
(* the code, and those of the input method count UTF-16 units. A range is  *)
(* a pair, an Option of one a set with at most one pair. The code panics   *)
(* where it cuts a text anywhere but between characters: the text is then  *)
(* Panicked.                                                               *)
(***************************************************************************)
EXTENDS Naturals, Sequences, SequencesExt

CONSTANTS
  Width8, Width16, Joining, Newline, Space,   \* the characters
  Panicked,                                   \* a model value
  UndoLimit                                   \* of the editor (file_editor.rs)

Total(widths, text) == FoldLeft(LAMBDA sum, c : sum + widths[c], 0, text)
Bytes(text) == Total(Width8, text)

\* The offsets between characters, and what is before and behind one of them.
Boundaries(text) == {Bytes(SubSeq(text, 1, n)) : n \in 0..Len(text)}
Count(text, offset) == CHOOSE n \in 0..Len(text) : Bytes(SubSeq(text, 1, n)) = offset
Upto(text, offset) == SubSeq(text, 1, Count(text, offset))
From(text, offset) == SubSeq(text, Count(text, offset) + 1, Len(text))
Between(text, range) == SubSeq(text, Count(text, range[1]) + 1, Count(text, range[2]))

---------------------------------------------------------------------------
\* text_edit.rs: an offset that is inside a character goes to its end.

Convert(text, offset, from, to) ==
  LET ns == {n \in 0..Len(text) : Total(from, SubSeq(text, 1, n)) >= offset}
      n == IF ns = {} THEN Len(text) ELSE CHOOSE m \in ns : \A k \in ns : m <= k
  IN Total(to, SubSeq(text, 1, n))

OffsetFromUtf16(text, offset) == Convert(text, offset, Width16, Width8)
OffsetToUtf16(text, offset) == Convert(text, offset, Width8, Width16)
RangeFromUtf16(text, range) == <<OffsetFromUtf16(text, range[1]), OffsetFromUtf16(text, range[2])>>

\* Where graphemes begin; nothing joins a line break or the beginning.
Graphemes(text) ==
  {Bytes(SubSeq(text, 1, n - 1)) :
     n \in {i \in DOMAIN text : i = 1 \/ text[i] \notin Joining \/ text[i - 1] = Newline}}

Least(offsets, otherwise) ==
  IF offsets = {} THEN otherwise ELSE CHOOSE o \in offsets : \A p \in offsets : o <= p
Greatest(offsets, otherwise) ==
  IF offsets = {} THEN otherwise ELSE CHOOSE o \in offsets : \A p \in offsets : p <= o

PreviousBoundary(text, offset) == Greatest({o \in Graphemes(text) : o < offset}, 0)
NextBoundary(text, offset) == Least({o \in Graphemes(text) : o > offset}, Bytes(text))

\* The grapheme with this number, counted from 0.
Nth(text, number, otherwise) ==
  LET starts == Graphemes(text)
      found == {o \in starts : Cardinality({p \in starts : p < o}) = number}
  IN IF found = {} THEN otherwise ELSE CHOOSE o \in found : TRUE

\* A secure field shows one star for each grapheme.
SecureDisplayOffset(text, offset) == Cardinality({o \in Graphemes(text) : o < offset})
SecureContentOffset(text, offset) == Nth(text, offset, Bytes(text))

---------------------------------------------------------------------------
\* The cursor.

NewEditor(text) ==
  [text |-> text, selected |-> <<0, 0>>, reversed |-> FALSE, marked |-> {}, column |-> {},
   undo |-> <<>>, redo |-> <<>>, clipboard |-> <<>>]

\* A field is opened with its cursor at the end.
NewField(text) == [NewEditor(text) EXCEPT !.selected = <<Bytes(text), Bytes(text)>>]

CursorOffset(e) == IF e.reversed THEN e.selected[1] ELSE e.selected[2]
IsCursor(e) == e.selected[1] = e.selected[2]

MoveTo(e, offset) == [e EXCEPT !.selected = <<offset, offset>>, !.reversed = FALSE]

SelectTo(e, offset) ==
  LET range == IF e.reversed THEN <<offset, e.selected[2]>> ELSE <<e.selected[1], offset>> IN
  IF range[2] < range[1]
  THEN [e EXCEPT !.selected = <<range[2], range[1]>>, !.reversed = ~@]
  ELSE [e EXCEPT !.selected = range]

Forget(e) == [e EXCEPT !.column = {}]

Left(e) ==
  MoveTo(Forget(e), IF IsCursor(e) THEN PreviousBoundary(e.text, CursorOffset(e)) ELSE e.selected[1])
Right(e) ==
  MoveTo(Forget(e), IF IsCursor(e) THEN NextBoundary(e.text, CursorOffset(e)) ELSE e.selected[2])
SelectLeft(e) == SelectTo(Forget(e), PreviousBoundary(e.text, CursorOffset(e)))
SelectRight(e) == SelectTo(Forget(e), NextBoundary(e.text, CursorOffset(e)))
SelectAll(e) == [Forget(e) EXCEPT !.selected = <<0, Bytes(e.text)>>, !.reversed = FALSE]

\* Lines.
LineStart(text, offset) ==
  Greatest({o \in Boundaries(text) : o <= offset /\ o > 0 /\ Last(Upto(text, o)) = Newline}, 0)
LineEnd(text, offset) ==
  Least({o \in Boundaries(text) : o >= offset /\ o < Bytes(text) /\ Head(From(text, o)) = Newline},
        Bytes(text))

Home(e) == MoveTo(Forget(e), LineStart(e.text, CursorOffset(e)))
End(e) == MoveTo(Forget(e), LineEnd(e.text, CursorOffset(e)))

\* The same column in the line above or below, kept over lines that are too short.
Column(e) ==
  LET start == LineStart(e.text, CursorOffset(e)) IN
  IF e.column # {} THEN CHOOSE c \in e.column : TRUE
  ELSE Cardinality(Graphemes(Between(e.text, <<start, CursorOffset(e)>>)))

InLine(text, start, column) ==
  LET line == Between(text, <<start, LineEnd(text, start)>>) IN
  start + Nth(line, column, Bytes(line))

VerticalOffset(e, up) ==
  LET start == LineStart(e.text, CursorOffset(e))
      end == LineEnd(e.text, CursorOffset(e))
      target == IF up THEN LineStart(e.text, start - 1) ELSE end + 1
  IN CASE up /\ start = 0 -> 0
       [] ~up /\ end = Bytes(e.text) -> Bytes(e.text)
       [] OTHER -> InLine(e.text, target, Column(e))

Vertical(e, up) == [MoveTo(e, VerticalOffset(e, up)) EXCEPT !.column = {Column(e)}]
SelectVertical(e, up) == [SelectTo(e, VerticalOffset(e, up)) EXCEPT !.column = {Column(e)}]

---------------------------------------------------------------------------
\* Changes. `editor` tells the file editor from a field.

Snapshot(e) == [text |-> e.text, selected |-> e.selected, reversed |-> e.reversed]

PushUndo(e) ==
  LET all == Append(e.undo, Snapshot(e)) IN
  [e EXCEPT !.undo = IF Len(all) > UndoLimit THEN Tail(all) ELSE all, !.redo = <<>>]

Restore(e, s) ==
  [Forget(e) EXCEPT !.text = s.text, !.selected = s.selected, !.reversed = s.reversed, !.marked = {}]

Undo(e) ==
  IF e.undo = <<>> THEN e
  ELSE Restore([e EXCEPT !.undo = Front(@), !.redo = Append(@, Snapshot(e))], Last(e.undo))
Redo(e) ==
  IF e.redo = <<>> THEN e
  ELSE Restore([e EXCEPT !.redo = Front(@), !.undo = Append(@, Snapshot(e))], Last(e.redo))

\* What a change replaces: what the input method names, else what it composed, else the
\* selection.
Target(e, range16) ==
  CASE range16 # {} -> RangeFromUtf16(e.text, CHOOSE r \in range16 : TRUE)
    [] range16 = {} /\ e.marked # {} -> CHOOSE r \in e.marked : TRUE
    [] OTHER -> e.selected

Replaced(text, range, new) ==
  IF {range[1], range[2]} \subseteq Boundaries(text) /\ range[1] <= range[2]
  THEN Upto(text, range[1]) \o new \o From(text, range[2])
  ELSE Panicked

ReplaceTextInRange(e, editor, range16, new) ==
  LET range == Target(e, range16)
      text == Replaced(e.text, range, new)
      cursor == range[1] + Bytes(new) IN
  CASE text = Panicked -> [e EXCEPT !.text = Panicked]
    [] text # Panicked /\ editor /\ Between(e.text, range) = new -> e
    [] OTHER -> [Forget(IF editor THEN PushUndo(e) ELSE e) EXCEPT
                   !.text = text, !.selected = <<cursor, cursor>>, !.reversed = FALSE, !.marked = {}]

\* The input method says where in what it composes the cursor is; the code looks that up in
\* the whole text.
Composed(text, start, new, within16) ==
  IF within16 = {} THEN <<start + Bytes(new), start + Bytes(new)>>
  ELSE LET within == RangeFromUtf16(text, CHOOSE r \in within16 : TRUE)
       IN <<start + within[1], start + within[2]>>

ReplaceAndMarkTextInRange(e, editor, range16, new, within16) ==
  LET range == Target(e, range16)
      text == Replaced(e.text, range, new) IN
  IF text = Panicked THEN [e EXCEPT !.text = Panicked]
  ELSE [Forget(IF editor THEN PushUndo(e) ELSE e) EXCEPT
          !.text = text,
          !.marked = IF new = <<>> THEN {} ELSE {<<range[1], range[1] + Bytes(new)>>},
          !.selected = Composed(text, range[1], new, within16),
          !.reversed = IF editor THEN FALSE ELSE @]

UnmarkText(e) == [e EXCEPT !.marked = {}]

Insert(e, editor, new) == ReplaceTextInRange(e, editor, {}, new)
Backspace(e, editor) ==
  Insert(IF IsCursor(e) THEN SelectTo(e, PreviousBoundary(e.text, CursorOffset(e))) ELSE e, editor, <<>>)
Delete(e, editor) ==
  Insert(IF IsCursor(e) THEN SelectTo(e, NextBoundary(e.text, CursorOffset(e))) ELSE e, editor, <<>>)

\* A field has one line.
Paste(e, editor) ==
  Insert(e, editor, IF editor THEN e.clipboard
                    ELSE [i \in DOMAIN e.clipboard |->
                            IF e.clipboard[i] = Newline THEN Space ELSE e.clipboard[i]])
Copy(e, secure) ==
  IF secure \/ IsCursor(e) THEN e ELSE [e EXCEPT !.clipboard = Between(e.text, e.selected)]
Cut(e, editor, secure) ==
  IF secure \/ IsCursor(e) THEN e ELSE Insert(Copy(e, secure), editor, <<>>)

\* take_text and clear leave a field empty, replace_all puts the cursor behind the new text.
TakeText(e) == [e EXCEPT !.text = <<>>, !.selected = <<0, 0>>, !.reversed = FALSE, !.marked = {}]
ReplaceText(e, text) == [NewField(text) EXCEPT !.clipboard = e.clipboard]

---------------------------------------------------------------------------
\* The lines of the editor that are drawn, and the runs a line is drawn in.

VisibleLineRanges(text, first, last) ==
  LET breaks == {o \in Boundaries(text) \ {Bytes(text)} : Head(From(text, o)) = Newline}
      starts == {0} \union {o + 1 : o \in breaks}
      Number(start) == Cardinality({s \in starts : s < start})
  IN {<<Number(s), s, LineEnd(text, s)>> : s \in {t \in starts : first <= Number(t) /\ Number(t) < last}}

LineCount(text) == 1 + Cardinality({i \in DOMAIN text : text[i] = Newline})

Clamp(offset, line) ==
  IF offset < line[1] THEN line[1] ELSE IF offset > line[2] THEN line[2] ELSE offset
Overlap(one, two) == one[1] < two[2] /\ two[1] < one[2]

TextRunsForLine(line, selection, marked) ==
  LET ends == {line[1], line[2]} \union UNION {{Clamp(r[1], line), Clamp(r[2], line)} :
                                                 r \in {selection} \union marked}
  IN {[range |-> <<a, b>>, selected |-> Overlap(<<a, b>>, selection),
       marked |-> \E m \in marked : Overlap(<<a, b>>, m)] :
        <<a, b>> \in {p \in ends \X ends : p[1] < p[2] /\ ~\E o \in ends : p[1] < o /\ o < p[2]}}
============================================================================
