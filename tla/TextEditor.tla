------------------------------ MODULE TextEditor -------------------------------
(***************************************************************************)
(* The text field of the clarification dialog: one line of text, wrapped to *)
(* the width of the field, a cursor, and the part of the lines that is      *)
(* shown. A key changes text and cursor; the shown part follows when the    *)
(* dialog is rendered, once for any number of keys.                         *)
(***************************************************************************)
EXTENDS Integers, Sequences, SequencesExt, FiniteSets, FiniteSetsExt

CONSTANTS
  Letter,    \* the characters: word characters, others, and wide ones
  WordChar,  \* those of them a word is made of
  Wide,      \* those of them two columns wide
  Paste,     \* the texts a key, or a paste, may insert
  Width, Height, \* of the field, in columns and lines
  MaxLength  \* bound: no text is inserted into a longer one

ASSUME EditorAssumption ==
  /\ WordChar \subseteq Letter /\ Wide \subseteq Letter
  /\ Paste \subseteq Seq(Letter) /\ Width \in Nat \ {0} /\ Height \in Nat \ {0} /\ MaxLength \in Nat

VARIABLE editor  \* buffer, cursor, viewportOffset, and whether it was rendered since the last key

\* createEditorState.
EditorWith(text) == [buffer |-> text, cursor |-> 0, offset |-> 0, rendered |-> FALSE]
EditorInit == editor \in {EditorWith(text) : text \in Paste}

ColumnsOf(c) == IF c \in Wide THEN 2 ELSE 1
Columns(text) ==
  LET to[i \in 0..Len(text)] == IF i = 0 THEN 0 ELSE to[i - 1] + ColumnsOf(text[i]) IN to[Len(text)]

\* One more character: in the line, or in a new one if that is full.
Placed(text, acc, i) == LET c == ColumnsOf(text[i]) IN
  IF acc.columns > 0 /\ acc.columns + c > Width
  THEN [starts |-> Append(acc.starts, i - 1), columns |-> c]
  ELSE [starts |-> acc.starts, columns |-> acc.columns + c]

\* wrapText: the places where the lines start, and one more for a cursor behind a
\* last line that is full.
Wrapped(text) ==
  LET to[i \in 0..Len(text)] == IF i = 0 THEN [starts |-> <<0>>, columns |-> 0] ELSE Placed(text, to[i - 1], i)
      all == to[Len(text)]
  IN IF text # <<>> /\ all.columns = Width THEN Append(all.starts, Len(text)) ELSE all.starts

LineLength(text, k) == LET starts == Wrapped(text) IN
  (IF k = Len(starts) THEN Len(text) ELSE starts[k + 1]) - starts[k]

\* getCursorDisplayPos: the last line that starts at or before the cursor.
LineOf(text, cursor) == LET starts == Wrapped(text) IN Max({k \in DOMAIN starts : starts[k] <= cursor})
ColumnOf(text, cursor) == cursor - Wrapped(text)[LineOf(text, cursor)]

\* Mutant: the shown part stops one line above the cursor.
VisibleShort(line, offset) ==
  IF line < offset THEN line
  ELSE IF line > offset + Height THEN line - Height
  ELSE offset

\* ensureCursorVisible, with lines counted from 0.
Visible(line, offset) ==
  IF line < offset THEN line
  ELSE IF line >= offset + Height THEN line - Height + 1
  ELSE offset

IsWord(c) == c \in WordChar

\* The start of the word before the cursor, and that of the word after it.
WordBackward(text, cursor) ==
  LET Starts(p) == p = 0 \/ (IsWord(text[p + 1]) /\ ~ IsWord(text[p])) IN
  IF cursor = 0 THEN 0 ELSE Max({p \in 0..(cursor - 1) : Starts(p)})

WordForward(text, cursor) ==
  LET Starts(p) == p = Len(text) \/ (p > 0 /\ IsWord(text[p + 1]) /\ ~ IsWord(text[p]))
      ahead == {p \in (cursor + 1)..Len(text) : Starts(p)}
  IN IF ahead = {} THEN cursor ELSE Min(ahead)

Becomes(buffer, cursor) == editor' = [editor EXCEPT !.buffer = buffer, !.cursor = cursor, !.rendered = FALSE]
MovesTo(cursor) == Becomes(editor.buffer, cursor)

\* The column of the cursor in another line, or the end of a shorter one.
InLine(k) == LET text == editor.buffer IN
  Wrapped(text)[k] + Min({ColumnOf(text, editor.cursor), LineLength(text, k)})

MovesByWord ==
  MovesTo(WordBackward(editor.buffer, editor.cursor)) \/ MovesTo(WordForward(editor.buffer, editor.cursor))

MovesByCharacter ==
  \/ editor.cursor > 0 /\ MovesTo(editor.cursor - 1)
  \/ editor.cursor < Len(editor.buffer) /\ MovesTo(editor.cursor + 1)

MovesByLine ==
  \E k \in DOMAIN Wrapped(editor.buffer) :
    /\ k - LineOf(editor.buffer, editor.cursor) \in {-1, 1}
    /\ MovesTo(InLine(k))

\* "end" of a wrapped line is the start of the next one.
MovesInLine == LET k == LineOf(editor.buffer, editor.cursor) start == Wrapped(editor.buffer)[k] IN
  MovesTo(start) \/ MovesTo(start + LineLength(editor.buffer, k)) \/ MovesTo(0) \/ MovesTo(Len(editor.buffer))

MovesByPage ==
  LET k == LineOf(editor.buffer, editor.cursor) IN
  MovesTo(InLine(Max({1, k - Height}))) \/ MovesTo(InLine(Min({Len(Wrapped(editor.buffer)), k + Height})))

\* The text without the characters of places first + 1 to last.
Cut(first, last) == SubSeq(editor.buffer, 1, first) \o SubSeq(editor.buffer, last + 1, Len(editor.buffer))

Deletes ==
  LET word == WordBackward(editor.buffer, editor.cursor) IN
  \/ Becomes(Cut(word, editor.cursor), word)
  \/ editor.cursor > 0 /\ Becomes(Cut(editor.cursor - 1, editor.cursor), editor.cursor - 1)
  \/ editor.cursor < Len(editor.buffer) /\ Becomes(Cut(editor.cursor, editor.cursor + 1), editor.cursor)

Inserts(text) ==
  /\ text # <<>> /\ Len(editor.buffer) + Len(text) <= MaxLength
  /\ Becomes(SubSeq(editor.buffer, 1, editor.cursor) \o text \o SubSeq(editor.buffer, editor.cursor + 1, Len(editor.buffer)),
         editor.cursor + Len(text))

Renders ==
  editor' = [editor EXCEPT !.rendered = TRUE,
                           !.offset = Visible(LineOf(editor.buffer, editor.cursor) - 1, editor.offset)]

EditorNext ==
  \/ MovesByWord \/ MovesByCharacter \/ MovesByLine \/ MovesInLine \/ MovesByPage
  \/ Deletes \/ (\E text \in Paste : Inserts(text)) \/ Renders

(***************************************************************************)
(* Properties                                                              *)
(***************************************************************************)

\* Whatever keys were pressed, the cursor is in the text, in a line that has its
\* column, no line is wider than the field, and once the field is rendered the
\* line of the cursor is among those shown - also when the text that pushed the
\* lines out of sight was deleted since the last rendering.
EditorHolds ==
  LET text == editor.buffer k == LineOf(text, editor.cursor) starts == Wrapped(text)
  IN /\ editor.cursor \in 0..Len(text)
     /\ ColumnOf(text, editor.cursor) <= LineLength(text, k)
     /\ \A l \in DOMAIN starts : LET line == SubSeq(text, starts[l] + 1, starts[l] + LineLength(text, l)) IN
          Columns(line) <= Width \/ Len(line) = 1
     /\ editor.rendered => k - 1 \in editor.offset..(editor.offset + Height - 1)
=============================================================================
