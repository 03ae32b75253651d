------------------------------- MODULE Render -------------------------------
(***************************************************************************)
(* What inkline writes to the terminal to draw the line (render.rs and      *)
(* render/menu.rs), and the terminal that acts on it, which is external.    *)
(*                                                                         *)
(* A text is a sequence of characters; a suggestion or a menu item, of      *)
(* several lines perhaps, is the sequence of its lines.  What is written is *)
(* a sequence of operations of the terminal.  A style is the set of the     *)
(* codes in force.                                                          *)
(***************************************************************************)
EXTENDS Integers, Sequences, FiniteSets, SequencesExt, MenuWindow

CONSTANTS
    Rows, Cols,     \* the size of the screen
    LastRow         \* bound: rows ever drawn on, the ones scrolled off included

ASSUME ScreenAssumption == Rows \in Nat \ {0} /\ Cols \in Nat \ {0} /\ LastRow \in Nat

\* Characters: all others are one column wide.
Space == " "
Tab == "tab"
Newline == "nl"
Wide == "W"
Accent == "accent"      \* drawn on the character before it
Control == "^"
HideBegin == "\\001"
HideEnd == "\\002"
Controls == {Tab, Newline, Control, HideBegin, HideEnd}

\* UnicodeWidthChar::width, with 0 for None.
Width(c) == CASE c = Wide -> 2 [] c \in Controls \cup {Accent} -> 0 [] OTHER -> 1
WidthOf(text) == FoldLeft(LAMBDA sum, c : sum + Width(c), 0, text)

None == -1
At(row, col) == [row |-> row, col |-> col]
NoPlace == At(None, None)
Least(a, b) == IF a < b THEN a ELSE b
Most(a, b) == IF a > b THEN a ELSE b
Less(a, b) == Most(a - b, 0)        \* saturating_sub

-----------------------------------------------------------------------------
(* Where readline puts each character. *)

\* step, n columns on from a place on the row.
StepBy(at, n) == At(at.row + (at.col + n) \div Cols, (at.col + n) % Cols)
TabStop(col) == 8 - (col % 8)

\* Where c is drawn: a wide character that does not fit moves to the next row.
CellOf(at, c) == IF at.col + Width(c) > Cols THEN At(at.row + 1, 0) ELSE at
\* advance
Advance(at, c) ==
    CASE c = Newline -> At(at.row + 1, 0)
      [] c = Tab -> StepBy(at, TabStop(at.col))
      [] OTHER -> StepBy(CellOf(at, c), Width(c))
Position(start, text) == FoldLeft(Advance, start, text)

-----------------------------------------------------------------------------
(* Where the line starts: the prompt as readline's expand_prompt reads it. *)

ByteLength(c) == CASE c = Wide -> 3 [] c \in {Accent, "e"} -> 2 [] OTHER -> 1
\* PromptChar::columns: 1 for a control character.
PromptColumns(c) == IF c \in Controls THEN 1 ELSE Width(c)
SumOver(text, F(_)) == FoldLeft(LAMBDA sum, c : sum + F(c), 0, text)

\* char_group_end: the last character of the group that starts at i.
GroupEnd(chars, i) ==
    LET wide == {k \in i..Len(chars) : chars[k] # Accent}
        first == IF wide = {} THEN Len(chars) ELSE CHOOSE k \in wide : \A j \in wide : k <= j
    IN CHOOSE k \in first..Len(chars) :
           /\ \A j \in (first + 1)..k : chars[j] = Accent
           /\ k = Len(chars) \/ chars[k + 1] # Accent

PromptStart == [next |-> 1, refused |-> FALSE, shown |-> <<>>, hiddenAt |-> {}, breaks |-> <<0>>,
                bytes |-> 0, width |-> 0, invisible |-> 0, firstRow |-> None,
                hidden |-> FALSE, endedRow |-> FALSE]

\* The end of a hidden part: it goes on the row its last visible character ended.
HiddenEnds(s) ==
    LET moved == [s EXCEPT !.breaks[Len(s.breaks)] = Len(s.shown),
                           !.firstRow = IF @ # None /\ Len(s.breaks) = 2 THEN s.invisible ELSE @]
    IN [(IF s.endedRow THEN moved ELSE s) EXCEPT !.hidden = FALSE, !.next = @ + 1]

\* One group of characters, hidden or not.
GroupTaken(s, group) ==
    LET bytes == SumOver(group, ByteLength)
        width == s.width + IF s.hidden THEN 0 ELSE SumOver(group, PromptColumns)
        invisible == s.invisible + IF s.hidden THEN bytes ELSE 0
        bound == Len(s.breaks) * Cols
        shown == s.shown \o group
    IN [s EXCEPT !.shown = shown, !.next = @ + Len(group),
                 !.refused = ~s.hidden /\ \E i \in DOMAIN group : group[i] \in Controls,
                 !.hiddenAt = @ \cup IF s.hidden THEN {Len(shown) - 1} ELSE {},
                 !.bytes = @ + IF s.hidden THEN 0 ELSE bytes,
                 !.width = width, !.invisible = invisible,
                 !.firstRow = IF @ = None /\ width >= Cols THEN invisible ELSE @,
                 !.breaks = IF width < bound THEN @
                            ELSE Append(@, IF width > bound THEN Len(shown) - 1 ELSE Len(shown)),
                 !.endedRow = IF s.hidden THEN @ ELSE width = bound]

PromptStep(chars, s, i) ==
    IF s.refused \/ i < s.next THEN s
    ELSE IF ~s.hidden /\ chars[i] = HideBegin THEN [s EXCEPT !.hidden = TRUE, !.next = @ + 1]
    ELSE IF s.hidden /\ chars[i] = HideEnd THEN HiddenEnds(s)
    ELSE GroupTaken(s, SubSeq(chars, i, GroupEnd(chars, i)))

\* The invisible bytes of the first row, which readline does not count.
NoneInvisible(s) == 0
FirstRowInvisible(s) == IF s.bytes <= Cols THEN s.invisible ELSE Most(s.firstRow, 0)
\* prompt_end, of the prompt's last line.
PromptEnd(chars) ==
    LET s == FoldLeftDomain(LAMBDA st, i : PromptStep(chars, st, i), PromptStart, chars)
        row == Len(s.breaks) - 1
        rowOf(at) == Cardinality({b \in DOMAIN s.breaks : s.breaks[b] <= at}) - 1
        after == SumOver(SubSeq(s.shown, Last(s.breaks) + 1, Len(s.shown)), PromptColumns)
        col == IF s.bytes > s.width THEN after - (s.invisible - FirstRowInvisible(s)) ELSE s.width - Cols * row
    IN IF s.refused THEN NoPlace
       ELSE IF s.width < Cols THEN At(0, s.width)
       ELSE IF \E at \in s.hiddenAt : rowOf(at) \in 1..(row - 1) THEN NoPlace
       ELSE IF col \in 0..(Cols - 1) THEN At(row, col) ELSE NoPlace

-----------------------------------------------------------------------------
(* The terminal: its cells by row, counted from the first ever drawn, and   *)
(* column; the first row on the screen; the cursor, and whether the next    *)
(* character wraps; what \e7 saved.                                         *)

Op(name, n) == [op |-> name, n |-> n, ch |-> Space]
Put(c) == [op |-> "put", n |-> 0, ch |-> c]
Sgr(code) == [op |-> "sgr", n |-> 0, ch |-> code]
CR == Op("cr", 0)
LF == Op("lf", 0)
Up(n) == Op("up", n)
Down(n) == Op("down", n)
Right(n) == Op("right", n)
Column(n) == Op("column", n)
EraseRight == Op("el", 0)
EraseDown == Op("ed", 0)
Save == Op("save", 0)
Restore == Op("restore", 0)
Reset == Op("reset", 0)
Puts(text) == [i \in DOMAIN text |-> Put(text[i])]

EmptyCell == [ch |-> Space, style |-> {}]
\* The second half of a wide character.
HalfOf(style) == [ch |-> "half", style |-> style]

Terminal(row) == [row |-> row, col |-> 0, wrap |-> FALSE, top |-> 0, style |-> {},
                  saved |-> At(0, 0),
                  cells |-> [r \in 0..LastRow |-> [c \in 0..(Cols - 1) |-> EmptyCell]]]

\* The next row, which scrolls the screen from its last one.
NextRow(t) ==
    [t EXCEPT !.row = @ + 1, !.wrap = FALSE, !.top = Most(@, t.row + 2 - Rows)]
Wrapped(t) == [NextRow(t) EXCEPT !.col = 0]

Write(t, c) ==
    LET w == IF t.wrap \/ t.col + Width(c) > Cols THEN Wrapped(t) ELSE t
        row == [w.cells[w.row] EXCEPT ![w.col] = [ch |-> c, style |-> w.style]]
        full == IF Width(c) = 2 THEN [row EXCEPT ![w.col + 1] = HalfOf(w.style)] ELSE row
        col == w.col + Width(c)
    IN IF c = Accent THEN t
       ELSE [w EXCEPT !.cells[w.row] = full, !.col = Least(col, Cols - 1), !.wrap = (col = Cols)]

Bottom(t) == t.top + Rows - 1
\* From the cursor to the end of its row, and the rows after it up to last.
Erased(t, last) ==
    [t EXCEPT !.cells = [r \in 0..LastRow |-> IF r < t.row THEN @[r] ELSE
                            [c \in 0..(Cols - 1) |-> IF r > last \/ (r = t.row /\ c < t.col) THEN @[r][c] ELSE EmptyCell]]]

Apply(t, o) ==
    LET moved(row, col) == [t EXCEPT !.row = row, !.col = col, !.wrap = FALSE] IN
    CASE o.op = "put" -> Write(t, o.ch)
      [] o.op = "cr" -> moved(t.row, 0)
      [] o.op = "lf" -> NextRow(t)
      [] o.op = "up" -> moved(Most(t.row - o.n, t.top), t.col)
      [] o.op = "down" -> moved(Least(t.row + o.n, Bottom(t)), t.col)
      [] o.op = "right" -> moved(t.row, Least(t.col + o.n, Cols - 1))
      [] o.op = "column" -> moved(t.row, Least(o.n, Cols) - 1)
      [] o.op = "el" -> Erased(t, t.row)
      [] o.op = "ed" -> Erased(t, LastRow)
      [] o.op = "save" -> [t EXCEPT !.saved = At(t.row - t.top, t.col)]
      [] o.op = "restore" -> moved(t.top + t.saved.row, t.saved.col)
      [] o.op = "sgr" -> [t EXCEPT !.style = @ \cup {o.ch}]
      [] o.op = "reset" -> [t EXCEPT !.style = {}]
ApplyAll(t, ops) == FoldLeft(Apply, t, ops)

-----------------------------------------------------------------------------
(* The line in colour. *)

\* The style wanted for a character: its kind, from the set of its command if
\* it has one, an error's underline, the script style, and the highlight.
In(range, i) == range.start < i /\ i <= range.end
Wanted(r, i) ==
    {s.code : s \in {s \in r.spans : In(s, i)}} \cup
    (IF In(r.error, i) THEN {"error"} ELSE {}) \cup
    (IF \E s \in r.script : In(s, i) THEN {"script"} ELSE {}) \cup
    (IF In(r.highlight, i) THEN {"highlight"} ELSE {})

\* In the order paint_line writes the codes; each only adds to the style.
Codes(style) == LET codes == SetToSeq(style) IN [i \in DOMAIN codes |-> Sgr(codes[i])]

\* move_down
MoveDown(from, cell) ==
    IF cell.row > from
    THEN <<CR, Down(cell.row - from)>> \o IF cell.col > 0 THEN <<Right(cell.col)>> ELSE <<>>
    ELSE <<>>

\* The blanks of a tab: n of them from cell on, the cursor on row `from'.
TabBlanks(from, cell, n) ==
    FlattenSeq([k \in 1..n |->
        MoveDown(IF k = 1 THEN from ELSE StepBy(cell, k - 2).row, StepBy(cell, k - 1))
            \o <<Put(Space)>>])

\* paint_line
PaintChar(r, p, i) ==
    LET c == r.line[i]
        want == Wanted(r, i)
        cell == CellOf(p.at, c)
        style == IF want = p.style THEN <<>>
                 ELSE (IF p.style = {} THEN <<>> ELSE <<Reset>>) \o Codes(want)
        drawn == CASE c = Newline -> <<>>
                   [] c = Tab -> TabBlanks(p.row, p.at, TabStop(p.at.col))
                   [] OTHER -> MoveDown(p.row, cell) \o <<Put(c)>>
        row == CASE c = Newline -> p.row
                 [] c = Tab -> Most(p.row, StepBy(p.at, TabStop(p.at.col) - 1).row)
                 [] OTHER -> Most(p.row, cell.row)
    IN [at |-> Advance(p.at, c), row |-> row, style |-> want, ops |-> p.ops \o style \o drawn]
PaintLine(r) ==
    LET start == [at |-> r.promptEnd, row |-> r.promptEnd.row, style |-> {}, ops |-> <<>>]
        done == FoldLeftDomain(LAMBDA p, i : PaintChar(r, p, i), start, r.line)
    IN done.ops \o IF done.style = {} THEN <<>> ELSE <<Reset>>

-----------------------------------------------------------------------------
(* Texts cut to fit. *)

\* expand_tabs
ExpandTabs(text, col) ==
    LET expanded == FoldLeft(LAMBDA e, c :
            IF c = Tab THEN [text |-> e.text \o [i \in 1..TabStop(e.col) |-> Space],
                             col |-> e.col + TabStop(e.col)]
            ELSE [text |-> Append(e.text, c), col |-> e.col + Width(c)],
            [text |-> <<>>, col |-> col], text)
    IN expanded.text
\* fit: up to a control character, in `room' columns.
Fit(text, room) ==
    LET fits(n) == \A k \in 1..n : text[k] \notin Controls /\ WidthOf(SubSeq(text, 1, k)) <= room
    IN SubSeq(text, 1, CHOOSE n \in 0..Len(text) : fits(n) /\ (n = Len(text) \/ ~fits(n + 1)))

\* suggestion_rows.  The note of the lines left out is MoreNote.
MoreNote == <<Space, "...", "n">>
LastRowNoted(row, more, start) ==
    row \o IF more THEN Fit(MoreNote, Less(Cols, start + WidthOf(row) + 1)) ELSE <<>>
ShownRows(lines, col, shown) ==
    [n \in 1..shown |->
        LET start == IF n = 1 THEN col ELSE 0
        IN LastRowNoted(Fit(ExpandTabs(lines[n], start), Less(Cols, start + 1)),
                        n = shown /\ shown < Len(lines), start)]
SuggestionRows(lines, col, lastRow, maxLines) ==
    ShownRows(lines, col, Least(Least(Len(lines), Most(maxLines, 1)), Most(Less(Rows, lastRow), 1)))

-----------------------------------------------------------------------------
(* The menu's rows (render/menu.rs). *)

\* item_text: the first line, `...' after it when there are more.
Cut(whole, room, shown) ==
    IF room = 0 THEN <<>> ELSE IF shown = whole THEN whole ELSE Append(Fit(whole, room - 1), "...")
CutTo(whole, room) == Cut(whole, room, Fit(whole, room))
ItemText(lines, room) ==
    CutTo(ExpandTabs(lines[1], 3) \o IF Len(lines) > 1 THEN <<Space, "...">> ELSE <<>>, room)
Padded(text, width) == text \o [i \in 1..Less(width, WidthOf(text)) |-> Space]
Painted(code, text) ==
    IF text = <<>> THEN <<>> ELSE <<Sgr(code)>> \o Puts(text) \o <<Reset>>

\* One row, of an item's text and its note, if notes show.
RowOf(letter, text, note, picked) ==
    LET gap == IF note = <<>> THEN <<>> ELSE <<Space, Space>>
    IN IF picked THEN Painted("menu-selected", <<letter, Space, Space>> \o text \o gap \o note)
       ELSE Painted("menu-source", <<letter>>) \o Puts(<<Space, Space>>) \o Painted("menu", text)
                \o Puts(gap) \o Painted("menu-note", note)
NotedRow(item, width, textWidth, picked) ==
    RowOf(item.letter, Padded(ItemText(item.lines, textWidth), textWidth),
          ItemText(<<item.note>>, width - 3 - textWidth - 2), picked)
PlainRow(item, width, picked) ==
    RowOf(item.letter, ItemText(item.lines, Less(width, 3)), <<>>, picked)

\* The columns that line up the notes, 0 for no notes.
Widest(widths) == CHOOSE w \in widths : \A v \in widths : v <= w
Noted(items) == {i \in DOMAIN items : items[i].note # <<>>}
TextWidth(items, width) ==
    IF Noted(items) = {} THEN 0
    ELSE Widest({WidthOf(ItemText(items[i].lines, Less(width \div 2, 3))) : i \in DOMAIN items})

\* rows: each row is what is written for it.
RowsOf(items, first, highlighted, width, textWidth) ==
    [i \in DOMAIN items |->
        IF textWidth > 0 /\ Less(width, 3 + textWidth + 2) > 0 /\ items[i].note # <<>>
        THEN NotedRow(items[i], width, textWidth, first + i - 1 = highlighted)
        ELSE PlainRow(items[i], width, first + i - 1 = highlighted)]
CountRow(width) == Painted("menu-source", Fit(<<Space, Space, Space, "...", Space, "n">>, width))
WindowRows(items, shown, highlighted, width) ==
    RowsOf(items, shown.first, highlighted, width, TextWidth(items, width))
        \o IF shown.more > 0 THEN <<CountRow(width)>> ELSE <<>>
RowsIn(view, shown) ==
    WindowRows(SubSeq(view.items, shown.first, shown.first + shown.count - 1), shown,
               view.highlighted, Less(Cols, 1))
MenuRows(view, room) ==
    IF Less(Cols, 1) < 3 THEN <<>>
    ELSE RowsIn(view, Window(Len(view.items), view.highlighted, Least(view.maxRows, room)))

-----------------------------------------------------------------------------
(* build *)

NoOutput == [ops |-> <<>>, shownAt |-> None, messageRows |-> None, menuRows |-> None]

Refused(r) ==
    \/ \E i \in DOMAIN r.line : r.line[i] \in Controls \ {Newline, Tab}
    \/ Position(r.promptEnd, r.line).row >= Rows

\* The places of the cursor and of the line's end.
CursorOf(r) == Position(r.promptEnd, SubSeq(r.line, 1, r.point))
EndOf(r) == Position(r.promptEnd, r.line)

\* The message needs a row below the line.
MessageRow(r, end) ==
    IF end.row + 2 > Rows THEN <<>> ELSE Fit(ExpandTabs(r.message, 0), Less(Cols, 1))
\* The menu takes the rows left.
MenuOverEdge(r, end, message) == MenuRows(r.menu, Less(Rows, end.row + 1))
MenuOf(r, end, message) ==
    MenuRows(r.menu, Less(Rows, end.row + 1 + IF message = <<>> THEN 0 ELSE 1))
UnderRows(message, menu) == (IF message = <<>> THEN <<>> ELSE <<Puts(message)>>) \o menu
NotEmpty(rows) == IF \A n \in DOMAIN rows : rows[n] = <<>> THEN <<>> ELSE rows
SuggestionOf(r, cursor, end, alone) ==
    IF r.suggestion = <<>> \/ r.point # Len(r.line) THEN <<>>
    ELSE NotEmpty(SuggestionRows(r.suggestion, cursor.col, end.row,
                                 IF alone THEN r.suggestionLines ELSE 1))

\* What build lays out: the places, and the rows after and under the line.
LaidOut(r, cursor, end, message, menu) ==
    [cursor |-> cursor, end |-> end, message |-> message, menu |-> menu,
     under |-> UnderRows(message, menu),
     grey |-> SuggestionOf(r, cursor, end, message = <<>> /\ menu = <<>>)]
LaidOutUnder(r, end, message) == LaidOut(r, CursorOf(r), end, message, MenuOf(r, end, message))
LaidOutAt(r, end) == LaidOutUnder(r, end, MessageRow(r, end))
Layout(r) == LaidOutAt(r, EndOf(r))

LineOps(r, cursor) ==
    <<Save>> \o (IF cursor.row > r.promptEnd.row THEN <<Up(cursor.row - r.promptEnd.row)>> ELSE <<>>)
    \o <<CR>> \o (IF r.promptEnd.col > 0 THEN <<Right(r.promptEnd.col)>> ELSE <<>>)
    \o PaintLine(r) \o <<Restore>>

GreyOps(rows) ==
    <<Sgr("suggestion")>>
    \o FlattenSeq([n \in DOMAIN rows |-> (IF n > 1 THEN <<CR, LF>> ELSE <<>>) \o Puts(rows[n])])
    \o <<Reset>>
\* A line feed may have scrolled: the cursor goes back by rows.
SuggestionOpsRestore(rows, cursor) ==
    IF rows = <<>> THEN <<>> ELSE GreyOps(rows) \o <<Restore>>
SuggestionOps(rows, cursor) ==
    IF rows = <<>> THEN <<>>
    ELSE GreyOps(rows) \o IF Len(rows) = 1 THEN <<Restore>>
                          ELSE <<Up(Len(rows) - 1), Column(cursor.col + 1)>>

Below(l) == l.end.row - l.cursor.row + 1
UnderOps(under, below, cursor) ==
    IF under = <<>> THEN <<>>
    ELSE (IF below > 1 THEN <<Down(below - 1)>> ELSE <<>>)
         \o FlattenSeq([n \in DOMAIN under |-> <<CR, LF>> \o under[n] \o <<EraseRight>>])
         \o <<Up(below - 1 + Len(under)), Column(cursor.col + 1)>>

Written(r, l) ==
    [ops |-> LineOps(r, l.cursor) \o SuggestionOps(l.grey, l.cursor) \o UnderOps(l.under, Below(l), l.cursor),
     shownAt |-> IF l.grey = <<>> THEN None ELSE l.cursor.col,
     messageRows |-> IF l.message = <<>> THEN None ELSE Below(l),
     menuRows |-> IF l.menu = <<>> THEN None ELSE Below(l) + IF l.message = <<>> THEN 0 ELSE 1]
Build(r) == IF Refused(r) THEN NoOutput ELSE Written(r, Layout(r))
=============================================================================
