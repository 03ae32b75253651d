------------------------------- MODULE Screen -------------------------------
(***************************************************************************)
(* The drawing functions of hooks.rs around readline's: what the last draw  *)
(* left after the line is erased before readline draws, and the line is     *)
(* painted again after it.  Readline's drawing, the terminal and the keys'  *)
(* commands are external: readline moves from where it last left the        *)
(* cursor, writes its line, and blanks only the cells its old line covered. *)
(***************************************************************************)
EXTENDS Render

CONSTANTS
    Prompts,        \* the prompts lines are read at
    OddPrompts,     \* prompts only measured
    FirstLines,     \* lines a prompt may start with
    Typed,          \* the characters typed
    Messages,       \* what show_message may set
    Found,       \* what a draw finds to show: suggestion, menu, colours
    MaxLength,      \* bound: the characters of a line
    MaxPresses      \* bound: keys

ASSUME KeysAssumption == MaxLength \in Nat /\ MaxPresses \in Nat

VARIABLES
    term,           \* the terminal
    prompt,
    lineAt,         \* where the line starts, prompt_end of the prompt
    line, point, pressed,
    message,        \* MESSAGE
    shownAt,        \* State's: where the suggestion starts, and the rows
    messageRows,    \* below the cursor of the message and the menu
    menuRows,
    painted,        \* history: what the last draw painted
    phase           \* "measured", "waiting", "run" or "off"

shown == <<shownAt, messageRows, menuRows>>
screenVars == <<term, prompt, lineAt, line, point, pressed, message, shown, painted, phase>>

NothingFound == [suggestion |-> <<>>, lines |-> 1, menu |-> [items |-> <<>>, highlighted |-> 0, maxRows |-> 0],
                 error |-> [start |-> 0, end |-> 0], highlight |-> [start |-> 0, end |-> 0],
                 spans |-> {}, script |-> {}, errorMessage |-> <<>>]

-----------------------------------------------------------------------------
(* Pictures: what is in each cell, by row from the prompt's, and column. *)

NoPicture == [at \in {} |-> EmptyCell]
CharPicture(at, c, style) ==
    LET cell == CellOf(at, c)
        drawn(ch) == [ch |-> ch, style |-> style]
    IN CASE c = Newline -> NoPicture
         [] c = Tab -> [p \in {StepBy(at, k) : k \in 0..(TabStop(at.col) - 1)} |-> drawn(Space)]
         [] c = Wide -> (cell :> drawn(c)) @@ (At(cell.row, cell.col + 1) :> drawn("half"))
         [] OTHER -> cell :> drawn(c)
TextPicture(start, text, style(_)) ==
    LET grown(g, i) == [at |-> Advance(g.at, text[i]),
                        picture |-> CharPicture(g.at, text[i], style(i)) @@ g.picture]
    IN FoldLeftDomain(grown, [at |-> start, picture |-> NoPicture], text).picture
Plain(start, text) == TextPicture(start, text, LAMBDA i : {})

IsHidden(i) == \E b \in 1..i : /\ prompt[b] = HideBegin
                               /\ \A e \in b..i : e = i \/ prompt[e] # HideEnd
VisiblePrompt == LET at(i) == IF IsHidden(i) THEN <<>> ELSE <<prompt[i]>>
                 IN FlattenSeq([i \in DOMAIN prompt |-> at(i)])
PromptPicture == Plain(At(0, 0), VisiblePrompt)

-----------------------------------------------------------------------------
(* readline *)

CursorAt(text, at) == Position(lineAt, SubSeq(text, 1, at))
LineEnd(text) == Position(lineAt, text)

\* The cells from row `home' on: new ones written, old ones blanked.  The row
\* after one the line fills is wrapped to, so the screen has scrolled for it.
Redisplayed(t, home, old, new, cursor, end) ==
    [t EXCEPT !.cells = [r \in 0..LastRow |->
                            [c \in 0..(Cols - 1) |->
                                IF At(r - home, c) \in DOMAIN new THEN new[At(r - home, c)]
                                ELSE IF At(r - home, c) \in old THEN EmptyCell ELSE @[r][c]]],
              !.top = Most(@, home + end.row - Rows + 1),
              !.row = home + cursor.row, !.col = cursor.col, !.wrap = FALSE]
\* rl_redisplay, of a line that was on screen, and on a new row.
DrawnOver(t, was, wasAt, text, at) ==
    Redisplayed(t, t.row - CursorAt(was, wasAt).row, DOMAIN Plain(lineAt, was), Plain(lineAt, text),
                CursorAt(text, at), LineEnd(text))
DrawnNew(t, text, at) ==
    Redisplayed(t, t.row, {}, Plain(lineAt, text) @@ PromptPicture, CursorAt(text, at), LineEnd(text))

\* rl_crlf below the line, for a message, and at the end: on the row the line's
\* end is on when it filled the one before.
ToLastRow(t, text, at) == [t EXCEPT !.row = @ + LineEnd(text).row - CursorAt(text, at).row, !.wrap = FALSE]
RowBelow(t, text, at) == ApplyAll(ToLastRow(t, text, at), <<CR, LF>>)
FinalUpdate(t, text, at) ==
    IF LineEnd(text).col = 0 /\ LineEnd(text).row > 0
    THEN [ToLastRow(t, text, at) EXCEPT !.col = 0] ELSE RowBelow(t, text, at)

-----------------------------------------------------------------------------
(* hooks.rs *)

NoneShown == <<None, None, None>>
RowsBelow(s) == IF s[2] # None THEN s[2] ELSE s[3]      \* take_drawn

\* erase_below
EraseBelow(t, s) ==
    IF s[1] # None THEN ApplyAll(t, <<EraseDown>>)
    ELSE IF RowsBelow(s) # None
    THEN ApplyAll(t, <<Save, Down(RowsBelow(s)), CR, EraseDown, Restore>>) ELSE t

\* The Repaint of repaint_line.
RepaintOf(text, at, note, found) ==
    [promptEnd |-> lineAt, line |-> text, point |-> at,
     spans |-> found.spans, script |-> found.script, error |-> found.error, highlight |-> found.highlight,
     suggestion |-> IF at = Len(text) /\ text # <<>> THEN found.suggestion ELSE <<>>,
     suggestionLines |-> found.lines,
     message |-> IF note # <<>> THEN note ELSE found.errorMessage,
     menu |-> found.menu]

\* print_message_above
MessageAbove(t, text, at, note) ==
    ApplyAll(RowBelow(t, text, at), Puts(note) \o <<EraseRight, CR, LF>>)

\* draw: the line is drawn again under a message that has no row under it.
LeftBlank(t) ==
    [term |-> t, shown |-> NoneShown, painted |-> RepaintOf(<<>>, 0, <<>>, NothingFound), message |-> <<>>]
Leaving(t, out, r, note) ==
    [term |-> ApplyAll(t, out.ops), shown |-> <<out.shownAt, out.messageRows, out.menuRows>>,
     painted |-> r, message |-> note]
DrawnAgain(t, r) == Leaving(t, Build(r), r, <<>>)
LeftUnder(t, text, at, found) ==
    IF text = <<>> THEN LeftBlank(t) ELSE DrawnAgain(t, RepaintOf(text, at, <<>>, found))
LeftWith(t, r, out, note, found) ==
    IF note # <<>> /\ out.messageRows = None
    THEN LeftUnder(DrawnNew(MessageAbove(ApplyAll(t, out.ops), r.line, r.point, note), r.line, r.point),
                   r.line, r.point, found)
    ELSE Leaving(t, out, r, note)
LeftBy(t, r, note, found) == LeftWith(t, r, Build(r), note, found)
Left(t, text, at, note, found) ==
    IF text = <<>> /\ note = <<>> THEN LeftBlank(t)
    ELSE LeftBy(t, RepaintOf(text, at, note, found), note, found)

\* A line this screen can hold: readline scrolls a taller one on its own.
Fits(text) == LineEnd(text).row < Rows

Draws(t, text, at, note) ==
    \E found \in Found :
      \E left \in {Left(t, text, at, note, found)} :
        /\ term' = left.term /\ message' = left.message /\ painted' = left.painted
        /\ shownAt' = left.shown[1] /\ messageRows' = left.shown[2] /\ menuRows' = left.shown[3]

\* redisplay, once a command has returned.
Redisplay(t, text, at, note) ==
    Draws(DrawnOver(EraseBelow(t, shown), line, point, text, at), text, at, note)

-----------------------------------------------------------------------------
(* A line is read. *)

Start(text, row) ==
    \E left \in {Left(DrawnNew(Terminal(row), text, Len(text)), text, Len(text), <<>>, NothingFound)} :
       /\ term = left.term /\ painted = left.painted /\ message = <<>>
       /\ shownAt = left.shown[1] /\ messageRows = left.shown[2] /\ menuRows = left.shown[3]
ScreenInit ==
    /\ prompt \in Prompts \cup OddPrompts /\ lineAt = PromptEnd(prompt) /\ pressed = 0
    /\ IF prompt \in Prompts
       THEN /\ phase = "waiting"
            /\ line \in FirstLines /\ point = Len(line) /\ Fits(line)
            /\ \E row \in {0, Rows - 1} : Start(line, row)
       ELSE /\ phase = "measured"
            /\ line = <<>> /\ point = 0 /\ message = <<>> /\ term = <<>> /\ painted = <<>>
            /\ shownAt = None /\ messageRows = None /\ menuRows = None

\* pre_input's draw and redraw: while a key is waited for.
Redraws ==
    /\ phase = "waiting"
    /\ Draws(EraseBelow(term, shown), line, point, message)
    /\ UNCHANGED <<prompt, lineAt, line, point, pressed, phase>>

\* A key's command leaves the line and the message.
Leaves(text, at, note) ==
    /\ phase = "waiting" /\ pressed < MaxPresses /\ pressed' = pressed + 1
    /\ Len(text) <= MaxLength /\ Fits(text)
    /\ line' = text /\ point' = at
    /\ Redisplay(term, text, at, note)
    /\ UNCHANGED <<prompt, lineAt, phase>>
Types(c) == Leaves(SubSeq(line, 1, point) \o <<c>> \o SubSeq(line, point + 1, Len(line)), point + 1, <<>>)
Rubs == point > 0 /\ Leaves(SubSeq(line, 1, point - 1) \o SubSeq(line, point + 1, Len(line)), point - 1, <<>>)
Moves == \E at \in {0, point - 1, Len(line)} \ {point, -1} : Leaves(line, at, <<>>)
Kills == line # <<>> /\ Leaves(<<>>, 0, <<>>)
Shows == \E note \in Messages : Leaves(line, point, note)

\* Enter: readline's final update, then deprep_terminal, whether or not getc
\* erased what was shown.
DeprepEraseRow(t, s) ==
    IF s[1] = None /\ RowsBelow(s) = None THEN t ELSE ApplyAll(t, <<CR, EraseDown>>)
DeprepErase(t, s) ==
    IF s[1] = None /\ RowsBelow(s) = None THEN t
    ELSE IF s[1] > 0
    THEN ApplyAll(t, <<Up(1), Column(s[1] + 1), EraseDown, Down(1), CR>>)
    ELSE ApplyAll(t, <<CR, EraseDown>>)
Runs ==
    /\ phase = "waiting" /\ phase' = "run"
    /\ \E byGetc \in BOOLEAN :
         LET erased == IF byGetc THEN EraseBelow(term, shown) ELSE term
             left == IF byGetc THEN NoneShown ELSE shown
         IN term' = DeprepErase(FinalUpdate(erased, line, point), left)
    /\ shownAt' = None /\ messageRows' = None /\ menuRows' = None /\ message' = <<>>
    /\ UNCHANGED <<prompt, lineAt, line, point, pressed, painted>>

\* disable, while the line is edited.
TurnsOff ==
    /\ phase = "waiting" /\ phase' = "off"
    /\ term' = EraseBelow(term, shown)
    /\ shownAt' = None /\ messageRows' = None /\ menuRows' = None /\ message' = <<>>
    /\ UNCHANGED <<prompt, lineAt, line, point, pressed, painted>>

ScreenNext ==
    \/ Redraws
    \/ \E c \in Typed : Types(c)
    \/ Rubs \/ Moves \/ Kills \/ Shows
    \/ Runs
    \/ TurnsOff

-----------------------------------------------------------------------------
(* What the screen must show. *)

RowPicture(row, ops) ==
    LET grown(g, o) ==
            CASE o.op = "put" -> [g EXCEPT !.at = Advance(@, o.ch),
                                           !.picture = CharPicture(g.at, o.ch, g.style) @@ @]
              [] o.op = "sgr" -> [g EXCEPT !.style = @ \cup {o.ch}]
              [] o.op = "reset" -> [g EXCEPT !.style = {}]
    IN FoldLeft(grown, [at |-> At(row, 0), style |-> {}, picture |-> NoPicture], ops).picture
Together(pictures) == FoldLeft(LAMBDA all, picture : picture @@ all, NoPicture, pictures)

LinePicture(r) == TextPicture(lineAt, r.line, LAMBDA i : Wanted(r, i)) @@ PromptPicture
GreyRow(l, n) ==
    TextPicture(IF n = 1 THEN l.cursor ELSE At(l.end.row + n - 1, 0), l.grey[n], LAMBDA i : {"suggestion"})
PictureOf(r, l) ==
    Together([n \in DOMAIN l.grey |-> GreyRow(l, n)])
    @@ Together([n \in DOMAIN l.under |-> RowPicture(l.end.row + n, l.under[n])])
    @@ LinePicture(r)
Picture(r) == PictureOf(r, Layout(r))

\* The rows of the screen from `home' on show the picture, and nothing else.
CellIn(picture, at) == IF at \in DOMAIN picture THEN picture[at] ELSE EmptyCell
HasOnly(picture, home) ==
    \A row \in Most(home, term.top)..Bottom(term), col \in 0..(Cols - 1) :
        term.cells[row][col] = CellIn(picture, At(row - home, col))
Home == term.row - CursorOf(painted).row

\* After each draw, with the line, the prompt or what is shown under them grown,
\* shrunk, wrapped or scrolled since the last one, each character is in the
\* cell readline has it in, in its style, what was shown is all there and
\* nothing of an earlier draw is; the cursor is back where readline left it, and
\* nothing drawn after or under the line scrolled its first row off.
ScreenIsRight ==
    phase = "waiting" =>
        /\ term.top <= Home
        /\ term.col = CursorOf(painted).col /\ ~term.wrap /\ term.style = {}
        /\ HasOnly(Picture(painted), Home)

\* Once the line runs, or inkline is turned off, the line is still on screen
\* where it was, and nothing inkline showed is: what a command prints starts on
\* the row below the line, and no grey text or menu row is under it.
NothingLeftBehind ==
    LET rows == LineEnd(line).row + IF LineEnd(line).col = 0 /\ LineEnd(line).row > 0 THEN 0 ELSE 1
    IN /\ phase = "run" => term.col = 0 /\ HasOnly(LinePicture(painted), term.row - rows)
       /\ phase = "off" => term.col = CursorOf(painted).col /\ HasOnly(LinePicture(painted), Home)

\* Readline's own account of where the line starts, which prompt_end follows, is
\* where a prompt of narrow characters ends on the terminal, hidden escape
\* sequences in it or not: prompt_end answers that place, or none.
PromptEndsWhereDrawn ==
    (\A i \in DOMAIN prompt : prompt[i] \notin {Wide, Accent}) =>
        lineAt \in {NoPlace, Position(At(0, 0), VisiblePrompt)}
=============================================================================
