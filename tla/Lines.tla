-------------------------------- MODULE Lines --------------------------------
(***************************************************************************)
(* A command of several lines (lines.rs): where its lines start and end,    *)
(* the columns of its characters on screen, and what the kill commands      *)
(* take.  A text is a sequence of characters, and a point how many of them  *)
(* are before it, where the code counts bytes.                              *)
(***************************************************************************)
EXTENDS Integers, Sequences, FiniteSetsExt, SequencesExt

CONSTANTS
    Chars,      \* characters
    Newline,    \* the end of a line
    Tab, Space, \* the blanks
    Backslash,
    WidthOf     \* how many columns a character takes

ASSUME LinesConstantsOK ==
    /\ {Newline, Tab, Space, Backslash} \subseteq Chars
    /\ WidthOf \in [Chars -> Nat]

Texts == Seq(Chars)
Points(text) == 0 .. Len(text)
IsMultiLine(text) == \E i \in DOMAIN text : text[i] = Newline

\* The points where a line starts, and those where one ends.
Starts(text) == {0} \cup {i \in DOMAIN text : text[i] = Newline}
Ends(text) == {Len(text)} \cup {i - 1 : i \in {j \in DOMAIN text : text[j] = Newline}}

LineStart(text, point) == Max({s \in Starts(text) : s <= point})
LineEnd(text, point) == Min({e \in Ends(text) : e >= point})

-----------------------------------------------------------------------------
(* Columns. *)

\* advance: the column after c, which starts at column col.
Advance(col, c) == IF c = Tab THEN col + 8 - (col % 8) ELSE col + WidthOf[c]

\* The columns of the points from that line's start on; the first line starts
\* after the prompt.
Columns(text, start, prompt) ==
    LET col[p \in start .. Len(text)] ==
          IF p = start THEN IF start = 0 THEN prompt ELSE 0
          ELSE Advance(col[p - 1], text[p])
    IN col

\* column
Column(text, point, prompt) == Columns(text, LineStart(text, point), prompt)[point]

\* at_column: the point of the line from `start' that is at column goal, or
\* before the character that covers it, or the line's end.
AtColumn(text, start, goal, prompt) ==
    LET within == {p \in start .. LineEnd(text, start) : Column(text, p, prompt) <= goal} IN
    IF within = {} THEN start ELSE Max(within)

\* up and down, where there is a line above or below.
Up(text, point, goal, prompt) ==
    AtColumn(text, LineStart(text, LineStart(text, point) - 1), goal, prompt)
Down(text, point, goal, prompt) ==
    AtColumn(text, LineEnd(text, point) + 1, goal, prompt)

-----------------------------------------------------------------------------
(* What a kill and a new line take: from which point to which. *)

Part(from, to) == [from |-> from, to |-> to]

\* kill_forward and kill_backward: at the line's end, or start, its newline.
KillForward(text, point) ==
    LET end == LineEnd(text, point) IN
    Part(point, IF end = point /\ end < Len(text) THEN point + 1 ELSE end)
KillBackward(text, point) ==
    LET start == LineStart(text, point) IN
    Part(IF start = point /\ start > 0 THEN start - 1 ELSE start, point)

\* kill_lines: by count lines down, or up from the start of this one.
KillLines(text, point, count) ==
    LET below == {s \in Starts(text) : s > point}
        above == {s \in Starts(text) : s <= point} IN
    IF count > 0
    THEN Part(point, IF Cardinality(below) < count THEN Len(text)
                     ELSE CHOOSE s \in below : Cardinality({t \in below : t <= s}) = count)
    ELSE Part(IF Cardinality(above) <= -count THEN 0
              ELSE CHOOSE s \in above : Cardinality({t \in above : t > s}) = -count, point)

IsBlank(c) == c \in {Space, Tab}

\* indentation: how many blanks a line starts with, from `start'.
IndentationEnd(text, start) ==
    LET words == {p \in start .. Len(text) - 1 : ~IsBlank(text[p + 1])} IN
    Min(words \cup {Len(text)})

\* blanks_around: a blank after a backslash is part of a word.
BlanksAroundEscaped(text, point) ==
    LET left == Min({p \in LineStart(text, point) .. point :
                       \A i \in p + 1 .. point : IsBlank(text[i])})
        right == Max({p \in point .. LineEnd(text, point) :
                       \A i \in point + 1 .. p : IsBlank(text[i])})
    IN Part(left, right)
BlanksAround(text, point) ==
    LET start == LineStart(text, point)
        end == LineEnd(text, point)
        left == Min({p \in start .. point : \A i \in p + 1 .. point : IsBlank(text[i])})
        slashes == left - Min({p \in start .. left : \A i \in p + 1 .. left : text[i] = Backslash})
        right == Max({p \in point .. end : \A i \in point + 1 .. p : IsBlank(text[i])})
    IN Part(IF left < point /\ slashes % 2 = 1 THEN left + 1 ELSE left, right)
=============================================================================
