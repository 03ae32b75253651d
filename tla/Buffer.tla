------------------------------- MODULE Buffer -------------------------------
(***************************************************************************)
(* The line as Lisp edits it (lisp/buffer.rs), with positions that count   *)
(* characters, over readline's line, whose point and mark count bytes; and *)
(* the places `save-excursion' keeps in it.                                *)
(*                                                                         *)
(* A byte of a text says of which character it is, and which byte of it.   *)
(* Every character is another one, so that it can be told which stay on    *)
(* which side of a place.                                                  *)
(***************************************************************************)
EXTENDS Integers, Sequences, FiniteSets

CONSTANTS
    Symbols,
    BytesOf,         \* the bytes of each
    Newlines,      \* those that are newlines
    CharSets,      \* those given to skip-chars-forward and -backward
    LineTexts,         \* lines there are, and what Lisp inserts
    MaxEdits,      \* bound: what Lisp does with a line
    MaxExcursions  \* bound: excursions in one another

Byte == [char : Symbols, nth : 1 .. 4]
\* The bytes of one character are together, in order, and all there: UTF-8.
Whole(t, i) ==
    LET start == i - t[i].nth IN
    /\ t[i].nth <= BytesOf[t[i].char]
    /\ start >= 0 /\ start + BytesOf[t[i].char] <= Len(t)
    /\ \A k \in 1 .. BytesOf[t[i].char] : t[start + k] = [char |-> t[i].char, nth |-> k]
WellFormed(t) ==
    /\ t \in Seq(Byte)
    /\ \A i \in 1 .. Len(t) : Whole(t, i)
    /\ \A i, j \in 1 .. Len(t) : t[i] = t[j] => i = j

ASSUME BufferAssumption ==
    /\ BytesOf \in [Symbols -> 1 .. 4] /\ Newlines \subseteq Symbols
    /\ \A c \in Newlines : BytesOf[c] = 1
    /\ \A t \in LineTexts : WellFormed(t)
    /\ MaxEdits \in Nat /\ MaxExcursions \in Nat

VARIABLES
    buffer,    \* CURRENT: [text, point, mark], of an empty line outside Lisp
    lending,   \* what Lisp has it for: "nothing", "reading", "changing" (WRITABLE)
    markers,   \* MARKERS
    \* History: the characters that were before and after point when each
    \* excursion began, until a readline command changes the line.
    sides,
    edits

bufferVars == <<buffer, lending, markers, sides, edits>>

CharsOf(t) == {t[i].char : i \in 1 .. Len(t)}
\* The characters that end at or before a byte.
EndBy(t, byte) ==
    {t[i].char : i \in {j \in 1 .. Len(t) : j <= byte /\ t[j].nth = BytesOf[t[j].char]}}
\* Where a character starts, or the text ends.
CharStarts(t) == {b \in 0 .. Len(t) - 1 : t[b + 1].nth = 1}
Boundaries(t) == CharStarts(t) \cup {Len(t)}
Highest(set) == CHOOSE i \in set : \A j \in set : j <= i
Lowest(set) == CHOOSE i \in set : \A j \in set : i <= j
Nth(set, n) == CHOOSE i \in set : Cardinality({j \in set : j <= i}) = n
----------------------------------------------------------------------------
(* Bytes and positions. *)

Clamped(t, byte) == IF byte > Len(t) THEN Len(t) ELSE byte
CharStartWithin(t, byte) == Highest({b \in Boundaries(t) : b <= Clamped(t, byte)})

PointMax(t) == Cardinality(CharStarts(t)) + 1
InText(t, pos) == pos \in 1 .. PointMax(t)
ToPos(t, byte) ==
    IF byte >= Len(t) THEN PointMax(t) ELSE Cardinality({b \in CharStarts(t) : b <= byte})
ToByte(t, pos) ==
    LET n == IF pos < 1 THEN 1 ELSE pos IN
    IF n <= Cardinality(CharStarts(t)) THEN Nth(CharStarts(t), n) ELSE Len(t)
\* byte_range, of positions in the text.
ByteRange(t, a, b) ==
    IF a <= b THEN [start |-> ToByte(t, a), end |-> ToByte(t, b)]
    ELSE [start |-> ToByte(t, b), end |-> ToByte(t, a)]

(* Lines. *)
NewlineAt(t, i) == t[i].char \in Newlines
LineStarts(t) == {0} \cup {i \in 1 .. Len(t) : NewlineAt(t, i)}
LineStartAt(t, byte) == Highest({b \in LineStarts(t) : b <= byte})
LineEndAt(t, byte) ==
    Lowest({Len(t)} \cup {b \in byte .. Len(t) - 1 : NewlineAt(t, b + 1)})

\* forward_line_calc: over the starts of lines, one by one.
ForwardLine(t, point, n) ==
    IF n > 0
    THEN LET below == {b \in LineStarts(t) : b > point}
         IN IF n <= Cardinality(below) THEN Nth(below, n) ELSE Len(t)
    ELSE LET here == LineStartAt(t, point)
             above == {b \in LineStarts(t) : b < here}
         IN IF n = 0 THEN here
            ELSE IF -n <= Cardinality(above) THEN Nth(above, Cardinality(above) + 1 + n) ELSE 0

\* skip_forward and skip_backward, over the characters of a set up to a limit.
SkipForward(t, start, set, limit) ==
    LET stop == IF limit < start THEN start ELSE limit
    IN Highest({b \in (start .. stop) \cap Boundaries(t) :
                \A i \in start + 1 .. b : t[i].char \in set})
SkipBackward(t, start, set, limit) ==
    LET stop == IF limit > start THEN start ELSE limit
    IN Lowest({b \in (stop .. start) \cap Boundaries(t) :
                \A i \in b + 1 .. start : t[i].char \in set})

(* What an edit does to the places in the text. *)
Without(t, start, end) == SubSeq(t, 1, start) \o SubSeq(t, end + 1, Len(t))
Spliced(t, at, new) == SubSeq(t, 1, at) \o new \o SubSeq(t, at + 1, Len(t))
AdjustAfterInsert(pos, at, len) == IF pos > at THEN pos + len ELSE pos
AdjustAfterLaterDelete(pos, start, end) == IF pos >= end THEN pos - (end - start) ELSE pos
AdjustAfterDelete(pos, start, end) ==
    IF pos >= end THEN pos - (end - start) ELSE IF pos > start THEN start ELSE pos
----------------------------------------------------------------------------
(* What Lisp does. *)

NoLine == [text |-> <<>>, point |-> 0, mark |-> 0]
Edits == edits < MaxEdits /\ edits' = edits + 1
InLisp == lending # "nothing"
Writable == lending = "changing"

\* install_line: a key, an accept or line-start hook, or the functions asked at
\* a draw, of a line that is edited.
Install(use, t, point, mark) ==
    /\ ~InLisp /\ edits < MaxEdits
    /\ buffer' = [text |-> t, point |-> point, mark |-> mark]
    /\ lending' = use /\ UNCHANGED <<markers, sides, edits>>
\* Drop for Installed, also as a panic unwinds.
Drops ==
    /\ InLisp
    /\ buffer' = NoLine /\ lending' = "nothing" /\ markers' = <<>> /\ sides' = <<>>
    /\ UNCHANGED edits

\* move_to; set_mark_to.
MovesTo(byte) ==
    /\ Writable /\ Edits
    /\ buffer' = [buffer EXCEPT !.point = CharStartWithin(buffer.text, byte)]
    /\ UNCHANGED <<lending, markers, sides>>
SetMark(pos) ==
    /\ Writable /\ Edits
    /\ buffer' = [buffer EXCEPT
           !.mark = CharStartWithin(buffer.text, ToByte(buffer.text, pos))]
    /\ UNCHANGED <<lending, markers, sides>>

GotoChar(pos) == MovesTo(ToByte(buffer.text, pos))
\* forward-char and backward-char.
MovePoint(delta) ==
    LET pos == ToPos(buffer.text, buffer.point) + delta IN
    InText(buffer.text, pos) /\ MovesTo(ToByte(buffer.text, pos))
\* beginning-of-line, end-of-line, forward-line, skip-chars-forward and -backward.
MovesByLines ==
    \/ MovesTo(LineEndAt(buffer.text, buffer.point))
    \/ \E n \in -2 .. 2 : MovesTo(ForwardLine(buffer.text, buffer.point, n))
SkipChars(set, pos) ==
    \/ MovesTo(SkipForward(buffer.text, buffer.point, set, ToByte(buffer.text, pos)))
    \/ MovesTo(SkipBackward(buffer.text, buffer.point, set, ToByte(buffer.text, pos)))

\* insert, then after_insert.  A character that was deleted and comes again is
\* another one.
Insert(new) ==
    LET t == Spliced(buffer.text, buffer.point, new) IN
    /\ Writable /\ Edits
    /\ CharsOf(new) \cap CharsOf(buffer.text) = {}
    /\ \A i \in DOMAIN sides : CharsOf(new) \cap (sides[i].before \cup sides[i].after) = {}
    /\ buffer' = [text |-> t, point |-> CharStartWithin(t, buffer.point + Len(new)),
                  mark |-> CharStartWithin(t, AdjustAfterInsert(buffer.mark, buffer.point,
                                                                Len(new)))]
    /\ markers' = [i \in DOMAIN markers |->
                      AdjustAfterInsert(markers[i], buffer.point, Len(new))]
    /\ UNCHANGED <<lending, sides>>

\* Buffer::delete and kill, which keep point and mark where readline would move
\* them into the shorter line, then after_delete.
Deletes(start, end) ==
    LET t == Without(buffer.text, start, end)
        Follows(pos) == AdjustAfterDelete(pos, start, end) IN
    /\ Writable /\ Edits
    /\ buffer' = [text |-> t, point |-> CharStartWithin(t, Follows(buffer.point)),
                  mark |-> CharStartWithin(t, Follows(buffer.mark))]
    /\ markers' = [i \in DOMAIN markers |-> Follows(markers[i])]
    /\ UNCHANGED <<lending, sides>>
DeleteRegion(a, b) ==
    /\ InText(buffer.text, a) /\ InText(buffer.text, b)
    /\ LET range == ByteRange(buffer.text, a, b) IN Deletes(range.start, range.end)
DeleteChar(n) ==
    LET pos == ToPos(buffer.text, buffer.point) IN
    InText(buffer.text, pos + n) /\ DeleteRegion(pos, pos + n)
EraseBuffer == Deletes(0, Len(buffer.text))

\* inkline--save-point and inkline--restore-point, as the macro calls them: an
\* excursion restores the place it saved, whatever ended its body.
SavePoint ==
    /\ InLisp /\ Len(markers) < MaxExcursions /\ Edits
    /\ markers' = Append(markers, buffer.point)
    /\ sides' = LET before == EndBy(buffer.text, buffer.point)
                IN Append(sides, [before |-> before, after |-> CharsOf(buffer.text) \ before])
    /\ UNCHANGED <<buffer, lending>>
RestorePoint ==
    /\ markers # <<>>
    /\ buffer' = [buffer EXCEPT
           !.point = CharStartWithin(buffer.text, markers[Len(markers)])]
    /\ markers' = SubSeq(markers, 1, Len(markers) - 1)
    /\ sides' = SubSeq(sides, 1, Len(sides) - 1)
    /\ UNCHANGED <<lending, edits>>

\* call-interactively of a readline command: it leaves the line as it likes,
\* with point at a character, and the markers where they are.
CallReadline(t, point, mark) ==
    /\ Writable /\ Edits
    /\ buffer' = [text |-> t, point |-> point, mark |-> mark]
    /\ sides' = [i \in DOMAIN sides |-> [before |-> {}, after |-> {}]]
    /\ UNCHANGED <<lending, markers>>

BufferInit ==
    buffer = NoLine /\ lending = "nothing" /\ markers = <<>> /\ sides = <<>> /\ edits = 0
Positions == 0 .. PointMax(buffer.text) + 1
BufferNext ==
    \/ \E t \in LineTexts : \E point \in Boundaries(t), mark \in 0 .. Len(t) :
          \/ \E use \in {"reading", "changing"} : Install(use, t, point, mark)
          \/ CallReadline(t, point, mark)
    \/ Drops \/ MovesByLines \/ EraseBuffer \/ SavePoint \/ RestorePoint
    \/ \E pos \in Positions :
          \/ GotoChar(pos) \/ SetMark(pos)
          \/ \E set \in CharSets : SkipChars(set, pos)
          \/ \E b \in Positions : DeleteRegion(pos, b)
    \/ \E n \in -2 .. 2 : MovePoint(n) \/ DeleteChar(n)
    \/ \E t \in LineTexts : Insert(t)
BufferSpec == BufferInit /\ [][BufferNext]_bufferVars
----------------------------------------------------------------------------
\* Readline's point is never left inside a character, where the functions that
\* cut the line at it would panic (line_start, skip_forward).
PointOnCharacter == buffer.point \in Boundaries(buffer.text)

\* "[save-excursion's] saved point follows the same rules, so it still lands in
\* the right place after an insert or delete inside its body" (docs/lisp.md):
\* every character that was before point and is still there is before it, and
\* every one that was after it is after it.
ComesBack(side) ==
    /\ \A c \in side.before \cap CharsOf(buffer'.text) :
          c \in EndBy(buffer'.text, buffer'.point)
    /\ \A c \in side.after \cap CharsOf(buffer'.text) :
          c \notin EndBy(buffer'.text, buffer'.point)
ExcursionsComeBack == [][RestorePoint => ComesBack(sides[Len(sides)])]_bufferVars

Edited ==
    /\ buffer'.text # buffer.text
    /\ \/ \E t \in LineTexts : Insert(t)
       \/ \E start, end \in Boundaries(buffer.text) : start <= end /\ Deletes(start, end)
\* Lisp's edits leave the mark between the characters it was between.
MarkFollows ==
    [][Edited =>
          \A c \in CharsOf(buffer.text) \cap CharsOf(buffer'.text) :
            c \in EndBy(buffer.text, buffer.mark) <=> c \in EndBy(buffer'.text, buffer'.mark)
      ]_bufferVars

\* The functions asked at a draw leave the line and its point as they are, though
\* excursions of theirs put point back.
ReadingChangesNothing ==
    [][lending = "reading" /\ lending' = "reading" => buffer' = buffer]_bufferVars

\* Every place in the line that Lisp counts on follows the text.
PlacesFollowText ==
    []PointOnCharacter /\ ExcursionsComeBack /\ MarkFollows /\ ReadingChangesNothing
=============================================================================
