------------------------------- MODULE MCUpDown -------------------------------
(* An instance of UpDown for TLC. *)
EXTENDS UpDown

CONSTANTS a, b, nl, tab, blank, backslash, wide

MCWidthOf == [c \in Chars |-> IF c = wide THEN 2 ELSE IF c = nl THEN 0 ELSE 1]
MCFold == [c \in Chars |-> c]

\* Entries that repeat others, next to them and further away, one of several
\* lines with a wide character and a tab, and one that holds what it does not
\* start with.
MCHistory == <<<<b, a>>, <<a, b>>, <<a, b>>, <<a, wide, nl, tab>>>>

MCStarting == {<<>>, <<a>>}
MCCounts == {-1, 1, 2}
=============================================================================
