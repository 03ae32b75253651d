------------------------------- MODULE Stepping -------------------------------
(***************************************************************************)
(* What a search of the Up and Down keys is, started past the entries it    *)
(* finds: stepping through a list of texts, and back to the line that was   *)
(* typed.                                                                   *)
(***************************************************************************)
EXTENDS Integers, Sequences

CONSTANT None

VARIABLES
    line,     \* the line: its text, cursor and undo list
    stepping  \* the kind of search, the texts stepped through, newest first,
              \* which of them is in the line (0: the typed one), the line typed

Smaller(m, n) == IF m < n THEN m ELSE n

\* A list has no text twice in a row, and none is the typed one.
IsList(texts, typed) ==
    \A i \in DOMAIN texts : texts[i] # typed.text /\ (i > 1 => texts[i] # texts[i - 1])

\* Where a key of that kind steps from: where the last one of its kind left, or
\* the line as it is, which the list that it leaves is for.
From(kind, before, after) ==
    IF before # None /\ before.kind = kind THEN before
    ELSE [kind |-> kind, texts |-> after.texts, at |-> 0, typed |-> line]

\* At the i-th text.  The typed one keeps its undo list, but a key that finds
\* nothing may move its cursor.
Shows(from, i, after) ==
    /\ after = [from EXCEPT !.at = i]
    /\ IsList(from.texts, from.typed)
    /\ line'.text = IF i = 0 THEN from.typed.text ELSE from.texts[i]
    /\ i = 0 => line'.undo = from.typed.undo

\* A step towards older texts goes as far as there are any.  Past the newest is
\* the typed line, with its cursor and its undo list, and the search is over.
Steps(kind, n, up) ==
    \E before \in {stepping}, after \in {stepping'} :
      LET from == From(kind, before, after) IN
      IF up THEN Shows(from, Smaller(from.at + n, Len(from.texts)), after)
      ELSE IF from.at = 0 THEN Shows(from, 0, after)
      ELSE IF n < from.at THEN Shows(from, from.at - n, after)
      ELSE after = None /\ line' = from.typed
=============================================================================
