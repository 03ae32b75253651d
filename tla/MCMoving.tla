------------------------------- MODULE MCMoving -------------------------------
(* An instance of Moving for TLC. *)
EXTENDS Moving, TLC

CONSTANTS empty, typed, one, two, three, inside, end, a1, a2

MCRow(text, at, from) == [text |-> text, at |-> at, end |-> from]

\* For what is typed, three rows with the cursor at its end, and one with the
\* cursor in its word, all of which it replaces; one for the first of the rows.
MCOffers ==
    [p \in Places |->
        CASE p = [text |-> typed, at |-> end] ->
               {<<MCRow(one, end, end), MCRow(two, inside, end), MCRow(three, end, end)>>}
          [] p = [text |-> typed, at |-> inside] -> {<<>>, <<MCRow(one, inside, end)>>}
          [] p = [text |-> one, at |-> end] -> {<<>>, <<MCRow(two, end, end)>>}
          [] OTHER -> {<<>>}]

MCSymmetry == Permutations(Addresses)
MCCounts == {0, 1, 2}
=============================================================================
