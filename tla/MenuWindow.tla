----------------------------- MODULE MenuWindow -----------------------------
(***************************************************************************)
(* Which items of a menu its rows show (menu.rs), with rows and picks       *)
(* counted from 1, and no pick 0.                                           *)
(***************************************************************************)
EXTENDS Integers

\* window: the first row shown, how many, and how many a last row counts.
WindowOffByOne(total, picked, rows) ==
    IF rows = 0 \/ total = 0 THEN [first |-> 1, count |-> 0, more |-> 0]
    ELSE IF total <= rows THEN [first |-> 1, count |-> total, more |-> 0]
    ELSE IF rows = 1 THEN [first |-> IF picked = 0 THEN 1 ELSE picked, count |-> 1, more |-> 0]
    ELSE [first |-> IF picked > rows THEN picked - rows + 2 ELSE 1,
          count |-> rows - 1, more |-> total - rows + 1]
Window(total, picked, rows) ==
    IF rows = 0 \/ total = 0 THEN [first |-> 1, count |-> 0, more |-> 0]
    ELSE IF total <= rows THEN [first |-> 1, count |-> total, more |-> 0]
    ELSE IF rows = 1 THEN [first |-> IF picked = 0 THEN 1 ELSE picked, count |-> 1, more |-> 0]
    ELSE [first |-> IF picked >= rows THEN picked - rows + 2 ELSE 1,
          count |-> rows - 1, more |-> total - rows + 1]
=============================================================================
