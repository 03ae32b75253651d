------------------------------- MODULE Browsing -------------------------------
(***************************************************************************)
(* What moving through the completion menu promises (README.md, "Completion *)
(* menu"), as the user sees it: each move writes a row into the line, and   *)
(* the menu keeps its rows; one undo gives back what was typed; `C-g' puts  *)
(* it back, with the cursor; Enter keeps the row and does not run the line; *)
(* any other key keeps the row, or does its own job from there.             *)
(***************************************************************************)
EXTENDS Naturals, Sequences

CONSTANTS
    Places,  \* the line's text, with the cursor's place in it: [text, at]
    Menus,   \* what a menu may list: sequences of places, one for each row
    None

VARIABLES
    line,    \* the place on screen
    browse,  \* None, or what was typed, the menu's rows, and the row picked
    back,    \* the text that one undo gives back
    key      \* the last key: "move", "hide" (C-g), "enter" or another

vars == <<line, browse, back, key>>

Browse == [base : Places, rows : Menus, pick : Nat]

Init == line \in Places /\ browse = None /\ back = None /\ key = "none"

\* The first move: of a menu for what is typed.
Begins ==
    /\ browse = None
    /\ \E rows \in Menus : \E n \in DOMAIN rows :
         browse' = [base |-> line, rows |-> rows, pick |-> n] /\ line' = rows[n]
    /\ back' = line.text /\ key' = "move"

\* Another move: of the same rows, and over what was typed.
Moves ==
    /\ browse # None
    /\ \E n \in DOMAIN browse.rows :
         browse' = [browse EXCEPT !.pick = n] /\ line' = browse.rows[n]
    /\ key' = "move"
    /\ UNCHANGED back

GivesUp ==
    /\ browse # None
    /\ line' = browse.base /\ browse' = None /\ key' = "hide"
    /\ back' \in {p.text : p \in Places} \cup {None}

Keeps ==
    /\ browse # None
    /\ browse' = None /\ key' = "enter"
    /\ UNCHANGED <<line, back>>

\* Anything else ends it, and with nothing begun does as it likes; a key that
\* moves no row, and drawing the line, change nothing of it.
Other ==
    /\ browse' = None /\ line' \in Places
    /\ back' \in {p.text : p \in Places} \cup {None}
    /\ browse # None => key' \notin {"hide", "enter"}
    /\ key' \in {"none", "move", "hide", "enter", "other"}

Idles == UNCHANGED <<line, browse, back>> /\ key' \in {"move", key}

Next == Begins \/ Moves \/ GivesUp \/ Keeps \/ Other \/ Idles

Spec == Init /\ [][Next]_vars
=============================================================================
