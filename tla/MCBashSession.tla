---------------------------- MODULE MCBashSession ----------------------------
(* Instances of BashSession for TLC. *)
EXTENDS BashSession

CONSTANTS arg, cmd

\* Two names, a directory and what is in it, and a flag.
nothing == <<>>
d == <<"d">>
ds == <<"d", "/">>
dsx == <<"d", "/", "x">>
e == <<"e">>
dash == <<"-">>

MCTexts == {nothing, d, ds, dsx, e, dash}
MCFewTexts == {nothing, d, e}

MCWords == [place : {arg}, typed : {nothing, d, ds, dash}]
MCPlaceWords == {[place |-> arg, typed |-> nothing], [place |-> arg, typed |-> d],
                 [place |-> cmd, typed |-> nothing]}
MCFewWords == [place : {arg}, typed : {nothing, d}]

\* The last command made the file `d' a directory.
MCOffered ==
    [l \in 0 .. MaxLine |-> [p \in Places |-> IF l = 0 THEN {d, dash} ELSE {ds, dsx, e, dash}]]
MCTwoOffered == [l \in 0 .. MaxLine |-> [p \in Places |-> {d, e}]]
MCPlaceOffered ==
    [l \in 0 .. MaxLine |-> [p \in Places |-> IF p = arg THEN {d} ELSE {}]]
=============================================================================
