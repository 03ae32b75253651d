---------------------------- MODULE MCModeServer ----------------------------
(* Instances of ModeServer for TLC. *)
EXTENDS ModeServer

CONSTANTS r1, r2, p1

\* A line with one command of the mode, with two, and with other modes' only;
\* and one with one command alone.
MCAskLists == {<<>>, <<r1>>, <<r2, r1>>}
MCOneCommand == {<<r1>>}
=============================================================================
