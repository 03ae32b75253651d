------------------------------ MODULE MCLockout ------------------------------
(* Instances of Lockout for TLC. *)
EXTENDS Lockout, TLC

CONSTANTS s1, s2, s3, p1, p2

\* No action tells one shell, or one pid, from another.
MCSymmetry == Permutations(Shells) \cup Permutations(Pids)
=============================================================================
