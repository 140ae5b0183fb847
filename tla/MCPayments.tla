----------------------------- MODULE MCPayments -----------------------------
(***************************************************************************)
(* Instances of Payments small enough for TLC.                             *)
(***************************************************************************)
EXTENDS Payments, TLC

CONSTANTS i1, i2, c1, c2, s1, s2, m1

\* Nothing tells two callers apart.
CallerSymmetry == Permutations(Callers)

=============================================================================
