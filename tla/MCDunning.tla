----------------------------- MODULE MCDunning -----------------------------
(***************************************************************************)
(* Instances of Dunning small enough for TLC.                              *)
(***************************************************************************)
EXTENDS Dunning, TLC

CONSTANTS d1, m1

\* The default is <<0, 1, 3, 5>> with four attempts.
Intervals == <<0, 1>>

=============================================================================
