----------------------------- MODULE MCRenewal -----------------------------
(***************************************************************************)
(* Instances of Renewal small enough for TLC.                              *)
(***************************************************************************)
EXTENDS Renewal, TLC

CONSTANTS w1, r1, s1

=============================================================================
