--------------------------- MODULE MCIdempotency ---------------------------
(***************************************************************************)
(* An instance of Idempotency small enough for TLC: two calls that repeat  *)
(* each other and one that reuses their key for another body.              *)
(***************************************************************************)
EXTENDS Idempotency, TLC

CONSTANTS c1, c2, c3, b1, b2

MCBody == (c1 :> b1) @@ (c2 :> b1) @@ (c3 :> b2)

=============================================================================
