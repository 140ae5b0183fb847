---------------------------- MODULE MCWebhooks ----------------------------
(***************************************************************************)
(* Instances of Webhooks small enough for TLC.                             *)
(***************************************************************************)
EXTENDS Webhooks, TLC

CONSTANTS e1, e2, j1, j2, h1, h2

=============================================================================
