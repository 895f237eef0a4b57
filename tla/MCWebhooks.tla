----------------------------- MODULE MCWebhooks -----------------------------
(* A small instance of Webhooks for TLC.                                   *)
EXTENDS Webhooks, TLC

CONSTANTS h1, h2, e1, r1, r2
=============================================================================
