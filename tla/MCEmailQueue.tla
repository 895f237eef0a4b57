---------------------------- MODULE MCEmailQueue ----------------------------
(* A small instance of EmailQueue for TLC.                                 *)
EXTENDS EmailQueue, TLC

CONSTANTS i1, i2, m1, p1, p2

(* One mailbox has an urgent row and a bulk row.                           *)
OneOwner == (i1 :> m1) @@ (i2 :> m1)
UrgentAndBulk == (i1 :> 10) @@ (i2 :> -10)
=============================================================================
