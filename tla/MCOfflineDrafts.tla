-------------------------- MODULE MCOfflineDrafts --------------------------
(* Small instances of OfflineDrafts for TLC.                               *)
EXTENDS OfflineDrafts, TLC

CONSTANTS file, t1, t2, t3
=============================================================================
