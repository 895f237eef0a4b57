---------------------------- MODULE MCIdleBridge ----------------------------
(* Small instances of IdleBridge for TLC.                                  *)
EXTENDS IdleBridge, TLC

CONSTANTS inbox, archive
=============================================================================
