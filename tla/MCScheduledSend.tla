-------------------------- MODULE MCScheduledSend --------------------------
(* A small instance of ScheduledSend for TLC.                              *)
EXTENDS ScheduledSend, TLC

CONSTANTS e1, f1, s1, s2

(* There is one email, with one file.                                      *)
OneFile == e1 :> {f1}
=============================================================================
