---------------------------- MODULE MCMailFolders ----------------------------
(* Small instances of MailFolders for TLC.  The messages are               *)
(* interchangeable, and so are the requests.                               *)
EXTENDS MailFolders, TLC

CONSTANTS inbox, trash, other, m1, m2, r1, r2

Symmetry == Permutations(Messages) \cup Permutations(Requests)
=============================================================================
