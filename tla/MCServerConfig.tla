--------------------------- MODULE MCServerConfig ---------------------------
(* Two backend processes with a request each: a small instance of          *)
(* ServerConfig for TLC.                                                   *)
EXTENDS ServerConfig, TLC

CONSTANTS c1, c2, p1, p2, r1, r2

EachItsOwn == (r1 :> p1) @@ (r2 :> p2)
=============================================================================
