---------------------------- MODULE MCWebSession ----------------------------
\* A browser with two tabs and two calls under way, for TLC.
EXTENDS WebSession, TLC

CONSTANTS t1, t2, c1, c2
=============================================================================
