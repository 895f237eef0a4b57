------------------------------ MODULE MCLockout ------------------------------
\* Two overlapping attempts on one account, for TLC.
EXTENDS Lockout, TLC

CONSTANTS a1, a2

Attempts == Permutations({a1, a2})
=============================================================================
