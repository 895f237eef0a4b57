------------------------------ MODULE Lockout ------------------------------
(***************************************************************************)
(* The lockout of an account after failed sign-ins: evaluate_password_login *)
(* (services/auth_service.rs), which the API's login, the Classic form and  *)
(* the Classic password change share, and the look at the row the Classic   *)
(* form takes before it (handlers/classic/login.rs).  An attempt reads the  *)
(* mailbox row, checks lock and password against what it read and then      *)
(* overwrites the row, in two statements with the slow password hash in     *)
(* between: attempts overlap.  One account, one clock.                      *)
(***************************************************************************)
EXTENDS Integers, Sequences

CONSTANTS
  Tries,        \* requests that may be under way at once
  Threshold, Window, Duration,    \* LockoutConfig
  MaxTime,      \* bound on the clock
  MaxWrongs     \* bound on the wrong passwords checked

ASSUME LockoutAssumption ==
  /\ Threshold \in Nat \ {0} /\ Window \in Nat \ {0}
  /\ Duration \in Nat \ {0}
  /\ MaxTime \in Nat /\ MaxWrongs \in Nat

VARIABLES
  now,
  row,          \* the lockout columns of the mailbox
  try,          \* try[a]: a request, from its submission to its last write
  wrongs,       \* history: when wrong passwords were checked
  forgiven,     \* history: how many of them the last reset wiped out
  clean,        \* history: no overlap and no lost write since the last reset
  stale         \* history: requests that read the row before the present lock

vars == <<now, row, try, wrongs, forgiven, clean, stale>>
history == <<wrongs, forgiven, clean, stale>>

Never == -1     \* NULL in a column that holds a time
Times == 0 .. MaxTime

Row == [failed : Nat, last : Times \cup {Never},
        until : 0 .. MaxTime + Duration \cup {Never}]
Fresh == [failed |-> 0, last |-> Never, until |-> Never]

Try == [step : {"idle", "pre", "find", "check", "wrong", "right"},
        seen : Row, at : Times]
NoTry == [step |-> "idle", seen |-> Fresh, at |-> 0]

TypeOK ==
  /\ now \in Times /\ row \in Row /\ try \in [Tries -> Try]
  /\ wrongs \in Seq(Times) /\ forgiven \in 0 .. Len(wrongs)
  /\ clean \in BOOLEAN /\ stale \subseteq Tries

Init ==
  /\ now = 0 /\ row = Fresh /\ try = [a \in Tries |-> NoTry]
  /\ wrongs = <<>> /\ forgiven = 0 /\ clean = TRUE /\ stale = {}

At(a, step) == try[a].step = step

\* Requests that have read the row and not written it yet.
Reading == {a \in Tries : try[a].step \in {"check", "wrong", "right"}}

LockedAt(r, t) == r.until > t      \* is_currently_locked; never for Never

-----------------------------------------------------------------------------
\* Slip: the counter never starts over.
NextFailedForever(r, t) ==
  LET count == r.failed + 1
  IN [failed |-> count, last |-> t,
      until |-> IF count >= Threshold THEN t + Duration ELSE Never]

\* next_failed_state.
NextFailed(r, t) ==
  LET within == r.last # Never /\ t - r.last < Window
      count == IF within THEN r.failed + 1 ELSE 1
  IN [failed |-> count, last |-> t,
      until |-> IF count >= Threshold THEN t + Duration ELSE Never]

\* The request leaves the row alone from here on.
Ends(a) == try' = [try EXCEPT ![a] = NoTry]

-----------------------------------------------------------------------------
(***************************************************************************)
(* A request, statement by statement.                                      *)
(***************************************************************************)

\* The Classic form notes the time before its own look at the row.
SubmitForm(a) ==
  /\ At(a, "idle")
  /\ try' = [try EXCEPT ![a].step = "pre", ![a].at = now]
  /\ UNCHANGED <<now, row, history>>

\* The API's login and the password change go straight to the evaluation.
SubmitDirectly(a) ==
  /\ At(a, "idle")
  /\ try' = [try EXCEPT ![a].step = "find"]
  /\ UNCHANGED <<now, row, history>>

\* lookup_lockout_state: a locked account is told so.  A lookup that fails
\* falls through to the evaluation.
LookUp(a) ==
  /\ At(a, "pre")
  /\ \/ LockedAt(row, try[a].at) /\ Ends(a)
     \/ try' = [try EXCEPT ![a].step = "find", ![a].at = 0]
  /\ UNCHANGED <<now, row, history>>

FindByUsername(a) ==
  /\ At(a, "find")
  /\ try' = [try EXCEPT ![a].step = "check", ![a].seen = row]
  /\ clean' = (clean /\ Reading = {})
  /\ stale' = stale \ {a}
  /\ UNCHANGED <<now, row, wrongs, forgiven>>

AlreadyLocked(a) ==
  /\ At(a, "check") /\ LockedAt(try[a].seen, now)
  /\ Ends(a)
  /\ UNCHANGED <<now, row, history>>

\* Slip: the lock is left to the form, which looked already.
VerifyAtOnce(a, right) ==
  /\ At(a, "check")
  /\ try' = [try EXCEPT ![a].step = IF right THEN "right" ELSE "wrong",
                        ![a].at = now]
  /\ IF right THEN UNCHANGED wrongs
     ELSE Len(wrongs) < MaxWrongs /\ wrongs' = Append(wrongs, now)
  /\ UNCHANGED <<now, row, forgiven, clean, stale>>

\* The password is verified; what the outcome does to the row is settled by
\* the row as it was read and the time noted before the hash.
Verify(a, right) ==
  /\ At(a, "check") /\ ~LockedAt(try[a].seen, now)
  /\ try' = [try EXCEPT ![a].step = IF right THEN "right" ELSE "wrong",
                        ![a].at = now]
  /\ IF right THEN UNCHANGED wrongs
     ELSE Len(wrongs) < MaxWrongs /\ wrongs' = Append(wrongs, now)
  /\ UNCHANGED <<now, row, forgiven, clean, stale>>

\* persist_failed_state writes all three columns whatever they are by now; it
\* may start a lock, and it may end one.
PersistFailed(a) ==
  /\ At(a, "wrong")
  /\ row' = NextFailed(try[a].seen, try[a].at)
  /\ stale' = IF LockedAt(row', now) THEN Reading \ {a} ELSE stale
  /\ Ends(a)
  /\ UNCHANGED <<now, wrongs, forgiven, clean>>

\* Slip: a right password ends the lock but not the count.
ResetLockOnly(a) ==
  /\ At(a, "right")
  /\ row' = [row EXCEPT !.until = Never]
  /\ clean' = (Reading = {a}) /\ forgiven' = Len(wrongs)
  /\ Ends(a)
  /\ UNCHANGED <<now, wrongs, stale>>

\* persist_success_reset, and the session is made.
PersistReset(a) ==
  /\ At(a, "right")
  /\ row' = Fresh
  /\ clean' = (Reading = {a}) /\ forgiven' = Len(wrongs)
  /\ Ends(a)
  /\ UNCHANGED <<now, wrongs, stale>>

\* Either write is best effort: its error is dropped.
LoseWrite(a) ==
  /\ try[a].step \in {"wrong", "right"}
  /\ clean' = FALSE
  /\ Ends(a)
  /\ UNCHANGED <<now, row, wrongs, forgiven, stale>>

Tick ==
  /\ now < MaxTime
  /\ now' = now + 1
  /\ UNCHANGED <<row, try, history>>

Next ==
  \/ \E a \in Tries :
       \/ SubmitForm(a) \/ SubmitDirectly(a) \/ LookUp(a)
       \/ FindByUsername(a) \/ AlreadyLocked(a)
       \/ \E right \in BOOLEAN : Verify(a, right)
       \/ PersistFailed(a) \/ PersistReset(a) \/ LoseWrite(a)
  \/ Tick

Spec == Init /\ [][Next]_vars

-----------------------------------------------------------------------------
\* A count of k with a last failure at t stands for k wrong passwords that
\* were checked one after the other up to t, each less than a window after the
\* one before it.
Earned(k, t) ==
  \E i \in DOMAIN wrongs :
    /\ wrongs[i] = t /\ k <= i
    /\ \A j \in i - k + 2 .. i : wrongs[j] - wrongs[j - 1] < Window

\* The counter may lose failures to overlapping attempts but never makes one
\* up: whatever the interleaving and whichever writes are lost, a lock stands
\* for Threshold wrong passwords no window apart (evaluate_password_login).
LockIsEarned ==
  /\ row.failed > 0 => Earned(row.failed, row.last)
  /\ row.until # Never =>
       row.failed >= Threshold /\ row.until = row.last + Duration

\* While a lock is in force no request gets as far as a password but those
\* that read the row before it; only they may still end the lock or extend it
\* (is_currently_locked before the hash, on every surface).
LockStopsAttempts ==
  LockedAt(row, now) =>
    \A a \in Tries : try[a].step \in {"wrong", "right"} => a \in stale

\* The last k wrong passwords came after the last reset, each within a window
\* of the one before.
Run(k) ==
  /\ k <= Len(wrongs) - forgiven
  /\ \A j \in Len(wrongs) - k + 2 .. Len(wrongs) :
       wrongs[j] - wrongs[j - 1] < Window

\* Attempts made one at a time, whose writes succeed, are counted exactly: the
\* row of a settled account holds the present run of wrong passwords and is
\* locked just when that run has reached the threshold.
CountIsExact ==
  clean /\ Reading = {} =>
    LET none == forgiven = Len(wrongs) IN
    /\ none => row = Fresh
    /\ ~none => /\ row.last = wrongs[Len(wrongs)]
                /\ Run(row.failed) /\ ~Run(row.failed + 1)
                /\ row.until = IF row.failed >= Threshold
                               THEN row.last + Duration ELSE Never
=============================================================================
