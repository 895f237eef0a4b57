---------------------------- MODULE LockoutProofs ----------------------------
(***************************************************************************)
(* Proofs about Lockout, for any number of overlapping attempts and any    *)
(* lockout configuration.                                                  *)
(***************************************************************************)
EXTENDS Lockout, TLAPS

\* The history is in the order of the clock.
Ordered ==
  /\ \A i \in DOMAIN wrongs : wrongs[i] <= now
  /\ \A i, j \in DOMAIN wrongs : i <= j => wrongs[i] <= wrongs[j]

EarnedRow(r) ==
  /\ r.failed > 0 => Earned(r.failed, r.last)
  /\ r.until # Never => r.failed >= Threshold /\ r.until = r.last + Duration

\* What the row holds, what a request has read of it, and what it will write.
AllEarned ==
  /\ EarnedRow(row)
  /\ \A a \in Tries :
       /\ At(a, "check") => EarnedRow(try[a].seen)
       /\ At(a, "wrong") => EarnedRow(NextFailed(try[a].seen, try[a].at))

\* A request that read the row after the present lock has seen the lock, and
\* has not got past it.
LockIsSeen ==
  LockedAt(row, now) =>
    \A a \in Reading \ stale :
      At(a, "check") /\ try[a].seen.until = row.until

LInv == TypeOK /\ Ordered /\ AllEarned /\ LockIsSeen

\* The first n wrong passwords end in k of them since the last reset, each
\* within a window of the one before: Run for a shorter history.
RunOf(n, k) ==
  /\ k <= n - forgiven
  /\ \A j \in n - k + 2 .. n : wrongs[j] - wrongs[j - 1] < Window

\* Row r is what the first n wrong passwords make it.
Exact(r, n) ==
  IF n = forgiven THEN r = Fresh
  ELSE /\ r.last = wrongs[n]
       /\ RunOf(n, r.failed) /\ ~RunOf(n, r.failed + 1)
       /\ r.until = IF r.failed >= Threshold THEN r.last + Duration ELSE Never

\* While attempts come one at a time, one of them at most has read the row,
\* has it still as it is, and has one wrong password to add to it at most.
OneAtATime ==
  clean =>
    /\ \A a, b \in Reading : a = b
    /\ \A a \in Reading : try[a].seen = row
    /\ (\A a \in Reading : ~At(a, "wrong")) => Exact(row, Len(wrongs))
    /\ \A a \in Reading : At(a, "wrong") =>
         /\ Len(wrongs) > forgiven /\ try[a].at = wrongs[Len(wrongs)]
         /\ Exact(row, Len(wrongs) - 1)

LEMMA FreshIsARow == Fresh \in Row /\ NoTry \in Try /\ NoTry.step = "idle"
                     /\ EarnedRow(Fresh) /\ ~LockedAt(Fresh, 0)
  BY LockoutAssumption
     DEF Fresh, Row, Never, NoTry, Try, Times, EarnedRow, LockedAt

LEMMA NextFailedIsARow ==
  ASSUME NEW r \in Row, NEW t \in Times
  PROVE  /\ NextFailed(r, t) \in Row
         /\ NextFailed(r, t).last = t
         /\ NextFailed(r, t).failed \in {1, r.failed + 1}
         /\ NextFailed(r, t).failed # 1 =>
              r.last # Never /\ t - r.last < Window
         /\ NextFailed(r, t).until # Never =>
              /\ NextFailed(r, t).failed >= Threshold
              /\ NextFailed(r, t).until = t + Duration
<1> DEFINE within == r.last # Never /\ t - r.last < Window
           count == IF within THEN r.failed + 1 ELSE 1
           until == IF count >= Threshold THEN t + Duration ELSE Never
<1>1. NextFailed(r, t) = [failed |-> count, last |-> t, until |-> until]
  BY DEF NextFailed
<1>2. count \in Nat /\ count \in {1, r.failed + 1} /\ (count # 1 => within)
  BY DEF Row
<1>3. until \in 0 .. MaxTime + Duration \cup {Never}
  BY LockoutAssumption DEF Times
<1>4. until # Never => count >= Threshold /\ until = t + Duration
  OBVIOUS
<1>5. [failed |-> count, last |-> t, until |-> until] \in Row
  BY <1>2, <1>3 DEF Row
<1> QED
  BY <1>1, <1>2, <1>4, <1>5

LEMMA LockoutInit == Init => LInv
  BY FreshIsARow, LockoutAssumption
     DEF Init, LInv, TypeOK, Times, Ordered, AllEarned, LockIsSeen, Reading, At

\* A longer history earns what a shorter one did.
LEMMA EarnedStays ==
  ASSUME TypeOK, NEW t \in Times, wrongs' = Append(wrongs, t),
         NEW k \in Nat, NEW u, Earned(k, u)
  PROVE  Earned(k, u)'
<1>1. PICK i \in DOMAIN wrongs :
        /\ wrongs[i] = u /\ k <= i
        /\ \A j \in i - k + 2 .. i : wrongs[j] - wrongs[j - 1] < Window
  BY DEF Earned
<1>2. \A j \in 1 .. Len(wrongs) : j \in DOMAIN wrongs' /\ wrongs'[j] = wrongs[j]
  BY DEF TypeOK
<1>3. i \in 1 .. Len(wrongs)
  BY DEF TypeOK
<1>4. \A j \in i - k + 2 .. i : wrongs'[j] - wrongs'[j - 1] < Window
  <2> SUFFICES ASSUME NEW j \in i - k + 2 .. i
               PROVE  wrongs'[j] - wrongs'[j - 1] < Window
    OBVIOUS
  <2>1. j \in 1 .. Len(wrongs) /\ j - 1 \in 1 .. Len(wrongs)
    BY <1>1, <1>3
  <2> QED
    BY <1>1, <1>2, <2>1
<1> QED
  BY <1>1, <1>2, <1>3, <1>4 DEF Earned

LEMMA Differences ==
  \A x, y, z, t, w \in Int : x <= t /\ y >= z /\ t - z < w => x - y < w
  OBVIOUS

\* One more wrong password within the window earns one more.
LEMMA EarnsOneMore ==
  ASSUME TypeOK, Ordered, NEW t \in Times, t = now, wrongs' = Append(wrongs, t),
         NEW r \in Row, EarnedRow(r), NEW n \in Row, n = NextFailed(r, t)
  PROVE  EarnedRow(n)'
<1> DEFINE len == Len(wrongs) + 1
<1>2. /\ n.last = t /\ n.failed \in {1, r.failed + 1}
      /\ n.failed # 1 => r.last # Never /\ t - r.last < Window
      /\ n.until # Never => n.failed >= Threshold /\ n.until = t + Duration
  BY NextFailedIsARow
<1>3. /\ len \in DOMAIN wrongs' /\ wrongs'[len] = t /\ len \in Nat
      /\ \A j \in 1 .. Len(wrongs) : wrongs'[j] = wrongs[j]
  BY DEF TypeOK
<1>4. Window \in Nat \ {0} /\ Len(wrongs) \in Nat /\ r.failed \in Nat
  BY LockoutAssumption DEF TypeOK, Row
<1>5. Earned(n.failed, t)'
  <2>1. CASE n.failed = 1
    <3>1. \A j \in len - 1 + 2 .. len : FALSE
      BY <1>3
    <3>2. 1 <= len
      BY <1>4
    <3> QED
      BY <1>3, <2>1, <3>1, <3>2 DEF Earned
  <2>2. CASE n.failed # 1
    <3>1. n.failed = r.failed + 1 /\ r.failed > 0 /\ t - r.last < Window
      BY <1>2, <1>4, <2>2
    <3>2. PICK i \in DOMAIN wrongs :
            /\ wrongs[i] = r.last /\ r.failed <= i
            /\ \A j \in i - r.failed + 2 .. i :
                 wrongs[j] - wrongs[j - 1] < Window
      BY <3>1 DEF EarnedRow, Earned
    <3>3. i \in 1 .. Len(wrongs) /\ DOMAIN wrongs = 1 .. Len(wrongs)
      BY DEF TypeOK
    <3>4. \A j \in 1 .. Len(wrongs) : wrongs[j] \in Int
      <4>1. \A j \in 1 .. Len(wrongs) : wrongs[j] \in Times
        BY DEF TypeOK
      <4>2. Times \subseteq Int
        BY LockoutAssumption DEF Times
      <4> QED
        BY <4>1, <4>2
    <3>5. ASSUME NEW j \in len - n.failed + 2 .. len
          PROVE  wrongs'[j] - wrongs'[j - 1] < Window
      <4>1. j \in 2 .. len /\ j - 1 \in 1 .. Len(wrongs)
        BY <1>4, <3>1, <3>2, <3>3
      <4>2. CASE j <= i
        <5>1. j \in i - r.failed + 2 .. i /\ j \in 1 .. Len(wrongs)
          BY <1>4, <3>1, <3>3, <4>1, <4>2
        <5> QED
          BY <1>3, <3>2, <4>1, <5>1
      <4>3. CASE j > i
        <5>1. wrongs[j - 1] >= r.last
          BY <3>2, <3>3, <4>1, <4>3 DEF Ordered
        <5>2. wrongs'[j] <= t
          <6>1. CASE j = len
            BY <1>3, <6>1 DEF Times
          <6>2. CASE j # len
            <7>1. j \in 1 .. Len(wrongs)
              BY <4>1, <6>2, <1>4
            <7> QED
              BY <1>3, <3>3, <7>1 DEF Ordered
          <6> QED
            BY <6>1, <6>2
        <5>3. wrongs'[j - 1] = wrongs[j - 1]
          BY <1>3, <4>1
        <5>4. wrongs'[j] \in Int /\ wrongs[j - 1] \in Int /\ r.last \in Int
              /\ t \in Int
          <6>1. wrongs'[j] = t \/ j \in 1 .. Len(wrongs)
            BY <1>3, <1>4, <4>1
          <6> QED
            BY <1>3, <3>2, <3>3, <3>4, <4>1, <6>1 DEF Times
        <5>5. Window \in Int /\ t - r.last < Window
          BY <1>4, <3>1
        <5>6. wrongs'[j] - wrongs[j - 1] < Window
          BY <5>1, <5>2, <5>4, <5>5, Differences
        <5> QED
          BY <5>3, <5>6
      <4> QED
        BY <3>3, <4>1, <4>2, <4>3
    <3>6. n.failed <= len
      BY <1>4, <3>1, <3>2, <3>3
    <3> QED
      BY <1>3, <3>5, <3>6 DEF Earned
  <2> QED
    BY <2>1, <2>2
<1> QED
  BY <1>2, <1>5 DEF EarnedRow

\* A step that leaves the row, the clock and the history of failures alone,
\* and touches one request, which then holds nothing or what the row holds.
LEMMA OneTry ==
  ASSUME LInv, NEW a \in Tries, NEW r \in Try,
         try' = [try EXCEPT ![a] = r],
         r.step \in {"idle", "pre", "find"} \/ (r.step = "check" /\ r.seen = row),
         UNCHANGED <<now, row, wrongs>>,
         forgiven' \in 0 .. Len(wrongs), clean' \in BOOLEAN,
         stale' \in {stale, stale \ {a}}
  PROVE  LInv'
<1>1. /\ try' \in [Tries -> Try] /\ try'[a] = r
      /\ \A b \in Tries \ {a} : try'[b] = try[b]
  BY DEF LInv, TypeOK
<1>2. TypeOK' /\ Ordered'
  BY <1>1 DEF LInv, TypeOK, Ordered
<1>3. \A q : EarnedRow(q) => EarnedRow(q)'
  BY DEF EarnedRow, Earned
<1>4. AllEarned'
  <2>1. EarnedRow(row)'
    BY DEF LInv, AllEarned, EarnedRow, Earned
  <2>2. ASSUME NEW b \in Tries
        PROVE  (/\ At(b, "check") => EarnedRow(try[b].seen)
                /\ At(b, "wrong") =>
                     EarnedRow(NextFailed(try[b].seen, try[b].at)))'
    <3>1. CASE b = a
      BY <1>1, <1>3, <3>1 DEF LInv, AllEarned, At
    <3>2. CASE b # a
      BY <1>1, <1>3, <3>2 DEF LInv, AllEarned, At
    <3> QED
      BY <3>1, <3>2
  <2> QED
    BY <2>1, <2>2 DEF AllEarned
<1>5. LockIsSeen'
  BY <1>1 DEF LInv, LockIsSeen, LockedAt, Reading, At
<1> QED
  BY <1>2, <1>4, <1>5 DEF LInv

LEMMA FormKeeps ==
  \A a \in Tries :
    LInv /\ (SubmitForm(a) \/ SubmitDirectly(a) \/ LookUp(a) \/ FindByUsername(a)
             \/ AlreadyLocked(a)) => LInv'
<1> SUFFICES ASSUME NEW a \in Tries, LInv PROVE
      (SubmitForm(a) \/ SubmitDirectly(a) \/ LookUp(a) \/ FindByUsername(a)
       \/ AlreadyLocked(a)) => LInv'
  OBVIOUS
<1>1. /\ forgiven \in 0 .. Len(wrongs) /\ clean \in BOOLEAN /\ now \in Times
      /\ row \in Row /\ try[a] \in Try /\ 0 \in Times
  BY LockoutAssumption DEF LInv, TypeOK, Times
<1>2. ASSUME SubmitForm(a) PROVE LInv'
  <2>1. PICK r \in Try : r = [try[a] EXCEPT !.step = "pre", !.at = now]
    BY <1>1 DEF Try
  <2>2. r.step \in {"pre", "find"} /\ try' = [try EXCEPT ![a] = r]
    BY <1>1, <1>2, <2>1 DEF SubmitForm, Try
  <2> QED
    BY <1>1, <1>2, <2>2, OneTry DEF SubmitForm, history
<1>3. ASSUME SubmitDirectly(a) PROVE LInv'
  <2>1. PICK r \in Try : r = [try[a] EXCEPT !.step = "find"]
    BY <1>1 DEF Try
  <2>2. r.step \in {"pre", "find"} /\ try' = [try EXCEPT ![a] = r]
    BY <1>1, <1>3, <2>1 DEF SubmitDirectly, Try
  <2> QED
    BY <1>1, <1>3, <2>2, OneTry DEF SubmitDirectly, history
<1>4. ASSUME LookUp(a) PROVE LInv'
  <2>1. CASE Ends(a)
    BY <1>1, <1>4, <2>1, OneTry, FreshIsARow DEF LookUp, Ends, history
  <2>2. CASE ~Ends(a)
    <3>1. PICK r \in Try : r = [try[a] EXCEPT !.step = "find", !.at = 0]
      BY <1>1 DEF Try
    <3>2. r.step = "find" /\ try' = [try EXCEPT ![a] = r]
      BY <1>1, <1>4, <2>2, <3>1 DEF LookUp, Try
    <3> QED
      BY <1>1, <1>4, <3>2, OneTry DEF LookUp, history
  <2> QED
    BY <2>1, <2>2
<1>5. ASSUME FindByUsername(a) PROVE LInv'
  <2>1. PICK r \in Try : r = [try[a] EXCEPT !.step = "check", !.seen = row]
    BY <1>1 DEF Try
  <2>2. r.step = "check" /\ r.seen = row /\ try' = [try EXCEPT ![a] = r]
    BY <1>1, <1>5, <2>1 DEF FindByUsername, Try
  <2>3. /\ UNCHANGED <<now, row, wrongs, forgiven>> /\ clean' \in BOOLEAN
        /\ stale' = stale \ {a}
    BY <1>1, <1>5 DEF FindByUsername
  <2> QED
    BY <1>1, <2>2, <2>3, OneTry
<1>6. ASSUME AlreadyLocked(a) PROVE LInv'
  BY <1>1, <1>6, OneTry, FreshIsARow DEF AlreadyLocked, Ends, history
<1> QED
  BY <1>2, <1>3, <1>4, <1>5, <1>6

\* The password is verified, and a wrong one enters the history.
LEMMA VerifyKeeps ==
  \A a \in Tries, right \in BOOLEAN : LInv /\ Verify(a, right) => LInv'
<1> SUFFICES ASSUME NEW a \in Tries, NEW right \in BOOLEAN, LInv, Verify(a, right)
             PROVE  LInv'
  OBVIOUS
<1> DEFINE s == IF right THEN "right" ELSE "wrong"
           r == [try[a] EXCEPT !.step = s, !.at = now]
<1>1. /\ try' = [try EXCEPT ![a] = r] /\ At(a, "check")
      /\ ~LockedAt(try[a].seen, now)
      /\ UNCHANGED <<now, row, forgiven, clean, stale>>
  BY DEF Verify
<1>2. /\ r \in Try /\ r.step = s /\ r.at = now /\ r.seen = try[a].seen
      /\ now \in Times /\ try[a].seen \in Row
  BY DEF LInv, TypeOK, Try
<1>3. /\ try' \in [Tries -> Try] /\ try'[a] = r
      /\ \A b \in Tries \ {a} : try'[b] = try[b]
  BY <1>1, <1>2 DEF LInv, TypeOK
<1>4. s \in {"right", "wrong"} /\ s # "check" /\ (s = "wrong" => ~right)
  OBVIOUS
<1> HIDE DEF r, s
<1>5. (right /\ wrongs' = wrongs) \/ (~right /\ wrongs' = Append(wrongs, now))
  BY DEF Verify
<1>6. wrongs' \in Seq(Times) /\ forgiven \in 0 .. Len(wrongs')
  BY <1>2, <1>5 DEF LInv, TypeOK
<1>7. TypeOK'
  BY <1>1, <1>3, <1>6 DEF LInv, TypeOK
<1>8. Ordered'
  <2>1. CASE wrongs' = wrongs
    BY <1>1, <2>1 DEF LInv, Ordered
  <2>2. CASE wrongs' = Append(wrongs, now)
    <3> DEFINE len == Len(wrongs) + 1
    <3>1. /\ DOMAIN wrongs' = 1 .. len /\ wrongs'[len] = now /\ len \in Nat
          /\ \A i \in 1 .. Len(wrongs) : wrongs'[i] = wrongs[i]
          /\ DOMAIN wrongs = 1 .. Len(wrongs)
          /\ \A i \in DOMAIN wrongs' : i \in DOMAIN wrongs \/ i = len
      BY <2>2 DEF LInv, TypeOK
    <3>2. now <= now
      BY <1>2 DEF Times
    <3>3. \A i \in DOMAIN wrongs' : wrongs'[i] <= now
      BY <3>1, <3>2 DEF LInv, Ordered
    <3>4. ASSUME NEW i \in DOMAIN wrongs', NEW j \in DOMAIN wrongs', i <= j
          PROVE  wrongs'[i] <= wrongs'[j]
      <4>1. CASE j = len
        BY <3>1, <3>3, <4>1
      <4>2. CASE j # len
        <5>1. i \in DOMAIN wrongs /\ j \in DOMAIN wrongs
          BY <3>1, <3>4, <4>2
        <5> QED
          BY <3>1, <3>4, <5>1 DEF LInv, Ordered
      <4> QED
        BY <4>1, <4>2
    <3> QED
      BY <1>1, <3>3, <3>4 DEF Ordered
  <2> QED
    BY <1>5, <2>1, <2>2
<1>9. ASSUME NEW q \in Row, EarnedRow(q) PROVE EarnedRow(q)'
  <2>1. q.failed \in Nat
    BY DEF Row
  <2>2. CASE wrongs' = wrongs
    BY <1>9, <2>2 DEF EarnedRow, Earned
  <2>3. CASE wrongs' = Append(wrongs, now)
    BY <1>2, <1>9, <2>1, <2>3, EarnedStays DEF LInv, EarnedRow
  <2> QED
    BY <1>5, <2>2, <2>3
<1>10. AllEarned'
  <2>1. EarnedRow(row)'
    <3>1. row \in Row /\ EarnedRow(row)
      BY DEF LInv, TypeOK, AllEarned
    <3>2. \A q \in Row : q = row => EarnedRow(q)'
      BY <1>9, <3>1
    <3>3. PICK q \in Row : q = row
      BY <3>1
    <3> QED
      BY <1>1, <3>2, <3>3 DEF EarnedRow, Earned
  <2>2. ASSUME NEW b \in Tries
        PROVE  (/\ At(b, "check") => EarnedRow(try[b].seen)
                /\ At(b, "wrong") =>
                     EarnedRow(NextFailed(try[b].seen, try[b].at)))'
    <3>1. CASE b = a
      <4>1. ASSUME ~right PROVE EarnedRow(NextFailed(try[b].seen, try[b].at))'
        <5>1. /\ wrongs' = Append(wrongs, now) /\ EarnedRow(try[a].seen)
              /\ TypeOK /\ Ordered
          BY <1>1, <1>5, <4>1 DEF LInv, AllEarned
        <5>2. NextFailed(try[a].seen, now) \in Row
          BY <1>2, NextFailedIsARow
        <5>3. PICK n \in Row : n = NextFailed(try[a].seen, now)
          BY <5>2
        <5>4. EarnedRow(n)'
          BY <1>2, <5>1, <5>3, EarnsOneMore
        <5>5. NextFailed(try[b].seen, try[b].at)' = n
          BY <1>2, <1>3, <3>1, <5>3 DEF NextFailed
        <5> QED
          BY <5>4, <5>5 DEF EarnedRow, Earned
      <4> QED
        BY <1>2, <1>3, <1>4, <3>1, <4>1 DEF At
    <3>2. CASE b # a
      <4>1. try'[b] = try[b] /\ try[b] \in Try
        BY <1>3, <3>2 DEF LInv, TypeOK
      <4>2. try[b].seen \in Row /\ try[b].at \in Times
        BY <4>1 DEF Try
      <4>3. NextFailed(try[b].seen, try[b].at) \in Row
        BY <4>2, NextFailedIsARow
      <4>4. PICK q \in Row, n \in Row :
              q = try[b].seen /\ n = NextFailed(try[b].seen, try[b].at)
        BY <4>2, <4>3
      <4>5. (At(b, "check") => EarnedRow(q)') /\ (At(b, "wrong") => EarnedRow(n)')
        BY <1>9, <4>4 DEF LInv, AllEarned
      <4>6. q = (try[b].seen)' /\ n = NextFailed(try[b].seen, try[b].at)'
        BY <4>1, <4>4 DEF NextFailed
      <4> QED
        BY <4>1, <4>5, <4>6 DEF EarnedRow, Earned, At
    <3> QED
      BY <3>1, <3>2
  <2> QED
    BY <2>1, <2>2 DEF AllEarned
<1>11. LockIsSeen'
  <2>1. ASSUME LockedAt(row, now), a \in Reading \ stale PROVE FALSE
    BY <1>1, <2>1 DEF LInv, LockIsSeen, LockedAt
  <2>2. a \in Reading
    BY <1>1 DEF Reading, At
  <2>3. \A b \in Reading' \ stale' : b # a => b \in Reading \ stale
    BY <1>1, <1>3 DEF Reading
  <2> QED
    BY <1>1, <1>3, <2>1, <2>2, <2>3 DEF LInv, LockIsSeen, LockedAt, At
<1> QED
  BY <1>7, <1>8, <1>10, <1>11 DEF LInv

\* A write: the row becomes what the request makes of it, and the request ends.
LEMMA WriteKeeps ==
  ASSUME LInv, NEW a \in Tries, Ends(a), row' \in Row, EarnedRow(row)',
         UNCHANGED <<now, wrongs>>, forgiven' \in 0 .. Len(wrongs),
         clean' \in BOOLEAN, stale' \subseteq Tries,
         \/ row' = row /\ stale' = stale
         \/ ~LockedAt(row', now)
         \/ stale' = Reading \ {a}
  PROVE  LInv'
<1>1. /\ try' \in [Tries -> Try] /\ At(a, "idle")'
      /\ \A b \in Tries \ {a} : try'[b] = try[b]
  BY FreshIsARow DEF LInv, TypeOK, Ends, At
<1>2. TypeOK' /\ Ordered'
  BY <1>1 DEF LInv, TypeOK, Ordered
<1>3. AllEarned'
  <2>1. ASSUME NEW b \in Tries
        PROVE  (/\ At(b, "check") => EarnedRow(try[b].seen)
                /\ At(b, "wrong") =>
                     EarnedRow(NextFailed(try[b].seen, try[b].at)))'
    <3>1. CASE b = a
      BY <1>1, <3>1 DEF At
    <3>2. CASE b # a
      BY <1>1, <3>2 DEF LInv, AllEarned, At, EarnedRow, Earned, NextFailed
    <3> QED
      BY <3>1, <3>2
  <2> QED
    BY <2>1 DEF AllEarned
<1>4. LockIsSeen'
  <2>1. Reading' \subseteq Reading \ {a}
    BY <1>1 DEF Reading, At
  <2>2. \A b \in Reading' : try'[b] = try[b]
    BY <1>1, <2>1 DEF Reading
  <2> QED
    BY <2>1, <2>2 DEF LInv, LockIsSeen, LockedAt, At
<1> QED
  BY <1>2, <1>3, <1>4 DEF LInv

LEMMA WritesKeep ==
  \A a \in Tries :
    LInv /\ (PersistFailed(a) \/ PersistReset(a) \/ LoseWrite(a)) => LInv'
<1> SUFFICES ASSUME NEW a \in Tries, LInv PROVE
      (PersistFailed(a) \/ PersistReset(a) \/ LoseWrite(a)) => LInv'
  OBVIOUS
<1>1. /\ forgiven \in 0 .. Len(wrongs) /\ clean \in BOOLEAN /\ row \in Row
      /\ stale \subseteq Tries /\ Reading \ {a} \subseteq Tries /\ now \in Times
      /\ Len(wrongs) \in 0 .. Len(wrongs) /\ try[a] \in Try
  BY DEF LInv, TypeOK, Reading
<1>2. ASSUME PersistFailed(a) PROVE LInv'
  <2>1. row' = NextFailed(try[a].seen, try[a].at) /\ At(a, "wrong")
        /\ UNCHANGED <<now, wrongs, forgiven, clean>> /\ Ends(a)
        /\ stale' \in {stale, Reading \ {a}}
        /\ (LockedAt(row', now) => stale' = Reading \ {a})
    BY <1>2 DEF PersistFailed
  <2>2. row' \in Row
    BY <1>1, <2>1, NextFailedIsARow DEF Try
  <2>3. EarnedRow(row)'
    <3>1. EarnedRow(NextFailed(try[a].seen, try[a].at))
      BY <2>1 DEF LInv, AllEarned
    <3>2. EarnedRow(row')
      BY <2>1, <3>1
    <3> QED
      BY <2>1, <3>2 DEF EarnedRow, Earned
  <2> QED
    BY <1>1, <2>1, <2>2, <2>3, WriteKeeps
<1>3. ASSUME PersistReset(a) PROVE LInv'
  <2>1. /\ row' = Fresh /\ Ends(a) /\ UNCHANGED <<now, wrongs, stale>>
        /\ clean' \in BOOLEAN /\ forgiven' = Len(wrongs)
    BY <1>3 DEF PersistReset
  <2>2. ~LockedAt(row', now)
    BY <1>1, <2>1, LockoutAssumption DEF LockedAt, Fresh, Never, Times
  <2>3. EarnedRow(row)'
    BY <2>1 DEF EarnedRow, Fresh, Never
  <2> QED
    BY <1>1, <2>1, <2>2, <2>3, FreshIsARow, WriteKeeps
<1>4. ASSUME LoseWrite(a) PROVE LInv'
  <2>1. Ends(a) /\ clean' = FALSE /\ UNCHANGED <<now, row, wrongs, forgiven, stale>>
    BY <1>4 DEF LoseWrite
  <2>2. EarnedRow(row)'
    BY <2>1 DEF LInv, AllEarned, EarnedRow, Earned
  <2> QED
    BY <1>1, <2>1, <2>2, WriteKeeps
<1> QED
  BY <1>2, <1>3, <1>4

LEMMA TickKeeps == LInv /\ Tick => LInv'
<1> SUFFICES ASSUME LInv, Tick PROVE LInv'
  OBVIOUS
<1>1. /\ now' = now + 1 /\ now \in Times /\ now' \in Times
      /\ UNCHANGED <<row, try, wrongs, forgiven, clean, stale>>
  BY LockoutAssumption DEF LInv, TypeOK, Tick, history, Times
<1>2. TypeOK'
  BY <1>1 DEF LInv, TypeOK
<1>3. Ordered'
  <2>1. \A i \in DOMAIN wrongs : wrongs[i] \in Times
    BY DEF LInv, TypeOK
  <2>2. \A x \in Times : x <= now => x <= now + 1
    BY <1>1, LockoutAssumption DEF Times
  <2>3. \A i \in DOMAIN wrongs : wrongs[i] <= now + 1
    BY <2>1, <2>2 DEF LInv, Ordered
  <2> QED
    BY <1>1, <2>3 DEF LInv, Ordered
<1>4. AllEarned'
  BY <1>1 DEF LInv, AllEarned, EarnedRow, Earned, At, NextFailed
<1>5. LockIsSeen'
  <2>1. row.until \in Int /\ now \in Int
    BY <1>1, LockoutAssumption DEF LInv, TypeOK, Row, Times, Never
  <2>2. LockedAt(row, now + 1) => LockedAt(row, now)
    BY <2>1 DEF LockedAt
  <2> QED
    BY <1>1, <2>2 DEF LInv, LockIsSeen, LockedAt, Reading, At
<1> QED
  BY <1>2, <1>3, <1>4, <1>5 DEF LInv

LEMMA LockoutNext == LInv /\ [Next]_vars => LInv'
<1> SUFFICES ASSUME LInv, [Next]_vars PROVE LInv'
  OBVIOUS
<1>1. CASE Next
  BY <1>1, FormKeeps, VerifyKeeps, WritesKeep, TickKeeps DEF Next
<1>2. CASE UNCHANGED vars
  BY <1>2 DEF vars, LInv, TypeOK, Ordered, AllEarned, LockIsSeen, LockedAt,
     Reading, At, EarnedRow, Earned, NextFailed
<1> QED
  BY <1>1, <1>2

\* The variables keep their types.
THEOREM LockoutTypes == Spec => []TypeOK
<1>1. LInv => TypeOK
  BY DEF LInv
<1> QED
  BY <1>1, LockoutInit, LockoutNext, PTL DEF Spec

\* However attempts overlap and whichever writes are lost, a lock stands for
\* Threshold wrong passwords, no window apart.
THEOREM LocksAreEarned == Spec => []LockIsEarned
<1>1. LInv => LockIsEarned
  BY DEF LInv, AllEarned, EarnedRow, LockIsEarned
<1> QED
  BY <1>1, LockoutInit, LockoutNext, PTL DEF Spec

\* A lock in force stops every attempt that reads the row after it.
THEOREM LocksStopAttempts == Spec => []LockStopsAttempts
<1>1. LInv => LockStopsAttempts
  BY DEF LInv, LockIsSeen, LockStopsAttempts, Reading, At
<1> QED
  BY <1>1, LockoutInit, LockoutNext, PTL DEF Spec
-----------------------------------------------------------------------------
\* The exact count, while attempts come one at a time.

LEMMA WrongsAreTimes ==
  ASSUME TypeOK
  PROVE  /\ Len(wrongs) \in Nat /\ DOMAIN wrongs = 1 .. Len(wrongs)
         /\ \A j \in 1 .. Len(wrongs) : wrongs[j] \in Times /\ wrongs[j] \in Nat
         /\ forgiven \in Nat /\ forgiven <= Len(wrongs)
  BY LockoutAssumption DEF TypeOK, Times

\* A run grows by a wrong password within the window of its last one.
LEMMA RunGrows ==
  ASSUME forgiven \in Nat, NEW n \in Nat, NEW k \in Nat
  PROVE  /\ RunOf(n, k) /\ wrongs[n + 1] - wrongs[n] < Window => RunOf(n + 1, k + 1)
         /\ RunOf(n + 1, k + 1) => RunOf(n, k)
<1>1. /\ k <= n - forgiven <=> k + 1 <= (n + 1) - forgiven
      /\ (n + 1) - 1 = n
      /\ \A j \in (n + 1) - (k + 1) + 2 .. n + 1 : j = n + 1 \/ j \in n - k + 2 .. n
      /\ \A j \in n - k + 2 .. n : j \in (n + 1) - (k + 1) + 2 .. n + 1
  OBVIOUS
<1>2. ASSUME RunOf(n, k), wrongs[n + 1] - wrongs[n] < Window
      PROVE  RunOf(n + 1, k + 1)
  <2>1. ASSUME NEW j \in (n + 1) - (k + 1) + 2 .. n + 1
        PROVE  wrongs[j] - wrongs[j - 1] < Window
    BY <1>1, <1>2 DEF RunOf
  <2>2. QED
    BY <1>1, <1>2, <2>1 DEF RunOf
<1>3. RunOf(n + 1, k + 1) => RunOf(n, k)
  BY <1>1 DEF RunOf
<1>4. QED
  BY <1>2, <1>3

\* A row that is exact for the first n wrong passwords is made exact for one
\* more by next_failed_state.
LEMMA CountsOneMore ==
  ASSUME TypeOK, NEW r \in Row, NEW n \in Nat, forgiven <= n, n < Len(wrongs),
         Exact(r, n)
  PROVE  Exact(NextFailed(r, wrongs[n + 1]), n + 1)
<1> DEFINE t == wrongs[n + 1]
           within == r.last # Never /\ t - r.last < Window
           count == IF within THEN r.failed + 1 ELSE 1
           until == IF count >= Threshold THEN t + Duration ELSE Never
<1>1. NextFailed(r, t) = [failed |-> count, last |-> t, until |-> until]
  BY DEF NextFailed
<1>2. /\ t \in Nat /\ r.failed \in Nat /\ forgiven \in Nat /\ Window \in Nat
      /\ n + 1 # forgiven
      /\ n # forgiven => n \in 1 .. Len(wrongs) /\ wrongs[n] \in Nat
  BY WrongsAreTimes, LockoutAssumption DEF Row
<1>3. RunOf(n + 1, count) /\ ~RunOf(n + 1, count + 1)
  <2>1. CASE n = forgiven
    <3>1. r.last = Never
      BY <2>1 DEF Exact, Fresh
    <3>2. count = 1
      BY <3>1
    <3>3. \A j \in n + 1 - 1 + 2 .. n + 1 : FALSE
      OBVIOUS
    <3>4. QED
      BY <1>2, <2>1, <3>2, <3>3 DEF RunOf
  <2>2. CASE n # forgiven
    <3>1. r.last = wrongs[n] /\ RunOf(n, r.failed) /\ ~RunOf(n, r.failed + 1)
      BY <2>2 DEF Exact
    <3>2. r.failed >= 1
      <4>1. \A j \in n - 1 + 2 .. n : FALSE
        OBVIOUS
      <4>2. RunOf(n, 1)
        BY <1>2, <2>2, <4>1 DEF RunOf
      <4>3. QED
        BY <1>2, <3>1, <4>2
    <3>3. within <=> wrongs[n + 1] - wrongs[n] < Window
      BY <1>2, <2>2, <3>1 DEF Never
    <3>4. CASE within
      <4>1. count = r.failed + 1
        BY <3>4
      <4>2. RunOf(n + 1, r.failed + 1)
        BY <1>2, <3>1, <3>3, <3>4, RunGrows
      <4>3. ~RunOf(n + 1, (r.failed + 1) + 1)
        BY <1>2, <3>1, RunGrows
      <4>4. QED
        BY <4>1, <4>2, <4>3
    <3>5. CASE ~within
      <4>1. count = 1
        BY <3>5
      <4>2. \A j \in n + 1 - 1 + 2 .. n + 1 : FALSE
        OBVIOUS
      <4>3. RunOf(n + 1, 1)
        BY <1>2, <2>2, <4>2 DEF RunOf
      <4>4. n + 1 \in (n + 1) - 2 + 2 .. n + 1 /\ (n + 1) - 1 = n
        OBVIOUS
      <4>5. ~RunOf(n + 1, 2)
        BY <3>3, <3>5, <4>4 DEF RunOf
      <4>6. QED
        BY <4>1, <4>3, <4>5
    <3>6. QED
      BY <3>4, <3>5
  <2>3. QED
    BY <2>1, <2>2
<1>4. QED
  BY <1>1, <1>2, <1>3 DEF Exact

\* One more wrong password in the history leaves the account of the others.
LEMMA ExactStays ==
  ASSUME TypeOK, NEW t \in Times, wrongs' = Append(wrongs, t), forgiven' = forgiven,
         NEW r \in Row, NEW n \in Nat, n = Len(wrongs), Exact(r, n)
  PROVE  /\ Exact(r, n)'
         /\ Len(wrongs') = n + 1 /\ wrongs'[n + 1] = t
<1>1. /\ Len(wrongs') = n + 1 /\ wrongs'[n + 1] = t
      /\ \A j \in 1 .. n : wrongs'[j] = wrongs[j]
  BY DEF TypeOK
<1>2. forgiven \in Nat /\ forgiven <= n /\ r.failed \in Nat
  BY WrongsAreTimes DEF Row
<1>3. ASSUME NEW k \in Nat, forgiven # n
      PROVE  RunOf(n, k)' <=> RunOf(n, k)
  <2>1. CASE k <= n - forgiven
    <3>1. \A j \in n - k + 2 .. n : j \in 1 .. n /\ j - 1 \in 1 .. n
      BY <1>2, <2>1
    <3>2. QED
      BY <1>1, <3>1 DEF RunOf
  <2>2. CASE ~(k <= n - forgiven)
    BY <2>2 DEF RunOf
  <2>3. QED
    BY <2>1, <2>2
<1>4. CASE n = forgiven
  BY <1>1, <1>4 DEF Exact
<1>5. CASE n # forgiven
  <2>1. /\ r.last = wrongs[n] /\ RunOf(n, r.failed) /\ ~RunOf(n, r.failed + 1)
        /\ r.until = IF r.failed >= Threshold THEN r.last + Duration ELSE Never
    BY <1>5 DEF Exact
  <2>2. wrongs'[n] = wrongs[n]
    BY <1>1, <1>2, <1>5
  <2>3. RunOf(n, r.failed)' /\ ~RunOf(n, r.failed + 1)'
    BY <1>2, <1>3, <1>5, <2>1
  <2>4. QED
    BY <1>1, <1>5, <2>1, <2>2, <2>3 DEF Exact
<1>6. QED
  BY <1>1, <1>4, <1>5
LEMMA InitOneAtATime == Init => OneAtATime
  BY DEF Init, OneAtATime, Reading, At, NoTry, Exact

\* Steps of a request that holds no copy of the row, before and after.
LEMMA OthersCount ==
  ASSUME LInv, OneAtATime, UNCHANGED <<row, wrongs, forgiven, clean>>,
         Reading' \subseteq Reading, \A b \in Reading' : try'[b] = try[b],
         \A b \in Reading \ Reading' : ~At(b, "wrong")
  PROVE  OneAtATime'
<1>1. \A n : Exact(row, n) => Exact(row, n)'
  BY DEF Exact, RunOf
<1>2. SUFFICES ASSUME clean
               PROVE  (/\ \A a, b \in Reading : a = b
                       /\ \A a \in Reading : try[a].seen = row
                       /\ (\A a \in Reading : ~At(a, "wrong")) => Exact(row, Len(wrongs))
                       /\ \A a \in Reading : At(a, "wrong") =>
                            /\ Len(wrongs) > forgiven /\ try[a].at = wrongs[Len(wrongs)]
                            /\ Exact(row, Len(wrongs) - 1))'
  BY DEF OneAtATime
<1>3. /\ \A a, b \in Reading' : a = b
      /\ \A a \in Reading' : try'[a].seen = row'
  BY <1>2 DEF OneAtATime
<1>4. ASSUME \A a \in Reading' : ~At(a, "wrong")'
      PROVE  Exact(row, Len(wrongs))'
  <2>1. \A a \in Reading : ~At(a, "wrong")
    BY <1>4 DEF At
  <2>2. Exact(row, Len(wrongs))
    BY <1>2, <2>1 DEF OneAtATime
  <2>3. QED
    BY <2>2 DEF Exact, RunOf
<1>5. ASSUME NEW a \in Reading', At(a, "wrong")'
      PROVE  (/\ Len(wrongs) > forgiven /\ try[a].at = wrongs[Len(wrongs)]
              /\ Exact(row, Len(wrongs) - 1))'
  <2>1. a \in Reading /\ At(a, "wrong") /\ try'[a] = try[a]
    BY <1>5 DEF At
  <2>2. /\ Len(wrongs) > forgiven /\ try[a].at = wrongs[Len(wrongs)]
        /\ Exact(row, Len(wrongs) - 1)
    BY <1>2, <2>1 DEF OneAtATime
  <2>3. QED
    BY <2>1, <2>2 DEF Exact, RunOf
<1>6. QED
  BY <1>3, <1>4, <1>5

LEMMA CountFind ==
  ASSUME LInv, OneAtATime, NEW a \in Tries, FindByUsername(a)
  PROVE  OneAtATime'
<1>1. /\ try'[a].step = "check" /\ try'[a].seen = row
      /\ \A b \in Tries \ {a} : try'[b] = try[b]
      /\ UNCHANGED <<row, wrongs, forgiven>> /\ clean' = (clean /\ Reading = {})
  BY DEF FindByUsername, LInv, TypeOK, Try
<1>2. CASE clean'
  <2>1. Reading' = {a}
    BY <1>1, <1>2 DEF Reading
  <2>2. Exact(row, Len(wrongs))
    BY <1>1, <1>2 DEF OneAtATime
  <2>3. Exact(row, Len(wrongs))'
    BY <1>1, <2>2 DEF Exact, RunOf
  <2>4. QED
    BY <1>1, <2>1, <2>3 DEF OneAtATime, At
<1>3. QED
  BY <1>2 DEF OneAtATime

\* The one request that has read the row verifies a wrong password.
LEMMA CountVerify ==
  ASSUME LInv, OneAtATime, NEW a \in Tries, NEW right \in BOOLEAN, Verify(a, right)
  PROVE  OneAtATime'
<1>1. /\ try'[a].step = (IF right THEN "right" ELSE "wrong")
      /\ try'[a].seen = try[a].seen /\ try'[a].at = now
      /\ \A b \in Tries \ {a} : try'[b] = try[b]
      /\ UNCHANGED <<now, row, forgiven, clean>> /\ At(a, "check")
  BY DEF Verify, LInv, TypeOK, Try
<1>2. SUFFICES ASSUME clean
               PROVE  OneAtATime'
  BY <1>1 DEF OneAtATime
<1>3. Reading = {a} /\ Reading' = {a}
  BY <1>1, <1>2 DEF OneAtATime, Reading, At
<1>4. try[a].seen = row /\ Exact(row, Len(wrongs))
  BY <1>1, <1>2, <1>3 DEF OneAtATime, At
<1>5. CASE right
  <2>1. UNCHANGED wrongs
    BY <1>5 DEF Verify
  <2>2. Exact(row, Len(wrongs))'
    BY <1>1, <1>4, <2>1 DEF Exact, RunOf
  <2>3. QED
    BY <1>1, <1>3, <1>4, <1>5, <2>2 DEF OneAtATime, At
<1>6. CASE ~right
  <2>1. wrongs' = Append(wrongs, now) /\ now \in Times /\ row \in Row /\ TypeOK
    BY <1>6 DEF Verify, LInv, TypeOK
  <2>2. PICK r \in Row, n \in Nat : r = row /\ n = Len(wrongs)
    BY <2>1, WrongsAreTimes
  <2>3. Exact(r, n)' /\ Len(wrongs') = n + 1 /\ wrongs'[n + 1] = now
    BY <1>1, <1>4, <2>1, <2>2, ExactStays
  <2>4. (Exact(row, Len(wrongs) - 1))'
    <3>1. (Len(wrongs) - 1)' = n /\ row' = r
      BY <1>1, <2>2, <2>3
    <3>2. QED
      BY <2>3, <3>1 DEF Exact, RunOf
  <2>5. Len(wrongs') > forgiven'
    BY <1>1, <2>1, <2>2, <2>3, WrongsAreTimes
  <2>6. QED
    BY <1>1, <1>3, <1>4, <1>6, <2>3, <2>4, <2>5 DEF OneAtATime, At
<1>7. QED
  BY <1>5, <1>6

LEMMA CountWrites ==
  ASSUME LInv, OneAtATime, NEW a \in Tries, PersistFailed(a) \/ PersistReset(a) \/ LoseWrite(a)
  PROVE  OneAtATime'
<1>1. /\ Reading' = Reading \ {a} /\ a \in Reading
      /\ \A b \in Reading' : try'[b] = try[b]
  BY DEF PersistFailed, PersistReset, LoseWrite, Ends, NoTry, Reading, At, LInv, TypeOK
<1>2. CASE LoseWrite(a)
  BY <1>2 DEF LoseWrite, OneAtATime
<1>3. CASE PersistReset(a)
  <2>1. row' = Fresh /\ clean' = (Reading = {a}) /\ forgiven' = Len(wrongs) /\ wrongs' = wrongs
    BY <1>3 DEF PersistReset
  <2>2. Exact(row, Len(wrongs))'
    BY <2>1 DEF Exact
  <2>3. clean' => Reading' = {}
    BY <1>1, <2>1
  <2>4. QED
    BY <2>2, <2>3 DEF OneAtATime
<1>4. CASE PersistFailed(a)
  <2>1. /\ row' = NextFailed(try[a].seen, try[a].at) /\ At(a, "wrong")
        /\ UNCHANGED <<wrongs, forgiven, clean>>
    BY <1>4 DEF PersistFailed
  <2>2. CASE clean
    <3>1. /\ Reading = {a} /\ try[a].seen = row
          /\ Len(wrongs) > forgiven /\ try[a].at = wrongs[Len(wrongs)]
          /\ Exact(row, Len(wrongs) - 1)
      BY <1>1, <2>1, <2>2 DEF OneAtATime
    <3>2. TypeOK /\ row \in Row /\ Len(wrongs) \in Nat /\ forgiven \in Nat
      BY WrongsAreTimes DEF LInv, TypeOK
    <3>3. PICK r \in Row, n \in Nat : r = row /\ n = Len(wrongs) - 1
      BY <3>1, <3>2
    <3>4. Exact(NextFailed(r, wrongs[n + 1]), n + 1)
      BY <3>1, <3>2, <3>3, CountsOneMore
    <3>5. Exact(row', Len(wrongs))
      BY <2>1, <3>1, <3>2, <3>3, <3>4
    <3>6. Exact(row, Len(wrongs))'
      BY <2>1, <3>5 DEF Exact, RunOf
    <3>7. Reading' = {}
      BY <1>1, <3>1
    <3>8. QED
      BY <3>6, <3>7 DEF OneAtATime
  <2>3. QED
    BY <2>1, <2>2 DEF OneAtATime
<1>5. QED
  BY <1>2, <1>3, <1>4

LEMMA NextOneAtATime == LInv /\ OneAtATime /\ [Next]_vars => OneAtATime'
<1> SUFFICES ASSUME LInv, OneAtATime, [Next]_vars
             PROVE  OneAtATime'
  OBVIOUS
<1>1. ASSUME NEW a \in Tries, SubmitForm(a) \/ SubmitDirectly(a) \/ LookUp(a) \/ AlreadyLocked(a)
      PROVE  OneAtATime'
  <2>1. UNCHANGED <<row, wrongs, forgiven, clean>>
    BY <1>1 DEF SubmitForm, SubmitDirectly, LookUp, AlreadyLocked, history
  <2>2. /\ try'[a].step \in {"pre", "find", "idle"} /\ ~At(a, "wrong")
        /\ \A b \in Tries \ {a} : try'[b] = try[b]
    BY <1>1 DEF SubmitForm, SubmitDirectly, LookUp, AlreadyLocked, Ends, NoTry, At,
                LInv, TypeOK, Try
  <2>3. QED
    BY <2>1, <2>2, OthersCount DEF Reading
<1>2. CASE Tick
  BY <1>2, OthersCount DEF Tick, history, Reading
<1>3. CASE UNCHANGED vars
  BY <1>3, OthersCount DEF vars, Reading
<1>4. QED
  BY <1>1, <1>2, <1>3, CountFind, CountVerify, CountWrites DEF Next

\* Attempts made one at a time are counted exactly.
THEOREM CountsAreExact == Spec => []CountIsExact
<1>1. LInv /\ OneAtATime => CountIsExact
  <2>1. ASSUME LInv, OneAtATime, clean, Reading = {}
        PROVE  Exact(row, Len(wrongs))
    BY <2>1 DEF OneAtATime
  <2>2. \A k : RunOf(Len(wrongs), k) <=> Run(k)
    BY DEF RunOf, Run
  <2>3. QED
    BY <2>1, <2>2 DEF CountIsExact, Exact
<1>2. QED
  BY <1>1, LockoutInit, LockoutNext, InitOneAtATime, NextOneAtATime, PTL DEF Spec
=============================================================================
