-------------------------- MODULE EmailQueueProofs --------------------------
(***************************************************************************)
(* The safety of EmailQueue, for any rows, processors, mailboxes, retry    *)
(* budget and number of faults, and that it implements OutgoingMail.       *)
(*                                                                         *)
(* The inductive invariant IInv says, of every row, who may hold it, and   *)
(* how the columns relate to what the processors have done: the attempts   *)
(* since the last reset equal retry_count while the row waits, equal the   *)
(* claimed copy of retry_count until the attempt and exceed it by one      *)
(* after; and an acknowledged copy pins the row to the statuses that are   *)
(* never claimed again.                                                    *)
(***************************************************************************)
EXTENDS EmailQueue, TLAPS

Done == {"ok", "transient", "bounce"}

(* A row not yet enqueued has no past.                                     *)
Fresh == \A i \in Items :
  status[i] = "absent" => /\ attempts[i] = 0 /\ retry_count[i] = 0
                          /\ copies[i] = 0 /\ lostAcks[i] = 0

(* How the attempts relate to retry_count and to the claimed copies of it. *)
CountInv == \A i \in Items :
  /\ status[i] \in Claimable => attempts[i] = retry_count[i]
  /\ status[i] = "sending" => attempts[i] \in {retry_count[i], retry_count[i] + 1}
  /\ status[i] \in Terminal \cup {"dead_letter"} => attempts[i] = retry_count[i] + 1
  /\ \A p \in Processors :
       /\ stage[p][i] = "claimed" => attempts[i] = seen[p][i]
       /\ stage[p][i] \in Done => attempts[i] = seen[p][i] + 1

(* Where an acknowledged copy can be.                                      *)
CopyInv == \A i \in Items :
  /\ copies[i] \in {lostAcks[i], lostAcks[i] + 1}
  /\ copies[i] = lostAcks[i] + 1 =>
       /\ status[i] \in {"sent", "sending", "erased"}
       /\ \A p \in Processors : stage[p][i] \in {"none", "ok"}

(* What a task remembers of the copy it handed over.                       *)
HandedInv == \A i \in Items, p \in Processors :
  /\ stage[p][i] \in {"claimed", "bounce"} => ~handed[i]
  /\ stage[p][i] = "ok" => handed[i]

Safe == /\ ExclusiveClaim /\ TaskOwnsRow
        /\ Fresh /\ CountInv /\ CopyInv /\ HandedInv

IInv == TypeOK /\ Safe

-----------------------------------------------------------------------------
(* The delay of every retry is one of the schedule.                        *)
LEMMA BackoffType == \A n \in Nat : calculate_backoff_secs(n) \in Delays
<1> SUFFICES ASSUME NEW n \in Nat PROVE calculate_backoff_secs(n) \in Delays
  OBVIOUS
<1>1. Len(RETRY_SCHEDULE_SECS) = 3
  BY DEF RETRY_SCHEDULE_SECS
<1>2. n < 3 => n + 1 \in 1 .. 3
  OBVIOUS
<1>3. QED
  BY <1>1, <1>2 DEF calculate_backoff_secs, Delays

LEMMA DelaysAreNat == Delays \subseteq Nat
<1>1. Len(RETRY_SCHEDULE_SECS) = 3
  BY DEF RETRY_SCHEDULE_SECS
<1>2. \A k \in 1 .. 3 : RETRY_SCHEDULE_SECS[k] \in Nat
  BY DEF RETRY_SCHEDULE_SECS
<1>3. QED
  BY <1>1, <1>2 DEF Delays

-----------------------------------------------------------------------------
(* The variables have their types in every reachable state: in particular  *)
(* retry_count never reaches max_retries.                                  *)
THEOREM TypeCorrect == Spec => []TypeOK
<1> USE QueueAssumption
<1> USE DEF table, tasks, history, Statuses, Stored, Claimable, Retryable,
            Terminal, Gone, Stages
<1>1. Init => TypeOK
  BY DEF Init, TypeOK
<1>2. TypeOK /\ [Next]_vars => TypeOK'
  <2> SUFFICES ASSUME TypeOK, [Next]_vars PROVE TypeOK'
    OBVIOUS
  <2> USE DEF TypeOK
  <2>1. ASSUME NEW p \in Processors, NEW S \in SUBSET Items, Claim(p, S)
        PROVE  TypeOK'
    <3> USE <2>1 DEF Claim
    <3>1. (stage \in [Processors -> [Items -> Stages]])'
      <4>1. [i \in Items |-> IF i \in S THEN "claimed" ELSE "none"] \in [Items -> Stages]
        OBVIOUS
      <4>2. QED
        BY <4>1
    <3>2. (seen \in [Processors -> [Items -> 0 .. MaxRetries - 1]])'
      <4>1. [i \in Items |-> IF i \in S THEN retry_count[i] ELSE 0]
              \in [Items -> 0 .. MaxRetries - 1]
        OBVIOUS
      <4>2. QED
        BY <4>1
    <3>3. (status \in [Items -> Statuses])' /\ (handed \in [Items -> BOOLEAN])'
      OBVIOUS
    <3>4. (faults \in 0 .. MaxFaults)'
      OBVIOUS
    <3>5. QED
      BY <3>1, <3>2, <3>3, <3>4
  <2>2. ASSUME NEW p \in Processors, NEW i \in Items, NEW accepted \in BOOLEAN,
               NEW outcome \in {"ok", "transient", "bounce"},
               Attempt(p, i, accepted, outcome)
        PROVE  TypeOK'
    BY <2>2 DEF Attempt
  <2>3. ASSUME NEW p \in Processors, NEW i \in Items, NEW st \in Stored,
               NEW n \in 0 .. MaxRetries - 1, NEW w \in Delays \cup {0},
               Finish(p, i, st, n, w)
        PROVE  TypeOK'
    <3> USE <2>3 DEF Finish
    <3>1. (stage \in [Processors -> [Items -> Stages]])'
      OBVIOUS
    <3>2. (seen \in [Processors -> [Items -> 0 .. MaxRetries - 1]])'
      OBVIOUS
    <3>3. (status \in [Items -> Statuses])'
      OBVIOUS
    <3>4. (retry_count \in [Items -> 0 .. MaxRetries - 1])'
      OBVIOUS
    <3>5. (wait \in [Items -> Delays \cup {0}])'
      OBVIOUS
    <3>6. (faults \in 0 .. MaxFaults)'
      OBVIOUS
    <3>7. QED
      BY <3>1, <3>2, <3>3, <3>4, <3>5, <3>6
  <2>4. ASSUME NEW p \in Processors, NEW i \in Items, MarkSent(p, i)
        PROVE  TypeOK'
    BY <2>3, <2>4 DEF MarkSent
  <2>5. ASSUME NEW p \in Processors, NEW i \in Items, MarkBounced(p, i)
        PROVE  TypeOK'
    BY <2>3, <2>5 DEF MarkBounced
  <2>6. ASSUME NEW p \in Processors, NEW i \in Items, MarkDeadLetter(p, i)
        PROVE  TypeOK'
    BY <2>3, <2>6 DEF MarkDeadLetter
  <2>7. ASSUME NEW p \in Processors, NEW i \in Items, MarkFailed(p, i)
        PROVE  TypeOK'
    <3>1. seen[p][i] + 1 \in 0 .. MaxRetries - 1
      BY <2>7 DEF MarkFailed
    <3>2. calculate_backoff_secs(seen[p][i] + 1) \in Delays
      BY BackoffType, <3>1
    <3>3. QED
      BY <2>3, <2>7, <3>1, <3>2 DEF MarkFailed
  <2>8. ASSUME NEW p \in Processors, Crash(p)
        PROVE  TypeOK'
    <3> USE <2>8 DEF Crash
    <3>1. [i \in Items |-> "none"] \in [Items -> Stages]
      OBVIOUS
    <3>2. [i \in Items |-> 0] \in [Items -> 0 .. MaxRetries - 1]
      OBVIOUS
    <3>3. QED
      BY <3>1, <3>2
  <2>9. ASSUME NEW i \in Items, \/ Enqueue(i) \/ BecomeDue(i) \/ Cancel(i) \/ Retry(i)
        PROVE  TypeOK'
    <3>1. CASE Enqueue(i)
      BY <3>1 DEF Enqueue
    <3>2. CASE BecomeDue(i)
      BY <3>2 DEF BecomeDue
    <3>3. CASE Cancel(i)
      BY <3>3 DEF Cancel
    <3>4. CASE Retry(i)
      BY <3>4 DEF Retry
    <3>5. QED
      BY <2>9, <3>1, <3>2, <3>3, <3>4
  <2>10. ASSUME NEW m \in Mailboxes, DeleteMailbox(m)
         PROVE  TypeOK'
    BY <2>10 DEF DeleteMailbox
  <2>11. CASE UNCHANGED vars
    BY <2>11 DEF vars
  <2>12. QED
    BY <2>1, <2>2, <2>4, <2>5, <2>6, <2>7, <2>8, <2>9, <2>10, <2>11 DEF Next, Work
<1>3. QED
  BY <1>1, <1>2, PTL DEF Spec

-----------------------------------------------------------------------------
(* The strengthening is inductive.                                         *)
LEMMA InitSafe == Init => Safe
  BY QueueAssumption
  DEF Init, Safe, ExclusiveClaim, TaskOwnsRow, Fresh, CountInv, CopyInv, HandedInv,
      Claimable, Terminal, Done

(* A claim takes rows nobody holds, whose attempts equal retry_count, and  *)
(* of which no acknowledged copy went out.                                 *)
LEMMA ClaimSafe ==
  ASSUME IInv, TypeOK', NEW p \in Processors, NEW S \in SUBSET Items, Claim(p, S)
  PROVE  Safe'
<1> USE QueueAssumption
<1> USE DEF IInv, Safe, Claimable, Stored, Retryable, Terminal, Stages, Done
<1>1. \A i \in S : status[i] \in Claimable
  BY DEF Claim, Batches, Ready
<1>2. \A i \in S, q \in Processors : stage[q][i] = "none"
  BY <1>1 DEF TaskOwnsRow
<1>3. \A i \in Items : stage[p][i] = "none"
  BY DEF Claim, Idle
<1>4. \A q \in Processors, i \in Items :
        \/ stage'[q][i] = stage[q][i] /\ seen'[q][i] = seen[q][i] /\ (i \in S => stage[q][i] = "none")
        \/ q = p /\ i \in S /\ stage'[q][i] = "claimed" /\ seen'[q][i] = retry_count[i]
        \/ q = p /\ i \notin S /\ stage'[q][i] = "none"
  BY <1>2, <1>3 DEF Claim, TypeOK, tasks
<1>5. /\ \A i \in Items : status'[i] = IF i \in S THEN "sending" ELSE status[i]
      /\ \A i \in Items : handed'[i] = IF i \in S THEN FALSE ELSE handed[i]
      /\ UNCHANGED <<retry_count, attempts, copies, lostAcks>>
  BY DEF Claim
<1>6. ExclusiveClaim'
  BY <1>2, <1>3, <1>4 DEF ExclusiveClaim
<1>7. TaskOwnsRow'
  BY <1>4, <1>5 DEF TaskOwnsRow
<1>8. Fresh'
  BY <1>1, <1>5 DEF Fresh
<1>9. CountInv'
  <2>1. ASSUME NEW i \in S PROVE status'[i] = "sending" /\ attempts'[i] = retry_count'[i]
    BY <1>1, <1>5 DEF CountInv
  <2>2. ASSUME NEW i \in Items \ S
        PROVE  /\ status'[i] = status[i] /\ attempts'[i] = attempts[i]
               /\ retry_count'[i] = retry_count[i]
    BY <1>5
  <2>3. ASSUME NEW i \in Items, NEW q \in Processors
        PROVE  /\ stage'[q][i] = "claimed" => attempts'[i] = seen'[q][i]
               /\ stage'[q][i] \in Done => attempts'[i] = seen'[q][i] + 1
    BY <1>4, <1>5, <2>1 DEF CountInv
  <2> QED
    BY <2>1, <2>2, <2>3 DEF CountInv
<1>10. CopyInv'
  <2>1. \A i \in S : copies[i] = lostAcks[i] /\ lostAcks[i] \in Nat
    BY <1>1 DEF CopyInv, TypeOK
  <2>2. ASSUME NEW i \in Items, i \notin S
        PROVE  /\ status'[i] = status[i]
               /\ \A q \in Processors : stage'[q][i] \in {stage[q][i], "none"}
    BY <1>4, <1>5, <2>2
  <2>3. QED
    BY <1>5, <2>1, <2>2 DEF CopyInv
<1>11. HandedInv'
  <2>1. ASSUME NEW i \in Items, NEW q \in Processors
        PROVE  /\ stage'[q][i] \in {"claimed", "bounce"} => ~handed'[i]
               /\ stage'[q][i] = "ok" => handed'[i]
    <3>1. CASE i \in S
      <4>1. stage'[q][i] \in {"none", "claimed"} /\ ~handed'[i]
        BY <1>4, <1>5, <3>1
      <4> QED
        BY <4>1
    <3>2. CASE i \notin S
      <4>1. stage'[q][i] \in {stage[q][i], "none"} /\ handed'[i] = handed[i]
        BY <1>4, <1>5, <3>2
      <4> QED
        BY <4>1 DEF HandedInv
    <3> QED
      BY <3>1, <3>2
  <2>2. QED
    BY <2>1 DEF HandedInv
<1>12. QED
  BY <1>6, <1>7, <1>8, <1>9, <1>10, <1>11

(* An attempt uses up one unit of the budget, and leaves an acknowledged   *)
(* copy only in the task that will mark the row sent.                      *)
LEMMA AttemptSafe ==
  ASSUME IInv, TypeOK', NEW p \in Processors, NEW i \in Items, NEW accepted \in BOOLEAN,
         NEW outcome \in {"ok", "transient", "bounce"}, Attempt(p, i, accepted, outcome)
  PROVE  Safe'
<1> USE QueueAssumption
<1> USE DEF IInv, Safe, Claimable, Stored, Retryable, Terminal, Stages, Done
<1>1. /\ stage[p][i] = "claimed"
      /\ outcome = "ok" => accepted
      /\ outcome = "bounce" => ~accepted
      /\ UNCHANGED <<status, retry_count, seen>>
  BY DEF Attempt, table
<1>2. \A q \in Processors, j \in Items :
        stage'[q][j] = IF q = p /\ j = i THEN outcome ELSE stage[q][j]
  BY DEF Attempt, TypeOK
<1>3. \A q \in Processors : q # p => stage[q][i] = "none"
  BY <1>1 DEF ExclusiveClaim
<1>4. \A j \in Items :
        /\ j # i => /\ attempts'[j] = attempts[j] /\ copies'[j] = copies[j]
                    /\ lostAcks'[j] = lostAcks[j] /\ handed'[j] = handed[j]
        /\ j = i => /\ attempts'[i] = attempts[i] + 1
                    /\ copies'[i] = IF accepted THEN copies[i] + 1 ELSE copies[i]
                    /\ lostAcks'[i] = IF accepted /\ outcome = "transient"
                                        THEN lostAcks[i] + 1 ELSE lostAcks[i]
                    /\ handed'[i] = accepted
  BY DEF Attempt, TypeOK
<1>5. status[i] \in {"sending", "erased"}
  BY <1>1 DEF TaskOwnsRow
<1>6. ExclusiveClaim'
  BY <1>1, <1>2 DEF ExclusiveClaim
<1>7. TaskOwnsRow'
  BY <1>1, <1>2 DEF TaskOwnsRow
<1>8. Fresh'
  BY <1>1, <1>4, <1>5 DEF Fresh
<1>9. CountInv'
  <2>1. status[i] = "sending" => attempts[i] = retry_count[i]
    BY <1>1, <1>5 DEF CountInv, TaskOwnsRow
  <2>2. ASSUME NEW j \in Items
        PROVE  /\ status'[j] \in Claimable => attempts'[j] = retry_count'[j]
               /\ status'[j] = "sending" =>
                    attempts'[j] \in {retry_count'[j], retry_count'[j] + 1}
               /\ status'[j] \in Terminal \cup {"dead_letter"} =>
                    attempts'[j] = retry_count'[j] + 1
    BY <1>1, <1>4, <1>5, <2>1 DEF CountInv
  <2>3. ASSUME NEW j \in Items, NEW q \in Processors
        PROVE  /\ stage'[q][j] = "claimed" => attempts'[j] = seen'[q][j]
               /\ stage'[q][j] \in Done => attempts'[j] = seen'[q][j] + 1
    BY <1>1, <1>2, <1>3, <1>4 DEF CountInv
  <2> QED
    BY <2>2, <2>3 DEF CountInv
<1>10. CopyInv'
  <2>1. copies[i] = lostAcks[i]
    BY <1>1 DEF CopyInv
  <2>2. copies[i] \in Nat /\ lostAcks[i] \in Nat
    BY DEF TypeOK
  <2>3. /\ copies'[i] \in {lostAcks'[i], lostAcks'[i] + 1}
        /\ copies'[i] = lostAcks'[i] + 1 => outcome = "ok"
    BY <1>1, <1>4, <2>1, <2>2
  <2>4. \A q \in Processors : stage'[q][i] \in {"none", outcome}
    BY <1>2, <1>3
  <2>5. ASSUME NEW j \in Items, j # i
        PROVE  /\ copies'[j] = copies[j] /\ lostAcks'[j] = lostAcks[j]
               /\ \A q \in Processors : stage'[q][j] = stage[q][j]
    BY <1>2, <1>4, <2>5
  <2>6. QED
    BY <1>1, <1>5, <2>3, <2>4, <2>5 DEF CopyInv
<1>11. HandedInv'
  BY <1>1, <1>2, <1>3, <1>4 DEF HandedInv
<1>12. QED
  BY <1>6, <1>7, <1>8, <1>9, <1>10, <1>11

(* The end of a task: the task held the row alone, so that the other       *)
(* tasks, and the rows they hold, are as before.                           *)
LEMMA FinishSafe ==
  ASSUME IInv, TypeOK', NEW p \in Processors, NEW i \in Items,
         MarkSent(p, i) \/ MarkBounced(p, i) \/ MarkDeadLetter(p, i) \/ MarkFailed(p, i)
  PROVE  Safe'
<1> USE QueueAssumption
<1> USE DEF IInv, Safe, Claimable, Stored, Retryable, Terminal, Stages, Done
<1> USE DEF MarkSent, MarkBounced, MarkDeadLetter, MarkFailed, Finish
<1>1. \A q \in Processors, j \in Items :
        /\ stage'[q][j] = IF q = p /\ j = i THEN "none" ELSE stage[q][j]
        /\ seen'[q][j] = IF q = p /\ j = i THEN 0 ELSE seen[q][j]
  BY DEF TypeOK
<1>2. \A q \in Processors : q # p => stage[q][i] = "none"
  BY DEF ExclusiveClaim
<1>3. /\ UNCHANGED <<attempts, copies, lostAcks, handed>>
      /\ \A j \in Items : j # i => status'[j] = status[j] /\ retry_count'[j] = retry_count[j]
  BY DEF TypeOK
<1>4. \/ status[i] = "sending" /\ seen[p][i] = retry_count[i]
      \/ status[i] = "erased"
  BY DEF TaskOwnsRow
<1>5. \/ status'[i] = status[i] /\ retry_count'[i] = retry_count[i]
      \/ status[i] = "sending" /\ stage[p][i] = "ok" /\ status'[i] = "sent"
      \/ status[i] = "sending" /\ stage[p][i] = "bounce" /\ status'[i] = "bounced"
      \/ /\ status[i] = "sending" /\ stage[p][i] = "transient" /\ status'[i] = "dead_letter"
         /\ seen[p][i] + 1 >= MaxRetries
      \/ /\ status[i] = "sending" /\ stage[p][i] = "transient" /\ status'[i] = "failed"
         /\ seen[p][i] + 1 < MaxRetries /\ retry_count'[i] = seen[p][i] + 1
  BY <1>4 DEF TypeOK
<1>6. ExclusiveClaim'
  BY <1>1 DEF ExclusiveClaim
<1>7. TaskOwnsRow'
  BY <1>1, <1>2, <1>3 DEF TaskOwnsRow
<1>8. Fresh'
  BY <1>3, <1>4, <1>5 DEF Fresh
<1>9. CountInv'
  BY <1>1, <1>2, <1>3, <1>4, <1>5 DEF CountInv, TypeOK
<1>10. CopyInv'
  BY <1>1, <1>2, <1>3, <1>4, <1>5 DEF CopyInv, TypeOK
<1>11. HandedInv'
  BY <1>1, <1>3 DEF HandedInv
<1>12. QED
  BY <1>6, <1>7, <1>8, <1>9, <1>10, <1>11

(* A crash forgets tasks and changes no row.                               *)
LEMMA CrashSafe ==
  ASSUME IInv, TypeOK', NEW p \in Processors, Crash(p)
  PROVE  Safe'
<1> USE DEF IInv, Safe, Claimable, Stored, Retryable, Terminal, Stages, Done
<1>1. \A q \in Processors, j \in Items :
        /\ stage'[q][j] = IF q = p THEN "none" ELSE stage[q][j]
        /\ seen'[q][j] = IF q = p THEN 0 ELSE seen[q][j]
  BY DEF Crash, TypeOK
<1>2. UNCHANGED <<status, retry_count, attempts, copies, lostAcks, handed>>
  BY DEF Crash, table
<1>3. ExclusiveClaim' /\ TaskOwnsRow' /\ HandedInv'
  BY <1>1, <1>2 DEF ExclusiveClaim, TaskOwnsRow, HandedInv
<1>4. Fresh' /\ CountInv' /\ CopyInv'
  BY <1>1, <1>2 DEF Fresh, CountInv, CopyInv
<1>5. QED
  BY <1>3, <1>4

(* What the clock and the owner do to a row nobody holds.                  *)
LEMMA RowSafe ==
  ASSUME IInv, TypeOK', NEW i \in Items,
         Enqueue(i) \/ BecomeDue(i) \/ Cancel(i) \/ Retry(i)
  PROVE  Safe'
<1> USE QueueAssumption
<1> USE DEF IInv, Safe, Claimable, Cancellable, Stored, Retryable, Terminal, Stages, Done
<1> USE DEF Enqueue, BecomeDue, Cancel, Retry, tasks, history
<1>1. /\ UNCHANGED <<stage, seen, copies, lostAcks, handed>>
      /\ \A j \in Items : j # i => /\ status'[j] = status[j] /\ retry_count'[j] = retry_count[j]
                                   /\ attempts'[j] = attempts[j]
  BY DEF TypeOK
<1>2. \/ status'[i] = status[i] /\ retry_count'[i] = retry_count[i] /\ attempts'[i] = attempts[i]
      \/ /\ status[i] = "absent" /\ status'[i] = "pending"
         /\ retry_count'[i] = retry_count[i] /\ attempts'[i] = attempts[i]
      \/ /\ status[i] \in Cancellable /\ status'[i] = "cancelled"
         /\ retry_count'[i] = retry_count[i] /\ attempts'[i] = attempts[i]
      \/ /\ status[i] \in Retryable /\ status'[i] = "pending"
         /\ retry_count'[i] = 0 /\ attempts'[i] = 0
  BY DEF TypeOK
<1>3. ExclusiveClaim' /\ HandedInv'
  BY <1>1 DEF ExclusiveClaim, HandedInv
<1>4. TaskOwnsRow'
  BY <1>1, <1>2 DEF TaskOwnsRow
<1>5. Fresh'
  BY <1>1, <1>2 DEF Fresh
<1>6. CountInv'
  <2>1. status'[i] # status[i] => \A q \in Processors : stage[q][i] = "none"
    BY <1>2 DEF TaskOwnsRow
  <2>2. QED
    BY <1>1, <1>2, <2>1 DEF CountInv, Fresh, TypeOK
<1>7. CopyInv'
  BY <1>1, <1>2 DEF CopyInv, Fresh, TypeOK
<1>8. QED
  BY <1>3, <1>4, <1>5, <1>6, <1>7

(* The cascade removes rows from under the tasks that hold them.           *)
LEMMA DeleteMailboxSafe ==
  ASSUME IInv, TypeOK', NEW m \in Mailboxes, DeleteMailbox(m)
  PROVE  Safe'
<1> USE DEF IInv, Safe, Claimable, Stored, Retryable, Terminal, Stages, Done
<1>1. /\ UNCHANGED <<stage, seen, retry_count, attempts, copies, lostAcks, handed>>
      /\ \A i \in Items : status'[i] # status[i] => status'[i] = "erased"
  BY DEF DeleteMailbox, tasks, history
<1>2. \A i \in Items : \A x : status'[i] = x /\ x # "erased" => status[i] = x
  BY <1>1
<1>3. ExclusiveClaim' /\ TaskOwnsRow' /\ HandedInv'
  BY <1>1 DEF ExclusiveClaim, TaskOwnsRow, HandedInv
<1>4. Fresh' /\ CountInv' /\ CopyInv'
  BY <1>1, <1>2 DEF Fresh, CountInv, CopyInv
<1>5. QED
  BY <1>3, <1>4

(* The queue's safety argument: IInv holds in every reachable state.       *)
THEOREM Invariance == Spec => []IInv
<1>1. Init => Safe
  BY InitSafe
<1>2. TypeOK /\ TypeOK' /\ Safe /\ [Next]_vars => Safe'
  <2> SUFFICES ASSUME TypeOK, TypeOK', Safe, [Next]_vars PROVE Safe'
    OBVIOUS
  <2>1. IInv
    BY DEF IInv
  <2>2. CASE \E p \in Processors : Work(p) \/ Crash(p)
    BY <2>1, <2>2, ClaimSafe, AttemptSafe, FinishSafe, CrashSafe DEF Work
  <2>3. CASE \E i \in Items : Enqueue(i) \/ BecomeDue(i) \/ Cancel(i) \/ Retry(i)
    BY <2>1, <2>3, RowSafe
  <2>4. CASE \E m \in Mailboxes : DeleteMailbox(m)
    BY <2>1, <2>4, DeleteMailboxSafe
  <2>5. CASE UNCHANGED vars
    BY <2>5 DEF vars, table, tasks, history, Safe, ExclusiveClaim, TaskOwnsRow, Fresh,
                CountInv, CopyInv, HandedInv
  <2>6. QED
    BY <2>2, <2>3, <2>4, <2>5 DEF Next
<1>3. QED
  BY <1>1, <1>2, TypeCorrect, PTL DEF Spec, IInv

-----------------------------------------------------------------------------
(* Each row is claimed once across the fleet, and only its claimer (or the *)
(* deletion of the mailbox) changes it until it is settled.                *)
THEOREM ClaimsAreExclusive == Spec => [](ExclusiveClaim /\ TaskOwnsRow)
<1>1. IInv => ExclusiveClaim /\ TaskOwnsRow
  BY DEF IInv, Safe
<1>2. QED
  BY <1>1, Invariance, PTL

(* Along every run a delivery task's row is marked as its own: while a     *)
(* task holds a message no other claim, retry or cancel can take the row.  *)
THEOREM TasksOwnTheirRows == Spec => []TaskOwnsRow
<1>1. IInv => TaskOwnsRow
  BY DEF IInv, Safe
<1>2. QED
  BY <1>1, Invariance, PTL

(* A message goes out twice only after a lost acknowledgement.             *)
THEOREM NoDuplicates == Spec => []DuplicatesNeedLostAcks
<1>1. IInv => DuplicatesNeedLostAcks
  BY DEF IInv, Safe, CopyInv, DuplicatesNeedLostAcks, TypeOK
<1>2. QED
  BY <1>1, Invariance, PTL

(* A row that waits counts all its attempts, one that ended all but the    *)
(* last, and one in sending misses one at most: crashes do not renew the   *)
(* budget.                                                                 *)
THEOREM CountsHold == Spec => []AttemptsAreCounted
<1>1. IInv => AttemptsAreCounted
  BY DEF IInv, Safe, CountInv, AttemptsAreCounted
<1>2. QED
  BY <1>1, Invariance, PTL

(* A cancelled message is not on its way and was not delivered.            *)
THEOREM CancelIsSafe == Spec => []CancelledIsUnsent
<1>1. IInv => CancelledIsUnsent
  BY DEF IInv, Safe, TaskOwnsRow, CopyInv, CancelledIsUnsent, Held, TypeOK
<1>2. QED
  BY <1>1, Invariance, PTL

(* Sent and bounced rows never change, but with their mailbox.             *)
THEOREM TerminalStays == Spec => TerminalIsFinal
<1>1. ASSUME IInv, TypeOK', [Next]_vars, NEW i \in Items, status[i] \in Terminal
      PROVE  status'[i] \in {status[i], "erased"}
  <2> USE <1>1 DEF Terminal, Claimable, Retryable, Cancellable, Stored
  <2>1. \A p \in Processors : stage[p][i] = "none"
    BY DEF IInv, Safe, TaskOwnsRow
  <2>2. ASSUME NEW p \in Processors, Work(p)
        PROVE  status'[i] = status[i]
    <3>1. ASSUME NEW S \in SUBSET Items, Claim(p, S)
          PROVE  status'[i] = status[i]
      BY <3>1 DEF Claim, Batches, Ready
    <3>2. ASSUME NEW j \in Items, NEW accepted \in BOOLEAN,
                 NEW outcome \in {"ok", "transient", "bounce"},
                 Attempt(p, j, accepted, outcome)
          PROVE  status'[i] = status[i]
      BY <3>2 DEF Attempt, table
    <3>3. ASSUME NEW j \in Items,
                 MarkSent(p, j) \/ MarkBounced(p, j) \/ MarkDeadLetter(p, j) \/ MarkFailed(p, j)
          PROVE  status'[i] = status[i]
      <4>1. stage[p][j] # "none"
        BY <3>3 DEF MarkSent, MarkBounced, MarkDeadLetter, MarkFailed
      <4>2. j # i
        BY <2>1, <4>1
      <4>3. QED
        BY <3>3, <4>2
        DEF MarkSent, MarkBounced, MarkDeadLetter, MarkFailed, Finish, IInv, TypeOK
    <3>4. QED
      BY <2>2, <3>1, <3>2, <3>3 DEF Work
  <2>3. ASSUME NEW p \in Processors, Crash(p)
        PROVE  status'[i] = status[i]
    BY <2>3 DEF Crash, table
  <2>4. ASSUME NEW j \in Items, Enqueue(j) \/ BecomeDue(j) \/ Cancel(j) \/ Retry(j)
        PROVE  status'[i] = status[i]
    BY <2>4 DEF Enqueue, BecomeDue, Cancel, Retry, IInv, TypeOK
  <2>5. ASSUME NEW m \in Mailboxes, DeleteMailbox(m)
        PROVE  status'[i] \in {status[i], "erased"}
    BY <2>5 DEF DeleteMailbox
  <2>6. CASE UNCHANGED vars
    BY <2>6 DEF vars, table
  <2>7. QED
    BY <2>2, <2>3, <2>4, <2>5, <2>6 DEF Next
<1>2. IInv /\ TypeOK' /\ [Next]_vars =>
        [\A i \in Items : status[i] \in Terminal =>
                             status'[i] \in {status[i], "erased"}]_vars
  BY <1>1
<1>3. QED
  BY <1>2, Invariance, TypeCorrect, PTL DEF Spec, TerminalIsFinal

-----------------------------------------------------------------------------
(***************************************************************************)
(* EmailQueue implements OutgoingMail: every step of a processor, of the   *)
(* owner, of the clock or of a fault is a step of the abstract queue under *)
(* the mapping Life, Try of EmailQueue, or leaves the abstract state as it *)
(* is.  The argument rests on the invariant IInv.                          *)
(***************************************************************************)
(* A batch claim begins a try of each row of the batch.                    *)
LEMMA ClaimMaps ==
  ASSUME IInv, IInv', NEW p \in Processors, NEW S \in SUBSET Items, Claim(p, S)
  PROVE  \E T \in SUBSET S : Mail!Begin(S, T)
<1> USE DEF Claimable, Stages
<1>1. \A i \in S : status[i] \in Claimable /\ \A q \in Processors : stage[q][i] = "none"
  BY DEF Claim, Batches, Ready, IInv, Safe, TaskOwnsRow
<1>2. /\ \A i \in Items : status'[i] = IF i \in S THEN "sending" ELSE status[i]
      /\ \A i \in Items : handed'[i] = IF i \in S THEN FALSE ELSE handed[i]
  BY DEF Claim
<1>3. \A i \in S : Life(i) = "waiting" /\ Try(i) # "open"
  BY <1>1 DEF Life, Try
<1>4. \A i \in Items : Life(i)' = IF i \in S THEN "trying" ELSE Life(i)
  BY <1>2 DEF Life
<1>5. CASE UNCHANGED tasks
  <2>1. \A i \in Items : Try(i)' = IF i \in S THEN "idle" ELSE Try(i)
    BY <1>1, <1>2, <1>5 DEF Try, tasks
  <2>2. Mail!Begin(S, {})
    BY <1>3, <1>4, <2>1 DEF Mail!Begin
  <2>3. QED
    BY <2>2
<1>6. CASE stage' = [stage EXCEPT ![p] = [i \in Items |-> IF i \in S THEN "claimed" ELSE "none"]]
  <2>1. \A q \in Processors, i \in Items :
          stage'[q][i] = IF q = p THEN (IF i \in S THEN "claimed" ELSE "none") ELSE stage[q][i]
    BY <1>6 DEF IInv, TypeOK
  <2>2. \A i \in Items : stage[p][i] = "none"
    BY DEF Claim, Idle
  <2>3. \A i \in Items : Try(i)' = IF i \in S THEN "open" ELSE Try(i)
    BY <1>2, <2>1, <2>2 DEF Try
  <2>4. Mail!Begin(S, S)
    BY <1>3, <1>4, <2>3 DEF Mail!Begin
  <2>5. QED
    BY <2>4
<1>7. QED
  BY <1>5, <1>6 DEF Claim

(* An attempt hands over a copy, or ends the try empty-handed.             *)
LEMMA AttemptMaps ==
  ASSUME IInv, IInv', NEW p \in Processors, NEW i \in Items, NEW accepted \in BOOLEAN,
         NEW outcome \in {"ok", "transient", "bounce"}, Attempt(p, i, accepted, outcome)
  PROVE  Mail!HandOver(i) \/ Mail!Break({i})
<1>1. /\ stage[p][i] = "claimed" /\ UNCHANGED status
      /\ \A q \in Processors : q # p => stage[q][i] = "none"
  BY DEF Attempt, table, IInv, Safe, ExclusiveClaim
<1>2. \A q \in Processors, j \in Items :
        stage'[q][j] = IF q = p /\ j = i THEN outcome ELSE stage[q][j]
  BY DEF Attempt, IInv, TypeOK, Stages
<1>3. \A j \in Items : handed'[j] = IF j = i THEN accepted ELSE handed[j]
  BY DEF Attempt, IInv, TypeOK
<1>4. \A j \in Items : Life(j)' = Life(j)
  BY <1>1 DEF Life
<1>5. Try(i) = "open"
  BY <1>1 DEF Try
<1>6. \A j \in Items : Try(j)' = IF j = i THEN (IF accepted THEN "handed" ELSE "idle") ELSE Try(j)
  BY <1>1, <1>2, <1>3 DEF Try
<1>7. CASE accepted
  BY <1>4, <1>5, <1>6, <1>7 DEF Mail!HandOver
<1>8. CASE ~accepted
  BY <1>4, <1>5, <1>6, <1>8 DEF Mail!Break
<1>9. QED
  BY <1>7, <1>8

(* Marking the row settles the try, or its result is lost.                 *)
LEMMA FinishMaps ==
  ASSUME IInv, IInv', NEW p \in Processors, NEW i \in Items,
         MarkSent(p, i) \/ MarkBounced(p, i) \/ MarkDeadLetter(p, i) \/ MarkFailed(p, i)
  PROVE  Mail!Settle(i) \/ UNCHANGED Mail!avars
<1> USE DEF MarkSent, MarkBounced, MarkDeadLetter, MarkFailed, Finish, Claimable, Stored,
            Retryable, Terminal
<1>1. /\ stage[p][i] \in Done /\ UNCHANGED handed
      /\ \A q \in Processors : q # p => stage[q][i] = "none"
  BY DEF IInv, Safe, ExclusiveClaim, Done
<1>2. \A q \in Processors, j \in Items :
        stage'[q][j] = IF q = p /\ j = i THEN "none" ELSE stage[q][j]
  BY DEF IInv, TypeOK, Stages
<1>3. \A j \in Items : Try(j)' = Try(j)
  BY <1>1, <1>2 DEF Try, Done
<1>4. Try(i) = IF handed[i] THEN "handed" ELSE "idle"
  BY <1>1 DEF Try, Done
<1>5. \A j \in Items : j # i => status'[j] = status[j]
  BY DEF IInv, TypeOK
<1>6. \A j \in Items : j # i => Life(j)' = Life(j)
  BY <1>5 DEF Life
<1>7. CASE status'[i] = status[i]
  <2>1. Life(i)' = Life(i)
    BY <1>7 DEF Life
  <2>2. QED
    BY <1>3, <1>6, <2>1 DEF Mail!avars
<1>8. CASE status'[i] # status[i]
  <2>1. status[i] = "sending"
    BY <1>8 DEF IInv, Safe, TaskOwnsRow
  <2>2. \/ status'[i] = "sent" /\ stage[p][i] = "ok"
        \/ status'[i] = "bounced" /\ stage[p][i] = "bounce"
        \/ status'[i] \in {"failed", "dead_letter"}
    BY <1>8, <2>1 DEF IInv, TypeOK
  <2>3. /\ stage[p][i] = "ok" => handed[i]
        /\ stage[p][i] = "bounce" => ~handed[i]
    BY DEF IInv, Safe, HandedInv
  <2>4. Life(i) = "trying" /\ Life(i)' \in {"waiting", "dead"}
                                \cup (IF Try(i) = "handed" THEN {"sent"} ELSE {"bounced"})
    BY <1>4, <2>1, <2>2, <2>3 DEF Life
  <2>5. QED
    BY <1>3, <1>4, <1>6, <2>4 DEF Mail!Settle, Mail!Outcomes
<1>9. QED
  BY <1>7, <1>8

(* A crash breaks off the tries the processor had open.                    *)
LEMMA CrashMaps ==
  ASSUME IInv, IInv', NEW p \in Processors, Crash(p)
  PROVE  \E S \in SUBSET Items : Mail!Break(S)
<1> DEFINE S == {i \in Items : stage[p][i] = "claimed"}
<1>1. \A q \in Processors, i \in Items :
        stage'[q][i] = IF q = p THEN "none" ELSE stage[q][i]
  BY DEF Crash, IInv, TypeOK
<1>2. UNCHANGED <<status, handed>>
  BY DEF Crash, table
<1>3. \A i \in Items : Life(i)' = Life(i)
  BY <1>2 DEF Life
<1>4. \A i \in S : Try(i) = "open"
  BY DEF Try
<1>5. \A i \in S : ~handed[i] /\ \A q \in Processors : q # p => stage[q][i] = "none"
  BY DEF IInv, Safe, HandedInv, ExclusiveClaim
<1>6. \A i \in Items : Try(i)' = IF i \in S THEN "idle" ELSE Try(i)
  BY <1>1, <1>2, <1>5 DEF Try
<1>7. Mail!Break(S)
  BY <1>3, <1>4, <1>6 DEF Mail!Break
<1>8. QED
  BY <1>7

(* The owner submits, withdraws and revives; a retry of a failed row, and  *)
(* the passing of its delay, are invisible.                                *)
LEMMA RowMaps ==
  ASSUME IInv, IInv', NEW i \in Items,
         Enqueue(i) \/ BecomeDue(i) \/ Cancel(i) \/ Retry(i)
  PROVE  Mail!Submit(i) \/ Mail!Withdraw(i) \/ Mail!Revive(i) \/ UNCHANGED Mail!avars
<1> USE DEF Claimable, Cancellable, Retryable
<1>1. /\ UNCHANGED <<stage, handed>>
      /\ \A j \in Items : j # i => status'[j] = status[j]
  BY DEF Enqueue, BecomeDue, Cancel, Retry, tasks, history, IInv, TypeOK
<1>2. \/ status'[i] = status[i]
      \/ status[i] = "absent" /\ status'[i] = "pending"
      \/ status[i] \in Cancellable /\ status'[i] = "cancelled"
      \/ status[i] \in Retryable /\ status'[i] = "pending"
  BY DEF Enqueue, BecomeDue, Cancel, Retry, IInv, TypeOK
<1>3. \A j \in Items : Try(j)' = Try(j)
  BY <1>1 DEF Try
<1>4. \A j \in Items : j # i => Life(j)' = Life(j)
  BY <1>1 DEF Life
<1>5. CASE Life(i)' = Life(i)
  BY <1>3, <1>4, <1>5 DEF Mail!avars
<1>6. CASE Life(i) = "absent" /\ Life(i)' = "waiting"
  BY <1>3, <1>4, <1>6 DEF Mail!Submit
<1>7. CASE Life(i) \in {"waiting", "dead"} /\ Life(i)' = "withdrawn"
  BY <1>3, <1>4, <1>7 DEF Mail!Withdraw
<1>8. CASE Life(i) = "dead" /\ Life(i)' = "waiting"
  BY <1>3, <1>4, <1>8 DEF Mail!Revive
<1>9. QED
  BY <1>2, <1>5, <1>6, <1>7, <1>8 DEF Life

(* The deletion of a mailbox erases its messages.                          *)
LEMMA DeleteMailboxMaps ==
  ASSUME IInv, IInv', NEW m \in Mailboxes, DeleteMailbox(m)
  PROVE  \E S \in SUBSET Items : Mail!Erase(S)
<1> DEFINE S == {i \in Items : Owner[i] = m /\ status[i] \in Stored}
<1>1. /\ \A i \in Items : status'[i] = IF i \in S THEN "erased" ELSE status[i]
      /\ UNCHANGED <<stage, handed>>
  BY DEF DeleteMailbox, tasks, history
<1>2. \A i \in Items : Life(i)' = IF i \in S THEN "erased" ELSE Life(i)
  BY <1>1 DEF Life, Claimable
<1>3. \A i \in Items : Try(i)' = Try(i)
  BY <1>1 DEF Try
<1>4. Mail!Erase(S)
  BY <1>2, <1>3 DEF Mail!Erase
<1>5. QED
  BY <1>4

(* The queue keeps the promises of OutgoingMail.                           *)
THEOREM QueueImplementsOutgoingMail == Spec => ImplementsOutgoingMail
<1>1. Init => Mail!AInit
  BY DEF Init, Mail!AInit, Life, Try, Claimable
<1>2. IInv /\ IInv' /\ [Next]_vars => [Mail!ANext]_(Mail!avars)
  <2> SUFFICES ASSUME IInv, IInv', [Next]_vars PROVE Mail!ANext \/ UNCHANGED Mail!avars
    BY DEF Mail!avars
  <2>1. CASE \E p \in Processors : Work(p) \/ Crash(p)
    <3> PICK p \in Processors : Work(p) \/ Crash(p)
      BY <2>1
    <3>1. CASE \E S \in SUBSET Items : Claim(p, S)
      BY <3>1, ClaimMaps DEF Mail!ANext
    <3>2. CASE \E i \in Items, accepted \in BOOLEAN, outcome \in {"ok", "transient", "bounce"} :
                 Attempt(p, i, accepted, outcome)
      <4>1. \A i \in Items : Mail!Break({i}) => \E S \in SUBSET Items : Mail!Break(S)
        OBVIOUS
      <4>2. QED
        BY <3>2, <4>1, AttemptMaps DEF Mail!ANext
    <3>3. CASE \E i \in Items : \/ MarkSent(p, i) \/ MarkBounced(p, i)
                                \/ MarkDeadLetter(p, i) \/ MarkFailed(p, i)
      BY <3>3, FinishMaps DEF Mail!ANext
    <3>4. CASE Crash(p)
      BY <3>4, CrashMaps DEF Mail!ANext
    <3>5. QED
      BY <3>1, <3>2, <3>3, <3>4 DEF Work
  <2>2. CASE \E i \in Items : Enqueue(i) \/ BecomeDue(i) \/ Cancel(i) \/ Retry(i)
    BY <2>2, RowMaps DEF Mail!ANext
  <2>3. CASE \E m \in Mailboxes : DeleteMailbox(m)
    BY <2>3, DeleteMailboxMaps DEF Mail!ANext
  <2>4. CASE UNCHANGED vars
    BY <2>4 DEF vars, table, tasks, history, Mail!avars, Life, Try
  <2>5. QED
    BY <2>1, <2>2, <2>3, <2>4 DEF Next
<1>3. QED
  BY <1>1, <1>2, Invariance, PTL DEF Spec, ImplementsOutgoingMail, Mail!ASpec
=============================================================================
