----------------------------- MODULE EmailQueue -----------------------------
(***************************************************************************)
(* The outgoing queue: the table email_queue (models/email_queue.rs), the  *)
(* queue processors that drain it (services/queue_processor.rs) and the    *)
(* owner's cancel and retry (handlers/queue.rs).                           *)
(*                                                                         *)
(* Each SQL statement is one action, because each runs in a transaction of *)
(* its own.  A processor works through the steps of process_item, one task *)
(* for each row it claimed, and the tasks of a batch interleave.           *)
(***************************************************************************)
EXTENDS Integers, FiniteSets, Sequences

CONSTANTS
  Items,        \* the ids a row of email_queue can have
  Processors,   \* the running QueueProcessors, in one process or in several
  Mailboxes,    \* the mailboxes that own rows
  Owner,        \* Owner[i]: email_queue.mailbox_id of row i
  Priority,     \* Priority[i]: email_queue.priority of row i
  MaxRetries,   \* email_queue.max_retries, the column's default
  BatchSize,    \* QueueProcessor.batch_size
  MaxFaults,    \* bound: crashes and failed database calls in a behaviour
  MaxRevivals   \* bound: successful manual retries of one row

ASSUME QueueAssumption ==
  /\ IsFiniteSet(Items)
  /\ Owner \in [Items -> Mailboxes]
  /\ Priority \in [Items -> Int]
  /\ MaxRetries \in Nat \ {0}
  /\ BatchSize \in Nat \ {0}
  /\ MaxFaults \in Nat
  /\ MaxRevivals \in Nat

VARIABLES
  status,       \* status[i]: the column, or why there is no row i
  retry_count,  \* retry_count[i]: the column
  wait,         \* wait[i]: the delay until next_retry_at, 0 once it has passed
  mailboxes,    \* the mailboxes that exist
  stage,        \* stage[p][i]: how far processor p got in process_item for row i
  seen,         \* seen[p][i]: retry_count in the copy of row i that p claimed
  attempts,     \* history: SMTP attempts since the row was enqueued or revived
  copies,       \* history: copies of the message the SMTP servers accepted
  lostAcks,     \* history: those of the copies reported to p as an error
  handed,       \* history: whether the latest claim of the row led to a copy
  revivals,     \* history: successful manual retries
  faults        \* history: crashes and failed database calls so far

table == <<status, retry_count, wait, mailboxes>>
tasks == <<stage, seen>>
history == <<attempts, copies, lostAcks, handed, revivals, faults>>
vars == <<table, tasks, history>>

-----------------------------------------------------------------------------
(* Slips: what a plausible bug would make of a definition below.           *)
CancellableInFlight == {"pending", "failed", "dead_letter", "sending"}
RetryableInFlight == {"failed", "dead_letter", "sending"}
RetryableBounced == {"failed", "dead_letter", "bounced"}

Claimable == {"pending", "failed"}
Cancellable == {"pending", "failed", "dead_letter"}
Retryable == {"failed", "dead_letter"}
Terminal == {"sent", "bounced"}
Gone == {"cancelled", "erased"}     \* the owner, or the cascade, deleted the row
Stored == Claimable \cup Retryable \cup Terminal \cup {"sending"}
Statuses == Stored \cup Gone \cup {"absent"}

Stages == {"none", "claimed", "ok", "transient", "bounce"}

RETRY_SCHEDULE_SECS == <<5, 30, 300>>
Delays == {RETRY_SCHEDULE_SECS[k] : k \in 1 .. Len(RETRY_SCHEDULE_SECS)}

(* The schedule is indexed from zero in the code, and the index is capped. *)
calculate_backoff_secs(n) ==
  IF n < Len(RETRY_SCHEDULE_SECS)
    THEN RETRY_SCHEDULE_SECS[n + 1]
    ELSE RETRY_SCHEDULE_SECS[Len(RETRY_SCHEDULE_SECS)]

TypeOK ==
  /\ status \in [Items -> Statuses]
  /\ retry_count \in [Items -> 0 .. MaxRetries - 1]
  /\ wait \in [Items -> Delays \cup {0}]
  /\ mailboxes \in SUBSET Mailboxes
  /\ stage \in [Processors -> [Items -> Stages]]
  /\ seen \in [Processors -> [Items -> 0 .. MaxRetries - 1]]
  /\ attempts \in [Items -> Nat]
  /\ copies \in [Items -> Nat]
  /\ lostAcks \in [Items -> Nat]
  /\ handed \in [Items -> BOOLEAN]
  /\ revivals \in [Items -> 0 .. MaxRevivals]
  /\ faults \in 0 .. MaxFaults

Held(i) == \E p \in Processors : stage[p][i] # "none"
Idle(p) == \A i \in Items : stage[p][i] = "none"

(* Slips: claim_batch takes over rows in flight, or forgets retries.       *)
ReadyInFlight(i) == status[i] \in Claimable \cup {"sending"} /\ wait[i] = 0
ReadyFirstTry(i) == status[i] = "pending" /\ wait[i] = 0

(* The WHERE clause of claim_batch.                                        *)
Ready(i) == status[i] \in Claimable /\ wait[i] = 0

(* A row that says it is being sent, though no processor is sending it.    *)
Stranded(i) == status[i] = "sending" /\ ~Held(i)

-----------------------------------------------------------------------------
Init ==
  /\ status = [i \in Items |-> "absent"]
  /\ retry_count = [i \in Items |-> 0]
  /\ wait = [i \in Items |-> 0]
  /\ mailboxes = Mailboxes
  /\ stage = [p \in Processors |-> [i \in Items |-> "none"]]
  /\ seen = [p \in Processors |-> [i \in Items |-> 0]]
  /\ attempts = [i \in Items |-> 0]
  /\ copies = [i \in Items |-> 0]
  /\ lostAcks = [i \in Items |-> 0]
  /\ handed = [i \in Items |-> FALSE]
  /\ revivals = [i \in Items |-> 0]
  /\ faults = 0

(* enqueue: the foreign key refuses a row whose mailbox is gone.           *)
Enqueue(i) ==
  /\ status[i] = "absent"
  /\ Owner[i] \in mailboxes
  /\ status' = [status EXCEPT ![i] = "pending"]
  /\ UNCHANGED <<retry_count, wait, mailboxes, tasks, history>>

(* The rows claim_batch may select: as many as the limit allows, the more  *)
(* urgent before the less urgent.  Which of several rows of one priority   *)
(* became ready first is left open.                                        *)
Batches ==
  LET ready == {i \in Items : Ready(i)}
  IN {S \in SUBSET ready :
        /\ S # {}
        /\ \/ S = ready /\ Cardinality(ready) <= BatchSize
           \/ Cardinality(S) = BatchSize
        /\ \A i \in S, j \in ready \ S : Priority[i] >= Priority[j]}

(* tick, which the loop of start runs only when the batch before is done.  *)
(* The answer of the claim statement may be lost after it was committed.   *)
Claim(p, S) ==
  /\ Idle(p)
  /\ S \in Batches
  /\ status' = [i \in Items |-> IF i \in S THEN "sending" ELSE status[i]]
  /\ handed' = [i \in Items |-> IF i \in S THEN FALSE ELSE handed[i]]
  /\ \/ /\ stage' = [stage EXCEPT ![p] =
                       [i \in Items |-> IF i \in S THEN "claimed" ELSE "none"]]
        /\ seen' = [seen EXCEPT ![p] =
                      [i \in Items |-> IF i \in S THEN retry_count[i] ELSE 0]]
        /\ UNCHANGED faults
     \/ /\ faults < MaxFaults
        /\ faults' = faults + 1
        /\ UNCHANGED tasks
  /\ UNCHANGED <<retry_count, wait, mailboxes, attempts, copies, lostAcks, revivals>>

(* The SMTP conversation of process_item, the configuration lookup and the *)
(* decryption before it included: each can fail, and each failure but a    *)
(* hard bounce is retried.  The server may accept the message and the      *)
(* answer be lost, which process_item sees as an error.                    *)
Attempt(p, i, accepted, outcome) ==
  /\ stage[p][i] = "claimed"
  /\ outcome = "ok" => accepted
  /\ outcome = "bounce" => ~accepted
  /\ stage' = [stage EXCEPT ![p][i] = outcome]
  /\ attempts' = [attempts EXCEPT ![i] = @ + 1]
  /\ copies' = [copies EXCEPT ![i] = IF accepted THEN @ + 1 ELSE @]
  /\ lostAcks' = [lostAcks EXCEPT ![i] =
                    IF accepted /\ outcome = "transient" THEN @ + 1 ELSE @]
  /\ handed' = [handed EXCEPT ![i] = accepted]
  /\ UNCHANGED <<table, seen, revivals, faults>>

(* The end of a task: the row, if it is still there, is updated by its id  *)
(* alone; or the update fails, which is only logged.                       *)
Finish(p, i, newStatus, newCount, newWait) ==
  /\ stage' = [stage EXCEPT ![p][i] = "none"]
  /\ seen' = [seen EXCEPT ![p][i] = 0]
  /\ \/ /\ IF status[i] \in Stored
             THEN /\ status' = [status EXCEPT ![i] = newStatus]
                  /\ retry_count' = [retry_count EXCEPT ![i] = newCount]
                  /\ wait' = [wait EXCEPT ![i] = newWait]
             ELSE UNCHANGED <<status, retry_count, wait>>
        /\ UNCHANGED faults
     \/ /\ faults < MaxFaults
        /\ faults' = faults + 1
        /\ UNCHANGED <<status, retry_count, wait>>
  /\ UNCHANGED <<mailboxes, attempts, copies, lostAcks, handed, revivals>>

MarkSent(p, i) ==
  /\ stage[p][i] = "ok"
  /\ Finish(p, i, "sent", retry_count[i], wait[i])

MarkBounced(p, i) ==
  /\ stage[p][i] = "bounce"
  /\ Finish(p, i, "bounced", retry_count[i], wait[i])

MarkDeadLetter(p, i) ==
  /\ stage[p][i] = "transient"
  /\ seen[p][i] + 1 >= MaxRetries
  /\ Finish(p, i, "dead_letter", retry_count[i], wait[i])

(* Slip: the failure is not added to the count.                            *)
MarkFailedUncounted(p, i) ==
  /\ stage[p][i] = "transient"
  /\ seen[p][i] + 1 < MaxRetries
  /\ Finish(p, i, "failed", seen[p][i], calculate_backoff_secs(seen[p][i] + 1))

MarkFailed(p, i) ==
  /\ stage[p][i] = "transient"
  /\ seen[p][i] + 1 < MaxRetries
  /\ Finish(p, i, "failed", seen[p][i] + 1, calculate_backoff_secs(seen[p][i] + 1))

(* The process dies and is restarted: its tasks are gone, the rows it      *)
(* claimed stay as they are.                                               *)
Crash(p) ==
  /\ ~Idle(p)
  /\ faults < MaxFaults
  /\ faults' = faults + 1
  /\ stage' = [stage EXCEPT ![p] = [i \in Items |-> "none"]]
  /\ seen' = [seen EXCEPT ![p] = [i \in Items |-> 0]]
  /\ UNCHANGED <<table, attempts, copies, lostAcks, handed, revivals>>

(* next_retry_at passes.                                                   *)
BecomeDue(i) ==
  /\ wait[i] > 0
  /\ wait' = [wait EXCEPT ![i] = 0]
  /\ UNCHANGED <<status, retry_count, mailboxes, tasks, history>>

(* cancel_queued: EmailQueueItem::delete.                                  *)
Cancel(i) ==
  /\ status[i] \in Cancellable
  /\ status' = [status EXCEPT ![i] = "cancelled"]
  /\ UNCHANGED <<retry_count, wait, mailboxes, tasks, history>>

(* retry_queued: EmailQueueItem::retry gives the row a new retry budget.   *)
Retry(i) ==
  /\ status[i] \in Retryable
  /\ revivals[i] < MaxRevivals
  /\ status' = [status EXCEPT ![i] = "pending"]
  /\ retry_count' = [retry_count EXCEPT ![i] = 0]
  /\ wait' = [wait EXCEPT ![i] = 0]
  /\ attempts' = [attempts EXCEPT ![i] = 0]
  /\ revivals' = [revivals EXCEPT ![i] = @ + 1]
  /\ UNCHANGED <<mailboxes, tasks, copies, lostAcks, handed, faults>>

(* The mailbox is deleted, and by ON DELETE CASCADE all its rows with it,  *)
(* those a processor is working on included.                               *)
DeleteMailbox(m) ==
  /\ m \in mailboxes
  /\ mailboxes' = mailboxes \ {m}
  /\ status' = [i \in Items |-> IF Owner[i] = m /\ status[i] \in Stored
                                  THEN "erased" ELSE status[i]]
  /\ UNCHANGED <<retry_count, wait, tasks, history>>

Work(p) ==
  \/ \E S \in SUBSET Items : Claim(p, S)
  \/ \E i \in Items :
       \/ \E accepted \in BOOLEAN, outcome \in {"ok", "transient", "bounce"} :
            Attempt(p, i, accepted, outcome)
       \/ MarkSent(p, i)
       \/ MarkBounced(p, i)
       \/ MarkDeadLetter(p, i)
       \/ MarkFailed(p, i)

Next ==
  \/ \E p \in Processors : Work(p) \/ Crash(p)
  \/ \E i \in Items : Enqueue(i) \/ BecomeDue(i) \/ Cancel(i) \/ Retry(i)
  \/ \E m \in Mailboxes : DeleteMailbox(m)

Spec == Init /\ [][Next]_vars

(* The loop of start never stops polling and process_item always returns;  *)
(* the clock never stops.  Nothing obliges the owner, or a fault, to act.  *)
Fairness == /\ \A p \in Processors : WF_vars(Work(p))
            /\ \A i \in Items : WF_vars(BecomeDue(i))

FairSpec == Spec /\ Fairness

-----------------------------------------------------------------------------
(* No row is worked on by two processors, however their claims interleave: *)
(* what claim_batch's FOR UPDATE SKIP LOCKED and the status 'sending' are  *)
(* for ("Each item is claimed once across the entire fleet of workers").   *)
ExclusiveClaim ==
  \A i \in Items, p, q \in Processors :
    stage[p][i] # "none" /\ stage[q][i] # "none" => p = q

(* While a processor works on a row nobody else changes it, unless the     *)
(* mailbox is deleted: the copy the processor claimed still says how many  *)
(* retries were used, so the updates by id alone overwrite nothing.        *)
TaskOwnsRow ==
  \A i \in Items, p \in Processors :
    stage[p][i] # "none" =>
      \/ status[i] = "sending" /\ seen[p][i] = retry_count[i]
      \/ status[i] = "erased"

(* A message is delivered twice only if an acknowledgement was lost: no    *)
(* crash, failed update, cancel or manual retry makes a processor send     *)
(* again what an SMTP server is known to have accepted.                    *)
DuplicatesNeedLostAcks ==
  \A i \in Items :
    /\ copies[i] <= lostAcks[i] + 1
    /\ copies[i] = lostAcks[i] + 1 =>
         /\ status[i] \in {"sent", "sending", "erased"}
         /\ \A p \in Processors : stage[p][i] \in {"none", "ok"}

(* No attempt escapes the count: process_item writes back a number that it *)
(* read at the claim, yet a row that waits counts every attempt since it   *)
(* was enqueued or revived, whatever claims, answers and updates were lost *)
(* before and whoever made the attempts.  The last attempt is not counted; *)
(* a row in sending, held or stranded, may have one that is not counted.   *)
AttemptsAreCounted ==
  \A i \in Items :
    /\ status[i] \in Claimable => attempts[i] = retry_count[i]
    /\ status[i] = "sending" => attempts[i] \in {retry_count[i], retry_count[i] + 1}
    /\ status[i] \in Terminal \cup {"dead_letter"} =>
         attempts[i] = retry_count[i] + 1

(* A cancelled row is not being sent, and no acknowledged copy of it went  *)
(* out: delete refuses the statuses in which either could be so.           *)
CancelledIsUnsent ==
  \A i \in Items :
    status[i] = "cancelled" => ~Held(i) /\ copies[i] = lostAcks[i]

(* Sent and bounced are final: no claim, retry or late update by a         *)
(* processor that crashed or lagged moves such a row again.                *)
TerminalIsFinal ==
  [][\A i \in Items : status[i] \in Terminal =>
                          status'[i] \in {status[i], "erased"}]_vars

(* Every row that is waiting or being sent ends, or is left stranded by a  *)
(* fault: nothing else may keep a message in the queue for ever.           *)
EverySendEnds ==
  \A i \in Items :
    status[i] \in Claimable \cup {"sending"}
      ~> \/ status[i] \in Terminal \cup Gone \cup {"dead_letter"}
         \/ Stranded(i)

(* What the owner of the message would be told, and what may still be sent *)
(* of it: the queue implements OutgoingMail.                               *)
Life(i) == CASE status[i] \in Claimable -> "waiting"
             [] status[i] = "sending" -> "trying"
             [] status[i] = "dead_letter" -> "dead"
             [] status[i] = "cancelled" -> "withdrawn"
             [] OTHER -> status[i]

Try(i) == IF \E p \in Processors : stage[p][i] = "claimed" THEN "open"
          ELSE IF handed[i] THEN "handed" ELSE "idle"

Mail == INSTANCE OutgoingMail WITH Messages <- Items,
                                   life <- [i \in Items |-> Life(i)],
                                   try <- [i \in Items |-> Try(i)]

ImplementsOutgoingMail == Mail!ASpec

-----------------------------------------------------------------------------
(* models/email_queue.rs:53 promises "3 retries at 5s, 30s, 300s (5m)",    *)
(* and migrations/066:8 gives max_retries its default for "3 retries: 5s,  *)
(* 30s, 5m": a dead letter was tried once and retried three times.         *)
ThreeRetries ==
  \A i \in Items :
    status[i] = "dead_letter" => attempts[i] = 1 + Len(RETRY_SCHEDULE_SECS)
=============================================================================
