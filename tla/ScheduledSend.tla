--------------------------- MODULE ScheduledSend ---------------------------
(***************************************************************************)
(* Scheduled and delayed sending: the handlers schedule_send and           *)
(* cancel_scheduled (handlers/scheduled.rs), the table scheduled_emails    *)
(* (models/scheduled_email.rs), the links to uploaded files whose virus    *)
(* scan runs in the background (handlers/attachments.rs), and the          *)
(* EmailScheduler that polls and sends (services/email_scheduler.rs).      *)
(*                                                                         *)
(* Each SQL statement is one action.  The modelled emails belong to one    *)
(* mailbox: those of different mailboxes only share a scheduler's batch.   *)
(***************************************************************************)
EXTENDS Naturals, FiniteSets

CONSTANTS
  Emails,       \* the ids a row of scheduled_emails can have
  NoEmail,      \* not an email
  Files,        \* the uploaded files (rows of attachments)
  Wanted,       \* Wanted[e]: the attachment_ids of the request that creates e
  Schedulers,   \* the EmailSchedulers, one in each backend process
  BatchLimit,   \* the LIMIT of find_ready_to_send
  MaxFaults     \* bound: crashes and failed database calls in a behaviour

ASSUME ScheduleAssumption ==
  /\ NoEmail \notin Emails
  /\ Wanted \in [Emails -> SUBSET Files]
  /\ IsFiniteSet(Schedulers)
  /\ BatchLimit \in Nat \ {0} /\ MaxFaults \in Nat

VARIABLES
  status,    \* status[e]: the column, or why there is no row e
  due,       \* the emails whose scheduled_at has passed
  links,     \* links[e]: scheduled_email_attachments
  scan,      \* scan[f]: attachments.scan_status, or "deleted"
  mailbox,   \* the mailbox exists
  handler,   \* handler[e]: how far schedule_send got with the request for e
  unlinked,  \* unlinked[e]: the files attach_files has yet to link
  phase,     \* phase[s]: what scheduler s is doing
  batch,     \* batch[s]: the emails of this poll s has yet to send
  current,   \* current[s]: the email s is sending
  toLoad,    \* toLoad[s]: the files of it s has yet to read
  loaded,    \* loaded[s]: the files of it s has read
  copies,    \* history: the copies of e the SMTP server accepted
  unmarked,  \* history: sends of e whose mark_sent did not reach the table
  undone,    \* history: whether e was cancelled before or after it was due
  flagged,   \* history: files flagged infected since s took up its email
  faults     \* history: crashes and failed database calls so far

rows == <<status, due, links>>
requests == <<handler, unlinked>>
work == <<phase, batch, current, toLoad, loaded, flagged>>
history == <<copies, unmarked, undone>>
vars == <<rows, scan, mailbox, requests, work, history, faults>>

Rows == {"pending", "sent", "failed", "cancelled"}

TypeOK ==
  /\ status \in [Emails -> Rows \cup {"absent", "erased"}]
  /\ due \in SUBSET Emails
  /\ links \in [Emails -> SUBSET Files]
  /\ scan \in [Files -> {"pending", "clean", "infected", "error", "deleted"}]
  /\ mailbox \in BOOLEAN
  /\ handler \in [Emails -> {"idle", "validated", "linking", "replied", "refused"}]
  /\ unlinked \in [Emails -> SUBSET Files]
  /\ phase \in [Schedulers -> {"idle", "next", "configured", "loading", "sent", "failed"}]
  /\ batch \in [Schedulers -> SUBSET Emails]
  /\ current \in [Schedulers -> Emails \cup {NoEmail}]
  /\ toLoad \in [Schedulers -> SUBSET Files]
  /\ loaded \in [Schedulers -> SUBSET Files]
  /\ copies \in [Emails -> Nat]
  /\ unmarked \in [Emails -> Nat]
  /\ undone \in [Emails -> {"no", "early", "late"}]
  /\ flagged \in [Schedulers -> SUBSET Files]
  /\ faults \in 0 .. MaxFaults

Init ==
  /\ status = [e \in Emails |-> "absent"]
  /\ due = {}
  /\ links = [e \in Emails |-> {}]
  /\ scan = [f \in Files |-> "pending"]
  /\ mailbox = TRUE
  /\ handler = [e \in Emails |-> "idle"]
  /\ unlinked = [e \in Emails |-> {}]
  /\ phase = [s \in Schedulers |-> "idle"]
  /\ batch = [s \in Schedulers |-> {}]
  /\ current = [s \in Schedulers |-> NoEmail]
  /\ toLoad = [s \in Schedulers |-> {}]
  /\ loaded = [s \in Schedulers |-> {}]
  /\ copies = [e \in Emails |-> 0]
  /\ unmarked = [e \in Emails |-> 0]
  /\ undone = [e \in Emails |-> "no"]
  /\ flagged = [s \in Schedulers |-> {}]
  /\ faults = 0

Fault == faults < MaxFaults /\ faults' = faults + 1

(* Slips: a poll that ignores the deadline, resends failures or joins the  *)
(* links; a check that looks no further than whether the file is there.    *)
ReadyEarly(e) == status[e] = "pending"
ReadyUnsent(e) == status[e] \in {"pending", "failed"} /\ e \in due
ReadyWithFiles(e) == status[e] = "pending" /\ e \in due /\ links[e] # {}
SendableUnscanned(f) == scan[f] # "deleted"

(* The test on a file that both schedule_send and send_email make: it is   *)
(* still there, and not flagged.  A pending or failed scan passes.         *)
Sendable(f) == scan[f] \notin {"deleted", "infected"}

(* The WHERE clause of find_ready_to_send.                                 *)
ReadyToSend(e) == status[e] = "pending" /\ e \in due

-----------------------------------------------------------------------------
(* schedule_send looks every file up before it stores anything.  It does   *)
(* so one by one; no file becomes sendable again, so the lookups that pass *)
(* would all have passed at the first of them.                             *)
Validate(e) ==
  /\ handler[e] = "idle"
  /\ handler' = [handler EXCEPT ![e] =
                   IF \A f \in Wanted[e] : Sendable(f) THEN "validated" ELSE "refused"]
  /\ UNCHANGED <<rows, scan, mailbox, unlinked, work, history, faults>>

(* ScheduledEmail::create.  scheduled_at lies in the future; a mailbox     *)
(* that is gone refuses the row.                                           *)
Insert(e) ==
  /\ handler[e] = "validated"
  /\ IF mailbox
       THEN /\ status' = [status EXCEPT ![e] = "pending"]
            /\ handler' = [handler EXCEPT ![e] = "linking"]
            /\ unlinked' = [unlinked EXCEPT ![e] = Wanted[e]]
       ELSE /\ handler' = [handler EXCEPT ![e] = "refused"]
            /\ UNCHANGED <<status, unlinked>>
  /\ UNCHANGED <<due, links, scan, mailbox, work, history, faults>>

(* One INSERT of attach_files.  An error, a foreign key's or the           *)
(* database's, ends the request; the row stays.                            *)
Link(e, f) ==
  /\ handler[e] = "linking"
  /\ f \in unlinked[e]
  /\ \/ /\ status[e] # "erased" /\ scan[f] # "deleted"
        /\ links' = [links EXCEPT ![e] = @ \cup {f}]
        /\ unlinked' = [unlinked EXCEPT ![e] = @ \ {f}]
        /\ UNCHANGED <<handler, faults>>
     \/ /\ \/ (status[e] = "erased" \/ scan[f] = "deleted") /\ UNCHANGED faults
           \/ Fault
        /\ handler' = [handler EXCEPT ![e] = "refused"]
        /\ UNCHANGED <<links, unlinked>>
  /\ UNCHANGED <<status, due, scan, mailbox, work, history>>

(* Slip: the request is answered while its links are being stored.         *)
ReplyEarly(e) ==
  /\ handler[e] = "linking"
  /\ handler' = [handler EXCEPT ![e] = "replied"]
  /\ UNCHANGED <<rows, scan, mailbox, unlinked, work, history, faults>>

(* 201 Created.                                                            *)
Reply(e) ==
  /\ handler[e] = "linking"
  /\ unlinked[e] = {}
  /\ handler' = [handler EXCEPT ![e] = "replied"]
  /\ UNCHANGED <<rows, scan, mailbox, unlinked, work, history, faults>>

(* scheduled_at, which is also can_undo_until, passes.                     *)
BecomeDue(e) ==
  /\ status[e] = "pending"
  /\ e \notin due
  /\ due' = due \cup {e}
  /\ UNCHANGED <<status, links, scan, mailbox, requests, work, history, faults>>

(* cancel_scheduled answers 204; of any other status it says "not found or *)
(* already sent", and changes nothing.                                     *)
Cancel(e) ==
  /\ status[e] = "pending"
  /\ status' = [status EXCEPT ![e] = "cancelled"]
  /\ undone' = [undone EXCEPT ![e] = IF e \in due THEN "late" ELSE "early"]
  /\ UNCHANGED <<due, links, scan, mailbox, requests, work, copies, unmarked, faults>>

(* The background scan of an upload reports.                               *)
Scan(f, verdict) ==
  /\ scan[f] = "pending"
  /\ scan' = [scan EXCEPT ![f] = verdict]
  /\ flagged' = [s \in Schedulers |-> IF verdict = "infected" /\ current[s] # NoEmail
                                        THEN flagged[s] \cup {f} ELSE flagged[s]]
  /\ UNCHANGED <<rows, mailbox, requests, phase, batch, current, toLoad, loaded,
                 history, faults>>

(* delete_attachment: the cascade drops the links.                         *)
DeleteFile(f) ==
  /\ scan[f] # "deleted"
  /\ scan' = [scan EXCEPT ![f] = "deleted"]
  /\ links' = [e \in Emails |-> links[e] \ {f}]
  /\ UNCHANGED <<status, due, mailbox, requests, work, history, faults>>

(* The mailbox is deleted, and everything it owns with it.                 *)
DeleteMailbox ==
  /\ mailbox
  /\ mailbox' = FALSE
  /\ status' = [e \in Emails |-> IF status[e] \in Rows THEN "erased" ELSE status[e]]
  /\ links' = [e \in Emails |-> {}]
  /\ scan' = [f \in Files |-> "deleted"]
  /\ UNCHANGED <<due, requests, work, history, faults>>

-----------------------------------------------------------------------------
(* find_ready_to_send reads, and claims nothing.  Which of the ready rows  *)
(* were scheduled first is left open.                                      *)
Poll(s, S) ==
  LET ready == {e \in Emails : ReadyToSend(e)}
  IN /\ phase[s] = "idle"
     /\ S # {} /\ S \subseteq ready
     /\ \/ S = ready /\ Cardinality(ready) <= BatchLimit
        \/ Cardinality(S) = BatchLimit
     /\ phase' = [phase EXCEPT ![s] = "next"]
     /\ batch' = [batch EXCEPT ![s] = S]
     /\ UNCHANGED <<rows, scan, mailbox, requests, current, toLoad, loaded, flagged,
                    history, faults>>

(* send_email begins: the row itself is not read again.  The mailbox, its  *)
(* default SMTP configuration, or the decryption may fail it.              *)
TakeUp(s, e) ==
  /\ phase[s] = "next"
  /\ e \in batch[s]
  /\ batch' = [batch EXCEPT ![s] = @ \ {e}]
  /\ current' = [current EXCEPT ![s] = e]
  /\ \/ mailbox /\ phase' = [phase EXCEPT ![s] = "configured"]
     \/ phase' = [phase EXCEPT ![s] = "failed"]
  /\ UNCHANGED <<rows, scan, mailbox, requests, toLoad, loaded, flagged, history, faults>>

(* list_attachment_ids: the links there are by now.                        *)
List(s) ==
  /\ phase[s] = "configured"
  /\ \/ /\ phase' = [phase EXCEPT ![s] = "loading"]
        /\ toLoad' = [toLoad EXCEPT ![s] = links[current[s]]]
     \/ /\ phase' = [phase EXCEPT ![s] = "failed"]
        /\ UNCHANGED toLoad
  /\ UNCHANGED <<rows, scan, mailbox, requests, batch, current, loaded, flagged,
                 history, faults>>

(* One round of the attachment loop: the file is looked up a second time,  *)
(* and its bytes are read.  Either may fail for reasons of its own.        *)
Load(s, f) ==
  /\ phase[s] = "loading"
  /\ f \in toLoad[s]
  /\ \/ /\ Sendable(f)
        /\ toLoad' = [toLoad EXCEPT ![s] = @ \ {f}]
        /\ loaded' = [loaded EXCEPT ![s] = @ \cup {f}]
        /\ UNCHANGED phase
     \/ /\ phase' = [phase EXCEPT ![s] = "failed"]
        /\ UNCHANGED <<toLoad, loaded>>
  /\ UNCHANGED <<rows, scan, mailbox, requests, batch, current, flagged, history, faults>>

(* The SMTP conversation.  The server may accept the message and the       *)
(* answer be lost, which is an error like any other.                       *)
Transmit(s, accepted, outcome) ==
  LET e == current[s]
  IN /\ phase[s] = "loading"
     /\ toLoad[s] = {}
     /\ outcome = "sent" => accepted
     /\ phase' = [phase EXCEPT ![s] = outcome]
     /\ copies' = [copies EXCEPT ![e] = IF accepted THEN @ + 1 ELSE @]
     /\ UNCHANGED <<rows, scan, mailbox, requests, batch, current, toLoad, loaded,
                    flagged, unmarked, undone, faults>>

(* The scheduler forgets its email.                                        *)
Drop(s, newPhase, newBatch) ==
  /\ phase' = [phase EXCEPT ![s] = newPhase]
  /\ batch' = [batch EXCEPT ![s] = newBatch]
  /\ current' = [current EXCEPT ![s] = NoEmail]
  /\ toLoad' = [toLoad EXCEPT ![s] = {}]
  /\ loaded' = [loaded EXCEPT ![s] = {}]
  /\ flagged' = [flagged EXCEPT ![s] = {}]

(* What it did with the email goes unrecorded.                             *)
Unrecorded(s) ==
  unmarked' = [e \in Emails |-> IF phase[s] \in {"sent", "failed"} /\ current[s] = e
                                   THEN unmarked[e] + 1 ELSE unmarked[e]]

(* mark_sent and mark_failed name the row by its id alone.                 *)
Mark(s) ==
  /\ phase[s] \in {"sent", "failed"}
  /\ status' = [status EXCEPT ![current[s]] = IF @ \in Rows THEN phase[s] ELSE @]
  /\ Drop(s, IF batch[s] = {} THEN "idle" ELSE "next", batch[s])
  /\ UNCHANGED <<due, links, scan, mailbox, requests, history, faults>>

(* A failed mark ends the poll: the rest of the batch waits for the next.  *)
MarkFails(s) ==
  /\ phase[s] \in {"sent", "failed"}
  /\ Fault
  /\ Drop(s, "idle", {})
  /\ Unrecorded(s)
  /\ UNCHANGED <<rows, scan, mailbox, requests, copies, undone>>

Crash(s) ==
  /\ phase[s] # "idle"
  /\ Fault
  /\ Drop(s, "idle", {})
  /\ Unrecorded(s)
  /\ UNCHANGED <<rows, scan, mailbox, requests, copies, undone>>

-----------------------------------------------------------------------------
Request(e) == \/ Validate(e) \/ Insert(e) \/ Reply(e)
              \/ \E f \in Files : Link(e, f)

Send(s) == \/ \E S \in SUBSET Emails : Poll(s, S)
           \/ \E e \in Emails : TakeUp(s, e)
           \/ List(s)
           \/ \E f \in Files : Load(s, f)
           \/ \E accepted \in BOOLEAN, outcome \in {"sent", "failed"} :
                Transmit(s, accepted, outcome)
           \/ Mark(s) \/ MarkFails(s)

Next == \/ \E e \in Emails : Request(e) \/ BecomeDue(e) \/ Cancel(e)
        \/ \E f \in Files : \/ \E v \in {"clean", "infected", "error"} : Scan(f, v)
                            \/ DeleteFile(f)
        \/ \E s \in Schedulers : Send(s) \/ Crash(s)
        \/ DeleteMailbox

Spec == Init /\ [][Next]_vars

(* The scheduler's loop never ends and the clock never stops.              *)
FairSpec == /\ Spec
            /\ \A s \in Schedulers : WF_vars(Send(s))
            /\ \A e \in Emails : WF_vars(BecomeDue(e))
-----------------------------------------------------------------------------
(* The promise of undo-send: an email whose cancellation was accepted      *)
(* before can_undo_until is never sent, however many schedulers poll, and  *)
(* none of them is even working on it.                                     *)
UndoneInTimeIsNeverSent ==
  \A e \in Emails :
    undone[e] = "early" =>
      /\ status[e] \in {"cancelled", "erased"}
      /\ copies[e] = 0
      /\ \A s \in Schedulers : e \notin batch[s] /\ current[s] # e

(* find_ready_to_send claims nothing, so each scheduler may send an email  *)
(* once, and once more for every outcome that was not recorded: no other   *)
(* step makes a copy.  A row that says sent has been sent.                 *)
CopiesAreAccountedFor ==
  \A e \in Emails :
    /\ copies[e] <= Cardinality(Schedulers) + unmarked[e]
    /\ status[e] = "sent" => copies[e] >= 1

(* A flagged file leaves only in the race that the second check narrows:   *)
(* when the verdict came after the scheduler had taken the email up.       *)
InfectedOnlyByRace ==
  \A s \in Schedulers : \A f \in loaded[s] : scan[f] = "infected" => f \in flagged[s]

(* The outcome of an email, or the owner's accepted word that there is to  *)
(* be none; and the schedulers that have the email in hand.                *)
Settled(e) == status[e] \in {"sent", "failed", "cancelled"}
Holders(e) == {s \in Schedulers : e \in batch[s] \/ current[s] = e}

(* mark_sent and mark_failed name the row by its id alone, so a scheduler  *)
(* may overwrite a cancellation, or the outcome of another.  But no        *)
(* scheduler takes up an email that is settled, and the row only changes   *)
(* when one that had it before lets go of it: once for each at most.       *)
OnlyHoldersOverwrite ==
  [][\A e \in Emails : Settled(e) =>
       /\ Holders(e)' \subseteq Holders(e)
       /\ Holders(e)' = Holders(e) => status'[e] \in {status[e], "erased"}]_vars

(* Every email that is due is settled, though schedulers may die, get in   *)
(* each other's way, or fail to record what they did.                      *)
DueEmailsEnd ==
  \A e \in Emails : ReadyToSend(e) ~> status[e] # "pending"

(* attach_files is not part of the statement that makes the row sendable,  *)
(* and the scheduler may come in between; but once the request has been    *)
(* answered, each scheduler that takes the email up finds every file that  *)
(* it named and that has not been deleted since.                           *)
AnsweredEmailsAreWhole ==
  [][\A s \in Schedulers :
       /\ phase[s] = "configured" /\ phase'[s] = "loading"
       /\ handler[current[s]] = "replied"
       => \A f \in Wanted[current[s]] \ toLoad'[s] : scan[f] = "deleted"]_vars

=============================================================================
