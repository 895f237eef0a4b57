------------------------ MODULE ScheduledSendProofs ------------------------
(***************************************************************************)
(* The safety of undo-send, for any emails, files, links, schedulers,      *)
(* batch limit and number of faults.                                       *)
(*                                                                         *)
(* The argument: a scheduler learns of an email only by polling, a poll    *)
(* returns an email only while it is pending and due, and the deadline     *)
(* never comes back.  So an email that is absent, or not yet due, or was   *)
(* cancelled before it was due is in no batch and has no copy (Quiet); and *)
(* only a scheduler that holds an email changes its status once it has     *)
(* been cancelled.  The copies of an email are counted together with the   *)
(* schedulers that may still make one (Accounts).                          *)
(***************************************************************************)
EXTENDS ScheduledSend, FiniteSetTheorems, TLAPS

Free(e) == /\ copies[e] = 0
           /\ \A s \in Schedulers : e \notin batch[s] /\ current[s] # e

(* What a scheduler remembers in each phase.                               *)
LocalInv == \A s \in Schedulers :
  /\ phase[s] \in {"idle", "next"} => current[s] = NoEmail /\ loaded[s] = {}
  /\ phase[s] \notin {"idle", "next"} => current[s] \in Emails

(* Whom no scheduler has heard of.                                         *)
Quiet == \A e \in Emails :
  /\ handler[e] \in {"idle", "validated"} => status[e] = "absent"
  /\ status[e] = "absent" => e \notin due /\ undone[e] = "no"
  /\ e \notin due \/ undone[e] = "early" => Free(e)
  /\ undone[e] = "early" => status[e] \in {"cancelled", "erased"}

SInv == TypeOK /\ LocalInv /\ Quiet /\ InfectedOnlyByRace

-----------------------------------------------------------------------------
(* The step of a scheduler, or of another that leaves the requests alone,  *)
(* keeps everybody quiet if it keeps the quiet emails free.                *)
LEMMA QuietStep ==
  ASSUME Quiet, UNCHANGED <<due, undone, handler>>,
         \A e \in Emails : /\ e \notin due \/ undone[e] = "early" =>
                               Free(e)' /\ status'[e] = status[e]
                           /\ status'[e] = "absent" => status[e] = "absent"
  PROVE  Quiet'
BY DEF Quiet, Free

(* A scheduler that drops its email learns of no other.                    *)
LEMMA DropSafe ==
  ASSUME SInv, NEW s \in Schedulers, NEW newPhase \in {"idle", "next"},
         NEW newBatch \in SUBSET batch[s], Drop(s, newPhase, newBatch),
         UNCHANGED <<copies, scan>>
  PROVE  /\ phase' \in [Schedulers -> {"idle", "next", "configured", "loading", "sent", "failed"}]
         /\ batch' \in [Schedulers -> SUBSET Emails]
         /\ current' \in [Schedulers -> Emails \cup {NoEmail}]
         /\ toLoad' \in [Schedulers -> SUBSET Files]
         /\ loaded' \in [Schedulers -> SUBSET Files]
         /\ flagged' \in [Schedulers -> SUBSET Files]
         /\ LocalInv' /\ InfectedOnlyByRace'
         /\ \A e \in Emails : Free(e) => Free(e)'
<1> USE DEF SInv, TypeOK, Drop
<1>1. newBatch \in SUBSET Emails
  OBVIOUS
<1>2. /\ phase' \in [Schedulers -> {"idle", "next", "configured", "loading", "sent", "failed"}]
      /\ batch' \in [Schedulers -> SUBSET Emails]
      /\ current' \in [Schedulers -> Emails \cup {NoEmail}]
  BY <1>1
<1>3. /\ toLoad' \in [Schedulers -> SUBSET Files]
      /\ loaded' \in [Schedulers -> SUBSET Files]
      /\ flagged' \in [Schedulers -> SUBSET Files]
  OBVIOUS
<1>4. LocalInv'
  BY DEF LocalInv
<1>5. InfectedOnlyByRace'
  BY DEF InfectedOnlyByRace
<1>6. \A e \in Emails : Free(e) => Free(e)'
  BY ScheduleAssumption DEF Free
<1>7. QED
  BY <1>2, <1>3, <1>4, <1>5, <1>6

-----------------------------------------------------------------------------
(* The requests: of the schedulers' state they change nothing.             *)
LEMMA RequestSafe ==
  ASSUME SInv, NEW e \in Emails, Request(e)
  PROVE  SInv'
<1> USE DEF SInv, rows, requests, work, history
<1>1. CASE Validate(e)
  BY <1>1 DEF Validate, TypeOK, LocalInv, Quiet, Free, InfectedOnlyByRace
<1>2. CASE Insert(e)
  <2>1. /\ status' \in [Emails -> Rows \cup {"absent", "erased"}]
        /\ handler' \in [Emails -> {"idle", "validated", "linking", "replied", "refused"}]
    BY <1>2 DEF Insert, TypeOK, Rows
  <2>2. unlinked' \in [Emails -> SUBSET Files]
    <3>1. Wanted[e] \in SUBSET Files
      BY ScheduleAssumption
    <3>2. QED
      BY <1>2, <3>1 DEF Insert, TypeOK
  <2>3. TypeOK' /\ LocalInv' /\ InfectedOnlyByRace'
    BY <1>2, <2>1, <2>2 DEF Insert, TypeOK, LocalInv, InfectedOnlyByRace
  <2>4. \A d \in Emails : Free(d)' <=> Free(d)
    BY <1>2 DEF Insert, Free
  <2>5. status[e] = "absent"
    BY <1>2 DEF Insert, Quiet
  <2>6. /\ \A d \in Emails \ {e} : status'[d] = status[d] /\ handler'[d] = handler[d]
        /\ status'[e] \in {"absent", "pending"}
        /\ handler'[e] \in {"linking", "refused"}
        /\ due' = due /\ undone' = undone
    BY <1>2, <2>5 DEF Insert, TypeOK
  <2>7. Quiet'
    BY <2>4, <2>5, <2>6 DEF Quiet
  <2>8. QED
    BY <2>3, <2>7
<1>3. CASE Reply(e)
  BY <1>3 DEF Reply, TypeOK, LocalInv, Quiet, Free, InfectedOnlyByRace
<1>4. ASSUME NEW f \in Files, Link(e, f) PROVE SInv'
  <2>1. /\ links' \in [Emails -> SUBSET Files]
        /\ unlinked' \in [Emails -> SUBSET Files]
    <3>1. links[e] \cup {f} \in SUBSET Files /\ unlinked[e] \ {f} \in SUBSET Files
      BY <1>4 DEF TypeOK
    <3>2. QED
      BY <1>4, <3>1 DEF Link, TypeOK
  <2>2. /\ handler' \in [Emails -> {"idle", "validated", "linking", "replied", "refused"}]
        /\ faults' \in 0 .. MaxFaults
    BY <1>4, ScheduleAssumption DEF Link, Fault, TypeOK
  <2>3. TypeOK' /\ LocalInv' /\ InfectedOnlyByRace'
    BY <1>4, <2>1, <2>2 DEF Link, TypeOK, LocalInv, InfectedOnlyByRace
  <2>4. \A d \in Emails : Free(d)' <=> Free(d)
    BY <1>4 DEF Link, Free
  <2>5. \A d \in Emails : handler'[d] \in {"idle", "validated"} =>
                            handler[d] \in {"idle", "validated"}
    BY <1>4 DEF Link, TypeOK
  <2>6. status' = status /\ due' = due /\ undone' = undone
    BY <1>4 DEF Link
  <2>7. Quiet'
    BY <2>4, <2>5, <2>6 DEF Quiet
  <2>8. QED
    BY <2>3, <2>7
<1>5. QED
  BY <1>1, <1>2, <1>3, <1>4 DEF Request

(* The clock, the owner's cancel and the attachment handlers.              *)
LEMMA OthersSafe ==
  ASSUME SInv,
         \/ \E e \in Emails : BecomeDue(e) \/ Cancel(e)
         \/ \E f \in Files, v \in {"clean", "infected", "error"} : Scan(f, v)
         \/ \E f \in Files : DeleteFile(f)
         \/ DeleteMailbox
  PROVE  SInv'
<1> USE DEF SInv, rows, requests, work, history
<1>1. ASSUME NEW e \in Emails, BecomeDue(e) PROVE SInv'
  BY <1>1 DEF BecomeDue, TypeOK, LocalInv, Quiet, Free, InfectedOnlyByRace
<1>2. ASSUME NEW e \in Emails, Cancel(e) PROVE SInv'
  <2>1. TypeOK' /\ LocalInv' /\ InfectedOnlyByRace'
    BY <1>2 DEF Cancel, TypeOK, LocalInv, InfectedOnlyByRace, Rows
  <2>2. \A d \in Emails : Free(d)' <=> Free(d)
    BY <1>2 DEF Cancel, Free
  <2>3. /\ \A d \in Emails \ {e} : status'[d] = status[d] /\ undone'[d] = undone[d]
        /\ status[e] = "pending" /\ status'[e] = "cancelled"
        /\ undone'[e] = "early" => e \notin due
        /\ due' = due /\ handler' = handler
    BY <1>2 DEF Cancel, TypeOK
  <2>4. Quiet'
    BY <2>2, <2>3 DEF Quiet
  <2>5. QED
    BY <2>1, <2>4
<1>3. ASSUME NEW f \in Files, NEW v \in {"clean", "infected", "error"}, Scan(f, v)
      PROVE  SInv'
  <2>1. TypeOK' /\ LocalInv' /\ Quiet'
    BY <1>3 DEF Scan, TypeOK, LocalInv, Quiet, Free
  <2>2. ASSUME NEW s \in Schedulers, NEW g \in loaded[s], scan'[g] = "infected"
        PROVE  g \in flagged'[s]
    <3>1. current[s] # NoEmail
      BY <2>2, ScheduleAssumption DEF LocalInv, TypeOK
    <3>2. flagged'[s] = IF v = "infected" THEN flagged[s] \cup {f} ELSE flagged[s]
      BY <1>3, <3>1 DEF Scan
    <3>3. CASE g = f
      BY <1>3, <2>2, <3>2, <3>3 DEF Scan, TypeOK
    <3>4. CASE g # f
      BY <1>3, <2>2, <3>2, <3>4 DEF Scan, TypeOK, InfectedOnlyByRace
    <3>5. QED
      BY <3>3, <3>4
  <2>3. QED
    BY <1>3, <2>1, <2>2 DEF Scan, InfectedOnlyByRace
<1>4. ASSUME NEW f \in Files, DeleteFile(f) PROVE SInv'
  BY <1>4 DEF DeleteFile, TypeOK, LocalInv, Quiet, Free, InfectedOnlyByRace
<1>5. CASE DeleteMailbox
  <2>1. TypeOK'
    BY <1>5 DEF DeleteMailbox, TypeOK, Rows
  <2>2. /\ LocalInv'
        /\ \A s \in Schedulers : loaded[s] \in SUBSET Files
    BY <1>5 DEF DeleteMailbox, LocalInv, TypeOK
  <2>3. InfectedOnlyByRace'
    BY <1>5, <2>2 DEF DeleteMailbox, InfectedOnlyByRace
  <2>4. Quiet'
    BY <1>5 DEF DeleteMailbox, Quiet, Free, Rows
  <2>5. QED
    BY <2>1, <2>2, <2>3, <2>4
<1>6. QED
  BY <1>1, <1>2, <1>3, <1>4, <1>5

(* A scheduler takes on emails by Poll only, and makes copies by Transmit  *)
(* only.                                                                   *)
LEMMA SendSafe ==
  ASSUME SInv, NEW s \in Schedulers, Send(s)
  PROVE  SInv'
<1> USE DEF SInv, rows, requests, work, history
<1>1. ASSUME NEW S \in SUBSET Emails, Poll(s, S) PROVE SInv'
  <2>1. TypeOK' /\ LocalInv' /\ InfectedOnlyByRace'
    BY <1>1 DEF Poll, TypeOK, LocalInv, InfectedOnlyByRace
  <2>2. \A e \in S : e \in due /\ undone[e] # "early"
    BY <1>1 DEF Poll, ReadyToSend, Quiet
  <2>3. \A e \in Emails \ S : Free(e) => Free(e)'
    BY <1>1 DEF Poll, Free, TypeOK
  <2>4. Quiet'
    BY <1>1, <2>2, <2>3, QuietStep DEF Poll, Quiet
  <2>5. QED
    BY <2>1, <2>4
<1>2. ASSUME NEW e \in Emails, TakeUp(s, e) PROVE SInv'
  <2>1. TypeOK' /\ LocalInv' /\ InfectedOnlyByRace'
    BY <1>2 DEF TakeUp, TypeOK, LocalInv, InfectedOnlyByRace
  <2>2. \A d \in Emails : Free(d) => d # e /\ Free(d)'
    BY <1>2 DEF TakeUp, Free, TypeOK
  <2>3. Quiet'
    BY <1>2, <2>2, QuietStep DEF TakeUp, Quiet
  <2>4. QED
    BY <2>1, <2>3
<1>3. CASE List(s)
  <2>1. links[current[s]] \in SUBSET Files
    BY <1>3 DEF List, LocalInv, TypeOK
  <2>2. TypeOK'
    BY <1>3, <2>1 DEF List, TypeOK
  <2>3. LocalInv'
    BY <1>3 DEF List, TypeOK, LocalInv
  <2>4. InfectedOnlyByRace'
    BY <1>3 DEF List, InfectedOnlyByRace
  <2>5. Quiet'
    BY <1>3 DEF List, Quiet, Free
  <2>6. QED
    BY <2>2, <2>3, <2>4, <2>5
<1>4. ASSUME NEW f \in Files, Load(s, f) PROVE SInv'
  <2>1. toLoad[s] \ {f} \in SUBSET Files /\ loaded[s] \cup {f} \in SUBSET Files
    BY DEF TypeOK
  <2>2. TypeOK'
    <3>1. /\ phase' = phase \/ phase' = [phase EXCEPT ![s] = "failed"]
          /\ toLoad' = toLoad \/ toLoad' = [toLoad EXCEPT ![s] = @ \ {f}]
          /\ loaded' = loaded \/ loaded' = [loaded EXCEPT ![s] = @ \cup {f}]
          /\ UNCHANGED <<rows, scan, mailbox, requests, batch, current, flagged, history,
                         faults>>
      BY <1>4 DEF Load
    <3>2. phase' \in [Schedulers ->
                       {"idle", "next", "configured", "loading", "sent", "failed"}]
      BY <3>1 DEF TypeOK
    <3>3. toLoad' \in [Schedulers -> SUBSET Files]
      BY <2>1, <3>1 DEF TypeOK
    <3>4. loaded' \in [Schedulers -> SUBSET Files]
      BY <2>1, <3>1 DEF TypeOK
    <3>5. QED
      BY <3>1, <3>2, <3>3, <3>4 DEF TypeOK
  <2>3. LocalInv' /\ Quiet'
    BY <1>4 DEF Load, TypeOK, LocalInv, Quiet, Free
  <2>4. \A t \in Schedulers : \A g \in loaded'[t] :
          g \in loaded[t] \/ scan[g] # "infected"
    BY <1>4 DEF Load, Sendable, TypeOK
  <2>5. InfectedOnlyByRace'
    BY <1>4, <2>4 DEF Load, InfectedOnlyByRace
  <2>6. QED
    BY <2>2, <2>3, <2>5
<1>5. ASSUME NEW accepted \in BOOLEAN, NEW outcome \in {"sent", "failed"},
             Transmit(s, accepted, outcome)
      PROVE  SInv'
  <2>1. current[s] \in Emails
    BY <1>5 DEF Transmit, LocalInv
  <2>3. copies' \in [Emails -> Nat]
    <3>1. \/ copies' = copies
          \/ copies' = [copies EXCEPT ![current[s]] = @ + 1]
      BY <1>5, <2>1 DEF Transmit, TypeOK
    <3>2. QED
      BY <2>1, <3>1 DEF TypeOK
  <2>4. phase' \in [Schedulers ->
                      {"idle", "next", "configured", "loading", "sent", "failed"}]
    <3>1. phase' = [phase EXCEPT ![s] = outcome]
      BY <1>5 DEF Transmit
    <3>2. QED
      BY <3>1 DEF TypeOK
  <2>5. UNCHANGED <<rows, scan, mailbox, requests, batch, current, toLoad, loaded,
                     flagged, unmarked, undone, faults>>
    BY <1>5 DEF Transmit
  <2>6. TypeOK'
    BY <2>3, <2>4, <2>5 DEF TypeOK
  <2>7. LocalInv'
    BY <1>5, <2>1 DEF Transmit, TypeOK, LocalInv
  <2>8. InfectedOnlyByRace'
    BY <1>5, <2>1 DEF Transmit, InfectedOnlyByRace
  <2>9. \A e \in Emails : Free(e) => Free(e)'
    BY <1>5, <2>1 DEF Transmit, Free, TypeOK
  <2>10. Quiet'
    BY <1>5, <2>9, QuietStep DEF Transmit, Quiet
  <2>11. QED
    BY <2>6, <2>7, <2>8, <2>10
<1>6. CASE Mark(s)
  <2>1. current[s] \in Emails
    BY <1>6 DEF Mark, LocalInv
  <2>2. /\ TypeOK' /\ LocalInv' /\ InfectedOnlyByRace'
        /\ \A e \in Emails : Free(e) => Free(e)'
    BY <1>6, <2>1, DropSafe DEF Mark, TypeOK, Rows
  <2>3. \A e \in Emails : Free(e) => e # current[s]
    BY DEF Free
  <2>4. /\ \A e \in Emails \ {current[s]} : status'[e] = status[e]
        /\ status'[current[s]] = "absent" => status[current[s]] = "absent"
    BY <1>6, <2>1 DEF Mark, TypeOK
  <2>5. Quiet'
    BY <1>6, <2>2, <2>3, <2>4, QuietStep DEF Mark, Quiet
  <2>6. QED
    BY <2>2, <2>5
<1>7. CASE MarkFails(s)
  <2>1. /\ LocalInv' /\ InfectedOnlyByRace'
        /\ \A e \in Emails : Free(e) => Free(e)'
    BY <1>7, DropSafe DEF MarkFails
  <2>2. unmarked' \in [Emails -> Nat] /\ faults' \in 0 .. MaxFaults
    BY <1>7, ScheduleAssumption DEF MarkFails, Unrecorded, Fault, TypeOK
  <2>3. TypeOK'
    BY <1>7, <2>2, DropSafe DEF MarkFails, TypeOK
  <2>4. Quiet'
    BY <1>7, <2>1, QuietStep DEF MarkFails, Quiet
  <2>5. QED
    BY <2>1, <2>3, <2>4
<1>8. QED
  BY <1>1, <1>2, <1>3, <1>4, <1>5, <1>6, <1>7 DEF Send

LEMMA CrashSafe ==
  ASSUME SInv, NEW s \in Schedulers, Crash(s)
  PROVE  SInv'
<1> USE DEF SInv, rows, requests, work, history
<1>1. /\ LocalInv' /\ InfectedOnlyByRace'
      /\ \A e \in Emails : Free(e) => Free(e)'
  BY DropSafe DEF Crash
<1>2. unmarked' \in [Emails -> Nat] /\ faults' \in 0 .. MaxFaults
  BY ScheduleAssumption DEF Crash, Unrecorded, Fault, TypeOK
<1>3. TypeOK'
  BY <1>2, DropSafe DEF Crash, TypeOK
<1>4. Quiet'
  BY <1>1, QuietStep DEF Crash, Quiet
<1>5. QED
  BY <1>1, <1>3, <1>4

(* The invariant holds of every reachable state.                           *)
THEOREM Invariance == Spec => []SInv
<1>1. Init => SInv
  BY ScheduleAssumption
  DEF Init, SInv, TypeOK, LocalInv, Quiet, Free, InfectedOnlyByRace
<1>2. SInv /\ [Next]_vars => SInv'
  <2> SUFFICES ASSUME SInv, [Next]_vars PROVE SInv'
    OBVIOUS
  <2>1. CASE UNCHANGED vars
    BY <2>1
    DEF vars, rows, requests, work, history, SInv, TypeOK, LocalInv, Quiet, Free,
        InfectedOnlyByRace
  <2>2. CASE Next
    BY <2>2, RequestSafe, OthersSafe, SendSafe, CrashSafe DEF Next
  <2>3. QED
    BY <2>1, <2>2
<1>3. QED
  BY <1>1, <1>2, PTL DEF Spec

(* Every variable keeps to its set: a row has one of the four statuses or  *)
(* is gone, a scheduler one of its phases.                                 *)
THEOREM TypeCorrect == Spec => []TypeOK
<1>1. SInv => TypeOK
  BY DEF SInv
<1>2. QED
  BY Invariance, <1>1, PTL

(* Undo-send keeps its promise whatever the number of schedulers.          *)
THEOREM UndoIsKept == Spec => []UndoneInTimeIsNeverSent
<1>1. SInv => UndoneInTimeIsNeverSent
  BY DEF SInv, Quiet, Free, UndoneInTimeIsNeverSent
<1>2. QED
  BY Invariance, <1>1, PTL

(* A file is sent flagged only if the verdict came in during the send.     *)
THEOREM InfectedFilesStay == Spec => []InfectedOnlyByRace
<1>1. SInv => InfectedOnlyByRace
  BY DEF SInv
<1>2. QED
  BY Invariance, <1>1, PTL

-----------------------------------------------------------------------------
(* The email that a scheduler is sending is not in its batch any more.     *)
OnceInHand == \A s \in Schedulers, e \in Emails : e \in batch[s] => current[s] # e

Kept(e) == Settled(e) =>
  /\ Holders(e)' \subseteq Holders(e)
  /\ Holders(e)' = Holders(e) => status'[e] \in {status[e], "erased"}

(* A step that gives no scheduler an email, and settles nothing anew.      *)
LEMMA LettingGo ==
  ASSUME OnceInHand,
         \A s \in Schedulers : /\ batch'[s] \in {batch[s], {}}
                               /\ current'[s] \in {current[s], NoEmail},
         \A e \in Emails : Settled(e) => status'[e] \in {status[e], "erased"}
  PROVE  OnceInHand' /\ \A e \in Emails : Kept(e)
BY ScheduleAssumption DEF OnceInHand, Kept, Holders

(* Nobody but the schedulers touches what is settled, or what they hold.   *)
LEMMA OthersKeep ==
  ASSUME SInv, OnceInHand, [Next]_vars, \A s \in Schedulers : ~Send(s)
  PROVE  OnceInHand' /\ \A e \in Emails : Kept(e)
<1> USE DEF vars, rows, requests, work, history
<1> DEFINE Still == \A s \in Schedulers : /\ batch'[s] \in {batch[s], {}}
                                          /\ current'[s] \in {current[s], NoEmail}
           Left == \A e \in Emails : Settled(e) => status'[e] \in {status[e], "erased"}
<1>1. CASE UNCHANGED vars
  BY <1>1, LettingGo
<1>2. ASSUME NEW e \in Emails, Validate(e) \/ Reply(e) \/ BecomeDue(e) PROVE Still /\ Left
  BY <1>2 DEF Validate, Reply, BecomeDue
<1>3. ASSUME NEW e \in Emails, NEW f \in Files, Link(e, f) PROVE Still /\ Left
  BY <1>3 DEF Link
<1>4. ASSUME NEW e \in Emails, Insert(e) PROVE Still /\ Left
  <2>1. status[e] = "absent"
    BY <1>4 DEF Insert, SInv, Quiet
  <2> QED
    BY <1>4, <2>1 DEF Insert, SInv, TypeOK, Settled
<1>5. ASSUME NEW e \in Emails, Cancel(e) PROVE Still /\ Left
  BY <1>5 DEF Cancel, SInv, TypeOK, Settled
<1>6. ASSUME NEW f \in Files, DeleteFile(f) \/ \E v \in {"clean", "infected", "error"} : Scan(f, v)
      PROVE  Still /\ Left
  BY <1>6 DEF DeleteFile, Scan
<1>7. CASE DeleteMailbox
  <2>1. Still /\ Left
    BY <1>7 DEF DeleteMailbox, SInv, TypeOK, Settled
  <2> QED
    BY <2>1, LettingGo
<1>8. ASSUME NEW s \in Schedulers, Crash(s) PROVE Still /\ Left
  BY <1>8 DEF Crash, Drop, SInv, TypeOK
<1>9. QED
  BY <1>1, <1>2, <1>3, <1>4, <1>5, <1>6, <1>7, <1>8, LettingGo DEF Next, Request

(* A poll returns no email that is settled, and a mark lets go of its own. *)
LEMMA SendKeeps ==
  ASSUME SInv, OnceInHand, NEW s \in Schedulers, Send(s)
  PROVE  OnceInHand' /\ \A e \in Emails : Kept(e)
<1> USE DEF rows, requests, history, SInv, TypeOK, OnceInHand, Kept, Holders
<1>1. ASSUME NEW S \in SUBSET Emails, Poll(s, S) PROVE OnceInHand' /\ \A e \in Emails : Kept(e)
  <2>1. current[s] = NoEmail /\ \A e \in S : ~Settled(e)
    BY <1>1 DEF Poll, LocalInv, ReadyToSend, Settled
  <2> QED
    BY <1>1, <2>1, ScheduleAssumption DEF Poll
<1>2. ASSUME NEW e \in Emails, TakeUp(s, e) PROVE OnceInHand' /\ \A d \in Emails : Kept(d)
  BY <1>2 DEF TakeUp
<1>3. CASE List(s)
  BY <1>3 DEF List
<1>4. ASSUME NEW f \in Files, Load(s, f) PROVE OnceInHand' /\ \A e \in Emails : Kept(e)
  BY <1>4 DEF Load
<1>5. ASSUME NEW accepted \in BOOLEAN, NEW outcome \in {"sent", "failed"},
             Transmit(s, accepted, outcome)
      PROVE  OnceInHand' /\ \A e \in Emails : Kept(e)
  BY <1>5 DEF Transmit
<1>6. CASE Mark(s)
  <2>1. /\ current[s] \in Emails
        /\ current' = [current EXCEPT ![s] = NoEmail] /\ UNCHANGED batch
        /\ \A e \in Emails \ {current[s]} : status'[e] = status[e]
    BY <1>6 DEF Mark, LocalInv, Drop
  <2>2. OnceInHand' /\ \A e \in Emails : Holders(e)' \subseteq Holders(e)
    BY <2>1, ScheduleAssumption
  <2>3. \A e \in Emails : e = current[s] => s \in Holders(e) /\ s \notin Holders(e)'
    BY <2>1, ScheduleAssumption
  <2> QED
    BY <2>1, <2>2, <2>3
<1>7. CASE MarkFails(s)
  BY <1>7, LettingGo DEF MarkFails, Drop
<1>8. QED
  BY <1>1, <1>2, <1>3, <1>4, <1>5, <1>6, <1>7 DEF Send

(* However many schedulers poll, an email that has an outcome or was       *)
(* cancelled is taken up by none, and those that had it already overwrite  *)
(* the row once each at most.                                              *)
THEOREM OutcomesAreKept == Spec => OnlyHoldersOverwrite
<1>1. Init => OnceInHand
  BY DEF Init, OnceInHand
<1>2. SInv /\ OnceInHand /\ [Next]_vars => OnceInHand' /\ \A e \in Emails : Kept(e)
  BY OthersKeep, SendKeeps
<1>3. SInv /\ OnceInHand /\ [Next]_vars =>
        [\A e \in Emails : Settled(e) =>
           /\ Holders(e)' \subseteq Holders(e)
           /\ Holders(e)' = Holders(e) => status'[e] \in {status[e], "erased"}]_vars
  BY <1>2 DEF Kept
<1>4. QED
  BY <1>1, <1>2, <1>3, Invariance, PTL DEF Spec, OnlyHoldersOverwrite

-----------------------------------------------------------------------------
(* What a request in progress, or answered, still owes to its links.       *)
Linked == \A e \in Emails, f \in Files :
  /\ f \in Wanted[e]
  /\ handler[e] \in {"linking", "replied"}
  => \/ f \in links[e]
     \/ scan[f] = "deleted"
     \/ handler[e] = "linking" /\ f \in unlinked[e]

(* Only DeleteFile and DeleteMailbox take a link away, and the file goes   *)
(* with it.                                                                *)
LEMMA LinkedStays ==
  ASSUME SInv, Linked, [Next]_vars
  PROVE  Linked'
<1> USE DEF vars, rows, requests, work, history, SInv, TypeOK
<1>1. ASSUME UNCHANGED <<links, scan, requests>> PROVE Linked'
  BY <1>1 DEF Linked
<1>2. ASSUME NEW e \in Emails, Request(e) PROVE Linked'
  <2>1. CASE Validate(e)
    BY <2>1 DEF Validate, Linked
  <2>2. CASE Insert(e)
    BY <2>2, ScheduleAssumption DEF Insert, Linked
  <2>3. CASE Reply(e)
    BY <2>3 DEF Reply, Linked
  <2>4. ASSUME NEW f \in Files, Link(e, f) PROVE Linked'
    BY <2>4 DEF Link, Linked
  <2>5. QED
    BY <1>2, <2>1, <2>2, <2>3, <2>4 DEF Request
<1>3. ASSUME NEW e \in Emails, BecomeDue(e) \/ Cancel(e) PROVE Linked'
  BY <1>1, <1>3 DEF BecomeDue, Cancel
<1>4. ASSUME NEW f \in Files, NEW v \in {"clean", "infected", "error"}, Scan(f, v) PROVE Linked'
  BY <1>4 DEF Scan, Linked
<1>5. ASSUME NEW f \in Files, DeleteFile(f) PROVE Linked'
  BY <1>5 DEF DeleteFile, Linked
<1>6. ASSUME NEW s \in Schedulers, Send(s) \/ Crash(s) PROVE Linked'
  BY <1>1, <1>6 DEF Send, Poll, TakeUp, List, Load, Transmit, Mark, MarkFails, Crash
<1>7. CASE DeleteMailbox
  BY <1>7 DEF DeleteMailbox, Linked
<1>8. QED
  BY <1>1, <1>2, <1>3, <1>4, <1>5, <1>6, <1>7 DEF Next

(* A scheduler leaves "configured" for "loading" in List alone.            *)
LEMMA OnlyListLists ==
  ASSUME SInv, [Next]_vars, NEW s \in Schedulers,
         phase[s] = "configured", phase'[s] = "loading"
  PROVE  List(s)
<1> USE DEF vars, rows, requests, work, history, SInv, TypeOK
<1>1. ASSUME NEW e \in Emails, Request(e) \/ BecomeDue(e) \/ Cancel(e) PROVE FALSE
  BY <1>1 DEF Request, Validate, Insert, Reply, Link, BecomeDue, Cancel
<1>2. ASSUME NEW f \in Files, DeleteFile(f) \/ \E v \in {"clean", "infected", "error"} : Scan(f, v)
      PROVE  FALSE
  BY <1>2 DEF DeleteFile, Scan
<1>3. CASE DeleteMailbox
  BY <1>3 DEF DeleteMailbox
<1>4. ASSUME NEW t \in Schedulers, Send(t) \/ Crash(t) PROVE List(s)
  <2>1. CASE List(t)
    BY <2>1 DEF List
  <2>2. ASSUME NEW S \in SUBSET Emails, Poll(t, S) PROVE FALSE
    BY <2>2 DEF Poll
  <2>3. ASSUME NEW e \in Emails, TakeUp(t, e) PROVE FALSE
    BY <2>3 DEF TakeUp
  <2>4. ASSUME NEW f \in Files, Load(t, f) PROVE FALSE
    BY <2>4 DEF Load
  <2>5. ASSUME NEW accepted \in BOOLEAN, NEW outcome \in {"sent", "failed"},
               Transmit(t, accepted, outcome)
        PROVE  FALSE
    BY <2>5 DEF Transmit
  <2>6. CASE Mark(t) \/ MarkFails(t) \/ Crash(t)
    BY <2>6 DEF Mark, MarkFails, Crash, Drop
  <2>7. QED
    BY <1>4, <2>1, <2>2, <2>3, <2>4, <2>5, <2>6 DEF Send
<1>5. QED
  BY <1>1, <1>2, <1>3, <1>4 DEF Next

(* An email whose request was answered is taken up with every file that is *)
(* still there, though the row was sendable before its first link.         *)
THEOREM AnsweredEmailsKeepTheirFiles == Spec => AnsweredEmailsAreWhole
<1> DEFINE Whole == \A s \in Schedulers :
       /\ phase[s] = "configured" /\ phase'[s] = "loading"
       /\ handler[current[s]] = "replied"
       => \A f \in Wanted[current[s]] \ toLoad'[s] : scan[f] = "deleted"
<1>1. Init => Linked
  BY DEF Init, Linked
<1>2. SInv /\ Linked /\ [Next]_vars => Linked'
  BY LinkedStays
<1>3. SInv /\ Linked /\ [Next]_vars => Whole
  <2> SUFFICES ASSUME SInv, Linked, [Next]_vars, NEW s \in Schedulers,
                      phase[s] = "configured", phase'[s] = "loading",
                      handler[current[s]] = "replied",
                      NEW f \in Wanted[current[s]] \ toLoad'[s]
               PROVE  scan[f] = "deleted"
    OBVIOUS
  <2>1. current[s] \in Emails /\ f \in Files
    BY ScheduleAssumption DEF SInv, LocalInv
  <2>2. toLoad'[s] = links[current[s]]
    BY OnlyListLists DEF List, SInv, TypeOK
  <2>3. QED
    BY <2>1, <2>2 DEF Linked
<1>4. SInv /\ Linked /\ [Next]_vars => [Whole]_vars
  BY <1>3
<1>5. QED
  BY <1>1, <1>2, <1>4, Invariance, PTL DEF Spec, AnsweredEmailsAreWhole

-----------------------------------------------------------------------------
(* The schedulers that may still make a copy of e: that hold it and have   *)
(* not transmitted it, or will find it in their next poll.  Recording an   *)
(* outcome ends the chance for good; losing one gives it back.             *)
Spent(s, e) == current[s] = e /\ phase[s] \in {"sent", "failed"}

MaySend(s, e) == \/ e \in batch[s]
                 \/ current[s] = e /\ ~Spent(s, e)
                 \/ status[e] \in {"absent", "pending"} /\ ~Spent(s, e)

Open(e) == {s \in Schedulers : MaySend(s, e)}

Apart(s, e) == e \in batch[s] => current[s] # e

Truthful(e) ==
  /\ status[e] = "sent" => copies[e] >= 1
  /\ \A s \in Schedulers : phase[s] = "sent" /\ current[s] = e => copies[e] >= 1

Accounts(e) ==
  /\ copies[e] + Cardinality(Open(e)) <= Cardinality(Schedulers) + unmarked[e]
  /\ Truthful(e)
  /\ \A s \in Schedulers : Apart(s, e)

AInv == \A e \in Emails : Accounts(e)

LEMMA OpenSets ==
  /\ Cardinality(Schedulers) \in Nat
  /\ \A A \in SUBSET Schedulers :
       /\ IsFiniteSet(A) /\ Cardinality(A) \in Nat
       /\ \A B \in SUBSET A : Cardinality(B) <= Cardinality(A)
       /\ \A s \in A : Cardinality(A \ {s}) = Cardinality(A) - 1
       /\ \A s \in Schedulers : Cardinality(A \cup {s}) <= Cardinality(A) + 1
<1>1. ASSUME NEW A \in SUBSET Schedulers PROVE IsFiniteSet(A) /\ Cardinality(A) \in Nat
  BY FS_Subset, FS_CardinalityType, ScheduleAssumption
<1>2. ASSUME NEW A \in SUBSET Schedulers, NEW B \in SUBSET A
      PROVE  Cardinality(B) <= Cardinality(A)
  BY <1>1, FS_Subset
<1>3. ASSUME NEW A \in SUBSET Schedulers, NEW s \in A
      PROVE  Cardinality(A \ {s}) = Cardinality(A) - 1
  BY <1>1, FS_RemoveElement
<1>4. ASSUME NEW A \in SUBSET Schedulers, NEW s \in Schedulers
      PROVE  Cardinality(A \cup {s}) <= Cardinality(A) + 1
  BY <1>1, FS_AddElement
<1>5. QED
  BY <1>1, <1>2, <1>3, <1>4

(* What a step may do to the account of e: leave it, use a chance, or lose *)
(* the record of one.                                                      *)
Leaves(e) == /\ copies'[e] = copies[e] /\ unmarked'[e] = unmarked[e]
             /\ \A t \in Schedulers : MaySend(t, e)' => MaySend(t, e)

Uses(e, s) == /\ copies'[e] = copies[e] + 1 /\ unmarked'[e] = unmarked[e]
              /\ MaySend(s, e) /\ ~MaySend(s, e)'
              /\ \A t \in Schedulers : MaySend(t, e)' => MaySend(t, e)

Loses(e, s) == /\ copies'[e] = copies[e] /\ unmarked'[e] = unmarked[e] + 1
               /\ \A t \in Schedulers \ {s} : MaySend(t, e)' => MaySend(t, e)

LEMMA AccountStep ==
  ASSUME SInv, NEW e \in Emails, Accounts(e), NEW s \in Schedulers,
         Leaves(e) \/ Uses(e, s) \/ Loses(e, s)
  PROVE  copies'[e] + Cardinality(Open(e)') <= Cardinality(Schedulers) + unmarked'[e]
<1>1. /\ copies[e] \in Nat /\ unmarked[e] \in Nat
      /\ Open(e) \in SUBSET Schedulers /\ Open(e)' \in SUBSET Schedulers
      /\ copies[e] + Cardinality(Open(e)) <= Cardinality(Schedulers) + unmarked[e]
  BY DEF SInv, TypeOK, Open, Accounts
<1>2. CASE Leaves(e)
  <2>1. Open(e)' \in SUBSET Open(e)
    BY <1>2 DEF Leaves, Open
  <2>2. Cardinality(Open(e)') <= Cardinality(Open(e))
    BY <1>1, <2>1, OpenSets
  <2>3. QED
    BY <1>1, <1>2, <2>2, OpenSets DEF Leaves
<1>3. CASE Uses(e, s)
  <2>1. s \in Open(e) /\ Open(e)' \in SUBSET (Open(e) \ {s})
    BY <1>3 DEF Uses, Open
  <2>2. Open(e) \ {s} \in SUBSET Schedulers
    BY <1>1
  <2>3. Cardinality(Open(e)') <= Cardinality(Open(e) \ {s})
    BY <2>1, <2>2, OpenSets
  <2>4. Cardinality(Open(e) \ {s}) = Cardinality(Open(e)) - 1
    BY <1>1, <2>1, OpenSets
  <2>5. QED
    BY <1>1, <1>3, <2>3, <2>4, OpenSets DEF Uses
<1>4. CASE Loses(e, s)
  <2>1. Open(e)' \in SUBSET (Open(e) \cup {s})
    BY <1>4 DEF Loses, Open
  <2>2. Open(e) \cup {s} \in SUBSET Schedulers
    BY <1>1
  <2>3. Cardinality(Open(e)') <= Cardinality(Open(e) \cup {s})
    BY <2>1, <2>2, OpenSets
  <2>4. Cardinality(Open(e) \cup {s}) <= Cardinality(Open(e)) + 1
    BY <1>1, OpenSets
  <2>5. Cardinality(Open(e) \cup {s}) \in Nat
    BY <2>2, OpenSets
  <2>6. QED
    BY <1>1, <1>4, <2>3, <2>4, <2>5, OpenSets DEF Loses
<1>5. QED
  BY <1>2, <1>3, <1>4

(* The requests, the owner and the clock: an email once cancelled or       *)
(* erased is never pending again, and none of them makes it sent.          *)
LEMMA OthersLeaveAccounts ==
  ASSUME SInv, AInv, NEW e \in Emails, UNCHANGED <<batch, current, phase, copies, unmarked>>,
         status'[e] # status[e] =>
           \/ status[e] = "absent" /\ status'[e] = "pending"
           \/ status'[e] \in {"cancelled", "erased"}
  PROVE  Accounts(e)'
<1>1. Leaves(e)
  BY DEF Leaves, MaySend, Spent
<1>2. Truthful(e)' /\ \A s \in Schedulers : Apart(s, e)'
  BY DEF AInv, Accounts, Truthful, Apart
<1>3. copies'[e] + Cardinality(Open(e)') <= Cardinality(Schedulers) + unmarked'[e]
  <2>1. CASE Schedulers = {}
    <3>1. Open(e)' = Open(e)
      BY <2>1 DEF Open
    <3>2. QED
      BY <1>1, <3>1 DEF AInv, Accounts, Leaves
  <2>2. CASE Schedulers # {}
    BY <1>1, <2>2, AccountStep DEF AInv
  <2>3. QED
    BY <2>1, <2>2
<1>4. QED
  BY <1>2, <1>3 DEF Accounts

LEMMA OthersAccounts ==
  ASSUME SInv, AInv, [Next]_vars, ~\E s \in Schedulers : Send(s) \/ Crash(s)
  PROVE  AInv'
<1> USE DEF vars, rows, requests, work, history
<1> SUFFICES ASSUME NEW e \in Emails PROVE Accounts(e)'
  BY DEF AInv
<1> DEFINE Harmless ==
      /\ UNCHANGED <<batch, current, phase, copies, unmarked>>
      /\ status'[e] # status[e] =>
           \/ status[e] = "absent" /\ status'[e] = "pending"
           \/ status'[e] \in {"cancelled", "erased"}
<1>1. CASE UNCHANGED vars
  BY <1>1, OthersLeaveAccounts
<1>2. ASSUME NEW d \in Emails, Request(d) \/ BecomeDue(d) PROVE Harmless
  <2>1. CASE Insert(d)
    <3>1. status[d] = "absent"
      BY <2>1 DEF Insert, SInv, Quiet
    <3>2. QED
      BY <2>1, <3>1 DEF Insert, SInv, TypeOK
  <2>2. CASE Validate(d) \/ Reply(d) \/ BecomeDue(d) \/ \E f \in Files : Link(d, f)
    BY <2>2 DEF Validate, Reply, BecomeDue, Link
  <2>3. QED
    BY <1>2, <2>1, <2>2 DEF Request
<1>3. ASSUME NEW d \in Emails, Cancel(d) PROVE Harmless
  BY <1>3 DEF Cancel, SInv, TypeOK
<1>4. ASSUME NEW f \in Files, DeleteFile(f) \/ \E v \in {"clean", "infected", "error"} : Scan(f, v)
      PROVE  Harmless
  BY <1>4 DEF DeleteFile, Scan
<1>5. ASSUME DeleteMailbox PROVE Harmless
  <2>1. status'[e] = IF status[e] \in Rows THEN "erased" ELSE status[e]
    BY <1>5 DEF DeleteMailbox
  <2>2. QED
    BY <1>5, <2>1 DEF DeleteMailbox
<1>6. ASSUME Next PROVE Harmless
  <2> HIDE DEF Harmless
  <2>1. \/ \E d \in Emails : Request(d) \/ BecomeDue(d) \/ Cancel(d)
        \/ \E f \in Files : DeleteFile(f) \/ \E v \in {"clean", "infected", "error"} : Scan(f, v)
        \/ DeleteMailbox
    BY <1>6 DEF Next
  <2>2. QED
    BY <2>1, <1>2, <1>3, <1>4, <1>5
<1>7. QED
  BY <1>1, <1>6, OthersLeaveAccounts

(* A scheduler that drops its email has either recorded its outcome, and   *)
(* the row is settled, or lost it.                                         *)
LEMMA DropAccounts ==
  ASSUME SInv, AInv, NEW s \in Schedulers, Mark(s) \/ MarkFails(s) \/ Crash(s), NEW e \in Emails
  PROVE  Accounts(e)'
<1> USE DEF rows, requests, work, history
<1>1. /\ phase' = [phase EXCEPT ![s] = phase'[s]] /\ phase'[s] \in {"idle", "next"}
      /\ batch' = [batch EXCEPT ![s] = batch'[s]] /\ batch'[s] \in {batch[s], {}}
      /\ current' = [current EXCEPT ![s] = NoEmail]
      /\ copies' = copies
  BY DEF Mark, MarkFails, Crash, Drop, SInv, TypeOK
<1>2. /\ \A t \in Schedulers \ {s} : /\ phase'[t] = phase[t] /\ batch'[t] = batch[t]
                                     /\ current'[t] = current[t]
      /\ current'[s] # e
  BY <1>1, ScheduleAssumption DEF SInv, TypeOK
<1>3. /\ status'[e] \in {"absent", "pending"} => status'[e] = status[e]
      /\ status'[e] = "sent" => status[e] = "sent" \/ (current[s] = e /\ phase[s] = "sent")
  <2>1. CASE Mark(s)
    <3>1. current[s] \in Emails /\ phase[s] \in {"sent", "failed"}
      BY <2>1 DEF Mark, SInv, LocalInv
    <3>2. status'[e] = IF e = current[s] /\ status[e] \in Rows THEN phase[s] ELSE status[e]
      BY <2>1, <3>1 DEF Mark, SInv, TypeOK
    <3>3. QED
      BY <3>1, <3>2
  <2>2. CASE MarkFails(s) \/ Crash(s)
    BY <2>2 DEF MarkFails, Crash
  <2>3. QED
    BY <2>1, <2>2
<1>4. \A t \in Schedulers \ {s} : MaySend(t, e)' => MaySend(t, e)
  BY <1>2, <1>3 DEF MaySend, Spent
<1>5. Leaves(e) \/ Loses(e, s)
  <2>1. CASE Mark(s)
    <3>1. unmarked'[e] = unmarked[e]
      BY <2>1 DEF Mark
    <3>2. ASSUME MaySend(s, e)' PROVE MaySend(s, e)
      <4>1. CASE e \in batch'[s]
        BY <4>1, <1>1 DEF MaySend
      <4>2. CASE e \notin batch'[s]
        <5>1. status'[e] \in {"absent", "pending"} /\ status[e] = status'[e]
          BY <3>2, <4>2, <1>2, <1>3 DEF MaySend
        <5>2. ~Spent(s, e)
          <6>1. SUFFICES ASSUME Spent(s, e) PROVE FALSE
            OBVIOUS
          <6>2. status[e] \in Rows => status'[e] \in {"sent", "failed"}
            BY <2>1, <6>1 DEF Mark, Spent, SInv, TypeOK
          <6>3. status[e] = "absent"
            BY <5>1, <6>2 DEF Rows
          <6>4. Free(e)
            BY <6>3 DEF SInv, Quiet
          <6>5. QED
            BY <6>1, <6>4 DEF Free, Spent
        <5>3. QED
          BY <5>1, <5>2 DEF MaySend
      <4>3. QED
        BY <4>1, <4>2
    <3>3. QED
      BY <1>1, <1>4, <3>1, <3>2 DEF Leaves
  <2>2. CASE (MarkFails(s) \/ Crash(s)) /\ Spent(s, e)
    <3>1. unmarked'[e] = unmarked[e] + 1
      BY <2>2 DEF MarkFails, Crash, Unrecorded, Spent
    <3>2. QED
      BY <1>1, <1>4, <3>1 DEF Loses
  <2>3. CASE (MarkFails(s) \/ Crash(s)) /\ ~Spent(s, e)
    <3>1. unmarked'[e] = unmarked[e]
      BY <2>3 DEF MarkFails, Crash, Unrecorded, Spent
    <3>2. MaySend(s, e)' => MaySend(s, e)
      BY <1>1, <1>2, <1>3, <2>3 DEF MaySend
    <3>3. QED
      BY <1>1, <1>4, <3>1, <3>2 DEF Leaves
  <2>4. QED
    BY <2>1, <2>2, <2>3
<1>6. copies'[e] + Cardinality(Open(e)') <= Cardinality(Schedulers) + unmarked'[e]
  BY <1>5, AccountStep DEF AInv
<1>7. Truthful(e)'
  BY <1>1, <1>2, <1>3 DEF AInv, Accounts, Truthful, Spent
<1>8. \A t \in Schedulers : Apart(t, e)'
  BY <1>1, <1>2 DEF AInv, Accounts, Apart
<1>9. QED
  BY <1>6, <1>7, <1>8 DEF Accounts

(* A poll returns emails that are pending; a send goes on or gives up; and *)
(* a transmission uses the chance of the scheduler that makes it.          *)
LEMMA SendAccounts ==
  ASSUME SInv, AInv, NEW s \in Schedulers, Send(s), NEW e \in Emails
  PROVE  Accounts(e)'
<1> USE DEF rows, requests, work, history
<1> DEFINE Fine == /\ Leaves(e) \/ Uses(e, s)
                   /\ Truthful(e)'
                   /\ \A t \in Schedulers : Apart(t, e)'
<1>1. ASSUME Fine PROVE Accounts(e)'
  BY <1>1, AccountStep DEF AInv, Accounts
<1> USE DEF SInv, TypeOK, LocalInv
<1>2. ASSUME NEW S \in SUBSET Emails, Poll(s, S) PROVE Fine
  <2>1. current[s] = NoEmail /\ NoEmail # e /\ (e \in S => status[e] = "pending")
    BY <1>2, ScheduleAssumption DEF Poll, ReadyToSend
  <2>2. /\ phase' = [phase EXCEPT ![s] = "next"] /\ batch' = [batch EXCEPT ![s] = S]
        /\ UNCHANGED <<status, current, copies, unmarked>>
    BY <1>2 DEF Poll
  <2>3. Leaves(e)
    BY <2>1, <2>2 DEF Leaves, MaySend, Spent
  <2>4. Truthful(e)' /\ \A t \in Schedulers : Apart(t, e)'
    BY <2>1, <2>2 DEF AInv, Accounts, Truthful, Apart
  <2>5. QED
    BY <2>3, <2>4
<1>3. ASSUME NEW d \in Emails, TakeUp(s, d) PROVE Fine
  <2>1. /\ current[s] = NoEmail /\ NoEmail # e /\ d \in batch[s]
        /\ phase' = [phase EXCEPT ![s] = phase'[s]] /\ phase'[s] \in {"configured", "failed"}
        /\ batch' = [batch EXCEPT ![s] = @ \ {d}] /\ current' = [current EXCEPT ![s] = d]
        /\ UNCHANGED <<status, copies, unmarked>>
    BY <1>3, ScheduleAssumption DEF TakeUp
  <2>2. Leaves(e)
    BY <2>1 DEF Leaves, MaySend, Spent
  <2>3. Truthful(e)' /\ \A t \in Schedulers : Apart(t, e)'
    BY <2>1 DEF AInv, Accounts, Truthful, Apart
  <2>4. QED
    BY <2>2, <2>3
<1>4. ASSUME List(s) \/ \E f \in Files : Load(s, f) PROVE Fine
  <2>1. /\ phase[s] \in {"configured", "loading"}
        /\ phase' = [phase EXCEPT ![s] = phase'[s]] /\ phase'[s] \in {"loading", "failed"}
        /\ UNCHANGED <<batch, current, status, copies, unmarked>>
    BY <1>4 DEF List, Load
  <2>2. Leaves(e)
    BY <2>1 DEF Leaves, MaySend, Spent
  <2>3. Truthful(e)' /\ \A t \in Schedulers : Apart(t, e)'
    BY <2>1 DEF AInv, Accounts, Truthful, Apart
  <2>4. QED
    BY <2>2, <2>3
<1>5. ASSUME NEW accepted \in BOOLEAN, NEW outcome \in {"sent", "failed"},
             Transmit(s, accepted, outcome)
      PROVE  Fine
  <2>1. /\ phase[s] = "loading" /\ phase' = [phase EXCEPT ![s] = outcome]
        /\ UNCHANGED <<batch, current, status, unmarked>>
    BY <1>5 DEF Transmit
  <2>2. copies'[e] = IF accepted /\ current[s] = e THEN copies[e] + 1 ELSE copies[e]
    BY <1>5 DEF Transmit
  <2>3. \A t \in Schedulers : MaySend(t, e)' => MaySend(t, e)
    BY <2>1 DEF MaySend, Spent
  <2>4. current[s] = e => MaySend(s, e) /\ ~MaySend(s, e)'
    BY <2>1 DEF MaySend, Spent, AInv, Accounts, Apart
  <2>5. Leaves(e) \/ Uses(e, s)
    BY <2>1, <2>2, <2>3, <2>4 DEF Leaves, Uses
  <2>6. copies[e] \in Nat /\ (outcome = "sent" => accepted)
    BY <1>5 DEF Transmit
  <2>7. Truthful(e)'
    BY <2>1, <2>2, <2>6 DEF AInv, Accounts, Truthful
  <2>8. \A t \in Schedulers : Apart(t, e)'
    BY <2>1 DEF AInv, Accounts, Apart
  <2>9. QED
    BY <2>5, <2>7, <2>8
<1>6. CASE Mark(s) \/ MarkFails(s)
  BY <1>6, DropAccounts
<1> HIDE DEF Fine
<1>7. QED
  BY <1>1, <1>2, <1>3, <1>4, <1>5, <1>6 DEF Send

(* Each scheduler sends an email once, and once more for every outcome     *)
(* that was lost; and no row says "sent" of an email that was not.         *)
THEOREM CopiesAreBounded == Spec => []CopiesAreAccountedFor
<1>1. Init => AInv
  <2> SUFFICES ASSUME Init, NEW e \in Emails PROVE Accounts(e)
    BY DEF AInv
  <2>1. Open(e) = Schedulers
    BY ScheduleAssumption DEF Init, Open, MaySend, Spent
  <2>2. QED
    BY <2>1, OpenSets, ScheduleAssumption DEF Init, Accounts, Truthful, Apart
<1>2. SInv /\ AInv /\ [Next]_vars => AInv'
  <2>1. ASSUME SInv, AInv, NEW s \in Schedulers, Send(s) \/ Crash(s) PROVE AInv'
    BY <2>1, SendAccounts, DropAccounts DEF AInv
  <2>2. QED
    BY <2>1, OthersAccounts
<1>3. SInv /\ AInv => CopiesAreAccountedFor
  <2> SUFFICES ASSUME SInv, AInv, NEW e \in Emails
               PROVE  /\ copies[e] <= Cardinality(Schedulers) + unmarked[e]
                      /\ status[e] = "sent" => copies[e] >= 1
    BY DEF CopiesAreAccountedFor
  <2>1. /\ Cardinality(Open(e)) \in Nat /\ copies[e] \in Nat /\ unmarked[e] \in Nat
        /\ Cardinality(Schedulers) \in Nat
    BY OpenSets DEF SInv, TypeOK, Open
  <2>2. QED
    BY <2>1 DEF AInv, Accounts, Truthful
<1>4. QED
  BY <1>1, <1>2, <1>3, Invariance, PTL DEF Spec
=============================================================================
