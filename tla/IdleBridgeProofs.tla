-------------------------- MODULE IdleBridgeProofs --------------------------
(***************************************************************************)
(* No arrival is announced twice and the tasks are those of the map, for   *)
(* any folders, limits and channel.                                        *)
(*                                                                         *)
(* The argument: what a task announces is the growth of EXISTS over        *)
(* last_exists, and whenever a SELECT may follow, last_exists is no less   *)
(* than the messages left of those that were there at the one before       *)
(* (Counts): so the growth is at most the new messages.  That the limits   *)
(* on subscriptions and events hold is Limits.                             *)
(***************************************************************************)
EXTENDS IdleBridge, SequenceTheorems, FiniteSetTheorems, WellFoundedInduction, TLAPS

(* As much of the types as the argument needs.                             *)
Shape ==
  /\ mail \in [Folders -> Seq(BOOLEAN)]
  /\ handler \in {"serving", "connecting", "pushing", "closed"}
  /\ target \in Folders \cup {NoFolder}
  /\ subs \in SUBSET Folders
  /\ task \in [Folders -> {"none", "select", "new", "unread", "idle", "broken"}]
  /\ last_exists \in [Folders -> Nat]
  /\ mbox = [f \in Folders |-> mbox[f]]
  /\ \A f \in Folders : mbox[f].exists \in Nat
  /\ known \in [Folders -> Nat]
  /\ noticed \in [Folders -> Nat]
  /\ announced \in [Folders -> Nat]

(* Only a folder that is not in the map is being subscribed to.            *)
Pending == handler \in {"connecting", "pushing"} => target \in Folders \ subs

CountsOf(f) ==
  /\ known[f] <= Len(mail[f])
  /\ known[f] <= mbox[f].exists
  /\ announced[f] <= noticed[f]
  /\ task[f] = "new" => /\ last_exists[f] < mbox[f].exists
                        /\ announced[f] + Delta(f) <= noticed[f]
  /\ task[f] \in {"select", "idle", "broken"} => known[f] <= last_exists[f]

Counts == \A f \in Folders : CountsOf(f)

BInv == Shape /\ Pending /\ TasksAreSubscribed /\ Counts

-----------------------------------------------------------------------------
LEMMA RemoveOne ==
  ASSUME NEW S, NEW s \in Seq(S), NEW k \in 1 .. Len(s)
  PROVE  RemoveAt(s, k) \in Seq(S) /\ Len(RemoveAt(s, k)) = Len(s) - 1
<1>1. /\ SubSeq(s, 1, k - 1) \in Seq(S)
      /\ Len(SubSeq(s, 1, k - 1)) = k - 1
  BY SubSeqProperties
<1>2. /\ SubSeq(s, k + 1, Len(s)) \in Seq(S)
      /\ Len(SubSeq(s, k + 1, Len(s))) = Len(s) - k
  BY SubSeqProperties
<1>3. Len(s) \in Nat
  BY LenProperties
<1> DEFINE front == SubSeq(s, 1, k - 1)
           back == SubSeq(s, k + 1, Len(s))
<1>4. /\ front \o back \in Seq(S)
      /\ Len(front \o back) = Len(front) + Len(back)
  BY <1>1, <1>2, ConcatProperties
<1>5. RemoveAt(s, k) = front \o back
  BY DEF RemoveAt
<1> HIDE DEF front, back
<1>6. Len(front) = k - 1 /\ Len(back) = Len(s) - k
  BY <1>1, <1>2 DEF front, back
<1>7. Len(front) + Len(back) = Len(s) - 1
  BY <1>3, <1>6
<1> QED
  BY <1>4, <1>5, <1>7, Zenon

(* What happens to other folders leaves the counts of a folder alone.      *)
LEMMA Elsewhere ==
  ASSUME NEW f \in Folders, CountsOf(f),
         mail'[f] = mail[f], task'[f] = task[f], mbox'[f] = mbox[f],
         last_exists'[f] = last_exists[f], known'[f] = known[f],
         noticed'[f] = noticed[f], announced'[f] = announced[f]
  PROVE  CountsOf(f)'
BY DEF CountsOf, Delta

(* Aborting tasks, too: a folder without a task has little to keep.        *)
LEMMA Aborted ==
  ASSUME NEW f \in Folders, CountsOf(f), task'[f] = "none",
         UNCHANGED <<mail, mbox, last_exists, history>>
  PROVE  CountsOf(f)'
BY DEF CountsOf, history

LEMMA InitBInv == Init => BInv
<1> SUFFICES ASSUME Init PROVE BInv
  OBVIOUS
<1>1. Shape
  BY DEF Init, Shape
<1>2. Pending /\ TasksAreSubscribed
  BY DEF Init, Pending, TasksAreSubscribed
<1>3. Counts
  BY DEF Init, Counts, CountsOf
<1> QED
  BY <1>1, <1>2, <1>3 DEF BInv

LEMMA NextBInv == BInv /\ [Next]_vars => BInv'
<1> SUFFICES ASSUME BInv, [Next]_vars PROVE BInv'
  OBVIOUS
<1> USE BridgeAssumption DEF BInv
<1>1. CASE Connect
  <2>1. target \in Folders \ subs /\ task[target] = "none"
    BY <1>1 DEF Connect, Pending, TasksAreSubscribed, Shape
  <2>2. ASSUME mbox' = [mbox EXCEPT ![target] = Select(target)],
               handler' = "pushing",
               known' = [known EXCEPT ![target] = Len(mail[target])],
               noticed' = [noticed EXCEPT ![target] = 0],
               announced' = [announced EXCEPT ![target] = 0],
               UNCHANGED <<mail, target, subs, channel, task, last_exists>>
        PROVE  BInv'
    <3>1. Len(mail[target]) \in Nat /\ Select(target).exists = Len(mail[target])
      BY <2>1, LenProperties DEF Shape, Select
    <3>2. Shape'
      BY <2>1, <2>2, <3>1 DEF Shape
    <3>3. Pending' /\ TasksAreSubscribed'
      BY <2>1, <2>2, <1>1 DEF Pending, TasksAreSubscribed, Connect
    <3>4. ASSUME NEW f \in Folders PROVE CountsOf(f)'
      <4>1. CASE f = target
        BY <4>1, <2>1, <2>2, <3>1 DEF CountsOf, Shape
      <4>2. CASE f # target
        BY <4>2, <2>1, <2>2, Elsewhere DEF Counts, Shape
      <4> QED
        BY <4>1, <4>2
    <3> QED
      BY <3>2, <3>3, <3>4 DEF Counts
  <2>3. ASSUME handler' = "serving", target' = NoFolder,
               UNCHANGED <<mbox, history, mail, subs, client, channel, task, last_exists>>
        PROVE  BInv'
    BY <2>3 DEF Shape, Pending, TasksAreSubscribed, Counts, CountsOf, Delta, history
  <2> QED
    BY <1>1, <2>2, <2>3 DEF Connect
<1>2. CASE PushSnapshot
  <2> USE <1>2 DEF PushSnapshot, history
  <2>1. target \in Folders \ subs
    BY DEF Pending
  <2>2. Shape'
    BY <2>1 DEF Shape
  <2>3. Pending' /\ TasksAreSubscribed'
    BY <2>1 DEF Pending, TasksAreSubscribed, Shape
  <2>4. ASSUME NEW f \in Folders PROVE CountsOf(f)'
    <3>1. CASE f = target
      BY <3>1, <2>1 DEF Counts, CountsOf, Shape
    <3>2. CASE f # target
      BY <3>2, <2>1, Elsewhere DEF Counts, Shape
    <3> QED
      BY <3>1, <3>2
  <2> QED
    BY <2>2, <2>3, <2>4 DEF Counts
<1>3. CASE Forward
  BY <1>3 DEF Forward, bridge, Shape, Pending, TasksAreSubscribed, Counts, CountsOf,
              Delta, history
<1>4. CASE Close
  <2> USE <1>4 DEF Close, history
  <2>1. Shape'
    BY DEF Shape
  <2>2. Pending' /\ TasksAreSubscribed'
    BY DEF Pending, TasksAreSubscribed
  <2>3. Counts'
    BY Aborted DEF Counts
  <2> QED
    BY <2>1, <2>2, <2>3
<1>5. CASE ClientLeaves
  BY <1>5 DEF ClientLeaves, Shape, Pending, TasksAreSubscribed, Counts, CountsOf, Delta,
              history
<1>6. ASSUME NEW f \in Folders, Subscribe(f) PROVE BInv'
  BY <1>6 DEF Subscribe, Shape, Pending, TasksAreSubscribed, Counts, CountsOf, Delta,
              history
<1>7. ASSUME NEW f \in Folders, Unsubscribe(f) PROVE BInv'
  <2> USE <1>7 DEF Unsubscribe, history
  <2>1. Shape'
    BY DEF Shape
  <2>2. Pending' /\ TasksAreSubscribed'
    BY DEF Pending, TasksAreSubscribed, Shape
  <2>3. ASSUME NEW g \in Folders PROVE CountsOf(g)'
    <3>1. CASE g = f
      BY <3>1, Aborted DEF Counts, Shape
    <3>2. CASE g # f
      BY <3>2, Elsewhere DEF Counts, Shape
    <3> QED
      BY <3>1, <3>2
  <2> QED
    BY <2>1, <2>2, <2>3 DEF Counts
<1>8. ASSUME NEW f \in Folders, SelectFolder(f) PROVE BInv'
  <2> USE DEF bridge
  <2>1. /\ Len(mail[f]) \in Nat /\ Select(f).exists = Len(mail[f])
        /\ New(f) = Len(mail[f]) - known[f] /\ New(f) \in Nat
        /\ task[f] = "select" /\ CountsOf(f)
    <3>1. Len(mail[f]) \in Nat /\ known[f] \in Nat
      BY LenProperties DEF Shape
    <3>2. task[f] = "select"
      BY <1>8 DEF SelectFolder
    <3>3. CountsOf(f)
      BY DEF Counts
    <3>4. known[f] <= Len(mail[f])
      BY <3>3 DEF CountsOf
    <3>5. Select(f).exists = Len(mail[f])
      BY DEF Select
    <3>6. New(f) = Len(mail[f]) - known[f]
      BY DEF New
    <3>7. New(f) \in Nat
      BY <3>1, <3>4, <3>6
    <3> QED
      BY <3>1, <3>2, <3>3, <3>5, <3>6, <3>7
  <2>2. Pending' /\ TasksAreSubscribed'
    BY <1>8 DEF SelectFolder, Pending, TasksAreSubscribed, Shape
  <2>3. ASSUME NEW g \in Folders, g # f PROVE CountsOf(g)'
    BY <2>3, <1>8, Elsewhere DEF SelectFolder, Counts, Shape
  <2>4. ASSUME mbox' = [mbox EXCEPT ![f] = Select(f)],
               noticed' = [noticed EXCEPT ![f] = @ + New(f)],
               known' = [known EXCEPT ![f] = Len(mail[f])],
               NEW t \in {"new", "unread"}, task' = [task EXCEPT ![f] = t],
               t = "new" <=> Len(mail[f]) > last_exists[f],
               UNCHANGED <<mail, bridge, channel, last_exists, announced>>
        PROVE  Shape' /\ CountsOf(f)'
    <3>1. Shape'
      <4>0. noticed[f] \in Nat
        BY DEF Shape
      <4>1. noticed[f] + New(f) \in Nat
        BY <2>1, <4>0
      <4>2. /\ noticed' \in [Folders -> Nat]
            /\ known' \in [Folders -> Nat]
            /\ task' \in [Folders -> {"none", "select", "new", "unread", "idle",
                                      "broken"}]
        BY <2>1, <2>4, <4>1 DEF Shape
      <4>3. /\ mbox' = [g \in Folders |-> mbox'[g]]
            /\ \A g \in Folders : mbox'[g].exists \in Nat
        BY <2>1, <2>4 DEF Shape
      <4> QED
        BY <2>4, <4>2, <4>3 DEF Shape
    <3>2. /\ known'[f] = Len(mail[f]) /\ mbox'[f].exists = Len(mail[f])
          /\ noticed'[f] = noticed[f] + New(f) /\ task'[f] = t
      BY <2>1, <2>4 DEF Shape
    <3>3. known[f] <= last_exists[f] /\ announced[f] <= noticed[f]
      BY <2>1 DEF CountsOf
    <3>4. /\ last_exists[f] \in Nat /\ known[f] \in Nat
          /\ noticed[f] \in Nat /\ announced[f] \in Nat
      BY DEF Shape
    <3>5. Delta(f)' = Len(mail[f]) - last_exists[f]
      BY <2>4, <3>2 DEF Delta
    <3>6. /\ known'[f] <= Len(mail'[f]) /\ known'[f] <= mbox'[f].exists
          /\ announced'[f] <= noticed'[f]
      BY <2>1, <2>4, <3>2, <3>3, <3>4
    <3>7. t = "new" => /\ last_exists'[f] < mbox'[f].exists
                       /\ announced'[f] + Delta(f)' <= noticed'[f]
      <4>1. last_exists'[f] = last_exists[f] /\ announced'[f] = announced[f]
        BY <2>4
      <4>2. t = "new" => last_exists'[f] < mbox'[f].exists
        BY <2>4, <3>2, <4>1
      <4>3. noticed'[f] = noticed[f] + (Len(mail[f]) - known[f])
        BY <2>1, <3>2
      <4>4. announced[f] + (Len(mail[f]) - last_exists[f])
              <= noticed[f] + (Len(mail[f]) - known[f])
        BY <2>1, <3>3, <3>4
      <4> QED
        BY <3>5, <4>1, <4>2, <4>3, <4>4
    <3>8. CountsOf(f)'
      BY <3>2, <3>6, <3>7 DEF CountsOf
    <3> QED
      BY <3>1, <3>8
  <2>5. ASSUME task' = [task EXCEPT ![f] = "broken"],
               UNCHANGED <<mbox, noticed, known, mail, last_exists, announced, bridge>>
        PROVE  Shape' /\ CountsOf(f)'
    BY <2>1, <2>5 DEF Shape, CountsOf
  <2> QED
    BY <1>8, <2>2, <2>3, <2>4, <2>5 DEF SelectFolder, Counts
<1>9. ASSUME NEW f \in Folders, PushNew(f) PROVE BInv'
  <2> USE <1>9 DEF PushNew, bridge
  <2>1. /\ Delta(f) = mbox[f].exists - last_exists[f] /\ Delta(f) \in Nat
        /\ CountsOf(f)
    <3>1. CountsOf(f) /\ mbox[f].exists \in Nat /\ last_exists[f] \in Nat
      BY DEF Counts, Shape
    <3> QED
      BY <3>1 DEF CountsOf, Delta
  <2>2. Shape'
    <3>0. announced[f] \in Nat
      BY DEF Shape
    <3>1. announced[f] + Delta(f) \in Nat
      BY <2>1, <3>0
    <3>2. announced' \in [Folders -> Nat]
      BY <3>1 DEF Shape
    <3> QED
      BY <3>2 DEF Shape
  <2>3. Pending' /\ TasksAreSubscribed'
    BY DEF Pending, TasksAreSubscribed, Shape
  <2>4. ASSUME NEW g \in Folders PROVE CountsOf(g)'
    <3>1. CASE g = f
      BY <3>1, <2>1 DEF Counts, CountsOf, Shape
    <3>2. CASE g # f
      BY <3>2, Elsewhere DEF Counts, Shape
    <3> QED
      BY <3>1, <3>2
  <2> QED
    BY <2>2, <2>3, <2>4 DEF Counts
<1>10. ASSUME NEW f \in Folders, PushUnread(f) PROVE BInv'
  <2> USE <1>10 DEF PushUnread, bridge, history
  <2>1. Shape'
    BY DEF Shape
  <2>2. Pending' /\ TasksAreSubscribed'
    BY DEF Pending, TasksAreSubscribed, Shape
  <2>3. ASSUME NEW g \in Folders PROVE CountsOf(g)'
    <3>1. CASE g = f
      BY <3>1 DEF Counts, CountsOf, Shape
    <3>2. CASE g # f
      BY <3>2, Elsewhere DEF Counts, Shape
    <3> QED
      BY <3>1, <3>2
  <2> QED
    BY <2>1, <2>2, <2>3 DEF Counts
<1>11. ASSUME NEW f \in Folders, EndIdle(f) \/ Reconnect(f) PROVE BInv'
  <2> USE <1>11 DEF EndIdle, Reconnect, bridge, history
  <2>1. Shape'
    BY DEF Shape
  <2>2. Pending' /\ TasksAreSubscribed'
    BY DEF Pending, TasksAreSubscribed, Shape
  <2>3. ASSUME NEW g \in Folders PROVE CountsOf(g)'
    <3>1. CASE g = f
      BY <3>1 DEF Counts, CountsOf, Shape
    <3>2. CASE g # f
      BY <3>2, Elsewhere DEF Counts, Shape
    <3> QED
      BY <3>1, <3>2
  <2> QED
    BY <2>1, <2>2, <2>3 DEF Counts
<1>12. ASSUME NEW f \in Folders, Arrive(f) PROVE BInv'
  <2> USE <1>12 DEF Arrive, bridge, history
  <2>1. /\ Append(mail[f], TRUE) \in Seq(BOOLEAN)
        /\ Len(Append(mail[f], TRUE)) = Len(mail[f]) + 1
        /\ Len(mail[f]) \in Nat
    BY AppendProperties, LenProperties DEF Shape
  <2>2. Shape'
    BY <2>1 DEF Shape
  <2>3. Pending' /\ TasksAreSubscribed'
    BY DEF Pending, TasksAreSubscribed
  <2>4. ASSUME NEW g \in Folders PROVE CountsOf(g)'
    <3>1. CASE g = f
      BY <3>1, <2>1 DEF Counts, CountsOf, Shape, Delta
    <3>2. CASE g # f
      BY <3>2, Elsewhere DEF Counts, Shape
    <3> QED
      BY <3>1, <3>2
  <2> QED
    BY <2>2, <2>3, <2>4 DEF Counts
<1>13. ASSUME NEW f \in Folders, NEW k \in 1 .. MaxMail, MarkRead(f, k) PROVE BInv'
  <2> USE <1>13 DEF MarkRead, bridge, history
  <2>1. /\ [mail[f] EXCEPT ![k] = FALSE] \in Seq(BOOLEAN)
        /\ Len([mail[f] EXCEPT ![k] = FALSE]) = Len(mail[f])
    BY ExceptSeq DEF Shape, Unread
  <2>2. Shape'
    BY <2>1 DEF Shape
  <2>3. Pending' /\ TasksAreSubscribed'
    BY DEF Pending, TasksAreSubscribed
  <2>4. ASSUME NEW g \in Folders PROVE CountsOf(g)'
    <3>1. CASE g = f
      BY <3>1, <2>1 DEF Counts, CountsOf, Shape, Delta
    <3>2. CASE g # f
      BY <3>2, Elsewhere DEF Counts, Shape
    <3> QED
      BY <3>1, <3>2
  <2> QED
    BY <2>2, <2>3, <2>4 DEF Counts
<1>14. ASSUME NEW f \in Folders, NEW k \in 1 .. MaxMail, Expunge(f, k) PROVE BInv'
  <2> USE <1>14 DEF Expunge, bridge, history
  <2>1. /\ RemoveAt(mail[f], k) \in Seq(BOOLEAN)
        /\ Len(RemoveAt(mail[f], k)) = Len(mail[f]) - 1
        /\ Len(mail[f]) \in Nat
    BY RemoveOne, LenProperties DEF Shape
  <2>0. /\ known'[f] \in Nat
        /\ k <= known[f] => known'[f] = known[f] - 1
        /\ known[f] < k => known'[f] = known[f]
        /\ \A g \in Folders \ {f} : known'[g] = known[g]
    <3>1. /\ known' = [known EXCEPT ![f] = IF k <= @ THEN @ - 1 ELSE @]
          /\ k \in 1 .. Len(mail[f])
      OBVIOUS
    <3>2. known[f] \in Nat /\ k \in Nat /\ k >= 1 /\ known \in [Folders -> Nat]
      BY <2>1, <3>1 DEF Shape
    <3>3. /\ known'[f] = IF k <= known[f] THEN known[f] - 1 ELSE known[f]
          /\ \A g \in Folders \ {f} : known'[g] = known[g]
      BY <3>1, <3>2
    <3> QED
      BY <3>2, <3>3
  <2>2. Shape'
    BY <2>0, <2>1 DEF Shape
  <2>3. Pending' /\ TasksAreSubscribed'
    BY DEF Pending, TasksAreSubscribed
  <2>4. ASSUME NEW g \in Folders PROVE CountsOf(g)'
    <3>1. CASE g = f
      <4>1. /\ mail'[f] = RemoveAt(mail[f], k) /\ known[f] \in Nat
            /\ last_exists[f] \in Nat /\ mbox[f].exists \in Nat
        BY DEF Shape
      <4>2. known'[f] <= known[f] /\ known'[f] <= Len(mail'[f])
        BY <4>1, <2>0, <2>1 DEF Counts, CountsOf
      <4> QED
        BY <3>1, <4>1, <4>2, <2>0 DEF Counts, CountsOf, Delta
    <3>2. CASE g # f
      BY <3>2, Elsewhere DEF Counts, Shape
    <3> QED
      BY <3>1, <3>2
  <2> QED
    BY <2>2, <2>3, <2>4 DEF Counts
<1>15. CASE UNCHANGED vars
  BY <1>15 DEF vars, bridge, history, Shape, Pending, TasksAreSubscribed, Counts,
               CountsOf, Delta
<1> QED
  BY <1>1, <1>2, <1>3, <1>4, <1>5, <1>6, <1>7, <1>8, <1>9, <1>10, <1>11, <1>12,
     <1>13, <1>14, <1>15 DEF Next, Serve, Bridge

(* The inductive invariant of a connection and its tasks.                  *)
THEOREM Invariance == Spec => []BInv
BY InitBInv, NextBInv, PTL DEF Spec

(* A message that arrives is announced once at most, however sessions      *)
(* break and however the mailbox shrinks and grows between two cycles.     *)
THEOREM AnnouncedOnce == Spec => []NeverAnnouncedTwice
<1>1. BInv => NeverAnnouncedTwice
  BY DEF BInv, Counts, CountsOf, NeverAnnouncedTwice
<1> QED
  BY <1>1, Invariance, PTL

(* Every IDLE task has its entry in the map, which alone can stop it.      *)
THEOREM NoTaskIsLost == Spec => []TasksAreSubscribed
<1>1. BInv => TasksAreSubscribed
  BY DEF BInv
<1> QED
  BY <1>1, Invariance, PTL

-----------------------------------------------------------------------------
(* The limits.  Between the test in handle_subscribe and the entry in the  *)
(* map lie two awaits, but the handler serves no other command meanwhile:  *)
(* the room that the test found is still there.                            *)
RoomOf(f) == Len(mail[f]) <= MaxMail /\ noticed[f] + New(f) <= MaxArrivals

Limits ==
  /\ client \in {"online", "gone"}
  /\ IsFiniteSet(subs) /\ Cardinality(subs) <= MaxIdle
  /\ handler \in {"connecting", "pushing"} => Cardinality(subs) < MaxIdle
  /\ channel \in Seq(Events) /\ Len(channel) <= ChannelBuffer
  /\ last_exists \in [Folders -> 0 .. MaxMail]
  /\ mbox \in [Folders -> Snapshots]
  /\ \A f \in Folders : RoomOf(f)

LEMMA LeastNatural ==
  ASSUME NEW T \in SUBSET Nat, T # {}
  PROVE  \E k \in T : \A j \in T : k <= j
<1>1. \E R : IsWellFoundedOn(R, Nat) /\ \A x, y \in Nat : y < x => <<y, x>> \in R
  <2>1. \A x, y \in Nat : y < x => <<y, x>> \in OpToRel(<, Nat)
    BY DEF OpToRel
  <2> QED
    BY <2>1, NatLessThanWellFounded
<1>2. PICK R : IsWellFoundedOn(R, Nat) /\ \A x, y \in Nat : y < x => <<y, x>> \in R
  BY <1>1
<1>3. PICK k \in T : \A j \in T : ~(<<j, k>> \in R)
  BY <1>2, WFMin
<1>4. ASSUME NEW j \in T PROVE k <= j
  <2>1. j \in Nat /\ k \in Nat /\ ~(j < k)
    BY <1>2, <1>3
  <2> QED
    BY <2>1
<1> QED
  BY <1>4

(* UNSEEN is the number of a message, or 0.                                *)
LEMMA SelectTyped ==
  ASSUME NEW f \in Folders, mail[f] \in Seq(BOOLEAN), Len(mail[f]) <= MaxMail
  PROVE  Select(f) \in Snapshots
<1> DEFINE m == mail[f]
<1>1. Len(m) \in 0 .. MaxMail
  BY LenProperties, BridgeAssumption
<1>2. FirstUnseen(m) \in 0 .. MaxMail
  <2>1. CASE Unread(m) = {}
    BY <2>1, BridgeAssumption DEF FirstUnseen
  <2>2. CASE Unread(m) # {}
    <3>1. Unread(m) \in SUBSET Nat /\ Unread(m) \in SUBSET (0 .. MaxMail)
      <4>1. Len(m) \in Nat /\ Len(m) <= MaxMail /\ MaxMail \in Nat
        BY <1>1, BridgeAssumption
      <4>2. \A k \in Unread(m) : k \in 1 .. Len(m)
        BY DEF Unread
      <4> HIDE DEF m
      <4> QED
        BY <4>1, <4>2
    <3>2. \E k \in Unread(m) : \A j \in Unread(m) : k <= j
      BY <2>2, <3>1, LeastNatural
    <3>3. FirstUnseen(m) \in Unread(m)
      BY <2>2, <3>2 DEF FirstUnseen
    <3> QED
      BY <3>1, <3>3
  <2> QED
    BY <2>1, <2>2
<1> QED
  BY <1>1, <1>2 DEF Select, Snapshots

LEMMA SnapshotFields ==
  ASSUME NEW m \in Snapshots
  PROVE  m.exists \in 0 .. MaxMail /\ m.unseen \in 0 .. MaxMail
BY DEF Snapshots

LEMMA PushTyped ==
  ASSUME Limits, NEW e \in Events, Len(channel) < ChannelBuffer
  PROVE  /\ Append(channel, e) \in Seq(Events)
         /\ Len(Append(channel, e)) <= ChannelBuffer
BY AppendProperties, LenProperties, BridgeAssumption DEF Limits

LEMMA SubsSets ==
  ASSUME IsFiniteSet(subs)
  PROVE  /\ Cardinality(subs) \in Nat
         /\ IsFiniteSet({}) /\ Cardinality({}) = 0
         /\ \A f : /\ IsFiniteSet(subs \cup {f})
                   /\ Cardinality(subs \cup {f}) <= Cardinality(subs) + 1
         /\ \A f : /\ IsFiniteSet(subs \ {f})
                   /\ Cardinality(subs \ {f}) <= Cardinality(subs)
<1>1. Cardinality(subs) \in Nat
  BY FS_CardinalityType
<1>2. ASSUME NEW f PROVE /\ IsFiniteSet(subs \cup {f})
                         /\ Cardinality(subs \cup {f}) <= Cardinality(subs) + 1
  BY <1>1, FS_AddElement
<1>3. ASSUME NEW f PROVE /\ IsFiniteSet(subs \ {f})
                         /\ Cardinality(subs \ {f}) <= Cardinality(subs)
  BY <1>1, FS_RemoveElement
<1> QED
  BY <1>1, <1>2, <1>3, FS_EmptySet

LEMMA InitLimits == Init => Limits
<1> SUFFICES ASSUME Init PROVE Limits
  OBVIOUS
<1> USE BridgeAssumption
<1>1. IsFiniteSet(subs) /\ Cardinality(subs) = 0
  BY FS_EmptySet DEF Init
<1>2. channel \in Seq(Events) /\ Len(channel) = 0
  BY DEF Init
<1>3. mbox \in [Folders -> Snapshots] /\ last_exists \in [Folders -> 0 .. MaxMail]
  BY DEF Init, Snapshots
<1>4. \A f \in Folders : RoomOf(f)
  BY DEF Init, RoomOf, New
<1> QED
  BY <1>1, <1>2, <1>3, <1>4 DEF Init, Limits

(* Nothing else enters a folder's account than its own arrivals.           *)
LEMMA RoomElsewhere ==
  ASSUME NEW f \in Folders, RoomOf(f),
         mail'[f] = mail[f], known'[f] = known[f], noticed'[f] = noticed[f]
  PROVE  RoomOf(f)'
BY DEF RoomOf, New

LEMMA ServeLimits == BInv /\ Limits /\ (Serve \/ ClientLeaves) => Limits'
<1> SUFFICES ASSUME BInv, Limits, Serve \/ ClientLeaves PROVE Limits'
  OBVIOUS
<1> USE BridgeAssumption DEF BInv, Limits
<1>1. CASE Connect
  <2>1. target \in Folders
    BY <1>1 DEF Connect, Pending
  <2>2. Select(target) \in Snapshots /\ Len(mail[target]) \in Nat
    BY <2>1, SelectTyped, LenProperties DEF Shape, RoomOf
  <2>3. mbox' \in [Folders -> Snapshots]
    BY <1>1, <2>2 DEF Connect
  <2>4. ASSUME NEW f \in Folders PROVE RoomOf(f)'
    <3>1. CASE f = target /\ handler' = "pushing"
      <4>1. noticed'[f] = 0 /\ known'[f] = Len(mail[f]) /\ mail' = mail
        BY <1>1, <2>1, <3>1 DEF Connect, Shape
      <4> QED
        BY <2>1, <2>2, <3>1, <4>1 DEF RoomOf, New
    <3>2. CASE ~(f = target /\ handler' = "pushing")
      <4>1. noticed'[f] = noticed[f] /\ known'[f] = known[f] /\ mail' = mail
        BY <1>1, <2>1, <3>2 DEF Connect, Shape, history
      <4> QED
        BY <4>1, RoomElsewhere
    <3> QED
      BY <3>1, <3>2
  <2> QED
    BY <1>1, <2>3, <2>4 DEF Connect
<1>2. CASE PushSnapshot
  <2>1. /\ target \in Folders /\ mbox[target] \in Snapshots
        /\ mbox[target].exists \in 0 .. MaxMail /\ mbox[target].unseen \in 0 .. MaxMail
    BY <1>2, SnapshotFields DEF PushSnapshot, Pending
  <2>2. UnreadUpdate(target, mbox[target]) \in Events
    BY <2>1 DEF UnreadUpdate, Events
  <2>3. channel' \in Seq(Events) /\ Len(channel') <= ChannelBuffer
    BY <1>2, <2>2, PushTyped DEF PushSnapshot
  <2>4. IsFiniteSet(subs') /\ Cardinality(subs') <= MaxIdle
    <3>1. /\ Cardinality(subs) \in Nat /\ Cardinality(subs) < MaxIdle
          /\ subs' = subs \cup {target}
          /\ IsFiniteSet(subs') /\ Cardinality(subs') <= Cardinality(subs) + 1
      BY <1>2, SubsSets DEF PushSnapshot
    <3>2. Cardinality(subs') \in Nat
      BY <3>1, FS_CardinalityType
    <3> QED
      BY <3>1, <3>2
  <2>5. last_exists' \in [Folders -> 0 .. MaxMail]
    BY <1>2, <2>1 DEF PushSnapshot
  <2>6. \A f \in Folders : RoomOf(f)'
    BY <1>2, RoomElsewhere DEF PushSnapshot, history
  <2> QED
    BY <1>2, <2>3, <2>4, <2>5, <2>6 DEF PushSnapshot
<1>3. CASE Forward
  <2>1. channel' \in Seq(Events) /\ Len(channel') <= ChannelBuffer
    <3>1. Tail(channel) \in Seq(Events) /\ Len(Tail(channel)) = Len(channel) - 1
      BY <1>3, HeadTailProperties DEF Forward
    <3>2. Len(channel) \in Nat
      BY LenProperties
    <3> QED
      BY <1>3, <3>1, <3>2 DEF Forward
  <2>2. \A f \in Folders : RoomOf(f)'
    BY <1>3, RoomElsewhere DEF Forward, history
  <2> QED
    BY <1>3, <2>1, <2>2 DEF Forward, bridge
<1>4. CASE Close
  <2>1. channel' \in Seq(Events) /\ Len(channel') <= ChannelBuffer
    BY <1>4 DEF Close
  <2>2. IsFiniteSet(subs') /\ Cardinality(subs') <= MaxIdle
    BY <1>4, FS_EmptySet DEF Close
  <2>3. \A f \in Folders : RoomOf(f)'
    BY <1>4, RoomElsewhere DEF Close, history
  <2> QED
    BY <1>4, <2>1, <2>2, <2>3 DEF Close
<1>5. CASE ClientLeaves
  <2>1. \A f \in Folders : RoomOf(f)'
    BY <1>5, RoomElsewhere DEF ClientLeaves, history
  <2> QED
    BY <1>5, <2>1 DEF ClientLeaves
<1> QED
  BY <1>1, <1>2, <1>3, <1>4, <1>5 DEF Serve

LEMMA BridgeLimits ==
  ASSUME BInv, Limits, NEW f \in Folders, Subscribe(f) \/ Unsubscribe(f) \/ Bridge(f)
  PROVE  Limits'
<1> USE BridgeAssumption DEF BInv, Limits, bridge
<1>1. CASE Subscribe(f)
  <2>1. \A g \in Folders : RoomOf(g)'
    BY <1>1, RoomElsewhere DEF Subscribe, history
  <2> QED
    BY <1>1, <2>1 DEF Subscribe
<1>2. CASE Unsubscribe(f)
  <2>1. IsFiniteSet(subs') /\ Cardinality(subs') <= MaxIdle
    <3>1. /\ Cardinality(subs) \in Nat /\ subs' = subs \ {f} /\ IsFiniteSet(subs')
          /\ Cardinality(subs') <= Cardinality(subs)
      BY <1>2, SubsSets DEF Unsubscribe
    <3>2. Cardinality(subs') \in Nat
      BY <3>1, FS_CardinalityType
    <3> QED
      BY <3>1, <3>2
  <2>2. \A g \in Folders : RoomOf(g)'
    BY <1>2, RoomElsewhere DEF Unsubscribe, history
  <2> QED
    BY <1>2, <2>1, <2>2 DEF Unsubscribe
<1>3. CASE SelectFolder(f)
  <2>1. Select(f) \in Snapshots /\ Len(mail[f]) \in Nat
    BY SelectTyped, LenProperties DEF Shape, RoomOf
  <2>2. mbox' \in [Folders -> Snapshots]
    BY <1>3, <2>1 DEF SelectFolder
  <2>3. ASSUME NEW g \in Folders PROVE RoomOf(g)'
    <3>1. CASE g = f /\ noticed' = [noticed EXCEPT ![f] = @ + New(f)]
                     /\ known' = [known EXCEPT ![f] = Len(mail[f])]
      <4>1. /\ noticed'[f] = noticed[f] + New(f) /\ known'[f] = Len(mail[f])
            /\ mail' = mail
        BY <1>3, <3>1 DEF SelectFolder, Shape
      <4>2. New(f)' = 0
        BY <2>1, <4>1 DEF New
      <4>3. noticed[f] \in Nat /\ known[f] \in Nat
        BY DEF Shape
      <4> QED
        BY <2>1, <3>1, <4>1, <4>2, <4>3 DEF RoomOf, New
    <3>2. CASE g # f \/ UNCHANGED <<noticed, known>>
      BY <1>3, <3>2, RoomElsewhere DEF SelectFolder, Shape
    <3> QED
      BY <1>3, <3>1, <3>2 DEF SelectFolder
  <2> QED
    BY <1>3, <2>2, <2>3 DEF SelectFolder
<1>4. CASE PushNew(f)
  <2>1. mbox[f] \in Snapshots /\ mbox[f].exists \in 0 .. MaxMail /\ last_exists[f] \in 0 .. MaxMail
    BY SnapshotFields
  <2>2. last_exists[f] < mbox[f].exists
    BY <1>4 DEF PushNew, Counts, CountsOf
  <2>3. NewMail(f, Delta(f)) \in Events
    <3>1. Delta(f) \in 0 .. MaxMail
      BY <2>1, <2>2 DEF Delta
    <3> QED
      BY <3>1 DEF NewMail, Events
  <2>4. channel' \in Seq(Events) /\ Len(channel') <= ChannelBuffer
    BY <1>4, <2>3, PushTyped DEF PushNew
  <2>5. \A g \in Folders : RoomOf(g)'
    BY <1>4, RoomElsewhere DEF PushNew
  <2> QED
    BY <1>4, <2>4, <2>5 DEF PushNew
<1>5. CASE PushUnread(f)
  <2>1. /\ mbox[f] \in Snapshots /\ mbox[f].exists \in 0 .. MaxMail
        /\ mbox[f].unseen \in 0 .. MaxMail
    BY SnapshotFields
  <2>2. UnreadUpdate(f, mbox[f]) \in Events
    BY <2>1 DEF UnreadUpdate, Events
  <2>3. channel' \in Seq(Events) /\ Len(channel') <= ChannelBuffer
    BY <1>5, <2>2, PushTyped DEF PushUnread
  <2>4. last_exists' \in [Folders -> 0 .. MaxMail]
    BY <1>5, <2>1 DEF PushUnread
  <2>5. \A g \in Folders : RoomOf(g)'
    BY <1>5, RoomElsewhere DEF PushUnread, history
  <2> QED
    BY <1>5, <2>3, <2>4, <2>5 DEF PushUnread
<1>6. CASE EndIdle(f) \/ Reconnect(f)
  <2>1. \A g \in Folders : RoomOf(g)'
    BY <1>6, RoomElsewhere DEF EndIdle, Reconnect, history
  <2> QED
    BY <1>6, <2>1 DEF EndIdle, Reconnect
<1> QED
  BY <1>1, <1>2, <1>3, <1>4, <1>5, <1>6 DEF Bridge

LEMMA Sums ==
  ASSUME NEW l \in Nat, NEW k \in Nat, NEW n \in Nat, BridgeAssumption
  PROVE  /\ n + (l - k) < MaxArrivals => n + ((l + 1) - k) <= MaxArrivals
         /\ n + (l - k) <= MaxArrivals => /\ n + ((l - 1) - k) <= MaxArrivals
                                          /\ n + ((l - 1) - (k - 1)) <= MaxArrivals
BY DEF BridgeAssumption

LEMMA MailLimits ==
  ASSUME BInv, Limits, NEW f \in Folders,
         Arrive(f) \/ \E k \in 1 .. MaxMail : MarkRead(f, k) \/ Expunge(f, k)
  PROVE  Limits'
<1> USE BridgeAssumption DEF BInv, Limits, bridge, history
<1>1. UNCHANGED <<client, subs, handler, channel, last_exists, mbox>>
  BY DEF Arrive, MarkRead, Expunge
<1>2. \A g \in Folders \ {f} : RoomOf(g)'
  BY RoomElsewhere DEF Arrive, MarkRead, Expunge, Shape
<1>3. Len(mail[f]) \in Nat /\ known[f] \in Nat /\ noticed[f] \in Nat /\ mail[f] \in Seq(BOOLEAN)
  BY LenProperties DEF Shape
<1>4. RoomOf(f)
  OBVIOUS
<1>5. CASE Arrive(f)
  <2>1. Len(mail'[f]) = Len(mail[f]) + 1 /\ known' = known /\ noticed' = noticed
    BY <1>3, <1>5, AppendProperties DEF Arrive, Shape
  <2>2. Len(mail[f]) < MaxMail /\ noticed[f] + (Len(mail[f]) - known[f]) < MaxArrivals
    BY <1>5 DEF Arrive, New
  <2>3. RoomOf(f)'
    <3>1. noticed[f] + ((Len(mail[f]) + 1) - known[f]) <= MaxArrivals
      BY <1>3, <2>2, Sums
    <3> QED
      BY <1>3, <2>1, <2>2, <3>1 DEF RoomOf, New
  <2> QED
    BY <1>1, <1>2, <2>3
<1>6. ASSUME NEW k \in 1 .. MaxMail, MarkRead(f, k) PROVE Limits'
  <2>1. Len(mail'[f]) = Len(mail[f]) /\ known' = known /\ noticed' = noticed
    BY <1>3, <1>6, ExceptSeq DEF MarkRead, Shape, Unread
  <2>2. RoomOf(f)'
    BY <1>4, <2>1 DEF RoomOf, New
  <2> QED
    BY <1>1, <1>2, <2>2
<1>7. ASSUME NEW k \in 1 .. MaxMail, Expunge(f, k) PROVE Limits'
  <2>1. k \in 1 .. Len(mail[f])
    BY <1>7 DEF Expunge
  <2>2. Len(mail'[f]) = Len(mail[f]) - 1 /\ noticed' = noticed
    BY <1>3, <1>7, <2>1, RemoveOne DEF Expunge, Shape
  <2>3. known'[f] = IF k <= known[f] THEN known[f] - 1 ELSE known[f]
    BY <1>7 DEF Expunge, Shape
  <2>4. Len(mail[f]) <= MaxMail /\ noticed[f] + (Len(mail[f]) - known[f]) <= MaxArrivals
    BY <1>4 DEF RoomOf, New
  <2>5. noticed[f] + ((Len(mail[f]) - 1) - known'[f]) <= MaxArrivals
    BY <1>3, <2>3, <2>4, Sums
  <2>6. RoomOf(f)'
    BY <1>3, <2>2, <2>4, <2>5 DEF RoomOf, New
  <2> QED
    BY <1>1, <1>2, <2>6
<1> QED
  BY <1>5, <1>6, <1>7

(* Every variable keeps to its set.  In particular the map of a connection *)
(* never has more than MAX_IDLE_PER_USER subscriptions, and the channel    *)
(* never more than EVENT_CHANNEL_BUFFER events, its producers being many.  *)
THEOREM BridgeTypes == Spec => []TypeOK
<1>1. BInv /\ Limits /\ [Next]_vars => Limits'
  <2>1. ASSUME BInv, Limits, UNCHANGED vars PROVE Limits'
    <3>1. \A f \in Folders : RoomOf(f)'
      BY <2>1, RoomElsewhere DEF vars, history, Limits
    <3> QED
      BY <2>1, <3>1 DEF vars, bridge, Limits
  <2> QED
    BY <2>1, ServeLimits, BridgeLimits, MailLimits DEF Next
<1>2. BInv /\ Limits => TypeOK
  <2> SUFFICES ASSUME BInv, Limits PROVE TypeOK
    OBVIOUS
  <2>1. ASSUME NEW f \in Folders
        PROVE  known[f] \in 0 .. MaxMail /\ noticed[f] \in 0 .. MaxArrivals
    <3>1. /\ Len(mail[f]) \in Nat /\ known[f] \in Nat /\ noticed[f] \in Nat
      BY LenProperties DEF BInv, Shape
    <3>2. known[f] <= Len(mail[f])
      BY DEF BInv, Counts, CountsOf
    <3>3. Len(mail[f]) <= MaxMail /\ noticed[f] + (Len(mail[f]) - known[f]) <= MaxArrivals
      BY DEF Limits, RoomOf, New
    <3> QED
      BY <3>1, <3>2, <3>3, BridgeAssumption
  <2>2. known \in [Folders -> 0 .. MaxMail] /\ noticed \in [Folders -> 0 .. MaxArrivals]
    BY <2>1 DEF BInv, Shape
  <2> QED
    BY <2>2 DEF BInv, Shape, Limits, TypeOK
<1> QED
  BY <1>1, <1>2, InitLimits, Invariance, PTL DEF Spec
=============================================================================
