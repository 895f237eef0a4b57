------------------------- MODULE MailFoldersProofs -------------------------
(***************************************************************************)
(* No message is lost, a finished move leaves it in one place, nobody      *)
(* else's message vanishes, and pages cover a folder, for any folders,     *)
(* messages and requests.                                                  *)
(*                                                                         *)
(* That none is lost: every message that nobody asked to be rid of has a copy   *)
(* such that it and all that were born no earlier are unmarked, and no     *)
(* request is about to mark them (Tops).  A COPY makes such a copy before  *)
(* its STORE marks the one it copied.  That moves end in one place: while  *)
(* nothing disturbed a message it is whole in its home, or half moved by   *)
(* the one request that works on it (InPlace).                             *)
(***************************************************************************)
EXTENDS MailFolders, FiniteSetTheorems, TLAPS

(* UIDs identify messages, and a request names only old ones.              *)
Numbers ==
  /\ \A c \in copies : c.uid < nextUid /\ c.born <= copying
  /\ \A c, d \in copies : c.uid = d.uid => c = d
  /\ \A r \in Requests : \A u \in job[r].uids : u < nextUid

Safe(c) ==
  /\ c.deleted = FALSE
  /\ \A r \in Requests : step[r] = "store" => c \notin Named(r)

TopOf(m, e) ==
  /\ e \in copies
  /\ e.msg = m
  /\ \A c \in copies : c.msg = m /\ e.born <= c.born => Safe(c)

Tops == \A m \in Messages \ asked : \E e \in Copy : TopOf(m, e)

-----------------------------------------------------------------------------
LEMMA FlagChanged ==
  ASSUME NEW c \in Copy, NEW flag \in BOOLEAN
  PROVE  LET d == [c EXCEPT !.deleted = flag]
         IN /\ d \in Copy /\ d.deleted = flag
            /\ d.uid = c.uid /\ d.msg = c.msg /\ d.folder = c.folder
            /\ d.born = c.born
            /\ c.deleted = flag => d = c
BY DEF Copy

LEMMA CopyFields ==
  ASSUME NEW c \in Copy
  PROVE  /\ c.uid \in Nat /\ c.msg \in Messages /\ c.folder \in Folders
         /\ c.deleted \in BOOLEAN /\ c.born \in Nat
BY DEF Copy

LEMMA Duplicated ==
  ASSUME NEW c \in Copy, NEW t \in Folders, nextUid \in Nat, copying \in Nat
  PROVE  LET d == Duplicate(c, t)
         IN /\ d \in Copy /\ d.uid = nextUid + c.uid /\ d.msg = c.msg
            /\ d.folder = t /\ d.deleted = c.deleted
            /\ d.born = IF c.deleted THEN c.born ELSE copying + 1
<1>1. c.uid \in Nat /\ c.born \in Nat /\ c.msg \in Messages /\ c.deleted \in BOOLEAN
  BY CopyFields
<1>2. nextUid + c.uid \in Nat /\ (IF c.deleted THEN c.born ELSE copying + 1) \in Nat
  BY <1>1
<1> QED
  BY <1>1, <1>2 DEF Duplicate, Copy

LEMMA JobFields ==
  ASSUME NEW j \in Job
  PROVE  j.folder \in Folders /\ j.uids \in SUBSET Nat /\ j.target \in Folders
BY DEF Job

LEMMA NoJobTyped == NoJob \in Job /\ NoJob.uids = {}
BY MailAssumption DEF NoJob, Job

LEMMA MarkTyped ==
  ASSUME copies \in SUBSET Copy, NEW C \in SUBSET copies, NEW flag \in BOOLEAN,
         Mark(C, flag)
  PROVE  copies' \in SUBSET Copy
BY FlagChanged DEF Mark

LEMMA FinishTyped ==
  ASSUME TypeOK, NEW r \in Requests, Finish(r)
  PROVE  step' \in [Requests -> Steps] /\ job' \in [Requests -> Job] /\ begun' \in Nat
<1>1. "idle" \in Steps
  BY DEF Steps
<1> QED
  BY <1>1, NoJobTyped DEF TypeOK, Finish

LEMMA ContinueTyped ==
  ASSUME TypeOK, NEW r \in Requests, NEW next \in Steps, Continue(r, next)
  PROVE  step' \in [Requests -> Steps] /\ job' \in [Requests -> Job] /\ begun' \in Nat
BY DEF TypeOK, Continue

LEMMA DoCopyTyped ==
  ASSUME TypeOK, NEW r \in Requests, DoCopy(r)
  PROVE  /\ copies' \in SUBSET Copy /\ nextUid' \in Nat /\ copying' \in Nat
         /\ step' \in [Requests -> Steps] /\ job' \in [Requests -> Job]
         /\ begun' \in Nat
<1>1. job[r] \in Job /\ Named(r) \subseteq Copy
  BY DEF TypeOK, Named, In
<1>2. job[r].target \in Folders
  BY <1>1, JobFields
<1>3. nextUid \in Nat /\ copying \in Nat
  BY DEF TypeOK
<1>4. \A c \in Named(r) : Duplicate(c, job[r].target) \in Copy
  BY <1>1, <1>2, <1>3, Duplicated
<1>5. copies' \in SUBSET Copy
  BY <1>4 DEF DoCopy, TypeOK
<1>6. "store" \in Steps /\ Continue(r, "store")
  BY DEF Steps, DoCopy
<1> QED
  BY <1>3, <1>5, <1>6, ContinueTyped DEF DoCopy

LEMMA BeginTyped ==
  ASSUME TypeOK, NEW r \in Requests, NEW kind \in {"move", "erase"},
         NEW f \in Folders, NEW uids, NEW t \in Folders,
         NEW first \in {"copy", "store"}, Begin(r, kind, f, uids, t, first),
         asked' \in SUBSET Messages
  PROVE  TypeOK'
<1>1. /\ In(f) \subseteq Copy
      /\ \A c \in In(f) : c.uid \in Nat /\ c.msg \in Messages
  BY CopyFields DEF TypeOK, In
<1>2. uids \in SUBSET Nat
  BY <1>1 DEF Begin
<1>3. [kind |-> kind, folder |-> f, uids |-> uids, target |-> t] \in Job
  BY <1>2 DEF Job
<1>4. first \in Steps
  BY DEF Steps
<1>5. disturbed' \in SUBSET Messages
  BY <1>1 DEF Begin, TypeOK
<1> QED
  BY <1>3, <1>4, <1>5 DEF Begin, TypeOK, store

LEMMA NamedTyped ==
  ASSUME TypeOK, NEW r \in Requests
  PROVE  Named(r) \in SUBSET copies /\ Msgs(Named(r)) \in SUBSET Messages
BY CopyFields DEF TypeOK, Named, In, Msgs

LEMMA InitCopies ==
  ASSUME Init
  PROVE  /\ \A c \in copies : c \in Copy /\ c.born = 0 /\ c.deleted = FALSE
         /\ \A c \in copies : c.uid < Cardinality(Messages)
         /\ \A c, d \in copies : c.uid = d.uid => c = d
         /\ \A m \in Messages : \E c \in copies : c.msg = m
<1> DEFINE New(i, m) == [uid |-> i, msg |-> m, folder |-> Inbox,
                         deleted |-> FALSE, born |-> 0]
<1>1. Cardinality(Messages) \in Nat
  BY MailAssumption, FS_CardinalityType
<1>2. PICK n \in [Messages -> 0 .. Cardinality(Messages) - 1] :
        /\ \A a, b \in Messages : n[a] = n[b] => a = b
        /\ copies = {New(n[m], m) : m \in Messages}
  BY DEF Init
<1>3. \A m \in Messages : n[m] \in Nat /\ n[m] < Cardinality(Messages)
  BY <1>1, <1>2
<1>4. \A i \in Nat, m \in Messages :
        /\ New(i, m) \in Copy /\ New(i, m).uid = i /\ New(i, m).msg = m
        /\ New(i, m).born = 0 /\ New(i, m).deleted = FALSE
  BY MailAssumption DEF Copy
<1> HIDE DEF New
<1> QED
  BY <1>2, <1>3, <1>4

LEMMA InitTypeOK == Init => TypeOK
<1> SUFFICES ASSUME Init PROVE TypeOK
  OBVIOUS
<1> USE MailAssumption
<1>1. Cardinality(Messages) \in Nat
  BY FS_CardinalityType
<1>2. copies \in SUBSET Copy
  BY InitCopies
<1>3. step \in [Requests -> Steps] /\ job \in [Requests -> Job]
  BY NoJobTyped DEF Init, Steps
<1>4. /\ exists \in SUBSET Folders /\ nextUid \in Nat
      /\ begun \in Nat /\ copying \in Nat
  BY <1>1 DEF Init
<1>5. /\ asked \in SUBSET Messages /\ disturbed \in SUBSET Messages
      /\ home \in [Messages -> Folders]
  BY DEF Init
<1> QED
  BY <1>2, <1>3, <1>4, <1>5 DEF TypeOK

LEMMA NextTypeOK == TypeOK /\ [Next]_vars => TypeOK'
<1> SUFFICES ASSUME TypeOK, [Next]_vars PROVE TypeOK'
  OBVIOUS
<1>1. ASSUME NEW r \in Requests, Requested(r)
      PROVE  TypeOK'
  <2>1. PICK f \in Folders : \E uids \in SUBSET {c.uid : c \in In(f)} :
          Asks(r, f, uids)
    BY <1>1 DEF Requested
  <2>2. PICK uids \in SUBSET {c.uid : c \in In(f)} : Asks(r, f, uids)
    BY <2>1
  <2>3. ASSUME NEW u \in uids, NEW t \in Folders, MoveOne(r, f, u, t)
        PROVE  TypeOK'
    BY <2>3, BeginTyped DEF MoveOne, TypeOK
  <2>4. ASSUME NEW t \in Folders, ClassicMove(r, f, uids, t)
        PROVE  TypeOK'
    BY <2>4, BeginTyped DEF ClassicMove, TypeOK
  <2>5. CASE Delete(r, f, uids)
    <3>1. \A c \in In(f) : c.msg \in Messages
      BY CopyFields DEF TypeOK, In
    <3>2. asked' \in SUBSET Messages
      BY <2>5, <3>1 DEF Delete, TypeOK
    <3>3. Trash \in Folders
      BY MailAssumption
    <3> QED
      BY <2>5, <3>2, <3>3, BeginTyped DEF Delete
  <2> QED
    BY <2>2, <2>3, <2>4, <2>5 DEF Asks
<1>2. ASSUME NEW r \in Requests, CopyOrCreate(r) PROVE TypeOK'
  <2>1. "create" \in Steps
    BY DEF Steps
  <2> QED
    BY <1>2, <2>1, DoCopyTyped, ContinueTyped DEF CopyOrCreate, TypeOK
<1>3. ASSUME NEW r \in Requests, CreateTarget(r) PROVE TypeOK'
  <2>1. "recopy" \in Steps
    BY DEF Steps
  <2>2. job[r].target \in Folders
    BY JobFields DEF TypeOK
  <2> QED
    BY <1>3, <2>1, <2>2, ContinueTyped DEF CreateTarget, TypeOK
<1>4. ASSUME NEW r \in Requests, CopyAgain(r) PROVE TypeOK'
  BY <1>4, DoCopyTyped, FinishTyped DEF CopyAgain, TypeOK
<1>5. ASSUME NEW r \in Requests, StoreDeleted(r) PROVE TypeOK'
  <2>1. "expunge" \in Steps
    BY DEF Steps
  <2>2. step' \in [Requests -> Steps] /\ job' \in [Requests -> Job] /\ begun' \in Nat
    BY <1>5, <2>1, ContinueTyped DEF StoreDeleted
  <2>3. copies' \in SUBSET Copy
    BY <1>5, NamedTyped, MarkTyped DEF StoreDeleted, TypeOK
  <2>4. disturbed' \in SUBSET Messages
    BY <1>5, NamedTyped DEF StoreDeleted, TypeOK
  <2>5. job[r].target \in Folders
    BY JobFields DEF TypeOK
  <2>6. home' \in [Messages -> Folders]
    BY <1>5, <2>5 DEF StoreDeleted, TypeOK
  <2> QED
    BY <1>5, <2>2, <2>3, <2>4, <2>6 DEF StoreDeleted, TypeOK
<1>6. ASSUME NEW r \in Requests, Expunge(r) PROVE TypeOK'
  BY <1>6, FinishTyped, NamedTyped DEF Expunge, TypeOK
<1>7. ASSUME NEW r \in Requests, Break(r) PROVE TypeOK'
  BY <1>7, FinishTyped, NamedTyped DEF Break, TypeOK, store
<1>8. ASSUME NEW f \in Folders, NEW u, NEW add \in BOOLEAN, SetFlag(f, u, add)
      PROVE  TypeOK'
  <2> DEFINE C == {c \in In(f) : c.uid = u}
  <2>1. C \in SUBSET copies /\ Msgs(C) \in SUBSET Messages
    BY CopyFields DEF TypeOK, In, Msgs
  <2>2. Mark(C, add)
    BY <1>8 DEF SetFlag
  <2>3. copies' \in SUBSET Copy
    BY <2>1, <2>2, MarkTyped DEF TypeOK
  <2>4. asked' \in SUBSET Messages /\ disturbed' \in SUBSET Messages
    BY <1>8, <2>1 DEF SetFlag, TypeOK
  <2> QED
    BY <1>8, <2>3, <2>4 DEF SetFlag, TypeOK, work
<1>9. ASSUME NEW f \in Folders, DeleteFolder(f) PROVE TypeOK'
  <2>1. Msgs(In(f)) \in SUBSET Messages
    BY CopyFields DEF TypeOK, In, Msgs
  <2> QED
    BY <1>9, <2>1 DEF DeleteFolder, TypeOK, work
<1>10. ASSUME NEW f \in Folders, CreateFolder(f) PROVE TypeOK'
  BY <1>10 DEF CreateFolder, TypeOK, work
<1>11. CASE UNCHANGED vars
  BY <1>11 DEF vars, store, work, history, TypeOK
<1> QED
  BY <1>1, <1>2, <1>3, <1>4, <1>5, <1>6, <1>7, <1>8, <1>9, <1>10, <1>11
  DEF Next, Command

-----------------------------------------------------------------------------
(* A step that adds no message and no job leaves the numbers in order.     *)
LEMMA NumbersKept ==
  ASSUME TypeOK, TypeOK', Numbers, nextUid' = nextUid, copying' = copying,
         \A d \in copies' : \E c \in copies : d.uid = c.uid /\ d.born = c.born,
         \A c, d \in copies' : c.uid = d.uid => c = d,
         \A r \in Requests : job'[r].uids \in SUBSET job[r].uids
  PROVE  Numbers'
BY DEF Numbers

LEMMA MarkCopies ==
  ASSUME copies \in SUBSET Copy, NEW C \in SUBSET copies, NEW flag \in BOOLEAN,
         Mark(C, flag), NEW d \in copies'
  PROVE  \E c \in copies :
           /\ d.uid = c.uid /\ d.born = c.born /\ d.msg = c.msg
           /\ d.folder = c.folder
           /\ IF c \in C THEN d = [c EXCEPT !.deleted = flag] ELSE d = c
           /\ d.deleted = IF c \in C THEN flag ELSE c.deleted
<1>1. CASE d \in copies \ C
  BY <1>1
<1>2. CASE d \in {[c EXCEPT !.deleted = flag] : c \in C}
  <2>1. PICK c \in C : d = [c EXCEPT !.deleted = flag]
    BY <1>2
  <2> QED
    BY <2>1, FlagChanged
<1> QED
  BY <1>1, <1>2 DEF Mark

LEMMA MarkNumbers ==
  ASSUME TypeOK, TypeOK', Numbers, NEW C \in SUBSET copies, NEW flag \in BOOLEAN,
         Mark(C, flag), nextUid' = nextUid, copying' = copying,
         \A r \in Requests : job'[r].uids \in SUBSET job[r].uids
  PROVE  Numbers'
<1>1. copies \in SUBSET Copy
  BY DEF TypeOK
<1>2. \A d \in copies' : \E c \in copies : d.uid = c.uid /\ d.born = c.born
  BY <1>1, MarkCopies
<1>3. ASSUME NEW c \in copies', NEW d \in copies', c.uid = d.uid
      PROVE  c = d
  <2> DEFINE Marked(a) == [a EXCEPT !.deleted = flag]
  <2>0. \A x \in copies' : \E a \in copies :
          a.uid = x.uid /\ IF a \in C THEN x = Marked(a) ELSE x = a
    BY <1>1, MarkCopies
  <2> HIDE DEF Marked
  <2>1. PICK a \in copies : a.uid = c.uid /\ IF a \in C THEN c = Marked(a) ELSE c = a
    BY <2>0
  <2>2. PICK b \in copies : b.uid = d.uid /\ IF b \in C THEN d = Marked(b) ELSE d = b
    BY <2>0
  <2>3. a = b
    BY <1>3, <2>1, <2>2 DEF Numbers
  <2> QED
    BY <2>1, <2>2, <2>3
<1> QED
  BY <1>2, <1>3, NumbersKept

LEMMA SameUids ==
  ASSUME TypeOK, NEW r \in Requests, NEW next, Continue(r, next) \/ Finish(r)
  PROVE  \A s \in Requests : /\ job'[s].uids \in SUBSET job[s].uids
                             /\ s # r => job'[s] = job[s] /\ step'[s] = step[s]
BY NoJobTyped DEF TypeOK, Continue, Finish

LEMMA CopyNumbers ==
  ASSUME TypeOK, TypeOK', Numbers, NEW r \in Requests, DoCopy(r)
  PROVE  Numbers'
<1> DEFINE t == job[r].target
<1>1. /\ t \in Folders /\ nextUid \in Nat /\ copying \in Nat
      /\ Named(r) \in SUBSET copies
  BY JobFields, NamedTyped DEF TypeOK
<1>2. \A c \in copies : c \in Copy /\ c.uid \in Nat /\ c.born \in Nat
  BY CopyFields DEF TypeOK
<1>3. \A c \in Named(r) :
        /\ Duplicate(c, t).uid = nextUid + c.uid
        /\ Duplicate(c, t).born = IF c.deleted THEN c.born ELSE copying + 1
  BY <1>1, <1>2, Duplicated
<1>4. /\ copies' = copies \cup {Duplicate(c, t) : c \in Named(r)}
      /\ nextUid' = 2 * nextUid /\ copying' = copying + 1
      /\ Continue(r, "store")
  BY DEF DoCopy
<1>5. ASSUME NEW d \in copies' PROVE d.uid < nextUid' /\ d.born <= copying'
  <2>1. CASE d \in copies
    BY <1>1, <1>2, <1>4, <2>1 DEF Numbers
  <2>2. ASSUME NEW c \in Named(r), d = Duplicate(c, t)
        PROVE  d.uid < nextUid' /\ d.born <= copying'
    <3>1. c.uid < nextUid /\ c.born <= copying
      BY <1>1 DEF Numbers
    <3> QED
      BY <1>1, <1>2, <1>3, <1>4, <2>2, <3>1
  <2> QED
    BY <1>4, <2>1, <2>2
<1>6. ASSUME NEW c \in copies', NEW d \in copies', c.uid = d.uid
      PROVE  c = d
  <2> DEFINE New == {Duplicate(a, t) : a \in Named(r)}
  <2>1. \A a \in copies : a.uid < nextUid
    BY DEF Numbers
  <2>2. \A a \in New : \E b \in Named(r) : a = Duplicate(b, t) /\ a.uid = nextUid + b.uid
    BY <1>3
  <2>3. \A a \in New : a.uid >= nextUid
    BY <1>1, <1>2, <2>2
  <2>4. CASE c \in copies /\ d \in copies
    BY <1>6, <2>4 DEF Numbers
  <2>5. CASE c \in New /\ d \in New
    <3>1. PICK a \in Named(r) : c = Duplicate(a, t) /\ c.uid = nextUid + a.uid
      BY <2>2, <2>5
    <3>2. PICK b \in Named(r) : d = Duplicate(b, t) /\ d.uid = nextUid + b.uid
      BY <2>2, <2>5
    <3>3. a.uid = b.uid
      BY <1>1, <1>2, <1>6, <3>1, <3>2
    <3> QED
      BY <1>1, <3>1, <3>2, <3>3 DEF Numbers
  <2>6. CASE c \in copies /\ d \in New
    BY <1>1, <1>2, <1>6, <2>1, <2>3, <2>6
  <2>7. CASE c \in New /\ d \in copies
    BY <1>1, <1>2, <1>6, <2>1, <2>3, <2>7
  <2> QED
    BY <1>4, <2>4, <2>5, <2>6, <2>7
<1>7. ASSUME NEW s \in Requests, NEW u \in job'[s].uids PROVE u < nextUid'
  <2>1. u \in job[s].uids
    BY <1>4 DEF Continue
  <2>2. u \in Nat /\ u < nextUid
    BY <2>1, JobFields DEF TypeOK, Numbers
  <2> QED
    BY <1>1, <1>4, <2>2
<1> QED
  BY <1>5, <1>6, <1>7 DEF Numbers

LEMMA BeginNumbers ==
  ASSUME TypeOK, TypeOK', Numbers, NEW r \in Requests, NEW kind, NEW f \in Folders,
         NEW uids, NEW t, NEW first, Begin(r, kind, f, uids, t, first)
  PROVE  Numbers'
<1> DEFINE j == [kind |-> kind, folder |-> f, uids |-> uids, target |-> t]
<1>1. j.uids = uids /\ uids \subseteq {c.uid : c \in copies}
  BY DEF Begin, In
<1> HIDE DEF j
<1>2. job' = [job EXCEPT ![r] = j] /\ UNCHANGED <<copies, nextUid, copying>>
  BY DEF Begin, j, store
<1>3. ASSUME NEW s \in Requests, NEW u \in job'[s].uids PROVE u < nextUid
  BY <1>1, <1>2 DEF Numbers, TypeOK
<1> QED
  BY <1>2, <1>3 DEF Numbers

LEMMA InitNumbers == Init => Numbers
<1> SUFFICES ASSUME Init PROVE Numbers
  OBVIOUS
<1>0. nextUid = Cardinality(Messages) /\ copying = 0
  BY DEF Init
<1>1. \A c \in copies : c.uid < nextUid /\ c.born <= copying
  <2>1. \A c \in copies : c.uid < Cardinality(Messages) /\ c.born = 0
    BY InitCopies
  <2> QED
    BY <1>0, <2>1
<1>2. \A c, d \in copies : c.uid = d.uid => c = d
  BY InitCopies
<1>3. \A r \in Requests : job[r].uids = {}
  BY NoJobTyped DEF Init
<1> QED
  BY <1>1, <1>2, <1>3 DEF Numbers

LEMMA NextNumbers == TypeOK /\ TypeOK' /\ Numbers /\ [Next]_vars => Numbers'
<1> SUFFICES ASSUME TypeOK, TypeOK', Numbers, [Next]_vars PROVE Numbers'
  OBVIOUS
<1> DEFINE Fewer == \A d \in copies' : d \in copies
           Calm == \A s \in Requests : job'[s].uids \in SUBSET job[s].uids
<1>0. Fewer /\ Calm /\ nextUid' = nextUid /\ copying' = copying => Numbers'
  BY NumbersKept DEF Numbers
<1>1. ASSUME NEW r \in Requests, Requested(r)
      PROVE  Numbers'
  BY <1>1, BeginNumbers, MailAssumption
  DEF Requested, Asks, MoveOne, ClassicMove, Delete
<1>2. ASSUME NEW r \in Requests, CopyOrCreate(r) PROVE Numbers'
  BY <1>0, <1>2, CopyNumbers, SameUids DEF CopyOrCreate
<1>3. ASSUME NEW r \in Requests, CreateTarget(r) PROVE Numbers'
  BY <1>0, <1>3, SameUids DEF CreateTarget
<1>4. ASSUME NEW r \in Requests, CopyAgain(r) PROVE Numbers'
  BY <1>0, <1>4, CopyNumbers, SameUids DEF CopyAgain
<1>5. ASSUME NEW r \in Requests, StoreDeleted(r) PROVE Numbers'
  BY <1>0, <1>5, MarkNumbers, NamedTyped, SameUids DEF StoreDeleted
<1>6. ASSUME NEW r \in Requests, Expunge(r) PROVE Numbers'
  BY <1>0, <1>6, SameUids DEF Expunge
<1>7. ASSUME NEW r \in Requests, Break(r) PROVE Numbers'
  BY <1>0, <1>7, SameUids DEF Break, store
<1>8. ASSUME NEW f \in Folders, NEW u, NEW add \in BOOLEAN, SetFlag(f, u, add)
      PROVE  Numbers'
  <2> DEFINE C == {c \in In(f) : c.uid = u}
  <2>1. C \in SUBSET copies /\ Mark(C, add)
    BY <1>8 DEF SetFlag, In
  <2> HIDE DEF C
  <2> QED
    BY <1>8, <2>1, MarkNumbers DEF SetFlag, work
<1>9. ASSUME NEW f \in Folders, DeleteFolder(f) PROVE Numbers'
  BY <1>0, <1>9 DEF DeleteFolder, work
<1>10. ASSUME NEW f \in Folders, CreateFolder(f) PROVE Numbers'
  BY <1>0, <1>10 DEF CreateFolder, work
<1>11. CASE UNCHANGED vars
  BY <1>0, <1>11 DEF vars, store, work, history
<1> QED
  BY <1>1, <1>2, <1>3, <1>4, <1>5, <1>6, <1>7, <1>8, <1>9, <1>10, <1>11
  DEF Next, Command

-----------------------------------------------------------------------------
(* What a step must keep for a top to stay one.                            *)
Undisturbed(m, r) ==
  step'[r] = "store" =>
    \/ step[r] = "store" /\ job'[r] = job[r]
    \/ \A c \in copies : c.msg = m => c.uid \notin job'[r].uids

LEMMA FewerTop ==
  ASSUME NEW m, NEW e, TopOf(m, e), e \in copies',
         \A d \in copies' : d.msg = m => d \in copies,
         \A r \in Requests : Undisturbed(m, r)
  PROVE  TopOf(m, e)'
BY DEF TopOf, Safe, Undisturbed, Named, In

LEMMA MarkTop ==
  ASSUME TypeOK, NEW m, NEW e \in Copy, TopOf(m, e),
         NEW C \in SUBSET copies, NEW flag \in BOOLEAN, Mark(C, flag),
         \A c \in C : c.msg = m => flag = FALSE \/ c.born < e.born,
         \A r \in Requests : Undisturbed(m, r)
  PROVE  TopOf(m, e)'
<1>1. copies \in SUBSET Copy
  BY DEF TypeOK
<1>2. /\ e \in copies /\ e.msg = m /\ e.born \in Nat
      /\ \A c \in copies : c.born \in Nat
  BY <1>1, CopyFields DEF TopOf
<1>3. Safe(e)
  BY <1>2 DEF TopOf
<1>4. e \in copies'
  <2>1. CASE e \notin C
    BY <1>2, <2>1 DEF Mark
  <2>2. CASE e \in C
    <3>1. flag = FALSE
      BY <1>2, <2>2
    <3>2. [e EXCEPT !.deleted = flag] = e
      BY <1>3, <3>1, FlagChanged DEF Safe
    <3> QED
      BY <2>2, <3>2 DEF Mark
  <2> QED
    BY <2>1, <2>2
<1>5. ASSUME NEW d \in copies', d.msg = m, e.born <= d.born
      PROVE  Safe(d)'
  <2>1. PICK c \in copies :
          /\ d.uid = c.uid /\ d.born = c.born /\ d.msg = c.msg
          /\ d.folder = c.folder
          /\ d.deleted = IF c \in C THEN flag ELSE c.deleted
    BY <1>1, MarkCopies
  <2>2. Safe(c)
    BY <1>5, <2>1 DEF TopOf
  <2>3. d.deleted = FALSE
    BY <1>2, <1>5, <2>1, <2>2 DEF Safe
  <2>4. ASSUME NEW r \in Requests, step'[r] = "store" PROVE d \notin Named(r)'
    BY <1>5, <2>1, <2>2, <2>4 DEF Safe, Undisturbed, Named, In
  <2> QED
    BY <2>3, <2>4 DEF Safe
<1> QED
  BY <1>2, <1>4, <1>5 DEF TopOf

LEMMA CopyTop ==
  ASSUME TypeOK, Numbers, NEW m, NEW e \in Copy, TopOf(m, e),
         NEW r \in Requests, DoCopy(r), step[r] # "store"
  PROVE  \E x \in Copy : TopOf(m, x)'
<1> DEFINE t == job[r].target
           New == {Duplicate(c, t) : c \in Named(r)}
<1>1. /\ t \in Folders /\ nextUid \in Nat /\ copying \in Nat
      /\ Named(r) \in SUBSET copies
  BY JobFields, NamedTyped DEF TypeOK
<1>2. \A c \in copies :
        /\ c \in Copy /\ c.uid \in Nat /\ c.born \in Nat /\ c.deleted \in BOOLEAN
        /\ c.uid < nextUid /\ c.born <= copying
  BY CopyFields DEF TypeOK, Numbers
<1>3. \A c \in Named(r) :
        /\ Duplicate(c, t) \in Copy
        /\ Duplicate(c, t).uid = nextUid + c.uid
        /\ Duplicate(c, t).msg = c.msg
        /\ Duplicate(c, t).deleted = c.deleted
        /\ Duplicate(c, t).born = IF c.deleted THEN c.born ELSE copying + 1
  BY <1>1, <1>2, Duplicated
<1>4. /\ copies' = copies \cup New /\ job' = job
      /\ step' = [step EXCEPT ![r] = "store"]
  BY DEF DoCopy, Continue
<1>5. \A d \in New : \A s \in Requests : d.uid \notin job'[s].uids
  <2> SUFFICES ASSUME NEW c \in Named(r), NEW s \in Requests
               PROVE  Duplicate(c, t).uid \notin job[s].uids
    BY <1>4
  <2>1. \A u \in job[s].uids : u \in Nat /\ u < nextUid
    BY JobFields DEF TypeOK, Numbers
  <2> QED
    BY <1>1, <1>2, <1>3, <2>1
<1>6. ASSUME NEW c \in Named(r), c.msg = m, c.deleted = FALSE
      PROVE  \E x \in Copy : TopOf(m, x)'
  <2>0. PICK x \in Copy : x = Duplicate(c, t)
    BY <1>3
  <2>1. x \in copies' /\ x.msg = m /\ x.born = copying + 1
    BY <1>3, <1>4, <1>6, <2>0
  <2>2. ASSUME NEW d \in copies', d.msg = m, x.born <= d.born
        PROVE  Safe(d)'
    <3>1. d \notin copies
      BY <1>1, <1>2, <2>1, <2>2
    <3>2. PICK b \in Named(r) : d = Duplicate(b, t)
      BY <1>4, <3>1
    <3>3. d.deleted = FALSE
      BY <1>1, <1>2, <1>3, <2>1, <2>2, <3>2
    <3> QED
      BY <1>4, <1>5, <3>2, <3>3 DEF Safe, Named
  <2> QED
    BY <2>1, <2>2 DEF TopOf
<1>7. CASE \A c \in Named(r) : c.msg = m => c.deleted = TRUE
  <2>1. e \in copies' /\ e.msg = m
    BY <1>4 DEF TopOf
  <2>2. ASSUME NEW d \in copies, d.msg = m, e.born <= d.born
        PROVE  Safe(d)'
    <3>1. Safe(d)
      BY <2>2 DEF TopOf
    <3>2. d \notin Named(r)
      BY <1>7, <2>2, <3>1 DEF Safe
    <3>3. \A s \in Requests : Named(s)' \cap copies = Named(s)
      BY <1>4 DEF Named, In
    <3> QED
      BY <1>4, <3>1, <3>2, <3>3 DEF Safe, TypeOK
  <2>3. ASSUME NEW c \in Named(r), c.msg = m
        PROVE  Duplicate(c, t).born < e.born
    <3>1. c.deleted = TRUE /\ ~Safe(c)
      BY <1>7, <2>3 DEF Safe
    <3>2. ~(e.born <= c.born)
      BY <1>1, <2>3, <3>1 DEF TopOf
    <3> QED
      BY <1>1, <1>2, <1>3, <3>1, <3>2, CopyFields
  <2>4. ASSUME NEW d \in New, d.msg = m PROVE ~(e.born <= d.born)
    <3>1. PICK c \in Named(r) : d = Duplicate(c, t)
      OBVIOUS
    <3>2. d.born < e.born /\ d.born \in Nat /\ e.born \in Nat
      BY <1>3, <2>3, <2>4, <3>1, CopyFields
    <3> QED
      BY <3>2
  <2>5. TopOf(m, e)'
    BY <1>4, <2>1, <2>2, <2>4 DEF TopOf
  <2> QED
    BY <2>5
<1>8. CASE \E c \in Named(r) : c.msg = m /\ c.deleted = FALSE
  BY <1>6, <1>8
<1> QED
  BY <1>1, <1>2, <1>7, <1>8

LEMMA BeginTop ==
  ASSUME TypeOK, Numbers, NEW m, NEW e, TopOf(m, e), NEW r \in Requests, NEW kind,
         NEW f \in Folders, NEW uids, NEW t, NEW first, Begin(r, kind, f, uids, t, first),
         first = "store" => \A c \in In(f) : c.msg = m => c.uid \notin uids
  PROVE  TopOf(m, e)'
<1> DEFINE j == [kind |-> kind, folder |-> f, uids |-> uids, target |-> t]
<1>1. j.uids = uids /\ j.folder = f
  OBVIOUS
<1> HIDE DEF j
<1>2. /\ job' = [job EXCEPT ![r] = j] /\ step' = [step EXCEPT ![r] = first]
      /\ copies' = copies
  BY DEF Begin, j, store
<1>3. ASSUME NEW s \in Requests, step'[s] = "store", s # r
      PROVE  step[s] = "store" /\ job'[s] = job[s]
  BY <1>2, <1>3 DEF TypeOK
<1>4. ASSUME step'[r] = "store", NEW c \in Named(r)' PROVE c.msg # m
  <2>1. first = "store" /\ job'[r] = j
    BY <1>2, <1>4 DEF TypeOK
  <2>2. c \in In(f) /\ c.uid \in uids
    BY <1>1, <1>2, <2>1 DEF Named, In
  <2> QED
    BY <2>1, <2>2
<1> QED
  BY <1>2, <1>3, <1>4 DEF TopOf, Safe, Named, In

LEMMA StepsOn ==
  ASSUME TypeOK, NEW r \in Requests, NEW m, NEW next,
         Continue(r, next), next # "store"
  PROVE  \A s \in Requests : Undisturbed(m, s)
BY DEF TypeOK, Continue, Undisturbed

LEMMA StepsEnd ==
  ASSUME TypeOK, NEW r \in Requests, NEW m, Finish(r)
  PROVE  \A s \in Requests : Undisturbed(m, s)
BY DEF TypeOK, Finish, Undisturbed

LEMMA InitTops == Init => Tops
<1> SUFFICES ASSUME Init, NEW m \in Messages PROVE \E e \in Copy : TopOf(m, e)
  BY DEF Tops
<1>1. PICK e \in copies : e.msg = m
  BY InitCopies
<1>2. \A r \in Requests : step[r] = "idle"
  BY DEF Init
<1>3. e \in Copy /\ \A c \in copies : Safe(c)
  BY <1>2, InitCopies DEF Safe
<1> QED
  BY <1>1, <1>3 DEF TopOf

LEMMA NextTops == TypeOK /\ Numbers /\ Tops /\ [Next]_vars => Tops'
<1> SUFFICES ASSUME TypeOK, Numbers, Tops, [Next]_vars,
                    NEW m \in Messages, m \notin asked'
             PROVE  \E x \in Copy : TopOf(m, x)'
  BY DEF Tops
<1>0. m \notin asked
  BY DEF Next, Command, Requested, Asks, MoveOne, ClassicMove, Delete, CopyOrCreate,
     CreateTarget, CopyAgain, StoreDeleted, Expunge, Break, SetFlag, DeleteFolder,
     CreateFolder, vars, history
<1>e. PICK e \in Copy : TopOf(m, e)
  BY <1>0 DEF Tops
<1>1. ASSUME NEW r \in Requests, Requested(r)
      PROVE  TopOf(m, e)'
  <2>1. PICK f \in Folders : \E uids \in SUBSET {c.uid : c \in In(f)} :
          Asks(r, f, uids)
    BY <1>1 DEF Requested
  <2>2. PICK uids \in SUBSET {c.uid : c \in In(f)} : Asks(r, f, uids)
    BY <2>1
  <2>3. CASE Delete(r, f, uids) /\ f = Trash
    <3>1. \A c \in In(f) : c.msg = m => c.uid \notin uids
      BY <2>3 DEF Delete
    <3> QED
      BY <1>e, <2>3, <3>1, BeginTop DEF Delete
  <2> QED
    <3>1. ASSUME NEW u, NEW t, MoveOne(r, f, u, t) PROVE TopOf(m, e)'
      BY <1>e, <3>1, BeginTop DEF MoveOne
    <3>2. ASSUME NEW t, ClassicMove(r, f, uids, t) PROVE TopOf(m, e)'
      BY <1>e, <3>2, BeginTop DEF ClassicMove
    <3>3. CASE Delete(r, f, uids) /\ f # Trash
      BY <1>e, <3>3, BeginTop DEF Delete
    <3> QED
      BY <2>2, <2>3, <3>1, <3>2, <3>3 DEF Asks
<1>2. ASSUME NEW r \in Requests, CopyOrCreate(r) PROVE \E x \in Copy : TopOf(m, x)'
  <2>1. CASE DoCopy(r)
    BY <1>e, <1>2, <2>1, CopyTop DEF CopyOrCreate
  <2>2. CASE Continue(r, "create") /\ UNCHANGED <<copies, nextUid, copying>>
    BY <1>e, <2>2, StepsOn, FewerTop DEF TopOf
  <2> QED
    BY <1>2, <2>1, <2>2 DEF CopyOrCreate
<1>3. ASSUME NEW r \in Requests, CreateTarget(r) PROVE TopOf(m, e)'
  BY <1>e, <1>3, StepsOn, FewerTop DEF CreateTarget, TopOf
<1>4. ASSUME NEW r \in Requests, CopyAgain(r) PROVE \E x \in Copy : TopOf(m, x)'
  <2>1. CASE DoCopy(r)
    BY <1>e, <1>4, <2>1, CopyTop DEF CopyAgain
  <2>2. CASE Finish(r) /\ UNCHANGED <<copies, nextUid, copying>>
    BY <1>e, <2>2, StepsEnd, FewerTop DEF TopOf
  <2> QED
    BY <1>4, <2>1, <2>2 DEF CopyAgain
<1>5. ASSUME NEW r \in Requests, StoreDeleted(r) PROVE TopOf(m, e)'
  <2>1. Continue(r, "expunge") /\ step[r] = "store"
    BY <1>5 DEF StoreDeleted
  <2>2. \A s \in Requests : Undisturbed(m, s)
    BY <2>1, StepsOn
  <2>3. ASSUME NEW c \in Named(r), c.msg = m PROVE c.born < e.born
    <3>1. c \in copies /\ ~Safe(c)
      BY <2>1 DEF Safe, Named, In
    <3>2. c.born \in Nat /\ e.born \in Nat
      BY <3>1, CopyFields DEF TypeOK
    <3> QED
      BY <1>e, <2>3, <3>1, <3>2 DEF TopOf
  <2>4. CASE Mark(Named(r), TRUE)
    BY <1>e, <2>2, <2>3, <2>4, MarkTop, NamedTyped
  <2>5. CASE copies' = copies
    BY <1>e, <2>2, <2>5, FewerTop DEF TopOf
  <2> QED
    BY <1>5, <2>4, <2>5 DEF StoreDeleted
<1>6. ASSUME NEW r \in Requests, Expunge(r) PROVE TopOf(m, e)'
  <2>1. e \in copies /\ Safe(e)
    BY <1>e, CopyFields DEF TopOf
  <2>2. e \in copies' /\ \A d \in copies' : d \in copies
    BY <1>6, <2>1 DEF Expunge, Safe
  <2> QED
    BY <1>e, <1>6, <2>2, StepsEnd, FewerTop DEF Expunge
<1>7. ASSUME NEW r \in Requests, Break(r) PROVE TopOf(m, e)'
  BY <1>e, <1>7, StepsEnd, FewerTop DEF Break, TopOf, store
<1>8. ASSUME NEW f \in Folders, NEW u, NEW add \in BOOLEAN, SetFlag(f, u, add)
      PROVE  TopOf(m, e)'
  <2> DEFINE C == {c \in In(f) : c.uid = u}
  <2>1. C \in SUBSET copies /\ Mark(C, add) /\ UNCHANGED work
    BY <1>8 DEF SetFlag, In
  <2>2. \A c \in C : c.msg = m => add = FALSE
    BY <1>8 DEF SetFlag, Msgs
  <2> HIDE DEF C
  <2>3. \A s \in Requests : Undisturbed(m, s)
    BY <2>1 DEF Undisturbed, work
  <2> QED
    BY <1>e, <2>1, <2>2, <2>3, MarkTop
<1>9. ASSUME NEW f \in Folders, DeleteFolder(f) PROVE TopOf(m, e)'
  <2>1. e \in copies' /\ \A d \in copies' : d \in copies
    BY <1>e, <1>9 DEF DeleteFolder, Msgs, TopOf
  <2>2. \A s \in Requests : Undisturbed(m, s)
    BY <1>9 DEF DeleteFolder, Undisturbed, work
  <2> QED
    BY <1>e, <2>1, <2>2, FewerTop
<1>10. ASSUME NEW f \in Folders, CreateFolder(f) PROVE TopOf(m, e)'
  BY <1>e, <1>10, FewerTop DEF CreateFolder, work, TopOf, Undisturbed
<1>11. CASE UNCHANGED vars
  BY <1>e, <1>11, FewerTop DEF vars, store, work, TopOf, Undisturbed
<1> QED
  BY <1>e, <1>1, <1>2, <1>3, <1>4, <1>5, <1>6, <1>7, <1>8, <1>9, <1>10, <1>11
  DEF Next, Command

-----------------------------------------------------------------------------
(* Every variable keeps its type.                                          *)
THEOREM MailTypes == Spec => []TypeOK
<1> QED
  BY InitTypeOK, NextTypeOK, PTL DEF Spec

LEMMA TopsInvariant == Spec => [](TypeOK /\ Numbers /\ Tops)
<1>1. TypeOK /\ Numbers /\ Tops /\ [Next]_vars => (TypeOK /\ Numbers /\ Tops)'
  BY NextTypeOK, NextNumbers, NextTops
<1> QED
  BY <1>1, InitTypeOK, InitNumbers, InitTops, PTL DEF Spec

(* Moves that are cut short, repeated or raced never lose a message.       *)
THEOREM MovesLoseNothing == Spec => []NothingLost
<1>1. TypeOK /\ Tops => NothingLost
  <2> SUFFICES ASSUME TypeOK, Tops, NEW m \in Messages \ asked
               PROVE  \E c \in copies : c.msg = m /\ ~c.deleted
    BY DEF NothingLost
  <2>1. PICK e \in Copy : TopOf(m, e)
    BY DEF Tops
  <2>2. e.born <= e.born
    BY CopyFields
  <2> QED
    BY <2>1, <2>2 DEF TopOf, Safe
<1> QED
  BY <1>1, TopsInvariant, PTL

-----------------------------------------------------------------------------
(* The pages that the classic interface links to.                          *)
LEMMA Quotient ==
  ASSUME NEW a \in Nat, NEW b \in Nat \ {0}
  PROVE  /\ a \div b \in Nat
         /\ (a \div b) * b <= a
         /\ a < (a \div b) * b + b
         /\ \A k \in Nat : k * b <= a => k <= a \div b
<1>1. /\ a \div b \in Nat
      /\ (a \div b) * b <= a
      /\ a < (a \div b) * b + b
  OBVIOUS
<1>2. ASSUME NEW k \in Nat, k * b <= a PROVE k <= a \div b
  <2> DEFINE q == a \div b
  <2>1. q \in Nat /\ a < q * b + b
    BY <1>1
  <2> HIDE DEF q
  <2>2. SUFFICES ASSUME q < k PROVE FALSE
    BY <2>1 DEF q
  <2>3. PICK n \in Nat : k = q + 1 + n
    <3>1. k - (q + 1) \in Nat /\ k = q + 1 + (k - (q + 1))
      BY <2>1, <2>2
    <3>2. QED
      BY <3>1
  <2>4. k * b = q * b + b + n * b /\ n * b \in Nat /\ q * b \in Nat
    BY <2>1, <2>3
  <2>5. QED
    BY <1>2, <2>1, <2>4
<1>3. QED
  BY <1>1, <1>2

(* The row that is i-th from the bottom is on page (total - i) / size.     *)
LEMMA PagesCoverAll ==
  ASSUME NEW total \in Nat, NEW size \in Nat \ {0}, NEW i \in 1 .. total
  PROVE  \E p \in 0 .. PageCount(total, size) - 1 : i \in Page(total, p, size)
<1> DEFINE a == total - i
           p == a \div size
           n == (total + size - 1) \div size
           w == p * size
<1>1. a \in Nat /\ i \in Nat /\ i >= 1 /\ total = a + i
  OBVIOUS
<1>2. p \in Nat /\ w \in Nat /\ w <= a /\ a < w + size
  BY <1>1, Quotient
<1>3. p + 1 <= n /\ n \in Nat
  <2>1. (p + 1) * size = w + size
    BY <1>2
  <2>2. total + size - 1 \in Nat /\ w + size <= total + size - 1
    BY <1>1, <1>2
  <2>3. QED
    BY <1>2, <2>1, <2>2, Quotient
<1>4. PageCount(total, size) = n
  BY <1>1 DEF PageCount
<1>5. p \in 0 .. PageCount(total, size) - 1
  BY <1>2, <1>3, <1>4
<1>6. i \in Page(total, p, size)
  <2>1. Page(total, p, size) =
          LET end == IF w > total THEN 0 ELSE total - w
              start == IF end > size THEN end - size ELSE 1
          IN IF end = 0 THEN {} ELSE start .. end
    BY DEF Page
  <2> HIDE DEF w, p
  <2>2. QED
    BY <1>1, <1>2, <2>1
<1> HIDE DEF p
<1>7. QED
  BY <1>5, <1>6

LEMMA ImageFinite ==
  ASSUME NEW S, IsFiniteSet(S), NEW f, f = [x \in S |-> f[x]]
  PROVE  IsFiniteSet({f[x] : x \in S})
<1>1. f \in Surjection(S, {f[x] : x \in S})
  BY DEF Surjection
<1>2. QED
  BY <1>1, FS_Surjection

Finite == IsFiniteSet(copies)

LEMMA StillFinite == TypeOK /\ Finite /\ [Next]_vars => Finite'
<1> SUFFICES ASSUME TypeOK, IsFiniteSet(copies), [Next]_vars PROVE IsFiniteSet(copies')
  BY DEF Finite
<1>1. \A S \in SUBSET copies : IsFiniteSet(S)
  BY FS_Subset
<1>2. ASSUME NEW C \in SUBSET copies, NEW flag, Mark(C, flag) PROVE IsFiniteSet(copies')
  <2>1. IsFiniteSet({[c EXCEPT !.deleted = flag] : c \in C})
    <3> DEFINE g == [c \in C |-> [c EXCEPT !.deleted = flag]]
    <3>1. IsFiniteSet({g[c] : c \in C})
      <4>1. g = [c \in C |-> g[c]]
        OBVIOUS
      <4> HIDE DEF g
      <4>2. QED
        BY <1>1, <4>1, ImageFinite
    <3>2. {g[c] : c \in C} = {[c EXCEPT !.deleted = flag] : c \in C}
      OBVIOUS
    <3>3. QED
      BY <3>1, <3>2
  <2>2. QED
    BY <1>1, <1>2, <2>1, FS_Union DEF Mark
<1>3. ASSUME NEW r \in Requests, DoCopy(r) PROVE IsFiniteSet(copies')
  <2>1. IsFiniteSet({Duplicate(c, job[r].target) : c \in Named(r)})
    <3> DEFINE g == [c \in Named(r) |-> Duplicate(c, job[r].target)]
    <3>1. IsFiniteSet({g[c] : c \in Named(r)})
      <4>1. g = [c \in Named(r) |-> g[c]]
        OBVIOUS
      <4> HIDE DEF g
      <4>2. QED
        BY <1>1, <4>1, NamedTyped, ImageFinite
    <3>2. {g[c] : c \in Named(r)} = {Duplicate(c, job[r].target) : c \in Named(r)}
      OBVIOUS
    <3>3. QED
      BY <3>1, <3>2
  <2>2. QED
    BY <1>3, <2>1, FS_Union DEF DoCopy
<1>4. ASSUME NEW r \in Requests, Command(r) PROVE IsFiniteSet(copies')
  BY <1>1, <1>2, <1>3, <1>4, NamedTyped
  DEF Command, CopyOrCreate, CreateTarget, CopyAgain, StoreDeleted, Expunge, Break, store
<1>5. ASSUME NEW r \in Requests, Requested(r) PROVE copies' = copies
  BY <1>5 DEF Requested, Asks, MoveOne, ClassicMove, Delete, Begin, store
<1>6. ASSUME NEW f \in Folders, NEW u, NEW add, SetFlag(f, u, add) PROVE IsFiniteSet(copies')
  BY <1>2, <1>6 DEF SetFlag, In
<1>7. ASSUME NEW f \in Folders, DeleteFolder(f) \/ CreateFolder(f) PROVE IsFiniteSet(copies')
  BY <1>1, <1>7 DEF DeleteFolder, CreateFolder
<1>8. CASE UNCHANGED vars
  BY <1>8 DEF vars, store
<1>9. QED
  BY <1>4, <1>5, <1>6, <1>7, <1>8 DEF Next

(* Every message of a folder, however many there are, is on a page.        *)
THEOREM PagesCoverFolders == Spec => []PagesCover
<1>1. Init => Finite
  <2> SUFFICES ASSUME Init PROVE IsFiniteSet(copies)
    BY DEF Finite
  <2>1. PICK n : copies = {[uid |-> n[m], msg |-> m, folder |-> Inbox,
                            deleted |-> FALSE, born |-> 0] : m \in Messages}
    BY DEF Init
  <2> DEFINE g == [m \in Messages |-> [uid |-> n[m], msg |-> m, folder |-> Inbox,
                                       deleted |-> FALSE, born |-> 0]]
  <2>2. copies = {g[m] : m \in Messages} /\ g = [m \in Messages |-> g[m]]
    BY <2>1
  <2> HIDE DEF g
  <2>3. QED
    BY <2>2, ImageFinite, MailAssumption
<1>2. Finite => PagesCover
  <2> SUFFICES ASSUME IsFiniteSet(copies), NEW f \in Folders PROVE Cardinality(In(f)) \in Nat
    BY PagesCoverAll, MailAssumption DEF PagesCover, Finite
  <2>1. IsFiniteSet(In(f))
    BY FS_Subset DEF In
  <2>2. QED
    BY <2>1, FS_CardinalityType
<1>3. QED
  BY <1>1, <1>2, StillFinite, MailTypes, PTL DEF Spec

-----------------------------------------------------------------------------
(* Where a message is whose moves nobody disturbed.  Either it is whole:   *)
(* one unmarked copy, at home, which at most one request names that has    *)
(* yet to copy it.  Or one request is half way with it: the old copy,      *)
(* which nobody else names, and the new one, which nobody names at all.    *)
Names(r, c) == step[r] # "idle" /\ c \in Named(r)

Early == {"copy", "create", "recopy"}

Whole(m, c) ==
  /\ \A x \in copies : x.msg = m <=> x = c
  /\ c \in copies /\ c.folder = home[m] /\ c.deleted = FALSE
  /\ \A r \in Requests : Names(r, c) =>
       /\ step[r] \in Early /\ job[r].kind = "move"
       /\ \A s \in Requests : Names(s, c) => s = r

Half(m, r, c, d) ==
  /\ \A x \in copies : x.msg = m <=> x = c \/ x = d
  /\ c \in copies /\ d \in copies /\ c # d
  /\ \A s \in Requests : /\ Names(s, c) <=> s = r
                         /\ ~Names(s, d)
  /\ job[r].kind = "move" /\ d.folder = job[r].target /\ d.deleted = FALSE
  /\ \/ step[r] = "store" /\ c.deleted = FALSE
     \/ step[r] = "expunge" /\ c.deleted = TRUE /\ home[m] = d.folder

Placed(m) ==
  \/ \E c \in copies : Whole(m, c)
  \/ \E r \in Requests, c, d \in copies : Half(m, r, c, d)

InPlace == \A m \in Messages \ (asked \cup disturbed) : Placed(m)

Touches(r, m) == \E x \in copies : x.msg = m /\ Names(r, x)

(* A step that leaves the copies and the home of m alone, and of the       *)
(* requests changes only some that have nothing to do with m.              *)
LEMMA PlacedFrame ==
  ASSUME NEW m, Placed(m), home'[m] = home[m],
         \A x \in copies' : x.msg = m => x \in copies,
         \A x \in copies : x.msg = m => x \in copies',
         \A r \in Requests : \/ step'[r] = step[r] /\ job'[r] = job[r]
                             \/ ~Touches(r, m) /\ ~Touches(r, m)'
  PROVE  Placed(m)'
<1>1. \A r \in Requests, x \in copies : x.msg = m =>
        /\ Names(r, x)' <=> Names(r, x)
        /\ Names(r, x) => step'[r] = step[r] /\ job'[r] = job[r]
  BY DEF Names, Named, In, Touches
<1>2. ASSUME NEW c \in copies, Whole(m, c) PROVE Whole(m, c)'
  BY <1>1, <1>2 DEF Whole
<1>3. ASSUME NEW r \in Requests, NEW c \in copies, NEW d \in copies, Half(m, r, c, d)
      PROVE  Half(m, r, c, d)' /\ c \in copies' /\ d \in copies'
  <2>1. step'[r] = step[r] /\ job'[r] = job[r]
    BY <1>1, <1>3 DEF Half
  <2>2. QED
    BY <1>1, <1>3, <2>1 DEF Half
<1>4. ASSUME NEW c \in copies, Whole(m, c) PROVE c \in copies'
  BY <1>4 DEF Whole
<1>5. QED
  BY <1>2, <1>3, <1>4 DEF Placed

(* A request that names a copy of m has yet to copy it, or is half way.    *)
LEMMA TouchCases ==
  ASSUME NEW m, Placed(m), NEW r \in Requests, Touches(r, m)
  PROVE  \/ /\ step[r] \in Early
            /\ \E c \in copies : Whole(m, c) /\ Names(r, c)
         \/ /\ step[r] \in {"store", "expunge"}
            /\ \E c, d \in copies : Half(m, r, c, d)
<1>1. PICK x \in copies : x.msg = m /\ Names(r, x)
  BY DEF Touches
<1>2. ASSUME NEW c \in copies, Whole(m, c)
      PROVE  step[r] \in Early /\ Names(r, c)
  BY <1>1, <1>2 DEF Whole
<1>3. ASSUME NEW s \in Requests, NEW c \in copies, NEW d \in copies, Half(m, s, c, d)
      PROVE  step[r] \in {"store", "expunge"} /\ Half(m, r, c, d)
  BY <1>1, <1>3 DEF Half
<1>4. QED
  BY <1>2, <1>3 DEF Placed

LEMMA ContinuePlaced ==
  ASSUME TypeOK, NEW m, Placed(m), NEW r \in Requests, NEW next \in Early, step[r] \in Early,
         Continue(r, next), UNCHANGED <<copies, home>>
  PROVE  Placed(m)'
<1>1. /\ \A s \in Requests \ {r} : step'[s] = step[s]
      /\ job' = job /\ step'[r] = next
  BY DEF Continue, TypeOK
<1>2. CASE Touches(r, m)
  <2>1. PICK c \in copies : Whole(m, c) /\ Names(r, c)
    BY <1>2, TouchCases DEF Early
  <2>2. \A s \in Requests : Names(s, c)' <=> Names(s, c)
    BY <1>1 DEF Names, Named, In, Early
  <2>3. Whole(m, c)'
    BY <1>1, <2>1, <2>2 DEF Whole
  <2>4. QED
    BY <2>3 DEF Placed
<1>3. CASE ~Touches(r, m)
  <2>1. ~Touches(r, m)'
    BY <1>1, <1>3 DEF Touches, Names, Named, In, Early
  <2>2. QED
    BY <1>1, <1>3, <2>1, PlacedFrame
<1>4. QED
  BY <1>2, <1>3

LEMMA FinishPlaced ==
  ASSUME TypeOK, NEW m, Placed(m), NEW r \in Requests, Finish(r), UNCHANGED <<copies, home>>,
         Touches(r, m) => step[r] \in Early
  PROVE  Placed(m)'
<1>1. /\ \A s \in Requests \ {r} : step'[s] = step[s] /\ job'[s] = job[s]
      /\ step'[r] = "idle" /\ \A x : ~Names(r, x)'
  BY DEF Finish, TypeOK, Names
<1>2. CASE Touches(r, m)
  <2>1. PICK c \in copies : Whole(m, c) /\ Names(r, c)
    BY <1>2, TouchCases DEF Early
  <2>2. \A s \in Requests : ~Names(s, c)'
    BY <1>1, <2>1 DEF Names, Named, In, Whole
  <2>3. Whole(m, c)'
    BY <1>1, <2>1, <2>2 DEF Whole
  <2>4. QED
    BY <2>3 DEF Placed
<1>3. CASE ~Touches(r, m)
  BY <1>1, <1>3, PlacedFrame DEF Touches
<1>4. QED
  BY <1>2, <1>3

LEMMA BeginPlaced ==
  ASSUME TypeOK, NEW m, Placed(m), NEW r \in Requests, NEW kind, NEW f \in Folders,
         NEW uids, NEW t, NEW first, Begin(r, kind, f, uids, t, first), m \notin disturbed',
         \/ first = "copy" /\ kind = "move"
         \/ \A c \in In(f) : c.msg = m => c.uid \notin uids
  PROVE  Placed(m)'
<1> DEFINE j == [kind |-> kind, folder |-> f, uids |-> uids, target |-> t]
<1>1. j.uids = uids /\ j.folder = f /\ j.kind = kind
  OBVIOUS
<1> HIDE DEF j
<1>2. /\ job' = [job EXCEPT ![r] = j] /\ step' = [step EXCEPT ![r] = first]
      /\ copies' = copies /\ home' = home /\ step[r] = "idle"
  BY DEF Begin, j, store
<1>3. /\ \A s \in Requests \ {r} : step'[s] = step[s] /\ job'[s] = job[s]
      /\ step'[r] = first /\ job'[r] = j
  BY <1>2 DEF TypeOK
<1>4. CASE \E c \in In(f) : c.msg = m /\ c.uid \in uids
  <2>1. \A s \in Requests, x \in copies : x.msg = m => ~Names(s, x)
    <3>1. ~InWork(m)
      BY <1>4 DEF Begin
    <3>2. QED
      BY <3>1 DEF InWork, Msgs, Names
  <2>2. PICK c \in copies : Whole(m, c)
    BY <2>1 DEF Placed, Half
  <2>3. c \in Named(r)' /\ first = "copy" /\ kind = "move"
    BY <1>1, <1>2, <1>3, <1>4, <2>2 DEF Whole, Named, In
  <2>4. \A s \in Requests : Names(s, c)' => s = r
    BY <1>2, <1>3, <2>1, <2>2 DEF Names, Named, In, Whole
  <2>5. Whole(m, c)'
    BY <1>1, <1>2, <1>3, <2>2, <2>3, <2>4 DEF Whole, Early
  <2>6. QED
    BY <1>2, <2>5 DEF Placed
<1>5. CASE ~\E c \in In(f) : c.msg = m /\ c.uid \in uids
  <2>1. ~Touches(r, m)
    BY <1>2 DEF Touches, Names
  <2>2. ~Touches(r, m)'
    BY <1>1, <1>2, <1>3, <1>5 DEF Touches, Names, Named, In
  <2>3. QED
    BY <1>2, <1>3, <2>1, <2>2, PlacedFrame
<1>6. QED
  BY <1>4, <1>5

(* A COPY takes the one copy of a message to two.                          *)
LEMMA CopyPlaced ==
  ASSUME TypeOK, Numbers, NEW m, Placed(m), NEW r \in Requests, step[r] \in Early, DoCopy(r),
         home' = home
  PROVE  Placed(m)'
<1> DEFINE t == job[r].target
           New == {Duplicate(c, t) : c \in Named(r)}
<1>1. /\ t \in Folders /\ nextUid \in Nat /\ copying \in Nat
      /\ Named(r) \in SUBSET copies
  BY JobFields, NamedTyped DEF TypeOK
<1>2. \A c \in copies : c \in Copy /\ c.uid \in Nat /\ c.uid < nextUid
  BY CopyFields DEF TypeOK, Numbers
<1>3. \A c \in Named(r) :
        /\ Duplicate(c, t).uid = nextUid + c.uid
        /\ Duplicate(c, t).msg = c.msg
        /\ Duplicate(c, t).folder = t
        /\ Duplicate(c, t).deleted = c.deleted
  BY <1>1, <1>2, Duplicated
<1>4. /\ copies' = copies \cup New /\ job' = job
      /\ \A s \in Requests \ {r} : step'[s] = step[s]
      /\ step'[r] = "store"
  BY DEF DoCopy, Continue, TypeOK
<1>5. ASSUME NEW c \in Named(r), NEW d, d = Duplicate(c, t), NEW s \in Requests
      PROVE  d \notin copies /\ ~Names(s, d)'
  <2> SUFFICES d \notin copies /\ d.uid \notin job[s].uids
    BY <1>4 DEF Names, Named
  <2>1. \A u \in job[s].uids : u \in Nat /\ u < nextUid
    BY JobFields DEF TypeOK, Numbers
  <2>2. QED
    BY <1>1, <1>2, <1>3, <1>5, <2>1
<1>6. \A s \in Requests, x \in copies : Names(s, x)' <=> Names(s, x)
  BY <1>4 DEF Names, Named, In, Early
<1>7. CASE Touches(r, m)
  <2>1. PICK c \in copies : Whole(m, c) /\ Names(r, c)
    BY <1>7, TouchCases DEF Early
  <2>2. c \in Named(r)
    BY <2>1 DEF Names
  <2>3. PICK d \in New : d = Duplicate(c, t)
    BY <2>2
  <2>4. /\ d.msg = m /\ d.folder = t /\ d.deleted = FALSE /\ d \notin copies
        /\ c.msg = m /\ c.deleted = FALSE /\ job[r].kind = "move"
    BY <1>3, <1>5, <2>1, <2>2, <2>3 DEF Whole
  <2>5. \A x \in copies' : x.msg = m <=> x = c \/ x = d
    BY <1>1, <1>3, <1>4, <2>1, <2>3, <2>4 DEF Whole
  <2>6. \A s \in Requests : /\ Names(s, c)' <=> s = r
                            /\ ~Names(s, d)'
    BY <1>5, <1>6, <2>1, <2>2, <2>3 DEF Whole
  <2>7. Half(m, r, c, d)'
    BY <1>4, <2>1, <2>3, <2>4, <2>5, <2>6 DEF Half
  <2>8. QED
    BY <1>4, <2>1, <2>3, <2>7 DEF Placed
<1>8. CASE ~Touches(r, m)
  <2>1. \A x \in copies' : x.msg = m => x \in copies
    BY <1>1, <1>3, <1>4, <1>8 DEF Touches, Names, Early
  <2>2. ~Touches(r, m)'
    BY <1>6, <1>8, <2>1 DEF Touches
  <2>3. QED
    BY <1>4, <1>8, <2>1, <2>2, PlacedFrame
<1>9. QED
  BY <1>7, <1>8

(* Marking copies of other messages does not touch m.                      *)
LEMMA MarkOthers ==
  ASSUME copies \in SUBSET Copy, NEW C \in SUBSET copies, NEW flag \in BOOLEAN, Mark(C, flag),
         NEW m, \A x \in C : x.msg # m
  PROVE  /\ \A x \in copies' : x.msg = m => x \in copies
         /\ \A x \in copies : x.msg = m => x \in copies'
<1>1. ASSUME NEW x \in copies', x.msg = m PROVE x \in copies
  <2>1. PICK c \in copies : /\ x.msg = c.msg
                            /\ IF c \in C THEN x = [c EXCEPT !.deleted = flag] ELSE x = c
    BY MarkCopies
  <2>2. QED
    BY <1>1, <2>1
<1>2. QED
  BY <1>1 DEF Mark

LEMMA MarkPair ==
  ASSUME copies \in SUBSET Copy, NEW C \in SUBSET copies, NEW flag \in BOOLEAN, Mark(C, flag),
         NEW c \in C, NEW d \in copies, NEW n, n = [c EXCEPT !.deleted = flag],
         d \notin C, NEW m, \A x \in copies : x.msg = m <=> x = c \/ x = d,
         NEW x \in copies', x.msg = m
  PROVE  x = n \/ x = d
<1> DEFINE Marked(a) == [a EXCEPT !.deleted = flag]
<1>1. \A y \in copies' : \E a \in copies :
        a.msg = y.msg /\ IF a \in C THEN y = Marked(a) ELSE y = a
  BY MarkCopies
<1>2. n = Marked(c)
  OBVIOUS
<1> HIDE DEF Marked
<1>3. PICK a \in copies : a.msg = x.msg /\ IF a \in C THEN x = Marked(a) ELSE x = a
  BY <1>1
<1>4. QED
  BY <1>2, <1>3

(* The STORE marks the old copy, and makes the new one the only one.       *)
LEMMA StorePlaced ==
  ASSUME TypeOK, Numbers, NEW m \in Messages, Placed(m), NEW r \in Requests, StoreDeleted(r),
         m \notin disturbed'
  PROVE  Placed(m)'
<1>1. /\ step[r] = "store" /\ job' = job /\ step'[r] = "expunge"
      /\ \A s \in Requests \ {r} : step'[s] = step[s]
      /\ copies \in SUBSET Copy /\ Named(r) \in SUBSET copies
  BY NamedTyped DEF StoreDeleted, Continue, TypeOK
<1>2. CASE ~Touches(r, m)
  <2>1. \A x \in Named(r) : x.msg # m
    BY <1>1, <1>2 DEF Touches, Names
  <2>2. home'[m] = home[m]
    BY <2>1 DEF StoreDeleted, Msgs, TypeOK
  <2>3. /\ \A x \in copies' : x.msg = m => x \in copies
        /\ \A x \in copies : x.msg = m => x \in copies'
    BY <1>1, <2>1, MarkOthers DEF StoreDeleted
  <2>4. ~Touches(r, m)'
    BY <1>1, <1>2, <2>3 DEF Touches, Names, Named, In
  <2>5. QED
    BY <1>1, <1>2, <2>2, <2>3, <2>4, PlacedFrame
<1>3. CASE Touches(r, m)
  <2>1. PICK c, d \in copies : Half(m, r, c, d)
    BY <1>1, <1>3, TouchCases DEF Early
  <2>2. c \in Named(r) /\ m \in Msgs(Named(r)) /\ d \notin Named(r) /\ c.msg = m /\ d.msg = m
    BY <1>1, <2>1 DEF Half, Names, Msgs
  <2>3. /\ Mark(Named(r), TRUE)
        /\ home'[m] = job[r].target
    BY <1>1, <2>1, <2>2 DEF StoreDeleted, Half
  <2>4. PICK n \in Copy : n = [c EXCEPT !.deleted = TRUE]
    BY <1>1, FlagChanged
  <2>5. /\ n.deleted = TRUE /\ n.uid = c.uid /\ n.msg = c.msg /\ n.folder = c.folder
    BY <1>1, <2>4, FlagChanged
  <2>6. n \in copies' /\ d \in copies' /\ n # d /\ c # n
    <3>1. n \in copies' /\ d \in copies'
      BY <2>2, <2>3, <2>4 DEF Mark
    <3>2. d.deleted = FALSE /\ c.deleted = FALSE
      BY <1>1, <2>1 DEF Half
    <3>3. QED
      BY <2>5, <3>1, <3>2
  <2>7. \A x \in copies' : x.msg = m <=> x = n \/ x = d
    <3> SUFFICES ASSUME NEW x \in copies', x.msg = m PROVE x = n \/ x = d
      BY <2>2, <2>5
    <3>1. PICK flag \in BOOLEAN : flag = TRUE
      OBVIOUS
    <3>2. PICK C \in SUBSET copies : C = Named(r)
      BY <1>1
    <3>3. Mark(C, flag) /\ c \in C /\ d \notin C /\ n = [c EXCEPT !.deleted = flag]
      BY <2>2, <2>3, <2>4, <3>1, <3>2
    <3>4. \A y \in copies : y.msg = m <=> y = c \/ y = d
      BY <2>1 DEF Half
    <3>5. QED
      BY <1>1, <3>3, <3>4, MarkPair
  <2>8. \A s \in Requests : /\ Names(s, n)' <=> Names(s, c)
                            /\ Names(s, d)' <=> Names(s, d)
    BY <1>1, <2>1, <2>5, <2>6 DEF Names, Named, In
  <2>9. Half(m, r, n, d)'
    BY <1>1, <2>1, <2>3, <2>5, <2>6, <2>7, <2>8 DEF Half
  <2>10. QED
    BY <2>6, <2>9 DEF Placed
<1>4. QED
  BY <1>2, <1>3

(* An EXPUNGE removes the old copy, its own request's or another's.        *)
LEMMA ExpungePlaced ==
  ASSUME TypeOK, NEW m, Placed(m), NEW r \in Requests, Expunge(r),
         m \notin disturbed'
  PROVE  Placed(m)'
<1>1. /\ step[r] = "expunge" /\ home' = home /\ Finish(r)
      /\ \A s \in Requests \ {r} : step'[s] = step[s] /\ job'[s] = job[s]
      /\ \A x : ~Names(r, x)'
      /\ \A x \in copies' : x \in copies
      /\ copies \in SUBSET Copy /\ Named(r) \in SUBSET copies
  BY NamedTyped DEF Expunge, Finish, TypeOK, Names
<1>2. CASE ~Touches(r, m) /\ \A x \in copies : x.msg = m => x \in copies'
  BY <1>1, <1>2, PlacedFrame DEF Touches
<1>3. CASE ~\A x \in copies : x.msg = m => x \in copies'
  <2>1. PICK x \in copies : x.msg = m /\ x \notin copies'
    BY <1>3
  <2>2. copies' = {c \in copies : c.folder = job[r].folder => ~c.deleted}
    BY <2>1 DEF Expunge
  <2>3. x.deleted
    BY <2>1, <2>2
  <2>4. PICK s \in Requests, c \in copies, d \in copies : Half(m, s, c, d)
    BY <2>1, <2>3 DEF Placed, Whole
  <2>5. x = c /\ step[s] = "expunge" /\ home[m] = d.folder /\ d \in copies'
    BY <2>1, <2>2, <2>3, <2>4 DEF Half
  <2>6. \A q \in Requests : ~Names(q, d)'
    BY <1>1, <2>4, <2>5 DEF Names, Named, In, Half
  <2>7. Whole(m, d)'
    BY <1>1, <2>1, <2>4, <2>5, <2>6 DEF Half, Whole
  <2>8. QED
    BY <2>5, <2>7 DEF Placed
<1>4. CASE Touches(r, m) /\ \A x \in copies : x.msg = m => x \in copies'
  <2>1. PICK c, d \in copies : Half(m, r, c, d)
    BY <1>1, <1>4, TouchCases DEF Early
  <2>2. c \in Named(r) /\ c.msg = m /\ c.deleted = TRUE /\ c.folder = job[r].folder
    BY <1>1, <2>1 DEF Half, Names, Named, In
  <2>3. c \notin copies'
    BY <1>1, <2>2 DEF Expunge, Msgs
  <2>4. QED
    BY <1>4, <2>2, <2>3
<1>5. QED
  BY <1>2, <1>3, <1>4

LEMMA InitPlaced == Init => InPlace
<1> SUFFICES ASSUME Init, NEW m \in Messages PROVE \E c \in copies : Whole(m, c)
  BY DEF InPlace, Placed
<1> DEFINE New(i, a) == [uid |-> i, msg |-> a, folder |-> Inbox,
                         deleted |-> FALSE, born |-> 0]
<1>1. PICK n : copies = {New(n[a], a) : a \in Messages}
  BY DEF Init
<1>2. PICK c \in copies : c = New(n[m], m)
  BY <1>1
<1>3. c.folder = Inbox /\ c.deleted = FALSE /\ \A x \in copies : x.msg = m <=> x = c
  BY <1>1, <1>2
<1>4. home[m] = Inbox /\ \A r \in Requests : step[r] = "idle"
  BY DEF Init
<1>5. Whole(m, c)
  BY <1>3, <1>4 DEF Whole, Names
<1>6. QED
  BY <1>5

LEMMA NextPlaced == TypeOK /\ Numbers /\ InPlace /\ [Next]_vars => InPlace'
<1> SUFFICES ASSUME TypeOK, Numbers, InPlace, [Next]_vars,
                    NEW m \in Messages, m \notin asked', m \notin disturbed'
             PROVE  Placed(m)'
  BY DEF InPlace
<1>0. m \notin asked /\ m \notin disturbed
  <2>1. ASSUME NEW r \in Requests, Requested(r) PROVE m \notin asked /\ m \notin disturbed
    BY <2>1 DEF Requested, Asks, MoveOne, ClassicMove, Delete, Begin
  <2>2. ASSUME NEW r \in Requests, Command(r) PROVE m \notin asked /\ m \notin disturbed
    BY <2>2 DEF Command, CopyOrCreate, CreateTarget, CopyAgain, StoreDeleted, Expunge, Break
  <2>3. ASSUME NEW f, NEW u, NEW add, SetFlag(f, u, add) \/ DeleteFolder(f) \/ CreateFolder(f)
        PROVE  m \notin asked /\ m \notin disturbed
    BY <2>3 DEF SetFlag, DeleteFolder, CreateFolder
  <2>4. CASE UNCHANGED vars
    BY <2>4 DEF vars, history
  <2>5. QED
    BY <2>1, <2>2, <2>3, <2>4 DEF Next
<1>p. Placed(m)
  BY <1>0 DEF InPlace
<1>q. copies \in SUBSET Copy
  BY DEF TypeOK
<1>1. ASSUME NEW r \in Requests, Requested(r)
      PROVE  Placed(m)'
  <2>1. PICK f \in Folders : \E uids \in SUBSET {c.uid : c \in In(f)} :
          Asks(r, f, uids)
    BY <1>1 DEF Requested
  <2>2. PICK uids \in SUBSET {c.uid : c \in In(f)} : Asks(r, f, uids)
    BY <2>1
  <2>3. ASSUME NEW u, NEW t, MoveOne(r, f, u, t) PROVE Placed(m)'
    BY <1>p, <2>3, BeginPlaced DEF MoveOne
  <2>4. ASSUME NEW t, ClassicMove(r, f, uids, t) PROVE Placed(m)'
    BY <1>p, <2>4, BeginPlaced DEF ClassicMove
  <2>5. CASE Delete(r, f, uids) /\ f # Trash
    BY <1>p, <2>5, BeginPlaced DEF Delete
  <2>6. CASE Delete(r, f, uids) /\ f = Trash
    <3>1. \A c \in In(f) : c.msg = m => c.uid \notin uids
      BY <2>6 DEF Delete
    <3>2. QED
      BY <1>p, <2>6, <3>1, BeginPlaced DEF Delete
  <2>7. QED
    BY <2>2, <2>3, <2>4, <2>5, <2>6 DEF Asks
<1>2. ASSUME NEW r \in Requests, CopyOrCreate(r) PROVE Placed(m)'
  BY <1>p, <1>2, CopyPlaced, ContinuePlaced DEF CopyOrCreate, Early
<1>3. ASSUME NEW r \in Requests, CreateTarget(r) PROVE Placed(m)'
  BY <1>p, <1>3, ContinuePlaced DEF CreateTarget, Early
<1>4. ASSUME NEW r \in Requests, CopyAgain(r) PROVE Placed(m)'
  BY <1>p, <1>4, CopyPlaced, FinishPlaced DEF CopyAgain, Early
<1>5. ASSUME NEW r \in Requests, StoreDeleted(r) PROVE Placed(m)'
  BY <1>p, <1>5, StorePlaced
<1>6. ASSUME NEW r \in Requests, Expunge(r) PROVE Placed(m)'
  BY <1>p, <1>6, ExpungePlaced
<1>7. ASSUME NEW r \in Requests, Break(r) PROVE Placed(m)'
  <2>1. Touches(r, m) => step[r] \in Early
    BY <1>p, <1>7, TouchCases DEF Touches, Names, Break, Msgs
  <2>2. QED
    BY <1>p, <1>7, <2>1, FinishPlaced DEF Break, store
<1>8. ASSUME NEW f \in Folders, NEW u, NEW add \in BOOLEAN, SetFlag(f, u, add)
      PROVE  Placed(m)'
  <2> DEFINE C == {c \in In(f) : c.uid = u}
  <2>1. C \in SUBSET copies /\ Mark(C, add) /\ UNCHANGED <<work, home>>
    BY <1>8 DEF SetFlag, In
  <2>2. \A c \in C : c.msg # m
    BY <1>8 DEF SetFlag, Msgs
  <2> HIDE DEF C
  <2>3. QED
    BY <1>p, <1>q, <2>1, <2>2, MarkOthers, PlacedFrame DEF work
<1>9. ASSUME NEW f \in Folders, DeleteFolder(f) PROVE Placed(m)'
  BY <1>p, <1>9, PlacedFrame DEF DeleteFolder, Msgs, work
<1>10. ASSUME NEW f \in Folders, CreateFolder(f) PROVE Placed(m)'
  BY <1>p, <1>10, PlacedFrame DEF CreateFolder, work
<1>11. CASE UNCHANGED vars
  BY <1>p, <1>11, PlacedFrame DEF vars, store, work, history
<1>12. QED
  BY <1>1, <1>2, <1>3, <1>4, <1>5, <1>6, <1>7, <1>8, <1>9, <1>10, <1>11
  DEF Next, Command

-----------------------------------------------------------------------------
LEMMA PlacedInvariant == Spec => [](TypeOK /\ Numbers /\ InPlace)
<1>1. TypeOK /\ Numbers /\ InPlace /\ [Next]_vars => (TypeOK /\ Numbers /\ InPlace)'
  BY NextTypeOK, NextNumbers, NextPlaced
<1>2. QED
  BY <1>1, InitTypeOK, InitNumbers, InitPlaced, PTL DEF Spec

(* A message whose moves nobody cut short or overlapped is in one place,   *)
(* the target of the last of them.                                         *)
THEOREM MovesKeepTheirPromise == Spec => []MovesKeepOneCopy
<1>1. InPlace => MovesKeepOneCopy
  <2> SUFFICES ASSUME InPlace, NEW m \in Messages \ (asked \cup disturbed), ~InWork(m)
               PROVE  \E c \in copies : /\ {d \in copies : d.msg = m} = {c}
                                        /\ c.folder = home[m] /\ ~c.deleted
    BY DEF MovesKeepOneCopy
  <2>1. \A r \in Requests, x \in copies : x.msg = m => ~Names(r, x)
    BY DEF InWork, Msgs, Names
  <2>2. PICK c \in copies : Whole(m, c)
    BY <2>1 DEF InPlace, Placed, Half
  <2>3. {d \in copies : d.msg = m} = {c} /\ c.folder = home[m] /\ c.deleted = FALSE
    BY <2>2 DEF Whole
  <2>4. QED
    BY <2>3
<1>2. QED
  BY <1>1, PlacedInvariant, PTL

(* Copies go by EXPUNGE, and with their folder.                            *)
LEMMA OnlyExpungeRemoves ==
  ASSUME TypeOK, [Next]_vars, NEW c \in copies, \A d \in copies' : d.uid # c.uid
  PROVE  \/ \E r \in Requests : /\ Expunge(r) /\ c.folder = job[r].folder /\ c.deleted
                                /\ asked' = asked
         \/ c.msg \in asked'
<1>0. copies \in SUBSET Copy /\ c \notin copies'
  BY DEF TypeOK
<1>1. ASSUME NEW C \in SUBSET copies, NEW flag \in BOOLEAN, Mark(C, flag) PROVE FALSE
  <2>1. CASE c \in C
    <3>1. PICK n \in Copy : n = [c EXCEPT !.deleted = flag] /\ n.uid = c.uid
      BY <1>0, FlagChanged
    <3>2. n \in copies'
      BY <1>1, <2>1, <3>1 DEF Mark
    <3>3. QED
      BY <3>1, <3>2
  <2>2. CASE c \notin C
    BY <1>0, <1>1, <2>2 DEF Mark
  <2>3. QED
    BY <2>1, <2>2
<1>2. ASSUME NEW r \in Requests, Requested(r) PROVE FALSE
  BY <1>0, <1>2 DEF Requested, Asks, MoveOne, ClassicMove, Delete, Begin, store
<1>3. ASSUME NEW r \in Requests, CopyOrCreate(r) \/ CreateTarget(r) \/ CopyAgain(r) \/ Break(r)
      PROVE  FALSE
  BY <1>0, <1>3 DEF CopyOrCreate, CreateTarget, CopyAgain, Break, DoCopy, store
<1>4. ASSUME NEW r \in Requests, StoreDeleted(r) PROVE FALSE
  BY <1>0, <1>1, <1>4, NamedTyped DEF StoreDeleted
<1>5. ASSUME NEW r \in Requests, Expunge(r)
      PROVE  Expunge(r) /\ c.folder = job[r].folder /\ c.deleted /\ asked' = asked
  BY <1>0, <1>5 DEF Expunge
<1>6. ASSUME NEW f \in Folders, NEW u, NEW add \in BOOLEAN, SetFlag(f, u, add) PROVE FALSE
  BY <1>1, <1>6 DEF SetFlag, In
<1>7. ASSUME NEW f \in Folders, DeleteFolder(f) PROVE c.msg \in asked'
  BY <1>0, <1>7 DEF DeleteFolder, Msgs
<1>8. ASSUME NEW f \in Folders, CreateFolder(f) PROVE FALSE
  BY <1>0, <1>8 DEF CreateFolder
<1>9. CASE UNCHANGED vars
  BY <1>0, <1>9 DEF vars, store
<1>10. QED
  BY <1>2, <1>3, <1>4, <1>5, <1>6, <1>7, <1>8, <1>9 DEF Next, Command

(* An EXPUNGE takes whatever is marked in its folder, and takes no copy of *)
(* a message that it has nothing to do with: what is marked and was not    *)
(* disturbed is named by a request that is at its own EXPUNGE.             *)
THEOREM BystandersStay == Spec => NoBystanders
<1> DEFINE Spared ==
      \A c \in copies :
        \/ \E d \in copies' : d.uid = c.uid
        \/ \E r \in Requests : step[r] = "expunge" /\ c \in Named(r)
        \/ c.msg \in asked' \cup disturbed
<1>1. TypeOK /\ InPlace /\ [Next]_vars => Spared
  <2> SUFFICES ASSUME TypeOK, InPlace, [Next]_vars, NEW c \in copies,
                      \A d \in copies' : d.uid # c.uid, c.msg \notin asked' \cup disturbed
               PROVE  \E r \in Requests : step[r] = "expunge" /\ c \in Named(r)
    OBVIOUS
  <2>1. PICK r \in Requests : Expunge(r) /\ c.deleted /\ asked' = asked
    BY OnlyExpungeRemoves
  <2>2. Placed(c.msg)
    <3>1. c.msg \in Messages
      BY CopyFields DEF TypeOK
    <3>2. QED
      BY <2>1, <3>1 DEF InPlace
  <2>3. PICK s \in Requests, x \in copies, y \in copies : Half(c.msg, s, x, y)
    BY <2>1, <2>2 DEF Placed, Whole
  <2>4. c = x /\ step[s] = "expunge" /\ c \in Named(s)
    BY <2>1, <2>3 DEF Half, Names
  <2>5. QED
    BY <2>4
<1>2. TypeOK /\ InPlace /\ [Next]_vars => [Spared]_vars
  BY <1>1
<1>3. QED
  BY <1>2, PlacedInvariant, PTL DEF Spec, NoBystanders
=============================================================================
