---------------------------- MODULE MailFolders ----------------------------
(***************************************************************************)
(* The user's mail folders on the IMAP server, as the requests of the JSON *)
(* interface (handlers/messages.rs, handlers/folders.rs) and the classic   *)
(* one (handlers/classic/move_to.rs, delete.rs, flag.rs) change them       *)
(* through services/imap_service.rs.  A move is COPY, STORE \Deleted and   *)
(* EXPUNGE, three commands that other requests and other clients may come  *)
(* between and that a broken connection may cut short.                     *)
(*                                                                         *)
(* Each request opens a session of its own.  One IMAP command is one       *)
(* action.  Of the flags only \Deleted matters here.                       *)
(***************************************************************************)
EXTENDS Naturals, FiniteSets

CONSTANTS
  Folders,      \* the names of folders
  Inbox,        \* the folder where the messages are at first
  Trash,        \* trash_folder()
  Protected,    \* the folders that delete_folder refuses to delete
  Messages,     \* the messages, as the user thinks of them
  Requests,     \* the requests that the server works on at the same time
  MaxRequests,  \* bound: requests begun in a behaviour
  MaxCopies,    \* bound: COPY commands in a behaviour
  PageSize      \* the rows of a page that the interface asks for

ASSUME MailAssumption ==
  /\ Inbox \in Folders
  /\ Trash \in Folders
  /\ Inbox \in Protected
  /\ Protected \subseteq Folders
  /\ IsFiniteSet(Messages)
  /\ MaxRequests \in Nat
  /\ MaxCopies \in Nat
  /\ PageSize \in Nat \ {0}

VARIABLES
  copies,     \* the messages on the server
  exists,     \* the folders that exist
  nextUid,    \* greater than every UID given out
  step,       \* step[r]: the IMAP command that request r issues next
  job,        \* job[r]: its kind, folder, UIDs and target
  begun,      \* history: requests begun
  copying,    \* history: COPY commands that succeeded
  asked,      \* history: messages somebody asked to be rid of
  disturbed,  \* history: messages whose move was cut short or overlapped
  home        \* history: home[m]: where the last move of m put it

store == <<copies, exists, nextUid>>
work == <<step, job>>
history == <<begun, copying, asked, disturbed, home>>
vars == <<store, work, history>>

Steps == {"idle", "copy", "create", "recopy", "store", "expunge"}

(* A message in a folder, and whether it has the flag \Deleted.  A UID     *)
(* stands for a UID together with its folder's UIDVALIDITY.  born is       *)
(* history: the COPY that made it from a message without the flag.         *)
Copy == [uid : Nat, msg : Messages, folder : Folders, deleted : BOOLEAN,
         born : Nat]
Job == [kind : {"move", "erase"}, folder : Folders, uids : SUBSET Nat,
        target : Folders]
NoJob == [kind |-> "move", folder |-> Inbox, uids |-> {}, target |-> Inbox]

TypeOK ==
  /\ copies \in SUBSET Copy
  /\ exists \in SUBSET Folders
  /\ nextUid \in Nat
  /\ step \in [Requests -> Steps]
  /\ job \in [Requests -> Job]
  /\ begun \in Nat
  /\ copying \in Nat
  /\ asked \in SUBSET Messages
  /\ disturbed \in SUBSET Messages
  /\ home \in [Messages -> Folders]

Msgs(C) == {c.msg : c \in C}
In(f) == {c \in copies : c.folder = f}

\* The messages that the UIDs of request r still name.
Named(r) == {c \in In(job[r].folder) : c.uid \in job[r].uids}
InWork(m) == \E r \in Requests : step[r] # "idle" /\ m \in Msgs(Named(r))

Init ==
  /\ \E n \in [Messages -> 0 .. Cardinality(Messages) - 1] :
       /\ \A a, b \in Messages : n[a] = n[b] => a = b
       /\ copies = {[uid |-> n[m], msg |-> m, folder |-> Inbox,
                     deleted |-> FALSE, born |-> 0] : m \in Messages}
  /\ exists \in {F \in SUBSET Folders : Protected \subseteq F}
  /\ nextUid = Cardinality(Messages)
  /\ step = [r \in Requests |-> "idle"]
  /\ job = [r \in Requests |-> NoJob]
  /\ begun = 0
  /\ copying = 0
  /\ asked = {}
  /\ disturbed = {}
  /\ home = [m \in Messages |-> Inbox]

(***************************************************************************)
(* A page of list_messages, as the sequence numbers it asks for, and the   *)
(* number of pages that the classic interface links to.  Slip: the pages   *)
(* counted from one.                                                       *)
(***************************************************************************)
PageFromOne(total, page, size) ==
  LET end == IF (page + 1) * size > total THEN 0 ELSE total - (page + 1) * size
      start == IF end > size THEN end - size ELSE 1
  IN IF end = 0 THEN {} ELSE start .. end

Page(total, page, size) ==
  LET end == IF page * size > total THEN 0 ELSE total - page * size
      start == IF end > size THEN end - size ELSE 1
  IN IF end = 0 THEN {} ELSE start .. end

PageCount(total, size) ==
  IF total = 0 THEN 1 ELSE (total + size - 1) \div size

-----------------------------------------------------------------------------
(* A request opens a session and SELECTs the folder, which must exist.     *)
(* The UIDs are those of messages that the client was shown.               *)
Begin(r, kind, f, uids, target, first) ==
  /\ step[r] = "idle"
  /\ begun < MaxRequests
  /\ begun' = begun + 1
  /\ f \in exists
  /\ uids # {} /\ uids \subseteq {c.uid : c \in In(f)}
  /\ step' = [step EXCEPT ![r] = first]
  /\ job' = [job EXCEPT ![r] = [kind |-> kind, folder |-> f, uids |-> uids,
                                target |-> target]]
  /\ disturbed' = disturbed \cup
       {c.msg : c \in {d \in In(f) : d.uid \in uids /\ InWork(d.msg)}}
  /\ UNCHANGED <<store, copying, home>>

(* POST /api/folders/:folder/messages/:uid/move takes any name for a       *)
(* target, the folder of the message itself among them.                    *)
MoveOne(r, f, u, t) == Begin(r, "move", f, {u}, t, "copy") /\ UNCHANGED asked

(* post_message_move and handle_bulk_move list the folders first and then  *)
(* validate the target.                                                    *)
ClassicMove(r, f, uids, t) ==
  /\ t \in exists /\ t # f
  /\ Begin(r, "move", f, uids, t, "copy")
  /\ UNCHANGED asked

(* A deletion moves to the trash, and from the trash it erases; in the     *)
(* classic interface once the user has confirmed.  One request of the JSON *)
(* interface names one UID.                                                *)
Delete(r, f, uids) ==
  IF f = Trash
  THEN /\ Begin(r, "erase", f, uids, Trash, "store")
       /\ asked' = asked \cup {c.msg : c \in {d \in In(f) : d.uid \in uids}}
  ELSE Begin(r, "move", f, uids, Trash, "copy") /\ UNCHANGED asked

-----------------------------------------------------------------------------
Continue(r, next) ==
  /\ step' = [step EXCEPT ![r] = next]
  /\ UNCHANGED <<job, begun>>

Finish(r) ==
  /\ step' = [step EXCEPT ![r] = "idle"]
  /\ job' = [job EXCEPT ![r] = NoJob]
  /\ UNCHANGED begun

(* What a COPY of c makes: the flags come along.  The server numbers the   *)
(* new messages in any way that repeats no UID.                            *)
Duplicate(c, t) ==
  [uid |-> nextUid + c.uid, msg |-> c.msg, folder |-> t,
   deleted |-> c.deleted,
   born |-> IF c.deleted THEN c.born ELSE copying + 1]

(* UID COPY.  It copies all the messages or none; UIDs that are gone do    *)
(* not matter to it.                                                       *)
DoCopy(r) ==
  /\ job[r].target \in exists
  /\ copying < MaxCopies
  /\ copies' = copies \cup {Duplicate(c, job[r].target) : c \in Named(r)}
  /\ nextUid' = 2 * nextUid
  /\ copying' = copying + 1
  /\ Continue(r, "store")

(* The COPY of move_message and move_message_batch; a refusal, for a       *)
(* missing target or any other reason, leads to CREATE.                    *)
CopyOrCreate(r) ==
  /\ step[r] = "copy"
  /\ \/ DoCopy(r)
     \/ Continue(r, "create") /\ UNCHANGED <<copies, nextUid, copying>>
  /\ UNCHANGED <<exists, asked, disturbed, home>>

(* CREATE, whose result is ignored.                                        *)
CreateTarget(r) ==
  /\ step[r] = "create"
  /\ exists' \in {exists, exists \cup {job[r].target}}
  /\ Continue(r, "recopy")
  /\ UNCHANGED <<copies, nextUid, copying, asked, disturbed, home>>

(* Slip: the error of the second COPY is swallowed like that of CREATE.    *)
CopyAgainRegardless(r) ==
  /\ step[r] = "recopy"
  /\ \/ DoCopy(r)
     \/ Continue(r, "store") /\ UNCHANGED <<copies, nextUid, copying>>
  /\ UNCHANGED <<exists, asked, disturbed, home>>

(* The second COPY; its error ends the request.                            *)
CopyAgain(r) ==
  /\ step[r] = "recopy"
  /\ \/ DoCopy(r)
     \/ Finish(r) /\ UNCHANGED <<copies, nextUid, copying>>
  /\ UNCHANGED <<exists, asked, disturbed, home>>

Mark(C, flag) ==
  copies' = (copies \ C) \cup {[c EXCEPT !.deleted = flag] : c \in C}

(* Slip: STORE in place of UID STORE, with a range that takes them all.    *)
StoreAllDeleted(r) ==
  /\ step[r] = "store"
  /\ Mark(In(job[r].folder), TRUE)
  /\ home' = [m \in Messages |->
                IF job[r].kind = "move" /\ m \in Msgs(Named(r))
                THEN job[r].target ELSE home[m]]
  /\ Continue(r, "expunge")
  /\ UNCHANGED <<exists, nextUid, copying, asked, disturbed>>

(* UID STORE +FLAGS (\Deleted).  A refusal that comes with the responses   *)
(* is swallowed, and the EXPUNGE follows all the same.                     *)
StoreDeleted(r) ==
  /\ step[r] = "store"
  /\ \/ /\ Mark(Named(r), TRUE)
        /\ home' = [m \in Messages |->
                      IF job[r].kind = "move" /\ m \in Msgs(Named(r))
                      THEN job[r].target ELSE home[m]]
        /\ UNCHANGED disturbed
     \/ /\ disturbed' = disturbed \cup Msgs(Named(r))
        /\ UNCHANGED <<copies, home>>
  /\ Continue(r, "expunge")
  /\ UNCHANGED <<exists, nextUid, copying, asked>>

(* Slip: the move stops once the messages are marked.                      *)
ExpungeNothing(r) ==
  /\ step[r] = "expunge"
  /\ Finish(r)
  /\ UNCHANGED <<store, copying, asked, disturbed, home>>

(* EXPUNGE removes every marked message of the folder, whoever marked it.  *)
(* Its refusal is ignored.                                                 *)
Expunge(r) ==
  /\ step[r] = "expunge"
  /\ \/ /\ copies' = {c \in copies : c.folder = job[r].folder => ~c.deleted}
        /\ UNCHANGED disturbed
     \/ /\ disturbed' = disturbed \cup Msgs(Named(r))
        /\ UNCHANGED copies
  /\ Finish(r)
  /\ UNCHANGED <<exists, nextUid, copying, asked, home>>

(* The connection breaks, the server answers with an error where one is    *)
(* returned, or this process dies.                                         *)
Break(r) ==
  /\ step[r] # "idle"
  /\ Finish(r)
  /\ disturbed' = IF step[r] \in {"store", "expunge"}
                    THEN disturbed \cup Msgs(Named(r)) ELSE disturbed
  /\ UNCHANGED <<store, copying, asked, home>>

-----------------------------------------------------------------------------
(* flag_message passes any flag on.  Marking a message \Deleted asks for   *)
(* its removal.  set_flag is one STORE, the other flags do not matter.     *)
SetFlag(f, u, add) ==
  LET C == {c \in In(f) : c.uid = u}
  IN /\ begun < MaxRequests
     /\ begun' = begun + 1
     /\ f \in exists
     /\ Mark(C, add)
     /\ asked' = IF add THEN asked \cup Msgs(C) ELSE asked
     /\ disturbed' = disturbed \cup Msgs(C)
     /\ UNCHANGED <<exists, nextUid, work, copying, home>>

(* DELETE /api/folders/{folder}.  The messages go with the folder.         *)
DeleteFolder(f) ==
  /\ begun < MaxRequests
  /\ begun' = begun + 1
  /\ f \in exists \ Protected
  /\ exists' = exists \ {f}
  /\ copies' = copies \ In(f)
  /\ asked' = asked \cup Msgs(In(f))
  /\ UNCHANGED <<nextUid, work, copying, disturbed, home>>

CreateFolder(f) ==
  /\ begun < MaxRequests
  /\ begun' = begun + 1
  /\ f \notin exists \cup Protected
  /\ exists' = exists \cup {f}
  /\ UNCHANGED <<copies, nextUid, work, copying, asked, disturbed, home>>

Asks(r, f, uids) ==
  \/ \E u \in uids, t \in Folders : uids = {u} /\ MoveOne(r, f, u, t)
  \/ \E t \in Folders : ClassicMove(r, f, uids, t)
  \/ Delete(r, f, uids)

Requested(r) ==
  \E f \in Folders : \E uids \in SUBSET {c.uid : c \in In(f)} : Asks(r, f, uids)

Command(r) ==
  \/ CopyOrCreate(r)
  \/ CreateTarget(r)
  \/ CopyAgain(r)
  \/ StoreDeleted(r)
  \/ Expunge(r)
  \/ Break(r)

Next ==
  \/ \E r \in Requests : Requested(r) \/ Command(r)
  \/ \E f \in Folders :
       \/ \E u \in {c.uid : c \in In(f)}, add \in BOOLEAN : SetFlag(f, u, add)
       \/ DeleteFolder(f)
       \/ CreateFolder(f)

Spec == Init /\ [][Next]_vars

-----------------------------------------------------------------------------
(* A message is only ever lost if somebody asked for that: a move that is  *)
(* cut short, repeated or raced by others, with its EXPUNGE that removes   *)
(* whatever is marked, leaves an unmarked copy somewhere.                  *)
NothingLost ==
  \A m \in Messages \ asked : \E c \in copies : c.msg = m /\ ~c.deleted

(* A message whose moves ran to their end one after the other is in one    *)
(* place, the target of the last, whatever happened to other messages.     *)
MovesKeepOneCopy ==
  \A m \in Messages \ (asked \cup disturbed) :
    ~InWork(m) => \E c \in copies :
      /\ {d \in copies : d.msg = m} = {c}
      /\ c.folder = home[m] /\ ~c.deleted

(* A message vanishes from a folder only if a request that is at its       *)
(* EXPUNGE names it, or because it was asked for or left half moved.       *)
NoBystanders ==
  [][\A c \in copies :
       \/ \E d \in copies' : d.uid = c.uid
       \/ \E r \in Requests : step[r] = "expunge" /\ c \in Named(r)
       \/ c.msg \in asked' \cup disturbed]_vars

(* Every message of a folder is on a page that the classic interface links *)
(* to.                                                                     *)
PagesCover ==
  \A f \in Folders :
    LET total == Cardinality(In(f))
    IN \A i \in 1 .. total : \E p \in 0 .. PageCount(total, PageSize) - 1 :
         i \in Page(total, p, PageSize)
=============================================================================
