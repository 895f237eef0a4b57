--------------------------- MODULE OfflineDrafts ---------------------------
(***************************************************************************)
(* One draft of the web client: the Composer (Composer.tsx), its row in    *)
(* the encrypted IndexedDB store and its saves on the server (utils/       *)
(* offline-drafts.ts).                                                     *)
(*                                                                         *)
(* Every call of an asynchronous function is a task, which runs between    *)
(* its awaits without interruption.  The recipients, the subject and the   *)
(* body are one text: the edit that made it (0 is the empty form), and     *)
(* whether it is headed, that is, has a To or a subject.  The server is    *)
(* asked by several tasks at a time, and nothing orders what they write.   *)
(***************************************************************************)
EXTENDS Naturals, FiniteSets

CONSTANTS
  Tasks,      \* the calls that can be under way together
  Files,      \* the files that the user may attach
  NoDraft,    \* there is no row
  NoFile,     \* not a file
  MaxEdits,   \* bound: edits in a behaviour
  MaxSaves,   \* bound: clicks on Save and attachments
  MaxReloads  \* bound: reloads of the page

ASSUME DraftAssumption ==
  /\ NoFile \notin Files
  /\ MaxEdits \in Nat /\ MaxSaves \in Nat /\ MaxReloads \in Nat

VARIABLES
  open,     \* the Composer is mounted
  form,     \* the text in the editor
  shown,    \* the attachments that the Composer lists
  ref,      \* draftRef.current
  row,      \* the draft in IndexedDB
  task,     \* task[t]: its kind, how far it is, its draft and its file
  timer,    \* the timer of scheduleDraftSave is set
  online,   \* navigator.onLine
  edge,     \* the reconnect effect has yet to run
  posted,   \* history: the texts that the server has
  edits,    \* history: edits so far
  clicks,   \* history: clicks so far
  reloads,  \* history: reloads so far
  raced     \* history: what tasks did that overlapped another

draft == <<form, shown, ref, row>>
composer == <<open, timer, online, edge>>
history == <<edits, clicks, reloads>>
draftVars == <<draft, composer, task, posted, history, raced>>

Text == [edit : 0 .. MaxEdits, headed : BOOLEAN]
Draft == [text : Text, files : SUBSET Files, dirty : BOOLEAN,
          status : {"local", "syncing", "synced", "error"}]
FileKinds == {"attach", "remove"}
Kinds == {"persist", "save"} \cup FileKinds
TaskSteps == {"idle", "write", "mark", "post", "answer", "finish", "blob", "unblob", "last"}

\* lastEditedAt > syncedVersion is the field dirty: an edit sets it, and
\* markSynced clears it.
Empty == [edit |-> 0, headed |-> FALSE]
EmptyDraft == [text |-> Empty, files |-> {}, dirty |-> TRUE, status |-> "local"]
NoTask == [kind |-> "persist", step |-> "idle", draft |-> EmptyDraft, file |-> NoFile]

DraftTypeOK ==
  /\ open \in BOOLEAN /\ timer \in BOOLEAN /\ online \in BOOLEAN /\ edge \in BOOLEAN
  /\ form \in Text
  /\ shown \in SUBSET Files
  /\ ref \in Draft
  /\ row \in Draft \cup {NoDraft}
  /\ task \in [Tasks -> [kind : Kinds, step : TaskSteps, draft : Draft,
                         file : Files \cup {NoFile}]]
  /\ posted \in SUBSET Text
  /\ edits \in 0 .. MaxEdits /\ clicks \in 0 .. MaxSaves /\ reloads \in 0 .. MaxReloads
  /\ raced \in {"nothing", "texts", "files"}

DraftInit ==
  /\ open = TRUE /\ timer = FALSE /\ edge = FALSE
  /\ online \in BOOLEAN
  /\ form = Empty /\ shown = {}
  /\ ref = EmptyDraft
  /\ row = NoDraft
  /\ task = [t \in Tasks |-> NoTask]
  /\ posted = {}
  /\ edits = 0 /\ clicks = 0 /\ reloads = 0
  /\ raced = "nothing"

Running == {t \in Tasks : task[t].step # "idle"}

ApplyEdits(d, text) ==
  IF d.text = text THEN d
  ELSE [d EXCEPT !.text = text, !.dirty = TRUE, !.status = "local"]

IsDirty(d) == d.status = "error" \/ d.dirty

(* Slip: the Composer's own word for it.                                   *)
MarkSaving(d) == [d EXCEPT !.status = "saving"]

\* markSyncing, markSynced and markError.
MarkSyncing(d) == [d EXCEPT !.status = "syncing"]
MarkSynced(d) == [d EXCEPT !.status = "synced", !.dirty = FALSE]
MarkError(d) == [d EXCEPT !.status = "error"]

-----------------------------------------------------------------------------
FilesInWork == \E t \in Running : task[t].kind \in FileKinds

Start(t, kind, step, d, f) ==
  /\ task[t].step = "idle"
  /\ task' = [task EXCEPT ![t] = [kind |-> kind, step |-> step, draft |-> d, file |-> f]]
  /\ raced' = IF Running = {} /\ raced = "nothing" THEN raced
              ELSE IF raced = "files" \/ kind \in FileKinds \/ FilesInWork
              THEN "files" ELSE "texts"

(* What persistLocalDraft does before its await: it writes the form into   *)
(* draftRef, and that is what the task is going to store.                  *)
Persist(t, kind, text, f) ==
  /\ ref' = ApplyEdits(ref, text)
  /\ Start(t, kind, "write", ref', f)

(* An edit; scheduleDraftSave.                                             *)
Edit(t) ==
  /\ open /\ edits < MaxEdits
  /\ edits' = edits + 1
  /\ \E headed \in BOOLEAN : form' = [edit |-> edits', headed |-> headed]
  /\ Persist(t, "persist", form', NoFile)
  /\ timer' = TRUE
  /\ UNCHANGED <<shown, row, open, online, edge, posted, clicks, reloads>>

(* saveDraftNow returns when there is neither a To nor a subject, whatever *)
(* the Cc and the body are.                                                *)
SaveDraftNow(t) ==
  IF form.headed THEN Persist(t, "save", form, NoFile)
                 ELSE UNCHANGED <<ref, task, raced>>

TimerFires(t) ==
  /\ open /\ timer
  /\ timer' = FALSE
  /\ SaveDraftNow(t)
  /\ UNCHANGED <<form, shown, row, open, online, edge, posted, history>>

ClickSave(t) ==
  /\ open /\ clicks < MaxSaves
  /\ clicks' = clicks + 1
  /\ SaveDraftNow(t)
  /\ UNCHANGED <<form, shown, row, composer, posted, edits, reloads>>

(* The effect on the edge from offline to online.                          *)
Reconnected(t) ==
  /\ open /\ edge
  /\ edge' = FALSE
  /\ IF IsDirty(ref) THEN SaveDraftNow(t) ELSE UNCHANGED <<ref, task, raced>>
  /\ UNCHANGED <<form, shown, row, open, timer, online, posted, history>>

(* handleAttachFiles, for one file; files over the limits are refused      *)
(* without any change.                                                     *)
AttachFile(t, f) ==
  /\ open /\ clicks < MaxSaves
  /\ clicks' = clicks + 1
  /\ f \notin shown
  /\ Persist(t, "attach", form, f)
  /\ UNCHANGED <<form, shown, row, composer, posted, edits, reloads>>

(* handleRemoveAttachment takes draftRef before it waits for the deletion  *)
(* of the blob.                                                            *)
RemoveFile(t, f) ==
  /\ open
  /\ f \in shown
  /\ Start(t, "remove", "unblob", ref, f)
  /\ UNCHANGED <<draft, composer, posted, history>>

-----------------------------------------------------------------------------
Go(t, step, d) == task' = [task EXCEPT ![t] = [@ EXCEPT !.step = step, !.draft = d]]
End(t) == task' = [task EXCEPT ![t] = NoTask]

(* The write of persistLocalDraft lands, and its caller goes on: syncOne   *)
(* returns a draft that is not dirty at once.                              *)
LandPersisted(t) ==
  /\ task[t].step = "write"
  /\ row' = task[t].draft
  /\ \/ task[t].kind = "persist" /\ End(t) /\ UNCHANGED ref
     \/ task[t].kind = "attach" /\ Go(t, "blob", task[t].draft) /\ UNCHANGED ref
     \/ task[t].kind = "save" /\ ~online /\ End(t) /\ UNCHANGED ref
     \/ /\ task[t].kind = "save" /\ online
        /\ IF IsDirty(task[t].draft)
             THEN Go(t, "mark", MarkSyncing(task[t].draft)) /\ UNCHANGED ref
             ELSE End(t) /\ ref' = task[t].draft
  /\ UNCHANGED <<form, shown, composer, posted, history, raced>>

(* The row is marked as syncing, and the request goes out.                 *)
LandSyncing(t) ==
  /\ task[t].step = "mark"
  /\ row' = task[t].draft
  /\ Go(t, "post", task[t].draft)
  /\ UNCHANGED <<form, shown, ref, composer, posted, history, raced>>

(* The server appends a draft to the folder Drafts.                        *)
AcceptDraft(t) ==
  /\ task[t].step = "post"
  /\ posted' = posted \cup {task[t].draft.text}
  /\ Go(t, "answer", task[t].draft)
  /\ UNCHANGED <<draft, composer, history, raced>>

(* Slip: what is marked as synced is the newest draft.                     *)
AnswerNewest(t) ==
  /\ task[t].step = "answer"
  /\ Go(t, "finish", MarkSynced(ref))
  /\ UNCHANGED <<draft, composer, posted, history, raced>>

Answer(t) ==
  /\ task[t].step = "answer"
  /\ Go(t, "finish", MarkSynced(task[t].draft))
  /\ UNCHANGED <<draft, composer, posted, history, raced>>

(* The request or its answer is lost, or the server reports an error.      *)
PostFails(t) ==
  /\ task[t].step \in {"post", "answer"}
  /\ Go(t, "finish", MarkError(task[t].draft))
  /\ UNCHANGED <<draft, composer, posted, history, raced>>

(* Slip: the result is stored, but draftRef keeps the draft it had.        *)
LandResultOnly(t) ==
  /\ task[t].step \in {"finish", "last"}
  /\ row' = task[t].draft
  /\ UNCHANGED ref
  /\ End(t)
  /\ UNCHANGED <<form, shown, composer, posted, history, raced>>

(* The last write of a task lands; saveDraftNow then puts the result into  *)
(* draftRef.                                                               *)
LandResult(t) ==
  /\ task[t].step \in {"finish", "last"}
  /\ row' = task[t].draft
  /\ ref' = IF task[t].kind = "save" THEN task[t].draft ELSE ref
  /\ End(t)
  /\ UNCHANGED <<form, shown, composer, posted, history, raced>>

(* Slip: the row is left to the next edit.                                 *)
RelistUnsaved(t) ==
  /\ task[t].step \in {"blob", "unblob"}
  /\ LET d == task[t].draft
         f == task[t].file
     IN ref' = [d EXCEPT !.files = IF task[t].kind = "attach" THEN @ \cup {f} ELSE @ \ {f}]
  /\ shown' = ref'.files
  /\ End(t)
  /\ UNCHANGED <<form, row, composer, posted, history, raced>>

(* The blob is stored or deleted; the attachment joins or leaves the draft *)
(* that the task holds.                                                    *)
Relist(t) ==
  /\ task[t].step \in {"blob", "unblob"}
  /\ LET d == task[t].draft
         f == task[t].file
     IN ref' = [d EXCEPT !.files = IF task[t].kind = "attach" THEN @ \cup {f} ELSE @ \ {f}]
  /\ shown' = ref'.files
  /\ Go(t, "last", ref')
  /\ UNCHANGED <<form, row, composer, posted, history, raced>>

-----------------------------------------------------------------------------
(* The user closes the Composer: its timer is cleared, its tasks go on.    *)
Close ==
  /\ open
  /\ open' = FALSE
  /\ timer' = FALSE /\ edge' = FALSE
  /\ UNCHANGED <<draft, online, task, posted, history, raced>>

(* The page is reloaded, or the browser dies and is started again, with    *)
(* the id of the draft in its address.                                     *)
ReloadComposer ==
  /\ reloads < MaxReloads
  /\ reloads' = reloads + 1
  /\ open' = TRUE /\ edge' = FALSE
  /\ task' = [t \in Tasks |-> NoTask]
  /\ ref' = IF row = NoDraft THEN EmptyDraft ELSE row
  /\ form' = ref'.text
  /\ shown' = ref'.files
  /\ timer' = TRUE
  /\ raced' = "nothing"
  /\ UNCHANGED <<row, online, posted, edits, clicks>>

Disconnect ==
  /\ online
  /\ online' = FALSE /\ edge' = FALSE
  /\ UNCHANGED <<draft, open, timer, task, posted, history, raced>>

Connect ==
  /\ ~online
  /\ online' = TRUE
  /\ edge' = open
  /\ UNCHANGED <<draft, open, timer, task, posted, history, raced>>

Continue(t) ==
  \/ LandPersisted(t)
  \/ LandSyncing(t)
  \/ AcceptDraft(t)
  \/ Answer(t)
  \/ PostFails(t)
  \/ LandResult(t)
  \/ Relist(t)

DraftNext ==
  \/ \E t \in Tasks :
       \/ Edit(t) \/ TimerFires(t) \/ ClickSave(t) \/ Reconnected(t)
       \/ \E f \in Files : AttachFile(t, f) \/ RemoveFile(t, f)
       \/ Continue(t)
  \/ Close
  \/ ReloadComposer
  \/ Disconnect
  \/ Connect

DraftSpec == DraftInit /\ [][DraftNext]_draftVars

(* What has been started goes on, timers and effects run.                  *)
DraftFairSpec ==
  /\ DraftSpec
  /\ \A t \in Tasks : WF_draftVars(Continue(t))
  /\ WF_draftVars(\E t \in Tasks : TimerFires(t))
  /\ WF_draftVars(\E t \in Tasks : Reconnected(t))

-----------------------------------------------------------------------------
OnServer(d) == d.status = "synced" \/ ~IsDirty(d) => d.text \in posted

(* A draft that is marked as synced, in the Composer or in the store, is   *)
(* on the server, in the very text that bears the mark, in whatever order  *)
(* edits, writes and answers come.                                         *)
SyncedIsOnServer == OnServer(ref) /\ (row # NoDraft => OnServer(row))

(* If no two tasks overlapped since the page was opened, then what a       *)
(* reload would restore is what the Composer shows.                        *)
RowIsWhatIsShown ==
  open /\ raced = "nothing" /\ Running = {} /\ row # NoDraft =>
    row.text = form /\ row.files = shown

(* While the page stays open and online, a draft that draftRef knows to be *)
(* dirty is sent, or the error is shown, unless it has neither a To nor a  *)
(* subject: a draft with only a body is kept from the server on purpose    *)
(* (Composer.tsx:98-102).  An attachment that comes during or after a race *)
(* hides errors.                                                           *)
DirtyIsFlushed ==
  open /\ online /\ IsDirty(ref) ~>
    \/ ~open \/ ~online \/ ~form.headed \/ raced = "files"
    \/ ~IsDirty(ref) \/ ref.status = "error"
=============================================================================
