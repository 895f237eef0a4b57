# TasMail in TLA+

TasMail is a webmail platform: a Rust/Axum backend (`backend/src`) over
PostgreSQL and Redis, a React client (`frontend/src`), server-rendered "classic"
pages, and deployment scripts. This directory models the parts of it that carry
protocol: state that several actors read and write, and that must survive
crashes, lost answers and unfortunate orders. Paths below are relative to the
repository.

## The system

| Component | State | Operations | What is hard | Module |
|---|---|---|---|---|
| Outgoing queue: `models/email_queue.rs`, `services/queue_processor.rs`, `handlers/queue.rs` | `email_queue` rows: status, retry_count, next_retry_at, priority | enqueue, claim a batch, deliver, mark, back off; the owner cancels and retries | several processors, crashes between claim and mark, lost SMTP answers, failed updates | `EmailQueue` |
| Scheduled send: `models/scheduled_email.rs`, `services/email_scheduler.rs`, `handlers/scheduled.rs` | `scheduled_emails`, `scheduled_email_attachments` | schedule, link files, cancel, poll, send, mark | poll without claim, cancel racing send, links written after the row | `ScheduledSend` |
| Attachments: `handlers/attachments.rs`, `models/attachment.rs` | `attachments` rows, files on disk | upload, background scan, delete | the verdict comes while the file is being sent | `ScheduledSend` |
| IMAP IDLE bridge, WebSocket: `services/imap_idle_bridge.rs`, `handlers/websocket.rs` | a task and an IMAP session for each folder, a bounded event channel | subscribe, unsubscribe, IDLE cycle, reconnect | the only consumer of the channel also produces into it | `IdleBridge` |
| Mail folders: `services/imap_service.rs`, `handlers/messages.rs`, `handlers/folders.rs`, `handlers/classic/{folder,move_to,delete,flag}.rs` | folders, messages, UIDs and flags on the IMAP server | list, move, delete, flag, in batches too; create and delete folders | a move is three commands, and EXPUNGE takes whatever is marked | `MailFolders` |
| Mail server configuration: `models/{imap,smtp}_config.rs`, their handlers, `services/cache_service.rs`, `ImapService::for_user` | the rows, a copy in Redis, a copy in each process | create, update, delete, make the default; load through two caches | fills racing invalidations, copies that live twice, two statements for one default | `ServerConfig` |
| Password login: `services/auth_service.rs`, `handlers/classic/login.rs` | the lockout columns of a mailbox | read, check, count, lock, reset | read and write with a slow hash in between | `Lockout` |
| Web sessions: `frontend/src/api/{client,auth}.ts`, `App.tsx`, `handlers/auth.rs`, `models/session.rs` | `sessions` rows, localStorage, the memory of each tab | sign in, call, exchange, sign out, reload | concurrent exchanges, late answers, guards that send each other the browser | `WebSession` |
| Drafts of the client: `frontend/src/utils/offline-drafts.ts`, `Composer.tsx` | a row in IndexedDB, `draftRef`, the form, the server's drafts | edit, persist, save, attach, reconnect, reload | tasks that each hold a revision and write in any order | `OfflineDrafts` |
| Webhooks: `services/webhook_dispatcher.rs`, `models/webhook.rs`, `handlers/webhooks.rs` | `webhooks` (active, failure_count), `webhook_deliveries` | dispatch, retry, log, suspend, replay, switch, delete | deliveries overlap each other, the owner and crashes | `Webhooks` |
| Billing: `services/billing_rollup.rs`, `services/billing_math.rs` | daily usage, invoices | roll up, total | a roll-up repeated or missed | none |
| One-shot tokens, sign-up drafts, classic sessions | rows with expiry | issue, consume | double use | none |

The remaining parts (LDAP synchronisation, retention rules, SMTP and POP3
clients, imports, calendar arithmetic, mobile and ActiveSync, content scanning,
federated login, payments, language models, the rest of both interfaces,
deployment) are listed in `PROJECT.json` with the reason each is left out. The
parts meet in the database, in Redis and at the mail servers, and inside the
backend through tokio channels; `main.rs` starts the scheduler, the queue
processor, the billing roll-up and the LDAP job, one of each in every process.
`services/queue_processor.rs` and the send handlers read the default server
through the cache of `ServerConfig`; the scheduler and the calendar read the
table itself (`services/email_scheduler.rs:103`).

## Modules

Each component has its module, small instances for TLC in `MC<module>`, and proofs
in `<module>Proofs`; the two protocols of the web client share `WebClientProofs`,
which extends both `WebSession` and `OfflineDrafts` (their names are distinct).
`OutgoingMail` is an abstract specification: what a queue of outgoing mail
promises, without rows or processors. `EmailQueueProofs` shows that `EmailQueue`
implements it.

Operators named in a comment that begins with *Slip* are not part of a model:
each is what a plausible bug would make of the definition after it, and every
property is known to be violated by one of them put in the place of that
definition. Variables and constants commented as *history* or *bound* have no
counterpart in the code: properties speak of the first, the second keep the
state space finite.

### EmailQueue

One SQL statement is one action, because each runs in a transaction of its own.

* `Enqueue` is `enqueue`/`enqueue_with_priority`. No handler of this revision
  calls them: the rows come from the model's public interface.
* `Claim` is `claim_batch` as `tick` calls it. `Batches` is its selection: due
  rows, more urgent first, at most `BatchSize`. `SKIP LOCKED` needs no action of
  its own, since claims are single statements. The claim may be committed and
  its answer lost.
* `Attempt` is `process_item` up to the SMTP answer: configuration, decryption
  and conversation end in *ok*, *transient* or *bounce*. The server may have
  accepted a message whose answer was lost. Which error texts count as a bounce
  (`is_hard_bounce`) is left open, but for this: what the server accepted is not
  reported as a bounce.
* `MarkSent`, `MarkBounced`, `MarkDeadLetter` and `MarkFailed` are the rest of
  `process_item`; `Finish` holds what they share: the update by id alone, and its
  failure, which the code only logs.
* `Crash` loses a processor's tasks. Nothing recovers the rows it had claimed.
* `Cancel`, `Retry` and `DeleteMailbox` are the owner's, the last with the
  cascade. `BecomeDue` is the clock reaching `next_retry_at`, for each row on its
  own.

### ScheduledSend

* `Validate`, `Insert`, `Link` and `Reply` are `schedule_send`: the checks, the
  row, one insert for each file, the answer. A request may end anywhere in
  between.
* `Poll` is `find_ready_to_send`. It claims nothing; `TakeUp`, `List`, `Load` and
  `Transmit` are `send_email`, from the mailbox lookup to the SMTP answer, and do
  not look at the row again. `Mark` and `MarkFails` are the update by id and its
  failure, which ends the poll.
* `Cancel` is `cancel_by_token`, `Scan` the task that `upload_attachment` spawns,
  `DeleteFile` and `DeleteMailbox` the deletions with their cascades.

Scheduled sending does not implement `OutgoingMail`: a cancellation is accepted
here while the message is being sent.

### IdleBridge

One connection: connections share nothing but the user's mailbox, which other
clients change at any time here.

* `Subscribe`, `Connect` and `PushSnapshot` are `handle_subscribe` with the
  `subscribe` of the bridge, cut where it awaits the IMAP server and where it
  awaits room in the channel. While they last, the handler does nothing else.
* `Forward` and `Unsubscribe` are the other arms of the handler's `select!`,
  `Close` its ways out. A command that the browser sent may be read after the
  browser has gone. Heartbeats and error messages go to the socket past the
  channel and change no state; a failing heartbeat is one of the ways out.
* `SelectFolder`, `PushNew`, `PushUnread` and `EndIdle` are `run_idle_cycle`,
  `Reconnect` is `idle_loop` after a session broke. Dropping a subscription sends
  on the cancel channel and aborts the task in the same call, so the task stops
  at its next await and the arms that watch for the cancellation (or for
  `tx.closed()`) have no time to act; the model stops it at once. For the same
  reason a task in the map always runs, and the branch of `handle_subscribe` for
  a stale entry is never taken (a panic aside).
* `Arrive`, `MarkRead`, `Expunge` and `Select` are the mail server.

### MailFolders

One IMAP command is one action, and each request has a session of its own.

* `MoveOne`, `ClassicMove` and `Delete` are the requests that move or delete, one
  message or a batch, from either interface; a deletion outside the trash is a
  move to it. `Begin` is the SELECT.
* `CopyOrCreate`, `CreateTarget`, `CopyAgain`, `StoreDeleted`, `Expunge` and
  `Finish` are `move_message` and its batch form: COPY, if it fails CREATE and
  COPY again, STORE `\Deleted`, EXPUNGE, LOGOUT. `Break` is a connection that
  breaks between two of them, which is also what a lost answer comes to.
* `SetFlag` is a flag set by another client (or by the JSON interface's flags
  endpoint), `DeleteFolder` and `CreateFolder` those of `handlers/folders.rs`,
  with the names that may not be deleted.
* `Page` and `PageCount` are `list_messages` and `pagination_window`.

A UID stands for a UID together with its folder's UIDVALIDITY, which the code
never checks. The trash folder's name comes from the configuration and need not
be a protected one.

### ServerConfig

A statement, or a command to Redis, is one action; `kind` chooses between the
IMAP and the SMTP table, which differ in how a default is made and in the copy
that only IMAP keeps in memory.

* `Load`, `Get`, `Find`, `Store` and `Keep` are `for_user` (IMAP) and the lookups
  of the senders (SMTP).
* `Create`, `Update`, `Delete`, `Unset`, `Insert` and `Mark` are the statements of
  the handlers and of the forms, `Forget` and `DropCopy` those of the
  invalidation that ends them. `GiveUp` and `Restart` are failures.
* Copies carry their age, not an expiry time, so `Tick` never has to stop. How
  long a request itself holds a copy is not counted.

### Lockout

* `SubmitForm` and `SubmitDirectly` are the entrances, `LookUp` and `AlreadyLocked`
  the look that the classic form takes before the check, `FindByUsername`,
  `Verify`, `PersistFailed` and `PersistReset` are `evaluate_password_login`.
  `LoseWrite` is a write that fails: its error is dropped.
* `NextFailed` is the counter after a wrong password: one more if the last one is
  less than a window ago, else one.

No other code writes the lockout columns. Clock skew between processes is not
modelled, and the lookup after a failure, for the audit, changes nothing.

### WebSession

* `Request`, `Logout` and `Login` start a call of the client; `Serve` is the
  middleware and the handler; `TryRefresh`, `Accept`, `AcceptLogin`, `Redirect`,
  `Leave` and `Fail` are `ApiClient.request` and what its callers do.
* `FindByTokenHash`, `Delete` and `InsertSession` are `refresh_tokens`, three
  statements without a transaction.
* `Visit`, `Boot`, `Reload` and `Unload` are pages: `restoreSession` on mount, then
  the guards `RequireAuth` and `LoginRoute`.
* `ExpireAccess` and `EndSession` are time, and sessions ended elsewhere.

A pair of tokens is a number. Whether the password is right belongs to `Lockout`.
`logout` with an expired access token first exchanges the tokens, then signs out.
`blacklist_token` has no caller, so an access token ends by time alone.

### OfflineDrafts

Every call of an asynchronous function is a task that runs from await to await.

* `Edit` is `scheduleDraftSave`, `TimerFires`, `ClickSave` and `Reconnected` are
  `saveDraftNow` with its callers, `AttachFile` and `RemoveFile` the attachments.
* `LandPersisted`, `LandSyncing`, `AcceptDraft`, `Answer`, `PostFails`, `Relist` and
  `LandResult` are what the tasks go on to: the local write, `syncOne`, the
  result put into `draftRef`.
* `Close`, `ReloadComposer`, `Disconnect` and `Connect` are the user and the network.

Recipients, subject and body are one text, of which the model knows which edit made
it and whether it is *headed*: has a To or a subject. A draft that is not, whatever
its Cc and its body, is stored in the browser and never sent to the server
(`Composer.tsx:102`), and `DirtyIsFlushed` excuses it. `lastEditedAt > syncedVersion` is the
field `dirty`. Restoring a draft on opening is one action. Failures and limits
of IndexedDB are left out. `ReloadComposer` assumes the id of the draft in the address.

### Webhooks

* `Dispatch`, `Post`, `Log` and `Count` are `dispatch_webhook_event` with
  `deliver_with_retry`: the snapshot of the active hooks, the attempts, the row,
  `record_success` or `record_failure`. `Replay` is `redeliver`, which goes the
  same way for one hook, active or not, and stops if its row cannot be written.
* `Switch` and `Delete` are the owner's; deleting cascades to the log. Neither
  stops a task under way, which goes on with its snapshot.
* `Crash` and `HangUp` drop tasks: a replay runs in the request of its client.

## What the runs check

| Run | Instance | Shows |
|---|---|---|
| `queue` | 2 rows (urgent, bulk), 2 processors, batches of 1, 3 attempts, 1 fault, 1 manual retry, fair | `ExclusiveClaim`, `TaskOwnsRow`, `DuplicatesNeedLostAcks`, `AttemptsAreCounted`, `TerminalIsFinal`, `ImplementsOutgoingMail`, `EverySendEnds` |
| `scheduled` | 1 email, 1 file, 2 schedulers, 3 faults, fair | `UndoneInTimeIsNeverSent`, `CopiesAreAccountedFor`, `InfectedOnlyByRace`, `OnlyHoldersOverwrite`, `AnsweredEmailsAreWhole`, `DueEmailsEnd` |
| `bridge` | 2 folders, 2 subscriptions, channel of 1, 1 message and 1 arrival at a time, fair | `NeverAnnouncedTwice`, `TasksAreSubscribed`, `ClosesOrIsStuck` |
| `mail` | 3 folders, 2 messages, 2 requests at a time, 3 in all, 2 COPYs, pages of 2 | `NothingLost`, `MovesKeepOneCopy`, `PagesCover`, `NoBystanders` |
| `drafts` | 2 tasks at a time, 1 file, 2 edits, 1 click, 1 reload, fair | `SyncedIsOnServer`, `RowIsWhatIsShown`, `DirtyIsFlushed` |
| `session` | 1 tab, 2 calls, 3 pairs, fair | `StoredIsUsable`, `SignedOutIsOut`, `DeadSessionIsLeft` |
| `lockout` | 2 attempts at a time, threshold 2, window 3, lock of 2, clock to 5, 4 wrong passwords | `LockIsEarned`, `LockStopsAttempts`, `CountIsExact` |
| `server_config` | 2 rows, 2 processes with a request each, lifetime 2, 2 edits, 1 fault, fair | `EditsShow`, `TwoLifetimesAtMost`, `OneDefault`, `EditsTakeEffect` |
| `webhooks` | 2 hooks, 1 event, 2 replays, 2 attempts, suspension at 2, 1 fault, 1 switch, fair | `SuspensionIsEarned`, `LogTellsTheTruth`, `EveryHookIsServed` |
| `queue_retries` | 2 rows, 2 processors, 3 attempts | violated: a dead letter was retried three times |
| `bridge_backlog` | 2 folders, 2 subscriptions, channel of 2, fair | violated: a full channel is drained |
| `session_loop` | 1 tab, 1 call, 2 pairs, fair | violated: the form is reached |

The runs `bridge`, `drafts`, `session` and `webhooks` also check the type invariant
of their modules (`TypeOK`, `DraftTypeOK`); those of the other modules are only proved. So is
`CancelledIsUnsent` of the queue, which the refinement has for its abstract mail.

Bounds. Two of a kind (rows, processors, requests, attempts, hooks, tasks) are the
fewest that race. Three attempts of the queue is the default of its column and
lets the backoff take two values; its batches hold one row, which is what makes
priorities matter, and batches of any size are covered by the proofs. One fault
strands a row, fails one update or loses one claim; three, in `scheduled`,
let each of two schedulers leave a send unrecorded and one of them do so again.
One email is what fits beside two schedulers: how several emails share a limited
batch is left to the proofs, which cover the safety but not the liveness of it.
Retries by the owner are bounded since each restarts the budget. A channel of one or two events stands for
the code's 64: what matters is that the tasks can fill it, and each cycle of a
task sends up to two events. Three folders are a source, the trash and a target
that may be missing; two COPYs let both messages move, or one move twice. Three
pairs of tokens are a sign-in and two exchanges that race. A threshold of two
with four wrong passwords lets a lock be earned, end and be earned again; a
window longer than the lock lets a count outlive it. Two edits with a lifetime of
two let an old copy be passed on from cache to cache after the second. In
`server_config` an IMAP `Insert` waits for a free id, of which the instance has
two; the code's ids do not run out.

Deadlock is not checked: when every row is final, the connection closed or the
bounds used up, the system rightly stops.

Fairness. The processor's and the scheduler's loops poll for ever and every step
of theirs returns, so `Work(p)` and `Send(s)` are weakly fair; the clock goes on,
so `BecomeDue` is. The owner, the scans and faults are under no obligation.
In `IdleBridge`, the handler's loop and the tasks run whenever they can, as far as
they do not wait for the IMAP server (`WF` of `PushSnapshot` and `Forward`, and of
the two sends of each task). TCP, TLS, LOGIN, SELECT and the end of IDLE have no
timeout in the code, so nothing is assumed of `Connect`, `SelectFolder`, `EndIdle`
and `Reconnect`: the server may stay silent. `Close` is strongly fair: while events
keep coming, the close frame and the channel compete in a `select!` that chooses
among its ready arms at random.
In `Webhooks` a POST ends within ten seconds and a pause within two, so every task
under way is weakly fair. In `OfflineDrafts` tasks go on once started, and timers
and effects run. In `WebSession` calls run to their end, pages boot, access tokens
expire and the app calls the server while it shows; this last is strongly fair,
because the bound makes calls of the tabs wait for one another. In `ServerConfig`
time passes and the statements of a request return.
`EverySendEnds` excuses rows that a fault left in *sending*: the code has no
recovery for them, and the property shows that nothing else loses a message.
`MailFolders` and `Lockout` state no liveness: no request of theirs is retried by
the code, and the clock of `Lockout` ends.

## Where the code departs from its own text

1. `queue_retries`: a row is dead-lettered when `retry_count + 1 >= max_retries`
   (`services/queue_processor.rs:320`), with the default of three at its third
   attempt, so after two retries and not the three of `models/email_queue.rs:53`
   and of `migrations/066`, line 8.
2. `bridge_backlog`: `subscribe` awaits room in the channel on the very task that
   alone makes room. If the tasks of other folders fill the channel during a slow
   connection, the handler waits for ever; it then forwards nothing, pings nothing
   and does not notice that the browser leaves (`handlers/websocket.rs:48`).
   The other way to hang is an IMAP server that stays silent while `subscribe`
   connects or selects, since neither has a timeout (`services/imap_service.rs:315`,
   `imap_idle_bridge.rs:89`). `ClosesOrIsStuck` shows that in the model there is no
   third.
3. `session_loop`: after a refused exchange `client.ts:64` means to "redirect to
   login", but leaves the dead pair in localStorage; `LoginRoute` (`App.tsx:62`)
   sends a browser that has a pair back to `/app`, whose first call is refused
   again, so the browser reloads for ever and the form is never reached.

Others show by reading the models next to the code and have no run.

*Queue and scheduled send.* The delay is looked up with the count *after* the
failure, so the first retry waits 30 s and the 5 s entry is never used
(`models/email_queue.rs:53`, test at `:484`). All the futures of a batch run at
once, and `worker_concurrency` only says how often the loop yields
(`services/queue_processor.rs:7`). A scheduled email stays *pending* while it is
being sent, so a cancellation is accepted for an email already sent, and then
overwritten with *sent* (`handlers/scheduled.rs:127`). Its row is committed before
its links (`models/scheduled_email.rs:124`), so an email may go out without files
if it falls due before its request is answered. Cancelling is an update, so the
cascade of which `migrations/078`, line 12, speaks does not remove its links.

*Bridge.* New mail is the growth of EXISTS, so an arrival is missed when an older
message was expunged in the same cycle (`imap_idle_bridge.rs:256`). UNSEEN in the
answer to SELECT is the number of the first unread message, and is sent as the
unread count (`imap_idle_bridge.rs:270`).

*Mail folders.* `delete.rs:219-223` rules out a "ghost", but a COPY whose STORE or
EXPUNGE never came leaves the message in both folders; `NothingLost` and
`MovesKeepOneCopy` say what does hold. Messages marked `\Deleted` by another client
are listed, and any later move in that folder expunges them. The rows of a page
are one more than the page size, so neighbouring pages overlap (against the
comment at `folder.rs:477`); `PagesCover` shows that none is left out.
`page * page_size` is an unchecked product of two 32-bit numbers.

*Drafts.* A late write may overwrite a newer row or `draftRef`, so that a crash
or reload can lose keystrokes when writes overlap, which `Composer.tsx:76-78`
rules out. Nothing puts the draft's id into the address, so a plain reload
restores nothing. An attachment added or removed while a save fails hides the
error. The status *conflict* is unreachable, and `syncAllDirty`,
`listLocalDrafts` and `deleteDraftLocal` have no caller; nor has the `enqueue` of
`background-sync.ts`, so that no offline action is ever queued.

*Sessions.* Concurrent denials of one tab exchange the same token; both may win,
or one is refused and takes the tab to the login page. An exchange answered after
a sign-out puts a pair back into the browser. `SignedOutIsOut` is about sign-outs
that no exchange overlaps.

*Lockout.* The comments of `config.rs:58` and of `migrations/073` count failures
"within" a window; the code counts runs of failures each less than a window after
the one before. Overlapping attempts lose counts, and a late write may lift a
lock or extend it: `LockIsEarned` is the half that always holds.

*Server configuration.* `invalidate_user_credentials` drops the copy in memory
before the one in Redis, so a load in between fills memory with the old row again.
A copy taken from Redis near its end starts a new life in memory, so an old row may
be used for two lifetimes, where `cache_service.rs:30-31` and
`imap_service.rs:59-60` speak of one. `set_default` of a missing row takes the mark
from the old default and answers 404; two switches that overlap can leave two
defaults, since no index forbids it; deleting the default leaves none; the BYOK
form returns without dropping the IMAP copy when its SMTP half fails; `flush_all`
does not know the keys of these copies.

*Webhooks.* Reactivating a suspended hook keeps `failure_count`, so its next failure
suspends it again. A failure that ends late counts after a success that came
later. The results of `record_success`, `record_failure` and of the log's insert
are ignored. A receiver whose answer was lost gets the event again.

## What is proved

Every safety property that a run checks is also a theorem, checked by TLAPS for
every value of the constants that satisfies the assumption named in the module.
The assumptions say that the sets of rows, schedulers, requests, calls, events,
replays and the like are finite where something is counted over them, that every
row has a mailbox, and that budgets, limits and lifetimes are positive. A database
or a client has finitely many of anything, so they cost nothing. Each proof is an
inductive invariant that adds to the property what it lacks to be inductive.

| Run | Theorems of its properties |
|---|---|
| `queue` | `ClaimsAreExclusive`, `TasksOwnTheirRows`, `NoDuplicates`, `CountsHold`, `TerminalStays`, `QueueImplementsOutgoingMail` |
| `scheduled` | `UndoIsKept`, `CopiesAreBounded`, `InfectedFilesStay`, `OutcomesAreKept`, `AnsweredEmailsKeepTheirFiles` |
| `bridge` | `BridgeTypes`, `AnnouncedOnce`, `NoTaskIsLost` |
| `mail` | `MovesLoseNothing`, `MovesKeepTheirPromise`, `PagesCoverFolders`, `BystandersStay` |
| `drafts` | `DraftTypes`, `MarksAreTrue`, `ReloadsRestore` |
| `session` | `SessionTypes`, `StoredStaysUsable`, `SignOutIsComplete` |
| `lockout` | `LocksAreEarned`, `LocksStopAttempts`, `CountsAreExact` |
| `server_config` | `EditsAreSeen`, `CopiesExpire`, `OneIsTheDefault` |
| `webhooks` | `WebhookTypes`, `SuspensionsAreEarned`, `LogIsTrue` |

**`EmailQueueProofs`.** `IInv` adds to the type invariant: that a held row is in
*sending* with the claimed count (`TaskOwnsRow`); that the attempts since the last
reset equal `retry_count` while the row waits, equal the claimed copy until the
attempt and exceed it by one after (`CountInv`); and that an acknowledged copy
pins the row to *sent*, *sending* or erased, with no task but the one that is about
to mark it (`CopyInv`). The five safety theorems and `CancelIsSafe` follow. The
refinement, `Spec => Mail!ASpec`, maps each action to one abstract action or a
stutter under `Life` and `Try`, one lemma for each.

**`ScheduledSendProofs`.** The heart of `SInv` is `Quiet`: an email that is not due,
or was cancelled before it was, is in no scheduler's hands and has no copy; polling
is the only way into a scheduler's hands, and needs a row that is pending and due.
`UndoIsKept` holds for any number of schedulers; `InfectedFilesStay` as well.
`OutcomesAreKept` says how far the unguarded marks go, for any number of schedulers:
one that had the email before may record *failed* over the other's *sent*, or *sent*
over a late cancellation, but lets go of it as it does (`OnceInHand`: what it is
sending is not in its batch as well), and nobody takes up what is settled. For `AnsweredEmailsKeepTheirFiles`, a file that a
request in progress or answered asked for is linked, deleted, or still to be linked
by it (`Linked`). `CopiesAreBounded` counts: the copies of an email and the schedulers
that may still make one (`Open`: they hold it, or can still poll it) are never more
than the schedulers and the outcomes left unrecorded (`Accounts`). Sending trades a
scheduler for a copy, and losing the record gives one back.

**`IdleBridgeProofs`.** `Counts` is what `NeverAnnouncedTwice` lacks: whenever a
SELECT may follow, `last_exists` is at least what is left of the messages seen by
the previous SELECT, so the growth of EXISTS is at most the new messages, and
between that SELECT and its event the growth is already within what was noticed.
`BridgeTypes` says that `MAX_IDLE_PER_USER` and the channel's capacity are kept, which
rests on `Limits`: a subscription that is being connected still has its place, as
the handler does nothing else meanwhile. That UNSEEN lies within the mailbox needs
the first unread message; `LeastNatural` derives its existence from the
well-foundedness of the numbers.

**`MailFoldersProofs`.** `MovesLoseNothing`: UIDs identify messages, and a request
names only UIDs given out before (`Numbers`). `Tops` says that each message that
nobody asked to be rid of has a copy such that it and all that were born no earlier
are unmarked, and no request that is at its STORE names them: a COPY makes such a
copy before its STORE marks the one it copied. `MovesKeepTheirPromise` rests on
`InPlace`: a message whose moves nothing disturbed is either `Whole`, with one
unmarked copy at its home and at most one request that has yet to copy it, or `Half`
moved, with two copies and exactly one request between its COPY and its EXPUNGE, the
newer copy being at the target. `BystandersStay` is about steps: only EXPUNGE removes
copies, and by `InPlace` whatever is marked and undisturbed belongs to that request.
`PagesCoverFolders` is arithmetic on `pagination_window`, with `Quotient` for its
rounded division.

**`WebClientProofs`.** For `StoredStaysUsable`: as long as nothing was lost, an answer
on its way holds a live row of its own, which is not the stored one and which no
other call knows of, and every exchange has a page that waits for it (`Answers`); no
number above the newest pair is in use (`Numbers`). For `SignOutIsComplete`: from the
deletion of the rows on, no exchange is under way that could insert one
(`SignedOut`). For `SessionTypes`: every call that may still be given a pair has one
left within the bound, unless the stored pair is dead (`PInv`).
Of the drafts, `Truthful` says of every draft in `draftRef`, in IndexedDB and in the
hands of any task that it has unsaved edits or its text is at the server, and of a
task whose request was accepted that the server has what it holds: this makes
`MarksAreTrue` inductive, in whatever order tasks write. `Calm` gives
`ReloadsRestore`: while nothing overlapped, the one task under way, `draftRef` and
the form agree, and the row agrees once no task is about to write it.

**`LockoutProofs`.** The times of wrong passwords are ordered (`Ordered`), and not only
the row but also every copy of it that an attempt has read, and what it is about to
write, was earned by them (`AllEarned`), so that an attempt's overwrite is earned
too. `LockIsSeen` gives `LocksStopAttempts`. For `CountsAreExact`, while attempts come
one at a time the one that has read the row still holds it as it is, and the row is
exact for the history or, between a wrong password and its write, for the history
without its last (`OneAtATime`).

**`ServerConfigProofs`.** `AInv` bounds what copies have rested: in Redis, and in the
hands of a request, less than a lifetime, and in memory less than a lifetime more
than their age there. It gives `CopiesExpire`. `CInv` says of a clean history that
loads and edits have not met (`Apart`), that what Redis and requests hold is current
while no edit is under way (`Known`), and that memory is current but in the processes
that an edit left behind, or whose edit has yet to clear it (`Memories`). It gives
`EditsAreSeen`. `DInv` gives `OneIsTheDefault`: between the two statements of a switch
there is no default, and only one request is between them.

**`WebhooksProofs`.** `TInv` says of each task which hooks it has served, and that the
log and the receiver agree on them; it gives `LogIsTrue`. `HInv` is a `Ledger` for
each hook: its `failure_count` and the tasks that are about to add to it are no more
than the failures logged and the faults, and a suspended hook has as many of these
as the limit. `SuspensionsAreEarned` follows for any number of overlapping
deliveries.

Model-checked only: the seven liveness properties (`EverySendEnds`, `DueEmailsEnd`,
`ClosesOrIsStuck`, `DirtyIsFlushed`, `DeadSessionIsLeft`, `EveryHookIsServed`,
`EditsTakeEffect`), since fairness is beyond the prover, and the three runs that end
in a violation.

## What is not modelled

Message content, addresses and error texts; rendering; metrics and the heartbeat;
the graceful shutdown of the processor (nothing calls its cancellation token);
order within a priority; upload, quota and deduplication of attachments; parsing,
searching and threading of messages; encryption, password hashing, row-level
security and the formats of tokens; the secrets, URLs and event lists of webhooks;
the other keys of the cache. Most handlers of the backend read or write one row of
one user in a single statement and leave nothing to interleave; they are the bulk
of the code and are listed in `PROJECT.json` with their reasons.

## Plan

What a further extension would add, in this order:

1. the billing roll-up: periods closed once, by one process or several, whatever
   ticks are missed;
2. one-shot tokens and sign-up drafts: consumed once at most.
