----------------------------- MODULE IdleBridge -----------------------------
(***************************************************************************)
(* New-mail notifications: one WebSocket connection (handle_socket,        *)
(* handlers/websocket.rs), the IDLE tasks it starts, one for each folder   *)
(* (services/imap_idle_bridge.rs), and the bounded channel between them.   *)
(*                                                                         *)
(* The handler is one loop that forwards events, serves the client's       *)
(* commands and, while it subscribes, sends an event into its own channel. *)
(* Aborting a task takes effect at its next await: what it may still do    *)
(* before that is indistinguishable from having done it just before.       *)
(***************************************************************************)
EXTENDS Naturals, FiniteSets, SequencesExt

CONSTANTS
  Folders,       \* the folders of the user's account
  NoFolder,      \* not a folder
  MaxIdle,       \* MAX_IDLE_PER_USER
  ChannelBuffer, \* EVENT_CHANNEL_BUFFER
  MaxMail,       \* bound: the messages in a folder
  MaxArrivals    \* bound: the arrivals found in a folder by one subscription

ASSUME BridgeAssumption ==
  /\ NoFolder \notin Folders
  /\ MaxIdle \in Nat \ {0}
  /\ ChannelBuffer \in Nat \ {0}
  /\ MaxMail \in Nat
  /\ MaxArrivals \in Nat

VARIABLES
  mail,        \* mail[f]: which messages of f, in order, are unread
  client,      \* the browser is there
  handler,     \* what handle_socket is doing
  target,      \* the folder it is subscribing to
  subs,        \* the keys of its map of subscriptions
  channel,     \* the events in the channel, the oldest first
  task,        \* task[f]: what the IDLE task of f is doing
  last_exists, \* last_exists[f]: the local of idle_loop
  mbox,        \* mbox[f]: the answer to the latest SELECT of f
  known,       \* history: how many of f's messages were there at that SELECT
  noticed,     \* history: the new messages that the task's SELECTs have found
  announced    \* history: the messages that its events have announced

bridge == <<handler, target, subs, client>>
history == <<known, noticed, announced>>
vars == <<mail, bridge, channel, task, last_exists, mbox, history>>

-----------------------------------------------------------------------------
Unread(m) == {k \in 1 .. Len(m) : m[k]}

(* SELECT's UNSEEN, as async-imap passes it on: the number of the first    *)
(* unread message, and none (the code's 0) when all are read.              *)
FirstUnseen(m) == IF Unread(m) = {} THEN 0
                  ELSE CHOOSE k \in Unread(m) : \A j \in Unread(m) : k <= j

Select(f) == [exists |-> Len(mail[f]), unseen |-> FirstUnseen(mail[f])]

NewMail(f, n) == [type |-> "new_mail", folder |-> f, n |-> n]
UnreadUpdate(f, m) == [type |-> "unread_update", folder |-> f, n |-> m.unseen]

Snapshots == [exists : 0 .. MaxMail, unseen : 0 .. MaxMail]
Events == [type : {"new_mail", "unread_update"}, folder : Folders, n : 0 .. MaxMail]

TypeOK ==
  /\ mail \in [Folders -> Seq(BOOLEAN)]
  /\ client \in {"online", "gone"}
  /\ handler \in {"serving", "connecting", "pushing", "closed"}
  /\ target \in Folders \cup {NoFolder}
  /\ subs \in SUBSET Folders /\ Cardinality(subs) <= MaxIdle
  /\ channel \in Seq(Events) /\ Len(channel) <= ChannelBuffer
  /\ task \in [Folders -> {"none", "select", "new", "unread", "idle", "broken"}]
  /\ last_exists \in [Folders -> 0 .. MaxMail]
  /\ mbox \in [Folders -> Snapshots]
  /\ known \in [Folders -> 0 .. MaxMail]
  /\ noticed \in [Folders -> 0 .. MaxArrivals]
  /\ announced \in [Folders -> Nat]

Init ==
  /\ mail = [f \in Folders |-> <<>>]
  /\ client = "online"
  /\ handler = "serving"
  /\ target = NoFolder
  /\ subs = {}
  /\ channel = <<>>
  /\ task = [f \in Folders |-> "none"]
  /\ last_exists = [f \in Folders |-> 0]
  /\ mbox = [f \in Folders |-> [exists |-> 0, unseen |-> 0]]
  /\ known = [f \in Folders |-> 0]
  /\ noticed = [f \in Folders |-> 0]
  /\ announced = [f \in Folders |-> 0]

-----------------------------------------------------------------------------
(* The mail server and the user's other clients.                           *)
New(f) == Len(mail[f]) - known[f]

Arrive(f) ==
  /\ Len(mail[f]) < MaxMail
  /\ noticed[f] + New(f) < MaxArrivals
  /\ mail' = [mail EXCEPT ![f] = Append(@, TRUE)]
  /\ UNCHANGED <<bridge, channel, task, last_exists, mbox, history>>

MarkRead(f, k) ==
  /\ k \in Unread(mail[f])
  /\ mail' = [mail EXCEPT ![f][k] = FALSE]
  /\ UNCHANGED <<bridge, channel, task, last_exists, mbox, history>>

Expunge(f, k) ==
  /\ k \in 1 .. Len(mail[f])
  /\ mail' = [mail EXCEPT ![f] = RemoveAt(@, k)]
  /\ known' = [known EXCEPT ![f] = IF k <= @ THEN @ - 1 ELSE @]
  /\ UNCHANGED <<bridge, channel, task, last_exists, mbox, noticed, announced>>

-----------------------------------------------------------------------------
(* handle_subscribe, up to the connection: a folder that is subscribed to  *)
(* already, or one too many, changes nothing.  (A command, this one or the *)
(* other, may be read after the browser that sent it has gone.)            *)
Subscribe(f) ==
  /\ handler = "serving"
  /\ f \notin subs
  /\ Cardinality(subs) < MaxIdle
  /\ handler' = "connecting"
  /\ target' = f
  /\ UNCHANGED <<mail, subs, client, channel, task, last_exists, mbox, history>>

(* subscribe connects and selects on the handler's own task, with no       *)
(* timeout on either: the server may never answer.  An error is sent to    *)
(* the client past the channel.                                            *)
Connect ==
  /\ handler = "connecting"
  /\ \/ /\ handler' = "pushing"
        /\ mbox' = [mbox EXCEPT ![target] = Select(target)]
        /\ known' = [known EXCEPT ![target] = Len(mail[target])]
        /\ noticed' = [noticed EXCEPT ![target] = 0]
        /\ announced' = [announced EXCEPT ![target] = 0]
        /\ UNCHANGED target
     \/ /\ handler' = "serving"
        /\ target' = NoFolder
        /\ UNCHANGED <<mbox, history>>
  /\ UNCHANGED <<mail, subs, client, channel, task, last_exists>>

(* The initial unread snapshot.  The send waits for room in the channel.   *)
PushSnapshot ==
  /\ handler = "pushing"
  /\ Len(channel) < ChannelBuffer
  /\ channel' = Append(channel, UnreadUpdate(target, mbox[target]))
  /\ last_exists' = [last_exists EXCEPT ![target] = mbox[target].exists]
  /\ task' = [task EXCEPT ![target] = "select"]
  /\ subs' = subs \cup {target}
  /\ handler' = "serving"
  /\ target' = NoFolder
  /\ UNCHANGED <<mail, client, mbox, history>>

(* Slip: the task is detached and not aborted.                             *)
UnsubscribeSlip(f) ==
  /\ handler = "serving"
  /\ f \in subs
  /\ subs' = subs \ {f}
  /\ UNCHANGED <<mail, handler, target, client, channel, task, last_exists, mbox,
                 history>>

(* Dropping the subscription aborts its task.                              *)
Unsubscribe(f) ==
  /\ handler = "serving"
  /\ f \in subs
  /\ subs' = subs \ {f}
  /\ task' = [task EXCEPT ![f] = "none"]
  /\ UNCHANGED <<mail, handler, target, client, channel, last_exists, mbox,
                 history>>

(* An event goes to the socket; that the browser is gone may go unnoticed. *)
Forward ==
  /\ handler = "serving"
  /\ channel # <<>>
  /\ channel' = Tail(channel)
  /\ UNCHANGED <<mail, bridge, task, last_exists, mbox, history>>

ClientLeaves ==
  /\ client = "online"
  /\ client' = "gone"
  /\ UNCHANGED <<mail, handler, target, subs, channel, task, last_exists, mbox,
                 history>>

(* Slip: the loop only ends when no task can send any more.                *)
CloseSlip ==
  /\ handler = "serving" /\ client = "gone" /\ subs = {}
  /\ handler' = "closed"
  /\ channel' = <<>>
  /\ UNCHANGED <<mail, target, subs, client, task, last_exists, mbox, history>>

(* The loop reads the close frame, or a send or a ping fails; the map is   *)
(* cleared, and then the receiver dropped.                                 *)
Close ==
  /\ handler = "serving" /\ client = "gone"
  /\ handler' = "closed"
  /\ subs' = {}
  /\ channel' = <<>>
  /\ task' = [f \in Folders |-> "none"]
  /\ UNCHANGED <<mail, target, client, last_exists, mbox, history>>

-----------------------------------------------------------------------------
(* run_idle_cycle.  A SELECT that fails costs the session.                 *)
SelectFolder(f) ==
  /\ task[f] = "select"
  /\ \/ /\ mbox' = [mbox EXCEPT ![f] = Select(f)]
        /\ noticed' = [noticed EXCEPT ![f] = @ + New(f)]
        /\ known' = [known EXCEPT ![f] = Len(mail[f])]
        /\ task' = [task EXCEPT ![f] = IF Len(mail[f]) > last_exists[f]
                                         THEN "new" ELSE "unread"]
     \/ /\ task' = [task EXCEPT ![f] = "broken"]
        /\ UNCHANGED <<mbox, noticed, known>>
  /\ UNCHANGED <<mail, bridge, channel, last_exists, announced>>

(* The delta of EXISTS.                                                    *)
Delta(f) == mbox[f].exists - last_exists[f]

(* Slip: does not wait for room in the channel.                            *)
PushNewSlip(f) ==
  /\ task[f] = "new"
  /\ channel' = Append(channel, NewMail(f, Delta(f)))
  /\ announced' = [announced EXCEPT ![f] = @ + Delta(f)]
  /\ task' = [task EXCEPT ![f] = "unread"]
  /\ UNCHANGED <<mail, bridge, last_exists, mbox, known, noticed>>

PushNew(f) ==
  /\ task[f] = "new"
  /\ Len(channel) < ChannelBuffer
  /\ channel' = Append(channel, NewMail(f, Delta(f)))
  /\ announced' = [announced EXCEPT ![f] = @ + Delta(f)]
  /\ task' = [task EXCEPT ![f] = "unread"]
  /\ UNCHANGED <<mail, bridge, last_exists, mbox, known, noticed>>

(* last_exists is set before the second event is sent, grown or not.       *)
PushUnread(f) ==
  /\ task[f] = "unread"
  /\ Len(channel) < ChannelBuffer
  /\ channel' = Append(channel, UnreadUpdate(f, mbox[f]))
  /\ last_exists' = [last_exists EXCEPT ![f] = mbox[f].exists]
  /\ task' = [task EXCEPT ![f] = "idle"]
  /\ UNCHANGED <<mail, bridge, mbox, history>>

(* IDLE ends with news or after 29 minutes, or with an error.              *)
EndIdle(f) ==
  /\ task[f] = "idle"
  /\ \E s \in {"select", "broken"} : task' = [task EXCEPT ![f] = s]
  /\ UNCHANGED <<mail, bridge, channel, last_exists, mbox, history>>

(* Slip: a new session counts the messages from nothing.                   *)
ReconnectSlip(f) ==
  /\ task[f] = "broken"
  /\ task' = [task EXCEPT ![f] = "select"]
  /\ last_exists' = [last_exists EXCEPT ![f] = 0]
  /\ UNCHANGED <<mail, bridge, channel, mbox, history>>

(* After the backoff, or more than one.  last_exists outlives the session. *)
Reconnect(f) ==
  /\ task[f] = "broken"
  /\ task' = [task EXCEPT ![f] = "select"]
  /\ UNCHANGED <<mail, bridge, channel, last_exists, mbox, history>>

-----------------------------------------------------------------------------
Serve == Connect \/ PushSnapshot \/ Forward \/ Close

Bridge(f) == \/ SelectFolder(f) \/ PushNew(f) \/ PushUnread(f)
             \/ EndIdle(f) \/ Reconnect(f)

Next == \/ Serve \/ ClientLeaves
        \/ \E f \in Folders :
             \/ Subscribe(f) \/ Unsubscribe(f) \/ Bridge(f) \/ Arrive(f)
             \/ \E k \in 1 .. MaxMail : MarkRead(f, k) \/ Expunge(f, k)

Spec == Init /\ [][Next]_vars

(* The handler's loop and the tasks run whenever they can; the select! of  *)
(* the handler chooses at random, so it reads a close frame eventually.    *)
(* Nothing is assumed of the steps that wait for an answer of the IMAP     *)
(* server: TCP, TLS, LOGIN, SELECT and the end of IDLE set no timeout.     *)
FairSpec == /\ Spec
            /\ WF_vars(PushSnapshot \/ Forward) /\ SF_vars(Close)
            /\ \A f \in Folders : WF_vars(PushNew(f) \/ PushUnread(f))

-----------------------------------------------------------------------------
(* No message is announced twice, however sessions break, folders shrink   *)
(* and cycles overlap with arrivals: last_exists carries over.             *)
NeverAnnouncedTwice == \A f \in Folders : announced[f] <= noticed[f]

(* The map and the tasks agree, and a closed connection leaves no task     *)
(* behind ("so we don't leak IMAP connections").                           *)
TasksAreSubscribed ==
  /\ \A f \in Folders : task[f] # "none" <=> f \in subs
  /\ handler = "closed" => channel = <<>> /\ subs = {}

(* The handler waits for the room that only it can make.                   *)
Stuck == handler = "pushing" /\ Len(channel) = ChannelBuffer

(* The handler notices that the browser is gone and closes, which ends its *)
(* IMAP sessions, unless it hangs while it subscribes: in a channel that   *)
(* has no room, or with an IMAP server that stays silent.  Commands that   *)
(* the browser left behind, busy tasks and refused connections only delay  *)
(* it.                                                                     *)
ClosesOrIsStuck ==
  client = "gone" ~> \/ handler = "closed"
                     \/ Stuck
                     \/ [](handler = "connecting")

-----------------------------------------------------------------------------
(* handlers/websocket.rs:48 keeps the channel small "because consumers     *)
(* (the WS sender loop) drain quickly; a backlog this large already means  *)
(* the browser is offline and a reconnect will follow": a full channel is  *)
(* drained, or the connection ends.                                        *)
BacklogIsDrained ==
  Len(channel) = ChannelBuffer ~> Len(channel) < ChannelBuffer
=============================================================================
