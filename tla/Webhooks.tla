------------------------------ MODULE Webhooks ------------------------------
(***************************************************************************)
(* Outbound webhooks: the tables webhooks and webhook_deliveries           *)
(* (models/webhook.rs), the task that messages.rs spawns for each event of *)
(* a mailbox and the replay of a logged delivery                           *)
(* (services/webhook_dispatcher.rs), and the owner's changes               *)
(* (handlers/webhooks.rs).                                                 *)
(*                                                                         *)
(* Each SQL statement and each POST is one action; tasks of different      *)
(* events overlap freely.  The hooks belong to one user and listen to the  *)
(* events modelled; what is sent, and the secret that signs it, are not    *)
(* modelled.                                                               *)
(***************************************************************************)
EXTENDS Naturals, FiniteSets

CONSTANTS
  Hooks,        \* the ids a row of webhooks can have
  NoHook,       \* not a hook
  Events,       \* the events, each with the task that dispatches it
  Replays,      \* the requests to redeliver
  MaxAttempts,  \* MAX_DELIVERY_ATTEMPTS
  Limit,        \* the failures at which record_failure deactivates
  MaxFaults,    \* bound: crashes, disconnections, failed database calls
  MaxSwitches   \* bound: how often the owner switches a hook on or off

ASSUME WebhookAssumption ==
  /\ NoHook \notin Hooks
  /\ IsFiniteSet(Events) /\ IsFiniteSet(Replays) /\ Events \cap Replays = {}
  /\ MaxAttempts \in Nat \ {0}
  /\ Limit \in Nat \ {0}
  /\ MaxFaults \in Nat /\ MaxSwitches \in Nat

VARIABLES
  state,     \* state[h]: whether h is there and active, and who made it so
  failures,  \* failures[h]: failure_count
  log,       \* log[t][h]: the row of webhook_deliveries that t left for h
  phase,     \* phase[t]: what task t is doing
  left,      \* left[t]: the hooks of its snapshot t has yet to serve
  hook,      \* hook[t]: the hook t is serving
  tries,     \* tries[t]: the attempts it has made at it
  success,   \* success[t]: whether the last of them was answered with 2xx
  taken,     \* history: taken[t][h]: the POSTs of t that h answered with 2xx
  lost,      \* history: lost[t]: the hooks a fault kept t from logging
  faults,    \* history: crashes, disconnections, failed calls so far
  switches   \* history: the owner's switches so far

tables == <<state, failures, log>>
work == <<phase, left, hook, tries, success>>
vars == <<tables, work, taken, lost, faults, switches>>

Tasks == Events \cup Replays

(* The column active, with its history: the dispatcher suspends, and the   *)
(* owner turns off and resumes.                                            *)
States == {"on", "off", "suspended", "resumed", "deleted"}
Active(h) == state[h] \in {"on", "resumed"}
Exists(h) == state[h] # "deleted"

TypeOK ==
  /\ state \in [Hooks -> States]
  /\ failures \in [Hooks -> 0 .. Cardinality(Tasks)]
  /\ log \in [Tasks -> [Hooks -> {"none", "success", "failure"}]]
  /\ phase \in [Tasks -> {"idle", "posting", "logging", "counting", "done"}]
  /\ left \in [Tasks -> SUBSET Hooks]
  /\ hook \in [Tasks -> Hooks \cup {NoHook}]
  /\ tries \in [Tasks -> 0 .. MaxAttempts]
  /\ success \in [Tasks -> BOOLEAN]
  /\ taken \in [Tasks -> [Hooks -> 0 .. MaxAttempts]]
  /\ lost \in [Tasks -> SUBSET Hooks]
  /\ faults \in 0 .. MaxFaults
  /\ switches \in 0 .. MaxSwitches

Init ==
  /\ state = [h \in Hooks |-> "on"]
  /\ failures = [h \in Hooks |-> 0]
  /\ log = [t \in Tasks |-> [h \in Hooks |-> "none"]]
  /\ phase = [t \in Tasks |-> "idle"]
  /\ left = [t \in Tasks |-> {}]
  /\ hook = [t \in Tasks |-> NoHook]
  /\ tries = [t \in Tasks |-> 0]
  /\ success = [t \in Tasks |-> FALSE]
  /\ taken = [t \in Tasks |-> [h \in Hooks |-> 0]]
  /\ lost = [t \in Tasks |-> {}]
  /\ faults = 0
  /\ switches = 0

Fault == faults < MaxFaults /\ faults' = faults + 1

-----------------------------------------------------------------------------
(* The loop of dispatch_webhook_event: the next of the hooks S, whatever   *)
(* became of it since the snapshot, or the end.                            *)
Serve(t, S) ==
  /\ tries' = [tries EXCEPT ![t] = 0]
  /\ success' = [success EXCEPT ![t] = FALSE]
  /\ \/ \E h \in S : /\ hook' = [hook EXCEPT ![t] = h]
                     /\ left' = [left EXCEPT ![t] = S \ {h}]
                     /\ phase' = [phase EXCEPT ![t] = "posting"]
     \/ /\ S = {}
        /\ hook' = [hook EXCEPT ![t] = NoHook]
        /\ left' = [left EXCEPT ![t] = {}]
        /\ phase' = [phase EXCEPT ![t] = "done"]

(* The active hooks are read once; a failed query ends the dispatch.  The  *)
(* query has no ORDER BY.                                                  *)
Dispatch(e) ==
  /\ phase[e] = "idle"
  /\ \/ Serve(e, {h \in Hooks : Active(h)}) /\ UNCHANGED faults
     \/ Serve(e, {}) /\ Fault
  /\ UNCHANGED <<tables, taken, lost, switches>>

(* redeliver: the hook must exist, active or not, and the row replayed     *)
(* must be one of its own.                                                 *)
Replay(r, h) ==
  /\ phase[r] = "idle"
  /\ Exists(h)
  /\ \E t \in Tasks : log[t][h] # "none"
  /\ Serve(r, {h})
  /\ UNCHANGED <<tables, taken, lost, faults, switches>>

(* Slip: every attempt is made, and the last one decides.                  *)
PostEveryTime(t, answered) ==
  /\ phase[t] = "posting"
  /\ tries' = [tries EXCEPT ![t] = @ + 1]
  /\ success' = [success EXCEPT ![t] = answered]
  /\ taken' = [taken EXCEPT ![t][hook[t]] = IF answered THEN @ + 1 ELSE @]
  /\ phase' = [phase EXCEPT ![t] =
                 IF tries'[t] = MaxAttempts THEN "logging" ELSE "posting"]
  /\ UNCHANGED <<tables, left, hook, lost, faults, switches>>

(* Slip: only an answer ends the attempts.                                 *)
PostForEver(t, answered) ==
  /\ phase[t] = "posting"
  /\ tries' = [tries EXCEPT ![t] = @ + 1]
  /\ success' = [success EXCEPT ![t] = answered]
  /\ taken' = [taken EXCEPT ![t][hook[t]] = IF answered THEN @ + 1 ELSE @]
  /\ phase' = [phase EXCEPT ![t] = IF answered THEN "logging" ELSE "posting"]
  /\ UNCHANGED <<tables, left, hook, lost, faults, switches>>

(* One attempt.  Without an answer of 2xx the receiver may or may not have *)
(* the event.                                                              *)
Post(t, answered) ==
  /\ phase[t] = "posting"
  /\ tries' = [tries EXCEPT ![t] = @ + 1]
  /\ success' = [success EXCEPT ![t] = answered]
  /\ taken' = [taken EXCEPT ![t][hook[t]] = IF answered THEN @ + 1 ELSE @]
  /\ phase' = [phase EXCEPT ![t] =
                 IF answered \/ tries'[t] = MaxAttempts THEN "logging" ELSE "posting"]
  /\ UNCHANGED <<tables, left, hook, lost, faults, switches>>

(* WebhookDelivery::create.  A hook that is gone refuses the row, and the  *)
(* call may fail: a dispatch goes on, a replay returns the error.          *)
Log(t) ==
  /\ phase[t] = "logging"
  /\ \/ /\ Exists(hook[t])
        /\ log' = [log EXCEPT ![t][hook[t]] =
                     IF success[t] THEN "success" ELSE "failure"]
        /\ phase' = [phase EXCEPT ![t] = "counting"]
        /\ UNCHANGED <<left, hook, tries, success, lost, faults>>
     \/ /\ \/ ~Exists(hook[t]) /\ UNCHANGED <<lost, faults>>
           \/ Fault /\ lost' = [lost EXCEPT ![t] = @ \cup {hook[t]}]
        /\ IF t \in Replays
             THEN Serve(t, {})
             ELSE /\ phase' = [phase EXCEPT ![t] = "counting"]
                  /\ UNCHANGED <<left, hook, tries, success>>
        /\ UNCHANGED log
  /\ UNCHANGED <<state, failures, taken, switches>>

(* record_success.                                                         *)
RecordSuccess(h) ==
  /\ failures' = [failures EXCEPT ![h] = 0]
  /\ UNCHANGED state

(* Slip: the limit is one on the number of attempts.                       *)
RecordAttempts(h) ==
  LET count == failures[h] + MaxAttempts
  IN /\ failures' = [failures EXCEPT ![h] = failures[h] + 1]
     /\ state' = [state EXCEPT ![h] =
                    IF count >= Limit /\ Active(h) THEN "suspended" ELSE @]

(* record_failure: one statement.                                          *)
RecordFailure(h) ==
  LET count == failures[h] + 1
  IN /\ failures' = [failures EXCEPT ![h] = count]
     /\ state' = [state EXCEPT ![h] =
                    IF count >= Limit /\ Active(h) THEN "suspended" ELSE @]

(* Slip: a failed delivery ends the dispatch.                              *)
CountAndStop(t) ==
  /\ phase[t] = "counting"
  /\ IF Exists(hook[t])
       THEN IF success[t] THEN RecordSuccess(hook[t]) ELSE RecordFailure(hook[t])
       ELSE UNCHANGED <<state, failures>>
  /\ Serve(t, IF success[t] THEN left[t] ELSE {})
  /\ UNCHANGED <<log, taken, lost, faults, switches>>

(* What the statement does to a row that is not there, and what happens    *)
(* when it fails: nothing, and nobody looks.                               *)
Count(t) ==
  /\ phase[t] = "counting"
  /\ \/ /\ Exists(hook[t])
        /\ IF success[t] THEN RecordSuccess(hook[t]) ELSE RecordFailure(hook[t])
        /\ UNCHANGED faults
     \/ /\ \/ ~Exists(hook[t]) /\ UNCHANGED faults
           \/ Fault
        /\ UNCHANGED <<state, failures>>
  /\ Serve(t, left[t])
  /\ UNCHANGED <<log, taken, lost, switches>>

(* The tasks T are dropped where they are.                                 *)
Drop(T) ==
  /\ Fault
  /\ phase' = [t \in Tasks |-> IF t \in T THEN "done" ELSE phase[t]]
  /\ lost' = [t \in Tasks |->
                IF t \notin T THEN lost[t]
                ELSE lost[t] \cup {h \in (left[t] \cup {hook[t]}) \ {NoHook} :
                                     log[t][h] = "none"}]
  /\ left' = [t \in Tasks |-> IF t \in T THEN {} ELSE left[t]]
  /\ hook' = [t \in Tasks |-> IF t \in T THEN NoHook ELSE hook[t]]
  /\ tries' = [t \in Tasks |-> IF t \in T THEN 0 ELSE tries[t]]
  /\ success' = [t \in Tasks |-> t \notin T /\ success[t]]
  /\ UNCHANGED <<tables, taken, switches>>

Running == {t \in Tasks : phase[t] \notin {"idle", "done"}}

(* The process ends, or the client of a replay hangs up and axum drops the *)
(* handler.                                                                *)
Crash == Running # {} /\ Drop(Running)
HangUp(r) == r \in Running /\ Drop({r})

-----------------------------------------------------------------------------
(* update_webhook with a new value of active.  The count stays.            *)
Switch(h) ==
  /\ Exists(h)
  /\ switches < MaxSwitches /\ switches' = switches + 1
  /\ state' = [state EXCEPT ![h] = IF Active(h) THEN "off" ELSE "resumed"]
  /\ UNCHANGED <<failures, log, work, taken, lost, faults>>

(* delete_webhook, with the cascade to its deliveries.                     *)
Delete(h) ==
  /\ Exists(h)
  /\ state' = [state EXCEPT ![h] = "deleted"]
  /\ failures' = [failures EXCEPT ![h] = 0]
  /\ log' = [t \in Tasks |-> [log[t] EXCEPT ![h] = "none"]]
  /\ UNCHANGED <<work, taken, lost, faults, switches>>

-----------------------------------------------------------------------------
Run(t) == Log(t) \/ Count(t) \/ \E answered \in BOOLEAN : Post(t, answered)

Next == \/ \E e \in Events : Dispatch(e)
        \/ \E r \in Replays : HangUp(r) \/ \E h \in Hooks : Replay(r, h)
        \/ \E t \in Tasks : Run(t)
        \/ Crash
        \/ \E h \in Hooks : Switch(h) \/ Delete(h)

Spec == Init /\ [][Next]_vars

(* A POST ends within ten seconds, a pause within two, and a database call *)
(* returns: a task that runs goes on.                                      *)
FairSpec == Spec /\ \A t \in Tasks : WF_vars(Run(t))

-----------------------------------------------------------------------------
FailedDeliveries(h) == {t \in Tasks : log[t][h] = "failure"}

(* record_failure deactivates for deliveries that failed, never for their  *)
(* attempts, however they overlap: a hook that it suspended has that many  *)
(* failures on record, but for rows that faults lost.  And a hook that the *)
(* owner never touched is suspended in time.                               *)
SuspensionIsEarned ==
  \A h \in Hooks :
    /\ failures[h] <= Cardinality(FailedDeliveries(h)) + faults
    /\ state[h] = "suspended" => Cardinality(FailedDeliveries(h)) + faults >= Limit
    /\ state[h] = "on" => failures[h] < Limit

(* The retries of deliver_with_retry repeat only what was not answered: an *)
(* event is answered with 2xx by a receiver once at most for each task.    *)
(* And the log, which the owner reads to decide on a replay, says success  *)
(* exactly of those that were.                                             *)
LogTellsTheTruth ==
  \A t \in Tasks, h \in Hooks :
    /\ taken[t][h] <= 1
    /\ log[t][h] = "success" => taken[t][h] = 1
    /\ log[t][h] = "failure" => taken[t][h] = 0

(* A slow or dead receiver delays the other hooks of the event, which the  *)
(* loop serves one after another, but keeps none from its delivery: each   *)
(* hook of the snapshot gets its row, unless it is deleted, or a fault     *)
(* hits it.                                                                *)
EveryHookIsServed ==
  \A e \in Events, h \in Hooks :
    h \in left[e] \cup {hook[e]} ~> \/ log[e][h] # "none"
                                    \/ state[h] = "deleted"
                                    \/ h \in lost[e]

=============================================================================
