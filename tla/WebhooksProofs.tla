--------------------------- MODULE WebhooksProofs ---------------------------
(***************************************************************************)
(* Proofs about Webhooks, for any hooks, any finite sets of events and     *)
(* replays, and any limits.                                                *)
(***************************************************************************)
EXTENDS Webhooks, FiniteSetTheorems, TLAPS

Busy(t) == phase[t] \in {"posting", "logging", "counting"}

\* What task t has yet to do: it has not started, or h is on its list.
Awaits(t, h) == phase[t] = "idle" \/ h \in left[t]

\* A task serves one hook at a time, and none of its list twice.
Shape(t) ==
  /\ Busy(t) <=> hook[t] # NoHook
  /\ hook[t] \notin left[t]
  /\ ~Busy(t) => left[t] = {}
  /\ phase[t] = "posting" => tries[t] < MaxAttempts /\ ~success[t]

\* A hook that the task has not got an answer from has no row and no event,
\* and success[t] is about the hook it serves.
Answers(t) ==
  /\ \A h \in Hooks :
       Awaits(t, h) \/ (phase[t] = "posting" /\ hook[t] = h)
         => log[t][h] = "none" /\ taken[t][h] = 0
  /\ phase[t] = "logging" => /\ log[t][hook[t]] = "none"
                             /\ taken[t][hook[t]] = IF success[t] THEN 1 ELSE 0

Truth(t) ==
  \A h \in Hooks : /\ taken[t][h] <= 1
                   /\ log[t][h] = "success" => taken[t][h] = 1
                   /\ log[t][h] = "failure" => taken[t][h] = 0

Sound(t) == Shape(t) /\ Answers(t) /\ Truth(t)

\* The failures that are logged or were lost to a fault, and not counted yet;
\* and the tasks that may still count one for h.
Pending(h) == {t \in Tasks : phase[t] = "counting" /\ hook[t] = h /\ ~success[t]}
Ahead(h) == {t \in Tasks : Awaits(t, h) \/ hook[t] = h}

\* The count never runs ahead of the rows and the faults, nor of the tasks.
Ledger(h) ==
  /\ Exists(h) =>
       failures[h] + Cardinality(Pending(h)) <= Cardinality(FailedDeliveries(h)) + faults
  /\ failures[h] + Cardinality(Ahead(h)) <= Cardinality(Tasks)
  /\ state[h] = "deleted" => failures[h] = 0
  /\ state[h] = "suspended" => Cardinality(FailedDeliveries(h)) + faults >= Limit
  /\ state[h] = "on" => failures[h] < Limit

Ranges ==
  /\ state \in [Hooks -> States]
  /\ failures \in [Hooks -> Nat]
  /\ log \in [Tasks -> [Hooks -> {"none", "success", "failure"}]]
  /\ phase \in [Tasks -> {"idle", "posting", "logging", "counting", "done"}]
  /\ left \in [Tasks -> SUBSET Hooks]
  /\ hook \in [Tasks -> Hooks \cup {NoHook}]
  /\ tries \in [Tasks -> 0 .. MaxAttempts]
  /\ success \in [Tasks -> BOOLEAN]
  /\ taken \in [Tasks -> [Hooks -> Nat]]
  /\ lost \in [Tasks -> SUBSET Hooks]
  /\ faults \in 0 .. MaxFaults
  /\ switches \in 0 .. MaxSwitches

TInv == Ranges /\ \A t \in Tasks : Sound(t)
HInv == \A h \in Hooks : Ledger(h)

-----------------------------------------------------------------------------
(* A task that a step leaves alone stays as sound as it was.               *)
LEMMA Alone ==
  ASSUME NEW t \in Tasks, Sound(t),
         phase'[t] = phase[t], left'[t] = left[t], hook'[t] = hook[t],
         tries'[t] = tries[t], success'[t] = success[t],
         log'[t] = log[t], taken'[t] = taken[t]
  PROVE  Sound(t)'
  BY DEF Sound, Shape, Answers, Truth, Busy, Awaits

(* Going on to the next of the hooks S, of which the task has no answer.   *)
LEMMA ServeKeeps ==
  ASSUME Ranges, NEW t \in Tasks, NEW S \in SUBSET Hooks, Serve(t, S)
  PROVE  /\ phase' \in [Tasks -> {"idle", "posting", "logging", "counting", "done"}]
         /\ left' \in [Tasks -> SUBSET Hooks]
         /\ hook' \in [Tasks -> Hooks \cup {NoHook}]
         /\ tries' \in [Tasks -> 0 .. MaxAttempts]
         /\ success' \in [Tasks -> BOOLEAN]
         /\ \A u \in Tasks \ {t} :
              /\ phase'[u] = phase[u] /\ left'[u] = left[u] /\ hook'[u] = hook[u]
              /\ tries'[u] = tries[u] /\ success'[u] = success[u]
         /\ phase'[t] \in {"posting", "done"}
         /\ tries'[t] = 0 /\ success'[t] = FALSE
         /\ left'[t] \subseteq S /\ hook'[t] \notin left'[t]
         /\ phase'[t] = "posting" => hook'[t] \in S
         /\ phase'[t] = "done" => hook'[t] = NoHook /\ left'[t] = {}
<1> USE WebhookAssumption
<1>1. CASE \E h \in S : /\ hook' = [hook EXCEPT ![t] = h]
                        /\ left' = [left EXCEPT ![t] = S \ {h}]
                        /\ phase' = [phase EXCEPT ![t] = "posting"]
  BY <1>1 DEF Serve, Ranges
<1>2. CASE /\ S = {}
           /\ hook' = [hook EXCEPT ![t] = NoHook]
           /\ left' = [left EXCEPT ![t] = {}]
           /\ phase' = [phase EXCEPT ![t] = "done"]
  BY <1>2 DEF Serve, Ranges
<1>3. QED
  BY <1>1, <1>2 DEF Serve

(* The same for the soundness of the task that goes on.                    *)
LEMMA ServeSound ==
  ASSUME Ranges, NEW t \in Tasks, NEW S \in SUBSET Hooks, Serve(t, S), Truth(t)',
         \A h \in S : log'[t][h] = "none" /\ taken'[t][h] = 0
  PROVE  Sound(t)'
<1>1. /\ phase'[t] \in {"posting", "done"}
      /\ tries'[t] = 0 /\ success'[t] = FALSE
      /\ left'[t] \subseteq S /\ hook'[t] \notin left'[t]
      /\ phase'[t] = "posting" => hook'[t] \in S
      /\ phase'[t] = "done" => hook'[t] = NoHook /\ left'[t] = {}
  BY ServeKeeps
<1>2. 0 < MaxAttempts /\ NoHook \notin Hooks
  BY WebhookAssumption
<1>3. Shape(t)'
  BY <1>1, <1>2 DEF Shape, Busy
<1>4. Answers(t)'
  BY <1>1 DEF Answers, Awaits
<1>5. QED
  BY <1>3, <1>4 DEF Sound

-----------------------------------------------------------------------------
(* A fault counts, within its bound.                                       *)
LEMMA FaultType ==
  ASSUME Ranges, Fault
  PROVE  faults' \in 0 .. MaxFaults /\ faults' = faults + 1
  BY WebhookAssumption DEF Ranges, Fault

(* What each step does to the tasks.                                       *)
LEMMA InitTasks == Init => TInv
  BY WebhookAssumption
     DEF Init, TInv, Ranges, States, Sound, Shape, Answers, Truth, Busy, Awaits

LEMMA DispatchTasks ==
  ASSUME TInv, NEW t \in Tasks, NEW S \in SUBSET Hooks, phase[t] = "idle", Serve(t, S),
         UNCHANGED <<tables, taken, lost, switches>>, faults' \in 0 .. MaxFaults
  PROVE  TInv'
<1>1. Ranges'
  BY ServeKeeps DEF TInv, Ranges, tables
<1>2. Sound(t)'
  <2>1. \A h \in Hooks : log'[t][h] = "none" /\ taken'[t][h] = 0
    BY DEF TInv, Sound, Answers, Awaits, tables
  <2>2. Truth(t)'
    BY <2>1 DEF Truth
  <2>3. QED
    BY <2>1, <2>2, ServeSound DEF TInv
<1>3. ASSUME NEW u \in Tasks \ {t}
      PROVE  Sound(u)'
  BY ServeKeeps, Alone DEF TInv, tables
<1>4. QED
  BY <1>1, <1>2, <1>3 DEF TInv

LEMMA PostTasks ==
  ASSUME TInv, NEW t \in Tasks, NEW answered \in BOOLEAN, Post(t, answered)
  PROVE  TInv'
<1> USE WebhookAssumption
<1>1. hook[t] \in Hooks /\ tries[t] < MaxAttempts /\ ~success[t]
  BY DEF Post, TInv, Ranges, Sound, Shape, Busy
<1>2. taken[t][hook[t]] = 0 /\ log[t][hook[t]] = "none"
  BY <1>1 DEF Post, TInv, Sound, Answers
<1>3. tries[t] \in Nat /\ tries'[t] = tries[t] + 1
  BY DEF Post, TInv, Ranges
<1>4. Ranges'
  BY <1>1, <1>3 DEF Post, TInv, Ranges, tables
<1>5. Sound(t)'
  <2>1. /\ success'[t] = answered
        /\ phase'[t] = IF answered \/ tries'[t] = MaxAttempts THEN "logging" ELSE "posting"
        /\ \A h \in Hooks :
             taken'[t][h] = IF h = hook[t] /\ answered THEN 1 ELSE taken[t][h]
    BY <1>1, <1>2 DEF Post, TInv, Ranges
  <2>2. Shape(t)'
    BY <1>1, <1>3, <2>1 DEF Post, TInv, Sound, Shape, Busy
  <2>3. Answers(t)'
    BY <1>1, <1>2, <2>1 DEF Post, TInv, Sound, Shape, Answers, Awaits, tables
  <2>4. Truth(t)'
    BY <1>1, <1>2, <2>1 DEF Post, TInv, Sound, Truth, tables
  <2>5. QED
    BY <2>2, <2>3, <2>4 DEF Sound
<1>6. ASSUME NEW u \in Tasks \ {t}
      PROVE  Sound(u)'
  BY Alone DEF Post, TInv, Ranges, tables
<1>7. QED
  BY <1>4, <1>5, <1>6 DEF TInv

(* Logging ends in counting, with the row or without it, or, for a replay  *)
(* that fails, at once.                                                    *)
LEMMA LogTasks ==
  ASSUME TInv, NEW t \in Tasks, Log(t)
  PROVE  TInv'
<1>1. hook[t] \in Hooks
  BY DEF Log, TInv, Ranges, Sound, Shape, Busy
<1>2. log[t][hook[t]] = "none" /\ taken[t][hook[t]] = IF success[t] THEN 1 ELSE 0
  BY DEF Log, TInv, Sound, Answers
<1>3. faults' \in 0 .. MaxFaults /\ lost' \in [Tasks -> SUBSET Hooks]
  <2>1. \/ UNCHANGED <<lost, faults>>
        \/ Fault /\ lost' = [lost EXCEPT ![t] = @ \cup {hook[t]}]
    BY DEF Log
  <2>2. faults \in 0 .. MaxFaults /\ lost \in [Tasks -> SUBSET Hooks]
    BY DEF TInv, Ranges
  <2>3. CASE Fault /\ lost' = [lost EXCEPT ![t] = @ \cup {hook[t]}]
    <3>1. faults' \in 0 .. MaxFaults
      BY <2>3, FaultType DEF TInv
    <3>2. lost[t] \cup {hook[t]} \in SUBSET Hooks
      BY <1>1, <2>2
    <3>3. QED
      BY <2>2, <2>3, <3>1, <3>2
  <2>4. QED
    BY <2>1, <2>2, <2>3
<1>4. CASE log' = [log EXCEPT ![t][hook[t]] = IF success[t] THEN "success" ELSE "failure"]
           /\ phase' = [phase EXCEPT ![t] = "counting"]
           /\ UNCHANGED <<left, hook, tries, success>>
  <2>1. \A h \in Hooks : log'[t][h] = IF h # hook[t] THEN log[t][h]
                                      ELSE IF success[t] THEN "success" ELSE "failure"
    BY <1>4, <1>1 DEF TInv, Ranges
  <2>2. Ranges'
    BY <1>1, <1>3, <1>4 DEF Log, TInv, Ranges
  <2>3. Shape(t)' /\ Answers(t)' /\ Truth(t)'
    BY <1>1, <1>2, <1>4, <2>1 DEF Log, TInv, Ranges, Sound, Shape, Answers, Truth, Busy, Awaits
  <2>4. ASSUME NEW u \in Tasks \ {t}
        PROVE  Sound(u)'
    BY <1>4, Alone DEF Log, TInv, Ranges
  <2>5. QED
    BY <2>2, <2>3, <2>4 DEF TInv, Sound
<1>5. CASE phase' = [phase EXCEPT ![t] = "counting"]
           /\ UNCHANGED <<left, hook, tries, success, log>>
  <2>1. Ranges'
    BY <1>3, <1>5 DEF Log, TInv, Ranges
  <2>2. Shape(t)' /\ Answers(t)' /\ Truth(t)'
    BY <1>5 DEF Log, TInv, Ranges, Sound, Shape, Answers, Truth, Busy, Awaits
  <2>3. ASSUME NEW u \in Tasks \ {t}
        PROVE  Sound(u)'
    BY <1>5, Alone DEF Log, TInv, Ranges
  <2>4. QED
    BY <2>1, <2>2, <2>3 DEF TInv, Sound
<1>6. CASE Serve(t, {}) /\ UNCHANGED log
  <2>1. Ranges'
    BY <1>3, <1>6, ServeKeeps DEF Log, TInv, Ranges
  <2>2. Sound(t)'
    BY <1>6, ServeSound DEF Log, TInv, Sound, Truth
  <2>3. ASSUME NEW u \in Tasks \ {t}
        PROVE  Sound(u)'
    BY <1>6, ServeKeeps, Alone DEF Log, TInv
  <2>4. QED
    BY <2>1, <2>2, <2>3 DEF TInv
<1>7. QED
  BY <1>4, <1>5, <1>6 DEF Log

LEMMA CountTasks ==
  ASSUME TInv, NEW t \in Tasks, Count(t)
  PROVE  TInv'
<1>1. hook[t] \in Hooks /\ left[t] \in SUBSET Hooks
  BY DEF Count, TInv, Ranges, Sound, Shape, Busy
<1>2. /\ state' \in [Hooks -> States] /\ failures' \in [Hooks -> Nat]
      /\ faults' \in 0 .. MaxFaults
  <2>1. faults' = faults \/ Fault
    BY DEF Count
  <2>2. \/ RecordSuccess(hook[t])
        \/ RecordFailure(hook[t])
        \/ UNCHANGED <<state, failures>>
    BY DEF Count
  <2>3. CASE RecordSuccess(hook[t])
    BY <1>1, <2>1, <2>3, FaultType DEF RecordSuccess, TInv, Ranges
  <2>4. CASE RecordFailure(hook[t])
    <3>1. failures' = [failures EXCEPT ![hook[t]] = failures[hook[t]] + 1]
      BY <2>4 DEF RecordFailure
    <3>2. failures[hook[t]] + 1 \in Nat
      BY <1>1 DEF TInv, Ranges
    <3>3. failures' \in [Hooks -> Nat]
      BY <3>1, <3>2 DEF TInv, Ranges
    <3>4. state' \in [Hooks -> States]
      BY <2>4 DEF RecordFailure, TInv, Ranges, States
    <3>5. QED
      BY <2>1, <3>3, <3>4, FaultType DEF TInv, Ranges
  <2>5. QED
    BY <2>1, <2>2, <2>3, <2>4, FaultType DEF TInv, Ranges
<1>3. Ranges'
  BY <1>1, <1>2, ServeKeeps DEF Count, TInv, Ranges
<1>4. Sound(t)'
  <2>1. \A h \in left[t] : log'[t][h] = "none" /\ taken'[t][h] = 0
    BY <1>1 DEF Count, TInv, Sound, Answers, Awaits
  <2>2. Truth(t)'
    BY DEF Count, TInv, Sound, Truth
  <2>3. QED
    BY <1>1, <2>1, <2>2, ServeSound DEF Count, TInv
<1>5. ASSUME NEW u \in Tasks \ {t}
      PROVE  Sound(u)'
  BY <1>1, ServeKeeps, Alone DEF Count, TInv
<1>6. QED
  BY <1>3, <1>4, <1>5 DEF TInv

LEMMA DropTasks ==
  ASSUME TInv, NEW T \in SUBSET Tasks, T \subseteq Running, Drop(T)
  PROVE  TInv'
<1>1. Ranges'
  BY WebhookAssumption DEF Drop, Fault, TInv, Ranges, tables
<1>2. ASSUME NEW t \in T
      PROVE  Sound(t)'
  BY WebhookAssumption
     DEF Drop, TInv, Ranges, Sound, Shape, Answers, Truth, Busy, Awaits, tables
<1>3. ASSUME NEW t \in Tasks \ T
      PROVE  Sound(t)'
  BY Alone DEF Drop, TInv, Ranges, tables
<1>4. QED
  BY <1>1, <1>2, <1>3 DEF TInv

LEMMA OwnerTasks ==
  ASSUME TInv, NEW h \in Hooks, Switch(h) \/ Delete(h)
  PROVE  TInv'
<1>1. Ranges'
  <2>1. state' \in [Hooks -> States] /\ failures' \in [Hooks -> Nat]
    BY DEF Switch, Delete, TInv, Ranges, States
  <2>2. log' \in [Tasks -> [Hooks -> {"none", "success", "failure"}]]
    <3>1. \A t \in Tasks :
            [log[t] EXCEPT ![h] = "none"] \in [Hooks -> {"none", "success", "failure"}]
      BY DEF TInv, Ranges
    <3>2. log' = log \/ log' = [t \in Tasks |-> [log[t] EXCEPT ![h] = "none"]]
      BY DEF Switch, Delete
    <3>3. CASE log' = log
      BY <3>3 DEF TInv, Ranges
    <3>4. CASE log' = [t \in Tasks |-> [log[t] EXCEPT ![h] = "none"]]
      BY <3>1, <3>4
    <3>5. QED
      BY <3>2, <3>3, <3>4
  <2>3. switches' \in 0 .. MaxSwitches /\ UNCHANGED <<work, taken, lost, faults>>
    <3>1. switches \in 0 .. MaxSwitches
      BY DEF TInv, Ranges
    <3>2. CASE Switch(h)
      BY <3>1, <3>2, WebhookAssumption DEF Switch
    <3>3. CASE Delete(h)
      BY <3>1, <3>3 DEF Delete
    <3>4. QED
      BY <3>2, <3>3
  <2>4. QED
    BY <2>1, <2>2, <2>3 DEF TInv, Ranges, work
<1>2. ASSUME NEW t \in Tasks
      PROVE  Sound(t)'
  <2>1. \A k \in Hooks : log'[t][k] \in {log[t][k], "none"}
    BY DEF Switch, Delete, TInv, Ranges
  <2>2. UNCHANGED <<phase, left, hook, tries, success, taken>>
    BY DEF Switch, Delete, work
  <2>3. Shape(t)' /\ Truth(t)'
    BY <2>1, <2>2 DEF TInv, Sound, Shape, Truth, Busy
  <2>4. phase[t] = "logging" => hook[t] \in Hooks
    BY DEF TInv, Ranges, Sound, Shape, Busy
  <2>5. Answers(t)'
    BY <2>1, <2>2, <2>4 DEF TInv, Sound, Answers, Awaits
  <2>6. QED
    BY <2>3, <2>5 DEF Sound
<1>3. QED
  BY <1>1, <1>2 DEF TInv
-----------------------------------------------------------------------------
(* The tasks are finitely many, and so are those that a count is about.    *)
LEMMA TasksAreFinite == IsFiniteSet(Tasks)
  BY WebhookAssumption, FS_Union DEF Tasks

LEMMA TaskSets ==
  ASSUME NEW S \in SUBSET Tasks
  PROVE  /\ IsFiniteSet(S) /\ Cardinality(S) \in Nat
         /\ \A T \in SUBSET S : Cardinality(T) <= Cardinality(S)
         /\ \A t \in S : Cardinality(S \ {t}) = Cardinality(S) - 1
         /\ \A t \in Tasks \ S : Cardinality(S \cup {t}) = Cardinality(S) + 1
<1>1. IsFiniteSet(S)
  BY TasksAreFinite, FS_Subset
<1>2. QED
  BY <1>1, FS_CardinalityType, FS_Subset, FS_RemoveElement, FS_AddElement

LEMMA Counted ==
  ASSUME NEW h \in Hooks
  PROVE  /\ Pending(h) \in SUBSET Tasks /\ Ahead(h) \in SUBSET Tasks
         /\ FailedDeliveries(h) \in SUBSET Tasks
         /\ Cardinality(Pending(h)) \in Nat /\ Cardinality(Ahead(h)) \in Nat
         /\ Cardinality(FailedDeliveries(h)) \in Nat
         /\ Cardinality(Tasks) \in Nat
<1>1. /\ Pending(h) \in SUBSET Tasks /\ Ahead(h) \in SUBSET Tasks
      /\ FailedDeliveries(h) \in SUBSET Tasks /\ Tasks \in SUBSET Tasks
  BY DEF Pending, Ahead, FailedDeliveries
<1>2. QED
  BY <1>1, TaskSets

(* A step that starts no failure, takes no row of h away and leaves its    *)
(* count keeps the ledger.                                                 *)
LEMMA Settled ==
  ASSUME Ranges, NEW h \in Hooks, Ledger(h), faults' \in Nat, faults <= faults',
         failures'[h] = failures[h], state'[h] = state[h],
         FailedDeliveries(h) \subseteq FailedDeliveries(h)',
         Pending(h)' \subseteq Pending(h), Ahead(h)' \subseteq Ahead(h)
  PROVE  Ledger(h)'
<1>1. failures[h] \in Nat /\ faults \in Nat /\ Limit \in Nat
  BY WebhookAssumption DEF Ranges
<1>2. FailedDeliveries(h)' \in SUBSET Tasks
  BY DEF FailedDeliveries
<1>3. /\ Cardinality(Pending(h)') <= Cardinality(Pending(h))
      /\ Cardinality(Ahead(h)') <= Cardinality(Ahead(h))
      /\ Cardinality(FailedDeliveries(h)) <= Cardinality(FailedDeliveries(h)')
      /\ Cardinality(Pending(h)') \in Nat /\ Cardinality(Ahead(h)') \in Nat
      /\ Cardinality(FailedDeliveries(h)') \in Nat
  <2>1. Pending(h)' \in SUBSET Tasks /\ Ahead(h)' \in SUBSET Tasks
    BY Counted
  <2>2. QED
    BY <1>2, <2>1, Counted, TaskSets
<1>4. QED
  BY <1>1, <1>3, Counted DEF Ledger, Exists

LEMMA InitLedger == Init => HInv
<1> SUFFICES ASSUME Init, NEW h \in Hooks
             PROVE  Ledger(h)
  BY DEF HInv
<1>1. Pending(h) = {}
  BY DEF Init, Pending
<1>2. Cardinality(Ahead(h)) <= Cardinality(Tasks)
  BY Counted, TaskSets
<1>3. Cardinality(Pending(h)) = 0
  BY <1>1, FS_EmptySet
<1>4. QED
  BY <1>2, <1>3, Counted, WebhookAssumption DEF Init, Ledger, Exists

LEMMA DispatchLedger ==
  ASSUME TInv, NEW h \in Hooks, Ledger(h), NEW t \in Tasks, NEW S \in SUBSET Hooks,
         phase[t] = "idle", Serve(t, S), UNCHANGED tables, faults' \in Nat, faults <= faults'
  PROVE  Ledger(h)'
<1>1. Ranges
  BY DEF TInv
<1>2. /\ failures'[h] = failures[h] /\ state'[h] = state[h]
      /\ FailedDeliveries(h) \subseteq FailedDeliveries(h)'
  BY DEF tables, FailedDeliveries
<1>3. Pending(h)' \subseteq Pending(h)
  BY <1>1, ServeKeeps DEF Pending
<1>4. Ahead(h)' \subseteq Ahead(h)
  BY <1>1, ServeKeeps DEF Ahead, Awaits
<1>5. QED
  BY <1>1, <1>2, <1>3, <1>4, Settled

LEMMA PostLedger ==
  ASSUME TInv, NEW h \in Hooks, Ledger(h), NEW t \in Tasks, NEW answered \in BOOLEAN,
         Post(t, answered)
  PROVE  Ledger(h)'
<1>1. Ranges
  BY DEF TInv
<1>2. /\ failures'[h] = failures[h] /\ state'[h] = state[h]
      /\ FailedDeliveries(h) \subseteq FailedDeliveries(h)'
      /\ faults' \in Nat /\ faults <= faults'
  BY <1>1 DEF Post, tables, FailedDeliveries, Ranges
<1>3. Pending(h)' \subseteq Pending(h) /\ Ahead(h)' \subseteq Ahead(h)
  BY <1>1 DEF Post, Pending, Ahead, Awaits, Ranges
<1>4. QED
  BY <1>1, <1>2, <1>3, Settled

(* A failure waits to be counted only once it is on record, or lost.       *)
LEMMA LogLedger ==
  ASSUME TInv, NEW h \in Hooks, Ledger(h), NEW t \in Tasks, Log(t)
  PROVE  Ledger(h)'
<1> DEFINE k == hook[t]
<1>1. k \in Hooks /\ log[t][k] = "none" /\ Ranges
  BY DEF Log, TInv, Ranges, Sound, Shape, Answers, Busy
<1>2. state'[h] = state[h] /\ failures'[h] = failures[h] /\ t \notin Pending(h)
  BY DEF Log, Pending
<1>3. faults \in Nat /\ faults' \in Nat /\ faults <= faults'
  BY <1>1, FaultType DEF Log, Ranges
<1>4. FailedDeliveries(h) \subseteq FailedDeliveries(h)'
  <2>1. \A u \in Tasks : log[u][h] = "failure" => log'[u][h] = "failure"
    <3>1. log' = log \/ \E row : log' = [log EXCEPT ![t][k] = row]
      BY DEF Log
    <3>2. \A u \in Tasks : log'[u][h] = log[u][h] \/ (u = t /\ h = k)
      BY <1>1, <3>1 DEF Ranges
    <3>3. QED
      BY <1>1, <3>2
  <2>2. QED
    BY <2>1 DEF FailedDeliveries
<1>5. Ahead(h)' \subseteq Ahead(h)
  <2>1. CASE Serve(t, {})
    <3>1. /\ phase'[t] = "done" /\ hook'[t] = NoHook /\ left'[t] = {}
          /\ \A u \in Tasks \ {t} :
               phase'[u] = phase[u] /\ left'[u] = left[u] /\ hook'[u] = hook[u]
      BY <1>1, <2>1, ServeKeeps
    <3>2. h # NoHook
      BY WebhookAssumption
    <3>3. QED
      BY <3>1, <3>2 DEF Ahead, Awaits
  <2>2. CASE phase' = [phase EXCEPT ![t] = "counting"] /\ UNCHANGED <<left, hook>>
    BY <1>1, <2>2 DEF Ahead, Awaits, Ranges
  <2>3. QED
    BY <2>1, <2>2 DEF Log
<1>6. CASE Pending(h)' \subseteq Pending(h)
  BY <1>1, <1>2, <1>3, <1>4, <1>5, <1>6, Settled
<1>7. CASE ~(Pending(h)' \subseteq Pending(h))
  <2>1. h = k /\ ~success[t] /\ Pending(h)' = Pending(h) \cup {t}
    <3>1. CASE Serve(t, {})
      BY <1>1, <1>7, <3>1, ServeKeeps DEF Pending
    <3>2. CASE phase' = [phase EXCEPT ![t] = "counting"] /\ UNCHANGED <<hook, success>>
      BY <1>1, <1>7, <3>2 DEF Pending, Ranges
    <3>3. QED
      BY <3>1, <3>2 DEF Log
  <2>2. Cardinality(Pending(h)') = Cardinality(Pending(h)) + 1
    BY <1>2, <2>1, Counted, TaskSets
  <2>3. CASE /\ Exists(k)
             /\ log' = [log EXCEPT ![t][k] = IF success[t] THEN "success" ELSE "failure"]
             /\ UNCHANGED faults
    <3>1. FailedDeliveries(h)' = FailedDeliveries(h) \cup {t} /\ t \notin FailedDeliveries(h)
      BY <1>1, <2>1, <2>3 DEF FailedDeliveries, Ranges
    <3>2. Cardinality(FailedDeliveries(h)') = Cardinality(FailedDeliveries(h)) + 1
      BY <3>1, Counted, TaskSets
    <3>3. QED
      <4>1. Cardinality(Ahead(h)') <= Cardinality(Ahead(h)) /\ Cardinality(Ahead(h)') \in Nat
        BY <1>5, Counted, TaskSets
      <4>2. failures[h] \in Nat /\ Limit \in Nat
        BY <1>1, WebhookAssumption DEF Ranges
      <4>3. QED
        BY <1>2, <1>3, <2>2, <2>3, <3>2, <4>1, <4>2, Counted DEF Ledger, Exists
  <2>4. CASE UNCHANGED log /\ (~Exists(k) \/ Fault)
    <3>1. FailedDeliveries(h)' = FailedDeliveries(h)
      BY <2>4 DEF FailedDeliveries
    <3>2. Exists(h) => faults' = faults + 1
      BY <1>1, <2>1, <2>4, FaultType
    <3>3. Cardinality(Ahead(h)') <= Cardinality(Ahead(h)) /\ Cardinality(Ahead(h)') \in Nat
      BY <1>5, Counted, TaskSets
    <3>4. failures[h] \in Nat /\ Limit \in Nat
      BY <1>1, WebhookAssumption DEF Ranges
    <3>5. QED
      BY <1>2, <1>3, <2>2, <3>1, <3>2, <3>3, <3>4, Counted DEF Ledger, Exists
  <2>5. QED
    BY <2>3, <2>4 DEF Log
<1>8. QED
  BY <1>6, <1>7

(* record_failure counts a failure that was pending; record_success starts *)
(* again, and the failures still pending are on record.                    *)
LEMMA CountLedger ==
  ASSUME TInv, NEW h \in Hooks, Ledger(h), NEW t \in Tasks, Count(t)
  PROVE  Ledger(h)'
<1> DEFINE k == hook[t]
<1>1. k \in Hooks /\ k \notin left[t] /\ Ranges /\ left[t] \in SUBSET Hooks
  BY DEF Count, TInv, Ranges, Sound, Shape, Busy
<1>2. faults \in Nat /\ faults' \in Nat /\ faults <= faults'
  BY <1>1, FaultType DEF Count, Ranges
<1>3. FailedDeliveries(h)' = FailedDeliveries(h)
  BY DEF Count, FailedDeliveries
<1>4. Pending(h)' \subseteq Pending(h) \ {t}
  BY <1>1, ServeKeeps DEF Count, Pending
<1>5. Ahead(h)' \subseteq Ahead(h) /\ (h = k => Ahead(h)' \subseteq Ahead(h) \ {t})
  <2>1. t \in Ahead(h)' => h \in left[t]
    <3>1. /\ \/ phase'[t] = "posting" /\ hook'[t] \in left[t]
             \/ phase'[t] = "done" /\ hook'[t] = NoHook
          /\ left'[t] \subseteq left[t]
      BY <1>1, ServeKeeps DEF Count
    <3>2. h # NoHook
      BY WebhookAssumption
    <3>3. QED
      BY <3>1, <3>2 DEF Ahead, Awaits
  <2>2. \A u \in Tasks \ {t} : u \in Ahead(h)' <=> u \in Ahead(h)
    BY <1>1, ServeKeeps DEF Count, Ahead, Awaits
  <2>3. QED
    BY <1>1, <2>1, <2>2 DEF Ahead, Awaits
<1>6. CASE failures'[h] = failures[h] /\ state'[h] = state[h]
  BY <1>1, <1>2, <1>3, <1>4, <1>5, <1>6, Settled
<1>7. CASE h = k /\ Exists(h) /\ (RecordSuccess(k) \/ (~success[t] /\ RecordFailure(k)))
  <2>1. t \in Ahead(h) /\ (~success[t] => t \in Pending(h))
    BY <1>7 DEF Count, Ahead, Pending
  <2>2. /\ Cardinality(Ahead(h)') <= Cardinality(Ahead(h)) - 1
        /\ Cardinality(Ahead(h)') \in Nat
    <3>1. Ahead(h) \ {t} \in SUBSET Tasks
      BY Counted
    <3>2. Cardinality(Ahead(h)') <= Cardinality(Ahead(h) \ {t})
      BY <1>5, <1>7, <3>1, TaskSets
    <3>3. Cardinality(Ahead(h) \ {t}) = Cardinality(Ahead(h)) - 1
      BY <2>1, Counted, TaskSets
    <3>4. QED
      BY <1>5, <3>2, <3>3, Counted, TaskSets
  <2>3. /\ Cardinality(Pending(h)') <= Cardinality(Pending(h))
        /\ ~success[t] => Cardinality(Pending(h)') <= Cardinality(Pending(h)) - 1
        /\ Cardinality(Pending(h)') \in Nat
    <3>1. Pending(h) \ {t} \in SUBSET Tasks
      BY Counted
    <3>2. Cardinality(Pending(h)') <= Cardinality(Pending(h) \ {t})
      BY <1>4, <3>1, TaskSets
    <3>3. ~success[t] => Cardinality(Pending(h) \ {t}) = Cardinality(Pending(h)) - 1
      BY <2>1, Counted, TaskSets
    <3>4. Cardinality(Pending(h)') <= Cardinality(Pending(h)) /\ Cardinality(Pending(h)') \in Nat
      BY <1>4, Counted, TaskSets
    <3>5. QED
      BY <3>2, <3>3, <3>4
  <2>4. failures[h] \in Nat /\ Limit \in Nat \ {0}
    BY <1>1, WebhookAssumption DEF Ranges
  <2>5. CASE RecordSuccess(k)
    <3>1. failures'[h] = 0 /\ state'[h] = state[h]
      BY <1>1, <1>7, <2>5 DEF RecordSuccess, Ranges
    <3>2. QED
      BY <1>2, <1>3, <1>7, <2>2, <2>3, <2>4, <3>1, Counted DEF Ledger, Exists
  <2>6. CASE ~success[t] /\ RecordFailure(k)
    <3>1. /\ failures'[h] = failures[h] + 1
          /\ state'[h] = IF failures[h] + 1 >= Limit /\ Active(h) THEN "suspended" ELSE state[h]
      BY <1>1, <1>7, <2>6 DEF RecordFailure, Ranges
    <3>2. /\ failures'[h] + Cardinality(Pending(h)')
              <= Cardinality(FailedDeliveries(h)') + faults'
          /\ failures'[h] + Cardinality(Ahead(h)') <= Cardinality(Tasks)
      BY <1>2, <1>3, <1>7, <2>2, <2>3, <2>4, <2>6, <3>1, Counted DEF Ledger, Exists
    <3>3. state'[h] # "deleted"
      BY <1>7, <3>1 DEF Exists
    <3>4. state'[h] = "on" => failures'[h] < Limit
      BY <2>4, <3>1 DEF Active
    <3>5. state'[h] = "suspended" => Cardinality(FailedDeliveries(h)') + faults' >= Limit
      BY <1>2, <1>3, <2>3, <2>4, <3>1, <3>2, Counted DEF Ledger
    <3>6. QED
      BY <3>2, <3>3, <3>4, <3>5 DEF Ledger
  <2>7. QED
    BY <1>7, <2>5, <2>6
<1>8. QED
  BY <1>1, <1>6, <1>7 DEF Count, RecordSuccess, RecordFailure, Ranges

LEMMA DropLedger ==
  ASSUME TInv, NEW h \in Hooks, Ledger(h), NEW T \in SUBSET Tasks, T \subseteq Running, Drop(T)
  PROVE  Ledger(h)'
<1>1. Ranges
  BY DEF TInv
<1>2. faults' \in Nat /\ faults <= faults'
  BY <1>1, FaultType DEF Drop, Ranges
<1>3. /\ failures'[h] = failures[h] /\ state'[h] = state[h]
      /\ FailedDeliveries(h) \subseteq FailedDeliveries(h)'
  BY DEF Drop, tables, FailedDeliveries
<1>4. Pending(h)' \subseteq Pending(h) /\ Ahead(h)' \subseteq Ahead(h)
  BY <1>1, WebhookAssumption DEF Drop, Pending, Ahead, Awaits, Ranges
<1>5. QED
  BY <1>1, <1>2, <1>3, <1>4, Settled

LEMMA OwnerLedger ==
  ASSUME TInv, NEW h \in Hooks, Ledger(h), NEW k \in Hooks, Switch(k) \/ Delete(k)
  PROVE  Ledger(h)'
<1>1. Ranges /\ failures[h] \in Nat /\ faults \in Nat /\ Limit \in Nat \ {0}
  BY WebhookAssumption DEF TInv, Ranges
<1>2. Pending(h)' = Pending(h) /\ Ahead(h)' = Ahead(h) /\ faults' = faults
  BY DEF Switch, Delete, Pending, Ahead, Awaits, work
<1>3. CASE h # k
  <2>1. /\ failures'[h] = failures[h] /\ state'[h] = state[h]
        /\ FailedDeliveries(h) \subseteq FailedDeliveries(h)'
    BY <1>1, <1>3 DEF Switch, Delete, FailedDeliveries, Ranges
  <2>2. QED
    BY <1>1, <1>2, <2>1, Settled
<1>4. CASE h = k /\ Switch(k)
  <2>1. /\ failures'[h] = failures[h] /\ state'[h] \in {"off", "resumed"}
        /\ FailedDeliveries(h)' = FailedDeliveries(h) /\ Exists(h)
    BY <1>1, <1>4 DEF Switch, FailedDeliveries, Ranges
  <2>2. QED
    BY <1>1, <1>2, <2>1, Counted DEF Ledger, Exists
<1>5. CASE h = k /\ Delete(k)
  <2>1. failures'[h] = 0 /\ state'[h] = "deleted"
    BY <1>1, <1>5 DEF Delete, Ranges
  <2>2. Cardinality(Ahead(h)) <= Cardinality(Tasks)
    BY Counted, TaskSets
  <2>3. QED
    BY <1>1, <1>2, <2>1, <2>2, Counted DEF Ledger, Exists
<1>6. QED
  BY <1>3, <1>4, <1>5

-----------------------------------------------------------------------------
(* Both invariants hold along every run.                                   *)
THEOREM Invariance == Spec => [](TInv /\ HInv)
<1>1. Init => TInv /\ HInv
  BY InitTasks, InitLedger
<1>2. ASSUME TInv, HInv, [Next]_vars
      PROVE  TInv' /\ HInv'
  <2>1. faults \in Nat /\ faults \in 0 .. MaxFaults /\ Ranges /\ \A h \in Hooks : Ledger(h)
    BY <1>2 DEF TInv, HInv, Ranges
  <2>2. ASSUME NEW e \in Events, Dispatch(e)
        PROVE  TInv' /\ HInv'
    <3>1. PICK S \in SUBSET Hooks : Serve(e, S)
      BY <2>2 DEF Dispatch
    <3>2. faults' \in 0 .. MaxFaults /\ faults' \in Nat /\ faults <= faults'
      BY <2>1, <2>2, FaultType DEF Dispatch
    <3>3. e \in Tasks
      BY DEF Tasks
    <3>4. QED
      BY <1>2, <2>1, <2>2, <3>1, <3>2, <3>3, DispatchTasks, DispatchLedger DEF Dispatch, HInv
  <2>3. ASSUME NEW r \in Replays, NEW h \in Hooks, Replay(r, h)
        PROVE  TInv' /\ HInv'
    <3>1. r \in Tasks /\ {h} \in SUBSET Hooks
      BY DEF Tasks
    <3>2. QED
      BY <1>2, <2>1, <2>3, <3>1, DispatchTasks, DispatchLedger DEF Replay, HInv
  <2>4. ASSUME NEW t \in Tasks, Run(t)
        PROVE  TInv' /\ HInv'
    BY <1>2, <2>1, <2>4, PostTasks, LogTasks, CountTasks, PostLedger, LogLedger, CountLedger
       DEF Run, HInv
  <2>5. ASSUME NEW T \in SUBSET Tasks, T \subseteq Running, Drop(T)
        PROVE  TInv' /\ HInv'
    BY <1>2, <2>1, <2>5, DropTasks, DropLedger DEF HInv
  <2>6. ASSUME NEW h \in Hooks, Switch(h) \/ Delete(h)
        PROVE  TInv' /\ HInv'
    BY <1>2, <2>1, <2>6, OwnerTasks, OwnerLedger DEF HInv
  <2>7. CASE UNCHANGED vars
    <3>1. TInv'
      BY <1>2, <2>7
         DEF vars, tables, work, TInv, Ranges, Sound, Shape, Answers, Truth, Busy, Awaits
    <3>2. ASSUME NEW h \in Hooks
          PROVE  Ledger(h)'
      <4>1. /\ failures'[h] = failures[h] /\ state'[h] = state[h]
            /\ faults' \in Nat /\ faults <= faults'
            /\ FailedDeliveries(h) \subseteq FailedDeliveries(h)'
            /\ Pending(h)' \subseteq Pending(h) /\ Ahead(h)' \subseteq Ahead(h)
        BY <2>1, <2>7 DEF vars, tables, work, FailedDeliveries, Pending, Ahead, Awaits
      <4>2. QED
        BY <2>1, <4>1, Settled
    <3>3. QED
      BY <3>1, <3>2 DEF HInv
  <2>8. Running \in SUBSET Tasks /\ \A r \in Running : {r} \in SUBSET Tasks /\ {r} \subseteq Running
    BY DEF Running
  <2>9. QED
    BY <1>2, <2>2, <2>3, <2>4, <2>5, <2>6, <2>7, <2>8 DEF Next, Crash, HangUp
<1>3. QED
  BY <1>1, <1>2, PTL DEF Spec

(* The tables and the tasks stay within their types: a hook counts at most *)
(* one failure for each task.                                              *)
THEOREM WebhookTypes == Spec => []TypeOK
<1>1. ASSUME TInv, HInv
      PROVE  TypeOK
  <2>1. ASSUME NEW h \in Hooks
        PROVE  failures[h] \in 0 .. Cardinality(Tasks)
    <3>1. Ledger(h) /\ failures[h] \in Nat
      BY <1>1 DEF HInv, TInv, Ranges
    <3>2. QED
      BY <3>1, Counted DEF Ledger
  <2>2. ASSUME NEW t \in Tasks, NEW h \in Hooks
        PROVE  taken[t][h] \in 0 .. MaxAttempts
    BY <1>1, WebhookAssumption DEF TInv, Ranges, Sound, Truth
  <2>3. failures \in [Hooks -> 0 .. Cardinality(Tasks)]
    BY <1>1, <2>1 DEF TInv, Ranges
  <2>4. taken \in [Tasks -> [Hooks -> 0 .. MaxAttempts]]
    BY <1>1, <2>2 DEF TInv, Ranges
  <2>5. QED
    BY <1>1, <2>3, <2>4 DEF TInv, Ranges, TypeOK
<1>2. QED
  BY <1>1, Invariance, PTL

(* A hook is suspended for failed deliveries on record, or lost to faults. *)
THEOREM SuspensionsAreEarned == Spec => []SuspensionIsEarned
<1>1. ASSUME TInv, HInv
      PROVE  SuspensionIsEarned
  <2>1. ASSUME NEW h \in Hooks
        PROVE  failures[h] <= Cardinality(FailedDeliveries(h)) + faults
    <3>1. Ledger(h) /\ failures[h] \in Nat /\ faults \in Nat
      BY <1>1 DEF HInv, TInv, Ranges
    <3>2. QED
      BY <3>1, Counted DEF Ledger, Exists
  <2>2. QED
    BY <1>1, <2>1 DEF HInv, Ledger, SuspensionIsEarned
<1>2. QED
  BY <1>1, Invariance, PTL

(* The log says success exactly of the deliveries that were answered.      *)
THEOREM LogIsTrue == Spec => []LogTellsTheTruth
<1>1. TInv => LogTellsTheTruth
  BY DEF TInv, Sound, Truth, LogTellsTheTruth
<1>2. QED
  BY <1>1, Invariance, PTL
=============================================================================
