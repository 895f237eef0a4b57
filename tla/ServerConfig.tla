---------------------------- MODULE ServerConfig ----------------------------
(***************************************************************************)
(* The mail servers of one user and the copies kept of them: the table     *)
(* imap_configurations or smtp_configurations (models/imap_config.rs,      *)
(* models/smtp_config.rs), the copy of the default row in Redis            *)
(* (services/cache_service.rs) and, for IMAP, the decrypted copy in the    *)
(* memory of each backend process (ImapService::for_user).  A request      *)
(* loads the default row or edits the rows, a statement at a time.  Copies *)
(* have ages instead of expiry times, so the clock has no end.             *)
(***************************************************************************)
EXTENDS Integers, FiniteSets

CONSTANTS
  Configs, First,       \* the ids a row can have; the row of the onboarding
  Procs,                \* backend processes
  Requests, Proc,       \* requests under way at once; where each one runs
  Lifetime,             \* TTL_USER_CFG_SECS, CREDENTIAL_CACHE_TTL
  MaxEdits, MaxFaults,  \* bounds: edits, failures
  NoRow, NoCopy

ASSUME ConfigAssumption ==
  /\ First \in Configs /\ Proc \in [Requests -> Procs]
  /\ Lifetime \in Nat \ {0} /\ MaxEdits \in Nat /\ MaxFaults \in Nat

VARIABLES
  kind,         \* the table: "imap" or "smtp"
  rows,         \* rows[c]: a row of it, or NoRow
  redis,        \* the copy in Redis
  memory,       \* memory[p]: the decrypted copy of process p
  req,          \* req[r]: how far request r is, the row it edits, its copy
  edits,        \* edits begun; an edit's number is the version it writes
  faults,
  clean,        \* history: no edit failed or met a request that held a copy
  behind,       \* history: processes whose copy an edit elsewhere outdated
  crossed       \* history: two switches of the default overlapped

caches == <<redis, memory>>
history == <<behind, crossed>>
vars == <<kind, rows, caches, req, edits, faults, history, clean>>

Row == [version : 0 .. MaxEdits, is_default : BOOLEAN]
Copy == [id : Configs, version : 0 .. MaxEdits,
         age : 0 .. Lifetime,       \* time in the cache it is in
         rested : Nat]              \* time in caches altogether
Steps == {"idle", "get", "find", "store", "keep",
          "unset", "insert", "mark", "promote", "forget", "drop"}
Req == [step : Steps, id : Configs, copy : Copy \cup {NoCopy}]
Idle == [step |-> "idle", id |-> First, copy |-> NoCopy]

ASSUME NoneAssumption == NoRow \notin Row /\ NoCopy \notin Copy

TypeOK ==
  /\ kind \in {"imap", "smtp"}
  /\ rows \in [Configs -> Row \cup {NoRow}]
  /\ redis \in Copy \cup {NoCopy}
  /\ memory \in [Procs -> Copy \cup {NoCopy}]
  /\ req \in [Requests -> Req]
  /\ edits \in 0 .. MaxEdits /\ faults \in 0 .. MaxFaults
  /\ clean \in BOOLEAN /\ behind \subseteq Procs /\ crossed \in BOOLEAN

Init ==
  /\ kind \in {"imap", "smtp"}
  /\ rows = [c \in Configs |->
               IF c = First THEN [version |-> 0, is_default |-> TRUE] ELSE NoRow]
  /\ redis = NoCopy /\ memory = [p \in Procs |-> NoCopy]
  /\ req = [r \in Requests |-> Idle]
  /\ edits = 0 /\ faults = 0
  /\ clean = TRUE /\ behind = {} /\ crossed = FALSE

At(r, step) == req[r].step = step
Goes(r, step, id, copy) ==
  req' = [req EXCEPT ![r] = [step |-> step, id |-> id, copy |-> copy]]
Ends(r) == req' = [req EXCEPT ![r] = Idle]

Defaults == {c \in Configs : rows[c] # NoRow /\ rows[c].is_default}
Holding == {r \in Requests : req[r].copy # NoCopy}
Switching == {r \in Requests : req[r].step \in {"insert", "mark", "promote"}}
Editing == {r \in Requests : req[r].step \in {"unset", "forget", "drop"}}
             \cup Switching

\* credentials_fresh.
Fresh(copy) == copy # NoCopy /\ copy.age < Lifetime

-----------------------------------------------------------------------------
(***************************************************************************)
(* A request that needs the server: for_user, and the lookups of the send  *)
(* handlers and of the queue processor, which keep nothing in memory.      *)
(***************************************************************************)

\* Slip: a hit starts the lifetime anew.
LoadSliding(r) ==
  /\ At(r, "idle")
  /\ IF kind = "imap" /\ Fresh(memory[Proc[r]])
       THEN /\ memory' = [memory EXCEPT ![Proc[r]].age = 0]
            /\ UNCHANGED <<req, behind>>
       ELSE /\ Goes(r, "get", First, NoCopy)
            /\ memory' = [memory EXCEPT ![Proc[r]] = NoCopy]
            /\ behind' = behind \ {Proc[r]}
  /\ UNCHANGED <<kind, rows, redis, edits, faults, crossed>>

\* A fresh copy in memory is used at once; an old one is evicted.
Load(r) ==
  /\ At(r, "idle") /\ ~(kind = "imap" /\ Fresh(memory[Proc[r]]))
  /\ Goes(r, "get", First, NoCopy)
  /\ memory' = [memory EXCEPT ![Proc[r]] = NoCopy]
  /\ behind' = behind \ {Proc[r]}
  /\ UNCHANGED <<kind, rows, redis, edits, faults, crossed>>

\* get_json.  An answer that fails counts as a miss.
Get(r) ==
  /\ At(r, "get")
  /\ \/ /\ redis # NoCopy
        /\ IF kind = "imap" THEN Goes(r, "keep", First, redis) ELSE Ends(r)
        /\ UNCHANGED faults
     \/ redis = NoCopy /\ Goes(r, "find", First, NoCopy) /\ UNCHANGED faults
     \/ /\ faults < MaxFaults /\ faults' = faults + 1
        /\ Goes(r, "find", First, NoCopy)
  /\ UNCHANGED <<kind, rows, caches, edits, history>>

\* default_for_user, find_default: any row that says it is the default; if
\* there is none the request fails.
Find(r) ==
  /\ At(r, "find")
  /\ \/ Defaults = {} /\ Ends(r)
     \/ \E c \in Defaults :
          Goes(r, "store", First, [id |-> c, version |-> rows[c].version,
                                   age |-> 0, rested |-> 0])
  /\ UNCHANGED <<kind, rows, caches, edits, faults, history>>

\* set_json, whose failure nobody looks at.
Store(r) ==
  /\ At(r, "store")
  /\ \/ redis' = req[r].copy /\ UNCHANGED faults
     \/ faults < MaxFaults /\ faults' = faults + 1 /\ UNCHANGED redis
  /\ IF kind = "imap" THEN Goes(r, "keep", First, req[r].copy) ELSE Ends(r)
  /\ UNCHANGED <<kind, rows, memory, edits, history>>

Keep(r) ==
  /\ At(r, "keep")
  /\ memory' = [memory EXCEPT ![Proc[r]] = [req[r].copy EXCEPT !.age = 0]]
  /\ behind' = behind \ {Proc[r]}
  /\ Ends(r)
  /\ UNCHANGED <<kind, rows, redis, edits, faults, crossed>>

-----------------------------------------------------------------------------
(***************************************************************************)
(* A request that edits the rows, from the handlers of imap_config.rs and  *)
(* smtp_config.rs or from the forms of the Classic interface.              *)
(***************************************************************************)

\* A statement that changes rows outdates the copies of other processes.
Changes(r) ==
  behind' = behind \cup {p \in Procs \ {Proc[r]} : memory[p] # NoCopy}

Begins(r) == At(r, "idle") /\ edits < MaxEdits /\ edits' = edits + 1

\* The first of the statements that drop the copies.
Invalidation == IF kind = "imap" THEN "forget" ELSE "drop"

\* A new row that is not the default.  The SMTP forms go on to make it that.
Create(r, c) ==
  /\ Begins(r) /\ rows[c] = NoRow
  /\ rows' = [rows EXCEPT ![c] = [version |-> edits + 1, is_default |-> FALSE]]
  /\ \/ Goes(r, Invalidation, c, NoCopy)
     \/ kind = "smtp" /\ Goes(r, "unset", c, NoCopy)
  /\ Changes(r)
  /\ UNCHANGED <<kind, caches, faults, crossed>>

Update(r, c) ==
  /\ Begins(r) /\ rows[c] # NoRow
  /\ rows' = [rows EXCEPT ![c].version = edits + 1]
  /\ Goes(r, Invalidation, c, NoCopy)
  /\ Changes(r)
  /\ UNCHANGED <<kind, caches, faults, crossed>>

\* Slip: a deletion leaves the copies to expire.
DeleteOnly(r, c) ==
  /\ Begins(r) /\ rows[c] # NoRow
  /\ rows' = [rows EXCEPT ![c] = NoRow]
  /\ UNCHANGED req
  /\ Changes(r)
  /\ UNCHANGED <<kind, caches, faults, crossed>>

Delete(r, c) ==
  /\ Begins(r) /\ rows[c] # NoRow
  /\ rows' = [rows EXCEPT ![c] = NoRow]
  /\ Goes(r, Invalidation, c, NoCopy)
  /\ Changes(r)
  /\ UNCHANGED <<kind, caches, faults, crossed>>

\* Slip: the new default is marked beside the old one.
UnsetNothing(r, c) ==
  /\ Begins(r) /\ rows[c] # NoRow /\ kind = "smtp"
  /\ Goes(r, "mark", c, NoCopy)
  /\ UNCHANGED <<kind, rows, caches, faults, behind, crossed>>

\* The UPDATE that takes the default from every row: the first of the two
\* statements of set_default, which runs before anyone looks whether row c is
\* there, and of an IMAP create that asks for the default.
Unset(r, c) ==
  /\ \/ Begins(r)
     \/ At(r, "unset") /\ req[r].id = c /\ UNCHANGED edits
  /\ rows' = [d \in Configs |-> IF rows[d] = NoRow THEN NoRow
                                ELSE [rows[d] EXCEPT !.is_default = FALSE]]
  /\ Goes(r, CASE kind = "imap" -> "insert"
               [] At(r, "unset") -> "promote"
               [] OTHER -> "mark", c, NoCopy)
  /\ Changes(r)
  /\ crossed' = (Switching \ {r} # {})
  /\ UNCHANGED <<kind, caches, faults>>

Insert(r, c) ==
  /\ At(r, "insert") /\ rows[c] = NoRow
  /\ rows' = [rows EXCEPT ![c] = [version |-> edits, is_default |-> TRUE]]
  /\ Goes(r, "forget", c, NoCopy)
  /\ Changes(r)
  /\ UNCHANGED <<kind, caches, edits, faults, crossed>>

\* The second statement of set_default.  If the row has gone, the handler
\* answers 404 and drops no copy, though the old default has lost its mark.
Mark(r) ==
  /\ At(r, "mark") \/ At(r, "promote")
  /\ IF rows[req[r].id] # NoRow
       THEN /\ rows' = [rows EXCEPT ![req[r].id].is_default = TRUE]
            /\ Goes(r, "drop", First, NoCopy)
            /\ Changes(r)
       ELSE /\ IF At(r, "mark") THEN Ends(r) ELSE Goes(r, "drop", First, NoCopy)
            /\ UNCHANGED <<rows, behind>>
  /\ UNCHANGED <<kind, caches, edits, faults, crossed>>

\* invalidate_user_credentials: the memory of this process first.
Forget(r) ==
  /\ At(r, "forget")
  /\ memory' = [memory EXCEPT ![Proc[r]] = NoCopy]
  /\ behind' = behind \ {Proc[r]}
  /\ Goes(r, "drop", First, NoCopy)
  /\ UNCHANGED <<kind, rows, redis, edits, faults, crossed>>

DropCopy(r) ==
  /\ At(r, "drop")
  /\ redis' = NoCopy /\ Ends(r)
  /\ UNCHANGED <<kind, rows, memory, edits, faults, history>>

-----------------------------------------------------------------------------
\* A request ends early: a statement fails, Redis does not answer the DEL, or
\* the client goes away.  A form passes over a set_default that failed.
GiveUp(r) ==
  /\ ~At(r, "idle") /\ faults < MaxFaults /\ faults' = faults + 1
  /\ \/ Ends(r)
     \/ (At(r, "unset") \/ At(r, "promote")) /\ Goes(r, "drop", First, NoCopy)
  /\ UNCHANGED <<kind, rows, caches, edits, history>>

Restart(p) ==
  /\ faults < MaxFaults /\ faults' = faults + 1
  /\ memory' = [memory EXCEPT ![p] = NoCopy]
  /\ req' = [r \in Requests |-> IF Proc[r] = p THEN Idle ELSE req[r]]
  /\ behind' = behind \ {p}
  /\ UNCHANGED <<kind, rows, redis, edits, crossed>>

Older(copy) == [copy EXCEPT !.age = @ + 1, !.rested = @ + 1]

\* Slip: the copy in Redis is set without an expiry.
TickForever ==
  /\ memory' = [p \in Procs |-> IF Fresh(memory[p]) THEN Older(memory[p])
                                ELSE memory[p]]
  /\ UNCHANGED <<kind, rows, redis, req, edits, faults, history>>

\* Time passes.  Redis deletes what expires; memory leaves it to be evicted.
Tick ==
  /\ redis' = IF redis = NoCopy \/ redis.age + 1 = Lifetime THEN NoCopy
              ELSE Older(redis)
  /\ memory' = [p \in Procs |-> IF Fresh(memory[p]) THEN Older(memory[p])
                                ELSE memory[p]]
  /\ UNCHANGED <<kind, rows, req, edits, faults, history>>

\* Nothing holds a copy and nothing is changing.
Quiet == /\ redis = NoCopy /\ Holding = {} /\ Editing = {}
         /\ \A p \in Procs : ~Fresh(memory[p])

\* The history of edits that failed, or that overlapped a request with a copy.
Watch ==
  clean' = \/ Quiet'
           \/ /\ clean /\ faults' = faults
              /\ \A r \in Editing \ Editing' : At(r, "drop")
              /\ Holding' = {} \/ Editing' = {}

Serve(r) ==
  \/ Get(r) \/ Find(r) \/ Store(r) \/ Keep(r)
  \/ Mark(r) \/ Forget(r) \/ DropCopy(r)
  \/ \E c \in Configs : Insert(r, c)

Next ==
  /\ \/ \E r \in Requests :
          \/ Load(r) \/ Serve(r) \/ GiveUp(r)
          \/ \E c \in Configs :
               Create(r, c) \/ Update(r, c) \/ Delete(r, c) \/ Unset(r, c)
     \/ \E p \in Procs : Restart(p)
     \/ Tick
  /\ Watch

Spec == Init /\ [][Next]_vars

\* The statements of a request return, and time passes; nobody has to begin
\* anything.
Fairness == /\ WF_vars(Tick /\ Watch)
            /\ \A r \in Requests :
                 /\ WF_vars(Serve(r) /\ Watch)
                 /\ WF_vars(At(r, "unset") /\ Unset(r, req[r].id) /\ Watch)

FairSpec == Spec /\ Fairness

-----------------------------------------------------------------------------
\* What a load that reads the rows now may find.
Current(copy) ==
  copy.id \in Defaults /\ copy.version = rows[copy.id].version

\* Every edit drops the copies it outdates: when no edit failed and none ran
\* while a request held a copy, the next load in the process of the edit gets
\* the new default, and in another process once its own copy has gone
\* ("so the next request picks up the new default", handlers/imap_config.rs).
EditsShow ==
  clean /\ Editing = {} =>
    /\ redis # NoCopy => Current(redis)
    /\ \A p \in Procs \ behind : Fresh(memory[p]) => Current(memory[p])

\* No copy is used that has rested in caches for two lifetimes, whichever
\* requests passed it on: one in Redis and one in memory, and neither starts
\* anew on a hit (set_json, credentials_fresh).
TwoLifetimesAtMost ==
  /\ redis # NoCopy => redis.rested < Lifetime
  /\ \A p \in Procs : Fresh(memory[p]) => memory[p].rested < 2 * Lifetime

\* Switches of the default that do not overlap leave one default at most, so
\* that find_default and its LIMIT 1 have no choice (set_default, and create
\* with is_default).
OneDefault == ~crossed => Cardinality(Defaults) <= 1

\* Once the user edits no more, the outdated copies go, whichever
\* invalidations failed and whichever requests stored an old row late.
EditsTakeEffect ==
  <>[](/\ redis # NoCopy => Current(redis)
       /\ \A p \in Procs : Fresh(memory[p]) => Current(memory[p])
       /\ \A r \in Holding : Current(req[r].copy))
=============================================================================
