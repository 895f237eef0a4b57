-------------------------- MODULE ServerConfigProofs --------------------------
(***************************************************************************)
(* Proofs about ServerConfig.  The ages of the copies are bounded by an    *)
(* invariant of its own (AInv); that edits show rests on it and on what is *)
(* held and cached while no edit is under way (CInv).  That there is one   *)
(* default rests on DInv.                                                  *)
(***************************************************************************)
EXTENDS ServerConfig, FiniteSetTheorems, TLAPS

\* A request holds a copy between finding and storing it, for good; what only
\* one of the tables knows stays with it.
Shape ==
  /\ \A r \in Requests :
       /\ req[r].copy # NoCopy <=> req[r].step \in {"store", "keep"}
       /\ kind = "smtp" => req[r].step \notin {"keep", "insert", "forget"}
       /\ kind = "imap" => req[r].step \notin {"unset", "mark", "promote"}
  /\ kind = "smtp" => \A p \in Procs : memory[p] = NoCopy

\* How long copies have rested.
Ages ==
  /\ redis # NoCopy => redis.age < Lifetime /\ redis.rested = redis.age
  /\ \A r \in Requests :
       /\ At(r, "store") => req[r].copy.age = 0 /\ req[r].copy.rested = 0
       /\ At(r, "keep") => req[r].copy.rested < Lifetime
  /\ \A p \in Procs :
       memory[p] # NoCopy => memory[p].rested < Lifetime + memory[p].age

AInv == TypeOK /\ Shape /\ Ages

LEMMA AInvInit == Init => AInv
<1> SUFFICES ASSUME Init PROVE AInv
  OBVIOUS
<1>1. Idle \in Req /\ Idle.step = "idle" /\ Idle.copy = NoCopy
      /\ \A r \in Requests : req[r] = Idle
  BY ConfigAssumption DEF Init, Idle, Req, Steps
<1>2. rows \in [Configs -> Row \cup {NoRow}]
  <2>1. [version |-> 0, is_default |-> TRUE] \in Row
    BY ConfigAssumption DEF Row
  <2> QED
    BY <2>1 DEF Init
<1>3. TypeOK
  <2>1. 0 \in 0 .. MaxEdits /\ 0 \in 0 .. MaxFaults
    BY ConfigAssumption
  <2>2. req \in [Requests -> Req]
    BY <1>1 DEF Init
  <2> QED
    BY <1>2, <2>1, <2>2 DEF Init, TypeOK
<1>4. Shape /\ Ages
  BY <1>1 DEF Init, Shape, Ages, At
<1> QED
  BY <1>3, <1>4 DEF AInv

-----------------------------------------------------------------------------
\* A request goes on, with a row and a copy that fit its step.
LEMMA OneRequest ==
  ASSUME TypeOK, Shape, Ages, NEW r \in Requests, NEW s \in Steps,
         NEW c \in Configs, NEW v \in Copy \cup {NoCopy}, Goes(r, s, c, v),
         v # NoCopy <=> s \in {"store", "keep"},
         kind = "smtp" => s \notin {"keep", "insert", "forget"},
         kind = "imap" => s \notin {"unset", "mark", "promote"},
         s = "store" => v.age = 0 /\ v.rested = 0,
         s = "keep" => v.rested < Lifetime,
         UNCHANGED kind
  PROVE  /\ req' \in [Requests -> Req]
         /\ \A q \in Requests :
              /\ req'[q].copy # NoCopy <=> req'[q].step \in {"store", "keep"}
              /\ kind = "smtp" => req'[q].step \notin {"keep", "insert", "forget"}
              /\ kind = "imap" => req'[q].step \notin {"unset", "mark", "promote"}
              /\ At(q, "store")' => req'[q].copy.age = 0 /\ req'[q].copy.rested = 0
              /\ At(q, "keep")' => req'[q].copy.rested < Lifetime
<1> DEFINE n == [step |-> s, id |-> c, copy |-> v]
<1>1. n \in Req /\ n.step = s /\ n.copy = v
  BY DEF Req
<1>2. req' \in [Requests -> Req] /\ req'[r] = n
      /\ \A q \in Requests \ {r} : req'[q] = req[q]
  BY <1>1 DEF Goes, TypeOK
<1> QED
  BY <1>1, <1>2 DEF Shape, Ages, At

\* A request ends.
LEMMA RequestEnds ==
  ASSUME TypeOK, Shape, Ages, NEW r \in Requests, Ends(r), UNCHANGED kind
  PROVE  /\ req' \in [Requests -> Req]
         /\ \A q \in Requests :
              /\ req'[q].copy # NoCopy <=> req'[q].step \in {"store", "keep"}
              /\ kind = "smtp" => req'[q].step \notin {"keep", "insert", "forget"}
              /\ kind = "imap" => req'[q].step \notin {"unset", "mark", "promote"}
              /\ At(q, "store")' => req'[q].copy.age = 0 /\ req'[q].copy.rested = 0
              /\ At(q, "keep")' => req'[q].copy.rested < Lifetime
<1>1. Goes(r, "idle", First, NoCopy)
  BY DEF Ends, Goes, Idle
<1> QED
  BY <1>1, OneRequest, ConfigAssumption DEF Steps

\* Memory loses a copy, or none.
LEMMA MemoryLoses ==
  ASSUME TypeOK, Shape, Ages, NEW p \in Procs, UNCHANGED kind,
         memory' \in {memory, [memory EXCEPT ![p] = NoCopy]}
  PROVE  /\ memory' \in [Procs -> Copy \cup {NoCopy}]
         /\ kind = "smtp" => \A q \in Procs : memory'[q] = NoCopy
         /\ \A q \in Procs :
              memory'[q] # NoCopy => memory'[q].rested < Lifetime + memory'[q].age
  BY DEF TypeOK, Shape, Ages

\* What is left to show of AInv' when those facts are known.
LEMMA Together ==
  ASSUME UNCHANGED kind, kind \in {"imap", "smtp"},
         rows' \in [Configs -> Row \cup {NoRow}],
         redis' \in Copy \cup {NoCopy},
         redis' # NoCopy => redis'.age < Lifetime /\ redis'.rested = redis'.age,
         memory' \in [Procs -> Copy \cup {NoCopy}],
         kind = "smtp" => \A q \in Procs : memory'[q] = NoCopy,
         \A q \in Procs :
           memory'[q] # NoCopy => memory'[q].rested < Lifetime + memory'[q].age,
         req' \in [Requests -> Req],
         \A q \in Requests :
           /\ req'[q].copy # NoCopy <=> req'[q].step \in {"store", "keep"}
           /\ kind = "smtp" => req'[q].step \notin {"keep", "insert", "forget"}
           /\ kind = "imap" => req'[q].step \notin {"unset", "mark", "promote"}
           /\ At(q, "store")' => req'[q].copy.age = 0 /\ req'[q].copy.rested = 0
           /\ At(q, "keep")' => req'[q].copy.rested < Lifetime,
         edits' \in 0 .. MaxEdits, faults' \in 0 .. MaxFaults,
         clean' \in BOOLEAN, behind' \subseteq Procs, crossed' \in BOOLEAN
  PROVE  AInv'
  BY DEF AInv, TypeOK, Shape, Ages

LEMMA LoadersKeep ==
  \A r \in Requests :
    AInv /\ (Load(r) \/ Get(r) \/ Find(r) \/ Store(r) \/ Keep(r)) /\ Watch => AInv'
<1> SUFFICES ASSUME NEW r \in Requests, AInv, Watch,
                    Load(r) \/ Get(r) \/ Find(r) \/ Store(r) \/ Keep(r)
             PROVE  AInv'
  OBVIOUS
<1> DEFINE p == Proc[r]
           old == req[r].copy
<1>1. /\ p \in Procs /\ First \in Configs /\ req[r] \in Req
      /\ TypeOK /\ Shape /\ Ages /\ clean' \in BOOLEAN
  BY ConfigAssumption DEF AInv, TypeOK, Watch
<1>2. /\ kind \in {"imap", "smtp"} /\ rows \in [Configs -> Row \cup {NoRow}]
      /\ redis \in Copy \cup {NoCopy} /\ memory \in [Procs -> Copy \cup {NoCopy}]
      /\ edits \in 0 .. MaxEdits /\ faults \in 0 .. MaxFaults
      /\ behind \subseteq Procs /\ crossed \in BOOLEAN
      /\ kind = "smtp" => \A q \in Procs : memory[q] = NoCopy
      /\ redis # NoCopy => redis.age < Lifetime /\ redis.rested = redis.age
      /\ \A q \in Procs :
           memory[q] # NoCopy => memory[q].rested < Lifetime + memory[q].age
  BY <1>1 DEF TypeOK, Shape, Ages
<1>3. ASSUME Load(r) PROVE AInv'
  <2>1. /\ Goes(r, "get", First, NoCopy) /\ UNCHANGED <<kind, rows, redis>>
        /\ memory' = [memory EXCEPT ![p] = NoCopy]
        /\ edits' \in 0 .. MaxEdits /\ faults' \in 0 .. MaxFaults
        /\ behind' \subseteq Procs /\ crossed' \in BOOLEAN
    BY <1>2, <1>3 DEF Load
  <2> QED
    BY <1>1, <1>2, <2>1, OneRequest, MemoryLoses, Together DEF Steps
<1>4. ASSUME Get(r) PROVE AInv'
  <2>1. /\ UNCHANGED <<kind, rows, redis, memory>>
        /\ edits' \in 0 .. MaxEdits /\ faults' \in 0 .. MaxFaults
        /\ behind' \subseteq Procs /\ crossed' \in BOOLEAN
    BY <1>2, <1>4, ConfigAssumption DEF Get, caches, history
  <2>2. \/ Goes(r, "find", First, NoCopy) \/ Ends(r)
        \/ kind = "imap" /\ redis # NoCopy /\ Goes(r, "keep", First, redis)
    BY <1>2, <1>4 DEF Get
  <2>3. CASE Goes(r, "find", First, NoCopy)
    BY <1>1, <1>2, <2>1, <2>3, OneRequest, Together DEF Steps
  <2>4. CASE Ends(r)
    BY <1>1, <1>2, <2>1, <2>4, RequestEnds, Together
  <2>5. CASE kind = "imap" /\ redis # NoCopy /\ Goes(r, "keep", First, redis)
    BY <1>1, <1>2, <2>1, <2>5, OneRequest, Together DEF Steps
  <2> QED
    BY <2>2, <2>3, <2>4, <2>5
<1>5. ASSUME Find(r) PROVE AInv'
  <2>1. /\ UNCHANGED <<kind, rows, redis, memory>>
        /\ edits' \in 0 .. MaxEdits /\ faults' \in 0 .. MaxFaults
        /\ behind' \subseteq Procs /\ crossed' \in BOOLEAN
    BY <1>2, <1>5 DEF Find, caches, history
  <2>2. CASE Ends(r)
    BY <1>1, <1>2, <2>1, <2>2, RequestEnds, Together
  <2>3. CASE ~Ends(r)
    <3>1. PICK c \in Defaults :
            Goes(r, "store", First, [id |-> c, version |-> rows[c].version,
                                     age |-> 0, rested |-> 0])
      BY <1>5, <2>3 DEF Find
    <3> DEFINE v == [id |-> c, version |-> rows[c].version,
                     age |-> 0, rested |-> 0]
    <3>2. rows[c] \in Row /\ c \in Configs
      BY <1>2 DEF Defaults
    <3>3. v \in Copy /\ v # NoCopy /\ v.age = 0 /\ v.rested = 0
      BY <3>2, ConfigAssumption, NoneAssumption DEF Copy, Row
    <3> HIDE DEF v
    <3>4. Goes(r, "store", First, v)
      BY <3>1 DEF v
    <3> QED
      BY <1>1, <1>2, <2>1, <3>3, <3>4, OneRequest, Together DEF Steps
  <2> QED
    BY <2>2, <2>3
<1>6. ASSUME Store(r) PROVE AInv'
  <2>1. old \in Copy /\ old # NoCopy /\ old.age = 0 /\ old.rested = 0
    BY <1>1, <1>6 DEF Store, Shape, Ages, At, Req
  <2>2. /\ UNCHANGED <<kind, rows, memory>> /\ redis' \in {redis, old}
        /\ edits' \in 0 .. MaxEdits /\ faults' \in 0 .. MaxFaults
        /\ behind' \subseteq Procs /\ crossed' \in BOOLEAN
    BY <1>2, <1>6, ConfigAssumption DEF Store, history
  <2>3. /\ redis' \in Copy \cup {NoCopy}
        /\ redis' # NoCopy => redis'.age < Lifetime /\ redis'.rested = redis'.age
    BY <1>2, <2>1, <2>2, ConfigAssumption
  <2>4. CASE kind = "imap"
    <3>1. Goes(r, "keep", First, old)
      BY <1>6, <2>4 DEF Store
    <3> QED
      BY <1>1, <1>2, <2>1, <2>2, <2>3, <2>4, <3>1, OneRequest, Together,
         ConfigAssumption DEF Steps
  <2>5. CASE kind = "smtp"
    <3>1. Ends(r)
      BY <1>6, <2>5 DEF Store
    <3> QED
      BY <1>1, <1>2, <2>2, <2>3, <3>1, RequestEnds, Together
  <2> QED
    BY <1>2, <2>4, <2>5
<1>7. ASSUME Keep(r) PROVE AInv'
  <2>1. old \in Copy /\ old.rested < Lifetime /\ kind = "imap"
    BY <1>1, <1>2, <1>7 DEF Keep, Shape, Ages, At, Req
  <2>2. PICK new \in Copy : /\ new = [old EXCEPT !.age = 0]
                            /\ new.age = 0 /\ new.rested < Lifetime
    <3>1. 0 \in 0 .. Lifetime
      BY ConfigAssumption
    <3>2. /\ [old EXCEPT !.age = 0] \in Copy /\ [old EXCEPT !.age = 0].age = 0
          /\ [old EXCEPT !.age = 0].rested = old.rested
      BY <2>1, <3>1 DEF Copy
    <3> QED
      BY <2>1, <3>2
  <2>3. /\ UNCHANGED <<kind, rows, redis>> /\ Ends(r)
        /\ memory' = [memory EXCEPT ![p] = new]
        /\ edits' \in 0 .. MaxEdits /\ faults' \in 0 .. MaxFaults
        /\ behind' \subseteq Procs /\ crossed' \in BOOLEAN
    BY <1>2, <1>7, <2>2 DEF Keep
  <2>4. /\ memory' \in [Procs -> Copy \cup {NoCopy}]
        /\ \A q \in Procs :
             memory'[q] # NoCopy => memory'[q].rested < Lifetime + memory'[q].age
    <3>1. new.rested < Lifetime + new.age
      BY <2>2, ConfigAssumption DEF Copy
    <3> QED
      BY <1>1, <1>2, <2>2, <2>3, <3>1
  <2> QED
    BY <1>1, <1>2, <2>1, <2>3, <2>4, RequestEnds, Together
<1> QED
  BY <1>3, <1>4, <1>5, <1>6, <1>7
\* A step of an edit: the request goes on without a copy, the caches at most
\* lose theirs.
LEMMA EditStep ==
  ASSUME AInv, clean' \in BOOLEAN, UNCHANGED kind, NEW r \in Requests,
         NEW s \in Steps \ {"store", "keep"}, NEW c \in Configs,
         Goes(r, s, c, NoCopy),
         kind = "smtp" => s \notin {"insert", "forget"},
         kind = "imap" => s \notin {"unset", "mark", "promote"},
         rows' \in [Configs -> Row \cup {NoRow}],
         redis' \in {redis, NoCopy},
         memory' \in {memory, [memory EXCEPT ![Proc[r]] = NoCopy]},
         edits' \in 0 .. MaxEdits, faults' \in 0 .. MaxFaults,
         behind' \subseteq Procs, crossed' \in BOOLEAN
  PROVE  AInv'
<1>1. Proc[r] \in Procs /\ TypeOK /\ Shape /\ Ages
  BY ConfigAssumption DEF AInv
<1>2. /\ kind \in {"imap", "smtp"} /\ redis' \in Copy \cup {NoCopy}
      /\ redis' # NoCopy => redis'.age < Lifetime /\ redis'.rested = redis'.age
  BY <1>1 DEF TypeOK, Ages
<1> QED
  BY <1>1, <1>2, OneRequest, MemoryLoses, Together

LEMMA EditorsKeep ==
  \A r \in Requests, c \in Configs :
    AInv /\ (Create(r, c) \/ Update(r, c) \/ Delete(r, c) \/ Unset(r, c)
             \/ Insert(r, c) \/ Mark(r) \/ Forget(r) \/ DropCopy(r)) /\ Watch => AInv'
<1> SUFFICES ASSUME NEW r \in Requests, NEW c \in Configs, AInv, Watch,
                    Create(r, c) \/ Update(r, c) \/ Delete(r, c) \/ Unset(r, c)
                      \/ Insert(r, c) \/ Mark(r) \/ Forget(r) \/ DropCopy(r)
             PROVE  AInv'
  OBVIOUS
<1>1. /\ Proc[r] \in Procs /\ First \in Configs /\ req[r].id \in Configs
      /\ clean' \in BOOLEAN /\ kind \in {"imap", "smtp"}
      /\ rows \in [Configs -> Row \cup {NoRow}]
      /\ edits \in 0 .. MaxEdits /\ faults \in 0 .. MaxFaults
      /\ behind \subseteq Procs /\ crossed \in BOOLEAN
  BY ConfigAssumption DEF AInv, TypeOK, Watch, Req
<1>2. Ends(r) => Goes(r, "idle", First, NoCopy)
  BY DEF Ends, Goes, Idle
<1>3. ASSUME Begins(r) PROVE edits + 1 \in 0 .. MaxEdits
  BY <1>1, <1>3, ConfigAssumption DEF Begins
<1>4. Changes(r) => behind' \subseteq Procs
  BY <1>1 DEF Changes
<1>5. Invalidation \in {"forget", "drop"} /\ (kind = "smtp" => Invalidation = "drop")
  BY DEF Invalidation
<1>6. \A v \in 0 .. MaxEdits, b \in BOOLEAN : [version |-> v, is_default |-> b] \in Row
  BY DEF Row
<1>7. \A d \in Configs, b \in BOOLEAN :
        rows[d] # NoRow => [rows[d] EXCEPT !.is_default = b] \in Row
  BY <1>1 DEF Row
<1>8. ASSUME Create(r, c) PROVE AInv'
  <2>1. /\ edits' \in 0 .. MaxEdits /\ behind' \subseteq Procs
        /\ rows' \in [Configs -> Row \cup {NoRow}]
        /\ UNCHANGED <<kind, redis, memory, faults, crossed>>
    BY <1>1, <1>3, <1>4, <1>6, <1>8 DEF Create, Begins, caches
  <2>2. CASE Goes(r, Invalidation, c, NoCopy)
    BY <1>1, <1>5, <2>1, <2>2, EditStep DEF Steps
  <2>3. CASE kind = "smtp" /\ Goes(r, "unset", c, NoCopy)
    BY <1>1, <2>1, <2>3, EditStep DEF Steps
  <2> QED
    BY <1>8, <2>2, <2>3 DEF Create
<1>9. ASSUME Update(r, c) PROVE AInv'
  <2>1. edits + 1 \in 0 .. MaxEdits /\ rows[c] \in Row
    BY <1>1, <1>3, <1>9 DEF Update
  <2>2. [rows[c] EXCEPT !.version = edits + 1] \in Row
    BY <2>1 DEF Row
  <2>3. /\ edits' \in 0 .. MaxEdits /\ behind' \subseteq Procs
        /\ rows' \in [Configs -> Row \cup {NoRow}]
        /\ UNCHANGED <<kind, redis, memory, faults, crossed>>
        /\ Goes(r, Invalidation, c, NoCopy)
    BY <1>1, <1>4, <1>9, <2>1, <2>2 DEF Update, Begins, caches
  <2> QED
    BY <1>1, <1>5, <2>3, EditStep DEF Steps
<1>10. ASSUME Delete(r, c) PROVE AInv'
  <2>1. /\ edits' \in 0 .. MaxEdits /\ behind' \subseteq Procs
        /\ rows' \in [Configs -> Row \cup {NoRow}]
        /\ UNCHANGED <<kind, redis, memory, faults, crossed>>
        /\ Goes(r, Invalidation, c, NoCopy)
    BY <1>1, <1>3, <1>4, <1>10 DEF Delete, Begins, caches
  <2> QED
    BY <1>1, <1>5, <2>1, EditStep DEF Steps
<1>11. ASSUME Unset(r, c) PROVE AInv'
  <2>1. /\ edits' \in 0 .. MaxEdits /\ behind' \subseteq Procs
        /\ UNCHANGED <<kind, redis, memory, faults>> /\ crossed' \in BOOLEAN
    BY <1>1, <1>3, <1>4, <1>11 DEF Unset, Begins, caches
  <2>2. rows' \in [Configs -> Row \cup {NoRow}]
    BY <1>1, <1>7, <1>11 DEF Unset
  <2>3. CASE kind = "imap"
    <3>1. ~At(r, "unset")
      BY <2>3 DEF AInv, Shape, At
    <3>2. Goes(r, "insert", c, NoCopy)
      BY <1>11, <2>3, <3>1 DEF Unset
    <3> QED
      BY <1>1, <2>1, <2>2, <2>3, <3>2, EditStep DEF Steps
  <2>4. CASE kind = "smtp"
    <3>1. Goes(r, "promote", c, NoCopy) \/ Goes(r, "mark", c, NoCopy)
      BY <1>11, <2>4 DEF Unset
    <3> QED
      BY <1>1, <2>1, <2>2, <2>4, <3>1, EditStep DEF Steps
  <2> QED
    BY <1>1, <2>3, <2>4
<1>12. ASSUME Insert(r, c) PROVE AInv'
  <2>1. /\ UNCHANGED <<kind, redis, memory, edits, faults, crossed>>
        /\ behind' \subseteq Procs /\ Goes(r, "forget", c, NoCopy)
        /\ rows' \in [Configs -> Row \cup {NoRow}]
    BY <1>1, <1>4, <1>6, <1>12 DEF Insert, caches
  <2>2. kind # "smtp"
    BY <1>12 DEF AInv, Shape, Insert, At
  <2> QED
    BY <1>1, <2>1, <2>2, EditStep DEF Steps
<1>13. ASSUME Mark(r) PROVE AInv'
  <2>1. /\ UNCHANGED <<kind, redis, memory, edits, faults, crossed>>
        /\ behind' \subseteq Procs
    BY <1>1, <1>4, <1>13 DEF Mark, caches
  <2>2. Goes(r, "drop", First, NoCopy) \/ Goes(r, "idle", First, NoCopy)
    BY <1>2, <1>13 DEF Mark
  <2>3. rows' \in [Configs -> Row \cup {NoRow}]
    BY <1>1, <1>7, <1>13 DEF Mark
  <2> QED
    BY <1>1, <2>1, <2>2, <2>3, EditStep DEF Steps
<1>14. ASSUME Forget(r) PROVE AInv'
  <2>1. /\ UNCHANGED <<kind, rows, redis, edits, faults, crossed>>
        /\ behind' \subseteq Procs /\ Goes(r, "drop", First, NoCopy)
        /\ memory' = [memory EXCEPT ![Proc[r]] = NoCopy]
    BY <1>1, <1>14 DEF Forget
  <2> QED
    BY <1>1, <2>1, EditStep DEF Steps
<1>15. ASSUME DropCopy(r) PROVE AInv'
  <2>1. /\ UNCHANGED <<kind, rows, memory, edits, faults, behind, crossed>>
        /\ Goes(r, "idle", First, NoCopy) /\ redis' = NoCopy
    BY <1>2, <1>15 DEF DropCopy, history
  <2> QED
    BY <1>1, <2>1, EditStep DEF Steps
<1> QED
  BY <1>8, <1>9, <1>10, <1>11, <1>12, <1>13, <1>14, <1>15

LEMMA FaultsKeep ==
  AInv /\ Watch => /\ \A r \in Requests : GiveUp(r) => AInv'
                   /\ \A p \in Procs : Restart(p) => AInv'
                   /\ Tick => AInv'
<1> SUFFICES ASSUME AInv, Watch
             PROVE  /\ \A r \in Requests : GiveUp(r) => AInv'
                    /\ \A p \in Procs : Restart(p) => AInv'
                    /\ Tick => AInv'
  OBVIOUS
<1>1. /\ First \in Configs /\ TypeOK /\ Shape /\ Ages
      /\ clean' \in BOOLEAN /\ kind \in {"imap", "smtp"}
      /\ rows \in [Configs -> Row \cup {NoRow}]
      /\ edits \in 0 .. MaxEdits /\ faults \in 0 .. MaxFaults
      /\ behind \subseteq Procs /\ crossed \in BOOLEAN
      /\ redis \in Copy \cup {NoCopy}
      /\ redis # NoCopy => redis.age < Lifetime /\ redis.rested = redis.age
      /\ memory \in [Procs -> Copy \cup {NoCopy}] /\ req \in [Requests -> Req]
  BY ConfigAssumption DEF AInv, TypeOK, Watch, Ages
<1>2. ASSUME NEW r \in Requests, GiveUp(r) PROVE AInv'
  <2>1. /\ UNCHANGED <<kind, rows, redis, memory, edits, behind, crossed>>
        /\ faults' \in 0 .. MaxFaults
    BY <1>1, <1>2, ConfigAssumption DEF GiveUp, caches, history
  <2>2. Goes(r, "drop", First, NoCopy) \/ Goes(r, "idle", First, NoCopy)
    BY <1>2 DEF GiveUp, Ends, Goes, Idle
  <2> QED
    BY <1>1, <2>1, <2>2, EditStep DEF Steps
<1>3. ASSUME NEW p \in Procs, Restart(p) PROVE AInv'
  <2>1. /\ UNCHANGED <<kind, rows, redis, edits, crossed>>
        /\ faults' \in 0 .. MaxFaults /\ behind' \subseteq Procs
        /\ memory' = [memory EXCEPT ![p] = NoCopy]
    BY <1>1, <1>3, ConfigAssumption DEF Restart
  <2>2. Idle \in Req /\ Idle.step = "idle" /\ Idle.copy = NoCopy
    BY ConfigAssumption DEF Idle, Req, Steps
  <2>3. \A q \in Requests : req'[q] \in {Idle, req[q]}
    BY <1>3 DEF Restart
  <2>4. req' \in [Requests -> Req]
    BY <1>1, <1>3, <2>2 DEF Restart
  <2>5. \A q \in Requests :
          /\ req'[q].copy # NoCopy <=> req'[q].step \in {"store", "keep"}
          /\ kind = "smtp" => req'[q].step \notin {"keep", "insert", "forget"}
          /\ kind = "imap" => req'[q].step \notin {"unset", "mark", "promote"}
          /\ At(q, "store")' => req'[q].copy.age = 0 /\ req'[q].copy.rested = 0
          /\ At(q, "keep")' => req'[q].copy.rested < Lifetime
    BY <1>1, <2>2, <2>3 DEF Shape, Ages, At
  <2> QED
    BY <1>1, <2>1, <2>4, <2>5, MemoryLoses, Together
<1>4. ASSUME Tick PROVE AInv'
  <2>1. ASSUME NEW v \in Copy, v.age < Lifetime
        PROVE  /\ Older(v) \in Copy
               /\ Older(v).age = v.age + 1 /\ Older(v).rested = v.rested + 1
    <3>1. /\ v.age + 1 \in 0 .. Lifetime /\ v.rested + 1 \in Nat
      BY <2>1, ConfigAssumption DEF Copy
    <3> QED
      BY <2>1, <3>1 DEF Older, Copy
  <2>2. /\ redis' \in Copy \cup {NoCopy}
        /\ redis' # NoCopy => redis'.age < Lifetime /\ redis'.rested = redis'.age
    <3>1. CASE redis = NoCopy \/ redis.age + 1 = Lifetime
      BY <1>4, <3>1 DEF Tick
    <3>2. CASE ~(redis = NoCopy \/ redis.age + 1 = Lifetime)
      <4>1. /\ redis' = Older(redis) /\ redis \in Copy /\ redis.age < Lifetime
            /\ redis.rested = redis.age /\ redis.age \in Int /\ Lifetime \in Int
        BY <1>1, <1>4, <3>2, ConfigAssumption DEF Tick, Copy
      <4>2. redis.age + 1 < Lifetime
        BY <3>2, <4>1
      <4> QED
        BY <2>1, <4>1, <4>2
    <3> QED
      BY <3>1, <3>2
  <2>3. ASSUME NEW q \in Procs
        PROVE  /\ memory'[q] \in Copy \cup {NoCopy}
               /\ memory[q] = NoCopy => memory'[q] = NoCopy
               /\ memory'[q] # NoCopy => memory'[q].rested < Lifetime + memory'[q].age
    <3>1. CASE Fresh(memory[q])
      <4>1. /\ memory[q] \in Copy /\ memory[q].age < Lifetime /\ memory[q] # NoCopy
            /\ memory'[q] = Older(memory[q])
            /\ memory[q].rested < Lifetime + memory[q].age
            /\ memory[q].rested \in Int /\ memory[q].age \in Int /\ Lifetime \in Int
        BY <1>1, <1>4, <3>1, ConfigAssumption DEF Tick, Fresh, Ages, Copy
      <4> QED
        BY <2>1, <4>1
    <3>2. CASE ~Fresh(memory[q])
      BY <1>1, <1>4, <3>2 DEF Tick, Ages
    <3> QED
      BY <3>1, <3>2
  <2>4. /\ memory' \in [Procs -> Copy \cup {NoCopy}]
        /\ kind = "smtp" => \A q \in Procs : memory'[q] = NoCopy
    BY <1>1, <1>4, <2>3 DEF Tick, Shape
  <2>5. UNCHANGED <<kind, rows, req, edits, faults, behind, crossed>>
    BY <1>4 DEF Tick, history
  <2>6. \A q \in Requests :
          /\ req'[q].copy # NoCopy <=> req'[q].step \in {"store", "keep"}
          /\ kind = "smtp" => req'[q].step \notin {"keep", "insert", "forget"}
          /\ kind = "imap" => req'[q].step \notin {"unset", "mark", "promote"}
          /\ At(q, "store")' => req'[q].copy.age = 0 /\ req'[q].copy.rested = 0
          /\ At(q, "keep")' => req'[q].copy.rested < Lifetime
    BY <1>1, <2>5 DEF Shape, Ages, At
  <2> QED
    BY <1>1, <2>2, <2>3, <2>4, <2>5, <2>6, Together
<1> QED
  BY <1>2, <1>3, <1>4

LEMMA AInvKept == AInv /\ [Next]_vars => AInv'
<1>1. ASSUME AInv, Next PROVE AInv'
  BY <1>1, LoadersKeep, EditorsKeep, FaultsKeep, ConfigAssumption DEF Next, Serve
<1>2. ASSUME AInv, UNCHANGED vars PROVE AInv'
  BY <1>2 DEF vars, caches, history, AInv, TypeOK, Shape, Ages, At
<1> QED
  BY <1>1, <1>2

\* Every variable keeps to its set.
THEOREM CopiesAreTyped == Spec => []TypeOK
<1>1. AInv => TypeOK
  BY DEF AInv
<1> QED
  BY <1>1, AInvInit, AInvKept, PTL DEF Spec

\* For any number of processes and requests, no copy is used that has rested
\* in caches for two lifetimes (for_user and the cache service).
THEOREM CopiesExpire == Spec => []TwoLifetimesAtMost
<1>1. AInv => TwoLifetimesAtMost
  <2> SUFFICES ASSUME AInv PROVE TwoLifetimesAtMost
    OBVIOUS
  <2>1. redis # NoCopy => redis.rested < Lifetime
    BY DEF AInv, Ages
  <2>2. ASSUME NEW p \in Procs, Fresh(memory[p])
        PROVE  memory[p].rested < 2 * Lifetime
    <3>1. /\ memory[p] \in Copy /\ memory[p].age < Lifetime
          /\ memory[p].rested < Lifetime + memory[p].age
      BY <2>2 DEF AInv, TypeOK, Ages, Fresh
    <3>2. /\ memory[p].age \in Int /\ memory[p].rested \in Int /\ Lifetime \in Int
      BY <3>1, ConfigAssumption DEF Copy
    <3> QED
      BY <3>1, <3>2
  <2> QED
    BY <2>1, <2>2 DEF TwoLifetimesAtMost
<1> QED
  BY <1>1, AInvInit, AInvKept, PTL DEF Spec
-----------------------------------------------------------------------------
(***************************************************************************)
(* Edits show.  While an edit is under way, the memory of its process may  *)
(* be outdated only as long as the edit has still to clear it.             *)
(***************************************************************************)
Apart == Holding = {} \/ Editing = {}

Known ==
  Editing = {} => /\ redis # NoCopy => Current(redis)
                  /\ \A r \in Holding : Current(req[r].copy)

Clears(r, p) == Proc[r] = p /\ req[r].step \in {"insert", "forget"}

Memories ==
  \A p \in Procs \ behind :
    Fresh(memory[p]) => Current(memory[p]) \/ \E r \in Requests : Clears(r, p)

CInv == clean => Apart /\ Known /\ Memories

\* What Watch leaves to show of a step after which the history is clean.
Undisturbed ==
  /\ AInv /\ AInv' /\ Apart /\ Apart' /\ Known /\ Memories /\ faults' = faults
  /\ \A r \in Editing \ Editing' : At(r, "drop")

\* Where a request is after it went on; the others are where they were.
LEMMA Moved ==
  ASSUME AInv, NEW r \in Requests, NEW s, NEW c, NEW v, Goes(r, s, c, v)
  PROVE  /\ req'[r].step = s /\ req'[r].copy = v
         /\ \A q \in Requests \ {r} : req'[q] = req[q]
  BY DEF AInv, TypeOK, Goes

LEMMA EndsMoves ==
  ASSUME NEW r \in Requests, Ends(r) PROVE Goes(r, "idle", First, NoCopy)
  BY DEF Ends, Goes, Idle

LEMMA LoadersShow ==
  \A r \in Requests :
    Undisturbed /\ (Load(r) \/ Get(r) \/ Find(r) \/ Store(r) \/ Keep(r))
      => (Known /\ Memories)'
<1> SUFFICES ASSUME NEW r \in Requests, Undisturbed,
                    Load(r) \/ Get(r) \/ Find(r) \/ Store(r) \/ Keep(r)
             PROVE  Known' /\ Memories'
  OBVIOUS
<1> DEFINE p == Proc[r]
           old == req[r].copy
<1>1. /\ AInv /\ TypeOK /\ Shape /\ Apart /\ Known /\ Memories /\ p \in Procs
      /\ memory \in [Procs -> Copy \cup {NoCopy}] /\ kind \in {"imap", "smtp"}
  BY ConfigAssumption DEF Undisturbed, AInv, TypeOK
\* None of these steps changes who edits.
<1>2. ASSUME NEW s \in {"idle", "get", "find", "store", "keep"}, NEW v,
             Goes(r, s, First, v),
             req[r].step \in {"idle", "get", "find", "store", "keep"}
      PROVE  /\ Editing' = Editing
             /\ \A q \in Requests, o \in Procs : Clears(q, o)' <=> Clears(q, o)
             /\ \A q \in Holding' : q # r => q \in Holding
             /\ req'[r].copy = v /\ \A q \in Requests \ {r} : req'[q] = req[q]
  <2>1. /\ req'[r].step = s /\ req'[r].copy = v
        /\ \A q \in Requests \ {r} : req'[q] = req[q]
    BY <1>1, <1>2, Moved
  <2> QED
    BY <1>2, <2>1 DEF Editing, Switching, Holding, Clears
<1>3. ASSUME Load(r) PROVE Known' /\ Memories'
  <2>1. /\ Goes(r, "get", First, NoCopy) /\ At(r, "idle") /\ UNCHANGED <<rows, redis>>
        /\ memory'[p] = NoCopy /\ \A o \in Procs \ {p} : memory'[o] = memory[o]
        /\ behind' = behind \ {p}
    BY <1>1, <1>3 DEF Load
  <2>2. Known'
    BY <1>1, <1>2, <2>1 DEF Known, Current, Defaults, Holding, At
  <2>3. Memories'
    BY <1>1, <1>2, <2>1 DEF Memories, Fresh, Current, Defaults, At
  <2> QED
    BY <2>2, <2>3
<1>4. ASSUME Get(r) PROVE Known' /\ Memories'
  <2>1. UNCHANGED <<rows, redis, memory, behind>> /\ At(r, "get")
    BY <1>4 DEF Get, caches, history
  <2>2. PICK s \in {"idle", "find", "keep"}, v \in {NoCopy, redis} : Goes(r, s, First, v)
    BY <1>4, EndsMoves DEF Get
  <2>3. Known'
    BY <1>1, <1>2, <2>1, <2>2 DEF Known, Current, Defaults, Holding, At
  <2>4. Memories'
    BY <1>1, <1>2, <2>1, <2>2 DEF Memories, Fresh, Current, Defaults, At
  <2> QED
    BY <2>3, <2>4
<1>5. ASSUME Find(r) PROVE Known' /\ Memories'
  <2>1. UNCHANGED <<rows, redis, memory, behind>> /\ At(r, "find")
    BY <1>5 DEF Find, caches, history
  <2>2. PICK s, v : /\ s \in {"idle", "store"}
                    /\ Goes(r, s, First, v) /\ (v # NoCopy => Current(v))
    <3>1. CASE Ends(r)
      BY <3>1, EndsMoves
    <3>2. CASE ~Ends(r)
      <4>1. PICK c \in Defaults :
              Goes(r, "store", First, [id |-> c, version |-> rows[c].version,
                                       age |-> 0, rested |-> 0])
        BY <1>5, <3>2 DEF Find
      <4>2. Current([id |-> c, version |-> rows[c].version, age |-> 0, rested |-> 0])
        BY DEF Current
      <4> QED
        BY <4>1, <4>2
    <3> QED
      BY <3>1, <3>2
  <2>3. Known'
    BY <1>1, <1>2, <2>1, <2>2 DEF Known, Current, Defaults, Holding, At
  <2>4. Memories'
    BY <1>1, <1>2, <2>1, <2>2 DEF Memories, Fresh, Current, Defaults, At
  <2> QED
    BY <2>3, <2>4
<1>6. ASSUME Store(r) PROVE Known' /\ Memories'
  <2>1. /\ UNCHANGED <<rows, memory, behind>> /\ redis' \in {redis, old}
        /\ At(r, "store") /\ r \in Holding
    BY <1>1, <1>6 DEF Store, history, Holding, Shape, At
  <2>2. PICK s \in {"idle", "keep"}, v \in {NoCopy, old} : Goes(r, s, First, v)
    BY <1>6, EndsMoves DEF Store
  <2>3. Known'
    BY <1>1, <1>2, <2>1, <2>2 DEF Known, Current, Defaults, Holding, At
  <2>4. Memories'
    BY <1>1, <1>2, <2>1, <2>2 DEF Memories, Fresh, Current, Defaults, At
  <2> QED
    BY <2>3, <2>4
<1>7. ASSUME Keep(r) PROVE Known' /\ Memories'
  <2>1. /\ UNCHANGED <<rows, redis>> /\ At(r, "keep") /\ r \in Holding
        /\ memory' = [memory EXCEPT ![p] = [old EXCEPT !.age = 0]]
        /\ behind' = behind \ {p} /\ Goes(r, "idle", First, NoCopy)
        /\ old \in Copy
    BY <1>1, <1>7, EndsMoves DEF Keep, Holding, Shape, At, TypeOK, Req
  <2>2. Editing = {} /\ Current(old)
    BY <1>1, <2>1 DEF Apart, Known
  <2>3. PICK new : new = [old EXCEPT !.age = 0]
    OBVIOUS
  <2>4. new.id = old.id /\ new.version = old.version
    BY <2>1, <2>3 DEF Copy
  <2>5. memory'[p] = new /\ \A o \in Procs \ {p} : memory'[o] = memory[o]
    BY <1>1, <2>1, <2>3
  <2>6. Known'
    BY <1>1, <1>2, <2>1, <2>2 DEF Known, Current, Defaults, Holding, At
  <2>7. Memories'
    BY <1>1, <1>2, <2>1, <2>2, <2>4, <2>5 DEF Memories, Fresh, Current, Defaults, At
  <2> QED
    BY <2>6, <2>7
<1> QED
  BY <1>3, <1>4, <1>5, <1>6, <1>7
\* A step after which request r edits, and its process has still to clear its
\* memory unless it keeps none.
LEMMA EditShows ==
  ASSUME Undisturbed, NEW r \in Requests, NEW c, NEW s,
         s \in {"unset", "insert", "mark", "promote", "forget", "drop"},
         Goes(r, s, c, NoCopy), UNCHANGED <<kind, memory>>,
         Changes(r), kind = "imap" => s \in {"insert", "forget"}
  PROVE  (Known /\ Memories)'
<1>1. /\ AInv /\ Shape' /\ Proc[r] \in Procs /\ kind \in {"imap", "smtp"}
  BY ConfigAssumption DEF Undisturbed, AInv, TypeOK
<1>2. req'[r].step = s
  BY <1>1, Moved
<1>3. Editing' # {}
  BY <1>2 DEF Editing, Switching
<1>4. Known'
  BY <1>3 DEF Known
<1>5. CASE kind = "smtp"
  <2>1. \A p \in Procs : memory'[p] = NoCopy
    BY <1>1, <1>5 DEF Shape
  <2> QED
    BY <1>4, <2>1 DEF Memories, Fresh
<1>6. CASE kind = "imap"
  <2>1. Clears(r, Proc[r])'
    BY <1>2, <1>6 DEF Clears
  <2>2. \A p \in Procs \ behind' : p # Proc[r] => memory'[p] = NoCopy
    BY DEF Changes
  <2> QED
    BY <1>4, <2>1, <2>2 DEF Memories, Fresh
<1> QED
  BY <1>1, <1>4, <1>5, <1>6

LEMMA EditorsShow ==
  \A r \in Requests, c \in Configs :
    Undisturbed /\ (Create(r, c) \/ Update(r, c) \/ Delete(r, c) \/ Unset(r, c)
                    \/ Insert(r, c) \/ Mark(r) \/ Forget(r) \/ DropCopy(r))
      => (Known /\ Memories)'
<1> SUFFICES ASSUME NEW r \in Requests, NEW c \in Configs, Undisturbed,
                    Create(r, c) \/ Update(r, c) \/ Delete(r, c) \/ Unset(r, c)
                      \/ Insert(r, c) \/ Mark(r) \/ Forget(r) \/ DropCopy(r)
             PROVE  Known' /\ Memories'
  OBVIOUS
<1>1. /\ AInv /\ TypeOK /\ Shape /\ Shape' /\ Apart /\ Known /\ Memories
      /\ Proc[r] \in Procs /\ memory \in [Procs -> Copy \cup {NoCopy}]
      /\ kind \in {"imap", "smtp"}
  BY ConfigAssumption DEF Undisturbed, AInv, TypeOK
<1>2. ASSUME Create(r, c) \/ Update(r, c) \/ Delete(r, c) PROVE Known' /\ Memories'
  <2>1. /\ UNCHANGED <<kind, memory>> /\ Changes(r)
        /\ \/ Goes(r, Invalidation, c, NoCopy)
           \/ kind = "smtp" /\ Goes(r, "unset", c, NoCopy)
    BY <1>2 DEF Create, Update, Delete, caches
  <2>2. Invalidation \in {"forget", "drop"} /\ (kind = "imap" => Invalidation = "forget")
    BY DEF Invalidation
  <2> QED
    BY <2>1, <2>2, EditShows
<1>3. ASSUME Unset(r, c) PROVE Known' /\ Memories'
  <2>1. /\ UNCHANGED <<kind, memory>> /\ Changes(r)
    BY <1>3 DEF Unset, caches
  <2>2. CASE kind = "imap"
    <3>1. ~At(r, "unset")
      BY <1>1, <2>2 DEF Shape, At
    <3>2. Goes(r, "insert", c, NoCopy)
      BY <1>3, <2>2, <3>1 DEF Unset
    <3> QED
      BY <2>1, <3>2, EditShows
  <2>3. CASE kind = "smtp"
    <3>1. Goes(r, "promote", c, NoCopy) \/ Goes(r, "mark", c, NoCopy)
      BY <1>3, <2>3 DEF Unset
    <3> QED
      BY <2>1, <2>3, <3>1, EditShows
  <2> QED
    BY <1>1, <2>2, <2>3
<1>4. ASSUME Insert(r, c) PROVE Known' /\ Memories'
  <2>1. UNCHANGED <<kind, memory>> /\ Changes(r) /\ Goes(r, "forget", c, NoCopy)
    BY <1>4 DEF Insert, caches
  <2> QED
    BY <2>1, EditShows
<1>5. ASSUME Mark(r) PROVE Known' /\ Memories'
  <2>1. UNCHANGED <<kind, memory>> /\ kind = "smtp"
    BY <1>1, <1>5 DEF Mark, caches, Shape, At
  <2>2. r \in Editing /\ ~At(r, "drop")
    BY <1>5 DEF Mark, Editing, Switching, At
  <2>3. Goes(r, "drop", First, NoCopy) \/ Goes(r, "idle", First, NoCopy)
    BY <1>5, EndsMoves DEF Mark
  <2>4. r \in Editing'
    BY <2>2 DEF Undisturbed
  <2> QED
    BY <1>1, <2>1, <2>4 DEF Known, Memories, Fresh, Shape
<1>6. ASSUME Forget(r) PROVE Known' /\ Memories'
  <2>1. /\ UNCHANGED <<kind, rows, redis>> /\ Goes(r, "drop", First, NoCopy)
        /\ behind' = behind \ {Proc[r]} /\ memory'[Proc[r]] = NoCopy
        /\ \A p \in Procs \ {Proc[r]} : memory'[p] = memory[p]
    BY <1>1, <1>6 DEF Forget
  <2>2. req'[r].step = "drop" /\ \A q \in Requests \ {r} : req'[q] = req[q]
    BY <1>1, <2>1, Moved
  <2>3. Known'
    BY <2>2 DEF Known, Editing
  <2>4. \A q \in Requests, p \in Procs : p # Proc[r] /\ Clears(q, p) => Clears(q, p)'
    BY <2>2 DEF Clears
  <2>5. Memories'
    BY <1>1, <2>1, <2>4 DEF Memories, Fresh, Current, Defaults
  <2> QED
    BY <2>3, <2>5
<1>7. ASSUME DropCopy(r) PROVE Known' /\ Memories'
  <2>1. /\ UNCHANGED <<kind, rows, memory, behind>> /\ redis' = NoCopy
        /\ At(r, "drop") /\ Goes(r, "idle", First, NoCopy)
    BY <1>7, EndsMoves DEF DropCopy, history
  <2>2. /\ req'[r].step = "idle" /\ req'[r].copy = NoCopy
        /\ \A q \in Requests \ {r} : req'[q] = req[q]
    BY <1>1, <2>1, Moved
  <2>3. Holding' = {}
    <3>1. Holding = {}
      BY <1>1, <2>1 DEF Apart, Editing, At
    <3> QED
      BY <2>2, <3>1 DEF Holding
  <2>4. Known'
    BY <2>1, <2>3 DEF Known
  <2>5. \A q \in Requests, p \in Procs : Clears(q, p) => Clears(q, p)'
    BY <2>1, <2>2 DEF Clears, At
  <2>6. Memories'
    BY <1>1, <2>1, <2>5 DEF Memories, Fresh, Current, Defaults
  <2> QED
    BY <2>4, <2>6
<1> QED
  BY <1>2, <1>3, <1>4, <1>5, <1>6, <1>7

\* A step of a fault is not undisturbed; time changes no copy but its age.
LEMMA TimeShows ==
  /\ Undisturbed => /\ \A r \in Requests : ~GiveUp(r)
                    /\ \A p \in Procs : ~Restart(p)
  /\ Undisturbed /\ Tick => (Known /\ Memories)'
<1>1. Undisturbed => faults' = faults /\ faults \in Int
  BY DEF Undisturbed, AInv, TypeOK
<1>2. ASSUME Undisturbed, Tick PROVE Known' /\ Memories'
  <2>1. /\ TypeOK /\ UNCHANGED <<rows, req, behind>> /\ Known /\ Memories
    BY <1>2 DEF Undisturbed, AInv, Tick, history
  <2>2. ASSUME NEW v \in Copy PROVE Older(v).id = v.id /\ Older(v).version = v.version
    BY DEF Older, Copy
  <2>3. redis' # NoCopy => redis \in Copy /\ redis # NoCopy /\ redis' = Older(redis)
    BY <1>2, <2>1 DEF Tick, TypeOK
  <2>4. Known'
    <3>1. Editing' = Editing /\ Holding' = Holding
      BY <2>1 DEF Editing, Switching, Holding
    <3> QED
      BY <2>1, <2>2, <2>3, <3>1 DEF Known, Current, Defaults
  <2>5. ASSUME NEW p \in Procs, Fresh(memory[p])' PROVE
          /\ Fresh(memory[p]) /\ memory[p] \in Copy /\ memory'[p] = Older(memory[p])
    BY <1>2, <2>1, <2>5 DEF Tick, TypeOK, Fresh
  <2>6. Memories'
    <3>1. \A q \in Requests, p \in Procs : Clears(q, p) => Clears(q, p)'
      BY <2>1 DEF Clears
    <3> QED
      BY <2>1, <2>2, <2>5, <3>1 DEF Memories, Current, Defaults
  <2> QED
    BY <2>4, <2>6
<1>3. ASSUME Undisturbed, NEW r \in Requests, GiveUp(r) PROVE FALSE
  <2>1. faults' = faults + 1
    BY <1>3 DEF GiveUp
  <2> QED
    BY <1>1, <1>3, <2>1
<1>4. ASSUME Undisturbed, NEW p \in Procs, Restart(p) PROVE FALSE
  <2>1. faults' = faults + 1
    BY <1>4 DEF Restart
  <2> QED
    BY <1>1, <1>4, <2>1
<1> QED
  BY <1>2, <1>3, <1>4

LEMMA CInvKept == AInv /\ AInv' /\ CInv /\ [Next]_vars => CInv'
<1>1. ASSUME AInv, AInv', CInv, Next, clean' PROVE (Apart /\ Known /\ Memories)'
  <2>1. CASE Quiet'
    BY <2>1 DEF Quiet, Apart, Known, Memories, Fresh
  <2>2. CASE ~Quiet'
    <3>1. /\ clean /\ faults' = faults /\ Apart'
          /\ \A r \in Editing \ Editing' : At(r, "drop")
      BY <1>1, <2>2 DEF Next, Watch, Apart
    <3>2. Undisturbed
      BY <1>1, <3>1 DEF CInv, Undisturbed
    <3> QED
      BY <1>1, <3>1, <3>2, LoadersShow, EditorsShow, TimeShows, ConfigAssumption
         DEF Next, Serve
  <2> QED
    BY <2>1, <2>2
<1>2. ASSUME CInv, UNCHANGED vars PROVE CInv'
  BY <1>2 DEF vars, caches, history, CInv, Apart, Known, Memories, Clears, Holding,
     Editing, Switching, Current, Defaults, Fresh
<1> QED
  BY <1>1, <1>2 DEF CInv

\* For any number of processes, requests and rows: edits that were not
\* disturbed show in the next load.
THEOREM EditsAreSeen == Spec => []EditsShow
<1>1. Init => CInv
  BY DEF Init, CInv, Apart, Known, Memories, Holding, Editing, Switching, Idle, Fresh
<1>2. CInv => EditsShow
  <2>1. Editing = {} => \A r \in Requests, p \in Procs : ~Clears(r, p)
    BY DEF Editing, Switching, Clears
  <2> QED
    BY <2>1 DEF CInv, Known, Memories, EditsShow
<1> QED
  BY <1>1, <1>2, AInvInit, AInvKept, CInvKept, PTL DEF Spec
-----------------------------------------------------------------------------
(***************************************************************************)
(* One default.  Between the statement that takes the default from every   *)
(* row and the one that gives it to a row there is none, and as long as    *)
(* the switches do not overlap only one request is between the two.        *)
(***************************************************************************)
DInv ==
  ~crossed =>
    /\ \A c, d \in Defaults : c = d
    /\ \A q, r \in Switching : q = r
    /\ Switching = {} \/ Defaults = {}

LEMMA DInvInit == Init => DInv
  BY DEF Init, DInv, Defaults, Switching, Idle

\* A step after which no more rows are defaults and no more requests switch.
LEMMA NoMore ==
  ASSUME DInv, UNCHANGED crossed, Defaults' \subseteq Defaults,
         Switching' \subseteq Switching
  PROVE  DInv'
  BY DEF DInv

LEMMA DInvKept == AInv /\ DInv /\ [Next]_vars => DInv'
<1> SUFFICES ASSUME AInv, DInv, [Next]_vars PROVE DInv'
  OBVIOUS
<1>1. /\ rows \in [Configs -> Row \cup {NoRow}] /\ req \in [Requests -> Req] /\ NoRow \notin Row
  BY NoneAssumption DEF AInv, TypeOK
\* A request that goes on to a step where it does not switch.
<1>2. ASSUME NEW r \in Requests, NEW s, s \notin {"insert", "mark", "promote"}, NEW c, NEW v,
             Goes(r, s, c, v)
      PROVE  Switching' \subseteq Switching \ {r}
  <2>1. req'[r].step = s /\ \A q \in Requests \ {r} : req'[q] = req[q]
    BY <1>2, Moved
  <2>2. QED
    BY <1>2, <2>1 DEF Switching
<1>3. UNCHANGED rows => Defaults' = Defaults
  BY DEF Defaults
<1>4. ASSUME NEW r \in Requests,
             Load(r) \/ Get(r) \/ Find(r) \/ Store(r) \/ Keep(r) \/ Forget(r) \/ DropCopy(r)
               \/ GiveUp(r)
      PROVE  DInv'
  <2>1. UNCHANGED <<rows, crossed>>
    BY <1>4 DEF Load, Get, Find, Store, Keep, Forget, DropCopy, GiveUp, caches, history
  <2>2. \E s \in {"idle", "get", "find", "store", "keep", "drop"} : \E v : Goes(r, s, First, v)
    BY <1>4, EndsMoves DEF Load, Get, Find, Store, Keep, Forget, DropCopy, GiveUp
  <2>3. Switching' \subseteq Switching
    BY <1>2, <2>2
  <2>4. QED
    BY <1>3, <2>1, <2>3, NoMore
<1>5. ASSUME NEW r \in Requests, NEW c \in Configs, Create(r, c) \/ Update(r, c) \/ Delete(r, c)
      PROVE  DInv'
  <2>1. UNCHANGED crossed
    BY <1>5 DEF Create, Update, Delete
  <2>2. Goes(r, Invalidation, c, NoCopy) \/ Goes(r, "unset", c, NoCopy)
    BY <1>5 DEF Create, Update, Delete
  <2>3. Invalidation \notin {"insert", "mark", "promote"}
    BY DEF Invalidation
  <2>4. Switching' \subseteq Switching
    BY <1>2, <2>2, <2>3
  <2>5. Defaults' \subseteq Defaults
    <3>1. CASE Create(r, c)
      BY <1>1, <3>1 DEF Create, Defaults
    <3>2. CASE Update(r, c)
      <4>1. rows[c] # NoRow /\ rows[c] \in Row /\ rows' = [rows EXCEPT ![c].version = edits + 1]
        BY <1>1, <3>2 DEF Update
      <4>2. rows'[c].is_default = rows[c].is_default
        BY <1>1, <4>1 DEF Row
      <4>3. \A d \in Configs \ {c} : rows'[d] = rows[d]
        BY <1>1, <4>1
      <4>4. QED
        BY <4>1, <4>2, <4>3 DEF Defaults
    <3>3. CASE Delete(r, c)
      BY <1>1, <3>3 DEF Delete, Defaults
    <3>4. QED
      BY <1>5, <3>1, <3>2, <3>3
  <2>6. QED
    BY <2>1, <2>4, <2>5, NoMore
<1>6. ASSUME NEW r \in Requests, NEW c \in Configs, Unset(r, c)
      PROVE  DInv'
  <2>1. Defaults' = {}
    <3>1. ASSUME NEW d \in Configs, rows[d] # NoRow
          PROVE  ~rows'[d].is_default
      <4>1. rows[d] \in Row
        BY <1>1, <3>1
      <4>2. rows'[d] = [rows[d] EXCEPT !.is_default = FALSE]
        BY <1>6, <3>1 DEF Unset
      <4>3. QED
        BY <4>1, <4>2 DEF Row
    <3>2. \A d \in Configs : rows[d] = NoRow => rows'[d] = NoRow
      BY <1>6 DEF Unset
    <3>3. QED
      BY <3>1, <3>2 DEF Defaults
  <2>2. Switching' \subseteq Switching \cup {r}
    <3>1. \E s, v : Goes(r, s, c, v)
      BY <1>6 DEF Unset
    <3>2. \A q \in Requests \ {r} : req'[q] = req[q]
      BY <3>1, Moved
    <3>3. QED
      BY <3>2 DEF Switching
  <2>3. ~crossed' => Switching \ {r} = {}
    BY <1>6 DEF Unset
  <2>4. QED
    BY <2>1, <2>2, <2>3 DEF DInv
<1>7. ASSUME NEW r \in Requests, NEW c \in Configs, Insert(r, c) \/ Mark(r)
      PROVE  DInv'
  <2>1. r \in Switching /\ UNCHANGED crossed
    BY <1>7 DEF Insert, Mark, Switching, At
  <2>2. \E s \in {"idle", "forget", "drop"} : \E d, v : Goes(r, s, d, v)
    BY <1>7, EndsMoves DEF Insert, Mark
  <2>3. Switching' \subseteq Switching \ {r}
    BY <1>2, <2>2
  <2>4. \E d \in Configs : Defaults' \subseteq Defaults \cup {d}
    <3>1. req[r].id \in Configs
      BY <1>1 DEF Req
    <3>2. CASE Insert(r, c)
      <4>1. \A d \in Configs \ {c} : rows'[d] = rows[d]
        BY <1>1, <3>2 DEF Insert
      <4>2. QED
        BY <4>1 DEF Defaults
    <3>3. CASE Mark(r)
      <4>1. \A d \in Configs \ {req[r].id} : rows'[d] = rows[d]
        BY <1>1, <3>3 DEF Mark
      <4>2. QED
        BY <3>1, <4>1 DEF Defaults
    <3>4. QED
      BY <1>7, <3>2, <3>3
  <2>5. QED
    BY <2>1, <2>3, <2>4 DEF DInv
<1>8. ASSUME NEW p \in Procs, Restart(p)
      PROVE  DInv'
  <2>1. UNCHANGED <<rows, crossed>> /\ Switching' \subseteq Switching
    BY <1>8 DEF Restart, Switching, Idle
  <2>2. QED
    BY <1>3, <2>1, NoMore
<1>9. CASE Tick
  BY <1>3, <1>9, NoMore DEF Tick, history, Switching
<1>10. CASE UNCHANGED vars
  BY <1>3, <1>10, NoMore DEF vars, history, Switching
<1>11. QED
  BY <1>4, <1>5, <1>6, <1>7, <1>8, <1>9, <1>10, ConfigAssumption DEF Next, Serve

\* For any number of requests and rows: switches of the default that do not
\* overlap leave one default at most.
THEOREM OneIsTheDefault == Spec => []OneDefault
<1>1. DInv => OneDefault
  <2>1. ASSUME \A c, d \in Defaults : c = d
        PROVE  Cardinality(Defaults) <= 1
    <3>1. CASE Defaults = {}
      BY <3>1, FS_EmptySet
    <3>2. CASE Defaults # {}
      <4>1. PICK c \in Defaults : TRUE
        BY <3>2
      <4>2. Defaults = {c}
        BY <2>1, <4>1
      <4>3. QED
        <5>1. Cardinality({c}) = 1
          BY FS_Singleton
        <5>2. QED
          BY <4>2, <5>1
    <3>3. QED
      BY <3>1, <3>2
  <2>2. QED
    BY <2>1 DEF DInv, OneDefault
<1>2. QED
  BY <1>1, AInvInit, AInvKept, DInvInit, DInvKept, PTL DEF Spec
=============================================================================
