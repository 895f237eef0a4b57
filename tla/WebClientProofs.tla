-------------------------- MODULE WebClientProofs --------------------------
(***************************************************************************)
(* Proofs about the two protocols of the web client, which share nothing:  *)
(* its sessions (WebSession), for any number of tabs and of calls under    *)
(* way, and its drafts (OfflineDrafts), for any number of tasks under way. *)
(***************************************************************************)
EXTENDS WebSession, OfflineDrafts, FiniteSetTheorems, TLAPS

-----------------------------------------------------------------------------
(* Sessions.                                                               *)

AnyCall == [tab : Tabs \cup {Closed}, kind : {"request", "logout", "login"},
            step : Steps, token : Nat]

\* The shape of the variables, without the bound on the pairs.
Shape ==
  /\ live \in SUBSET Nat /\ issued \in Nat /\ stored \in Nat
  /\ memory \in [Tabs -> Nat] /\ upset \in BOOLEAN
  /\ call \in [Calls -> AnyCall]

\* A sign-out nothing overlapped leaves no row, and nothing that could bring
\* one back or hand a pair to the browser.
SignedOut ==
  /\ closed # "no" => live = {} /\ Exchanging = {}
  /\ closed = "browser" => stored = 0

\* No number above the newest pair is in use.
Numbers ==
  /\ stored <= issued /\ \A n \in live : 1 <= n /\ n <= issued
  /\ \A t \in Tabs : memory[t] <= issued
  /\ \A c \in Calls : call[c].token <= issued

\* While nothing was lost, an answer on its way holds a row of its own that no
\* other call knows of, and every exchange has a page that waits for it.
Sound(c) ==
  /\ At(c, "answer") => call[c].token \in live /\ call[c].token # stored
  /\ At(c, "answer") => \A d \in Calls \ {c} :
       call[d].step \in {"find", "delete", "answer"} =>
         call[d].token # call[c].token
  /\ call[c].step \in {"find", "delete", "insert", "answer"} =>
       call[c].tab # Closed
  /\ call[c].step \in {"find", "delete"} => call[c].kind # "login"

Answers == ~upset => \A c \in Calls : Sound(c)

WInv == Shape /\ SignedOut /\ Numbers /\ Answers /\ StoredIsUsable

\* What a call's own step does to the calls.
LEMMA OneCall ==
  ASSUME Shape, NEW c \in Calls, NEW s \in Steps, Goes(c, s)
  PROVE  /\ call' \in [Calls -> AnyCall]
         /\ \A d \in Calls \ {c} : call'[d] = call[d]
         /\ call'[c].step = s
         /\ s # "idle" => call'[c].tab = call[c].tab /\ call'[c].kind = call[c].kind
         /\ call'[c].token = IF s \in Holding THEN call[c].token ELSE 0
<1>1. CASE s = "idle"
  <2>1. call' = [call EXCEPT ![c] = NoCall]
    BY <1>1 DEF Goes
  <2>2. NoCall \in AnyCall
    BY DEF NoCall, Steps, AnyCall
  <2> QED
    BY <1>1, <2>1, <2>2 DEF Shape, NoCall, Holding
<1>2. CASE s # "idle"
  <2> DEFINE r == [call[c] EXCEPT !.step = s,
                                  !.token = IF s \in Holding THEN call[c].token ELSE 0]
  <2>1. call' = [call EXCEPT ![c] = r]
    BY <1>2 DEF Goes
  <2>2. /\ r \in AnyCall
        /\ r.step = s /\ r.tab = call[c].tab /\ r.kind = call[c].kind
        /\ r.token = IF s \in Holding THEN call[c].token ELSE 0
    BY DEF Shape, AnyCall
  <2> QED
    BY <2>1, <2>2, <1>2 DEF Shape
<1> QED
  BY <1>1, <1>2

LEMMA SessionInit == Init => WInv
<1> SUFFICES ASSUME Init PROVE WInv
  OBVIOUS
<1>1. NoCall \in AnyCall /\ NoCall.step = "idle" /\ NoCall.token = 0
  BY DEF NoCall, Steps, AnyCall
<1>2. \A c \in Calls : call[c] = NoCall
  BY DEF Init
<1>3. Shape
  BY <1>1 DEF Init, Shape
<1> QED
  BY <1>1, <1>2, <1>3 DEF Init, WInv, SignedOut, Numbers, Answers,
     StoredIsUsable, Exchanging, At, Sound

\* A call that steps outside of an exchange, or loses one, breaks nothing as
\* long as the server's rows stay or `upset` tells that they did not.
LEMMA QuietCall ==
  ASSUME WInv, NEW c \in Calls, NEW s \in Steps, Goes(c, s),
         s \notin {"find", "delete", "insert", "answer"},
         upset' \in BOOLEAN, upset => upset',
         (c \in Exchanging) => (upset' \/ call[c].tab = Closed),
         live' = live \/ (live' = {} /\ upset'),
         closed' \in {closed, "no"} \/ (live' = {} /\ Exchanging = {}),
         closed' = "browser" => closed = "browser" \/ stored' = 0,
         stored' \in {0, stored},
         memory' \in [Tabs -> Nat], \A t \in Tabs : memory'[t] \in {0, memory[t]},
         UNCHANGED issued
  PROVE  WInv'
<1>1. /\ call' \in [Calls -> AnyCall]
      /\ \A d \in Calls \ {c} : call'[d] = call[d]
      /\ call'[c].step = s /\ call'[c].token \in {0, call[c].token}
  BY OneCall DEF WInv
<1>2. Shape'
  <2>1. live' \in SUBSET Nat
    BY DEF WInv, Shape
  <2>2. stored' \in Nat /\ issued' \in Nat
    BY DEF WInv, Shape
  <2> QED
    BY <1>1, <2>1, <2>2 DEF Shape
<1>3. SignedOut'
  <2>1. Exchanging' \subseteq Exchanging
    BY <1>1 DEF Exchanging
  <2> QED
    BY <2>1 DEF WInv, SignedOut
<1>4. Numbers'
  <2>1. \A d \in Calls : call'[d].token = call[d].token \/ call'[d].token = 0
    BY <1>1
  <2>2. 0 <= issued
    BY DEF WInv, Shape
  <2> QED
    BY <2>1, <2>2 DEF WInv, Shape, Numbers
<1>5. Answers'
  <2> SUFFICES ASSUME ~upset', NEW d \in Calls PROVE Sound(d)'
    BY DEF Answers
  <2>1. ~upset /\ \A e \in Calls : Sound(e)
    BY DEF WInv, Answers
  <2>2. live' = live
    BY DEF WInv
  <2>3. \A e \in Calls :
          call'[e].step \in {"find", "delete", "insert", "answer"} =>
            e # c /\ call'[e] = call[e]
    BY <1>1
  <2>4. stored' # stored => stored' = 0
    OBVIOUS
  <2>5. At(d, "answer") => call[d].token # 0
    <3>1. 0 \notin live
      BY DEF WInv, Numbers, Shape
    <3> QED
      BY <2>1, <3>1 DEF Sound
  <2> QED
    BY <2>1, <2>2, <2>3, <2>4, <2>5 DEF Sound, At
<1>6. StoredIsUsable'
  <2> SUFFICES ASSUME stored' # 0, ~upset' PROVE StoredIsUsable!2'
    BY DEF StoredIsUsable
  <2>1. CASE stored \in live
    BY <2>1
  <2>2. CASE stored \notin live
    <3>1. PICK d \in Exchanging : call[d].tab # Closed /\ call[d].kind # "login"
      BY <2>2 DEF WInv, StoredIsUsable
    <3>2. d # c
      BY <3>1
    <3> QED
      BY <1>1, <3>1, <3>2 DEF Exchanging
  <2> QED
    BY <2>1, <2>2
<1> QED
  BY <1>2, <1>3, <1>4, <1>5, <1>6 DEF WInv

\* A page goes away, with call c or with none of its calls.
LEMMA PageGone ==
  ASSUME WInv, NEW t \in Tabs, NEW c, Unload(t, c),
         c \in Calls => call[c].step = "refused",
         stored' \in {0, stored}, UNCHANGED <<server, closed>>
  PROVE  WInv'
<1>1. \A d \in Calls :
        /\ call'[d] \in AnyCall
        /\ call'[d] = NoCall
           \/ (call'[d].step = call[d].step /\ call'[d].kind = call[d].kind
               /\ call'[d].token = call[d].token /\ d # c
               /\ call'[d].tab = IF call[d].tab = t THEN Closed ELSE call[d].tab)
  <2>1. NoCall \in AnyCall
    BY DEF NoCall, AnyCall, Steps
  <2>2. SUFFICES ASSUME NEW d \in Calls, d # c
                 PROVE  LET e == [call[d] EXCEPT !.tab = IF @ = t THEN Closed
                                                        ELSE @]
                        IN /\ e \in AnyCall
                           /\ e.step = call[d].step /\ e.kind = call[d].kind
                           /\ e.token = call[d].token
                           /\ e.tab = IF call[d].tab = t THEN Closed
                                      ELSE call[d].tab
    BY <2>1 DEF Unload
  <2> QED
    BY DEF WInv, Shape, AnyCall
<1>2. NoCall.step = "idle" /\ NoCall.token = 0
  BY DEF NoCall
<1>3. Shape'
  BY <1>1 DEF WInv, Shape, Unload, server
<1>4. Exchanging' \subseteq Exchanging
  BY <1>1, <1>2 DEF Exchanging
<1>5. SignedOut'
  BY <1>4 DEF WInv, SignedOut, server
<1>6. Numbers'
  BY <1>1, <1>2 DEF WInv, Shape, Numbers, server, Unload
<1>7. ASSUME ~upset' PROVE Answers' /\ StoredIsUsable'
  <2>1. ~upset /\ \A d \in Calls : Sound(d)
    BY <1>7 DEF WInv, Shape, Answers, Unload
  <2>2. \A d \in Calls \ {c} :
          call[d].step \in {"find", "delete", "insert", "answer"} =>
            call[d].tab # t
    BY <1>7 DEF Unload, Exchanging, At
  <2>3. \A d \in Calls :
          call[d].step \in {"find", "delete", "insert", "answer"} =>
            call[d].tab # t /\ d # c
    BY <2>2
  <2>4. \A d \in Calls :
          call'[d].step \in {"find", "delete", "insert", "answer"} =>
            /\ call'[d].step = call[d].step /\ call'[d].kind = call[d].kind
            /\ call'[d].token = call[d].token /\ call'[d].tab = call[d].tab
    BY <1>1, <1>2, <2>3
  <2>5. \A d \in Calls : At(d, "answer") => call[d].token # 0
    <3>1. 0 \notin live
      BY DEF WInv, Numbers, Shape
    <3> QED
      BY <2>1, <3>1 DEF Sound
  <2>6. live' = live
    BY DEF server
  <2>7. Answers'
    BY <2>1, <2>4, <2>5, <2>6 DEF Answers, Sound, At
  <2>8. \A d \in Exchanging : d \in Exchanging'
                             /\ call'[d].tab = call[d].tab
                             /\ call'[d].kind = call[d].kind
    BY <1>1, <2>3 DEF Exchanging, Unload
  <2> QED
    BY <2>1, <2>6, <2>7, <2>8 DEF WInv, StoredIsUsable
<1>8. ASSUME upset' PROVE Answers' /\ StoredIsUsable'
  BY <1>8 DEF Answers, StoredIsUsable
<1> QED
  BY <1>3, <1>5, <1>6, <1>7, <1>8 DEF WInv

\* A call starts, at a page that is there.
LEMMA CallStarts ==
  ASSUME WInv, NEW c \in Calls, NEW t \in Tabs,
         NEW kind \in {"request", "logout", "login"}, NEW step, NEW token \in Nat,
         Starts(c, t, kind, step, token), token <= issued,
         \/ step = "sent" /\ closed' = closed
         \/ step = "insert" /\ closed' = "no",
         UNCHANGED <<server, browser, upset>>
  PROVE  WInv'
<1> DEFINE r == [tab |-> t, kind |-> kind, step |-> step, token |-> token]
<1>1. call' = [call EXCEPT ![c] = r] /\ call[c].step = "idle"
  BY DEF Starts, At
<1>2. r \in AnyCall
  BY DEF AnyCall, Steps
<1>3. call' \in [Calls -> AnyCall] /\ call'[c] = r
      /\ \A d \in Calls \ {c} : call'[d] = call[d]
  BY <1>1, <1>2 DEF WInv, Shape
<1> HIDE DEF r
<1>4. r.step = step /\ r.tab = t /\ r.token = token /\ t # Closed
  BY WebSessionAssumption DEF r
<1>5. Shape'
  BY <1>3 DEF WInv, Shape, server, browser
<1>6. Exchanging' \subseteq Exchanging \/ closed' = "no"
  BY <1>3, <1>4 DEF Exchanging
<1>7. SignedOut'
  BY <1>6 DEF WInv, SignedOut, server, browser
<1>8. Numbers'
  BY <1>3, <1>4 DEF WInv, Numbers, server, browser
<1>9. Answers'
  <2> SUFFICES ASSUME ~upset', NEW d \in Calls PROVE Sound(d)'
    BY DEF Answers
  <2>1. \A e \in Calls : Sound(e)
    BY DEF WInv, Answers
  <2>2. CASE d = c
    BY <1>3, <1>4, <2>2 DEF Sound, At
  <2>3. CASE d # c
    BY <1>3, <1>4, <2>1, <2>3 DEF Sound, At, server, browser
  <2> QED
    BY <2>2, <2>3
<1>10. StoredIsUsable'
  <2>1. \A d \in Exchanging : d # c
    BY <1>1 DEF Exchanging
  <2>2. \A d \in Exchanging : d \in Exchanging' /\ call'[d] = call[d]
    BY <1>3, <2>1 DEF Exchanging
  <2> QED
    BY <2>2 DEF WInv, StoredIsUsable, server, browser
<1> QED
  BY <1>5, <1>7, <1>8, <1>9, <1>10 DEF WInv

\* The steps of an exchange before its answer.
LEMMA ExchangeBegins ==
  ASSUME WInv, NEW c \in Calls, TryRefresh(c) \/ FindByTokenHash(c)
  PROVE  WInv'
<1>1. ASSUME Goes(c, "refused"), ~(c \in Exchanging),
             UNCHANGED <<server, browser, upset, closed>>
      PROVE  WInv'
  <2>1. UNCHANGED <<live, issued, stored, memory, upset, closed>>
    BY <1>1 DEF server, browser
  <2>2. upset' \in BOOLEAN /\ memory' \in [Tabs -> Nat]
    BY <2>1 DEF WInv, Shape
  <2>3. closed' = "browser" => stored' = 0
    BY <2>1 DEF WInv, SignedOut
  <2> QED
    BY <1>1, <2>1, <2>2, <2>3, QuietCall DEF Steps
<1> DEFINE Held(token, step) ==
             /\ call' \in [Calls -> AnyCall]
             /\ \A d \in Calls \ {c} : call'[d] = call[d]
             /\ call'[c].step = step /\ call'[c].token = token
             /\ call'[c].tab = call[c].tab /\ call'[c].kind = call[c].kind
<1>2. ASSUME NEW token \in {stored, call[c].token},
             NEW step \in {"find", "delete"}, Held(token, step),
             call[c].step \in {"denied", "find"},
             ~upset => call[c].tab # Closed /\ call[c].kind # "login",
             ~upset => token = stored \/ At(c, "find"),
             step = "delete" => live # {},
             UNCHANGED <<server, browser, upset, closed>>
      PROVE  WInv'
  <2>1. UNCHANGED <<live, issued, stored, memory, upset, closed>>
    BY <1>2 DEF server, browser
  <2>2. Shape'
    BY <1>2, <2>1 DEF WInv, Shape
  <2>3. SignedOut'
    <3>1. step = "find" => Exchanging' \subseteq Exchanging
      BY <1>2 DEF Exchanging
    <3> QED
      BY <1>2, <2>1, <3>1 DEF WInv, SignedOut
  <2>4. Numbers'
    <3>1. token <= issued
      BY <1>2 DEF WInv, Numbers
    <3> QED
      BY <1>2, <2>1, <3>1 DEF WInv, Numbers
  <2>5. Answers'
    <3> SUFFICES ASSUME ~upset', NEW d \in Calls PROVE Sound(d)'
      BY DEF Answers
    <3>1. ~upset /\ \A e \in Calls : Sound(e)
      BY <2>1 DEF WInv, Answers
    <3>2. CASE d = c
      BY <1>2, <2>1, <3>1, <3>2 DEF Sound, At
    <3>3. CASE d # c
      <4>1. At(d, "answer") => token # call[d].token
        BY <1>2, <3>1, <3>3 DEF Sound, At
      <4> QED
        BY <1>2, <2>1, <3>1, <3>3, <4>1 DEF Sound, At
    <3> QED
      BY <3>2, <3>3
  <2>6. StoredIsUsable'
    <3>1. \A d \in Exchanging : d \in Exchanging' /\ call'[d] = call[d]
      BY <1>2 DEF Exchanging
    <3> QED
      BY <2>1, <3>1 DEF WInv, StoredIsUsable
  <2> QED
    BY <2>2, <2>3, <2>4, <2>5, <2>6 DEF WInv
<1>3. CASE TryRefresh(c)
  <2>1. CASE stored = 0
    BY <1>1, <1>3, <2>1 DEF TryRefresh, At, Exchanging
  <2>2. CASE stored # 0
    <3>1. /\ call' = [call EXCEPT ![c].step = "find", ![c].token = stored]
          /\ At(c, "denied") /\ call[c].tab # Closed /\ call[c].kind # "login"
      BY <1>3, <2>2 DEF TryRefresh
    <3>2. Held(stored, "find")
      BY <3>1 DEF WInv, Shape, AnyCall, Steps
    <3> HIDE DEF Held
    <3> QED
      BY <1>2, <1>3, <3>1, <3>2 DEF TryRefresh, At
  <2> QED
    BY <2>1, <2>2
<1>4. CASE FindByTokenHash(c)
  <2>1. CASE call[c].token \in live
    <3>1. Goes(c, "delete") /\ At(c, "find")
      BY <1>4, <2>1 DEF FindByTokenHash
    <3>2. Held(call[c].token, "delete")
      BY <3>1, OneCall DEF WInv, Steps, Holding
    <3>3. ~upset => call[c].tab # Closed /\ call[c].kind # "login"
      BY <3>1 DEF WInv, Answers, Sound, At
    <3> HIDE DEF Held
    <3> QED
      BY <1>2, <1>4, <2>1, <3>1, <3>2, <3>3 DEF FindByTokenHash, At
  <2>2. CASE call[c].token \notin live
    BY <1>1, <1>4, <2>2 DEF FindByTokenHash, At, Exchanging
  <2> QED
    BY <2>1, <2>2
<1> QED
  BY <1>3, <1>4

\* The old row goes, and the exchange is all that keeps the browser signed in.
LEMMA DeleteKeeps == \A c \in Calls : WInv /\ Delete(c) => WInv'
<1> SUFFICES ASSUME NEW c \in Calls, WInv, Delete(c) PROVE WInv'
  OBVIOUS
<1>1. /\ call' \in [Calls -> AnyCall]
      /\ \A d \in Calls \ {c} : call'[d] = call[d]
      /\ call'[c].step = "insert" /\ call'[c].token = 0
      /\ call'[c].tab = call[c].tab /\ call'[c].kind = call[c].kind
  BY OneCall DEF WInv, Delete, Steps, Holding
<1>2. /\ live' = live \ {call[c].token} /\ call[c].step = "delete"
      /\ UNCHANGED <<issued, stored, memory, upset, closed>>
  BY DEF Delete, At, browser
<1>3. Shape'
  BY <1>1, <1>2 DEF WInv, Shape
<1>4. SignedOut'
  <2>1. closed = "no"
    BY <1>2 DEF WInv, SignedOut, Exchanging
  <2> QED
    BY <1>2, <2>1 DEF SignedOut
<1>5. Numbers'
  BY <1>1, <1>2 DEF WInv, Shape, Numbers
<1>6. ASSUME ~upset PROVE \A d \in Calls : Sound(d)
  BY <1>6 DEF WInv, Answers
<1>7. Answers'
  <2> SUFFICES ASSUME ~upset', NEW d \in Calls PROVE Sound(d)'
    BY DEF Answers
  <2>1. CASE d = c
    BY <1>1, <1>2, <1>6, <2>1 DEF Sound, At
  <2>2. CASE d # c
    <3>1. At(d, "answer") => call[d].token \in live'
      BY <1>2, <1>6, <2>2 DEF Sound, At
    <3> QED
      BY <1>1, <1>2, <1>6, <2>2, <3>1 DEF Sound, At
  <2> QED
    BY <2>1, <2>2
<1>8. StoredIsUsable'
  <2>1. ~upset => call[c].tab # Closed /\ call[c].kind # "login"
    BY <1>2, <1>6 DEF Sound
  <2>2. c \in Exchanging'
    BY <1>1 DEF Exchanging
  <2> QED
    BY <1>1, <1>2, <2>1, <2>2 DEF StoredIsUsable
<1> QED
  BY <1>3, <1>4, <1>5, <1>7, <1>8 DEF WInv

\* A new pair has a number nobody knows yet.
LEMMA InsertKeeps == \A c \in Calls : WInv /\ InsertSession(c) => WInv'
<1> SUFFICES ASSUME NEW c \in Calls, WInv, InsertSession(c) PROVE WInv'
  OBVIOUS
<1> DEFINE r == [call[c] EXCEPT !.step = "answer", !.token = issued + 1]
<1>1. call' = [call EXCEPT ![c] = r] /\ call[c].step = "insert"
  BY DEF InsertSession, At
<1>2. /\ r \in AnyCall /\ r.step = "answer" /\ r.token = issued + 1
      /\ r.tab = call[c].tab /\ r.kind = call[c].kind
  <2>1. call[c] \in AnyCall /\ issued + 1 \in Nat /\ "answer" \in Steps
    BY DEF WInv, Shape, Steps
  <2> QED
    BY <2>1 DEF AnyCall
<1>3. /\ call' \in [Calls -> AnyCall] /\ call'[c] = r
      /\ \A d \in Calls \ {c} : call'[d] = call[d]
  BY <1>1, <1>2 DEF WInv, Shape
<1> HIDE DEF r
<1>4. /\ live' = live \cup {issued + 1} /\ issued' = issued + 1
      /\ UNCHANGED <<stored, memory, upset, closed>>
  BY DEF InsertSession, browser
<1>5. issued \in Nat /\ issued + 1 \in Nat
  BY DEF WInv, Shape
<1>6. Shape'
  BY <1>3, <1>4, <1>5 DEF WInv, Shape
<1>7. SignedOut'
  <2>1. closed = "no"
    BY <1>1 DEF WInv, SignedOut, Exchanging
  <2> QED
    BY <1>4, <2>1 DEF SignedOut
<1>8. Numbers'
  <2>1. /\ stored <= issued + 1 /\ \A n \in live' : 1 <= n /\ n <= issued + 1
        /\ \A t \in Tabs : memory[t] <= issued + 1
    BY <1>4, <1>5 DEF WInv, Shape, Numbers
  <2>2. \A d \in Calls : call'[d].token <= issued + 1
    <3>1. \A d \in Calls : call[d].token <= issued + 1
      BY <1>5 DEF WInv, Shape, AnyCall, Numbers
    <3> QED
      BY <1>2, <1>3, <1>5, <3>1
  <2> QED
    BY <1>4, <2>1, <2>2 DEF Numbers
<1>9. /\ \A d \in Calls : call[d].token # issued + 1
      /\ stored # issued + 1
  BY <1>5 DEF WInv, Shape, AnyCall, Numbers
<1>10. Answers'
  <2> SUFFICES ASSUME ~upset', NEW d \in Calls PROVE Sound(d)'
    BY DEF Answers
  <2>1. \A e \in Calls : Sound(e)
    BY <1>4 DEF WInv, Answers
  <2>2. CASE d = c
    BY <1>1, <1>2, <1>3, <1>4, <1>9, <2>1, <2>2 DEF Sound, At
  <2>3. CASE d # c
    BY <1>2, <1>3, <1>4, <1>9, <2>1, <2>3 DEF Sound, At
  <2> QED
    BY <2>2, <2>3
<1>11. StoredIsUsable'
  <2>1. \A d \in Exchanging : /\ d \in Exchanging' /\ call'[d].tab = call[d].tab
                              /\ call'[d].kind = call[d].kind
    BY <1>2, <1>3 DEF Exchanging
  <2> QED
    BY <1>4, <2>1 DEF WInv, StoredIsUsable
<1> QED
  BY <1>6, <1>7, <1>8, <1>10, <1>11 DEF WInv

\* An answer arrives: its pair replaces the stored one.
LEMMA AcceptKeeps ==
  \A c \in Calls : WInv /\ (Accept(c) \/ AcceptLogin(c)) => WInv'
<1> SUFFICES ASSUME NEW c \in Calls, WInv, Accept(c) \/ AcceptLogin(c) PROVE WInv'
  OBVIOUS
<1> DEFINE n == call[c].token
<1>1. /\ At(c, "answer") /\ stored' = n
      /\ memory' = [memory EXCEPT ![call[c].tab] = n]
      /\ UNCHANGED <<live, issued, closed>>
  BY DEF Accept, AcceptLogin, server
<1>2. PICK s \in {"retry", "idle"} : Goes(c, s)
  BY DEF Accept, AcceptLogin
<1>3. /\ call' \in [Calls -> AnyCall]
      /\ \A d \in Calls \ {c} : call'[d] = call[d]
      /\ call'[c].step = s /\ call'[c].token \in {0, n}
  BY <1>2, OneCall DEF WInv, Steps
<1>4. n \in Nat /\ n <= issued /\ issued \in Nat
  BY DEF WInv, Shape, AnyCall, Numbers
<1>5. upset' = upset \/ (Busy = {c} /\ upset' = (n \notin live))
  BY DEF Accept, AcceptLogin
<1> HIDE DEF n
<1>6. Shape'
  <2>1. memory' \in [Tabs -> Nat]
    BY <1>1, <1>4 DEF WInv, Shape
  <2>2. upset' \in BOOLEAN
    BY <1>5 DEF WInv, Shape
  <2> QED
    BY <1>1, <1>3, <1>4, <2>1, <2>2 DEF WInv, Shape
<1>7. SignedOut'
  <2>1. closed = "no"
    BY <1>1 DEF WInv, SignedOut, Exchanging, At
  <2> QED
    BY <1>1, <2>1 DEF SignedOut
<1>8. Numbers'
  <2>1. \A t \in Tabs : memory'[t] <= issued
    BY <1>1, <1>4 DEF WInv, Shape, Numbers
  <2>2. 0 <= issued
    BY <1>4
  <2>3. \A d \in Calls : call'[d].token <= issued
    BY <1>3, <1>4, <2>2 DEF WInv, Numbers
  <2> QED
    BY <1>1, <1>4, <2>1, <2>3 DEF WInv, Numbers
<1>9. ASSUME ~upset' PROVE n \in live /\ Answers'
  <2>1. CASE ~upset
    <3>1. \A d \in Calls : Sound(d)
      BY <2>1 DEF WInv, Answers
    <3>2. n \in live
      BY <1>1, <3>1 DEF Sound, n
    <3>3. \A d \in Calls \ {c} :
            call[d].step \in {"find", "delete", "answer"} => call[d].token # n
      BY <1>1, <3>1 DEF Sound, n
    <3>4. ASSUME NEW d \in Calls PROVE Sound(d)'
      <4>1. CASE d = c
        BY <1>3, <4>1 DEF Sound, At
      <4>2. CASE d # c
        BY <1>1, <1>3, <3>1, <3>3, <4>2 DEF Sound, At
      <4> QED
        BY <4>1, <4>2
    <3> QED
      BY <3>2, <3>4 DEF Answers
  <2>2. CASE upset
    <3>1. Busy = {c} /\ n \in live
      BY <1>5, <1>9, <2>2
    <3>2. \A d \in Calls : call'[d].step \in {"retry", "idle"}
      BY <1>3, <3>1 DEF Busy, At
    <3>3. \A d \in Calls : Sound(d)'
      BY <3>2 DEF Sound, At
    <3> QED
      BY <3>1, <3>3 DEF Answers
  <2> QED
    BY <2>1, <2>2 DEF WInv, Shape
<1>10. StoredIsUsable'
  BY <1>1, <1>9 DEF StoredIsUsable
<1>11. Answers'
  BY <1>9 DEF Answers
<1> QED
  BY <1>6, <1>7, <1>8, <1>10, <1>11 DEF WInv

\* The server's answer to a call, and every way a call ends.
LEMMA CallsEnd ==
  \A c \in Calls :
    WInv /\ (Serve(c) \/ Drop(c) \/ FailExchange(c) \/ Leave(c) \/ Fail(c)
             \/ Ignore(c)) => WInv'
<1> SUFFICES ASSUME NEW c \in Calls, WInv PROVE
      (Serve(c) \/ Drop(c) \/ FailExchange(c) \/ Leave(c) \/ Fail(c)
       \/ Ignore(c)) => WInv'
  OBVIOUS
<1>1. /\ upset \in BOOLEAN /\ memory \in [Tabs -> Nat]
      /\ \A t \in Tabs : [memory EXCEPT ![t] = 0] \in [Tabs -> Nat]
  BY DEF WInv, Shape
<1>2. closed = "browser" => stored = 0
  BY DEF WInv, SignedOut
<1>3. closed # "no" => live = {} /\ Exchanging = {}
  BY DEF WInv, SignedOut
<1>4. ASSUME Serve(c) PROVE WInv'
  <2>1. /\ c \notin Exchanging
        /\ UNCHANGED <<issued, stored, memory>>
    BY <1>4 DEF Serve, Exchanging, browser
  <2>2. CASE DeleteAll(c)
    <3>1. /\ Goes(c, "done") /\ live' = {} /\ upset'
          /\ closed' = "no" \/ (closed' = "server" /\ Exchanging = {})
      BY <2>2 DEF DeleteAll
    <3>2. upset' \in BOOLEAN
      BY <2>2 DEF DeleteAll
    <3> QED
      BY <1>1, <2>1, <3>1, <3>2, QuietCall DEF Steps
  <2>3. CASE ~DeleteAll(c)
    <3>1. /\ \E s \in {"idle", "denied", "failed"} : Goes(c, s)
          /\ UNCHANGED <<live, upset, closed>>
      BY <1>4, <2>3 DEF Serve
    <3>2. PICK s \in {"idle", "denied", "failed"} : Goes(c, s)
      BY <3>1
    <3> QED
      BY <1>1, <1>2, <2>1, <3>1, <3>2, QuietCall DEF Steps
  <2> QED
    BY <2>2, <2>3
<1>5. ASSUME Drop(c) PROVE WInv'
  <2>1. /\ c \notin Exchanging /\ Goes(c, "failed")
        /\ UNCHANGED <<live, issued, stored, memory, upset, closed>>
    BY <1>5 DEF Drop, Exchanging, server, browser
  <2> QED
    BY <1>1, <1>2, <2>1, QuietCall DEF Steps
<1>6. ASSUME FailExchange(c) PROVE WInv'
  <2>1. /\ upset' = TRUE
        /\ UNCHANGED <<live, issued, stored, memory, closed>>
    BY <1>6 DEF FailExchange, server, browser
  <2>2. PICK s \in {"failed", "refused"} : Goes(c, s)
    BY <1>6 DEF FailExchange
  <2> QED
    BY <1>1, <1>2, <2>1, <2>2, QuietCall DEF Steps
<1>7. ASSUME Leave(c) PROVE WInv'
  <2>1. /\ At(c, "done") /\ Goes(c, "idle") /\ stored' = 0
        /\ UNCHANGED <<live, issued, upset>>
        /\ memory' = [memory EXCEPT ![call[c].tab] = 0]
        /\ closed' = closed \/ (closed = "server" /\ closed' = "browser")
    BY <1>7 DEF Leave, server
  <2>2. c \notin Exchanging
    BY <2>1 DEF Exchanging, At
  <2>3. /\ memory' \in [Tabs -> Nat]
        /\ \A t \in Tabs : memory'[t] \in {0, memory[t]}
    BY <1>1, <2>1
  <2>4. closed' = closed \/ (live' = {} /\ Exchanging = {})
    BY <1>3, <2>1
  <2> QED
    BY <1>1, <2>1, <2>2, <2>3, <2>4, QuietCall DEF Steps
<1>8. ASSUME Fail(c) PROVE WInv'
  <2>1. /\ At(c, "failed") /\ Goes(c, "idle") /\ stored' \in {0, stored}
        /\ memory' \in {memory, [memory EXCEPT ![call[c].tab] = 0]}
        /\ UNCHANGED <<live, issued, upset, closed>>
    BY <1>8 DEF Fail, server
  <2>2. c \notin Exchanging
    BY <2>1 DEF Exchanging, At
  <2>3. /\ memory' \in [Tabs -> Nat]
        /\ \A t \in Tabs : memory'[t] \in {0, memory[t]}
    BY <1>1, <2>1
  <2> QED
    BY <1>1, <1>2, <2>1, <2>2, <2>3, QuietCall DEF Steps
<1>9. ASSUME Ignore(c) PROVE WInv'
  <2>1. /\ call[c].tab = Closed /\ Goes(c, "idle")
        /\ UNCHANGED <<live, issued, stored, memory, upset, closed>>
    BY <1>9 DEF Ignore, server, browser
  <2> QED
    BY <1>1, <1>2, <2>1, QuietCall DEF Steps
<1> QED
  BY <1>4, <1>5, <1>6, <1>7, <1>8, <1>9

\* The pages, time, and sessions that end elsewhere.
LEMMA RestKeeps ==
  /\ \A t \in Tabs : WInv /\ (Visit(t) \/ Boot(t)) => WInv'
  /\ \A n \in Pairs : WInv /\ (ExpireAccess(n) \/ EndSession(n)) => WInv'
<1>1. ASSUME NEW t \in Tabs, WInv, Visit(t) \/ Boot(t) PROVE WInv'
  <2>1. UNCHANGED <<live, issued, stored, call, upset, closed>>
    BY <1>1 DEF Visit, Boot, server
  <2>2. memory' = memory \/ memory' = [memory EXCEPT ![t] = stored]
    BY <1>1 DEF Visit, Boot
  <2>3. Shape' /\ Numbers'
    BY <1>1, <2>1, <2>2 DEF WInv, Shape, Numbers
  <2>4. SignedOut' /\ Answers' /\ StoredIsUsable'
    BY <1>1, <2>1
       DEF WInv, SignedOut, Answers, StoredIsUsable, Sound, At, Exchanging
  <2> QED
    BY <2>3, <2>4 DEF WInv
<1>2. ASSUME NEW n \in Pairs, WInv, ExpireAccess(n) PROVE WInv'
  BY <1>2 DEF ExpireAccess, browser, WInv, Shape, Numbers, SignedOut, Answers,
     StoredIsUsable, Sound, At, Exchanging
<1>3. ASSUME NEW n \in Pairs, WInv, EndSession(n) PROVE WInv'
  <2>1. /\ live' \subseteq live /\ upset' = TRUE
        /\ UNCHANGED <<issued, stored, memory, call, closed>>
    BY <1>3 DEF EndSession, browser
  <2> QED
    BY <1>3, <2>1 DEF WInv, Shape, Numbers, SignedOut, Answers, StoredIsUsable,
       Exchanging
<1> QED
  BY <1>1, <1>2, <1>3

LEMMA SessionNext == WInv /\ [Next]_vars => WInv'
<1> SUFFICES ASSUME WInv, [Next]_vars PROVE WInv'
  OBVIOUS
<1>1. ASSUME NEW t \in Tabs, Visit(t) \/ Boot(t) \/ Reload(t) PROVE WInv'
  <2>1. CASE Reload(t)
    <3> QED
      BY <2>1, WebSessionAssumption, PageGone DEF Reload
  <2> QED
    BY <1>1, <2>1, RestKeeps
<1>2. ASSUME NEW c \in Calls, NEW t \in Tabs,
             Request(c, t) \/ Logout(c, t) \/ Login(c, t)
      PROVE  WInv'
  <2>1. memory[t] \in Nat /\ memory[t] <= issued /\ 0 <= issued
    BY DEF WInv, Shape, Numbers
  <2>2. CASE Request(c, t)
    BY <2>1, <2>2, CallStarts DEF Request
  <2>3. CASE Logout(c, t)
    BY <2>1, <2>3, CallStarts DEF Logout
  <2>4. CASE Login(c, t)
    BY <2>1, <2>4, CallStarts DEF Login
  <2> QED
    BY <1>2, <2>2, <2>3, <2>4
<1>3. ASSUME NEW c \in Calls, ClientStep(c) PROVE WInv'
  <2>1. CASE Redirect(c)
    <3>1. /\ call[c].step = "refused" /\ call[c].tab \in Tabs
          /\ Unload(call[c].tab, c) /\ stored' \in {0, stored}
          /\ UNCHANGED <<server, closed>>
      BY <2>1 DEF Redirect, At, WInv, Shape, AnyCall
    <3> QED
      BY <3>1, PageGone
  <2> QED
    BY <1>3, <2>1, ExchangeBegins, AcceptKeeps, CallsEnd DEF ClientStep
<1>4. ASSUME NEW c \in Calls, ServerStep(c) PROVE WInv'
  BY <1>4, ExchangeBegins, DeleteKeeps, InsertKeeps, CallsEnd DEF ServerStep
<1>5. ASSUME NEW c \in Calls, Drop(c) \/ FailExchange(c) PROVE WInv'
  BY <1>5, CallsEnd
<1>6. ASSUME NEW n \in Pairs, ExpireAccess(n) \/ EndSession(n) PROVE WInv'
  BY <1>6, RestKeeps
<1>7. ASSUME UNCHANGED vars PROVE WInv'
  BY <1>7 DEF vars, WInv, Shape, Numbers, SignedOut, Answers, StoredIsUsable,
     Sound, At, Exchanging
<1> QED
  BY <1>1, <1>2, <1>3, <1>4, <1>5, <1>6, <1>7 DEF Next

\* However many tabs and calls exchange the one stored pair, in whatever
\* order, the browser keeps a pair it can use unless something was lost.
THEOREM StoredStaysUsable == Spec => []StoredIsUsable
<1>1. WInv => StoredIsUsable
  BY DEF WInv
<1> QED
  BY <1>1, SessionInit, SessionNext, PTL DEF Spec

\* A sign-out no exchange overlapped stays complete at the server and, once
\* answered, in the browser.
THEOREM SignOutIsComplete == Spec => []SignedOutIsOut
<1>1. WInv => SignedOutIsOut
  BY DEF WInv, SignedOut, SignedOutIsOut
<1> QED
  BY <1>1, SessionInit, SessionNext, PTL DEF Spec
-----------------------------------------------------------------------------
(***************************************************************************)
(* The server never runs out of pairs: whichever calls are under way, each *)
(* that may still be given a pair has one left.                            *)
(***************************************************************************)

\* The calls that may still be given a pair, one each.
Owing == {c \in Calls : call[c].step \in {"sent", "denied", "find", "delete", "insert"}}

\* No call under way can be given a pair, because none is there to exchange.
Dead ==
  /\ stored \notin live /\ Exchanging = {}
  /\ \A c \in Calls : At(c, "find") => call[c].token \notin live

PInv ==
  /\ issued <= MaxPairs /\ valid \subseteq Pairs
  /\ page \in [Tabs -> {"landing", "loading", "login", "app"}]
  /\ closed \in {"no", "server", "browser"}
  /\ issued + Cardinality(Owing) <= MaxPairs \/ Dead

LEMMA CallSets ==
  ASSUME NEW S \in SUBSET Calls
  PROVE  /\ IsFiniteSet(S) /\ Cardinality(S) \in Nat
         /\ \A T \in SUBSET S : Cardinality(T) <= Cardinality(S) /\ Cardinality(T) \in Nat
         /\ \A c \in S : Cardinality(S \ {c}) = Cardinality(S) - 1
         /\ \A c : Cardinality(S \cup {c}) <= Cardinality(S) + 1
<1>1. IsFiniteSet(S)
  BY WebSessionAssumption, FS_Subset
<1>2. Cardinality(S) \in Nat
  BY <1>1, FS_CardinalityType
<1>3. ASSUME NEW T \in SUBSET S
      PROVE  Cardinality(T) <= Cardinality(S) /\ Cardinality(T) \in Nat
  BY <1>1, FS_Subset, FS_CardinalityType
<1>4. ASSUME NEW c \in S
      PROVE  Cardinality(S \ {c}) = Cardinality(S) - 1
  BY <1>1, FS_RemoveElement
<1>5. ASSUME NEW c
      PROVE  Cardinality(S \cup {c}) <= Cardinality(S) + 1
  <2>1. Cardinality(S \cup {c}) = IF c \in S THEN Cardinality(S) ELSE Cardinality(S) + 1
    BY <1>1, FS_AddElement
  <2>2. QED
    BY <1>2, <2>1
<1>6. QED
  BY <1>1, <1>2, <1>3, <1>4, <1>5

\* A step that makes no call owe a pair and brings no pair to life.
LEMMA NoNewDebt ==
  ASSUME WInv, PInv, issued' = issued, valid' \subseteq valid,
         page' \in [Tabs -> {"landing", "loading", "login", "app"}],
         closed' \in {"no", "server", "browser"},
         Owing' \subseteq Owing, Dead => Dead'
  PROVE  PInv'
<1>1. Cardinality(Owing') <= Cardinality(Owing) /\ Cardinality(Owing') \in Nat
      /\ Cardinality(Owing) \in Nat
  <2>1. Owing \in SUBSET Calls /\ Owing' \in SUBSET Owing
    BY DEF Owing
  <2>2. QED
    BY <2>1, CallSets
<1>2. issued \in Nat /\ MaxPairs \in Nat
  BY WebSessionAssumption DEF WInv, Shape
<1>3. QED
  BY <1>1, <1>2 DEF PInv

\* The step of one call, to a step in which it owes no more than before.
LEMMA OneCallsDebt ==
  ASSUME WInv, PInv, NEW c \in Calls, NEW s \in Steps, Goes(c, s),
         UNCHANGED <<issued, valid>>, live' \subseteq live,
         page' \in [Tabs -> {"landing", "loading", "login", "app"}],
         closed' \in {"no", "server", "browser"},
         s \in {"sent", "denied", "find", "delete", "insert"} => c \in Owing,
         Dead => stored' \in {0, stored} /\ s \notin {"find", "delete", "insert", "answer"}
  PROVE  PInv'
<1>1. /\ \A d \in Calls \ {c} : call'[d] = call[d]
      /\ call'[c].step = s
  BY OneCall DEF WInv
<1>2. Owing' \subseteq Owing
  BY <1>1 DEF Owing
<1>3. Dead => Dead'
  <2>1. 0 \notin live
    BY DEF WInv, Numbers, Shape
  <2>2. QED
    BY <1>1, <2>1 DEF Dead, Exchanging, At
<1>4. QED
  BY <1>2, <1>3, NoNewDebt

LEMMA PairsInit == Init => PInv
<1> SUFFICES ASSUME Init PROVE PInv
  OBVIOUS
<1>1. \A c \in Calls : call[c].step = "idle"
  BY DEF Init, NoCall
<1>2. Dead /\ 0 <= MaxPairs
  BY <1>1, WebSessionAssumption DEF Init, Dead, Exchanging, At
<1>3. QED
  BY <1>2 DEF Init, PInv

\* A call starts only when a pair is left for it, or none can be given out.
LEMMA StartsPaid ==
  ASSUME WInv, PInv, NEW c \in Calls, NEW t \in Tabs,
         NEW kind \in {"request", "logout", "login"}, NEW step, NEW token,
         Starts(c, t, kind, step, token), closed' \in {"no", "server", "browser"},
         step = "insert" => kind = "login",
         step \in {"sent", "insert"}, UNCHANGED <<server, browser>>
  PROVE  PInv'
<1>1. /\ \A d \in Calls \ {c} : call'[d] = call[d]
      /\ call'[c].step = step
  BY DEF Starts, WInv, Shape
<1>2. /\ Owing' \in SUBSET Calls /\ Owing' \subseteq Owing \cup {c}
      /\ Owing \subseteq Busy /\ Busy \in SUBSET Calls /\ Owing \in SUBSET Calls
  BY <1>1 DEF Owing, Busy, At
<1>3. issued \in Nat /\ MaxPairs \in Nat
  BY WebSessionAssumption DEF WInv, Shape
<1>4. CASE issued + Cardinality(Busy) < MaxPairs
  <2>1. /\ Cardinality(Owing) <= Cardinality(Busy) /\ Cardinality(Owing) \in Nat
        /\ Cardinality(Busy) \in Nat
    BY <1>2, CallSets
  <2>2. Cardinality(Owing \cup {c}) <= Cardinality(Owing) + 1
    BY <1>2, CallSets
  <2>3. Owing \cup {c} \in SUBSET Calls
    BY <1>2
  <2>4. /\ Cardinality(Owing') <= Cardinality(Owing \cup {c}) /\ Cardinality(Owing') \in Nat
        /\ Cardinality(Owing \cup {c}) \in Nat
    BY <1>2, <2>3, CallSets
  <2>5. issued' + Cardinality(Owing') <= MaxPairs
    BY <1>3, <1>4, <2>1, <2>2, <2>4 DEF server
  <2>6. QED
    BY <2>5 DEF PInv, server, browser
<1>5. CASE /\ kind # "login" /\ stored \notin live
           /\ Exchanging = {} /\ \A d \in Calls : ~At(d, "find")
  <2>1. step = "sent"
    BY <1>5
  <2>2. Dead'
    BY <1>1, <1>5, <2>1 DEF Dead, Exchanging, At, server, browser
  <2>3. QED
    BY <2>2 DEF PInv, server, browser
<1>6. QED
  BY <1>4, <1>5 DEF Starts

\* A pair given out is one that its call owed.
LEMMA InsertPaid ==
  ASSUME WInv, PInv, NEW c \in Calls, InsertSession(c)
  PROVE  PInv'
<1>1. /\ \A d \in Calls \ {c} : call'[d] = call[d]
      /\ call'[c].step = "answer" /\ call[c].step = "insert"
  BY DEF InsertSession, At, WInv, Shape, AnyCall
<1>2. c \in Owing /\ Owing' = Owing \ {c} /\ Owing \in SUBSET Calls /\ c \in Exchanging
  BY <1>1 DEF Owing, Exchanging
<1>3. issued + Cardinality(Owing) <= MaxPairs
  BY <1>2 DEF PInv, Dead
<1>4. /\ Cardinality(Owing') = Cardinality(Owing) - 1 /\ Cardinality(Owing') \in Nat
      /\ Cardinality(Owing) \in Nat
  BY <1>2, CallSets
<1>5. issued \in Nat /\ MaxPairs \in Nat /\ issued' = issued + 1
  BY WebSessionAssumption DEF WInv, Shape, InsertSession
<1>6. issued' <= MaxPairs /\ issued' + Cardinality(Owing') <= MaxPairs
  BY <1>3, <1>4, <1>5
<1>7. valid' \subseteq Pairs
  BY <1>5, <1>6 DEF InsertSession, PInv, Pairs
<1>8. QED
  BY <1>6, <1>7 DEF InsertSession, PInv, browser

LEMMA PairsNext == WInv /\ PInv /\ [Next]_vars => PInv'
<1> SUFFICES ASSUME WInv, PInv, [Next]_vars PROVE PInv'
  OBVIOUS
<1>1. /\ page \in [Tabs -> {"landing", "loading", "login", "app"}]
      /\ closed \in {"no", "server", "browser"}
      /\ Closed \notin Calls /\ 0 \notin live
  BY WebSessionAssumption DEF PInv, WInv, Numbers, Shape
<1>2. ASSUME NEW t \in Tabs, Visit(t) \/ Boot(t)
      PROVE  PInv'
  <2>1. UNCHANGED <<server, stored, call, closed>>
    BY <1>2 DEF Visit, Boot
  <2>2. page' \in [Tabs -> {"landing", "loading", "login", "app"}]
    BY <1>1, <1>2 DEF Visit, Boot
  <2>3. Owing' = Owing /\ (Dead => Dead')
    BY <2>1 DEF Owing, Dead, Exchanging, At, server
  <2>4. QED
    BY <1>1, <2>1, <2>2, <2>3, NoNewDebt DEF server
<1>3. ASSUME NEW t \in Tabs, NEW c, Unload(t, c), stored' \in {0, stored},
             UNCHANGED <<server, closed>>
      PROVE  PInv'
  <2>1. \A d \in Calls : \/ call'[d] = NoCall
                         \/ call'[d].step = call[d].step /\ call'[d].token = call[d].token
    BY <1>3 DEF Unload, WInv, Shape, AnyCall
  <2>2. NoCall.step = "idle"
    BY DEF NoCall
  <2>3. Owing' \subseteq Owing /\ (Dead => Dead')
    BY <1>1, <1>3, <2>1, <2>2 DEF Owing, Dead, Exchanging, At, server
  <2>4. page' \in [Tabs -> {"landing", "loading", "login", "app"}]
    BY <1>1, <1>3 DEF Unload
  <2>5. QED
    BY <1>1, <1>3, <2>3, <2>4, NoNewDebt DEF server
<1>4. ASSUME NEW c \in Calls, NEW t \in Tabs, Request(c, t) \/ Logout(c, t) \/ Login(c, t)
      PROVE  PInv'
  BY <1>1, <1>4, StartsPaid DEF Request, Logout, Login
<1>5. ASSUME NEW c \in Calls, TryRefresh(c)
      PROVE  PInv'
  <2>1. c \in Owing /\ UNCHANGED <<server, browser, closed>>
    BY <1>5 DEF TryRefresh, Owing, At
  <2>2. CASE Goes(c, "refused")
    BY <1>1, <2>1, <2>2, OneCallsDebt DEF server, browser, Steps
  <2>3. CASE call' = [call EXCEPT ![c].step = "find", ![c].token = stored]
    <3>1. /\ \A d \in Calls \ {c} : call'[d] = call[d]
          /\ call'[c].step = "find" /\ call'[c].token = stored
      BY <2>3 DEF WInv, Shape, AnyCall
    <3>2. Owing' \subseteq Owing /\ (Dead => Dead')
      BY <2>1, <3>1 DEF Owing, Dead, Exchanging, At, server, browser
    <3>3. QED
      BY <1>1, <2>1, <3>2, NoNewDebt DEF server, browser
  <2>4. QED
    BY <1>5, <2>2, <2>3 DEF TryRefresh
<1>6. ASSUME NEW c \in Calls, FindByTokenHash(c) \/ Delete(c)
      PROVE  PInv'
  <2>1. /\ c \in Owing /\ live' \subseteq live
        /\ UNCHANGED <<issued, valid, browser, closed>>
    BY <1>6 DEF FindByTokenHash, Delete, Owing, At, server
  <2>2. \E s \in {"delete", "refused", "insert"} :
          Goes(c, s) /\ (Dead => s = "refused")
    BY <1>6 DEF FindByTokenHash, Delete, Dead, Exchanging, At
  <2>3. QED
    BY <1>1, <2>1, <2>2, OneCallsDebt DEF browser, Steps
<1>7. ASSUME NEW c \in Calls, Serve(c)
      PROVE  PInv'
  <2>1. \E s \in {"idle", "done", "denied", "failed"} :
          Goes(c, s) /\ (s = "denied" => c \in Owing)
    BY <1>7 DEF Serve, DeleteAll, Owing, At
  <2>2. /\ live' \subseteq live /\ closed' \in {"no", "server", "browser"}
        /\ UNCHANGED <<issued, valid, browser>>
    BY <1>1, <1>7 DEF Serve, DeleteAll
  <2>3. QED
    BY <1>1, <2>1, <2>2, OneCallsDebt DEF browser, Steps
<1>8. ASSUME NEW c \in Calls, Drop(c) \/ FailExchange(c) \/ Ignore(c)
      PROVE  PInv'
  <2>1. \E s \in {"idle", "failed", "refused"} : Goes(c, s)
    BY <1>8 DEF Drop, FailExchange, Ignore
  <2>2. UNCHANGED <<server, browser, closed>>
    BY <1>8 DEF Drop, FailExchange, Ignore
  <2>3. QED
    BY <1>1, <2>1, <2>2, OneCallsDebt DEF server, browser, Steps
<1>9. ASSUME NEW c \in Calls, Leave(c) \/ Fail(c)
      PROVE  PInv'
  <2>1. Goes(c, "idle") /\ UNCHANGED server /\ stored' \in {0, stored}
    BY <1>9 DEF Leave, Fail
  <2>2. /\ closed' \in {"no", "server", "browser"}
        /\ page' \in [Tabs -> {"landing", "loading", "login", "app"}]
    BY <1>1, <1>9 DEF Leave, Fail
  <2>3. QED
    BY <2>1, <2>2, OneCallsDebt DEF server, Steps
<1>10. ASSUME NEW c \in Calls, Accept(c) \/ AcceptLogin(c)
       PROVE  PInv'
  <2>1. /\ \E s \in {"retry", "idle"} : Goes(c, s)
        /\ UNCHANGED <<server, closed>> /\ c \in Exchanging
    BY <1>10 DEF Accept, AcceptLogin, Exchanging, At
  <2>2. page' \in [Tabs -> {"landing", "loading", "login", "app"}]
    BY <1>1, <1>10 DEF Accept, AcceptLogin
  <2>3. ~Dead
    BY <2>1 DEF Dead
  <2>4. QED
    BY <1>1, <2>1, <2>2, <2>3, OneCallsDebt DEF server, Steps
<1>11. ASSUME NEW n \in Pairs, ExpireAccess(n) \/ EndSession(n)
       PROVE  PInv'
  <2>1. /\ live' \subseteq live /\ valid' \subseteq valid
        /\ UNCHANGED <<issued, browser, call, closed>>
    BY <1>11 DEF ExpireAccess, EndSession
  <2>2. Owing' = Owing /\ (Dead => Dead')
    BY <2>1 DEF Owing, Dead, Exchanging, At, browser
  <2>3. QED
    BY <1>1, <2>1, <2>2, NoNewDebt DEF browser
<1>12. ASSUME NEW t \in Tabs, Reload(t)
       PROVE  PInv'
  BY <1>3, <1>12 DEF Reload
<1>13. ASSUME NEW c \in Calls, Redirect(c)
       PROVE  PInv'
  <2>1. call[c].tab \in Tabs
    BY <1>13 DEF Redirect, WInv, Shape, AnyCall
  <2>2. QED
    BY <1>3, <1>13, <2>1 DEF Redirect
<1>14. CASE UNCHANGED vars
  BY <1>14 DEF vars, PInv, Owing, Dead, Exchanging, At
<1>15. QED
  BY <1>2, <1>4, <1>5, <1>6, <1>7, <1>8, <1>9, <1>10, <1>11, <1>12, <1>13, <1>14, InsertPaid
     DEF Next, ClientStep, ServerStep

\* The variables keep their types, and no more pairs are given out than the
\* bound on the calls that start allows.
THEOREM SessionTypes == Spec => []TypeOK
<1>1. ASSUME WInv, PInv
      PROVE  TypeOK
  <2>1. \A n \in Nat : n <= issued => n \in 0 .. MaxPairs
    BY <1>1, WebSessionAssumption DEF WInv, Shape, PInv
  <2>2. live \subseteq Pairs
    BY <1>1, WebSessionAssumption DEF WInv, Shape, Numbers, PInv, Pairs
  <2>3. memory \in [Tabs -> 0 .. MaxPairs]
    BY <1>1, <2>1 DEF WInv, Shape, Numbers
  <2>4. ASSUME NEW c \in Calls
        PROVE  call[c] \in Call
    BY <1>1, <2>1 DEF WInv, Shape, Numbers, AnyCall, Call
  <2>5. issued \in 0 .. MaxPairs /\ stored \in 0 .. MaxPairs
    BY <1>1, <2>1 DEF WInv, Shape, Numbers
  <2>6. QED
    BY <1>1, <2>2, <2>3, <2>4, <2>5 DEF WInv, Shape, PInv, TypeOK
<1>2. QED
  BY <1>1, SessionInit, SessionNext, PairsInit, PairsNext, PTL DEF Spec

-----------------------------------------------------------------------------
(* Drafts.                                                                 *)
AnyTask == [kind : Kinds, step : TaskSteps, draft : Draft, file : Files \cup {NoFile}]

\* A task that handles an attachment has its file.
TaskRecord == {r \in AnyTask : /\ r.kind \in FileKinds => r.file \in Files
                               /\ r.step \in {"blob", "unblob"} => r.kind \in FileKinds}

\* A draft without unsaved edits is on the server.
Honest(d) == ~d.dirty \/ d.status = "synced" => d.text \in posted

\* So are all that a task may yet write, and the one that was answered.
Truthful ==
  /\ Honest(ref) /\ (row # NoDraft => Honest(row))
  /\ \A t \in Tasks : /\ Honest(task[t].draft)
                      /\ task[t].step = "answer" => task[t].draft.text \in posted

\* While nothing overlapped, the only task, draftRef and the form agree, and
\* a row that no task is about to write agrees with them.
Same(d) == d.text = form /\ d.files = shown

Calm ==
  open /\ raced = "nothing" =>
    /\ Same(ref)
    /\ \A t \in Running : Same(task[t].draft) /\ Running = {t}
    /\ Running = {} /\ row # NoDraft => Same(row)

OInv == DraftTypeOK /\ task \in [Tasks -> TaskRecord] /\ Truthful /\ Calm

(* What a new task starts with.                                            *)
LEMMA StartTyped ==
  ASSUME OInv, NEW t \in Tasks, NEW kind \in Kinds,
         NEW step \in TaskSteps \ {"idle", "answer"},
         NEW d \in Draft, NEW f \in Files \cup {NoFile}, Start(t, kind, step, d, f),
         kind \in FileKinds => f \in Files,
         step \in {"blob", "unblob"} => kind \in FileKinds
  PROVE  /\ task' \in [Tasks -> TaskRecord]
         /\ raced' \in {"nothing", "texts", "files"}
         /\ task'[t].draft = d /\ task'[t].step = step
         /\ \A u \in Tasks \ {t} : task'[u] = task[u]
         /\ raced' = "nothing" => raced = "nothing" /\ Running = {} /\ Running' = {t}
<1> DEFINE r == [kind |-> kind, step |-> step, draft |-> d, file |-> f]
<1>1. task' = [task EXCEPT ![t] = r] /\ task \in [Tasks -> TaskRecord]
  BY DEF Start, OInv, DraftTypeOK, TaskRecord, AnyTask
<1>2. r \in TaskRecord
  BY DEF TaskRecord, AnyTask
<1>3. task' \in [Tasks -> TaskRecord]
  BY <1>1, <1>2
<1>4. task'[t] = r /\ \A u \in Tasks \ {t} : task'[u] = task[u]
  BY <1>1
<1>5. raced' \in {"nothing", "texts", "files"}
  BY DEF Start, OInv, DraftTypeOK
<1>6. raced' = "nothing" => raced = "nothing" /\ Running = {}
  BY DEF Start
<1>7. raced' = "nothing" => Running' = {t}
  BY <1>4, <1>6 DEF Running
<1> QED
  BY <1>3, <1>4, <1>5, <1>6, <1>7

(* The draft of an edit is typed, and it is as honest as the one before.   *)
LEMMA Edited ==
  ASSUME NEW d \in Draft, NEW text \in Text
  PROVE  /\ ApplyEdits(d, text) \in Draft
         /\ ApplyEdits(d, text).text = text /\ ApplyEdits(d, text).files = d.files
         /\ Honest(d) => Honest(ApplyEdits(d, text))
BY DEF ApplyEdits, Draft, Honest

(* persistLocalDraft keeps the invariant, for a text that the form shows.  *)
LEMMA PersistKeeps ==
  ASSUME OInv, NEW t \in Tasks, NEW kind \in Kinds,
         NEW f \in Files \cup {NoFile},
         form' \in Text, Persist(t, kind, form', f),
         UNCHANGED <<shown, row, posted>>, open, kind \in FileKinds => f \in Files
  PROVE  /\ ref' \in Draft /\ task' \in [Tasks -> TaskRecord]
         /\ raced' \in {"nothing", "texts", "files"}
         /\ Truthful' /\ Calm'
<1>1. ref' = ApplyEdits(ref, form') /\ ref \in Draft
  BY DEF Persist, OInv, DraftTypeOK
<1>2. /\ ref' \in Draft /\ ref'.text = form' /\ ref'.files = ref.files
      /\ Honest(ref) => Honest(ref')
  BY <1>1, Edited
<1>3. Start(t, kind, "write", ref', f)
  BY DEF Persist
<1>4. "write" \in TaskSteps \ {"idle", "answer"}
  BY DEF TaskSteps
<1>5. /\ task' \in [Tasks -> TaskRecord]
      /\ raced' \in {"nothing", "texts", "files"}
      /\ task'[t].draft = ref' /\ task'[t].step = "write"
      /\ \A u \in Tasks \ {t} : task'[u] = task[u]
      /\ raced' = "nothing" => raced = "nothing" /\ Running = {} /\ Running' = {t}
  BY <1>2, <1>3, <1>4, StartTyped
<1>6. Truthful'
  <2>1. Honest(ref)' /\ (row' # NoDraft => Honest(row)')
    BY <1>2 DEF OInv, Truthful, Honest
  <2>2. ASSUME NEW u \in Tasks
        PROVE  /\ Honest(task[u].draft)'
               /\ (task'[u].step = "answer" => task'[u].draft.text \in posted')
    <3>1. CASE u = t
      BY <3>1, <1>5, <2>1 DEF Honest
    <3>2. CASE u # t
      BY <3>2, <1>5 DEF OInv, Truthful, Honest
    <3> QED
      BY <3>1, <3>2
  <2> QED
    BY <2>1, <2>2 DEF Truthful
<1>7. Calm'
  <2> SUFFICES ASSUME open', raced' = "nothing"
      PROVE  /\ Same(ref)'
             /\ \A u \in Running' : Same(task[u].draft)' /\ Running' = {u}
             /\ (Running' = {} /\ row' # NoDraft => Same(row)')
    BY DEF Calm
  <2>1. Same(ref)'
    BY <1>2, <1>5 DEF OInv, Calm, Same
  <2> QED
    BY <1>5, <2>1 DEF Same
<1> QED
  BY <1>2, <1>5, <1>6, <1>7

(* The removal of an attachment keeps the invariant.                       *)
LEMMA RemoveFileKeeps ==
  ASSUME OInv, NEW t \in Tasks, NEW f \in Files, RemoveFile(t, f)
  PROVE  OInv'
<1>1. /\ Start(t, "remove", "unblob", ref, f)
      /\ UNCHANGED <<form, shown, ref, row, open, timer, online, edge,
                     posted, edits, clicks, reloads>>
  BY DEF RemoveFile, draft, composer, history
<1>2. /\ "unblob" \in TaskSteps \ {"idle", "answer"} /\ ref \in Draft
      /\ "remove" \in Kinds /\ "remove" \in FileKinds
  BY DEF TaskSteps, Kinds, FileKinds, OInv, DraftTypeOK
<1>5. /\ task' \in [Tasks -> TaskRecord]
      /\ raced' \in {"nothing", "texts", "files"}
      /\ task'[t].draft = ref /\ task'[t].step = "unblob"
      /\ \A u \in Tasks \ {t} : task'[u] = task[u]
      /\ raced' = "nothing" => raced = "nothing" /\ Running = {} /\ Running' = {t}
  BY <1>1, <1>2, StartTyped
<1>6. DraftTypeOK'
  BY <1>1, <1>5 DEF OInv, DraftTypeOK, TaskRecord, AnyTask
<1>7. Truthful'
  BY <1>1, <1>5 DEF OInv, Truthful, Honest
<1>8. Calm'
  BY <1>1, <1>5 DEF OInv, Calm, Same
<1> QED
  BY <1>5, <1>6, <1>7, <1>8 DEF OInv

(* The calls that write the form keep the invariant.                       *)
LEMMA CallsKeep ==
  ASSUME OInv, NEW t \in Tasks,
         \/ Edit(t) \/ TimerFires(t)
                            \/ ClickSave(t) \/ Reconnected(t)
         \/ \E f \in Files : AttachFile(t, f)
  PROVE  OInv'
<1>0. /\ "persist" \in Kinds /\ "save" \in Kinds /\ "attach" \in Kinds
      /\ NoFile \in Files \cup {NoFile}
      /\ "persist" \notin FileKinds /\ "save" \notin FileKinds
  BY DEF Kinds, FileKinds
<1>1. CASE Edit(t)
  <2>1. form' \in Text /\ edits' \in 0 .. MaxEdits
    BY <1>1, DraftAssumption DEF Edit, OInv, DraftTypeOK, DraftAssumption, Text
  <2>2. /\ Persist(t, "persist", form', NoFile)
        /\ UNCHANGED <<shown, row, posted, open, online, edge, clicks, reloads>>
        /\ open /\ timer' = TRUE
    BY <1>1 DEF Edit
  <2>3. /\ ref' \in Draft /\ task' \in [Tasks -> TaskRecord]
        /\ raced' \in {"nothing", "texts", "files"}
        /\ Truthful' /\ Calm'
    BY <2>1, <2>2, <1>0, PersistKeeps
  <2> QED
    BY <2>1, <2>2, <2>3 DEF OInv, DraftTypeOK, TaskRecord, AnyTask
<1>2. ASSUME open, UNCHANGED <<form, shown, row, open, online, posted, edits, reloads>>,
             NEW kind \in {"save", "attach"}, NEW f \in Files \cup {NoFile},
             Persist(t, kind, form, f), kind = "attach" => f \in Files,
             timer' \in BOOLEAN, edge' \in BOOLEAN, clicks' \in 0 .. MaxSaves
      PROVE  OInv'
  <2>1. form' \in Text /\ Persist(t, kind, form', f) /\ kind \in Kinds
        /\ (kind \in FileKinds => f \in Files)
    BY <1>2, <1>0 DEF OInv, DraftTypeOK
  <2>2. /\ ref' \in Draft /\ task' \in [Tasks -> TaskRecord]
        /\ raced' \in {"nothing", "texts", "files"}
        /\ Truthful' /\ Calm'
    BY <2>1, <1>2, <1>0, PersistKeeps
  <2> QED
    BY <1>2, <2>2 DEF OInv, DraftTypeOK, TaskRecord, AnyTask
<1>3. ASSUME UNCHANGED <<form, shown, row, open, online, posted, edits, reloads>>,
             UNCHANGED <<ref, task, raced>>,
             timer' \in BOOLEAN, edge' \in BOOLEAN, clicks' \in 0 .. MaxSaves
      PROVE  OInv'
  <2>1. DraftTypeOK'
    BY <1>3 DEF OInv, DraftTypeOK
  <2>2. Truthful' /\ Calm'
    BY <1>3 DEF OInv, Truthful, Honest, Calm, Same, Running
  <2> QED
    BY <1>3, <2>1, <2>2 DEF OInv
<1>4. CASE TimerFires(t)
  BY <1>4, <1>2, <1>3, <1>0 DEF TimerFires, SaveDraftNow, OInv, DraftTypeOK, history
<1>5. CASE ClickSave(t)
  <2>1. clicks' \in 0 .. MaxSaves
    BY <1>5, DraftAssumption DEF ClickSave, OInv, DraftTypeOK, DraftAssumption
  <2> QED
    BY <1>5, <2>1, <1>2, <1>3, <1>0 DEF ClickSave, SaveDraftNow, OInv, DraftTypeOK,
        composer
<1>6. CASE Reconnected(t)
  BY <1>6, <1>2, <1>3, <1>0 DEF Reconnected, SaveDraftNow, OInv, DraftTypeOK, history
<1>7. CASE \E f \in Files : AttachFile(t, f)
  <2> PICK f \in Files : AttachFile(t, f)
    BY <1>7
  <2>1. clicks' \in 0 .. MaxSaves
    BY DraftAssumption DEF AttachFile, OInv, DraftTypeOK, DraftAssumption
  <2> QED
    BY <2>1, <1>2 DEF AttachFile, OInv, DraftTypeOK, composer
<1> QED
  BY <1>1, <1>4, <1>5, <1>6, <1>7

(* A task that goes on changes nothing of the others.                      *)
LEMMA GoSets ==
  ASSUME OInv, NEW t \in Tasks, NEW step \in TaskSteps \ {"idle"},
         NEW d \in Draft,
         task[t].step # "idle", Go(t, step, d),
         step \in {"blob", "unblob"} => task[t].kind \in FileKinds
  PROVE  /\ task' \in [Tasks -> TaskRecord]
         /\ task'[t].draft = d /\ task'[t].step = step
         /\ \A u \in Tasks \ {t} : task'[u] = task[u]
         /\ Running' = Running
<1> DEFINE r == [task[t] EXCEPT !.step = step, !.draft = d]
<1>1. task' = [task EXCEPT ![t] = r] /\ task \in [Tasks -> TaskRecord]
  BY DEF Go, OInv, DraftTypeOK, TaskRecord, AnyTask
<1>2. r \in TaskRecord /\ r.draft = d /\ r.step = step
  BY <1>1 DEF TaskRecord, AnyTask
<1>3. task' \in [Tasks -> TaskRecord] /\ task'[t] = r
      /\ \A u \in Tasks \ {t} : task'[u] = task[u]
  BY <1>1, <1>2
<1>4. Running' = Running
  BY <1>2, <1>3 DEF Running
<1> QED
  BY <1>2, <1>3, <1>4

(* A task that ends is idle, and the others are as they were.              *)
LEMMA EndSets ==
  ASSUME OInv, NEW t \in Tasks, End(t)
  PROVE  /\ task' \in [Tasks -> TaskRecord]
         /\ task'[t] = NoTask
         /\ \A u \in Tasks \ {t} : task'[u] = task[u]
         /\ Running' = Running \ {t}
<1>1. task' = [task EXCEPT ![t] = NoTask] /\ task \in [Tasks -> TaskRecord]
  BY DEF End, OInv, DraftTypeOK, TaskRecord, AnyTask
<1>2. NoTask \in TaskRecord /\ NoTask.step = "idle"
  BY DraftAssumption DEF DraftAssumption, NoTask, TaskRecord, AnyTask, Kinds, FileKinds,
      TaskSteps, Draft, EmptyDraft, Empty, Text
<1>3. task' \in [Tasks -> TaskRecord] /\ task'[t] = NoTask
      /\ \A u \in Tasks \ {t} : task'[u] = task[u]
  BY <1>1, <1>2
<1>4. Running' = Running \ {t}
  BY <1>2, <1>3 DEF Running
<1> QED
  BY <1>3, <1>4

(* A step of one task: it goes on with a draft of the same text.           *)
LEMMA GoKeeps ==
  ASSUME OInv, NEW t \in Tasks, NEW step \in TaskSteps \ {"idle"},
         NEW d \in Draft,
         task[t].step # "idle", Go(t, step, d), d.text = task[t].draft.text,
         step \in {"blob", "unblob"} => task[t].kind \in FileKinds,
         posted' \in SUBSET Text, posted \subseteq posted',
         Honest(d)', step = "answer" => d.text \in posted',
         ref' \in Draft, shown' \in SUBSET Files, row' \in Draft \cup {NoDraft},
         Honest(ref)', row' # NoDraft => Honest(row)',
         \/ UNCHANGED <<ref, shown>> /\ d.files = task[t].draft.files
         \/ ref' = d /\ shown' = d.files,
         UNCHANGED <<form, composer, history, raced>>
  PROVE  OInv'
<1>1. /\ task' \in [Tasks -> TaskRecord]
      /\ task'[t].draft = d /\ task'[t].step = step
      /\ \A u \in Tasks \ {t} : task'[u] = task[u]
      /\ Running' = Running
  BY GoSets
<1>2. DraftTypeOK'
  BY <1>1 DEF OInv, DraftTypeOK, TaskRecord, AnyTask, composer, history
<1>3. Truthful'
  <2>1. ASSUME NEW u \in Tasks
        PROVE  /\ Honest(task[u].draft)'
               /\ (task'[u].step = "answer" => task'[u].draft.text \in posted')
    <3>1. CASE u = t
      BY <3>1, <1>1 DEF Honest
    <3>2. CASE u # t
      BY <3>2, <1>1 DEF OInv, Truthful, Honest
    <3> QED
      BY <3>1, <3>2
  <2> QED
    BY <2>1 DEF Truthful
<1>4. Calm'
  <2> SUFFICES ASSUME open', raced' = "nothing"
      PROVE  /\ Same(ref)'
             /\ \A u \in Running' : Same(task[u].draft)' /\ Running' = {u}
             /\ (Running' = {} /\ row' # NoDraft => Same(row)')
    BY DEF Calm
  <2>1. t \in Running /\ Running = {t} /\ Same(task[t].draft) /\ Same(ref)
    BY DEF OInv, Calm, Running, composer
  <2>2. Same(ref)' /\ Same(d)'
    BY <2>1 DEF Same
  <2> QED
    BY <2>1, <2>2, <1>1 DEF Same
<1> QED
  BY <1>1, <1>2, <1>3, <1>4 DEF OInv

(* The last step of a task: its draft is in the row.                       *)
LEMMA EndKeeps ==
  ASSUME OInv, NEW t \in Tasks, task[t].step # "idle", End(t),
         row' = task[t].draft, ref' \in {ref, task[t].draft},
         UNCHANGED <<form, shown, composer, posted, history, raced>>
  PROVE  OInv'
<1>1. /\ task' \in [Tasks -> TaskRecord]
      /\ task'[t] = NoTask
      /\ \A u \in Tasks \ {t} : task'[u] = task[u]
      /\ Running' = Running \ {t}
  BY EndSets
<1>2. task[t].draft \in Draft /\ Honest(task[t].draft) /\ Honest(ref)
  BY DEF OInv, DraftTypeOK, Truthful
<1>3. DraftTypeOK'
  BY <1>1, <1>2 DEF OInv, DraftTypeOK, TaskRecord, AnyTask, composer, history
<1>4. Truthful'
  <2>1. ASSUME NEW u \in Tasks
        PROVE  /\ Honest(task[u].draft)'
               /\ (task'[u].step = "answer" => task'[u].draft.text \in posted')
    <3>1. CASE u = t
      BY <3>1, <1>1 DEF Honest, NoTask, EmptyDraft
    <3>2. CASE u # t
      BY <3>2, <1>1 DEF OInv, Truthful, Honest
    <3> QED
      BY <3>1, <3>2
  <2>2. Honest(ref)' /\ Honest(row)'
    BY <1>2 DEF Honest
  <2> QED
    BY <2>1, <2>2 DEF Truthful
<1>5. Calm'
  <2> SUFFICES ASSUME open', raced' = "nothing"
      PROVE  Same(ref)' /\ Running' = {} /\ Same(row)'
    BY DEF Calm
  <2>1. t \in Running /\ Running = {t} /\ Same(task[t].draft) /\ Same(ref)
    BY DEF OInv, Calm, Running, composer
  <2> QED
    BY <2>1, <1>1 DEF Same
<1> QED
  BY <1>1, <1>3, <1>4, <1>5 DEF OInv

(* Every step of a task keeps the invariant.                               *)
LEMMA ContinueKeeps ==
  ASSUME OInv, NEW t \in Tasks, Continue(t)
  PROVE  OInv'
<1>0. PICK d \in Draft : d = task[t].draft
  BY DEF OInv, DraftTypeOK
<1>1. /\ d \in Draft /\ Honest(d) /\ Honest(ref) /\ (row # NoDraft => Honest(row))
      /\ task[t].step = "answer" => d.text \in posted
      /\ ref \in Draft /\ row \in Draft \cup {NoDraft} /\ shown \in SUBSET Files
      /\ posted \in SUBSET Text /\ task[t].kind \in Kinds
      /\ d.text \in Text /\ d.files \in SUBSET Files
      /\ task[t].file \in Files \cup {NoFile}
  BY <1>0 DEF OInv, DraftTypeOK, Truthful, Draft
<1>2. /\ MarkSyncing(d) \in Draft /\ MarkSynced(d) \in Draft
      /\ MarkError(d) \in Draft
      /\ MarkSyncing(d).text = d.text /\ MarkSynced(d).text = d.text
      /\ MarkError(d).text = d.text
      /\ MarkSyncing(d).files = d.files /\ MarkSynced(d).files = d.files
      /\ MarkError(d).files = d.files
      /\ Honest(MarkSyncing(d)) /\ Honest(MarkError(d))
      /\ d.text \in posted => Honest(MarkSynced(d))
  BY <1>1 DEF MarkSyncing, MarkSynced, MarkError, Draft, Honest
<1>3. ASSUME NEW step \in {"mark", "post", "answer", "finish", "blob", "last"},
             NEW e \in Draft, task[t].step # "idle", Go(t, step, e),
             e.text = d.text,
             step = "blob" => task[t].kind = "attach",
             posted' \in SUBSET Text, posted \subseteq posted',
             Honest(e)', step = "answer" => e.text \in posted',
             ref' \in Draft, shown' \in SUBSET Files, row' \in Draft \cup {NoDraft},
             Honest(ref)', row' # NoDraft => Honest(row)',
             \/ ref' = ref /\ shown' = shown /\ e.files = d.files
             \/ ref' = e /\ shown' = e.files,
             UNCHANGED <<form, composer, history, raced>>
      PROVE  OInv'
  <2>1. /\ step \in TaskSteps \ {"idle"}
        /\ (step \in {"blob", "unblob"} => task[t].kind \in FileKinds)
    BY <1>3 DEF TaskSteps, FileKinds
  <2>2. e.text = task[t].draft.text
    BY <1>0, <1>3
  <2>3. \/ UNCHANGED <<ref, shown>> /\ e.files = task[t].draft.files
        \/ ref' = e /\ shown' = e.files
    BY <1>0, <1>3
  <2> QED
    BY <1>3, <2>1, <2>2, <2>3, GoKeeps
<1>4. CASE LandPersisted(t)
  <2>1. /\ task[t].step # "idle" /\ row' = d
        /\ UNCHANGED <<form, shown, composer, posted, history, raced>>
    BY <1>0, <1>4 DEF LandPersisted
  <2>2. CASE End(t) /\ ref' \in {ref, d}
    BY <1>0, <2>1, <2>2, EndKeeps
  <2>3. CASE task[t].kind = "attach" /\ Go(t, "blob", d) /\ UNCHANGED ref
    <3>1. Honest(d)' /\ Honest(ref)' /\ Honest(row)'
      BY <1>1, <2>1, <2>3 DEF Honest
    <3> QED
      BY <1>1, <1>3, <2>1, <2>3, <3>1
  <2>4. CASE Go(t, "mark", MarkSyncing(d)) /\ UNCHANGED ref
    <3>1. Honest(MarkSyncing(d))' /\ Honest(ref)' /\ Honest(row)'
      BY <1>0, <1>1, <1>2, <2>1, <2>4 DEF Honest
    <3> QED
      BY <1>1, <1>2, <1>3, <2>1, <2>4, <3>1
  <2> QED
    BY <1>0, <1>4, <2>2, <2>3, <2>4 DEF LandPersisted
<1>5. CASE LandSyncing(t)
  <2>1. /\ task[t].step # "idle" /\ row' = d /\ Go(t, "post", d)
        /\ UNCHANGED <<form, shown, ref, composer, posted, history, raced>>
    BY <1>0, <1>5 DEF LandSyncing
  <2>2. Honest(d)' /\ Honest(ref)' /\ Honest(row)'
    BY <1>1, <2>1 DEF Honest
  <2> QED
    BY <1>1, <1>3, <2>1, <2>2
<1>6. CASE AcceptDraft(t)
  <2>1. /\ task[t].step # "idle" /\ posted' = posted \cup {d.text} /\ Go(t, "answer", d)
        /\ UNCHANGED <<form, shown, ref, row, composer, history, raced>>
    BY <1>0, <1>6 DEF AcceptDraft, draft
  <2>2. Honest(d)' /\ Honest(ref)' /\ (row' # NoDraft => Honest(row)')
    BY <1>1, <2>1 DEF Honest
  <2>3. posted' \in SUBSET Text /\ posted \subseteq posted' /\ d.text \in posted'
    BY <1>1, <2>1
  <2> QED
    BY <1>1, <1>3, <2>1, <2>2, <2>3
<1>7. CASE Answer(t) \/ PostFails(t)
  <2>1. /\ task[t].step # "idle"
        /\ UNCHANGED <<form, shown, ref, row, composer, posted, history, raced>>
    BY <1>7 DEF Answer, PostFails, draft
  <2>2. PICK e \in Draft : /\ Go(t, "finish", e) /\ Honest(e)
                           /\ e.text = d.text /\ e.files = d.files
    BY <1>0, <1>1, <1>2, <1>7 DEF Answer, PostFails
  <2>3. Honest(e)' /\ Honest(ref)' /\ (row' # NoDraft => Honest(row)')
    BY <1>1, <2>1, <2>2 DEF Honest
  <2> QED
    BY <1>1, <1>3, <2>1, <2>2, <2>3
<1>8. CASE LandResult(t)
  BY <1>8, EndKeeps DEF LandResult
<1>9. CASE Relist(t)
  <2>1. /\ task[t].step # "idle" /\ shown' = ref'.files /\ Go(t, "last", ref')
        /\ UNCHANGED <<form, row, composer, posted, history, raced>>
    BY <1>9 DEF Relist
  <2>2. ref' = [d EXCEPT !.files = IF task[t].kind = "attach" THEN @ \cup {task[t].file}
                                   ELSE @ \ {task[t].file}]
    BY <1>0, <1>9 DEF Relist
  <2>3. PICK S \in SUBSET Files : ref' = [d EXCEPT !.files = S]
    <3>1. task[t].file \in Files
      BY <1>9 DEF Relist, OInv, TaskRecord
    <3> QED
      BY <2>2, <3>1, <1>1
  <2>4. /\ ref' \in Draft /\ ref'.files = S /\ ref'.text = d.text
        /\ ref'.dirty = d.dirty /\ ref'.status = d.status
    BY <2>3, <1>0 DEF Draft
  <2>6. Honest(ref)'
    BY <2>1, <2>4, <1>1 DEF Honest
  <2>5. row' # NoDraft => Honest(row)'
    BY <1>1, <2>1 DEF Honest
  <2> QED
    BY <1>1, <1>3, <2>1, <2>4, <2>5, <2>6
<1> QED
  BY <1>4, <1>5, <1>6, <1>7, <1>8, <1>9 DEF Continue

(* The invariant of the drafts holds at first.                             *)
LEMMA DraftsInit ==
  ASSUME DraftInit
  PROVE  OInv
<1>1. EmptyDraft \in Draft /\ NoTask \in TaskRecord /\ Running = {}
  BY DraftAssumption DEF EmptyDraft, Empty, Text, Draft, DraftAssumption, NoTask, TaskRecord, AnyTask,
      Kinds, FileKinds, TaskSteps, Running, DraftInit
<1>2. task \in [Tasks -> TaskRecord] /\ 0 \in 0 .. MaxEdits /\ 0 \in 0 .. MaxSaves
      /\ 0 \in 0 .. MaxReloads
  BY <1>1, DraftAssumption DEF DraftInit, DraftAssumption
<1>4. DraftTypeOK
  BY <1>1, <1>2 DEF DraftInit, DraftTypeOK, TaskRecord, AnyTask, Empty, Text
<1>3. Truthful /\ Calm
  BY <1>1 DEF DraftInit, Truthful, Calm, Same, Honest, NoTask, EmptyDraft
<1> QED
  BY <1>2, <1>3, <1>4 DEF OInv

(* Every step of the Composer, its tasks and the network keeps it.         *)
LEMMA DraftsNext ==
  ASSUME OInv, [DraftNext]_draftVars
  PROVE  OInv'
<1>1. CASE \E t \in Tasks : \/ Edit(t) \/ TimerFires(t)
                            \/ ClickSave(t) \/ Reconnected(t)
                            \/ \E f \in Files : AttachFile(t, f)
  BY <1>1, CallsKeep
<1>2. CASE \E t \in Tasks : \E f \in Files : RemoveFile(t, f)
  BY <1>2, RemoveFileKeeps
<1>3. CASE \E t \in Tasks : Continue(t)
  BY <1>3, ContinueKeeps
<1>4. CASE Close \/ Disconnect \/ Connect \/ UNCHANGED draftVars
  <2>1. /\ UNCHANGED <<form, shown, ref, row, task, posted>>
        /\ UNCHANGED <<edits, clicks, reloads, raced>>
        /\ open' \in BOOLEAN /\ timer' \in BOOLEAN
        /\ online' \in BOOLEAN /\ edge' \in BOOLEAN
        /\ open' => open
    <3>1. CASE Close
      BY <3>1 DEF Close, draft, history, OInv, DraftTypeOK
    <3>2. CASE Disconnect
      BY <3>2 DEF Disconnect, draft, history, OInv, DraftTypeOK
    <3>4. CASE Connect
      BY <3>4, Zenon DEF Connect, draft, history, OInv, DraftTypeOK
    <3>3. CASE UNCHANGED draftVars
      BY <3>3 DEF draftVars, draft, composer, history, OInv, DraftTypeOK
    <3> QED
      BY <1>4, <3>1, <3>2, <3>3, <3>4
  <2>2. DraftTypeOK'
    BY <2>1 DEF OInv, DraftTypeOK
  <2>3. Truthful' /\ Calm'
    BY <2>1 DEF OInv, Truthful, Honest, Calm, Same, Running
  <2> QED
    BY <2>1, <2>2, <2>3 DEF OInv
<1>5. CASE ReloadComposer
  <2>1. EmptyDraft \in Draft /\ NoTask \in TaskRecord /\ Running' = {}
    BY <1>5, DraftAssumption DEF EmptyDraft, Empty, Text, Draft, DraftAssumption, NoTask, TaskRecord,
        AnyTask, Kinds, FileKinds, TaskSteps, Running, ReloadComposer
  <2>2. ref' \in Draft /\ (row # NoDraft => row \in Draft /\ ref' = row) /\ Honest(ref)
    BY <1>5, <2>1 DEF ReloadComposer, OInv, DraftTypeOK, Truthful
  <2>3. reloads' \in 0 .. MaxReloads
    BY <1>5, DraftAssumption DEF ReloadComposer, OInv, DraftTypeOK, DraftAssumption
  <2>4. ref'.text \in Text /\ ref'.files \in SUBSET Files
    BY <2>2 DEF Draft
  <2>5. DraftTypeOK'
    BY <1>5, <2>1, <2>2, <2>3, <2>4 DEF ReloadComposer, OInv, DraftTypeOK, TaskRecord,
        AnyTask
  <2>6. Honest(ref)'
    BY <1>5 DEF ReloadComposer, OInv, Truthful, Honest, EmptyDraft
  <2>7. Truthful'
    BY <1>5, <2>6 DEF ReloadComposer, OInv, Truthful, Honest, NoTask, EmptyDraft
  <2>9. task' \in [Tasks -> TaskRecord]
    BY <1>5, <2>1 DEF ReloadComposer
  <2>8. Calm'
    BY <1>5, <2>1, <2>2 DEF ReloadComposer, Calm, Same
  <2> QED
    BY <2>9, <2>5, <2>7, <2>8 DEF OInv
<1> QED
  BY <1>1, <1>2, <1>3, <1>4, <1>5 DEF DraftNext

(* The invariant of the drafts.                                            *)
LEMMA DraftsInvariance == DraftSpec => []OInv
<1>1. DraftInit => OInv
  BY DraftsInit
<1>2. OInv /\ [DraftNext]_draftVars => OInv'
  BY DraftsNext
<1> QED
  BY <1>1, <1>2, PTL DEF DraftSpec

(* The variables of the drafts keep to their sets.                         *)
THEOREM DraftTypes == DraftSpec => []DraftTypeOK
<1>1. OInv => DraftTypeOK
  BY DEF OInv
<1> QED
  BY <1>1, DraftsInvariance, PTL

(* For any number of overlapping tasks, whatever draft bears the mark of   *)
(* markSynced, in draftRef or in IndexedDB, has its text at the server.    *)
THEOREM MarksAreTrue == DraftSpec => []SyncedIsOnServer
<1>1. OInv => SyncedIsOnServer
  BY DEF OInv, Truthful, SyncedIsOnServer, OnServer, Honest, IsDirty
<1> QED
  BY <1>1, DraftsInvariance, PTL

(* Calls that follow one another leave in IndexedDB what the Composer      *)
(* shows, for any number of edits, clicks, files and reloads.              *)
THEOREM ReloadsRestore == DraftSpec => []RowIsWhatIsShown
<1>1. OInv => RowIsWhatIsShown
  BY DEF OInv, Calm, Same, RowIsWhatIsShown
<1> QED
  BY <1>1, DraftsInvariance, PTL
=============================================================================
