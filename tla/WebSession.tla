----------------------------- MODULE WebSession -----------------------------
(***************************************************************************)
(* How a browser stays signed in: the web client's token handling          *)
(* (frontend/src/api/client.ts, api/auth.ts, hooks/useAuth.ts, App.tsx)    *)
(* composed with the server's refresh tokens (handlers/auth.rs,            *)
(* services/auth_service.rs, models/session.rs).  A pair of tokens is a    *)
(* number: its access half is a signed token that only time ends, its      *)
(* refresh half a row of `sessions`, used up by the exchange that replaces *)
(* it.  All tabs of the browser share the stored pair; each keeps its own  *)
(* access token in memory.  One account, one browser.                      *)
(***************************************************************************)
EXTENDS Naturals, FiniteSets

CONSTANTS
  Tabs,
  Calls,        \* API calls the browser may have under way at once
  Closed,       \* in the place of a call's tab: its page is gone
  MaxPairs      \* bound on the pairs the server ever issues

ASSUME WebSessionAssumption ==
  /\ IsFiniteSet(Calls) /\ Closed \notin Tabs \cup Calls
  /\ MaxPairs \in Nat

VARIABLES
  live,         \* pairs with an unexpired row in `sessions`
  valid,        \* pairs whose access token has not expired
  issued,       \* the newest pair
  stored,       \* the pair in localStorage, 0 when there is none
  memory,       \* memory[t]: ApiClient.accessToken of tab t
  page,         \* page[t]: what tab t shows
  call,         \* call[c]: an API call, from fetch to its last effect
  upset,        \* history: a pair was revoked, expired or lost on the way
  closed        \* history: how far the last sign-out got, see DeleteAll

vars == <<live, valid, issued, stored, memory, page, call, upset, closed>>
server == <<live, valid, issued>>
browser == <<stored, memory, page>>

Pairs == 1 .. MaxPairs
Steps == {"idle", "sent", "denied", "find", "delete", "insert", "answer",
          "refused", "retry", "done", "failed"}
Call == [tab : Tabs \cup {Closed}, kind : {"request", "logout", "login"},
         step : Steps, token : 0 .. MaxPairs]

NoCall == [tab |-> Closed, kind |-> "request", step |-> "idle", token |-> 0]

TypeOK ==
  /\ live \subseteq Pairs /\ valid \subseteq Pairs
  /\ issued \in 0 .. MaxPairs /\ stored \in 0 .. MaxPairs
  /\ memory \in [Tabs -> 0 .. MaxPairs]
  /\ page \in [Tabs -> {"landing", "loading", "login", "app"}]
  /\ call \in [Calls -> Call]
  /\ upset \in BOOLEAN /\ closed \in {"no", "server", "browser"}

Init ==
  /\ live = {} /\ valid = {} /\ issued = 0 /\ stored = 0
  /\ memory = [t \in Tabs |-> 0]
  /\ page = [t \in Tabs |-> "landing"]
  /\ call = [c \in Calls |-> NoCall]
  /\ upset = FALSE /\ closed = "no"

At(c, step) == call[c].step = step

Holding == {"delete", "retry"}

\* A call forgets the token it has no more use for.
Goes(c, step) ==
  call' = [call EXCEPT ![c] =
             IF step = "idle" THEN NoCall
             ELSE [call[c] EXCEPT
                     !.step = step,
                     !.token = IF step \in Holding THEN call[c].token ELSE 0]]
Busy == {c \in Calls : ~At(c, "idle")}

\* A pair is on its way from the server's lookup to localStorage.
Exchanging == {c \in Calls : call[c].step \in {"delete", "insert", "answer"}}

\* fetch: the call leaves its tab.  The bound on pairs holds a call back only
\* when it could need one that is not left.
Starts(c, t, kind, step, token) ==
  /\ At(c, "idle")
  /\ \/ issued + Cardinality(Busy) < MaxPairs
     \/ /\ kind # "login" /\ stored \notin live
        /\ Exchanging = {} /\ \A d \in Calls : ~At(d, "find")
  /\ call' = [call EXCEPT ![c] = [tab |-> t, kind |-> kind, step |-> step,
                                  token |-> token]]

-----------------------------------------------------------------------------
(***************************************************************************)
(* The pages: the public landing page, the sign-in form, the mailbox.      *)
(***************************************************************************)

\* The user opens the app, or follows a link of the landing page to it.
Visit(t) ==
  /\ page[t] = "landing"
  /\ page' = [page EXCEPT ![t] = "loading"]
  /\ UNCHANGED <<server, stored, memory, call, upset, closed>>

\* Slip: the guard shows a page of its own while it restores.
BootToSplash(t) ==
  /\ page[t] = "loading"
  /\ page' = [page EXCEPT ![t] = "splash"]
  /\ UNCHANGED <<server, stored, memory, call, upset, closed>>

\* restoreSession on mount, and the two guards: RequireAuth sends a browser
\* without an access token to the form, LoginRoute one that has it to the app.
Boot(t) ==
  /\ page[t] = "loading"
  /\ memory' = IF stored = 0 THEN memory ELSE [memory EXCEPT ![t] = stored]
  /\ page' = [page EXCEPT ![t] = IF stored = 0 THEN "login" ELSE "app"]
  /\ UNCHANGED <<server, stored, call, upset, closed>>

\* A page goes away with its script, and call c ends with it: its other calls
\* run on at the server only, a rotation among them answered to nobody.
Unload(t, c) ==
  /\ call' = [d \in Calls |->
                IF d = c THEN NoCall
                ELSE [call[d] EXCEPT !.tab = IF @ = t THEN Closed ELSE @]]
  /\ upset' = (upset \/ \E d \in Calls \ {c} :
                          /\ call[d].tab = t
                          /\ d \in Exchanging \/ At(d, "find"))
  /\ memory' = [memory EXCEPT ![t] = 0]
  /\ page' = [page EXCEPT ![t] = "loading"]

Reload(t) ==
  /\ page[t] = "app" /\ \E d \in Calls : call[d].tab = t
  /\ Unload(t, Closed)
  /\ UNCHANGED <<server, stored, closed>>

-----------------------------------------------------------------------------
(***************************************************************************)
(* A call of the client, ApiClient.request.                                *)
(***************************************************************************)

Request(c, t) ==
  /\ page[t] = "app"
  /\ Starts(c, t, "request", "sent", memory[t])
  /\ UNCHANGED <<server, browser, upset, closed>>

Logout(c, t) ==
  /\ page[t] = "app"
  /\ Starts(c, t, "logout", "sent", memory[t])
  /\ UNCHANGED <<server, browser, upset, closed>>

\* The form is submitted; whether the password is right is not modelled, a
\* refused sign-in changes nothing here.
Login(c, t) ==
  /\ page[t] = "login" /\ \A d \in Calls : call[d].tab # t \/ At(d, "idle")
  /\ Starts(c, t, "login", "insert", 0)
  /\ closed' = "no"
  /\ UNCHANGED <<server, browser, upset>>

\* Slip: signing out deletes the newest row only.
DeleteNewest(c) ==
  /\ live' = live \ {issued}
  /\ Goes(c, "done")
  /\ upset' = TRUE
  /\ closed' = IF Exchanging = {} THEN "server" ELSE "no"

\* logout: every row of the mailbox goes.  `closed` records a sign-out that
\* no exchange overlapped.
DeleteAll(c) ==
  /\ live' = {}
  /\ Goes(c, "done")
  /\ upset' = TRUE
  /\ closed' = IF Exchanging = {} THEN "server" ELSE "no"

\* auth_middleware and the handler behind it.  The first denial makes the
\* client exchange its tokens, the one of the retry is an ordinary error.
Serve(c) ==
  /\ call[c].step \in {"sent", "retry"}
  /\ IF call[c].token \in valid
     THEN IF call[c].kind = "logout" THEN DeleteAll(c) /\ UNCHANGED valid
          ELSE Goes(c, "idle") /\ UNCHANGED <<live, valid, upset, closed>>
     ELSE /\ Goes(c, IF At(c, "sent") THEN "denied" ELSE "failed")
          /\ UNCHANGED <<live, valid, upset, closed>>
  /\ UNCHANGED <<issued, browser>>

\* The network fails a sign-out before the server has seen it.  A request
\* lost like this has no effect here.
Drop(c) ==
  /\ call[c].step \in {"sent", "retry"} /\ call[c].kind = "logout"
  /\ Goes(c, "failed")
  /\ UNCHANGED <<server, browser, upset, closed>>

\* tryRefresh reads the stored refresh token at the moment of the denial.  A
\* denied sign-in would be a wrong password (isAuthEndpoint).
TryRefresh(c) ==
  /\ At(c, "denied") /\ call[c].tab # Closed /\ call[c].kind # "login"
  /\ IF stored = 0 THEN Goes(c, "refused")
     ELSE call' = [call EXCEPT ![c].step = "find", ![c].token = stored]
  /\ UNCHANGED <<server, browser, upset, closed>>

-----------------------------------------------------------------------------
(***************************************************************************)
(* The server exchanges a refresh token: three statements of the database  *)
(* without a transaction, and two exchanges of one token may interleave.   *)
(***************************************************************************)

FindByTokenHash(c) ==
  /\ At(c, "find")
  /\ Goes(c, IF call[c].token \in live THEN "delete" ELSE "refused")
  /\ UNCHANGED <<server, browser, upset, closed>>

\* Whether a row was there to delete is not looked at.
Delete(c) ==
  /\ At(c, "delete")
  /\ live' = live \ {call[c].token}
  /\ Goes(c, "insert")
  /\ UNCHANGED <<valid, issued, browser, upset, closed>>

InsertSession(c) ==
  /\ At(c, "insert")
  /\ issued' = issued + 1
  /\ live' = live \cup {issued + 1} /\ valid' = valid \cup {issued + 1}
  /\ call' = [call EXCEPT ![c].step = "answer", ![c].token = issued + 1]
  /\ UNCHANGED <<browser, upset, closed>>

\* A statement fails, or the answer is lost: the old row is gone already.
FailExchange(c) ==
  /\ c \in Exchanging
  /\ Goes(c, IF call[c].kind = "login" THEN "failed" ELSE "refused")
  /\ upset' = TRUE
  /\ UNCHANGED <<server, browser, closed>>

\* Slip: the new access token is stored, the refresh token kept.
AcceptAccessToken(c) ==
  /\ At(c, "answer") /\ call[c].tab # Closed /\ call[c].kind # "login"
  /\ memory' = [memory EXCEPT ![call[c].tab] = call[c].token]
  /\ Goes(c, "retry")
  /\ UNCHANGED <<server, stored, page, upset, closed>>

\* The answer of an exchange reaches the client: the pair replaces whatever
\* is stored by now, and the call is repeated with the new access token.
Accept(c) ==
  /\ At(c, "answer") /\ call[c].tab # Closed /\ call[c].kind # "login"
  /\ stored' = call[c].token
  /\ memory' = [memory EXCEPT ![call[c].tab] = call[c].token]
  /\ Goes(c, "retry")
  /\ UNCHANGED <<server, page, upset, closed>>

AcceptLogin(c) ==
  /\ At(c, "answer") /\ call[c].tab # Closed /\ call[c].kind = "login"
  /\ stored' = call[c].token
  /\ memory' = [memory EXCEPT ![call[c].tab] = call[c].token]
  /\ page' = [page EXCEPT ![call[c].tab] = "app"]
  /\ Goes(c, "idle")
  /\ upset' = IF Busy = {c} THEN call[c].token \notin live ELSE upset
  /\ UNCHANGED <<server, closed>>

\* Slip: a refused exchange is an error of the call like any other.
RedirectNowhere(c) ==
  /\ At(c, "refused") /\ call[c].tab # Closed
  /\ Goes(c, "idle")
  /\ UNCHANGED <<server, browser, upset, closed>>

\* The exchange is refused: window.location takes the tab to /login, which
\* starts the app anew.  A sign-out clears the stored pair on its way.
Redirect(c) ==
  /\ At(c, "refused") /\ call[c].tab # Closed
  /\ Unload(call[c].tab, c)
  /\ stored' = IF call[c].kind = "logout" THEN 0 ELSE stored
  /\ UNCHANGED <<server, closed>>

\* The sign-out is answered: its tab forgets the pair and shows the landing
\* page.  The script goes on, and with it the tab's other calls.
Leave(c) ==
  LET t == call[c].tab IN
  /\ At(c, "done") /\ t # Closed
  /\ stored' = 0
  /\ memory' = [memory EXCEPT ![t] = 0]
  /\ page' = [page EXCEPT ![t] = "landing"]
  /\ closed' = IF closed = "server" THEN "browser" ELSE closed
  /\ Goes(c, "idle")
  /\ UNCHANGED <<server, upset>>

\* A call ends with an error.  A sign-out forgets the pair all the same, but
\* its page stays.
Fail(c) ==
  /\ At(c, "failed") /\ call[c].tab # Closed
  /\ IF call[c].kind = "logout"
     THEN stored' = 0 /\ memory' = [memory EXCEPT ![call[c].tab] = 0]
     ELSE UNCHANGED <<stored, memory>>
  /\ Goes(c, "idle")
  /\ UNCHANGED <<server, page, upset, closed>>

\* An answer arrives at a page that is gone.
Ignore(c) ==
  /\ call[c].tab = Closed
  /\ call[c].step \in {"denied", "answer", "refused", "done", "failed"}
  /\ Goes(c, "idle")
  /\ UNCHANGED <<server, browser, upset, closed>>

-----------------------------------------------------------------------------
(***************************************************************************)
(* Time, and the ways a session ends elsewhere.                            *)
(***************************************************************************)

ExpireAccess(n) ==
  /\ n \in valid
  /\ valid' = valid \ {n}
  /\ UNCHANGED <<live, issued, browser, call, upset, closed>>

\* A row expires, or is revoked with others or alone: from the sessions page,
\* by a sign-out everywhere, by a change or reset of the password.
EndSession(n) ==
  /\ n \in live
  /\ live' = live \ {n}
  /\ upset' = TRUE
  /\ UNCHANGED <<valid, issued, browser, call, closed>>

ClientStep(c) == \/ TryRefresh(c) \/ Accept(c) \/ AcceptLogin(c) \/ Redirect(c)
                 \/ Leave(c) \/ Fail(c) \/ Ignore(c)
ServerStep(c) == \/ Serve(c) \/ FindByTokenHash(c) \/ Delete(c)
                 \/ InsertSession(c)

Next ==
  \/ \E t \in Tabs : Visit(t) \/ Boot(t) \/ Reload(t)
  \/ \E c \in Calls, t \in Tabs : Request(c, t) \/ Logout(c, t) \/ Login(c, t)
  \/ \E c \in Calls : ClientStep(c) \/ ServerStep(c)
  \/ \E c \in Calls : Drop(c) \/ FailExchange(c)
  \/ \E n \in Pairs : ExpireAccess(n) \/ EndSession(n)

Spec == Init /\ [][Next]_vars

(***************************************************************************)
(* A call once made runs to its end, a page that loads starts the app, the *)
(* app asks the server for its folders while it shows, access tokens       *)
(* expire.  Nobody has to sign in, sign out or reload.  The request is     *)
(* strongly fair because the bound makes the tabs share the calls.         *)
(***************************************************************************)
FairSpec ==
  /\ Spec
  /\ \A c \in Calls : WF_vars(ClientStep(c)) /\ WF_vars(ServerStep(c))
  /\ \A t \in Tabs : /\ WF_vars(Boot(t))
                    /\ SF_vars(\E c \in Calls : Request(c, t))
  /\ \A n \in Pairs : WF_vars(ExpireAccess(n))

-----------------------------------------------------------------------------
\* The pair the browser keeps can be exchanged, or its replacement is on its
\* way to a page that is still there: tabs and calls that exchange one token
\* at a time each, in any order, never leave a dead pair behind unless a row
\* was revoked or expired, a statement or an answer failed, or a page with an
\* exchange under way was closed or reloaded (client.ts, refresh_tokens).
StoredIsUsable ==
  stored # 0 /\ ~upset =>
    \/ stored \in live
    \/ \E c \in Exchanging : call[c].tab # Closed /\ call[c].kind # "login"

\* A sign-out no exchange overlapped is complete: until somebody signs in, no
\* row of the account is left or comes back at the server, and once answered
\* no tab and no late answer puts a pair back into the browser (logout in
\* handlers/auth.rs and api/auth.ts).
SignedOutIsOut ==
  /\ closed # "no" => live = {}
  /\ closed = "browser" => stored = 0

\* A tab that shows the app of a session that is over does not go on showing
\* it: its next call is denied, the exchange refused, and the tab leaves the
\* page, unless a tab signs in meanwhile (ApiClient.request).
DeadSessionIsLeft ==
  \A t \in Tabs : (page[t] = "app" /\ stored \notin live)
                  ~> (page[t] # "app" \/ stored \in live)

\* The comment of client.ts on a refused exchange, "Refresh failed, redirect
\* to login": when the user has stopped reloading it, the tab of a session that
\* is over comes to the sign-in form.
FormIsReached ==
  \A t \in Tabs :
    <>[][~Reload(t)]_vars =>
      ((page[t] = "app" /\ stored \notin live)
         ~> (page[t] \in {"login", "landing"} \/ stored \in live))
=============================================================================
