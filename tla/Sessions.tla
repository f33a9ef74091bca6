------------------------------ MODULE Sessions ------------------------------
(***************************************************************************)
(* The sessions of one customer: AuthService, its controller and the web   *)
(* shop's client, which presents the refresh token in a cookie and stores  *)
(* the one it gets back.                                                   *)
(*                                                                         *)
(* AuthService opens no transaction, so every statement is a step of its   *)
(* own.  A session has the one refresh token issueTokens makes for it; the *)
(* two are numbered in the order they are made.  Tabs of a browser share   *)
(* its cookie and local storage, but not the client's isRefreshing.        *)
(*                                                                         *)
(* Left out: passwords, claims, the expiry of refresh tokens (a week) and  *)
(* the web shop's hasSession flag, so that a loaded page may refresh, or   *)
(* not, whenever there is a cookie.                                        *)
(*                                                                         *)
(* Definitions no action uses are mutants: the definition after each, with *)
(* a plausible bug.                                                        *)
(***************************************************************************)
EXTENDS Naturals, FiniteSets

CONSTANTS
  MaxSessions, \* bound: sessions made
  Browser,
  Tab,
  NoTab,
  BrowserOf, \* the browser of each tab
  Request,   \* requests the API handles at the same time
  Cap        \* MAX_CONCURRENT_SESSIONS

ASSUME SessionsAssumption ==
  /\ MaxSessions \in Nat
  /\ NoTab \notin Tab
  /\ BrowserOf \in [Tab -> Browser]
  /\ IsFiniteSet(Request)
  /\ Cap \in Nat \ {0}

Session == 1 .. MaxSessions
NoSession == 0

VARIABLES
  session,  \* user_session.status, "NONE" without a row
  token,    \* refresh_token: "live", or whether revoked_reason is "rotated"
  req,      \* what each request does, for which tab, and what it has read
  cookie,   \* sl_refresh of each browser
  access,   \* the session of the access token in its local storage
  busy,     \* isRefreshing of each tab
  late,     \* history: tokens inserted when their session was revoked already
  crossed,  \* history: browsers where refreshes overlapped, or the answer to one was an
            \* error or lost
  accused   \* history: browsers that presented a rotated token and were not crossed

vars == <<session, token, req, cookie, access, busy, late, crossed, accused>>

Phase == {"idle", "present", "rotate", "count", "pick", "evict", "evictTokens", "create",
          "sign", "answer", "find", "revoke", "revokeTokens", "forget", "close",
          "signedOut", "refused"}
\* What its answer is for.
Purpose == {"signIn", "signOut", "bootstrap", "retry"}
Idle == [phase |-> "idle", tab |-> NoTab, for |-> "signOut", old |-> NoSession,
         new |-> NoSession, picked |-> {}, count |-> 0]

Active == {s \in Session : session[s] = "ACTIVE"}

TypeOK ==
  /\ session \in [Session -> {"NONE", "ACTIVE", "REVOKED"}]
  /\ token \in [Session -> {"none", "live", "rotated", "revoked"}]
  /\ req \in [Request -> [phase : Phase, tab : Tab \cup {NoTab}, for : Purpose,
                          old : Session \cup {NoSession}, new : Session \cup {NoSession},
                          picked : SUBSET Session, count : Nat]]
  /\ cookie \in [Browser -> Session \cup {NoSession}]
  /\ access \in [Browser -> Session \cup {NoSession}]
  /\ busy \in [Tab -> BOOLEAN]
  /\ late \in SUBSET Session
  /\ crossed \in SUBSET Browser
  /\ accused \in SUBSET Browser

Init ==
  /\ session = [s \in Session |-> "NONE"]
  /\ token = [s \in Session |-> "none"]
  /\ req = [r \in Request |-> Idle]
  /\ cookie = [b \in Browser |-> NoSession]
  /\ access = [b \in Browser |-> NoSession]
  /\ busy = [t \in Tab |-> FALSE]
  /\ late = {}
  /\ crossed = {}
  /\ accused = {}

store == <<session, token, late>>
web == <<cookie, access, busy, crossed, accused>>

-----------------------------------------------------------------------------
(* What a tab asks for. *)

Ask(r, t, ask) ==
  /\ req[r] = Idle
  /\ req' = [req EXCEPT ![r] = [ask EXCEPT !.tab = t]]
  /\ UNCHANGED store

\* Requests that have still to make a session.
Coming ==
  {q \in Request : req[q].phase \in {"rotate", "count", "pick", "evict", "evictTokens", "create"}}

\* bound: nobody signs in when the sessions to be made are spoken for.
SessionsLeft ==
  Cardinality({s \in Session : session[s] # "NONE"}) + Cardinality(Coming) < MaxSessions

\* With the right password.
Login(r, t) ==
  /\ SessionsLeft
  /\ Ask(r, t, [Idle EXCEPT !.phase = "count", !.for = "signIn"])
  /\ UNCHANGED web

\* The requests under way that present the cookie of b.
Refreshing(b) ==
  {q \in Request : /\ req[q].for \in {"bootstrap", "retry"}
                   /\ req[q].tab # NoTab
                   /\ BrowserOf[req[q].tab] = b}

PresentCookie(r, t, purpose) ==
  LET b == BrowserOf[t] IN
  /\ cookie[b] # NoSession
  /\ Ask(r, t, [Idle EXCEPT !.phase = "present", !.for = purpose, !.old = cookie[b]])
  /\ crossed' = IF \E q \in Refreshing(b) :
                     req[q].tab # t \/ "bootstrap" \in {purpose, req[q].for}
                THEN crossed \cup {b} ELSE crossed
  /\ UNCHANGED <<cookie, access, accused>>

\* A page that has just been loaded looks for its session, twice in development,
\* where StrictMode runs the effect again; that call does not look at isRefreshing.
Bootstrap(r, t) ==
  /\ \A q \in Request : req[q].tab = t => req[q].for = "bootstrap"
  /\ PresentCookie(r, t, "bootstrap")
  /\ UNCHANGED busy

EachCallRefreshes(t) == TRUE
SharesRefresh(t) == ~busy[t]

\* Calls that were answered 401 share one refresh and are sent again after it.
Refresh(r, t) ==
  /\ SharesRefresh(t)
  /\ PresentCookie(r, t, "retry")
  /\ busy' = [busy EXCEPT ![t] = TRUE]

\* logout takes the session from the access token.
Logout(r, t) ==
  LET b == BrowserOf[t] IN
  /\ access[b] # NoSession
  /\ Ask(r, t, [Idle EXCEPT !.phase = "forget", !.old = access[b]])
  /\ UNCHANGED web

\* With an access token that has expired it is answered 401, which the client
\* ignores: the cookie stays.
LogoutUnheard(t) ==
  /\ access[BrowserOf[t]] # NoSession
  /\ access' = [access EXCEPT ![BrowserOf[t]] = NoSession]
  /\ UNCHANGED <<req, store, cookie, busy, crossed, accused>>

\* logoutAll, and a password that is changed or reset.
LogoutAll(r, t) ==
  /\ access[BrowserOf[t]] # NoSession
  /\ Ask(r, t, [Idle EXCEPT !.phase = "find"])
  /\ UNCHANGED web

\* revokeSession ends one of the other sessions.
RevokeSession(r, t, s) ==
  /\ access[BrowserOf[t]] # NoSession
  /\ s # access[BrowserOf[t]]
  /\ session[s] # "NONE"
  /\ Ask(r, t, [Idle EXCEPT !.phase = "revoke", !.picked = {s}])
  /\ UNCHANGED web

\* A page that is loaded anew waits for none of its answers; what the API has
\* begun it finishes.
Reload(t) ==
  /\ \E r \in Request : req[r].tab = t
  /\ req' = [r \in Request |->
              IF req[r].tab # t THEN req[r]
              ELSE IF req[r].phase \in {"answer", "signedOut", "refused"} THEN Idle
              ELSE [req[r] EXCEPT !.tab = NoTab]]
  /\ busy' = [busy EXCEPT ![t] = FALSE]
  /\ crossed' = crossed \cup {BrowserOf[t]}
  /\ UNCHANGED <<store, cookie, access, accused>>

-----------------------------------------------------------------------------
(* Refresh tokens. *)

Goto(r, phase) == req' = [req EXCEPT ![r].phase = phase]

\* What the API does is done.  An answer nobody waits for, and one the client does
\* nothing about, are left out.
Finish(r, phase) ==
  req' = [req EXCEPT ![r] =
            IF req[r].tab = NoTab \/ (phase = "refused" /\ req[r].for # "retry")
            THEN Idle ELSE [req[r] EXCEPT !.phase = phase, !.picked = {}]]

AcceptToken(r) ==
  /\ req[r].phase = "present"
  /\ token[req[r].old] = "live"
  /\ Goto(r, "rotate")
  /\ UNCHANGED <<store, web>>

\* A token that was revoked is taken for a stolen one.
SuspectTheft(r) ==
  /\ req[r].phase = "present"
  /\ token[req[r].old] # "live"
  /\ req' = [req EXCEPT ![r].phase = "find", ![r].old = NoSession]
  /\ accused' = IF token[req[r].old] = "rotated" /\ req[r].tab # NoTab
                THEN accused \cup ({BrowserOf[req[r].tab]} \ crossed) ELSE accused
  /\ UNCHANGED <<store, cookie, access, busy, crossed>>

\* The update does not look at revoked_at again; the old session stays active.
Rotate(r) ==
  /\ req[r].phase = "rotate"
  /\ token' = [token EXCEPT ![req[r].old] = "rotated"]
  /\ req' = [req EXCEPT ![r].phase = "count", ![r].old = NoSession]
  /\ UNCHANGED <<session, late, web>>

-----------------------------------------------------------------------------
(* issueTokens, which begins with enforceSessionCap. *)

BelowCap(r) ==
  /\ req[r].phase = "count"
  /\ Cardinality(Active) < Cap
  /\ Goto(r, "create")
  /\ UNCHANGED <<store, web>>

AtCap(r) ==
  /\ req[r].phase = "count"
  /\ Cardinality(Active) >= Cap
  /\ req' = [req EXCEPT ![r].phase = "pick", ![r].count = Cardinality(Active)]
  /\ UNCHANGED <<store, web>>

ExcessOneLess(r) == req[r].count - Cap
Excess(r) == req[r].count - Cap + 1

\* The n active sessions seen longest ago.  issueTokens stamps last_seen_at once
\* more when it has signed: of two logins under way the older session may be the
\* one seen later.  How many are picked is the same.
Oldest(n) == {s \in Active : Cardinality({u \in Active : u < s}) < n}

PickOldest(r) ==
  /\ req[r].phase = "pick"
  /\ req' = [req EXCEPT ![r].phase = "evict", ![r].picked = Oldest(Excess(r)),
                        ![r].count = 0]
  /\ UNCHANGED <<store, web>>

\* An UPDATE of the sessions that were read before.
RevokePicked(r) ==
  session' = [s \in Session |-> IF s \in req[r].picked THEN "REVOKED" ELSE session[s]]

KeepTokens(r) == token' = token
RevokeTheirTokens(r) ==
  token' = [s \in Session |-> IF s \in req[r].picked /\ token[s] = "live" THEN "revoked" ELSE token[s]]

Evict(r) ==
  /\ req[r].phase = "evict"
  /\ RevokePicked(r)
  /\ Goto(r, "evictTokens")
  /\ UNCHANGED <<token, late, web>>

EvictTokens(r) ==
  /\ req[r].phase = "evictTokens"
  /\ RevokeTheirTokens(r)
  /\ req' = [req EXCEPT ![r].phase = "create", ![r].picked = {}]
  /\ UNCHANGED <<session, late, web>>

CreateSession(r, s) ==
  /\ req[r].phase = "create"
  /\ session[s] = "NONE"
  /\ \A u \in Session : u < s => session[u] # "NONE"
  /\ session' = [session EXCEPT ![s] = "ACTIVE"]
  /\ req' = [req EXCEPT ![r].phase = "sign", ![r].new = s]
  /\ UNCHANGED <<token, late, web>>

CreateToken(r) ==
  LET s == req[r].new IN
  /\ req[r].phase = "sign"
  /\ token' = [token EXCEPT ![s] = "live"]
  /\ late' = IF session[s] = "REVOKED" THEN late \cup {s} ELSE late
  /\ Finish(r, "answer")
  /\ UNCHANGED <<session, web>>

\* The tab whose request is over refreshes no more.
Settle(r) ==
  busy' = IF req[r].for = "retry" THEN [busy EXCEPT ![req[r].tab] = FALSE] ELSE busy

\* The browser stores both tokens.
Receive(r) ==
  LET b == BrowserOf[req[r].tab] IN
  /\ req[r].phase = "answer"
  /\ cookie' = [cookie EXCEPT ![b] = req[r].new]
  /\ access' = [access EXCEPT ![b] = req[r].new]
  /\ Settle(r)
  /\ req' = [req EXCEPT ![r] = Idle]
  /\ UNCHANGED <<store, crossed, accused>>

-----------------------------------------------------------------------------
(* revokeAllSessionsForSubject. *)

FindActive(r) ==
  /\ req[r].phase = "find"
  /\ Active # {}
  /\ req' = [req EXCEPT ![r].phase = "revoke", ![r].picked = Active]
  /\ UNCHANGED <<store, web>>

FindNone(r) ==
  /\ req[r].phase = "find"
  /\ Active = {}
  /\ Finish(r, "refused")
  /\ UNCHANGED <<store, web>>

RevokeSessions(r) ==
  /\ req[r].phase = "revoke"
  /\ RevokePicked(r)
  /\ Goto(r, "revokeTokens")
  /\ UNCHANGED <<token, late, web>>

RevokeTokens(r) ==
  /\ req[r].phase = "revokeTokens"
  /\ RevokeTheirTokens(r)
  /\ Finish(r, "refused")
  /\ UNCHANGED <<session, late, web>>

\* A refresh that is refused leaves the cookie; the client clears its access token.
Refused(r) ==
  /\ req[r].phase = "refused"
  /\ access' = [access EXCEPT ![BrowserOf[req[r].tab]] = NoSession]
  /\ Settle(r)
  /\ req' = [req EXCEPT ![r] = Idle]
  /\ UNCHANGED <<store, cookie, crossed, accused>>

-----------------------------------------------------------------------------
(* logout. *)

ForgetToken(r) ==
  LET s == req[r].old IN
  /\ req[r].phase = "forget"
  /\ token' = IF token[s] = "live" THEN [token EXCEPT ![s] = "revoked"] ELSE token
  /\ Goto(r, "close")
  /\ UNCHANGED <<session, late, web>>

CloseSession(r) ==
  /\ req[r].phase = "close"
  /\ session' = [session EXCEPT ![req[r].old] = "REVOKED"]
  /\ Finish(r, "signedOut")
  /\ UNCHANGED <<token, late, web>>

SignedOut(r) ==
  LET b == BrowserOf[req[r].tab] IN
  /\ req[r].phase = "signedOut"
  /\ cookie' = [cookie EXCEPT ![b] = NoSession]
  /\ access' = [access EXCEPT ![b] = NoSession]
  /\ req' = [req EXCEPT ![r] = Idle]
  /\ UNCHANGED <<store, busy, crossed, accused>>

-----------------------------------------------------------------------------
\* The API answers 5xx, or its answer is lost.  The client takes it for a refusal
\* of its refresh, and leaves the cookie; the API stays where it is, or gets on.
ErrorAnswer(r) ==
  LET b == BrowserOf[req[r].tab] IN
  /\ req[r].tab # NoTab
  /\ access' = IF req[r].for = "retry" THEN [access EXCEPT ![b] = NoSession] ELSE access
  /\ Settle(r)
  /\ crossed' = IF r \in Refreshing(b) THEN crossed \cup {b} ELSE crossed
  /\ req' = [req EXCEPT ![r] =
               IF @.phase \in {"answer", "signedOut", "refused"} THEN Idle
               ELSE [@ EXCEPT !.tab = NoTab]]
  /\ UNCHANGED <<store, cookie, accused>>

Proceed(r) ==
  \/ AcceptToken(r) \/ SuspectTheft(r) \/ Rotate(r)
  \/ BelowCap(r) \/ AtCap(r) \/ PickOldest(r) \/ Evict(r) \/ EvictTokens(r)
  \/ \E s \in Session : CreateSession(r, s)
  \/ CreateToken(r)
  \/ Receive(r)
  \/ FindActive(r) \/ FindNone(r) \/ RevokeSessions(r) \/ RevokeTokens(r) \/ Refused(r)
  \/ ForgetToken(r) \/ CloseSession(r) \/ SignedOut(r)
  \/ ErrorAnswer(r)

Next ==
  \/ \E r \in Request : Proceed(r)
  \/ \E r \in Request, t \in Tab :
       \/ Login(r, t)
       \/ Bootstrap(r, t)
       \/ Refresh(r, t)
       \/ Logout(r, t)
       \/ LogoutAll(r, t)
       \/ \E s \in Session : RevokeSession(r, t, s)
  \/ \E t \in Tab : LogoutUnheard(t) \/ Reload(t)

Spec == Init /\ [][Next]_vars

-----------------------------------------------------------------------------
(* Properties. *)

\* However the steps of concurrent logins and refreshes interleave, the cap on
\* active sessions is exceeded by one for each other request at most: what
\* enforceSessionCap has counted and picked may be stale by then.
ActiveWithinCap == Cardinality(Active) < Cap + Cardinality(Request)

\* Once the request that revokes a session has got to its token, the token is
\* dead, unless it was inserted by a login that the revocation overtook.
RevokedIsDead ==
  \A s \in Session :
    session[s] = "REVOKED" /\ token[s] = "live" =>
      \/ s \in late
      \/ \E r \in Request : req[r].phase \in {"evictTokens", "revokeTokens"} /\ s \in req[r].picked

\* A browser presents a token that was rotated, which is taken for theft and signs
\* the customer out everywhere, only after two of its tabs refreshed at once, a
\* loaded page and its calls did, or an answer was lost or an error: never for the
\* calls of one tab, nor for anything the customer's other requests do meanwhile.
NeverAccusedWrongly == accused = {}
=============================================================================
