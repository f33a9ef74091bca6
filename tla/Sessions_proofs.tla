-------------------------- MODULE Sessions_proofs --------------------------
(***************************************************************************)
(* Proofs about Sessions for any number of sessions, browsers, tabs and    *)
(* concurrent requests.                                                    *)
(*                                                                         *)
(* RevokedIsDead and NeverAccusedWrongly rest on who may touch a token.    *)
(* TokenInv: only the request that made a session inserts its token, once. *)
(* HolderInv: a token is in one browser, and only that browser's requests  *)
(* present it, unless an answer was lost.  ActiveWithinCap rests on what   *)
(* each request will revoke (CapInv).                                      *)
(***************************************************************************)
EXTENDS Sessions, FiniteSetTheorems, WellFoundedInduction, TLAPS

RequestType ==
  [phase : Phase, tab : Tab \cup {NoTab}, for : Purpose,
   old : Session \cup {NoSession}, new : Session \cup {NoSession},
   picked : SUBSET Session, count : Nat]

Presents(r, s) == req[r].phase \in {"present", "rotate"} /\ req[r].old = s
Brings(r, s) == req[r].phase \in {"sign", "answer"} /\ req[r].new = s

\* A token that anybody holds was inserted, but for one that is about to be.
TokenInv ==
  /\ \A s \in Session : session[s] = "NONE" => token[s] = "none"
  /\ \A b \in Browser :
       /\ cookie[b] # NoSession => token[cookie[b]] # "none"
       /\ access[b] # NoSession => token[access[b]] # "none"
  /\ \A r \in Request :
       /\ req[r].phase \in {"present", "rotate", "forget", "close"} =>
            req[r].old \in Session /\ token[req[r].old] # "none"
       /\ req[r].phase = "close" => token[req[r].old] # "live"
       /\ req[r].phase \in {"sign", "answer"} =>
            req[r].new \in Session /\ session[req[r].new] # "NONE"
       /\ req[r].phase = "sign" => token[req[r].new] = "none"
       /\ req[r].phase = "answer" => token[req[r].new] # "none"
  /\ \A r, q \in Request :
       req[r].phase = "sign" /\ req[q].phase = "sign" /\ req[r].new = req[q].new => r = q

\* A new token is in one answer; one that was delivered is in one browser.
HolderInv ==
  /\ \A b, c \in Browser : cookie[b] # NoSession /\ cookie[b] = cookie[c] => b = c
  /\ \A r, q \in Request, s \in Session :
       Brings(r, s) =>
         /\ ~Presents(q, s)
         /\ Brings(q, s) => q = r
         /\ \A b \in Browser : cookie[b] # s
  /\ \A r \in Request, s \in Session, b \in Browser :
       Presents(r, s) /\ cookie[b] = s =>
         IF req[r].tab = NoTab THEN b \in crossed ELSE BrowserOf[req[r].tab] = b
  /\ \A r, q \in Request, s \in Session :
       Presents(r, s) /\ Presents(q, s) /\ req[r].tab # NoTab =>
         IF req[q].tab = NoTab THEN BrowserOf[req[r].tab] \in crossed
         ELSE BrowserOf[req[q].tab] = BrowserOf[req[r].tab]

\* A tab that waits for its calls' refresh says so, and a browser refreshes once at
\* a time unless it crossed.
WaitInv ==
  /\ \A r \in Request :
       /\ req[r].phase \in {"present", "rotate"} => req[r].for \in {"bootstrap", "retry"}
       /\ req[r].phase \in {"answer", "signedOut", "refused"} => req[r].tab # NoTab
       /\ req[r].phase = "refused" => req[r].for = "retry"
       /\ req[r].for = "retry" /\ req[r].tab # NoTab => busy[req[r].tab]
  /\ \A r, q \in Request :
       req[r].for = "retry" /\ req[q].for = "retry" /\ req[r].tab # NoTab
       /\ req[r].tab = req[q].tab => r = q
  /\ \A b \in Browser \ crossed : \A r, q \in Refreshing(b) : r = q

\* Past the rotation of the token it presented.
Issuing == {"count", "pick", "evict", "evictTokens", "create", "sign", "answer"}

\* Unless its browser crossed, a token that is presented is not rotated yet.
FreshPresented ==
  \A r \in Request :
    req[r].phase \in {"present", "rotate"} /\ req[r].tab # NoTab
    /\ BrowserOf[req[r].tab] \notin crossed => token[req[r].old] # "rotated"

FreshBrought ==
  \A r \in Request :
    req[r].phase \in {"sign", "answer"} => token[req[r].new] # "rotated"

\* Unless a browser crossed, its cookie is rotated only while the answer with the
\* next one is on its way.
RotatedAwaits ==
  \A b \in Browser \ crossed :
    cookie[b] # NoSession /\ token[cookie[b]] = "rotated" =>
      \E q \in Refreshing(b) : req[q].phase \in Issuing

IInv ==
  /\ TypeOK
  /\ TokenInv
  /\ RevokedIsDead
  /\ HolderInv
  /\ WaitInv
  /\ FreshPresented
  /\ FreshBrought
  /\ RotatedAwaits
  /\ NeverAccusedWrongly

-----------------------------------------------------------------------------
LEMMA ActiveFinite == Active \in SUBSET Session /\ Cardinality(Active) \in Nat
<1>1. IsFiniteSet(Session)
  BY SessionsAssumption, FS_Interval DEF Session
<1> QED BY <1>1, FS_Subset, FS_CardinalityType DEF Active

LEMMA Fields ==
  ASSUME req \in [Request -> RequestType], NEW r \in Request, NEW p \in Phase
  PROVE  /\ [req EXCEPT ![r].phase = p] \in [Request -> RequestType]
         /\ \A o \in Session \cup {NoSession} :
              [req EXCEPT ![r].phase = p, ![r].old = o] \in [Request -> RequestType]
         /\ \A s \in Session :
              [req EXCEPT ![r].phase = p, ![r].new = s] \in [Request -> RequestType]
         /\ \A S \in SUBSET Session, n \in Nat :
              /\ [req EXCEPT ![r].phase = p, ![r].picked = S] \in [Request -> RequestType]
              /\ [req EXCEPT ![r].phase = p, ![r].picked = S, ![r].count = n]
                   \in [Request -> RequestType]
         /\ \A n \in Nat : [req EXCEPT ![r].phase = p, ![r].count = n] \in [Request -> RequestType]
<1>1. [req EXCEPT ![r].phase = p] \in [Request -> RequestType]
  BY DEF RequestType
<1>2. ASSUME NEW o \in Session \cup {NoSession}
      PROVE  [req EXCEPT ![r].phase = p, ![r].old = o] \in [Request -> RequestType]
  BY DEF RequestType
<1>3. ASSUME NEW s \in Session
      PROVE  [req EXCEPT ![r].phase = p, ![r].new = s] \in [Request -> RequestType]
  BY DEF RequestType
<1>4. ASSUME NEW S \in SUBSET Session
      PROVE  [req EXCEPT ![r].phase = p, ![r].picked = S] \in [Request -> RequestType]
  BY DEF RequestType
<1>5. ASSUME NEW S \in SUBSET Session, NEW n \in Nat
      PROVE  [req EXCEPT ![r].phase = p, ![r].picked = S, ![r].count = n]
               \in [Request -> RequestType]
  <2> DEFINE g == [req EXCEPT ![r].phase = p, ![r].picked = S]
  <2>1. g \in [Request -> RequestType]
    BY <1>4
  <2>2. [req EXCEPT ![r].phase = p, ![r].picked = S, ![r].count = n] = [g EXCEPT ![r].count = n]
    OBVIOUS
  <2> HIDE DEF g
  <2>3. [g EXCEPT ![r].count = n] \in [Request -> RequestType]
    BY <2>1 DEF RequestType
  <2> QED BY <2>2, <2>3
<1>6. ASSUME NEW n \in Nat
      PROVE  [req EXCEPT ![r].phase = p, ![r].count = n] \in [Request -> RequestType]
  BY DEF RequestType
<1> QED BY <1>1, <1>2, <1>3, <1>4, <1>5, <1>6

LEMMA FinishType ==
  ASSUME req \in [Request -> RequestType], NEW r \in Request, NEW p \in Phase, Finish(r, p)
  PROVE  req' \in [Request -> RequestType]
<1>1. Idle \in RequestType
  BY DEF Idle, RequestType, Phase, Purpose
<1>2. [req[r] EXCEPT !.phase = p, !.picked = {}] \in RequestType
  BY DEF RequestType
<1> QED BY <1>1, <1>2 DEF Finish

\* Type correctness, action by action.
LEMMA TypeStep ==
  ASSUME TypeOK, TokenInv, Next
  PROVE  TypeOK'
<1> USE SessionsAssumption DEF Idle, store, web
<1>0. req \in [Request -> RequestType]
  BY DEF TypeOK, RequestType
<1>p. /\ {"present", "rotate", "count", "pick", "evict", "evictTokens", "create",
          "sign", "answer", "find", "revoke", "revokeTokens", "forget", "close",
          "signedOut", "refused"} \subseteq Phase
      /\ {"signIn", "signOut", "bootstrap", "retry"} \subseteq Purpose
  BY DEF Phase, Purpose
<1>i. Idle \in RequestType
  BY DEF Phase, Purpose, RequestType
<1>1. ASSUME NEW r \in Request, AcceptToken(r) PROVE TypeOK'
  <2>1. req' \in [Request -> RequestType]
    BY <1>0, <1>p, <1>1, Fields DEF AcceptToken, Goto
  <2> QED BY <1>1, <2>1 DEF AcceptToken, Goto, TypeOK, RequestType
<1>2. ASSUME NEW r \in Request, SuspectTheft(r) PROVE TypeOK'
  <2>1. req' \in [Request -> RequestType]
    BY <1>0, <1>p, <1>2, Fields DEF SuspectTheft
  <2> QED BY <1>2, <2>1 DEF SuspectTheft, TypeOK, RequestType
<1>3. ASSUME NEW r \in Request, Rotate(r) PROVE TypeOK'
  <2>1. req' \in [Request -> RequestType]
    BY <1>0, <1>p, <1>3, Fields DEF Rotate
  <2> QED BY <1>3, <2>1 DEF Rotate, TypeOK, RequestType
<1>4. ASSUME NEW r \in Request, BelowCap(r) PROVE TypeOK'
  <2>1. req' \in [Request -> RequestType]
    BY <1>0, <1>p, <1>4, Fields DEF BelowCap, Goto
  <2> QED BY <1>4, <2>1 DEF BelowCap, Goto, TypeOK, RequestType
<1>5. ASSUME NEW r \in Request, AtCap(r) PROVE TypeOK'
  <2>1. req' \in [Request -> RequestType]
    BY <1>0, <1>p, <1>5, Fields, ActiveFinite DEF AtCap
  <2> QED BY <1>5, <2>1 DEF AtCap, TypeOK, RequestType
<1>6. ASSUME NEW r \in Request, PickOldest(r) PROVE TypeOK'
  <2>1. req' \in [Request -> RequestType]
    BY <1>0, <1>p, <1>6, Fields DEF PickOldest, Oldest, Active
  <2> QED BY <1>6, <2>1 DEF PickOldest, TypeOK, RequestType
<1>7. ASSUME NEW r \in Request, Evict(r) PROVE TypeOK'
  <2>1. req' \in [Request -> RequestType]
    BY <1>0, <1>p, <1>7, Fields DEF Evict, Goto
  <2> QED BY <1>7, <2>1 DEF Evict, Goto, RevokePicked, TypeOK, RequestType
<1>8. ASSUME NEW r \in Request, EvictTokens(r) PROVE TypeOK'
  <2>1. req' \in [Request -> RequestType]
    BY <1>0, <1>p, <1>8, Fields DEF EvictTokens
  <2> QED BY <1>8, <2>1 DEF EvictTokens, RevokeTheirTokens, TypeOK, RequestType
<1>9. ASSUME NEW r \in Request, FindActive(r) PROVE TypeOK'
  <2>1. req' \in [Request -> RequestType]
    BY <1>0, <1>p, <1>9, Fields, ActiveFinite DEF FindActive
  <2> QED BY <1>9, <2>1 DEF FindActive, TypeOK, RequestType
<1>10. ASSUME NEW r \in Request, FindNone(r) PROVE TypeOK'
  <2>1. req' \in [Request -> RequestType]
    BY <1>0, <1>p, <1>10, FinishType DEF FindNone
  <2> QED BY <1>10, <2>1 DEF FindNone, TypeOK, RequestType
<1>11. ASSUME NEW r \in Request, RevokeSessions(r) PROVE TypeOK'
  <2>1. req' \in [Request -> RequestType]
    BY <1>0, <1>p, <1>11, Fields DEF RevokeSessions, Goto
  <2> QED BY <1>11, <2>1 DEF RevokeSessions, Goto, RevokePicked, TypeOK, RequestType
<1>12. ASSUME NEW r \in Request, RevokeTokens(r) PROVE TypeOK'
  <2>1. req' \in [Request -> RequestType]
    BY <1>0, <1>p, <1>12, FinishType DEF RevokeTokens
  <2> QED BY <1>12, <2>1 DEF RevokeTokens, RevokeTheirTokens, TypeOK, RequestType
<1>13. ASSUME NEW r \in Request, NEW s \in Session, CreateSession(r, s) PROVE TypeOK'
  <2>1. req' \in [Request -> RequestType]
    BY <1>0, <1>p, <1>13, Fields DEF CreateSession
  <2> QED BY <1>13, <2>1 DEF CreateSession, TypeOK, RequestType
<1>14. ASSUME NEW r \in Request, CreateToken(r) PROVE TypeOK'
  <2>1. req' \in [Request -> RequestType]
    BY <1>0, <1>p, <1>14, FinishType DEF CreateToken
  <2> QED BY <1>14, <2>1 DEF CreateToken, TypeOK, RequestType, TokenInv
<1>15. ASSUME NEW r \in Request, Receive(r) PROVE TypeOK'
  BY <1>15, <1>i, <1>p DEF Receive, Settle, TypeOK, RequestType
<1>16. ASSUME NEW r \in Request, Refused(r) PROVE TypeOK'
  BY <1>16, <1>i, <1>p DEF Refused, Settle, TypeOK, RequestType
<1>17. ASSUME NEW r \in Request, ForgetToken(r) PROVE TypeOK'
  <2>1. req' \in [Request -> RequestType]
    BY <1>0, <1>p, <1>17, Fields DEF ForgetToken, Goto
  <2> QED BY <1>17, <2>1 DEF ForgetToken, Goto, TypeOK, RequestType
<1>18. ASSUME NEW r \in Request, CloseSession(r) PROVE TypeOK'
  <2>1. req' \in [Request -> RequestType]
    BY <1>0, <1>p, <1>18, FinishType DEF CloseSession
  <2> QED BY <1>18, <2>1 DEF CloseSession, TypeOK, RequestType
<1>19. ASSUME NEW r \in Request, SignedOut(r) PROVE TypeOK'
  BY <1>19, <1>i, <1>p DEF SignedOut, TypeOK, RequestType
<1>20. ASSUME NEW r \in Request, NEW t \in Tab, Login(r, t) PROVE TypeOK'
  BY <1>20, <1>i, <1>p DEF Login, Ask, TypeOK, RequestType
<1>21. ASSUME NEW r \in Request, NEW t \in Tab, Bootstrap(r, t) PROVE TypeOK'
  BY <1>21, <1>i, <1>p DEF Bootstrap, PresentCookie, Ask, TypeOK, RequestType
<1>22. ASSUME NEW r \in Request, NEW t \in Tab, Refresh(r, t) PROVE TypeOK'
  BY <1>22, <1>i, <1>p DEF Refresh, PresentCookie, Ask, TypeOK, RequestType
<1>23. ASSUME NEW r \in Request, NEW t \in Tab, Logout(r, t) PROVE TypeOK'
  BY <1>23, <1>i, <1>p DEF Logout, Ask, TypeOK, RequestType
<1>24. ASSUME NEW r \in Request, NEW t \in Tab, LogoutAll(r, t) PROVE TypeOK'
  BY <1>24, <1>i, <1>p DEF LogoutAll, Ask, TypeOK, RequestType
<1>25. ASSUME NEW r \in Request, NEW t \in Tab, NEW s \in Session, RevokeSession(r, t, s)
      PROVE TypeOK'
  BY <1>25, <1>i, <1>p DEF RevokeSession, Ask, TypeOK, RequestType
<1>26. ASSUME NEW t \in Tab, LogoutUnheard(t) PROVE TypeOK'
  BY <1>26, <1>i DEF LogoutUnheard, TypeOK, RequestType
<1>27. ASSUME NEW t \in Tab, Reload(t) PROVE TypeOK'
  BY <1>27, <1>i DEF Reload, TypeOK, RequestType
<1>28. ASSUME NEW r \in Request, ErrorAnswer(r) PROVE TypeOK'
  BY <1>28, <1>i, <1>p DEF ErrorAnswer, Settle, Refreshing, TypeOK, RequestType
<1> QED BY <1>1, <1>2, <1>3, <1>4, <1>5, <1>6, <1>7, <1>8, <1>9, <1>10, <1>11, <1>12,
   <1>13, <1>14, <1>15, <1>16, <1>17, <1>18, <1>19, <1>20, <1>21, <1>22, <1>23, <1>24,
   <1>25, <1>26, <1>27, <1>28 DEF Next, Proceed

-----------------------------------------------------------------------------
\* A step that moves no token between requests and browsers.
LEMMA HolderKept ==
  ASSUME HolderInv, UNCHANGED <<cookie, crossed>>,
         \A q \in Request, s \in Session :
           /\ Presents(q, s)' => Presents(q, s) /\ req'[q].tab = req[q].tab
           /\ Brings(q, s)' => Brings(q, s)
  PROVE  HolderInv'
BY DEF HolderInv

\* A step that rotates nothing and loses no answer of a browser that did not cross.
LEMMA AwaitsKept ==
  ASSUME TypeOK, RotatedAwaits, UNCHANGED cookie, crossed \subseteq crossed',
         \A s \in Session : token'[s] = "rotated" => token[s] = "rotated",
         \A q \in Request :
           req[q].for \in {"bootstrap", "retry"}
           /\ req[q].phase \in Issuing /\ req[q].tab # NoTab /\ BrowserOf[req[q].tab] \notin crossed' =>
             req'[q].phase \in Issuing /\ req'[q].tab = req[q].tab /\ req'[q].for = req[q].for
  PROVE  RotatedAwaits'
<1> SUFFICES ASSUME NEW b \in Browser \ crossed',
                    cookie'[b] # NoSession, token'[cookie'[b]] = "rotated"
             PROVE  \E q \in Refreshing(b)' : req'[q].phase \in Issuing
  BY DEF RotatedAwaits
<1>1. cookie[b] \in Session /\ token[cookie[b]] = "rotated"
  BY DEF TypeOK
<1>2. PICK q \in Refreshing(b) : req[q].phase \in Issuing
  BY <1>1 DEF RotatedAwaits
<1> QED BY <1>2 DEF Refreshing

\* Who inserts a token, action by action.
LEMMA TokenStep ==
  ASSUME IInv, Next
  PROVE  TokenInv'
<1> USE SessionsAssumption DEF IInv, Idle, store, web, Session, NoSession
<1>1. ASSUME NEW r \in Request, AcceptToken(r) PROVE TokenInv'
  BY <1>1 DEF AcceptToken, Goto, TypeOK, TokenInv
<1>2. ASSUME NEW r \in Request, SuspectTheft(r) PROVE TokenInv'
  BY <1>2 DEF SuspectTheft, TypeOK, TokenInv
<1>3. ASSUME NEW r \in Request, Rotate(r) PROVE TokenInv'
  BY <1>3 DEF Rotate, TypeOK, TokenInv
<1>4. ASSUME NEW r \in Request, BelowCap(r) PROVE TokenInv'
  BY <1>4 DEF BelowCap, Goto, TypeOK, TokenInv
<1>5. ASSUME NEW r \in Request, AtCap(r) PROVE TokenInv'
  BY <1>5 DEF AtCap, TypeOK, TokenInv
<1>6. ASSUME NEW r \in Request, PickOldest(r) PROVE TokenInv'
  BY <1>6 DEF PickOldest, TypeOK, TokenInv
<1>7. ASSUME NEW r \in Request, Evict(r) PROVE TokenInv'
  BY <1>7 DEF Evict, Goto, RevokePicked, TypeOK, TokenInv
<1>8. ASSUME NEW r \in Request, EvictTokens(r) PROVE TokenInv'
  BY <1>8 DEF EvictTokens, RevokeTheirTokens, TypeOK, TokenInv
<1>9. ASSUME NEW r \in Request, FindActive(r) PROVE TokenInv'
  BY <1>9 DEF FindActive, TypeOK, TokenInv
<1>10. ASSUME NEW r \in Request, FindNone(r) PROVE TokenInv'
  BY <1>10 DEF FindNone, Finish, TypeOK, TokenInv
<1>11. ASSUME NEW r \in Request, RevokeSessions(r) PROVE TokenInv'
  BY <1>11 DEF RevokeSessions, Goto, RevokePicked, TypeOK, TokenInv
<1>12. ASSUME NEW r \in Request, RevokeTokens(r) PROVE TokenInv'
  BY <1>12 DEF RevokeTokens, RevokeTheirTokens, Finish, TypeOK, TokenInv
<1>13. ASSUME NEW r \in Request, NEW s \in Session, CreateSession(r, s) PROVE TokenInv'
  BY <1>13 DEF CreateSession, TypeOK, TokenInv
<1>14. ASSUME NEW r \in Request, CreateToken(r) PROVE TokenInv'
  BY <1>14 DEF CreateToken, Finish, TypeOK, TokenInv
<1>15. ASSUME NEW r \in Request, Receive(r) PROVE TokenInv'
  BY <1>15 DEF Receive, Settle, TypeOK, TokenInv
<1>16. ASSUME NEW r \in Request, Refused(r) PROVE TokenInv'
  BY <1>16 DEF Refused, Settle, TypeOK, TokenInv
<1>17. ASSUME NEW r \in Request, ForgetToken(r) PROVE TokenInv'
  BY <1>17 DEF ForgetToken, Goto, TypeOK, TokenInv
<1>18. ASSUME NEW r \in Request, CloseSession(r) PROVE TokenInv'
  BY <1>18 DEF CloseSession, Finish, TypeOK, TokenInv
<1>19. ASSUME NEW r \in Request, SignedOut(r) PROVE TokenInv'
  BY <1>19 DEF SignedOut, TypeOK, TokenInv
<1>20. ASSUME NEW r \in Request, NEW t \in Tab, Login(r, t) PROVE TokenInv'
  BY <1>20 DEF Login, Ask, TypeOK, TokenInv
<1>21. ASSUME NEW r \in Request, NEW t \in Tab, Bootstrap(r, t) PROVE TokenInv'
  BY <1>21 DEF Bootstrap, PresentCookie, Ask, TypeOK, TokenInv
<1>22. ASSUME NEW r \in Request, NEW t \in Tab, Refresh(r, t) PROVE TokenInv'
  BY <1>22 DEF Refresh, PresentCookie, Ask, SharesRefresh, TypeOK, TokenInv
<1>23. ASSUME NEW r \in Request, NEW t \in Tab, Logout(r, t) PROVE TokenInv'
  BY <1>23 DEF Logout, Ask, TypeOK, TokenInv
<1>24. ASSUME NEW r \in Request, NEW t \in Tab, LogoutAll(r, t) PROVE TokenInv'
  BY <1>24 DEF LogoutAll, Ask, TypeOK, TokenInv
<1>25. ASSUME NEW r \in Request, NEW t \in Tab, NEW s \in Session, RevokeSession(r, t, s)
      PROVE TokenInv'
  BY <1>25 DEF RevokeSession, Ask, TypeOK, TokenInv
<1>26. ASSUME NEW t \in Tab, LogoutUnheard(t) PROVE TokenInv'
  BY <1>26 DEF LogoutUnheard, TypeOK, TokenInv
<1>27. ASSUME NEW t \in Tab, Reload(t) PROVE TokenInv'
  BY <1>27 DEF Reload, TypeOK, TokenInv
<1>28. ASSUME NEW r \in Request, ErrorAnswer(r) PROVE TokenInv'
  BY <1>28 DEF ErrorAnswer, Settle, Refreshing, TypeOK, TokenInv
<1> QED BY <1>1, <1>2, <1>3, <1>4, <1>5, <1>6, <1>7, <1>8, <1>9, <1>10, <1>11, <1>12,
   <1>13, <1>14, <1>15, <1>16, <1>17, <1>18, <1>19, <1>20, <1>21, <1>22, <1>23, <1>24,
   <1>25, <1>26, <1>27, <1>28 DEF Next, Proceed

\* A token dies with its session.
LEMMA DeadStep ==
  ASSUME IInv, Next
  PROVE  RevokedIsDead'
<1> USE SessionsAssumption DEF IInv, Idle, store, web, Session, NoSession
<1>1. ASSUME NEW r \in Request, AcceptToken(r) PROVE RevokedIsDead'
  BY <1>1 DEF AcceptToken, Goto, TypeOK, TokenInv, RevokedIsDead
<1>2. ASSUME NEW r \in Request, SuspectTheft(r) PROVE RevokedIsDead'
  BY <1>2 DEF SuspectTheft, TypeOK, TokenInv, RevokedIsDead
<1>3. ASSUME NEW r \in Request, Rotate(r) PROVE RevokedIsDead'
  BY <1>3 DEF Rotate, TypeOK, TokenInv, RevokedIsDead
<1>4. ASSUME NEW r \in Request, BelowCap(r) PROVE RevokedIsDead'
  BY <1>4 DEF BelowCap, Goto, TypeOK, TokenInv, RevokedIsDead
<1>5. ASSUME NEW r \in Request, AtCap(r) PROVE RevokedIsDead'
  BY <1>5 DEF AtCap, TypeOK, TokenInv, RevokedIsDead
<1>6. ASSUME NEW r \in Request, PickOldest(r) PROVE RevokedIsDead'
  BY <1>6 DEF PickOldest, TypeOK, TokenInv, RevokedIsDead
<1>7. ASSUME NEW r \in Request, Evict(r) PROVE RevokedIsDead'
  BY <1>7 DEF Evict, Goto, RevokePicked, TypeOK, TokenInv, RevokedIsDead
<1>8. ASSUME NEW r \in Request, EvictTokens(r) PROVE RevokedIsDead'
  BY <1>8 DEF EvictTokens, RevokeTheirTokens, TypeOK, TokenInv, RevokedIsDead
<1>9. ASSUME NEW r \in Request, FindActive(r) PROVE RevokedIsDead'
  BY <1>9 DEF FindActive, TypeOK, TokenInv, RevokedIsDead
<1>10. ASSUME NEW r \in Request, FindNone(r) PROVE RevokedIsDead'
  BY <1>10 DEF FindNone, Finish, TypeOK, TokenInv, RevokedIsDead
<1>11. ASSUME NEW r \in Request, RevokeSessions(r) PROVE RevokedIsDead'
  BY <1>11 DEF RevokeSessions, Goto, RevokePicked, TypeOK, TokenInv, RevokedIsDead
<1>12. ASSUME NEW r \in Request, RevokeTokens(r) PROVE RevokedIsDead'
  BY <1>12 DEF RevokeTokens, RevokeTheirTokens, Finish, TypeOK, TokenInv, RevokedIsDead
<1>13. ASSUME NEW r \in Request, NEW s \in Session, CreateSession(r, s) PROVE RevokedIsDead'
  BY <1>13 DEF CreateSession, TypeOK, TokenInv, RevokedIsDead
<1>14. ASSUME NEW r \in Request, CreateToken(r) PROVE RevokedIsDead'
  BY <1>14 DEF CreateToken, Finish, TypeOK, TokenInv, RevokedIsDead
<1>15. ASSUME NEW r \in Request, Receive(r) PROVE RevokedIsDead'
  BY <1>15 DEF Receive, Settle, TypeOK, TokenInv, RevokedIsDead
<1>16. ASSUME NEW r \in Request, Refused(r) PROVE RevokedIsDead'
  BY <1>16 DEF Refused, Settle, TypeOK, TokenInv, RevokedIsDead
<1>17. ASSUME NEW r \in Request, ForgetToken(r) PROVE RevokedIsDead'
  BY <1>17 DEF ForgetToken, Goto, TypeOK, TokenInv, RevokedIsDead
<1>18. ASSUME NEW r \in Request, CloseSession(r) PROVE RevokedIsDead'
  BY <1>18 DEF CloseSession, Finish, TypeOK, TokenInv, RevokedIsDead
<1>19. ASSUME NEW r \in Request, SignedOut(r) PROVE RevokedIsDead'
  BY <1>19 DEF SignedOut, TypeOK, TokenInv, RevokedIsDead
<1>20. ASSUME NEW r \in Request, NEW t \in Tab, Login(r, t) PROVE RevokedIsDead'
  BY <1>20 DEF Login, Ask, TypeOK, TokenInv, RevokedIsDead
<1>21. ASSUME NEW r \in Request, NEW t \in Tab, Bootstrap(r, t) PROVE RevokedIsDead'
  BY <1>21 DEF Bootstrap, PresentCookie, Ask, TypeOK, TokenInv, RevokedIsDead
<1>22. ASSUME NEW r \in Request, NEW t \in Tab, Refresh(r, t) PROVE RevokedIsDead'
  BY <1>22 DEF Refresh, PresentCookie, Ask, SharesRefresh, TypeOK, TokenInv, RevokedIsDead
<1>23. ASSUME NEW r \in Request, NEW t \in Tab, Logout(r, t) PROVE RevokedIsDead'
  BY <1>23 DEF Logout, Ask, TypeOK, TokenInv, RevokedIsDead
<1>24. ASSUME NEW r \in Request, NEW t \in Tab, LogoutAll(r, t) PROVE RevokedIsDead'
  BY <1>24 DEF LogoutAll, Ask, TypeOK, TokenInv, RevokedIsDead
<1>25. ASSUME NEW r \in Request, NEW t \in Tab, NEW s \in Session, RevokeSession(r, t, s)
      PROVE RevokedIsDead'
  BY <1>25 DEF RevokeSession, Ask, TypeOK, TokenInv, RevokedIsDead
<1>26. ASSUME NEW t \in Tab, LogoutUnheard(t) PROVE RevokedIsDead'
  BY <1>26 DEF LogoutUnheard, TypeOK, TokenInv, RevokedIsDead
<1>27. ASSUME NEW t \in Tab, Reload(t) PROVE RevokedIsDead'
  <2>1. \A p \in Request :
          req[p].phase \in {"evictTokens", "revokeTokens"} =>
            req'[p].phase = req[p].phase /\ req'[p].picked = req[p].picked
    BY <1>27 DEF Reload, TypeOK
  <2> QED BY <1>27, <2>1 DEF Reload, RevokedIsDead
<1>28. ASSUME NEW r \in Request, ErrorAnswer(r) PROVE RevokedIsDead'
  <2>1. \A p \in Request :
          req[p].phase \in {"evictTokens", "revokeTokens"} =>
            req'[p].phase = req[p].phase /\ req'[p].picked = req[p].picked
    BY <1>28 DEF ErrorAnswer, TypeOK
  <2> QED BY <1>28, <2>1 DEF ErrorAnswer, RevokedIsDead
<1> QED BY <1>1, <1>2, <1>3, <1>4, <1>5, <1>6, <1>7, <1>8, <1>9, <1>10, <1>11, <1>12,
   <1>13, <1>14, <1>15, <1>16, <1>17, <1>18, <1>19, <1>20, <1>21, <1>22, <1>23, <1>24,
   <1>25, <1>26, <1>27, <1>28 DEF Next, Proceed

\* Tokens stay where they are.
LEMMA HolderStep ==
  ASSUME IInv, Next
  PROVE  HolderInv'
<1> USE SessionsAssumption DEF IInv, Idle, store, web, Session, NoSession
<1>1. ASSUME NEW r \in Request, AcceptToken(r) PROVE HolderInv'
  BY <1>1 DEF AcceptToken, Goto, TypeOK, TokenInv, HolderInv, Presents, Brings
<1>2. ASSUME NEW r \in Request, SuspectTheft(r) PROVE HolderInv'
  BY <1>2 DEF SuspectTheft, TypeOK, TokenInv, HolderInv, Presents, Brings
<1>3. ASSUME NEW r \in Request, Rotate(r) PROVE HolderInv'
  BY <1>3 DEF Rotate, TypeOK, TokenInv, HolderInv, Presents, Brings
<1>4. ASSUME NEW r \in Request, BelowCap(r) PROVE HolderInv'
  BY <1>4 DEF BelowCap, Goto, TypeOK, TokenInv, HolderInv, Presents, Brings
<1>5. ASSUME NEW r \in Request, AtCap(r) PROVE HolderInv'
  <2>1. \A p \in Request, u \in Session :
          /\ Presents(p, u)' => Presents(p, u) /\ req'[p].tab = req[p].tab
          /\ Brings(p, u)' => Brings(p, u)
    BY <1>5 DEF AtCap, TypeOK, Presents, Brings
  <2> QED BY <1>5, <2>1, HolderKept DEF AtCap
<1>6. ASSUME NEW r \in Request, PickOldest(r) PROVE HolderInv'
  <2>1. \A p \in Request, u \in Session :
          /\ Presents(p, u)' => Presents(p, u) /\ req'[p].tab = req[p].tab
          /\ Brings(p, u)' => Brings(p, u)
    BY <1>6 DEF PickOldest, TypeOK, Presents, Brings
  <2> QED BY <1>6, <2>1, HolderKept DEF PickOldest
<1>7. ASSUME NEW r \in Request, Evict(r) PROVE HolderInv'
  BY <1>7 DEF Evict, Goto, RevokePicked, TypeOK, TokenInv, HolderInv, Presents, Brings
<1>8. ASSUME NEW r \in Request, EvictTokens(r) PROVE HolderInv'
  <2>1. \A p \in Request, u \in Session :
          /\ Presents(p, u)' => Presents(p, u) /\ req'[p].tab = req[p].tab
          /\ Brings(p, u)' => Brings(p, u)
    BY <1>8 DEF EvictTokens, RevokeTheirTokens, TypeOK, Presents, Brings
  <2> QED BY <1>8, <2>1, HolderKept DEF EvictTokens
<1>9. ASSUME NEW r \in Request, FindActive(r) PROVE HolderInv'
  <2>1. \A p \in Request, u \in Session :
          /\ Presents(p, u)' => Presents(p, u) /\ req'[p].tab = req[p].tab
          /\ Brings(p, u)' => Brings(p, u)
    BY <1>9 DEF FindActive, TypeOK, Presents, Brings
  <2> QED BY <1>9, <2>1, HolderKept DEF FindActive
<1>10. ASSUME NEW r \in Request, FindNone(r) PROVE HolderInv'
  BY <1>10 DEF FindNone, Finish, TypeOK, TokenInv, HolderInv, Presents, Brings
<1>11. ASSUME NEW r \in Request, RevokeSessions(r) PROVE HolderInv'
  BY <1>11 DEF RevokeSessions, Goto, RevokePicked, TypeOK, TokenInv, HolderInv,
     Presents, Brings
<1>12. ASSUME NEW r \in Request, RevokeTokens(r) PROVE HolderInv'
  BY <1>12 DEF RevokeTokens, RevokeTheirTokens, Finish, TypeOK, TokenInv, HolderInv,
     Presents, Brings
<1>13. ASSUME NEW r \in Request, NEW s \in Session, CreateSession(r, s) PROVE HolderInv'
  <2>1. \A p \in Request : ~Presents(p, s) /\ ~Brings(p, s)
    BY <1>13 DEF CreateSession, TypeOK, TokenInv, Presents, Brings
  <2>2. \A b \in Browser : cookie[b] # s
    BY <1>13 DEF CreateSession, TokenInv
  <2>3. \A p \in Request, u \in Session :
          /\ Presents(p, u)' => Presents(p, u) /\ req'[p].tab = req[p].tab
          /\ Brings(p, u)' => Brings(p, u) \/ (p = r /\ u = s)
    BY <1>13 DEF CreateSession, TypeOK, Presents, Brings
  <2>4. UNCHANGED <<cookie, crossed>>
    BY <1>13 DEF CreateSession
  <2> QED BY <2>1, <2>2, <2>3, <2>4 DEF HolderInv
<1>14. ASSUME NEW r \in Request, CreateToken(r) PROVE HolderInv'
  BY <1>14 DEF CreateToken, Finish, TypeOK, TokenInv, HolderInv, Presents, Brings
<1>15. ASSUME NEW r \in Request, Receive(r) PROVE HolderInv'
  BY <1>15 DEF Receive, Settle, TypeOK, TokenInv, HolderInv, Presents, Brings
<1>16. ASSUME NEW r \in Request, Refused(r) PROVE HolderInv'
  BY <1>16 DEF Refused, Settle, TypeOK, TokenInv, HolderInv, Presents, Brings
<1>17. ASSUME NEW r \in Request, ForgetToken(r) PROVE HolderInv'
  BY <1>17 DEF ForgetToken, Goto, TypeOK, TokenInv, HolderInv, Presents, Brings
<1>18. ASSUME NEW r \in Request, CloseSession(r) PROVE HolderInv'
  BY <1>18 DEF CloseSession, Finish, TypeOK, TokenInv, HolderInv, Presents, Brings
<1>19. ASSUME NEW r \in Request, SignedOut(r) PROVE HolderInv'
  BY <1>19 DEF SignedOut, TypeOK, TokenInv, HolderInv, Presents, Brings
<1>20. ASSUME NEW r \in Request, NEW t \in Tab, Login(r, t) PROVE HolderInv'
  BY <1>20 DEF Login, Ask, TypeOK, TokenInv, HolderInv, Presents, Brings
<1>21. ASSUME NEW r \in Request, NEW t \in Tab, Bootstrap(r, t) PROVE HolderInv'
  BY <1>21 DEF Bootstrap, PresentCookie, Ask, TypeOK, TokenInv, HolderInv, Presents, Brings
<1>22. ASSUME NEW r \in Request, NEW t \in Tab, Refresh(r, t) PROVE HolderInv'
  BY <1>22 DEF Refresh, PresentCookie, Ask, SharesRefresh, TypeOK, TokenInv, HolderInv,
     Presents, Brings
<1>23. ASSUME NEW r \in Request, NEW t \in Tab, Logout(r, t) PROVE HolderInv'
  BY <1>23 DEF Logout, Ask, TypeOK, TokenInv, HolderInv, Presents, Brings
<1>24. ASSUME NEW r \in Request, NEW t \in Tab, LogoutAll(r, t) PROVE HolderInv'
  BY <1>24 DEF LogoutAll, Ask, TypeOK, TokenInv, HolderInv, Presents, Brings
<1>25. ASSUME NEW r \in Request, NEW t \in Tab, NEW s \in Session, RevokeSession(r, t, s)
      PROVE HolderInv'
  BY <1>25 DEF RevokeSession, Ask, TypeOK, TokenInv, HolderInv, Presents, Brings
<1>26. ASSUME NEW t \in Tab, LogoutUnheard(t) PROVE HolderInv'
  BY <1>26 DEF LogoutUnheard, TypeOK, TokenInv, HolderInv, Presents, Brings
<1>27. ASSUME NEW t \in Tab, Reload(t) PROVE HolderInv'
  BY <1>27 DEF Reload, TypeOK, TokenInv, HolderInv, Presents, Brings
<1>28. ASSUME NEW r \in Request, ErrorAnswer(r) PROVE HolderInv'
  BY <1>28 DEF ErrorAnswer, Settle, Refreshing, TypeOK, TokenInv, HolderInv, WaitInv,
     Presents, Brings
<1> QED BY <1>1, <1>2, <1>3, <1>4, <1>5, <1>6, <1>7, <1>8, <1>9, <1>10, <1>11, <1>12,
   <1>13, <1>14, <1>15, <1>16, <1>17, <1>18, <1>19, <1>20, <1>21, <1>22, <1>23, <1>24,
   <1>25, <1>26, <1>27, <1>28 DEF Next, Proceed

\* A browser that does not cross refreshes once at a time.
LEMMA WaitStep ==
  ASSUME IInv, Next
  PROVE  WaitInv'
<1> USE SessionsAssumption DEF IInv, Idle, store, web, Session, NoSession
<1>1. ASSUME NEW r \in Request, AcceptToken(r) PROVE WaitInv'
  BY <1>1 DEF AcceptToken, Goto, TypeOK, WaitInv, Refreshing
<1>2. ASSUME NEW r \in Request, SuspectTheft(r) PROVE WaitInv'
  BY <1>2 DEF SuspectTheft, TypeOK, WaitInv, Refreshing
<1>3. ASSUME NEW r \in Request, Rotate(r) PROVE WaitInv'
  BY <1>3 DEF Rotate, TypeOK, WaitInv, Refreshing
<1>4. ASSUME NEW r \in Request, BelowCap(r) PROVE WaitInv'
  BY <1>4 DEF BelowCap, Goto, TypeOK, WaitInv, Refreshing
<1>5. ASSUME NEW r \in Request, AtCap(r) PROVE WaitInv'
  BY <1>5 DEF AtCap, TypeOK, WaitInv, Refreshing
<1>6. ASSUME NEW r \in Request, PickOldest(r) PROVE WaitInv'
  BY <1>6 DEF PickOldest, TypeOK, WaitInv, Refreshing
<1>7. ASSUME NEW r \in Request, Evict(r) PROVE WaitInv'
  BY <1>7 DEF Evict, Goto, RevokePicked, TypeOK, WaitInv, Refreshing
<1>8. ASSUME NEW r \in Request, EvictTokens(r) PROVE WaitInv'
  BY <1>8 DEF EvictTokens, RevokeTheirTokens, TypeOK, WaitInv, Refreshing
<1>9. ASSUME NEW r \in Request, FindActive(r) PROVE WaitInv'
  BY <1>9 DEF FindActive, TypeOK, WaitInv, Refreshing
<1>10. ASSUME NEW r \in Request, FindNone(r) PROVE WaitInv'
  BY <1>10 DEF FindNone, Finish, TypeOK, WaitInv, Refreshing
<1>11. ASSUME NEW r \in Request, RevokeSessions(r) PROVE WaitInv'
  BY <1>11 DEF RevokeSessions, Goto, RevokePicked, TypeOK, WaitInv, Refreshing
<1>12. ASSUME NEW r \in Request, RevokeTokens(r) PROVE WaitInv'
  BY <1>12 DEF RevokeTokens, RevokeTheirTokens, Finish, TypeOK, WaitInv, Refreshing
<1>13. ASSUME NEW r \in Request, NEW s \in Session, CreateSession(r, s) PROVE WaitInv'
  BY <1>13 DEF CreateSession, TypeOK, WaitInv, Refreshing
<1>14. ASSUME NEW r \in Request, CreateToken(r) PROVE WaitInv'
  BY <1>14 DEF CreateToken, Finish, TypeOK, WaitInv, Refreshing
<1>15. ASSUME NEW r \in Request, Receive(r) PROVE WaitInv'
  BY <1>15 DEF Receive, Settle, TypeOK, WaitInv, Refreshing
<1>16. ASSUME NEW r \in Request, Refused(r) PROVE WaitInv'
  BY <1>16 DEF Refused, Settle, TypeOK, WaitInv, Refreshing
<1>17. ASSUME NEW r \in Request, ForgetToken(r) PROVE WaitInv'
  BY <1>17 DEF ForgetToken, Goto, TypeOK, WaitInv, Refreshing
<1>18. ASSUME NEW r \in Request, CloseSession(r) PROVE WaitInv'
  BY <1>18 DEF CloseSession, Finish, TypeOK, WaitInv, Refreshing
<1>19. ASSUME NEW r \in Request, SignedOut(r) PROVE WaitInv'
  BY <1>19 DEF SignedOut, TypeOK, WaitInv, Refreshing
<1>20. ASSUME NEW r \in Request, NEW t \in Tab, Login(r, t) PROVE WaitInv'
  BY <1>20 DEF Login, Ask, TypeOK, WaitInv, Refreshing
<1>21. ASSUME NEW r \in Request, NEW t \in Tab, Bootstrap(r, t) PROVE WaitInv'
  BY <1>21 DEF Bootstrap, PresentCookie, Ask, TypeOK, WaitInv, Refreshing
<1>22. ASSUME NEW r \in Request, NEW t \in Tab, Refresh(r, t) PROVE WaitInv'
  BY <1>22 DEF Refresh, PresentCookie, Ask, SharesRefresh, TypeOK, WaitInv, Refreshing
<1>23. ASSUME NEW r \in Request, NEW t \in Tab, Logout(r, t) PROVE WaitInv'
  BY <1>23 DEF Logout, Ask, TypeOK, WaitInv, Refreshing
<1>24. ASSUME NEW r \in Request, NEW t \in Tab, LogoutAll(r, t) PROVE WaitInv'
  BY <1>24 DEF LogoutAll, Ask, TypeOK, WaitInv, Refreshing
<1>25. ASSUME NEW r \in Request, NEW t \in Tab, NEW s \in Session, RevokeSession(r, t, s)
      PROVE WaitInv'
  BY <1>25 DEF RevokeSession, Ask, TypeOK, WaitInv, Refreshing
<1>26. ASSUME NEW t \in Tab, LogoutUnheard(t) PROVE WaitInv'
  BY <1>26 DEF LogoutUnheard, TypeOK, WaitInv, Refreshing
<1>27. ASSUME NEW t \in Tab, Reload(t) PROVE WaitInv'
  BY <1>27 DEF Reload, TypeOK, WaitInv, Refreshing
<1>28. ASSUME NEW r \in Request, ErrorAnswer(r) PROVE WaitInv'
  BY <1>28 DEF ErrorAnswer, Settle, TypeOK, WaitInv, Refreshing
<1> QED BY <1>1, <1>2, <1>3, <1>4, <1>5, <1>6, <1>7, <1>8, <1>9, <1>10, <1>11, <1>12,
   <1>13, <1>14, <1>15, <1>16, <1>17, <1>18, <1>19, <1>20, <1>21, <1>22, <1>23, <1>24,
   <1>25, <1>26, <1>27, <1>28 DEF Next, Proceed

\* Nobody else rotates a token that is presented.
LEMMA FreshPresentedStep ==
  ASSUME IInv, Next
  PROVE  FreshPresented'
<1> USE SessionsAssumption DEF IInv, Idle, store, web, Session, NoSession
<1>1. ASSUME NEW r \in Request, AcceptToken(r) PROVE FreshPresented'
  BY <1>1 DEF AcceptToken, Goto, TypeOK, TokenInv, HolderInv, WaitInv, FreshPresented,
     RotatedAwaits, Presents, Refreshing
<1>2. ASSUME NEW r \in Request, SuspectTheft(r) PROVE FreshPresented'
  BY <1>2 DEF SuspectTheft, TypeOK, TokenInv, HolderInv, WaitInv, FreshPresented,
     RotatedAwaits, Presents, Refreshing
<1>3. ASSUME NEW r \in Request, Rotate(r) PROVE FreshPresented'
  <2> SUFFICES ASSUME NEW q \in Request,
                      req'[q].phase \in {"present", "rotate"}, req'[q].tab # NoTab,
                      BrowserOf[req'[q].tab] \notin crossed'
               PROVE  token'[req'[q].old] # "rotated"
    BY DEF FreshPresented
  <2>1. q # r /\ req'[q] = req[q] /\ crossed' = crossed
    BY <1>3 DEF Rotate, TypeOK
  <2>2. req[q].old # req[r].old
    <3> SUFFICES ASSUME req[q].old = req[r].old PROVE FALSE
      OBVIOUS
    <3>1. Presents(r, req[r].old) /\ Presents(q, req[r].old) /\ req[r].old \in Session
      BY <1>3, <2>1 DEF Rotate, Presents, TokenInv
    <3>2. req[r].tab # NoTab /\ BrowserOf[req[r].tab] = BrowserOf[req[q].tab]
      BY <2>1, <3>1 DEF HolderInv
    <3>3. {r, q} \subseteq Refreshing(BrowserOf[req[q].tab])
      BY <1>3, <2>1, <3>2 DEF Rotate, WaitInv, Refreshing
    <3>4. BrowserOf[req[q].tab] \in Browser \ crossed
      BY <2>1 DEF TypeOK
    <3> QED BY <2>1, <3>3, <3>4 DEF WaitInv
  <2>3. token[req[q].old] # "rotated"
    BY <2>1 DEF FreshPresented
  <2> QED BY <1>3, <2>1, <2>2, <2>3 DEF Rotate, TypeOK, TokenInv
<1>4. ASSUME NEW r \in Request, BelowCap(r) PROVE FreshPresented'
  BY <1>4 DEF BelowCap, Goto, TypeOK, TokenInv, HolderInv, WaitInv, FreshPresented,
     RotatedAwaits, Presents, Refreshing
<1>5. ASSUME NEW r \in Request, AtCap(r) PROVE FreshPresented'
  BY <1>5 DEF AtCap, TypeOK, TokenInv, HolderInv, WaitInv, FreshPresented,
     RotatedAwaits, Presents, Refreshing
<1>6. ASSUME NEW r \in Request, PickOldest(r) PROVE FreshPresented'
  BY <1>6 DEF PickOldest, TypeOK, TokenInv, HolderInv, WaitInv, FreshPresented,
     RotatedAwaits, Presents, Refreshing
<1>7. ASSUME NEW r \in Request, Evict(r) PROVE FreshPresented'
  BY <1>7 DEF Evict, Goto, RevokePicked, TypeOK, TokenInv, HolderInv, WaitInv,
     FreshPresented, RotatedAwaits, Presents, Refreshing
<1>8. ASSUME NEW r \in Request, EvictTokens(r) PROVE FreshPresented'
  BY <1>8 DEF EvictTokens, RevokeTheirTokens, TypeOK, TokenInv, HolderInv, WaitInv,
     FreshPresented, RotatedAwaits, Presents, Refreshing
<1>9. ASSUME NEW r \in Request, FindActive(r) PROVE FreshPresented'
  BY <1>9 DEF FindActive, TypeOK, TokenInv, HolderInv, WaitInv, FreshPresented,
     RotatedAwaits, Presents, Refreshing
<1>10. ASSUME NEW r \in Request, FindNone(r) PROVE FreshPresented'
  BY <1>10 DEF FindNone, Finish, TypeOK, TokenInv, HolderInv, WaitInv, FreshPresented,
     RotatedAwaits, Presents, Refreshing
<1>11. ASSUME NEW r \in Request, RevokeSessions(r) PROVE FreshPresented'
  BY <1>11 DEF RevokeSessions, Goto, RevokePicked, TypeOK, TokenInv, HolderInv, WaitInv,
     FreshPresented, RotatedAwaits, Presents, Refreshing
<1>12. ASSUME NEW r \in Request, RevokeTokens(r) PROVE FreshPresented'
  BY <1>12 DEF RevokeTokens, RevokeTheirTokens, Finish, TypeOK, TokenInv, HolderInv,
     WaitInv, FreshPresented, RotatedAwaits, Presents, Refreshing
<1>13. ASSUME NEW r \in Request, NEW s \in Session, CreateSession(r, s)
      PROVE FreshPresented'
  BY <1>13 DEF CreateSession, TypeOK, TokenInv, HolderInv, WaitInv, FreshPresented,
     RotatedAwaits, Presents, Refreshing
<1>14. ASSUME NEW r \in Request, CreateToken(r) PROVE FreshPresented'
  BY <1>14 DEF CreateToken, Finish, TypeOK, TokenInv, HolderInv, WaitInv,
     FreshPresented, RotatedAwaits, Presents, Refreshing
<1>15. ASSUME NEW r \in Request, Receive(r) PROVE FreshPresented'
  BY <1>15 DEF Receive, Settle, TypeOK, TokenInv, HolderInv, WaitInv, FreshPresented,
     RotatedAwaits, Presents, Refreshing
<1>16. ASSUME NEW r \in Request, Refused(r) PROVE FreshPresented'
  BY <1>16 DEF Refused, Settle, TypeOK, TokenInv, HolderInv, WaitInv, FreshPresented,
     RotatedAwaits, Presents, Refreshing
<1>17. ASSUME NEW r \in Request, ForgetToken(r) PROVE FreshPresented'
  BY <1>17 DEF ForgetToken, Goto, TypeOK, TokenInv, HolderInv, WaitInv, FreshPresented,
     RotatedAwaits, Presents, Refreshing
<1>18. ASSUME NEW r \in Request, CloseSession(r) PROVE FreshPresented'
  BY <1>18 DEF CloseSession, Finish, TypeOK, TokenInv, HolderInv, WaitInv,
     FreshPresented, RotatedAwaits, Presents, Refreshing
<1>19. ASSUME NEW r \in Request, SignedOut(r) PROVE FreshPresented'
  BY <1>19 DEF SignedOut, TypeOK, TokenInv, HolderInv, WaitInv, FreshPresented,
     RotatedAwaits, Presents, Refreshing
<1>20. ASSUME NEW r \in Request, NEW t \in Tab, Login(r, t) PROVE FreshPresented'
  BY <1>20 DEF Login, Ask, TypeOK, TokenInv, HolderInv, WaitInv, FreshPresented,
     RotatedAwaits, Presents, Refreshing
<1>21. ASSUME NEW r \in Request, NEW t \in Tab, Bootstrap(r, t) PROVE FreshPresented'
  BY <1>21 DEF Bootstrap, PresentCookie, Ask, TypeOK, TokenInv, HolderInv, WaitInv,
     FreshPresented, RotatedAwaits, Presents, Refreshing
<1>22. ASSUME NEW r \in Request, NEW t \in Tab, Refresh(r, t) PROVE FreshPresented'
  BY <1>22 DEF Refresh, PresentCookie, Ask, SharesRefresh, TypeOK, TokenInv, HolderInv,
     WaitInv, FreshPresented, RotatedAwaits, Presents, Refreshing
<1>23. ASSUME NEW r \in Request, NEW t \in Tab, Logout(r, t) PROVE FreshPresented'
  BY <1>23 DEF Logout, Ask, TypeOK, TokenInv, HolderInv, WaitInv, FreshPresented,
     RotatedAwaits, Presents, Refreshing
<1>24. ASSUME NEW r \in Request, NEW t \in Tab, LogoutAll(r, t) PROVE FreshPresented'
  BY <1>24 DEF LogoutAll, Ask, TypeOK, TokenInv, HolderInv, WaitInv, FreshPresented,
     RotatedAwaits, Presents, Refreshing
<1>25. ASSUME NEW r \in Request, NEW t \in Tab, NEW s \in Session, RevokeSession(r, t, s)
      PROVE FreshPresented'
  BY <1>25 DEF RevokeSession, Ask, TypeOK, TokenInv, HolderInv, WaitInv, FreshPresented,
     RotatedAwaits, Presents, Refreshing
<1>26. ASSUME NEW t \in Tab, LogoutUnheard(t) PROVE FreshPresented'
  BY <1>26 DEF LogoutUnheard, TypeOK, TokenInv, HolderInv, WaitInv, FreshPresented,
     RotatedAwaits, Presents, Refreshing
<1>27. ASSUME NEW t \in Tab, Reload(t) PROVE FreshPresented'
  BY <1>27 DEF Reload, TypeOK, TokenInv, HolderInv, WaitInv, FreshPresented,
     RotatedAwaits, Presents, Refreshing
<1>28. ASSUME NEW r \in Request, ErrorAnswer(r) PROVE FreshPresented'
  BY <1>28 DEF ErrorAnswer, Settle, Refreshing, TypeOK, TokenInv, HolderInv, WaitInv,
     FreshPresented, RotatedAwaits, Presents
<1> QED BY <1>1, <1>2, <1>3, <1>4, <1>5, <1>6, <1>7, <1>8, <1>9, <1>10, <1>11, <1>12,
   <1>13, <1>14, <1>15, <1>16, <1>17, <1>18, <1>19, <1>20, <1>21, <1>22, <1>23, <1>24,
   <1>25, <1>26, <1>27, <1>28 DEF Next, Proceed

\* Nobody rotates a token before it is delivered.
LEMMA FreshBroughtStep ==
  ASSUME IInv, Next
  PROVE  FreshBrought'
<1> USE SessionsAssumption DEF IInv, Idle, store, web, Session, NoSession
<1>1. ASSUME NEW r \in Request, AcceptToken(r) PROVE FreshBrought'
  BY <1>1 DEF AcceptToken, Goto, TypeOK, TokenInv, HolderInv, FreshBrought, Presents, Brings
<1>2. ASSUME NEW r \in Request, SuspectTheft(r) PROVE FreshBrought'
  BY <1>2 DEF SuspectTheft, TypeOK, TokenInv, HolderInv, FreshBrought, Presents, Brings
<1>3. ASSUME NEW r \in Request, Rotate(r) PROVE FreshBrought'
  BY <1>3 DEF Rotate, TypeOK, TokenInv, HolderInv, FreshBrought, Presents, Brings
<1>4. ASSUME NEW r \in Request, BelowCap(r) PROVE FreshBrought'
  BY <1>4 DEF BelowCap, Goto, TypeOK, TokenInv, HolderInv, FreshBrought, Presents, Brings
<1>5. ASSUME NEW r \in Request, AtCap(r) PROVE FreshBrought'
  BY <1>5 DEF AtCap, TypeOK, TokenInv, HolderInv, FreshBrought, Presents, Brings
<1>6. ASSUME NEW r \in Request, PickOldest(r) PROVE FreshBrought'
  BY <1>6 DEF PickOldest, TypeOK, TokenInv, HolderInv, FreshBrought, Presents, Brings
<1>7. ASSUME NEW r \in Request, Evict(r) PROVE FreshBrought'
  BY <1>7 DEF Evict, Goto, RevokePicked, TypeOK, TokenInv, HolderInv, FreshBrought,
     Presents, Brings
<1>8. ASSUME NEW r \in Request, EvictTokens(r) PROVE FreshBrought'
  BY <1>8 DEF EvictTokens, RevokeTheirTokens, TypeOK, TokenInv, HolderInv, FreshBrought,
     Presents, Brings
<1>9. ASSUME NEW r \in Request, FindActive(r) PROVE FreshBrought'
  BY <1>9 DEF FindActive, TypeOK, TokenInv, HolderInv, FreshBrought, Presents, Brings
<1>10. ASSUME NEW r \in Request, FindNone(r) PROVE FreshBrought'
  BY <1>10 DEF FindNone, Finish, TypeOK, TokenInv, HolderInv, FreshBrought, Presents, Brings
<1>11. ASSUME NEW r \in Request, RevokeSessions(r) PROVE FreshBrought'
  BY <1>11 DEF RevokeSessions, Goto, RevokePicked, TypeOK, TokenInv, HolderInv,
     FreshBrought, Presents, Brings
<1>12. ASSUME NEW r \in Request, RevokeTokens(r) PROVE FreshBrought'
  BY <1>12 DEF RevokeTokens, RevokeTheirTokens, Finish, TypeOK, TokenInv, HolderInv,
     FreshBrought, Presents, Brings
<1>13. ASSUME NEW r \in Request, NEW s \in Session, CreateSession(r, s) PROVE FreshBrought'
  BY <1>13 DEF CreateSession, TypeOK, TokenInv, HolderInv, FreshBrought, Presents, Brings
<1>14. ASSUME NEW r \in Request, CreateToken(r) PROVE FreshBrought'
  BY <1>14 DEF CreateToken, Finish, TypeOK, TokenInv, HolderInv, FreshBrought, Presents,
     Brings
<1>15. ASSUME NEW r \in Request, Receive(r) PROVE FreshBrought'
  BY <1>15 DEF Receive, Settle, TypeOK, TokenInv, HolderInv, FreshBrought, Presents, Brings
<1>16. ASSUME NEW r \in Request, Refused(r) PROVE FreshBrought'
  BY <1>16 DEF Refused, Settle, TypeOK, TokenInv, HolderInv, FreshBrought, Presents, Brings
<1>17. ASSUME NEW r \in Request, ForgetToken(r) PROVE FreshBrought'
  BY <1>17 DEF ForgetToken, Goto, TypeOK, TokenInv, HolderInv, FreshBrought, Presents,
     Brings
<1>18. ASSUME NEW r \in Request, CloseSession(r) PROVE FreshBrought'
  BY <1>18 DEF CloseSession, Finish, TypeOK, TokenInv, HolderInv, FreshBrought,
     Presents, Brings
<1>19. ASSUME NEW r \in Request, SignedOut(r) PROVE FreshBrought'
  BY <1>19 DEF SignedOut, TypeOK, TokenInv, HolderInv, FreshBrought, Presents, Brings
<1>20. ASSUME NEW r \in Request, NEW t \in Tab, Login(r, t) PROVE FreshBrought'
  BY <1>20 DEF Login, Ask, TypeOK, TokenInv, HolderInv, FreshBrought, Presents, Brings
<1>21. ASSUME NEW r \in Request, NEW t \in Tab, Bootstrap(r, t) PROVE FreshBrought'
  BY <1>21 DEF Bootstrap, PresentCookie, Ask, TypeOK, TokenInv, HolderInv, FreshBrought,
     Presents, Brings
<1>22. ASSUME NEW r \in Request, NEW t \in Tab, Refresh(r, t) PROVE FreshBrought'
  BY <1>22 DEF Refresh, PresentCookie, Ask, SharesRefresh, TypeOK, TokenInv, HolderInv,
     FreshBrought, Presents, Brings
<1>23. ASSUME NEW r \in Request, NEW t \in Tab, Logout(r, t) PROVE FreshBrought'
  BY <1>23 DEF Logout, Ask, TypeOK, TokenInv, HolderInv, FreshBrought, Presents, Brings
<1>24. ASSUME NEW r \in Request, NEW t \in Tab, LogoutAll(r, t) PROVE FreshBrought'
  BY <1>24 DEF LogoutAll, Ask, TypeOK, TokenInv, HolderInv, FreshBrought, Presents, Brings
<1>25. ASSUME NEW r \in Request, NEW t \in Tab, NEW s \in Session, RevokeSession(r, t, s)
      PROVE FreshBrought'
  BY <1>25 DEF RevokeSession, Ask, TypeOK, TokenInv, HolderInv, FreshBrought, Presents,
     Brings
<1>26. ASSUME NEW t \in Tab, LogoutUnheard(t) PROVE FreshBrought'
  BY <1>26 DEF LogoutUnheard, TypeOK, TokenInv, HolderInv, FreshBrought, Presents, Brings
<1>27. ASSUME NEW t \in Tab, Reload(t) PROVE FreshBrought'
  BY <1>27 DEF Reload, TypeOK, TokenInv, HolderInv, FreshBrought, Presents, Brings
<1>28. ASSUME NEW r \in Request, ErrorAnswer(r) PROVE FreshBrought'
  BY <1>28 DEF ErrorAnswer, Settle, Refreshing, TypeOK, TokenInv, HolderInv, FreshBrought,
     Presents, Brings
<1> QED BY <1>1, <1>2, <1>3, <1>4, <1>5, <1>6, <1>7, <1>8, <1>9, <1>10, <1>11, <1>12,
   <1>13, <1>14, <1>15, <1>16, <1>17, <1>18, <1>19, <1>20, <1>21, <1>22, <1>23, <1>24,
   <1>25, <1>26, <1>27, <1>28 DEF Next, Proceed

\* A rotated cookie is about to be replaced.
LEMMA RotatedAwaitsStep ==
  ASSUME IInv, Next
  PROVE  RotatedAwaits'
<1> USE SessionsAssumption DEF IInv, Idle, store, web, Session, NoSession
<1>1. ASSUME NEW r \in Request, AcceptToken(r) PROVE RotatedAwaits'
  <2>1. \A p \in Request :
          req[p].phase \in Issuing /\ req[p].tab # NoTab /\ BrowserOf[req[p].tab] \notin crossed' =>
            req'[p].phase \in Issuing /\ req'[p].tab = req[p].tab /\ req'[p].for = req[p].for
    BY <1>1 DEF AcceptToken, Goto, TypeOK, Issuing
  <2>2. /\ \A u \in Session : token'[u] = "rotated" => token[u] = "rotated"
        /\ UNCHANGED cookie /\ crossed \subseteq crossed'
    BY <1>1 DEF AcceptToken, Goto, TypeOK
  <2> QED BY <2>1, <2>2, AwaitsKept
<1>2. ASSUME NEW r \in Request, SuspectTheft(r) PROVE RotatedAwaits'
  <2>1. \A p \in Request :
          req[p].phase \in Issuing /\ req[p].tab # NoTab /\ BrowserOf[req[p].tab] \notin crossed' =>
            req'[p].phase \in Issuing /\ req'[p].tab = req[p].tab /\ req'[p].for = req[p].for
    BY <1>2 DEF SuspectTheft, TypeOK, Issuing
  <2>2. /\ \A u \in Session : token'[u] = "rotated" => token[u] = "rotated"
        /\ UNCHANGED cookie /\ crossed \subseteq crossed'
    BY <1>2 DEF SuspectTheft, TypeOK
  <2> QED BY <2>1, <2>2, AwaitsKept
<1>3. ASSUME NEW r \in Request, Rotate(r) PROVE RotatedAwaits'
  BY <1>3 DEF Rotate, TypeOK, TokenInv, HolderInv, WaitInv, FreshBrought, RotatedAwaits,
     Presents, Refreshing, Issuing
<1>4. ASSUME NEW r \in Request, BelowCap(r) PROVE RotatedAwaits'
  <2>1. \A p \in Request :
          req[p].phase \in Issuing /\ req[p].tab # NoTab /\ BrowserOf[req[p].tab] \notin crossed' =>
            req'[p].phase \in Issuing /\ req'[p].tab = req[p].tab /\ req'[p].for = req[p].for
    BY <1>4 DEF BelowCap, Goto, TypeOK, Issuing
  <2>2. /\ \A u \in Session : token'[u] = "rotated" => token[u] = "rotated"
        /\ UNCHANGED cookie /\ crossed \subseteq crossed'
    BY <1>4 DEF BelowCap, Goto, TypeOK
  <2> QED BY <2>1, <2>2, AwaitsKept
<1>5. ASSUME NEW r \in Request, AtCap(r) PROVE RotatedAwaits'
  <2>1. \A p \in Request :
          req[p].phase \in Issuing /\ req[p].tab # NoTab /\ BrowserOf[req[p].tab] \notin crossed' =>
            req'[p].phase \in Issuing /\ req'[p].tab = req[p].tab /\ req'[p].for = req[p].for
    BY <1>5 DEF AtCap, TypeOK, Issuing
  <2>2. /\ \A u \in Session : token'[u] = "rotated" => token[u] = "rotated"
        /\ UNCHANGED cookie /\ crossed \subseteq crossed'
    BY <1>5 DEF AtCap, TypeOK
  <2> QED BY <2>1, <2>2, AwaitsKept
<1>6. ASSUME NEW r \in Request, PickOldest(r) PROVE RotatedAwaits'
  <2>1. \A p \in Request :
          req[p].phase \in Issuing /\ req[p].tab # NoTab /\ BrowserOf[req[p].tab] \notin crossed' =>
            req'[p].phase \in Issuing /\ req'[p].tab = req[p].tab /\ req'[p].for = req[p].for
    BY <1>6 DEF PickOldest, TypeOK, Issuing
  <2>2. /\ \A u \in Session : token'[u] = "rotated" => token[u] = "rotated"
        /\ UNCHANGED cookie /\ crossed \subseteq crossed'
    BY <1>6 DEF PickOldest, TypeOK
  <2> QED BY <2>1, <2>2, AwaitsKept
<1>7. ASSUME NEW r \in Request, Evict(r) PROVE RotatedAwaits'
  <2>1. \A p \in Request :
          req[p].phase \in Issuing /\ req[p].tab # NoTab /\ BrowserOf[req[p].tab] \notin crossed' =>
            req'[p].phase \in Issuing /\ req'[p].tab = req[p].tab /\ req'[p].for = req[p].for
    BY <1>7 DEF Evict, Goto, RevokePicked, TypeOK, Issuing
  <2>2. /\ \A u \in Session : token'[u] = "rotated" => token[u] = "rotated"
        /\ UNCHANGED cookie /\ crossed \subseteq crossed'
    BY <1>7 DEF Evict, Goto, RevokePicked, TypeOK
  <2> QED BY <2>1, <2>2, AwaitsKept
<1>8. ASSUME NEW r \in Request, EvictTokens(r) PROVE RotatedAwaits'
  <2>1. \A p \in Request :
          req[p].phase \in Issuing /\ req[p].tab # NoTab /\ BrowserOf[req[p].tab] \notin crossed' =>
            req'[p].phase \in Issuing /\ req'[p].tab = req[p].tab /\ req'[p].for = req[p].for
    BY <1>8 DEF EvictTokens, RevokeTheirTokens, TypeOK, Issuing
  <2>2. /\ \A u \in Session : token'[u] = "rotated" => token[u] = "rotated"
        /\ UNCHANGED cookie /\ crossed \subseteq crossed'
    BY <1>8 DEF EvictTokens, RevokeTheirTokens, TypeOK
  <2> QED BY <2>1, <2>2, AwaitsKept
<1>9. ASSUME NEW r \in Request, FindActive(r) PROVE RotatedAwaits'
  <2>1. \A p \in Request :
          req[p].phase \in Issuing /\ req[p].tab # NoTab /\ BrowserOf[req[p].tab] \notin crossed' =>
            req'[p].phase \in Issuing /\ req'[p].tab = req[p].tab /\ req'[p].for = req[p].for
    BY <1>9 DEF FindActive, TypeOK, Issuing
  <2>2. /\ \A u \in Session : token'[u] = "rotated" => token[u] = "rotated"
        /\ UNCHANGED cookie /\ crossed \subseteq crossed'
    BY <1>9 DEF FindActive, TypeOK
  <2> QED BY <2>1, <2>2, AwaitsKept
<1>10. ASSUME NEW r \in Request, FindNone(r) PROVE RotatedAwaits'
  <2>1. \A p \in Request :
          req[p].phase \in Issuing /\ req[p].tab # NoTab /\ BrowserOf[req[p].tab] \notin crossed' =>
            req'[p].phase \in Issuing /\ req'[p].tab = req[p].tab /\ req'[p].for = req[p].for
    BY <1>10 DEF FindNone, Finish, TypeOK, Issuing
  <2>2. /\ \A u \in Session : token'[u] = "rotated" => token[u] = "rotated"
        /\ UNCHANGED cookie /\ crossed \subseteq crossed'
    BY <1>10 DEF FindNone, Finish, TypeOK
  <2> QED BY <2>1, <2>2, AwaitsKept
<1>11. ASSUME NEW r \in Request, RevokeSessions(r) PROVE RotatedAwaits'
  <2>1. \A p \in Request :
          req[p].phase \in Issuing /\ req[p].tab # NoTab /\ BrowserOf[req[p].tab] \notin crossed' =>
            req'[p].phase \in Issuing /\ req'[p].tab = req[p].tab /\ req'[p].for = req[p].for
    BY <1>11 DEF RevokeSessions, Goto, RevokePicked, TypeOK, Issuing
  <2>2. /\ \A u \in Session : token'[u] = "rotated" => token[u] = "rotated"
        /\ UNCHANGED cookie /\ crossed \subseteq crossed'
    BY <1>11 DEF RevokeSessions, Goto, RevokePicked, TypeOK
  <2> QED BY <2>1, <2>2, AwaitsKept
<1>12. ASSUME NEW r \in Request, RevokeTokens(r) PROVE RotatedAwaits'
  <2>1. \A p \in Request :
          req[p].phase \in Issuing /\ req[p].tab # NoTab /\ BrowserOf[req[p].tab] \notin crossed' =>
            req'[p].phase \in Issuing /\ req'[p].tab = req[p].tab /\ req'[p].for = req[p].for
    BY <1>12 DEF RevokeTokens, RevokeTheirTokens, Finish, TypeOK, Issuing
  <2>2. /\ \A u \in Session : token'[u] = "rotated" => token[u] = "rotated"
        /\ UNCHANGED cookie /\ crossed \subseteq crossed'
    BY <1>12 DEF RevokeTokens, RevokeTheirTokens, Finish, TypeOK
  <2> QED BY <2>1, <2>2, AwaitsKept
<1>13. ASSUME NEW r \in Request, NEW s \in Session, CreateSession(r, s) PROVE RotatedAwaits'
  <2>1. \A p \in Request :
          req[p].phase \in Issuing /\ req[p].tab # NoTab /\ BrowserOf[req[p].tab] \notin crossed' =>
            req'[p].phase \in Issuing /\ req'[p].tab = req[p].tab /\ req'[p].for = req[p].for
    BY <1>13 DEF CreateSession, TypeOK, Issuing
  <2>2. /\ \A u \in Session : token'[u] = "rotated" => token[u] = "rotated"
        /\ UNCHANGED cookie /\ crossed \subseteq crossed'
    BY <1>13 DEF CreateSession, TypeOK
  <2> QED BY <2>1, <2>2, AwaitsKept
<1>14. ASSUME NEW r \in Request, CreateToken(r) PROVE RotatedAwaits'
  <2>1. \A p \in Request :
          req[p].phase \in Issuing /\ req[p].tab # NoTab /\ BrowserOf[req[p].tab] \notin crossed' =>
            req'[p].phase \in Issuing /\ req'[p].tab = req[p].tab /\ req'[p].for = req[p].for
    BY <1>14 DEF CreateToken, Finish, TypeOK, Issuing
  <2>2. /\ \A u \in Session : token'[u] = "rotated" => token[u] = "rotated"
        /\ UNCHANGED cookie /\ crossed \subseteq crossed'
    BY <1>14 DEF CreateToken, Finish, TypeOK
  <2> QED BY <2>1, <2>2, AwaitsKept
<1>15. ASSUME NEW r \in Request, Receive(r) PROVE RotatedAwaits'
  BY <1>15 DEF Receive, Settle, TypeOK, TokenInv, HolderInv, WaitInv, FreshBrought,
     RotatedAwaits, Presents, Refreshing, Issuing
<1>16. ASSUME NEW r \in Request, Refused(r) PROVE RotatedAwaits'
  <2>1. \A p \in Request :
          req[p].phase \in Issuing /\ req[p].tab # NoTab /\ BrowserOf[req[p].tab] \notin crossed' =>
            req'[p].phase \in Issuing /\ req'[p].tab = req[p].tab /\ req'[p].for = req[p].for
    BY <1>16 DEF Refused, Settle, TypeOK, Issuing
  <2>2. /\ \A u \in Session : token'[u] = "rotated" => token[u] = "rotated"
        /\ UNCHANGED cookie /\ crossed \subseteq crossed'
    BY <1>16 DEF Refused, Settle, TypeOK
  <2> QED BY <2>1, <2>2, AwaitsKept
<1>17. ASSUME NEW r \in Request, ForgetToken(r) PROVE RotatedAwaits'
  <2>1. \A p \in Request :
          req[p].phase \in Issuing /\ req[p].tab # NoTab /\ BrowserOf[req[p].tab] \notin crossed' =>
            req'[p].phase \in Issuing /\ req'[p].tab = req[p].tab /\ req'[p].for = req[p].for
    BY <1>17 DEF ForgetToken, Goto, TypeOK, Issuing
  <2>2. /\ \A u \in Session : token'[u] = "rotated" => token[u] = "rotated"
        /\ UNCHANGED cookie /\ crossed \subseteq crossed'
    BY <1>17 DEF ForgetToken, Goto, TypeOK
  <2> QED BY <2>1, <2>2, AwaitsKept
<1>18. ASSUME NEW r \in Request, CloseSession(r) PROVE RotatedAwaits'
  <2>1. \A p \in Request :
          req[p].phase \in Issuing /\ req[p].tab # NoTab /\ BrowserOf[req[p].tab] \notin crossed' =>
            req'[p].phase \in Issuing /\ req'[p].tab = req[p].tab /\ req'[p].for = req[p].for
    BY <1>18 DEF CloseSession, Finish, TypeOK, Issuing
  <2>2. /\ \A u \in Session : token'[u] = "rotated" => token[u] = "rotated"
        /\ UNCHANGED cookie /\ crossed \subseteq crossed'
    BY <1>18 DEF CloseSession, Finish, TypeOK
  <2> QED BY <2>1, <2>2, AwaitsKept
<1>19. ASSUME NEW r \in Request, SignedOut(r) PROVE RotatedAwaits'
  BY <1>19 DEF SignedOut, TypeOK, TokenInv, HolderInv, WaitInv, FreshBrought,
     RotatedAwaits, Presents, Refreshing, Issuing
<1>20. ASSUME NEW r \in Request, NEW t \in Tab, Login(r, t) PROVE RotatedAwaits'
  <2>1. \A p \in Request :
          req[p].phase \in Issuing /\ req[p].tab # NoTab /\ BrowserOf[req[p].tab] \notin crossed' =>
            req'[p].phase \in Issuing /\ req'[p].tab = req[p].tab /\ req'[p].for = req[p].for
    BY <1>20 DEF Login, Ask, TypeOK, Issuing
  <2>2. /\ \A u \in Session : token'[u] = "rotated" => token[u] = "rotated"
        /\ UNCHANGED cookie /\ crossed \subseteq crossed'
    BY <1>20 DEF Login, Ask, TypeOK
  <2> QED BY <2>1, <2>2, AwaitsKept
<1>21. ASSUME NEW r \in Request, NEW t \in Tab, Bootstrap(r, t) PROVE RotatedAwaits'
  <2>1. \A p \in Request :
          req[p].phase \in Issuing /\ req[p].tab # NoTab /\ BrowserOf[req[p].tab] \notin crossed' =>
            req'[p].phase \in Issuing /\ req'[p].tab = req[p].tab /\ req'[p].for = req[p].for
    BY <1>21 DEF Bootstrap, PresentCookie, Ask, TypeOK, Issuing
  <2>2. /\ \A u \in Session : token'[u] = "rotated" => token[u] = "rotated"
        /\ UNCHANGED cookie /\ crossed \subseteq crossed'
    BY <1>21 DEF Bootstrap, PresentCookie, Ask, TypeOK
  <2> QED BY <2>1, <2>2, AwaitsKept
<1>22. ASSUME NEW r \in Request, NEW t \in Tab, Refresh(r, t) PROVE RotatedAwaits'
  <2>1. \A p \in Request :
          req[p].phase \in Issuing /\ req[p].tab # NoTab /\ BrowserOf[req[p].tab] \notin crossed' =>
            req'[p].phase \in Issuing /\ req'[p].tab = req[p].tab /\ req'[p].for = req[p].for
    BY <1>22 DEF Refresh, PresentCookie, Ask, SharesRefresh, TypeOK, Issuing
  <2>2. /\ \A u \in Session : token'[u] = "rotated" => token[u] = "rotated"
        /\ UNCHANGED cookie /\ crossed \subseteq crossed'
    BY <1>22 DEF Refresh, PresentCookie, Ask, SharesRefresh, TypeOK
  <2> QED BY <2>1, <2>2, AwaitsKept
<1>23. ASSUME NEW r \in Request, NEW t \in Tab, Logout(r, t) PROVE RotatedAwaits'
  <2>1. \A p \in Request :
          req[p].phase \in Issuing /\ req[p].tab # NoTab /\ BrowserOf[req[p].tab] \notin crossed' =>
            req'[p].phase \in Issuing /\ req'[p].tab = req[p].tab /\ req'[p].for = req[p].for
    BY <1>23 DEF Logout, Ask, TypeOK, Issuing
  <2>2. /\ \A u \in Session : token'[u] = "rotated" => token[u] = "rotated"
        /\ UNCHANGED cookie /\ crossed \subseteq crossed'
    BY <1>23 DEF Logout, Ask, TypeOK
  <2> QED BY <2>1, <2>2, AwaitsKept
<1>24. ASSUME NEW r \in Request, NEW t \in Tab, LogoutAll(r, t) PROVE RotatedAwaits'
  <2>1. \A p \in Request :
          req[p].phase \in Issuing /\ req[p].tab # NoTab /\ BrowserOf[req[p].tab] \notin crossed' =>
            req'[p].phase \in Issuing /\ req'[p].tab = req[p].tab /\ req'[p].for = req[p].for
    BY <1>24 DEF LogoutAll, Ask, TypeOK, Issuing
  <2>2. /\ \A u \in Session : token'[u] = "rotated" => token[u] = "rotated"
        /\ UNCHANGED cookie /\ crossed \subseteq crossed'
    BY <1>24 DEF LogoutAll, Ask, TypeOK
  <2> QED BY <2>1, <2>2, AwaitsKept
<1>25. ASSUME NEW r \in Request, NEW t \in Tab, NEW s \in Session, RevokeSession(r, t, s)
      PROVE RotatedAwaits'
  <2>1. \A p \in Request :
          req[p].phase \in Issuing /\ req[p].tab # NoTab /\ BrowserOf[req[p].tab] \notin crossed' =>
            req'[p].phase \in Issuing /\ req'[p].tab = req[p].tab /\ req'[p].for = req[p].for
    BY <1>25 DEF RevokeSession, Ask, TypeOK, Issuing
  <2>2. /\ \A u \in Session : token'[u] = "rotated" => token[u] = "rotated"
        /\ UNCHANGED cookie /\ crossed \subseteq crossed'
    BY <1>25 DEF RevokeSession, Ask, TypeOK
  <2> QED BY <2>1, <2>2, AwaitsKept
<1>26. ASSUME NEW t \in Tab, LogoutUnheard(t) PROVE RotatedAwaits'
  <2>1. \A p \in Request :
          req[p].phase \in Issuing /\ req[p].tab # NoTab /\ BrowserOf[req[p].tab] \notin crossed' =>
            req'[p].phase \in Issuing /\ req'[p].tab = req[p].tab /\ req'[p].for = req[p].for
    BY <1>26 DEF LogoutUnheard, TypeOK, Issuing
  <2>2. /\ \A u \in Session : token'[u] = "rotated" => token[u] = "rotated"
        /\ UNCHANGED cookie /\ crossed \subseteq crossed'
    BY <1>26 DEF LogoutUnheard, TypeOK
  <2> QED BY <2>1, <2>2, AwaitsKept
<1>27. ASSUME NEW t \in Tab, Reload(t) PROVE RotatedAwaits'
  <2>1. \A p \in Request :
          req[p].phase \in Issuing /\ req[p].tab # NoTab /\ BrowserOf[req[p].tab] \notin crossed' =>
            req'[p].phase \in Issuing /\ req'[p].tab = req[p].tab /\ req'[p].for = req[p].for
    BY <1>27 DEF Reload, TypeOK, Issuing
  <2>2. /\ \A u \in Session : token'[u] = "rotated" => token[u] = "rotated"
        /\ UNCHANGED cookie /\ crossed \subseteq crossed'
    BY <1>27 DEF Reload, TypeOK
  <2> QED BY <2>1, <2>2, AwaitsKept
<1>28. ASSUME NEW r \in Request, ErrorAnswer(r) PROVE RotatedAwaits'
  <2>1. \A p \in Request :
          req[p].for \in {"bootstrap", "retry"} /\ req[p].phase \in Issuing
          /\ req[p].tab # NoTab /\ BrowserOf[req[p].tab] \notin crossed' =>
            req'[p].phase \in Issuing /\ req'[p].tab = req[p].tab /\ req'[p].for = req[p].for
    BY <1>28 DEF ErrorAnswer, Settle, Refreshing, TypeOK, Issuing
  <2>2. /\ \A u \in Session : token'[u] = "rotated" => token[u] = "rotated"
        /\ UNCHANGED cookie /\ crossed \subseteq crossed'
    BY <1>28 DEF ErrorAnswer, Settle, Refreshing, TypeOK
  <2> QED BY <2>1, <2>2, AwaitsKept
<1> QED BY <1>1, <1>2, <1>3, <1>4, <1>5, <1>6, <1>7, <1>8, <1>9, <1>10, <1>11, <1>12,
   <1>13, <1>14, <1>15, <1>16, <1>17, <1>18, <1>19, <1>20, <1>21, <1>22, <1>23, <1>24,
   <1>25, <1>26, <1>27, <1>28 DEF Next, Proceed

\* What is presented is not rotated, so nobody is accused.
LEMMA AccusedStep ==
  ASSUME IInv, Next
  PROVE  NeverAccusedWrongly'
<1> USE SessionsAssumption DEF IInv, Idle, store, web, Session, NoSession
<1>1. ASSUME NEW r \in Request, AcceptToken(r) PROVE NeverAccusedWrongly'
  BY <1>1 DEF AcceptToken, Goto, TypeOK, FreshPresented, NeverAccusedWrongly
<1>2. ASSUME NEW r \in Request, SuspectTheft(r) PROVE NeverAccusedWrongly'
  BY <1>2 DEF SuspectTheft, TypeOK, FreshPresented, NeverAccusedWrongly
<1>3. ASSUME NEW r \in Request, Rotate(r) PROVE NeverAccusedWrongly'
  BY <1>3 DEF Rotate, TypeOK, FreshPresented, NeverAccusedWrongly
<1>4. ASSUME NEW r \in Request, BelowCap(r) PROVE NeverAccusedWrongly'
  BY <1>4 DEF BelowCap, Goto, TypeOK, FreshPresented, NeverAccusedWrongly
<1>5. ASSUME NEW r \in Request, AtCap(r) PROVE NeverAccusedWrongly'
  BY <1>5 DEF AtCap, TypeOK, FreshPresented, NeverAccusedWrongly
<1>6. ASSUME NEW r \in Request, PickOldest(r) PROVE NeverAccusedWrongly'
  BY <1>6 DEF PickOldest, TypeOK, FreshPresented, NeverAccusedWrongly
<1>7. ASSUME NEW r \in Request, Evict(r) PROVE NeverAccusedWrongly'
  BY <1>7 DEF Evict, Goto, RevokePicked, TypeOK, FreshPresented, NeverAccusedWrongly
<1>8. ASSUME NEW r \in Request, EvictTokens(r) PROVE NeverAccusedWrongly'
  BY <1>8 DEF EvictTokens, RevokeTheirTokens, TypeOK, FreshPresented, NeverAccusedWrongly
<1>9. ASSUME NEW r \in Request, FindActive(r) PROVE NeverAccusedWrongly'
  BY <1>9 DEF FindActive, TypeOK, FreshPresented, NeverAccusedWrongly
<1>10. ASSUME NEW r \in Request, FindNone(r) PROVE NeverAccusedWrongly'
  BY <1>10 DEF FindNone, Finish, TypeOK, FreshPresented, NeverAccusedWrongly
<1>11. ASSUME NEW r \in Request, RevokeSessions(r) PROVE NeverAccusedWrongly'
  BY <1>11 DEF RevokeSessions, Goto, RevokePicked, TypeOK, FreshPresented,
     NeverAccusedWrongly
<1>12. ASSUME NEW r \in Request, RevokeTokens(r) PROVE NeverAccusedWrongly'
  BY <1>12 DEF RevokeTokens, RevokeTheirTokens, Finish, TypeOK, FreshPresented,
     NeverAccusedWrongly
<1>13. ASSUME NEW r \in Request, NEW s \in Session, CreateSession(r, s)
      PROVE NeverAccusedWrongly'
  BY <1>13 DEF CreateSession, TypeOK, FreshPresented, NeverAccusedWrongly
<1>14. ASSUME NEW r \in Request, CreateToken(r) PROVE NeverAccusedWrongly'
  BY <1>14 DEF CreateToken, Finish, TypeOK, FreshPresented, NeverAccusedWrongly
<1>15. ASSUME NEW r \in Request, Receive(r) PROVE NeverAccusedWrongly'
  BY <1>15 DEF Receive, Settle, TypeOK, FreshPresented, NeverAccusedWrongly
<1>16. ASSUME NEW r \in Request, Refused(r) PROVE NeverAccusedWrongly'
  BY <1>16 DEF Refused, Settle, TypeOK, FreshPresented, NeverAccusedWrongly
<1>17. ASSUME NEW r \in Request, ForgetToken(r) PROVE NeverAccusedWrongly'
  BY <1>17 DEF ForgetToken, Goto, TypeOK, FreshPresented, NeverAccusedWrongly
<1>18. ASSUME NEW r \in Request, CloseSession(r) PROVE NeverAccusedWrongly'
  BY <1>18 DEF CloseSession, Finish, TypeOK, FreshPresented, NeverAccusedWrongly
<1>19. ASSUME NEW r \in Request, SignedOut(r) PROVE NeverAccusedWrongly'
  BY <1>19 DEF SignedOut, TypeOK, FreshPresented, NeverAccusedWrongly
<1>20. ASSUME NEW r \in Request, NEW t \in Tab, Login(r, t) PROVE NeverAccusedWrongly'
  BY <1>20 DEF Login, Ask, TypeOK, FreshPresented, NeverAccusedWrongly
<1>21. ASSUME NEW r \in Request, NEW t \in Tab, Bootstrap(r, t) PROVE NeverAccusedWrongly'
  BY <1>21 DEF Bootstrap, PresentCookie, Ask, TypeOK, FreshPresented, NeverAccusedWrongly
<1>22. ASSUME NEW r \in Request, NEW t \in Tab, Refresh(r, t) PROVE NeverAccusedWrongly'
  BY <1>22 DEF Refresh, PresentCookie, Ask, SharesRefresh, TypeOK, FreshPresented,
     NeverAccusedWrongly
<1>23. ASSUME NEW r \in Request, NEW t \in Tab, Logout(r, t) PROVE NeverAccusedWrongly'
  BY <1>23 DEF Logout, Ask, TypeOK, FreshPresented, NeverAccusedWrongly
<1>24. ASSUME NEW r \in Request, NEW t \in Tab, LogoutAll(r, t) PROVE NeverAccusedWrongly'
  BY <1>24 DEF LogoutAll, Ask, TypeOK, FreshPresented, NeverAccusedWrongly
<1>25. ASSUME NEW r \in Request, NEW t \in Tab, NEW s \in Session, RevokeSession(r, t, s)
      PROVE NeverAccusedWrongly'
  BY <1>25 DEF RevokeSession, Ask, TypeOK, FreshPresented, NeverAccusedWrongly
<1>26. ASSUME NEW t \in Tab, LogoutUnheard(t) PROVE NeverAccusedWrongly'
  BY <1>26 DEF LogoutUnheard, TypeOK, FreshPresented, NeverAccusedWrongly
<1>27. ASSUME NEW t \in Tab, Reload(t) PROVE NeverAccusedWrongly'
  BY <1>27 DEF Reload, TypeOK, FreshPresented, NeverAccusedWrongly
<1>28. ASSUME NEW r \in Request, ErrorAnswer(r) PROVE NeverAccusedWrongly'
  BY <1>28 DEF ErrorAnswer, Settle, Refreshing, TypeOK, FreshPresented, NeverAccusedWrongly
<1> QED BY <1>1, <1>2, <1>3, <1>4, <1>5, <1>6, <1>7, <1>8, <1>9, <1>10, <1>11, <1>12,
   <1>13, <1>14, <1>15, <1>16, <1>17, <1>18, <1>19, <1>20, <1>21, <1>22, <1>23, <1>24,
   <1>25, <1>26, <1>27, <1>28 DEF Next, Proceed

-----------------------------------------------------------------------------
LEMMA InitIInv == Init => IInv
<1> SUFFICES ASSUME Init PROVE IInv
  OBVIOUS
<1> USE SessionsAssumption DEF Init, Idle, Session, NoSession
<1>1. TypeOK
  BY DEF TypeOK, Phase, Purpose
<1>2. TokenInv /\ RevokedIsDead /\ NeverAccusedWrongly
  BY DEF TokenInv, RevokedIsDead, NeverAccusedWrongly
<1>3. HolderInv
  BY DEF HolderInv, Presents, Brings
<1>4. WaitInv
  BY DEF WaitInv, Refreshing
<1>5. FreshPresented /\ FreshBrought /\ RotatedAwaits
  BY DEF FreshPresented, FreshBrought, RotatedAwaits
<1> QED BY <1>1, <1>2, <1>3, <1>4, <1>5 DEF IInv

LEMMA Stutter ==
  ASSUME IInv, UNCHANGED vars
  PROVE  IInv'
<1> USE DEF vars, IInv
<1>1. TypeOK' /\ TokenInv' /\ RevokedIsDead' /\ NeverAccusedWrongly'
  BY DEF TypeOK, TokenInv, RevokedIsDead, NeverAccusedWrongly
<1>2. HolderInv' /\ WaitInv'
  BY DEF HolderInv, Presents, Brings, WaitInv, Refreshing
<1>3. FreshPresented' /\ FreshBrought' /\ RotatedAwaits'
  BY DEF FreshPresented, FreshBrought, RotatedAwaits, Refreshing
<1> QED BY <1>1, <1>2, <1>3

\* IInv is an invariant.
THEOREM Inductive == Spec => []IInv
<1>1. ASSUME IInv, Next PROVE IInv'
  BY <1>1, TypeStep, TokenStep, DeadStep, HolderStep, WaitStep, FreshPresentedStep,
     FreshBroughtStep, RotatedAwaitsStep, AccusedStep DEF IInv
<1>2. IInv /\ [Next]_vars => IInv'
  BY <1>1, Stutter
<1> QED BY InitIInv, <1>2, PTL DEF Spec

\* Every variable keeps its type (TypeOK): the row a request has read, and the one
\* it writes, is there.
THEOREM TypeCorrect == Spec => []TypeOK
BY Inductive, PTL DEF IInv

\* A revoked session has no live token (revokeAllSessionsForSubject, logout,
\* enforceSessionCap), but for tokens that were late, for any number of requests.
THEOREM RevokedDead == Spec => []RevokedIsDead
BY Inductive, PTL DEF IInv

\* The client's shared refresh, and rotation, never make the API suspect a browser
\* of theft that did not cross its own refreshes or lose an answer.
THEOREM NeverWronged == Spec => []NeverAccusedWrongly
BY Inductive, PTL DEF IInv

-----------------------------------------------------------------------------
(* The cap on active sessions.                                             *)
(*                                                                         *)
(* A request that has revoked what it picked, or found fewer than Cap, is  *)
(* about to make a session (Making); one that is between its count and its *)
(* revocation (Choosing) has some sessions Doomed.  Whichever of the latter*)
(* revoke first, what they spare and what is about to be made stays within *)
(* the bound.                                                              *)

Making == {q \in Request : req[q].phase \in {"evictTokens", "create"}}
Choosing == {q \in Request : req[q].phase \in {"pick", "evict"}}

Doomed(q) == IF req[q].phase = "evict" THEN req[q].picked ELSE Oldest(Excess(q))

Spared(S) == {s \in Active : \A q \in S : s \notin Doomed(q)}

CapKeptBy(S) ==
  Cardinality(Spared(S)) + Cardinality(Making) + Cardinality(S) < Cap + Cardinality(Request)

\* Sessions are made in order, and only sessions that were made are picked.
InOrder ==
  /\ \A s, u \in Session : u < s /\ session[s] # "NONE" => session[u] # "NONE"
  /\ \A r \in Request : \A s \in req[r].picked : session[s] # "NONE"

CapInv == \A S \in SUBSET Choosing : CapKeptBy(S)

LEMMA Finite ==
  /\ IsFiniteSet(Session)
  /\ \A S \in SUBSET Session : IsFiniteSet(S) /\ Cardinality(S) \in Nat
  /\ \A S \in SUBSET Request : IsFiniteSet(S) /\ Cardinality(S) \in Nat
<1>1. IsFiniteSet(Session)
  BY SessionsAssumption, FS_Interval DEF Session
<1>2. IsFiniteSet(Request)
  BY SessionsAssumption
<1> QED BY <1>1, <1>2, FS_Subset, FS_CardinalityType

\* Of n sessions to be revoked, the n seen longest ago are found: what is spared is
\* n fewer than there are.
LEMMA OldestEnough ==
  ASSUME NEW n \in Nat, n <= Cardinality(Active)
  PROVE  Cardinality(Active \ Oldest(n)) <= Cardinality(Active) - n
<1> DEFINE below(s) == {u \in Active : u < s}
           rest == Active \ Oldest(n)
           belows == {below(s) : s \in rest}
<1>1. Active \in SUBSET Session /\ IsFiniteSet(Active) /\ Cardinality(Active) \in Nat
  BY Finite DEF Active
<1>2. Oldest(n) \in SUBSET Active
  BY DEF Oldest
<1>3. /\ Cardinality(rest) = Cardinality(Active) - Cardinality(Oldest(n))
      /\ IsFiniteSet(rest) /\ Cardinality(Oldest(n)) \in Nat
  <2>1. Active \cap Oldest(n) = Oldest(n)
    BY <1>2
  <2>2. Cardinality(rest) = Cardinality(Active) - Cardinality(Active \cap Oldest(n))
        /\ IsFiniteSet(rest)
    BY <1>1, FS_Difference
  <2>3. Cardinality(Oldest(n)) \in Nat
    BY <1>1, <1>2, Finite
  <2> QED BY <2>1, <2>2, <2>3
<1>4. CASE rest = {}
  BY <1>1, <1>4, FS_EmptySet
<1>5. CASE rest # {}
  <2>1. IsWellFoundedOn(StrictSubsetOrdering(Active), SUBSET Active)
    BY <1>1, FS_StrictSubsetOrderingWellFounded, FS_FiniteSubsetsOfFinite
  <2>2. belows \subseteq SUBSET Active /\ belows # {}
    BY <1>5
  <2>3. \E x \in belows : \A y \in belows : ~(<<y, x>> \in StrictSubsetOrdering(Active))
    <3> HIDE DEF belows
    <3> QED BY <2>1, <2>2, WFMin
  <2>4. PICK s \in rest : \A y \in belows : ~(<<y, below(s)>> \in StrictSubsetOrdering(Active))
    BY <2>3
  <2>5. ASSUME NEW u \in below(s), u \in rest PROVE FALSE
    <3>1. u < s /\ u \in Nat /\ s \in Nat
      BY <1>1 DEF Session
    <3>2. below(u) \in belows
      BY <2>5
    <3>3. below(u) \subseteq below(s) /\ below(u) # below(s)
      <4>1. u \notin below(u) /\ u \in below(s)
        BY <2>5, <3>1
      <4>2. ASSUME NEW x \in below(u) PROVE x \in below(s)
        <5>1. x \in Active /\ x < u /\ x \in Nat
          BY <1>1 DEF Session
        <5> QED BY <3>1, <5>1
      <4> QED BY <4>1, <4>2
    <3>4. <<below(u), below(s)>> \in StrictSubsetOrdering(Active)
      BY <3>3 DEF StrictSubsetOrdering
    <3> QED BY <2>4, <3>2, <3>4
  <2>6. below(s) \in SUBSET Oldest(n)
    BY <2>5
  <2>7. ~(Cardinality(below(s)) < n)
    BY DEF Oldest
  <2>8. Cardinality(below(s)) <= Cardinality(Oldest(n)) /\ Cardinality(below(s)) \in Nat
    <3>1. below(s) \in SUBSET Session
      BY <1>1
    <3>2. IsFiniteSet(Oldest(n))
      BY <1>1, <1>2, Finite
    <3> HIDE DEF below
    <3> QED BY <2>6, <3>1, <3>2, FS_Subset, Finite
  <2>9. n <= Cardinality(Oldest(n))
    <3> HIDE DEF below
    <3> QED BY <1>3, <2>7, <2>8
  <2> QED BY <1>1, <1>3, <2>9
<1> QED BY <1>4, <1>5

\* Where sessions are only revoked, those seen longest ago stay so.
LEMMA OldestKept ==
  ASSUME NEW n \in Int, Active' \subseteq Active, Active \in SUBSET Session
  PROVE  Oldest(n) \cap Active' \subseteq Oldest(n)'
<1> SUFFICES ASSUME NEW s \in Oldest(n) \cap Active' PROVE s \in Oldest(n)'
  OBVIOUS
<1> DEFINE now == {u \in Active : u < s}
           then == {u \in Active' : u < s}
<1>1. then \in SUBSET now /\ now \in SUBSET Session
  OBVIOUS
<1>2. Cardinality(now) < n
  BY DEF Oldest
<1>3. Cardinality(then) <= Cardinality(now) /\ Cardinality(then) \in Nat /\ Cardinality(now) \in Nat
  <2>1. IsFiniteSet(now) /\ then \in SUBSET Session
    BY <1>1, Finite
  <2> HIDE DEF now, then
  <2> QED BY <1>1, <2>1, FS_Subset, Finite
<1>4. Cardinality(then) < n
  BY <1>2, <1>3
<1> QED BY <1>4 DEF Oldest

\* A step that makes nothing, and dooms no less, of what is active.
LEMMA CapKept ==
  ASSUME CapInv, Active' \subseteq Active, Making' \subseteq Making,
         Choosing' \subseteq Choosing,
         \A q \in Choosing' : Doomed(q) \cap Active' \subseteq Doomed(q)'
  PROVE  CapInv'
<1> SUFFICES ASSUME NEW S \in SUBSET Choosing' PROVE CapKeptBy(S)'
  BY DEF CapInv
<1>1. CapKeptBy(S)
  BY DEF CapInv
<1>2. Spared(S)' \in SUBSET Spared(S) /\ Spared(S) \in SUBSET Session
  BY DEF Spared, Active
<1>3. Cardinality(Spared(S)') <= Cardinality(Spared(S))
      /\ Cardinality(Spared(S)') \in Nat /\ Cardinality(Spared(S)) \in Nat
  <2>1. Spared(S)' \in SUBSET Session
    BY <1>2
  <2> QED BY <1>2, <2>1, Finite, FS_Subset
<1>4. Cardinality(Making') <= Cardinality(Making)
      /\ Cardinality(Making') \in Nat /\ Cardinality(Making) \in Nat
  <2>1. Making \in SUBSET Request /\ Making' \in SUBSET Request /\ Making' \in SUBSET Making
    BY DEF Making
  <2> QED BY <2>1, Finite, FS_Subset
<1>5. Cardinality(S) \in Nat /\ Cardinality(Request) \in Nat /\ Cap \in Nat
  <2>1. S \in SUBSET Request
    BY DEF Choosing
  <2> QED BY <2>1, Finite, SessionsAssumption
<1> QED BY <1>1, <1>3, <1>4, <1>5 DEF CapKeptBy

\* A step that has nothing to do with the cap, but may revoke sessions.
Quiet ==
  /\ Active' \subseteq Active
  /\ \A q \in Request :
       /\ req'[q].phase \in {"evictTokens", "create"} =>
            req[q].phase \in {"evictTokens", "create"}
       /\ req'[q].phase \in {"pick", "evict"} =>
            /\ req'[q].phase = req[q].phase
            /\ req'[q].picked = req[q].picked
            /\ req'[q].count = req[q].count

LEMMA CapQuiet ==
  ASSUME TypeOK, CapInv, Quiet
  PROVE  CapInv'
<1> USE DEF Quiet
<1>1. Making' \subseteq Making /\ Choosing' \subseteq Choosing
  BY DEF Making, Choosing
<1>2. ASSUME NEW q \in Choosing' PROVE Doomed(q) \cap Active' \subseteq Doomed(q)'
  <2>1. q \in Request /\ req'[q].phase = req[q].phase
        /\ req'[q].picked = req[q].picked /\ req'[q].count = req[q].count
    BY DEF Choosing
  <2>2. CASE req[q].phase = "evict"
    BY <2>1, <2>2 DEF Doomed
  <2>3. CASE req[q].phase # "evict"
    <3> DEFINE n == req[q].count - Cap + 1
    <3>1. Doomed(q) = Oldest(n)
      BY <2>3 DEF Doomed, Excess
    <3>2. PICK m \in Int : m = n
      BY <2>1, SessionsAssumption DEF TypeOK
    <3>3. Doomed(q)' = Oldest(m)'
      BY <2>1, <2>3, <3>2 DEF Doomed, Excess
    <3>4. Oldest(m) \cap Active' \subseteq Oldest(m)'
      BY OldestKept DEF Active
    <3> QED BY <3>1, <3>2, <3>3, <3>4
  <2> QED BY <2>2, <2>3
<1> QED BY <1>1, <1>2, CapKept

\* Sessions stay in order, action by action.
LEMMA OrderStep ==
  ASSUME TypeOK, TokenInv, InOrder, Next
  PROVE  InOrder'
<1> USE DEF TypeOK, InOrder, Idle, store
<1>t. \A s \in Session : token[s] # "none" => session[s] # "NONE"
  BY DEF TokenInv
<1>c. \A r \in Request : req[r].phase = "close" => session[req[r].old] # "NONE"
  BY <1>t DEF TokenInv
<1>1. ASSUME NEW r \in Request, AcceptToken(r) PROVE InOrder'
  BY <1>1 DEF AcceptToken, Goto
<1>2. ASSUME NEW r \in Request, SuspectTheft(r) PROVE InOrder'
  BY <1>2 DEF SuspectTheft
<1>3. ASSUME NEW r \in Request, Rotate(r) PROVE InOrder'
  BY <1>3 DEF Rotate
<1>4. ASSUME NEW r \in Request, EvictTokens(r) PROVE InOrder'
  BY <1>4 DEF EvictTokens
<1>5. ASSUME NEW r \in Request, FindActive(r) PROVE InOrder'
  BY <1>5 DEF FindActive, Active
<1>6. ASSUME NEW r \in Request, FindNone(r) PROVE InOrder'
  BY <1>6 DEF FindNone, Finish
<1>7. ASSUME NEW r \in Request, RevokeSessions(r) PROVE InOrder'
  BY <1>7 DEF RevokeSessions, RevokePicked, Goto
<1>8. ASSUME NEW r \in Request, RevokeTokens(r) PROVE InOrder'
  BY <1>8 DEF RevokeTokens, Finish
<1>9. ASSUME NEW r \in Request, CreateToken(r) PROVE InOrder'
  BY <1>9 DEF CreateToken, Finish
<1>10. ASSUME NEW r \in Request, Receive(r) PROVE InOrder'
  BY <1>10 DEF Receive
<1>11. ASSUME NEW r \in Request, Refused(r) PROVE InOrder'
  BY <1>11 DEF Refused
<1>12. ASSUME NEW r \in Request, ForgetToken(r) PROVE InOrder'
  BY <1>12 DEF ForgetToken, Goto
<1>13. ASSUME NEW r \in Request, CloseSession(r) PROVE InOrder'
  BY <1>c, <1>13 DEF CloseSession, Finish
<1>14. ASSUME NEW r \in Request, SignedOut(r) PROVE InOrder'
  BY <1>14 DEF SignedOut
<1>15. ASSUME NEW r \in Request, BelowCap(r) PROVE InOrder'
  BY <1>15 DEF BelowCap, Goto
<1>16. ASSUME NEW r \in Request, AtCap(r) PROVE InOrder'
  BY <1>16 DEF AtCap
<1>17. ASSUME NEW r \in Request, PickOldest(r) PROVE InOrder'
  <2>1. \A s \in Oldest(Excess(r)) : session[s] # "NONE"
    BY DEF Oldest, Active
  <2> QED BY <1>17, <2>1 DEF PickOldest
<1>18. ASSUME NEW r \in Request, Evict(r) PROVE InOrder'
  BY <1>18 DEF Evict, RevokePicked, Goto
<1>19. ASSUME NEW r \in Request, NEW s \in Session, CreateSession(r, s) PROVE InOrder'
  BY <1>19, SessionsAssumption DEF CreateSession, Session
<1>20. ASSUME NEW r \in Request, NEW t \in Tab, Login(r, t) PROVE InOrder'
  BY <1>20 DEF Login, Ask
<1>21. ASSUME NEW r \in Request, NEW t \in Tab, Bootstrap(r, t) PROVE InOrder'
  BY <1>21 DEF Bootstrap, PresentCookie, Ask
<1>22. ASSUME NEW r \in Request, NEW t \in Tab, Refresh(r, t) PROVE InOrder'
  BY <1>22 DEF Refresh, PresentCookie, Ask
<1>23. ASSUME NEW r \in Request, NEW t \in Tab, Logout(r, t) PROVE InOrder'
  BY <1>23 DEF Logout, Ask
<1>24. ASSUME NEW r \in Request, NEW t \in Tab, LogoutAll(r, t) PROVE InOrder'
  BY <1>24 DEF LogoutAll, Ask
<1>25. ASSUME NEW r \in Request, NEW t \in Tab, NEW s \in Session, RevokeSession(r, t, s)
      PROVE  InOrder'
  BY <1>25 DEF RevokeSession, Ask
<1>26. ASSUME NEW t \in Tab, LogoutUnheard(t) PROVE InOrder'
  BY <1>26 DEF LogoutUnheard
<1>27. ASSUME NEW t \in Tab, Reload(t) PROVE InOrder'
  BY <1>27 DEF Reload
<1>28. ASSUME NEW r \in Request, ErrorAnswer(r) PROVE InOrder'
  BY <1>28 DEF ErrorAnswer
<1> QED BY <1>1, <1>2, <1>3, <1>4, <1>5, <1>6, <1>7, <1>8, <1>9, <1>10, <1>11, <1>12, 
   <1>13, <1>14, <1>15, <1>16, <1>17, <1>18, <1>19, <1>20, <1>21, <1>22, <1>23, <1>24, 
   <1>25, <1>26, <1>27, <1>28
   DEF Next, Proceed

\* All but the actions of issueTokens up to the creation of the session are quiet.
LEMMA QuietStep ==
  ASSUME TypeOK, Next
  PROVE  \/ Quiet
         \/ \E r \in Request : BelowCap(r) \/ AtCap(r) \/ PickOldest(r) \/ Evict(r)
         \/ \E r \in Request, s \in Session : CreateSession(r, s)
<1> USE DEF TypeOK, Quiet, Active, Idle, store
<1>1. ASSUME NEW r \in Request, AcceptToken(r) PROVE Quiet
  BY <1>1 DEF AcceptToken, Goto
<1>2. ASSUME NEW r \in Request, SuspectTheft(r) PROVE Quiet
  BY <1>2 DEF SuspectTheft
<1>3. ASSUME NEW r \in Request, Rotate(r) PROVE Quiet
  BY <1>3 DEF Rotate
<1>4. ASSUME NEW r \in Request, EvictTokens(r) PROVE Quiet
  BY <1>4 DEF EvictTokens
<1>5. ASSUME NEW r \in Request, FindActive(r) PROVE Quiet
  BY <1>5 DEF FindActive
<1>6. ASSUME NEW r \in Request, FindNone(r) PROVE Quiet
  BY <1>6 DEF FindNone, Finish
<1>7. ASSUME NEW r \in Request, RevokeSessions(r) PROVE Quiet
  BY <1>7 DEF RevokeSessions, RevokePicked, Goto
<1>8. ASSUME NEW r \in Request, RevokeTokens(r) PROVE Quiet
  BY <1>8 DEF RevokeTokens, Finish
<1>9. ASSUME NEW r \in Request, CreateToken(r) PROVE Quiet
  BY <1>9 DEF CreateToken, Finish
<1>10. ASSUME NEW r \in Request, Receive(r) PROVE Quiet
  BY <1>10 DEF Receive
<1>11. ASSUME NEW r \in Request, Refused(r) PROVE Quiet
  BY <1>11 DEF Refused
<1>12. ASSUME NEW r \in Request, ForgetToken(r) PROVE Quiet
  BY <1>12 DEF ForgetToken, Goto
<1>13. ASSUME NEW r \in Request, CloseSession(r) PROVE Quiet
  BY <1>13 DEF CloseSession, Finish
<1>14. ASSUME NEW r \in Request, SignedOut(r) PROVE Quiet
  BY <1>14 DEF SignedOut
<1>15. ASSUME NEW r \in Request, NEW t \in Tab, Login(r, t) PROVE Quiet
  BY <1>15 DEF Login, Ask
<1>16. ASSUME NEW r \in Request, NEW t \in Tab, Bootstrap(r, t) PROVE Quiet
  BY <1>16 DEF Bootstrap, PresentCookie, Ask
<1>17. ASSUME NEW r \in Request, NEW t \in Tab, Refresh(r, t) PROVE Quiet
  BY <1>17 DEF Refresh, PresentCookie, Ask
<1>18. ASSUME NEW r \in Request, NEW t \in Tab, Logout(r, t) PROVE Quiet
  BY <1>18 DEF Logout, Ask
<1>19. ASSUME NEW r \in Request, NEW t \in Tab, LogoutAll(r, t) PROVE Quiet
  BY <1>19 DEF LogoutAll, Ask
<1>20. ASSUME NEW r \in Request, NEW t \in Tab, NEW s \in Session, RevokeSession(r, t, s)
      PROVE  Quiet
  BY <1>20 DEF RevokeSession, Ask
<1>21. ASSUME NEW t \in Tab, LogoutUnheard(t) PROVE Quiet
  BY <1>21 DEF LogoutUnheard
<1>22. ASSUME NEW t \in Tab, Reload(t) PROVE Quiet
  BY <1>22 DEF Reload
<1>23. ASSUME NEW r \in Request, ErrorAnswer(r) PROVE Quiet
  BY <1>23 DEF ErrorAnswer
<1> QED BY <1>1, <1>2, <1>3, <1>4, <1>5, <1>6, <1>7, <1>8, <1>9, <1>10, <1>11, <1>12, 
   <1>13, <1>14, <1>15, <1>16, <1>17, <1>18, <1>19, <1>20, <1>21, <1>22, <1>23
   DEF Next, Proceed

-----------------------------------------------------------------------------
\* Requests about to make a session and some that choose are as many as there are
\* requests at most, so that sparing fewer than Cap is within the bound.
LEMMA FewSpared ==
  \A S \in SUBSET Choosing : Cardinality(Spared(S)) < Cap => CapKeptBy(S)
<1> SUFFICES ASSUME NEW S \in SUBSET Choosing, Cardinality(Spared(S)) < Cap
             PROVE  CapKeptBy(S)
  OBVIOUS
<1>1. /\ Making \in SUBSET Request /\ S \in SUBSET Request /\ Making \cap S = {}
      /\ Making \cup S \in SUBSET Request /\ Spared(S) \in SUBSET Session
  BY DEF Making, Choosing, Spared, Active
<1>2. /\ Cardinality(Making) \in Nat /\ Cardinality(S) \in Nat
      /\ Cardinality(Making \cup S) \in Nat /\ Cardinality(Request) \in Nat
      /\ Cardinality(Spared(S)) \in Nat /\ Cap \in Nat
  BY <1>1, Finite, SessionsAssumption
<1>3. Cardinality(Making \cup S) = Cardinality(Making) + Cardinality(S)
  <2>1. IsFiniteSet(Making) /\ IsFiniteSet(S)
    BY <1>1, Finite
  <2>2. Cardinality(Making \cup S)
          = Cardinality(Making) + Cardinality(S) - Cardinality(Making \cap S)
    BY <2>1, FS_Union
  <2>3. Cardinality(Making \cap S) = 0
    BY <1>1, FS_EmptySet
  <2> QED BY <1>2, <2>2, <2>3
<1>4. Cardinality(Making \cup S) <= Cardinality(Request)
  BY <1>1, SessionsAssumption, FS_Subset
<1> QED BY <1>2, <1>3, <1>4 DEF CapKeptBy

LEMMA FewSparedNext ==
  (\A S \in SUBSET Choosing : Cardinality(Spared(S)) < Cap => CapKeptBy(S))'
BY FewSpared, PTL

\* With fewer than Cap active whatever the others do is within the bound.
LEMMA BelowCapStep ==
  ASSUME TypeOK, NEW r \in Request, BelowCap(r)
  PROVE  CapInv'
<1> SUFFICES ASSUME NEW S \in SUBSET Choosing' PROVE CapKeptBy(S)'
  BY DEF CapInv
<1>1. Active' = Active /\ Cardinality(Active) < Cap
  BY DEF BelowCap, Active, store
<1>2. Spared(S)' \in SUBSET Active /\ Active \in SUBSET Session
  BY <1>1 DEF Spared, Active
<1>3. Cardinality(Spared(S)') < Cap
  <2>1. IsFiniteSet(Active) /\ Spared(S)' \in SUBSET Session
    BY <1>2, Finite
  <2>2. /\ Cardinality(Spared(S)') <= Cardinality(Active)
        /\ Cardinality(Spared(S)') \in Nat /\ Cardinality(Active) \in Nat
    BY <1>2, <2>1, FS_Subset, Finite
  <2> QED BY <1>1, <2>2, SessionsAssumption
<1> QED BY <1>3, FewSparedNext

\* One that found Cap or more spares fewer than Cap.
LEMMA AtCapStep ==
  ASSUME TypeOK, CapInv, NEW r \in Request, AtCap(r)
  PROVE  CapInv'
<1> SUFFICES ASSUME NEW S \in SUBSET Choosing' PROVE CapKeptBy(S)'
  BY DEF CapInv
<1>1. /\ Active' = Active /\ Cardinality(Active) >= Cap
      /\ Active \in SUBSET Session /\ Cardinality(Active) \in Nat
  BY Finite DEF AtCap, Active, store
<1>2. /\ req[r].phase = "count" /\ req'[r].phase = "pick" /\ req'[r].count = Cardinality(Active)
      /\ \A q \in Request \ {r} : req'[q] = req[q]
  BY DEF AtCap, TypeOK
<1>3. \A n : Oldest(n)' = Oldest(n)
  BY <1>1 DEF Oldest
<1>4. CASE r \in S
  <2> DEFINE n == Cardinality(Active) - Cap + 1
  <2>1. n \in Nat /\ n <= Cardinality(Active)
    BY <1>1, SessionsAssumption
  <2>2. Doomed(r)' = Oldest(n)
    BY <1>2, <1>3 DEF Doomed, Excess
  <2>3. Spared(S)' \in SUBSET (Active \ Oldest(n))
    BY <1>1, <1>4, <2>2 DEF Spared
  <2>4. Cardinality(Active \ Oldest(n)) <= Cardinality(Active) - n
    BY <2>1, OldestEnough
  <2>5. Cardinality(Spared(S)') <= Cardinality(Active \ Oldest(n))
        /\ Cardinality(Spared(S)') \in Nat /\ Cardinality(Active \ Oldest(n)) \in Nat
    <3>1. Active \ Oldest(n) \in SUBSET Session /\ Spared(S)' \in SUBSET Session
      BY <1>1, <2>3
    <3> HIDE DEF n
    <3> QED BY <2>3, <3>1, FS_Subset, Finite
  <2>6. Cardinality(Spared(S)') < Cap
    BY <1>1, <2>4, <2>5, SessionsAssumption
  <2> QED BY <2>6, FewSparedNext
<1>5. CASE r \notin S
  <2>1. S \in SUBSET Choosing
    BY <1>2, <1>5 DEF Choosing
  <2>2. \A q \in S : Doomed(q)' = Doomed(q)
    <3> SUFFICES ASSUME NEW q \in S PROVE Doomed(q)' = Doomed(q)
      OBVIOUS
    <3>1. q \in Request /\ req'[q] = req[q]
      BY <1>2, <1>5, <2>1 DEF Choosing
    <3> QED BY <1>3, <3>1 DEF Doomed, Excess
  <2>3. Spared(S)' = Spared(S)
    BY <1>1, <2>2 DEF Spared
  <2>4. Making' = Making
    BY <1>2 DEF Making
  <2> QED BY <2>1, <2>3, <2>4 DEF CapInv, CapKeptBy
<1> QED BY <1>4, <1>5

\* What is revoked was doomed, whether or not it was chosen again from fewer.
LEMMA PickStep ==
  ASSUME TypeOK, CapInv, NEW r \in Request, PickOldest(r)
  PROVE  CapInv'
<1>1. Active' = Active /\ Active \in SUBSET Session
  BY DEF PickOldest, Active, store
<1>2. /\ req[r].phase = "pick" /\ req'[r].phase = "evict"
      /\ req'[r].picked = Oldest(Excess(r))
      /\ \A q \in Request \ {r} : req'[q] = req[q]
  BY DEF PickOldest, TypeOK
<1>3. \A n : Oldest(n)' = Oldest(n)
  BY <1>1 DEF Oldest
<1>4. Making' \subseteq Making /\ Choosing' \subseteq Choosing
  BY <1>2 DEF Making, Choosing
<1>5. ASSUME NEW q \in Choosing' PROVE Doomed(q)' = Doomed(q)
  <2>1. CASE q = r
    BY <1>2, <2>1 DEF Doomed
  <2>2. CASE q # r
    <3>1. q \in Request /\ req'[q] = req[q]
      BY <1>2, <2>2 DEF Choosing
    <3> QED BY <1>3, <3>1 DEF Doomed, Excess
  <2> QED BY <2>1, <2>2
<1> QED BY <1>1, <1>4, <1>5, CapKept

\* A request that revokes what it picked makes one more session, and is one less to
\* be spared from.
LEMMA EvictStep ==
  ASSUME TypeOK, CapInv, NEW r \in Request, Evict(r)
  PROVE  CapInv'
<1> SUFFICES ASSUME NEW S \in SUBSET Choosing' PROVE CapKeptBy(S)'
  BY DEF CapInv
<1>1. /\ req[r].phase = "evict" /\ req'[r].phase = "evictTokens"
      /\ \A q \in Request \ {r} : req'[q] = req[q]
  BY DEF Evict, Goto, TypeOK
<1>2. Active' = Active \ req[r].picked /\ Active \in SUBSET Session
  BY DEF Evict, RevokePicked, Active, TypeOK
<1>3. /\ S \cup {r} \in SUBSET Choosing /\ r \notin S /\ Making' = Making \cup {r}
      /\ r \notin Making /\ S \in SUBSET Request /\ Making \in SUBSET Request
  BY <1>1 DEF Choosing, Making
<1>4. ASSUME NEW q \in S PROVE Doomed(q) \cap Active' \subseteq Doomed(q)'
  <2>1. q \in Request /\ req'[q] = req[q]
    BY <1>1, <1>3
  <2>2. CASE req[q].phase = "evict"
    BY <2>1, <2>2 DEF Doomed
  <2>3. CASE req[q].phase # "evict"
    <3>1. PICK m \in Int : m = req[q].count - Cap + 1
      BY <2>1, SessionsAssumption DEF TypeOK
    <3>2. Doomed(q) = Oldest(m) /\ Doomed(q)' = Oldest(m)'
      BY <2>1, <2>3, <3>1 DEF Doomed, Excess
    <3>3. Oldest(m) \cap Active' \subseteq Oldest(m)'
      BY <1>2, OldestKept
    <3> QED BY <3>2, <3>3
  <2> QED BY <2>2, <2>3
<1>5. Spared(S)' \in SUBSET Spared(S \cup {r}) /\ Spared(S \cup {r}) \in SUBSET Session
  BY <1>1, <1>2, <1>4 DEF Spared, Doomed
<1>6. CapKeptBy(S \cup {r})
  BY <1>3 DEF CapInv
<1>7. Cardinality(Spared(S)') <= Cardinality(Spared(S \cup {r}))
      /\ Cardinality(Spared(S)') \in Nat /\ Cardinality(Spared(S \cup {r})) \in Nat
  <2>1. Spared(S)' \in SUBSET Session
    BY <1>5
  <2> QED BY <1>5, <2>1, FS_Subset, Finite
<1>8. /\ Cardinality(S \cup {r}) = Cardinality(S) + 1
      /\ Cardinality(Making') = Cardinality(Making) + 1
      /\ Cardinality(S) \in Nat /\ Cardinality(Making) \in Nat
      /\ Cardinality(Request) \in Nat /\ Cap \in Nat
  BY <1>3, Finite, FS_AddElement, SessionsAssumption
<1> QED BY <1>6, <1>7, <1>8 DEF CapKeptBy

\* The session made is the newest: it dooms no fewer of the others.
LEMMA CreateStep ==
  ASSUME TypeOK, InOrder, CapInv, NEW r \in Request, NEW s \in Session, CreateSession(r, s)
  PROVE  CapInv'
<1> SUFFICES ASSUME NEW S \in SUBSET Choosing' PROVE CapKeptBy(S)'
  BY DEF CapInv
<1>1. /\ req[r].phase = "create" /\ req'[r].phase = "sign"
      /\ \A q \in Request \ {r} : req'[q] = req[q]
  BY DEF CreateSession, TypeOK
<1>2. /\ Active' = Active \cup {s} /\ Active \in SUBSET Session /\ s \notin Active
      /\ \A u \in Active : u < s
  <2>1. /\ session' = [session EXCEPT ![s] = "ACTIVE"] /\ session[s] = "NONE"
        /\ session \in [Session -> {"NONE", "ACTIVE", "REVOKED"}]
    BY DEF CreateSession, TypeOK
  <2>2. Active' = Active \cup {s} /\ Active \in SUBSET Session /\ s \notin Active
    BY <2>1 DEF Active
  <2>3. ASSUME NEW u \in Active PROVE u < s
    <3>1. u \in Session /\ session[u] # "NONE" /\ u # s
      BY <2>1 DEF Active
    <3>2. ~(s < u)
      BY <2>1, <3>1 DEF InOrder
    <3> QED BY <3>1, <3>2, SessionsAssumption DEF Session
  <2> QED BY <2>2, <2>3
<1>3. /\ S \in SUBSET Choosing /\ r \notin S /\ Making' = Making \ {r} /\ r \in Making
      /\ S \in SUBSET Request /\ Making \in SUBSET Request
  BY <1>1 DEF Choosing, Making
<1>4. ASSUME NEW n PROVE Oldest(n) \subseteq Oldest(n)'
  <2> SUFFICES ASSUME NEW u \in Oldest(n) PROVE u \in Oldest(n)'
    OBVIOUS
  <2>1. u \in Active /\ u < s /\ s \in Nat /\ u \in Nat /\ u \in Active'
    BY <1>2 DEF Oldest, Session
  <2>2. {v \in Active' : v < u} = {v \in Active : v < u}
    BY <1>2, <2>1
  <2> QED BY <2>1, <2>2 DEF Oldest
<1>5. ASSUME NEW q \in S PROVE Doomed(q) \subseteq Doomed(q)'
  <2>1. q \in Request /\ req'[q] = req[q]
    BY <1>1, <1>3
  <2>2. CASE req[q].phase = "evict"
    BY <2>1, <2>2 DEF Doomed
  <2>3. CASE req[q].phase # "evict"
    <3>1. PICK m : m = req[q].count - Cap + 1
      OBVIOUS
    <3>2. Doomed(q) = Oldest(m) /\ Doomed(q)' = Oldest(m)'
      BY <2>1, <2>3, <3>1 DEF Doomed, Excess
    <3> QED BY <1>4, <3>2
  <2> QED BY <2>2, <2>3
<1>6. Spared(S)' \in SUBSET (Spared(S) \cup {s}) /\ Spared(S) \in SUBSET Session
  BY <1>2, <1>5 DEF Spared
<1>7. CapKeptBy(S)
  BY <1>3 DEF CapInv
<1>8. Cardinality(Spared(S)') <= Cardinality(Spared(S)) + 1
      /\ Cardinality(Spared(S)') \in Nat /\ Cardinality(Spared(S)) \in Nat
  <2>1. /\ Spared(S)' \in SUBSET Session /\ s \notin Spared(S)
        /\ Spared(S) \cup {s} \in SUBSET Session
    BY <1>2, <1>6 DEF Spared
  <2>2. Cardinality(Spared(S) \cup {s}) = Cardinality(Spared(S)) + 1
    BY <1>6, <2>1, Finite, FS_AddElement
  <2>3. Cardinality(Spared(S)') <= Cardinality(Spared(S) \cup {s})
    BY <1>6, <2>1, Finite, FS_Subset
  <2> QED BY <1>6, <2>1, <2>2, <2>3, Finite
<1>9. /\ Cardinality(Making') = Cardinality(Making) - 1
      /\ Cardinality(S) \in Nat /\ Cardinality(Making) \in Nat
      /\ Cardinality(Request) \in Nat /\ Cap \in Nat
  BY <1>3, Finite, FS_RemoveElement, SessionsAssumption
<1> QED BY <1>7, <1>8, <1>9 DEF CapKeptBy

LEMMA InitCap == Init => InOrder /\ CapInv
<1> SUFFICES ASSUME Init PROVE InOrder /\ CapInv
  OBVIOUS
<1>1. InOrder
  BY DEF InOrder, Init, Idle
<1>2. ASSUME NEW S \in SUBSET Choosing PROVE CapKeptBy(S)
  <2>1. Spared(S) = {}
    BY DEF Init, Spared, Active
  <2>2. Cardinality(Spared(S)) < Cap
    BY <2>1, FS_EmptySet, SessionsAssumption
  <2> QED BY <2>2, FewSpared
<1> QED BY <1>1, <1>2 DEF CapInv

\* With none of those that choose left out, the bound is on all that is active.
LEMMA CapEnough == CapInv => ActiveWithinCap
<1> SUFFICES ASSUME CapInv PROVE ActiveWithinCap
  OBVIOUS
<1>1. CapKeptBy({}) /\ Spared({}) = Active
  BY DEF CapInv, Spared
<1>2. /\ Active \in SUBSET Session /\ Making \in SUBSET Request
      /\ Cardinality({}) = 0
  BY FS_EmptySet DEF Active, Making
<1>3. /\ Cardinality(Active) \in Nat /\ Cardinality(Making) \in Nat
      /\ Cardinality(Request) \in Nat /\ Cap \in Nat
  BY <1>2, Finite, SessionsAssumption
<1> QED BY <1>1, <1>2, <1>3 DEF CapKeptBy, ActiveWithinCap

\* The sessions of a customer exceed MAX_CONCURRENT_SESSIONS by less than the
\* requests the API handles at once, for any number of them: enforceSessionCap
\* counts, picks and revokes in statements of their own.
THEOREM CapHolds == Spec => []ActiveWithinCap
<1>1. ASSUME IInv, InOrder, CapInv, Next PROVE InOrder' /\ CapInv'
  <2>1. InOrder'
    BY <1>1, OrderStep DEF IInv
  <2>2. CapInv'
    BY <1>1, QuietStep, CapQuiet, BelowCapStep, AtCapStep, PickStep, EvictStep, CreateStep
       DEF IInv
  <2> QED BY <2>1, <2>2
<1>2. ASSUME IInv, InOrder, CapInv, UNCHANGED vars PROVE InOrder' /\ CapInv'
  <2>1. InOrder'
    BY <1>2 DEF InOrder, vars
  <2>2. Quiet
    BY <1>2 DEF Quiet, Active, vars
  <2> QED BY <1>2, <2>1, <2>2, CapQuiet DEF IInv
<1>3. IInv /\ InOrder /\ CapInv /\ [Next]_vars => InOrder' /\ CapInv'
  BY <1>1, <1>2
<1> QED BY Inductive, InitCap, CapEnough, <1>3, PTL DEF Spec
=============================================================================
