--------------------------- MODULE BrowserProofs ---------------------------
(***************************************************************************)
(* Proofs about AuthSession for any number of tabs and sessions.           *)
(*                                                                         *)
(* One live session per login is not inductive: a rotation acts on what it *)
(* read, so one must know that the row it locked still is as it read it    *)
(* (LockedAsSeen), which in turn takes that nobody else has it locked      *)
(* (OneLock).  That tokens never go back rests on what is in flight: a     *)
(* tab has one request (OneRequestPerWait), it presents the newest token   *)
(* of the tab's login (AsksWithNewest), and the answer is no older than    *)
(* what was presented (AnswersFollow).                                     *)
(*                                                                         *)
(* At the end the theorems of CmsEditorProofs are taken over to MCBrowser, *)
(* where TLC checks both components.                                       *)
(***************************************************************************)
EXTENDS MCBrowser, TLAPS

\* What a refresh has read under its lock is still so.
LockedAsSeen ==
  \A r \in refreshes : r.at = "locked" => r.jti # 0 /\ r.seen = state[r.jti]

\* Two refreshes do not have one row locked.
OneLock ==
  \A r, q \in refreshes : r.at = "locked" /\ q.at = "locked" /\ r.jti = q.jti => r = q

\* The answer to a refresh is a session of the same login, and no older one.
AnswersFollow ==
  \A r \in refreshes :
    r.got # 0 => r.jti # 0 /\ r.jti <= r.got /\ login[r.got] = login[r.jti]

\* The request of a tab presents no older token than the tab has by now.
AsksWithNewest ==
  \A r \in refreshes :
    /\ r.tab # Gone /\ held[r.tab] # 0 /\ r.jti # 0
    /\ login[r.jti] = login[held[r.tab]]
    => held[r.tab] <= r.jti

IInv ==
  /\ TypeOK
  /\ LockedAsSeen
  /\ OneLock
  /\ OneLivePerLogin
  /\ OneRequestPerWait
  /\ AnswersFollow
  /\ AsksWithNewest


-----------------------------------------------------------------------------
\* The steps of Next, by what they change: a tab asks, its page is loaded again,
\* the server locks, rotates or answers, a tab is answered, and the rest.
LEMMA Cases ==
  ASSUME [Next]_vars
  PROVE  \/ \E t \in Tabs : WaitForTokens(t) \/ RefreshNow(t)
         \/ \E t \in Tabs : Reload(t)
         \/ \E t \in Tabs : SignIn(t)
         \/ \E t \in Tabs : UserUnknown(t) \/ SignOut(t)
         \/ \E r \in refreshes : LockRow(r)
         \/ \E r \in refreshes : Rotate(r)
         \/ \E r \in refreshes : Reuse(r) \/ Refuse(r)
         \/ \E r \in refreshes : Refreshed(r)
         \/ \E r \in refreshes : NotRefreshed(r) \/ LoseRefresh(r)
         \/ \E r \in refreshes : Drop(r)
         \/ (\E o \in logouts : EndSession(o)) \/ (\E ss \in revokes : RevokeRead(ss))
         \/ /\ UNCHANGED <<issued, state, login, next, held, waiting, refreshing, refreshes>>
            /\ \/ \E o \in logouts : SignedOut(o) \/ LoseLogout(o)
               \/ \E t \in Tabs : RevokeOthers(t)
               \/ \E s \in Sessions : GraceEnds(s)
               \/ UNCHANGED vars
<1>1. CASE UNCHANGED vars
  BY <1>1 DEF vars, rowVars, tabVars, netVars
<1>2. CASE Next
  BY <1>2 DEF Next, SignedOut, LoseLogout, RevokeOthers, GraceEnds, rowVars, tabVars, netVars
<1> QED
  BY <1>1, <1>2

\* Before anybody signs in there is no session and no request.
LEMMA InitIInv == Init => IInv
<1> SUFFICES ASSUME Init PROVE IInv
  OBVIOUS
<1>1. TypeOK
  BY SessionAssumption DEF Init, TypeOK, RowsOK, RequestsOK, Sessions, Sess0, States
<1>2. LockedAsSeen /\ OneLock /\ AnswersFollow /\ AsksWithNewest /\ OneRequestPerWait
  BY DEF Init, LockedAsSeen, OneLock, AnswersFollow, AsksWithNewest, OneRequestPerWait
<1>3. OneLivePerLogin
  BY DEF Init, OneLivePerLogin
<1> QED
  BY <1>1, <1>2, <1>3 DEF IInv

\* What the numbers are.
LEMMA Numbers ==
  ASSUME RowsOK
  PROVE  /\ MaxSessions \in Nat /\ issued \in Nat /\ issued <= MaxSessions
         /\ Sessions = 1..MaxSessions /\ Sess0 = 0..MaxSessions
BY SessionAssumption DEF RowsOK, Sessions, Sess0

\* What RowsOK says of one row.
LEMMA Row ==
  ASSUME RowsOK, NEW s \in Sessions
  PROVE  /\ s \in Nat /\ s >= 1 /\ s <= MaxSessions
         /\ state[s] \in States /\ login[s] \in 0..MaxSessions /\ next[s] \in 0..MaxSessions
         /\ state[s] = "none" <=> s > issued
         /\ state[s] = "none" => login[s] = 0
         /\ state[s] # "none" => login[s] \in 1..s
         /\ next[s] # 0 => /\ next[s] \in Sessions /\ s < next[s] /\ next[s] <= issued
                           /\ login[next[s]] = login[s]
BY Numbers DEF RowsOK

\* A new session has a number of its own, and nothing points to it.
LEMMA NewSessionRow ==
  ASSUME RowsOK, NEW l \in 1..(issued + 1), NewSession(issued + 1, l)
  PROVE  /\ issued + 1 \in Sessions /\ issued' = issued + 1
         /\ login' \in [Sessions -> Sess0]
         /\ login'[issued + 1] = l
         /\ \A s \in Sessions : s # issued + 1 => login'[s] = login[s]
         /\ state[issued + 1] = "none" /\ next[issued + 1] = 0
         /\ \A s \in Sessions : next[s] # issued + 1
<1>1. /\ issued \in Nat /\ MaxSessions \in Nat /\ Sessions = 1..MaxSessions /\ Sess0 = 0..MaxSessions
      /\ issued + 1 \in Sessions /\ issued' = issued + 1
  BY Numbers DEF NewSession
<1>2. /\ login' \in [Sessions -> Sess0]
      /\ login'[issued + 1] = l
      /\ \A s \in Sessions : s # issued + 1 => login'[s] = login[s]
  BY <1>1 DEF RowsOK, NewSession
<1>3. state[issued + 1] = "none"
  BY <1>1, Row
<1>4. \A s \in Sessions : next[s] = 0 \/ (next[s] \in Sessions /\ s < next[s] /\ next[s] <= issued)
  BY Row
<1>5. \A s \in Sessions : next[s] # issued + 1
  BY <1>1, <1>4
<1>6. next[issued + 1] = 0
  BY <1>1, <1>4
<1> QED
  BY <1>1, <1>2, <1>3, <1>5, <1>6

\* A session created by signing in: the rows stay as they must be.
LEMMA RowsSignIn == ASSUME TypeOK, NEW t \in Tabs, SignIn(t) PROVE RowsOK'
<1>1. RowsOK /\ issued \in Nat /\ MaxSessions \in Nat /\ Sessions = 1..MaxSessions /\ Sess0 = 0..MaxSessions
  BY Numbers DEF TypeOK
<1>2. /\ issued + 1 \in Sessions /\ issued' = issued + 1
      /\ login' \in [Sessions -> Sess0]
      /\ login'[issued + 1] = issued + 1
      /\ \A s \in Sessions : s # issued + 1 => login'[s] = login[s]
      /\ \A s \in Sessions : next[s] # issued + 1
  BY <1>1, NewSessionRow DEF SignIn
<1>3. /\ state' \in [Sessions -> States] /\ state'[issued + 1] = "live" /\ next' = next
      /\ \A s \in Sessions : s # issued + 1 => state'[s] = state[s]
  BY <1>1, <1>2 DEF SignIn, RowsOK, States
<1>4. issued' \in Sess0 /\ next' \in [Sessions -> Sess0]
  BY <1>1, <1>2, <1>3 DEF RowsOK
<1>5. ASSUME NEW s \in Sessions
      PROVE  /\ state'[s] = "none" <=> s > issued'
             /\ state'[s] = "none" => login'[s] = 0
             /\ state'[s] # "none" => login'[s] \in 1..s
  <2>1. CASE s = issued + 1
    BY <1>1, <1>2, <1>3, <2>1
  <2>2. CASE s # issued + 1
    <3>1. state'[s] = state[s] /\ login'[s] = login[s] /\ s \in Nat
      BY <1>1, <1>2, <1>3, <2>2
    <3>2. (s > issued + 1) <=> (s > issued)
      BY <1>1, <2>2, <3>1
    <3> QED
      BY <1>1, <1>2, <3>1, <3>2, Row
  <2> QED
    BY <2>1, <2>2
<1>6. ASSUME NEW s \in Sessions, next'[s] # 0
      PROVE  s < next'[s] /\ next'[s] <= issued' /\ login'[next'[s]] = login'[s]
  <2>1. next[s] \in Sessions /\ s < next[s] /\ next[s] <= issued /\ login[next[s]] = login[s]
    BY <1>1, <1>3, <1>6, Row
  <2> QED
    BY <1>1, <1>2, <1>3, <2>1
<1> QED
  BY <1>3, <1>2, <1>4, <1>5, <1>6 DEF RowsOK

\* A session replaced by a new one: likewise.
LEMMA RowsRotate ==
  ASSUME TypeOK, LockedAsSeen, NEW r \in refreshes, Rotate(r)
  PROVE  /\ RowsOK'
         /\ r.jti \in Sessions /\ r.jti <= issued /\ state[r.jti] = "live"
         /\ issued + 1 \in Sessions /\ issued' = issued + 1
         /\ login'[issued + 1] = login[r.jti]
         /\ \A s \in Sessions : s # issued + 1 => login'[s] = login[s]
         /\ state'[issued + 1] = "live" /\ state'[r.jti] = "rotated"
         /\ \A s \in Sessions : s # issued + 1 /\ s # r.jti => state'[s] = state[s]
<1>1. RowsOK /\ issued \in Nat /\ MaxSessions \in Nat /\ Sessions = 1..MaxSessions /\ Sess0 = 0..MaxSessions
      /\ issued <= MaxSessions
  BY Numbers DEF TypeOK
<1>2. r.jti \in Sessions /\ r.jti <= issued /\ state[r.jti] = "live"
  BY <1>1 DEF Rotate, TypeOK, RequestsOK, Refresh, LockedAsSeen
<1>3. login[r.jti] \in 1..r.jti /\ login[r.jti] \in 1..(issued + 1) /\ r.jti # issued + 1
  BY <1>1, <1>2, Row
<1>4. /\ issued + 1 \in Sessions /\ issued' = issued + 1
      /\ login' \in [Sessions -> Sess0]
      /\ login'[issued + 1] = login[r.jti]
      /\ \A s \in Sessions : s # issued + 1 => login'[s] = login[s]
      /\ next[issued + 1] = 0
      /\ \A s \in Sessions : next[s] # issued + 1
  BY <1>1, <1>3, NewSessionRow DEF Rotate
<1>5. /\ state' \in [Sessions -> States]
      /\ state'[issued + 1] = "live" /\ state'[r.jti] = "rotated"
      /\ \A s \in Sessions : s # issued + 1 /\ s # r.jti => state'[s] = state[s]
  <2>1. state \in [Sessions -> States] /\ "rotated" \in States /\ "live" \in States
    BY <1>1 DEF RowsOK, States
  <2>2. state' = [state EXCEPT ![r.jti] = "rotated", ![issued + 1] = "live"]
    BY DEF Rotate
  <2> QED
    BY <1>2, <1>3, <1>4, <2>1, <2>2
<1>6. /\ next' \in [Sessions -> Sess0] /\ next'[r.jti] = issued + 1
      /\ \A s \in Sessions : s # r.jti => next'[s] = next[s]
  BY <1>1, <1>2, <1>4 DEF Rotate, RowsOK
<1>7. ASSUME NEW s \in Sessions
      PROVE  /\ state'[s] = "none" <=> s > issued'
             /\ state'[s] = "none" => login'[s] = 0
             /\ state'[s] # "none" => login'[s] \in 1..s
  <2>1. CASE s = issued + 1
    BY <1>1, <1>2, <1>3, <1>4, <1>5, <2>1
  <2>2. CASE s = r.jti
    BY <1>1, <1>2, <1>3, <1>4, <1>5, <2>2
  <2>3. CASE s # issued + 1 /\ s # r.jti
    BY <1>1, <1>4, <1>5, <2>3, Row
  <2> QED
    BY <2>1, <2>2, <2>3
<1>8. ASSUME NEW s \in Sessions, next'[s] # 0
      PROVE  s < next'[s] /\ next'[s] <= issued' /\ login'[next'[s]] = login'[s]
  <2>1. CASE s = r.jti
    BY <1>1, <1>2, <1>4, <1>6, <2>1
  <2>2. CASE s # r.jti
    <3>1. next[s] \in Sessions /\ s < next[s] /\ next[s] <= issued /\ login[next[s]] = login[s]
      BY <1>1, <1>6, <1>8, <2>2, Row
    <3>2. next'[s] = next[s] /\ s # issued + 1 /\ next[s] # issued + 1
      BY <1>1, <1>4, <1>6, <1>8, <2>2
    <3>3. login'[next[s]] = login[next[s]] /\ login'[s] = login[s]
      BY <1>4, <3>1, <3>2
    <3> QED
      BY <1>1, <1>4, <3>1, <3>2, <3>3
  <2> QED
    BY <2>1, <2>2
<1>9. issued' \in Sess0
  BY <1>1, <1>4
<1>10. RowsOK'
  BY <1>4, <1>5, <1>6, <1>7, <1>8, <1>9 DEF RowsOK
<1> QED
  BY <1>2, <1>4, <1>5, <1>10

\* Sessions revoked: likewise.
LEMMA RowsRevoked ==
  ASSUME RowsOK, NEW ss \in SUBSET (1..issued), state' = Revoked(ss), UNCHANGED <<issued, login, next>>
  PROVE  RowsOK'
<1>1. \A s \in ss : s \in Sessions /\ state[s] # "none"
  BY Numbers DEF RowsOK
<1>2. /\ state' \in [Sessions -> States]
      /\ \A s \in Sessions : state'[s] = "none" <=> state[s] = "none"
  BY <1>1 DEF Revoked, RowsOK, States
<1> QED
  BY <1>2 DEF RowsOK

-----------------------------------------------------------------------------
\* A request that is sent, taken a step further, or abandoned.
LEMMA RequestType ==
  ASSUME TypeOK, NEW t \in Tabs, NEW s \in 0..issued
  PROVE  /\ Request(t, s) \in Refresh
         /\ Request(t, s).tab = t /\ Request(t, s).jti = s /\ Request(t, s).got = 0
         /\ Request(t, s).at = "sent"
<1>1. s \in Sess0 /\ 0 \in Sess0
  BY Numbers DEF TypeOK
<1> QED
  BY <1>1 DEF Request, Refresh, States

\* A request whose page is gone is a request of nobody, and otherwise as it was.
LEMMA GoneType ==
  ASSUME NEW r \in Refresh, NEW q, q = [r EXCEPT !.tab = Gone]
  PROVE  q \in Refresh /\ q.tab = Gone /\ q.jti = r.jti /\ q.got = r.got /\ q.at = r.at /\ q.seen = r.seen
BY DEF Refresh

\* The answers that create no session.
LEMMA Answered ==
  ASSUME TypeOK, LockedAsSeen, NEW r \in refreshes, Reuse(r) \/ Refuse(r)
  PROVE  \E g \in 0..issued :
           /\ Answer(r, g)
           /\ g # 0 => r.jti \in Sessions /\ r.jti < g /\ login[g] = login[r.jti]
<1>1. RowsOK /\ issued \in Nat /\ MaxSessions \in Nat /\ Sessions = 1..MaxSessions /\ Sess0 = 0..MaxSessions
  BY Numbers DEF TypeOK
<1>2. CASE Reuse(r)
  <2>1. r.jti \in Sessions
    BY <1>1, <1>2 DEF Reuse, LockedAsSeen, TypeOK, RequestsOK, Refresh
  <2>2. next[r.jti] \in 0..issued /\ r.jti < next[r.jti] /\ login[next[r.jti]] = login[r.jti]
    BY <1>1, <1>2, <2>1, Row DEF Reuse
  <2> QED
    BY <1>2, <2>1, <2>2 DEF Reuse
<1>3. CASE Refuse(r)
  BY <1>1, <1>3 DEF Refuse
<1> QED
  BY <1>2, <1>3

-----------------------------------------------------------------------------
(* Type correctness.                                                        *)

\* TypeOK is kept; what a request has locked is needed for the rows it rotates.
LEMMA TypeStep == ASSUME TypeOK, LockedAsSeen, [Next]_vars PROVE TypeOK'
<1>0. /\ RowsOK /\ RequestsOK
      /\ MaxSessions \in Nat /\ issued \in Nat /\ MaxEvents \in Nat
      /\ Sessions = 1..MaxSessions /\ Sess0 = 0..MaxSessions /\ issued <= MaxSessions
      /\ refreshes \in SUBSET Refresh
      /\ Gone \notin Tabs
  BY SessionAssumption, Numbers DEF TypeOK, RequestsOK
<1>1. ASSUME NEW t \in Tabs, WaitForTokens(t) \/ RefreshNow(t) PROVE TypeOK'
  <2>1. (IF held[t] # 0 THEN held[t] ELSE cookie) \in 0..issued
    BY DEF TypeOK
  <2>2. RequestsOK'
    BY <1>0, <1>1, <2>1, RequestType DEF RequestsOK, WaitForTokens, RefreshNow, JoinRefresh, rowVars
  <2>3. RowsOK'
    BY <1>0, <1>1 DEF RowsOK, WaitForTokens, RefreshNow, rowVars
  <2> QED
    BY <1>1, <2>2, <2>3 DEF TypeOK, WaitForTokens, RefreshNow, JoinRefresh, rowVars, tabVars
<1>2. ASSUME NEW t \in Tabs, Reload(t) PROVE TypeOK'
  <2>1. cookie \in 0..issued
    BY DEF TypeOK
  <2>2. RequestsOK'
    <3> SUFFICES ASSUME NEW q \in refreshes' PROVE q \in Refresh /\ q.jti <= issued /\ q.got <= issued
      BY <1>2 DEF RequestsOK, Reload, rowVars
    <3>1. CASE q = Request(t, cookie)
      BY <1>0, <2>1, <3>1, RequestType
    <3>2. CASE \E r \in refreshes : q = [r EXCEPT !.tab = Gone]
      <4>1. PICK r \in refreshes : q = [r EXCEPT !.tab = Gone]
        BY <3>2
      <4>2. r \in Refresh /\ r.jti <= issued /\ r.got <= issued
        BY <1>0 DEF RequestsOK
      <4> QED
        BY <4>1, <4>2, GoneType
    <3>3. CASE q \in refreshes
      BY <1>0, <3>3 DEF RequestsOK
    <3> QED
      BY <1>2, <3>1, <3>2, <3>3 DEF Reload
  <2>3. RowsOK'
    BY <1>0, <1>2 DEF RowsOK, Reload, rowVars
  <2> QED
    BY <1>0, <1>2, <2>2, <2>3 DEF TypeOK, Reload, Clear, Event, rowVars
<1>3. ASSUME NEW t \in Tabs, SignIn(t) PROVE TypeOK'
  <2>1. RowsOK' /\ issued' = issued + 1
    BY <1>3, RowsSignIn DEF SignIn, NewSession
  <2>2. RequestsOK'
    BY <1>0, <1>3, <2>1 DEF SignIn, RequestsOK, netVars, Refresh
  <2>3. held' \in [Tabs -> 0..issued'] /\ cookie' \in 0..issued'
    BY <1>0, <1>3, <2>1 DEF SignIn, TypeOK
  <2>4. revokes' \in SUBSET SUBSET (1..issued')
    BY <1>0, <1>3, <2>1 DEF SignIn, TypeOK, netVars
  <2> QED
    BY <1>3, <2>1, <2>2, <2>3, <2>4 DEF SignIn, TypeOK, netVars
<1>4. ASSUME NEW t \in Tabs, UserUnknown(t) \/ SignOut(t) PROVE TypeOK'
  <2>1. RowsOK' /\ RequestsOK'
    BY <1>0, <1>4 DEF RowsOK, RequestsOK, UserUnknown, SignOut, rowVars, netVars
  <2>2. held' \in [Tabs -> 0..issued] /\ held[t] \in Sess0
    BY <1>0, <1>4 DEF TypeOK, UserUnknown, SignOut, Clear
  <2>3. logouts' \in SUBSET Logout /\ events' \in 0..MaxEvents
    BY <1>0, <1>4, <2>2 DEF TypeOK, UserUnknown, SignOut, Event, Logout, netVars
  <2> QED
    BY <1>4, <2>1, <2>2, <2>3 DEF TypeOK, UserUnknown, SignOut, rowVars, netVars
<1>5. ASSUME NEW r \in refreshes, LockRow(r) PROVE TypeOK'
  <2>1. r.jti \in Sessions
    BY <1>0, <1>5 DEF LockRow, RequestsOK, Refresh
  <2>2. state[r.jti] \in States
    BY <1>0, <2>1 DEF RowsOK
  <2>3. RequestsOK'
    <3>1. r \in Refresh /\ r.jti <= issued /\ r.got <= issued
      BY <1>0 DEF RequestsOK
    <3>2. /\ [r EXCEPT !.at = "locked", !.seen = state[r.jti]] \in Refresh
          /\ [r EXCEPT !.at = "locked", !.seen = state[r.jti]].jti = r.jti
          /\ [r EXCEPT !.at = "locked", !.seen = state[r.jti]].got = r.got
      BY <2>2, <3>1 DEF Refresh
    <3> QED
      BY <1>0, <1>5, <3>1, <3>2 DEF RequestsOK, LockRow, Advance, rowVars
  <2>4. RowsOK'
    BY <1>0, <1>5 DEF RowsOK, LockRow, rowVars
  <2> QED
    BY <1>5, <2>3, <2>4 DEF TypeOK, LockRow, rowVars, tabVars
<1>6. ASSUME NEW r \in refreshes, Rotate(r) PROVE TypeOK'
  <2>1. RowsOK' /\ issued' = issued + 1 /\ issued + 1 \in Sess0 /\ r.jti \in Sessions
    BY <1>0, <1>6, RowsRotate
  <2>2. RequestsOK'
    <3> SUFFICES ASSUME NEW q \in refreshes' PROVE q \in Refresh /\ q.jti <= issued + 1 /\ q.got <= issued + 1
      BY <2>1 DEF RequestsOK
    <3>1. CASE q \in refreshes
      BY <1>0, <3>1 DEF RequestsOK, Refresh
    <3>2. CASE q = [r EXCEPT !.at = "done", !.got = issued + 1]
      <4>1. r \in Refresh /\ r.jti <= issued
        BY <1>0 DEF RequestsOK
      <4>2. q \in Refresh /\ q.jti = r.jti /\ q.got = issued + 1
        BY <2>1, <3>2, <4>1 DEF Refresh
      <4> QED
        BY <1>0, <2>1, <4>1, <4>2
    <3> QED
      BY <1>6, <3>1, <3>2 DEF Rotate, Answer, Advance
  <2>3. /\ grace' \in SUBSET Sessions
        /\ held' \in [Tabs -> 0..issued'] /\ cookie' \in 0..issued'
        /\ revokes' \in SUBSET SUBSET (1..issued')
    <3>1. /\ grace \in SUBSET Sessions /\ held \in [Tabs -> 0..issued] /\ cookie \in 0..issued
          /\ revokes \in SUBSET SUBSET (1..issued)
      BY DEF TypeOK
    <3>2. grace' = grace \cup {r.jti} /\ UNCHANGED <<held, cookie, revokes>>
      BY <1>6 DEF Rotate, tabVars
    <3>3. 0..issued \subseteq 0..issued' /\ 1..issued \subseteq 1..issued'
      BY <1>0, <2>1
    <3>4. grace' \in SUBSET Sessions /\ cookie' \in 0..issued'
      BY <2>1, <3>1, <3>2, <3>3
    <3>5. held' \in [Tabs -> 0..issued']
      BY <3>1, <3>2, <3>3
    <3>6. revokes' \in SUBSET SUBSET (1..issued')
      BY <3>1, <3>2, <3>3
    <3> QED
      BY <3>4, <3>5, <3>6
  <2> QED
    BY <1>6, <2>1, <2>2, <2>3 DEF Rotate, TypeOK, tabVars
<1>7. ASSUME NEW r \in refreshes, Reuse(r) \/ Refuse(r) PROVE TypeOK'
  <2>1. PICK g \in 0..issued : Answer(r, g)
    BY <1>7, Answered
  <2>2. RequestsOK'
    <3> SUFFICES ASSUME NEW q \in refreshes' PROVE q \in Refresh /\ q.jti <= issued /\ q.got <= issued
      BY <1>7 DEF RequestsOK, Reuse, Refuse, rowVars
    <3>1. CASE q \in refreshes
      BY <1>0, <3>1 DEF RequestsOK
    <3>2. CASE q = [r EXCEPT !.at = "done", !.got = g]
      <4>1. r \in Refresh /\ r.jti <= issued /\ g \in Sess0
        BY <1>0 DEF RequestsOK
      <4>2. q \in Refresh /\ q.jti = r.jti /\ q.got = g
        BY <3>2, <4>1 DEF Refresh
      <4> QED
        BY <1>0, <4>1, <4>2
    <3> QED
      BY <2>1, <3>1, <3>2 DEF Answer, Advance
  <2>3. RowsOK'
    BY <1>0, <1>7 DEF RowsOK, Reuse, Refuse, rowVars
  <2> QED
    BY <1>7, <2>2, <2>3 DEF TypeOK, Reuse, Refuse, rowVars, tabVars
<1>8. ASSUME NEW r \in refreshes, Refreshed(r) PROVE TypeOK'
  <2>1. r.tab \in Tabs /\ r.got \in 0..issued
    BY <1>0, <1>8 DEF Refreshed, RequestsOK, Refresh
  <2>2. RowsOK' /\ RequestsOK'
    BY <1>0, <1>8 DEF RowsOK, RequestsOK, Refreshed, rowVars
  <2> QED
    BY <1>8, <2>1, <2>2 DEF TypeOK, Refreshed, rowVars
<1>9. ASSUME NEW r \in refreshes, NotRefreshed(r) \/ LoseRefresh(r) PROVE TypeOK'
  <2>1. r \in Refresh /\ r.jti <= issued /\ r.got <= issued
    BY <1>0 DEF RequestsOK
  <2>2. RequestsOK'
    BY <1>0, <1>9, <2>1, GoneType DEF RequestsOK, NotRefreshed, LoseRefresh, Advance, rowVars
  <2>3. held' \in [Tabs -> 0..issued] /\ waiting' \in SUBSET Tabs /\ refreshing' \in SUBSET Tabs
    BY <1>0, <1>9 DEF TypeOK, NotRefreshed, LoseRefresh, NoTokens, Clear
  <2>4. RowsOK'
    BY <1>0, <1>9 DEF RowsOK, NotRefreshed, LoseRefresh, rowVars
  <2>5. events' \in 0..MaxEvents
    BY <1>0, <1>9 DEF TypeOK, NotRefreshed, LoseRefresh, Event
  <2> QED
    BY <1>9, <2>2, <2>3, <2>4, <2>5 DEF TypeOK, NotRefreshed, LoseRefresh, rowVars
<1>10. ASSUME NEW r \in refreshes, Drop(r) PROVE TypeOK'
  <2>1. RowsOK' /\ RequestsOK'
    BY <1>0, <1>10 DEF RowsOK, RequestsOK, Drop, rowVars
  <2> QED
    BY <1>10, <2>1 DEF TypeOK, Drop, rowVars, tabVars
<1>11. ASSUME (\E o \in logouts : EndSession(o)) \/ (\E ss \in revokes : RevokeRead(ss)) PROVE TypeOK'
  <2>1. UNCHANGED <<issued, login, next, grace, cookie, tabVars, refreshing, refreshes, events>>
    BY <1>11 DEF EndSession, RevokeRead
  <2>2. PICK ss \in SUBSET (1..issued) : state' = Revoked(ss)
    BY <1>11 DEF EndSession, RevokeRead, TypeOK
  <2>3. RowsOK' /\ RequestsOK'
    BY <1>0, <2>1, <2>2, RowsRevoked DEF RequestsOK
  <2>4. logouts' \in SUBSET Logout /\ revokes' \in SUBSET SUBSET (1..issued)
    BY <1>11 DEF EndSession, RevokeRead, TypeOK, Logout
  <2> QED
    BY <2>1, <2>3, <2>4 DEF TypeOK, tabVars
<1>12. ASSUME UNCHANGED <<issued, state, login, next, held, waiting, refreshing, refreshes>>,
              \/ \E o \in logouts : SignedOut(o) \/ LoseLogout(o)
              \/ \E t \in Tabs : RevokeOthers(t)
              \/ \E s \in Sessions : GraceEnds(s)
              \/ UNCHANGED vars
       PROVE  TypeOK'
  <2>1. RowsOK' /\ RequestsOK'
    BY <1>0, <1>12 DEF RowsOK, RequestsOK
  <2>2. CASE \E o \in logouts : SignedOut(o) \/ LoseLogout(o)
    <3>1. grace' = grace /\ events' = events /\ revokes' = revokes /\ cookie' \in {0, cookie}
          /\ logouts' \in SUBSET Logout
      BY <2>2 DEF SignedOut, LoseLogout, TypeOK, rowVars
    <3> QED
      BY <1>0, <1>12, <2>1, <3>1 DEF TypeOK
  <2>3. CASE \E t \in Tabs : RevokeOthers(t)
    <3>1. {s \in Sessions : state[s] = "live"} \in SUBSET (1..issued)
      BY <1>0 DEF RowsOK
    <3>2. revokes' \in SUBSET SUBSET (1..issued)
      BY <2>3, <3>1 DEF RevokeOthers, TypeOK
    <3>3. events' \in 0..MaxEvents /\ grace' = grace /\ cookie' = cookie /\ logouts' = logouts
      BY <1>0, <2>3 DEF RevokeOthers, TypeOK, Event, rowVars
    <3> QED
      BY <1>12, <2>1, <3>2, <3>3 DEF TypeOK
  <2>4. CASE \E s \in Sessions : GraceEnds(s)
    BY <1>12, <2>1, <2>4 DEF GraceEnds, TypeOK, netVars
  <2>5. CASE UNCHANGED vars
    BY <1>12, <2>1, <2>5 DEF vars, rowVars, netVars, TypeOK
  <2> QED
    BY <1>12, <2>2, <2>3, <2>4, <2>5
<1> QED
  BY <1>1, <1>2, <1>3, <1>4, <1>5, <1>6, <1>7, <1>8, <1>9, <1>10, <1>11, <1>12, Cases

-----------------------------------------------------------------------------
(* One live session per login.                                              *)

\* Nothing that has a row locked is new, and the rows are as they were.
LEMMA LocksKept ==
  ASSUME LockedAsSeen, OneLock, OneLivePerLogin, UNCHANGED <<state, login>>,
         \A q \in refreshes' : q.at = "locked" => q \in refreshes
  PROVE  LockedAsSeen' /\ OneLock' /\ OneLivePerLogin'
BY DEF LockedAsSeen, OneLock, OneLivePerLogin

\* A row that is locked is as the request has read it, so that only a live session is
\* replaced, and by one session.
LEMMA LocksStep ==
  ASSUME TypeOK, LockedAsSeen, OneLock, OneLivePerLogin, [Next]_vars
  PROVE  LockedAsSeen' /\ OneLock' /\ OneLivePerLogin'
<1>0. /\ RowsOK /\ RequestsOK /\ issued \in Nat /\ MaxSessions \in Nat
      /\ Sessions = 1..MaxSessions /\ refreshes \in SUBSET Refresh
      /\ \A r \in refreshes : r \in Refresh /\ r.jti <= issued
  BY Numbers DEF TypeOK, RequestsOK
<1>1. ASSUME NEW t \in Tabs, WaitForTokens(t) \/ RefreshNow(t)
      PROVE  LockedAsSeen' /\ OneLock' /\ OneLivePerLogin'
  <2>1. UNCHANGED <<state, login>>
    BY <1>1 DEF WaitForTokens, RefreshNow, rowVars
  <2>2. \A q \in refreshes' : q.at = "locked" => q \in refreshes
    BY <1>1 DEF WaitForTokens, RefreshNow, JoinRefresh, Request
  <2> QED
    BY <2>1, <2>2, LocksKept
<1>2. ASSUME NEW t \in Tabs, Reload(t)
      PROVE  LockedAsSeen' /\ OneLock' /\ OneLivePerLogin'
  <2>1. \A q \in refreshes' : q.at = "locked" =>
          \E r \in refreshes : /\ r.at = "locked" /\ r.jti = q.jti /\ r.seen = q.seen
                               /\ q = IF r.tab = t THEN [r EXCEPT !.tab = Gone] ELSE r
    <3> SUFFICES ASSUME NEW q \in refreshes', q.at = "locked"
                 PROVE  \E r \in refreshes :
                           /\ r.at = "locked" /\ r.jti = q.jti /\ r.seen = q.seen
                           /\ q = IF r.tab = t THEN [r EXCEPT !.tab = Gone] ELSE r
      OBVIOUS
    <3>1. q # Request(t, cookie)
      BY DEF Request
    <3>2. PICK r \in refreshes : q = IF r.tab = t THEN [r EXCEPT !.tab = Gone] ELSE r
      BY <1>2, <3>1 DEF Reload
    <3> QED
      BY <1>0, <3>2, GoneType
  <2>2. UNCHANGED <<state, login>>
    BY <1>2 DEF Reload, rowVars
  <2> QED
    BY <2>1, <2>2 DEF LockedAsSeen, OneLock, OneLivePerLogin
<1>3. ASSUME NEW t \in Tabs, SignIn(t)
      PROVE  LockedAsSeen' /\ OneLock' /\ OneLivePerLogin'
  <2>1. /\ issued + 1 \in Sessions
        /\ login'[issued + 1] = issued + 1
        /\ \A s \in Sessions : s # issued + 1 => login'[s] = login[s]
    BY <1>0, <1>3, NewSessionRow DEF SignIn
  <2>2. \A s \in Sessions : s # issued + 1 => state'[s] = state[s]
    BY <1>0, <1>3, <2>1 DEF SignIn, RowsOK
  <2>3. refreshes' = refreshes
    BY <1>3 DEF SignIn, netVars
  <2>4. LockedAsSeen'
    <3>1. \A r \in refreshes : r.jti # 0 => r.jti \in Sessions /\ r.jti # issued + 1
      BY <1>0 DEF Refresh, Sess0
    <3> QED
      BY <2>2, <2>3, <3>1 DEF LockedAsSeen
  <2>5. OneLivePerLogin'
    <3>1. ASSUME NEW s \in Sessions, s # issued + 1, state'[s] = "live" PROVE login'[s] # issued + 1
      <4>1. state[s] # "none" /\ login[s] \in 1..s /\ s <= issued
        BY <1>0, <2>2, <3>1, Row
      <4> QED
        BY <1>0, <2>1, <3>1, <4>1
    <3> QED
      BY <2>1, <2>2, <3>1 DEF OneLivePerLogin
  <2> QED
    BY <2>3, <2>4, <2>5 DEF OneLock
<1>4. ASSUME NEW t \in Tabs, UserUnknown(t) \/ SignOut(t)
      PROVE  LockedAsSeen' /\ OneLock' /\ OneLivePerLogin'
  BY <1>4, LocksKept DEF UserUnknown, SignOut, rowVars, netVars
<1>5. ASSUME NEW r \in refreshes, LockRow(r)
      PROVE  LockedAsSeen' /\ OneLock' /\ OneLivePerLogin'
  <2> DEFINE new == [r EXCEPT !.at = "locked", !.seen = state[r.jti]]
  <2>1. new.at = "locked" /\ new.jti = r.jti /\ new.seen = state[r.jti] /\ r.jti # 0
    BY <1>0, <1>5 DEF LockRow, Refresh
  <2>2. \A q \in refreshes : q.at = "locked" => q.jti # r.jti
    BY <1>5 DEF LockRow, RowLocked
  <2>3. refreshes' \subseteq refreshes \cup {new} /\ UNCHANGED <<state, login>>
    BY <1>5 DEF LockRow, Advance, rowVars
  <2> HIDE DEF new
  <2>4. LockedAsSeen'
    BY <2>1, <2>3 DEF LockedAsSeen
  <2>5. OneLock'
    BY <2>1, <2>2, <2>3 DEF OneLock
  <2> QED
    BY <2>3, <2>4, <2>5 DEF OneLivePerLogin
<1>6. ASSUME NEW r \in refreshes, Rotate(r)
      PROVE  LockedAsSeen' /\ OneLock' /\ OneLivePerLogin'
  <2>1. /\ r.jti \in Sessions /\ r.jti <= issued /\ state[r.jti] = "live"
        /\ issued + 1 \in Sessions
        /\ login'[issued + 1] = login[r.jti]
        /\ \A s \in Sessions : s # issued + 1 => login'[s] = login[s]
        /\ state'[issued + 1] = "live" /\ state'[r.jti] = "rotated"
        /\ \A s \in Sessions : s # issued + 1 /\ s # r.jti => state'[s] = state[s]
    BY <1>6, RowsRotate
  <2>2. \A q \in refreshes' : q.at = "locked" => q \in refreshes /\ q # r
    BY <1>0, <1>6 DEF Rotate, Answer, Advance, Refresh
  <2>3. OneLock'
    BY <2>2 DEF OneLock
  <2>4. LockedAsSeen'
    <3> SUFFICES ASSUME NEW q \in refreshes', q.at = "locked" PROVE q.jti # 0 /\ q.seen = state'[q.jti]
      BY DEF LockedAsSeen
    <3>1. q \in refreshes /\ q # r /\ q.jti # 0 /\ q.seen = state[q.jti] /\ q.jti <= issued
      BY <1>0, <2>2 DEF LockedAsSeen
    <3>2. q.jti # r.jti
      BY <1>6, <3>1 DEF OneLock, Rotate
    <3>3. q.jti \in Sessions /\ q.jti # issued + 1
      BY <1>0, <3>1 DEF Refresh, Sess0
    <3> QED
      BY <2>1, <3>1, <3>2, <3>3
  <2>5. OneLivePerLogin'
    <3>1. ASSUME NEW s \in Sessions, s # issued + 1, state'[s] = "live" PROVE login'[s] # login[r.jti]
      BY <2>1, <3>1 DEF OneLivePerLogin
    <3>2. ASSUME NEW s1 \in Sessions, NEW s2 \in Sessions,
                 state'[s1] = "live", state'[s2] = "live", login'[s1] = login'[s2]
          PROVE  s1 = s2
      <4>1. CASE s1 = issued + 1 \/ s2 = issued + 1
        BY <2>1, <3>1, <3>2, <4>1
      <4>2. CASE s1 # issued + 1 /\ s2 # issued + 1
        BY <2>1, <3>2, <4>2 DEF OneLivePerLogin
      <4> QED
        BY <4>1, <4>2
    <3> QED
      BY <3>2 DEF OneLivePerLogin
  <2> QED
    BY <2>3, <2>4, <2>5
<1>7. ASSUME NEW r \in refreshes, Reuse(r) \/ Refuse(r)
      PROVE  LockedAsSeen' /\ OneLock' /\ OneLivePerLogin'
  <2>1. PICK g \in 0..issued : Answer(r, g)
    BY <1>7, Answered
  <2>2. \A q \in refreshes' : q.at = "locked" => q \in refreshes
    BY <1>0, <2>1 DEF Answer, Advance, Refresh
  <2> QED
    BY <1>7, <2>2, LocksKept DEF Reuse, Refuse, rowVars
<1>8. ASSUME NEW r \in refreshes, Refreshed(r) \/ NotRefreshed(r) \/ Drop(r)
      PROVE  LockedAsSeen' /\ OneLock' /\ OneLivePerLogin'
  BY <1>8, LocksKept DEF Refreshed, NotRefreshed, Drop, rowVars
<1>9. ASSUME NEW r \in refreshes, LoseRefresh(r)
      PROVE  LockedAsSeen' /\ OneLock' /\ OneLivePerLogin'
  <2> DEFINE new == [r EXCEPT !.tab = Gone]
  <2>1. new.at = r.at /\ new.jti = r.jti /\ new.seen = r.seen
    BY <1>0, GoneType
  <2>2. refreshes' = (refreshes \ {r}) \cup {new} /\ UNCHANGED <<state, login>>
    BY <1>9 DEF LoseRefresh, Advance, rowVars
  <2> HIDE DEF new
  <2> QED
    BY <2>1, <2>2 DEF LockedAsSeen, OneLock, OneLivePerLogin
<1>10. ASSUME (\E o \in logouts : EndSession(o)) \/ (\E ss \in revokes : RevokeRead(ss))
       PROVE  LockedAsSeen' /\ OneLock' /\ OneLivePerLogin'
  <2>1. PICK ss \in SUBSET (1..issued) : state' = Revoked(ss) /\ \A s \in ss : ~RowLocked(s)
    <3>1. CASE \E o \in logouts : EndSession(o)
      <4>1. PICK o \in logouts : EndSession(o)
        BY <3>1
      <4>2. state' = Revoked({o.jti} \cap 1..issued) /\ \A s \in {o.jti} \cap 1..issued : ~RowLocked(s)
        BY <4>1 DEF EndSession
      <4> QED
        BY <4>2
    <3>2. CASE \E ss \in revokes : RevokeRead(ss)
      BY <3>2 DEF RevokeRead, TypeOK
    <3> QED
      BY <1>10, <3>1, <3>2
  <2>2. refreshes' = refreshes /\ login' = login
    BY <1>10 DEF EndSession, RevokeRead
  <2>3. \A s \in Sessions : /\ s \notin ss => state'[s] = state[s]
                            /\ s \in ss => state'[s] = "revoked"
    BY <2>1 DEF Revoked
  <2>4. LockedAsSeen'
    <3>1. \A r \in refreshes : r.at = "locked" => r.jti \in Sessions /\ r.jti \notin ss
      BY <1>0, <2>1 DEF RowLocked, LockedAsSeen, Refresh, Sess0
    <3> QED
      BY <2>2, <2>3, <3>1 DEF LockedAsSeen
  <2>5. OneLivePerLogin'
    BY <2>2, <2>3 DEF OneLivePerLogin
  <2> QED
    BY <2>2, <2>4, <2>5 DEF OneLock
<1>11. ASSUME UNCHANGED <<issued, state, login, next, held, waiting, refreshing, refreshes>>
       PROVE  LockedAsSeen' /\ OneLock' /\ OneLivePerLogin'
  BY <1>11, LocksKept
<1> QED
  BY <1>1, <1>2, <1>3, <1>4, <1>5, <1>6, <1>7, <1>8, <1>9, <1>10, <1>11, Cases

-----------------------------------------------------------------------------
(* What is in flight.                                                       *)

\* No tab, token or answer changes, and what is in flight is what was, or less of
\* what nobody waits for.
LEMMA RequestsKept ==
  ASSUME OneRequestPerWait, AnswersFollow, AsksWithNewest,
         UNCHANGED <<login, waiting, refreshing, refreshes>>,
         held' = held \/ \E t \in Tabs : Clear(t),
         held \in [Tabs -> 0..issued], refreshes \in SUBSET Refresh
  PROVE  OneRequestPerWait' /\ AnswersFollow' /\ AsksWithNewest'
<1>1. OneRequestPerWait' /\ AnswersFollow'
  BY DEF OneRequestPerWait, AnswersFollow
<1>2. \A t \in Tabs : held'[t] # 0 => held'[t] = held[t]
  BY DEF Clear
<1>3. AsksWithNewest'
  BY <1>2 DEF AsksWithNewest, Refresh
<1> QED
  BY <1>1, <1>3

\* A tab that waits has its one request, which asked with the newest token it knows.
LEMMA RequestsStep ==
  ASSUME TypeOK, LockedAsSeen, OneRequestPerWait, AnswersFollow, AsksWithNewest, [Next]_vars
  PROVE  OneRequestPerWait' /\ AnswersFollow' /\ AsksWithNewest'
<1>0. /\ RowsOK /\ RequestsOK /\ issued \in Nat /\ MaxSessions \in Nat
      /\ Sessions = 1..MaxSessions /\ Sess0 = 0..MaxSessions /\ issued <= MaxSessions
      /\ refreshes \in SUBSET Refresh /\ Gone \notin Tabs
      /\ held \in [Tabs -> 0..issued] /\ cookie \in 0..issued
      /\ \A r \in refreshes : r \in Refresh /\ r.jti \in 0..issued /\ r.got \in 0..issued
  BY SessionAssumption, Numbers DEF TypeOK, RequestsOK, Refresh
<1>1. ASSUME NEW t \in Tabs, WaitForTokens(t) \/ RefreshNow(t)
      PROVE  OneRequestPerWait' /\ AnswersFollow' /\ AsksWithNewest'
  <2> DEFINE s   == IF held[t] # 0 THEN held[t] ELSE cookie
             new == Request(t, s)
  <2>1. /\ new.tab = t /\ new.jti = s /\ new.got = 0 /\ s \in 0..issued
        /\ held[t] # 0 => s = held[t]
    BY <1>0 DEF Request
  <2>2. /\ UNCHANGED <<login, held>> /\ waiting' \subseteq waiting \cup {t}
        /\ \/ t \in refreshing /\ UNCHANGED <<refreshes, refreshing>>
           \/ /\ t \notin refreshing
              /\ refreshes' = refreshes \cup {new} /\ refreshing' = refreshing \cup {t}
    BY <1>1 DEF WaitForTokens, RefreshNow, JoinRefresh, rowVars, tabVars
  <2> HIDE DEF new, s
  <2>3. OneRequestPerWait'
    BY <1>0, <2>1, <2>2 DEF OneRequestPerWait
  <2>4. AnswersFollow'
    BY <2>1, <2>2 DEF AnswersFollow
  <2>5. AsksWithNewest'
    BY <1>0, <2>1, <2>2 DEF AsksWithNewest
  <2> QED
    BY <2>3, <2>4, <2>5
<1>2. ASSUME NEW t \in Tabs, Reload(t)
      PROVE  OneRequestPerWait' /\ AnswersFollow' /\ AsksWithNewest'
  <2> DEFINE new == Request(t, cookie)
             away(r) == [r EXCEPT !.tab = Gone]
  <2>1. new.tab = t /\ new.jti = cookie /\ new.got = 0
    BY DEF Request
  <2>2. \A r \in refreshes : away(r).tab = Gone /\ away(r).jti = r.jti /\ away(r).got = r.got
    BY <1>0, GoneType
  <2>3. /\ login' = login /\ held' = [held EXCEPT ![t] = 0]
        /\ waiting' = waiting \cup {t} /\ refreshing' = refreshing \cup {t}
        /\ refreshes' = {IF r.tab = t THEN away(r) ELSE r : r \in refreshes} \cup {new}
    BY <1>2 DEF Reload, Clear, rowVars
  <2> HIDE DEF new, away
  <2>4. \A q \in refreshes' :
          \/ q = new
          \/ q \in refreshes /\ q.tab # t
          \/ q.tab = Gone /\ \E r \in refreshes : r.jti = q.jti /\ r.got = q.got
    BY <2>2, <2>3
  <2>5. new \in refreshes' /\ \A q \in refreshes : q.tab # t => q \in refreshes'
    BY <2>3
  <2>6. OneRequestPerWait'
    BY <1>0, <2>1, <2>3, <2>4, <2>5 DEF OneRequestPerWait
  <2>7. AnswersFollow'
    BY <2>1, <2>3, <2>4 DEF AnswersFollow
  <2>8. AsksWithNewest'
    <3>1. held'[t] = 0 /\ \A u \in Tabs : u # t => held'[u] = held[u]
      BY <1>0, <2>3
    <3> QED
      BY <1>0, <2>1, <2>3, <2>4, <3>1 DEF AsksWithNewest, Refresh
  <2> QED
    BY <2>6, <2>7, <2>8
<1>3. ASSUME NEW t \in Tabs, SignIn(t)
      PROVE  OneRequestPerWait' /\ AnswersFollow' /\ AsksWithNewest'
  <2>1. /\ issued + 1 \in Sessions
        /\ login'[issued + 1] = issued + 1
        /\ \A s \in Sessions : s # issued + 1 => login'[s] = login[s]
    BY <1>0, <1>3, NewSessionRow DEF SignIn
  <2>2. UNCHANGED <<waiting, refreshing, refreshes>> /\ held' = [held EXCEPT ![t] = issued + 1]
    BY <1>3 DEF SignIn, netVars
  <2>3. \A s \in 1..issued : s \in Sessions /\ login'[s] = login[s] /\ login[s] <= issued
    <3> SUFFICES ASSUME NEW s \in 1..issued
                 PROVE  s \in Sessions /\ login'[s] = login[s] /\ login[s] <= issued
      OBVIOUS
    <3>1. s \in Sessions /\ s # issued + 1
      BY <1>0
    <3>2. login[s] \in 1..s
      BY <1>0, <3>1, Row
    <3> QED
      BY <1>0, <2>1, <3>1, <3>2
  <2>4. AnswersFollow'
    <3> SUFFICES ASSUME NEW r \in refreshes, r.got # 0
                 PROVE  r.jti # 0 /\ r.jti <= r.got /\ login'[r.got] = login'[r.jti]
      BY <2>2 DEF AnswersFollow
    <3>1. r.jti # 0 /\ r.jti <= r.got /\ login[r.got] = login[r.jti]
      BY DEF AnswersFollow
    <3>2. r.jti \in 1..issued /\ r.got \in 1..issued
      BY <1>0, <3>1
    <3> QED
      BY <2>3, <3>1, <3>2
  <2>5. AsksWithNewest'
    <3> SUFFICES ASSUME NEW r \in refreshes, r.tab # Gone, held'[r.tab] # 0, r.jti # 0,
                        login'[r.jti] = login'[held'[r.tab]]
                 PROVE  held'[r.tab] <= r.jti
      BY <2>2 DEF AsksWithNewest
    <3>1. r.tab \in Tabs /\ r.jti \in 1..issued
      BY <1>0 DEF Refresh
    <3>2. CASE r.tab = t
      BY <1>0, <2>1, <2>2, <2>3, <3>1, <3>2
    <3>3. CASE r.tab # t
      <4>1. held'[r.tab] = held[r.tab] /\ held[r.tab] \in 1..issued
        BY <1>0, <2>2, <3>1, <3>3
      <4> QED
        BY <2>3, <3>1, <4>1 DEF AsksWithNewest
    <3> QED
      BY <3>2, <3>3
  <2> QED
    BY <2>2, <2>4, <2>5 DEF OneRequestPerWait
<1>4. ASSUME NEW t \in Tabs, UserUnknown(t) \/ SignOut(t)
      PROVE  OneRequestPerWait' /\ AnswersFollow' /\ AsksWithNewest'
  BY <1>0, <1>4, RequestsKept DEF UserUnknown, SignOut, rowVars, netVars
<1>5. ASSUME NEW r \in refreshes, LockRow(r)
      PROVE  OneRequestPerWait' /\ AnswersFollow' /\ AsksWithNewest'
  <2> DEFINE new == [r EXCEPT !.at = "locked", !.seen = state[r.jti]]
  <2>1. new.tab = r.tab /\ new.jti = r.jti /\ new.got = r.got
    BY <1>0 DEF Refresh
  <2>2. /\ refreshes' = (refreshes \ {r}) \cup {new}
        /\ UNCHANGED <<login, held, waiting, refreshing>>
    BY <1>5 DEF LockRow, Advance, rowVars, tabVars
  <2> HIDE DEF new
  <2> QED
    BY <2>1, <2>2 DEF OneRequestPerWait, AnswersFollow, AsksWithNewest
<1>6. ASSUME NEW r \in refreshes, Rotate(r)
      PROVE  OneRequestPerWait' /\ AnswersFollow' /\ AsksWithNewest'
  <2> DEFINE new == [r EXCEPT !.at = "done", !.got = issued + 1]
  <2>1. new.tab = r.tab /\ new.jti = r.jti /\ new.got = issued + 1
    BY <1>0 DEF Refresh
  <2>2. /\ refreshes' = (refreshes \ {r}) \cup {new}
        /\ UNCHANGED <<held, waiting, refreshing>>
    BY <1>6 DEF Rotate, Answer, Advance, tabVars
  <2>3. /\ r.jti \in Sessions /\ r.jti <= issued
        /\ issued + 1 \in Sessions
        /\ login'[issued + 1] = login[r.jti]
        /\ \A s \in 1..issued : login'[s] = login[s]
    <3>1. \A s \in 1..issued : s \in Sessions /\ s # issued + 1
      BY <1>0
    <3> QED
      BY <1>6, <3>1, RowsRotate
  <2> HIDE DEF new
  <2>4. OneRequestPerWait'
    BY <2>1, <2>2 DEF OneRequestPerWait
  <2>5. AnswersFollow'
    <3> SUFFICES ASSUME NEW q \in refreshes', q.got # 0
                 PROVE  q.jti # 0 /\ q.jti <= q.got /\ login'[q.got] = login'[q.jti]
      BY DEF AnswersFollow
    <3>1. CASE q = new
      BY <1>0, <2>1, <2>3, <3>1
    <3>2. CASE q \in refreshes
      <4>1. q.jti # 0 /\ q.jti <= q.got /\ login[q.got] = login[q.jti]
        BY <3>2 DEF AnswersFollow
      <4>2. q.jti \in 1..issued /\ q.got \in 1..issued
        BY <1>0, <3>2, <4>1
      <4> QED
        BY <2>3, <4>1, <4>2
    <3> QED
      BY <2>2, <3>1, <3>2
  <2>6. AsksWithNewest'
    <3> SUFFICES ASSUME NEW q \in refreshes', q.tab # Gone, held[q.tab] # 0, q.jti # 0,
                        login'[q.jti] = login'[held[q.tab]]
                 PROVE  held[q.tab] <= q.jti
      BY <2>2 DEF AsksWithNewest
    <3>1. PICK p \in refreshes : p.tab = q.tab /\ p.jti = q.jti
      BY <2>1, <2>2
    <3>2. q.tab \in Tabs /\ q.jti \in 1..issued /\ held[q.tab] \in 1..issued
      BY <1>0, <3>1 DEF Refresh
    <3>3. login[q.jti] = login[held[q.tab]]
      BY <2>3, <3>2
    <3> QED
      BY <3>1, <3>3 DEF AsksWithNewest
  <2> QED
    BY <2>4, <2>5, <2>6
<1>7. ASSUME NEW r \in refreshes, Reuse(r) \/ Refuse(r)
      PROVE  OneRequestPerWait' /\ AnswersFollow' /\ AsksWithNewest'
  <2>1. PICK g \in 0..issued : Answer(r, g) /\ (g # 0 => r.jti \in Sessions /\ r.jti < g /\ login[g] = login[r.jti])
    BY <1>7, Answered
  <2> DEFINE new == [r EXCEPT !.at = "done", !.got = g]
  <2>2. new.tab = r.tab /\ new.jti = r.jti /\ new.got = g
    BY <1>0 DEF Refresh
  <2>3. /\ refreshes' = (refreshes \ {r}) \cup {new}
        /\ UNCHANGED <<login, held, waiting, refreshing>>
    BY <1>7, <2>1 DEF Reuse, Refuse, Answer, Advance, rowVars, tabVars
  <2> HIDE DEF new
  <2>4. OneRequestPerWait' /\ AsksWithNewest'
    BY <2>2, <2>3 DEF OneRequestPerWait, AsksWithNewest
  <2>5. AnswersFollow'
    BY <1>0, <2>1, <2>2, <2>3 DEF AnswersFollow
  <2> QED
    BY <2>4, <2>5
<1>8. ASSUME NEW r \in refreshes, Refreshed(r)
      PROVE  OneRequestPerWait' /\ AnswersFollow' /\ AsksWithNewest'
  <2>1. /\ r.tab \in Tabs /\ refreshes' = refreshes \ {r} /\ login' = login
        /\ held' = [held EXCEPT ![r.tab] = r.got]
        /\ waiting' = waiting \ {r.tab} /\ refreshing' = refreshing \ {r.tab}
    BY <1>0, <1>8 DEF Refreshed, Refresh, rowVars
  <2>2. \A q \in refreshes' : q.tab # r.tab
    BY <1>0, <2>1 DEF OneRequestPerWait
  <2>3. OneRequestPerWait' /\ AnswersFollow'
    BY <1>0, <2>1, <2>2 DEF OneRequestPerWait, AnswersFollow
  <2>4. AsksWithNewest'
    BY <1>0, <2>1, <2>2 DEF AsksWithNewest, Refresh
  <2> QED
    BY <2>3, <2>4
<1>9. ASSUME NEW r \in refreshes, NotRefreshed(r) \/ LoseRefresh(r)
      PROVE  OneRequestPerWait' /\ AnswersFollow' /\ AsksWithNewest'
  <2> DEFINE new == [r EXCEPT !.tab = Gone]
  <2>1. new.tab = Gone /\ new.jti = r.jti /\ new.got = r.got
    BY <1>0, GoneType
  <2>2. /\ r.tab \in Tabs /\ login' = login
        /\ held' = held \/ Clear(r.tab)
        /\ waiting' = waiting \ {r.tab} /\ refreshing' = refreshing \ {r.tab}
        /\ refreshes' \ {new} = refreshes \ {r, new}
    BY <1>0, <1>9 DEF NotRefreshed, LoseRefresh, NoTokens, Advance, Refresh, rowVars
  <2> HIDE DEF new
  <2>3. \A q \in refreshes' : q = new \/ (q \in refreshes /\ q # r)
    BY <2>2
  <2>4. \A q \in refreshes : q.tab \in Tabs /\ q # r => q \in refreshes'
    BY <1>0, <2>1, <2>2
  <2>5. OneRequestPerWait'
    BY <1>0, <2>1, <2>2, <2>3, <2>4 DEF OneRequestPerWait, Refresh
  <2>6. AnswersFollow'
    BY <2>1, <2>2, <2>3 DEF AnswersFollow
  <2>7. AsksWithNewest'
    <3>1. \A u \in Tabs : held'[u] # 0 => held'[u] = held[u]
      BY <1>0, <2>2 DEF Clear
    <3> QED
      BY <1>0, <2>1, <2>2, <2>3, <3>1 DEF AsksWithNewest, Refresh
  <2> QED
    BY <2>5, <2>6, <2>7
<1>10. ASSUME NEW r \in refreshes, Drop(r)
       PROVE  OneRequestPerWait' /\ AnswersFollow' /\ AsksWithNewest'
  BY <1>0, <1>10 DEF Drop, rowVars, tabVars, OneRequestPerWait, AnswersFollow, AsksWithNewest
<1>11. ASSUME (\E o \in logouts : EndSession(o)) \/ (\E ss \in revokes : RevokeRead(ss))
       PROVE  OneRequestPerWait' /\ AnswersFollow' /\ AsksWithNewest'
  BY <1>0, <1>11, RequestsKept DEF EndSession, RevokeRead, tabVars
<1>12. ASSUME UNCHANGED <<issued, state, login, next, held, waiting, refreshing, refreshes>>
       PROVE  OneRequestPerWait' /\ AnswersFollow' /\ AsksWithNewest'
  BY <1>0, <1>12, RequestsKept
<1> QED
  BY <1>1, <1>2, <1>3, <1>4, <1>5, <1>6, <1>7, <1>8, <1>9, <1>10, <1>11, <1>12, Cases

-----------------------------------------------------------------------------
(* The theorems.                                                            *)

\* The strengthening is an invariant.
THEOREM Invariance == Spec => []IInv
<1>1. IInv /\ [Next]_vars => IInv'
  BY TypeStep, LocksStep, RequestsStep DEF IInv
<1> QED
  BY InitIInv, <1>1, PTL DEF Spec

\* Rows, tokens, requests and answers are what auth.py and auth.service.ts keep.
THEOREM TypeCorrect == Spec => []TypeOK
BY Invariance, PTL DEF IInv

\* However many tabs refresh at once, a login never has two live sessions.
THEOREM LoginsHaveOneSession == Spec => []OneLivePerLogin
BY Invariance, PTL DEF IInv

\* A tab waits for a request that is under way, and has one only.
THEOREM WaitsAreServed == Spec => []OneRequestPerWait
BY Invariance, PTL DEF IInv

\* A late answer never puts an older token of the login back into a tab.
THEOREM NewerTokensOnly == Spec => TokensNeverGoBack
<1> DEFINE Forward ==
      \A t \in Tabs :
        held[t] # 0 /\ held'[t] # 0 /\ login'[held'[t]] = login[held[t]] => held'[t] >= held[t]
<1>1. ASSUME IInv, [Next]_vars PROVE Forward
  <2>0. /\ RowsOK /\ issued \in Nat /\ MaxSessions \in Nat /\ Sessions = 1..MaxSessions
        /\ issued <= MaxSessions /\ held \in [Tabs -> 0..issued] /\ Gone \notin Tabs
        /\ \A r \in refreshes : r.jti \in 0..issued /\ r.got \in 0..issued /\ r.tab \in Tabs \cup {Gone}
    BY <1>1, SessionAssumption, Numbers DEF IInv, TypeOK, RequestsOK, Refresh, Sess0
  <2>1. ASSUME NEW t \in Tabs, SignIn(t) PROVE Forward
    <3>1. held' = [held EXCEPT ![t] = issued + 1]
      BY <2>1 DEF SignIn
    <3> QED
      BY <2>0, <3>1
  <2>2. ASSUME NEW r \in refreshes, Refreshed(r) PROVE Forward
    <3>1. /\ r.tab \in Tabs /\ r.got # 0 /\ login' = login
          /\ held' = [held EXCEPT ![r.tab] = r.got]
      BY <2>0, <2>2 DEF Refreshed, rowVars
    <3>2. r.jti # 0 /\ r.jti <= r.got /\ login[r.got] = login[r.jti]
      BY <1>1, <3>1 DEF IInv, AnswersFollow
    <3>3. held[r.tab] # 0 /\ login[r.got] = login[held[r.tab]] => held[r.tab] <= r.jti
      BY <1>1, <2>0, <3>1, <3>2 DEF IInv, AsksWithNewest
    <3> QED
      BY <2>0, <3>1, <3>2, <3>3
  <2>3. CASE held' = held \/ \E t \in Tabs : Clear(t)
    BY <2>0, <2>3 DEF Clear
  <2>4. \/ \E t \in Tabs : SignIn(t)
        \/ \E r \in refreshes : Refreshed(r)
        \/ held' = held \/ \E t \in Tabs : Clear(t)
    <3>1. ASSUME NEW r \in refreshes, NotRefreshed(r) \/ LoseRefresh(r)
          PROVE  held' = held \/ \E t \in Tabs : Clear(t)
      BY <2>0, <3>1 DEF NotRefreshed, LoseRefresh, NoTokens
    <3>2. ASSUME NEW t \in Tabs, WaitForTokens(t) \/ RefreshNow(t) \/ Reload(t) \/ UserUnknown(t) \/ SignOut(t)
          PROVE  held' = held \/ \E u \in Tabs : Clear(u)
      BY <3>2 DEF WaitForTokens, RefreshNow, Reload, UserUnknown, SignOut, tabVars
    <3>3. ASSUME NEW r \in refreshes, LockRow(r) \/ Rotate(r) \/ Reuse(r) \/ Refuse(r) \/ Drop(r)
          PROVE  held' = held
      BY <3>3 DEF LockRow, Rotate, Reuse, Refuse, Drop, tabVars
    <3>4. ASSUME (\E o \in logouts : EndSession(o)) \/ (\E ss \in revokes : RevokeRead(ss))
          PROVE  held' = held
      BY <3>4 DEF EndSession, RevokeRead, tabVars
    <3> QED
      BY <1>1, <3>1, <3>2, <3>3, <3>4, Cases
  <2> QED
    BY <2>1, <2>2, <2>3, <2>4
<1>2. IInv /\ [Next]_vars => [Forward]_vars
  BY <1>1
<1> QED
  BY Invariance, <1>2, PTL DEF Spec, TokensNeverGoBack

-----------------------------------------------------------------------------
(* The sessions implement Logins.                                           *)

\* Neither what a login is nor whether it is open depends on anything else.
LEMMA StatusOf ==
  ASSUME NEW l \in Sessions
  PROVE  /\ LoginStatus[l] = "none" <=> state[l] = "none" \/ login[l] # l
         /\ LoginStatus[l] = "open" <=> state[l] # "none" /\ login[l] = l /\ Live(l) # {}
         /\ LoginStatus[l] \in {"none", "open", "closed"}
BY DEF LoginStatus

\* Signing in opens a login.
LEMMA StatusSignIn ==
  ASSUME IInv, NEW t \in Tabs, SignIn(t)
  PROVE  \E l \in Sessions : Account!Open(l)
<1>0. /\ RowsOK /\ issued \in Nat /\ MaxSessions \in Nat /\ Sessions = 1..MaxSessions
  BY Numbers DEF IInv, TypeOK
<1>1. PICK n \in Sessions : /\ n = issued + 1
                            /\ login' = [login EXCEPT ![n] = n]
                            /\ state' = [state EXCEPT ![n] = "live"]
  BY <1>0, NewSessionRow DEF SignIn, NewSession
<1>2. /\ state[n] = "none"
      /\ state'[n] = "live" /\ \A s \in Sessions : s # n => state'[s] = state[s]
      /\ login'[n] = n /\ \A s \in Sessions : s # n => login'[s] = login[s]
  BY <1>0, <1>1 DEF RowsOK
<1>3. \A l \in Sessions : l # n => Live(l)' = Live(l)
  BY <1>1, <1>2 DEF Live
<1>4. n \in Live(n)'
  BY <1>1, <1>2 DEF Live
<1>5. ASSUME NEW l \in Sessions
      PROVE  LoginStatus'[l] = IF l = n THEN "open" ELSE LoginStatus[l]
  <2>1. CASE l = n
    BY <1>2, <1>4, <2>1 DEF LoginStatus
  <2>2. CASE l # n
    BY <1>2, <1>3, <2>2 DEF LoginStatus
  <2> QED
    BY <2>1, <2>2
<1>6. LoginStatus[n] = "none"
  BY <1>2 DEF LoginStatus
<1>7. LoginStatus' = [LoginStatus EXCEPT ![n] = "open"]
  BY <1>5 DEF LoginStatus
<1> QED
  BY <1>1, <1>6, <1>7 DEF Account!Open

\* A rotation replaces the one live session of a login by another.
LEMMA StatusRotate ==
  ASSUME IInv, NEW r \in refreshes, Rotate(r)
  PROVE  LoginStatus' = LoginStatus
<1>0. /\ RowsOK /\ issued \in Nat /\ MaxSessions \in Nat /\ Sessions = 1..MaxSessions
  BY Numbers DEF IInv, TypeOK
<1>1. /\ r.jti \in Sessions /\ r.jti <= issued /\ state[r.jti] = "live"
      /\ issued + 1 \in Sessions
      /\ login'[issued + 1] = login[r.jti]
      /\ \A s \in Sessions : s # issued + 1 => login'[s] = login[s]
      /\ state'[issued + 1] = "live" /\ state'[r.jti] = "rotated"
      /\ \A s \in Sessions : s # issued + 1 /\ s # r.jti => state'[s] = state[s]
  BY RowsRotate DEF IInv
<1>2. /\ state[issued + 1] = "none"
      /\ login[r.jti] \in 1..r.jti /\ login[r.jti] # issued + 1
  BY <1>0, <1>1, Row
<1>3. ASSUME NEW l \in Sessions PROVE (Live(l)' # {}) <=> (Live(l) # {})
  <2>1. CASE l = login[r.jti]
    BY <1>1, <2>1 DEF Live
  <2>2. CASE l # login[r.jti]
    <3>1. Live(l)' = Live(l)
      BY <1>1, <1>2, <2>2 DEF Live
    <3> QED
      BY <3>1
  <2> QED
    BY <2>1, <2>2
<1>4. ASSUME NEW l \in Sessions
      PROVE  (state'[l] = "none" \/ login'[l] # l) <=> (state[l] = "none" \/ login[l] # l)
  <2>1. CASE l = issued + 1
    BY <1>1, <1>2, <2>1
  <2>2. CASE l # issued + 1
    BY <1>1, <2>2
  <2> QED
    BY <2>1, <2>2
<1> QED
  BY <1>3, <1>4 DEF LoginStatus

\* Revoking sessions closes the logins whose live session is among them.
LEMMA StatusRevoke ==
  ASSUME IInv, NEW ss \in SUBSET (1..issued), state' = Revoked(ss), login' = login
  PROVE  \E ls \in SUBSET Sessions : Account!Close(ls)
<1>0. /\ RowsOK /\ issued \in Nat /\ MaxSessions \in Nat /\ Sessions = 1..MaxSessions
      /\ issued <= MaxSessions
  BY Numbers DEF IInv, TypeOK
<1>1. ASSUME NEW s \in Sessions
      PROVE  /\ state'[s] = "none" <=> state[s] = "none"
             /\ state'[s] = "live" => state[s] = "live"
  BY <1>0, <1>1, Row DEF Revoked
<1>2. \A l \in Sessions : Live(l)' \subseteq Live(l)
  BY <1>1 DEF Live
<1> DEFINE ls == {l \in Sessions : LoginStatus[l] = "open" /\ LoginStatus'[l] # "open"}
<1>3. ASSUME NEW l \in Sessions
      PROVE  LoginStatus'[l] = IF l \in ls THEN "closed" ELSE LoginStatus[l]
  BY <1>1, <1>2 DEF LoginStatus
<1>4. LoginStatus' = [l \in Sessions |-> IF l \in ls THEN "closed" ELSE LoginStatus[l]]
  BY <1>3 DEF LoginStatus
<1>5. \A l \in ls : LoginStatus[l] = "open"
  OBVIOUS
<1> HIDE DEF ls
<1>6. ls \in SUBSET Sessions
  BY DEF ls
<1> QED
  BY <1>4, <1>5, <1>6 DEF Account!Close

\* Every behaviour of the tabs and the server is one of Logins: a closed login
\* is never opened again.
THEOREM ImplementsLogins == Spec => LoginSpec
<1>1. Init => Account!Init
  BY DEF Init, Account!Init, LoginStatus
<1>2. ASSUME IInv, [Next]_vars PROVE [Account!Next]_LoginStatus
  <2>1. ASSUME UNCHANGED <<state, login>> PROVE LoginStatus' = LoginStatus
    BY <2>1 DEF LoginStatus, Live
  <2>2. CASE \E t \in Tabs : SignIn(t)
    BY <1>2, <2>2, StatusSignIn DEF Account!Next
  <2>3. CASE \E r \in refreshes : Rotate(r)
    BY <1>2, <2>3, StatusRotate
  <2>4. CASE (\E o \in logouts : EndSession(o)) \/ (\E ss \in revokes : RevokeRead(ss))
    <3>1. login' = login
      BY <2>4 DEF EndSession, RevokeRead
    <3>2. PICK ss \in SUBSET (1..issued) : state' = Revoked(ss)
      BY <1>2, <2>4 DEF EndSession, RevokeRead, IInv, TypeOK
    <3> QED
      BY <1>2, <3>1, <3>2, StatusRevoke DEF Account!Next
  <2>5. ASSUME NEW r \in refreshes,
               LockRow(r) \/ Reuse(r) \/ Refuse(r) \/ Refreshed(r) \/ NotRefreshed(r) \/ LoseRefresh(r) \/ Drop(r)
        PROVE  UNCHANGED <<state, login>>
    BY <2>5 DEF LockRow, Reuse, Refuse, Refreshed, NotRefreshed, LoseRefresh, Drop, rowVars
  <2>6. ASSUME NEW t \in Tabs, WaitForTokens(t) \/ RefreshNow(t) \/ Reload(t) \/ UserUnknown(t) \/ SignOut(t)
        PROVE  UNCHANGED <<state, login>>
    BY <2>6 DEF WaitForTokens, RefreshNow, Reload, UserUnknown, SignOut, rowVars
  <2> QED
    BY <1>2, <2>1, <2>2, <2>3, <2>4, <2>5, <2>6, Cases
<1> QED
  BY Invariance, <1>1, <1>2, PTL DEF Spec, LoginSpec, Account!Spec

-----------------------------------------------------------------------------
(* Both parts together: MCBrowser, the specification that TLC checks.       *)

Manager == INSTANCE CmsEditorProofs

\* The two instances of CmsEditor are the same formulas.
LEMMA SameEditor ==
  /\ Editor!Init <=> Manager!Init
  /\ Editor!Next <=> Manager!Next
  /\ Editor!vars = Manager!vars
  /\ Editor!vars' = Manager!vars'
  /\ Editor!TypeOK <=> Manager!TypeOK
  /\ Editor!AutosaveKeepsUp <=> Manager!AutosaveKeepsUp
  /\ Editor!EditorAssumption <=> Manager!EditorAssumption
<1>1. /\ Editor!AutosaveKeepsUp <=> Manager!AutosaveKeepsUp
      /\ Editor!EditorAssumption <=> Manager!EditorAssumption
      /\ Editor!vars = Manager!vars
      /\ Editor!vars' = Manager!vars'
  BY DEF Editor!AutosaveKeepsUp, Manager!AutosaveKeepsUp, Editor!EditorAssumption,
         Manager!EditorAssumption, Editor!vars, Manager!vars, Editor!editorVars,
         Manager!editorVars
<1>2. /\ Editor!Draft = Manager!Draft /\ Editor!NoDraft = Manager!NoDraft
      /\ Editor!Request = Manager!Request /\ Editor!Free = Manager!Free
      /\ Editor!Requests = Manager!Requests /\ Editor!Versions = Manager!Versions
      /\ Editor!Content0 = Manager!Content0 /\ Editor!LoadRequest = Manager!LoadRequest
  BY DEF Editor!Draft, Manager!Draft, Editor!NoDraft, Manager!NoDraft,
         Editor!Request, Manager!Request, Editor!Free, Manager!Free,
         Editor!Requests, Manager!Requests, Editor!Versions, Manager!Versions,
         Editor!Content0, Manager!Content0, Editor!LoadRequest, Manager!LoadRequest
<1>3. (Editor!Init <=> Manager!Init) /\ (Editor!TypeOK <=> Manager!TypeOK)
  BY <1>2 DEF Editor!Init, Manager!Init, Editor!TypeOK, Manager!TypeOK, Editor!SendAll,
         Manager!SendAll, Editor!Lowest, Manager!Lowest
<1>4. ASSUME NEW c \in Contents
      PROVE  (Editor!Type(c) <=> Manager!Type(c)) /\ (Editor!OtherSaves(c) <=> Manager!OtherSaves(c))
  BY <1>2 DEF Editor!Type, Manager!Type, Editor!OtherSaves, Manager!OtherSaves,
         Editor!Busy, Manager!Busy, Editor!Edit, Manager!Edit, Editor!vars,
         Manager!vars, Editor!editorVars, Manager!editorVars
<1>5. /\ Editor!Poll <=> Manager!Poll
      /\ Editor!CommitTimer <=> Manager!CommitTimer
      /\ Editor!Undo <=> Manager!Undo
      /\ Editor!Redo <=> Manager!Redo
      /\ Editor!Restore <=> Manager!Restore
      /\ Editor!Dismiss <=> Manager!Dismiss
      /\ Editor!Save <=> Manager!Save
      /\ Editor!LeaveAndReturn <=> Manager!LeaveAndReturn
      /\ Editor!Reload <=> Manager!Reload
  BY <1>2 DEF Editor!Poll, Manager!Poll, Editor!CommitTimer, Manager!CommitTimer,
         Editor!Undo, Manager!Undo, Editor!Redo, Manager!Redo, Editor!Restore,
         Manager!Restore, Editor!Dismiss, Manager!Dismiss, Editor!Save,
         Manager!Save, Editor!LeaveAndReturn, Manager!LeaveAndReturn, Editor!Reload,
         Manager!Reload, Editor!Visit, Manager!Visit, Editor!Orphan, Manager!Orphan,
         Editor!With, Manager!With, Editor!Trim, Manager!Trim, Editor!Keep,
         Manager!Keep, Editor!InitFromServer, Manager!InitFromServer,
         Editor!CommitNow, Manager!CommitNow, Editor!CommitPending,
         Manager!CommitPending, Editor!Observe, Manager!Observe, Editor!StepBack,
         Manager!StepBack, Editor!StepForward, Manager!StepForward,
         Editor!MarkServerSaved, Manager!MarkServerSaved, Editor!Offered,
         Manager!Offered, Editor!Becomes, Manager!Becomes, Editor!Lowest,
         Manager!Lowest, Editor!SendAll, Manager!SendAll, Editor!Edit, Manager!Edit,
         Editor!vars, Manager!vars, Editor!editorVars, Manager!editorVars
<1>6. ASSUME NEW i \in Editor!Requests
      PROVE  /\ Editor!AnswerLoad(i) <=> Manager!AnswerLoad(i)
             /\ Editor!ReadBlock(i) <=> Manager!ReadBlock(i)
             /\ Editor!WriteBlock(i) <=> Manager!WriteBlock(i)
             /\ Editor!AnswerSave(i) <=> Manager!AnswerSave(i)
             /\ Editor!Fail(i) <=> Manager!Fail(i)
             /\ Editor!Loaded(i) <=> Manager!Loaded(i)
             /\ Editor!NotLoaded(i) <=> Manager!NotLoaded(i)
             /\ Editor!Saved(i) <=> Manager!Saved(i)
             /\ Editor!Conflict(i) <=> Manager!Conflict(i)
             /\ Editor!NotSaved(i) <=> Manager!NotSaved(i)
             /\ Editor!LeftAnswered(i) <=> Manager!LeftAnswered(i)
             /\ Editor!Unheard(i) <=> Manager!Unheard(i)
  BY <1>2 DEF Editor!AnswerLoad, Manager!AnswerLoad, Editor!ReadBlock, Manager!ReadBlock,
         Editor!WriteBlock, Manager!WriteBlock, Editor!AnswerSave,
         Manager!AnswerSave, Editor!Fail, Manager!Fail, Editor!Loaded,
         Manager!Loaded, Editor!NotLoaded, Manager!NotLoaded, Editor!Saved,
         Manager!Saved, Editor!Conflict, Manager!Conflict, Editor!NotSaved,
         Manager!NotSaved, Editor!LeftAnswered, Manager!LeftAnswered,
         Editor!Unheard, Manager!Unheard, Editor!Answer, Manager!Answer,
         Editor!Ends, Manager!Ends, Editor!Busy, Manager!Busy, Editor!Done,
         Manager!Done, Editor!Show, Manager!Show, Editor!With, Manager!With,
         Editor!Trim, Manager!Trim, Editor!Keep, Manager!Keep,
         Editor!InitFromServer, Manager!InitFromServer, Editor!CommitNow,
         Manager!CommitNow, Editor!CommitPending, Manager!CommitPending,
         Editor!MarkServerSaved, Manager!MarkServerSaved, Editor!Becomes,
         Manager!Becomes, Editor!Edit, Manager!Edit, Editor!Orphan, Manager!Orphan,
         Editor!Lowest, Manager!Lowest, Editor!SendAll, Manager!SendAll,
         Editor!editorVars, Manager!editorVars, Editor!vars, Manager!vars
<1> QED
  BY <1>1, <1>2, <1>3, <1>4, <1>5, <1>6 DEF Editor!Next, Manager!Next

\* A behaviour of MCBrowser is one of AuthSession and one of CmsEditor.
THEOREM PartsAreSpecs == BrowserSpec => Spec /\ Manager!Spec
<1>1. BrowserInit => Init /\ Manager!Init
  BY SameEditor DEF BrowserInit
<1>2. UNCHANGED editorVars <=> UNCHANGED Editor!vars
  BY DEF editorVars, Editor!vars, Editor!editorVars
<1>3. [BrowserNext]_<<part, vars, editorVars>> => [Next]_vars /\ [Editor!Next]_(Editor!vars)
  BY <1>2 DEF BrowserNext
<1>4. [Editor!Next]_(Editor!vars) => [Manager!Next]_(Manager!vars)
  BY SameEditor
<1> QED
  BY <1>1, <1>3, <1>4, PTL DEF BrowserSpec, Spec, Manager!Spec

\* The types of CmsEditor, of the run
THEOREM EditorTypeCorrect == BrowserSpec => []EditorTypeOK
<1>1. Manager!Spec => []Manager!TypeOK
  BY Manager!TypeCorrect, EditorBounds, SameEditor
<1>2. Manager!TypeOK => EditorTypeOK
  BY SameEditor DEF EditorTypeOK
<1> QED
  BY <1>1, <1>2, PartsAreSpecs, PTL

\* AutosaveKeepsUp of the run: what the page calls unsaved is in the storage.
THEOREM AutosaveInBrowser == BrowserSpec => []AutosaveKeepsUp
<1>1. Manager!Spec => []Manager!AutosaveKeepsUp
  BY Manager!UnsavedIsStored, EditorBounds, SameEditor
<1>2. Manager!AutosaveKeepsUp => AutosaveKeepsUp
  BY SameEditor DEF AutosaveKeepsUp
<1> QED
  BY <1>1, <1>2, PartsAreSpecs, PTL

\* NothingUnseenReplaced of the run: a save replaces only a version the page has seen.
THEOREM SeenInBrowser == BrowserSpec => NothingUnseenReplaced
<1>1. Manager!Spec => Manager!NothingUnseenReplaced
  BY Manager!OnlySeenIsReplaced, EditorBounds, SameEditor
<1>2. [\A i \in Manager!Requests :
         req[i].at = "read" /\ req[i].version # 0 /\ block'.version # block.version /\ ~mixed'
           => block.version \in shown]_(Manager!vars)
      => [\A i \in Editor!Requests :
            req[i].at = "read" /\ req[i].version # 0 /\ block'.version # block.version /\ ~mixed'
              => block.version \in shown]_(Editor!vars)
  BY SameEditor DEF Editor!Requests, Manager!Requests
<1> QED
  BY <1>1, <1>2, PartsAreSpecs, PTL DEF NothingUnseenReplaced, Editor!NothingUnseenReplaced,
     Manager!NothingUnseenReplaced

=============================================================================
