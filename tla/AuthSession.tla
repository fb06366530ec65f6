---------------------------- MODULE AuthSession ----------------------------
(***************************************************************************)
(* The sign-in state of the tabs of one browser and the refresh sessions   *)
(* of one account behind it.                                               *)
(*                                                                         *)
(* A tab keeps its tokens in memory only (core/auth.service.ts); the tabs  *)
(* share one refresh cookie.  A tab asks for new tokens when a call comes  *)
(* back 401 (core/http.interceptor.ts), when a guard, the start of the     *)
(* application or a focus wants the session confirmed, and from the        *)
(* account page.  It has at most one such request in flight, shared by all *)
(* who wait for it.  The server (api/v1/auth.py) rotates: the session of   *)
(* the presented token is revoked and replaced by a new one, under the     *)
(* lock of its row, and for a grace period the old token still yields      *)
(* tokens of the replacement.                                              *)
(*                                                                         *)
(* Sessions are numbered in the order they are created, 0 is no session    *)
(* or no token.  Left out: impersonation, other accounts in the same       *)
(* browser, the expiry of a refresh session after days, a deployment with  *)
(* refresh_token_rotation off.  A definition introduced as a slip is a     *)
(* plausible mistake in the one that follows it, not the model.            *)
(***************************************************************************)
EXTENDS Integers

CONSTANTS
  Tabs,         \* the tabs of the browser
  Gone,         \* the page that sent a request has been reloaded
  MaxSessions,  \* bound on the refresh sessions created
  MaxEvents     \* bound on sign-outs, revocations, reloads and lost refreshes

ASSUME SessionAssumption ==
  Gone \notin Tabs /\ MaxSessions \in Nat /\ MaxEvents \in Nat

Sessions == 1..MaxSessions
Sess0    == 0..MaxSessions

VARIABLES
  issued,      \* how many sessions were created
  state,       \* state[s]: none, live, rotated, or revoked for another reason
  login,       \* login[s]: the session that was created by signing in
  next,        \* next[s]: replaced_by_jti, 0 when there is none
  grace,       \* the rotated sessions whose grace period has not passed
  cookie,      \* the session of the refresh cookie
  held,        \* held[t]: the session of the tokens in the tab's memory
  waiting,     \* the tabs where a guard or a refused call waits for new tokens
  refreshing,  \* the tabs with refreshInFlight set
  refreshes,   \* the POST /auth/refresh under way
  logouts,     \* the POST /auth/logout under way
  revokes,     \* the revoke-others that have read the sessions to revoke
  events       \* how many sign-outs, revocations, reloads and losses

rowVars == <<issued, state, login, next, grace>>
tabVars == <<held, waiting>>
netVars == <<refreshing, refreshes, logouts, revokes>>
vars    == <<rowVars, cookie, tabVars, netVars, events>>

States == {"none", "live", "rotated", "revoked"}

Refresh == [tab : Tabs \cup {Gone}, jti : Sess0, at : {"sent", "locked", "done"},
            seen : States, got : Sess0]
Logout  == [jti : Sess0, at : {"sent", "done"}]

RowsOK ==
  /\ issued \in Sess0
  /\ state \in [Sessions -> States]
  /\ login \in [Sessions -> Sess0]
  /\ next \in [Sessions -> Sess0]
  /\ \A s \in Sessions :
       /\ state[s] = "none" <=> s > issued
       /\ state[s] = "none" => login[s] = 0
       /\ state[s] # "none" => login[s] \in 1..s
       /\ next[s] # 0 => s < next[s] /\ next[s] <= issued /\ login[next[s]] = login[s]

RequestsOK ==
  /\ refreshes \in SUBSET Refresh
  /\ \A r \in refreshes : r.jti <= issued /\ r.got <= issued

TypeOK ==
  /\ RowsOK /\ RequestsOK
  /\ grace \in SUBSET Sessions
  /\ cookie \in 0..issued
  /\ held \in [Tabs -> 0..issued]
  /\ waiting \in SUBSET Tabs /\ refreshing \in SUBSET Tabs
  /\ logouts \in SUBSET Logout
  /\ revokes \in SUBSET SUBSET (1..issued)
  /\ events \in 0..MaxEvents

Init ==
  /\ issued = 0
  /\ state = [s \in Sessions |-> "none"]
  /\ login = [s \in Sessions |-> 0]
  /\ next = [s \in Sessions |-> 0]
  /\ grace = {}
  /\ cookie = 0
  /\ held = [t \in Tabs |-> 0]
  /\ waiting = {} /\ refreshing = {}
  /\ refreshes = {} /\ logouts = {} /\ revokes = {}
  /\ events = 0

Event ==
  /\ events < MaxEvents
  /\ events' = events + 1

-----------------------------------------------------------------------------
(* The tab asks for new tokens.                                             *)

Request(t, s) == [tab |-> t, jti |-> s, at |-> "sent", seen |-> "none", got |-> 0]

\* Slip: a caller does not look whether a refresh is in flight.
JoinRefreshAlways(t) ==
  /\ refreshes' = refreshes \cup {Request(t, IF held[t] # 0 THEN held[t] ELSE cookie)}
  /\ refreshing' = refreshing \cup {t}

\* refresh(): share the request in flight, or send one with the token of the
\* tab, and without one leave it to the cookie.
JoinRefresh(t) ==
  IF t \in refreshing
  THEN UNCHANGED <<refreshes, refreshing>>
  ELSE /\ refreshes' = refreshes \cup {Request(t, IF held[t] # 0 THEN held[t] ELSE cookie)}
       /\ refreshing' = refreshing \cup {t}

\* ensureAuthenticated(), for a guard, the start of the application or a focus,
\* finds no usable access token; or the interceptor finds a call refused with 401
\* although the tab has tokens.  Both wait for new ones.  The access token may
\* have expired at any time: clocks are not modelled.
WaitForTokens(t) ==
  /\ waiting' = waiting \cup {t}
  /\ JoinRefresh(t)
  /\ UNCHANGED <<rowVars, cookie, held, logouts, revokes, events>>

\* The "refresh session" button of the account page.
RefreshNow(t) ==
  /\ held[t] # 0
  /\ JoinRefresh(t)
  /\ UNCHANGED <<rowVars, cookie, tabVars, logouts, revokes, events>>

\* clearSession().  A refresh in flight is neither cancelled nor forgotten, and
\* who waits for it goes on waiting.
Clear(t) == held' = [held EXCEPT ![t] = 0]

\* ensureAuthenticated() has asked for the user, GET /auth/me, and failed.
UserUnknown(t) ==
  /\ held[t] # 0
  /\ Clear(t)
  /\ UNCHANGED <<rowVars, cookie, waiting, netVars, events>>

-----------------------------------------------------------------------------
(* The server refreshes: refresh_tokens.                                    *)

Advance(r, q) == refreshes' = (refreshes \ {r}) \cup {q}
Answer(r, s)  == Advance(r, [r EXCEPT !.at = "done", !.got = s])

RowLocked(s) == \E r \in refreshes : r.at = "locked" /\ r.jti = s

\* Slip: the row is read without FOR UPDATE.
ReadRow(r) ==
  /\ r.at = "sent" /\ r.jti # 0
  /\ Advance(r, [r EXCEPT !.at = "locked", !.seen = state[r.jti]])
  /\ UNCHANGED <<rowVars, cookie, tabVars, refreshing, logouts, revokes, events>>

\* SELECT ... FOR UPDATE of the row of the token, from the body or the cookie.
LockRow(r) ==
  /\ r.at = "sent" /\ r.jti # 0 /\ ~RowLocked(r.jti)
  /\ Advance(r, [r EXCEPT !.at = "locked", !.seen = state[r.jti]])
  /\ UNCHANGED <<rowVars, cookie, tabVars, refreshing, logouts, revokes, events>>

NewSession(s, l) ==
  /\ s = issued + 1 /\ s \in Sessions
  /\ issued' = s
  /\ login' = [login EXCEPT ![s] = l]

\* Slip: the replacement is made to point to the session it replaces.
RotateBackwards(r) ==
  /\ r.at = "locked" /\ r.seen = "live"
  /\ NewSession(issued + 1, login[r.jti])
  /\ state' = [state EXCEPT ![r.jti] = "rotated", ![issued + 1] = "live"]
  /\ next' = [next EXCEPT ![issued + 1] = r.jti]
  /\ grace' = grace \cup {r.jti}
  /\ Answer(r, issued + 1)
  /\ UNCHANGED <<cookie, tabVars, refreshing, logouts, revokes, events>>

\* Slip: it is not looked at whether the session is revoked.
RotateRevoked(r) ==
  /\ r.at = "locked"
  /\ NewSession(issued + 1, login[r.jti])
  /\ state' = [state EXCEPT ![r.jti] = "rotated", ![issued + 1] = "live"]
  /\ next' = [next EXCEPT ![r.jti] = issued + 1]
  /\ grace' = grace \cup {r.jti}
  /\ Answer(r, issued + 1)
  /\ UNCHANGED <<cookie, tabVars, refreshing, logouts, revokes, events>>

\* The session is live: replace it.
Rotate(r) ==
  /\ r.at = "locked" /\ r.seen = "live"
  /\ NewSession(issued + 1, login[r.jti])
  /\ state' = [state EXCEPT ![r.jti] = "rotated", ![issued + 1] = "live"]
  /\ next' = [next EXCEPT ![r.jti] = issued + 1]
  /\ grace' = grace \cup {r.jti}
  /\ Answer(r, issued + 1)
  /\ UNCHANGED <<cookie, tabVars, refreshing, logouts, revokes, events>>

\* It was replaced a moment ago, and the replacement is live: tokens for that.
Reuse(r) ==
  /\ r.at = "locked" /\ r.seen = "rotated"
  /\ r.jti \in grace /\ next[r.jti] # 0 /\ state[next[r.jti]] = "live"
  /\ Answer(r, next[r.jti])
  /\ UNCHANGED <<rowVars, cookie, tabVars, refreshing, logouts, revokes, events>>

\* No token; or the session is revoked or unknown, the account is locked,
\* deleted or has to reset its password, or the database fails.
Refuse(r) ==
  /\ r.at = "locked" \/ (r.at = "sent" /\ r.jti = 0)
  /\ Answer(r, 0)
  /\ UNCHANGED <<rowVars, cookie, tabVars, refreshing, logouts, revokes, events>>

GraceEnds(s) ==
  /\ s \in grace
  /\ grace' = grace \ {s}
  /\ UNCHANGED <<issued, state, login, next, cookie, tabVars, netVars, events>>

-----------------------------------------------------------------------------
(* The answer reaches the tab, or does not.                                 *)

\* Slip: refreshInFlight is reset by a success only.
NoTokensStillInFlight(t) ==
  /\ IF t \in waiting THEN Clear(t) ELSE UNCHANGED held
  /\ waiting' = waiting \ {t}
  /\ UNCHANGED refreshing

\* The refresh ends without tokens.  A waiting guard and a waiting call both sign
\* the tab out; the button only reports it.
NoTokens(t) ==
  /\ IF t \in waiting THEN Clear(t) ELSE UNCHANGED held
  /\ waiting' = waiting \ {t}
  /\ refreshing' = refreshing \ {t}

\* setTokens(): the waiting call is sent again, the guard asks for the user.
Refreshed(r) ==
  /\ r.at = "done" /\ r.tab # Gone /\ r.got # 0
  /\ cookie' = r.got
  /\ held' = [held EXCEPT ![r.tab] = r.got]
  /\ waiting' = waiting \ {r.tab}
  /\ refreshing' = refreshing \ {r.tab}
  /\ refreshes' = refreshes \ {r}
  /\ UNCHANGED <<rowVars, logouts, revokes, events>>

NotRefreshed(r) ==
  /\ r.at = "done" /\ r.tab # Gone /\ r.got = 0
  /\ NoTokens(r.tab)
  /\ refreshes' = refreshes \ {r}
  /\ UNCHANGED <<rowVars, cookie, logouts, revokes, events>>

\* Slip: the tab gives up waiting, and takes an answer that comes after all.
LoseRefreshButListen(r) ==
  /\ Event
  /\ r.tab # Gone
  /\ NoTokens(r.tab)
  /\ UNCHANGED <<rowVars, cookie, refreshes, logouts, revokes>>

\* The connection breaks.  The server may go on with the request.
LoseRefresh(r) ==
  /\ Event
  /\ r.tab # Gone
  /\ NoTokens(r.tab)
  /\ Advance(r, [r EXCEPT !.tab = Gone])
  /\ UNCHANGED <<rowVars, cookie, logouts, revokes>>

\* Nobody is there for the answer, or the request never arrived.
Drop(r) ==
  /\ r.tab = Gone /\ r.at # "locked"
  /\ refreshes' = refreshes \ {r}
  /\ UNCHANGED <<rowVars, cookie, tabVars, refreshing, logouts, revokes, events>>

-----------------------------------------------------------------------------
(* Signing in and out.                                                      *)

\* login() and persist(); the request and its answer in one step.
SignIn(t) ==
  /\ held[t] = 0
  /\ NewSession(issued + 1, issued + 1)
  /\ state' = [state EXCEPT ![issued + 1] = "live"]
  /\ cookie' = issued + 1
  /\ held' = [held EXCEPT ![t] = issued + 1]
  /\ UNCHANGED <<next, grace, waiting, netVars, events>>

\* logout() forgets the tokens and then tells the server.
SignOut(t) ==
  /\ Event
  /\ held[t] # 0
  /\ Clear(t)
  /\ logouts' = logouts \cup {[jti |-> held[t], at |-> "sent"]}
  /\ UNCHANGED <<rowVars, cookie, waiting, refreshing, refreshes, revokes>>

Revoked(ss) == [s \in Sessions |-> IF s \in ss THEN "revoked" ELSE state[s]]

\* revoke_refresh_token: the row of the token, also when it has been rotated.
\* Its UPDATE waits for the lock of the row.
EndSession(o) ==
  /\ o.at = "sent" /\ ~RowLocked(o.jti)
  /\ state' = Revoked({o.jti} \cap 1..issued)
  /\ logouts' = (logouts \ {o}) \cup {[o EXCEPT !.at = "done"]}
  /\ UNCHANGED <<issued, login, next, grace, cookie, tabVars, refreshing, refreshes, revokes, events>>

\* The answer deletes the cookie, whichever it is by now.
SignedOut(o) ==
  /\ o.at = "done"
  /\ cookie' = 0
  /\ logouts' = logouts \ {o}
  /\ UNCHANGED <<rowVars, tabVars, refreshing, refreshes, revokes, events>>

LoseLogout(o) ==
  /\ logouts' = logouts \ {o}
  /\ UNCHANGED <<rowVars, cookie, tabVars, refreshing, refreshes, revokes, events>>

\* The session of the cookie, or of the access token, or its replacement.
CurrentSession(t) ==
  LET s == IF cookie # 0 THEN cookie ELSE held[t]
  IN IF s = 0 THEN 0
     ELSE IF state[s] = "live" THEN s
     ELSE IF next[s] # 0 /\ state[next[s]] = "live" THEN next[s] ELSE 0

\* revoke_other_sessions finds the current session and reads the live ones.  The
\* current session may be rotated between the two: its replacement is revoked too.
RevokeOthers(t) ==
  /\ Event
  /\ held[t] # 0
  /\ CurrentSession(t) # 0
  /\ \E s \in {CurrentSession(t)} \cup {q \in Sessions : next[q] = CurrentSession(t)} :
       revokes' = revokes \cup {{q \in Sessions : state[q] = "live"} \ {s}}
  /\ UNCHANGED <<rowVars, cookie, tabVars, refreshing, refreshes, logouts>>

\* ... and revokes those it has read.
RevokeRead(ss) ==
  /\ \A s \in ss : ~RowLocked(s)
  /\ state' = Revoked(ss)
  /\ revokes' = revokes \ {ss}
  /\ UNCHANGED <<issued, login, next, grace, cookie, tabVars, refreshing, refreshes, logouts, events>>

-----------------------------------------------------------------------------
(* A page is loaded again.                                                  *)

\* The page is loaded anew: memory is lost, and the application starts with
\* ensureAuthenticated and the cookie.
Reload(t) ==
  /\ Event
  /\ Clear(t)
  /\ waiting' = waiting \cup {t}
  /\ refreshing' = refreshing \cup {t}
  /\ refreshes' = {IF r.tab = t THEN [r EXCEPT !.tab = Gone] ELSE r : r \in refreshes}
                    \cup {Request(t, cookie)}
  /\ UNCHANGED <<rowVars, cookie, logouts, revokes>>

-----------------------------------------------------------------------------
Next ==
  \/ \E t \in Tabs :
       \/ WaitForTokens(t) \/ RefreshNow(t) \/ UserUnknown(t)
       \/ SignIn(t) \/ SignOut(t) \/ RevokeOthers(t) \/ Reload(t)
  \/ \E r \in refreshes :
       \/ LockRow(r) \/ Rotate(r) \/ Reuse(r) \/ Refuse(r)
       \/ Refreshed(r) \/ NotRefreshed(r) \/ LoseRefresh(r) \/ Drop(r)
  \/ \E o \in logouts : EndSession(o) \/ SignedOut(o) \/ LoseLogout(o)
  \/ \E ss \in revokes : RevokeRead(ss)
  \/ \E s \in Sessions : GraceEnds(s)

Spec == Init /\ [][Next]_vars

-----------------------------------------------------------------------------
(* Properties.                                                              *)

Live(l) == {s \in Sessions : state[s] = "live" /\ login[s] = l}

\* "Lock the refresh session row during rotation to make concurrent refreshes
\* multi-tab safe": however the tabs refresh, sign out and reload, a login has
\* one live session, so revoking it ends the login.
OneLivePerLogin ==
  \A s1, s2 \in Sessions :
    state[s1] = "live" /\ state[s2] = "live" /\ login[s1] = login[s2] => s1 = s2

\* A login is opened by signing in and, once it has no live session, stays
\* closed: no refresh in flight, retried or in its grace period revives it.
LoginStatus ==
  [l \in Sessions |-> IF state[l] = "none" \/ login[l] # l THEN "none"
                      ELSE IF Live(l) # {} THEN "open" ELSE "closed"]

Account   == INSTANCE Logins WITH Ids <- Sessions, status <- LoginStatus
LoginSpec == Account!Spec

\* The tokens of a tab are replaced by newer ones of the login, never by an
\* older answer that comes late.
TokensNeverGoBack ==
  [][\A t \in Tabs :
       held[t] # 0 /\ held'[t] # 0 /\ login'[held'[t]] = login[held[t]]
         => held'[t] >= held[t]]_vars

\* Nobody waits for nothing: a tab that waits has one request under way to wait
\* for, and no second one whose answer would be an older one.
OneRequestPerWait ==
  /\ waiting \subseteq refreshing
  /\ \A t \in Tabs : t \in refreshing <=> \E r \in refreshes : r.tab = t
  /\ \A r, q \in refreshes : r.tab = q.tab /\ r.tab # Gone => r = q

=============================================================================
