------------------------------ MODULE Sessions ------------------------------
(***************************************************************************)
(* A browser's session: the tabs (frontend/src/api/client.js and           *)
(* context/AuthContext.jsx), the cookie they share and the table of        *)
(* refresh tokens behind /auth/login and /auth/refresh (auth_routes.py).   *)
(* Every login and every refresh issues a pair, an access token for the    *)
(* tab that asked and a refresh token for the cookie; number n stands for  *)
(* both.  A refresh token works once: /auth/refresh deletes it and adds    *)
(* the next one.  An API call that is answered 401 waits for a refresh and *)
(* is repeated; the calls of a tab share one refresh (_refreshLock).       *)
(* handleLogout tells the server nothing: /auth/logout is never called.    *)
(***************************************************************************)
EXTENDS Integers, Sequences

CONSTANTS
    Tab,        \* tabs of the browser
    Call,       \* API calls a tab has under way at once
    MaxIssued,  \* bound: pairs issued before the last login or call
    MaxLost     \* bound: refreshes whose answer does not arrive

ASSUME BoundsAssumption == MaxIssued \in Nat /\ MaxLost \in Nat

VARIABLES
    login,      \* the login that each pair issued so far descends from
    live,       \* the rows of refresh_tokens
    oldAccess,  \* the access tokens up to this one have expired
    oldRefresh, \* the refresh tokens up to this one have expired
    cookie,     \* tickertap_refresh
    stored,     \* tickertap_token in the sessionStorage of a tab
    state,      \* authToken, the React state of a tab
    call,       \* the API calls of a tab
    refresh,    \* the POST /auth/refresh that a call has started
    account,    \* the user's row: active, paused (deactivated or to be
                \* deleted), disabled, or gone
    lost,       \* how many answers were lost
    broken,     \* history: the logins that lost the answer of a refresh
    barred      \* history: the logins refused because of the account

server == <<login, live>>
world == <<oldAccess, oldRefresh, account>>
tab == <<stored, state>>
failures == <<lost, broken, barred>>
vars == <<server, world, cookie, tab, call, refresh, failures>>

Idle == [pc |-> "idle", token |-> 0]
None == [pc |-> "none", sent |-> 0, new |-> 0]

issued == Len(login)

Init ==
    /\ login = <<>> /\ live = {}
    /\ oldAccess = 0 /\ oldRefresh = 0
    /\ cookie = 0
    /\ stored = [t \in Tab |-> 0]
    /\ state = [t \in Tab |-> 0]
    /\ call = [t \in Tab |-> [c \in Call |-> Idle]]
    /\ refresh = [t \in Tab |-> [c \in Call |-> None]]
    /\ account = "active"
    /\ lost = 0 /\ broken = {} /\ barred = {}

Refreshing(t) == {c \in Call : refresh[t][c].pc # "none"}

-----------------------------------------------------------------------------
(* The user.                                                               *)

\* handleLogin: the answer brings the access token and sets the cookie.
Login(t) ==
    /\ state[t] = 0
    /\ issued < MaxIssued
    /\ account \in {"active", "paused"}
    /\ login' = Append(login, issued + 1)
    /\ live' = live \cup {issued'}
    /\ cookie' = issued'
    /\ stored' = [stored EXCEPT ![t] = issued']
    /\ state' = [state EXCEPT ![t] = issued']
    /\ UNCHANGED <<world, call, refresh, failures>>

\* handleLogout, asked for or after five idle minutes.
Logout(t) ==
    /\ state[t] # 0
    /\ stored' = [stored EXCEPT ![t] = 0]
    /\ state' = [state EXCEPT ![t] = 0]
    /\ UNCHANGED <<server, world, cookie, call, refresh, failures>>

\* A page calls the API with the token of the React state.
Send(t, c) ==
    /\ state[t] # 0 /\ issued < MaxIssued
    /\ call[t][c].pc = "idle"
    /\ call' = [call EXCEPT ![t][c] = [pc |-> "sent", token |-> state[t]]]
    /\ UNCHANGED <<server, world, cookie, tab, refresh, failures>>

-----------------------------------------------------------------------------
(* apiFetch.                                                               *)

\* The answer is not 401 (the token was accepted, or the network failed).
Answered(t, c) ==
    /\ call[t][c].pc \in {"sent", "retried"}
    /\ call' = [call EXCEPT ![t][c] = Idle]
    /\ UNCHANGED <<server, world, cookie, tab, refresh, failures>>

\* The repeated call has any other answer than success: session-expired.
RetryFails(t, c) ==
    /\ call[t][c].pc = "retried"
    /\ call' = [call EXCEPT ![t][c] = Idle]
    /\ stored' = [stored EXCEPT ![t] = 0]
    /\ state' = [state EXCEPT ![t] = 0]
    /\ UNCHANGED <<server, world, cookie, refresh, failures>>

\* Variant: no _refreshLock, every call refreshes for itself.
UnauthorizedNoLock(t, c) ==
    /\ call[t][c].pc = "sent"
    /\ call[t][c].token <= oldAccess \/ account # "active"
    /\ refresh[t][c].pc = "none"
    /\ call' = [call EXCEPT ![t][c] = [pc |-> "waiting", token |-> call[t][c].token]]
    /\ refresh' = [refresh EXCEPT ![t][c] = [pc |-> "sent", sent |-> cookie, new |-> 0]]
    /\ UNCHANGED <<server, world, cookie, tab, failures>>

\* 401, for the token or for the account: the call waits for the tab's
\* refresh and starts it if there is none.
Unauthorized(t, c) ==
    /\ call[t][c].pc = "sent"
    /\ call[t][c].token <= oldAccess \/ account # "active"
    /\ call' = [call EXCEPT ![t][c] = [pc |-> "waiting", token |-> call[t][c].token]]
    /\ refresh' = IF Refreshing(t) # {} THEN refresh
                  ELSE [refresh EXCEPT ![t][c] = [pc |-> "sent", sent |-> cookie, new |-> 0]]
    /\ UNCHANGED <<server, world, cookie, tab, failures>>

\* What the waiting calls of a tab do when the refresh has ended.
Wake(t, waiting) ==
    call' = [call EXCEPT ![t] = [c \in Call |->
                IF call[t][c].pc = "waiting" THEN waiting ELSE call[t][c]]]

\* Variant: only the call that started the refresh goes on.
RefreshedOne(t, c) ==
    /\ refresh[t][c].pc = "granted"
    /\ cookie' = refresh[t][c].new
    /\ stored' = [stored EXCEPT ![t] = refresh[t][c].new]
    /\ refresh' = [refresh EXCEPT ![t][c] = None]
    /\ call' = [call EXCEPT ![t][c] = [pc |-> "retried", token |-> refresh[t][c].new]]
    /\ UNCHANGED <<server, world, state, failures>>

\* The new token goes to sessionStorage, not to the React state; the calls
\* that waited are repeated with it.
Refreshed(t, c) ==
    /\ refresh[t][c].pc = "granted"
    /\ cookie' = refresh[t][c].new
    /\ stored' = [stored EXCEPT ![t] = refresh[t][c].new]
    /\ refresh' = [refresh EXCEPT ![t][c] = None]
    /\ Wake(t, [pc |-> "retried", token |-> refresh[t][c].new])
    /\ UNCHANGED <<server, world, state, failures>>

\* The session-expired event of a call that waited: handleLogout.
Expel(t) ==
    /\ stored' = [stored EXCEPT ![t] = 0]
    /\ state' = [state EXCEPT ![t] = 0]
    /\ Wake(t, Idle)

Refused(t, c) ==
    /\ refresh[t][c].pc = "refused"
    /\ refresh' = [refresh EXCEPT ![t][c] = None]
    /\ Expel(t)
    /\ UNCHANGED <<server, world, cookie, failures>>

\* The page is loaded anew: the React state starts from sessionStorage.
Restart(t) ==
    /\ state' = [state EXCEPT ![t] = stored[t]]
    /\ call' = [call EXCEPT ![t] = [c \in Call |-> Idle]]
    /\ UNCHANGED stored

Reload(t) ==
    /\ Refreshing(t) = {}
    /\ Restart(t)
    /\ UNCHANGED <<server, world, cookie, refresh, failures>>

\* The answer of a refresh is lost, whether or not the server has rotated the
\* token: the network or the server fails, which is taken for a refusal, or the
\* page is loaded anew.
Lose(t, c) ==
    /\ refresh[t][c].pc \in {"sent", "granted", "refused"}
    /\ lost < MaxLost
    /\ lost' = lost + 1
    /\ broken' = broken \cup {login[n] : n \in {refresh[t][c].sent} \ {0}}
    /\ refresh' = [refresh EXCEPT ![t][c] = None]
    /\ Expel(t) \/ Restart(t)
    /\ UNCHANGED <<server, world, cookie, barred>>

-----------------------------------------------------------------------------
(* POST /auth/refresh: the SELECTs of the token and its user, then DELETE   *)
(* and INSERT with one COMMIT.                                             *)

Find(t, c) ==
    /\ refresh[t][c].pc = "sent"
    /\ refresh[t][c].sent \in live
    /\ refresh[t][c].sent > oldRefresh
    /\ refresh' = [refresh EXCEPT ![t][c] =
            [pc |-> IF account \in {"active", "paused"} THEN "found" ELSE "barred",
             sent |-> refresh[t][c].sent, new |-> 0]]
    /\ UNCHANGED <<server, world, cookie, tab, call, failures>>

\* The user is disabled or gone: the row is deleted all the same.
Bar(t, c) ==
    /\ refresh[t][c].pc = "barred"
    /\ live' = live \ {refresh[t][c].sent}
    /\ barred' = barred \cup {login[refresh[t][c].sent]}
    /\ refresh' = [refresh EXCEPT ![t][c] =
            [pc |-> "refused", sent |-> refresh[t][c].sent, new |-> 0]]
    /\ UNCHANGED <<login, world, cookie, tab, call, lost, broken>>

\* No such row, or an expired one, which is deleted.
Refuse(t, c) ==
    /\ refresh[t][c].pc = "sent"
    /\ \/ refresh[t][c].sent \notin live
       \/ refresh[t][c].sent <= oldRefresh
    /\ live' = live \ {refresh[t][c].sent}
    /\ refresh' = [refresh EXCEPT ![t][c] =
            [pc |-> "refused", sent |-> refresh[t][c].sent, new |-> 0]]
    /\ UNCHANGED <<login, world, cookie, tab, call, failures>>

\* Variant: the old token stays.
RotateKeep(t, c) ==
    /\ refresh[t][c].pc = "found" /\ account # "gone"
    /\ login' = Append(login, login[refresh[t][c].sent])
    /\ live' = live \cup {issued'}
    /\ refresh' = [refresh EXCEPT ![t][c] =
            [pc |-> "granted", sent |-> refresh[t][c].sent, new |-> issued']]
    /\ UNCHANGED <<world, cookie, tab, call, failures>>

\* A DELETE that finds its row gone is only a warning.
Rotate(t, c) ==
    /\ refresh[t][c].pc = "found" /\ account # "gone"
    /\ login' = Append(login, login[refresh[t][c].sent])
    /\ live' = (live \ {refresh[t][c].sent}) \cup {issued'}
    /\ refresh' = [refresh EXCEPT ![t][c] =
            [pc |-> "granted", sent |-> refresh[t][c].sent, new |-> issued']]
    /\ UNCHANGED <<world, cookie, tab, call, failures>>

\* The new row would belong to a user who is gone: the answer is 500.
RotateFails(t, c) ==
    /\ refresh[t][c].pc = "found" /\ account = "gone"
    /\ refresh' = [refresh EXCEPT ![t][c] =
            [pc |-> "refused", sent |-> refresh[t][c].sent, new |-> 0]]
    /\ UNCHANGED <<server, world, cookie, tab, call, failures>>

-----------------------------------------------------------------------------
(* Other requests change the row of the user.                              *)

AccountChanges ==
    /\ \/ account = "active" /\ account' \in {"paused", "disabled"}
       \/ account \in {"paused", "disabled"} /\ account' = "active"
    /\ UNCHANGED <<server, oldAccess, oldRefresh, cookie, tab, call, refresh, failures>>

\* The rows of refresh_tokens go with it.
AccountDeleted ==
    /\ account # "gone"
    /\ account' = "gone"
    /\ live' = {}
    /\ barred' = barred \cup {login[n] : n \in 1 .. issued}
    /\ UNCHANGED <<login, oldAccess, oldRefresh, cookie, tab, call, refresh, lost, broken>>

-----------------------------------------------------------------------------
(* Time.  An access token outlives the repetition it was fetched for.      *)

InUse(n) ==
    \E t \in Tab, c \in Call :
        \/ call[t][c] = [pc |-> "retried", token |-> n]
        \/ refresh[t][c].pc = "granted" /\ refresh[t][c].new = n

ExpireAccess ==
    /\ oldAccess < issued
    /\ ~InUse(oldAccess + 1)
    /\ oldAccess' = oldAccess + 1
    /\ UNCHANGED <<server, oldRefresh, account, cookie, tab, call, refresh, failures>>

ExpireRefresh ==
    /\ oldRefresh < oldAccess
    /\ oldRefresh' = oldRefresh + 1
    /\ UNCHANGED <<server, oldAccess, account, cookie, tab, call, refresh, failures>>

-----------------------------------------------------------------------------

User(t) == Login(t) \/ Logout(t) \/ Reload(t) \/ \E c \in Call : Send(t, c)

\* What follows without anybody's doing.
Progress(t, c) ==
    \/ Answered(t, c) \/ RetryFails(t, c) \/ Unauthorized(t, c)
    \/ Refreshed(t, c) \/ Refused(t, c)
    \/ Find(t, c) \/ Refuse(t, c) \/ Bar(t, c)
    \/ Rotate(t, c) \/ RotateFails(t, c)

Next ==
    \/ \E t \in Tab : User(t)
    \/ \E t \in Tab, c \in Call : Progress(t, c) \/ Lose(t, c)
    \/ ExpireAccess \/ ExpireRefresh
    \/ AccountChanges \/ AccountDeleted

Spec == Init /\ [][Next]_vars

\* Browser and server go on with what is under way.
Fairness == \A t \in Tab, c \in Call : WF_vars(Progress(t, c))

FairSpec == Spec /\ Fairness

-----------------------------------------------------------------------------
(* Properties.                                                             *)

CallState == [pc : {"idle", "sent", "waiting", "retried"}, token : Nat]

RefreshState ==
    [pc : {"none", "sent", "found", "barred", "granted", "refused"}, sent : Nat, new : Nat]

\* A pair descends from a login no later than itself.
LoginsOK == login \in Seq(Nat) /\ \A n \in 1 .. issued : login[n] \in 1 .. n

TokensOK ==
    /\ live \subseteq 1 .. issued
    /\ oldAccess \in 0 .. issued /\ oldRefresh \in 0 .. oldAccess
    /\ cookie \in 0 .. issued
    /\ account \in {"active", "paused", "disabled", "gone"}
    /\ lost \in 0 .. MaxLost
    /\ broken \subseteq 1 .. issued /\ barred \subseteq 1 .. issued

TabsOK ==
    /\ stored \in [Tab -> Nat] /\ state \in [Tab -> Nat]
    /\ call \in [Tab -> [Call -> CallState]]
    /\ refresh \in [Tab -> [Call -> RefreshState]]

RefreshesOK == \A t \in Tab, c \in Call :
    /\ refresh[t][c].sent <= issued /\ refresh[t][c].new <= issued
    /\ refresh[t][c].pc \in {"found", "barred"} => refresh[t][c].sent # 0

\* A call never waits for nothing.
WaitingOK == \A t \in Tab, c \in Call : call[t][c].pc = "waiting" => Refreshing(t) # {}

TypeOK == LoginsOK /\ TokensOK /\ TabsOK /\ RefreshesOK /\ WaitingOK

\* A refresh is refused only when the refresh token has expired, an earlier
\* answer of the same session was lost or the account was disabled or deleted:
\* the calls of a tab never present a token twice (client.js:22-25).
RefusalsTrue ==
    \A t \in Tab, c \in Call : refresh[t][c].pc = "refused" =>
        \/ refresh[t][c].sent <= oldRefresh
        \/ login[refresh[t][c].sent] \in broken \cup barred

\* Rotation replaces: of the refresh tokens that descend from one login at
\* most one can be used, unless an answer was lost.
ChainsSingle ==
    \A m, n \in live : login[m] = login[n] /\ login[m] \notin broken => m = n

\* An API call is answered, or gives up, in the end.
CallsSettle ==
    \A t \in Tab, c \in Call : call[t][c].pc # "idle" ~> call[t][c].pc = "idle"
=============================================================================
