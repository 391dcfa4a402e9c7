---------------------------- MODULE TokenRefresh ----------------------------
(***************************************************************************)
(* The login that the tabs of one browser share (react-ui, src/auth):      *)
(* refresh.ts, tokenStore.ts, fetchWithRefresh.ts and AuthProvider.tsx,    *)
(* over the rotating refresh tokens of the api-server (auth.go,            *)
(* refresh_tokens.go).  Password logins only: the mode without logins, in  *)
(* which there are no refresh tokens, is left out.                         *)
(*                                                                         *)
(* A refresh token and the access token issued with it are one number, the *)
(* row of the former in refresh_tokens; 0 is no token.  Tokens age in the  *)
(* order they were issued.  Local storage is shared by the tabs; a message *)
(* on the BroadcastChannel reaches the other tabs, each in its own time,   *)
(* and never the tab that posts it.                                        *)
(***************************************************************************)
EXTENDS FiniteSets, Naturals, Sequences, SequencesExt

CONSTANTS
    Tabs,
    MaxTokens,   \* bound: rows of refresh_tokens
    MaxFetches, MaxLogouts, MaxFaults  \* bounds

ASSUME BoundsAssumption ==
    /\ MaxTokens \in Nat \ {0}
    /\ MaxFetches \in Nat /\ MaxLogouts \in Nat /\ MaxFaults \in Nat

VARIABLES
    rows,      \* refresh_tokens
    ending,    \* access tokens 1..ending are to expire within a minute or two
    expired,   \* access tokens 1..expired are past their time
    store,     \* the tokens in local storage
    react,     \* the access token in a tab's AuthProvider state
    refresh,   \* doRefresh while it runs: one in a tab
    inbox,     \* auth messages on their way to a tab
    request,   \* a request of a tab to the api-server
    modal,     \* the login modal of a tab, and whether requireAuth polls
    logout,    \* logout while it runs
    fetches, logouts, faults,  \* bounded counters
    ended,     \* history: logins that were logged out
    harm       \* history: what has happened that a property excepts

serverVars == <<rows, ending, expired>>
authVars == <<serverVars, store, react, refresh, inbox, request, modal, logout,
              fetches, logouts, faults, ended, harm>>

Tokens == 1..MaxTokens
NoToken == 0
Row == [state : {"active", "revoked", "lapsed"}, login : Tokens]
NotRefreshing == [at |-> "none", old |-> NoToken, new |-> NoToken]
NoRequest == [at |-> "idle", token |-> NoToken]
NoLogout == [at |-> "idle", token |-> NoToken]
AuthRequired == NoToken  \* the message that carries no tokens

AuthHarms == {"raced", "lost", "server error", "lapsed", "crossed",
              "unrevoked", "cut short", "old news"}

AuthTypeOK ==
    /\ rows \in Seq(Row) /\ Len(rows) \in Tokens
    /\ ending \in 0..Len(rows) /\ expired \in 0..ending
    /\ store \in 0..Len(rows)
    /\ react \in [Tabs -> 0..Len(rows)]
    /\ \A t \in Tabs :
         /\ refresh[t].at \in {"none", "waiting", "sent", "answered",
                               "refused", "failed"}
         /\ (refresh[t].at = "none") <=> (refresh[t] = NotRefreshing)
         /\ refresh[t].new # NoToken <=> refresh[t].at = "answered"
         /\ ToSet(inbox[t]) \subseteq 0..Len(rows)
         /\ request[t].at \in {"idle", "refreshing", "sent", "renewing",
                               "resent"}
         /\ request[t].at \in {"refreshing", "renewing"}
              => refresh[t].at # "none"
         /\ modal[t] \in {"closed", "open", "polling"}
         /\ logout[t].at \in {"idle", "sent", "done"}
    /\ ended \subseteq Tokens
    /\ harm \subseteq AuthHarms

\* willExpireSoon, which is also asked when there is a token.
ExpiresSoon == store <= ending

\* What ParseToken accepts; a request without a token is not accepted.
Accepts(token) == token > expired

IsActive(i) == rows[i].state = "active"
Revoke(S) ==
    [i \in DOMAIN rows |->
       IF i \in S /\ IsActive(i) THEN [rows[i] EXCEPT !.state = "revoked"]
       ELSE rows[i]]

\* The rows replaced_by_id leads to from i, and i: a row is replaced once, so
\* the rows of a login form one chain.
Chain(i) == {j \in i..Len(rows) : rows[j].login = rows[i].login}

\* A logout and a refresh run at the same time.
Crossing ==
    /\ \E t \in Tabs : logout'[t].at # "idle"
    /\ \E t \in Tabs : refresh'[t].at # "none"
Note(S) == harm' = harm \cup S \cup {h \in {"crossed"} : Crossing}

\* One login, stored and shown by every tab.
AuthInit ==
    /\ rows = <<[state |-> "active", login |-> 1]>>
    /\ ending = 0 /\ expired = 0
    /\ store = 1
    /\ react = [t \in Tabs |-> 1]
    /\ refresh = [t \in Tabs |-> NotRefreshing]
    /\ inbox = [t \in Tabs |-> <<>>]
    /\ request = [t \in Tabs |-> NoRequest]
    /\ modal = [t \in Tabs |-> "closed"]
    /\ logout = [t \in Tabs |-> NoLogout]
    /\ fetches = 0 /\ logouts = 0 /\ faults = 0
    /\ ended = {} /\ harm = {}
-----------------------------------------------------------------------------
\* refreshTokens: joins the refresh of the tab, or starts one, which waits for
\* news of a sibling's.
Refreshing(t) ==
    IF refresh[t].at # "none" THEN refresh
    ELSE [refresh EXCEPT ![t] =
            [at |-> "waiting", old |-> store, new |-> NoToken]]

\* The interval and the visibility handler of AuthProvider.
MaybeRefresh(t) ==
    /\ store # NoToken /\ ExpiresSoon
    /\ refresh[t].at = "none"
    /\ refresh' = Refreshing(t)
    /\ UNCHANGED <<serverVars, store, react, inbox, request, modal, logout,
                   fetches, logouts, faults, ended>>
    /\ Note({})

\* The token a request carries: the stored one, else the one HttpClient was
\* configured with.
Carried(t) == IF store # NoToken THEN store ELSE react[t]

\* attemptWithRefresh up to its first await.
Fetch(t) ==
    /\ fetches < MaxFetches
    /\ request[t].at = "idle"
    /\ fetches' = fetches + 1
    /\ IF store # NoToken /\ ExpiresSoon
       THEN /\ request' = [request EXCEPT ![t] =
                             [at |-> "refreshing", token |-> NoToken]]
            /\ refresh' = Refreshing(t)
       ELSE /\ request' = [request EXCEPT ![t] =
                             [at |-> "sent", token |-> Carried(t)]]
            /\ UNCHANGED refresh
    /\ UNCHANGED <<serverVars, store, react, inbox, modal, logout, logouts,
                   faults, ended>>
    /\ Note({})

\* An answer that is handed to the caller: accepted, or to the one retry.
Served(t) ==
    /\ \/ request[t].at = "sent" /\ Accepts(request[t].token)
       \/ request[t].at = "resent"
    /\ request' = [request EXCEPT ![t] = NoRequest]
    /\ UNCHANGED <<serverVars, store, react, refresh, inbox, modal, logout,
                   fetches, logouts, faults, ended, harm>>

\* The handler of xflow:auth:required: a modal that is open stays.
AskLogin(t) ==
    modal' = [modal EXCEPT ![t] = IF @ = "closed" THEN "open" ELSE @]

\* A 401: without a stored token the user is asked to log in.
UnauthorizedNoToken(t) ==
    /\ request[t].at = "sent" /\ ~Accepts(request[t].token)
    /\ store = NoToken
    /\ request' = [request EXCEPT ![t] = NoRequest]
    /\ AskLogin(t)
    /\ UNCHANGED <<serverVars, store, react, refresh, inbox, logout, fetches,
                   logouts, faults, ended, harm>>

\* A 401 with one: refresh, then retry.
UnauthorizedRenew(t) ==
    /\ request[t].at = "sent" /\ ~Accepts(request[t].token)
    /\ store # NoToken
    /\ request' = [request EXCEPT ![t] =
                     [at |-> "renewing", token |-> NoToken]]
    /\ refresh' = Refreshing(t)
    /\ UNCHANGED <<serverVars, store, react, inbox, modal, logout, fetches,
                   logouts, faults, ended>>
    /\ Note({})

\* The request that awaits the refresh goes on once it ends, with the tokens
\* the refresh has left in the store; ok is whether it has any.
Resume(t, ok) ==
    LET carried == IF store' # NoToken THEN store' ELSE react'[t] IN
    CASE request[t].at = "refreshing" ->
           /\ request' = [request EXCEPT ![t] =
                            [at |-> "sent", token |-> carried]]
           /\ UNCHANGED modal
      [] request[t].at = "renewing" /\ ok ->
           /\ request' = [request EXCEPT ![t] =
                            [at |-> "resent", token |-> carried]]
           /\ UNCHANGED modal
      [] request[t].at = "renewing" /\ ~ok ->
           /\ request' = [request EXCEPT ![t] = NoRequest]
           /\ AskLogin(t)
      [] OTHER -> UNCHANGED <<request, modal>>
-----------------------------------------------------------------------------
\* A sibling's message: AuthProvider adopts its token, and a refresh that is
\* waiting stores its tokens and ends.
HearTokens(t) ==
    LET new == Head(inbox[t]) IN
    /\ inbox[t] # <<>> /\ new # AuthRequired
    /\ inbox' = [inbox EXCEPT ![t] = Tail(@)]
    /\ react' = [react EXCEPT ![t] = new]
    /\ IF refresh[t].at = "waiting"
       THEN /\ store' = new
            /\ refresh' = [refresh EXCEPT ![t] = NotRefreshing]
            /\ Resume(t, TRUE)
       ELSE UNCHANGED <<store, refresh, request, modal>>
    /\ UNCHANGED <<serverVars, logout, fetches, logouts, faults, ended>>
    /\ Note({h \in {"old news"} : refresh[t].at = "waiting" /\ store # new})

HearAuthRequired(t) ==
    /\ inbox[t] # <<>> /\ Head(inbox[t]) = AuthRequired
    /\ inbox' = [inbox EXCEPT ![t] = Tail(@)]
    /\ react' = [react EXCEPT ![t] = NoToken]
    /\ UNCHANGED <<serverVars, store, refresh, request, modal, logout,
                   fetches, logouts, faults, ended, harm>>

\* Nobody reported: the refresh presents the token it read at its start.  It
\* races when that token is presented elsewhere or was replaced since.
PeerTimeout(t) ==
    LET old == refresh[t].old IN
    /\ refresh[t].at = "waiting"
    /\ refresh' = [refresh EXCEPT ![t].at = "sent"]
    /\ UNCHANGED <<serverVars, store, react, inbox, request, modal, logout,
                   fetches, logouts, faults, ended>>
    /\ Note({h \in {"raced"} :
               \/ ~IsActive(old)
               \/ \E u \in Tabs : refresh[u].at = "sent" /\ refresh[u].old = old})

\* The rotation, as a new list of rows: a successor of old, which is revoked.
Rotated(old) ==
    Append(Revoke({old}), [state |-> "active", login |-> rows[old].login])

\* RotateRefreshToken commits, and the answer sets out.
Rotate(t) ==
    LET old == refresh[t].old IN
    /\ refresh[t].at = "sent" /\ IsActive(old)
    /\ Len(rows) < MaxTokens
    /\ rows' = Rotated(old)
    /\ refresh' = [refresh EXCEPT ![t].at = "answered",
                                  ![t].new = Len(rows) + 1]
    /\ UNCHANGED <<ending, expired, store, react, inbox, request, modal,
                   logout, fetches, logouts, faults, ended, harm>>

\* 401: a revoked token burns what was rotated from it.
RefuseReuse(t) ==
    /\ refresh[t].at = "sent" /\ ~IsActive(refresh[t].old)
    /\ rows' = IF rows[refresh[t].old].state = "revoked"
               THEN Revoke(Chain(refresh[t].old)) ELSE rows
    /\ refresh' = [refresh EXCEPT ![t].at = "refused"]
    /\ UNCHANGED <<ending, expired, store, react, inbox, request, modal,
                   logout, fetches, logouts, faults, ended, harm>>

\* What the server may have done with a token before the answer was lost or
\* an error was sent: nothing, or the rotation.
MaybeRotated(t) ==
    \/ UNCHANGED rows
    \/ /\ IsActive(refresh[t].old) /\ Len(rows) < MaxTokens
       /\ rows' = Rotated(refresh[t].old)

\* 500: before the rotation, or after it when the user cannot be loaded.
ServerError(t) ==
    /\ faults < MaxFaults /\ faults' = faults + 1
    /\ refresh[t].at = "sent"
    /\ MaybeRotated(t)
    /\ refresh' = [refresh EXCEPT ![t].at = "refused"]
    /\ UNCHANGED <<ending, expired, store, react, inbox, request, modal,
                   logout, fetches, logouts, ended>>
    /\ Note({"server error"})

\* The request or its answer is lost, or the body cannot be read.
NetworkError(t) ==
    /\ faults < MaxFaults /\ faults' = faults + 1
    /\ refresh[t].at = "sent"
    /\ MaybeRotated(t)
    /\ refresh' = [refresh EXCEPT ![t].at = "failed"]
    /\ UNCHANGED <<ending, expired, store, react, inbox, request, modal,
                   logout, fetches, logouts, ended>>
    /\ Note({h \in {"lost"} : rows' # rows})

Broadcast(t, msg) ==
    inbox' = [u \in Tabs |-> IF u = t THEN inbox[u] ELSE Append(inbox[u], msg)]

\* A mutant: the new tokens are told to the siblings and not stored.
RefreshOk_NotStored(t) ==
    /\ refresh[t].at = "answered"
    /\ refresh' = [refresh EXCEPT ![t] = NotRefreshing]
    /\ Broadcast(t, refresh[t].new)
    /\ UNCHANGED <<serverVars, store, react, logout, fetches, logouts, faults,
                   ended>>
    /\ Resume(t, TRUE)
    /\ Note({})

\* doRefresh ends: with new tokens, which it stores and tells the siblings,
RefreshOk(t) ==
    /\ refresh[t].at = "answered"
    /\ store' = refresh[t].new
    /\ refresh' = [refresh EXCEPT ![t] = NotRefreshing]
    /\ Broadcast(t, refresh[t].new)
    /\ UNCHANGED <<serverVars, react, logout, fetches, logouts, faults, ended>>
    /\ Resume(t, TRUE)
    /\ Note({})

\* with any status but 200 and 404, which clears the store of all tabs,
RefreshRefused(t) ==
    /\ refresh[t].at = "refused"
    /\ store' = NoToken
    /\ refresh' = [refresh EXCEPT ![t] = NotRefreshing]
    /\ Broadcast(t, AuthRequired)
    /\ UNCHANGED <<serverVars, react, logout, fetches, logouts, faults, ended>>
    /\ Resume(t, FALSE)
    /\ Note({})

\* or without an answer.
RefreshFailed(t) ==
    /\ refresh[t].at = "failed"
    /\ refresh' = [refresh EXCEPT ![t] = NotRefreshing]
    /\ UNCHANGED <<serverVars, store, react, inbox, logout, fetches, logouts,
                   faults, ended>>
    /\ Resume(t, FALSE)
    /\ Note({})
-----------------------------------------------------------------------------
\* requireAuth without a token in the tab's state: the modal, and a poll.
RequireAuth(t) ==
    /\ react[t] = NoToken /\ modal[t] # "polling"
    /\ modal' = [modal EXCEPT ![t] = "polling"]
    /\ UNCHANGED <<serverVars, store, react, refresh, inbox, request, logout,
                   fetches, logouts, faults, ended, harm>>

\* The poll finds a token in the store; the modal stays open.
Poll(t) ==
    /\ modal[t] = "polling" /\ store # NoToken
    /\ react' = [react EXCEPT ![t] = store]
    /\ modal' = [modal EXCEPT ![t] = "open"]
    /\ UNCHANGED <<serverVars, store, refresh, inbox, request, logout,
                   fetches, logouts, faults, ended, harm>>

CloseModal(t) ==
    /\ modal[t] # "closed"
    /\ modal' = [modal EXCEPT ![t] = "closed"]
    /\ UNCHANGED <<serverVars, store, react, refresh, inbox, request, logout,
                   fetches, logouts, faults, ended, harm>>

\* A login through the modal, up to onSuccess: the siblings are not told.
Login(t) ==
    LET new == Len(rows) + 1 IN
    /\ modal[t] # "closed" /\ new <= MaxTokens
    /\ rows' = Append(rows, [state |-> "active", login |-> new])
    /\ store' = new
    /\ react' = [react EXCEPT ![t] = new]
    /\ modal' = [modal EXCEPT ![t] = "closed"]
    /\ UNCHANGED <<ending, expired, refresh, inbox, request, logout, fetches,
                   logouts, faults, ended>>
    /\ Note({h \in {"crossed"} :
               \E u \in Tabs : logout[u].at # "idle" \/ refresh[u].at # "none"})

\* A mutant: setAccessToken(null) clears the tab's state only.
LoggedOut_KeepsStore(t, token) ==
    /\ UNCHANGED store
    /\ react' = [react EXCEPT ![t] = NoToken]
    /\ logout' = [logout EXCEPT ![t] = NoLogout]
    /\ ended' = ended \cup {rows[i].login : i \in {token} \ {NoToken}}

\* setAccessToken(null), at the end of a logout of token.
LoggedOut(t, token) ==
    /\ store' = NoToken
    /\ react' = [react EXCEPT ![t] = NoToken]
    /\ logout' = [logout EXCEPT ![t] = NoLogout]
    /\ ended' = ended \cup {rows[i].login : i \in {token} \ {NoToken}}

\* logout without a stored token: only the tab's own state is left to clear.
LogoutLocally(t) ==
    /\ react[t] # NoToken /\ store = NoToken /\ logout[t].at = "idle"
    /\ logouts < MaxLogouts /\ logouts' = logouts + 1
    /\ LoggedOut(t, NoToken)
    /\ UNCHANGED <<serverVars, refresh, inbox, request, modal, fetches, faults,
                   harm>>

\* logout posts the stored refresh token,
LogoutStart(t) ==
    /\ react[t] # NoToken /\ store # NoToken /\ logout[t].at = "idle"
    /\ logouts < MaxLogouts /\ logouts' = logouts + 1
    /\ logout' = [logout EXCEPT ![t] = [at |-> "sent", token |-> store]]
    /\ UNCHANGED <<serverVars, store, react, refresh, inbox, request, modal,
                   fetches, faults, ended>>
    /\ Note({})

\* which the server revokes,
LogoutRevokes(t) ==
    /\ logout[t].at = "sent"
    /\ rows' = Revoke({logout[t].token})
    /\ logout' = [logout EXCEPT ![t].at = "done"]
    /\ UNCHANGED <<ending, expired, store, react, refresh, inbox, request,
                   modal, fetches, logouts, faults, ended, harm>>

\* unless the request is lost or the update fails; it goes on all the same,
LogoutUnheard(t) ==
    /\ faults < MaxFaults /\ faults' = faults + 1
    /\ logout[t].at = "sent"
    /\ logout' = [logout EXCEPT ![t].at = "done"]
    /\ UNCHANGED <<serverVars, store, react, refresh, inbox, request, modal,
                   fetches, logouts, ended>>
    /\ Note({"unrevoked"})

\* and clears store and state.
LogoutEnds(t) ==
    /\ logout[t].at = "done"
    /\ LoggedOut(t, logout[t].token)
    /\ UNCHANGED <<serverVars, refresh, inbox, request, modal, fetches,
                   logouts, faults, harm>>
-----------------------------------------------------------------------------
\* Time: the oldest access token that is not yet nears its end, or ends.
NearsEnd ==
    /\ ending < Len(rows)
    /\ ending' = ending + 1
    /\ UNCHANGED <<rows, expired, store, react, refresh, inbox, request, modal,
                   logout, fetches, logouts, faults, ended, harm>>
Expires ==
    /\ expired < ending
    /\ expired' = expired + 1
    /\ UNCHANGED <<rows, ending, store, react, refresh, inbox, request, modal,
                   logout, fetches, logouts, faults, ended, harm>>

\* A refresh token that nobody rotated reaches expires_at.
Lapses ==
    /\ faults < MaxFaults /\ faults' = faults + 1
    /\ \E i \in DOMAIN rows :
         IsActive(i) /\ rows' = [rows EXCEPT ![i].state = "lapsed"]
    /\ UNCHANGED <<ending, expired, store, react, refresh, inbox, request,
                   modal, logout, fetches, logouts, ended>>
    /\ Note({"lapsed"})

\* The page of a tab is loaded again: what it awaited is lost, and AuthProvider
\* starts from the store.
Reload(t) ==
    /\ faults < MaxFaults /\ faults' = faults + 1
    /\ IF refresh[t].at = "sent" THEN MaybeRotated(t) ELSE UNCHANGED rows
    /\ refresh' = [refresh EXCEPT ![t] = NotRefreshing]
    /\ inbox' = [inbox EXCEPT ![t] = <<>>]
    /\ request' = [request EXCEPT ![t] = NoRequest]
    /\ modal' = [modal EXCEPT ![t] = "closed"]
    /\ logout' = [logout EXCEPT ![t] = NoLogout]
    /\ react' = [react EXCEPT ![t] = store]
    /\ UNCHANGED <<ending, expired, store, fetches, logouts, ended>>
    /\ Note({h \in {"lost"} :
               rows' # rows \/ refresh[t].at \in {"answered", "refused"}}
             \cup {h \in {"cut short"} : logout[t].at # "idle"})

\* The steps of a tab.
Calls(t) ==
    MaybeRefresh(t) \/ Fetch(t) \/ Served(t) \/ UnauthorizedNoToken(t)
      \/ UnauthorizedRenew(t)
Hears(t) == HearTokens(t) \/ HearAuthRequired(t)
Refreshes(t) ==
    PeerTimeout(t) \/ Rotate(t) \/ RefuseReuse(t) \/ ServerError(t)
      \/ NetworkError(t) \/ RefreshOk(t) \/ RefreshRefused(t)
      \/ RefreshFailed(t)
Logins(t) == RequireAuth(t) \/ Poll(t) \/ CloseModal(t) \/ Login(t)
Logouts(t) ==
    LogoutLocally(t) \/ LogoutStart(t) \/ LogoutRevokes(t) \/ LogoutUnheard(t)
      \/ LogoutEnds(t)

\* Every step but a reload.
AuthStep ==
    \/ \E t \in Tabs : Calls(t) \/ Hears(t) \/ Refreshes(t) \/ Logins(t)
                         \/ Logouts(t)
    \/ NearsEnd \/ Expires \/ Lapses

AuthNext == AuthStep \/ \E t \in Tabs : Reload(t)
AuthSpec == AuthInit /\ [][AuthNext]_authVars
-----------------------------------------------------------------------------
\* The stored refresh token works, or a refresh or a logout of it is under way;
\* and the newest token is not left behind, active on the server and forgotten
\* by the browser.  Unless two refreshes of one token overlapped, a refresh met
\* a login or a logout, a tab took old news, an answer was lost, a logout was
\* cut short by a reload, the server failed, or the token had its time.
LoginIsKept ==
    LET kept(i) ==
          \/ IsActive(i)
          \/ \E t \in Tabs : /\ refresh[t].at = "answered"
                             /\ refresh[t].old = i /\ IsActive(refresh[t].new)
          \/ \E t \in Tabs : logout[t].at # "idle" /\ logout[t].token = i
    IN  harm \subseteq {"unrevoked"}
          => IF store # NoToken THEN kept(store)
             ELSE IsActive(Len(rows)) => rows[Len(rows)].login \in ended

\* A login that was logged out has no refresh token that works and does not come
\* back to the store, unless a refresh ran during the logout, the server did not
\* hear of it, or the browser missed the answer to a refresh or took an old one.
\* Its access tokens are accepted until they expire.
LogoutIsFinal ==
    harm \cap {"crossed", "unrevoked", "lost", "old news"} = {}
      => /\ \A i \in DOMAIN rows : rows[i].login \in ended => ~IsActive(i)
         /\ store # NoToken => rows[store].login \notin ended
=============================================================================
