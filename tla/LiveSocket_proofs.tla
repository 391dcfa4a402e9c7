------------------------- MODULE LiveSocket_proofs -------------------------
(* Theorems about TokenRefresh and LiveSocket for any tabs and bounds: what *)
(* becomes of the login the tabs share, with the tabs alone and with a tab  *)
(* whose live socket joins and starts refreshes too; the types of both; and *)
(* that a tab at rest is live.                                              *)
EXTENDS LiveSocket, SequenceTheorems, TLAPS

\* The tokens, the refreshes, the messages and the logouts; react, requests
\* and modals follow them and never lead.
CoreTypes ==
    /\ rows \in Seq(Row) /\ Len(rows) \in Tokens
    /\ store \in Nat
    /\ refresh \in [Tabs -> [at : {"none", "waiting", "sent", "answered",
                                   "refused", "failed"},
                             old : Nat, new : Nat]]
    /\ inbox \in [Tabs -> Seq(Nat)]
    /\ logout \in [Tabs -> [at : {"idle", "sent", "done"}, token : Nat]]
    /\ ended \subseteq Nat

\* No token but of a row there is.
CoreBounds ==
    /\ store <= Len(rows)
    /\ \A t \in Tabs :
         /\ refresh[t].old <= Len(rows) /\ refresh[t].new <= Len(rows)
         /\ logout[t].token <= Len(rows)
         /\ \A m \in ToSet(inbox[t]) : m <= Len(rows)
         /\ refresh[t].at = "none" => refresh[t] = NotRefreshing
         /\ refresh[t].at # "none" => refresh[t].old # NoToken
         /\ refresh[t].new # NoToken <=> refresh[t].at = "answered"
         /\ logout[t].at # "idle" => logout[t].token # NoToken
    /\ \A l \in ended : l <= Len(rows)
    /\ \A i \in 1..Len(rows) : rows[i].login <= i

CoreOK == CoreTypes /\ CoreBounds
-----------------------------------------------------------------------------
(* Sequences of rows and of messages.                                      *)

Active(rs, i) == rs[i].state = "active"

\* rs are the rows, some of which no longer count.
Dimmed(rs) ==
    /\ rs \in Seq(Row) /\ Len(rs) = Len(rows)
    /\ \A i \in 1..Len(rows) : /\ rs[i].login = rows[i].login
                               /\ Active(rs, i) => Active(rows, i)

LEMMA MapRows ==
  ASSUME rows \in Seq(Row), NEW f, f = [i \in DOMAIN rows |-> f[i]],
         \A i \in 1..Len(rows) : f[i] \in Row
  PROVE  f \in Seq(Row) /\ Len(f) = Len(rows)
<1>1. Len(rows) \in Nat /\ DOMAIN rows = 1..Len(rows)
  BY LenProperties
<1>2. f \in [1..Len(rows) -> Row]
  BY <1>1
<1>3. f \in Seq(Row)
  BY <1>1, <1>2, SeqDef
<1> DEFINE n == Len(f)
           k == Len(rows)
<1>4. n \in Nat /\ k \in Nat /\ 1..n = 1..k
  BY <1>1, <1>2, <1>3, LenProperties
<1> HIDE DEF n, k
<1>5. n <= k
  <2>1. n > 0 => n \in 1..n
    BY <1>4
  <2> QED
    BY <1>4, <2>1
<1>6. k <= n
  <2>1. k > 0 => k \in 1..k
    BY <1>4
  <2> QED
    BY <1>4, <2>1
<1>7. n = k
  BY <1>4, <1>5, <1>6
<1> QED
  BY <1>3, <1>7 DEF n, k

LEMMA Revoked ==
  ASSUME rows \in Seq(Row), NEW S
  PROVE  /\ Dimmed(Revoke(S))
         /\ \A i \in 1..Len(rows) : Active(Revoke(S), i) <=> Active(rows, i) /\ i \notin S
<1> DEFINE f == Revoke(S)
<1>1. Len(rows) \in Nat /\ DOMAIN rows = 1..Len(rows) /\ \A i \in 1..Len(rows) : rows[i] \in Row
  BY LenProperties
<1>2. /\ f = [i \in DOMAIN rows |-> f[i]]
      /\ \A i \in 1..Len(rows) :
           f[i] = IF i \in S /\ IsActive(i) THEN [rows[i] EXCEPT !.state = "revoked"] ELSE rows[i]
  BY <1>1 DEF Revoke
<1> HIDE DEF f
<1>3. \A i \in 1..Len(rows) :
         /\ f[i] \in Row /\ f[i].login = rows[i].login
         /\ Active(f, i) <=> Active(rows, i) /\ i \notin S
  BY <1>1, <1>2 DEF Row, Active, IsActive
<1>4. f \in Seq(Row) /\ Len(f) = Len(rows)
  BY <1>2, <1>3, MapRows
<1> QED
  BY <1>3, <1>4 DEF f, Dimmed

LEMMA Lapsed ==
  ASSUME rows \in Seq(Row), NEW i \in DOMAIN rows,
         rows' = [rows EXCEPT ![i].state = "lapsed"]
  PROVE  Dimmed(rows')
<1>1. Len(rows) \in Nat /\ DOMAIN rows = 1..Len(rows) /\ \A j \in 1..Len(rows) : rows[j] \in Row
  BY LenProperties
<1>2. /\ rows' = [j \in DOMAIN rows |-> rows'[j]]
      /\ \A j \in 1..Len(rows) :
           rows'[j] = IF j = i THEN [rows[j] EXCEPT !.state = "lapsed"] ELSE rows[j]
  BY <1>1
<1>3. \A j \in 1..Len(rows) :
         /\ rows'[j] \in Row /\ rows'[j].login = rows[j].login
         /\ Active(rows', j) => Active(rows, j)
  BY <1>1, <1>2 DEF Row, Active
<1> DEFINE f == rows'
<1>4. f = [j \in DOMAIN rows |-> f[j]] /\ \A j \in 1..Len(rows) : f[j] \in Row
  BY <1>2, <1>3
<1> HIDE DEF f
<1>5. f \in Seq(Row) /\ Len(f) = Len(rows)
  BY <1>4, MapRows
<1> QED
  BY <1>3, <1>5 DEF f, Dimmed

\* rs are the rows, of which old no longer counts, and its successor.
Succeeded(rs, old) ==
    /\ rs \in Seq(Row) /\ Len(rs) = Len(rows) + 1
    /\ \A i \in 1..Len(rows) : /\ rs[i].login = rows[i].login
                               /\ Active(rs, i) <=> Active(rows, i) /\ i # old
    /\ rs[Len(rows) + 1].login = rows[old].login
    /\ Active(rs, Len(rows) + 1)

LEMMA RotatedRows ==
  ASSUME rows \in Seq(Row), NEW old \in 1..Len(rows)
  PROVE  Succeeded(Rotated(old), old)
<1> DEFINE new == [state |-> "active", login |-> rows[old].login]
           f == Revoke({old})
<1>1. Len(rows) \in Nat /\ rows[old] \in Row
  BY LenProperties
<1>2. new \in Row
  BY <1>1 DEF Row
<1>3. /\ f \in Seq(Row) /\ Len(f) = Len(rows)
      /\ \A i \in 1..Len(rows) : /\ f[i].login = rows[i].login
                                 /\ Active(f, i) <=> Active(rows, i) /\ i # old
  BY Revoked DEF Dimmed
<1>4. Rotated(old) = Append(f, new)
  BY DEF Rotated
<1>5. new.login = rows[old].login /\ new.state = "active"
  OBVIOUS
<1> HIDE DEF f, new
<1>6. /\ Append(f, new) \in Seq(Row) /\ Len(Append(f, new)) = Len(rows) + 1
      /\ \A i \in 1..Len(rows) : Append(f, new)[i] = f[i]
      /\ Append(f, new)[Len(rows) + 1] = new
  BY <1>2, <1>3, AppendProperties
<1> QED
  BY <1>1, <1>3, <1>4, <1>5, <1>6 DEF Succeeded, Active

LEMMA HeadMessage ==
  ASSUME NEW s \in Seq(Nat), s # <<>>
  PROVE  /\ Head(s) \in ToSet(s) /\ Head(s) \in Nat
         /\ Tail(s) \in Seq(Nat) /\ ToSet(Tail(s)) \subseteq ToSet(s)
<1>1. /\ Len(s) \in Nat \ {0} /\ DOMAIN s = 1..Len(s) /\ \A i \in 1..Len(s) : s[i] \in Nat
  BY EmptySeq, LenProperties
<1>2. /\ Tail(s) \in Seq(Nat) /\ Len(Tail(s)) = Len(s) - 1
      /\ \A i \in 1..Len(Tail(s)) : Tail(s)[i] = s[i + 1]
      /\ Head(s) = s[1]
  BY HeadTailProperties
<1>3. DOMAIN Tail(s) = 1..Len(s) - 1
  BY <1>2, LenProperties
<1>4. ASSUME NEW m \in ToSet(Tail(s))
      PROVE  m \in ToSet(s)
  <2>1. PICK i \in 1..Len(s) - 1 : m = Tail(s)[i]
    BY <1>3 DEF ToSet
  <2>2. m = s[i + 1] /\ i + 1 \in 1..Len(s)
    BY <1>1, <1>2, <2>1
  <2> QED
    BY <1>1, <2>2 DEF ToSet
<1>5. Head(s) \in ToSet(s)
  BY <1>1, <1>2 DEF ToSet
<1> QED
  BY <1>1, <1>2, <1>4, <1>5

LEMMA OneMore ==
  ASSUME NEW s \in Seq(Nat), NEW m \in Nat
  PROVE  Append(s, m) \in Seq(Nat) /\ ToSet(Append(s, m)) \subseteq ToSet(s) \cup {m}
<1>1. Len(s) \in Nat /\ DOMAIN s = 1..Len(s)
  BY LenProperties
<1>2. /\ Append(s, m) \in Seq(Nat) /\ Len(Append(s, m)) = Len(s) + 1
      /\ \A i \in 1..Len(s) : Append(s, m)[i] = s[i]
      /\ Append(s, m)[Len(s) + 1] = m
  BY AppendProperties
<1>3. DOMAIN Append(s, m) = 1..Len(s) + 1
  BY <1>2, LenProperties
<1>4. ASSUME NEW x \in ToSet(Append(s, m))
      PROVE  x \in ToSet(s) \cup {m}
  <2>1. PICK i \in 1..Len(s) + 1 : x = Append(s, m)[i]
    BY <1>3 DEF ToSet
  <2>2. i \in 1..Len(s) \/ i = Len(s) + 1
    BY <1>1
  <2> QED
    BY <1>1, <1>2, <2>1, <2>2 DEF ToSet
<1> QED
  BY <1>2, <1>4

LEMMA NoMessage == ToSet(<<>>) = {}
BY EmptySeq DEF ToSet

-----------------------------------------------------------------------------
(* What the steps do to the tokens.                                        *)

\* At most a message is taken from an inbox.
Unheeded ==
    /\ UNCHANGED <<rows, store, refresh, logout, ended>>
    /\ harm \subseteq harm'
    /\ \/ inbox' = inbox
       \/ \E t \in Tabs : /\ inbox[t] # <<>>
                          /\ inbox' = [inbox EXCEPT ![t] = Tail(@)]

\* A refresh is joined or started, for a request, the interval or a socket.
RefreshCalled(t) ==
    /\ store # NoToken
    /\ refresh' = Refreshing(t)
    /\ UNCHANGED <<rows, store, inbox, logout, ended>>
    /\ Note({})

Adopts(t) == HearTokens(t) /\ refresh[t].at = "waiting"

RefreshStep(t) ==
    \/ RefreshCalled(t) \/ Adopts(t) \/ PeerTimeout(t) \/ Rotate(t) \/ RefuseReuse(t)
    \/ ServerError(t) \/ NetworkError(t)
    \/ RefreshOk(t) \/ RefreshRefused(t) \/ RefreshFailed(t)
LoginStep(t) ==
    \/ Login(t) \/ LogoutLocally(t) \/ LogoutStart(t) \/ LogoutRevokes(t)
    \/ LogoutUnheard(t) \/ LogoutEnds(t) \/ Reload(t)

TokenStep ==
    \/ Unheeded \/ Lapses
    \/ \E t \in Tabs : RefreshStep(t) \/ LoginStep(t)

LEMMA TokenSteps ==
  ASSUME [AuthNext]_authVars
  PROVE  TokenStep
<1>1. CASE UNCHANGED authVars
  BY <1>1 DEF authVars, serverVars, TokenStep, Unheeded
<1>2. CASE NearsEnd \/ Expires
  BY <1>2 DEF NearsEnd, Expires, TokenStep, Unheeded
<1>3. CASE Lapses \/ \E t \in Tabs : Reload(t)
  BY <1>3 DEF TokenStep, LoginStep
<1>4. ASSUME NEW t \in Tabs, Calls(t)
      PROVE  TokenStep
  <2>1. CASE MaybeRefresh(t) \/ UnauthorizedRenew(t)
    BY <2>1 DEF MaybeRefresh, UnauthorizedRenew, RefreshCalled, serverVars, TokenStep,
       RefreshStep
  <2>2. CASE Fetch(t)
    <3>1. CASE store # NoToken /\ ExpiresSoon
      BY <2>2, <3>1 DEF Fetch, RefreshCalled, serverVars, TokenStep, RefreshStep
    <3>2. CASE ~(store # NoToken /\ ExpiresSoon)
      <4>1. UNCHANGED <<rows, store, refresh, logout, ended, inbox>>
        BY <2>2, <3>2 DEF Fetch, serverVars
      <4>2. harm \subseteq harm'
        BY <2>2 DEF Fetch, Note
      <4> QED
        BY <4>1, <4>2 DEF TokenStep, Unheeded
    <3> QED
      BY <3>1, <3>2
  <2>3. CASE Served(t) \/ UnauthorizedNoToken(t)
    BY <2>3 DEF Served, UnauthorizedNoToken, serverVars, TokenStep, Unheeded
  <2> QED
    BY <1>4, <2>1, <2>2, <2>3 DEF Calls
<1>5. ASSUME NEW t \in Tabs, Hears(t)
      PROVE  TokenStep
  <2>1. CASE HearTokens(t)
    <3>1. CASE refresh[t].at = "waiting"
      BY <2>1, <3>1 DEF TokenStep, RefreshStep, Adopts
    <3>2. CASE refresh[t].at # "waiting"
      <4>1. /\ UNCHANGED <<rows, store, refresh, logout, ended>>
            /\ inbox[t] # <<>> /\ inbox' = [inbox EXCEPT ![t] = Tail(@)]
        BY <2>1, <3>2 DEF HearTokens, serverVars
      <4>2. harm \subseteq harm'
        BY <2>1 DEF HearTokens, Note
      <4> QED
        BY <4>1, <4>2 DEF TokenStep, Unheeded
    <3> QED
      BY <3>1, <3>2
  <2>2. CASE HearAuthRequired(t)
    BY <2>2 DEF HearAuthRequired, serverVars, TokenStep, Unheeded
  <2> QED
    BY <1>5, <2>1, <2>2 DEF Hears
<1>6. ASSUME NEW t \in Tabs, Refreshes(t)
      PROVE  TokenStep
  BY <1>6 DEF Refreshes, TokenStep, RefreshStep
<1>7. ASSUME NEW t \in Tabs, Logins(t) \/ Logouts(t)
      PROVE  TokenStep
  <2>1. CASE RequireAuth(t) \/ Poll(t) \/ CloseModal(t)
    BY <2>1 DEF RequireAuth, Poll, CloseModal, serverVars, TokenStep, Unheeded
  <2>2. CASE Login(t) \/ Logouts(t)
    BY <2>2 DEF Logouts, TokenStep, LoginStep
  <2> QED
    BY <1>7, <2>1, <2>2 DEF Logins
<1> QED
  BY <1>1, <1>2, <1>3, <1>4, <1>5, <1>6, <1>7 DEF AuthNext, AuthStep

\* What has happened is not forgotten, and a logout at the time of a refresh
\* is noted.
CrossInv ==
    \A t, u \in Tabs : logout[t].at # "idle" /\ refresh[u].at # "none"
                         => "crossed" \in harm

LEMMA Noted ==
  ASSUME NEW S, Note(S)
  PROVE  /\ harm \subseteq harm' /\ S \subseteq harm'
         /\ \A t, u \in Tabs : logout'[t].at # "idle" /\ refresh'[u].at # "none"
                                 => "crossed" \in harm'
BY DEF Note, Crossing

LEMMA CrossStep ==
  ASSUME CoreTypes, CrossInv, TokenStep
  PROVE  CrossInv' /\ harm \subseteq harm'
<1> SUFFICES /\ harm \subseteq harm'
             /\ \A t, u \in Tabs : logout'[t].at # "idle" /\ refresh'[u].at # "none"
                                     => "crossed" \in harm'
  BY DEF CrossInv
<1> DEFINE Q == /\ harm \subseteq harm'
                /\ \A t, u \in Tabs : logout'[t].at # "idle" /\ refresh'[u].at # "none"
                                        => "crossed" \in harm'
<1>1. CASE Unheeded \/ Lapses
  <2>1. UNCHANGED <<logout, refresh>> /\ harm \subseteq harm'
    BY <1>1, Noted DEF Unheeded, Lapses
  <2> QED
    BY <2>1 DEF CrossInv
<1>2. ASSUME NEW S, Note(S)
      PROVE  Q
  BY <1>2, Noted
<1> HIDE DEF Q
<1>3. ASSUME NEW t \in Tabs, RefreshStep(t)
      PROVE  Q
  <2>1. CASE Rotate(t) \/ RefuseReuse(t)
    <3>1. logout' = logout /\ harm' = harm /\ refresh[t].at # "none"
      BY <2>1 DEF Rotate, RefuseReuse
    <3>2. \A u \in Tabs : refresh[u].at = "none" => refresh'[u].at = "none"
      BY <2>1, <3>1 DEF Rotate, RefuseReuse, CoreTypes
    <3> QED
      BY <3>1, <3>2 DEF CrossInv, Q
  <2>2. CASE ~Rotate(t) /\ ~RefuseReuse(t)
    <3>1. \E S : Note(S)
      BY <1>3, <2>2 DEF RefreshStep, RefreshCalled, Adopts, HearTokens, PeerTimeout,
         ServerError, NetworkError, RefreshOk, RefreshRefused, RefreshFailed
    <3> QED
      BY <1>2, <3>1
  <2> QED
    BY <2>1, <2>2
<1>4. ASSUME NEW t \in Tabs, LoginStep(t)
      PROVE  Q
  <2>1. CASE LogoutLocally(t) \/ LogoutRevokes(t) \/ LogoutEnds(t)
    <3>1. refresh' = refresh /\ harm' = harm
      BY <2>1 DEF LogoutLocally, LogoutRevokes, LogoutEnds
    <3>2. \A u \in Tabs : logout[u].at = "idle" => logout'[u].at = "idle"
      <4>1. CASE LogoutRevokes(t)
        BY <4>1 DEF LogoutRevokes, CoreTypes
      <4>2. CASE LogoutLocally(t) \/ LogoutEnds(t)
        <5>1. logout' = [logout EXCEPT ![t] = NoLogout] /\ NoLogout.at = "idle"
          BY <4>2 DEF LogoutLocally, LogoutEnds, LoggedOut, NoLogout
        <5>2. logout = [u \in Tabs |-> logout[u]]
          BY DEF CoreTypes
        <5> QED
          BY <5>1, <5>2
      <4> QED
        BY <2>1, <4>1, <4>2
    <3> QED
      BY <3>1, <3>2 DEF CrossInv, Q
  <2>2. CASE Login(t) \/ LogoutStart(t) \/ LogoutUnheard(t) \/ Reload(t)
    <3>1. \E S : Note(S)
      BY <2>2 DEF Login, LogoutStart, LogoutUnheard, Reload
    <3> QED
      BY <1>2, <3>1
  <2> QED
    BY <1>4, <2>1, <2>2 DEF LoginStep
<1> QED
  BY <1>1, <1>3, <1>4 DEF TokenStep, Q

\* rs are the rows and that of a new login.
LoggedIn(rs) ==
    /\ rs \in Seq(Row) /\ Len(rs) = Len(rows) + 1
    /\ \A i \in 1..Len(rows) : rs[i] = rows[i]
    /\ rs[Len(rows) + 1].login = Len(rows) + 1

Presented(t) == refresh[t].at = "sent" /\ Active(rows, refresh[t].old)

LEMMA MaybeRotatedRows ==
  ASSUME CoreOK, NEW t \in Tabs, refresh[t].at = "sent", MaybeRotated(t)
  PROVE  \/ rows' = rows
         \/ Presented(t) /\ Succeeded(rows', refresh[t].old) /\ Len(rows) < MaxTokens
<1>1. refresh[t].old \in 1..Len(rows) /\ rows \in Seq(Row)
  BY DEF CoreOK, CoreTypes, CoreBounds, NoToken
<1>2. Succeeded(Rotated(refresh[t].old), refresh[t].old)
  BY <1>1, RotatedRows
<1> QED
  BY <1>2 DEF MaybeRotated, Presented, Active, IsActive

LEMMA SameRows ==
  ASSUME CoreOK, rows' = rows
  PROVE  Dimmed(rows')
BY DEF CoreOK, CoreTypes, Dimmed

\* The rows after a step.
LEMMA RowsFlow ==
  ASSUME CoreOK, TokenStep
  PROVE  \/ Dimmed(rows')
         \/ /\ Len(rows) < MaxTokens
            /\ \E t \in Tabs : Presented(t) /\ Succeeded(rows', refresh[t].old)
         \/ /\ Len(rows) < MaxTokens
            /\ LoggedIn(rows') /\ store' = Len(rows) + 1 /\ \E t \in Tabs : Login(t)
<1>1. CASE rows' = rows
  BY <1>1, SameRows
<1>2. rows \in Seq(Row) /\ Len(rows) \in Nat
  BY DEF CoreOK, CoreTypes, Tokens
<1>3. CASE Unheeded
  BY <1>1, <1>3 DEF Unheeded
<1>4. CASE Lapses
  BY <1>2, <1>4, Lapsed DEF Lapses
<1>5. ASSUME NEW t \in Tabs, RefreshStep(t)
      PROVE  \/ Dimmed(rows')
             \/ Len(rows) < MaxTokens /\ Presented(t) /\ Succeeded(rows', refresh[t].old)
  <2>1. CASE ServerError(t) \/ NetworkError(t) \/ Rotate(t)
    <3>1. refresh[t].at = "sent" /\ MaybeRotated(t)
      BY <2>1 DEF ServerError, NetworkError, Rotate, MaybeRotated
    <3> QED
      BY <3>1, MaybeRotatedRows, SameRows
  <2>2. CASE RefuseReuse(t)
    <3>1. rows' = rows \/ rows' = Revoke(Chain(refresh[t].old))
      BY <2>2 DEF RefuseReuse
    <3> QED
      BY <1>2, <3>1, Revoked, SameRows
  <2>3. CASE RefreshCalled(t) \/ Adopts(t) \/ PeerTimeout(t) \/ RefreshOk(t)
               \/ RefreshRefused(t) \/ RefreshFailed(t)
    BY <2>3, SameRows DEF RefreshCalled, Adopts, HearTokens, PeerTimeout, RefreshOk,
       RefreshRefused, RefreshFailed, serverVars
  <2> QED
    BY <1>5, <2>1, <2>2, <2>3 DEF RefreshStep
<1>6. ASSUME NEW t \in Tabs, LoginStep(t)
      PROVE  \/ Dimmed(rows')
             \/ Len(rows) < MaxTokens /\ Presented(t) /\ Succeeded(rows', refresh[t].old)
             \/ Len(rows) < MaxTokens /\ LoggedIn(rows') /\ store' = Len(rows) + 1 /\ Login(t)
  <2>1. CASE Login(t)
    <3> DEFINE new == [state |-> "active", login |-> Len(rows) + 1]
    <3>1. Len(rows) < MaxTokens /\ rows' = Append(rows, new) /\ store' = Len(rows) + 1
      BY <1>2, <2>1, BoundsAssumption DEF Login
    <3>2. new \in Row /\ new.login = Len(rows) + 1
      BY <1>2, <3>1, BoundsAssumption DEF Row, Tokens
    <3> HIDE DEF new
    <3>3. LoggedIn(rows')
      BY <1>2, <3>1, <3>2, AppendProperties DEF LoggedIn
    <3> QED
      BY <2>1, <3>1, <3>3
  <2>2. CASE Reload(t)
    <3>1. rows' = rows \/ (refresh[t].at = "sent" /\ MaybeRotated(t))
      BY <2>2 DEF Reload
    <3> QED
      BY <3>1, MaybeRotatedRows, SameRows
  <2>3. CASE LogoutRevokes(t)
    BY <1>2, <2>3, Revoked DEF LogoutRevokes
  <2>4. CASE LogoutLocally(t) \/ LogoutStart(t) \/ LogoutUnheard(t) \/ LogoutEnds(t)
    BY <2>4, SameRows DEF LogoutLocally, LogoutStart, LogoutUnheard, LogoutEnds, serverVars
  <2> QED
    BY <1>6, <2>1, <2>2, <2>3, <2>4 DEF LoginStep
<1> QED
  BY <1>3, <1>4, <1>5, <1>6 DEF TokenStep

\* A refresh after a step.
LEMMA RefreshFlow ==
  ASSUME CoreOK, TokenStep
  PROVE  /\ refresh' \in [Tabs -> [at : {"none", "waiting", "sent", "answered",
                                         "refused", "failed"},
                                   old : Nat, new : Nat]]
         /\ \A u \in Tabs :
              \/ refresh'[u] = refresh[u]
              \/ refresh'[u] = NotRefreshing
              \/ /\ refresh[u].at = "none" /\ store # NoToken /\ rows' = rows
                 /\ refresh'[u] = [at |-> "waiting", old |-> store, new |-> NoToken]
              \/ /\ refresh[u].at = "waiting" /\ PeerTimeout(u)
                 /\ refresh'[u] = [at |-> "sent", old |-> refresh[u].old, new |-> NoToken]
              \/ /\ Rotate(u)
                 /\ refresh'[u] = [at |-> "answered", old |-> refresh[u].old,
                                   new |-> Len(rows) + 1]
              \/ /\ refresh[u].at = "sent" /\ (RefuseReuse(u) \/ ServerError(u))
                 /\ refresh'[u] = [at |-> "refused", old |-> refresh[u].old, new |-> NoToken]
              \/ /\ refresh[u].at = "sent" /\ NetworkError(u)
                 /\ refresh'[u] = [at |-> "failed", old |-> refresh[u].old, new |-> NoToken]
<1> DEFINE T == [at : {"none", "waiting", "sent", "answered", "refused", "failed"},
                 old : Nat, new : Nat]
           Moves(u) ==
              \/ refresh'[u] = refresh[u]
              \/ refresh'[u] = NotRefreshing
              \/ /\ refresh[u].at = "none" /\ store # NoToken /\ rows' = rows
                 /\ refresh'[u] = [at |-> "waiting", old |-> store, new |-> NoToken]
              \/ /\ refresh[u].at = "waiting" /\ PeerTimeout(u)
                 /\ refresh'[u] = [at |-> "sent", old |-> refresh[u].old, new |-> NoToken]
              \/ /\ Rotate(u)
                 /\ refresh'[u] = [at |-> "answered", old |-> refresh[u].old,
                                   new |-> Len(rows) + 1]
              \/ /\ refresh[u].at = "sent" /\ (RefuseReuse(u) \/ ServerError(u))
                 /\ refresh'[u] = [at |-> "refused", old |-> refresh[u].old, new |-> NoToken]
              \/ /\ refresh[u].at = "sent" /\ NetworkError(u)
                 /\ refresh'[u] = [at |-> "failed", old |-> refresh[u].old, new |-> NoToken]
<1>1. refresh \in [Tabs -> T] /\ store \in Nat /\ Len(rows) \in Nat
  BY DEF CoreOK, CoreTypes, Tokens
<1>2. \A t \in Tabs : refresh[t] \in T /\ refresh[t] = [at |-> refresh[t].at, old |-> refresh[t].old,
                                                        new |-> refresh[t].new]
  BY <1>1
<1>3. \A t \in Tabs : refresh[t].at # "answered" => refresh[t].new = NoToken
  BY DEF CoreOK, CoreBounds
<1>4. CASE refresh' = refresh
  BY <1>1, <1>4
<1>5. ASSUME NEW t \in Tabs, NEW r \in T, refresh' = [refresh EXCEPT ![t] = r]
      PROVE  /\ refresh' \in [Tabs -> T] /\ refresh'[t] = r
             /\ Moves(t) => \A u \in Tabs : Moves(u)
  <2>1. refresh' \in [Tabs -> T] /\ refresh'[t] = r
        /\ \A u \in Tabs \ {t} : refresh'[u] = refresh[u]
    BY <1>1, <1>5
  <2> QED
    BY <2>1
<1>6. NotRefreshing \in T /\ NoToken \in Nat
  BY DEF NotRefreshing, NoToken
<1>7. ASSUME NEW t \in Tabs, RefreshStep(t)
      PROVE  refresh' \in [Tabs -> T] /\ \A u \in Tabs : Moves(u)
  <2>1. CASE RefreshCalled(t)
    <3> DEFINE r == [at |-> "waiting", old |-> store, new |-> NoToken]
    <3>1. CASE refresh[t].at # "none"
      BY <1>4, <2>1, <3>1 DEF RefreshCalled, Refreshing
    <3>2. CASE refresh[t].at = "none"
      <4>1. r \in T
        BY <1>1, <1>6
      <4>2. refresh' = [refresh EXCEPT ![t] = r] /\ store # NoToken /\ rows' = rows
        BY <2>1, <3>2 DEF RefreshCalled, Refreshing
      <4> HIDE DEF T
      <4>3. Moves(t)
        BY <1>5, <3>2, <4>1, <4>2
      <4> HIDE DEF Moves
      <4> QED
        BY <1>5, <4>1, <4>2, <4>3
    <3> QED
      BY <3>1, <3>2
  <2>2. CASE Adopts(t) \/ RefreshOk(t) \/ RefreshRefused(t) \/ RefreshFailed(t)
    <3>1. refresh' = [refresh EXCEPT ![t] = NotRefreshing]
      BY <2>2 DEF Adopts, HearTokens, RefreshOk, RefreshRefused, RefreshFailed
    <3> HIDE DEF T
    <3>2. Moves(t)
      BY <1>5, <1>6, <3>1
    <3> HIDE DEF Moves
    <3> QED
      BY <1>5, <1>6, <3>1, <3>2
  <2> DEFINE To(p) == [at |-> p, old |-> refresh[t].old, new |-> NoToken]
  <2>3. ASSUME NEW p \in {"sent", "refused", "failed"}, refresh[t].at # "answered",
               refresh' = [refresh EXCEPT ![t].at = p]
        PROVE  To(p) \in T /\ refresh' = [refresh EXCEPT ![t] = To(p)]
    <3>1. refresh[t].new = NoToken
      BY <1>3, <2>3
    <3>2. [refresh[t] EXCEPT !.at = p] = To(p)
      <4>1. \A x \in T : [x EXCEPT !.at = p] = [at |-> p, old |-> x.old, new |-> x.new]
        OBVIOUS
      <4> QED
        BY <1>2, <3>1, <4>1
    <3> QED
      BY <1>1, <1>2, <2>3, <3>1, <3>2
  <2>4. CASE PeerTimeout(t)
    <3>1. /\ To("sent") \in T /\ refresh' = [refresh EXCEPT ![t] = To("sent")]
          /\ refresh[t].at = "waiting"
      BY <2>3, <2>4 DEF PeerTimeout
    <3> HIDE DEF T
    <3>2. Moves(t)
      BY <1>5, <2>4, <3>1
    <3> HIDE DEF Moves
    <3> QED
      BY <1>5, <3>1, <3>2
  <2>5. CASE RefuseReuse(t) \/ ServerError(t)
    <3>1. /\ To("refused") \in T /\ refresh' = [refresh EXCEPT ![t] = To("refused")]
          /\ refresh[t].at = "sent"
      BY <2>3, <2>5 DEF RefuseReuse, ServerError
    <3> HIDE DEF T
    <3>2. Moves(t)
      BY <1>5, <2>5, <3>1
    <3> HIDE DEF Moves
    <3> QED
      BY <1>5, <3>1, <3>2
  <2>6. CASE NetworkError(t)
    <3>1. /\ To("failed") \in T /\ refresh' = [refresh EXCEPT ![t] = To("failed")]
          /\ refresh[t].at = "sent"
      BY <2>3, <2>6 DEF NetworkError
    <3> HIDE DEF T
    <3>2. Moves(t)
      BY <1>5, <2>6, <3>1
    <3> HIDE DEF Moves
    <3> QED
      BY <1>5, <3>1, <3>2
  <2>7. CASE Rotate(t)
    <3> DEFINE r == [at |-> "answered", old |-> refresh[t].old, new |-> Len(rows) + 1]
    <3>1. refresh' = [refresh EXCEPT ![t].at = "answered", ![t].new = Len(rows) + 1]
      BY <2>7 DEF Rotate
    <3>2. [[refresh[t] EXCEPT !.at = "answered"] EXCEPT !.new = Len(rows) + 1] = r
      <4>1. \A x \in T : [x EXCEPT !.at = "answered"]
                          = [at |-> "answered", old |-> x.old, new |-> x.new]
        OBVIOUS
      <4>2. \A x, y : [[at |-> "answered", old |-> x, new |-> y] EXCEPT !.new = Len(rows) + 1]
                          = [at |-> "answered", old |-> x, new |-> Len(rows) + 1]
        OBVIOUS
      <4>3. [refresh[t] EXCEPT !.at = "answered"]
               = [at |-> "answered", old |-> refresh[t].old, new |-> refresh[t].new]
        BY <1>1, <4>1
      <4> QED
        BY <4>2, <4>3
    <3>3. r \in T
      BY <1>1, <1>2
    <3>4. refresh' = [refresh EXCEPT ![t] = r]
      BY <1>1, <3>1, <3>2
    <3> HIDE DEF T
    <3>5. Moves(t)
      BY <1>5, <2>7, <3>3, <3>4
    <3> HIDE DEF Moves
    <3> QED
      BY <1>5, <3>3, <3>4, <3>5
  <2> QED
    BY <1>7, <2>1, <2>2, <2>4, <2>5, <2>6, <2>7 DEF RefreshStep
<1>8. ASSUME NEW t \in Tabs, LoginStep(t)
      PROVE  refresh' \in [Tabs -> T] /\ \A u \in Tabs : Moves(u)
  <2>1. CASE Reload(t)
    <3>1. refresh' = [refresh EXCEPT ![t] = NotRefreshing]
      BY <2>1 DEF Reload
    <3> HIDE DEF T
    <3>2. Moves(t)
      BY <1>5, <1>6, <3>1
    <3> HIDE DEF Moves
    <3> QED
      BY <1>5, <1>6, <3>1, <3>2
  <2>2. CASE ~Reload(t)
    BY <1>4, <1>8, <2>2 DEF LoginStep, Login, LogoutLocally, LogoutStart, LogoutRevokes,
       LogoutUnheard, LogoutEnds
  <2> QED
    BY <2>1, <2>2
<1>9. ASSUME Unheeded \/ Lapses
      PROVE  refresh' \in [Tabs -> T] /\ \A u \in Tabs : Moves(u)
  BY <1>1, <1>9 DEF Unheeded, Lapses
<1>10. refresh' \in [Tabs -> T] /\ \A u \in Tabs : Moves(u)
  <2> HIDE DEF T, Moves
  <2> QED
    BY <1>7, <1>8, <1>9 DEF TokenStep
<1> QED
  BY <1>10 DEF T

\* The stored token after a step.
LEMMA StoreFlow ==
  ASSUME CoreOK, TokenStep
  PROVE  \/ store' = store
         \/ store' = NoToken
         \/ \E t \in Tabs : /\ RefreshOk(t) /\ refresh[t].at = "answered"
                            /\ store' = refresh[t].new
         \/ \E t \in Tabs : Adopts(t) /\ store' \in ToSet(inbox[t]) /\ store' \in Nat
         \/ \E t \in Tabs : Login(t) /\ store' = Len(rows) + 1 /\ Len(rows') = Len(rows) + 1
<1>1. CASE Unheeded \/ Lapses
  BY <1>1 DEF Unheeded, Lapses
<1>2. ASSUME NEW t \in Tabs, Adopts(t)
      PROVE  store' \in ToSet(inbox[t]) /\ store' \in Nat
  <2>1. inbox[t] # <<>> /\ store' = Head(inbox[t]) /\ inbox[t] \in Seq(Nat)
    BY <1>2 DEF Adopts, HearTokens, CoreOK, CoreTypes
  <2> QED
    BY <2>1, HeadMessage
<1>3. ASSUME NEW t \in Tabs, RefreshStep(t), ~Adopts(t)
      PROVE  \/ store' \in {store, NoToken}
             \/ RefreshOk(t) /\ refresh[t].at = "answered" /\ store' = refresh[t].new
  BY <1>3 DEF RefreshStep, RefreshCalled, PeerTimeout, Rotate, RefuseReuse, ServerError,
     NetworkError, RefreshOk, RefreshRefused, RefreshFailed, serverVars
<1>4. ASSUME NEW t \in Tabs, Login(t)
      PROVE  store' = Len(rows) + 1 /\ Len(rows') = Len(rows) + 1
  <2>1. store' = Len(rows) + 1 /\ Len(rows) \in Nat
    BY <1>4 DEF Login, CoreOK, CoreTypes, Tokens
  <2>2. /\ rows' = Append(rows, [state |-> "active", login |-> Len(rows) + 1])
        /\ Len(rows) + 1 <= MaxTokens /\ rows \in Seq(Row)
    BY <1>4 DEF Login, CoreOK, CoreTypes
  <2>3. [state |-> "active", login |-> Len(rows) + 1] \in Row
    BY <2>1, <2>2, BoundsAssumption DEF Row, Tokens
  <2> QED
    BY <2>1, <2>2, <2>3, AppendProperties
<1>5. ASSUME NEW t \in Tabs, LoginStep(t), ~Login(t)
      PROVE  store' \in {store, NoToken}
  BY <1>5 DEF LoginStep, LogoutLocally, LogoutStart, LogoutRevokes, LogoutUnheard,
     LogoutEnds, LoggedOut, Reload
<1> QED
  BY <1>1, <1>2, <1>3, <1>4, <1>5 DEF TokenStep, RefreshStep

\* The messages after a step.
LEMMA InboxFlow ==
  ASSUME CoreOK, TokenStep
  PROVE  /\ inbox' \in [Tabs -> Seq(Nat)]
         /\ \A u \in Tabs : ToSet(inbox'[u]) \subseteq ToSet(inbox[u]) \cup {store', NoToken}
<1> DEFINE Q == /\ inbox' \in [Tabs -> Seq(Nat)]
                /\ \A u \in Tabs : ToSet(inbox'[u]) \subseteq ToSet(inbox[u]) \cup {store', NoToken}
<1>1. inbox \in [Tabs -> Seq(Nat)] /\ NoToken \in Nat /\ <<>> \in Seq(Nat)
  BY DEF CoreOK, CoreTypes, NoToken
<1>2. ASSUME inbox' = inbox
      PROVE  Q
  BY <1>1, <1>2
<1>3. ASSUME NEW t \in Tabs, NEW s \in Seq(Nat), inbox' = [inbox EXCEPT ![t] = s],
             ToSet(s) \subseteq ToSet(inbox[t])
      PROVE  Q
  BY <1>1, <1>3
<1>4. ASSUME NEW t \in Tabs, inbox[t] # <<>>, inbox' = [inbox EXCEPT ![t] = Tail(@)]
      PROVE  Q
  <2>1. /\ Tail(inbox[t]) \in Seq(Nat) /\ ToSet(Tail(inbox[t])) \subseteq ToSet(inbox[t])
        /\ inbox' = [inbox EXCEPT ![t] = Tail(inbox[t])]
    BY <1>1, <1>4, HeadMessage
  <2> QED
    BY <1>3, <2>1
<1>5. ASSUME NEW t \in Tabs, NEW m \in Nat, Broadcast(t, m), m \in {store', NoToken}
      PROVE  Q
  <2>1. \A u \in Tabs : /\ Append(inbox[u], m) \in Seq(Nat)
                        /\ ToSet(Append(inbox[u], m)) \subseteq ToSet(inbox[u]) \cup {m}
    BY <1>1, OneMore
  <2>2. /\ inbox' = [u \in Tabs |-> inbox'[u]]
        /\ \A u \in Tabs : inbox'[u] = IF u = t THEN inbox[u] ELSE Append(inbox[u], m)
    BY <1>5 DEF Broadcast
  <2>3. \A u \in Tabs : inbox'[u] \in Seq(Nat)
    BY <1>1, <2>1, <2>2
  <2>4. ASSUME NEW u \in Tabs
        PROVE  ToSet(inbox'[u]) \subseteq ToSet(inbox[u]) \cup {store', NoToken}
    <3>1. CASE u = t
      <4>1. inbox'[u] = inbox[u]
        BY <2>2, <3>1
      <4> QED
        BY <4>1
    <3>2. CASE u # t
      <4>1. inbox'[u] = Append(inbox[u], m)
        BY <2>2, <3>2
      <4>2. ToSet(inbox'[u]) \subseteq ToSet(inbox[u]) \cup {m}
        BY <2>1, <4>1
      <4> QED
        BY <1>5, <4>2
    <3> QED
      BY <3>1, <3>2
  <2> QED
    BY <2>2, <2>3, <2>4
<1> HIDE DEF Q
<1>6. ASSUME Unheeded \/ Lapses
      PROVE  Q
  <2>1. CASE inbox' = inbox
    BY <1>2, <2>1
  <2>2. CASE \E t \in Tabs : inbox[t] # <<>> /\ inbox' = [inbox EXCEPT ![t] = Tail(@)]
    BY <1>4, <2>2
  <2> QED
    BY <1>6, <2>1, <2>2 DEF Unheeded, Lapses
<1>7. ASSUME NEW t \in Tabs, RefreshStep(t)
      PROVE  Q
  <2>1. CASE Adopts(t)
    BY <1>4, <2>1 DEF Adopts, HearTokens
  <2>2. CASE RefreshOk(t)
    <3>1. refresh[t].new \in Nat
      BY DEF CoreOK, CoreTypes
    <3> QED
      BY <1>5, <2>2, <3>1 DEF RefreshOk
  <2>3. CASE RefreshRefused(t)
    BY <1>1, <1>5, <2>3 DEF RefreshRefused, AuthRequired
  <2>4. CASE RefreshCalled(t) \/ PeerTimeout(t) \/ Rotate(t) \/ RefuseReuse(t)
               \/ ServerError(t) \/ NetworkError(t) \/ RefreshFailed(t)
    BY <1>2, <2>4 DEF RefreshCalled, PeerTimeout, Rotate, RefuseReuse, ServerError,
       NetworkError, RefreshFailed
  <2> QED
    BY <1>7, <2>1, <2>2, <2>3, <2>4 DEF RefreshStep
<1>8. ASSUME NEW t \in Tabs, LoginStep(t)
      PROVE  Q
  <2>1. CASE Reload(t)
    BY <1>1, <1>3, <2>1, NoMessage DEF Reload
  <2>2. CASE ~Reload(t)
    BY <1>2, <1>8, <2>2 DEF LoginStep, Login, LogoutLocally, LogoutStart, LogoutRevokes,
       LogoutUnheard, LogoutEnds
  <2> QED
    BY <2>1, <2>2
<1> QED
  BY <1>6, <1>7, <1>8 DEF TokenStep, Q

\* A logout after a step.
LEMMA LogoutFlow ==
  ASSUME CoreOK, TokenStep
  PROVE  /\ logout' \in [Tabs -> [at : {"idle", "sent", "done"}, token : Nat]]
         /\ \A u \in Tabs :
              \/ logout'[u] = logout[u]
              \/ logout'[u] = NoLogout
              \/ /\ LogoutStart(u) /\ store # NoToken
                 /\ logout'[u] = [at |-> "sent", token |-> store]
              \/ /\ LogoutRevokes(u) \/ LogoutUnheard(u)
                 /\ logout[u].at = "sent"
                 /\ logout'[u] = [at |-> "done", token |-> logout[u].token]
<1> DEFINE T == [at : {"idle", "sent", "done"}, token : Nat]
           Moves(u) ==
              \/ logout'[u] = logout[u]
              \/ logout'[u] = NoLogout
              \/ /\ LogoutStart(u) /\ store # NoToken
                 /\ logout'[u] = [at |-> "sent", token |-> store]
              \/ /\ LogoutRevokes(u) \/ LogoutUnheard(u)
                 /\ logout[u].at = "sent"
                 /\ logout'[u] = [at |-> "done", token |-> logout[u].token]
<1>1. logout \in [Tabs -> T] /\ store \in Nat /\ NoLogout \in T
  BY DEF CoreOK, CoreTypes, NoLogout, NoToken
<1>2. ASSUME logout' = logout
      PROVE  logout' \in [Tabs -> T] /\ \A u \in Tabs : Moves(u)
  BY <1>1, <1>2
<1>3. ASSUME NEW t \in Tabs, NEW r \in T, logout' = [logout EXCEPT ![t] = r]
      PROVE  /\ logout' \in [Tabs -> T] /\ logout'[t] = r
             /\ Moves(t) => \A u \in Tabs : Moves(u)
  <2>1. logout' \in [Tabs -> T] /\ logout'[t] = r
        /\ \A u \in Tabs \ {t} : logout'[u] = logout[u]
    BY <1>1, <1>3
  <2> QED
    BY <2>1
<1>4. ASSUME NEW t \in Tabs, LoginStep(t)
      PROVE  logout' \in [Tabs -> T] /\ \A u \in Tabs : Moves(u)
  <2>1. CASE LogoutLocally(t) \/ LogoutEnds(t) \/ Reload(t)
    <3>1. logout' = [logout EXCEPT ![t] = NoLogout]
      BY <2>1 DEF LogoutLocally, LogoutEnds, LoggedOut, Reload
    <3> HIDE DEF T
    <3>2. Moves(t)
      BY <1>1, <1>3, <3>1
    <3> HIDE DEF Moves
    <3> QED
      BY <1>1, <1>3, <3>1, <3>2
  <2>2. CASE LogoutStart(t)
    <3> DEFINE r == [at |-> "sent", token |-> store]
    <3>1. r \in T
      BY <1>1
    <3>2. logout' = [logout EXCEPT ![t] = r] /\ store # NoToken
      BY <2>2 DEF LogoutStart
    <3> HIDE DEF T
    <3>3. Moves(t)
      BY <1>3, <2>2, <3>1, <3>2
    <3> HIDE DEF Moves
    <3> QED
      BY <1>3, <3>1, <3>2, <3>3
  <2>3. CASE LogoutRevokes(t) \/ LogoutUnheard(t)
    <3> DEFINE r == [at |-> "done", token |-> logout[t].token]
    <3>1. r \in T /\ logout[t] \in T
      BY <1>1
    <3>2. logout' = [logout EXCEPT ![t].at = "done"] /\ logout[t].at = "sent"
      BY <2>3 DEF LogoutRevokes, LogoutUnheard
    <3>3. \A x \in T : [x EXCEPT !.at = "done"] = [at |-> "done", token |-> x.token]
      OBVIOUS
    <3>4. logout' = [logout EXCEPT ![t] = r]
      BY <3>1, <3>2, <3>3
    <3> HIDE DEF T
    <3>5. Moves(t)
      BY <1>3, <2>3, <3>1, <3>2, <3>4
    <3> HIDE DEF Moves
    <3> QED
      BY <1>3, <3>1, <3>4, <3>5
  <2>4. CASE Login(t)
    BY <1>2, <2>4 DEF Login
  <2> QED
    BY <1>4, <2>1, <2>2, <2>3, <2>4 DEF LoginStep
<1>5. ASSUME NEW t \in Tabs, RefreshStep(t)
      PROVE  logout' = logout
  BY <1>5 DEF RefreshStep, RefreshCalled, Adopts, HearTokens, PeerTimeout, Rotate,
     RefuseReuse, ServerError, NetworkError, RefreshOk, RefreshRefused, RefreshFailed
<1>6. Unheeded \/ Lapses => logout' = logout
  BY DEF Unheeded, Lapses
<1>7. logout' \in [Tabs -> T] /\ \A u \in Tabs : Moves(u)
  <2> HIDE DEF T, Moves
  <2> QED
    BY <1>2, <1>4, <1>5, <1>6 DEF TokenStep
<1> QED
  BY <1>7

\* The logins that have ended after a step.
LEMMA EndedFlow ==
  ASSUME TokenStep
  PROVE  \/ ended' \subseteq ended
         \/ \E t \in Tabs : /\ LogoutEnds(t)
                            /\ ended' \subseteq ended \cup {rows[logout[t].token].login}
<1>1. Unheeded \/ Lapses => ended' = ended
  BY DEF Unheeded, Lapses
<1>2. ASSUME NEW t \in Tabs, RefreshStep(t)
      PROVE  ended' = ended
  BY <1>2 DEF RefreshStep, RefreshCalled, Adopts, HearTokens, PeerTimeout, Rotate,
     RefuseReuse, ServerError, NetworkError, RefreshOk, RefreshRefused, RefreshFailed
<1>3. ASSUME NEW t \in Tabs, LoginStep(t)
      PROVE  \/ ended' \subseteq ended
             \/ LogoutEnds(t) /\ ended' \subseteq ended \cup {rows[logout[t].token].login}
  <2>1. CASE LogoutLocally(t)
    <3>1. ended' = ended \cup {rows[i].login : i \in {NoToken} \ {NoToken}}
      BY <2>1 DEF LogoutLocally, LoggedOut
    <3> QED
      BY <3>1
  <2>2. CASE LogoutEnds(t)
    <3>1. ended' = ended \cup {rows[i].login : i \in {logout[t].token} \ {NoToken}}
      BY <2>2 DEF LogoutEnds, LoggedOut
    <3> QED
      BY <2>2, <3>1
  <2>3. CASE Login(t) \/ LogoutStart(t) \/ LogoutRevokes(t) \/ LogoutUnheard(t) \/ Reload(t)
    BY <2>3 DEF Login, LogoutStart, LogoutRevokes, LogoutUnheard, Reload
  <2> QED
    BY <1>3, <2>1, <2>2, <2>3 DEF LoginStep
<1> QED
  BY <1>1, <1>2, <1>3 DEF TokenStep

\* The rows there are keep their logins and come to life no more.
RowsKept ==
    /\ rows' \in Seq(Row) /\ Len(rows') \in Tokens /\ Len(rows) <= Len(rows')
    /\ \A i \in 1..Len(rows) : /\ rows'[i].login = rows[i].login
                               /\ Active(rows', i) => Active(rows, i)
    /\ \A i \in 1..Len(rows') : rows'[i].login <= i

LEMMA RowsStep ==
  ASSUME CoreOK, TokenStep
  PROVE  RowsKept
<1> DEFINE n == Len(rows)
<1>1. /\ rows \in Seq(Row) /\ n \in Nat /\ n \in Tokens /\ MaxTokens \in Nat
      /\ \A i \in 1..n : rows[i].login <= i
  BY BoundsAssumption DEF CoreOK, CoreTypes, CoreBounds, Tokens
<1>2. CASE Dimmed(rows')
  BY <1>1, <1>2 DEF Dimmed, RowsKept
<1>3. ASSUME NEW old \in 1..n, n < MaxTokens, Succeeded(rows', old)
      PROVE  RowsKept
  <2>1. rows[old] \in Row
    BY <1>1, LenProperties
  <2>2. rows[old].login <= old /\ rows[old].login \in Nat
    BY <1>1, <2>1 DEF Row, Tokens
  <2>3. \A i \in 1..n : rows'[i].login <= i
    BY <1>1, <1>3 DEF Succeeded
  <2>4. rows'[n + 1].login <= n + 1
    BY <1>1, <1>3, <2>2 DEF Succeeded
  <2>5. n + 1 \in Tokens /\ n <= n + 1
    BY <1>1, <1>3 DEF Tokens
  <2>6. \A i \in 1..n + 1 : rows'[i].login <= i
    <3>1. \A i \in 1..n + 1 : i \in 1..n \/ i = n + 1
      BY <1>1
    <3> QED
      BY <2>3, <2>4, <3>1
  <2>7. /\ rows' \in Seq(Row) /\ Len(rows') = n + 1
        /\ \A i \in 1..n : /\ rows'[i].login = rows[i].login
                           /\ Active(rows', i) => Active(rows, i)
    BY <1>3 DEF Succeeded
  <2> HIDE DEF n
  <2> QED
    BY <2>5, <2>6, <2>7 DEF RowsKept, n
<1>4. ASSUME n < MaxTokens, LoggedIn(rows')
      PROVE  RowsKept
  <2>1. \A i \in 1..n : rows'[i].login <= i
    BY <1>1, <1>4 DEF LoggedIn
  <2>2. rows'[n + 1].login <= n + 1
    BY <1>1, <1>4 DEF LoggedIn
  <2>3. \A i \in 1..n + 1 : i \in 1..n \/ i = n + 1
    BY <1>1
  <2>4. n + 1 \in Tokens /\ n <= n + 1
    BY <1>1, <1>4 DEF Tokens
  <2>5. \A i \in 1..n : Active(rows', i) => Active(rows, i)
    BY <1>4 DEF LoggedIn, Active
  <2> QED
    BY <1>4, <2>1, <2>2, <2>3, <2>4, <2>5 DEF LoggedIn, RowsKept
<1>5. ASSUME NEW t \in Tabs, Presented(t)
      PROVE  refresh[t].old \in 1..n
  BY <1>1, <1>5 DEF Presented, CoreOK, CoreTypes, CoreBounds, NoToken
<1> HIDE DEF n
<1> QED
  BY <1>2, <1>3, <1>4, <1>5, RowsFlow DEF n

LEMMA StoreStep ==
  ASSUME CoreOK, TokenStep
  PROVE  store' \in Nat /\ store' <= Len(rows')
<1>1. /\ Len(rows) \in Nat /\ Len(rows') \in Nat /\ Len(rows) <= Len(rows')
      /\ store \in Nat /\ store <= Len(rows) /\ NoToken = 0
  <2>1. Len(rows') \in Nat /\ Len(rows) <= Len(rows')
    BY RowsStep, BoundsAssumption DEF RowsKept, Tokens
  <2>2. Len(rows) \in Nat /\ store \in Nat /\ store <= Len(rows)
    BY BoundsAssumption DEF CoreOK, CoreTypes, CoreBounds, Tokens
  <2> QED
    BY <2>1, <2>2 DEF NoToken
<1>2. \A t \in Tabs : refresh[t].new \in Nat /\ refresh[t].new <= Len(rows)
  BY DEF CoreOK, CoreTypes, CoreBounds
<1>3. \A t \in Tabs : \A m \in ToSet(inbox[t]) : m <= Len(rows)
  BY DEF CoreOK, CoreBounds
<1>4. CASE store' = store \/ store' = NoToken
  BY <1>1, <1>4
<1>5. CASE \E t \in Tabs : store' = refresh[t].new
  BY <1>1, <1>2, <1>5
<1>6. CASE \E t \in Tabs : store' \in ToSet(inbox[t]) /\ store' \in Nat
  BY <1>1, <1>3, <1>6
<1>7. CASE store' = Len(rows) + 1 /\ Len(rows') = Len(rows) + 1
  BY <1>1, <1>7
<1> QED
  BY <1>4, <1>5, <1>6, <1>7, StoreFlow

LEMMA EndedStep ==
  ASSUME CoreOK, TokenStep
  PROVE  ended' \subseteq Nat /\ \A l \in ended' : l <= Len(rows')
<1>1. /\ Len(rows) \in Nat /\ Len(rows') \in Nat /\ Len(rows) <= Len(rows')
      /\ ended \subseteq Nat /\ \A l \in ended : l <= Len(rows)
  BY RowsStep, BoundsAssumption DEF CoreOK, CoreTypes, CoreBounds, RowsKept, Tokens
<1>2. CASE ended' \subseteq ended
  BY <1>1, <1>2
<1>3. ASSUME NEW t \in Tabs, LogoutEnds(t), ended' \subseteq ended \cup {rows[logout[t].token].login}
      PROVE  ended' \subseteq Nat /\ \A l \in ended' : l <= Len(rows')
  <2> DEFINE i == logout[t].token
  <2>1. i \in 1..Len(rows)
    BY <1>1, <1>3 DEF LogoutEnds, CoreOK, CoreTypes, CoreBounds, NoToken
  <2>2. rows[i].login \in Nat /\ rows[i].login <= i
    <3>1. rows[i] \in Row
      BY <2>1, LenProperties DEF CoreOK, CoreTypes
    <3> QED
      BY <2>1, <3>1 DEF Row, Tokens, CoreOK, CoreBounds
  <2> HIDE DEF i
  <2>3. rows[i].login <= Len(rows')
    BY <1>1, <2>1, <2>2
  <2>4. ASSUME NEW l \in ended'
        PROVE  l \in Nat /\ l <= Len(rows')
    <3>1. l \in ended \/ l = rows[i].login
      BY <1>3 DEF i
    <3>2. CASE l \in ended
      <4>1. l \in Nat /\ l <= Len(rows)
        BY <1>1, <3>2
      <4> QED
        BY <1>1, <4>1
    <3> QED
      BY <2>2, <2>3, <3>1, <3>2
  <2> QED
    BY <2>4
<1> QED
  BY <1>2, <1>3, EndedFlow

\* The tokens a refresh, an inbox and a logout hold are rows.
LEMMA HeldStep ==
  ASSUME CoreOK, TokenStep, NEW u \in Tabs
  PROVE  /\ refresh'[u].old <= Len(rows') /\ refresh'[u].new <= Len(rows')
         /\ logout'[u].token <= Len(rows')
         /\ \A m \in ToSet(inbox'[u]) : m <= Len(rows')
         /\ refresh'[u].at = "none" => refresh'[u] = NotRefreshing
         /\ refresh'[u].at # "none" => refresh'[u].old # NoToken
         /\ refresh'[u].new # NoToken <=> refresh'[u].at = "answered"
         /\ logout'[u].at # "idle" => logout'[u].token # NoToken
<1> DEFINE n == Len(rows)
           k == Len(rows')
<1>1. n \in Nat /\ k \in Nat /\ n <= k /\ store \in Nat /\ store <= n /\ NoToken = 0
  BY RowsStep, BoundsAssumption DEF CoreOK, CoreTypes, CoreBounds, RowsKept, Tokens, NoToken
<1>2. /\ refresh[u].old \in Nat /\ refresh[u].new \in Nat
      /\ refresh[u].old <= n /\ refresh[u].new <= n
      /\ refresh[u].at = "none" => refresh[u] = NotRefreshing
      /\ refresh[u].at # "none" => refresh[u].old # NoToken
      /\ refresh[u].new # NoToken <=> refresh[u].at = "answered"
  BY DEF CoreOK, CoreTypes, CoreBounds
<1>3. /\ logout[u].token \in Nat /\ logout[u].token <= n
      /\ logout[u].at # "idle" => logout[u].token # NoToken
  BY DEF CoreOK, CoreTypes, CoreBounds
<1>4. \A m \in ToSet(inbox[u]) : m <= n
  BY DEF CoreOK, CoreBounds
<1>5. inbox[u] \in Seq(Nat)
  BY DEF CoreOK, CoreTypes
<1>6. \A m \in ToSet(inbox'[u]) : m <= k
  <2>1. store' <= k
    BY StoreStep
  <2>2. ToSet(inbox'[u]) \subseteq ToSet(inbox[u]) \cup {store', NoToken}
    BY InboxFlow
  <2>3. \A m \in ToSet(inbox[u]) : m \in Nat
    BY <1>5, LenProperties DEF ToSet
  <2> HIDE DEF n, k
  <2> QED
    BY <1>1, <1>4, <2>1, <2>2, <2>3
<1>7. /\ logout'[u].token <= k
      /\ logout'[u].at # "idle" => logout'[u].token # NoToken
  <2> HIDE DEF n, k
  <2>1. CASE logout'[u] = logout[u]
    BY <1>1, <1>3, <2>1
  <2>2. CASE logout'[u] = NoLogout
    BY <1>1, <2>2 DEF NoLogout
  <2>3. CASE store # NoToken /\ logout'[u] = [at |-> "sent", token |-> store]
    BY <1>1, <2>3
  <2>4. CASE logout[u].at = "sent" /\ logout'[u] = [at |-> "done", token |-> logout[u].token]
    BY <1>1, <1>3, <2>4
  <2> QED
    BY <2>1, <2>2, <2>3, <2>4, LogoutFlow
<1> DEFINE Held ==
             /\ refresh'[u].old <= k /\ refresh'[u].new <= k
             /\ refresh'[u].at = "none" => refresh'[u] = NotRefreshing
             /\ refresh'[u].at # "none" => refresh'[u].old # NoToken
             /\ refresh'[u].new # NoToken <=> refresh'[u].at = "answered"
<1>8. Held
  <2>1. ASSUME Rotate(u)
        PROVE  k = n + 1 /\ refresh[u].old # NoToken
    <3>1. refresh[u].old \in 1..n /\ rows' = Rotated(refresh[u].old) /\ rows \in Seq(Row)
      BY <1>1, <1>2, <2>1 DEF Rotate, CoreOK, CoreTypes
    <3>2. Succeeded(Rotated(refresh[u].old), refresh[u].old)
      BY <3>1, RotatedRows
    <3> QED
      BY <1>1, <3>1, <3>2 DEF Succeeded
  <2> HIDE DEF n, k
  <2>2. CASE refresh'[u] = refresh[u]
    BY <1>1, <1>2, <2>2
  <2>3. CASE refresh'[u] = NotRefreshing
    BY <1>1, <2>3 DEF NotRefreshing
  <2>4. CASE store # NoToken /\ refresh'[u] = [at |-> "waiting", old |-> store, new |-> NoToken]
    BY <1>1, <2>4
  <2>5. ASSUME NEW p \in {"sent", "refused", "failed"}, refresh[u].at # "none",
               refresh'[u] = [at |-> p, old |-> refresh[u].old, new |-> NoToken]
        PROVE  Held
    BY <1>1, <1>2, <2>5
  <2>6. CASE /\ Rotate(u)
             /\ refresh'[u] = [at |-> "answered", old |-> refresh[u].old, new |-> n + 1]
    BY <1>1, <1>2, <2>1, <2>6
  <2> QED
    BY <2>2, <2>3, <2>4, <2>5, <2>6, RefreshFlow DEF n
<1> QED
  BY <1>6, <1>7, <1>8

LEMMA CoreStep ==
  ASSUME CoreOK, TokenStep
  PROVE  CoreOK'
<1>1. CoreTypes'
  BY RowsStep, StoreStep, RefreshFlow, InboxFlow, LogoutFlow, EndedStep DEF CoreTypes, RowsKept
<1>2. CoreBounds'
  BY RowsStep, StoreStep, HeldStep, EndedStep DEF CoreBounds, RowsKept
<1> QED
  BY <1>1, <1>2 DEF CoreOK

LEMMA CoreInit ==
  ASSUME AuthInit
  PROVE  CoreOK
<1> DEFINE r == [state |-> "active", login |-> 1]
<1>1. 1 \in Tokens /\ r \in Row
  BY BoundsAssumption DEF Tokens, Row
<1>2. rows = <<r>>
  BY DEF AuthInit
<1> HIDE DEF r
<1>3. rows \in Seq(Row) /\ Len(rows) = 1
  BY <1>1, <1>2
<1>4. <<>> \in Seq(Nat)
  OBVIOUS
<1>5. CoreTypes
  BY <1>1, <1>3, <1>4 DEF AuthInit, CoreTypes, NotRefreshing, NoLogout, NoToken
<1>6. rows[1].login = 1
  BY <1>2 DEF r
<1>7. ASSUME NEW t \in Tabs
      PROVE  refresh[t] = NotRefreshing /\ inbox[t] = <<>> /\ logout[t] = NoLogout
  BY DEF AuthInit
<1>8. CoreBounds
  <2>1. store = 1 /\ ended = {}
    BY DEF AuthInit
  <2>2. \A i \in 1..1 : i = 1
    OBVIOUS
  <2> QED
    BY <1>3, <1>6, <1>7, <2>1, <2>2, NoMessage DEF CoreBounds, NotRefreshing, NoLogout, NoToken
<1> QED
  BY <1>5, <1>8 DEF CoreOK

-----------------------------------------------------------------------------
(* The rows of a login form a chain, and only its last row can be active.  *)

LastActive ==
    \A i, j \in 1..Len(rows) :
       i < j /\ rows[i].login = rows[j].login => ~Active(rows, i)

\* Where the last row of a longer list of rows comes from.
LEMMA LoginBounds ==
  ASSUME CoreOK
  PROVE  /\ Len(rows) \in Nat
         /\ \A i \in 1..Len(rows) : rows[i].login \in Nat /\ rows[i].login <= i
         /\ \A t \in Tabs : Presented(t) => refresh[t].old \in 1..Len(rows)
<1>1. rows \in Seq(Row) /\ Len(rows) \in Nat
  BY DEF CoreOK, CoreTypes, Tokens
<1>2. \A i \in 1..Len(rows) : rows[i] \in Row
  BY <1>1, LenProperties
<1>3. \A t \in Tabs : Presented(t) => refresh[t].old \in 1..Len(rows)
  BY <1>1 DEF Presented, CoreOK, CoreTypes, CoreBounds, NoToken
<1> QED
  BY <1>1, <1>2, <1>3 DEF Row, Tokens, CoreOK, CoreBounds

LEMMA LastActiveStep ==
  ASSUME CoreOK, LastActive, TokenStep
  PROVE  LastActive'
<1> DEFINE n == Len(rows)
<1>1. n \in Nat /\ \A i \in 1..n : rows[i].login \in Nat /\ rows[i].login <= i
  BY LoginBounds
<1>2. RowsKept
  BY RowsStep
<1> SUFFICES ASSUME NEW i \in 1..Len(rows'), NEW j \in 1..Len(rows'),
                    i < j, rows'[i].login = rows'[j].login, Active(rows', i)
             PROVE  FALSE
  BY DEF LastActive
<1>3. ASSUME j \in 1..n
      PROVE  FALSE
  <2>1. i \in 1..n
    BY <1>1, <1>2, <1>3 DEF RowsKept
  <2>2. rows[i].login = rows[j].login /\ Active(rows, i)
    BY <1>2, <1>3, <2>1 DEF RowsKept
  <2> QED
    BY <1>3, <2>1, <2>2 DEF LastActive
<1>4. CASE Dimmed(rows')
  BY <1>3, <1>4 DEF Dimmed
<1>5. ASSUME NEW t \in Tabs, Presented(t), Succeeded(rows', refresh[t].old)
      PROVE  FALSE
  <2> DEFINE old == refresh[t].old
  <2>1. old \in 1..n /\ Active(rows, old)
    BY <1>5, LoginBounds DEF Presented
  <2>2. CASE j = n + 1
    <3>1. i \in 1..n /\ rows'[j].login = rows[old].login
      BY <1>1, <1>5, <2>2 DEF Succeeded
    <3>2. rows[i].login = rows[old].login /\ Active(rows, i) /\ i # old
      BY <1>5, <3>1 DEF Succeeded
    <3>3. i < old \/ old < i
      BY <1>1, <2>1, <3>1, <3>2
    <3> QED
      BY <2>1, <3>1, <3>2, <3>3 DEF LastActive
  <2>3. j \in 1..n \/ j = n + 1
    <3>1. Len(rows') = n + 1
      BY <1>5 DEF Succeeded
    <3> QED
      BY <1>1, <3>1
  <2> QED
    BY <1>3, <2>2, <2>3
<1>6. CASE LoggedIn(rows')
  <2>1. CASE j = n + 1
    <3>1. i \in 1..n /\ rows'[j].login = n + 1
      BY <1>1, <1>6, <2>1 DEF LoggedIn
    <3>2. rows[i].login <= n
      BY <1>1, <3>1
    <3>3. rows'[i].login = rows[i].login
      BY <1>6, <3>1 DEF LoggedIn
    <3> QED
      BY <1>1, <3>1, <3>2, <3>3
  <2>2. j \in 1..n \/ j = n + 1
    BY <1>1, <1>6 DEF LoggedIn
  <2> QED
    BY <1>3, <2>1, <2>2
<1> QED
  BY <1>4, <1>5, <1>6, RowsFlow

\* The token that an answer brings: the browser has it nowhere else, and it is
\* the last row of its login.
NewToken(u) ==
    LET n == refresh[u].new IN
    /\ store # n
    /\ \A v \in Tabs : /\ refresh[v].old # n /\ n \notin ToSet(inbox[v])
                       /\ logout[v].token # n
                       /\ v # u => refresh[v].new # n
    /\ rows[n].login = rows[refresh[u].old].login
    /\ \A j \in 1..Len(rows) : j > n => rows[j].login # rows[n].login
NewInv == \A u \in Tabs : refresh[u].at = "answered" => NewToken(u)

\* A refresh that has its answer and goes on has done nothing.
LEMMA AnsweredStep ==
  ASSUME CoreOK, TokenStep, NEW u \in Tabs, refresh'[u].at = "answered"
  PROVE  \/ refresh'[u] = refresh[u] /\ ~RefreshOk(u) /\ ~Reload(u)
         \/ Rotate(u)
<1>1. refresh'[u] # NotRefreshing
  BY DEF NotRefreshing
<1>2. refresh \in [Tabs -> [at : {"none", "waiting", "sent", "answered",
                                         "refused", "failed"},
                                   old : Nat, new : Nat]]
  BY DEF CoreOK, CoreTypes
<1>3. ~RefreshOk(u) /\ ~Reload(u)
  BY <1>1, <1>2 DEF RefreshOk, Reload
<1>4. \/ refresh'[u] = refresh[u] 
      \/ refresh'[u] = NotRefreshing
      \/ Rotate(u)
      \/ refresh'[u].at \in {"waiting", "sent", "refused", "failed"}
  BY RefreshFlow
<1> QED
  BY <1>1, <1>3, <1>4


LEMMA NewStep ==
  ASSUME CoreOK, LastActive, NewInv, TokenStep
  PROVE  NewInv'
<1> SUFFICES ASSUME NEW u \in Tabs, refresh'[u].at = "answered"
             PROVE  NewToken(u)'
  BY DEF NewInv
<1> DEFINE n == Len(rows)
           k == refresh'[u].new
<1>1. n \in Nat /\ \A i \in 1..n : rows[i].login \in Nat /\ rows[i].login <= i
  BY LoginBounds
<1>2. RowsKept /\ store \in Nat /\ store <= n
  BY RowsStep DEF CoreOK, CoreTypes, CoreBounds
<1>3. \A v \in Tabs : /\ refresh[v].old \in Nat /\ refresh[v].old <= n
                      /\ refresh[v].new \in Nat /\ refresh[v].new <= n
                      /\ logout[v].token \in Nat /\ logout[v].token <= n
                      /\ \A m \in ToSet(inbox[v]) : m <= n
  BY DEF CoreOK, CoreTypes, CoreBounds
<1>4. CASE Rotate(u)
  <2>1. /\ UNCHANGED <<store, inbox, logout>>
        /\ rows' = Rotated(refresh[u].old) /\ Presented(u)
    BY <1>4 DEF Rotate, Presented, IsActive, Active
  <2>2. /\ refresh'[u].new = n + 1 /\ refresh'[u].old = refresh[u].old
        /\ \A v \in Tabs : /\ refresh'[v].old = refresh[v].old
                           /\ v # u => refresh'[v] = refresh[v]
    BY <1>4 DEF Rotate, CoreOK, CoreTypes
  <2>3. refresh[u].old \in 1..n /\ rows \in Seq(Row)
    BY <2>1, LoginBounds DEF CoreOK, CoreTypes
  <2>4. Succeeded(rows', refresh[u].old)
    BY <2>1, <2>3, RotatedRows
  <2>5. /\ Len(rows') = n + 1 /\ rows'[n + 1].login = rows[refresh[u].old].login
        /\ rows'[refresh[u].old].login = rows[refresh[u].old].login
    BY <2>3, <2>4 DEF Succeeded
  <2>6. ASSUME NEW v \in Tabs
        PROVE  refresh'[v].old # k /\ k \notin ToSet(inbox'[v]) /\ logout'[v].token # k
    <3>1. k = n + 1 /\ ~(n + 1 <= n)
      BY <1>1, <2>2
    <3>2. k \notin ToSet(inbox'[v])
      BY <1>3, <2>1, <3>1
    <3>3. refresh'[v].old <= n /\ logout'[v].token <= n
      BY <1>3, <2>1, <2>2
    <3> HIDE DEF n
    <3> QED
      BY <3>1, <3>2, <3>3
  <2>7. \A v \in Tabs : v # u => refresh'[v].new # k
    BY <1>1, <1>3, <2>2
  <2>8. store' # k
    BY <1>1, <1>2, <2>1, <2>2
  <2>9. rows'[k].login = rows'[refresh'[u].old].login
    BY <2>2, <2>5
  <2>10. \A j \in 1..Len(rows') : ~(j > k)
    BY <1>1, <2>2, <2>5
  <2> HIDE DEF n
  <2> QED
    BY <2>6, <2>7, <2>8, <2>9, <2>10 DEF NewToken
<1>5. CASE refresh'[u] = refresh[u] /\ ~RefreshOk(u)
  <2>1. refresh[u].at = "answered" /\ k = refresh[u].new /\ NewToken(u)
    BY <1>5 DEF NewInv
  <2>2. k \in 1..n /\ NoToken \in Nat /\ NoToken # k
    BY <1>1, <1>3, <2>1 DEF CoreOK, CoreBounds, NoToken
  <2>3. /\ store # k
        /\ \A v \in Tabs : /\ refresh[v].old # k /\ k \notin ToSet(inbox[v])
                           /\ logout[v].token # k
                           /\ v # u => refresh[v].new # k
        /\ rows[k].login = rows[refresh[u].old].login
        /\ \A j \in 1..n : j > k => rows[j].login # rows[k].login
    BY <2>1 DEF NewToken
  <2> HIDE DEF k
  <2>4. store' # k
    <3>1. CASE store' = store \/ store' = NoToken
      BY <2>2, <2>3, <3>1
    <3>2. ASSUME NEW t \in Tabs, RefreshOk(t), store' = refresh[t].new
          PROVE  store' # k
      BY <1>5, <2>3, <3>2
    <3>3. ASSUME NEW t \in Tabs, store' \in ToSet(inbox[t])
          PROVE  store' # k
      BY <2>3, <3>3
    <3>4. CASE store' = n + 1
      BY <1>1, <2>2, <3>4
    <3> QED
      BY <3>1, <3>2, <3>3, <3>4, StoreFlow
  <2>5. \A v \in Tabs : k \notin ToSet(inbox'[v])
    BY <2>2, <2>3, <2>4, InboxFlow
  <2>6. ASSUME NEW v \in Tabs
        PROVE  refresh'[v].old # k /\ (v # u => refresh'[v].new # k)
    <3>1. refresh[v].old # k /\ (v # u => refresh[v].new # k) /\ store # k
      BY <2>3
    <3>2. NotRefreshing.old # k /\ NotRefreshing.new # k
      BY <2>2 DEF NotRefreshing
    <3>3. n + 1 # k
      BY <1>1, <2>2
    <3> HIDE DEF n
    <3>4. \/ refresh'[v] = refresh[v]
          \/ refresh'[v] = NotRefreshing
          \/ refresh'[v].old \in {store, refresh[v].old} /\ refresh'[v].new \in {NoToken, n + 1}
      BY RefreshFlow DEF n
    <3> QED
      BY <2>2, <3>1, <3>2, <3>3, <3>4
  <2>7. ASSUME NEW v \in Tabs
        PROVE  logout'[v].token # k
    <3>1. logout'[v].token \in {logout[v].token, NoToken, store}
      BY LogoutFlow DEF NoLogout
    <3> QED
      BY <2>2, <2>3, <3>1
  <2>8. /\ refresh[u].old \in 1..n /\ refresh'[u].old = refresh[u].old
        /\ rows'[k].login = rows[k].login
        /\ rows'[refresh[u].old].login = rows[refresh[u].old].login
    <3>1. refresh[u].old \in 1..n
      BY <1>1, <1>3, <2>1 DEF CoreOK, CoreBounds, NoToken
    <3> QED
      BY <1>2, <1>5, <2>2, <3>1 DEF RowsKept
  <2>9. ASSUME NEW j \in 1..Len(rows'), j > k
        PROVE  rows'[j].login # rows[k].login
    <3>1. CASE j \in 1..n
      BY <1>2, <2>3, <2>9, <3>1 DEF RowsKept
    <3>2. ASSUME NEW t \in Tabs, Presented(t), Succeeded(rows', refresh[t].old), j = n + 1
          PROVE  rows'[j].login # rows[k].login
      <4> DEFINE old == refresh[t].old
      <4>1. old \in 1..n /\ Active(rows, old) /\ old # k
        BY <2>3, <3>2, LoginBounds DEF Presented
      <4>2. rows'[j].login = rows[old].login
        BY <3>2 DEF Succeeded
      <4> HIDE DEF old
      <4>3. CASE old < k
        BY <2>2, <4>1, <4>2, <4>3 DEF LastActive
      <4>4. CASE old > k
        BY <2>3, <4>1, <4>2, <4>4
      <4> QED
        BY <1>1, <2>2, <4>1, <4>3, <4>4
    <3>3. CASE LoggedIn(rows') /\ j = n + 1
      <4>1. rows'[j].login = n + 1 /\ rows[k].login <= n
        BY <1>1, <2>2, <3>3 DEF LoggedIn
      <4> QED
        BY <1>1, <2>2, <4>1
    <3>4. j \in 1..n \/ (j = n + 1 /\ ~Dimmed(rows'))
      <4>1. Len(rows') = n \/ (Len(rows') = n + 1 /\ ~Dimmed(rows'))
        BY <1>1, RowsFlow DEF Dimmed, Succeeded, LoggedIn
      <4> QED
        BY <1>1, <4>1
    <3> QED
      BY <3>1, <3>2, <3>3, <3>4, RowsFlow
  <2>10. rows'[k].login = rows'[refresh'[u].old].login
    BY <2>3, <2>8
  <2>11. \A j \in 1..Len(rows') : j > k => rows'[j].login # rows'[k].login
    BY <2>8, <2>9
  <2> HIDE DEF n
  <2> QED
    BY <2>4, <2>5, <2>6, <2>7, <2>10, <2>11 DEF NewToken, k
<1> QED
  BY <1>4, <1>5, AnsweredStep

-----------------------------------------------------------------------------
(* A logout is final.                                                      *)

\* What LogoutIsFinal excepts has not happened.
Final == harm \cap {"crossed", "unrevoked", "lost", "old news"} = {}

EndedInv == \A i \in 1..Len(rows) : rows[i].login \in ended => ~Active(rows, i)

LogoutInv ==
    \A t \in Tabs : \A j \in 1..Len(rows) :
      logout[t].at # "idle" /\ rows[j].login = rows[logout[t].token].login /\ Active(rows, j)
        => logout[t].at = "sent" /\ j = logout[t].token

\* The store may miss the active token of its login while an answer is awaited.
Awaited(j) ==
    \E t \in Tabs : \/ refresh[t].at = "answered" /\ refresh[t].new = j
                    \/ refresh[t].at = "refused"
StoreInv ==
    store # NoToken => \A j \in 1..Len(rows) :
      rows[j].login = rows[store].login /\ Active(rows, j) => j = store \/ Awaited(j)

LiveInv ==
    /\ store # NoToken => rows[store].login \notin ended
    /\ \A t \in Tabs : refresh[t].at = "answered" => rows[refresh[t].new].login \notin ended

FinalInv ==
    /\ CrossInv /\ LastActive /\ NewInv
    /\ Final => EndedInv /\ LogoutInv /\ StoreInv /\ LiveInv

\* A refresh that has its answer ends with it, or the page is loaded again.
LEMMA AnswerEnds ==
  ASSUME CoreOK, TokenStep, NEW u \in Tabs, refresh[u].at \in {"answered", "refused"}
  PROVE  \/ refresh'[u] = refresh[u]
         \/ RefreshOk(u) /\ refresh[u].at = "answered"
         \/ RefreshRefused(u)
         \/ "lost" \in harm'
<1>1. refresh \in [Tabs -> [at : {"none", "waiting", "sent", "answered", "refused", "failed"},
                            old : Nat, new : Nat]]
  BY DEF CoreOK, CoreTypes
<1>2. Unheeded \/ Lapses => refresh'[u] = refresh[u]
  BY DEF Unheeded, Lapses
<1>3. ASSUME NEW t \in Tabs, RefreshStep(t)
      PROVE  \/ refresh'[u] = refresh[u]
             \/ RefreshOk(u) /\ refresh[u].at = "answered"
             \/ RefreshRefused(u)
  <2>1. CASE t = u
    <3>1. CASE RefreshCalled(u)
      BY <3>1 DEF RefreshCalled, Refreshing
    <3>2. CASE RefreshOk(u) \/ RefreshRefused(u)
      BY <3>2 DEF RefreshOk
    <3>3. ~Adopts(u) /\ ~PeerTimeout(u) /\ ~Rotate(u) /\ ~RefuseReuse(u) /\ ~ServerError(u)
            /\ ~NetworkError(u) /\ ~RefreshFailed(u)
      BY DEF Adopts, PeerTimeout, Rotate, RefuseReuse, ServerError, NetworkError, RefreshFailed
    <3> QED
      BY <1>3, <2>1, <3>1, <3>2, <3>3 DEF RefreshStep
  <2>2. CASE t # u
    <3>1. CASE RefreshCalled(t)
      BY <1>1, <2>2, <3>1 DEF RefreshCalled, Refreshing
    <3>2. CASE Adopts(t) \/ RefreshOk(t) \/ RefreshRefused(t) \/ RefreshFailed(t)
      <4>1. refresh' = [refresh EXCEPT ![t] = NotRefreshing]
        BY <3>2 DEF Adopts, HearTokens, RefreshOk, RefreshRefused, RefreshFailed
      <4> QED
        BY <1>1, <2>2, <4>1
    <3>3. CASE PeerTimeout(t) \/ RefuseReuse(t) \/ ServerError(t) \/ NetworkError(t)
      <4>1. \E p : refresh' = [refresh EXCEPT ![t].at = p]
        BY <3>3 DEF PeerTimeout, RefuseReuse, ServerError, NetworkError
      <4> QED
        BY <1>1, <2>2, <4>1
    <3>4. CASE Rotate(t)
      BY <1>1, <2>2, <3>4 DEF Rotate
    <3> QED
      BY <1>3, <3>1, <3>2, <3>3, <3>4 DEF RefreshStep
  <2> QED
    BY <2>1, <2>2
<1>4. ASSUME NEW t \in Tabs, LoginStep(t)
      PROVE  refresh'[u] = refresh[u] \/ "lost" \in harm'
  <2>1. CASE Reload(t)
    <3>1. refresh' = [refresh EXCEPT ![t] = NotRefreshing]
      BY <2>1 DEF Reload
    <3>2. CASE t = u
      BY <2>1, <3>2 DEF Reload, Note
    <3> QED
      BY <1>1, <3>1, <3>2
  <2>2. CASE ~Reload(t)
    BY <1>4, <2>2 DEF LoginStep, Login, LogoutLocally, LogoutStart, LogoutRevokes,
       LogoutUnheard, LogoutEnds
  <2> QED
    BY <2>1, <2>2
<1> QED
  BY <1>2, <1>3, <1>4 DEF TokenStep

\* A token that succeeds another is awaited, or its answer was lost.
LEMMA SuccessorAwaited ==
  ASSUME CoreOK, TokenStep, Len(rows') = Len(rows) + 1, ~LoggedIn(rows')
  PROVE  \/ \E t \in Tabs : \/ refresh'[t].at = "answered" /\ refresh'[t].new = Len(rows) + 1
                            \/ refresh'[t].at = "refused"
         \/ "lost" \in harm'
<1>1. refresh \in [Tabs -> [at : {"none", "waiting", "sent", "answered", "refused", "failed"},
                            old : Nat, new : Nat]]
  BY DEF CoreOK, CoreTypes
<1>2. rows' # rows /\ ~Dimmed(rows')
  BY RowsStep, LoginBounds DEF RowsKept, Dimmed, Tokens
<1>3. ~Unheeded /\ ~Lapses
  BY <1>2, Lapsed DEF Unheeded, Lapses, CoreOK, CoreTypes
<1>4. ASSUME NEW t \in Tabs, RefreshStep(t)
      PROVE  \/ refresh'[t].at = "answered" /\ refresh'[t].new = Len(rows) + 1
             \/ refresh'[t].at = "refused"
             \/ "lost" \in harm'
  <2>1. CASE Rotate(t)
    BY <1>1, <2>1 DEF Rotate
  <2>2. CASE RefuseReuse(t) \/ ServerError(t)
    BY <1>1, <2>2 DEF RefuseReuse, ServerError
  <2>3. CASE NetworkError(t)
    BY <1>2, <2>3 DEF NetworkError, Note
  <2>4. CASE RefreshCalled(t) \/ Adopts(t) \/ PeerTimeout(t) \/ RefreshOk(t)
               \/ RefreshRefused(t) \/ RefreshFailed(t)
    BY <1>2, <2>4 DEF RefreshCalled, Adopts, HearTokens, PeerTimeout, RefreshOk,
       RefreshRefused, RefreshFailed, serverVars
  <2> QED
    BY <1>4, <2>1, <2>2, <2>3, <2>4 DEF RefreshStep
<1>5. ASSUME NEW t \in Tabs, LoginStep(t)
      PROVE  "lost" \in harm'
  <2>1. CASE Reload(t)
    BY <1>2, <2>1 DEF Reload, Note
  <2>2. CASE LogoutRevokes(t)
    BY <1>2, <2>2, Revoked DEF LogoutRevokes, CoreOK, CoreTypes
  <2>3. CASE LogoutLocally(t) \/ LogoutStart(t) \/ LogoutUnheard(t) \/ LogoutEnds(t)
    BY <1>2, <2>3 DEF LogoutLocally, LogoutStart, LogoutUnheard, LogoutEnds, serverVars
  <2>4. ~Login(t)
    <3>1. Len(rows) \in Nat /\ rows \in Seq(Row)
      BY DEF CoreOK, CoreTypes, Tokens
    <3> DEFINE new == [state |-> "active", login |-> Len(rows) + 1]
    <3>2. ASSUME Login(t)
          PROVE  new \in Row /\ new.login = Len(rows) + 1 /\ rows' = Append(rows, new)
      BY <3>1, <3>2, BoundsAssumption DEF Login, Row, Tokens
    <3> HIDE DEF new
    <3> QED
      BY <3>1, <3>2, AppendProperties DEF LoggedIn
  <2> QED
    BY <1>5, <2>1, <2>2, <2>3, <2>4 DEF LoginStep
<1> QED
  BY <1>3, <1>4, <1>5 DEF TokenStep


\* Where an active row comes from.
LEMMA ActiveRow ==
  ASSUME CoreOK, TokenStep, NEW j \in 1..Len(rows'), Active(rows', j)
  PROVE  \/ j \in 1..Len(rows) /\ Active(rows, j) /\ rows'[j].login = rows[j].login
         \/ /\ j = Len(rows) + 1 /\ Len(rows') = Len(rows) + 1 /\ ~LoggedIn(rows')
            /\ \E t \in Tabs : /\ Presented(t) /\ refresh[t].old \in 1..Len(rows)
                               /\ rows'[j].login = rows[refresh[t].old].login
         \/ /\ j = Len(rows) + 1 /\ LoggedIn(rows') /\ store' = Len(rows) + 1
            /\ \E t \in Tabs : Login(t)
<1> DEFINE n == Len(rows)
<1>1. n \in Nat /\ \A i \in 1..n : rows[i].login \in Nat /\ rows[i].login <= i
  BY LoginBounds
<1>2. ASSUME j \in 1..n
      PROVE  Active(rows, j) /\ rows'[j].login = rows[j].login
  BY <1>2, RowsStep DEF RowsKept
<1>3. CASE Dimmed(rows')
  BY <1>2, <1>3 DEF Dimmed
<1>4. ASSUME NEW t \in Tabs, Presented(t), Succeeded(rows', refresh[t].old)
      PROVE  \/ j \in 1..n
             \/ /\ j = n + 1 /\ Len(rows') = n + 1 /\ ~LoggedIn(rows')
                /\ refresh[t].old \in 1..n /\ rows'[j].login = rows[refresh[t].old].login
  <2>1. Len(rows') = n + 1 /\ rows'[n + 1].login = rows[refresh[t].old].login
    BY <1>4 DEF Succeeded
  <2>2. refresh[t].old \in 1..n
    BY <1>4, LoginBounds
  <2>3. rows'[n + 1].login # n + 1
    BY <1>1, <2>1, <2>2
  <2>4. ~LoggedIn(rows')
    BY <2>3 DEF LoggedIn
  <2>5. j \in 1..n \/ j = n + 1
    BY <1>1, <2>1
  <2> HIDE DEF n
  <2> QED
    BY <2>1, <2>2, <2>4, <2>5
<1>5. CASE LoggedIn(rows') /\ store' = n + 1 /\ \E t \in Tabs : Login(t)
  <2>1. j \in 1..n \/ j = n + 1
    BY <1>1, <1>5 DEF LoggedIn
  <2> HIDE DEF n
  <2> QED
    BY <1>2, <1>5, <2>1 DEF n
<1> QED
  BY <1>2, <1>3, <1>4, <1>5, RowsFlow

LEMMA Excepted ==
  ASSUME CoreOK, CrossInv, TokenStep, Final'
  PROVE  /\ Final /\ CrossInv'
         /\ \A h \in {"crossed", "unrevoked", "lost", "old news"} : h \notin harm'
         /\ \A t, u \in Tabs : logout[t].at = "idle" \/ refresh[u].at = "none"
         /\ \A t, u \in Tabs : logout'[t].at = "idle" \/ refresh'[u].at = "none"
<1>1. CrossInv' /\ harm \subseteq harm'
  BY CrossStep DEF CoreOK
<1> QED
  BY <1>1 DEF Final, CrossInv

LEMMA EndedKept ==
  ASSUME CoreOK, CrossInv, EndedInv, LogoutInv, TokenStep, Final'
  PROVE  EndedInv'
<1> SUFFICES ASSUME NEW j \in 1..Len(rows'), rows'[j].login \in ended', Active(rows', j)
             PROVE  FALSE
  BY DEF EndedInv
<1>1. /\ Len(rows) \in Nat /\ ended \subseteq Nat /\ \A l \in ended : l <= Len(rows)
  BY LoginBounds DEF CoreOK, CoreTypes, CoreBounds
<1>2. CASE ended' \subseteq ended
  <2>1. CASE j \in 1..Len(rows) /\ Active(rows, j) /\ rows'[j].login = rows[j].login
    BY <1>2, <2>1 DEF EndedInv
  <2>2. ASSUME NEW t \in Tabs, Presented(t), refresh[t].old \in 1..Len(rows),
               rows'[j].login = rows[refresh[t].old].login
        PROVE  FALSE
    BY <1>2, <2>2 DEF EndedInv, Presented
  <2>3. CASE j = Len(rows) + 1 /\ LoggedIn(rows')
    <3>1. Len(rows) + 1 \in ended
      BY <1>2, <2>3 DEF LoggedIn
    <3> QED
      BY <1>1, <3>1
  <2> QED
    BY <2>1, <2>2, <2>3, ActiveRow
<1>3. ASSUME NEW t \in Tabs, LogoutEnds(t),
             ended' \subseteq ended \cup {rows[logout[t].token].login}
      PROVE  FALSE
  <2>1. rows' = rows /\ logout[t].at = "done"
    BY <1>3 DEF LogoutEnds, serverVars
  <2>2. rows[j].login \notin ended
    BY <2>1 DEF EndedInv
  <2>3. rows[j].login = rows[logout[t].token].login
    BY <1>3, <2>1, <2>2
  <2> QED
    BY <2>1, <2>3 DEF LogoutInv
<1> QED
  BY <1>2, <1>3, EndedFlow

\* A token taken from a sibling is the stored one, unless it is old news.
LEMMA AdoptsSame ==
  ASSUME NEW t \in Tabs, Adopts(t), "old news" \notin harm'
  PROVE  store' = store
BY DEF Adopts, HearTokens, Note

LEMMA LiveKept ==
  ASSUME CoreOK, CrossInv, EndedInv, LiveInv, TokenStep, Final'
  PROVE  LiveInv'
<1> DEFINE n == Len(rows)
<1>1. /\ n \in Nat /\ ended \subseteq Nat /\ \A l \in ended : l <= n
  BY LoginBounds DEF CoreOK, CoreTypes, CoreBounds
<1>2. RowsKept
  BY RowsStep
<1>3. ASSUME ended' \subseteq ended, store' # NoToken
      PROVE  rows'[store'].login \notin ended'
  <2>1. CASE store' = store
    <3>1. store \in 1..n /\ rows[store].login \notin ended
      BY <1>1, <1>3, <2>1 DEF CoreOK, CoreTypes, CoreBounds, LiveInv, NoToken
    <3> QED
      BY <1>2, <1>3, <2>1, <3>1 DEF RowsKept
  <2>2. ASSUME NEW t \in Tabs, refresh[t].at = "answered", store' = refresh[t].new
        PROVE  rows'[store'].login \notin ended'
    <3>1. refresh[t].new \in 1..n
      BY <1>1, <1>3, <2>2 DEF CoreOK, CoreTypes, CoreBounds, NoToken
    <3>2. rows[refresh[t].new].login \notin ended
      BY <2>2 DEF LiveInv
    <3> QED
      BY <1>2, <1>3, <2>2, <3>1, <3>2 DEF RowsKept
  <2>3. ASSUME NEW t \in Tabs, Adopts(t)
        PROVE  store' = store
    BY <2>3, AdoptsSame, Excepted
  <2>4. ASSUME NEW t \in Tabs, Login(t), store' = n + 1, Len(rows') = n + 1
        PROVE  rows'[store'].login \notin ended'
    <3>1. LoggedIn(rows')
      <4>1. rows' = Append(rows, [state |-> "active", login |-> n + 1]) /\ n + 1 <= MaxTokens
        BY <2>4 DEF Login
      <4>2. [state |-> "active", login |-> n + 1] \in Row
        BY <1>1, <4>1, BoundsAssumption DEF Row, Tokens
      <4>3. rows \in Seq(Row)
        BY DEF CoreOK, CoreTypes
      <4> QED
        BY <4>1, <4>2, <4>3, AppendProperties DEF LoggedIn
    <3>2. rows'[store'].login = n + 1
      BY <2>4, <3>1 DEF LoggedIn
    <3> QED
      BY <1>1, <1>3, <3>2
  <2> QED
    BY <1>3, <2>1, <2>2, <2>3, <2>4, StoreFlow
<1>4. ASSUME NEW u \in Tabs, ended' \subseteq ended, refresh'[u].at = "answered"
      PROVE  rows'[refresh'[u].new].login \notin ended'
  <2>1. CASE refresh'[u] = refresh[u]
    <3>1. refresh[u].new \in 1..n
      BY <1>1, <1>4, <2>1 DEF CoreOK, CoreTypes, CoreBounds, NoToken
    <3>2. rows[refresh[u].new].login \notin ended
      BY <1>4, <2>1 DEF LiveInv
    <3> QED
      BY <1>2, <1>4, <2>1, <3>1, <3>2 DEF RowsKept
  <2>2. CASE Rotate(u)
    <3>1. Presented(u) /\ rows' = Rotated(refresh[u].old) /\ rows \in Seq(Row)
      BY <2>2 DEF Rotate, Presented, IsActive, Active, CoreOK, CoreTypes
    <3>2. refresh[u].old \in 1..n
      BY <3>1, LoginBounds
    <3>3. rows'[n + 1].login = rows[refresh[u].old].login
      BY <3>1, <3>2, RotatedRows DEF Succeeded
    <3>4. refresh'[u].new = n + 1
      BY <2>2 DEF Rotate, CoreOK, CoreTypes
    <3>5. rows[refresh[u].old].login \notin ended
      BY <3>1, <3>2 DEF EndedInv, Presented
    <3> QED
      BY <1>4, <3>3, <3>4, <3>5
  <2> QED
    BY <1>4, <2>1, <2>2, AnsweredStep
<1>5. ASSUME NEW t \in Tabs, LogoutEnds(t)
      PROVE  LiveInv'
  <2>1. store' = NoToken /\ refresh' = refresh /\ logout[t].at # "idle"
    BY <1>5 DEF LogoutEnds, LoggedOut
  <2>2. \A u \in Tabs : refresh[u].at = "none"
    BY <2>1, Excepted
  <2> QED
    BY <2>1, <2>2 DEF LiveInv
<1>6. CASE ended' \subseteq ended
  BY <1>3, <1>4, <1>6 DEF LiveInv
<1> QED
  BY <1>5, <1>6, EndedFlow


LEMMA LogoutKept ==
  ASSUME CoreOK, CrossInv, LogoutInv, StoreInv, TokenStep, Final'
  PROVE  LogoutInv'
<1> SUFFICES ASSUME NEW t \in Tabs, NEW j \in 1..Len(rows'), logout'[t].at # "idle",
                    rows'[j].login = rows'[logout'[t].token].login, Active(rows', j)
             PROVE  logout'[t].at = "sent" /\ j = logout'[t].token
  BY DEF LogoutInv
<1> DEFINE n == Len(rows)
<1>1. /\ n \in Nat /\ \A i \in 1..n : rows[i].login \in Nat /\ rows[i].login <= i
  BY LoginBounds
<1>2. RowsKept
  BY RowsStep
<1>3. CASE logout'[t] = logout[t]
  <2>1. logout[t].token \in 1..n /\ logout[t].at # "idle"
    BY <1>1, <1>3 DEF CoreOK, CoreTypes, CoreBounds, NoToken
  <2>2. rows'[j].login = rows[logout[t].token].login
    BY <1>2, <1>3, <2>1 DEF RowsKept
  <2>3. CASE j \in 1..n /\ Active(rows, j) /\ rows'[j].login = rows[j].login
    <3>1. logout[t].at = "sent" /\ j = logout[t].token
      BY <2>1, <2>2, <2>3 DEF LogoutInv
    <3> QED
      BY <1>3, <3>1
  <2>4. ASSUME NEW u \in Tabs, Presented(u)
        PROVE  FALSE
    BY <2>1, <2>4, Excepted DEF Presented
  <2>5. CASE j = n + 1 /\ LoggedIn(rows')
    <3> DEFINE l == rows[logout[t].token].login
    <3>1. l = n + 1
      BY <2>2, <2>5 DEF LoggedIn
    <3>2. l \in Nat /\ l <= logout[t].token
      BY <1>1, <2>1
    <3> HIDE DEF l
    <3> QED
      BY <1>1, <2>1, <3>1, <3>2
  <2> QED
    BY <2>3, <2>4, <2>5, ActiveRow
<1>4. ASSUME LogoutStart(t), store # NoToken, logout'[t] = [at |-> "sent", token |-> store]
      PROVE  logout'[t].at = "sent" /\ j = logout'[t].token
  <2>1. rows' = rows /\ refresh' = refresh
    BY <1>4 DEF LogoutStart, serverVars
  <2>2. j = store \/ Awaited(j)
    BY <1>4, <2>1 DEF StoreInv
  <2>3. ~Awaited(j)
    BY <2>1, Excepted DEF Awaited
  <2> QED
    BY <1>4, <2>2, <2>3
<1>5. ASSUME logout[t].at = "sent", LogoutRevokes(t)
      PROVE  FALSE
  <2> DEFINE i == logout[t].token
  <2>1. rows' = Revoke({i}) /\ logout'[t].token = i /\ rows \in Seq(Row)
    BY <1>5 DEF LogoutRevokes, CoreOK, CoreTypes
  <2>2. i \in 1..n
    BY <1>1, <1>5 DEF CoreOK, CoreTypes, CoreBounds, NoToken
  <2>3. j \in 1..n
    BY <2>1, Revoked DEF Dimmed
  <2>4. j # i /\ Active(rows, j)
    BY <2>1, <2>3, Revoked
  <2>5. rows[j].login = rows[i].login
    BY <1>2, <2>1, <2>2, <2>3 DEF RowsKept
  <2> QED
    BY <1>5, <2>3, <2>4, <2>5 DEF LogoutInv
<1>6. ~LogoutUnheard(t)
  BY Excepted DEF LogoutUnheard, Note
<1> QED
  BY <1>3, <1>4, <1>5, <1>6, LogoutFlow DEF NoLogout

LEMMA StoreKept ==
  ASSUME CoreOK, CrossInv, LastActive, NewInv, StoreInv, TokenStep, Final'
  PROVE  StoreInv'
<1> SUFFICES ASSUME NEW j \in 1..Len(rows'), store' # NoToken,
                    rows'[j].login = rows'[store'].login, Active(rows', j), j # store'
             PROVE  Awaited(j)'
  BY DEF StoreInv
<1> DEFINE n == Len(rows)
<1>1. n \in Nat /\ \A i \in 1..n : rows[i].login \in Nat /\ rows[i].login <= i
  BY LoginBounds
<1>2. RowsKept /\ "lost" \notin harm' /\ "old news" \notin harm'
  BY RowsStep, Excepted
<1>3. CASE j = n + 1 /\ Len(rows') = n + 1 /\ ~LoggedIn(rows')
  BY <1>2, <1>3, SuccessorAwaited DEF Awaited
<1>4. CASE j = n + 1 /\ LoggedIn(rows') /\ store' = n + 1
  BY <1>4
<1>5. ASSUME j \in 1..n, Active(rows, j), rows'[j].login = rows[j].login
      PROVE  Awaited(j)'
  <2>1. CASE store' = store
    <3>1. store \in 1..n
      BY <1>1, <2>1 DEF CoreOK, CoreTypes, CoreBounds, NoToken
    <3>2. rows[j].login = rows[store].login
      BY <1>2, <1>5, <2>1, <3>1 DEF RowsKept
    <3>3. Awaited(j)
      BY <1>5, <2>1, <3>2 DEF StoreInv
    <3>4. PICK t \in Tabs : \/ refresh[t].at = "answered" /\ refresh[t].new = j
                            \/ refresh[t].at = "refused"
      BY <3>3 DEF Awaited
    <3>5. CASE refresh'[t] = refresh[t]
      BY <3>4, <3>5 DEF Awaited
    <3>6. ~RefreshRefused(t)
      BY DEF RefreshRefused
    <3>7. CASE RefreshOk(t) /\ refresh[t].at = "answered"
      <4>1. store' = refresh[t].new
        BY <3>7 DEF RefreshOk
      <4> QED
        BY <3>4, <3>7, <4>1
    <3> QED
      BY <1>2, <3>4, <3>5, <3>6, <3>7, AnswerEnds
  <2>2. ASSUME NEW t \in Tabs, RefreshOk(t), refresh[t].at = "answered", store' = refresh[t].new
        PROVE  FALSE
    <3> DEFINE k == refresh[t].new
    <3>1. k \in 1..n /\ rows' = rows
      BY <1>1, <2>2 DEF RefreshOk, serverVars, CoreOK, CoreTypes, CoreBounds, NoToken
    <3>2. rows[j].login = rows[k].login /\ j # k
      BY <2>2, <3>1
    <3>3. ~(j > k)
      BY <1>5, <2>2, <3>2 DEF NewInv, NewToken
    <3> HIDE DEF k
    <3>4. ~(j < k)
      BY <1>5, <3>1, <3>2 DEF LastActive
    <3> QED
      BY <1>5, <3>1, <3>2, <3>3, <3>4
  <2>3. ASSUME NEW t \in Tabs, Adopts(t)
        PROVE  store' = store
    BY <1>2, <2>3, AdoptsSame
  <2>4. ASSUME NEW t \in Tabs, Login(t), store' = n + 1, Len(rows') = n + 1
        PROVE  FALSE
    <3>1. rows' = Append(rows, [state |-> "active", login |-> n + 1]) /\ n + 1 <= MaxTokens
      BY <2>4 DEF Login
    <3>2. [state |-> "active", login |-> n + 1] \in Row /\ rows \in Seq(Row)
      BY <1>1, <3>1, BoundsAssumption DEF Row, Tokens, CoreOK, CoreTypes
    <3>3. rows'[n + 1].login = n + 1
      BY <3>1, <3>2, AppendProperties
    <3>4. rows[j].login = n + 1
      BY <1>5, <2>4, <3>3
    <3> QED
      BY <1>1, <1>5, <3>4
  <2> QED
    BY <2>1, <2>2, <2>3, <2>4, StoreFlow
<1> QED
  BY <1>3, <1>4, <1>5, ActiveRow

LEMMA FinalStep ==
  ASSUME CoreOK, FinalInv, TokenStep
  PROVE  FinalInv'
<1>1. CrossInv' /\ LastActive' /\ NewInv'
  BY CrossStep, LastActiveStep, NewStep DEF FinalInv, CoreOK
<1>2. ASSUME Final'
      PROVE  EndedInv' /\ LogoutInv' /\ StoreInv' /\ LiveInv'
  <2>1. Final
    BY <1>2, Excepted DEF FinalInv
  <2> QED
    BY <1>2, <2>1, EndedKept, LogoutKept, StoreKept, LiveKept DEF FinalInv
<1> QED
  BY <1>1, <1>2 DEF FinalInv

LEMMA FinalInit ==
  ASSUME AuthInit
  PROVE  FinalInv
<1>1. Len(rows) = 1 /\ rows[1].login = 1 /\ rows[1].state = "active"
  BY DEF AuthInit
<1>2. \A t \in Tabs : refresh[t] = NotRefreshing /\ logout[t] = NoLogout
  BY DEF AuthInit
<1>3. store = 1 /\ ended = {}
  BY DEF AuthInit
<1>4. CrossInv /\ NewInv /\ LogoutInv /\ LiveInv /\ EndedInv
  BY <1>2, <1>3 DEF CrossInv, NewInv, LogoutInv, LiveInv, EndedInv, NotRefreshing, NoLogout
<1>5. \A i \in 1..Len(rows) : i = 1
  BY <1>1
<1>6. LastActive /\ StoreInv
  BY <1>3, <1>5 DEF LastActive, StoreInv
<1> QED
  BY <1>4, <1>6 DEF FinalInv

LEMMA FinalHolds ==
  ASSUME CoreOK, FinalInv
  PROVE  LogoutIsFinal
<1>1. DOMAIN rows = 1..Len(rows)
  BY LenProperties DEF CoreOK, CoreTypes
<1> QED
  BY <1>1 DEF LogoutIsFinal, FinalInv, Final, EndedInv, LiveInv, IsActive, Active

\* A login that was logged out has no refresh token that works and does not come back
\* to the store: the tokens of a login are active one at a time, and the active
\* one is in the store or in the answer to a refresh.
THEOREM LogoutFinal == AuthSpec => []LogoutIsFinal
<1>1. AuthInit => CoreOK /\ FinalInv
  BY CoreInit, FinalInit
<1>2. CoreOK /\ FinalInv /\ [AuthNext]_authVars => CoreOK' /\ FinalInv'
  BY TokenSteps, CoreStep, FinalStep
<1>3. CoreOK /\ FinalInv => LogoutIsFinal
  BY FinalHolds
<1> QED
  BY <1>1, <1>2, <1>3, PTL DEF AuthSpec

-----------------------------------------------------------------------------
(* A login is kept.                                                        *)

\* Nothing that LoginIsKept excepts has happened.
Clean == harm \subseteq {"unrevoked"}

\* A refresh waits with the stored token, or with one that was replaced,
WaitingInv ==
    \A t \in Tabs : refresh[t].at = "waiting"
                      => refresh[t].old = store \/ ~Active(rows, refresh[t].old)
\* one at a time presents the stored token,
SentInv ==
    \A t \in Tabs : refresh[t].at = "sent"
                      => /\ refresh[t].old = store /\ Active(rows, store)
                         /\ \A u \in Tabs : refresh[u].at = "sent" => u = t
\* and the answer brings the successor of the stored token.
AnswerInv ==
    \A t \in Tabs : /\ refresh[t].at # "refused"
                    /\ refresh[t].at = "answered"
                         => /\ refresh[t].old = store /\ ~Active(rows, store)
                            /\ Active(rows, refresh[t].new)
LeavingInv ==
    \A t \in Tabs : logout[t].at # "idle" => store \in {NoToken, logout[t].token}
NewestInv ==
    Active(rows, Len(rows)) => \/ rows[Len(rows)].login \in ended
                               \/ store # NoToken /\ rows[Len(rows)].login = rows[store].login
Kept(i) ==
    \/ Active(rows, i)
    \/ \E t \in Tabs : /\ refresh[t].at = "answered" /\ refresh[t].old = i
                       /\ Active(rows, refresh[t].new)
    \/ \E t \in Tabs : logout[t].at # "idle" /\ logout[t].token = i
StoredInv == store # NoToken => Kept(store)

Tidy ==
    WaitingInv /\ SentInv /\ AnswerInv /\ LeavingInv /\ NewestInv /\ StoredInv

LEMMA CleanStep ==
  ASSUME CoreOK, CrossInv, TokenStep, Clean'
  PROVE  /\ Clean
         /\ \A h \in {"raced", "lost", "server error", "lapsed", "crossed", "cut short",
                      "old news"} : h \notin harm'
         /\ \A t, u \in Tabs : logout[t].at = "idle" \/ refresh[u].at = "none"
         /\ \A t, u \in Tabs : logout'[t].at = "idle" \/ refresh'[u].at = "none"
<1>1. CrossInv' /\ harm \subseteq harm'
  BY CrossStep DEF CoreOK
<1> QED
  BY <1>1 DEF Clean, CrossInv

\* The step of one tab that changes no token.
LEMMA QuietStep ==
  ASSUME Tidy, NEW t \in Tabs, UNCHANGED <<rows, store, ended>>,
         \A u \in Tabs \ {t} : refresh'[u] = refresh[u] /\ logout'[u] = logout[u],
         \/ refresh'[t] = refresh[t]
         \/ refresh[t].at # "answered" /\ refresh'[t].at \in {"none", "failed"}
         \/ /\ refresh[t].at # "answered" /\ refresh'[t].at = "waiting"
            /\ refresh'[t].old = store
         \/ /\ refresh[t].at # "answered" /\ refresh'[t].at = "sent"
            /\ refresh'[t].old = store /\ Active(rows, store)
            /\ \A u \in Tabs : refresh[u].at # "sent",
         \/ logout'[t] = logout[t]
         \/ logout[t].at = "idle" /\ logout'[t].at = "idle"
         \/ logout[t].at = "idle" /\ logout'[t].token = store
         \/ logout[t].at # "idle" /\ logout'[t].at # "idle" /\ logout'[t].token = logout[t].token
  PROVE  Tidy'
<1>1. \A u \in Tabs : refresh[u].at = "answered" => refresh'[u] = refresh[u]
  OBVIOUS
<1>2. \A u \in Tabs : logout[u].at # "idle"
                        => logout'[u].at # "idle" /\ logout'[u].token = logout[u].token
  OBVIOUS
<1>3. WaitingInv'
  BY DEF Tidy, WaitingInv
<1>4. SentInv'
  BY DEF Tidy, SentInv
<1>5. AnswerInv'
  BY DEF Tidy, AnswerInv
<1>6. LeavingInv'
  BY DEF Tidy, LeavingInv
<1>7. NewestInv'
  BY DEF Tidy, NewestInv
<1>8. StoredInv'
  BY <1>1, <1>2 DEF Tidy, StoredInv, Kept
<1> QED
  BY <1>3, <1>4, <1>5, <1>6, <1>7, <1>8 DEF Tidy

\* Without a refresh nothing is asked of refreshes.
LEMMA NoRefresh ==
  ASSUME \A u \in Tabs : refresh'[u].at = "none"
  PROVE  WaitingInv' /\ SentInv' /\ AnswerInv'
BY DEF WaitingInv, SentInv, AnswerInv

LEMMA RotateTidy ==
  ASSUME CoreOK, Tidy, NEW t \in Tabs, Rotate(t)
  PROVE  Tidy'
<1> DEFINE n == Len(rows)
<1>1. n \in Nat
  BY LoginBounds
<1>2. /\ UNCHANGED <<store, ended, logout>>
      /\ rows' = Rotated(refresh[t].old) /\ Presented(t) /\ rows \in Seq(Row)
  BY DEF Rotate, Presented, IsActive, Active, CoreOK, CoreTypes
<1>3. /\ refresh'[t].at = "answered" /\ refresh'[t].new = n + 1
      /\ refresh'[t].old = refresh[t].old
      /\ \A u \in Tabs \ {t} : refresh'[u] = refresh[u]
  BY DEF Rotate, CoreOK, CoreTypes
<1>4. refresh[t].old = store /\ Active(rows, store) /\ \A u \in Tabs : refresh[u].at = "sent" => u = t
  BY <1>2 DEF Presented, Tidy, SentInv
<1>5. store \in 1..n
  BY <1>2, <1>4, LoginBounds
<1>6. Succeeded(rows', store)
  BY <1>2, <1>4, <1>5, RotatedRows
<1>7. \A u \in Tabs : refresh[u].at # "answered" /\ refresh[u].at # "refused"
  BY <1>4 DEF Tidy, AnswerInv
<1>8. \A i \in 1..n : rows'[i].login = rows[i].login /\ (Active(rows', i) <=> Active(rows, i) /\ i # store)
  BY <1>6 DEF Succeeded
<1>9. Len(rows') = n + 1 /\ rows'[n + 1].login = rows[store].login /\ Active(rows', n + 1)
  BY <1>6 DEF Succeeded
<1>10. \A u \in Tabs : refresh[u].at # "none" => refresh[u].old \in 1..n
  BY <1>1 DEF CoreOK, CoreTypes, CoreBounds, NoToken
<1> HIDE DEF n
<1>11. WaitingInv'
  <2> SUFFICES ASSUME NEW u \in Tabs, refresh'[u].at = "waiting"
               PROVE  refresh'[u].old = store' \/ ~Active(rows', refresh'[u].old)
    BY DEF WaitingInv
  <2>1. refresh'[u] = refresh[u]
    BY <1>3
  <2>2. refresh[u].old = store \/ ~Active(rows, refresh[u].old)
    BY <2>1 DEF Tidy, WaitingInv
  <2>3. refresh[u].old \in 1..n
    BY <1>10, <2>1
  <2> QED
    BY <1>2, <1>8, <2>1, <2>2, <2>3
<1>12. SentInv'
  BY <1>3, <1>4 DEF SentInv
<1>13. AnswerInv'
  BY <1>2, <1>3, <1>4, <1>5, <1>7, <1>8, <1>9 DEF AnswerInv
<1>14. LeavingInv'
  BY <1>2 DEF Tidy, LeavingInv
<1>15. NewestInv'
  <2>1. store' # NoToken /\ rows'[store'].login = rows[store].login
    BY <1>1, <1>2, <1>5, <1>8 DEF NoToken
  <2> QED
    BY <1>9, <2>1 DEF NewestInv
<1>16. StoredInv'
  BY <1>2, <1>3, <1>4, <1>9 DEF StoredInv, Kept
<1> QED
  BY <1>11, <1>12, <1>13, <1>14, <1>15, <1>16 DEF Tidy

LEMMA RefreshOkTidy ==
  ASSUME CoreOK, LastActive, NewInv, Tidy, NEW t \in Tabs, RefreshOk(t),
         \A u \in Tabs : logout[u].at = "idle"
  PROVE  Tidy'
<1> DEFINE n == Len(rows)
           k == refresh[t].new
<1>1. /\ UNCHANGED <<rows, ended, logout>> /\ store' = k /\ refresh[t].at = "answered"
      /\ refresh' = [refresh EXCEPT ![t] = NotRefreshing]
  BY DEF RefreshOk, serverVars
<1>2. refresh'[t] = NotRefreshing /\ \A u \in Tabs \ {t} : refresh'[u] = refresh[u]
  BY <1>1 DEF CoreOK, CoreTypes
<1>3. n \in Nat /\ \A u \in Tabs : refresh[u].at = "answered" => refresh[u].new \in 1..n
  BY LoginBounds DEF CoreOK, CoreTypes, CoreBounds, NoToken
<1>4. refresh[t].old = store /\ ~Active(rows, store) /\ Active(rows, k)
  BY <1>1 DEF Tidy, AnswerInv
<1>5. rows[k].login = rows[store].login
  BY <1>1, <1>4 DEF NewInv, NewToken
<1>6. ASSUME NEW u \in Tabs \ {t}, refresh[u].at = "answered"
      PROVE  FALSE
  <2> DEFINE j == refresh[u].new
  <2>1. j \in 1..n /\ k \in 1..n /\ j # k
    BY <1>1, <1>3, <1>6 DEF NewInv, NewToken
  <2>2. refresh[u].old = store /\ Active(rows, j)
    BY <1>6 DEF Tidy, AnswerInv
  <2>3. rows[j].login = rows[k].login
    BY <1>5, <1>6, <2>2 DEF NewInv, NewToken
  <2> HIDE DEF j, k, n
  <2>4. ~(j < k) /\ ~(k < j)
    BY <1>4, <2>1, <2>2, <2>3 DEF LastActive, n
  <2> QED
    BY <1>3, <2>1, <2>4
<1>7. WaitingInv'
  <2> SUFFICES ASSUME NEW u \in Tabs, refresh'[u].at = "waiting"
               PROVE  ~Active(rows, refresh'[u].old)
    BY <1>1 DEF WaitingInv
  <2>1. refresh'[u] = refresh[u]
    BY <1>2 DEF NotRefreshing
  <2> QED
    BY <1>4, <2>1 DEF Tidy, WaitingInv
<1>8. SentInv'
  <2>1. \A u \in Tabs : refresh[u].at # "sent"
    BY <1>4 DEF Tidy, SentInv
  <2> QED
    BY <1>2, <2>1 DEF SentInv, NotRefreshing
<1>9. AnswerInv'
  <2>1. \A u \in Tabs : refresh[u].at # "refused"
    BY DEF Tidy, AnswerInv
  <2> QED
    BY <1>2, <1>6, <2>1 DEF AnswerInv, NotRefreshing
<1>10. LeavingInv'
  BY <1>1 DEF LeavingInv
<1>11. NewestInv'
  <2>1. k # NoToken
    BY <1>1, <1>3 DEF NoToken
  <2> HIDE DEF k, n
  <2> QED
    BY <1>1, <1>5, <2>1 DEF Tidy, NewestInv
<1>12. StoredInv'
  BY <1>1, <1>4 DEF StoredInv, Kept
<1> QED
  BY <1>7, <1>8, <1>9, <1>10, <1>11, <1>12 DEF Tidy


LEMMA LoginTidy ==
  ASSUME CoreOK, NEW t \in Tabs, Login(t), "crossed" \notin harm'
  PROVE  Tidy'
<1> DEFINE n == Len(rows)
           new == [state |-> "active", login |-> n + 1]
<1>1. /\ \A u \in Tabs : refresh'[u].at = "none" /\ logout'[u].at = "idle"
      /\ rows' = Append(rows, new) /\ store' = n + 1 /\ n + 1 <= MaxTokens
  BY DEF Login, Note
<1>2. n \in Nat /\ rows \in Seq(Row)
  BY DEF CoreOK, CoreTypes, Tokens
<1>3. new \in Row /\ new.state = "active"
  BY <1>1, <1>2, BoundsAssumption DEF Row, Tokens
<1> HIDE DEF new
<1>4. Len(rows') = n + 1 /\ rows'[n + 1] = new
  BY <1>1, <1>2, <1>3, AppendProperties
<1>5. Active(rows', store') /\ store' = Len(rows') /\ store' # NoToken
  BY <1>1, <1>2, <1>3, <1>4 DEF Active, NoToken
<1>6. WaitingInv' /\ SentInv' /\ AnswerInv'
  BY <1>1, NoRefresh
<1>7. LeavingInv' /\ NewestInv' /\ StoredInv'
  BY <1>1, <1>5 DEF LeavingInv, NewestInv, StoredInv, Kept
<1> QED
  BY <1>6, <1>7 DEF Tidy

LEMMA LogoutRevokesTidy ==
  ASSUME CoreOK, Tidy, NEW t \in Tabs, LogoutRevokes(t),
         \A u \in Tabs : refresh[u].at = "none"
  PROVE  Tidy'
<1> DEFINE n == Len(rows)
           i == logout[t].token
<1>1. /\ UNCHANGED <<store, ended, refresh>> /\ rows' = Revoke({i}) /\ rows \in Seq(Row)
      /\ logout[t].at = "sent"
  BY DEF LogoutRevokes, CoreOK, CoreTypes
<1>2. /\ logout'[t].at = "done" /\ logout'[t].token = i
      /\ \A u \in Tabs \ {t} : logout'[u] = logout[u]
  BY DEF LogoutRevokes, CoreOK, CoreTypes
<1>3. n \in Nat /\ n \in 1..n /\ store \in 0..n
  BY LoginBounds DEF CoreOK, CoreTypes, CoreBounds, Tokens
<1>4. /\ Len(rows') = n
      /\ \A j \in 1..n : rows'[j].login = rows[j].login /\ (Active(rows', j) => Active(rows, j))
  BY <1>1, Revoked DEF Dimmed
<1>5. WaitingInv' /\ SentInv' /\ AnswerInv'
  BY <1>1, NoRefresh
<1>6. LeavingInv'
  BY <1>1, <1>2 DEF Tidy, LeavingInv
<1>7. NewestInv'
  <2>1. CASE store = NoToken
    BY <1>1, <1>3, <1>4, <2>1 DEF Tidy, NewestInv
  <2>2. CASE store # NoToken
    <3>1. store \in 1..n
      BY <1>3, <2>2 DEF NoToken
    <3> HIDE DEF n
    <3> QED
      BY <1>1, <1>3, <1>4, <2>2, <3>1 DEF Tidy, NewestInv, n
  <2> QED
    BY <2>1, <2>2
<1>8. StoredInv'
  <2> SUFFICES ASSUME store' # NoToken
               PROVE  logout'[t].token = store' /\ logout'[t].at # "idle"
    BY DEF StoredInv, Kept
  <2>1. store \in {NoToken, logout[t].token}
    BY <1>1 DEF Tidy, LeavingInv
  <2> QED
    BY <1>1, <1>2, <2>1
<1> QED
  BY <1>5, <1>6, <1>7, <1>8 DEF Tidy

LEMMA LogoutEndsTidy ==
  ASSUME CoreOK, Tidy, NEW t \in Tabs, LogoutEnds(t),
         \A u \in Tabs : refresh[u].at = "none"
  PROVE  Tidy'
<1> DEFINE i == logout[t].token
<1>1. /\ UNCHANGED <<rows, refresh>> /\ store' = NoToken /\ logout[t].at = "done"
      /\ ended' = ended \cup {rows[j].login : j \in {i} \ {NoToken}}
  BY DEF LogoutEnds, LoggedOut, serverVars
<1>2. i # NoToken
  BY <1>1 DEF CoreOK, CoreBounds
<1>3. WaitingInv' /\ SentInv' /\ AnswerInv'
  BY <1>1, NoRefresh
<1>4. LeavingInv' /\ StoredInv'
  BY <1>1 DEF LeavingInv, StoredInv
<1>5. NewestInv'
  <2>1. store \in {NoToken, i}
    BY <1>1 DEF Tidy, LeavingInv
  <2>2. rows[i].login \in ended'
    BY <1>1, <1>2
  <2> HIDE DEF i
  <2> QED
    BY <1>1, <2>1, <2>2 DEF Tidy, NewestInv
<1> QED
  BY <1>3, <1>4, <1>5 DEF Tidy

\* The other steps change no token, or are excepted.
LEMMA RefreshTidy ==
  ASSUME CoreOK, CrossInv, LastActive, NewInv, Tidy, TokenStep, Clean',
         NEW t \in Tabs, RefreshStep(t)
  PROVE  Tidy'
<1> DEFINE Others == /\ UNCHANGED <<rows, store, ended, logout>>
                     /\ \A u \in Tabs \ {t} : refresh'[u] = refresh[u]
<1>1. refresh \in [Tabs -> [at : {"none", "waiting", "sent", "answered", "refused", "failed"},
                            old : Nat, new : Nat]]
  BY DEF CoreOK, CoreTypes
<1>2. \A h \in {"raced", "lost", "server error", "old news"} : h \notin harm'
  BY CleanStep
<1>3. CASE Rotate(t)
  BY <1>3, RotateTidy
<1>4. CASE RefreshOk(t)
  <2>1. \A u \in Tabs : logout[u].at = "idle"
    BY <1>4, CleanStep DEF RefreshOk
  <2> QED
    BY <1>4, <2>1, RefreshOkTidy
<1>5. CASE RefreshCalled(t)
  <2>1. Others /\ (refresh'[t] = refresh[t] \/ /\ refresh[t].at = "none"
                                               /\ refresh'[t].at = "waiting"
                                               /\ refresh'[t].old = store)
    BY <1>1, <1>5 DEF RefreshCalled, Refreshing
  <2> QED
    BY <2>1, QuietStep
<1>6. CASE Adopts(t) \/ RefreshFailed(t)
  <2>1. refresh[t].at # "answered" /\ refresh' = [refresh EXCEPT ![t] = NotRefreshing]
    BY <1>6 DEF Adopts, HearTokens, RefreshFailed
  <2>2. UNCHANGED <<rows, ended, logout>> /\ store' = store
    BY <1>2, <1>6, AdoptsSame DEF Adopts, HearTokens, RefreshFailed, serverVars
  <2>3. Others /\ refresh'[t].at = "none"
    BY <1>1, <2>1, <2>2 DEF NotRefreshing
  <2> QED
    BY <2>1, <2>3, QuietStep
<1>7. CASE PeerTimeout(t)
  <2>1. Others /\ refresh[t].at = "waiting" /\ refresh'[t].at = "sent"
          /\ refresh'[t].old = refresh[t].old
    BY <1>1, <1>7 DEF PeerTimeout, serverVars
  <2>2. /\ Active(rows, refresh[t].old)
        /\ \A u \in Tabs : ~(refresh[u].at = "sent" /\ refresh[u].old = refresh[t].old)
    BY <1>2, <1>7 DEF PeerTimeout, Note, IsActive, Active
  <2>3. refresh[t].old = store
    BY <2>1, <2>2 DEF Tidy, WaitingInv
  <2>4. \A u \in Tabs : refresh[u].at # "sent"
    BY <2>2, <2>3 DEF Tidy, SentInv
  <2> QED
    BY <2>1, <2>2, <2>3, <2>4, QuietStep
<1>8. CASE NetworkError(t)
  <2>1. refresh[t].at = "sent" /\ refresh' = [refresh EXCEPT ![t].at = "failed"]
    BY <1>8 DEF NetworkError
  <2>2. UNCHANGED <<rows, store, ended, logout>>
    BY <1>2, <1>8 DEF NetworkError, Note
  <2>3. Others /\ refresh'[t].at = "failed"
    BY <1>1, <2>1, <2>2
  <2> QED
    BY <2>1, <2>3, QuietStep
<1>9. ~RefuseReuse(t)
  BY DEF RefuseReuse, IsActive, Active, Tidy, SentInv
<1>10. ~ServerError(t)
  BY <1>2 DEF ServerError, Note
<1>11. ~RefreshRefused(t)
  BY DEF RefreshRefused, Tidy, AnswerInv
<1> QED
  BY <1>3, <1>4, <1>5, <1>6, <1>7, <1>8, <1>9, <1>10, <1>11 DEF RefreshStep

LEMMA LogoutTidy ==
  ASSUME CoreOK, CrossInv, LastActive, NewInv, Tidy, TokenStep, Clean',
         NEW t \in Tabs, LoginStep(t)
  PROVE  Tidy'
<1> DEFINE Others == /\ UNCHANGED <<rows, store, ended>>
                     /\ \A u \in Tabs \ {t} : refresh'[u] = refresh[u] /\ logout'[u] = logout[u]
<1>1. /\ logout \in [Tabs -> [at : {"idle", "sent", "done"}, token : Nat]]
      /\ refresh \in [Tabs -> [at : {"none", "waiting", "sent", "answered", "refused", "failed"},
                               old : Nat, new : Nat]]
  BY DEF CoreOK, CoreTypes
<1>2. \A h \in {"lost", "crossed", "cut short"} : h \notin harm'
  BY CleanStep
<1>3. CASE Login(t)
  BY <1>2, <1>3, LoginTidy
<1>4. CASE LogoutRevokes(t)
  <2>1. \A u \in Tabs : refresh[u].at = "none"
    BY <1>4, CleanStep DEF LogoutRevokes
  <2> QED
    BY <1>4, <2>1, LogoutRevokesTidy
<1>5. CASE LogoutEnds(t)
  <2>1. \A u \in Tabs : refresh[u].at = "none"
    BY <1>5, CleanStep DEF LogoutEnds
  <2> QED
    BY <1>5, <2>1, LogoutEndsTidy
<1>6. CASE LogoutLocally(t)
  <2>1. /\ UNCHANGED <<rows, refresh>> /\ store' = store /\ logout[t].at = "idle"
        /\ logout' = [logout EXCEPT ![t] = NoLogout]
        /\ ended' = ended \cup {rows[i].login : i \in {NoToken} \ {NoToken}}
    BY <1>6 DEF LogoutLocally, LoggedOut, serverVars
  <2>2. ended' = ended
    BY <2>1
  <2>3. Others /\ refresh'[t] = refresh[t] /\ logout'[t].at = "idle"
    BY <1>1, <2>1, <2>2 DEF NoLogout
  <2> QED
    BY <2>1, <2>3, QuietStep
<1>7. CASE LogoutStart(t)
  <2>1. /\ Others /\ refresh'[t] = refresh[t] /\ logout[t].at = "idle"
        /\ logout'[t].token = store
    BY <1>1, <1>7 DEF LogoutStart, serverVars
  <2> QED
    BY <2>1, QuietStep
<1>8. CASE LogoutUnheard(t)
  <2>1. /\ Others /\ refresh'[t] = refresh[t] /\ logout[t].at = "sent"
        /\ logout'[t].at = "done" /\ logout'[t].token = logout[t].token
    BY <1>1, <1>8 DEF LogoutUnheard, serverVars
  <2> QED
    BY <2>1, QuietStep
<1>9. CASE Reload(t)
  <2>1. /\ rows' = rows /\ refresh[t].at # "answered" /\ logout[t].at = "idle"
    BY <1>2, <1>9 DEF Reload, Note
  <2>2. UNCHANGED <<store, ended>> /\ refresh' = [refresh EXCEPT ![t] = NotRefreshing]
          /\ logout' = [logout EXCEPT ![t] = NoLogout]
    BY <1>9 DEF Reload
  <2>3. Others /\ refresh'[t].at = "none" /\ logout'[t].at = "idle"
    BY <1>1, <2>1, <2>2 DEF NotRefreshing, NoLogout
  <2> QED
    BY <2>1, <2>3, QuietStep
<1> QED
  BY <1>3, <1>4, <1>5, <1>6, <1>7, <1>8, <1>9 DEF LoginStep

KeptInv == Clean => Tidy

LEMMA KeptStep ==
  ASSUME CoreOK, FinalInv, KeptInv, TokenStep
  PROVE  KeptInv'
<1> SUFFICES ASSUME Clean'
             PROVE  Tidy'
  BY DEF KeptInv
<1>1. CrossInv /\ LastActive /\ NewInv
  BY DEF FinalInv
<1>2. Tidy /\ "lapsed" \notin harm'
  BY <1>1, CleanStep DEF KeptInv
<1>3. CASE Unheeded
  BY <1>2, <1>3 DEF Unheeded, Tidy, WaitingInv, SentInv, AnswerInv, LeavingInv, NewestInv,
     StoredInv, Kept
<1>4. ~Lapses
  BY <1>2 DEF Lapses, Note
<1> QED
  BY <1>1, <1>2, <1>3, <1>4, RefreshTidy, LogoutTidy DEF TokenStep

LEMMA KeptInit ==
  ASSUME AuthInit
  PROVE  KeptInv
<1>1. rows = <<[state |-> "active", login |-> 1]>> /\ store = 1 /\ NoToken = 0
  BY DEF AuthInit, NoToken
<1>2. Len(rows) = 1 /\ Active(rows, 1)
  BY <1>1 DEF Active
<1>3. \A t \in Tabs : refresh[t].at = "none" /\ logout[t].at = "idle"
  BY DEF AuthInit, NotRefreshing, NoLogout
<1>4. WaitingInv /\ SentInv /\ AnswerInv /\ LeavingInv
  BY <1>3 DEF WaitingInv, SentInv, AnswerInv, LeavingInv
<1>5. NewestInv /\ StoredInv
  BY <1>1, <1>2 DEF NewestInv, StoredInv, Kept
<1> QED
  BY <1>4, <1>5 DEF KeptInv, Tidy

LEMMA KeptHolds ==
  ASSUME KeptInv
  PROVE  LoginIsKept
<1> SUFFICES ASSUME Clean
             PROVE  /\ store # NoToken => Kept(store)
                    /\ store = NoToken => (IsActive(Len(rows)) => rows[Len(rows)].login \in ended)
  BY DEF LoginIsKept, Clean, Kept, IsActive, Active
<1> QED
  BY DEF KeptInv, Tidy, StoredInv, NewestInv, IsActive, Active

\* The stored token works, or a refresh or a logout of it is under way, and the
\* newest token is not left behind: every waiting refresh holds the stored
\* token or a replaced one, one refresh at a time presents the stored token,
\* and its answer is the one active successor.
THEOREM LoginKept == AuthSpec => []LoginIsKept
<1>1. AuthInit => CoreOK /\ FinalInv /\ KeptInv
  BY CoreInit, FinalInit, KeptInit
<1>2. CoreOK /\ FinalInv /\ KeptInv /\ [AuthNext]_authVars
        => CoreOK' /\ FinalInv' /\ KeptInv'
  BY TokenSteps, CoreStep, FinalStep, KeptStep
<1>3. KeptInv => LoginIsKept
  BY KeptHolds
<1> QED
  BY <1>1, <1>2, <1>3, PTL DEF AuthSpec
-----------------------------------------------------------------------------
(* A tab with a live socket, which joins and starts refreshes too.         *)

\* A connect refreshes the tokens as a request does, or leaves them alone.
LEMMA ConnectCalls ==
  ASSUME NEW token, NEW ss, Connect(token, ss),
         UNCHANGED <<rows, store, inbox, logout, ended>>
  PROVE  TokenStep
<1>1. CASE UNCHANGED <<refresh, harm>>
  BY <1>1 DEF TokenStep, Unheeded
<1>2. CASE store # NoToken /\ refresh' = Refreshing(Here) /\ Note({})
  BY <1>2, HereAssumption DEF TokenStep, RefreshStep, RefreshCalled
<1> QED
  BY <1>1, <1>2 DEF Connect

LEMMA SocketTokenSteps ==
  ASSUME [Next]_vars
  PROVE  TokenStep
<1>1. CASE UNCHANGED authVars
  BY <1>1, TokenSteps
<1>2. CASE AuthStep
  BY <1>2, TokenSteps DEF AuthNext
<1>3. ASSUME NEW t \in Tabs, Reload(t)
      PROVE  TokenStep
  BY <1>3, TokenSteps DEF AuthNext
<1>4. CASE \E p \in Parts : RefetchFails(p)
  BY <1>4 DEF RefetchFails, serverVars, TokenStep, Unheeded
<1>5. CASE TimerFires
  BY <1>5, ConnectCalls DEF TimerFires, serverVars
<1>6. CASE Render
  <2>1. UNCHANGED <<rows, store, inbox, logout, ended>>
    BY <1>6 DEF Render, serverVars
  <2>2. (\E ss : Connect(react[Here], ss)) \/ UNCHANGED <<refresh, harm>>
    BY <1>6 DEF Render
  <2> QED
    BY <2>1, <2>2, ConnectCalls DEF TokenStep, Unheeded
<1>7. ASSUME NEW i \in DOMAIN sockets,
             \/ Opened(i) \/ CloseEnds(i) \/ Rejected(i) \/ ConnectFails(i)
             \/ Drop(i) \/ ServerSubscribes(i) \/ \E p \in Parts : Hear(i, p)
      PROVE  UNCHANGED authVars
  BY <1>7 DEF Opened, CloseEnds, Rejected, ConnectFails, Closed, Drop, ServerSubscribes, Hear
<1>8. (\E p \in Parts : Publish(p) \/ Serve(p) \/ Refetched(p)) => UNCHANGED authVars
  BY DEF Publish, Serve, Refetched
<1>9. SocketStep => TokenStep
  BY <1>1, <1>4, <1>5, <1>6, <1>7, <1>8 DEF SocketStep
<1>10. UNCHANGED vars => UNCHANGED authVars
  BY DEF vars
<1> QED
  BY <1>1, <1>2, <1>3, <1>9, <1>10, HereAssumption DEF Next, ReloadHere

LEMMA SocketInvariant ==
  Spec => [](CoreOK /\ FinalInv /\ KeptInv)
<1>1. Init => CoreOK /\ FinalInv /\ KeptInv
  BY CoreInit, FinalInit, KeptInit DEF Init
<1>2. CoreOK /\ FinalInv /\ KeptInv /\ [Next]_vars => CoreOK' /\ FinalInv' /\ KeptInv'
  BY SocketTokenSteps, CoreStep, FinalStep, KeptStep
<1> QED
  BY <1>1, <1>2, PTL DEF Spec

\* LogoutIsFinal when a tab connects its socket with the tokens and refreshes
\* them for it.
THEOREM SocketLogoutFinal == Spec => []LogoutIsFinal
<1>1. CoreOK /\ FinalInv => LogoutIsFinal
  BY FinalHolds
<1> QED
  BY <1>1, SocketInvariant, PTL

\* LoginIsKept under the same steps.
THEOREM SocketLoginKept == Spec => []LoginIsKept
<1>1. KeptInv => LoginIsKept
  BY KeptHolds
<1> QED
  BY <1>1, SocketInvariant, PTL
-----------------------------------------------------------------------------
(* The types of the tabs, which the tokens do not rest on.                 *)

Places == {"idle", "refreshing", "sent", "renewing", "resent"}
ReactTypes == react \in [Tabs -> Nat] /\ \A t \in Tabs : react[t] <= Len(rows)
TimeTypes == ending \in 0..Len(rows) /\ expired \in 0..ending
RequestTypes ==
    /\ request \in [Tabs -> [at : Places, token : Nat]]
    /\ \A t \in Tabs : request[t].at \in {"refreshing", "renewing"}
                         => refresh[t].at # "none"
    /\ modal \in [Tabs -> {"closed", "open", "polling"}]
HistoryTypes == ended \subseteq Tokens /\ harm \subseteq AuthHarms
TabTypes == ReactTypes /\ TimeTypes /\ RequestTypes /\ HistoryTypes

LEMMA TypesAgree ==
  ASSUME CoreOK, TabTypes
  PROVE  AuthTypeOK
<1>1. /\ rows \in Seq(Row) /\ Len(rows) \in Tokens /\ Len(rows) \in Nat
      /\ store \in 0..Len(rows)
      /\ react \in [Tabs -> 0..Len(rows)]
  BY DEF CoreOK, CoreTypes, CoreBounds, TabTypes, ReactTypes
<1>2. ASSUME NEW t \in Tabs
      PROVE  /\ refresh[t].at \in {"none", "waiting", "sent", "answered",
                                   "refused", "failed"}
             /\ (refresh[t].at = "none") <=> (refresh[t] = NotRefreshing)
             /\ refresh[t].new # NoToken <=> refresh[t].at = "answered"
             /\ ToSet(inbox[t]) \subseteq 0..Len(rows)
             /\ request[t].at \in Places
             /\ request[t].at \in {"refreshing", "renewing"}
                  => refresh[t].at # "none"
             /\ modal[t] \in {"closed", "open", "polling"}
             /\ logout[t].at \in {"idle", "sent", "done"}
  <2>1. ToSet(inbox[t]) \subseteq 0..Len(rows)
    <3>1. inbox[t] \in Seq(Nat)
      BY DEF CoreOK, CoreTypes
    <3>2. ToSet(inbox[t]) \subseteq Nat
      BY <3>1 DEF ToSet
    <3> QED
      BY <1>1, <3>2 DEF CoreOK, CoreBounds
  <2>2. (refresh[t].at = "none") <=> (refresh[t] = NotRefreshing)
    BY DEF CoreOK, CoreBounds, NotRefreshing
  <2> QED
    BY <2>1, <2>2 DEF CoreOK, CoreTypes, CoreBounds, TabTypes, RequestTypes
<1> QED
  BY <1>1, <1>2 DEF TabTypes, TimeTypes, HistoryTypes, AuthTypeOK, Places

LEMMA ReactStep ==
  ASSUME CoreOK, TabTypes, [AuthNext]_authVars
  PROVE  ReactTypes'
<1>1. /\ Len(rows) \in Nat /\ Len(rows') \in Nat /\ Len(rows) <= Len(rows')
      /\ store \in Nat /\ store <= Len(rows) /\ NoToken \in Nat /\ NoToken <= Len(rows)
  BY TokenSteps, RowsStep DEF CoreOK, CoreTypes, CoreBounds, RowsKept, NoToken
<1>2. ASSUME UNCHANGED react
      PROVE  ReactTypes'
  BY <1>1, <1>2 DEF TabTypes, ReactTypes
<1>3. ASSUME NEW t \in Tabs, NEW m \in Nat, m <= Len(rows'), react' = [react EXCEPT ![t] = m]
      PROVE  ReactTypes'
  BY <1>1, <1>3 DEF TabTypes, ReactTypes
<1>4. ASSUME NEW t \in Tabs, Hears(t)
      PROVE  ReactTypes'
  <2>1. CASE HearTokens(t)
    <3>1. /\ Head(inbox[t]) \in Nat /\ Head(inbox[t]) <= Len(rows)
      BY <2>1, HeadMessage DEF HearTokens, CoreOK, CoreTypes, CoreBounds
    <3>2. react' = [react EXCEPT ![t] = Head(inbox[t])]
      BY <2>1 DEF HearTokens
    <3>3. Head(inbox[t]) <= Len(rows')
      BY <1>1, <3>1
    <3> QED
      BY <1>3, <3>1, <3>2, <3>3
  <2> QED
    BY <1>1, <1>3, <1>4, <2>1 DEF Hears, HearAuthRequired
<1>5. ASSUME NEW t \in Tabs, Logins(t)
      PROVE  ReactTypes'
  <2>1. CASE Login(t)
    <3>1. Len(rows') = Len(rows) + 1
      BY <2>1 DEF Login, CoreOK, CoreTypes
    <3>2. react' = [react EXCEPT ![t] = Len(rows) + 1]
      BY <2>1 DEF Login
    <3>3. Len(rows) + 1 \in Nat /\ Len(rows) + 1 <= Len(rows')
      BY <1>1, <3>1
    <3> QED
      BY <1>3, <3>2, <3>3
  <2> QED
    BY <1>1, <1>2, <1>3, <1>5, <2>1 DEF Logins, RequireAuth, Poll, CloseModal
<1>6. ASSUME NEW t \in Tabs, Logouts(t)
      PROVE  ReactTypes'
  BY <1>1, <1>2, <1>3, <1>6 DEF Logouts, LogoutLocally, LogoutStart, LogoutRevokes,
     LogoutUnheard, LogoutEnds, LoggedOut
<1>7. ASSUME NEW t \in Tabs, Reload(t)
      PROVE  ReactTypes'
  <2>1. react' = [react EXCEPT ![t] = store]
    BY <1>7 DEF Reload
  <2>2. store <= Len(rows')
    BY <1>1
  <2> QED
    BY <1>1, <1>3, <2>1, <2>2
<1>8. ASSUME NEW t \in Tabs, Calls(t) \/ Refreshes(t)
      PROVE  ReactTypes'
  BY <1>2, <1>8 DEF Calls, MaybeRefresh, Fetch, Served, UnauthorizedNoToken,
     UnauthorizedRenew, Refreshes, PeerTimeout, Rotate, RefuseReuse, ServerError, NetworkError,
     RefreshOk, RefreshRefused, RefreshFailed
<1>9. ASSUME NearsEnd \/ Expires \/ Lapses \/ UNCHANGED authVars
      PROVE  ReactTypes'
  BY <1>2, <1>9 DEF NearsEnd, Expires, Lapses, authVars
<1> QED
  BY <1>4, <1>5, <1>6, <1>7, <1>8, <1>9 DEF AuthNext, AuthStep

LEMMA TimeStep ==
  ASSUME CoreOK, TabTypes, [AuthNext]_authVars
  PROVE  TimeTypes'
<1>1. Len(rows) \in Nat /\ Len(rows') \in Nat /\ Len(rows) <= Len(rows')
  BY TokenSteps, RowsStep DEF CoreOK, CoreTypes, RowsKept
<1>2. ASSUME UNCHANGED <<ending, expired>>
      PROVE  TimeTypes'
  BY <1>1, <1>2 DEF TabTypes, TimeTypes
<1>3. CASE NearsEnd \/ Expires
  BY <1>1, <1>3 DEF NearsEnd, Expires, TabTypes, TimeTypes
<1>4. ASSUME NEW t \in Tabs, Calls(t) \/ Hears(t) \/ Logouts(t) \/ Reload(t)
      PROVE  TimeTypes'
  BY <1>2, <1>4 DEF Calls, MaybeRefresh, Fetch, Served, UnauthorizedNoToken, UnauthorizedRenew,
     Hears, HearTokens, HearAuthRequired, Logouts, LogoutLocally, LogoutStart, LogoutRevokes,
     LogoutUnheard, LogoutEnds, Reload, serverVars
<1>5. ASSUME NEW t \in Tabs, Refreshes(t) \/ Logins(t)
      PROVE  TimeTypes'
  BY <1>2, <1>5 DEF Refreshes, PeerTimeout, Rotate, RefuseReuse, ServerError, NetworkError,
     RefreshOk, RefreshRefused, RefreshFailed, Logins, RequireAuth, Poll, CloseModal, Login,
     serverVars
<1>6. CASE Lapses \/ UNCHANGED authVars
  BY <1>2, <1>6 DEF Lapses, authVars, serverVars
<1> QED
  BY <1>3, <1>4, <1>5, <1>6 DEF AuthNext, AuthStep

LEMMA HistoryStep ==
  ASSUME CoreOK, TabTypes, [AuthNext]_authVars
  PROVE  HistoryTypes'
<1>1. ASSUME NEW S, harm' = harm \cup S \cup {h \in {"crossed"} : Crossing}, S \subseteq AuthHarms
      PROVE  harm' \subseteq AuthHarms
  BY <1>1 DEF TabTypes, HistoryTypes, AuthHarms
<1>2. harm' \subseteq AuthHarms
  <2>1. ASSUME UNCHANGED harm
        PROVE  harm' \subseteq AuthHarms
    BY <2>1 DEF TabTypes, HistoryTypes
  <2>2. ASSUME NEW t \in Tabs, Calls(t) \/ Hears(t)
        PROVE  harm' \subseteq AuthHarms
    BY <1>1, <2>1, <2>2 DEF Calls, MaybeRefresh, Fetch, Served, UnauthorizedNoToken,
       UnauthorizedRenew, Hears, HearTokens, HearAuthRequired, Note, AuthHarms
  <2>3. ASSUME NEW t \in Tabs, Refreshes(t)
        PROVE  harm' \subseteq AuthHarms
    BY <1>1, <2>1, <2>3 DEF Refreshes, PeerTimeout, Rotate, RefuseReuse, ServerError,
       NetworkError, RefreshOk, RefreshRefused, RefreshFailed, Note, AuthHarms
  <2>4. ASSUME NEW t \in Tabs, Logins(t) \/ Logouts(t) \/ Reload(t)
        PROVE  harm' \subseteq AuthHarms
    BY <1>1, <2>1, <2>4 DEF Logins, RequireAuth, Poll, CloseModal, Login, Logouts, LogoutLocally,
       LogoutStart, LogoutRevokes, LogoutUnheard, LogoutEnds, Reload, Note, AuthHarms
  <2>5. CASE NearsEnd \/ Expires \/ Lapses \/ UNCHANGED authVars
    BY <1>1, <2>1, <2>5 DEF NearsEnd, Expires, Lapses, authVars, Note, AuthHarms
  <2> QED
    BY <2>2, <2>3, <2>4, <2>5 DEF AuthNext, AuthStep
<1>3. ended' \subseteq Tokens
  <2>1. ASSUME UNCHANGED ended
        PROVE  ended' \subseteq Tokens
    BY <2>1 DEF TabTypes, HistoryTypes
  <2>2. ASSUME NEW token \in 0..Len(rows),
               ended' = ended \cup {rows[i].login : i \in {token} \ {NoToken}}
        PROVE  ended' \subseteq Tokens
    <3>1. ASSUME token # NoToken
          PROVE  rows[token].login \in Tokens
      <4>1. rows \in Seq(Row) /\ token \in 1..Len(rows)
        BY <3>1 DEF CoreOK, CoreTypes, Tokens, NoToken
      <4>2. rows[token] \in Row
        BY <4>1, LenProperties
      <4> QED
        BY <4>2 DEF Row
    <3> QED
      BY <2>2, <3>1 DEF TabTypes, HistoryTypes
  <2>3. ASSUME NEW t \in Tabs, Logouts(t)
        PROVE  ended' \subseteq Tokens
    <3>1. NoToken \in 0..Len(rows) /\ logout[t].token \in 0..Len(rows)
      BY DEF CoreOK, CoreTypes, CoreBounds, NoToken, Tokens
    <3> QED
      BY <2>1, <2>2, <2>3, <3>1 DEF Logouts, LogoutLocally, LogoutStart, LogoutRevokes,
         LogoutUnheard, LogoutEnds, LoggedOut
  <2>4. ASSUME NEW t \in Tabs, Calls(t) \/ Hears(t) \/ Reload(t)
        PROVE  ended' \subseteq Tokens
    BY <2>1, <2>4 DEF Calls, MaybeRefresh, Fetch, Served, UnauthorizedNoToken, UnauthorizedRenew,
       Hears, HearTokens, HearAuthRequired, Reload
  <2>5. ASSUME NEW t \in Tabs, Refreshes(t) \/ Logins(t)
        PROVE  ended' \subseteq Tokens
    BY <2>1, <2>5 DEF Refreshes, PeerTimeout, Rotate, RefuseReuse, ServerError, NetworkError,
       RefreshOk, RefreshRefused, RefreshFailed, Logins, RequireAuth, Poll, CloseModal, Login
  <2>6. CASE NearsEnd \/ Expires \/ Lapses \/ UNCHANGED authVars
    BY <2>1, <2>6 DEF NearsEnd, Expires, Lapses, authVars
  <2> QED
    BY <2>3, <2>4, <2>5, <2>6 DEF AuthNext, AuthStep
<1> QED
  BY <1>2, <1>3 DEF HistoryTypes

Asks == [at : Places, token : Nat]
Awaits(r) == r.at \in {"refreshing", "renewing"}

LEMMA Resumed ==
  ASSUME CoreOK, TabTypes, NEW t \in Tabs, NEW ok \in BOOLEAN, Resume(t, ok),
         store' \in Nat, react'[t] \in Nat
  PROVE  /\ \E r \in Asks : ~Awaits(r) /\ request' = [request EXCEPT ![t] = r]
         /\ modal' \in [Tabs -> {"closed", "open", "polling"}]
<1> DEFINE carried == IF store' # NoToken THEN store' ELSE react'[t]
<1>1. /\ request \in [Tabs -> Asks] /\ carried \in Nat /\ NoToken \in Nat
      /\ modal \in [Tabs -> {"closed", "open", "polling"}]
  BY DEF TabTypes, RequestTypes, Asks, NoToken
<1>2. AskLogin(t) => modal' \in [Tabs -> {"closed", "open", "polling"}]
  BY <1>1 DEF AskLogin
<1>3. CASE request[t].at = "refreshing"
  <2>1. /\ request' = [request EXCEPT ![t] = [at |-> "sent", token |-> carried]]
        /\ UNCHANGED modal
    BY <1>3 DEF Resume
  <2> HIDE DEF carried
  <2> QED
    BY <1>1, <2>1 DEF Asks, Awaits, Places
<1>4. CASE request[t].at = "renewing" /\ ok
  <2>1. /\ request' = [request EXCEPT ![t] = [at |-> "resent", token |-> carried]]
        /\ UNCHANGED modal
    BY <1>4 DEF Resume
  <2> HIDE DEF carried
  <2> QED
    BY <1>1, <2>1 DEF Asks, Awaits, Places
<1>5. CASE request[t].at = "renewing" /\ ~ok
  <2>1. request' = [request EXCEPT ![t] = NoRequest] /\ AskLogin(t)
    BY <1>5 DEF Resume
  <2> QED
    BY <1>1, <1>2, <2>1 DEF Asks, Awaits, Places, NoRequest
<1>6. CASE ~Awaits(request[t])
  <2>1. UNCHANGED <<request, modal>>
    BY <1>6 DEF Resume, Awaits
  <2>2. request' = [request EXCEPT ![t] = request[t]]
    BY <1>1, <2>1
  <2> QED
    BY <1>1, <1>6, <2>1, <2>2
<1> QED
  BY <1>3, <1>4, <1>5, <1>6 DEF Awaits

LEMMA RequestStep ==
  ASSUME CoreOK, TabTypes, [AuthNext]_authVars
  PROVE  RequestTypes'
<1> DEFINE Modals == [Tabs -> {"closed", "open", "polling"}]
<1>1. /\ request \in [Tabs -> Asks] /\ modal \in Modals
      /\ \A t \in Tabs : Awaits(request[t]) => refresh[t].at # "none"
      /\ store \in Nat /\ react \in [Tabs -> Nat] /\ NoToken \in Nat
      /\ DOMAIN refresh = Tabs
  BY DEF CoreOK, CoreTypes, TabTypes, RequestTypes, ReactTypes, Asks, Awaits, NoToken
<1>2. ASSUME NEW t \in Tabs, NEW r \in Asks, request' = [request EXCEPT ![t] = r],
             Awaits(r) => refresh'[t].at # "none", modal' \in Modals,
             \A u \in Tabs \ {t} : refresh'[u] = refresh[u]
      PROVE  RequestTypes'
  <2>1. request' \in [Tabs -> Asks]
    BY <1>1, <1>2
  <2>2. ASSUME NEW u \in Tabs, Awaits(request'[u])
        PROVE  refresh'[u].at # "none"
    BY <1>1, <1>2, <2>2
  <2> QED
    BY <1>2, <2>1, <2>2 DEF RequestTypes, Asks, Awaits
<1>3. ASSUME UNCHANGED request, modal' \in Modals,
             \A u \in Tabs : refresh[u].at # "none" => refresh'[u].at # "none"
      PROVE  RequestTypes'
  BY <1>1, <1>3 DEF RequestTypes, Asks, Awaits
<1>4. ASSUME NEW t \in Tabs, NEW ok \in BOOLEAN, Resume(t, ok), store' \in Nat,
             react'[t] \in Nat, refresh' = [refresh EXCEPT ![t] = NotRefreshing]
      PROVE  RequestTypes'
  BY <1>2, <1>4, Resumed
<1>5. ASSUME NEW t \in Tabs
      PROVE  /\ Refreshing(t)[t].at # "none"
             /\ \A u \in Tabs \ {t} : Refreshing(t)[u] = refresh[u]
             /\ \A u \in Tabs : refresh[u].at # "none" => Refreshing(t)[u].at # "none"
  BY <1>1 DEF Refreshing
<1>6. ASSUME NEW t \in Tabs, Calls(t)
      PROVE  RequestTypes'
  <2>1. CASE MaybeRefresh(t)
    BY <1>1, <1>3, <1>5, <2>1 DEF MaybeRefresh
  <2>2. CASE Fetch(t)
    <3>1. CASE store # NoToken /\ ExpiresSoon
      BY <1>1, <1>2, <1>5, <2>2, <3>1 DEF Fetch, Asks, Awaits, Places
    <3>2. CASE ~(store # NoToken /\ ExpiresSoon)
      <4>1. [at |-> "sent", token |-> Carried(t)] \in Asks
        BY <1>1 DEF Carried, Asks, Places
      <4> QED
        BY <1>1, <1>2, <2>2, <3>2, <4>1 DEF Fetch, Awaits
    <3> QED
      BY <3>1, <3>2
  <2>3. CASE Served(t)
    BY <1>1, <1>2, <2>3 DEF Served, NoRequest, Asks, Awaits, Places
  <2>4. CASE UnauthorizedNoToken(t)
    BY <1>1, <1>2, <2>4 DEF UnauthorizedNoToken, AskLogin, NoRequest, Asks, Awaits, Places
  <2>5. CASE UnauthorizedRenew(t)
    BY <1>1, <1>2, <1>5, <2>5 DEF UnauthorizedRenew, Asks, Awaits, Places
  <2> QED
    BY <1>6, <2>1, <2>2, <2>3, <2>4, <2>5 DEF Calls
<1>7. ASSUME NEW t \in Tabs, Hears(t)
      PROVE  RequestTypes'
  <2>1. CASE HearTokens(t) /\ refresh[t].at = "waiting"
    <3>1. Head(inbox[t]) \in Nat
      BY <2>1, HeadMessage DEF HearTokens, CoreOK, CoreTypes
    <3>2. react'[t] \in Nat /\ store' \in Nat
      BY <1>1, <2>1, <3>1 DEF HearTokens
    <3> QED
      BY <1>4, <2>1, <3>2 DEF HearTokens
  <2>2. CASE HearTokens(t) /\ refresh[t].at # "waiting"
    BY <1>1, <1>3, <2>2 DEF HearTokens
  <2>3. CASE HearAuthRequired(t)
    BY <1>1, <1>3, <2>3 DEF HearAuthRequired
  <2> QED
    BY <1>7, <2>1, <2>2, <2>3 DEF Hears
<1>8. ASSUME NEW t \in Tabs, Refreshes(t)
      PROVE  RequestTypes'
  <2>1. CASE PeerTimeout(t) \/ Rotate(t) \/ RefuseReuse(t) \/ ServerError(t) \/ NetworkError(t)
    <3>1. UNCHANGED <<request, modal>>
      BY <2>1 DEF PeerTimeout, Rotate, RefuseReuse, ServerError, NetworkError
    <3>2. \A u \in Tabs : refresh[u].at # "none" => refresh'[u].at # "none"
      <4>1. refresh \in [Tabs -> [at : {"none", "waiting", "sent", "answered",
                                       "refused", "failed"}, old : Nat, new : Nat]]
        BY DEF CoreOK, CoreTypes
      <4>2. CASE PeerTimeout(t) \/ Rotate(t)
        BY <4>1, <4>2 DEF PeerTimeout, Rotate
      <4>3. CASE RefuseReuse(t) \/ ServerError(t) \/ NetworkError(t)
        BY <4>1, <4>3 DEF RefuseReuse, ServerError, NetworkError
      <4> QED
        BY <2>1, <4>2, <4>3
    <3> QED
      BY <1>1, <1>3, <3>1, <3>2
  <2>2. CASE RefreshOk(t) \/ RefreshRefused(t) \/ RefreshFailed(t)
    <3>1. store' \in Nat /\ react'[t] \in Nat
      BY <1>1, <2>2 DEF RefreshOk, RefreshRefused, RefreshFailed, CoreOK, CoreTypes
    <3>2. refresh' = [refresh EXCEPT ![t] = NotRefreshing] /\ (Resume(t, TRUE) \/ Resume(t, FALSE))
      BY <2>2 DEF RefreshOk, RefreshRefused, RefreshFailed
    <3> QED
      BY <1>4, <3>1, <3>2
  <2> QED
    BY <1>8, <2>1, <2>2 DEF Refreshes
<1>9. ASSUME NEW t \in Tabs, Logins(t) \/ Logouts(t)
      PROVE  RequestTypes'
  <2>1. UNCHANGED <<request, refresh>> /\ modal' \in Modals
    BY <1>1, <1>9 DEF Logins, RequireAuth, Poll, CloseModal, Login, Logouts, LogoutLocally,
       LogoutStart, LogoutRevokes, LogoutUnheard, LogoutEnds
  <2> QED
    BY <1>3, <2>1
<1>10. ASSUME NEW t \in Tabs, Reload(t)
       PROVE  RequestTypes'
  <2>1. /\ request' = [request EXCEPT ![t] = NoRequest] /\ modal' \in Modals
        /\ \A u \in Tabs \ {t} : refresh'[u] = refresh[u]
    BY <1>1, <1>10 DEF Reload
  <2> QED
    BY <1>1, <1>2, <2>1 DEF NoRequest, Asks, Awaits, Places
<1>11. CASE NearsEnd \/ Expires \/ Lapses \/ UNCHANGED authVars
  <2>1. UNCHANGED <<request, refresh, modal>>
    BY <1>11 DEF NearsEnd, Expires, Lapses, authVars
  <2> QED
    BY <1>1, <1>3, <2>1
<1> QED
  BY <1>6, <1>7, <1>8, <1>9, <1>10, <1>11 DEF AuthNext, AuthStep

LEMMA TabStep ==
  ASSUME CoreOK, TabTypes, [AuthNext]_authVars
  PROVE  TabTypes'
BY ReactStep, TimeStep, RequestStep, HistoryStep DEF TabTypes

LEMMA TabInit ==
  ASSUME AuthInit
  PROVE  TabTypes
<1>1. Len(rows) = 1
  BY DEF AuthInit
<1>2. ReactTypes /\ TimeTypes
  BY <1>1 DEF AuthInit, ReactTypes, TimeTypes
<1>3. RequestTypes
  BY DEF AuthInit, RequestTypes, NoRequest, NoToken, Places
<1>4. HistoryTypes
  BY DEF AuthInit, HistoryTypes
<1> QED
  BY <1>2, <1>3, <1>4 DEF TabTypes

\* The types of TokenRefresh, by itself.
THEOREM TokenTypes == AuthSpec => []AuthTypeOK
<1>1. AuthInit => CoreOK /\ TabTypes
  BY CoreInit, TabInit
<1>2. CoreOK /\ TabTypes /\ [AuthNext]_authVars => CoreOK' /\ TabTypes'
  BY TokenSteps, CoreStep, TabStep
<1>3. CoreOK /\ TabTypes => AuthTypeOK
  BY TypesAgree
<1> QED
  BY <1>1, <1>2, <1>3, PTL DEF AuthSpec
-----------------------------------------------------------------------------
(* Lists of sockets.                                                       *)

\* Events and refetches are counted by part.
LEMMA Counted ==
  ASSUME NEW c \in [Parts -> Nat], NEW p \in Parts
  PROVE  /\ NoMail \in [Parts -> Nat] /\ \A q \in Parts : NoMail[q] = 0
         /\ More(c, p) \in [Parts -> Nat] /\ More(c, p)[p] = c[p] + 1
         /\ \A q \in Parts \ {p} : More(c, p)[q] = c[q]
         /\ c[p] > 0 => /\ Less(c, p) \in [Parts -> Nat] /\ Less(c, p)[p] = c[p] - 1
                        /\ \A q \in Parts \ {p} : Less(c, p)[q] = c[q]
BY DEF NoMail, More, Less

\* What the steps do to one socket.
LEMMA Forgets ==
  ASSUME NEW s \in Socket, NEW t, t = [s EXCEPT !.ref = FALSE]
  PROVE  t \in Socket /\ ~t.ref /\ t.of = s.of /\ t.at = s.at
<1> DEFINE M == [Parts -> Nat]
<1>1. Socket = [at : {"connecting", "open", "closing", "gone"}, ref : BOOLEAN, of : Tokens,
                with : Tokens, want : BOOLEAN, sub : BOOLEAN, mail : M]
  BY DEF Socket
<1> HIDE DEF M
<1> QED
  BY <1>1

LEMMA Wants ==
  ASSUME NEW s \in Socket, NEW b \in BOOLEAN, NEW t, t = [s EXCEPT !.want = b]
  PROVE  t \in Socket /\ t.of = s.of /\ t.at = s.at /\ t.ref = s.ref
<1> DEFINE M == [Parts -> Nat]
<1>1. Socket = [at : {"connecting", "open", "closing", "gone"}, ref : BOOLEAN, of : Tokens,
                with : Tokens, want : BOOLEAN, sub : BOOLEAN, mail : M]
  BY DEF Socket
<1> HIDE DEF M
<1> QED
  BY <1>1

\* A new socket is one.
LEMMA NewSocket ==
  ASSUME NEW of \in Tokens, NEW with \in Tokens
  PROVE  /\ Connecting(of, with) \in Socket /\ Connecting(of, with).of = of
         /\ Connecting(of, with).at = "connecting" /\ Connecting(of, with).ref
<1> DEFINE M == [Parts -> Nat]
<1>1. Socket = [at : {"connecting", "open", "closing", "gone"}, ref : BOOLEAN, of : Tokens,
                with : Tokens, want : BOOLEAN, sub : BOOLEAN, mail : M]
  BY DEF Socket
<1>2. NoMail \in M
  BY DEF NoMail
<1> HIDE DEF M
<1> QED
  BY <1>1, <1>2 DEF Connecting

\* Sockets as they may be while there are n tokens.
Orderly(ss, n) ==
    /\ ss \in Seq(Socket)
    /\ \A i \in 1..Len(ss) : ss[i].of <= n /\ (ss[i].at = "closing" => ~ss[i].ref)
    /\ \A i, j \in 1..Len(ss) : ss[i].ref /\ ss[j].ref => i = j

LEMMA SocketList ==
  ASSUME NEW ss \in Seq(Socket)
  PROVE  /\ Len(ss) \in Nat /\ DOMAIN ss = 1..Len(ss)
         /\ \A i \in 1..Len(ss) : ss[i] \in Socket
BY LenProperties

LEMMA SameLength ==
  ASSUME NEW ss \in Seq(Socket), NEW tt \in [1..Len(ss) -> Socket]
  PROVE  tt \in Seq(Socket) /\ Len(tt) = Len(ss)
<1>1. ss \in Seq(Socket) /\ Len(ss) \in Nat
  BY SocketList
<1>2. tt \in Seq(Socket)
  BY <1>1, SeqDef
<1> DEFINE m == Len(tt)
           k == Len(ss)
<1>3. m \in Nat /\ k \in Nat /\ 1..m = 1..k
  BY <1>1, <1>2, LenProperties
<1> HIDE DEF m, k
<1>4. m = k
  <2>1. (m > 0 => m \in 1..m) /\ (k > 0 => k \in 1..k)
    BY <1>3
  <2> QED
    BY <1>3, <2>1
<1> QED
  BY <1>2, <1>4 DEF m, k

\* A step that changes sockets in their places.
LEMMA Mapped ==
  ASSUME NEW n, NEW ss, Orderly(ss, n), NEW tt, tt = [i \in DOMAIN ss |-> tt[i]],
         \A i \in 1..Len(ss) : /\ tt[i] \in Socket /\ tt[i].of = ss[i].of
                               /\ tt[i].ref => ss[i].ref
                               /\ tt[i].at = "closing" => ~tt[i].ref
  PROVE  Orderly(tt, n) /\ Len(tt) = Len(ss)
<1>1. ss \in Seq(Socket) /\ Len(ss) \in Nat /\ DOMAIN ss = 1..Len(ss)
  BY SocketList DEF Orderly
<1>2. tt \in [1..Len(ss) -> Socket]
  BY <1>1
<1>3. tt \in Seq(Socket) /\ Len(tt) = Len(ss)
  BY <1>1, <1>2, SameLength
<1> QED
  BY <1>3 DEF Orderly

LEMMA ForgottenSockets ==
  ASSUME NEW n, NEW ss \in Seq(Socket), \A i \in 1..Len(ss) : ss[i].of <= n
  PROVE  /\ Orderly(Forgotten(ss), n) /\ Len(Forgotten(ss)) = Len(ss)
         /\ \A i \in 1..Len(ss) : Forgotten(ss)[i] = [ss[i] EXCEPT !.ref = FALSE]
         /\ \A i \in 1..Len(ss) : ~Forgotten(ss)[i].ref
<1>1. DOMAIN ss = 1..Len(ss) /\ \A i \in 1..Len(ss) : ss[i] \in Socket
  BY SocketList
<1> DEFINE tt == Forgotten(ss)
<1>2. tt = [i \in DOMAIN ss |-> tt[i]]
  BY DEF Forgotten
<1>3. \A i \in 1..Len(ss) : tt[i] = [ss[i] EXCEPT !.ref = FALSE]
  BY <1>1 DEF Forgotten
<1> HIDE DEF tt
<1>4. ASSUME NEW i \in 1..Len(ss)
      PROVE  /\ tt[i] \in Socket /\ tt[i].of = ss[i].of /\ ~tt[i].ref
  <2>1. ss[i] \in Socket /\ tt[i] = [ss[i] EXCEPT !.ref = FALSE]
    BY <1>1, <1>3
  <2> QED
    BY ONLY <2>1, Forgets
<1>5. tt \in [1..Len(ss) -> Socket]
  BY <1>1, <1>2, <1>4
<1>6. tt \in Seq(Socket) /\ Len(tt) = Len(ss)
  BY <1>5, SameLength
<1>7. Orderly(tt, n)
  BY <1>4, <1>6 DEF Orderly
<1> QED
  BY <1>3, <1>4, <1>6, <1>7 DEF tt

LEMMA Appended ==
  ASSUME NEW n, NEW ss, Orderly(ss, n), \A i \in 1..Len(ss) : ~ss[i].ref,
         NEW s \in Socket, s.of <= n, s.at # "closing"
  PROVE  /\ Orderly(Append(ss, s), n) /\ Len(Append(ss, s)) = Len(ss) + 1
         /\ \A i \in 1..Len(ss) : Append(ss, s)[i] = ss[i]
         /\ Append(ss, s)[Len(ss) + 1] = s
<1>1. ss \in Seq(Socket) /\ Len(ss) \in Nat /\ \A i \in 1..Len(ss) : ss[i] \in Socket
  BY SocketList DEF Orderly
<1> DEFINE tt == Append(ss, s)
           k == Len(ss)
<1>2. /\ tt \in Seq(Socket) /\ Len(tt) = k + 1
      /\ \A i \in 1..k : tt[i] = ss[i]
      /\ tt[k + 1] = s
  BY <1>1, AppendProperties
<1>3. \A i \in 1..k + 1 : i \in 1..k \/ i = k + 1
  BY <1>1
<1> HIDE DEF tt, k
<1>4. Orderly(tt, n)
  BY <1>2, <1>3 DEF Orderly, k
<1> QED
  BY <1>2, <1>4 DEF tt, k

LEMMA CreatedSockets ==
  ASSUME NEW n, NEW ss, Orderly(ss, n), NEW of \in Tokens, of <= n, NEW with \in Tokens
  PROVE  /\ Orderly(Created(ss, of, with), n)
         /\ Len(Created(ss, of, with)) = Len(ss) + 1
         /\ \A i \in 1..Len(ss) : Created(ss, of, with)[i] = [ss[i] EXCEPT !.ref = FALSE]
         /\ Created(ss, of, with)[Len(ss) + 1] = Connecting(of, with)
<1>1. Connecting(of, with) \in Socket
  BY DEF Connecting, Socket, NoMail
<1>2. Connecting(of, with).of = of /\ Connecting(of, with).at = "connecting"
  BY DEF Connecting
<1> DEFINE ff == Forgotten(ss)
           s == Connecting(of, with)
<1>3. /\ Orderly(ff, n) /\ Len(ff) = Len(ss)
      /\ \A i \in 1..Len(ss) : ff[i] = [ss[i] EXCEPT !.ref = FALSE] /\ ~ff[i].ref
  BY ForgottenSockets DEF Orderly
<1>4. Created(ss, of, with) = Append(ff, s)
  BY DEF Created
<1>5. s \in Socket /\ s.of <= n /\ s.at # "closing"
  BY <1>1, <1>2
<1> HIDE DEF ff, s
<1>6. Orderly(ff, n) /\ \A i \in 1..Len(ff) : ~ff[i].ref
  BY <1>3
<1>7. /\ Orderly(Append(ff, s), n) /\ Len(Append(ff, s)) = Len(ff) + 1
      /\ \A i \in 1..Len(ff) : Append(ff, s)[i] = ff[i]
      /\ Append(ff, s)[Len(ff) + 1] = s
  BY ONLY <1>5, <1>6, Appended
<1> QED
  BY <1>3, <1>4, <1>7 DEF s

LEMMA Removed ==
  ASSUME NEW S, NEW q \in Seq(S), NEW k \in DOMAIN q
  PROVE  /\ RemoveAt(q, k) \in Seq(S)
         /\ Len(RemoveAt(q, k)) = Len(q) - 1
         /\ \A i \in 1 .. Len(q) - 1 :
               RemoveAt(q, k)[i] = IF i < k THEN q[i] ELSE q[i + 1]
<1> DEFINE n == Len(q)
           front == SubSeq(q, 1, k - 1)
           back == SubSeq(q, k + 1, n)
<1>1. n \in Nat /\ k \in Nat /\ 1 <= k /\ k <= n /\ DOMAIN q = 1 .. n
  BY LenProperties
<1>2. \A i \in 1 .. n : q[i] \in S
  BY <1>1, ElementOfSeq
<1>3. RemoveAt(q, k) = front \o back
  BY DEF RemoveAt
<1>4. /\ front \in Seq(S) /\ Len(front) = k - 1
      /\ \A i \in 1 .. k - 1 : front[i] = q[i]
  <2>1. 1 \in Int /\ k - 1 \in Int /\ \A i \in 1 .. k - 1 : q[i] \in S
    BY <1>1, <1>2
  <2>2. /\ front \in Seq(S)
        /\ Len(front) = IF 1 <= k - 1 THEN k - 1 - 1 + 1 ELSE 0
        /\ \A i \in 1 .. k - 1 - 1 + 1 : front[i] = q[1 + i - 1]
    BY <2>1, SubSeqProperties
  <2> HIDE DEF front
  <2>3. \A i \in 1 .. k - 1 : i \in 1 .. k - 1 - 1 + 1 /\ 1 + i - 1 = i
    BY <1>1
  <2> QED
    BY <1>1, <2>2, <2>3
<1>5. /\ back \in Seq(S) /\ Len(back) = n - k
      /\ \A i \in 1 .. n - k : back[i] = q[k + i]
  <2>1. k + 1 \in Int /\ n \in Int /\ \A i \in k + 1 .. n : q[i] \in S
    BY <1>1, <1>2
  <2>2. /\ back \in Seq(S)
        /\ Len(back) = IF k + 1 <= n THEN n - (k + 1) + 1 ELSE 0
        /\ \A i \in 1 .. n - (k + 1) + 1 : back[i] = q[k + 1 + i - 1]
    BY <2>1, SubSeqProperties
  <2> HIDE DEF back, n
  <2>3. \A i \in 1 .. n - k : i \in 1 .. n - (k + 1) + 1 /\ k + 1 + i - 1 = k + i
    BY <1>1
  <2> QED
    BY <1>1, <2>2, <2>3
<1> HIDE DEF front, back, n
<1>6. /\ front \o back \in Seq(S)
      /\ Len(front \o back) = Len(front) + Len(back)
      /\ \A i \in 1 .. Len(front) + Len(back) : (front \o back)[i] =
            IF i <= Len(front) THEN front[i] ELSE back[i - Len(front)]
  BY <1>4, <1>5, ConcatProperties
<1>7. Len(front) + Len(back) = n - 1
  BY <1>1, <1>4, <1>5
<1>8. ASSUME NEW i \in 1 .. n - 1
      PROVE  (front \o back)[i] = IF i < k THEN q[i] ELSE q[i + 1]
  <2>1. CASE i < k
    <3>1. i \in 1 .. k - 1 /\ i <= Len(front) /\ i \in 1 .. Len(front) + Len(back)
      BY <1>1, <1>4, <1>7, <2>1
    <3> QED
      BY <3>1, <1>4, <1>6, <2>1
  <2>2. CASE ~(i < k)
    <3>1. /\ i - Len(front) \in 1 .. n - k /\ ~(i <= Len(front))
          /\ i \in 1 .. Len(front) + Len(back) /\ k + (i - Len(front)) = i + 1
      BY <1>1, <1>4, <1>7, <2>2
    <3> QED
      BY <3>1, <1>5, <1>6, <2>2
  <2> QED
    BY <2>1, <2>2
<1> QED
  BY <1>3, <1>6, <1>7, <1>8 DEF n

LEMMA RemovedSockets ==
  ASSUME NEW n, NEW ss, Orderly(ss, n), NEW k \in 1..Len(ss)
  PROVE  /\ Orderly(RemoveAt(ss, k), n) /\ Len(RemoveAt(ss, k)) = Len(ss) - 1
         /\ \A i \in 1..Len(ss) - 1 :
               RemoveAt(ss, k)[i] = IF i < k THEN ss[i] ELSE ss[i + 1]
<1> DEFINE tt == RemoveAt(ss, k)
           l == Len(ss)
<1>1. ss \in Seq(Socket) /\ l \in Nat /\ DOMAIN ss = 1..l /\ k \in 1..l
  BY SocketList DEF Orderly
<1>2. /\ tt \in Seq(Socket) /\ Len(tt) = l - 1
      /\ \A i \in 1..l - 1 : tt[i] = IF i < k THEN ss[i] ELSE ss[i + 1]
  BY <1>1, Removed
<1>3. /\ \A i \in 1..l : ss[i].of <= n /\ (ss[i].at = "closing" => ~ss[i].ref)
      /\ \A i, j \in 1..l : ss[i].ref /\ ss[j].ref => i = j
  BY DEF Orderly
<1> HIDE DEF tt, l
<1> DEFINE old(i) == IF i < k THEN i ELSE i + 1
<1>4. /\ \A i \in 1..l - 1 : old(i) \in 1..l /\ tt[i] = ss[old(i)]
      /\ \A i, j \in 1..l - 1 : old(i) = old(j) => i = j
  BY <1>1, <1>2
<1> HIDE DEF old
<1>5. \A i \in 1..l - 1 : tt[i].of <= n /\ (tt[i].at = "closing" => ~tt[i].ref)
  BY <1>3, <1>4
<1>6. \A i, j \in 1..l - 1 : tt[i].ref /\ tt[j].ref => i = j
  BY <1>3, <1>4
<1>7. Orderly(tt, n)
  BY <1>2, <1>5, <1>6 DEF Orderly
<1> QED
  BY <1>2, <1>7 DEF tt, l
-----------------------------------------------------------------------------
(* The types of the tab with the socket.                                   *)

ListTypes == Orderly(sockets, Len(rows))
WaitTypes ==
    /\ awaiting \in Seq(Tokens)
    /\ \A i \in 1..Len(awaiting) : awaiting[i] <= Len(rows)
    /\ awaiting # <<>> => refresh[Here].at # "none"
HookTypes == hook \in 0..Len(rows) /\ timer \in 0..Len(rows)
FetchTypes ==
    /\ view \in [Parts -> {"current", "stale"}]
    /\ asked \in [Parts -> Nat] /\ fresh \in [Parts -> Nat] /\ outdated \in [Parts -> Nat]
FlagTypes ==
    /\ status \in {"connecting", "connected", "disconnected"}
    /\ live \in BOOLEAN /\ subs \in BOOLEAN /\ subsRef \in BOOLEAN
    /\ attempts \in 0..MaxAttempts
    /\ had \in BOOLEAN /\ FetchTypes
    /\ trouble \subseteq Troubles
SocketTypes == ListTypes /\ WaitTypes /\ HookTypes /\ FlagTypes

\* What connect makes of a list of sockets.
LEMMA Connects ==
  ASSUME CoreOK, SocketTypes, NEW token, token \in 0..Len(rows), NEW ss, Orderly(ss, Len(rows)),
         Connect(token, ss), UNCHANGED rows
  PROVE  /\ ListTypes' /\ WaitTypes'
         /\ status' \in {"connecting", "connected", "disconnected"}
         /\ trouble' \subseteq Troubles
<1>1. Len(rows) \in Nat /\ Len(rows) \in Tokens /\ Tokens = 1..MaxTokens /\ MaxTokens \in Nat
  BY BoundsAssumption DEF CoreOK, CoreTypes, Tokens
<1>2. trouble' \subseteq Troubles /\ status' \in {"connecting", "connected", "disconnected"}
  BY DEF Connect, SocketTypes, FlagTypes, Troubles, Mishaps, Lost
<1>3. CASE token = NoToken \/ Has(ss, {"open", "gone"})
  <2>1. sockets' = ss /\ UNCHANGED <<awaiting, refresh>>
    BY <1>3 DEF Connect
  <2> QED
    BY <1>2, <2>1 DEF SocketTypes, ListTypes, WaitTypes
<1>4. CASE ~(token = NoToken \/ Has(ss, {"open", "gone"})) /\ store # NoToken /\ ExpiresSoon
  <2>1. /\ sockets' = ss /\ awaiting' = Append(awaiting, token)
        /\ refresh' = Refreshing(Here)
    BY <1>4 DEF Connect
  <2>2. token \in Tokens
    BY <1>1, <1>4 DEF NoToken
  <2>3. /\ awaiting' \in Seq(Tokens) /\ Len(awaiting) \in Nat /\ Len(awaiting') = Len(awaiting) + 1
        /\ \A i \in 1..Len(awaiting) : awaiting'[i] = awaiting[i]
        /\ awaiting'[Len(awaiting) + 1] = token
    BY <2>1, <2>2, AppendProperties DEF SocketTypes, WaitTypes
  <2>4. \A i \in 1..Len(awaiting') : awaiting'[i] <= Len(rows)
    BY <2>3 DEF SocketTypes, WaitTypes
  <2>5. refresh'[Here].at # "none"
    BY <2>1, HereAssumption DEF CoreOK, CoreTypes, Refreshing
  <2> QED
    BY <1>2, <2>1, <2>3, <2>4, <2>5 DEF ListTypes, WaitTypes
<1>5. CASE ~(token = NoToken \/ Has(ss, {"open", "gone"})) /\ ~(store # NoToken /\ ExpiresSoon)
  <2>1. sockets' = Created(ss, token, token) /\ UNCHANGED <<awaiting, refresh>>
    BY <1>5 DEF Connect
  <2>2. token \in Tokens /\ token <= Len(rows)
    BY <1>1, <1>5 DEF NoToken
  <2> QED
    BY <1>2, <2>1, <2>2, CreatedSockets DEF SocketTypes, ListTypes, WaitTypes
<1> QED
  BY <1>2, <1>3, <1>4, <1>5

\* What the calls of connect that awaited the tokens make of the sockets.
LEMMA GoOn ==
  ASSUME CoreOK, CoreOK', RowsKept, SocketTypes, awaiting # <<>>, ConnectsGoOn
  PROVE  /\ ListTypes'
         /\ Len(awaiting) \in Nat \ {0} /\ Len(sockets') = Len(sockets) + Len(awaiting)
         /\ \A i \in 1..Len(sockets) : sockets'[i] = [sockets[i] EXCEPT !.ref = FALSE]
         /\ sockets'[Len(sockets')].at = "connecting" /\ sockets'[Len(sockets')].ref
<1> DEFINE with(token) == IF store' # NoToken THEN store' ELSE token
           new(i) == Connecting(awaiting[i], with(awaiting[i]))
           made == [i \in DOMAIN awaiting |-> new(i)]
           n == Len(rows')
           k == Len(awaiting)
           front == Front(made)
           old == sockets \o front
<1>1. sockets' = Append(Forgotten(old), Last(made))
  BY DEF ConnectsGoOn
<1>2. /\ k \in Nat \ {0} /\ DOMAIN awaiting = 1..k
      /\ \A i \in 1..k : awaiting[i] \in Tokens /\ awaiting[i] <= Len(rows)
  BY EmptySeq, LenProperties DEF SocketTypes, WaitTypes
<1>3. Len(rows) \in Nat /\ n \in Nat /\ n \in Tokens /\ Len(rows) <= n /\ store' \in Nat /\ store' <= n
  BY DEF CoreOK, CoreTypes, CoreBounds, RowsKept
<1>4. \A i \in 1..k : /\ new(i) \in Socket /\ new(i).of <= n /\ new(i).at = "connecting"
                      /\ new(i).ref
  <2>1. \A i \in 1..k : with(awaiting[i]) \in Tokens
    BY <1>2, <1>3, BoundsAssumption DEF Tokens, NoToken
  <2> HIDE DEF with
  <2>2. \A i \in 1..k : awaiting[i] <= n
    BY <1>2, <1>3 DEF Tokens
  <2> QED
    BY <1>2, <2>1, <2>2, NewSocket
<1>5. made \in [1..k -> Socket] /\ \A i \in 1..k : made[i] = new(i)
  BY <1>2, <1>4
<1> HIDE DEF new, made, n
<1>6. made \in Seq(Socket) /\ Len(made) = k
  BY <1>2, <1>5, SeqDef, LenProperties
<1>7. /\ front \in Seq(Socket) /\ Len(front) = k - 1
      /\ \A i \in 1..k - 1 : front[i] = made[i]
  BY <1>2, <1>6 DEF Front
<1>8. /\ sockets \in Seq(Socket) /\ Len(sockets) \in Nat
      /\ \A i \in 1..Len(sockets) : sockets[i].of <= Len(rows) /\ sockets[i] \in Socket
  BY SocketList DEF SocketTypes, ListTypes, Orderly
<1> HIDE DEF front
<1>9. /\ old \in Seq(Socket) /\ Len(old) = Len(sockets) + (k - 1)
      /\ \A i \in 1..Len(sockets) : old[i] = sockets[i]
      /\ \A i \in Len(sockets) + 1..Len(sockets) + (k - 1) : old[i] = front[i - Len(sockets)]
  <2> DEFINE m == Len(sockets)
             l == Len(front)
  <2>1. /\ old \in Seq(Socket) /\ Len(old) = m + l
        /\ \A i \in 1..m + l : old[i] = IF i <= m THEN sockets[i] ELSE front[i - m]
    BY <1>7, <1>8, ConcatProperties
  <2>2. m \in Nat /\ l \in Nat /\ l = k - 1
    BY <1>2, <1>7, <1>8
  <2> HIDE DEF m, l, old
  <2>3. \A i \in 1..m : old[i] = sockets[i]
    BY <2>1, <2>2
  <2>4. \A i \in m + 1..m + l : old[i] = front[i - m]
    BY <2>1, <2>2
  <2> QED
    BY <2>1, <2>2, <2>3, <2>4 DEF m
<1>10. \A i \in 1..Len(old) : old[i].of <= n
  <2>1. \A i \in 1..Len(sockets) : old[i].of <= n
    BY <1>3, <1>8, <1>9 DEF Socket, Tokens
  <2>2. \A i \in 1..k - 1 : front[i].of <= n
    BY <1>2, <1>4, <1>5, <1>7
  <2> QED
    BY <1>2, <1>8, <1>9, <2>1, <2>2
<1>11. Last(made) = new(k)
  BY <1>2, <1>5, <1>6 DEF Last
<1> HIDE DEF old, k
<1> DEFINE ff == Forgotten(old)
           s == Last(made)
<1>12. /\ Orderly(ff, n) /\ Len(ff) = Len(old)
       /\ \A i \in 1..Len(old) : ff[i] = [old[i] EXCEPT !.ref = FALSE]
       /\ \A i \in 1..Len(old) : ~ff[i].ref
  BY <1>9, <1>10, ForgottenSockets
<1>13. s \in Socket /\ s.of <= n /\ s.at = "connecting" /\ s.ref
  BY <1>2, <1>4, <1>11
<1> HIDE DEF ff, s
<1>14. Orderly(ff, n) /\ \A i \in 1..Len(ff) : ~ff[i].ref
  BY <1>12
<1>15. /\ Orderly(Append(ff, s), n) /\ Len(Append(ff, s)) = Len(ff) + 1
       /\ \A i \in 1..Len(ff) : Append(ff, s)[i] = ff[i]
       /\ Append(ff, s)[Len(ff) + 1] = s
  <2>1. s \in Socket /\ s.of <= n /\ s.at # "closing"
    BY <1>13
  <2> QED
    BY ONLY <1>14, <2>1, Appended
<1>16. sockets' = Append(ff, s)
  BY <1>1 DEF ff, s
<1>17. \A i \in 1..Len(sockets) : i \in 1..Len(old)
  BY <1>2, <1>8, <1>9
<1>18. Len(sockets') = Len(sockets) + k
  BY <1>2, <1>8, <1>9, <1>12, <1>15, <1>16
<1>19. \A i \in 1..Len(sockets) : sockets'[i] = [sockets[i] EXCEPT !.ref = FALSE]
  BY <1>9, <1>12, <1>15, <1>16, <1>17
<1> QED
  BY <1>2, <1>13, <1>15, <1>16, <1>18, <1>19 DEF ListTypes, n, k

LEMMA ToldSockets ==
  ASSUME NEW n, NEW ss, Orderly(ss, n), NEW b \in BOOLEAN
  PROVE  /\ Orderly(Tell(ss, b), n) /\ Len(Tell(ss, b)) = Len(ss)
         /\ \A i \in 1..Len(ss) : Tell(ss, b)[i] =
               IF Is(ss[i], {"open"}) THEN [ss[i] EXCEPT !.want = b] ELSE ss[i]
<1>1. DOMAIN ss = 1..Len(ss) /\ \A i \in 1..Len(ss) : ss[i] \in Socket
  BY SocketList DEF Orderly
<1> DEFINE tt == Tell(ss, b)
<1>2. tt = [i \in DOMAIN ss |-> tt[i]]
  BY DEF Tell
<1>3. \A i \in 1..Len(ss) : tt[i] = IF Is(ss[i], {"open"}) THEN [ss[i] EXCEPT !.want = b] ELSE ss[i]
  BY <1>1 DEF Tell
<1> HIDE DEF tt
<1>4. ASSUME NEW i \in 1..Len(ss)
      PROVE  /\ tt[i] \in Socket /\ tt[i].of = ss[i].of
             /\ tt[i].ref => ss[i].ref
             /\ tt[i].at = "closing" => ~tt[i].ref
  <2>1. ss[i] \in Socket /\ (ss[i].at = "closing" => ~ss[i].ref)
    BY <1>1 DEF Orderly
  <2>2. tt[i] = ss[i] \/ tt[i] = [ss[i] EXCEPT !.want = b]
    BY <1>3
  <2>3. CASE tt[i] = ss[i]
    BY <2>1, <2>3
  <2>4. CASE tt[i] = [ss[i] EXCEPT !.want = b]
    <3>1. b \in BOOLEAN
      OBVIOUS
    <3> QED
      BY ONLY <2>1, <2>4, <3>1, Wants
  <2> QED
    BY <2>2, <2>3, <2>4
<1> QED
  BY <1>2, <1>3, <1>4, Mapped DEF tt

LEMMA AbandonedSockets ==
  ASSUME NEW n, NEW ss, Orderly(ss, n)
  PROVE  /\ Orderly(Abandon(ss), n) /\ Len(Abandon(ss)) = Len(ss)
         /\ \A i \in 1..Len(ss) : Abandon(ss)[i] =
               IF Is(ss[i], {"connecting", "open"})
               THEN [ss[i] EXCEPT !.at = "closing", !.ref = FALSE, !.mail = NoMail]
               ELSE [ss[i] EXCEPT !.ref = FALSE]
<1>1. DOMAIN ss = 1..Len(ss) /\ \A i \in 1..Len(ss) : ss[i] \in Socket
  BY SocketList DEF Orderly
<1> DEFINE tt == Abandon(ss)
<1>2. tt = [i \in DOMAIN ss |-> tt[i]]
  BY DEF Abandon
<1>3. \A i \in 1..Len(ss) : tt[i] =
         IF Is(ss[i], {"connecting", "open"})
         THEN [ss[i] EXCEPT !.at = "closing", !.ref = FALSE, !.mail = NoMail]
         ELSE [ss[i] EXCEPT !.ref = FALSE]
  BY <1>1 DEF Abandon
<1> HIDE DEF tt
<1>4. \A i \in 1..Len(ss) : /\ tt[i] \in Socket /\ tt[i].of = ss[i].of
                            /\ tt[i].ref => ss[i].ref
                            /\ tt[i].at = "closing" => ~tt[i].ref
  <2> SUFFICES ASSUME NEW i \in 1..Len(ss)
               PROVE  tt[i] \in Socket /\ tt[i].of = ss[i].of /\ ~tt[i].ref
    OBVIOUS
  <2>1. CASE Is(ss[i], {"connecting", "open"})
    <3>1. tt[i] = [ss[i] EXCEPT !.at = "closing", !.ref = FALSE, !.mail = NoMail]
      BY <1>3, <2>1
    <3>2. ss[i] \in Socket /\ NoMail \in [Parts -> Nat]
      BY <1>1 DEF NoMail
    <3> QED
      BY <3>1, <3>2 DEF Socket
  <2>2. CASE ~Is(ss[i], {"connecting", "open"})
    <3>1. tt[i] = [ss[i] EXCEPT !.ref = FALSE]
      BY <1>3, <2>2
    <3> QED
      BY <1>1, <3>1 DEF Socket
  <2> QED
    BY <2>1, <2>2
<1> QED
  BY <1>2, <1>3, <1>4, Mapped DEF tt

\* One socket changes.
LEMMA OneSocket ==
  ASSUME NEW n, NEW ss, Orderly(ss, n), NEW k \in DOMAIN ss, NEW s \in Socket,
         s.of = ss[k].of, s.ref = ss[k].ref, s.at # "closing"
  PROVE  /\ Orderly([ss EXCEPT ![k] = s], n) /\ Len([ss EXCEPT ![k] = s]) = Len(ss)
         /\ \A i \in 1..Len(ss) : [ss EXCEPT ![k] = s][i] = IF i = k THEN s ELSE ss[i]
<1>1. DOMAIN ss = 1..Len(ss) /\ \A i \in 1..Len(ss) : ss[i] \in Socket
  BY SocketList DEF Orderly
<1> DEFINE tt == [ss EXCEPT ![k] = s]
<1>2. tt = [i \in DOMAIN ss |-> tt[i]]
  OBVIOUS
<1>3. \A i \in 1..Len(ss) : tt[i] = IF i = k THEN s ELSE ss[i]
  BY <1>1
<1> HIDE DEF tt
<1>4. \A i \in 1..Len(ss) : /\ tt[i] \in Socket /\ tt[i].of = ss[i].of
                            /\ tt[i].ref => ss[i].ref
                            /\ tt[i].at = "closing" => ~tt[i].ref
  BY <1>1, <1>3 DEF Orderly
<1> QED
  BY <1>2, <1>3, <1>4, Mapped DEF tt

\* The sockets as the steps of one socket leave them.
OneChanges(i, s) ==
    /\ s \in Socket /\ s.of = sockets[i].of /\ s.ref = sockets[i].ref /\ s.at # "closing"
    /\ sockets' = [sockets EXCEPT ![i] = s]

LEMMA SocketChanges ==
  ASSUME SocketTypes, NEW i \in DOMAIN sockets
  PROVE  /\ Opened(i) => OneChanges(i, [sockets[i] EXCEPT !.at = "open", !.want = subsRef])
         /\ Drop(i) => OneChanges(i, [sockets[i] EXCEPT !.at = "gone", !.sub = FALSE, !.mail = NoMail])
         /\ ServerSubscribes(i) => OneChanges(i, [sockets[i] EXCEPT !.sub = sockets[i].want])
         /\ \A p \in Parts : Hear(i, p) =>
               OneChanges(i, [sockets[i] EXCEPT !.mail = Less(sockets[i].mail, p)])
<1>1. sockets[i] \in Socket /\ subsRef \in BOOLEAN
  BY SocketList DEF SocketTypes, ListTypes, FlagTypes, Orderly
<1>2. Opened(i) => OneChanges(i, [sockets[i] EXCEPT !.at = "open", !.want = subsRef])
  BY <1>1 DEF Opened, OneChanges, Socket
<1>3. Drop(i) => OneChanges(i, [sockets[i] EXCEPT !.at = "gone", !.sub = FALSE, !.mail = NoMail])
  BY <1>1 DEF Drop, OneChanges, Socket, NoMail
<1>4. ServerSubscribes(i) => OneChanges(i, [sockets[i] EXCEPT !.sub = sockets[i].want])
  BY <1>1 DEF ServerSubscribes, OneChanges, Socket
<1>5. ASSUME NEW p \in Parts, Hear(i, p)
      PROVE  OneChanges(i, [sockets[i] EXCEPT !.mail = Less(sockets[i].mail, p)])
  <2>1. sockets[i].mail \in [Parts -> Nat] /\ sockets[i].mail[p] > 0 /\ sockets[i].at = "open"
    BY <1>1, <1>5 DEF Hear, Socket
  <2>2. Less(sockets[i].mail, p) \in [Parts -> Nat]
    BY <2>1, Counted
  <2>3. sockets' = [sockets EXCEPT ![i] = [sockets[i] EXCEPT !.mail = Less(sockets[i].mail, p)]]
    BY <1>5 DEF Hear
  <2> QED
    BY <1>1, <2>1, <2>2, <2>3 DEF OneChanges, Socket
<1> QED
  BY <1>2, <1>3, <1>4, <1>5

LEMMA MoreTokens ==
  ASSUME CoreOK, CoreOK', RowsKept, SocketTypes, UNCHANGED <<sockets, awaiting, hook, timer>>
  PROVE  /\ ListTypes' /\ HookTypes'
         /\ awaiting' \in Seq(Tokens) /\ \A i \in 1..Len(awaiting') : awaiting'[i] <= Len(rows')
<1>1. Len(rows) \in Nat /\ Len(rows') \in Nat /\ Len(rows) <= Len(rows')
  BY DEF CoreOK, CoreTypes, RowsKept
<1>2. ListTypes'
  <2>1. \A i \in 1..Len(sockets) : sockets[i].of \in Nat /\ sockets[i].of <= Len(rows)
    <3>1. \A i \in 1..Len(sockets) : sockets[i] \in Socket /\ sockets[i].of <= Len(rows)
      BY SocketList DEF SocketTypes, ListTypes, Orderly
    <3> QED
      BY <3>1, BoundsAssumption DEF Socket, Tokens
  <2>2. \A i \in 1..Len(sockets) : sockets[i].of <= Len(rows')
    BY <1>1, <2>1
  <2> QED
    BY <2>2 DEF SocketTypes, ListTypes, Orderly
<1>3. HookTypes'
  BY <1>1 DEF SocketTypes, HookTypes
<1>4. \A i \in 1..Len(awaiting) : awaiting[i] \in Nat /\ awaiting[i] <= Len(rows)
  <2>1. \A i \in 1..Len(awaiting) : awaiting[i] \in Tokens /\ awaiting[i] <= Len(rows)
    BY LenProperties DEF SocketTypes, WaitTypes
  <2> QED
    BY <2>1, BoundsAssumption DEF Tokens
<1>5. \A i \in 1..Len(awaiting) : awaiting[i] <= Len(rows')
  BY <1>1, <1>4
<1> QED
  BY <1>2, <1>3, <1>5 DEF SocketTypes, WaitTypes

\* The sockets after each of the effects of a render.
AfterLeave == IF Leaves THEN Tell(sockets, FALSE) ELSE sockets
AfterClose == IF react[Here] # hook THEN Abandon(AfterLeave) ELSE AfterLeave
AfterJoin == IF Joins THEN Tell(AfterClose, TRUE) ELSE AfterClose

LEMMA Rendered ==
  ASSUME SocketTypes
  PROVE  /\ Orderly(AfterLeave, Len(rows)) /\ Orderly(AfterClose, Len(rows))
         /\ Orderly(AfterJoin, Len(rows))
         /\ Render => IF react[Here] # hook THEN Connect(react[Here], AfterJoin)
                      ELSE /\ sockets' = AfterJoin
                           /\ UNCHANGED <<status, awaiting, refresh, harm, trouble>>
<1>1. Orderly(AfterLeave, Len(rows))
  BY ToldSockets DEF SocketTypes, ListTypes, AfterLeave
<1>2. Orderly(AfterClose, Len(rows))
  BY <1>1, AbandonedSockets DEF AfterClose
<1>3. Orderly(AfterJoin, Len(rows))
  BY <1>2, ToldSockets DEF AfterJoin
<1>4. Render => IF react[Here] # hook THEN Connect(react[Here], AfterJoin)
                ELSE /\ sockets' = AfterJoin
                     /\ UNCHANGED <<status, awaiting, refresh, harm, trouble>>
  BY DEF Render, AfterLeave, AfterClose, AfterJoin
<1> QED
  BY <1>1, <1>2, <1>3, <1>4

LEMMA SocketStepTypes ==
  ASSUME CoreOK, TabTypes, SocketTypes, SocketStep, UNCHANGED rows
  PROVE  SocketTypes'
<1>1. /\ DOMAIN sockets = 1..Len(sockets) /\ Len(rows) \in Nat /\ NoToken \in 0..Len(rows)
      /\ react[Here] \in 0..Len(rows) /\ Orderly(sockets, Len(rows))
  BY HereAssumption, SocketList
     DEF CoreOK, CoreTypes, TabTypes, ReactTypes, SocketTypes, ListTypes, Orderly, NoToken
<1>2. ASSUME NEW i \in DOMAIN sockets, NEW s, OneChanges(i, s)
      PROVE  ListTypes'
  BY <1>1, <1>2, OneSocket DEF OneChanges, ListTypes
<1>3. ASSUME NEW i \in DOMAIN sockets,
             \/ Opened(i) \/ Drop(i) \/ ServerSubscribes(i)
             \/ \E p \in Parts : Hear(i, p)
      PROVE  SocketTypes'
  <2>1. ListTypes'
    BY <1>2, <1>3, SocketChanges
  <2>2. WaitTypes' /\ HookTypes'
    BY <1>3 DEF Opened, Drop, ServerSubscribes, Hear, authVars, SocketTypes, WaitTypes, HookTypes,
       subVars
  <2>3. FlagTypes'
    <3>1. CASE Opened(i)
      <4>1. trouble' \subseteq Troubles
        BY <3>1 DEF Opened, SocketTypes, FlagTypes, Troubles
      <4>2. /\ status' = "connected" /\ attempts' = 0 /\ had' = TRUE
            /\ UNCHANGED <<live, subs, subsRef, view, fresh, outdated>>
        BY <3>1 DEF Opened, CatchUp, subVars
      <4>3. asked' \in [Parts -> Nat]
        <5>1. asked \in [Parts -> Nat]
          BY DEF SocketTypes, FlagTypes, FetchTypes
        <5>2. asked' = [p \in Parts |-> IF had /\ p \in CaughtUp THEN asked[p] + 1 ELSE asked[p]]
          BY <3>1 DEF Opened, CatchUp
        <5>3. \A p \in Parts : (IF had /\ p \in CaughtUp THEN asked[p] + 1 ELSE asked[p]) \in Nat
          BY <5>1
        <5> QED
          BY <5>2, <5>3
      <4> QED
        BY <4>1, <4>2, <4>3, AttemptsAssumption DEF SocketTypes, FlagTypes, FetchTypes
    <3>2. CASE Drop(i) \/ ServerSubscribes(i)
      <4>1. trouble' \subseteq Troubles
        BY <3>2 DEF Drop, ServerSubscribes, Lost, SocketTypes, FlagTypes, Troubles
      <4> QED
        BY <3>2, <4>1 DEF Drop, ServerSubscribes, SocketTypes, FlagTypes, FetchTypes, subVars,
           viewVars, fetchVars
    <3>3. ASSUME NEW p \in Parts, Hear(i, p)
          PROVE  FlagTypes'
      <4>1. asked' \in [Parts -> Nat]
        BY <3>3, Counted DEF Hear, SocketTypes, FlagTypes, FetchTypes
      <4> QED
        BY <3>3, <4>1 DEF Hear, SocketTypes, FlagTypes, FetchTypes, subVars
    <3> QED
      BY <1>3, <3>1, <3>2, <3>3
  <2> QED
    BY <2>1, <2>2, <2>3 DEF SocketTypes
<1>4. ASSUME NEW i \in DOMAIN sockets, CloseEnds(i) \/ Rejected(i) \/ ConnectFails(i)
      PROVE  SocketTypes'
  <2>1. Closed(i)
    BY <1>4 DEF CloseEnds, Rejected, ConnectFails
  <2>2. ListTypes'
    BY <1>1, <2>1, RemovedSockets DEF Closed, authVars, serverVars, ListTypes
  <2>3. WaitTypes'
    BY <2>1 DEF Closed, authVars, serverVars, SocketTypes, WaitTypes
  <2>4. HookTypes'
    <3>1. sockets[i].of \in 0..Len(rows)
      <4>1. sockets[i] \in Socket /\ sockets[i].of <= Len(rows)
        BY <1>1, SocketList DEF Orderly
      <4> QED
        BY <1>1, <4>1, BoundsAssumption DEF Socket, Tokens
    <3> QED
      BY <1>1, <2>1, <3>1 DEF Closed, authVars, serverVars, subVars, SocketTypes, HookTypes
  <2>5. FlagTypes'
    <3>1. trouble' \subseteq Troubles
      BY <2>1 DEF Closed, SocketTypes, FlagTypes, Troubles
    <3>2. attempts' \in 0..MaxAttempts
      <4>1. attempts' = attempts \/ (attempts < MaxAttempts /\ attempts' = attempts + 1)
        BY <2>1 DEF Closed
      <4> QED
        BY <4>1, AttemptsAssumption DEF SocketTypes, FlagTypes
    <3>3. /\ status' = "disconnected"
          /\ UNCHANGED <<live, subs, subsRef, had, view, asked, fresh, outdated>>
      BY <2>1 DEF Closed, subVars, viewVars, fetchVars
    <3> QED
      BY <3>1, <3>2, <3>3 DEF SocketTypes, FlagTypes, FetchTypes
  <2> QED
    BY <2>2, <2>3, <2>4, <2>5 DEF SocketTypes
<1>5. CASE Render
  <2>1. HookTypes'
    BY <1>1, <1>5 DEF Render, serverVars, SocketTypes, HookTypes
  <2>2. /\ ListTypes' /\ WaitTypes' /\ trouble' \subseteq Troubles
        /\ status' \in {"connecting", "connected", "disconnected"}
    <3>1. CASE react[Here] # hook
      BY <1>1, <1>5, <3>1, Rendered, Connects
    <3>2. CASE react[Here] = hook
      <4>1. sockets' = AfterJoin /\ UNCHANGED <<status, awaiting, refresh, trouble>>
        BY <1>5, <3>2, Rendered
      <4> QED
        BY <4>1, Rendered DEF SocketTypes, ListTypes, WaitTypes, FlagTypes
    <3> QED
      BY <3>1, <3>2
  <2>3. /\ live' \in BOOLEAN /\ subs' \in BOOLEAN /\ subsRef' \in BOOLEAN
        /\ UNCHANGED <<attempts, had, view, asked, fresh, outdated>>
    BY <1>5 DEF Render, viewVars, fetchVars, SocketTypes, FlagTypes
  <2> QED
    BY <2>1, <2>2, <2>3 DEF SocketTypes, FlagTypes, FetchTypes
<1>6. CASE TimerFires
  <2>1. HookTypes'
    BY <1>1, <1>6 DEF TimerFires, serverVars, subVars, SocketTypes, HookTypes
  <2>2. /\ ListTypes' /\ WaitTypes' /\ trouble' \subseteq Troubles
        /\ status' \in {"connecting", "connected", "disconnected"}
    BY <1>1, <1>6, Connects DEF TimerFires, SocketTypes, HookTypes
  <2>3. UNCHANGED <<live, subs, subsRef, attempts, had, view, asked, fresh, outdated>>
    BY <1>6 DEF TimerFires, subVars, viewVars, fetchVars
  <2> QED
    BY <2>1, <2>2, <2>3 DEF SocketTypes, FlagTypes, FetchTypes
<1>7. ASSUME NEW p \in Parts, Publish(p)
      PROVE  SocketTypes'
  <2>1. ListTypes'
    <3> DEFINE told == {i \in DOMAIN sockets : sockets[i].at = "open" /\ sockets[i].sub}
               mailed(i) == [sockets[i] EXCEPT !.mail = More(sockets[i].mail, p)]
               tt == [i \in DOMAIN sockets |-> IF i \in told THEN mailed(i) ELSE sockets[i]]
    <3>1. sockets' = tt
      BY <1>7 DEF Publish
    <3>2. tt = [i \in DOMAIN sockets |-> tt[i]]
      OBVIOUS
    <3>3. \A i \in 1..Len(sockets) : /\ sockets[i] \in Socket
                                     /\ tt[i] \in {sockets[i], mailed(i)}
      BY <1>1, SocketList DEF Orderly
    <3>9. \A i \in 1..Len(sockets) : More(sockets[i].mail, p) \in [Parts -> Nat]
      <4>1. \A i \in 1..Len(sockets) : sockets[i].mail \in [Parts -> Nat]
        BY <3>3 DEF Socket
      <4> QED
        BY <4>1, Counted
    <3> HIDE DEF tt
    <3>4. \A i \in 1..Len(sockets) : /\ tt[i] \in Socket /\ tt[i].of = sockets[i].of
                                     /\ tt[i].ref = sockets[i].ref /\ tt[i].at = sockets[i].at
      <4> SUFFICES ASSUME NEW i \in 1..Len(sockets)
                   PROVE  /\ tt[i] \in Socket /\ tt[i].of = sockets[i].of
                          /\ tt[i].ref = sockets[i].ref /\ tt[i].at = sockets[i].at
        OBVIOUS
      <4>1. CASE tt[i] = sockets[i]
        BY <3>3, <4>1
      <4>2. CASE tt[i] = mailed(i)
        <5>1. sockets[i] \in Socket /\ More(sockets[i].mail, p) \in [Parts -> Nat]
          BY <3>3, <3>9
        <5> QED
          BY <4>2, <5>1 DEF Socket
      <4> QED
        BY <3>3, <4>1, <4>2
    <3>5. Orderly(tt, Len(rows))
      BY <1>1, <3>2, <3>4, Mapped DEF Orderly
    <3> QED
      BY <3>1, <3>5 DEF ListTypes
  <2>2. WaitTypes' /\ HookTypes'
    BY <1>7 DEF Publish, authVars, serverVars, subVars, SocketTypes, WaitTypes, HookTypes
  <2>3. FetchTypes'
    BY <1>7 DEF Publish, SocketTypes, FlagTypes, FetchTypes
  <2>4. FlagTypes'
    BY <1>7, <2>3 DEF Publish, subVars, SocketTypes, FlagTypes, Troubles
  <2> QED
    BY <2>1, <2>2, <2>4 DEF SocketTypes
<1>8. ASSUME NEW p \in Parts, Serve(p) \/ Refetched(p) \/ RefetchFails(p)
      PROVE  SocketTypes'
  <2>1. FetchTypes'
    <3>1. FetchTypes
      BY DEF SocketTypes, FlagTypes
    <3>2. CASE Serve(p)
      BY <3>1, <3>2, Counted DEF Serve, FetchTypes
    <3>3. CASE Refetched(p)
      BY <3>1, <3>3, Counted DEF Refetched, FetchTypes
    <3>4. CASE RefetchFails(p)
      BY <3>1, <3>4, Counted DEF RefetchFails, FetchTypes
    <3> QED
      BY <1>8, <3>2, <3>3, <3>4
  <2>2. trouble' \subseteq Troubles
    BY <1>8 DEF Serve, Refetched, RefetchFails, SocketTypes, FlagTypes, Troubles
  <2> QED
    BY <1>8, <2>1, <2>2 DEF Serve, Refetched, RefetchFails, authVars, serverVars, subVars,
       SocketTypes, ListTypes, WaitTypes, HookTypes, FlagTypes
<1> QED
  BY <1>3, <1>4, <1>5, <1>6, <1>7, <1>8 DEF SocketStep

LEMMA SocketTypesStep ==
  ASSUME CoreOK, CoreOK', RowsKept, TabTypes, SocketTypes, [Next]_vars
  PROVE  SocketTypes'
<1>1. CASE AuthStep /\ Follow
  <2>1. CASE awaiting # <<>> /\ refresh'[Here].at = "none"
    <3>1. /\ UNCHANGED <<status, subVars, attempts, timer, had, viewVars>> /\ ConnectsGoOn
      BY <1>1, <2>1 DEF Follow
    <3>2. ListTypes'
      BY <2>1, <3>1, GoOn
    <3>3. WaitTypes'
      <4>1. awaiting' = <<>>
        BY <3>1 DEF ConnectsGoOn
      <4> QED
        BY <4>1 DEF WaitTypes
    <3>4. HookTypes'
      BY <3>1 DEF SocketTypes, HookTypes, CoreOK, CoreTypes, RowsKept, subVars
    <3>5. FlagTypes'
      <4>1. trouble' \subseteq Troubles
        BY <3>1 DEF ConnectsGoOn, Mishaps, SocketTypes, FlagTypes, Troubles
      <4> QED
        BY <3>1, <4>1 DEF SocketTypes, FlagTypes, FetchTypes, subVars, viewVars, fetchVars
    <3> QED
      BY <3>2, <3>3, <3>4, <3>5 DEF SocketTypes
  <2>2. CASE ~(awaiting # <<>> /\ refresh'[Here].at = "none")
    <3>1. UNCHANGED socketVars
      BY <1>1, <2>2 DEF Follow
    <3>2. ListTypes' /\ HookTypes' /\ WaitTypes'
      BY <2>2, <3>1, MoreTokens DEF socketVars, subVars, WaitTypes
    <3>3. FlagTypes'
      BY <3>1 DEF SocketTypes, FlagTypes, FetchTypes, socketVars, subVars, viewVars, fetchVars
    <3> QED
      BY <3>2, <3>3 DEF SocketTypes
  <2> QED
    BY <2>1, <2>2
<1>2. CASE SocketStep
  <2>1. UNCHANGED rows
    BY <1>2 DEF SocketStep, Opened, CloseEnds, Rejected, ConnectFails, Closed, Drop,
       ServerSubscribes, Hear, Render, TimerFires, Publish, Serve, Refetched, RefetchFails,
       authVars, serverVars
  <2> QED
    BY <1>2, <2>1, SocketStepTypes
<1>3. CASE ReloadHere
  <2>1. ListTypes' /\ WaitTypes'
    BY <1>3, EmptySeq DEF ReloadHere, ListTypes, WaitTypes, Orderly
  <2>2. HookTypes'
    <3>1. Len(rows') \in Nat
      BY DEF CoreOK, CoreTypes
    <3> QED
      BY <1>3, <3>1 DEF ReloadHere, HookTypes, NoToken
  <2>3. FlagTypes'
    <3>1. 0 \in 0..MaxAttempts
      BY AttemptsAssumption
    <3>2. trouble' \subseteq Troubles
      BY <1>3 DEF ReloadHere, SocketTypes, FlagTypes
    <3>3. FetchTypes'
      BY <1>3 DEF ReloadHere, FetchTypes, NoMail
    <3> QED
      BY <1>3, <3>1, <3>2, <3>3 DEF ReloadHere, FlagTypes
  <2> QED
    BY <2>1, <2>2, <2>3 DEF SocketTypes
<1>4. ASSUME \/ UNCHANGED vars
             \/ \E t \in Tabs \ {Here} : Reload(t) /\ UNCHANGED socketVars
      PROVE  SocketTypes'
  <2>1. UNCHANGED socketVars /\ UNCHANGED refresh[Here]
    BY <1>4, HereAssumption DEF vars, authVars, Reload, CoreOK, CoreTypes
  <2>2. ListTypes' /\ HookTypes' /\ WaitTypes'
    BY <2>1, MoreTokens DEF socketVars, subVars, SocketTypes, WaitTypes
  <2>3. FlagTypes'
    BY <2>1 DEF SocketTypes, FlagTypes, FetchTypes, socketVars, subVars, viewVars, fetchVars
  <2> QED
    BY <2>2, <2>3 DEF SocketTypes
<1> QED
  BY <1>1, <1>2, <1>3, <1>4 DEF Next

\* A connect leaves the requests and the modals alone.
LEMMA ConnectTypes ==
  ASSUME CoreOK, TabTypes, UNCHANGED <<rows, ending, expired, react, request, modal, ended>>,
         \/ UNCHANGED <<refresh, harm>>
         \/ refresh' = Refreshing(Here) /\ Note({})
  PROVE  TabTypes'
<1>1. harm' \subseteq AuthHarms
  BY DEF TabTypes, HistoryTypes, Note, AuthHarms
<1>2. \A t \in Tabs : refresh[t].at # "none" => refresh'[t].at # "none"
  BY HereAssumption DEF CoreOK, CoreTypes, Refreshing
<1> QED
  BY <1>1, <1>2 DEF TabTypes, ReactTypes, TimeTypes, RequestTypes, HistoryTypes

LEMMA NextTabs ==
  ASSUME CoreOK, TabTypes, [Next]_vars
  PROVE  TabTypes'
<1>1. CASE AuthStep \/ UNCHANGED authVars \/ \E t \in Tabs : Reload(t)
  BY <1>1, TabStep DEF AuthNext
<1>2. CASE \E p \in Parts : RefetchFails(p)
  BY <1>2 DEF RefetchFails, serverVars, TabTypes, ReactTypes, TimeTypes, RequestTypes, HistoryTypes
<1>3. CASE TimerFires \/ Render
  <2>1. UNCHANGED <<rows, ending, expired, react, request, modal, ended>>
    BY <1>3 DEF TimerFires, Render, serverVars
  <2>2. (\E token, ss : Connect(token, ss)) \/ UNCHANGED <<refresh, harm>>
    BY <1>3 DEF TimerFires, Render
  <2>3. UNCHANGED <<refresh, harm>> \/ (refresh' = Refreshing(Here) /\ Note({}))
    BY <2>2 DEF Connect
  <2> QED
    BY <2>1, <2>3, ConnectTypes
<1>4. SocketStep => \/ Render \/ TimerFires \/ (\E p \in Parts : RefetchFails(p))
                    \/ UNCHANGED authVars
  BY DEF SocketStep, Opened, CloseEnds, Rejected, ConnectFails, Closed, Drop, ServerSubscribes,
     Hear, Publish, Serve, Refetched
<1> QED
  BY <1>1, <1>2, <1>3, <1>4, HereAssumption DEF Next, ReloadHere, vars

SocketOK == CoreOK /\ TabTypes /\ SocketTypes

LEMMA SocketOKInit ==
  ASSUME Init
  PROVE  SocketOK
<1>1. CoreOK /\ TabTypes
  BY CoreInit, TabInit DEF Init
<1>2. ListTypes /\ WaitTypes
  BY EmptySeq DEF Init, SocketInit, ListTypes, WaitTypes, Orderly
<1>3. HookTypes
  BY <1>1 DEF Init, SocketInit, HookTypes, CoreOK, CoreTypes, NoToken
<1>4. FlagTypes
  <2>1. 0 \in 0..MaxAttempts
    BY AttemptsAssumption
  <2> QED
    BY <2>1 DEF Init, SocketInit, FlagTypes, FetchTypes, NoMail
<1> QED
  BY <1>1, <1>2, <1>3, <1>4 DEF SocketOK, SocketTypes

LEMMA SocketOKStep ==
  ASSUME SocketOK, [Next]_vars
  PROVE  SocketOK'
<1>1. CoreOK' /\ RowsKept
  BY SocketTokenSteps, CoreStep, RowsStep DEF SocketOK
<1> QED
  BY <1>1, NextTabs, SocketTypesStep DEF SocketOK

\* Tokens, refreshes, requests and messages keep their types, and so do the
\* sockets of the tab: one at most is the one in use, and none that is closed.
THEOREM SocketTypeCorrect == Spec => []TypeOK
<1>1. SocketOK => TypeOK
  <2> SUFFICES ASSUME SocketOK
               PROVE  TypeOK
    OBVIOUS
  <2>1. AuthTypeOK
    BY TypesAgree DEF SocketOK
  <2>2. DOMAIN sockets = 1..Len(sockets)
    BY SocketList DEF SocketOK, SocketTypes, ListTypes, Orderly
  <2> QED
    BY <2>1, <2>2 DEF SocketOK, SocketTypes, ListTypes, Orderly, WaitTypes, HookTypes, FlagTypes,
       FetchTypes, TypeOK
<1> QED
  BY <1>1, SocketOKInit, SocketOKStep, PTL DEF Spec
-----------------------------------------------------------------------------
(* A tab at rest is live.                                                  *)

\* Nobody has a socket that is open or will be but wsRef.current.
Used(ss) == \A i \in 1..Len(ss) : ss[i].at \in {"connecting", "open"} => ss[i].ref
Idle(ss) == \A i \in 1..Len(ss) : ss[i].at \notin {"connecting", "open"}
NoOpen(ss) == \A i \in 1..Len(ss) : ss[i].at # "open"

\* With a token the tab has a socket, or will make one; without it has none.
HookInv ==
    IF hook = NoToken THEN Idle(sockets)
    ELSE Len(sockets) > 0 \/ timer # NoToken \/ awaiting # <<>>
\* The status knows of an open socket.
OpenInv == NoOpen(sockets) \/ (status = "connected" /\ had)
\* The session's subscription lasts from the render that saw the connection to
\* the one that saw its end, and its socket was told.
SubsInv ==
    /\ ~live => ~subs
    /\ status = "connected" => IF live THEN subs ELSE ~subsRef
    /\ live => \A i \in 1..Len(sockets) : sockets[i].at = "open" => sockets[i].want
\* What the tab does not show yet, it will ask for, or it missed an event of a
\* part that no reconnection makes it ask for.
Told(p) == \E i \in 1..Len(sockets) : sockets[i].at = "open" /\ sockets[i].mail[p] > 0
Due(p) ==
    \/ view[p] = "current" \/ asked[p] > 0 \/ fresh[p] > 0 \/ Told(p)
    \/ p \in CaughtUp /\ had /\ NoOpen(sockets)
    \/ p \notin CaughtUp /\ "missed" \in trouble
ViewInv == \A p \in Parts : Due(p)
Live == Used(sockets) /\ HookInv /\ OpenInv /\ SubsInv /\ ViewInv
\* Of the troubles, none has happened but missed events.
Calm == trouble \subseteq {"missed"}
RestInv == Calm => Live

\* A step that leaves the refetches alone.
LEMMA ViewMoves ==
  ASSUME ViewInv, UNCHANGED <<view, asked, fresh>>, had => had',
         trouble \subseteq trouble', NoOpen(sockets) => NoOpen(sockets'),
         \A p \in Parts : Told(p) => Due(p)'
  PROVE  ViewInv'
<1> SUFFICES ASSUME NEW p \in Parts
             PROVE  Due(p)'
  BY DEF ViewInv
<1>1. Due(p)
  BY DEF ViewInv
<1>2. CASE Told(p)
  BY <1>2
<1>3. CASE ~Told(p)
  BY <1>1, <1>3 DEF Due
<1> QED
  BY <1>2, <1>3

LEMMA Listed ==
  ASSUME SocketTypes
  PROVE  /\ Orderly(sockets, Len(rows)) /\ sockets \in Seq(Socket)
         /\ Len(sockets) \in Nat /\ DOMAIN sockets = 1..Len(sockets)
         /\ \A i \in 1..Len(sockets) : sockets[i] \in Socket
BY SocketList DEF SocketTypes, ListTypes, Orderly

\* One socket changes in its place.
LEMMA Placed ==
  ASSUME SocketTypes, NEW i \in DOMAIN sockets, NEW s, OneChanges(i, s)
  PROVE  /\ Len(sockets') = Len(sockets) /\ i \in 1..Len(sockets)
         /\ \A j \in 1..Len(sockets) : sockets'[j] = IF j = i THEN s ELSE sockets[j]
BY Listed, OneSocket DEF OneChanges

LEMMA LiveOpened ==
  ASSUME SocketTypes, RestInv, NEW i \in DOMAIN sockets, Opened(i)
  PROVE  RestInv'
<1> SUFFICES ASSUME Calm'
             PROVE  Live'
  BY DEF RestInv
<1> DEFINE s == [sockets[i] EXCEPT !.at = "open", !.want = subsRef]
<1>1. Calm /\ ~Unrendered /\ trouble \subseteq trouble'
  <2>1. trouble' = trouble \cup {h \in {"late render"} : Unrendered}
    BY DEF Opened
  <2>2. Unrendered => "late render" \in trouble'
    BY <2>1
  <2> QED
    BY <2>1, <2>2 DEF Calm
<1>2. Live
  BY <1>1 DEF RestInv
<1>3. /\ Len(sockets') = Len(sockets) /\ i \in 1..Len(sockets)
      /\ \A j \in 1..Len(sockets) : sockets'[j] = IF j = i THEN s ELSE sockets[j]
  BY SocketChanges, Placed
<1>4. /\ s.at = "open" /\ s.want = subsRef /\ s.ref = sockets[i].ref
      /\ sockets[i].at = "connecting"
  BY Listed DEF Opened, Socket
<1> HIDE DEF s
<1>5. /\ status' = "connected" /\ had' = TRUE
      /\ UNCHANGED <<live, subs, subsRef, hook, view, fresh>>
      /\ \A p \in Parts : asked'[p] = IF had /\ p \in CaughtUp THEN asked[p] + 1 ELSE asked[p]
  BY DEF Opened, CatchUp, subVars
<1>6. Used(sockets')
  BY <1>2, <1>3, <1>4 DEF Live, Used
<1>7. HookInv'
  BY <1>2, <1>3, <1>4, <1>5, Listed DEF Live, HookInv, Idle, Opened
<1>8. OpenInv'
  BY <1>5 DEF OpenInv
<1>9. live = (status = "connected") /\ subs = subsRef
  BY <1>1 DEF Unrendered
<1>10. SubsInv'
  BY <1>2, <1>3, <1>4, <1>5, <1>9 DEF Live, SubsInv
<1>11. ViewInv'
  <2> SUFFICES ASSUME NEW p \in Parts
               PROVE  Due(p)'
    BY DEF ViewInv
  <2>1. Due(p) /\ asked[p] \in Nat
    BY <1>2 DEF Live, ViewInv, SocketTypes, FlagTypes, FetchTypes
  <2>2. CASE Told(p)
    <3>1. PICK j \in 1..Len(sockets) : sockets[j].at = "open" /\ sockets[j].mail[p] > 0
      BY <2>2 DEF Told
    <3>2. sockets'[j] = sockets[j] /\ j \in 1..Len(sockets')
      BY <1>3, <1>4, <3>1
    <3> QED
      BY <3>1, <3>2 DEF Due, Told
  <2>3. CASE ~Told(p)
    BY <1>1, <1>5, <2>1, <2>3 DEF Due
  <2> QED
    BY <2>2, <2>3
<1> QED
  BY <1>6, <1>7, <1>8, <1>10, <1>11 DEF Live

LEMMA LiveDrop ==
  ASSUME SocketTypes, RestInv, NEW i \in DOMAIN sockets, Drop(i)
  PROVE  RestInv'
<1> SUFFICES ASSUME Calm'
             PROVE  Live'
  BY DEF RestInv
<1> DEFINE s == [sockets[i] EXCEPT !.at = "gone", !.sub = FALSE, !.mail = NoMail]
<1>1. Live /\ trouble' = trouble \cup Lost(sockets')
  BY DEF RestInv, Drop, Calm
<1>2. /\ Len(sockets') = Len(sockets) /\ i \in 1..Len(sockets)
      /\ \A j \in 1..Len(sockets) : sockets'[j] = IF j = i THEN s ELSE sockets[j]
  BY SocketChanges, Placed
<1>3. s.at = "gone" /\ sockets[i].at = "open" /\ s.mail = NoMail
  BY Listed DEF Drop, Socket
<1> HIDE DEF s
<1>4. UNCHANGED <<status, live, subs, subsRef, hook, timer, awaiting, had, view, asked, fresh>>
  BY DEF Drop, subVars, viewVars, fetchVars
<1>5. NoOpen(sockets')
  <2>1. \A j \in 1..Len(sockets) : sockets[j].at = "open" => j = i
    BY <1>1, <1>2, <1>3, Listed DEF Live, Used, Orderly
  <2> QED
    BY <1>2, <1>3, <2>1 DEF NoOpen
<1>6. had
  BY <1>1, <1>2, <1>3 DEF Live, OpenInv, NoOpen
<1>7. Used(sockets') /\ HookInv'
  BY <1>1, <1>2, <1>3, <1>4 DEF Live, Used, HookInv, Idle
<1>8. SubsInv'
  BY <1>1, <1>4, <1>5 DEF Live, SubsInv, NoOpen
<1>9. ASSUME NEW p \in Parts, Told(p)
      PROVE  Due(p)'
  <2>1. CASE p \in CaughtUp
    BY <1>4, <1>5, <1>6, <2>1 DEF Due
  <2>2. CASE p \notin CaughtUp
    <3>1. PICK j \in 1..Len(sockets) : sockets[j].at = "open" /\ sockets[j].mail[p] > 0
      BY <1>9 DEF Told
    <3>2. j = i
      BY <1>1, <1>2, <1>3, <3>1, Listed DEF Live, Used, Orderly
    <3>3. sockets'[i].mail[p] = 0
      BY <1>2, <1>3 DEF NoMail
    <3>4. "missed" \in Lost(sockets')
      BY <2>2, <3>1, <3>2, <3>3 DEF Lost
    <3> QED
      BY <1>1, <2>2, <3>4 DEF Due
  <2> QED
    BY <2>1, <2>2
<1>10. ViewInv'
  BY <1>1, <1>4, <1>5, <1>9, ViewMoves DEF Live
<1> QED
  BY <1>5, <1>7, <1>8, <1>10 DEF Live, OpenInv

LEMMA LiveHeard ==
  ASSUME SocketTypes, RestInv, NEW i \in DOMAIN sockets,
         ServerSubscribes(i) \/ \E p \in Parts : Hear(i, p)
  PROVE  RestInv'
<1> SUFFICES ASSUME Calm'
             PROVE  Live'
  BY DEF RestInv
<1>1. Live /\ UNCHANGED trouble
  BY DEF RestInv, ServerSubscribes, Hear, Calm
<1>2. UNCHANGED <<status, live, subs, subsRef, hook, timer, awaiting, had, view, fresh>>
  BY DEF ServerSubscribes, Hear, subVars, viewVars, fetchVars
<1>3. /\ Len(sockets') = Len(sockets)
      /\ \A j \in 1..Len(sockets) : /\ sockets'[j].at = sockets[j].at
                                    /\ sockets'[j].ref = sockets[j].ref
                                    /\ sockets'[j].want = sockets[j].want
                                    /\ \A q \in Parts : \/ sockets'[j].mail[q] = sockets[j].mail[q]
                                                        \/ asked'[q] > 0
      /\ \A q \in Parts : asked[q] > 0 => asked'[q] > 0
  <2>1. CASE ServerSubscribes(i)
    <3>1. /\ Len(sockets') = Len(sockets)
          /\ \A j \in 1..Len(sockets) : sockets'[j] =
                IF j = i THEN [sockets[i] EXCEPT !.sub = sockets[i].want] ELSE sockets[j]
      BY <2>1, SocketChanges, Placed
    <3>2. asked' = asked
      BY <2>1 DEF ServerSubscribes, viewVars, fetchVars
    <3> DEFINE s == [sockets[i] EXCEPT !.sub = sockets[i].want]
    <3>3. /\ s.at = sockets[i].at /\ s.ref = sockets[i].ref /\ s.want = sockets[i].want
          /\ s.mail = sockets[i].mail
      BY Listed DEF Socket
    <3>4. /\ Len(sockets') = Len(sockets)
          /\ \A j \in 1..Len(sockets) : sockets'[j] = IF j = i THEN s ELSE sockets[j]
      BY <3>1
    <3> HIDE DEF s
    <3> QED
      BY <3>2, <3>3, <3>4
  <2>2. ASSUME NEW p \in Parts, Hear(i, p)
        PROVE  /\ Len(sockets') = Len(sockets)
               /\ \A j \in 1..Len(sockets) :
                    /\ sockets'[j].at = sockets[j].at
                    /\ sockets'[j].ref = sockets[j].ref
                    /\ sockets'[j].want = sockets[j].want
                    /\ \A q \in Parts : \/ sockets'[j].mail[q] = sockets[j].mail[q]
                                        \/ asked'[q] > 0
               /\ \A q \in Parts : asked[q] > 0 => asked'[q] > 0
    <3> DEFINE s == [sockets[i] EXCEPT !.mail = Less(sockets[i].mail, p)]
    <3>1. /\ Len(sockets') = Len(sockets)
          /\ \A j \in 1..Len(sockets) : sockets'[j] = IF j = i THEN s ELSE sockets[j]
      BY <2>2, SocketChanges, Placed
    <3>2. sockets[i] \in Socket /\ sockets[i].mail \in [Parts -> Nat] /\ sockets[i].mail[p] > 0
      BY <2>2, Listed DEF Hear, Socket
    <3>3. /\ s.at = sockets[i].at /\ s.ref = sockets[i].ref /\ s.want = sockets[i].want
          /\ s.mail = Less(sockets[i].mail, p)
      BY <3>2 DEF Socket
    <3>4. \A q \in Parts \ {p} : s.mail[q] = sockets[i].mail[q]
      BY <3>2, <3>3, Counted
    <3>5. asked \in [Parts -> Nat] /\ asked' = More(asked, p)
      BY <2>2 DEF Hear, SocketTypes, FlagTypes, FetchTypes
    <3>6. asked'[p] > 0 /\ \A q \in Parts : asked[q] > 0 => asked'[q] > 0
      <4>1. asked[p] \in Nat /\ asked'[p] = asked[p] + 1
        BY <3>5, Counted
      <4> QED
        BY <3>5, <4>1, Counted
    <3> HIDE DEF s
    <3> QED
      BY <3>1, <3>3, <3>4, <3>6
  <2> QED
    BY <2>1, <2>2
<1>4. Used(sockets') /\ HookInv' /\ OpenInv'
  BY <1>1, <1>2, <1>3 DEF Live, Used, HookInv, Idle, OpenInv, NoOpen
<1>5. SubsInv'
  BY <1>1, <1>2, <1>3 DEF Live, SubsInv
<1>6. ViewInv'
  <2> SUFFICES ASSUME NEW p \in Parts
               PROVE  Due(p)'
    BY DEF ViewInv
  <2>1. Due(p)
    BY <1>1 DEF Live, ViewInv
  <2>2. NoOpen(sockets) => NoOpen(sockets')
    BY <1>3 DEF NoOpen
  <2>3. Told(p) => asked'[p] > 0 \/ Told(p)'
    BY <1>3 DEF Told
  <2> QED
    BY <1>1, <1>2, <1>3, <2>1, <2>2, <2>3 DEF Due
<1> QED
  BY <1>4, <1>5, <1>6 DEF Live

LEMMA LiveClosed ==
  ASSUME SocketTypes, RestInv, NEW i \in DOMAIN sockets, Closed(i), sockets[i].at # "open",
         MaxAttempts \in Nat
  PROVE  RestInv'
<1> SUFFICES ASSUME Calm'
             PROVE  Live'
  BY DEF RestInv
<1>1. Live /\ trouble \subseteq trouble'
  BY DEF RestInv, Closed, Calm
<1>2. /\ ~Has(sockets', {"open"}) /\ attempts # MaxAttempts
      /\ status' = "disconnected" /\ timer' = sockets[i].of
      /\ UNCHANGED <<live, subs, subsRef, hook, awaiting, had, view, asked, fresh>>
  <2>1. ~Has(sockets', {"open"}) /\ attempts # MaxAttempts
    <3>1. /\ Has(sockets', {"open"}) => "late close" \in trouble'
          /\ attempts = MaxAttempts => "gave up" \in trouble'
      BY DEF Closed
    <3> QED
      BY <3>1 DEF Calm
  <2>2. attempts < MaxAttempts
    BY <2>1 DEF SocketTypes, FlagTypes
  <2>3. /\ status' = "disconnected" /\ timer' = sockets[i].of
        /\ UNCHANGED <<live, subs, subsRef, hook, awaiting, had, view, asked, fresh>>
    BY <2>2 DEF Closed, subVars, viewVars, fetchVars
  <2> QED
    BY <2>1, <2>3
<1>3. sockets' = RemoveAt(sockets, i) /\ i \in 1..Len(sockets) /\ Len(sockets) \in Nat
  BY Listed DEF Closed
<1>4. /\ Len(sockets') = Len(sockets) - 1
      /\ \A j \in 1..Len(sockets) - 1 : sockets'[j] = IF j < i THEN sockets[j] ELSE sockets[j + 1]
  BY <1>3, Listed, RemovedSockets
<1>5. \A j \in 1..Len(sockets') : \E k \in 1..Len(sockets) : sockets'[j] = sockets[k]
  <2> TAKE j \in 1..Len(sockets')
  <2>1. j \in 1..Len(sockets) /\ j + 1 \in 1..Len(sockets)
    BY <1>3, <1>4
  <2> QED
    BY <1>4, <2>1
<1>6. \A k \in 1..Len(sockets) : k # i => \E j \in 1..Len(sockets') : sockets'[j] = sockets[k]
  <2> SUFFICES ASSUME NEW k \in 1..Len(sockets), k # i
               PROVE  \E j \in 1..Len(sockets') : sockets'[j] = sockets[k]
    OBVIOUS
  <2>1. CASE k < i
    <3>1. k \in 1..Len(sockets')
      BY <1>3, <1>4, <2>1
    <3> QED
      BY <1>4, <2>1, <3>1
  <2>2. CASE k > i
    <3>1. k - 1 \in 1..Len(sockets') /\ ~(k - 1 < i) /\ (k - 1) + 1 = k
      BY <1>3, <1>4, <2>2
    <3> QED
      BY <1>4, <3>1
  <2> QED
    BY <1>3, <2>1, <2>2
<1>7. Used(sockets')
  BY <1>1, <1>5 DEF Live, Used
<1>8. DOMAIN sockets' = 1..Len(sockets')
  BY <1>3, Listed, RemovedSockets, SocketList DEF Orderly
<1>9. NoOpen(sockets')
  BY <1>2, <1>7, <1>8 DEF Has, Is, Used, NoOpen
<1>10. NoOpen(sockets)
  BY <1>6, <1>9 DEF NoOpen
<1>11. HookInv'
  <2>1. sockets[i].of # NoToken
    BY <1>3, Listed, BoundsAssumption DEF Socket, Tokens, NoToken
  <2> QED
    BY <1>1, <1>2, <1>5, <2>1 DEF Live, HookInv, Idle
<1>12. SubsInv'
  BY <1>1, <1>2, <1>9 DEF Live, SubsInv, NoOpen
<1>13. ViewInv'
  <2>1. \A p \in Parts : ~Told(p)
    BY <1>10 DEF Told, NoOpen
  <2> QED
    BY <1>1, <1>2, <1>9, <2>1, ViewMoves DEF Live
<1> QED
  BY <1>7, <1>9, <1>11, <1>12, <1>13 DEF Live, OpenInv

LEMMA LivePublish ==
  ASSUME SocketTypes, RestInv, NEW p \in Parts, Publish(p)
  PROVE  RestInv'
<1> SUFFICES ASSUME Calm'
             PROVE  Live'
  BY DEF RestInv
<1> DEFINE told == {i \in DOMAIN sockets : sockets[i].at = "open" /\ sockets[i].sub}
           mailed(i) == [sockets[i] EXCEPT !.mail = More(sockets[i].mail, p)]
           tt == [i \in DOMAIN sockets |-> IF i \in told THEN mailed(i) ELSE sockets[i]]
<1>1. Live /\ trouble \subseteq trouble'
  BY DEF RestInv, Publish, Calm
<1>2. /\ sockets' = tt
      /\ UNCHANGED <<status, live, subs, subsRef, hook, timer, awaiting, had, asked>>
      /\ \A q \in Parts \ {p} : view'[q] = view[q] /\ fresh'[q] = fresh[q]
  BY DEF Publish, subVars, SocketTypes, FlagTypes, FetchTypes
<1>3. \/ told # {} \/ asked[p] > 0
      \/ p \in CaughtUp /\ had /\ NoOpen(sockets)
      \/ p \notin CaughtUp /\ "missed" \in trouble'
  <2>1. asked[p] \in Nat
    BY DEF SocketTypes, FlagTypes, FetchTypes
  <2> DEFINE opened == \E i \in DOMAIN sockets : sockets[i].at = "open"
             unseen == told = {} /\ asked[p] = 0
  <2>2. /\ unseen /\ p \in CaughtUp /\ (~had \/ opened) => "gap" \in trouble'
        /\ unseen /\ p \notin CaughtUp => "missed" \in trouble'
    BY DEF Publish
  <2>3. "gap" \notin trouble'
    BY DEF Calm
  <2>4. ~opened => NoOpen(sockets)
    BY Listed DEF NoOpen
  <2> HIDE DEF told, opened
  <2> QED
    BY <2>1, <2>2, <2>3, <2>4
<1>4. /\ DOMAIN tt = 1..Len(sockets)
      /\ \A i \in 1..Len(sockets) : /\ sockets[i] \in Socket
                                    /\ sockets[i].mail \in [Parts -> Nat]
                                    /\ More(sockets[i].mail, p) \in [Parts -> Nat]
                                    /\ sockets[i].mail[p] \in Nat
                                    /\ More(sockets[i].mail, p)[p] = sockets[i].mail[p] + 1
                                    /\ \A q \in Parts \ {p} :
                                         More(sockets[i].mail, p)[q] = sockets[i].mail[q]
  <2>1. \A i \in 1..Len(sockets) : sockets[i] \in Socket /\ sockets[i].mail \in [Parts -> Nat]
    BY Listed DEF Socket
  <2> QED
    BY <2>1, Listed, Counted
<1>5. \A i \in 1..Len(sockets) : /\ mailed(i) \in Socket
                                 /\ mailed(i).at = sockets[i].at
                                 /\ mailed(i).ref = sockets[i].ref
                                 /\ mailed(i).want = sockets[i].want
                                 /\ mailed(i).mail = More(sockets[i].mail, p)
  BY <1>4 DEF Socket
<1>6. /\ told \subseteq 1..Len(sockets) /\ \A i \in told : sockets[i].at = "open"
      /\ \A i \in 1..Len(sockets) : tt[i] = IF i \in told THEN mailed(i) ELSE sockets[i]
  BY Listed
<1>7. tt = [i \in 1..Len(sockets) |-> tt[i]]
  BY Listed
<1> HIDE DEF tt, told, mailed
<1>8. \A i \in 1..Len(sockets) : /\ tt[i] \in Socket /\ tt[i].at = sockets[i].at
                                 /\ tt[i].ref = sockets[i].ref /\ tt[i].want = sockets[i].want
                                 /\ \A q \in Parts \ {p} : tt[i].mail[q] = sockets[i].mail[q]
                                 /\ i \in told => tt[i].mail[p] > 0
  <2> SUFFICES ASSUME NEW i \in 1..Len(sockets)
               PROVE  /\ tt[i] \in Socket /\ tt[i].at = sockets[i].at
                      /\ tt[i].ref = sockets[i].ref /\ tt[i].want = sockets[i].want
                      /\ \A q \in Parts \ {p} : tt[i].mail[q] = sockets[i].mail[q]
                      /\ i \in told => tt[i].mail[p] > 0
    OBVIOUS
  <2>1. CASE i \in told
    <3>1. tt[i] = mailed(i)
      BY <1>6, <2>1
    <3> QED
      BY <1>4, <1>5, <3>1
  <2>2. CASE i \notin told
    BY <1>4, <1>6, <2>2
  <2> QED
    BY <2>1, <2>2
<1>9. Len(sockets') = Len(sockets)
  <2>1. tt \in [1..Len(sockets) -> Socket]
    BY <1>7, <1>8
  <2> QED
    BY <1>2, <2>1, Listed, SameLength
<1>10. Used(sockets') /\ HookInv' /\ OpenInv'
  BY <1>1, <1>2, <1>8, <1>9 DEF Live, Used, HookInv, Idle, OpenInv, NoOpen
<1>11. SubsInv'
  BY <1>1, <1>2, <1>8, <1>9 DEF Live, SubsInv
<1>12. NoOpen(sockets) => NoOpen(sockets')
  BY <1>2, <1>8, <1>9 DEF NoOpen
<1>13. Due(p)'
  <2>1. CASE told # {}
    <3>1. PICK i \in told : TRUE
      BY <2>1
    <3>2. i \in 1..Len(sockets') /\ sockets'[i].at = "open" /\ sockets'[i].mail[p] > 0
      BY <1>2, <1>6, <1>8, <1>9
    <3> QED
      BY <3>2 DEF Due, Told
  <2>2. CASE told = {}
    BY <1>2, <1>3, <1>12, <2>2 DEF Due
  <2> QED
    BY <2>1, <2>2
<1>14. ASSUME NEW q \in Parts \ {p}
       PROVE  Due(q)'
  <2>1. Due(q)
    BY <1>1 DEF Live, ViewInv
  <2>2. Told(q) => Told(q)'
    BY <1>2, <1>8, <1>9 DEF Told
  <2> QED
    BY <1>1, <1>2, <1>12, <2>1, <2>2 DEF Due
<1>15. ViewInv'
  BY <1>13, <1>14 DEF ViewInv
<1> QED
  BY <1>10, <1>11, <1>15 DEF Live

LEMMA LiveRefetched ==
  ASSUME SocketTypes, RestInv, NEW p \in Parts, Serve(p) \/ Refetched(p) \/ RefetchFails(p)
  PROVE  RestInv'
<1> SUFFICES ASSUME Calm'
             PROVE  Live'
  BY DEF RestInv
<1>1. Live /\ ~RefetchFails(p) /\ trouble \subseteq trouble'
  <2>1. trouble \subseteq trouble'
    BY DEF Serve, Refetched, RefetchFails
  <2>2. RefetchFails(p) => "unread" \in trouble'
    BY DEF RefetchFails
  <2> QED
    BY <2>1, <2>2 DEF RestInv, Calm
<1>2. UNCHANGED <<sockets, status, live, subs, subsRef, hook, timer, awaiting, had>>
  BY <1>1 DEF Serve, Refetched, subVars
<1>3. FetchTypes
  BY DEF SocketTypes, FlagTypes
<1>4. \A q \in Parts : Due(q)
  BY <1>1 DEF Live, ViewInv
<1>5. \A q \in Parts : (Told(q) <=> Told(q)') /\ (NoOpen(sockets) <=> NoOpen(sockets'))
  BY <1>2 DEF Told, NoOpen
<1>6. ASSUME NEW q \in Parts \ {p}
      PROVE  Due(q)'
  <2>1. view'[q] = view[q] /\ asked'[q] = asked[q] /\ fresh'[q] = fresh[q]
    <3>1. CASE Serve(p)
      BY <1>3, <3>1, Counted DEF Serve, FetchTypes
    <3>2. CASE Refetched(p)
      BY <1>3, <3>2, Counted DEF Refetched, FetchTypes
    <3> QED
      BY <1>1, <3>1, <3>2
  <2> QED
    BY <1>1, <1>2, <1>4, <1>5, <2>1 DEF Due
<1>7. Due(p)'
  <2>1. CASE Serve(p)
    <3>1. fresh[p] \in Nat /\ fresh'[p] = fresh[p] + 1
      BY <1>3, <2>1, Counted DEF Serve, FetchTypes
    <3> QED
      BY <3>1 DEF Due
  <2>2. CASE Refetched(p) /\ fresh[p] > 0 /\ view' = [view EXCEPT ![p] = "current"]
    BY <1>3, <2>2 DEF Due, FetchTypes
  <2>3. CASE Refetched(p) /\ ~(fresh[p] > 0 /\ view' = [view EXCEPT ![p] = "current"])
    <3>1. UNCHANGED <<asked, fresh>>
      BY <2>3 DEF Refetched
    <3>2. view[p] # "current"
      BY <2>3 DEF Refetched, Calm
    <3> QED
      BY <1>1, <1>2, <1>4, <1>5, <3>1, <3>2 DEF Due
  <2> QED
    BY <1>1, <2>1, <2>2, <2>3
<1>8. ViewInv'
  BY <1>6, <1>7 DEF ViewInv
<1> QED
  BY <1>1, <1>2, <1>8 DEF Live, Used, HookInv, Idle, OpenInv, NoOpen, SubsInv

LEMMA LiveReload ==
  ASSUME ReloadHere
  PROVE  RestInv'
<1>1. /\ Len(sockets') = 0 /\ hook' = NoToken /\ ~live' /\ ~subs' /\ ~subsRef'
      /\ status' = "disconnected" /\ \A p \in Parts : view'[p] = "current"
  BY EmptySeq DEF ReloadHere
<1> QED
  BY <1>1 DEF RestInv, Live, Used, HookInv, Idle, OpenInv, NoOpen, SubsInv, ViewInv, Due

LEMMA LiveInit ==
  ASSUME Init
  PROVE  RestInv
<1>1. /\ Len(sockets) = 0 /\ hook = NoToken /\ ~live /\ ~subs /\ ~subsRef
      /\ status = "disconnected" /\ \A p \in Parts : view[p] = "current"
  BY EmptySeq DEF Init, SocketInit
<1> QED
  BY <1>1 DEF RestInv, Live, Used, HookInv, Idle, OpenInv, NoOpen, SubsInv, ViewInv, Due

LEMMA RestKept ==
  ASSUME RestInv,
         UNCHANGED <<sockets, status, live, subs, subsRef, hook, timer, awaiting, had, view, asked,
                     fresh, trouble>>
  PROVE  RestInv'
<1> SUFFICES ASSUME Calm'
             PROVE  Live'
  BY DEF RestInv
<1>1. Live
  BY DEF RestInv, Calm
<1>2. UNCHANGED <<sockets, status, live, subs, subsRef, hook, timer, awaiting, had, view, asked,
                  fresh, trouble>>
  OBVIOUS
<1> QED
  BY <1>1, <1>2 DEF Live, Used, HookInv, Idle, OpenInv, NoOpen, SubsInv, ViewInv, Due, Told

LEMMA LiveGoOn ==
  ASSUME CoreOK, CoreOK', RowsKept, SocketTypes, RestInv, Follow
  PROVE  RestInv'
<1> SUFFICES ASSUME Calm'
             PROVE  Live'
  BY DEF RestInv
<1>1. CASE UNCHANGED socketVars
  <2>1. UNCHANGED <<sockets, status, live, subs, subsRef, hook, timer, awaiting, had, view, asked,
                    fresh, trouble>>
    BY <1>1 DEF socketVars, subVars, viewVars, fetchVars
  <2>2. RestInv'
    BY <2>1, RestKept
  <2> QED
    BY <2>2 DEF RestInv
<1>2. CASE ~UNCHANGED socketVars
  <2>1. /\ awaiting # <<>> /\ ConnectsGoOn
        /\ UNCHANGED <<status, live, subs, subsRef, hook, timer, had, view, asked, fresh>>
    BY <1>2 DEF Follow, subVars, viewVars, fetchVars
  <2>2. /\ Calm /\ trouble \subseteq trouble' /\ ~(Len(awaiting) > 1) /\ ~Has(sockets, {"connecting", "open"})
        /\ hook' # NoToken
    <3>1. /\ trouble \subseteq trouble'
          /\ Len(awaiting) > 1 \/ Has(sockets, {"connecting", "open"}) => "overlap" \in trouble'
          /\ hook' = NoToken => "reopened" \in trouble'
      BY <2>1 DEF ConnectsGoOn, Mishaps
    <3> QED
      BY <3>1 DEF Calm
  <2>3. Live
    BY <2>2 DEF RestInv
  <2>4. /\ Len(awaiting) \in Nat \ {0} /\ Len(sockets') = Len(sockets) + Len(awaiting)
        /\ \A i \in 1..Len(sockets) : sockets'[i] = [sockets[i] EXCEPT !.ref = FALSE]
        /\ sockets'[Len(sockets')].at = "connecting" /\ sockets'[Len(sockets')].ref
    BY <2>1, GoOn
  <2>5. Len(sockets') = Len(sockets) + 1 /\ Len(sockets) \in Nat
    BY <2>2, <2>4, Listed
  <2>6. Idle(sockets)
    BY <2>2, <2>3, Listed DEF Has, Is, Live, Used, Idle
  <2>7. \A i \in 1..Len(sockets) : sockets'[i].at \notin {"connecting", "open"}
    BY <2>4, <2>6, Listed DEF Idle, Socket
  <2>8. \A i \in 1..Len(sockets') : i \in 1..Len(sockets) \/ i = Len(sockets')
    BY <2>5
  <2>9. Used(sockets') /\ NoOpen(sockets') /\ NoOpen(sockets)
    BY <2>4, <2>6, <2>7, <2>8 DEF Used, NoOpen, Idle
  <2>10. HookInv' /\ OpenInv'
    BY <2>2, <2>5, <2>9 DEF HookInv, OpenInv
  <2>11. SubsInv'
    BY <2>1, <2>3, <2>9 DEF Live, SubsInv, NoOpen
  <2>12. ViewInv'
    <3>1. \A p \in Parts : ~Told(p)
      BY <2>9 DEF Told, NoOpen
    <3> QED
      BY <2>1, <2>2, <2>3, <2>9, <3>1, ViewMoves DEF Live
  <2> QED
    BY <2>9, <2>10, <2>11, <2>12 DEF Live
<1> QED
  BY <1>1, <1>2

\* What connect makes of sockets all of which are used, without a mishap.
LEMMA LiveConnect ==
  ASSUME SocketTypes, NEW token \in Nat, token <= Len(rows), Len(rows) \in Tokens,
         NEW ss, Orderly(ss, Len(rows)), Used(ss), Connect(token, ss), Calm'
  PROVE  /\ trouble \cup Lost(ss) \subseteq trouble'
         /\ \/ /\ sockets' = ss /\ UNCHANGED <<status, awaiting>>
               /\ token = NoToken \/ Len(ss) > 0
            \/ /\ sockets' = ss /\ status' = "connecting" /\ awaiting' # <<>> /\ NoOpen(ss)
               /\ token # NoToken
            \/ /\ Idle(ss) /\ status' = "connecting" /\ hook' # NoToken /\ token # NoToken
               /\ NoOpen(sockets') /\ Used(sockets') /\ Len(sockets') > 0
<1>1. ss \in Seq(Socket) /\ Len(ss) \in Nat /\ DOMAIN ss = 1..Len(ss)
      /\ \A i \in 1..Len(ss) : ss[i] \in Socket
  BY SocketList DEF Orderly
<1>2. ~Has(ss, {"open", "gone"}) => NoOpen(ss)
  BY <1>1 DEF Has, Is, Used, NoOpen
<1>3. CASE token = NoToken \/ Has(ss, {"open", "gone"})
  <2>1. Has(ss, {"open", "gone"}) => Len(ss) > 0
    BY <1>1 DEF Has
  <2> QED
    BY <1>3, <2>1 DEF Connect
<1>4. CASE ~(token = NoToken \/ Has(ss, {"open", "gone"})) /\ store # NoToken /\ ExpiresSoon
  <2>1. /\ sockets' = ss /\ status' = "connecting" /\ awaiting' = Append(awaiting, token)
        /\ trouble' = trouble \cup Lost(ss)
    BY <1>4 DEF Connect
  <2>2. token \in Tokens
    BY <1>4, BoundsAssumption DEF Tokens, NoToken
  <2>3. awaiting' # <<>>
    <3>1. Len(awaiting') = Len(awaiting) + 1 /\ Len(awaiting) \in Nat
      BY <2>1, <2>2, AppendProperties DEF SocketTypes, WaitTypes
    <3> QED
      BY <3>1, EmptySeq
  <2> QED
    BY <1>2, <1>4, <2>1, <2>3
<1>5. CASE ~(token = NoToken \/ Has(ss, {"open", "gone"})) /\ ~(store # NoToken /\ ExpiresSoon)
  <2>1. /\ sockets' = Created(ss, token, token) /\ status' = "connecting"
        /\ ~Has(ss, {"connecting", "open"}) /\ hook' # NoToken
        /\ trouble \cup Lost(ss) \subseteq trouble'
    <3>1. /\ sockets' = Created(ss, token, token) /\ status' = "connecting"
          /\ trouble' = trouble \cup Lost(ss) \cup Mishaps(ss)
      BY <1>5 DEF Connect
    <3>2. "overlap" \notin Mishaps(ss) /\ "reopened" \notin Mishaps(ss)
      BY <3>1 DEF Calm
    <3> QED
      BY <3>1, <3>2 DEF Mishaps
  <2>2. Idle(ss)
    BY <1>1, <2>1 DEF Has, Is, Used, Idle
  <2>3. token \in Tokens
    BY <1>5, BoundsAssumption DEF Tokens, NoToken
  <2>4. /\ Len(sockets') = Len(ss) + 1
        /\ \A i \in 1..Len(ss) : sockets'[i] = [ss[i] EXCEPT !.ref = FALSE]
        /\ sockets'[Len(ss) + 1] = Connecting(token, token)
    BY <2>1, <2>3, CreatedSockets
  <2>5. /\ sockets'[Len(ss) + 1].at = "connecting" /\ sockets'[Len(ss) + 1].ref
        /\ \A i \in 1..Len(ss) : sockets'[i].at \notin {"connecting", "open"}
    <3>1. sockets'[Len(ss) + 1].at = "connecting" /\ sockets'[Len(ss) + 1].ref
      BY ONLY <2>4 DEF Connecting
    <3>2. ASSUME NEW i \in 1..Len(ss)
          PROVE  sockets'[i].at \notin {"connecting", "open"}
      <4>1. sockets'[i] = [ss[i] EXCEPT !.ref = FALSE] /\ ss[i] \in Socket
        BY ONLY <1>1, <2>4
      <4>2. ss[i].at \notin {"connecting", "open"}
        BY ONLY <2>2 DEF Idle
      <4> QED
        BY ONLY <4>1, <4>2 DEF Socket
    <3> QED
      BY ONLY <3>1, <3>2
  <2>6. \A i \in 1..Len(sockets') : i \in 1..Len(ss) \/ i = Len(ss) + 1
    BY <1>1, <2>4
  <2>7. NoOpen(sockets') /\ Used(sockets') /\ Len(sockets') > 0
    BY <1>1, <2>4, <2>5, <2>6 DEF NoOpen, Used
  <2> QED
    BY <1>5, <2>1, <2>2, <2>7
<1> QED
  BY <1>3, <1>4, <1>5

LEMMA LiveTimer ==
  ASSUME CoreOK, SocketTypes, RestInv, TimerFires
  PROVE  RestInv'
<1> SUFFICES ASSUME Calm'
             PROVE  Live'
  BY DEF RestInv
<1>1. Connect(timer, sockets) /\ timer # NoToken
      /\ UNCHANGED <<live, subs, subsRef, hook, had, view, asked, fresh>>
  BY DEF TimerFires, subVars, viewVars, fetchVars
<1>2. Calm
  BY <1>1 DEF Connect, Calm
<1>3. Live
  BY <1>2 DEF RestInv
<1>4. timer \in Nat /\ timer <= Len(rows) /\ Len(rows) \in Tokens /\ Len(rows) \in Nat
  BY DEF SocketTypes, HookTypes, CoreOK, CoreTypes
<1>5. /\ trouble \subseteq trouble'
      /\ \/ sockets' = sockets /\ UNCHANGED <<status, awaiting>> /\ Len(sockets) > 0
         \/ sockets' = sockets /\ status' = "connecting" /\ awaiting' # <<>> /\ NoOpen(sockets)
         \/ /\ Idle(sockets) /\ status' = "connecting" /\ hook' # NoToken
            /\ NoOpen(sockets') /\ Used(sockets') /\ Len(sockets') > 0
  BY <1>1, <1>3, <1>4, Listed, LiveConnect DEF Live
<1>6. CASE sockets' = sockets /\ UNCHANGED <<status, awaiting>> /\ Len(sockets) > 0
  <2>1. HookInv'
    BY <1>1, <1>3, <1>6 DEF Live, HookInv, Idle
  <2>2. ViewInv'
    <3>1. \A p \in Parts : Told(p) => Told(p)'
      BY <1>6 DEF Told
    <3>2. \A p \in Parts : Told(p) => Due(p)'
      BY <3>1 DEF Due
    <3> QED
      BY <1>1, <1>3, <1>5, <1>6, <3>2, ViewMoves DEF Live
  <2> QED
    BY <1>1, <1>3, <1>6, <2>1, <2>2 DEF Live, Used, OpenInv, NoOpen, SubsInv
<1>7. CASE sockets' = sockets /\ status' = "connecting" /\ awaiting' # <<>> /\ NoOpen(sockets)
  <2>1. HookInv'
    BY <1>1, <1>3, <1>7 DEF Live, HookInv, Idle
  <2>2. ViewInv'
    <3>1. \A p \in Parts : ~Told(p)
      BY <1>7 DEF Told, NoOpen
    <3> QED
      BY <1>1, <1>3, <1>5, <1>7, <3>1, ViewMoves DEF Live
  <2> QED
    BY <1>1, <1>3, <1>7, <2>1, <2>2 DEF Live, Used, OpenInv, NoOpen, SubsInv
<1>8. CASE /\ Idle(sockets) /\ status' = "connecting" /\ hook' # NoToken
           /\ NoOpen(sockets') /\ Used(sockets') /\ Len(sockets') > 0
  <2>1. HookInv' /\ OpenInv'
    BY <1>8 DEF HookInv, OpenInv
  <2>2. SubsInv'
    BY <1>1, <1>3, <1>8 DEF Live, SubsInv, NoOpen
  <2>3. ViewInv'
    <3>1. \A p \in Parts : ~Told(p)
      BY <1>8 DEF Told, Idle
    <3> QED
      BY <1>1, <1>3, <1>5, <1>8, <3>1, ViewMoves DEF Live
  <2> QED
    BY <1>8, <2>1, <2>2, <2>3 DEF Live
<1> QED
  BY <1>5, <1>6, <1>7, <1>8

\* The sockets as the effects of a render find them, before they connect.
LEMMA LiveEffects ==
  ASSUME SocketTypes, Live
  PROVE  /\ Len(AfterJoin) = Len(sockets) /\ Used(AfterJoin)
         /\ react[Here] # hook =>
              /\ Idle(AfterJoin)
              /\ \A i \in 1..Len(sockets) :
                   sockets[i].at = "open" => AfterJoin[i].mail = NoMail
         /\ react[Here] = hook =>
              \A i \in 1..Len(sockets) :
                 /\ AfterJoin[i].at = sockets[i].at /\ AfterJoin[i].mail = sockets[i].mail
                 /\ sockets[i].at = "open" =>
                      AfterJoin[i].want = IF Joins THEN TRUE ELSE sockets[i].want
<1>1. /\ Len(AfterLeave) = Len(sockets) /\ Orderly(AfterLeave, Len(rows))
      /\ \A i \in 1..Len(sockets) :
            /\ AfterLeave[i].at = sockets[i].at /\ AfterLeave[i].mail = sockets[i].mail
            /\ AfterLeave[i].ref = sockets[i].ref
            /\ sockets[i].at = "open" => AfterLeave[i].want = sockets[i].want
  <2>1. Leaves => NoOpen(sockets)
    BY DEF Leaves, Live, OpenInv
  <2>2. CASE Leaves
    <3>1. /\ Len(AfterLeave) = Len(sockets)
          /\ \A i \in 1..Len(sockets) : AfterLeave[i] =
               IF Is(sockets[i], {"open"}) THEN [sockets[i] EXCEPT !.want = FALSE] ELSE sockets[i]
      BY <2>2, Listed, ToldSockets DEF AfterLeave
    <3> QED
      BY <2>1, <2>2, <3>1, Listed, Rendered DEF Is, NoOpen
  <2>3. CASE ~Leaves
    BY <2>3, Listed, Rendered DEF AfterLeave
  <2> QED
    BY <2>2, <2>3
<1>2. \A i \in 1..Len(sockets) : AfterLeave[i] \in Socket
  BY <1>1, SocketList DEF Orderly
<1>3. /\ Len(AfterClose) = Len(sockets) /\ Orderly(AfterClose, Len(rows)) /\ Used(AfterClose)
      /\ react[Here] # hook =>
           /\ Idle(AfterClose)
           /\ \A i \in 1..Len(sockets) :
                sockets[i].at = "open" => AfterClose[i].mail = NoMail
      /\ react[Here] = hook => AfterClose = AfterLeave
  <2>1. CASE react[Here] # hook
    <3>1. /\ Len(AfterClose) = Len(sockets)
          /\ \A i \in 1..Len(sockets) : AfterClose[i] =
               IF Is(AfterLeave[i], {"connecting", "open"})
               THEN [AfterLeave[i] EXCEPT !.at = "closing", !.ref = FALSE, !.mail = NoMail]
               ELSE [AfterLeave[i] EXCEPT !.ref = FALSE]
      <4>1. AfterClose = Abandon(AfterLeave)
        BY <2>1 DEF AfterClose
      <4>2. Orderly(AfterLeave, Len(rows)) /\ Len(AfterLeave) = Len(sockets)
        BY ONLY <1>1
      <4>3. /\ Len(Abandon(AfterLeave)) = Len(AfterLeave)
            /\ Orderly(Abandon(AfterLeave), Len(rows))
            /\ \A i \in 1..Len(AfterLeave) : Abandon(AfterLeave)[i] =
               IF Is(AfterLeave[i], {"connecting", "open"})
               THEN [AfterLeave[i] EXCEPT !.at = "closing", !.ref = FALSE, !.mail = NoMail]
               ELSE [AfterLeave[i] EXCEPT !.ref = FALSE]
        BY ONLY <4>2, AbandonedSockets
      <4> QED
        BY ONLY <4>1, <4>2, <4>3
    <3>2. Idle(AfterClose)
      <4> SUFFICES ASSUME NEW i \in 1..Len(sockets)
                   PROVE  AfterClose[i].at \notin {"connecting", "open"}
        BY <3>1 DEF Idle
      <4>1. AfterLeave[i].at \in {"connecting", "open"} => AfterLeave[i].ref
        BY <1>1 DEF Live, Used
      <4>2. CASE Is(AfterLeave[i], {"connecting", "open"})
        BY <1>2, <3>1, <4>2 DEF Socket
      <4>3. CASE ~Is(AfterLeave[i], {"connecting", "open"})
        <5>1. AfterClose[i].at = AfterLeave[i].at
          BY <1>2, <3>1, <4>3 DEF Socket
        <5> QED
          BY <4>1, <4>3, <5>1 DEF Is
      <4> QED
        BY <4>2, <4>3
    <3>3. ASSUME NEW i \in 1..Len(sockets), sockets[i].at = "open"
          PROVE  AfterClose[i].mail = NoMail
      <4>1. Is(AfterLeave[i], {"connecting", "open"})
        BY <1>1, <3>3 DEF Live, Used, Is
      <4> QED
        BY <1>2, <3>1, <4>1 DEF Socket
    <3> QED
      BY <2>1, <3>1, <3>2, <3>3, Rendered DEF Idle, Used
  <2>2. CASE react[Here] = hook
    BY <1>1, <2>2, Rendered DEF AfterClose, Live, Used
  <2> QED
    BY <2>1, <2>2
<1>4. \A i \in 1..Len(sockets) : AfterClose[i] \in Socket
  BY <1>3, SocketList DEF Orderly
<1>5. /\ Len(AfterJoin) = Len(sockets)
      /\ \A i \in 1..Len(sockets) :
            /\ AfterJoin[i].at = AfterClose[i].at /\ AfterJoin[i].mail = AfterClose[i].mail
            /\ AfterJoin[i].ref = AfterClose[i].ref
            /\ AfterClose[i].at = "open" =>
                 AfterJoin[i].want = IF Joins THEN TRUE ELSE AfterClose[i].want
  <2>1. CASE Joins
    <3>1. /\ Len(AfterJoin) = Len(sockets)
          /\ \A i \in 1..Len(sockets) : AfterJoin[i] =
               IF Is(AfterClose[i], {"open"}) THEN [AfterClose[i] EXCEPT !.want = TRUE]
               ELSE AfterClose[i]
      BY <1>3, <2>1, ToldSockets DEF AfterJoin
    <3>2. \A i \in 1..Len(sockets) : AfterClose[i].at = "open" => Is(AfterClose[i], {"open"})
      BY <1>3 DEF Used, Is
    <3> QED
      BY <1>4, <2>1, <3>1, <3>2 DEF Socket
  <2>2. CASE ~Joins
    BY <1>3, <2>2 DEF AfterJoin
  <2> QED
    BY <2>1, <2>2
<1>6. Used(AfterJoin)
  BY <1>3, <1>5 DEF Used
<1>7. react[Here] # hook =>
        /\ Idle(AfterJoin)
        /\ \A i \in 1..Len(sockets) : sockets[i].at = "open" => AfterJoin[i].mail = NoMail
  BY <1>3, <1>5 DEF Idle
<1>8. ASSUME react[Here] = hook, NEW i \in 1..Len(sockets)
      PROVE  /\ AfterJoin[i].at = sockets[i].at /\ AfterJoin[i].mail = sockets[i].mail
             /\ sockets[i].at = "open" =>
                  AfterJoin[i].want = IF Joins THEN TRUE ELSE sockets[i].want
  <2>1. AfterClose[i] = AfterLeave[i]
    BY ONLY <1>3, <1>8
  <2>2. /\ AfterLeave[i].at = sockets[i].at /\ AfterLeave[i].mail = sockets[i].mail
        /\ sockets[i].at = "open" => AfterLeave[i].want = sockets[i].want
    BY ONLY <1>1, <1>8
  <2>3. /\ AfterJoin[i].at = AfterClose[i].at /\ AfterJoin[i].mail = AfterClose[i].mail
        /\ AfterClose[i].at = "open" =>
             AfterJoin[i].want = IF Joins THEN TRUE ELSE AfterClose[i].want
    BY ONLY <1>5, <1>8
  <2> QED
    BY ONLY <2>1, <2>2, <2>3
<1> QED
  BY <1>5, <1>6, <1>7, <1>8

LEMMA LiveRender ==
  ASSUME CoreOK, TabTypes, SocketTypes, RestInv, Render
  PROVE  RestInv'
<1> SUFFICES ASSUME Calm'
             PROVE  Live'
  BY DEF RestInv
<1>1. /\ live' = (status = "connected") /\ hook' = react[Here]
      /\ subsRef' = subs /\ subs' = ((subs \/ Joins) /\ ~Leaves)
      /\ timer' = IF react[Here] # hook THEN NoToken ELSE timer
      /\ UNCHANGED <<had, view, asked, fresh>>
  BY DEF Render, viewVars, fetchVars
<1>2. /\ react[Here] # hook => Connect(react[Here], AfterJoin)
      /\ react[Here] = hook => sockets' = AfterJoin /\ UNCHANGED <<status, awaiting, trouble>>
  BY Rendered
<1>3. Calm
  BY <1>2 DEF Connect, Calm
<1>4. Live
  BY <1>3 DEF RestInv
<1>5. /\ Len(AfterJoin) = Len(sockets) /\ Used(AfterJoin)
      /\ Orderly(AfterJoin, Len(rows)) /\ Len(sockets) \in Nat
      /\ react[Here] # hook => Idle(AfterJoin)
  BY <1>4, LiveEffects, Rendered, Listed
<1>6. /\ ~live' => ~subs'
      /\ status' = "connected" /\ status = "connected" => live' /\ subs'
  BY <1>1, <1>4 DEF Live, SubsInv, Leaves, Joins
<1>7. CASE react[Here] = hook
  <2>1. \A i \in 1..Len(sockets) :
           /\ sockets'[i].at = sockets[i].at /\ sockets'[i].mail = sockets[i].mail
           /\ sockets[i].at = "open" =>
                sockets'[i].want = IF Joins THEN TRUE ELSE sockets[i].want
    BY <1>2, <1>4, <1>7, LiveEffects
  <2>2. /\ Len(sockets') = Len(sockets) /\ Used(sockets')
        /\ UNCHANGED <<status, awaiting, hook, timer>>
    BY <1>1, <1>2, <1>5, <1>7
  <2>3. HookInv'
    BY <1>4, <2>1, <2>2 DEF Live, HookInv, Idle
  <2>4. OpenInv'
    BY <1>1, <1>4, <2>1, <2>2 DEF Live, OpenInv, NoOpen
  <2>5. SubsInv'
    <3>1. live' => Joins \/ live
      BY <1>1, <1>4 DEF Live, SubsInv, Joins
    <3>2. live' => \A i \in 1..Len(sockets') : sockets'[i].at = "open" => sockets'[i].want
      BY <1>4, <2>1, <2>2, <3>1 DEF Live, SubsInv
    <3> QED
      BY <1>6, <2>2, <3>2 DEF SubsInv
  <2>6. ViewInv'
    <3>1. \A p \in Parts : Told(p) => Told(p)'
      BY <2>1, <2>2 DEF Told
    <3>2. \A p \in Parts : Told(p) => Due(p)'
      BY <3>1 DEF Due
    <3>3. NoOpen(sockets) => NoOpen(sockets')
      BY <2>1, <2>2 DEF NoOpen
    <3> QED
      BY <1>1, <1>2, <1>4, <1>7, <3>2, <3>3, ViewMoves DEF Live
  <2> QED
    BY <2>2, <2>3, <2>4, <2>5, <2>6 DEF Live
<1>8. CASE react[Here] # hook
  <2>1. react[Here] \in Nat /\ react[Here] <= Len(rows) /\ Len(rows) \in Tokens
    BY HereAssumption DEF TabTypes, ReactTypes, CoreOK, CoreTypes
  <2>2. /\ trouble \cup Lost(AfterJoin) \subseteq trouble'
        /\ \/ /\ sockets' = AfterJoin /\ UNCHANGED status
              /\ react[Here] = NoToken \/ Len(AfterJoin) > 0
           \/ /\ sockets' = AfterJoin /\ status' = "connecting" /\ awaiting' # <<>>
              /\ react[Here] # NoToken
           \/ /\ status' = "connecting" /\ react[Here] # NoToken
              /\ NoOpen(sockets') /\ Used(sockets') /\ Len(sockets') > 0
    BY <1>2, <1>5, <1>8, <2>1, LiveConnect
  <2>3. NoOpen(sockets') /\ Used(sockets')
    BY <1>5, <1>8, <2>2 DEF Idle, NoOpen
  <2>4. HookInv'
    BY <1>1, <1>5, <1>8, <2>2 DEF HookInv
  <2>5. SubsInv'
    BY <1>6, <2>2, <2>3 DEF SubsInv, NoOpen
  <2>6. ViewInv'
    <3>1. ASSUME NEW p \in Parts, Told(p)
          PROVE  Due(p)'
      <4>1. PICK i \in 1..Len(sockets) : sockets[i].at = "open" /\ sockets[i].mail[p] > 0
        BY <3>1 DEF Told
      <4>2. CASE p \in CaughtUp
        <5>1. had
          BY <1>4, <4>1 DEF Live, OpenInv, NoOpen
        <5> QED
          BY <1>1, <2>3, <4>2, <5>1 DEF Due
      <4>3. CASE p \notin CaughtUp
        <5>1. AfterJoin[i].mail[p] = 0
          BY <1>4, <1>8, <4>1, LiveEffects DEF NoMail
        <5>2. i \in DOMAIN sockets
          BY Listed
        <5>3. "missed" \in Lost(AfterJoin)
          BY <4>1, <4>3, <5>1, <5>2 DEF Lost
        <5> QED
          BY <2>2, <4>3, <5>3 DEF Due
      <4> QED
        BY <4>2, <4>3
    <3> QED
      BY <1>1, <1>4, <2>2, <2>3, <3>1, ViewMoves DEF Live
  <2> QED
    BY <2>3, <2>4, <2>5, <2>6 DEF Live, OpenInv
<1> QED
  BY <1>7, <1>8

LEMMA LiveStep ==
  ASSUME SocketOK, SocketOK', RowsKept, RestInv, [Next]_vars
  PROVE  RestInv'
<1>1. CoreOK /\ CoreOK' /\ TabTypes /\ SocketTypes /\ MaxAttempts \in Nat
  BY AttemptsAssumption DEF SocketOK
<1>2. CASE AuthStep /\ Follow
  BY <1>1, <1>2, LiveGoOn
<1>3. ASSUME SocketStep
      PROVE  RestInv'
  <2>1. ASSUME NEW i \in DOMAIN sockets,
               \/ Opened(i) \/ CloseEnds(i) \/ Rejected(i) \/ ConnectFails(i)
               \/ Drop(i) \/ ServerSubscribes(i) \/ \E p \in Parts : Hear(i, p)
        PROVE  RestInv'
    <3>1. CASE Opened(i)
      BY <1>1, <3>1, LiveOpened
    <3>2. CASE CloseEnds(i) \/ Rejected(i) \/ ConnectFails(i)
      <4>1. Closed(i) /\ sockets[i].at # "open"
        BY <3>2 DEF CloseEnds, Rejected, ConnectFails
      <4> QED
        BY <1>1, <4>1, LiveClosed
    <3>3. CASE Drop(i)
      BY <1>1, <3>3, LiveDrop
    <3>4. CASE ServerSubscribes(i) \/ \E p \in Parts : Hear(i, p)
      BY <1>1, <3>4, LiveHeard
    <3> QED
      BY <2>1, <3>1, <3>2, <3>3, <3>4
  <2>2. CASE Render
    BY <1>1, <2>2, LiveRender
  <2>3. CASE TimerFires
    BY <1>1, <2>3, LiveTimer
  <2>4. ASSUME NEW p \in Parts, Publish(p)
        PROVE  RestInv'
    BY <1>1, <2>4, LivePublish
  <2>5. ASSUME NEW p \in Parts, Serve(p) \/ Refetched(p) \/ RefetchFails(p)
        PROVE  RestInv'
    BY <1>1, <2>5, LiveRefetched
  <2> QED
    BY <1>3, <2>1, <2>2, <2>3, <2>4, <2>5 DEF SocketStep
<1>4. CASE ReloadHere
  BY <1>4, LiveReload
<1>5. CASE UNCHANGED vars \/ \E t \in Tabs \ {Here} : Reload(t) /\ UNCHANGED socketVars
  <2>1. UNCHANGED <<sockets, status, live, subs, subsRef, hook, timer, awaiting, had, view, asked,
                    fresh, trouble>>
    BY <1>5 DEF vars, socketVars, subVars, viewVars, fetchVars
  <2> QED
    BY <2>1, RestKept
<1> QED
  BY <1>2, <1>3, <1>4, <1>5 DEF Next

LEMMA LiveSettled ==
  ASSUME SocketOK, RestInv
  PROVE  LiveAtRest
<1> SUFFICES ASSUME AtRest, Calm
             PROVE  IF hook = NoToken THEN sockets = <<>>
                    ELSE /\ status = "connected"
                         /\ Len(sockets) = 1 /\ sockets[1].ref /\ sockets[1].sub
                         /\ \A p \in CaughtUp : view[p] = "current"
                         /\ trouble = {} => \A p \in Parts : view[p] = "current"
  BY DEF LiveAtRest, Calm
<1>1. Live /\ SocketTypes
  BY DEF RestInv, SocketOK
<1>2. timer = NoToken /\ asked = NoMail /\ fresh = NoMail /\ awaiting = <<>>
  BY <1>1 DEF AtRest, SocketTypes, WaitTypes
<1>3. live = (status = "connected")
  BY DEF AtRest, Unrendered
<1>4. \A i \in 1..Len(sockets) :
         sockets[i].at = "open" /\ sockets[i].sub = sockets[i].want /\ sockets[i].mail = NoMail
  <2>1. \A i \in 1..Len(sockets) : sockets[i] \in ToSet(sockets)
    BY <1>1, Listed DEF ToSet
  <2> QED
    BY <2>1 DEF AtRest
<1>5. Len(sockets) \in Nat /\ (Len(sockets) = 0 => sockets = <<>>)
  BY <1>1, Listed, EmptySeq
<1>6. CASE hook = NoToken
  <2>1. ~(1 \in 1..Len(sockets))
    BY <1>1, <1>4, <1>6 DEF Live, HookInv, Idle
  <2> QED
    BY <1>5, <1>6, <2>1
<1>7. CASE hook # NoToken
  <2>1. Len(sockets) > 0
    BY <1>1, <1>2, <1>7 DEF Live, HookInv
  <2>2. \A i \in 1..Len(sockets) : sockets[i].ref
    BY <1>1, <1>4 DEF Live, Used
  <2>3. 1 \in 1..Len(sockets) /\ Len(sockets) \in 1..Len(sockets)
    BY <1>5, <2>1
  <2>4. Len(sockets) = 1
    BY <1>1, <2>2, <2>3, Listed DEF Orderly
  <2>5. ~NoOpen(sockets)
    BY <1>4, <2>3 DEF NoOpen
  <2>6. status = "connected"
    BY <1>1, <2>5 DEF Live, OpenInv
  <2>7. sockets[1].want
    BY <1>1, <1>3, <1>4, <2>3, <2>6 DEF Live, SubsInv
  <2>8. ASSUME NEW p \in Parts
        PROVE  view[p] = "current" \/ (p \notin CaughtUp /\ "missed" \in trouble)
    <3>1. ~Told(p)
      BY <1>4 DEF Told, NoMail
    <3>2. asked[p] = 0 /\ fresh[p] = 0
      BY <1>2 DEF NoMail
    <3> QED
      BY <1>1, <2>5, <3>1, <3>2 DEF Live, ViewInv, Due
  <2>9. \A p \in CaughtUp : view[p] = "current"
    BY <2>8 DEF CaughtUp
  <2> QED
    BY <1>4, <1>7, <2>2, <2>3, <2>4, <2>6, <2>7, <2>8, <2>9
<1> QED
  BY <1>6, <1>7

\* A tab at rest that is logged in has one open socket, the one in use, with
\* the session's subscription; it shows the session's record, the lists of
\* files and the study results as they are, and the results of the power flow
\* too unless an event of them was missed.  One that is not logged in has no
\* socket.  Unless one of the other troubles happened.
THEOREM StaysLive == Spec => []LiveAtRest
<1>1. Init => SocketOK /\ RestInv
  BY SocketOKInit, LiveInit
<1>2. SocketOK /\ RestInv /\ [Next]_vars => (SocketOK /\ RestInv)'
  <2> SUFFICES ASSUME SocketOK, RestInv, [Next]_vars
               PROVE  (SocketOK /\ RestInv)'
    OBVIOUS
  <2>1. SocketOK' /\ RowsKept
    BY SocketOKStep, SocketTokenSteps, RowsStep DEF SocketOK
  <2> QED
    BY <2>1, LiveStep
<1>3. SocketOK /\ RestInv => LiveAtRest
  BY LiveSettled
<1> QED
  BY <1>1, <1>2, <1>3, PTL DEF Spec
=============================================================================
