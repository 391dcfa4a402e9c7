----------------------------- MODULE LiveSocket -----------------------------
(***************************************************************************)
(* The live updates of one browser tab (react-ui): useWebSocket.ts, the    *)
(* subscriptions and the refetch on reconnection of WebSocketContext.tsx   *)
(* and useInvalidationEvent.ts, against the api-server's WebSocket handler *)
(* and hub.  Composed with TokenRefresh, whose tokens it connects with and *)
(* whose refresh it joins.                                                 *)
(*                                                                         *)
(* The tab shows one session throughout and subscribes to its topics as    *)
(* one; what it shows has parts, each with its own event and its own       *)
(* refetch (App.tsx).  The rows of the network are no part: the client has *)
(* no listener for network:updated, and NetworkTable has their refetches.  *)
(* The page stays mounted.  Heartbeats are left out: the server's own      *)
(* pings keep a client alive.                                              *)
(***************************************************************************)
EXTENDS TokenRefresh

CONSTANTS
    Here,         \* the tab
    Parts,        \* what it shows: each has an event and a refetch
    MaxAttempts,  \* maxReconnectAttempts
    MaxDrops, MaxChanges  \* bounds

\* The session's record, the lists of files, the study results, and the results
\* of the power flow with the control state it wrote back.
ASSUME PartsAssumption == Parts \subseteq {"session", "files", "studies", "results"}
ASSUME HereAssumption == Here \in Tabs
ASSUME AttemptsAssumption == MaxAttempts \in Nat \ {0}

VARIABLES
    sockets,   \* WebSockets whose close event has not been handled
    status,    \* the hook's status
    live,      \* isConnected when the effects last ran
    subs,      \* subscriptions (and sessionSubscriptions): the session's topics
    subsRef,   \* the refs that mirror them
    hook,      \* the token the mount effect last ran with
    attempts,  \* reconnectAttemptsRef
    timer,     \* the reconnection timer, by the token of its connect
    awaiting,  \* calls of connect that await the refresh, by their token
    had,       \* hadConnectedRef
    view,      \* whether the tab shows a part as it is
    asked,     \* refetches of a part on their way to the server
    fresh,     \* answers with the part as it is, on their way back
    outdated,  \* answers with the part as it was before a change
    drops, changes,  \* bounded counters
    trouble    \* history: what has happened that the property excepts

subVars == <<live, subs, subsRef, hook>>
fetchVars == <<view, asked, fresh, outdated>>
viewVars == <<fetchVars, changes>>
socketVars == <<sockets, status, subVars, attempts, timer, awaiting, had,
                viewVars, drops, trouble>>
vars == <<authVars, socketVars>>

Troubles == {"overlap", "late close", "reopened", "gave up", "late render",
             "stale token", "gap", "unread", "overtaken", "missed"}
NoMail == [p \in Parts |-> 0]
Socket == [at : {"connecting", "open", "closing", "gone"},
           ref : BOOLEAN,           \* it is wsRef.current
           of : Tokens,             \* the token of the connect that made it
           with : Tokens,           \* the token in its URL
           want : BOOLEAN,          \* last told: subscribe, or not
           sub : BOOLEAN,           \* the server has it subscribed
           mail : [Parts -> Nat]]   \* events on their way, by part

TypeOK ==
    /\ AuthTypeOK
    /\ sockets \in Seq(Socket)
    /\ \A i, j \in DOMAIN sockets : sockets[i].ref /\ sockets[j].ref => i = j
    /\ \A i \in DOMAIN sockets : sockets[i].at = "closing" => ~sockets[i].ref
    /\ status \in {"connecting", "connected", "disconnected"}
    /\ live \in BOOLEAN /\ subs \in BOOLEAN /\ subsRef \in BOOLEAN
    /\ hook \in 0..Len(rows)
    /\ attempts \in 0..MaxAttempts
    /\ timer \in 0..Len(rows)
    /\ awaiting \in Seq(Tokens)
    /\ awaiting # <<>> => refresh[Here].at # "none"
    /\ had \in BOOLEAN /\ view \in [Parts -> {"current", "stale"}]
    /\ asked \in [Parts -> Nat] /\ fresh \in [Parts -> Nat] /\ outdated \in [Parts -> Nat]
    /\ trouble \subseteq Troubles

Is(s, place) == s.ref /\ s.at \in place
Has(ss, place) == \E i \in DOMAIN ss : Is(ss[i], place)

\* The page has just been loaded, and its data with it.
SocketInit ==
    /\ sockets = <<>> /\ status = "disconnected"
    /\ live = FALSE /\ subs = FALSE /\ subsRef = FALSE /\ hook = NoToken
    /\ attempts = 0 /\ timer = NoToken /\ awaiting = <<>>
    /\ had = FALSE /\ view = [p \in Parts |-> "current"]
    /\ asked = NoMail /\ fresh = NoMail /\ outdated = NoMail

Init == AuthInit /\ SocketInit /\ drops = 0 /\ changes = 0 /\ trouble = {}
-----------------------------------------------------------------------------
\* The rest of connect: the new socket becomes wsRef.current, whatever was.
Forgotten(ss) == [i \in DOMAIN ss |-> [ss[i] EXCEPT !.ref = FALSE]]
Connecting(of, with) ==
    [at |-> "connecting", ref |-> TRUE, of |-> of, with |-> with,
     want |-> FALSE, sub |-> FALSE, mail |-> NoMail]
Created(ss, of, with) == Append(Forgotten(ss), Connecting(of, with))

\* It then takes the place of a socket that nobody closes, or is made for a
\* user who has logged out.
Mishaps(ss) ==
    {h \in {"overlap"} : Has(ss, {"connecting", "open"})}
      \cup {h \in {"reopened"} : hook' = NoToken}

\* handleStaleOnConnect refetches the record, the lists and the study results.
CaughtUp == Parts \ {"results"}

\* The sockets become ss: an event on its way is lost, of a part that no
\* reconnection makes the tab ask for.
Lost(ss) ==
    {h \in {"missed"} : \E i \in DOMAIN sockets, p \in Parts \ CaughtUp :
                           sockets[i].mail[p] > 0 /\ ss[i].mail[p] = 0}

\* connect with the token of its closure, when the sockets are ss.  A socket
\* that the other side has dropped is open until the client finds out.
Connect(token, ss) ==
    IF token = NoToken \/ Has(ss, {"open", "gone"})
    THEN /\ sockets' = ss
         /\ trouble' = trouble \cup Lost(ss)
         /\ UNCHANGED <<status, awaiting, refresh, harm>>
    ELSE /\ status' = "connecting"
         /\ IF store # NoToken /\ ExpiresSoon
            THEN /\ sockets' = ss
                 /\ awaiting' = Append(awaiting, token)
                 /\ refresh' = Refreshing(Here)
                 /\ trouble' = trouble \cup Lost(ss)
                 /\ Note({})
            ELSE /\ sockets' = Created(ss, token, token)
                 /\ trouble' = trouble \cup Lost(ss) \cup Mishaps(ss)
                 /\ UNCHANGED <<awaiting, refresh, harm>>

\* The refresh of the tab has ended: the calls that await it go on, each with
\* the new token, else the stored one, else its own.
ConnectsGoOn ==
    LET with(token) == IF store' # NoToken THEN store' ELSE token
        made == [i \in DOMAIN awaiting |->
                   Connecting(awaiting[i], with(awaiting[i]))]
    IN  /\ sockets' = Append(Forgotten(sockets \o Front(made)), Last(made))
        /\ awaiting' = <<>>
        /\ trouble' = trouble \cup Mishaps(sockets)
                              \cup {h \in {"overlap"} : Len(awaiting) > 1}

\* What a step of the tokens does to the sockets.
Follow ==
    IF awaiting # <<>> /\ refresh'[Here].at = "none"
    THEN /\ UNCHANGED <<status, subVars, attempts, timer, had, viewVars, drops>>
         /\ ConnectsGoOn
    ELSE UNCHANGED socketVars

\* A mutant: the cleanup closes wsRef.current and keeps it.
Abandon_KeepsRef(ss) ==
    [i \in DOMAIN ss |->
       IF Is(ss[i], {"connecting", "open"})
       THEN [ss[i] EXCEPT !.at = "closing", !.mail = NoMail] ELSE ss[i]]

\* Cleanup of the mount effect: wsRef.current is closed and forgotten.
Abandon(ss) ==
    [i \in DOMAIN ss |->
       IF Is(ss[i], {"connecting", "open"})
       THEN [ss[i] EXCEPT !.at = "closing", !.ref = FALSE, !.mail = NoMail]
       ELSE [ss[i] EXCEPT !.ref = FALSE]]

\* subscribe or unsubscribe on an open wsRef.current.
Tell(ss, b) ==
    [i \in DOMAIN ss |->
       IF Is(ss[i], {"open"}) THEN [ss[i] EXCEPT !.want = b] ELSE ss[i]]

\* What the last render has not seen.
Unrendered ==
    \/ react[Here] # hook
    \/ live # (status = "connected")
    \/ subs # subsRef

\* The session's subscription begins with the connection: subscribeToSession,
\* which does nothing when its ref has the session.
Leaves == live /\ status # "connected"
Joins == ~live /\ status = "connected" /\ ~subsRef

\* React renders and runs the effects whose dependencies changed: first every
\* cleanup, then the effects, the session's subscription before the refs.
Render ==
    LET newToken == react[Here] # hook
        left == IF Leaves THEN Tell(sockets, FALSE) ELSE sockets
        closed == IF newToken THEN Abandon(left) ELSE left
        told == IF Joins THEN Tell(closed, TRUE) ELSE closed
    IN
    /\ Unrendered
    /\ live' = (status = "connected") /\ hook' = react[Here]
    /\ subsRef' = subs
    /\ subs' = ((subs \/ Joins) /\ ~Leaves)
    /\ timer' = IF newToken THEN NoToken ELSE timer
    /\ UNCHANGED <<attempts, had, viewVars, drops>>
    /\ UNCHANGED <<serverVars, store, react, inbox, request, modal, logout,
                   fetches, logouts, faults, ended>>
    /\ IF newToken
       THEN Connect(react[Here], told)
       ELSE /\ sockets' = told
            /\ UNCHANGED <<status, awaiting, refresh, harm, trouble>>
-----------------------------------------------------------------------------
\* A mutant: nobody refetches after a reconnection.
CatchUp_Never == had' = TRUE /\ UNCHANGED asked

\* handleStatusChange: consumers refetch, but not the first time.
CatchUp ==
    /\ asked' = [p \in Parts |-> IF had /\ p \in CaughtUp THEN asked[p] + 1
                                ELSE asked[p]]
    /\ had' = TRUE

\* onopen: subscribe to what the ref has, and catch up after the first time.
\* When a render is due, the refs and the effects are behind.
Opened(i) ==
    /\ sockets[i].at = "connecting" /\ Accepts(sockets[i].with)
    /\ sockets' = [sockets EXCEPT ![i].at = "open", ![i].want = subsRef]
    /\ status' = "connected"
    /\ attempts' = 0
    /\ CatchUp
    /\ trouble' = trouble \cup {h \in {"late render"} : Unrendered}
    /\ UNCHANGED <<subVars, timer, awaiting, view, fresh, outdated, changes, drops>>
    /\ UNCHANGED authVars

\* It presents a token that has expired although the store has a newer one.
Stale(s) == s.at = "connecting" /\ ~Accepts(s.with) /\ Accepts(store)

\* onclose: the timer of the closure that made the socket, whichever socket
\* is in use by now.
Closed(i) ==
    /\ sockets' = RemoveAt(sockets, i)
    /\ status' = "disconnected"
    /\ IF attempts < MaxAttempts
       THEN /\ timer' = sockets[i].of
            /\ attempts' = attempts + 1
       ELSE /\ timer' = NoToken
            /\ UNCHANGED attempts
    /\ trouble' = trouble
         \cup {h \in {"late close"} : Has(sockets', {"open"})}
         \cup {h \in {"gave up"} : attempts = MaxAttempts}
         \cup {h \in {"stale token"} : Stale(sockets[i])}
    /\ UNCHANGED <<subVars, awaiting, had, viewVars>>
    /\ UNCHANGED authVars

\* The close that the client asked for is complete, or a socket that the
\* server or the network dropped is found to be.
CloseEnds(i) ==
    /\ sockets[i].at \in {"closing", "gone"}
    /\ Closed(i)
    /\ UNCHANGED drops

\* The upgrade is refused with 401,
Rejected(i) ==
    /\ sockets[i].at = "connecting" /\ ~Accepts(sockets[i].with)
    /\ Closed(i)
    /\ UNCHANGED drops

\* or does not get through.
ConnectFails(i) ==
    /\ drops < MaxDrops /\ drops' = drops + 1
    /\ sockets[i].at = "connecting"
    /\ Closed(i)

\* The hub drops the client, or the network does: what was sent is lost.
Drop(i) ==
    /\ drops < MaxDrops /\ drops' = drops + 1
    /\ sockets[i].at = "open"
    /\ sockets' = [sockets EXCEPT ![i].at = "gone", ![i].sub = FALSE,
                                  ![i].mail = NoMail]
    /\ trouble' = trouble \cup Lost(sockets')
    /\ UNCHANGED <<status, subVars, attempts, timer, awaiting, had, viewVars>>
    /\ UNCHANGED authVars

\* The reconnection timer calls the connect of its closure.  It takes a second
\* or more, which no render does.
TimerFires ==
    /\ timer # NoToken /\ ~Unrendered
    /\ timer' = NoToken
    /\ UNCHANGED <<subVars, attempts, had, viewVars, drops>>
    /\ UNCHANGED <<serverVars, store, react, inbox, request, modal, logout,
                   fetches, logouts, faults, ended>>
    /\ Connect(timer, sockets)

\* handleSubscribe and handleUnsubscribe: the messages of a socket in order.
ServerSubscribes(i) ==
    /\ sockets[i].at = "open" /\ sockets[i].sub # sockets[i].want
    /\ sockets' = [sockets EXCEPT ![i].sub = sockets[i].want]
    /\ UNCHANGED <<status, subVars, attempts, timer, awaiting, had, viewVars,
                   drops, trouble>>
    /\ UNCHANGED authVars
-----------------------------------------------------------------------------
More(count, p) == [count EXCEPT ![p] = @ + 1]
Less(count, p) == [count EXCEPT ![p] = @ - 1]

\* Somebody else changes a part, and the hub tells its subscribers.  Answers on
\* their way now show it as it was.  The change is missed when nobody is
\* subscribed and no refetch will be served: by a gap between refetch and
\* subscription, or because a reconnection does not refetch the part.
Publish(p) ==
    LET told == {i \in DOMAIN sockets : sockets[i].at = "open" /\ sockets[i].sub}
        opened == \E i \in DOMAIN sockets : sockets[i].at = "open"
        unseen == told = {} /\ asked[p] = 0 IN
    /\ changes < MaxChanges /\ changes' = changes + 1
    /\ view' = [view EXCEPT ![p] = "stale"]
    /\ outdated' = [outdated EXCEPT ![p] = @ + fresh[p]]
    /\ fresh' = [fresh EXCEPT ![p] = 0]
    /\ sockets' = [i \in DOMAIN sockets |->
                     IF i \in told THEN [sockets[i] EXCEPT !.mail = More(@, p)]
                     ELSE sockets[i]]
    /\ trouble' = trouble
         \cup {h \in {"gap"} : unseen /\ p \in CaughtUp /\ (~had \/ opened)}
         \cup {h \in {"missed"} : unseen /\ p \notin CaughtUp}
    /\ UNCHANGED <<status, subVars, attempts, timer, awaiting, had, asked,
                   drops>>
    /\ UNCHANGED authVars

\* onmessage: the invalidation handler of the part asks for it again.
Hear(i, p) ==
    /\ sockets[i].at = "open" /\ sockets[i].mail[p] > 0
    /\ sockets' = [sockets EXCEPT ![i].mail = Less(@, p)]
    /\ asked' = More(asked, p)
    /\ UNCHANGED <<status, subVars, attempts, timer, awaiting, had, view, fresh,
                   outdated, changes, drops, trouble>>
    /\ UNCHANGED authVars

\* The server reads the part for a refetch.
Serve(p) ==
    /\ asked[p] > 0
    /\ asked' = Less(asked, p) /\ fresh' = More(fresh, p)
    /\ UNCHANGED <<sockets, status, subVars, attempts, timer, awaiting, had, view,
                   outdated, changes, drops, trouble>>
    /\ UNCHANGED authVars

\* The answers are shown in the order they arrive, which may be any.
Refetched(p) ==
    /\ \/ /\ fresh[p] > 0 /\ fresh' = Less(fresh, p)
          /\ view' = [view EXCEPT ![p] = "current"]
          /\ UNCHANGED <<outdated, trouble>>
       \/ /\ outdated[p] > 0 /\ outdated' = Less(outdated, p)
          /\ view' = [view EXCEPT ![p] = "stale"]
          /\ trouble' = trouble \cup {h \in {"overtaken"} : view[p] = "current"}
          /\ UNCHANGED fresh
    /\ UNCHANGED <<sockets, status, subVars, attempts, timer, awaiting, had,
                   asked, changes, drops>>
    /\ UNCHANGED authVars

\* A refetch fails, which is at most logged.
RefetchFails(p) ==
    /\ faults < MaxFaults /\ faults' = faults + 1
    /\ \/ asked[p] > 0 /\ asked' = Less(asked, p) /\ UNCHANGED <<fresh, outdated>>
       \/ fresh[p] > 0 /\ fresh' = Less(fresh, p) /\ UNCHANGED <<asked, outdated>>
       \/ outdated[p] > 0 /\ outdated' = Less(outdated, p) /\ UNCHANGED <<asked, fresh>>
    /\ trouble' = trouble \cup {"unread"}
    /\ UNCHANGED <<sockets, status, subVars, attempts, timer, awaiting, had, view,
                   changes, drops>>
    /\ UNCHANGED <<serverVars, store, react, refresh, inbox, request, modal,
                   logout, fetches, logouts, ended, harm>>

\* The page is loaded again: its sockets are closed for it.
ReloadHere ==
    /\ Reload(Here)
    /\ sockets' = <<>> /\ status' = "disconnected"
    /\ live' = FALSE /\ subs' = FALSE /\ subsRef' = FALSE /\ hook' = NoToken
    /\ attempts' = 0 /\ timer' = NoToken /\ awaiting' = <<>>
    /\ had' = FALSE /\ view' = [p \in Parts |-> "current"]
    /\ asked' = NoMail /\ fresh' = NoMail /\ outdated' = NoMail
    /\ UNCHANGED <<drops, changes, trouble>>

SocketStep ==
    \/ \E i \in DOMAIN sockets :
         Opened(i) \/ CloseEnds(i) \/ Rejected(i) \/ ConnectFails(i)
           \/ Drop(i) \/ ServerSubscribes(i) \/ \E p \in Parts : Hear(i, p)
    \/ Render \/ TimerFires
    \/ \E p \in Parts : Publish(p) \/ Serve(p) \/ Refetched(p) \/ RefetchFails(p)

Next ==
    \/ AuthStep /\ Follow
    \/ SocketStep
    \/ ReloadHere
    \/ \E t \in Tabs \ {Here} : Reload(t) /\ UNCHANGED socketVars

Spec == Init /\ [][Next]_vars
-----------------------------------------------------------------------------
\* Nothing is under way in the tab.
AtRest ==
    /\ refresh[Here].at = "none" /\ inbox[Here] = <<>>
    /\ timer = NoToken /\ ~Unrendered
    /\ asked = NoMail /\ fresh = NoMail /\ outdated = NoMail
    /\ \A s \in ToSet(sockets) :
         s.at = "open" /\ s.sub = s.want /\ s.mail = NoMail

\* A tab at rest that is logged in has one open socket, the one in use, over
\* which the server sends it the session's events; one that is not has none.
\* It shows the session's record, the lists of files and the study results as
\* they are, whatever it missed while it was not connected, and the results of
\* the power flow unless an event of them was missed: "refetch everything on
\* the watch list" (App.tsx:272) leaves those out.  Of the network's rows it
\* says nothing.  Unless one of the other troubles happened.
LiveAtRest ==
    AtRest /\ trouble \subseteq {"missed"}
      => IF hook = NoToken THEN sockets = <<>>
         ELSE /\ status = "connected"
              /\ Len(sockets) = 1 /\ sockets[1].ref /\ sockets[1].sub
              /\ \A p \in CaughtUp : view[p] = "current"
              /\ trouble = {} => \A p \in Parts : view[p] = "current"
=============================================================================
