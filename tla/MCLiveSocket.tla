---------------------------- MODULE MCLiveSocket ----------------------------
(* LiveSocket, and TokenRefresh under it, for TLC.                         *)
EXTENDS LiveSocket

CONSTANT MaxEvents  \* bound: of all that is counted, in one behaviour

\* The tab has begun to connect.
Started == hook # NoToken \/ had \/ attempts > 0

\* Not everything in one behaviour: requests and a third token, or live
\* updates; of what the properties except, one thing at a time; and no further
\* once the properties except everything.
Few ==
    /\ fetches + logouts + faults + drops + changes + Len(rows) <= MaxEvents + 2
    /\ Started => fetches = 0 /\ Len(rows) <= 2 /\ harm = {}
    /\ \A t \in Tabs \ {Here} : modal[t] = "closed"
    /\ Cardinality(harm) <= 1 /\ trouble \subseteq {"missed"}
    /\ harm \cap {"crossed", "lost", "old news"} = {}
=============================================================================
