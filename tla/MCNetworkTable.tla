--------------------------- MODULE MCNetworkTable ---------------------------
(* The table and the chat for TLC: answers, elements and sessions are alike. *)
EXTENDS Assistant, TLC

Symmetry == Permutations(Answers) \cup Permutations(Elements)
            \cup Permutations(Sessions) \cup Permutations(Turns)

Opened == Cardinality({s \in Sessions : opening[s] # "closed"}) - 1

\* A turn is worth so many edits.
Called == 2 * Cardinality({t \in Turns : turn[t] # Unsent})
          + Cardinality({p \in Turns \X (1..MaxRounds) : p[2] <= turn[p[1]].rounds})

\* One edit is saved, and nothing is asked for beside the table.
SavedOnce == edits = 1 /\ saves = 1 /\ requests = 0

\* Not everything in one behaviour, and more of it when the user edits
\* little.
Few ==
    LET user == edits + saves + requests
    IN  user + faults + 2 * Opened + Called + Cardinality(harm)
          <= MaxEdits + (IF user = 0 \/ SavedOnce THEN 2 ELSE 1)

FewAfter == Few'

\* Of what the properties except, one thing at a time; and no further once
\* they except everything.
Simple ==
    /\ Cardinality(harm) + Cardinality(friction) <= 1
    /\ Free_of({"refused", "unread", "overtaken", "crossed"})
    /\ friction \subseteq {"clash", "rewritten"}
=============================================================================
