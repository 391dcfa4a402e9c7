-------------------------- MODULE MCKnowledgeIndex --------------------------
(* KnowledgeIndex for TLC: the calls are alike, and so are the versions.   *)
EXTENDS KnowledgeIndex, TLC

Symmetry == Permutations(Calls) \cup Permutations(Versions)

\* A second watcher of the directory doubles all events: while there is one
\* or one is on its way, fewer changes, faults and restarts are enough.
FewerWithTwo ==
    watchers + Cardinality(Starting) > 1
        => changes + faults + restarts < MaxChanges - 1

\* A failure and a restart come with fewer changes than the bound.
FewerWithBoth == changes + faults + restarts <= MaxChanges + 1
=============================================================================
