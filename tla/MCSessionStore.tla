--------------------------- MODULE MCSessionStore ---------------------------
(* SessionStore for TLC: users, session ids and requests are interchangeable. *)
EXTENDS SessionStore

Symmetry ==
    Permutations(Users) \cup Permutations(Sessions) \cup Permutations(Requests)

\* Bound: one request in flight, besides saves-as of one session.
FewRequests ==
    \A q, r \in Requests :
        q # r /\ at[q] # "idle" /\ at[r] # "idle" =>
            \E s \in Sessions : {q, r} \subseteq Saving(s)

\* Bound: saves-as overlap only in one session that has its working file alone.
FewMixed ==
    /\ Cardinality(mixed) <= 1
    /\ \A s \in mixed : disk[s] \subseteq {"dir", "model", "renamed"}

\* Bound: one removed session that left something on disk, one session with a
\* runs directory and one with study files.
FewFiles ==
    /\ Cardinality({s \in Sessions \ sessions : disk[s] # {}}) <= 1
    /\ \A thing \in {"runs", "studyDir"} :
          Cardinality({s \in Sessions : thing \in disk[s]}) <= 1
=============================================================================
