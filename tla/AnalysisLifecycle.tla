------------------------- MODULE AnalysisLifecycle -------------------------
(***************************************************************************)
(* What the analysis API promises a client of CypressEra: a job belongs to *)
(* one session, a session has at most one unfinished job, a job that       *)
(* finishes stays finished, and its outcome is announced once, truthfully. *)
(* AnalysisJobs is shown to implement this specification.                  *)
(***************************************************************************)
CONSTANTS
    Sessions, Jobs,
    NoSession   \* the owner of a job that was not accepted

VARIABLES
    owner,      \* the session a job was accepted for, or NoSession
    phase,      \* the phase of a job
    announced   \* the outcome announced for a job, or "none"

vars == <<owner, phase, announced>>

Active == {"queued", "running"}
Outcome == {"completed", "failed", "cancelled"}

TypeOK ==
    /\ owner \in [Jobs -> Sessions \cup {NoSession}]
    /\ phase \in [Jobs -> {"none"} \cup Active \cup Outcome]
    /\ announced \in [Jobs -> {"none"} \cup Outcome]

Init ==
    /\ owner = [j \in Jobs |-> NoSession]
    /\ phase = [j \in Jobs |-> "none"]
    /\ announced = [j \in Jobs |-> "none"]

Accept(j, s) ==
    /\ phase[j] = "none"
    /\ \A k \in Jobs : owner[k] = s => phase[k] \notin Active
    /\ owner' = [owner EXCEPT ![j] = s]
    /\ phase' = [phase EXCEPT ![j] = "queued"]
    /\ UNCHANGED announced

Begin(j) ==
    /\ phase[j] = "queued"
    /\ phase' = [phase EXCEPT ![j] = "running"]
    /\ UNCHANGED <<owner, announced>>

\* A job that never ran can only end cancelled.
Conclude(j, outcome) ==
    /\ phase[j] \in Active
    /\ phase[j] = "queued" => outcome = "cancelled"
    /\ phase' = [phase EXCEPT ![j] = outcome]
    /\ UNCHANGED <<owner, announced>>

Announce(j) ==
    /\ phase[j] \in Outcome
    /\ announced[j] = "none"
    /\ announced' = [announced EXCEPT ![j] = phase[j]]
    /\ UNCHANGED <<owner, phase>>

Next ==
    \E j \in Jobs :
        \/ \E s \in Sessions : Accept(j, s)
        \/ Begin(j)
        \/ \E o \in Outcome : Conclude(j, o)
        \/ Announce(j)

Spec == Init /\ [][Next]_vars
=============================================================================
