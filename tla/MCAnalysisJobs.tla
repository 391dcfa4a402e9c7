--------------------------- MODULE MCAnalysisJobs ---------------------------
(* Instances of AnalysisJobs for TLC.                                      *)
EXTENDS AnalysisJobs, TLC

\* Requests are interchangeable, and so are sessions.
Symmetry == Permutations(Jobs) \cup Permutations(Sessions)
=============================================================================
