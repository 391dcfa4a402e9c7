--------------------------- MODULE MCWorkingFile ----------------------------
(* WorkingFile for TLC: requests, files and the other names are alike.     *)
EXTENDS WorkingFile, TLC

Symmetry ==
    Permutations(Requests) \cup Permutations(Files)
        \cup Permutations(Names \ {FirstName})
=============================================================================
