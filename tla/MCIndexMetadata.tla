-------------------------- MODULE MCIndexMetadata ---------------------------
(* IndexMetadata for TLC: the updates are alike.                           *)
EXTENDS IndexMetadata, TLC

Symmetry == Permutations(Updates)
=============================================================================
