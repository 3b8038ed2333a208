------------------------------ MODULE MCURaft ------------------------------
(* Instance of URaft for TLC: interchangeable metadata servers.            *)
EXTENDS URaft, TLC

Symmetry == Permutations(Node \ Elector)
=============================================================================
