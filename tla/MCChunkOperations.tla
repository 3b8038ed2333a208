-------------------------- MODULE MCChunkOperations --------------------------
(* Three chunkservers that are interchangeable.                            *)
EXTENDS ChunkOperations, TLC

MCSymmetry == Permutations(Server)
=============================================================================
