------------------------- MODULE MCFileLocksReplay --------------------------
(* Instance of FileLocksReplay for TLC. *)
EXTENDS FileLocksReplay

MCSession == [o \in Owner |-> o]

MCRanges == {<<0, 1>>}
=============================================================================
