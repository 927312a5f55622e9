--------------------------- MODULE MCSharedSession ---------------------------
(***************************************************************************)
(* Small instances of SharedSession for TLC.                               *)
(***************************************************************************)
EXTENDS SharedSession, TLC

CONSTANTS t1, t2, t3, p1, p2

SessionSymmetry == Permutations(Transactional) \cup Permutations(Plain)
==============================================================================
