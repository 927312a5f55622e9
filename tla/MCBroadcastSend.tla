--------------------------- MODULE MCBroadcastSend ---------------------------
(***************************************************************************)
(* Small instances of BroadcastSend for TLC.                               *)
(***************************************************************************)
EXTENDS BroadcastSend, TLC

CONSTANTS c1, c2, c3, r1, r2, r3, a1, a2

AllInOneAudience == [c \in Contacts |-> a1]
OneAndTwo        == (c1 :> a1) @@ (c2 :> a2) @@ (c3 :> a2)

RequestSymmetry == Permutations(Requests)
PairSymmetry    == Permutations({c2, c3})
=============================================================================
