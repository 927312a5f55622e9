--------------------------- MODULE MCAbTestDispatch ---------------------------
(***************************************************************************)
(* Small instances of AbTestDispatch for TLC.                              *)
(***************************************************************************)
EXTENDS AbTestDispatch

\* Of a Hundred that is 4: half, a quarter, and a weight below zero.
SomeWeights == {2, 1, -1}
==============================================================================
