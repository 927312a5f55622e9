--------------------------- MODULE MCBroadcastEdit ---------------------------
(***************************************************************************)
(* Small instances of BroadcastEdit for TLC.                               *)
(***************************************************************************)
EXTENDS BroadcastEdit, TLC

\* A payload with or without fields, with or without a content, and with no
\* new variant or with one that takes more than half.
AllBodies == [fields : BOOLEAN, content : BOOLEAN, new : {<<>>, <<3>>}]

\* Everything at once; a content alone; other fields alone.
ThreeBodies ==
    {[fields |-> TRUE,  content |-> TRUE,  new |-> <<3>>],
     [fields |-> FALSE, content |-> TRUE,  new |-> <<>>],
     [fields |-> TRUE,  content |-> FALSE, new |-> <<>>]}

CONSTANTS u1, u2, u3

UpdateSymmetry == Permutations(Updates)
==============================================================================
