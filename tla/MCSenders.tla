------------------------------ MODULE MCSenders ------------------------------
(***************************************************************************)
(* A small instance of Senders for TLC: two requests for one name.         *)
(***************************************************************************)
EXTENDS Senders

CONSTANTS d1, d2, n1, k1, w1

OneName == [d \in Domains |-> n1]
=============================================================================
