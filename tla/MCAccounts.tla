----------------------------- MODULE MCAccounts -----------------------------
(***************************************************************************)
(* A small instance of Accounts for TLC: an owner who invites one address  *)
(* twice, and the user of that address.                                    *)
(***************************************************************************)
EXTENDS Accounts, TLC

CONSTANTS owner, guest, i1, i2, r1, r2, mine, theirs

Addresses      == (owner :> mine) @@ (guest :> theirs)
OneTeam        == [i \in Invites |-> owner]
OneAddress     == [i \in Invites |-> theirs]
Administrators == [i \in Invites |-> "ADMINISTRATOR"]

\* Both invitations are alike, and so are the slots.
Alike == Permutations(Replies) \cup Permutations(Invites)
=============================================================================
