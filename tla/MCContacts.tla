----------------------------- MODULE MCContacts -----------------------------
(***************************************************************************)
(* A small instance of Contacts for TLC.                                   *)
(***************************************************************************)
EXTENDS Contacts, TLC

CONSTANTS e1, e2, a1, a2, t1, t2, t3, n1, n2, r1, r2, r3, i1, w1, w2

SecondNameTwice == [t \in Tags |-> IF t = t1 THEN n1 ELSE n2]
\* Files of a new contact, of a known and a new one, and of one twice.
ThreeFiles == {<<e2>>, <<e1, e2>>, <<e2, e2>>}

Tagged(op, T) == [field |-> "tags", operation |-> op, value |-> T]

\* Contacts with the first tag, and: contacts without it, or of an operation that
\* the builder does not know.
TwoSegments ==
    {[type |-> "AND", groups |-> {[type |-> "AND", conditions |-> {Tagged("contains", {t1})}]}],
     [type |-> "OR", groups |->
         {[type |-> "OR", conditions |-> {Tagged("notContains", {t1})}],
          [type |-> "AND", conditions |-> {[field |-> "email", operation |-> "ne", value |-> {e1}]}]}]}

\* A new tag, a tag of the audience, none, and none without updates.
FourSettings ==
    LET Setting(names, ids, update) == [tags |-> names, tagIds |-> ids, update |-> update]
    IN  {Setting({n2}, {}, TRUE), Setting({}, {t1}, TRUE), Setting({}, {}, TRUE), Setting({}, {}, FALSE)}

RequestSymmetry == Permutations(Requests)
=============================================================================
