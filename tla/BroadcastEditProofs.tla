------------------------- MODULE BroadcastEditProofs -------------------------
(***************************************************************************)
(* Theorems about concurrent edits of a broadcast, for any number of       *)
(* updates and any payloads.                                               *)
(***************************************************************************)
EXTENDS BroadcastEdit, TLAPS

LEMMA NewVariantsType ==
    ASSUME NEW u \in Updates, NEW b \in Bodies
    PROVE  NewVariants(u, b) \subseteq Variants /\ NewVariants(u, b) \subseteq Contents
<1>1. b.new \in Seq(Nat) /\ Len(b.new) <= MaxNew /\ MaxNew \in Nat
  BY EditAssumption
<1>2. DOMAIN b.new = 1 .. Len(b.new) /\ Len(b.new) \in Nat
  BY <1>1
<1>3. \A i \in DOMAIN b.new : i \in 1 .. MaxNew /\ i \in 0 .. MaxNew
  BY <1>1, <1>2
<1>4. QED
  BY <1>3 DEF NewVariants, Variants, Contents

LEMMA TypeInit == Init => TypeOK
<1>1. Created \in Databases
  BY DEF Created, Databases
<1>2. ASSUME Init PROVE TypeOK
  BY <1>1, <1>2 DEF Init, TypeOK
<1>3. QED
  BY <1>2

\* A statement keeps the types if its effect does.
LEMMA StatementType ==
    ASSUME TypeOK, NEW u \in Updates, NEW s \in InTransaction,
           NEW after \in Databases, Statement(u, s, after)
    PROVE  TypeOK'
  BY DEF TypeOK, Statement, GoTo, request

LEMMA TypeStep == TypeOK /\ [Next]_vars => TypeOK'
<1> SUFFICES ASSUME TypeOK, [Next]_vars PROVE TypeOK'
  OBVIOUS
<1>1. ASSUME NEW u \in Updates, Read(u) PROVE TypeOK'
  <2>1. [isAbTest |-> db.isAbTest, content |-> db.content]
            \in [isAbTest : BOOLEAN, content : Updates \cup {None}]
    BY DEF TypeOK, Databases
  <2>2. UnderWay \subseteq Updates
    BY DEF UnderWay
  <2>3. met' \in [Updates -> SUBSET Updates]
    BY <1>1, <2>2 DEF Read, TypeOK
  <2>4. seen' \in [Updates -> [isAbTest : BOOLEAN, content : Updates \cup {None}]]
    BY <1>1, <2>1 DEF Read, TypeOK
  <2>5. QED
    BY <1>1, <2>3, <2>4 DEF Read, TypeOK, GoTo, session
<1>2. ASSUME NEW u \in Updates, Validate(u) PROVE TypeOK'
  <2>1. db.variants \subseteq Variants
    BY DEF TypeOK, Databases
  <2>2. named' \in [Updates -> SUBSET Variants]
    BY <1>2, <2>1 DEF Validate, TypeOK
  <2>3. QED
    BY <1>2, <2>2 DEF Validate, TypeOK, GoTo, session
<1>3. ASSUME NEW u \in Updates, Begin(u) PROVE TypeOK'
  BY <1>3 DEF Begin, TypeOK, GoTo, request, InTransaction
<1>4. ASSUME NEW u \in Updates, WriteRow(u) PROVE TypeOK'
  <2>1. HasVariants(u) \in BOOLEAN /\ seen[u].isAbTest \in BOOLEAN
    BY DEF HasVariants, TypeOK
  <2> DEFINE after == IF body[u].fields /\ db.exists
                      THEN [db EXCEPT !.isAbTest = HasVariants(u) \/ seen[u].isAbTest]
                      ELSE db
  <2>2. after \in Databases
    BY <2>1 DEF TypeOK, Databases
  <2>3. Statement(u, "content", after)
    BY <1>4 DEF WriteRow
  <2>4. QED
    BY <2>2, <2>3, StatementType DEF InTransaction
<1>5. ASSUME NEW u \in Updates, WriteContent(u) PROVE TypeOK'
  <2>1. <<u, 0>> \in Contents
    BY EditAssumption DEF Contents
  <2>2. [db EXCEPT !.contents = @ \cup {<<u, 0>>}] \in Databases /\ db \in Databases
    BY <2>1 DEF TypeOK, Databases
  <2>3. QED
    BY <1>5, <2>2, StatementType DEF WriteContent, InTransaction
<1>6. ASSUME NEW u \in Updates, LinkContent(u) PROVE TypeOK'
  <2>1. [db EXCEPT !.content = u] \in Databases /\ db \in Databases
    BY DEF TypeOK, Databases
  <2>2. QED
    BY <1>6, <2>1, StatementType DEF LinkContent, InTransaction
<1>7. ASSUME NEW u \in Updates, FindVariants(u) PROVE TypeOK'
  <2>1. db \in Databases
    BY DEF TypeOK
  <2>2. QED
    BY <1>7, <2>1, StatementType DEF FindVariants, InTransaction
<1>8. ASSUME NEW u \in Updates, InsertContents(u) PROVE TypeOK'
  <2>1. NewVariants(u, body[u]) \subseteq Contents
    BY NewVariantsType DEF TypeOK
  <2>2. [db EXCEPT !.contents = @ \cup NewVariants(u, body[u])] \in Databases
    BY <2>1 DEF TypeOK, Databases
  <2>3. QED
    BY <1>8, <2>2, StatementType DEF InsertContents, InTransaction
<1>9. ASSUME NEW u \in Updates, InsertVariants(u) PROVE TypeOK'
  <2>1. NewVariants(u, body[u]) \subseteq Variants
    BY NewVariantsType DEF TypeOK
  <2>2. [db EXCEPT !.variants = @ \cup NewVariants(u, body[u])] \in Databases
    BY <2>1 DEF TypeOK, Databases
  <2>3. QED
    BY <1>9, <2>2, StatementType DEF InsertVariants, InTransaction
<1>10. ASSUME NEW u \in Updates, Commit(u) \/ Fail(u) PROVE TypeOK'
  BY <1>10 DEF Commit, Fail, TypeOK, GoTo, request
<1>11. ASSUME Delete PROVE TypeOK'
  <2>1. db' \in Databases
    BY <1>11 DEF Delete, TypeOK, Databases
  <2>2. QED
    BY <1>11, <2>1 DEF Delete, TypeOK, request
<1>12. ASSUME Crash PROVE TypeOK'
  BY <1>12 DEF Crash, TypeOK, request
<1>13. ASSUME UNCHANGED vars PROVE TypeOK'
  BY <1>13 DEF vars, session, request, TypeOK
<1>14. QED
  BY <1>1, <1>2, <1>3, <1>4, <1>5, <1>6, <1>7, <1>8, <1>9, <1>10, <1>11,
     <1>12, <1>13 DEF Next, Update

\* Every variable keeps its type, for any updates, payloads and numbers of
\* variants.
THEOREM TypeCorrect == Spec => []TypeOK
<1>1. Init => TypeOK
  BY TypeInit
<1>2. TypeOK /\ [Next]_vars => TypeOK'
  BY TypeStep
<1>3. QED
  BY <1>1, <1>2, PTL DEF Spec
-----------------------------------------------------------------------------
(***************************************************************************)
(* An update that met no other and made the broadcast an A/B test.         *)
(***************************************************************************)
\* Updates that are under way together have met, and an open transaction has
\* somebody in it.
MeetInv ==
    /\ \A u, v \in UnderWay : u # v => v \in met[u]
    /\ \A u \in Updates : step[u] = "idle" => met[u] = {}
    /\ open => \E u \in Updates : step[u] \in InTransaction

MakesAbTest(u) == body[u].fields /\ HasVariants(u) /\ met[u] = {}

Flagged(d) == d.exists => d.isAbTest

\* From the write of its row on, such an update leaves the flag set where the
\* broadcast exists; who reads the row later, sees it, and so does who would
\* roll back.
AbTestInv ==
    \A u \in Updates : MakesAbTest(u) =>
        /\ step[u] \in {"content", "link", "find", "contents", "variants", "commit"} =>
               Flagged(db)
        /\ step[u] = "done" =>
               /\ Flagged(db)
               /\ open => Flagged(undo)
               /\ \A v \in UnderWay : seen[v].isAbTest

LEMMA AbTestInit == Init => MeetInv /\ AbTestInv
  BY DEF Init, MeetInv, AbTestInv, UnderWay, InTransaction

LEMMA MeetStep == TypeOK /\ MeetInv /\ [Next]_vars => MeetInv'
<1> SUFFICES ASSUME TypeOK, MeetInv, [Next]_vars PROVE MeetInv'
  OBVIOUS
<1> USE DEF MeetInv
<1>1. ASSUME NEW u \in Updates, Read(u) PROVE MeetInv'
  <2>1. CASE db.exists
    <3>1. /\ step[u] = "idle"
          /\ step' = [step EXCEPT ![u] = "read"]
          /\ met' = [v \in Updates |-> IF v = u THEN UnderWay
                                        ELSE IF v \in UnderWay THEN met[v] \cup {u}
                                        ELSE met[v]]
          /\ open' = open
      BY <1>1, <2>1 DEF Read, GoTo, session
    <3>2. UnderWay' = UnderWay \cup {u} /\ u \notin UnderWay
      BY <3>1 DEF TypeOK, UnderWay, InTransaction
    <3>3. QED
      BY <3>1, <3>2 DEF TypeOK, UnderWay, InTransaction
  <2>2. CASE ~db.exists
    <3>1. /\ step[u] = "idle"
          /\ step' = [step EXCEPT ![u] = "rejected"]
          /\ UNCHANGED <<met, open>>
      BY <1>1, <2>2 DEF Read, GoTo, session
    <3>2. QED
      BY <3>1 DEF TypeOK, UnderWay, InTransaction
  <2>3. QED
    BY <2>1, <2>2
<1>2. ASSUME NEW u \in Updates, Validate(u) PROVE MeetInv'
  <2>1. /\ step[u] = "read"
        /\ GoTo(u, "begin") \/ GoTo(u, "rejected")
        /\ UNCHANGED <<open, met>>
    BY <1>2 DEF Validate, session
  <2>2. \E s \in {"begin", "rejected"} : step' = [step EXCEPT ![u] = s]
    BY <2>1 DEF GoTo
  <2>3. UnderWay' \subseteq UnderWay
    BY <2>1, <2>2 DEF TypeOK, UnderWay, InTransaction
  <2>4. \A v \in Updates : step'[v] = "idle" => step[v] = "idle"
    BY <2>2 DEF TypeOK
  <2>5. \A v \in Updates : step[v] \in InTransaction => step'[v] = step[v]
    BY <2>1, <2>2 DEF TypeOK, InTransaction
  <2>6. QED
    BY <2>1, <2>3, <2>4, <2>5
<1>3. ASSUME NEW u \in Updates, Begin(u) PROVE MeetInv'
  BY <1>3 DEF Begin, TypeOK, GoTo, request, UnderWay, InTransaction
<1>4. ASSUME NEW u \in Updates, NEW s \in InTransaction, NEW after,
             step[u] \in InTransaction, Statement(u, s, after)
      PROVE  MeetInv'
  BY <1>4 DEF Statement, TypeOK, GoTo, request, UnderWay, InTransaction
<1>5. ASSUME NEW u \in Updates, Commit(u) \/ Fail(u) PROVE MeetInv'
  BY <1>5 DEF Commit, Fail, TypeOK, GoTo, request, UnderWay, InTransaction
<1>6. ASSUME Delete PROVE MeetInv'
  BY <1>6 DEF Delete, request, UnderWay
<1>7. ASSUME Crash PROVE MeetInv'
  BY <1>7 DEF Crash, TypeOK, UnderWay, InTransaction
<1>8. ASSUME UNCHANGED vars PROVE MeetInv'
  BY <1>8 DEF vars, session, UnderWay
<1>9. QED
  <2>1. ASSUME NEW u \in Updates, Update(u) PROVE MeetInv'
    <3>1. CASE WriteRow(u)
      BY <3>1, <1>4 DEF WriteRow, InTransaction
    <3>2. CASE WriteContent(u)
      BY <3>2, <1>4 DEF WriteContent, InTransaction
    <3>3. CASE LinkContent(u)
      BY <3>3, <1>4 DEF LinkContent, InTransaction
    <3>4. CASE FindVariants(u)
      BY <3>4, <1>4 DEF FindVariants, InTransaction
    <3>5. CASE InsertContents(u)
      BY <3>5, <1>4 DEF InsertContents, InTransaction
    <3>6. CASE InsertVariants(u)
      BY <3>6, <1>4 DEF InsertVariants, InTransaction
    <3>7. QED
      BY <2>1, <3>1, <3>2, <3>3, <3>4, <3>5, <3>6, <1>1, <1>2, <1>3, <1>5 DEF Update
  <2>2. QED
    BY <2>1, <1>6, <1>7, <1>8 DEF Next

\* The effect of a statement that has nothing to do with the flag.
KeepsFlag(after) == after.exists = db.exists /\ after.isAbTest = db.isAbTest

LEMMA AbTestStep ==
    TypeOK /\ MeetInv /\ AbTestInv /\ [Next]_vars => AbTestInv'
<1> DEFINE Late == {"content", "link", "find", "contents", "variants", "commit"}
           Goal(u) == /\ step'[u] \in Late => Flagged(db')
                      /\ step'[u] = "done" =>
                             /\ Flagged(db')
                             /\ open' => Flagged(undo')
                             /\ \A v \in UnderWay' : seen'[v].isAbTest
<1> SUFFICES ASSUME TypeOK, MeetInv, AbTestInv, [Next]_vars,
                    NEW u \in Updates, MakesAbTest(u)'
             PROVE  Goal(u)
  BY DEF AbTestInv, Flagged
<1> HIDE DEF Goal
<1>1. ASSUME MakesAbTest(u)
      PROVE  /\ step[u] \in Late => Flagged(db) /\ UnderWay = {u}
             /\ step[u] = "done" =>
                    /\ Flagged(db)
                    /\ open => Flagged(undo)
                    /\ \A v \in UnderWay : seen[v].isAbTest
  BY <1>1 DEF AbTestInv, MeetInv, MakesAbTest, UnderWay, InTransaction
<1>2. ASSUME NEW v \in Updates, Read(v) PROVE Goal(u)
  <2>1. CASE v = u
    BY <1>2, <2>1 DEF Read, GoTo, TypeOK, Goal
  <2>2. CASE v # u /\ db.exists
    <3>1. /\ met[u] = {} /\ u \notin UnderWay
          /\ MakesAbTest(u)
          /\ UnderWay' = UnderWay \cup {v}
          /\ seen' = [seen EXCEPT ![v] = [isAbTest |-> db.isAbTest, content |-> db.content]]
      <4>1. /\ step[v] = "idle"
            /\ step' = [step EXCEPT ![v] = "read"]
            /\ seen' = [seen EXCEPT ![v] = [isAbTest |-> db.isAbTest, content |-> db.content]]
            /\ met' = [w \in Updates |-> IF w = v THEN UnderWay
                                         ELSE IF w \in UnderWay THEN met[w] \cup {v}
                                         ELSE met[w]]
            /\ UNCHANGED <<body, named>>
        BY <1>2, <2>2 DEF Read, GoTo
      <4>2. UnderWay' = UnderWay \cup {v}
        BY <4>1 DEF TypeOK, UnderWay, InTransaction
      <4>3. met'[u] = IF u \in UnderWay THEN met[u] \cup {v} ELSE met[u]
        BY <4>1, <2>2
      <4>4. body[u].fields /\ HasVariants(u) /\ met'[u] = {}
        BY <4>1 DEF MakesAbTest, HasVariants
      <4>5. u \notin UnderWay /\ met[u] = {}
        BY <4>3, <4>4
      <4>6. QED
        BY <4>1, <4>2, <4>4, <4>5 DEF MakesAbTest
    <3>2. step'[u] = step[u] /\ UNCHANGED session
      BY <1>2, <2>2 DEF Read, GoTo, TypeOK
    <3>3. step[u] \notin Late
      BY <3>1 DEF UnderWay, InTransaction
    <3>4. QED
      BY <1>1, <2>2, <3>1, <3>2, <3>3 DEF Goal, session, Flagged, TypeOK, UnderWay
  <2>3. CASE v # u /\ ~db.exists
    <3>1. MakesAbTest(u) /\ step'[u] = step[u] /\ UNCHANGED <<session, seen>>
      BY <1>2, <2>3 DEF Read, GoTo, TypeOK, MakesAbTest, HasVariants
    <3>2. UnderWay' = UnderWay
      BY <1>2, <2>3 DEF Read, GoTo, TypeOK, UnderWay, InTransaction
    <3>3. QED
      BY <1>1, <3>1, <3>2 DEF Goal, session, Flagged
  <2>4. QED
    BY <2>1, <2>2, <2>3
<1>3. ASSUME NEW v \in Updates, Validate(v) PROVE Goal(u)
  <2>1. /\ step[v] = "read"
        /\ \E s \in {"begin", "rejected"} : step' = [step EXCEPT ![v] = s]
        /\ UNCHANGED <<session, seen, body, met>>
        /\ u # v => named'[u] = named[u]
    BY <1>3 DEF Validate, GoTo, TypeOK
  <2>2. CASE v = u
    BY <2>1, <2>2 DEF TypeOK, Goal
  <2>3. CASE v # u
    <3>1. MakesAbTest(u) /\ step'[u] = step[u]
      BY <2>1, <2>3 DEF MakesAbTest, HasVariants, TypeOK
    <3>2. UnderWay' \subseteq UnderWay
      BY <2>1 DEF TypeOK, UnderWay, InTransaction
    <3>3. QED
      BY <1>1, <2>1, <3>1, <3>2 DEF Goal, session, Flagged
  <2>4. QED
    BY <2>2, <2>3
<1>4. ASSUME UNCHANGED request, UNCHANGED met PROVE MakesAbTest(u)
  BY <1>4 DEF request, MakesAbTest, HasVariants
<1>5. ASSUME NEW v \in Updates, Begin(v) PROVE Goal(u)
  <2>1. MakesAbTest(u)
    BY <1>4, <1>5 DEF Begin
  <2>2. UnderWay' = UnderWay /\ seen' = seen /\ db' = db /\ undo' = db
    BY <1>5 DEF Begin, GoTo, TypeOK, UnderWay, InTransaction, request
  <2>3. CASE v = u
    BY <1>5, <2>3 DEF Begin, GoTo, TypeOK, Goal
  <2>4. CASE v # u
    <3>1. step'[u] = step[u]
      BY <1>5, <2>4 DEF Begin, GoTo, TypeOK
    <3>2. QED
      BY <1>1, <2>1, <2>2, <3>1 DEF Goal, Flagged
  <2>5. QED
    BY <2>3, <2>4
<1>6. ASSUME NEW v \in Updates, WriteRow(v) PROVE Goal(u)
  <2> DEFINE after == IF body[v].fields /\ db.exists
                      THEN [db EXCEPT !.isAbTest = HasVariants(v) \/ seen[v].isAbTest]
                      ELSE db
  <2>1. /\ step[v] = "row" /\ step' = [step EXCEPT ![v] = "content"]
        /\ db' = after
        /\ UNCHANGED <<open, undo, request, met>>
    BY <1>6 DEF WriteRow, Statement, GoTo
  <2>2. MakesAbTest(u)
    BY <1>4, <2>1
  <2>3. UnderWay' = UnderWay /\ seen' = seen /\ v \in UnderWay
    BY <2>1 DEF TypeOK, UnderWay, InTransaction, request
  <2>4. HasVariants(v) \/ seen[v].isAbTest => Flagged(db') \/ (Flagged(db) => Flagged(db'))
    BY <2>1 DEF Flagged, TypeOK, Databases
  <2>5. CASE v = u
    <3>1. HasVariants(u) /\ body[u].fields
      BY <2>2 DEF MakesAbTest
    <3>2. Flagged(db')
      BY <2>1, <2>5, <3>1 DEF Flagged, TypeOK, Databases
    <3>3. step'[u] = "content"
      BY <2>1, <2>5 DEF TypeOK
    <3>4. QED
      BY <3>2, <3>3 DEF Goal
  <2>6. CASE v # u
    <3>1. step'[u] = step[u] /\ step[u] \notin Late
      BY <1>1, <2>1, <2>2, <2>3, <2>6 DEF TypeOK
    <3>2. ASSUME step[u] = "done" PROVE Flagged(db')
      <4>1. seen[v].isAbTest /\ Flagged(db)
        BY <1>1, <2>2, <2>3, <3>2
      <4>2. QED
        BY <2>1, <4>1 DEF Flagged, TypeOK, Databases
    <3>3. QED
      BY <1>1, <2>1, <2>2, <2>3, <3>1, <3>2 DEF Goal
  <2>7. QED
    BY <2>5, <2>6
<1>7. ASSUME NEW v \in Updates, step[v] \in Late, NEW s \in Late,
             NEW after, KeepsFlag(after), Statement(v, s, after)
      PROVE  Goal(u)
  <2>1. MakesAbTest(u)
    BY <1>4, <1>7 DEF Statement
  <2>2. /\ step' = [step EXCEPT ![v] = s]
        /\ UNCHANGED <<open, undo, seen>>
    BY <1>7 DEF Statement, GoTo, request
  <2>3. UnderWay' = UnderWay
    BY <1>7, <2>2 DEF TypeOK, UnderWay, InTransaction
  <2>4. Flagged(db') <=> Flagged(db)
    BY <1>7 DEF Statement, KeepsFlag, Flagged
  <2>5. (step'[u] \in Late => step[u] \in Late) /\ (step'[u] = "done" => step[u] = "done")
    BY <1>7, <2>2 DEF TypeOK
  <2>6. QED
    BY <1>1, <2>1, <2>2, <2>3, <2>4, <2>5 DEF Goal
<1>8. ASSUME NEW v \in Updates, Commit(v) PROVE Goal(u)
  <2>1. MakesAbTest(u)
    BY <1>4, <1>8 DEF Commit
  <2>2. /\ step[v] = "commit" /\ step' = [step EXCEPT ![v] = "done"]
        /\ ~open' /\ UNCHANGED <<db, seen>>
    BY <1>8 DEF Commit, GoTo, request
  <2>3. UnderWay' = UnderWay \ {v} /\ v \in UnderWay
    BY <2>2 DEF TypeOK, UnderWay, InTransaction
  <2>4. CASE v = u
    BY <1>1, <2>1, <2>2, <2>3, <2>4 DEF Goal, TypeOK, Flagged
  <2>5. CASE v # u
    <3>1. step'[u] = step[u]
      BY <2>2, <2>5 DEF TypeOK
    <3>2. QED
      BY <1>1, <2>1, <2>2, <2>3, <3>1 DEF Goal, Flagged
  <2>6. QED
    BY <2>4, <2>5
<1>9. ASSUME NEW v \in Updates, Fail(v) PROVE Goal(u)
  <2>1. MakesAbTest(u)
    BY <1>4, <1>9 DEF Fail
  <2>2. /\ step[v] \in InTransaction /\ step' = [step EXCEPT ![v] = "failed"]
        /\ ~open' /\ db' = (IF open THEN undo ELSE db) /\ seen' = seen
    BY <1>9 DEF Fail, GoTo, request
  <2>3. UnderWay' \subseteq UnderWay /\ v \in UnderWay
    BY <2>2 DEF TypeOK, UnderWay, InTransaction
  <2>4. step'[u] # "failed" => v # u /\ step'[u] = step[u]
    BY <2>2 DEF TypeOK
  <2>5. QED
    BY <1>1, <2>1, <2>2, <2>3, <2>4 DEF Goal, Flagged
<1>10. ASSUME Delete PROVE Goal(u)
  <2>1. MakesAbTest(u)
    BY <1>4, <1>10 DEF Delete
  <2>2. ~db'.exists /\ UNCHANGED <<open, undo, step, seen>>
    BY <1>10 DEF Delete, TypeOK, Databases, request
  <2>3. QED
    BY <1>1, <2>1, <2>2 DEF Goal, Flagged, UnderWay
<1>11. ASSUME Crash PROVE Goal(u)
  <2>1. MakesAbTest(u)
    BY <1>4, <1>11 DEF Crash
  <2>2. /\ \A v \in Updates : step'[v] = IF v \in UnderWay THEN "lost" ELSE step[v]
        /\ ~open' /\ db' = IF open THEN undo ELSE db
    BY <1>11 DEF Crash
  <2>3. UnderWay' = {}
    BY <2>2 DEF UnderWay, InTransaction
  <2>4. step'[u] \notin Late
    BY <2>2 DEF UnderWay, InTransaction
  <2>5. step'[u] = "done" => step[u] = "done"
    BY <2>2
  <2>6. QED
    BY <1>1, <2>1, <2>2, <2>3, <2>4, <2>5 DEF Goal, Flagged
<1>12. ASSUME UNCHANGED vars PROVE Goal(u)
  <2>1. MakesAbTest(u)
    BY <1>4, <1>12 DEF vars
  <2>2. QED
    BY <1>1, <1>12, <2>1 DEF vars, session, request, Goal, Flagged, UnderWay
<1>13. ASSUME NEW v \in Updates, Update(v) PROVE Goal(u)
  <2>1. KeepsFlag(db)
    BY DEF KeepsFlag
  <2>2. CASE WriteContent(v)
    <3>1. KeepsFlag([db EXCEPT !.contents = @ \cup {<<v, 0>>}])
      BY DEF KeepsFlag, TypeOK, Databases
    <3>2. QED
      BY <1>7, <2>1, <2>2, <3>1 DEF WriteContent
  <2>3. CASE LinkContent(v)
    <3>1. KeepsFlag([db EXCEPT !.content = v])
      BY DEF KeepsFlag, TypeOK, Databases
    <3>2. QED
      BY <1>7, <2>1, <2>3, <3>1 DEF LinkContent
  <2>4. CASE FindVariants(v)
    BY <1>7, <2>1, <2>4 DEF FindVariants
  <2>5. CASE InsertContents(v)
    <3>1. KeepsFlag([db EXCEPT !.contents = @ \cup NewVariants(v, body[v])])
      BY DEF KeepsFlag, TypeOK, Databases
    <3>2. QED
      BY <1>7, <2>5, <3>1 DEF InsertContents
  <2>6. CASE InsertVariants(v)
    <3>1. KeepsFlag([db EXCEPT !.variants = @ \cup NewVariants(v, body[v])])
      BY DEF KeepsFlag, TypeOK, Databases
    <3>2. QED
      BY <1>7, <2>6, <3>1 DEF InsertVariants
  <2>7. QED
    BY <1>2, <1>3, <1>5, <1>6, <1>8, <1>9, <1>13, <2>2, <2>3, <2>4, <2>5, <2>6 DEF Update
<1>14. QED
  BY <1>10, <1>11, <1>12, <1>13 DEF Next

\* An update that met no other and made the broadcast an A/B test has done so
\* for good, whatever updates come later and however they end
\* (update_broadcast_action.ts:38, the isAbTest of the row that was read).
THEOREM AbTestKept == Spec => []AbTestStays
<1>1. Init => TypeOK /\ MeetInv /\ AbTestInv
  BY TypeInit, AbTestInit
<1>2. TypeOK /\ MeetInv /\ AbTestInv /\ [Next]_vars => (TypeOK /\ MeetInv /\ AbTestInv)'
  BY TypeStep, MeetStep, AbTestStep
<1>3. AbTestInv => AbTestStays
  BY DEF AbTestInv, AbTestStays, MakesAbTest, Flagged
<1>4. QED
  BY <1>1, <1>2, <1>3, PTL DEF Spec
-----------------------------------------------------------------------------
(***************************************************************************)
(* The contents that an update which met no other leaves behind.           *)
(***************************************************************************)
ContentsOf(u, d) == {c \in d.contents : c[1] = u}

LinkedIn(d) == (IF d.content = None THEN {} ELSE {<<d.content, 0>>}) \cup d.variants

Clean(u, d) == d.exists => ContentsOf(u, d) \subseteq LinkedIn(d)

BeforeInsert == {"idle", "rejected", "read", "begin", "row", "content"}
Settled      == {"done", "failed", "lost"}

\* What such an update may have inserted by step s.  A transaction that only it
\* is in has an image without any of it.
Inserted(u, s, d, image, isOpen, seenBy, underWay) ==
    /\ s \in BeforeInsert => /\ ContentsOf(u, d) = {}
                             /\ isOpen => ContentsOf(u, image) = {}
    /\ s \in InTransaction => isOpen /\ ContentsOf(u, image) = {}
    /\ s = "link" => ContentsOf(u, d) \subseteq {<<u, 0>>}
    /\ s \in {"find", "contents", "commit"} => Clean(u, d)
    /\ s = "variants" /\ d.exists =>
           ContentsOf(u, d) \subseteq LinkedIn(d) \cup NewVariants(u, body[u])
    /\ s \in Settled =>
           /\ Clean(u, d)
           /\ isOpen => Clean(u, image) /\ ContentsOf(u, image) = ContentsOf(u, d)
           /\ <<u, 0>> \in d.contents => \A v \in underWay : seenBy[v].content # None

\* Only an update that read a row without content links one.
OrphanInv ==
    /\ \A u \in Updates : step[u] = "link" => seen[u].content = None
    /\ \A u \in Updates : met[u] = {} =>
           Inserted(u, step[u], db, undo, open, seen, UnderWay)

LEMMA OrphanInit == Init => OrphanInv
  BY DEF Init, OrphanInv, Inserted, Created, ContentsOf, InTransaction, Settled

LEMMA LinkStep ==
    ASSUME TypeOK, OrphanInv, [Next]_vars
    PROVE  \A u \in Updates : step'[u] = "link" => seen'[u].content = None
<1> SUFFICES ASSUME NEW u \in Updates, step'[u] = "link"
             PROVE  seen'[u].content = None
  OBVIOUS
<1>1. step[u] = "link" => seen[u].content = None
  BY DEF OrphanInv
<1>2. ASSUME NEW v \in Updates, Update(v) PROVE seen'[u].content = None
  <2>1. CASE WriteContent(v)
    <3>1. /\ seen' = seen
          /\ \/ GoTo(v, "link") /\ seen[v].content = None
             \/ GoTo(v, "find")
      BY <2>1 DEF WriteContent, Statement, request
    <3>2. QED
      BY <1>1, <3>1 DEF GoTo, TypeOK
  <2>2. CASE ~WriteContent(v)
    <3>1. /\ \E s \in {"read", "rejected", "begin", "row", "content", "find", "contents",
                       "variants", "commit", "done", "failed"} :
                step' = [step EXCEPT ![v] = s]
          /\ step[v] # "idle" => seen' = seen
          /\ \A w \in Updates : w # v => seen'[w] = seen[w]
      BY <1>2, <2>2 DEF Update, Read, Validate, Begin, WriteRow, LinkContent, FindVariants,
             InsertContents, InsertVariants, Commit, Fail, Statement, GoTo, request, TypeOK
    <3>2. QED
      BY <1>1, <3>1 DEF TypeOK
  <2>3. QED
    BY <2>1, <2>2
<1>3. CASE Delete
  BY <1>1, <1>3 DEF Delete, request
<1>4. CASE Crash
  BY <1>1, <1>4 DEF Crash, request
<1>5. CASE UNCHANGED vars
  BY <1>1, <1>5 DEF vars, request
<1>6. QED
  BY <1>2, <1>3, <1>4, <1>5 DEF Next

\* The effect of another update's statement that leaves what u inserted alone.
Harmless(u, after) ==
    /\ after.exists = db.exists
    /\ ContentsOf(u, after) = ContentsOf(u, db)
    /\ ContentsOf(u, db) \cap LinkedIn(db) \subseteq LinkedIn(after)

\* What another update does, once u is not under way.
LEMMA OthersInsert ==
    ASSUME TypeOK, MeetInv, OrphanInv, NEW u \in Updates, NEW v \in UnderWay,
           u # v, met[u] = {}, UNCHANGED <<step[u], seen, body>>, UnderWay' \subseteq UnderWay,
           \/ Harmless(u, db') /\ UNCHANGED <<open, undo>>
           \/ db' = db /\ ~open'
           \/ db' = db /\ undo' = db
           \/ db' = (IF open THEN undo ELSE db) /\ ~open'
    PROVE  Inserted(u, step[u], db, undo, open, seen, UnderWay)'
<1>1. Inserted(u, step[u], db, undo, open, seen, UnderWay)
  BY DEF OrphanInv
<1>2. u \notin UnderWay
  BY DEF MeetInv, UnderWay
<1>3. step[u] \in {"idle", "rejected"} \cup Settled /\ step[u] \notin InTransaction
  BY <1>2 DEF TypeOK, UnderWay, InTransaction, Settled
<1>4. step'[u] = step[u] /\ step'[u] \notin {"link", "find", "contents", "commit", "variants"}
  BY <1>3 DEF InTransaction
<1>5. CASE step[u] \in {"idle", "rejected"}
  <2>1. ContentsOf(u, db) = {} /\ (open => ContentsOf(u, undo) = {})
    BY <1>1, <1>5 DEF Inserted, BeforeInsert
  <2>2. ContentsOf(u, db') = {} /\ (open' => ContentsOf(u, undo') = {})
    BY <2>1 DEF Harmless
  <2>3. step'[u] \notin Settled \cup InTransaction
    BY <1>3, <1>4, <1>5 DEF Settled
  <2>4. QED
    BY <1>4, <2>2, <2>3 DEF Inserted, ContentsOf
<1>6. CASE step[u] \in Settled
  <2>1. /\ Clean(u, db)
        /\ open => Clean(u, undo) /\ ContentsOf(u, undo) = ContentsOf(u, db)
        /\ <<u, 0>> \in db.contents => \A w \in UnderWay : seen[w].content # None
    BY <1>1, <1>6 DEF Inserted
  <2>2. /\ Clean(u, db')
        /\ open' => Clean(u, undo') /\ ContentsOf(u, undo') = ContentsOf(u, db')
    BY <2>1 DEF Harmless, Clean
  <2>3. ContentsOf(u, db') = ContentsOf(u, db)
    BY <2>1 DEF Harmless
  <2>4. <<u, 0>> \in db'.contents <=> <<u, 0>> \in db.contents
    BY <2>3 DEF ContentsOf
  <2>5. step'[u] \notin BeforeInsert \cup InTransaction
    BY <1>3, <1>4, <1>6 DEF Settled, BeforeInsert
  <2>6. Clean(u, db)' /\ (open' => Clean(u, undo)' /\ (ContentsOf(u, undo) = ContentsOf(u, db))')
    BY <2>2 DEF Clean, ContentsOf, LinkedIn
  <2>7. QED
    BY <1>4, <2>1, <2>4, <2>5, <2>6 DEF Inserted
<1>7. QED
  BY <1>3, <1>5, <1>6

\* What the update itself does.
LEMMA OwnInsert ==
    ASSUME TypeOK, MeetInv, OrphanInv, NEW u \in Updates, Update(u), met'[u] = {}
    PROVE  Inserted(u, step[u], db, undo, open, seen, UnderWay)'
<1> DEFINE Goal == Inserted(u, step[u], db, undo, open, seen, UnderWay)'
<1>1. met[u] = {} /\ body' = body
  BY DEF Update, Read, Validate, Begin, WriteRow, WriteContent, LinkContent, FindVariants,
         InsertContents, InsertVariants, Commit, Fail, Statement, GoTo, request, MeetInv, TypeOK
<1>2. /\ step[u] \in BeforeInsert => /\ ContentsOf(u, db) = {}
                                     /\ open => ContentsOf(u, undo) = {}
      /\ step[u] \in InTransaction => open /\ ContentsOf(u, undo) = {}
      /\ step[u] = "link" => ContentsOf(u, db) \subseteq {<<u, 0>>}
      /\ step[u] \in {"find", "contents", "commit"} => Clean(u, db)
      /\ step[u] = "variants" /\ db.exists =>
             ContentsOf(u, db) \subseteq LinkedIn(db) \cup NewVariants(u, body[u])
  BY <1>1 DEF OrphanInv, Inserted
<1> SUFFICES Goal
  OBVIOUS
<1> USE DEF InTransaction, BeforeInsert, Settled
<1> HIDE DEF Goal
<1>3. ASSUME NEW s \in {"read", "rejected", "begin", "row"}, step'[u] = s,
             ContentsOf(u, db') = {}, open' => ContentsOf(u, undo') = {},
             s = "row" => open'
      PROVE  Goal
  BY <1>3 DEF Goal, Inserted, ContentsOf
<1>4. ASSUME NEW s \in InTransaction, NEW after, Statement(u, s, after),
             step[u] \in InTransaction,
             s \in {"row", "content"} => ContentsOf(u, after) = {},
             s = "link" => ContentsOf(u, after) \subseteq {<<u, 0>>},
             s \in {"find", "contents", "commit"} => Clean(u, after),
             s = "variants" /\ after.exists =>
                 ContentsOf(u, after) \subseteq LinkedIn(after) \cup NewVariants(u, body[u])
      PROVE  Goal
  <2>1. step'[u] = s /\ db' = after /\ UNCHANGED <<open, undo>>
    BY <1>4 DEF Statement, GoTo, TypeOK
  <2>2. open' /\ ContentsOf(u, undo') = {}
    BY <1>2, <1>4, <2>1
  <2>3. NewVariants(u, body[u])' = NewVariants(u, body[u])
    BY <1>1
  <2>4. QED
    BY <1>4, <2>1, <2>2, <2>3 DEF Goal, Inserted, ContentsOf, Clean, LinkedIn
<1>5. ASSUME step'[u] \in Settled, Clean(u, db'), ~open', UnderWay' = {}
      PROVE  Goal
  BY <1>5 DEF Goal, Inserted, Clean, ContentsOf, LinkedIn
<1>6. CASE Read(u)
  <2>1. /\ step[u] = "idle" /\ step'[u] \in {"read", "rejected"}
        /\ UNCHANGED <<db, open, undo>>
    BY <1>6 DEF Read, GoTo, session, TypeOK
  <2>2. QED
    BY <1>2, <1>3, <2>1
<1>7. CASE Validate(u)
  <2>1. /\ step[u] = "read" /\ step'[u] \in {"begin", "rejected"}
        /\ UNCHANGED <<db, open, undo>>
    BY <1>7 DEF Validate, GoTo, session, TypeOK
  <2>2. QED
    BY <1>2, <1>3, <2>1
<1>8. CASE Begin(u)
  <2>1. step[u] = "begin" /\ step'[u] = "row" /\ open' /\ db' = db /\ undo' = db
    BY <1>8 DEF Begin, GoTo, TypeOK
  <2>2. QED
    BY <1>2, <1>3, <2>1
<1>9. CASE WriteRow(u)
  <2> DEFINE after == IF body[u].fields /\ db.exists
                      THEN [db EXCEPT !.isAbTest = HasVariants(u) \/ seen[u].isAbTest]
                      ELSE db
  <2>1. step[u] = "row" /\ Statement(u, "content", after)
    BY <1>9 DEF WriteRow
  <2>2. after.contents = db.contents
    BY DEF TypeOK, Databases
  <2>3. ContentsOf(u, after) = {}
    BY <1>2, <2>1, <2>2 DEF ContentsOf
  <2> HIDE DEF after
  <2>4. QED
    BY <1>4, <2>1, <2>3
<1>10. CASE WriteContent(u)
  <2>1. step[u] = "content" /\ ContentsOf(u, db) = {}
    BY <1>2, <1>10 DEF WriteContent
  <2>2. Clean(u, db)
    BY <2>1 DEF Clean
  <2> DEFINE after == [db EXCEPT !.contents = @ \cup {<<u, 0>>}]
  <2>3. ContentsOf(u, after) \subseteq {<<u, 0>>}
    BY <2>1 DEF ContentsOf, TypeOK, Databases
  <2>4. Statement(u, "link", after) \/ Statement(u, "find", db)
    BY <1>10 DEF WriteContent
  <2> HIDE DEF after
  <2>5. CASE Statement(u, "link", after)
    BY <1>4, <2>1, <2>3, <2>5
  <2>6. CASE Statement(u, "find", db)
    BY <1>4, <2>1, <2>2, <2>6
  <2>7. QED
    BY <2>4, <2>5, <2>6
<1>11. CASE LinkContent(u)
  <2>1. step[u] = "link" /\ ContentsOf(u, db) \subseteq {<<u, 0>>}
    BY <1>2, <1>11 DEF LinkContent
  <2> DEFINE after == IF db.exists THEN [db EXCEPT !.content = u] ELSE db
  <2>2. Statement(u, "find", after)
    BY <1>11 DEF LinkContent
  <2>3. Clean(u, after)
    <3>1. CASE db.exists
      <4>1. after.content = u /\ after.contents = db.contents
        BY <3>1 DEF TypeOK, Databases
      <4>2. u # None
        BY EditAssumption
      <4>3. <<u, 0>> \in LinkedIn(after)
        BY <4>1, <4>2 DEF LinkedIn
      <4>4. QED
        BY <2>1, <4>1, <4>3 DEF Clean, ContentsOf
    <3>2. CASE ~db.exists
      BY <3>2 DEF Clean
    <3>3. QED
      BY <3>1, <3>2
  <2> HIDE DEF after
  <2>4. QED
    BY <1>4, <2>1, <2>2, <2>3
<1>12. CASE FindVariants(u)
  <2>1. /\ step[u] = "find" /\ Clean(u, db)
        /\ Statement(u, "contents", db) \/ Statement(u, "commit", db)
    BY <1>2, <1>12 DEF FindVariants
  <2>2. QED
    BY <1>4, <2>1
<1>13. CASE InsertContents(u)
  <2> DEFINE after == [db EXCEPT !.contents = @ \cup NewVariants(u, body[u])]
  <2>1. step[u] = "contents" /\ Clean(u, db) /\ Statement(u, "variants", after)
    BY <1>2, <1>13 DEF InsertContents
  <2>2. /\ after.contents = db.contents \cup NewVariants(u, body[u])
        /\ after.exists = db.exists /\ after.content = db.content
        /\ after.variants = db.variants
    BY DEF TypeOK, Databases
  <2> HIDE DEF after
  <2>3. after.exists => ContentsOf(u, after) \subseteq LinkedIn(after) \cup NewVariants(u, body[u])
    BY <2>1, <2>2 DEF Clean, ContentsOf, LinkedIn
  <2>4. QED
    BY <1>4, <2>1, <2>3
<1>14. CASE InsertVariants(u)
  <2> DEFINE after == [db EXCEPT !.variants = @ \cup NewVariants(u, body[u])]
  <2>1. step[u] = "variants" /\ db.exists /\ Statement(u, "commit", after)
    BY <1>14 DEF InsertVariants
  <2>2. ContentsOf(u, db) \subseteq LinkedIn(db) \cup NewVariants(u, body[u])
    BY <1>2, <2>1
  <2>3. /\ after.variants = db.variants \cup NewVariants(u, body[u])
        /\ after.content = db.content /\ after.contents = db.contents
    BY DEF TypeOK, Databases
  <2> HIDE DEF after
  <2>4. Clean(u, after)
    BY <2>2, <2>3 DEF Clean, ContentsOf, LinkedIn
  <2>5. QED
    BY <1>4, <2>1, <2>4
<1>15. CASE Commit(u) \/ Fail(u)
  <2>1. /\ step[u] \in InTransaction
        /\ step' = [step EXCEPT ![u] = IF Commit(u) THEN "done" ELSE "failed"]
        /\ ~open' /\ met' = met
    BY <1>15 DEF Commit, Fail, GoTo
  <2>2. UnderWay = {u}
    BY <1>1, <2>1 DEF MeetInv, UnderWay
  <2>3. UnderWay' = {}
    BY <2>1, <2>2 DEF UnderWay, TypeOK
  <2>4. Clean(u, db')
    BY <1>2, <1>15 DEF Commit, Fail, Clean
  <2>5. QED
    BY <1>5, <2>1, <2>3, <2>4 DEF TypeOK
<1>16. QED
  BY <1>6, <1>7, <1>8, <1>9, <1>10, <1>11, <1>12, <1>13, <1>14, <1>15 DEF Update

\* A statement of another update is harmless to u.
LEMMA OthersStatement ==
    ASSUME TypeOK, MeetInv, OrphanInv, NEW u \in Updates, NEW v \in UnderWay,
           u # v, met[u] = {},
           \/ WriteRow(v) \/ WriteContent(v) \/ LinkContent(v)
           \/ FindVariants(v) \/ InsertContents(v) \/ InsertVariants(v)
    PROVE  Harmless(u, db')
<1>1. v \in Updates /\ u \notin UnderWay
  BY DEF MeetInv, UnderWay
<1>2. NewVariants(v, body[v]) \subseteq Contents /\ \A c \in NewVariants(v, body[v]) : c[1] # u
  BY <1>1, NewVariantsType DEF TypeOK, NewVariants
<1>3. CASE WriteRow(v) \/ FindVariants(v)
  <2>1. db'.contents = db.contents /\ db'.content = db.content
        /\ db'.variants = db.variants /\ db'.exists = db.exists
    BY <1>3 DEF WriteRow, FindVariants, Statement, TypeOK, Databases
  <2>2. QED
    BY <2>1 DEF Harmless, ContentsOf, LinkedIn
<1>4. CASE WriteContent(v)
  <2>1. /\ db'.contents = db.contents \/ db'.contents = db.contents \cup {<<v, 0>>}
        /\ db'.content = db.content
        /\ db'.variants = db.variants /\ db'.exists = db.exists
    BY <1>4 DEF WriteContent, Statement, TypeOK, Databases
  <2>2. QED
    BY <2>1 DEF Harmless, ContentsOf, LinkedIn
<1>5. CASE InsertContents(v)
  <2>1. /\ db'.contents = db.contents \cup NewVariants(v, body[v])
        /\ db'.content = db.content
        /\ db'.variants = db.variants /\ db'.exists = db.exists
    BY <1>5 DEF InsertContents, Statement, TypeOK, Databases
  <2>2. QED
    BY <1>2, <2>1 DEF Harmless, ContentsOf, LinkedIn
<1>6. CASE InsertVariants(v)
  <2>1. /\ db'.contents = db.contents /\ db'.content = db.content
        /\ db'.variants = db.variants \cup NewVariants(v, body[v])
        /\ db'.exists = db.exists
    BY <1>6 DEF InsertVariants, Statement, TypeOK, Databases
  <2>2. QED
    BY <2>1 DEF Harmless, ContentsOf, LinkedIn
<1>7. CASE LinkContent(v)
  <2>1. /\ db'.contents = db.contents /\ db'.variants = db.variants
        /\ db'.exists = db.exists
        /\ db.exists \/ db' = db
    BY <1>7 DEF LinkContent, Statement, TypeOK, Databases
  <2>2. seen[v].content = None
    BY <1>1, <1>7 DEF LinkContent, OrphanInv
  <2>3. <<u, 0>> \notin db.contents
    <3>1. step[u] \in BeforeInsert \cup Settled
      BY <1>1 DEF TypeOK, UnderWay, InTransaction, BeforeInsert, Settled
    <3>2. Inserted(u, step[u], db, undo, open, seen, UnderWay)
      BY DEF OrphanInv
    <3>3. QED
      BY <2>2, <3>1, <3>2 DEF Inserted, ContentsOf
  <2>4. ContentsOf(u, db) \cap LinkedIn(db) \subseteq db.variants
    BY <2>3 DEF ContentsOf, LinkedIn
  <2>5. QED
    BY <2>1, <2>4 DEF Harmless, ContentsOf, LinkedIn
<1>8. QED
  BY <1>3, <1>4, <1>5, <1>6, <1>7

LEMMA OrphanStep ==
    TypeOK /\ MeetInv /\ OrphanInv /\ [Next]_vars => OrphanInv'
<1> DEFINE Goal(u) == Inserted(u, step[u], db, undo, open, seen, UnderWay)'
<1> SUFFICES ASSUME TypeOK, MeetInv, OrphanInv, [Next]_vars,
                    NEW u \in Updates, met'[u] = {}
             PROVE  Goal(u)
  BY LinkStep DEF OrphanInv
<1> HIDE DEF Goal
<1>1. ASSUME met[u] = {}
      PROVE  Inserted(u, step[u], db, undo, open, seen, UnderWay)
  BY <1>1 DEF OrphanInv
<1>2. body' = body
  BY DEF Next, Update, Read, Validate, Begin, WriteRow, WriteContent, LinkContent,
         FindVariants, InsertContents, InsertVariants, Commit, Fail, Statement, Delete,
         Crash, request, vars
<1>3. ASSUME NEW v \in Updates, v # u, Read(v) PROVE Goal(u)
  <2>1. CASE ~db.exists
    <3>1. met[u] = {} /\ step'[u] = step[u] /\ UNCHANGED <<db, open, undo, seen>>
      BY <1>3, <2>1 DEF Read, GoTo, session, TypeOK
    <3>2. UnderWay' = UnderWay
      BY <1>3, <2>1 DEF Read, GoTo, TypeOK, UnderWay, InTransaction
    <3>3. QED
      BY <1>1, <1>2, <3>1, <3>2
      DEF Goal, Inserted, Clean, ContentsOf, LinkedIn, NewVariants
  <2>2. CASE db.exists
    <3>1. /\ step[v] = "idle" /\ step' = [step EXCEPT ![v] = "read"]
          /\ seen' = [seen EXCEPT ![v] = [isAbTest |-> db.isAbTest, content |-> db.content]]
          /\ met' = [w \in Updates |-> IF w = v THEN UnderWay
                                       ELSE IF w \in UnderWay THEN met[w] \cup {v}
                                       ELSE met[w]]
          /\ UNCHANGED <<db, open, undo>>
      BY <1>3, <2>2 DEF Read, GoTo, session
    <3>2. UnderWay' = UnderWay \cup {v} /\ v \notin UnderWay
      BY <3>1 DEF TypeOK, UnderWay, InTransaction
    <3>3. u \notin UnderWay /\ met[u] = {}
      BY <1>3, <3>1
    <3>4. /\ step'[u] = step[u] /\ seen'[v].content = db.content
          /\ \A w \in Updates : w # v => seen'[w] = seen[w]
      BY <1>3, <3>1 DEF TypeOK
    <3>5. ASSUME Clean(u, db), <<u, 0>> \in db.contents PROVE db.content # None
      <4>1. <<u, 0>> \in LinkedIn(db)
        BY <2>2, <3>5 DEF Clean, ContentsOf
      <4>2. <<u, 0>> \notin db.variants
        BY DEF TypeOK, Databases, Variants
      <4>3. QED
        BY <4>1, <4>2 DEF LinkedIn
    <3>6. UnderWay \subseteq Updates
      BY DEF UnderWay
    <3>7. QED
      BY <1>1, <1>2, <3>1, <3>2, <3>3, <3>4, <3>5, <3>6
      DEF Goal, Inserted, Clean, ContentsOf, LinkedIn, NewVariants
  <2>3. QED
    BY <2>1, <2>2
<1>4. ASSUME NEW v \in Updates, v # u, Validate(v) PROVE Goal(u)
  <2>1. /\ step[v] = "read" /\ met[u] = {} /\ step'[u] = step[u]
        /\ UNCHANGED <<db, open, undo, seen>>
    BY <1>4 DEF Validate, GoTo, session, TypeOK
  <2>2. \E s \in {"begin", "rejected"} : step' = [step EXCEPT ![v] = s]
    BY <1>4 DEF Validate, GoTo
  <2>3. UnderWay' \subseteq UnderWay
    BY <2>1, <2>2 DEF TypeOK, UnderWay, InTransaction
  <2>4. QED
    BY <1>1, <1>2, <2>1, <2>3
    DEF Goal, Inserted, Clean, ContentsOf, LinkedIn, NewVariants
<1>5. ASSUME NEW v \in Updates, v # u, Begin(v) \/ Commit(v) \/ Fail(v) PROVE Goal(u)
  <2>1. /\ met[u] = {} /\ step'[u] = step[u] /\ seen' = seen
        /\ step[v] = "begin" \/ step[v] \in InTransaction
        /\ \E s \in {"row", "done", "failed"} : step' = [step EXCEPT ![v] = s]
    BY <1>5 DEF Begin, Commit, Fail, GoTo, request, TypeOK, InTransaction
  <2>2. v \in UnderWay /\ UnderWay' \subseteq UnderWay
    BY <2>1 DEF TypeOK, UnderWay, InTransaction
  <2>3. \/ db' = db /\ ~open'
        \/ db' = db /\ undo' = db
        \/ db' = (IF open THEN undo ELSE db) /\ ~open'
    BY <1>5 DEF Begin, Commit, Fail
  <2>4. QED
    BY <1>2, <1>5, <2>1, <2>2, <2>3, OthersInsert DEF Goal
<1>6. ASSUME NEW v \in Updates, v # u,
             \/ WriteRow(v) \/ WriteContent(v) \/ LinkContent(v)
             \/ FindVariants(v) \/ InsertContents(v) \/ InsertVariants(v)
      PROVE  Goal(u)
  <2>1. /\ met[u] = {} /\ step'[u] = step[u] /\ seen' = seen
        /\ UNCHANGED <<open, undo>>
        /\ step[v] \in InTransaction
        /\ \E s \in InTransaction : step' = [step EXCEPT ![v] = s]
    BY <1>6 DEF WriteRow, WriteContent, LinkContent, FindVariants, InsertContents,
           InsertVariants, Statement, GoTo, request, TypeOK, InTransaction
  <2>2. v \in UnderWay /\ UnderWay' \subseteq UnderWay
    BY <2>1 DEF TypeOK, UnderWay
  <2>3. Harmless(u, db')
    BY <1>6, <2>1, <2>2, OthersStatement
  <2>4. QED
    BY <1>2, <1>6, <2>1, <2>2, <2>3, OthersInsert DEF Goal
<1>7. CASE Delete
  <2>1. /\ met[u] = {} /\ UNCHANGED <<open, undo, step, seen>>
        /\ db'.contents = db.contents /\ ~db'.exists
    BY <1>7 DEF Delete, request, TypeOK, Databases
  <2>2. UnderWay' = UnderWay
    BY <2>1 DEF UnderWay
  <2>3. QED
    BY <1>1, <2>1, <2>2 DEF Goal, Inserted, Clean, ContentsOf, LinkedIn
<1>8. CASE Crash
  <2>1. /\ met[u] = {} /\ ~open' /\ db' = (IF open THEN undo ELSE db)
        /\ \A v \in Updates : step'[v] = IF v \in UnderWay THEN "lost" ELSE step[v]
    BY <1>8 DEF Crash
  <2>2. UnderWay' = {}
    BY <2>1 DEF UnderWay, InTransaction
  <2>3. Inserted(u, step[u], db, undo, open, seen, UnderWay)
    BY <1>1, <2>1
  <2>4. CASE u \in UnderWay
    <3>1. ContentsOf(u, db') = {}
      BY <2>1, <2>3, <2>4 DEF Inserted, UnderWay, BeforeInsert
    <3>2. Clean(u, db')
      BY <3>1 DEF Clean
    <3>3. QED
      BY <2>1, <2>2, <2>4, <3>2
      DEF Goal, Inserted, Clean, ContentsOf, LinkedIn, BeforeInsert, InTransaction
  <2>5. CASE u \notin UnderWay
    <3>1. step'[u] = step[u] /\ step[u] \in {"idle", "rejected"} \cup Settled
      BY <2>1, <2>5 DEF TypeOK, UnderWay, InTransaction, Settled
    <3>2. CASE step[u] \in {"idle", "rejected"}
      BY <2>1, <2>2, <2>3, <3>1, <3>2
      DEF Goal, Inserted, Clean, ContentsOf, BeforeInsert, InTransaction, Settled
    <3>3. CASE step[u] \in Settled
      BY <2>1, <2>2, <2>3, <3>1, <3>3
      DEF Goal, Inserted, Clean, ContentsOf, LinkedIn, BeforeInsert, InTransaction, Settled
    <3>4. QED
      BY <3>1, <3>2, <3>3
  <2>6. QED
    BY <2>4, <2>5
<1>9. CASE UNCHANGED vars
  <2>1. met[u] = {} /\ UnderWay' = UnderWay
    BY <1>9 DEF vars, UnderWay
  <2>2. QED
    BY <1>1, <1>9, <2>1
    DEF vars, session, request, Goal, Inserted, Clean, ContentsOf, LinkedIn, NewVariants
<1>10. ASSUME Update(u) PROVE Goal(u)
  BY <1>10, OwnInsert DEF Goal
<1>11. QED
  BY <1>3, <1>4, <1>5, <1>6, <1>7, <1>8, <1>9, <1>10 DEF Next, Update

\* An update that met no other leaves no content behind that nothing refers to,
\* whether it is committed, fails or dies (update_broadcast_action.ts:30, one
\* transaction), and no later update unlinks what it linked.
THEOREM NoOrphans == Spec => []NoOrphanWhenAlone
<1>1. Init => TypeOK /\ MeetInv /\ OrphanInv
  BY TypeInit, AbTestInit, OrphanInit
<1>2. TypeOK /\ MeetInv /\ OrphanInv /\ [Next]_vars => (TypeOK /\ MeetInv /\ OrphanInv)'
  BY TypeStep, MeetStep, OrphanStep
<1>3. TypeOK /\ OrphanInv => NoOrphanWhenAlone
  <2> SUFFICES ASSUME TypeOK, OrphanInv, NEW u \in Updates,
                      db.exists, met[u] = {}, u \notin UnderWay,
                      NEW c \in db.contents, c[1] = u
               PROVE  c \in Linked
    BY DEF NoOrphanWhenAlone
  <2>1. step[u] \in {"idle", "rejected"} \cup Settled
    BY DEF TypeOK, UnderWay, InTransaction, Settled
  <2>2. ContentsOf(u, db) = {} \/ Clean(u, db)
    BY <2>1 DEF OrphanInv, Inserted, BeforeInsert
  <2>3. QED
    BY <2>2 DEF Clean, ContentsOf, LinkedIn, Linked
<1>4. QED
  BY <1>1, <1>2, <1>3, PTL DEF Spec
-----------------------------------------------------------------------------
(***************************************************************************)
(* What an update that was answered 200 has brought.                       *)
(***************************************************************************)
Alive(u)   == step[u] \in {"read", "begin", "done"} \cup InTransaction
Innocent(u) == \A v \in met[u] : ~EndedBadly(v)

\* The update has come to where there is some content, its own or that of the
\* row it read.
HasContent(u) ==
    /\ body[u].content
    /\ \/ seen[u].content # None
       \/ step[u] \in {"find", "contents", "variants", "commit", "done"}

Brought(u, d) ==
    d.exists => /\ step[u] \in {"commit", "done"} => NewVariants(u, body[u]) \subseteq d.variants
                /\ HasContent(u) => d.content # None

\* A rollback that would take it, once the update is done, is in the hands of
\* updates that it met.
KeptInv ==
    \A u \in Updates : Alive(u) /\ Innocent(u) =>
        /\ Brought(u, db)
        /\ step[u] = "done" /\ open /\ ~Brought(u, undo) =>
               \A v \in Updates : step[v] \in InTransaction => v \in met[u]

LEMMA KeptInit == Init => KeptInv
  BY DEF Init, KeptInv, Alive, InTransaction

\* Who was met and who ended badly stays so.
LEMMA InnocentBefore ==
    ASSUME TypeOK, MeetInv, [Next]_vars, NEW u \in Updates, Innocent(u)', step[u] # "idle"
    PROVE  Innocent(u) /\ met[u] \subseteq met'[u]
<1>1. \A v \in Updates : EndedBadly(v) => EndedBadly(v)'
  <2>1. ASSUME NEW v \in Updates, NEW w \in Updates, Update(w), EndedBadly(v)
        PROVE  EndedBadly(v)'
    <3>1. /\ step[w] \notin {"failed", "lost"}
          /\ step' = [step EXCEPT ![w] = step'[w]]
      BY <2>1 DEF Update, Read, Validate, Begin, WriteRow, WriteContent, LinkContent,
             FindVariants, InsertContents, InsertVariants, Commit, Fail, Statement, GoTo,
             InTransaction, TypeOK
    <3>2. QED
      BY <2>1, <3>1 DEF EndedBadly, TypeOK
  <2>2. CASE Delete \/ Crash \/ UNCHANGED vars
    BY <2>2 DEF Delete, Crash, vars, EndedBadly, UnderWay, InTransaction
  <2>3. QED
    BY <2>1, <2>2 DEF Next
<1>2. met[u] \subseteq met'[u]
  <2>1. ASSUME NEW w \in Updates, Read(w) PROVE met[u] \subseteq met'[u]
    BY <2>1 DEF Read, TypeOK
  <2>2. (~\E w \in Updates : Read(w)) => met' = met
    BY DEF Next, Update, Validate, Begin, WriteRow, WriteContent, LinkContent,
           FindVariants, InsertContents, InsertVariants, Commit, Fail, Statement,
           Delete, Crash, vars
  <2>3. QED
    BY <2>1, <2>2
<1>3. met[u] \subseteq Updates
  BY DEF TypeOK
<1>4. QED
  BY <1>1, <1>2, <1>3 DEF Innocent

\* What the update itself does.
LEMMA OwnKept ==
    ASSUME TypeOK, KeptInv, NEW u \in Updates, Update(u), body' = body,
           Alive(u)', Innocent(u)', step[u] # "idle" => Innocent(u)
    PROVE  Brought(u, db)' /\ (step'[u] = "done" => ~open')
<1>1. step[u] \notin {"idle", "rejected"} => Alive(u)
  BY DEF Update, Read, Validate, Begin, WriteRow, WriteContent, LinkContent,
         FindVariants, InsertContents, InsertVariants, Commit, Fail, Alive, InTransaction
<1>2. step[u] # "idle" /\ Alive(u) => Brought(u, db)
  BY DEF KeptInv
<1>3. CASE Read(u)
  <2>1. db.exists
    BY <1>3 DEF Read, GoTo, TypeOK, Alive, InTransaction
  <2>2. step'[u] = "read" /\ seen'[u].content = db.content /\ db' = db
    BY <1>3, <2>1 DEF Read, GoTo, TypeOK, session
  <2>3. QED
    BY <2>2 DEF Brought, HasContent
<1> DEFINE Before == {"read", "begin", "row", "content", "link"}
<1>4. ASSUME step[u] \in Before, step'[u] \in Before, seen' = seen,
             db'.content = db.content, db'.exists = db.exists
      PROVE  Brought(u, db)' /\ (step'[u] = "done" => ~open')
  <2>1. Brought(u, db)
    BY <1>2, <1>4 DEF Alive, InTransaction
  <2>2. QED
    BY <1>4, <2>1 DEF Brought, HasContent
<1>5. CASE Validate(u)
  <2>1. step[u] = "read" /\ step'[u] \in {"begin", "rejected"} /\ seen' = seen /\ db' = db
    BY <1>5 DEF Validate, GoTo, TypeOK, session
  <2>2. step'[u] = "begin"
    BY <2>1 DEF Alive, InTransaction
  <2>3. QED
    BY <1>4, <2>1, <2>2
<1>6. CASE Begin(u)
  <2>1. step[u] = "begin" /\ step'[u] = "row" /\ seen' = seen /\ db' = db
    BY <1>6 DEF Begin, GoTo, TypeOK, request
  <2>2. QED
    BY <1>4, <2>1
<1>7. CASE WriteRow(u)
  <2>1. /\ step[u] = "row" /\ step'[u] = "content" /\ seen' = seen
        /\ db'.content = db.content /\ db'.exists = db.exists
    BY <1>7 DEF WriteRow, Statement, GoTo, TypeOK, Databases, request
  <2>2. QED
    BY <1>4, <2>1
<1>8. CASE WriteContent(u)
  <2>1. /\ step[u] = "content" /\ seen' = seen
        /\ db'.content = db.content /\ db'.exists = db.exists
        /\ \/ step'[u] = "link"
           \/ step'[u] = "find" /\ (body[u].content => seen[u].content # None)
    BY <1>8 DEF WriteContent, Statement, GoTo, TypeOK, Databases, request
  <2>2. CASE step'[u] = "link"
    BY <1>4, <2>1, <2>2
  <2>3. CASE step'[u] = "find" /\ (body[u].content => seen[u].content # None)
    <3>1. Brought(u, db)
      BY <1>2, <2>1 DEF Alive, InTransaction
    <3>2. QED
      BY <2>1, <2>3, <3>1 DEF Brought, HasContent
  <2>4. QED
    BY <2>1, <2>2, <2>3
<1>9. CASE LinkContent(u)
  <2>1. /\ step[u] = "link" /\ step'[u] = "find"
        /\ db'.exists => db'.content # None
    BY <1>9, EditAssumption DEF LinkContent, Statement, GoTo, TypeOK, Databases
  <2>2. QED
    BY <2>1 DEF Brought
<1> DEFINE After == {"find", "contents", "variants"}
<1>10. ASSUME step[u] \in After, step'[u] \in After \cup {"commit"}, seen' = seen,
              db'.content = db.content, db'.exists = db.exists,
              step'[u] = "commit" => NewVariants(u, body[u]) \subseteq db'.variants
       PROVE  Brought(u, db)' /\ (step'[u] = "done" => ~open')
  <2>1. Brought(u, db)
    BY <1>2, <1>10 DEF Alive, InTransaction
  <2>2. HasContent(u)' => HasContent(u)
    BY <1>10 DEF HasContent
  <2>3. QED
    BY <1>10, <2>1, <2>2 DEF Brought, NewVariants
<1>11. CASE FindVariants(u)
  <2>1. /\ step[u] = "find" /\ seen' = seen /\ db' = db
        /\ \/ step'[u] = "contents"
           \/ step'[u] = "commit" /\ body[u].new = <<>>
    BY <1>11 DEF FindVariants, HasVariants, Statement, GoTo, TypeOK, request
  <2>2. body[u].new = <<>> => NewVariants(u, body[u]) = {}
    BY DEF NewVariants
  <2>3. QED
    BY <1>10, <2>1, <2>2
<1>12. CASE InsertContents(u)
  <2>1. /\ step[u] = "contents" /\ step'[u] = "variants" /\ seen' = seen
        /\ db'.content = db.content /\ db'.exists = db.exists
    BY <1>12 DEF InsertContents, Statement, GoTo, TypeOK, Databases, request
  <2>2. QED
    BY <1>10, <2>1
<1>13. CASE InsertVariants(u)
  <2>1. /\ step[u] = "variants" /\ step'[u] = "commit" /\ seen' = seen
        /\ db'.content = db.content /\ db'.exists = db.exists
        /\ db'.variants = db.variants \cup NewVariants(u, body[u])
    BY <1>13 DEF InsertVariants, Statement, GoTo, TypeOK, Databases, request
  <2>2. QED
    BY <1>10, <2>1
<1>14. CASE Commit(u)
  <2>1. /\ step[u] = "commit" /\ step'[u] = "done" /\ ~open'
        /\ db' = db /\ seen' = seen
    BY <1>14 DEF Commit, GoTo, TypeOK, request
  <2>2. Brought(u, db)
    BY <1>2, <2>1 DEF Alive, InTransaction
  <2>3. QED
    BY <2>1, <2>2 DEF Brought, HasContent, NewVariants
<1>15. CASE Fail(u)
  BY <1>15 DEF Fail, GoTo, TypeOK, Alive, InTransaction
<1>16. QED
  BY <1>3, <1>5, <1>6, <1>7, <1>8, <1>9, <1>11, <1>12, <1>13, <1>14, <1>15 DEF Update

LEMMA KeptStep ==
    TypeOK /\ MeetInv /\ KeptInv /\ [Next]_vars => KeptInv'
<1> DEFINE Safe(u) == step'[u] = "done" /\ open' /\ ~Brought(u, undo)' =>
                          \A v \in Updates : step'[v] \in InTransaction => v \in met'[u]
<1> SUFFICES ASSUME TypeOK, MeetInv, KeptInv, [Next]_vars,
                    NEW u \in Updates, Alive(u)', Innocent(u)'
             PROVE  Brought(u, db)' /\ Safe(u)
  BY DEF KeptInv
<1> HIDE DEF Safe
<1>1. body' = body
  BY DEF Next, Update, Read, Validate, Begin, WriteRow, WriteContent, LinkContent,
         FindVariants, InsertContents, InsertVariants, Commit, Fail, Statement, Delete,
         Crash, request, vars
<1>2. step[u] # "idle" => Innocent(u) /\ met[u] \subseteq met'[u]
  BY InnocentBefore
<1>3. ASSUME Update(u) PROVE Brought(u, db)' /\ Safe(u)
  BY <1>1, <1>2, <1>3, OwnKept DEF Safe
\* From here on somebody else acts, and u was alive before.
<1>4. ASSUME step'[u] = step[u]
      PROVE  /\ step[u] # "idle" /\ met[u] \subseteq met'[u]
             /\ Brought(u, db)
             /\ step[u] = "done" /\ open /\ ~Brought(u, undo) =>
                    \A v \in Updates : step[v] \in InTransaction => v \in met[u]
  BY <1>2, <1>4 DEF Alive, KeptInv, InTransaction
<1>5. ASSUME step'[u] = step[u], seen'[u] = seen[u]
      PROVE  /\ Brought(u, db)' = Brought(u, db')
             /\ Brought(u, undo)' = Brought(u, undo')
             /\ \A d : Brought(u, d)' = Brought(u, d)
  BY <1>1, <1>5 DEF Brought, HasContent, NewVariants
<1>6. ASSUME NEW v \in Updates, v # u, Read(v) \/ Validate(v)
      PROVE  Brought(u, db)' /\ Safe(u)
  <2>1. /\ step'[u] = step[u] /\ seen'[u] = seen[u] /\ UNCHANGED <<db, open, undo>>
        /\ \A w \in Updates : step'[w] \in InTransaction => step[w] \in InTransaction
    BY <1>6 DEF Read, Validate, GoTo, session, TypeOK, InTransaction
  <2>2. QED
    BY <1>4, <1>5, <2>1 DEF Safe
<1>7. ASSUME NEW v \in Updates, v # u, Begin(v) \/ Commit(v)
      PROVE  Brought(u, db)' /\ Safe(u)
  <2>1. /\ step'[u] = step[u] /\ seen'[u] = seen[u] /\ db' = db
        /\ undo' = db \/ ~open'
    BY <1>7 DEF Begin, Commit, GoTo, request, TypeOK
  <2>2. QED
    BY <1>4, <1>5, <2>1 DEF Safe
<1>8. ASSUME NEW v \in Updates, v # u,
             \/ WriteRow(v) \/ WriteContent(v) \/ LinkContent(v)
             \/ FindVariants(v) \/ InsertContents(v) \/ InsertVariants(v)
      PROVE  Brought(u, db)' /\ Safe(u)
  <2>1. /\ step'[u] = step[u] /\ seen'[u] = seen[u] /\ UNCHANGED <<open, undo>>
        /\ step[v] \in InTransaction /\ step' = [step EXCEPT ![v] = step'[v]]
    BY <1>8 DEF WriteRow, WriteContent, LinkContent, FindVariants, InsertContents,
           InsertVariants, Statement, GoTo, request, TypeOK, InTransaction
  <2>2. /\ db'.exists = db.exists /\ db.variants \subseteq db'.variants
        /\ db'.content = db.content \/ db'.content = v
    BY <1>8 DEF WriteRow, WriteContent, LinkContent, FindVariants, InsertContents,
           InsertVariants, Statement, TypeOK, Databases
  <2>3. v # None
    BY EditAssumption
  <2>4. Brought(u, db')
    BY <1>4, <2>1, <2>2, <2>3 DEF Brought
  <2>5. \A w \in Updates : step'[w] \in InTransaction => step[w] \in InTransaction
    BY <2>1 DEF TypeOK
  <2>6. QED
    BY <1>4, <1>5, <2>1, <2>4, <2>5 DEF Safe
<1>9. ASSUME NEW v \in Updates, v # u, Fail(v)
      PROVE  Brought(u, db)' /\ Safe(u)
  <2>1. /\ step[v] \in InTransaction /\ step'[v] = "failed"
        /\ step'[u] = step[u] /\ seen'[u] = seen[u] /\ met' = met
        /\ ~open' /\ db' = (IF open THEN undo ELSE db)
    BY <1>9 DEF Fail, GoTo, request, TypeOK
  <2>2. v \notin met[u]
    BY <2>1 DEF Innocent, EndedBadly
  <2>3. step[u] = "done"
    BY <1>9, <2>1, <2>2 DEF MeetInv, Alive, UnderWay, InTransaction
  <2>4. Brought(u, db')
    BY <1>4, <2>1, <2>2, <2>3
  <2>5. QED
    BY <1>5, <2>1, <2>4 DEF Safe
<1>10. CASE Delete
  <2>1. /\ UNCHANGED <<open, undo, step, seen, met>> /\ ~db'.exists
    BY <1>10 DEF Delete, request, TypeOK, Databases
  <2>2. QED
    BY <1>4, <1>5, <2>1 DEF Safe, Brought
<1>11. CASE Crash
  <2>1. /\ ~open' /\ db' = (IF open THEN undo ELSE db) /\ seen' = seen /\ met' = met
        /\ \A v \in Updates : step'[v] = IF v \in UnderWay THEN "lost" ELSE step[v]
    BY <1>11 DEF Crash, request
  <2>2. step[u] = "done" /\ step'[u] = step[u]
    BY <2>1 DEF Alive, UnderWay, InTransaction
  <2>3. ASSUME open, ~Brought(u, undo) PROVE FALSE
    <3>1. PICK v \in Updates : step[v] \in InTransaction
      BY <2>3 DEF MeetInv
    <3>2. v \in met'[u]
      BY <1>4, <2>1, <2>2, <2>3, <3>1
    <3>3. step'[v] = "lost"
      BY <2>1, <3>1 DEF UnderWay
    <3>4. QED
      BY <3>2, <3>3 DEF Innocent, EndedBadly
  <2>4. Brought(u, db')
    BY <1>4, <2>1, <2>2, <2>3
  <2>5. QED
    BY <1>5, <2>1, <2>2, <2>4 DEF Safe
<1>12. CASE UNCHANGED vars
  <2>1. /\ step' = step /\ seen' = seen /\ UNCHANGED <<db, open, undo, met>>
    BY <1>12 DEF vars, session, request
  <2>2. QED
    BY <1>4, <1>5, <2>1 DEF Safe
<1>13. QED
  BY <1>3, <1>6, <1>7, <1>8, <1>9, <1>10, <1>11, <1>12 DEF Next, Update

\* What an update that was answered 200 has brought stays as long as the
\* broadcast does: only an update that it met can take it, by failing or dying
\* (update_broadcast_action.ts:30, on the one session of the process).
THEOREM AcknowledgedKept == Spec => []AcknowledgedStays
<1>1. Init => TypeOK /\ MeetInv /\ KeptInv
  BY TypeInit, AbTestInit, KeptInit
<1>2. TypeOK /\ MeetInv /\ KeptInv /\ [Next]_vars => (TypeOK /\ MeetInv /\ KeptInv)'
  BY TypeStep, MeetStep, KeptStep
<1>3. KeptInv => AcknowledgedStays
  BY DEF KeptInv, AcknowledgedStays, Alive, Innocent, Brought, HasContent
<1>4. QED
  BY <1>1, <1>2, <1>3, PTL DEF Spec
=============================================================================
