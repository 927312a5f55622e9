------------------------- MODULE SharedSessionProofs -------------------------
(***************************************************************************)
(* What transactions on one shared connection still guarantee, for any     *)
(* number of handlers and of statements.                                   *)
(***************************************************************************)
EXTENDS SharedSession, TLAPS

Alone(h) == met[h] \cap Transactional = {}

\* Who runs is a transaction, has met everybody else who runs, and an open
\* transaction has somebody who runs.
MeetInv ==
    /\ open => Running # {}
    /\ \A h \in Running : h \in Transactional
    /\ \A h \in Running : \A g \in Running : g # h => g \in met[h]
    /\ \A h \in Handlers : state[h] = "idle" => made[h] = 0 /\ met[h] = {}
    /\ \A h \in Handlers : state[h] = "done" => made[h] = Last(h)

\* What the session holds of a handler that met no other transaction.
AloneInv ==
    \A h \in Handlers : Alone(h) => \A i \in 1 .. Last(h) :
        /\ state[h] = "idle" => <<h, i>> \notin saved /\ <<h, i>> \notin undo
        /\ state[h] = "running" =>
               /\ open
               /\ <<h, i>> \notin undo
               /\ i <= made[h] => <<h, i>> \in saved
        /\ state[h] = "done" => <<h, i>> \in saved /\ (open => <<h, i>> \in undo)
        /\ EndedBadly(h) => <<h, i>> \notin saved /\ (open => <<h, i>> \notin undo)

\* A write that is missing, or would be after a rollback, was or can only be
\* taken by somebody the handler met.
LossInv ==
    \A h \in Handlers : \A i \in 1 .. made[h] :
        /\ state[h] \in {"running", "done"} /\ <<h, i>> \notin saved =>
               \E g \in met[h] : EndedBadly(g)
        /\ state[h] = "done" /\ open /\ <<h, i>> \notin undo =>
               (\E g \in met[h] : EndedBadly(g)) \/ Running \subseteq met[h]

Inv == TypeOK /\ MeetInv /\ AloneInv /\ LossInv
-----------------------------------------------------------------------------
LEMMA InvInit == Init => Inv
<1> SUFFICES ASSUME Init PROVE Inv
  OBVIOUS
<1>1. TypeOK
  <2>1. made \in [Handlers -> 0 .. NumWrites]
    BY SessionAssumption DEF Init
  <2>2. /\ state \in [Handlers -> {"idle", "running", "done", "failed", "lost"}]
        /\ met \in [Handlers -> SUBSET Handlers]
    BY DEF Init
  <2>3. QED
    BY <2>1, <2>2 DEF Init, TypeOK
<1>2. MeetInv
  BY DEF Init, MeetInv, Running
<1>3. AloneInv
  BY DEF Init, AloneInv, EndedBadly
<1>4. LossInv
  BY DEF Init, LossInv
<1>5. QED
  BY <1>1, <1>2, <1>3, <1>4 DEF Inv

LEMMA TypeStep == TypeOK /\ [Next]_vars => TypeOK'
<1> SUFFICES ASSUME TypeOK, [Next]_vars PROVE TypeOK'
  OBVIOUS
<1> USE SessionAssumption DEF TypeOK
<1>1. ASSUME NEW h \in Handlers, Begin(h) PROVE TypeOK'
  BY <1>1 DEF Begin, Meets, Running
<1>2. ASSUME NEW h \in Handlers, Write(h) PROVE TypeOK'
  <2>1. made[h] + 1 \in 1 .. NumWrites
    BY <1>2 DEF Write
  <2>2. made' \in [Handlers -> 0 .. NumWrites]
    BY <1>2, <2>1 DEF Write
  <2>3. saved' \in SUBSET (Handlers \X (1 .. NumWrites))
    BY <1>2, <2>1 DEF Write
  <2>4. QED
    BY <1>2, <2>2, <2>3 DEF Write
<1>3. ASSUME NEW h \in Handlers, Commit(h) PROVE TypeOK'
  BY <1>3 DEF Commit
<1>4. ASSUME NEW h \in Handlers, Rollback(h) PROVE TypeOK'
  BY <1>4 DEF Rollback
<1>5. ASSUME NEW h \in Handlers, Statement(h) PROVE TypeOK'
  BY <1>5 DEF Statement, Meets, Running
<1>6. CASE Crash
  BY <1>6 DEF Crash
<1>7. CASE UNCHANGED vars
  BY <1>7 DEF vars, session
<1>8. QED
  BY <1>1, <1>2, <1>3, <1>4, <1>5, <1>6, <1>7 DEF Next

\* The variables keep their types.
THEOREM TypeCorrect == Spec => []TypeOK
<1>1. Init => TypeOK
  BY InvInit DEF Inv
<1>2. QED
  BY <1>1, TypeStep, PTL DEF Spec

LEMMA MeetStep == TypeOK /\ MeetInv /\ [Next]_vars => MeetInv'
<1> SUFFICES ASSUME TypeOK, MeetInv, [Next]_vars PROVE MeetInv'
  OBVIOUS
<1> USE SessionAssumption DEF TypeOK, MeetInv, Running
<1>1. ASSUME NEW h \in Handlers, Begin(h) PROVE MeetInv'
  BY <1>1 DEF Begin, Meets, Last, Handlers
<1>2. ASSUME NEW h \in Handlers, Write(h) PROVE MeetInv'
  BY <1>2 DEF Write
<1>3. ASSUME NEW h \in Handlers, Commit(h) PROVE MeetInv'
  BY <1>3 DEF Commit, Last
<1>4. ASSUME NEW h \in Handlers, Rollback(h) PROVE MeetInv'
  BY <1>4 DEF Rollback
<1>5. ASSUME NEW h \in Handlers, Statement(h) PROVE MeetInv'
  BY <1>5 DEF Statement, Meets, Last
<1>6. CASE Crash
  BY <1>6 DEF Crash
<1>7. CASE UNCHANGED vars
  BY <1>7 DEF vars, session
<1>8. QED
  BY <1>1, <1>2, <1>3, <1>4, <1>5, <1>6, <1>7 DEF Next

LEMMA AloneStep == TypeOK /\ MeetInv /\ AloneInv /\ [Next]_vars => AloneInv'
<1> SUFFICES ASSUME TypeOK, MeetInv, AloneInv, [Next]_vars,
                    NEW h \in Handlers, Alone(h)', NEW i \in 1 .. Last(h)
             PROVE  /\ state'[h] = "idle" => <<h, i>> \notin saved' /\ <<h, i>> \notin undo'
                    /\ state'[h] = "running" =>
                           /\ open'
                           /\ <<h, i>> \notin undo'
                           /\ i <= made'[h] => <<h, i>> \in saved'
                    /\ state'[h] = "done" =>
                           <<h, i>> \in saved' /\ (open' => <<h, i>> \in undo')
                    /\ EndedBadly(h)' =>
                           <<h, i>> \notin saved' /\ (open' => <<h, i>> \notin undo')
  BY DEF AloneInv, Last
<1> USE SessionAssumption DEF TypeOK, MeetInv, Running, Alone, EndedBadly
<1> DEFINE Goal == /\ state'[h] = "idle" => <<h, i>> \notin saved' /\ <<h, i>> \notin undo'
                   /\ state'[h] = "running" =>
                           /\ open'
                           /\ <<h, i>> \notin undo'
                           /\ i <= made'[h] => <<h, i>> \in saved'
                   /\ state'[h] = "done" =>
                           <<h, i>> \in saved' /\ (open' => <<h, i>> \in undo')
                   /\ EndedBadly(h)' =>
                           <<h, i>> \notin saved' /\ (open' => <<h, i>> \notin undo')
<1>1. ASSUME NEW g \in Handlers, Begin(g) PROVE Goal
  BY <1>1 DEF Begin, Meets, AloneInv
<1>2. ASSUME NEW g \in Handlers, Write(g) PROVE Goal
  BY <1>2 DEF Write, AloneInv
<1>3. ASSUME NEW g \in Handlers, Commit(g) PROVE Goal
  BY <1>3 DEF Commit, AloneInv, Last
<1>4. ASSUME NEW g \in Handlers, Rollback(g) PROVE Goal
  BY <1>4 DEF Rollback, AloneInv
<1>5. ASSUME NEW g \in Handlers, Statement(g) PROVE Goal
  BY <1>5 DEF Statement, Meets, AloneInv, Last
<1>6. CASE Crash
  BY <1>6 DEF Crash, AloneInv
<1>7. CASE UNCHANGED vars
  BY <1>7 DEF vars, session, AloneInv
<1>8. QED
  BY <1>1, <1>2, <1>3, <1>4, <1>5, <1>6, <1>7 DEF Next
LEMMA LossStep == TypeOK /\ MeetInv /\ LossInv /\ [Next]_vars => LossInv'
<1> DEFINE Goal(h, i) ==
        /\ state'[h] \in {"running", "done"} /\ <<h, i>> \notin saved' =>
               \E g \in met'[h] : EndedBadly(g)'
        /\ state'[h] = "done" /\ open' /\ <<h, i>> \notin undo' =>
               (\E g \in met'[h] : EndedBadly(g)') \/ Running' \subseteq met'[h]
<1> SUFFICES ASSUME TypeOK, MeetInv, LossInv, [Next]_vars,
                    NEW h \in Handlers, NEW i \in 1 .. made'[h]
             PROVE  Goal(h, i)
  BY DEF LossInv
<1> USE SessionAssumption DEF TypeOK, MeetInv, Running, EndedBadly
<1>0. TypeOK' /\ MeetInv'
  BY TypeStep, MeetStep
<1>1. ASSUME NEW g \in Handlers, Begin(g) PROVE Goal(h, i)
  BY <1>1 DEF Begin, Meets, LossInv
<1>2. ASSUME NEW g \in Handlers, Write(g) PROVE Goal(h, i)
  BY <1>2 DEF Write, LossInv
<1>3. ASSUME NEW g \in Handlers, Commit(g) PROVE Goal(h, i)
  BY <1>3 DEF Commit, LossInv
<1>4. ASSUME NEW g \in Handlers, Rollback(g) PROVE Goal(h, i)
  BY <1>4 DEF Rollback, LossInv
<1>5. ASSUME NEW g \in Handlers, Statement(g) PROVE Goal(h, i)
  BY <1>5 DEF Statement, Meets, LossInv
<1>6. CASE Crash
  BY <1>6 DEF Crash, LossInv
<1>7. CASE UNCHANGED vars
  BY <1>7 DEF vars, session, LossInv
<1>8. QED
  BY <1>1, <1>2, <1>3, <1>4, <1>5, <1>6, <1>7 DEF Next

LEMMA InvHolds == Spec => []Inv
<1>1. Inv /\ [Next]_vars => Inv'
  BY TypeStep, MeetStep, AloneStep, LossStep DEF Inv
<1>2. QED
  BY InvInit, <1>1, PTL DEF Spec

\* A transaction that runs beside no other is atomic although it shares its
\* connection with any number of single statements.
THEOREM Atomicity == Spec => []AtomicWhenAlone
<1>1. Inv => AtomicWhenAlone
  BY DEF Inv, AloneInv, AtomicWhenAlone, Alone, Writes, EndedBadly
<1>2. QED
  BY InvHolds, <1>1, PTL

\* A write that was acknowledged can be lost only to a transaction that ran at
\* the same time and failed or died.
THEOREM Loss == Spec => []LossNeedsRollback
<1>1. ASSUME Inv, NEW h \in Handlers, state[h] = "done", ~(Writes(h) \subseteq saved)
      PROVE  \E g \in met[h] : EndedBadly(g)
  <2>1. PICK i \in 1 .. Last(h) : <<h, i>> \notin saved
    BY <1>1 DEF Writes
  <2>2. i \in 1 .. made[h]
    BY <1>1 DEF Inv, MeetInv
  <2>3. QED
    BY <1>1, <2>1, <2>2 DEF Inv, LossInv
<1>2. Inv => LossNeedsRollback
  BY <1>1 DEF LossNeedsRollback
<1>3. QED
  BY InvHolds, <1>2, PTL
=============================================================================
