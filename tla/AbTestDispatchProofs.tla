------------------------ MODULE AbTestDispatchProofs ------------------------
(***************************************************************************)
(* Theorems about AbTestDispatch, for every set of contacts, any number of *)
(* variants, any integers as weights and any batch size.                   *)
(***************************************************************************)
EXTENDS AbTestDispatch, FiniteSetTheorems, TLAPS

\* A rank is a number, and less than the number of rows for a row.
LEMMA RankBound ==
    ASSUME NEW rows \in SUBSET Ids, NEW c \in Ids
    PROVE  /\ Cardinality(rows) \in Nat
           /\ Rank(c, rows) \in Nat
           /\ c \in rows => Rank(c, rows) < Cardinality(rows)
<1> DEFINE below == {d \in rows : d < c}
<1>1. IsFiniteSet(rows) /\ Ids \subseteq Nat
  BY FS_Subset, DispatchAssumption
<1>2. /\ IsFiniteSet(below)
      /\ Cardinality(below) <= Cardinality(rows)
      /\ Cardinality(rows) = Cardinality(below) => rows = below
  BY <1>1, FS_Subset
<1>3. Cardinality(rows) \in Nat /\ Cardinality(below) \in Nat
  BY <1>1, <1>2, FS_CardinalityType
<1>4. c \notin below
  BY <1>1
<1>5. QED
  BY <1>2, <1>3, <1>4 DEF Rank

\* Ranks follow the order of the ids.
LEMMA RankOrder ==
    ASSUME NEW rows \in SUBSET Ids, NEW c \in rows, NEW d \in rows, c < d
    PROVE  Rank(c, rows) < Rank(d, rows)
<1> DEFINE Below(x) == {e \in rows : e < x}
<1>1. IsFiniteSet(rows) /\ rows \subseteq Nat
  BY FS_Subset, DispatchAssumption
<1>2. Below(c) \subseteq Below(d) /\ c \in Below(d) /\ c \notin Below(c)
  <2>1. c \in Nat /\ d \in Nat
    BY <1>1
  <2>2. \A e \in rows : e < c => e < d
    <3> TAKE e \in rows
    <3>1. e \in Nat
      BY <1>1
    <3>2. QED
      BY <2>1, <3>1
  <2>3. ~(c < c)
    BY <2>1
  <2>4. QED
    BY <2>2, <2>3
<1>3. IsFiniteSet(Below(d))
  BY <1>1, FS_Subset
<1> HIDE DEF Below
<1>4. /\ IsFiniteSet(Below(c))
      /\ Cardinality(Below(c)) <= Cardinality(Below(d))
      /\ Cardinality(Below(d)) # Cardinality(Below(c))
  BY <1>2, <1>3, FS_Subset
<1>5. Cardinality(Below(c)) \in Nat /\ Cardinality(Below(d)) \in Nat
  BY <1>3, <1>4, FS_CardinalityType
<1>6. Cardinality(Below(c)) < Cardinality(Below(d))
  BY <1>4, <1>5
<1>7. QED
  BY <1>6 DEF Rank, Below

\* Every rank below the number of rows is that of one row: a window of ranks
\* holds as many rows as it is long.
LEMMA WindowSize ==
    ASSUME NEW rows \in SUBSET Ids, NEW a \in Nat, NEW b \in Nat,
           a <= b, b <= Cardinality(rows)
    PROVE  Cardinality({c \in rows : a <= Rank(c, rows) /\ Rank(c, rows) < b}) = b - a
<1> DEFINE n == Cardinality(rows)
           window == {c \in rows : a <= Rank(c, rows) /\ Rank(c, rows) < b}
           f == [c \in rows |-> Rank(c, rows)]
           g == [c \in window |-> Rank(c, rows)]
<1>1. IsFiniteSet(rows) /\ rows \subseteq Nat /\ n \in Nat
  BY FS_Subset, FS_CardinalityType, DispatchAssumption
<1>2. \A c \in rows : Rank(c, rows) \in 0 .. n - 1
  BY <1>1, RankBound
<1>3. \A c, d \in rows : Rank(c, rows) = Rank(d, rows) => c = d
  <2> SUFFICES ASSUME NEW c \in rows, NEW d \in rows, Rank(c, rows) = Rank(d, rows), c # d
               PROVE  FALSE
    OBVIOUS
  <2>1. c < d \/ d < c
    BY <1>1
  <2>2. Rank(c, rows) \in Int /\ Rank(d, rows) \in Int
    BY <1>2
  <2>3. Rank(c, rows) < Rank(d, rows) \/ Rank(d, rows) < Rank(c, rows)
    BY <2>1, RankOrder
  <2>4. QED
    BY <2>2, <2>3
<1>4. f \in Injection(rows, 0 .. n - 1)
  BY <1>2, <1>3 DEF Injection, IsInjective
<1>5. IsFiniteSet(0 .. n - 1) /\ Cardinality(0 .. n - 1) = n
  <2> HIDE DEF n
  <2>1. n \in Nat
    BY <1>1 DEF n
  <2>2. n - 1 \in Int /\ 0 \in Int
    BY <2>1
  <2>3. /\ IsFiniteSet(0 .. n - 1)
        /\ Cardinality(0 .. n - 1) = IF 0 > n - 1 THEN 0 ELSE (n - 1) - 0 + 1
    BY <2>2, FS_Interval, Zenon
  <2>4. QED
    BY <2>1, <2>3
<1> HIDE DEF n, f
<1>6. f \in Surjection(rows, 0 .. n - 1)
  BY <1>4, <1>5, FS_Injection DEF n
<1>7. \A k \in 0 .. n - 1 : \E c \in rows : Rank(c, rows) = k
  BY <1>6 DEF Surjection, f
<1>8. \A k \in a .. b - 1 : \E c \in window : Rank(c, rows) = k
  <2> TAKE k \in a .. b - 1
  <2>1. k \in 0 .. n - 1 /\ a <= k /\ k < b
    BY <1>1 DEF n
  <2>2. PICK c \in rows : Rank(c, rows) = k
    BY <1>7, <2>1
  <2>3. QED
    BY <2>1, <2>2
<1>9. \A c \in window : Rank(c, rows) \in a .. b - 1
  BY <1>2
<1>10. g \in Bijection(window, a .. b - 1)
  BY <1>3, <1>8, <1>9 DEF Bijection, Injection, Surjection, IsInjective
<1>11. IsFiniteSet(window)
  BY <1>1, FS_Subset
<1>12. Cardinality(a .. b - 1) = b - a
  <2>1. a \in Int /\ b - 1 \in Int
    OBVIOUS
  <2>2. Cardinality(a .. b - 1) = IF a > b - 1 THEN 0 ELSE (b - 1) - a + 1
    BY <2>1, FS_Interval, Zenon
  <2>3. QED
    BY <2>2
<1>13. ExistsBijection(window, a .. b - 1)
  BY <1>10 DEF ExistsBijection
<1>14. Cardinality(window) = b - a
  <2> HIDE DEF window, g
  <2>1. QED
    BY <1>11, <1>12, <1>13, FS_Bijection
<1>15. QED
  BY <1>14

\* A window of ranks holds at most as many rows as it is long, wherever it lies.
LEMMA WindowBound ==
    ASSUME NEW rows \in SUBSET Ids, NEW a \in Int, NEW b \in Int, a <= b
    PROVE  Cardinality({c \in rows : a <= Rank(c, rows) /\ Rank(c, rows) < b}) <= b - a
<1> DEFINE n == Cardinality(rows)
           lo == IF a < 0 THEN 0 ELSE a
           hi == IF b > n THEN n ELSE b
           Window(k, l) == {c \in rows : k <= Rank(c, rows) /\ Rank(c, rows) < l}
<1>1. n \in Nat /\ \A c \in rows : Rank(c, rows) \in Nat /\ Rank(c, rows) < n
  BY RankBound, FS_Subset, FS_CardinalityType, DispatchAssumption
<1>2. Window(a, b) = Window(lo, hi)
  <2>1. \A c \in rows : (a <= Rank(c, rows) /\ Rank(c, rows) < b) <=>
                        (lo <= Rank(c, rows) /\ Rank(c, rows) < hi)
    <3> TAKE c \in rows
    <3>1. Rank(c, rows) \in Nat /\ Rank(c, rows) < n
      BY <1>1
    <3> HIDE DEF n
    <3>2. n \in Nat
      BY <1>1 DEF n
    <3>3. QED
      BY <3>1, <3>2
  <2>2. QED
    BY <2>1
<1>3. CASE lo <= hi
  <2>1. lo \in Nat /\ hi \in Nat /\ hi <= n /\ hi - lo <= b - a
    <3> HIDE DEF n
    <3>1. n \in Nat
      BY <1>1 DEF n
    <3>2. QED
      BY <1>3, <3>1
  <2> HIDE DEF lo, hi
  <2>2. Cardinality(Window(lo, hi)) = hi - lo
    BY <1>3, <2>1, WindowSize
  <2> HIDE DEF Window
  <2>3. Cardinality(Window(a, b)) <= b - a
    BY <1>2, <2>1, <2>2
  <2>4. QED
    BY <2>3 DEF Window
<1>4. CASE ~(lo <= hi)
  <2>1. Window(lo, hi) = {}
    <3> SUFFICES ASSUME NEW c \in rows, lo <= Rank(c, rows), Rank(c, rows) < hi
                 PROVE  FALSE
      OBVIOUS
    <3>1. Rank(c, rows) \in Nat /\ n \in Nat
      BY <1>1
    <3> HIDE DEF n
    <3>2. QED
      BY <1>4, <3>1
  <2>2. Cardinality(Window(a, b)) = 0
    BY <1>2, <2>1, FS_EmptySet
  <2>3. QED
    BY <2>2
<1>5. QED
  BY <1>3, <1>4

LEMMA EmptyWindow ==
    ASSUME NEW rows \in SUBSET Ids, NEW a \in Int
    PROVE  {c \in rows : a <= Rank(c, rows) /\ Rank(c, rows) < a} = {}
<1>1. \A c \in rows : Rank(c, rows) \in Nat
  BY RankBound
<1>2. \A c \in rows : ~(a <= Rank(c, rows) /\ Rank(c, rows) < a)
  <2> TAKE c \in rows
  <2>1. Rank(c, rows) \in Nat
    BY <1>1
  <2>2. QED
    BY <2>1
<1>3. QED
  BY <1>2
-----------------------------------------------------------------------------
LEMMA TypeInit == Init => TypeOK
  BY DispatchAssumption DEF Init, TypeOK, Samples, Final

\* Within a sample the next page has a size, and its offset grows.
LEMMA PageType ==
    ASSUME TypeOK
    PROVE  SampleSize \in Int /\ PageSize \in Int
  BY DispatchAssumption DEF TypeOK, SampleSize, PageSize, Samples, Final, Variants

LEMMA TypeStep == TypeOK /\ [Next]_vars => TypeOK'
<1> SUFFICES ASSUME TypeOK, [Next]_vars PROVE TypeOK'
  OBVIOUS
<1> USE DispatchAssumption
<1>1. CASE CountContacts
  <2>1. total' \in Nat
    BY <1>1, RankBound, FS_Subset, FS_CardinalityType DEF CountContacts, TypeOK
  <2>2. size' \in [Variants -> Int]
    <3>1. \A w \in Weights : Portion(w, total') \subseteq Int
      <4> TAKE w \in Weights
      <4>1. w * total' \in Int
        BY <2>1
      <4>2. \A k \in Int : k \div Hundred \in Int
        OBVIOUS
      <4>3. (w * total') \div Hundred \in Int
        BY <4>1, <4>2, Zenon
      <4>4. \A k \in Int : k - 1 \in Int
        OBVIOUS
      <4>5. QED
        BY <4>3, <4>4, Zenon DEF Portion
    <3>2. UNION {Portion(w, total') : w \in Weights} \subseteq Int
      BY <3>1
    <3>3. QED
      BY <1>1, <3>2 DEF CountContacts
  <2>3. QED
    BY <1>1, <2>1, <2>2 DEF CountContacts, TypeOK, cursor, queued
<1>2. CASE QueuePage
  <2>1. Page \in SUBSET Ids
    BY DEF Page, TypeOK
  <2>2. times' \in [Ids -> Nat] /\ sent' \in Nat
    BY <1>2 DEF QueuePage, TypeOK
  <2>3. members' \in [Samples -> SUBSET Ids]
    <3>1. members[sample] \cup Page \in SUBSET Ids
      BY <2>1 DEF TypeOK
    <3>2. members' = [members EXCEPT ![sample] = members[sample] \cup Page]
      BY <1>2 DEF QueuePage
    <3>3. QED
      BY <3>1, <3>2 DEF TypeOK
  <2>4. QED
    BY <1>2, <2>2, <2>3 DEF QueuePage, TypeOK, plan, churn
<1>3. CASE NextSample
  <2>1. sample \in Variants /\ sample' \in Samples
    BY <1>3 DEF NextSample, TypeOK, Samples, Final, Variants
  <2>2. start' \in Int /\ back' \in Nat
    BY <1>3, <2>1 DEF NextSample, TypeOK, Positive
  <2>3. QED
    BY <1>3, <2>1, <2>2 DEF NextSample, TypeOK, plan, queued, churn
<1>4. CASE SamplesDone \/ SchedulePickWinner \/ Fail
  <2>1. /\ step' \in {"winner", "done", "failed"}
        /\ UNCHANGED <<matching, plan, cursor, queued, back, churn>>
    BY <1>4 DEF SamplesDone, SchedulePickWinner, Fail
  <2>2. QED
    BY <2>1 DEF TypeOK, plan, cursor, queued, churn
<1>5. ASSUME NEW c \in Ids, Appear(c) \/ Vanish(c) PROVE TypeOK'
  <2>1. /\ matching' \in SUBSET Ids /\ stayed' \in SUBSET Ids
        /\ UNCHANGED <<step, plan, cursor, queued, back>>
    BY <1>5 DEF Appear, Vanish, TypeOK
  <2>2. appeared' \in 0 .. MaxChurn /\ vanished' \in 0 .. MaxChurn
    BY <1>5 DEF Appear, Vanish, TypeOK
  <2>3. QED
    BY <2>1, <2>2 DEF TypeOK, plan, cursor, queued
<1>6. CASE UNCHANGED vars
  BY <1>6 DEF vars, TypeOK, plan, cursor, queued, churn
<1>7. QED
  BY <1>1, <1>2, <1>3, <1>4, <1>5, <1>6 DEF Next, Handler

\* The variables keep their types; in particular no sample is dispatched but
\* those of the variants and the final one.
THEOREM TypeCorrect == Spec => []TypeOK
  BY TypeInit, TypeStep, PTL DEF Spec
-----------------------------------------------------------------------------
(***************************************************************************)
(* The pages of a quiet execution tile the rows: up to now every contact   *)
(* of a rank below Reached was queued, and as long as no sample had a      *)
(* negative size exactly those were, once each.  Reached goes back by the  *)
(* size of each sample whose size is negative, and by nothing else.        *)
(***************************************************************************)
Reached ==
    start + IF sample # Final /\ sent > Positive(size[sample]) THEN Positive(size[sample])
                                                               ELSE sent

TilingInv ==
    /\ step = "count" =>
           /\ start = 0 /\ sent = 0
           /\ \A c \in Ids : times[c] = 0
    /\ step = "dispatch" /\ Quiet =>
           /\ total = Cardinality(matching)
           /\ \A c \in Ids :
                  /\ c \in matching /\ Rank(c, matching) < Reached => times[c] >= 1
                  /\ c \notin matching => times[c] = 0
                  /\ back = 0 => times[c] = IF c \in matching /\ Rank(c, matching) < Reached
                                            THEN 1 ELSE 0
    /\ ExactlyOnceWhenQuiet

LEMMA TilingInit == Init => TilingInv
  BY DEF Init, TilingInv, ExactlyOnceWhenQuiet, Dispatched

\* A page ends where the next one begins.
LEMMA ReachedMoves ==
    ASSUME TypeOK, QueuePage
    PROVE  /\ Reached = start + sent
           /\ Reached' = start + sent + PageSize
           /\ Reached \in Nat /\ Reached' \in Nat /\ PageSize \in Nat
<1> USE DispatchAssumption
<1>1. /\ start \in Int /\ sent \in Nat /\ total \in Nat /\ BatchSize \in Nat
      /\ sample # Final => size[sample] \in Int
  BY DEF TypeOK, Samples, Final, Variants
<1>2. /\ UNCHANGED <<size, sample, start>>
      /\ sent' = sent + BatchSize /\ sent < SampleSize /\ start + sent >= 0
  BY DEF QueuePage, plan
<1>3. CASE sample = Final
  <2>1. PageSize = BatchSize
    BY <1>3 DEF PageSize
  <2>2. Reached = start + sent /\ Reached' = start + (sent + BatchSize)
    BY <1>2, <1>3 DEF Reached, Final
  <2>3. QED
    BY <1>1, <1>2, <2>1, <2>2
<1>4. CASE sample # Final
  <2>1. SampleSize = size[sample]
    BY <1>4 DEF SampleSize
  <2>2. PageSize = IF size[sample] - sent > BatchSize THEN BatchSize
                                                      ELSE size[sample] - sent
    BY <1>4, <2>1 DEF PageSize
  <2>3. /\ size[sample] \in Nat /\ sent < size[sample]
        /\ Positive(size[sample]) = size[sample]
    BY <1>1, <1>2, <1>4, <2>1 DEF Positive
  <2>4. Reached = start + sent
    BY <1>1, <1>4, <2>3 DEF Reached
  <2>5. Reached' = start + IF sent + BatchSize > size[sample] THEN size[sample]
                                                              ELSE sent + BatchSize
    BY <1>2, <1>4, <2>3 DEF Reached, Final, Positive
  <2>6. QED
    BY <1>1, <1>2, <2>2, <2>3, <2>4, <2>5
<1>5. QED
  BY <1>3, <1>4

\* The next sample begins where this one ends, or a negative size before it.
LEMMA ReachedGoesBack ==
    ASSUME TypeOK, NextSample
    PROVE  /\ size[sample] \in Int /\ start' = start + size[sample]
           /\ Reached = start + Positive(size[sample]) /\ Reached' = start'
           /\ back' = back + (Reached - Reached')
           /\ Reached' <= Reached
<1> USE DispatchAssumption
<1>1. /\ UNCHANGED size /\ sample # Final /\ sample' = sample + 1
      /\ sent >= size[sample] /\ start' = start + size[sample] /\ sent' = 0
      /\ back' = back + Positive(-size[sample])
  BY DEF NextSample, SampleSize, plan
<1>2. /\ sample \in Variants /\ size[sample] \in Int
      /\ start \in Int /\ sent \in Nat /\ back \in Nat
  BY <1>1 DEF TypeOK, Samples, Final, Variants
<1>3. sample' # Final => size'[sample'] \in Int
  BY <1>1, <1>2 DEF TypeOK, Final, Variants
<1>4. Reached' = start'
  BY <1>1, <1>2, <1>3 DEF Reached, Positive
<1>5. Reached = start + Positive(size[sample])
  BY <1>1, <1>2 DEF Reached, Positive
<1>6. QED
  BY <1>1, <1>2, <1>4, <1>5 DEF Positive

LEMMA ReachedType == TypeOK => Reached \in Int
<1> SUFFICES ASSUME TypeOK PROVE Reached \in Int
  OBVIOUS
<1>1. /\ start \in Int /\ sent \in Nat
      /\ sample # Final => size[sample] \in Int
  BY DispatchAssumption DEF TypeOK, Samples, Final, Variants
<1>2. QED
  BY <1>1 DEF Reached, Positive

LEMMA ReachedNext == TypeOK /\ [Next]_vars => Reached \in Int /\ Reached' \in Int
<1> SUFFICES ASSUME TypeOK, [Next]_vars PROVE Reached \in Int /\ Reached' \in Int
  OBVIOUS
<1>1. TypeOK'
  BY TypeStep
<1>2. /\ start' \in Int /\ sent' \in Nat
      /\ sample' # Final => size'[sample'] \in Int
  BY <1>1, DispatchAssumption DEF TypeOK, Samples, Final, Variants
<1>3. Reached' \in Int
  BY <1>2 DEF Reached, Positive, Final
<1>4. QED
  BY <1>3, ReachedType

LEMMA TilingStep == TypeOK /\ TilingInv /\ [Next]_vars => TilingInv'
<1> SUFFICES ASSUME TypeOK, TilingInv, [Next]_vars PROVE TilingInv'
  OBVIOUS
<1> USE DispatchAssumption
<1>0. \A c \in Ids : Rank(c, matching) \in Nat
  BY RankBound DEF TypeOK
<1>10. sample' # Final => size'[sample'] \in Int
  <2>1. TypeOK'
    BY TypeStep
  <2>2. QED
    BY <2>1 DEF TypeOK, Samples, Final, Variants
<1>1. CASE CountContacts
  <2>1. /\ step' = "dispatch" /\ matching' = matching /\ times' = times
        /\ total' = Cardinality(matching)
        /\ start' = 0 /\ sent' = 0
        /\ \A c \in Ids : times'[c] = 0
    BY <1>1 DEF CountContacts, TilingInv, cursor, queued
  <2>2. Reached' = 0
    BY <1>10, <2>1 DEF Reached, Positive
  <2>3. QED
    BY <1>0, <2>1, <2>2 DEF TilingInv, ExactlyOnceWhenQuiet, Dispatched
<1>2. CASE QueuePage
  <2>1. /\ step = "dispatch" /\ step' = step /\ matching' = matching
        /\ UNCHANGED <<total, size, sample, start, back, appeared, vanished>>
        /\ \A c \in Ids : times'[c] = IF c \in Page THEN times[c] + 1 ELSE times[c]
    BY <1>2 DEF QueuePage, plan, churn
  <2>2. /\ Reached = start + sent
        /\ Reached' = start + sent + PageSize
        /\ Reached \in Nat /\ Reached' \in Nat /\ PageSize \in Nat
    BY <1>2, ReachedMoves
  <2>3. ASSUME Quiet, NEW c \in Ids
        PROVE  /\ c \in matching /\ Rank(c, matching) < Reached' => times'[c] >= 1
               /\ c \notin matching => times'[c] = 0
               /\ back = 0 => times'[c] = IF c \in matching /\ Rank(c, matching) < Reached'
                                         THEN 1 ELSE 0
    <3>1. /\ c \in matching /\ Rank(c, matching) < Reached => times[c] >= 1
          /\ c \notin matching => times[c] = 0
          /\ back = 0 => times[c] = IF c \in matching /\ Rank(c, matching) < Reached
                                    THEN 1 ELSE 0
      BY <2>1, <2>3 DEF TilingInv
    <3>2. c \in Page <=> /\ c \in matching
                         /\ Reached <= Rank(c, matching)
                         /\ Rank(c, matching) < Reached'
      BY <2>2 DEF Page
    <3>3. times'[c] = IF c \in Page THEN times[c] + 1 ELSE times[c]
      BY <2>1
    <3>4. times[c] \in Nat /\ Rank(c, matching) \in Nat
      BY <1>0 DEF TypeOK
    <3>5. QED
      BY <2>2, <3>1, <3>2, <3>3, <3>4
  <2>4. QED
    BY <2>1, <2>3 DEF TilingInv, Quiet, ExactlyOnceWhenQuiet, Dispatched
<1>3. CASE NextSample
  <2>1. /\ step = "dispatch" /\ step' = step /\ matching' = matching
        /\ UNCHANGED <<total, size, times, appeared, vanished>>
    BY <1>3 DEF NextSample, plan, queued, churn
  <2>2. /\ Reached' <= Reached /\ Reached \in Int /\ Reached' \in Int
        /\ back' = 0 => back = 0 /\ Reached' = Reached
    <3>1. back \in Nat /\ Reached \in Int /\ Reached' \in Int
      BY ReachedNext DEF TypeOK
    <3>2. back' = back + (Reached - Reached') /\ Reached' <= Reached
      BY <1>3, ReachedGoesBack
    <3>3. \A m \in Nat, r, q \in Int : q <= r /\ m + (r - q) = 0 => m = 0 /\ q = r
      OBVIOUS
    <3>4. back' = 0 => back = 0 /\ Reached' = Reached
      BY <3>1, <3>2, <3>3, Zenon
    <3>5. QED
      BY <3>1, <3>2, <3>4
  <2>3. ASSUME Quiet, NEW c \in Ids
        PROVE  /\ c \in matching /\ Rank(c, matching) < Reached' => times[c] >= 1
               /\ c \notin matching => times[c] = 0
               /\ back' = 0 => times[c] = IF c \in matching /\ Rank(c, matching) < Reached'
                                         THEN 1 ELSE 0
    <3>1. /\ c \in matching /\ Rank(c, matching) < Reached => times[c] >= 1
          /\ c \notin matching => times[c] = 0
          /\ back = 0 => times[c] = IF c \in matching /\ Rank(c, matching) < Reached
                                    THEN 1 ELSE 0
      BY <2>1, <2>3 DEF TilingInv
    <3>2. Rank(c, matching) < Reached' => Rank(c, matching) < Reached
      BY <1>0, <2>2
    <3>3. QED
      BY <2>2, <3>1, <3>2
  <2>4. QED
    BY <2>1, <2>3 DEF TilingInv, Quiet, ExactlyOnceWhenQuiet, Dispatched
<1>4. CASE SamplesDone
  <2>1. /\ step = "dispatch" /\ step' = "winner"
        /\ UNCHANGED <<matching, times, back, appeared, vanished>>
        /\ sample = Final /\ sent >= total - start
    BY <1>4 DEF SamplesDone, SampleSize, queued, churn
  <2>2. ASSUME Quiet, NEW c \in Ids
        PROVE  IF c \in matching THEN times[c] >= 1 /\ (back = 0 => times[c] = 1)
                                 ELSE times[c] = 0
    <3>1. /\ total = Cardinality(matching)
          /\ c \in matching /\ Rank(c, matching) < Reached => times[c] >= 1
          /\ c \notin matching => times[c] = 0
          /\ back = 0 => times[c] = IF c \in matching /\ Rank(c, matching) < Reached
                                    THEN 1 ELSE 0
      BY <2>1, <2>2 DEF TilingInv
    <3>2. c \in matching => Rank(c, matching) < Cardinality(matching)
      BY RankBound DEF TypeOK
    <3>3. Reached = start + sent /\ Reached >= total /\ Reached \in Int /\ total \in Nat
      BY <2>1 DEF Reached, TypeOK
    <3>4. c \in matching => Rank(c, matching) < Reached
      BY <1>0, <3>1, <3>2, <3>3
    <3>5. QED
      BY <3>1, <3>4
  <2>3. QED
    BY <2>1, <2>2 DEF TilingInv, Quiet, ExactlyOnceWhenQuiet, Dispatched
<1>5. CASE SchedulePickWinner
  BY <1>5 DEF SchedulePickWinner, TilingInv, Quiet, ExactlyOnceWhenQuiet, Dispatched,
     queued, churn
<1>6. CASE Fail
  BY <1>6 DEF Fail, TilingInv, ExactlyOnceWhenQuiet, Dispatched
<1>7. ASSUME NEW c \in Ids, Appear(c) \/ Vanish(c) PROVE TilingInv'
  <2>1. ~Quiet' /\ step' # "count"
    BY <1>7 DEF Appear, Vanish, Quiet, Running, TypeOK
  <2>2. QED
    BY <2>1 DEF TilingInv, ExactlyOnceWhenQuiet
<1>8. CASE UNCHANGED vars
  BY <1>8 DEF vars, plan, cursor, queued, churn, TilingInv, ExactlyOnceWhenQuiet,
     Dispatched, Quiet, Reached
<1>9. QED
  BY <1>1, <1>2, <1>3, <1>4, <1>5, <1>6, <1>7, <1>8 DEF Next, Handler

\* Whatever the weights, their rounding, the page size and the number of
\* contacts: an execution that no contact disturbs queues each contact that
\* matches, and no other; exactly once, in one sample, unless a negative size
\* moved the offset back.
THEOREM QuietDispatch == Spec => []ExactlyOnceWhenQuiet
<1>1. TilingInv => ExactlyOnceWhenQuiet
  BY DEF TilingInv
<1>2. QED
  BY TypeInit, TypeStep, TilingInit, TilingStep, <1>1, PTL DEF Spec
-----------------------------------------------------------------------------
(***************************************************************************)
(* The sample of each variant holds the window of ranks that its offset    *)
(* and size give it.                                                       *)
(***************************************************************************)
SizeInv ==
    /\ step = "count" => /\ sample = 1 /\ start = 0 /\ sent = 0
                         /\ \A s \in Samples : members[s] = {}
    /\ step = "dispatch" /\ Quiet =>
           /\ total = Cardinality(matching)
           /\ sent > 0 => start >= 0
           /\ start + back <= total =>
                  \A v \in Variants : v < sample =>
                      Cardinality(members[v]) = Positive(size[v])
           /\ members[sample] = {c \in matching : /\ start <= Rank(c, matching)
                                                  /\ Rank(c, matching) < Reached}
           /\ \A s \in Samples : s > sample => members[s] = {}
    /\ SampleSizesWhenQuiet

LEMMA SizeInit == Init => SizeInv
  BY DEF Init, SizeInv, SampleSizesWhenQuiet, Dispatched

LEMMA SizeStep == TypeOK /\ SizeInv /\ [Next]_vars => SizeInv'
<1> SUFFICES ASSUME TypeOK, SizeInv, [Next]_vars PROVE SizeInv'
  OBVIOUS
<1> USE DispatchAssumption
<1>1. \A c \in Ids : Rank(c, matching) \in Nat
  BY RankBound DEF TypeOK
<1>2. CASE CountContacts
  <2>1. /\ step' = "dispatch" /\ UNCHANGED <<matching, members>>
        /\ total' = Cardinality(matching)
        /\ sample' = 1 /\ start' = 0 /\ sent' = 0
        /\ \A s \in Samples : members[s] = {}
    BY <1>2 DEF CountContacts, SizeInv, cursor, queued
  <2>2. 1 \in Samples /\ \A v \in Variants : ~(v < 1)
    BY DEF Samples, Final, Variants
  <2>3. Reached' = 0
    <3>1. size'[1] \in Int
      BY <2>2, TypeStep DEF TypeOK, Variants
    <3>2. QED
      BY <2>1, <3>1 DEF Reached, Positive
  <2>4. {c \in matching : 0 <= Rank(c, matching) /\ Rank(c, matching) < 0} = {}
    BY EmptyWindow DEF TypeOK
  <2>5. QED
    BY <2>1, <2>2, <2>3, <2>4 DEF SizeInv, SampleSizesWhenQuiet, Dispatched
<1>3. CASE QueuePage
  <2>1. /\ step = "dispatch" /\ step' = step /\ matching' = matching
        /\ UNCHANGED <<total, size, sample, start, back, appeared, vanished>>
        /\ members' = [members EXCEPT ![sample] = members[sample] \cup Page]
    BY <1>3 DEF QueuePage, plan, churn
  <2>2. /\ Reached = start + sent
        /\ Reached' = start + sent + PageSize
        /\ Reached \in Nat /\ Reached' \in Nat /\ PageSize \in Nat
        /\ start \in Int /\ sent \in Nat
    BY <1>3, ReachedMoves DEF TypeOK
  <2>3. ASSUME Quiet
        PROVE  members'[sample] = {c \in matching : /\ start <= Rank(c, matching)
                                                    /\ Rank(c, matching) < Reached'}
    <3>1. members[sample] = {c \in matching : /\ start <= Rank(c, matching)
                                              /\ Rank(c, matching) < Reached}
      BY <2>1, <2>3 DEF SizeInv
    <3>2. Page = {c \in matching : /\ Reached <= Rank(c, matching)
                                   /\ Rank(c, matching) < Reached'}
      BY <2>2 DEF Page
    <3>3. members'[sample] = members[sample] \cup Page
      BY <2>1 DEF TypeOK
    <3>4. \A c \in matching : Rank(c, matching) \in Nat
      BY <1>1 DEF TypeOK
    <3>5. QED
      BY <2>2, <3>1, <3>2, <3>3, <3>4
  <2>4. \A s \in Samples : s # sample => members'[s] = members[s]
    BY <2>1 DEF TypeOK
  <2>5. \A v \in Variants : v \in Samples /\ (v < sample => v # sample)
    BY DEF Variants, Samples, Final
  <2>6. \A s \in Samples : s > sample => s # sample
    BY DEF Samples, Final
  <2>7. Quiet => start >= 0
    <3>1. sent = 0 => start >= 0
      BY <2>2
    <3>2. QED
      BY <2>1, <2>2, <3>1 DEF SizeInv
  <2>8. QED
    BY <2>1, <2>3, <2>4, <2>5, <2>6, <2>7
    DEF SizeInv, Quiet, SampleSizesWhenQuiet, Dispatched
<1>4. CASE NextSample
  <2>1. /\ step = "dispatch" /\ step' = step
        /\ UNCHANGED <<matching, total, size, members, appeared, vanished>>
        /\ sample # Final /\ sample' = sample + 1
    BY <1>4 DEF NextSample, plan, queued, churn
  <2>2. /\ start' = start + size[sample] /\ size[sample] \in Int
        /\ Reached = start + Positive(size[sample]) /\ Reached' = start'
        /\ back' = back + Positive(-size[sample]) /\ back \in Nat
        /\ start \in Int /\ start' \in Int /\ total \in Nat
        /\ sent \in Nat /\ sent >= size[sample] /\ sent' = 0
    BY <1>4, <2>1, ReachedGoesBack DEF TypeOK, NextSample, SampleSize
  <2>3. sample \in Variants /\ sample' \in Samples /\ sample \in Int
    BY <2>1 DEF TypeOK, Variants, Samples, Final
  <2>9. /\ start' + back' = start + back + Positive(size[sample])
        /\ Positive(size[sample]) \in Nat /\ Positive(-size[sample]) \in Nat
    BY <2>2 DEF Positive
  <2>4. ASSUME Quiet, start' + back' <= total, NEW v \in Variants, v < sample'
        PROVE  Cardinality(members[v]) = Positive(size[v])
    <3>1. CASE v = sample
      <4> DEFINE end == start + Positive(size[sample])
      <4>1. members[v] = {c \in matching : /\ start <= Rank(c, matching)
                                           /\ Rank(c, matching) < end}
        BY <2>1, <2>2, <2>4, <3>1 DEF SizeInv
      <4>2. /\ start <= end /\ end <= Cardinality(matching) /\ end \in Int
            /\ end - start = Positive(size[sample])
        BY <2>1, <2>2, <2>4, <2>9 DEF SizeInv
      <4> HIDE DEF end
      <4>3. CASE size[sample] > 0
        <5>1. start \in Nat /\ end \in Nat
          BY <2>1, <2>2, <2>4, <4>2, <4>3 DEF SizeInv
        <5>2. \A a, b \in Nat : a <= b /\ b <= Cardinality(matching) =>
                  Cardinality({c \in matching : /\ a <= Rank(c, matching)
                                                /\ Rank(c, matching) < b}) = b - a
          BY WindowSize DEF TypeOK
        <5>3. Cardinality(members[v]) = end - start
          BY <4>1, <4>2, <5>1, <5>2
        <5>4. QED
          BY <3>1, <4>2, <5>3
      <4>4. CASE ~(size[sample] > 0)
        <5>1. Positive(size[sample]) = 0 /\ end = start
          BY <2>2, <4>2, <4>4 DEF Positive
        <5>2. \A a \in Int : {c \in matching : /\ a <= Rank(c, matching)
                                              /\ Rank(c, matching) < a} = {}
          BY EmptyWindow DEF TypeOK
        <5>3. members[v] = {}
          BY <2>2, <4>1, <5>1, <5>2
        <5>4. QED
          BY <3>1, <5>1, <5>3, FS_EmptySet
      <4>5. QED
        BY <4>3, <4>4
    <3>2. CASE v # sample
      <4>1. v < sample
        BY <2>1, <2>3, <2>4, <3>2 DEF Variants
      <4>2. start + back <= total
        BY <2>2, <2>4, <2>9
      <4>3. QED
        BY <2>1, <2>4, <4>1, <4>2 DEF SizeInv
    <3>3. QED
      BY <3>1, <3>2
  <2>5. ASSUME Quiet PROVE members[sample'] = {}
    BY <2>1, <2>3, <2>5 DEF SizeInv
  <2>6. {c \in matching : start' <= Rank(c, matching) /\ Rank(c, matching) < start'} = {}
    <3>1. \A a \in Int : {c \in matching : /\ a <= Rank(c, matching)
                                          /\ Rank(c, matching) < a} = {}
      BY EmptyWindow DEF TypeOK
    <3>2. QED
      BY <2>2, <3>1
  <2>7. \A s \in Samples : s > sample' => s > sample
    BY <2>1, <2>3 DEF Samples, Final
  <2>8. QED
    BY <2>1, <2>2, <2>4, <2>5, <2>6, <2>7
    DEF SizeInv, Quiet, SampleSizesWhenQuiet, Dispatched
<1>5. CASE SamplesDone
  <2>1. /\ step = "dispatch" /\ sample = Final /\ step' = "winner"
        /\ UNCHANGED <<matching, total, size, start, members, back, appeared, vanished>>
    BY <1>5 DEF SamplesDone, plan, cursor, queued, churn
  <2>2. \A v \in Variants : v < Final
    BY DEF Variants, Final
  <2>3. QED
    BY <2>1, <2>2 DEF SizeInv, Quiet, SampleSizesWhenQuiet
<1>6. CASE SchedulePickWinner
  BY <1>6 DEF SchedulePickWinner, SizeInv, SampleSizesWhenQuiet, Dispatched, Quiet,
     plan, cursor, queued, churn
<1>7. CASE Fail
  BY <1>7 DEF Fail, SizeInv, SampleSizesWhenQuiet, Dispatched
<1>8. ASSUME NEW c \in Ids, Appear(c) \/ Vanish(c) PROVE SizeInv'
  <2>1. ~Quiet' /\ step' # "count"
    BY <1>8 DEF Appear, Vanish, Quiet, Running, TypeOK
  <2>2. QED
    BY <2>1 DEF SizeInv, SampleSizesWhenQuiet
<1>9. CASE UNCHANGED vars
  BY <1>9 DEF vars, plan, cursor, queued, churn, SizeInv, SampleSizesWhenQuiet,
     Dispatched, Quiet, Reached
<1>10. QED
  BY <1>2, <1>3, <1>4, <1>5, <1>6, <1>7, <1>8, <1>9 DEF Next, Handler

\* The sample of each variant of an execution that no contact disturbs has the
\* size that its weight gave it, none for a negative one, unless the sizes that
\* are not negative add up to more than all.
THEOREM QuietSizes == Spec => []SampleSizesWhenQuiet
<1>1. SizeInv => SampleSizesWhenQuiet
  BY DEF SizeInv
<1>2. QED
  BY TypeInit, TypeStep, SizeInit, SizeStep, <1>1, PTL DEF Spec
-----------------------------------------------------------------------------
(***************************************************************************)
(* Contacts that are passed over when others come and go.                  *)
(***************************************************************************)
LEMMA UnionBound ==
    ASSUME NEW S, NEW T, IsFiniteSet(S), IsFiniteSet(T)
    PROVE  Cardinality(S \cup T) <= Cardinality(S) + Cardinality(T)
<1>1. /\ Cardinality(S \cup T) = Cardinality(S) + Cardinality(T) - Cardinality(S \cap T)
      /\ IsFiniteSet(S \cap T)
  BY FS_Union, FS_Subset, S \cap T \in SUBSET S
<1>2. /\ Cardinality(S) \in Nat /\ Cardinality(T) \in Nat
      /\ Cardinality(S \cap T) \in Nat
  BY <1>1, FS_CardinalityType
<1>3. QED
  BY <1>1, <1>2

\* A row more lets no rank fall; a row less lets it fall by one at most.
LEMMA RankShifts ==
    ASSUME NEW rows \in SUBSET Ids, NEW x \in Ids, NEW c \in Ids
    PROVE  /\ Rank(c, rows) <= Rank(c, rows \cup {x})
           /\ Rank(c, rows) <= Rank(c, rows \ {x}) + 1
<1> DEFINE Below(r) == {d \in r : d < c}
<1>1. /\ rows \cup {x} \in SUBSET Ids /\ IsFiniteSet(rows \cup {x})
      /\ rows \ {x} \in SUBSET Ids /\ IsFiniteSet(rows \ {x})
  BY FS_Subset, DispatchAssumption
<1>2. IsFiniteSet(Below(rows \cup {x})) /\ IsFiniteSet(Below(rows \ {x}))
  BY <1>1, FS_Subset
<1>3. /\ Below(rows) \subseteq Below(rows \cup {x})
      /\ Below(rows) \subseteq Below(rows \ {x}) \cup {x}
  OBVIOUS
<1> HIDE DEF Below
<1>4. IsFiniteSet(Below(rows)) /\ Cardinality(Below(rows)) <= Cardinality(Below(rows \cup {x}))
  BY <1>2, <1>3, FS_Subset
<1>5. /\ IsFiniteSet(Below(rows \ {x}) \cup {x})
      /\ Cardinality(Below(rows \ {x}) \cup {x}) <= Cardinality(Below(rows \ {x})) + 1
      /\ Cardinality(Below(rows \ {x}) \cup {x}) \in Nat
      /\ Cardinality(Below(rows \ {x})) \in Nat
  <2>1. Cardinality(Below(rows \ {x})) \in Nat
    BY <1>2, FS_CardinalityType
  <2>2. /\ IsFiniteSet(Below(rows \ {x}) \cup {x})
        /\ Cardinality(Below(rows \ {x}) \cup {x}) =
               IF x \in Below(rows \ {x}) THEN Cardinality(Below(rows \ {x}))
                                          ELSE Cardinality(Below(rows \ {x})) + 1
    BY <1>2, FS_AddElement, Zenon
  <2>3. QED
    BY <2>1, <2>2
<1>6. Cardinality(Below(rows)) <= Cardinality(Below(rows \ {x}) \cup {x})
  BY <1>3, <1>5, FS_Subset
<1>7. Cardinality(Below(rows)) \in Nat
  BY <1>4, FS_CardinalityType
<1>8. Cardinality(Below(rows)) <= Cardinality(Below(rows \ {x})) + 1
  BY <1>5, <1>6, <1>7
<1>9. QED
  BY <1>4, <1>8 DEF Rank, Below

\* The rows from a rank on.
LEMMA RowsAbove ==
    ASSUME NEW rows \in SUBSET Ids, NEW a \in Nat
    PROVE  /\ a <= Cardinality(rows) =>
                  Cardinality({c \in rows : a <= Rank(c, rows)}) = Cardinality(rows) - a
           /\ ~(a <= Cardinality(rows)) => {c \in rows : a <= Rank(c, rows)} = {}
<1> DEFINE n == Cardinality(rows)
           above == {c \in rows : a <= Rank(c, rows)}
<1>1. n \in Nat /\ \A c \in rows : Rank(c, rows) \in Nat /\ Rank(c, rows) < n
  BY RankBound, FS_Subset, FS_CardinalityType, DispatchAssumption
<1>2. above = {c \in rows : a <= Rank(c, rows) /\ Rank(c, rows) < n}
  BY <1>1
<1>3. a <= n => Cardinality(above) = n - a
  <2> HIDE DEF above
  <2>1. QED
    BY <1>1, <1>2, WindowSize
<1>4. ~(a <= n) => above = {}
  <2>1. \A c \in rows : a <= Rank(c, rows) => a <= n
    <3> TAKE c \in rows
    <3>1. Rank(c, rows) \in Nat /\ Rank(c, rows) < n
      BY <1>1
    <3> HIDE DEF n
    <3>2. QED
      BY <1>1, <3>1
  <2>2. QED
    BY <2>1
<1>5. QED
  BY <1>3, <1>4

\* One row at most has a given rank.
LEMMA RowsAt ==
    ASSUME NEW rows \in SUBSET Ids, NEW a \in Int
    PROVE  Cardinality({c \in rows : a = Rank(c, rows)}) <= 1
<1> DEFINE at == {c \in rows : a = Rank(c, rows)}
<1>1. Cardinality(rows) \in Nat /\ \A c \in rows : Rank(c, rows) \in Nat
                                                   /\ Rank(c, rows) < Cardinality(rows)
  BY RankBound, FS_Subset, FS_CardinalityType, DispatchAssumption
<1>2. at = {c \in rows : a <= Rank(c, rows) /\ Rank(c, rows) < a + 1}
  BY <1>1
<1>3. Cardinality({c \in rows : a <= Rank(c, rows) /\ Rank(c, rows) < a + 1}) <= (a + 1) - a
  BY WindowBound, a <= a + 1
<1>4. Cardinality(at) <= (a + 1) - a
  <2> HIDE DEF at
  <2>1. QED
    BY <1>2, <1>3
<1>5. QED
  BY <1>4

\* The contacts that stayed and that the pages have passed without a job.
Passed == {c \in stayed : times[c] = 0 /\ Rank(c, matching) < Reached}

Missed == {c \in stayed : times[c] = 0}

\* Only what vanished has moved contacts to ranks that were read already.
PassedInv ==
    /\ step = "count" =>
           /\ start = 0 /\ sent = 0 /\ sample = 1
           /\ appeared = 0 /\ vanished = 0
           /\ \A c \in Ids : times[c] = 0
    /\ step = "dispatch" =>
           /\ stayed \subseteq matching
           /\ Cardinality(matching) = total + appeared - vanished
           /\ Cardinality(Passed) <= vanished
    /\ MissedBounded

LEMMA PassedInit == Init => PassedInv
  BY DEF Init, PassedInv, MissedBounded, Dispatched

\* Sets of contacts are finite, and a smaller one is no larger in number.
LEMMA Contacts ==
    ASSUME NEW S \in SUBSET Ids, NEW T \in SUBSET S
    PROVE  /\ IsFiniteSet(S) /\ Cardinality(S) \in Nat
           /\ Cardinality(T) \in Nat /\ Cardinality(T) <= Cardinality(S)
<1>1. IsFiniteSet(S)
  BY FS_Subset, DispatchAssumption
<1>2. IsFiniteSet(T) /\ Cardinality(T) <= Cardinality(S)
  BY <1>1, FS_Subset
<1>3. QED
  BY <1>1, <1>2, FS_CardinalityType

LEMMA PassedStep == TypeOK /\ PassedInv /\ [Next]_vars => PassedInv'
<1> SUFFICES ASSUME TypeOK, PassedInv, [Next]_vars PROVE PassedInv'
  OBVIOUS
<1> USE DispatchAssumption
<1>1. /\ stayed \in SUBSET Ids /\ matching \in SUBSET Ids /\ Passed \in SUBSET Ids
      /\ Missed \in SUBSET Ids
      /\ appeared \in Nat /\ vanished \in Nat /\ total \in Nat /\ Reached \in Int
      /\ \A c \in Ids : times[c] \in Nat /\ Rank(c, matching) \in Nat
      /\ Dispatched => \/ Cardinality(Missed) <= vanished
                       \/ Cardinality(Missed) <= appeared
  <2>1. /\ stayed \in SUBSET Ids /\ matching \in SUBSET Ids
        /\ appeared \in Nat /\ vanished \in Nat /\ total \in Nat
        /\ \A c \in Ids : times[c] \in Nat
    BY DEF TypeOK
  <2>2. Passed \in SUBSET Ids /\ Missed \in SUBSET Ids
    BY <2>1 DEF Passed, Missed
  <2>3. \A c \in Ids : Rank(c, matching) \in Nat
    BY <2>1, RankBound
  <2>4. Dispatched => \/ Cardinality(Missed) <= vanished
                      \/ Cardinality(Missed) <= appeared
    BY DEF PassedInv, MissedBounded, Missed
  <2>5. QED
    BY <2>1, <2>2, <2>3, <2>4, ReachedType
<1>2. CASE CountContacts
  <2>1. /\ step = "count" /\ step' = "dispatch" /\ stayed' = matching
        /\ total' = Cardinality(matching)
        /\ UNCHANGED <<matching, sample, start, sent, times, appeared, vanished>>
        /\ start = 0 /\ sent = 0 /\ appeared = 0 /\ vanished = 0 /\ sample = 1
    BY <1>2 DEF CountContacts, PassedInv, cursor, queued
  <2>2. Reached' = 0
    <3>1. 1 \in Variants /\ size'[1] \in Int
      BY TypeStep DEF TypeOK, Variants
    <3>2. QED
      BY <2>1, <3>1 DEF Reached, Positive
  <2>3. Passed' = {}
    <3>1. \A c \in matching : ~(Rank(c, matching) < 0)
      <4> TAKE c \in matching
      <4>1. Rank(c, matching) \in Nat
        BY <1>1
      <4>2. QED
        BY <4>1
    <3>2. QED
      BY <2>1, <2>2, <3>1 DEF Passed
  <2>4. Cardinality(Passed') = 0
    BY <2>3, FS_EmptySet
  <2>5. Cardinality(matching) \in Nat
    BY <1>1, Contacts
  <2>6. QED
    BY <2>1, <2>4, <2>5 DEF PassedInv, MissedBounded, Dispatched
<1>3. CASE QueuePage
  <2>1. /\ step = "dispatch" /\ step' = step
        /\ UNCHANGED <<matching, total, stayed, appeared, vanished>>
        /\ \A c \in Ids : times'[c] = IF c \in Page THEN times[c] + 1 ELSE times[c]
    BY <1>3 DEF QueuePage, plan, churn
  <2>2. /\ Reached = start + sent
        /\ Reached' = start + sent + PageSize
        /\ Reached' \in Nat
    BY <1>3, ReachedMoves
  <2>3. Passed' \subseteq Passed
    <3> SUFFICES ASSUME NEW c \in stayed, times'[c] = 0, Rank(c, matching) < Reached'
                 PROVE  times[c] = 0 /\ Rank(c, matching) < Reached
      BY <2>1 DEF Passed
    <3>1. c \in Ids /\ c \in matching /\ times[c] \in Nat /\ Rank(c, matching) \in Nat
      BY <1>1, <2>1 DEF PassedInv
    <3>2. c \notin Page /\ times[c] = 0
      BY <2>1, <3>1
    <3>3. QED
      BY <1>1, <2>2, <3>1, <3>2 DEF Page
  <2>4. Cardinality(Passed') <= vanished
    <3>1. Cardinality(Passed) <= vanished
      BY <2>1 DEF PassedInv
    <3>2. \A T \in SUBSET Passed : /\ Cardinality(T) <= Cardinality(Passed)
                                   /\ Cardinality(T) \in Nat /\ Cardinality(Passed) \in Nat
      BY <1>1, Contacts
    <3>3. QED
      BY <1>1, <2>3, <3>1, <3>2
  <2>5. QED
    BY <2>1, <2>4 DEF PassedInv, MissedBounded, Dispatched
<1>4. CASE NextSample
  <2>1. /\ step = "dispatch" /\ step' = step
        /\ UNCHANGED <<matching, total, times, stayed, appeared, vanished>>
    BY <1>4 DEF NextSample, plan, queued, churn
  <2>2. Reached' <= Reached /\ Reached' \in Int
    BY <1>4, ReachedGoesBack, ReachedNext
  <2>3. Passed' \subseteq Passed
    <3> SUFFICES ASSUME NEW c \in stayed, Rank(c, matching) < Reached'
                 PROVE  Rank(c, matching) < Reached
      BY <2>1 DEF Passed
    <3>1. Rank(c, matching) \in Nat
      BY <1>1
    <3>2. QED
      BY <1>1, <2>2, <3>1
  <2>4. Cardinality(Passed') <= vanished
    <3>1. Cardinality(Passed) <= vanished
      BY <2>1 DEF PassedInv
    <3>2. \A T \in SUBSET Passed : /\ Cardinality(T) <= Cardinality(Passed)
                                   /\ Cardinality(T) \in Nat /\ Cardinality(Passed) \in Nat
      BY <1>1, Contacts
    <3>3. QED
      BY <1>1, <2>3, <3>1, <3>2
  <2>5. QED
    BY <2>1, <2>4 DEF PassedInv, MissedBounded, Dispatched
<1>5. CASE SamplesDone
  <2>1. /\ step = "dispatch" /\ step' = "winner"
        /\ UNCHANGED <<times, stayed, appeared, vanished>>
        /\ sample = Final /\ sent >= total - start
    BY <1>5 DEF SamplesDone, SampleSize, queued, churn
  <2>2. total <= Reached /\ Reached \in Nat
    BY <2>1 DEF Reached, TypeOK
  <2>3. /\ stayed \subseteq matching
        /\ Cardinality(matching) = total + appeared - vanished
        /\ Cardinality(Passed) <= vanished
        /\ Cardinality(Passed) \in Nat /\ IsFiniteSet(Passed)
        /\ Cardinality(matching) \in Nat
    BY <1>1, <2>1, Contacts DEF PassedInv
  <2> DEFINE above == {c \in matching : Reached <= Rank(c, matching)}
  <2>4. Missed \subseteq Passed \cup above
    <3> SUFFICES ASSUME NEW c \in stayed, times[c] = 0, ~(Rank(c, matching) < Reached)
                 PROVE  c \in matching /\ Reached <= Rank(c, matching)
      BY DEF Missed, Passed
    <3>1. c \in matching /\ Rank(c, matching) \in Nat
      BY <1>1, <2>3
    <3>2. QED
      BY <1>1, <3>1
  <2>5. above \in SUBSET Ids
    BY <1>1
  <2>6. /\ Reached <= Cardinality(matching) => Cardinality(above) = Cardinality(matching) - Reached
        /\ ~(Reached <= Cardinality(matching)) => above = {}
    BY <1>1, <2>2, RowsAbove
  <2> HIDE DEF above
  <2>7. IsFiniteSet(above) /\ Passed \cup above \in SUBSET Ids
    BY <1>1, <2>5, Contacts
  <2>8. /\ Cardinality(Missed) <= Cardinality(Passed \cup above)
        /\ Cardinality(Missed) \in Nat /\ Cardinality(Passed \cup above) \in Nat
    BY <2>4, <2>7, Contacts
  <2>9. Cardinality(Missed) <= vanished \/ Cardinality(Missed) <= appeared
    <3>1. CASE Reached <= Cardinality(matching)
      <4>1. Cardinality(Passed \cup above) <= Cardinality(Passed) + Cardinality(above)
        BY <2>3, <2>7, UnionBound
      <4>2. Cardinality(above) = Cardinality(matching) - Reached
        BY <2>6, <3>1
      <4>3. Cardinality(Missed) <= vanished + (Cardinality(matching) - Reached)
        BY <1>1, <2>3, <2>8, <4>1, <4>2
      <4>4. QED
        BY <1>1, <2>2, <2>3, <2>8, <4>3
    <3>2. CASE ~(Reached <= Cardinality(matching))
      <4>1. Passed \cup above = Passed
        BY <2>6, <3>2
      <4>2. QED
        BY <1>1, <2>3, <2>8, <4>1
    <3>3. QED
      BY <3>1, <3>2
  <2>10. QED
    BY <2>1, <2>9 DEF PassedInv, MissedBounded, Missed
<1>6. CASE SchedulePickWinner \/ Fail
  <2>1. /\ step' \in {"done", "failed"} /\ UNCHANGED <<times, stayed, appeared, vanished>>
        /\ step' = "done" => Dispatched
    BY <1>6 DEF SchedulePickWinner, Fail, queued, churn, Dispatched
  <2>2. QED
    BY <2>1 DEF PassedInv, MissedBounded, Dispatched
\* Contacts that come and go before the pages are through, and after.
<1>7. ASSUME NEW x \in Ids, Appear(x) PROVE PassedInv'
  <2>1. /\ step \in {"dispatch", "winner"} /\ x \notin matching
        /\ matching' = matching \cup {x} /\ appeared' = appeared + 1
        /\ UNCHANGED <<step, total, size, sample, start, sent, times, stayed, vanished>>
    BY <1>7 DEF Appear, Running, plan, cursor, queued
  <2>2. CASE step = "winner"
    <3>1. Missed' = Missed
      BY <2>1 DEF Missed
    <3>2. Cardinality(Missed) \in Nat
      BY <1>1, Contacts
    <3>3. Cardinality(Missed) <= vanished \/ Cardinality(Missed) <= appeared
      BY <1>1, <2>2 DEF PassedInv, Dispatched
    <3>4. Cardinality(Missed') <= vanished' \/ Cardinality(Missed') <= appeared'
      BY <1>1, <2>1, <3>1, <3>2, <3>3
    <3>5. QED
      BY <2>1, <2>2, <3>4 DEF PassedInv, MissedBounded, Missed
  <2>3. CASE step = "dispatch"
    <3>1. Reached' = Reached
      BY <2>1 DEF Reached
    <3>2. Passed' \subseteq Passed
      <4> SUFFICES ASSUME NEW c \in stayed, Rank(c, matching') < Reached
                   PROVE  Rank(c, matching) < Reached
        BY <2>1, <3>1 DEF Passed
      <4>1. /\ Rank(c, matching) \in Nat
            /\ Rank(c, matching') \in Nat
        <5>1. c \in Ids /\ matching' \in SUBSET Ids
          BY <1>1, <2>1
        <5>2. QED
          BY <1>1, <5>1, RankBound
      <4>2. Rank(c, matching) <= Rank(c, matching \cup {x})
        BY <1>1, <1>7, RankShifts
      <4>3. QED
        BY <1>1, <2>1, <4>1, <4>2
    <3>3. /\ Cardinality(Passed) <= vanished
          /\ Cardinality(Passed') <= Cardinality(Passed)
          /\ Cardinality(Passed') \in Nat /\ Cardinality(Passed) \in Nat
      <4>1. \A T \in SUBSET Passed : /\ Cardinality(T) <= Cardinality(Passed)
                                     /\ Cardinality(T) \in Nat
                                     /\ Cardinality(Passed) \in Nat
        BY <1>1, Contacts
      <4>2. QED
        BY <2>3, <3>2, <4>1 DEF PassedInv
    <3>4. Cardinality(matching \cup {x}) = Cardinality(matching) + 1
      BY <1>1, <2>1, FS_AddElement, Contacts
    <3>5. QED
      BY <1>1, <2>1, <2>3, <3>3, <3>4 DEF PassedInv, MissedBounded, Dispatched
  <2>4. QED
    BY <2>1, <2>2, <2>3
<1>8. ASSUME NEW x \in Ids, Vanish(x) PROVE PassedInv'
  <2>1. /\ step \in {"dispatch", "winner"} /\ x \in matching
        /\ matching' = matching \ {x} /\ stayed' = stayed \ {x} /\ vanished' = vanished + 1
        /\ UNCHANGED <<step, total, size, sample, start, sent, times, appeared>>
    BY <1>8 DEF Vanish, Running, plan, cursor, queued
  <2>2. CASE step = "winner"
    <3>1. Missed' \subseteq Missed
      BY <2>1 DEF Missed
    <3>2. /\ Cardinality(Missed') <= Cardinality(Missed)
          /\ Cardinality(Missed') \in Nat /\ Cardinality(Missed) \in Nat
      <4>1. \A T \in SUBSET Missed : /\ Cardinality(T) <= Cardinality(Missed)
                                     /\ Cardinality(T) \in Nat
                                     /\ Cardinality(Missed) \in Nat
        BY <1>1, Contacts
      <4>2. QED
        BY <3>1, <4>1
    <3>3. Cardinality(Missed) <= vanished \/ Cardinality(Missed) <= appeared
      BY <1>1, <2>2 DEF PassedInv, Dispatched
    <3>4. Cardinality(Missed') <= vanished' \/ Cardinality(Missed') <= appeared'
      BY <1>1, <2>1, <3>2, <3>3
    <3>5. QED
      BY <2>1, <2>2, <3>4 DEF PassedInv, MissedBounded, Missed
  <2>3. CASE step = "dispatch"
    <3> DEFINE at == {c \in matching : Reached = Rank(c, matching)}
    <3>1. Reached' = Reached
      BY <2>1 DEF Reached
    <3>2. Passed' \subseteq Passed \cup at
      <4> SUFFICES ASSUME NEW c \in stayed, times[c] = 0, Rank(c, matching') < Reached
                   PROVE  c \in matching /\ (\/ Rank(c, matching) < Reached
                                             \/ Reached = Rank(c, matching))
        BY <2>1, <3>1 DEF Passed
      <4>1. /\ Rank(c, matching) \in Nat
            /\ Rank(c, matching') \in Nat
        <5>1. c \in Ids /\ matching' \in SUBSET Ids
          BY <1>1, <2>1
        <5>2. QED
          BY <1>1, <5>1, RankBound
      <4>2. Rank(c, matching) <= Rank(c, matching \ {x}) + 1
        BY <1>1, <1>8, RankShifts
      <4>3. c \in matching
        BY <2>3 DEF PassedInv
      <4>4. QED
        BY <1>1, <2>1, <4>1, <4>2, <4>3
    <3>3. Cardinality(at) <= 1 /\ at \in SUBSET Ids
      BY <1>1, RowsAt
    <3> HIDE DEF at
    <3>4. /\ IsFiniteSet(at) /\ IsFiniteSet(Passed)
          /\ Cardinality(at) \in Nat /\ Cardinality(Passed) \in Nat
      BY <1>1, <3>3, Contacts
    <3>5. Cardinality(Passed \cup at) <= Cardinality(Passed) + Cardinality(at)
      BY <3>4, UnionBound
    <3>6. /\ Cardinality(Passed') <= Cardinality(Passed \cup at)
          /\ Cardinality(Passed') \in Nat /\ Cardinality(Passed \cup at) \in Nat
      <4>1. Passed \cup at \in SUBSET Ids
        BY <1>1, <3>3
      <4>2. \A T \in SUBSET (Passed \cup at) :
                /\ Cardinality(T) <= Cardinality(Passed \cup at)
                /\ Cardinality(T) \in Nat /\ Cardinality(Passed \cup at) \in Nat
        BY <4>1, Contacts
      <4>3. QED
        BY <3>2, <4>2
    <3>7. Cardinality(Passed) <= vanished
      BY <2>3 DEF PassedInv
    <3>8. Cardinality(Passed') <= vanished'
      BY <1>1, <2>1, <3>3, <3>4, <3>5, <3>6, <3>7
    <3>9. Cardinality(matching \ {x}) = Cardinality(matching) - 1
      BY <1>1, <2>1, FS_RemoveElement, Contacts
    <3>10. QED
      BY <1>1, <2>1, <2>3, <3>8, <3>9 DEF PassedInv, MissedBounded, Dispatched
  <2>4. QED
    BY <2>1, <2>2, <2>3
<1>9. CASE UNCHANGED vars
  BY <1>9 DEF vars, plan, cursor, queued, churn, PassedInv, MissedBounded,
     Dispatched, Passed, Reached
<1>10. QED
  BY <1>2, <1>3, <1>4, <1>5, <1>6, <1>7, <1>8, <1>9 DEF Next, Handler

\* However many contacts come and go: of those that matched all along, no more
\* are passed over than others vanished, or than others appeared.
THEOREM FewMissed == Spec => []MissedBounded
<1>1. PassedInv => MissedBounded
  BY DEF PassedInv
<1>2. QED
  BY TypeInit, TypeStep, PassedInit, PassedStep, <1>1, PTL DEF Spec
-----------------------------------------------------------------------------
(***************************************************************************)
(* Contacts that are queued again when others appear.                      *)
(***************************************************************************)
\* The contacts that were queued and that a page is still to come to.
Ahead == {c \in matching : times[c] > 0 /\ Reached <= Rank(c, matching)}

\* Only what appeared has moved queued contacts to ranks that are still to be
\* read, and a negative size the ranks that are still to be read to queued contacts.
RepeatInv ==
    /\ IsFiniteSet(Repeats)
    /\ RepeatsBounded
    /\ step = "dispatch" => Cardinality(Repeats) + Cardinality(Ahead) <= appeared + back

LEMMA RepeatElements ==
    ASSUME NEW c, NEW k
    PROVE  <<c, k>> \in Repeats <=> c \in Ids /\ k \in 2 .. times[c]
  BY DEF Repeats

LEMMA NoRepeats == (\A c \in Ids : times[c] = 0) => Repeats = {}
<1> SUFFICES ASSUME \A c \in Ids : times[c] = 0 PROVE Repeats = {}
  OBVIOUS
<1>1. \A c \in Ids : 2 .. times[c] = {}
  BY SMT
<1>2. QED
  BY <1>1 DEF Repeats

LEMMA RepeatInit == Init => RepeatInv
<1> SUFFICES ASSUME Init PROVE RepeatInv
  OBVIOUS
<1>1. Repeats = {} /\ step = "count" /\ appeared = 0 /\ back = 0
  BY NoRepeats DEF Init
<1>2. QED
  BY <1>1, FS_EmptySet DEF RepeatInv, RepeatsBounded

\* A row more moves at most one row from below a rank to that rank or above, the
\* row itself counted.
LEMMA RowAppears ==
    ASSUME NEW rows \in SUBSET Ids, NEW x \in Ids, NEW a \in Int
    PROVE  Cardinality({c \in rows \cup {x} : /\ a <= Rank(c, rows \cup {x})
                                              /\ c \in rows => Rank(c, rows) < a}) <= 1
<1> DEFINE new == rows \cup {x}
           moved == {c \in new : a <= Rank(c, new) /\ (c \in rows => Rank(c, rows) < a)}
           at == {c \in new : a = Rank(c, new)}
<1>1. new \in SUBSET Ids /\ rows \subseteq Nat /\ x \in Nat
  BY DispatchAssumption
<1>2. \A c \in Ids : Rank(c, rows) \in Nat /\ Rank(c, new) \in Nat
  BY <1>1, RankBound
<1>3. \A c \in Ids : Rank(c, new) <= Rank(c, rows) + 1
  <2> TAKE c \in Ids
  <2> DEFINE Below(r) == {d \in r : d < c}
  <2>1. IsFiniteSet(Below(rows)) /\ Below(new) \subseteq Below(rows) \cup {x}
    <3>1. IsFiniteSet(rows)
      BY Contacts
    <3>2. QED
      BY <3>1, FS_Subset
  <2> HIDE DEF Below
  <2>2. /\ IsFiniteSet(Below(rows) \cup {x})
        /\ Cardinality(Below(rows) \cup {x}) <= Cardinality(Below(rows)) + 1
        /\ Cardinality(Below(rows) \cup {x}) \in Nat
        /\ Cardinality(Below(rows)) \in Nat
    <3>1. Cardinality(Below(rows)) \in Nat
      BY <2>1, FS_CardinalityType
    <3>2. /\ IsFiniteSet(Below(rows) \cup {x})
          /\ Cardinality(Below(rows) \cup {x}) =
                 IF x \in Below(rows) THEN Cardinality(Below(rows)) ELSE Cardinality(Below(rows)) + 1
      BY <2>1, FS_AddElement, Zenon
    <3>3. QED
      BY <3>1, <3>2
  <2>3. Cardinality(Below(new)) <= Cardinality(Below(rows) \cup {x}) /\ Cardinality(Below(new)) \in Nat
    <3>1. IsFiniteSet(Below(new)) /\ Cardinality(Below(new)) <= Cardinality(Below(rows) \cup {x})
      BY <2>1, <2>2, FS_Subset
    <3>2. QED
      BY <3>1, FS_CardinalityType
  <2>4. Cardinality(Below(new)) <= Cardinality(Below(rows)) + 1
    BY <2>2, <2>3
  <2>5. QED
    BY <2>4 DEF Rank, Below
<1>4. \A c \in moved : c # x => a = Rank(c, new)
  BY <1>1, <1>2, <1>3
<1>5. CASE x \in moved
  <2>1. \A c \in moved : c = x
    <3> SUFFICES ASSUME NEW c \in moved, c # x PROVE FALSE
      OBVIOUS
    <3>1. c \in rows /\ c \in Nat /\ Rank(c, new) = a /\ Rank(c, rows) < a /\ a <= Rank(x, new)
      BY <1>1, <1>4, <1>5
    <3>2. CASE x < c
      <4>1. Rank(x, new) < Rank(c, new)
        BY <1>1, <3>2, RankOrder
      <4>2. QED
        BY <1>1, <1>2, <3>1, <4>1
    <3>3. CASE ~(x < c)
      <4>1. {d \in new : d < c} = {d \in rows : d < c}
        BY <3>3
      <4>2. Rank(c, new) = Rank(c, rows)
        BY <4>1 DEF Rank
      <4>3. QED
        BY <1>1, <1>2, <3>1, <4>2
    <3>4. QED
      BY <3>2, <3>3
  <2>2. moved = {x}
    BY <1>5, <2>1
  <2> HIDE DEF moved
  <2>3. Cardinality(moved) = 1
    BY <2>2, FS_Singleton
  <2>4. QED
    BY <2>3 DEF moved
<1>6. CASE x \notin moved
  <2>1. moved \subseteq at
    BY <1>4, <1>6
  <2>2. Cardinality(at) <= 1 /\ at \in SUBSET Ids
    BY <1>1, RowsAt
  <2> HIDE DEF moved, at
  <2>3. Cardinality(moved) <= Cardinality(at) /\ Cardinality(moved) \in Nat /\ Cardinality(at) \in Nat
    BY <2>1, <2>2, Contacts
  <2>4. Cardinality(moved) <= 1
    BY <2>2, <2>3
  <2>5. QED
    BY <2>4 DEF moved
<1>7. QED
  BY <1>5, <1>6

LEMMA RepeatStep == TypeOK /\ PassedInv /\ RepeatInv /\ [Next]_vars => RepeatInv'
<1> SUFFICES ASSUME TypeOK, PassedInv, RepeatInv, [Next]_vars PROVE RepeatInv'
  OBVIOUS
<1>1. /\ matching \in SUBSET Ids /\ Ahead \in SUBSET Ids /\ Ids \subseteq Nat
      /\ appeared \in Nat /\ back \in Nat /\ Reached \in Int
      /\ \A c \in Ids : times[c] \in Nat /\ Rank(c, matching) \in Nat
      /\ IsFiniteSet(Repeats) /\ Cardinality(Repeats) \in Nat
      /\ Cardinality(Repeats) <= appeared + back
  <2>1. matching \in SUBSET Ids /\ appeared \in Nat /\ back \in Nat /\ \A c \in Ids : times[c] \in Nat
    BY DispatchAssumption DEF TypeOK
  <2>2. \A c \in Ids : Rank(c, matching) \in Nat
    BY <2>1, RankBound
  <2>3. IsFiniteSet(Repeats) /\ Cardinality(Repeats) <= appeared + back
    BY DEF RepeatInv, RepeatsBounded
  <2>4. QED
    BY <2>1, <2>2, <2>3, FS_CardinalityType, ReachedType, DispatchAssumption DEF Ahead
<1>2. CASE CountContacts
  <2>1. /\ step = "count" /\ step' = "dispatch" /\ matching' = matching
        /\ UNCHANGED <<times, back, appeared>> /\ \A c \in Ids : times[c] = 0
    BY <1>2 DEF CountContacts, PassedInv, queued
  <2>2. Repeats' = {} /\ Ahead' = {}
    <3>1. \A c \in Ids : ~(times[c] > 0)
      BY <2>1
    <3>2. Repeats' = Repeats
      BY <2>1 DEF Repeats
    <3>3. QED
      BY <1>1, <2>1, <3>1, <3>2, NoRepeats DEF Ahead
  <2>3. QED
    BY <1>1, <2>1, <2>2, FS_EmptySet DEF RepeatInv, RepeatsBounded
<1>3. CASE QueuePage
  <2>1. /\ step = "dispatch" /\ step' = step /\ UNCHANGED <<matching, back, appeared>>
        /\ times' = [c \in Ids |-> IF c \in Page THEN times[c] + 1 ELSE times[c]]
    BY <1>3 DEF QueuePage, plan, churn
  <2>2. /\ Reached = start + sent /\ Reached' = start + sent + PageSize
        /\ Reached' \in Nat /\ PageSize \in Nat
    BY <1>3, ReachedMoves
  <2>3. Page = {c \in matching : Reached <= Rank(c, matching) /\ Rank(c, matching) < Reached'}
    BY <2>2 DEF Page
  <2> DEFINE again == Ahead \cap Page
             f == [c \in again |-> <<c, times[c] + 1>>]
             new == {f[c] : c \in again}
  <2>4. Ahead' = Ahead \ again
    <3> SUFFICES ASSUME NEW c \in matching
                 PROVE  (times'[c] > 0 /\ Reached' <= Rank(c, matching)) <=>
                        (times[c] > 0 /\ Reached <= Rank(c, matching) /\ c \notin Page)
      BY <2>1 DEF Ahead
    <3>1. c \in Ids /\ times[c] \in Nat /\ Rank(c, matching) \in Nat
      BY <1>1
    <3>2. c \notin Page => times'[c] = times[c]
      BY <2>1, <3>1
    <3>3. c \in Page <=> Reached <= Rank(c, matching) /\ Rank(c, matching) < Reached'
      BY <2>3
    <3>4. Reached <= Reached'
      BY <1>1, <1>3, <2>2, ReachedMoves
    <3>5. QED
      BY <1>1, <2>2, <3>1, <3>2, <3>3, <3>4
  <2>5. Repeats' \subseteq Repeats \cup new
    <3> SUFFICES ASSUME NEW c \in Ids, NEW k \in 2 .. times'[c] PROVE <<c, k>> \in Repeats \cup new
      BY DEF Repeats
    <3>1. times[c] \in Nat /\ Rank(c, matching) \in Nat
      BY <1>1
    <3>2. CASE k \in 2 .. times[c]
      BY <3>2, RepeatElements
    <3>3. CASE k \notin 2 .. times[c]
      <4>1. c \in Page /\ k = times[c] + 1 /\ times[c] > 0
        BY <2>1, <3>1, <3>3
      <4>2. c \in again
        BY <2>3, <4>1 DEF Ahead
      <4>3. QED
        BY <4>1, <4>2
    <3>4. QED
      BY <3>2, <3>3
  <2>6. f \in Surjection(again, new)
    BY DEF Surjection
  <2>7. again \in SUBSET Ids /\ again \in SUBSET Ahead
    BY <1>1
  <2> HIDE DEF again, f, new
  <2>8. /\ IsFiniteSet(again) /\ Cardinality(again) \in Nat
        /\ IsFiniteSet(Ahead) /\ Cardinality(Ahead) \in Nat
    BY <1>1, <2>7, Contacts
  <2>9. IsFiniteSet(new) /\ Cardinality(new) <= Cardinality(again) /\ Cardinality(new) \in Nat
    BY <2>6, <2>8, FS_Surjection, FS_CardinalityType
  <2>10. Cardinality(Ahead') = Cardinality(Ahead) - Cardinality(again)
    <3>1. Ahead \cap again = again
      BY <2>7
    <3>2. QED
      BY <2>4, <2>8, <3>1, FS_Difference
  <2>11. /\ IsFiniteSet(Repeats') /\ Cardinality(Repeats') \in Nat
         /\ Cardinality(Repeats') <= Cardinality(Repeats) + Cardinality(again)
    <3>1. /\ IsFiniteSet(Repeats \cup new)
          /\ Cardinality(Repeats \cup new) <= Cardinality(Repeats) + Cardinality(new)
      BY <1>1, <2>9, UnionBound, FS_Union
    <3>2. IsFiniteSet(Repeats') /\ Cardinality(Repeats') <= Cardinality(Repeats \cup new)
      BY <2>5, <3>1, FS_Subset
    <3>3. Cardinality(Repeats') \in Nat /\ Cardinality(Repeats \cup new) \in Nat
      BY <3>1, <3>2, FS_CardinalityType
    <3>4. QED
      BY <1>1, <2>8, <2>9, <3>1, <3>2, <3>3
  <2>12. Cardinality(again) <= Cardinality(Ahead)
    BY <1>1, <2>7, Contacts
  <2>13. Cardinality(Repeats) + Cardinality(Ahead) <= appeared + back
    BY <2>1 DEF RepeatInv
  <2>14. QED
    BY <1>1, <2>1, <2>8, <2>10, <2>11, <2>12, <2>13 DEF RepeatInv, RepeatsBounded
<1>4. CASE NextSample
  <2>1. /\ step = "dispatch" /\ step' = step /\ UNCHANGED <<matching, times, appeared>>
    BY <1>4 DEF NextSample, queued, churn
  <2>2. /\ back' = back + (Reached - Reached') /\ Reached' <= Reached /\ Reached' \in Int
    BY <1>4, ReachedGoesBack, ReachedNext
  <2> DEFINE again == {c \in matching : /\ Reached' <= Rank(c, matching)
                                        /\ Rank(c, matching) < Reached}
  <2>3. Repeats' = Repeats /\ Ahead' \subseteq Ahead \cup again
    <3>1. Repeats' = Repeats
      BY <2>1 DEF Repeats
    <3>2. ASSUME NEW c \in matching, times[c] > 0, Reached' <= Rank(c, matching),
                 ~(Rank(c, matching) < Reached)
          PROVE  Reached <= Rank(c, matching)
      <4>1. Rank(c, matching) \in Nat
        BY <1>1
      <4>2. QED
        BY <1>1, <3>2, <4>1
    <3>3. QED
      BY <2>1, <3>1, <3>2 DEF Ahead
  <2>4. Cardinality(again) <= Reached - Reached' /\ again \in SUBSET Ids
    <3>1. \A a, b \in Int : a <= b =>
              Cardinality({c \in matching : /\ a <= Rank(c, matching)
                                            /\ Rank(c, matching) < b}) <= b - a
      BY <1>1, WindowBound
    <3>2. QED
      BY <1>1, <2>2, <3>1
  <2> HIDE DEF again
  <2>5. /\ IsFiniteSet(Ahead) /\ Cardinality(Ahead) \in Nat
        /\ IsFiniteSet(again) /\ Cardinality(again) \in Nat
        /\ Ahead \cup again \in SUBSET Ids
    BY <1>1, <2>4, Contacts
  <2>6. Cardinality(Ahead \cup again) <= Cardinality(Ahead) + Cardinality(again)
    BY <2>5, UnionBound
  <2>7. /\ Cardinality(Ahead') <= Cardinality(Ahead \cup again)
        /\ Cardinality(Ahead') \in Nat /\ Cardinality(Ahead \cup again) \in Nat
    <3>1. \A T \in SUBSET (Ahead \cup again) :
              /\ Cardinality(T) <= Cardinality(Ahead \cup again)
              /\ Cardinality(T) \in Nat /\ Cardinality(Ahead \cup again) \in Nat
      BY <2>5, Contacts
    <3>2. QED
      BY <2>3, <3>1
  <2>8. Cardinality(Repeats) + Cardinality(Ahead) <= appeared + back
    BY <2>1 DEF RepeatInv
  <2>9. Cardinality(Repeats) + Cardinality(Ahead') <= appeared + back'
    BY <1>1, <2>2, <2>4, <2>5, <2>6, <2>7, <2>8
  <2>10. Cardinality(Repeats) <= appeared + back'
    BY <1>1, <2>2
  <2>11. QED
    BY <1>1, <2>1, <2>3, <2>9, <2>10 DEF RepeatInv, RepeatsBounded
<1>5. CASE SamplesDone \/ SchedulePickWinner \/ Fail
  <2>1. step' \in {"winner", "done", "failed"} /\ UNCHANGED <<times, back, appeared>>
    BY <1>5 DEF SamplesDone, SchedulePickWinner, Fail, queued, churn
  <2>2. Repeats' = Repeats
    BY <2>1 DEF Repeats
  <2>3. QED
    BY <2>1, <2>2 DEF RepeatInv, RepeatsBounded
<1>6. ASSUME NEW x \in Ids, Appear(x) PROVE RepeatInv'
  <2>1. /\ matching' = matching \cup {x} /\ appeared' = appeared + 1
        /\ UNCHANGED <<step, times, size, sample, start, sent, back>>
    BY <1>6 DEF Appear, plan, cursor, queued
  <2>2. Reached' = Reached /\ Repeats' = Repeats
    BY <2>1 DEF Reached, Repeats
  <2> DEFINE moved == {c \in matching \cup {x} :
                           /\ Reached <= Rank(c, matching \cup {x})
                           /\ c \in matching => Rank(c, matching) < Reached}
  <2>3. Ahead' \subseteq Ahead \cup moved
    <3> SUFFICES ASSUME NEW c \in matching \cup {x}, times[c] > 0,
                        Reached <= Rank(c, matching \cup {x}), c \in matching,
                        ~(Rank(c, matching) < Reached)
                 PROVE  Reached <= Rank(c, matching)
      BY <2>1, <2>2 DEF Ahead
    <3>1. Rank(c, matching) \in Nat
      BY <1>1
    <3>2. QED
      BY <1>1, <3>1
  <2>4. Cardinality(moved) <= 1 /\ moved \in SUBSET Ids
    <3>1. moved \in SUBSET Ids
      BY <1>1
    <3>2. \A a \in Int : Cardinality({c \in matching \cup {x} :
                                         /\ a <= Rank(c, matching \cup {x})
                                         /\ c \in matching => Rank(c, matching) < a}) <= 1
      BY <1>1, RowAppears
    <3>3. QED
      BY <1>1, <3>1, <3>2
  <2> HIDE DEF moved
  <2>5. /\ IsFiniteSet(Ahead) /\ Cardinality(Ahead) \in Nat
        /\ IsFiniteSet(moved) /\ Cardinality(moved) \in Nat
        /\ Ahead \cup moved \in SUBSET Ids
    BY <1>1, <2>4, Contacts
  <2>6. Cardinality(Ahead \cup moved) <= Cardinality(Ahead) + Cardinality(moved)
    BY <2>5, UnionBound
  <2>7. /\ Cardinality(Ahead') <= Cardinality(Ahead \cup moved)
        /\ Cardinality(Ahead') \in Nat /\ Cardinality(Ahead \cup moved) \in Nat
    <3>1. \A T \in SUBSET (Ahead \cup moved) :
              /\ Cardinality(T) <= Cardinality(Ahead \cup moved)
              /\ Cardinality(T) \in Nat /\ Cardinality(Ahead \cup moved) \in Nat
      BY <2>5, Contacts
    <3>2. QED
      BY <2>3, <3>1
  <2>8. Cardinality(Ahead') <= Cardinality(Ahead) + 1
    BY <2>4, <2>5, <2>6, <2>7
  <2>9. QED
    BY <1>1, <2>1, <2>2, <2>5, <2>7, <2>8 DEF RepeatInv, RepeatsBounded
<1>7. ASSUME NEW x \in Ids, Vanish(x) PROVE RepeatInv'
  <2>1. /\ matching' = matching \ {x}
        /\ UNCHANGED <<step, times, size, sample, start, sent, back, appeared>>
    BY <1>7 DEF Vanish, plan, cursor, queued
  <2>2. Reached' = Reached /\ Repeats' = Repeats
    BY <2>1 DEF Reached, Repeats
  <2>3. Ahead' \subseteq Ahead
    <3> SUFFICES ASSUME NEW c \in matching \ {x}, Reached <= Rank(c, matching \ {x})
                 PROVE  Reached <= Rank(c, matching)
      BY <2>1, <2>2 DEF Ahead
    <3>1. Rank(c, matching) \in Nat /\ Rank(c, matching \ {x}) \in Nat
      BY <1>1, RankBound
    <3>2. Rank(c, matching \ {x}) <= Rank(c, (matching \ {x}) \cup {x})
      BY <1>1, <1>7, RankShifts
    <3>3. (matching \ {x}) \cup {x} = matching
      BY <1>7 DEF Vanish
    <3>4. QED
      BY <1>1, <3>1, <3>2, <3>3
  <2>4. Cardinality(Ahead') <= Cardinality(Ahead) /\ Cardinality(Ahead') \in Nat
        /\ Cardinality(Ahead) \in Nat
    <3>1. \A T \in SUBSET Ahead : /\ Cardinality(T) <= Cardinality(Ahead)
                                  /\ Cardinality(T) \in Nat /\ Cardinality(Ahead) \in Nat
      BY <1>1, Contacts
    <3>2. QED
      BY <2>3, <3>1
  <2>5. QED
    BY <1>1, <2>1, <2>2, <2>4 DEF RepeatInv, RepeatsBounded
<1>8. CASE UNCHANGED vars
  <2>1. UNCHANGED <<matching, step, size, sample, start, sent, times, back, appeared>>
    BY <1>8 DEF vars, plan, cursor, queued, churn
  <2>2. Ahead' = Ahead /\ Repeats' = Repeats
    BY <2>1 DEF Ahead, Repeats, Reached
  <2>3. QED
    BY <2>1, <2>2 DEF RepeatInv, RepeatsBounded
<1>9. QED
  BY <1>2, <1>3, <1>4, <1>5, <1>6, <1>7, <1>8 DEF Next, Handler

\* For AbTestDispatch!RepeatsBounded (SendAbTestBroadcastJob.handle): contacts are
\* queued again only because others appeared since the count, one for each, or
\* because a negative size moved the offset back, one for each row of it.
THEOREM RepeatsAppeared == Spec => []RepeatsBounded
<1>1. RepeatInv => RepeatsBounded
  BY DEF RepeatInv
<1>2. QED
  BY TypeInit, TypeStep, PassedInit, PassedStep, RepeatInit, RepeatStep, <1>1, PTL DEF Spec
=============================================================================
