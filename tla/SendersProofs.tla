---------------------------- MODULE SendersProofs ----------------------------
(***************************************************************************)
(* What holds of API keys and sending domains for any keys, domains, names *)
(* and workers.                                                            *)
(***************************************************************************)
EXTENDS Senders, TLAPS

KeyStep(k) == \/ InsertKey(k) \/ CacheKey(k) \/ CommitKey(k)
              \/ AnswerKey(k) \/ LoseKey(k)

DomainStep(d) == \/ CheckName(d) \/ InsertDomain(d) \/ SaveDkim(d) \/ CommitDomain(d)
                 \/ QueueFirstCheck(d) \/ FailDomain(d) \/ LoseDomain(d)

CheckStep(w) == \/ \E d \in Domains : TakeCheck(w, d)
                \/ Handles(w) \/ FailCheck(w) \/ StallCheck(w)

\* A step is one of a key, of a domain or of a check.
LEMMA NextSplit ==
    ASSUME Next
    PROVE  \/ \E k \in Keys : KeyStep(k)
           \/ \E d \in Domains : DomainStep(d)
           \/ \E w \in Workers : CheckStep(w)
  BY DEF Next, Api, KeyStep, DomainStep, CheckStep
-----------------------------------------------------------------------------
(***************************************************************************)
(* Types.                                                                  *)
(***************************************************************************)

\* Every variable keeps its type.
THEOREM TypeCorrect == Spec => []TypeOK
<1> USE SendersAssumption
<1>1. Init => TypeOK
  BY DEF Init, TypeOK, Idle, Records
<1>2. TypeOK /\ [Next]_vars => TypeOK'
  <2> SUFFICES ASSUME TypeOK, [Next]_vars PROVE TypeOK'
    OBVIOUS
  <2>1. ASSUME NEW k \in Keys, KeyStep(k) PROVE TypeOK'
    BY <2>1 DEF TypeOK, KeyStep, InsertKey, CacheKey, CommitKey, AnswerKey, LoseKey,
                domainVars, checkVars
  <2>2. ASSUME NEW d \in Domains, DomainStep(d) PROVE TypeOK'
    <3>1. CASE CheckName(d) \/ InsertDomain(d) \/ FailDomain(d)
      BY <3>1 DEF TypeOK, CheckName, InsertDomain, FailDomain, keyVars, checkVars
    <3>2. CASE SaveDkim(d)
      BY <3>2 DEF TypeOK, SaveDkim, keyVars, checkVars
    <3>3. CASE CommitDomain(d)
      BY <3>3 DEF TypeOK, CommitDomain, keyVars, checkVars
    <3>4. CASE QueueFirstCheck(d) \/ LoseDomain(d)
      BY <3>4 DEF TypeOK, QueueFirstCheck, LoseDomain, keyVars
    <3> QED BY <2>2, <3>1, <3>2, <3>3, <3>4 DEF DomainStep
  <2>3. ASSUME NEW w \in Workers, CheckStep(w) PROVE TypeOK'
    <3>1. CASE \E d \in Domains : TakeCheck(w, d)
      BY <3>1 DEF TypeOK, TakeCheck, Checks, CheckSteps, keyVars, domainVars
    <3>2. CASE Handles(w)
      <4>1. worker[w] \in Checks
        BY <3>2 DEF TypeOK, Handles, FindDomain, Resolve, MarkVerified, Requeue,
                    FinishCheck, Step, Idle
      <4>2. CASE FindDomain(w) \/ Resolve(w) \/ FinishCheck(w)
        BY <4>1, <4>2 DEF TypeOK, FindDomain, Resolve, FinishCheck, Step, Checks,
                          CheckSteps, Idle, keyVars, domainVars
      <4>3. CASE MarkVerified(w)
        BY <4>1, <4>3 DEF TypeOK, MarkVerified, Step, Checks, CheckSteps, keyVars, domainVars
      <4>4. CASE Requeue(w)
        BY <4>1, <4>4 DEF TypeOK, Requeue, Step, Checks, CheckSteps, keyVars, domainVars
      <4> QED BY <3>2, <4>2, <4>3, <4>4 DEF Handles
    <3>3. CASE FailCheck(w) \/ StallCheck(w)
      <4>1. worker[w].domain \in Domains
        BY <3>3 DEF TypeOK, FailCheck, StallCheck, Checks
      <4> QED BY <3>3, <4>1 DEF TypeOK, FailCheck, StallCheck, keyVars, domainVars
    <3> QED BY <2>3, <3>1, <3>2, <3>3 DEF CheckStep
  <2>4. CASE UNCHANGED vars
    BY <2>4 DEF TypeOK, vars, keyVars, domainVars, checkVars
  <2> QED BY <2>1, <2>2, <2>3, <2>4, NextSplit
<1> QED BY <1>1, <1>2, PTL DEF Spec
-----------------------------------------------------------------------------
(***************************************************************************)
(* The two stores of an API key.                                           *)
(***************************************************************************)

\* Where a key is, at each state of its request.
KeyInv ==
    \A k \in Keys :
        /\ keyRequest[k] \in {"idle", "inserted"} => k \notin keyRows /\ k \notin redisKeys
        /\ keyRequest[k] = "cached" => k \notin keyRows /\ k \in redisKeys
        /\ keyRequest[k] \in {"committed", "answered"} => k \in keyRows
        /\ k \in keyRows => k \in redisKeys

\* A key that the caller got is in both stores, and one in Redis alone is on its
\* way or was lost.
THEOREM KeysInBothStores == Spec => []KeysAgree
<1>1. Init => KeyInv
  BY DEF Init, KeyInv
<1>2. TypeOK /\ KeyInv /\ [Next]_vars => KeyInv'
  <2> SUFFICES ASSUME TypeOK, KeyInv, [Next]_vars PROVE KeyInv'
    OBVIOUS
  <2>1. ASSUME NEW k \in Keys, KeyStep(k) PROVE KeyInv'
    BY <2>1 DEF TypeOK, KeyInv, KeyStep, InsertKey, CacheKey, CommitKey, AnswerKey, LoseKey
  <2>2. ASSUME UNCHANGED keyVars PROVE KeyInv'
    BY <2>2 DEF KeyInv, keyVars
  <2>3. ASSUME NEW d \in Domains, DomainStep(d) PROVE UNCHANGED keyVars
    BY <2>3 DEF DomainStep, CheckName, InsertDomain, SaveDkim, CommitDomain,
                QueueFirstCheck, FailDomain, LoseDomain
  <2>4. ASSUME NEW w \in Workers, CheckStep(w) PROVE UNCHANGED keyVars
    BY <2>4 DEF CheckStep, TakeCheck, Handles, FindDomain, Resolve, MarkVerified,
                Requeue, FinishCheck, FailCheck, StallCheck
  <2> QED BY <2>1, <2>2, <2>3, <2>4, NextSplit DEF vars
<1>3. TypeOK /\ KeyInv => KeysAgree
  BY DEF TypeOK, KeyInv, KeysAgree, InjectorAccepts
<1> QED BY <1>1, <1>2, <1>3, TypeCorrect, PTL DEF Spec
-----------------------------------------------------------------------------
(***************************************************************************)
(* The two stores of a domain.                                             *)
(***************************************************************************)

\* A request that failed and has nothing more to write.
Over(d) == request[d] = "failed" /\ "redis" \in wrote[d]

\* Rows are those of requests that were committed, after both writes.
RowInv ==
    \A d \in Domains :
        /\ d \in rows <=> request[d] \in {"committed", "answered", "lost"}
        /\ d \in rows => "redis" \in wrote[d]
        /\ "redis" \in wrote[d] => request[d] # "idle"
        /\ request[d] = "idle" => met[d] = {}

\* Of two requests for a name that did not overlap, one was over before the other
\* began.
PairInv ==
    \A d, e \in Domains :
        SameName(d, e) /\ request[d] # "idle" /\ request[e] # "idle" /\ ~Overlapped(d, e)
            => Over(d) \/ Over(e)

\* The key in Redis is that of any request that wrote it and did not fail.
SignInv ==
    \A d \in Domains :
        "redis" \in wrote[d] /\ request[d] # "failed"
            => SigningKey(NameOf[d]) = d \/ \E e \in Domains : SameName(d, e) /\ Overlapped(d, e)

StoreInv == RowInv /\ PairInv /\ SignInv

\* The mail server signs with the key of the row, unless requests overlapped.
THEOREM RowSigns == Spec => []SignsWithRow
<1> USE SendersAssumption
<1>1. Init => StoreInv
  BY DEF Init, StoreInv, RowInv, PairInv, SignInv
<1>2. TypeOK /\ StoreInv /\ [Next]_vars => StoreInv'
  <2> SUFFICES ASSUME TypeOK, StoreInv, [Next]_vars PROVE StoreInv'
    OBVIOUS
  <2>0. ASSUME UNCHANGED domainVars PROVE StoreInv'
    BY <2>0 DEF StoreInv, RowInv, PairInv, SignInv, domainVars, Over, Overlapped,
                SigningKey
  <2>1. ASSUME NEW d \in Domains, DomainStep(d) PROVE StoreInv'
    <3>1. CASE CheckName(d)
      <4>1. RowInv'
        BY <3>1 DEF TypeOK, StoreInv, RowInv, CheckName
      <4>2. PairInv'
        <5> SUFFICES ASSUME NEW a \in Domains, NEW b \in Domains, SameName(a, b),
                            request'[a] # "idle", request'[b] # "idle", ~Overlapped(a, b)'
                     PROVE  Over(a)' \/ Over(b)'
          BY DEF PairInv, SameName
        <5>1. CASE a # d /\ b # d
          BY <3>1, <5>1 DEF TypeOK, StoreInv, PairInv, CheckName, Over, Overlapped
        <5>2. CASE a = d \/ b = d
          <6> DEFINE other == IF a = d THEN b ELSE a
          <6>1. other \in Domains /\ other # d /\ SameName(d, other) /\ request[other] # "idle"
            BY <3>1, <5>2 DEF SameName, CheckName, TypeOK
          <6>2. other \notin rows
            BY <3>1, <6>1 DEF CheckName, SameName
          <6>3. ~UnderWay(other)
            BY <3>1, <5>2, <6>1 DEF CheckName, Overlapped, TypeOK
          <6>4. Over(other)
            BY <6>1, <6>2, <6>3 DEF StoreInv, RowInv, TypeOK, UnderWay, Over
          <6>5. Over(other)'
            BY <3>1, <6>1, <6>4 DEF Over, CheckName, TypeOK
          <6> QED BY <5>2, <6>5
        <5> QED BY <5>1, <5>2
      <4>3. SignInv'
        <5> SUFFICES ASSUME NEW e \in Domains, "redis" \in wrote'[e], request'[e] # "failed"
                     PROVE  \/ SigningKey(NameOf[e])' = e
                            \/ \E f \in Domains : SameName(e, f) /\ Overlapped(e, f)'
          BY DEF SignInv, SameName
        <5>1. e # d /\ "redis" \in wrote[e] /\ request[e] # "failed"
          BY <3>1 DEF CheckName, StoreInv, RowInv, TypeOK
        <5>2. CASE SigningKey(NameOf[e]) = e
          BY <3>1, <5>2 DEF CheckName, SigningKey
        <5>3. CASE \E f \in Domains : SameName(e, f) /\ Overlapped(e, f)
          <6>1. PICK f \in Domains : SameName(e, f) /\ Overlapped(e, f)
            BY <5>3
          <6>2. Overlapped(e, f)'
            BY <3>1, <5>1, <6>1 DEF CheckName, Overlapped, StoreInv, RowInv, TypeOK
          <6> QED BY <6>1, <6>2
        <5> QED BY <5>1, <5>2, <5>3 DEF StoreInv, SignInv
      <4> QED BY <4>1, <4>2, <4>3 DEF StoreInv
    <3>2. CASE InsertDomain(d)
      BY <3>2 DEF TypeOK, StoreInv, RowInv, PairInv, SignInv, InsertDomain, Over,
                  Overlapped, SigningKey
    <3>3. CASE SaveDkim(d)
      <4>1. RowInv'
        BY <3>3 DEF TypeOK, StoreInv, RowInv, SaveDkim, UnderWay
      <4>2. PairInv'
        BY <3>3 DEF TypeOK, StoreInv, PairInv, SaveDkim, Over, Overlapped
      <4>3. SignInv'
        <5> SUFFICES ASSUME NEW e \in Domains, "redis" \in wrote'[e], request'[e] # "failed"
                     PROVE  \/ SigningKey(NameOf[e])' = e
                            \/ \E f \in Domains : SameName(e, f) /\ Overlapped(e, f)'
          BY DEF SignInv, SameName
        <5>1. CASE e = d
          BY <3>3, <5>1 DEF SaveDkim, SigningKey, TypeOK
        <5>2. CASE e # d /\ NameOf[e] # NameOf[d]
          BY <3>3, <5>2 DEF SaveDkim, SigningKey, TypeOK, StoreInv, SignInv, Overlapped
        <5>3. CASE e # d /\ NameOf[e] = NameOf[d]
          <6>1. SameName(e, d) /\ request[e] # "idle" /\ request[d] # "idle"
            BY <3>3, <5>3 DEF SaveDkim, SameName, StoreInv, RowInv, TypeOK, UnderWay
          <6>2. ~Over(e) /\ ~Over(d)
            BY <3>3 DEF SaveDkim, Over
          <6>3. Overlapped(e, d)
            BY <6>1, <6>2 DEF StoreInv, PairInv
          <6> QED BY <3>3, <6>1, <6>3 DEF SaveDkim, Overlapped
        <5> QED BY <5>1, <5>2, <5>3
      <4> QED BY <4>1, <4>2, <4>3 DEF StoreInv
    <3>4. CASE CommitDomain(d) \/ FailDomain(d)
      <4>1. RowInv'
        BY <3>4 DEF TypeOK, StoreInv, RowInv, CommitDomain, FailDomain
      <4>2. PairInv'
        BY <3>4 DEF TypeOK, StoreInv, PairInv, CommitDomain, FailDomain, Over, Overlapped
      <4>3. SignInv'
        BY <3>4 DEF TypeOK, StoreInv, SignInv, CommitDomain, FailDomain, Overlapped, SigningKey
      <4> QED BY <4>1, <4>2, <4>3 DEF StoreInv
    <3>5. CASE QueueFirstCheck(d) \/ LoseDomain(d)
      BY <3>5 DEF TypeOK, StoreInv, RowInv, PairInv, SignInv, QueueFirstCheck, LoseDomain,
                  Over, Overlapped, SigningKey
    <3> QED BY <2>1, <3>1, <3>2, <3>3, <3>4, <3>5 DEF DomainStep
  <2>2. ASSUME NEW k \in Keys, KeyStep(k) PROVE UNCHANGED domainVars
    BY <2>2 DEF KeyStep, InsertKey, CacheKey, CommitKey, AnswerKey, LoseKey
  <2>3. ASSUME NEW w \in Workers, CheckStep(w) PROVE UNCHANGED domainVars
    BY <2>3 DEF CheckStep, TakeCheck, Handles, FindDomain, Resolve, MarkVerified,
                Requeue, FinishCheck, FailCheck, StallCheck
  <2> QED BY <2>0, <2>1, <2>2, <2>3, NextSplit DEF vars
<1>3. TypeOK /\ StoreInv => SignsWithRow
  BY DEF TypeOK, StoreInv, RowInv, SignInv, SignsWithRow
<1> QED BY <1>1, <1>2, <1>3, TypeCorrect, PTL DEF Spec
-----------------------------------------------------------------------------
(***************************************************************************)
(* The chain of checks of a domain.                                        *)
(***************************************************************************)

\* Columns are those of rows.
ColumnInv == \A x \in Records : verified[x] \subseteq rows

\* A worker that got past the first step holds a check of a domain with a row;
\* past the updates, what it saw is in the columns of that domain.
HandInv ==
    \A w \in Workers :
        /\ worker[w].step \in {"resolve", "mark", "requeue", "finish"} =>
               worker[w].domain \in rows
        /\ worker[w].step \in {"requeue", "finish"} =>
               \A x \in worker[w].seen : worker[w].domain \in verified[x]

AllVerified(d) == \A x \in Records : d \in verified[x]

\* A check of the domain, or its successor, is still to come.
Pursued(d) ==
    \/ waiting[d] > 0
    \/ \E w \in Workers : worker[w].domain = d /\ worker[w].step # "finish"

\* The chain of a domain goes on until it is cut, or both columns are set.
ChainInv ==
    \A d \in Domains :
        request[d] \in {"answered", "lost"} => Pursued(d) \/ d \in cut \/ AllVerified(d)

\* The checks of a domain end only with both of its columns set, or cut.
THEOREM ChecksGoOn == Spec => []ChainEndsVerified
<1> USE SendersAssumption
<1> DEFINE CheckInv == ColumnInv /\ HandInv /\ ChainInv
<1>1. Init => CheckInv
  BY DEF Init, ColumnInv, HandInv, ChainInv, Idle
<1>2. TypeOK /\ TypeOK' /\ CheckInv /\ [Next]_vars => CheckInv'
  <2> SUFFICES ASSUME TypeOK, TypeOK', ColumnInv, HandInv, ChainInv, [Next]_vars PROVE CheckInv'
    OBVIOUS
  <2>0. ASSUME UNCHANGED <<request, rows, waiting, worker, verified, cut>> PROVE CheckInv'
    BY <2>0 DEF ColumnInv, HandInv, ChainInv, Pursued, AllVerified
  <2>1. ASSUME NEW k \in Keys, KeyStep(k)
        PROVE  UNCHANGED <<request, rows, waiting, worker, verified, cut>>
    BY <2>1 DEF KeyStep, InsertKey, CacheKey, CommitKey, AnswerKey, LoseKey, domainVars,
                checkVars
  <2>2. ASSUME NEW d \in Domains, DomainStep(d) PROVE CheckInv'
    <3>1. HandInv'
      BY <2>2 DEF DomainStep, CheckName, InsertDomain, SaveDkim, CommitDomain,
                  QueueFirstCheck, FailDomain, LoseDomain, checkVars, HandInv
    <3>0. ColumnInv'
      BY <2>2 DEF DomainStep, CheckName, InsertDomain, SaveDkim, CommitDomain,
                  QueueFirstCheck, FailDomain, LoseDomain, checkVars, ColumnInv
    <3>2. ChainInv'
      <4>1. CASE CheckName(d) \/ InsertDomain(d) \/ SaveDkim(d) \/ CommitDomain(d)
                 \/ FailDomain(d)
        BY <4>1 DEF CheckName, InsertDomain, SaveDkim, CommitDomain, FailDomain,
                    checkVars, ChainInv, Pursued, AllVerified, TypeOK
      <4>2. CASE QueueFirstCheck(d)
        BY <4>2 DEF QueueFirstCheck, ChainInv, Pursued, AllVerified, TypeOK
      <4>3. CASE LoseDomain(d)
        BY <4>3 DEF LoseDomain, ChainInv, Pursued, AllVerified, TypeOK
      <4> QED BY <2>2, <4>1, <4>2, <4>3 DEF DomainStep
    <3> QED BY <3>0, <3>1, <3>2
  <2>3. ASSUME NEW w \in Workers, CheckStep(w) PROVE CheckInv'
    <3>0. ColumnInv'
      BY <2>3 DEF CheckStep, TakeCheck, Handles, FindDomain, Resolve, MarkVerified, Requeue,
                  FinishCheck, FailCheck, StallCheck, domainVars, ColumnInv, TypeOK
    <3>1. CASE \E d \in Domains : TakeCheck(w, d)
      <4> PICK d \in Domains : TakeCheck(w, d)
        BY <3>1
      <4>1. HandInv'
        BY DEF TakeCheck, HandInv, domainVars, TypeOK
      <4>2. worker'[w].domain = d /\ worker'[w].step = "find"
        BY DEF TakeCheck, TypeOK
      <4>3. ChainInv'
        BY <4>2 DEF TakeCheck, ChainInv, Pursued, AllVerified, TypeOK, domainVars, Idle
      <4> QED BY <3>0, <4>1, <4>3
    <3>2. CASE FindDomain(w) \/ Resolve(w)
      <4>1. worker[w] \in Checks
        BY <3>2 DEF FindDomain, Resolve, Step, TypeOK, Idle
      <4>2. HandInv'
        BY <3>2, <4>1 DEF FindDomain, Resolve, Step, HandInv, TypeOK, Checks, domainVars
      <4>3. /\ \A v \in Workers : worker'[v].domain = worker[v].domain
            /\ worker'[w].step # "finish"
            /\ \A v \in Workers \ {w} : worker'[v] = worker[v]
        BY <3>2, <4>1 DEF FindDomain, Resolve, Step, TypeOK, Checks
      <4>4. ChainInv'
        BY <3>2, <4>3 DEF FindDomain, Resolve, ChainInv, Pursued, AllVerified, domainVars
      <4> QED BY <3>0, <4>2, <4>4
    <3>3. CASE MarkVerified(w)
      <4>1. worker[w] \in Checks /\ worker[w].domain \in rows
        BY <3>3 DEF MarkVerified, Step, TypeOK, Idle, HandInv
      <4>2. /\ \A v \in Workers : /\ worker'[v].domain = worker[v].domain
                                  /\ worker'[v].seen = worker[v].seen
            /\ worker'[w].step = "requeue"
            /\ \A v \in Workers \ {w} : worker'[v] = worker[v]
        BY <3>3, <4>1 DEF MarkVerified, Step, TypeOK, Checks
      <4>3. \A x \in Records : verified[x] \subseteq verified'[x]
        BY <3>3 DEF MarkVerified, ColumnInv, TypeOK
      <4>4. \A x \in worker[w].seen : x \in Records /\ worker[w].domain \in verified'[x]
        BY <3>3, <4>1 DEF MarkVerified, Checks
      <4>5. \A v \in Workers : worker[v].seen \subseteq Records
        BY DEF TypeOK, Checks, Idle
      <4>6. HandInv'
        <5> SUFFICES ASSUME NEW v \in Workers
                     PROVE  /\ worker'[v].step \in {"resolve", "mark", "requeue", "finish"} =>
                                   worker'[v].domain \in rows'
                            /\ worker'[v].step \in {"requeue", "finish"} =>
                                   \A x \in worker'[v].seen : worker'[v].domain \in verified'[x]
          BY DEF HandInv
        <5>1. CASE v = w
          BY <3>3, <4>1, <4>2, <4>4, <5>1 DEF MarkVerified, domainVars
        <5>2. CASE v # w
          BY <3>3, <4>2, <4>3, <4>5, <5>2 DEF MarkVerified, HandInv, domainVars
        <5> QED BY <5>1, <5>2
      <4>7. ChainInv'
        BY <3>3, <4>2, <4>3 DEF MarkVerified, ChainInv, Pursued, AllVerified, domainVars, Step
      <4> QED BY <3>0, <4>6, <4>7
    <3>4. CASE Requeue(w)
      <4>1. worker[w] \in Checks
        BY <3>4 DEF Requeue, Step, TypeOK, Idle
      <4>2. /\ \A v \in Workers : /\ worker'[v].domain = worker[v].domain
                                  /\ worker'[v].seen = worker[v].seen
            /\ worker'[w].step = "finish" /\ worker[w].step = "requeue"
            /\ \A v \in Workers \ {w} : worker'[v] = worker[v]
        BY <3>4, <4>1 DEF Requeue, Step, TypeOK, Checks
      <4>3. HandInv'
        BY <3>4, <4>2 DEF Requeue, HandInv, domainVars
      <4>4. ChainInv'
        <5> SUFFICES ASSUME NEW d \in Domains, request[d] \in {"answered", "lost"}
                     PROVE  (Pursued(d) \/ d \in cut \/ AllVerified(d))'
          BY <3>4 DEF Requeue, ChainInv, domainVars
        <5>1. CASE worker[w].domain = d /\ worker[w].seen = Records
          BY <3>4, <4>2, <5>1 DEF HandInv, AllVerified, Requeue
        <5>2. CASE worker[w].domain = d /\ worker[w].seen # Records
          BY <3>4, <5>2 DEF Requeue, Pursued, TypeOK
        <5>3. CASE worker[w].domain # d
          <6>1. waiting'[d] = waiting[d]
            BY <3>4, <5>3 DEF Requeue, TypeOK
          <6> QED BY <3>4, <4>2, <5>3, <6>1 DEF ChainInv, Pursued, AllVerified, Requeue
        <5> QED BY <5>1, <5>2, <5>3
      <4> QED BY <3>0, <4>3, <4>4
    <3>5. CASE FinishCheck(w)
      <4>1. /\ worker[w].step = "finish" /\ worker'[w] = Idle
            /\ \A v \in Workers \ {w} : worker'[v] = worker[v]
        BY <3>5 DEF FinishCheck, TypeOK
      <4>2. HandInv'
        BY <3>5, <4>1 DEF FinishCheck, HandInv, Idle, domainVars
      <4>3. ChainInv'
        BY <3>5, <4>1 DEF FinishCheck, ChainInv, Pursued, AllVerified, domainVars
      <4> QED BY <3>0, <4>2, <4>3
    <3>6. CASE FailCheck(w) \/ StallCheck(w)
      <4>1. /\ worker[w] \in Checks /\ worker'[w] = Idle
            /\ \A v \in Workers \ {w} : worker'[v] = worker[v]
        BY <3>6 DEF FailCheck, StallCheck, TypeOK
      <4>2. HandInv'
        BY <3>6, <4>1 DEF FailCheck, StallCheck, HandInv, Idle, domainVars
      <4>3. CASE FailCheck(w)
        BY <3>0, <4>1, <4>2, <4>3 DEF FailCheck, ChainInv, Pursued, AllVerified, domainVars
      <4>4. CASE StallCheck(w)
        <5>1. /\ worker[w].domain \in Domains
              /\ waiting'[worker[w].domain] > 0
              /\ \A d \in Domains \ {worker[w].domain} : waiting'[d] = waiting[d]
          BY <4>1, <4>4 DEF StallCheck, TypeOK, Checks
        <5> QED BY <3>0, <4>1, <4>2, <4>4, <5>1 DEF StallCheck, ChainInv, Pursued, AllVerified,
                                          domainVars
      <4> QED BY <3>6, <4>3, <4>4
    <3> QED BY <2>3, <3>1, <3>2, <3>3, <3>4, <3>5, <3>6 DEF CheckStep, Handles
  <2> QED BY <2>0, <2>1, <2>2, <2>3, NextSplit DEF vars, domainVars, checkVars
<1>3. TypeOK /\ CheckInv => ChainEndsVerified
  BY DEF TypeOK, ChainInv, Pursued, AllVerified, ChainEndsVerified
<1> QED BY <1>1, <1>2, <1>3, TypeCorrect, PTL DEF Spec

\* A column is set only after a check that saw its record.
THEOREM MarksAreSeen == Spec => MarkedAfterLookup
<1>1. TypeOK /\ [Next]_vars =>
          [\A x \in Records :
              verified'[x] # verified[x] => \E w \in Workers : x \in worker[w].seen]_vars
  <2> SUFFICES ASSUME TypeOK, Next, NEW x \in Records, verified'[x] # verified[x]
               PROVE  \E w \in Workers : x \in worker[w].seen
    OBVIOUS
  <2>1. ASSUME NEW k \in Keys, KeyStep(k) PROVE FALSE
    BY <2>1 DEF KeyStep, InsertKey, CacheKey, CommitKey, AnswerKey, LoseKey, checkVars
  <2>2. ASSUME NEW d \in Domains, DomainStep(d) PROVE FALSE
    BY <2>2 DEF DomainStep, CheckName, InsertDomain, SaveDkim, CommitDomain,
                QueueFirstCheck, FailDomain, LoseDomain, checkVars
  <2>3. ASSUME NEW w \in Workers, CheckStep(w) PROVE x \in worker[w].seen
    <3>1. MarkVerified(w)
      BY <2>3 DEF CheckStep, TakeCheck, Handles, FindDomain, Resolve, Requeue, FinishCheck,
                  FailCheck, StallCheck
    <3> QED BY <3>1 DEF MarkVerified
  <2> QED BY <2>1, <2>2, <2>3, NextSplit
<1> QED BY <1>1, TypeCorrect, PTL DEF Spec, MarkedAfterLookup
=============================================================================
