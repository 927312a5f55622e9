-------------------------- MODULE AutomationsProofs --------------------------
(***************************************************************************)
(* What holds of automations for any steps, bodies, contacts and workers.  *)
(***************************************************************************)
EXTENDS Automations, FiniteSetTheorems, TLAPS

ChainStep(s) == CheckStep(s) \/ InsertStep(s) \/ RefuseStep(s)

\* A step is one of the API, of a trigger job, of a step job or of the bulk job.
LEMMA NextSplit ==
    ASSUME Next
    PROVE  \/ \E a \in Automations : StoreAutomation(a)
           \/ \E s \in Steps : ChainStep(s)
           \/ \E t \in Triggers : TriggerStep(t)
           \/ \E j \in StepJobs : RunnerStep(j)
           \/ BulkStep
  BY DEF Next, Api, ChainStep

\* The API and the bulk job leave the other two jobs alone.
LEMMA ApiLeavesJobs ==
    ASSUME NEW s, ChainStep(s) \/ StoreAutomation(s)
    PROVE  UNCHANGED <<producer, runner, bulk>>
  BY DEF ChainStep, CheckStep, InsertStep, RefuseStep, StoreAutomation

LEMMA BulkLeavesJobs ==
    ASSUME BulkStep
    PROVE  UNCHANGED <<chain, producer, runner>>
  BY DEF BulkStep, AddBulk, TakeBulk, FindStep, QueuePage, FinishBulk, FailBulk,
         StallBulk, PendingChanges
-----------------------------------------------------------------------------
(***************************************************************************)
(* Jobs.  A job that is not settled has an attempt left; a step job that   *)
(* exists names a step.                                                    *)
(***************************************************************************)
Triggered == TriggerSteps \ {"find"}

JobInv ==
    /\ triggerJob \in [Triggers -> LiveRecords(TriggerSteps, 1)]
    /\ stepJob \in [StepJobs -> LiveRecords(RunnerSteps, 1)]
    /\ bulkJob \in LiveRecords(BulkSteps, 1)
    /\ \A t \in Triggers : triggerJob[t].state \in Triggered => next[t] \in Steps
    /\ \A j \in StepJobs : Exists(stepJob[j]) => stepOf[j] \in Steps

\* A job that was just added, and no job, are live records.
LEMMA NewJobs ==
    ASSUME NEW steps
    PROVE  NoJob \in LiveRecords(steps, 1) /\ Added \in LiveRecords(steps, 1)
  BY MaxStalledAssumption DEF LiveRecords, JobRecords, NoJob, Added

\* A job in the hands of a worker, or that waits for one, can make any of these
\* moves and stays a live record.
LEMMA Moves ==
    ASSUME NEW steps, NEW job \in LiveRecords(steps, 1), ~IsSettled(job)
    PROVE  /\ \A step \in steps : /\ At(job, step) \in LiveRecords(steps, 1)
                                  /\ At(job, step).state = step
                                  /\ At(job, step).stalls = job.stalls
           /\ Complete(job) \in LiveRecords(steps, 1)
           /\ Complete(job).state = "completed"
           /\ AttemptFailed(job, 1) \in LiveRecords(steps, 1)
           /\ AttemptFailed(job, 1).state = "failed"
           /\ AttemptFailed(job, 1).stalls = job.stalls
           /\ Stall(job) \in LiveRecords(steps, 1)
           /\ \/ Stall(job).state = "failed" /\ Stall(job).stalls = job.stalls
              \/ Stall(job).state = "waiting" /\ Stall(job).stalls = job.stalls + 1
<1>1. /\ job.made = 0 /\ job.stalls \in 0 .. MaxStalled
      /\ job \in JobRecords(steps, 1)
  BY DEF LiveRecords, JobRecords
<1>2. \A step \in steps \cup Settled :
          At(job, step) = [state |-> step, made |-> job.made, stalls |-> job.stalls]
  BY <1>1 DEF At, JobRecords
<1>3. Complete(job) = At(job, "completed")
  BY DEF Complete, At
<1>4. AttemptFailed(job, 1) = [state |-> "failed", made |-> 1, stalls |-> job.stalls]
  <2>1. job.made + 1 = 1 /\ ~(job.made + 1 < 1)
    BY <1>1
  <2>2. AttemptFailed(job, 1) = [job EXCEPT !.state = "failed", !.made = 1]
    BY <2>1 DEF AttemptFailed
  <2>3. QED
    BY <1>1, <2>2 DEF JobRecords
<1>5. \/ /\ job.stalls < MaxStalled
         /\ Stall(job) = [state |-> "waiting", made |-> job.made, stalls |-> job.stalls + 1]
      \/ Stall(job) = [state |-> "failed", made |-> job.made, stalls |-> job.stalls]
  BY <1>1 DEF Stall, JobRecords
<1>6. \A state \in {"waiting"} \cup steps \cup Settled, stalls \in 0 .. MaxStalled :
          [state |-> state, made |-> 0, stalls |-> stalls] \in LiveRecords(steps, 1)
  BY DEF LiveRecords, JobRecords
<1>7. [state |-> "failed", made |-> 1, stalls |-> job.stalls] \in LiveRecords(steps, 1)
  BY <1>1 DEF LiveRecords, JobRecords, IsSettled, Settled
<1>8. job.stalls < MaxStalled => job.stalls + 1 \in 0 .. MaxStalled
  BY <1>1, MaxStalledAssumption
<1>9. "completed" \in Settled /\ "failed" \in Settled
  BY DEF Settled
<1> QED BY <1>1, <1>2, <1>3, <1>4, <1>5, <1>6, <1>7, <1>8, <1>9

\* What a step of a trigger job does to it, and to the step jobs.
LEMMA TriggerMoves ==
    ASSUME JobInv, NEW t \in Triggers, TriggerStep(t)
    PROVE  /\ triggerJob'[t] \in LiveRecords(TriggerSteps, 1)
           /\ triggerJob' = [triggerJob EXCEPT ![t] = triggerJob'[t]]
           /\ \/ ~Exists(triggerJob[t]) /\ triggerJob'[t] = Added
              \/ /\ Exists(triggerJob[t]) /\ Exists(triggerJob'[t])
                 /\ \/ triggerJob'[t].stalls = triggerJob[t].stalls
                       /\ triggerJob'[t].state # "waiting"
                    \/ triggerJob'[t].state = "failed"
                    \/ triggerJob'[t].stalls = triggerJob[t].stalls + 1
                       /\ triggerJob'[t].state = "waiting"
           /\ UNCHANGED <<chain, recorded, effects, cutOff, crowded, bulk>>
<1> DEFINE job == triggerJob[t]
<1>1. CASE AddTrigger(t)
  <2>1. Added \in LiveRecords(TriggerSteps, 1)
    BY NewJobs
  <2> QED BY <1>1, <2>1 DEF AddTrigger, JobInv, runner
<1>2. CASE ~AddTrigger(t)
  <2>1. job \in LiveRecords(TriggerSteps, 1) /\ ~IsSettled(job) /\ Exists(job)
    BY <1>2 DEF JobInv, TriggerStep, TakeTrigger, FindNextStep, InsertCompletedRow, AddStepJob,
           CommitRow, FinishTrigger, FailTrigger, StallTrigger, IsActive, IsSettled,
           Exists, Settled
  <2>2. PICK new : /\ triggerJob' = [triggerJob EXCEPT ![t] = new]
                   /\ \/ \E step \in TriggerSteps : new = At(job, step)
                      \/ new \in {Complete(job), AttemptFailed(job, 1), Stall(job)}
    BY <1>2 DEF TriggerStep, TakeTrigger, FindNextStep, InsertCompletedRow, AddStepJob,
           CommitRow, FinishTrigger, FailTrigger, StallTrigger, TriggerSteps
  <2>3. triggerJob'[t] = new
    BY <2>2 DEF JobInv
  <2>4. Complete(job).stalls = job.stalls
    BY <2>1 DEF Complete, LiveRecords, JobRecords
  <2>5. /\ new \in LiveRecords(TriggerSteps, 1) /\ Exists(new)
        /\ \/ new.stalls = job.stalls /\ new.state # "waiting"
           \/ new.state = "failed"
           \/ new.stalls = job.stalls + 1 /\ new.state = "waiting"
    BY <2>1, <2>2, <2>4, Moves DEF TriggerSteps, Exists
  <2>6. UNCHANGED <<chain, recorded, effects, cutOff, crowded, bulk>>
    BY <1>2 DEF TriggerStep, TakeTrigger, FindNextStep, InsertCompletedRow, AddStepJob,
           CommitRow, FinishTrigger, FailTrigger, StallTrigger, runner
  <2> QED BY <2>1, <2>2, <2>3, <2>5, <2>6
<1> QED BY <1>1, <1>2

\* What a step of a step job does to it.
LEMMA RunnerMoves ==
    ASSUME JobInv, NEW j \in StepJobs, RunnerStep(j)
    PROVE  /\ stepJob'[j] \in LiveRecords(RunnerSteps, 1)
           /\ stepJob' = [stepJob EXCEPT ![j] = stepJob'[j]]
           /\ Exists(stepJob[j]) /\ Exists(stepJob'[j])
           /\ stepOf[j] \in Steps
           /\ UNCHANGED <<chain, producer, stepOf, committed, bulk>>
<1> DEFINE job == stepJob[j]
<1>1. job \in LiveRecords(RunnerSteps, 1) /\ ~IsSettled(job) /\ Exists(job)
  BY DEF JobInv, RunnerStep, TakeStep, ReadRow, SendEmail, MarkMail, AddTag, AttachTag,
         RemoveTag, RecordStep, FinishStep, FailStep, StallStep, GiveUp, IsActive,
         IsSettled, Exists, Settled
<1>2. PICK new : /\ stepJob' = [stepJob EXCEPT ![j] = new]
                 /\ \/ \E step \in RunnerSteps : new = At(job, step)
                    \/ new \in {Complete(job), AttemptFailed(job, 1), Stall(job)}
  BY DEF RunnerStep, TakeStep, ReadRow, SendEmail, MarkMail, AddTag, AttachTag, MovesTo,
         RemoveTag, RecordStep, FinishStep, FailStep, StallStep, GiveUp, RunnerSteps, Acted
<1>3. stepJob'[j] = new
  BY <1>2 DEF JobInv
<1>4. new \in LiveRecords(RunnerSteps, 1) /\ Exists(new)
  <2>1. CASE \E step \in RunnerSteps : new = At(job, step)
    <3>1. PICK step \in RunnerSteps : new = At(job, step)
      BY <2>1
    <3>2. /\ At(job, step) \in LiveRecords(RunnerSteps, 1)
          /\ At(job, step).state = step
      BY <1>1, Moves
    <3> QED BY <3>1, <3>2 DEF Exists, RunnerSteps
  <2>2. CASE new \in {Complete(job), AttemptFailed(job, 1), Stall(job)}
    BY <1>1, <2>2, Moves DEF Exists
  <2> QED BY <1>2, <2>1, <2>2
<1>5. UNCHANGED <<chain, producer, stepOf, committed, bulk>>
  BY DEF RunnerStep, TakeStep, ReadRow, SendEmail, MarkMail, AddTag, AttachTag, MovesTo,
         RemoveTag, RecordStep, FinishStep, FailStep, StallStep, GiveUp, Acted
<1> QED BY <1>1, <1>2, <1>3, <1>4, <1>5 DEF JobInv

\* The job of a trigger's execution is one of StepJobs.
LEMMA JobOfTrigger ==
    ASSUME JobInv, NEW t \in Triggers
    PROVE  JobOf(t) \in StepJobs
  BY DEF JobInv, JobOf, StepJobs, LiveRecords, JobRecords

\* What a step of a trigger job does to the step jobs: the queueing of one.
LEMMA TriggerAdds ==
    ASSUME NEW t \in Triggers, TriggerStep(t)
    PROVE  \/ /\ AddStepJob(t) /\ triggerJob[t].state = "add"
              /\ stepJob' = [stepJob EXCEPT ![JobOf(t)] = Added]
              /\ stepOf' = [stepOf EXCEPT ![JobOf(t)] = next[t]]
              /\ UNCHANGED <<next, committed>>
           \/ /\ CommitRow(t) /\ committed' = committed \cup {JobOf(t)}
              /\ UNCHANGED <<next, stepJob, stepOf>>
           \/ UNCHANGED <<stepJob, stepOf, committed>>
  BY DEF TriggerStep, AddTrigger, TakeTrigger, FindNextStep, InsertCompletedRow,
         AddStepJob, CommitRow, FinishTrigger, FailTrigger, StallTrigger, runner

\* The bulk job stays a live record.
LEMMA BulkMoves ==
    ASSUME JobInv, BulkStep
    PROVE  bulkJob' \in LiveRecords(BulkSteps, 1)
<1>1. CASE AddBulk
  BY <1>1, NewJobs DEF AddBulk
<1>2. CASE \E c \in Contacts : PendingChanges(c)
  BY <1>2 DEF PendingChanges, JobInv
<1>3. CASE TakeBulk \/ FindStep \/ QueuePage \/ FinishBulk \/ FailBulk \/ StallBulk
  <2>1. bulkJob \in LiveRecords(BulkSteps, 1) /\ ~IsSettled(bulkJob)
    BY <1>3 DEF JobInv, TakeBulk, FindStep, QueuePage, FinishBulk, FailBulk, StallBulk,
                IsActive, IsSettled, Settled
  <2> QED BY <1>3, <2>1, Moves
          DEF TakeBulk, FindStep, QueuePage, FinishBulk, FailBulk, StallBulk, BulkSteps
<1> QED BY <1>1, <1>2, <1>3 DEF BulkStep

\* Jobs stay live, and name their steps.
LEMMA JobsKept ==
    ASSUME TypeOK, JobInv, [Next]_vars
    PROVE  JobInv'
<1>1. ASSUME NEW s, ChainStep(s) \/ StoreAutomation(s) PROVE JobInv'
  BY <1>1, ApiLeavesJobs DEF JobInv, producer, runner, bulk
<1>2. ASSUME NEW t \in Triggers, TriggerStep(t) PROVE JobInv'
  <2>1. triggerJob' \in [Triggers -> LiveRecords(TriggerSteps, 1)]
    BY <1>2, TriggerMoves DEF JobInv
  <2>2. JobOf(t) \in StepJobs /\ Added \in LiveRecords(RunnerSteps, 1)
    BY JobOfTrigger, NewJobs
  <2>3. stepJob' \in [StepJobs -> LiveRecords(RunnerSteps, 1)]
    BY <1>2, <2>2, TriggerAdds DEF JobInv
  <2>4. bulkJob' \in LiveRecords(BulkSteps, 1)
    BY <1>2, TriggerMoves DEF JobInv, bulk
  <2>5. ASSUME NEW u \in Triggers, triggerJob'[u].state \in Triggered
        PROVE  next'[u] \in Steps
    <3>1. CASE u # t
      <4>1. triggerJob'[u] = triggerJob[u]
        BY <1>2, <3>1, TriggerMoves DEF JobInv
      <4>2. next'[u] = next[u]
        BY <1>2, <3>1 DEF TriggerStep, AddTrigger, TakeTrigger, FindNextStep,
           InsertCompletedRow, AddStepJob, CommitRow, FinishTrigger, FailTrigger,
           StallTrigger, TypeOK
      <4> QED BY <2>5, <4>1, <4>2 DEF JobInv
    <3>2. CASE u = t /\ FindNextStep(t)
      <4>1. PICK new \in Steps : \/ next' = [next EXCEPT ![t] = new]
                                 \/ triggerJob' = [triggerJob EXCEPT ![t] = Complete(@)]
        BY <3>2 DEF FindNextStep, ChildrenOf, TriggersOf
      <4>2. Complete(triggerJob[t]).state = "completed"
        BY <3>2 DEF Complete, JobInv, LiveRecords, JobRecords
      <4> QED BY <2>5, <3>2, <4>1, <4>2 DEF TypeOK, JobInv, Triggered, TriggerSteps
    <3>3. CASE u = t /\ ~FindNextStep(t)
      <4>1. next'[t] = next[t]
        BY <1>2, <3>3 DEF TriggerStep, AddTrigger, TakeTrigger, InsertCompletedRow, AddStepJob,
               CommitRow, FinishTrigger, FailTrigger, StallTrigger
      <4>2. triggerJob[t].state \in Triggered
        <5> DEFINE job == triggerJob[t]
        <5>1. AddTrigger(t) => triggerJob'[t].state = "waiting"
          BY DEF AddTrigger, JobInv, Added
        <5>2. TakeTrigger(t) => triggerJob'[t].state = "find"
          BY DEF TakeTrigger, JobInv, LiveRecords, JobRecords, At
        <5>3. FailTrigger(t) \/ StallTrigger(t) =>
                  job \in LiveRecords(TriggerSteps, 1) /\ ~IsSettled(job)
          BY DEF FailTrigger, StallTrigger, JobInv, IsActive, IsSettled, Settled
        <5>4. FailTrigger(t) \/ StallTrigger(t) =>
                  triggerJob'[t].state \in {"failed", "waiting"}
          BY <5>3, Moves DEF FailTrigger, StallTrigger, JobInv
        <5> QED BY <1>2, <2>5, <3>3, <5>1, <5>2, <5>4
                DEF TriggerStep, InsertCompletedRow, AddStepJob, CommitRow, FinishTrigger,
                    Triggered, TriggerSteps
      <4> QED BY <3>3, <4>1, <4>2 DEF JobInv
    <3> QED BY <3>1, <3>2, <3>3
  <2>6. ASSUME NEW j \in StepJobs, Exists(stepJob'[j]) PROVE stepOf'[j] \in Steps
    <3>1. CASE UNCHANGED <<stepJob, stepOf>>
      BY <2>6, <3>1 DEF JobInv
    <3>2. CASE /\ triggerJob[t].state = "add"
               /\ stepJob' = [stepJob EXCEPT ![JobOf(t)] = Added]
               /\ stepOf' = [stepOf EXCEPT ![JobOf(t)] = next[t]]
      <4>1. next[t] \in Steps
        BY <3>2 DEF JobInv, Triggered, TriggerSteps
      <4>2. CASE j = JobOf(t)
        BY <3>2, <4>1, <4>2 DEF TypeOK
      <4>3. CASE j # JobOf(t)
        BY <2>6, <3>2, <4>3 DEF TypeOK, JobInv
      <4> QED BY <4>2, <4>3
    <3> QED BY <1>2, <3>1, <3>2, TriggerAdds
  <2> QED BY <2>1, <2>3, <2>4, <2>5, <2>6 DEF JobInv
<1>3. ASSUME NEW j \in StepJobs, RunnerStep(j) PROVE JobInv'
  BY <1>3, RunnerMoves DEF JobInv, producer, bulk
<1>4. CASE BulkStep
  BY <1>4, BulkLeavesJobs, BulkMoves DEF JobInv, producer, runner
<1>5. CASE UNCHANGED vars
  BY <1>5 DEF JobInv, vars, producer, runner, bulk
<1> QED BY <1>1, <1>2, <1>3, <1>4, <1>5, NextSplit

\* At first there is no job.
LEMMA JobsAtInit == Init => JobInv
<1>1. /\ NoJob \in LiveRecords(TriggerSteps, 1) /\ NoJob \in LiveRecords(RunnerSteps, 1)
      /\ NoJob \in LiveRecords(BulkSteps, 1)
  BY NewJobs
<1> QED BY <1>1 DEF Init, JobInv, NoJob, Exists, Triggered, TriggerSteps
-----------------------------------------------------------------------------
(***************************************************************************)
(* Pages.                                                                  *)
(***************************************************************************)

\* A finite set of numbers that is not empty has a largest and a smallest one:
\* where the set of those above, or below, is minimal.
LEMMA Extremes ==
    ASSUME NEW F \in SUBSET Nat, IsFiniteSet(F), F # {}
    PROVE  /\ \E c \in F : \A d \in F : d <= c
           /\ \E c \in F : \A d \in F : c <= d
<1> DEFINE Above(c) == {e \in F : e > c}
           Below(c) == {e \in F : e < c}
           R == StrictSubsetOrdering(F)
<1>1. IsWellFoundedOn(R, SUBSET F)
  BY FS_StrictSubsetOrderingWellFounded, FS_FiniteSubsetsOfFinite
<1>2. ASSUME NEW T, T \subseteq SUBSET F, T # {}
      PROVE  \E x \in T : \A y \in T : <<y, x>> \notin R
  BY <1>1, <1>2, WFMin
<1>3. \A S1, S2 \in SUBSET F : <<S1, S2>> \in R <=> S1 \subseteq S2 /\ S1 # S2
  BY DEF StrictSubsetOrdering
<1> HIDE DEF R
<1>4. \E c \in F : \A d \in F : d <= c
  <2> DEFINE T == {Above(c) : c \in F}
  <2>1. T \subseteq SUBSET F /\ T # {}
    OBVIOUS
  <2>2. PICK x \in T : \A y \in T : <<y, x>> \notin R
    BY <2>1, <1>2
  <2>3. PICK c \in F : x = Above(c)
    BY <2>2
  <2>4. ASSUME NEW d \in F, d > c PROVE FALSE
    <3>1. c \in Nat /\ d \in Nat /\ c \in F /\ \A e \in F : e \in Nat
      BY <2>3
    <3>2. Above(d) \subseteq Above(c) /\ d \in Above(c) /\ d \notin Above(d)
      <4>1. \A e \in F : e > d => e > c
        BY <2>4, <3>1
      <4>2. ~(d > d)
        BY <3>1
      <4> QED BY <2>4, <4>1, <4>2
    <3>3. Above(d) \in T /\ Above(d) \in SUBSET F /\ Above(c) \in SUBSET F
      OBVIOUS
    <3>4. <<Above(d), Above(c)>> \in R
      BY <1>3, <3>2, <3>3
    <3> QED BY <2>2, <2>3, <3>3, <3>4
  <2> QED BY <2>4
<1>5. \E c \in F : \A d \in F : c <= d
  <2> DEFINE T == {Below(c) : c \in F}
  <2>1. T \subseteq SUBSET F /\ T # {}
    OBVIOUS
  <2>2. PICK x \in T : \A y \in T : <<y, x>> \notin R
    BY <2>1, <1>2
  <2>3. PICK c \in F : x = Below(c)
    BY <2>2
  <2>4. ASSUME NEW d \in F, d < c PROVE FALSE
    <3>1. c \in Nat /\ d \in Nat /\ c \in F /\ \A e \in F : e \in Nat
      BY <2>3
    <3>2. Below(d) \subseteq Below(c) /\ d \in Below(c) /\ d \notin Below(d)
      <4>1. \A e \in F : e < d => e < c
        BY <2>4, <3>1
      <4>2. ~(d < d)
        BY <3>1
      <4> QED BY <2>4, <4>1, <4>2
    <3>3. Below(d) \in T /\ Below(d) \in SUBSET F /\ Below(c) \in SUBSET F
      OBVIOUS
    <3>4. <<Below(d), Below(c)>> \in R
      BY <1>3, <3>2, <3>3
    <3> QED BY <2>2, <2>3, <3>3, <3>4
  <2> QED BY <2>4
<1> QED BY <1>4, <1>5

\* What RunAutomationStepJob relies on: a page lies beyond the cursor; the next
\* cursor is 0 only if the page has all there is, and otherwise lies beyond, and
\* the page has all up to it.
LEMMA PageFacts ==
    ASSUME TypeOK
    PROVE  /\ Page \subseteq pending
           /\ \A c \in Page : c > cursor
           /\ NextCursor \in Contacts \cup {0}
           /\ NextCursor = 0 => \A c \in pending : c > cursor => c \in Page
           /\ NextCursor # 0 =>
                  /\ NextCursor > cursor
                  /\ \A c \in pending : c > cursor => (c \in Page <=> c <= NextCursor)
<1> USE AutomationAssumption
<1> DEFINE UpTo(c) == {d \in pending : d > cursor /\ d <= c}
<1>1. /\ pending \subseteq Contacts /\ pending \subseteq Nat \ {0} /\ cursor \in Nat
      /\ IsFiniteSet(pending) /\ IsFiniteSet(Page)
      /\ \A c \in Nat : IsFiniteSet(UpTo(c))
      /\ Page \subseteq pending
  <2>1. pending \subseteq Contacts /\ IsFiniteSet(pending)
    BY FS_Subset DEF TypeOK
  <2>2. Page \in SUBSET pending /\ \A c \in Nat : UpTo(c) \in SUBSET pending
    BY DEF Page, FirstAfter
  <2>3. IsFiniteSet(Page) /\ \A c \in Nat : IsFiniteSet(UpTo(c))
    BY <2>1, <2>2, FS_Subset
  <2>4. cursor \in Nat
    BY DEF TypeOK
  <2> QED BY <2>1, <2>2, <2>3, <2>4
<1>2. \A c \in Page : c > cursor
  BY DEF Page, FirstAfter
<1>3. \A c \in pending : c > cursor => (c \in Page <=> Cardinality(UpTo(c)) <= BatchSize)
  BY DEF Page, FirstAfter
<1>4. Cardinality(Page) \in Nat /\ \A c \in Nat : Cardinality(UpTo(c)) \in Nat
  BY <1>1, FS_CardinalityType
<1>5. CASE Cardinality(Page) < BatchSize
  <2> DEFINE Rest == {c \in pending : c > cursor /\ c \notin Page}
  <2>1. Rest = {}
    <3> SUFFICES ASSUME Rest # {} PROVE FALSE
      OBVIOUS
    <3>1. IsFiniteSet(Rest) /\ Rest \in SUBSET Nat
      BY <1>1, FS_Subset
    <3>2. PICK c \in Rest : \A d \in Rest : c <= d
      BY <3>1, Extremes
    <3>3. UpTo(c) \subseteq Page \cup {c}
      <4> SUFFICES ASSUME NEW d \in UpTo(c), d \notin Page PROVE d = c
        OBVIOUS
      <4>1. d \in Rest /\ d \in Nat /\ c \in Nat
        BY <1>1, <3>2
      <4>2. c <= d
        BY <3>2, <4>1
      <4>3. d <= c
        OBVIOUS
      <4> QED BY <4>1, <4>2, <4>3
    <3>4. /\ IsFiniteSet(Page \cup {c})
          /\ Cardinality(Page \cup {c}) <= Cardinality(Page) + 1
      <4> HIDE DEF Rest
      <4>1. /\ IsFiniteSet(Page \cup {c})
            /\ Cardinality(Page \cup {c}) =
                   IF c \in Page THEN Cardinality(Page) ELSE Cardinality(Page) + 1
        BY <1>1, FS_AddElement
      <4> QED BY <1>4, <4>1
    <3>5. Cardinality(UpTo(c)) <= Cardinality(Page \cup {c})
      BY <3>3, <3>4, FS_Subset
    <3>6. Cardinality(Page \cup {c}) \in Nat /\ c \in Nat
      BY <1>1, <3>4, FS_CardinalityType
    <3>7. Cardinality(UpTo(c)) <= BatchSize
      BY <1>4, <1>5, <3>4, <3>5, <3>6
    <3> QED BY <1>3, <3>7
  <2>2. NextCursor = 0
    BY <1>5 DEF NextCursor
  <2> QED BY <1>1, <1>2, <2>1, <2>2
<1>6. CASE ~(Cardinality(Page) < BatchSize)
  <2>1. Page # {}
    BY <1>6, FS_EmptySet
  <2>2. \E c \in Page : \A d \in Page : d <= c
    BY <1>1, <2>1, Extremes
  <2>3. /\ NextCursor \in Page
        /\ \A d \in Page : d <= NextCursor
    BY <1>6, <2>2 DEF NextCursor, LastOf
  <2>4. ASSUME NEW c \in pending, c > cursor, c <= NextCursor PROVE c \in Page
    <3>1. NextCursor \in Nat /\ c \in Nat
      BY <1>1, <2>3
    <3>2. UpTo(c) \subseteq UpTo(NextCursor)
      <4>1. \A d \in pending : d <= c => d <= NextCursor
        BY <1>1, <2>4, <3>1
      <4> QED BY <4>1
    <3>3. Cardinality(UpTo(c)) <= Cardinality(UpTo(NextCursor))
      BY <1>1, <3>1, <3>2, FS_Subset
    <3>4. Cardinality(UpTo(NextCursor)) <= BatchSize
      BY <1>1, <1>2, <1>3, <2>3
    <3>5. Cardinality(UpTo(c)) <= BatchSize
      BY <1>4, <3>1, <3>3, <3>4
    <3> QED BY <1>3, <2>4, <3>5
  <2> QED BY <1>1, <1>2, <2>3, <2>4
<1> QED BY <1>5, <1>6
-----------------------------------------------------------------------------
(***************************************************************************)
(* Types.                                                                  *)
(***************************************************************************)

\* A live record is a record.
LEMMA LiveIsRecord == \A steps : LiveRecords(steps, 1) \subseteq JobRecords(steps, 1)
  BY DEF LiveRecords

\* The types are inductive together with the jobs.
LEMMA TypesKept ==
    ASSUME TypeOK, JobInv, [Next]_vars
    PROVE  TypeOK'
<1> USE AutomationAssumption
<1>0. JobInv'
  BY JobsKept
<1>j. /\ triggerJob' \in [Triggers -> JobRecords(TriggerSteps, 1)]
      /\ stepJob' \in [StepJobs -> JobRecords(RunnerSteps, 1)]
      /\ bulkJob' \in JobRecords(BulkSteps, 1)
  BY <1>0, LiveIsRecord DEF JobInv
<1>1. ASSUME NEW a \in Automations, StoreAutomation(a) PROVE TypeOK'
  BY <1>1, <1>j DEF TypeOK, StoreAutomation, producer, runner, bulk
<1>2. ASSUME NEW s \in Steps, ChainStep(s) PROVE TypeOK'
  <2>1. UNCHANGED <<automations, body>> \/ InsertStep(s)
    BY <1>2 DEF ChainStep, CheckStep, RefuseStep
  <2>2. /\ request' \in [Steps -> {"idle", "checked", "stored", "refused"}]
        /\ met' \in [Steps -> SUBSET Steps]
    BY <1>2 DEF TypeOK, ChainStep, CheckStep, InsertStep, RefuseStep
  <2>3. parent' \in [Steps -> Steps \cup {None}]
    <3>1. CASE CheckStep(s)
      <4>1. PICK p \in Steps \cup {None} : parent' = [parent EXCEPT ![s] = p]
        BY <3>1 DEF CheckStep
      <4> QED BY <4>1 DEF TypeOK
    <3>2. CASE InsertStep(s) \/ RefuseStep(s)
      BY <3>2 DEF InsertStep, RefuseStep, TypeOK
    <3> QED BY <1>2, <3>1, <3>2 DEF ChainStep
  <2>4. UNCHANGED <<automations, body>>
    BY <2>1 DEF InsertStep
  <2>5. UNCHANGED <<producer, runner, bulk>>
    BY <1>2, ApiLeavesJobs
  <2> QED BY <1>j, <2>2, <2>3, <2>4, <2>5 DEF TypeOK, producer, runner, bulk
<1>3. ASSUME NEW t \in Triggers, TriggerStep(t) PROVE TypeOK'
  <2>1. next' \in [Triggers -> Steps \cup {None}]
    BY <1>3 DEF TriggerStep, AddTrigger, TakeTrigger, FindNextStep, InsertCompletedRow,
       AddStepJob, CommitRow, FinishTrigger, FailTrigger, StallTrigger, ChildrenOf, TypeOK
  <2>2. stepOf' \in [StepJobs -> Steps \cup {None}] /\ committed' \subseteq StepJobs
    BY <1>3, TriggerAdds, JobOfTrigger DEF TypeOK
  <2> QED BY <1>3, <1>j, <2>1, <2>2, TriggerMoves DEF TypeOK, chain, bulk
<1>4. ASSUME NEW j \in StepJobs, RunnerStep(j) PROVE TypeOK'
  <2>1. PairOf(j) \in Pairs
    BY <1>4, RunnerMoves DEF PairOf, Pairs, StepJobs
  <2>2. /\ recorded' \subseteq Pairs /\ effects' \in [Pairs -> Nat]
        /\ cutOff' \subseteq Pairs /\ crowded' \subseteq Pairs
    BY <1>4, <2>1 DEF TypeOK, RunnerStep, TakeStep, ReadRow, SendEmail, MarkMail, AddTag,
       AttachTag, MovesTo, RemoveTag, RecordStep, FinishStep, FailStep, StallStep, GiveUp,
       Acted
  <2> QED BY <1>4, <1>j, <2>2, RunnerMoves DEF TypeOK, chain, producer, bulk
<1>5. CASE BulkStep
  <2>1. cursor' \in Contacts \cup {0}
    <3>1. CASE QueuePage
      <4>1. NextCursor \in Contacts \cup {0}
        BY PageFacts
      <4> QED BY <3>1, <4>1 DEF QueuePage
    <3>2. CASE ~QueuePage
      BY <1>5, <3>2 DEF BulkStep, AddBulk, TakeBulk, FindStep, FinishBulk, FailBulk,
         StallBulk, PendingChanges, TypeOK
    <3> QED BY <3>1, <3>2
  <2>2. pending' \subseteq Contacts /\ queued' \in [Contacts -> Nat] /\ steady' \subseteq Contacts
    <3>1. CASE FindStep
      BY <3>1 DEF FindStep
    <3>2. CASE QueuePage
      BY <3>2 DEF QueuePage, TypeOK
    <3>3. CASE \E c \in Contacts : PendingChanges(c)
      BY <3>3 DEF PendingChanges, TypeOK
    <3>4. CASE AddBulk \/ TakeBulk \/ FinishBulk \/ FailBulk \/ StallBulk
      BY <3>4 DEF AddBulk, TakeBulk, FinishBulk, FailBulk, StallBulk, TypeOK
    <3> QED BY <1>5, <3>1, <3>2, <3>3, <3>4 DEF BulkStep
  <2> QED BY <1>5, <1>j, <2>1, <2>2, BulkLeavesJobs DEF TypeOK, chain, producer, runner
<1>6. CASE UNCHANGED vars
  BY <1>6 DEF TypeOK, vars, chain, producer, runner, bulk
<1> QED BY <1>1, <1>2, <1>3, <1>4, <1>5, <1>6, NextSplit

\* The first state has the types.
LEMMA TypesAtInit == Init => TypeOK
<1>1. NoJob \in JobRecords(TriggerSteps, 1) /\ NoJob \in JobRecords(RunnerSteps, 1)
      /\ NoJob \in JobRecords(BulkSteps, 1)
  BY NewJobs, LiveIsRecord
<1> QED BY <1>1 DEF Init, TypeOK

\* Every variable keeps its type.
THEOREM TypeCorrect == Spec => []TypeOK
  BY TypesAtInit, TypesKept, JobsAtInit, JobsKept, PTL DEF Spec
-----------------------------------------------------------------------------
(***************************************************************************)
(* The pages of RunAutomationStepJob.                                      *)
(***************************************************************************)

\* What lies up to the cursor was queued once, if it was PENDING all along;
\* nothing beyond it was queued yet.
PageInv ==
    /\ bulkJob.state \in {"page", "finish"} => \A c \in Contacts : queued[c] <= 1
    /\ bulkJob.state = "page" =>
           /\ steady \subseteq pending
           /\ \A c \in Contacts : c > cursor => queued[c] = 0
           /\ \A c \in steady : c <= cursor => queued[c] = 1
    /\ bulkJob.state = "finish" => \A c \in steady : queued[c] = 1

\* However PENDING rows come and go, nobody is queued twice, and nobody who
\* stayed is passed over.
THEOREM PagesAreWhole == Spec => []PendingQueuedOnce
<1> USE AutomationAssumption
<1>1. Init => PageInv
  BY DEF Init, PageInv, NoJob
<1>2. TypeOK /\ JobInv /\ PageInv /\ [Next]_vars => PageInv'
  <2> SUFFICES ASSUME TypeOK, JobInv, PageInv, [Next]_vars PROVE PageInv'
    OBVIOUS
  <2>1. CASE UNCHANGED bulk
    BY <2>1 DEF PageInv, bulk
  <2>2. CASE BulkStep
    <3>1. CASE AddBulk \/ TakeBulk \/ FailBulk \/ StallBulk
      <4>1. bulkJob'.state \notin {"page", "finish"}
        <5>1. AddBulk => bulkJob'.state = "waiting"
          BY DEF AddBulk, Added
        <5>2. TakeBulk => bulkJob'.state = "find"
          BY DEF TakeBulk, At, JobInv, LiveRecords, JobRecords
        <5>3. FailBulk \/ StallBulk =>
                  bulkJob \in LiveRecords(BulkSteps, 1) /\ ~IsSettled(bulkJob)
          BY DEF FailBulk, StallBulk, JobInv, IsActive, IsSettled, Settled
        <5>4. FailBulk \/ StallBulk => bulkJob'.state \in {"failed", "waiting"}
          BY <5>3, Moves DEF FailBulk, StallBulk
        <5> QED BY <3>1, <5>1, <5>2, <5>4
      <4> QED BY <4>1 DEF PageInv
    <3>2. CASE FindStep
      BY <3>2 DEF FindStep, PageInv, At, JobInv, LiveRecords, JobRecords
    <3>3. CASE QueuePage
      <4>1. /\ bulkJob.state = "page"
            /\ bulkJob' = IF NextCursor = 0 THEN At(bulkJob, "finish") ELSE bulkJob
            /\ cursor' = NextCursor /\ UNCHANGED <<pending, steady>>
            /\ \A c \in Contacts : queued'[c] = IF c \in Page THEN queued[c] + 1 ELSE queued[c]
        BY <3>3 DEF QueuePage
      <4>2. /\ \A c \in Contacts : queued[c] \in Nat /\ c \in Nat
            /\ steady \subseteq pending /\ pending \subseteq Contacts
            /\ \A c \in Contacts : c > cursor => queued[c] = 0
            /\ \A c \in steady : c <= cursor => queued[c] = 1
            /\ \A c \in Contacts : queued[c] <= 1
            /\ cursor \in Nat
        BY <4>1 DEF TypeOK, PageInv
      <4>3. \A c \in Contacts : queued'[c] <= 1
        BY <4>1, <4>2, PageFacts
      <4>4. CASE NextCursor = 0
        <5>1. bulkJob'.state = "finish"
          BY <4>1, <4>4 DEF At, JobInv, LiveRecords, JobRecords
        <5>2. \A c \in steady : queued'[c] = 1
          <6> SUFFICES ASSUME NEW c \in steady PROVE queued'[c] = 1
            OBVIOUS
          <6>1. c \in Contacts /\ c \in pending /\ c \in Nat
            BY <4>2
          <6>2. CASE c > cursor
            <7>1. c \in Page /\ queued[c] = 0
              BY <4>2, <4>4, <6>1, <6>2, PageFacts
            <7> QED BY <4>1, <6>1, <7>1
          <6>3. CASE c <= cursor
            <7>1. c \notin Page /\ queued[c] = 1
              BY <4>2, <6>1, <6>3, PageFacts
            <7> QED BY <4>1, <6>1, <7>1
          <6> QED BY <4>2, <6>1, <6>2, <6>3
        <5> QED BY <4>1, <4>3, <5>1, <5>2 DEF PageInv
      <4>5. CASE NextCursor # 0
        <5>1. NextCursor \in Nat /\ NextCursor > cursor
              /\ \A c \in pending : c > cursor => (c \in Page <=> c <= NextCursor)
          BY <4>5, PageFacts
        <5>2. \A c \in Contacts : c > NextCursor => queued'[c] = 0
          <6> SUFFICES ASSUME NEW c \in Contacts, c > NextCursor PROVE queued'[c] = 0
            OBVIOUS
          <6>1. c > cursor /\ c \notin Page
            BY <4>2, <5>1, PageFacts
          <6> QED BY <4>1, <4>2, <6>1
        <5>3. \A c \in steady : c <= NextCursor => queued'[c] = 1
          <6> SUFFICES ASSUME NEW c \in steady, c <= NextCursor PROVE queued'[c] = 1
            OBVIOUS
          <6>1. c \in Contacts /\ c \in pending /\ c \in Nat
            BY <4>2
          <6>2. CASE c > cursor
            <7>1. c \in Page /\ queued[c] = 0
              BY <4>2, <5>1, <6>1, <6>2
            <7> QED BY <4>1, <6>1, <7>1
          <6>3. CASE c <= cursor
            <7>1. c \notin Page /\ queued[c] = 1
              BY <4>2, <6>1, <6>3, PageFacts
            <7> QED BY <4>1, <6>1, <7>1
          <6> QED BY <4>2, <6>1, <6>2, <6>3
        <5>4. bulkJob'.state = "page"
          BY <4>1, <4>5
        <5> QED BY <4>1, <4>2, <4>3, <5>2, <5>3, <5>4 DEF PageInv
      <4> QED BY <4>4, <4>5
    <3>4. CASE FinishBulk
      BY <3>4 DEF FinishBulk, PageInv, Complete, JobInv, LiveRecords, JobRecords
    <3>5. CASE \E c \in Contacts : PendingChanges(c)
      BY <3>5 DEF PendingChanges, PageInv
    <3> QED BY <2>2, <3>1, <3>2, <3>3, <3>4, <3>5 DEF BulkStep
  <2>3. ASSUME NEW a, ChainStep(a) \/ StoreAutomation(a) PROVE UNCHANGED bulk
    BY <2>3, ApiLeavesJobs
  <2>4. ASSUME NEW t \in Triggers, TriggerStep(t) PROVE UNCHANGED bulk
    BY <2>4, TriggerMoves
  <2>5. ASSUME NEW j \in StepJobs, RunnerStep(j) PROVE UNCHANGED bulk
    BY <2>5, RunnerMoves
  <2> QED BY <2>1, <2>2, <2>3, <2>4, <2>5, NextSplit DEF vars
<1>3. PageInv => PendingQueuedOnce
  BY DEF PageInv, PendingQueuedOnce
<1> QED BY <1>1, <1>2, <1>3, TypesAtInit, TypesKept, JobsAtInit, JobsKept, PTL DEF Spec
-----------------------------------------------------------------------------
(***************************************************************************)
(* The chain of steps.                                                     *)
(***************************************************************************)
PastCheck(s) == request[s] \in {"checked", "stored"}

\* Of two requests past their checks for one parent, one met the other.
ForkInv ==
    \A s, q \in Steps :
        s # q /\ PastCheck(s) /\ PastCheck(q) /\ parent[s] = parent[q] /\ parent[s] # None =>
            s \in met[q] \/ q \in met[s]

\* A parent gets two children only from requests that overlapped.
THEOREM Forks == Spec => []ForkNeedsOverlap
<1> USE AutomationAssumption
<1>1. Init => ForkInv
  BY DEF Init, ForkInv, PastCheck
<1>2. TypeOK /\ JobInv /\ ForkInv /\ [Next]_vars => ForkInv'
  <2> SUFFICES ASSUME TypeOK, JobInv, ForkInv, [Next]_vars PROVE ForkInv'
    OBVIOUS
  <2>1. CASE UNCHANGED <<request, parent, met>>
    BY <2>1 DEF ForkInv, PastCheck
  <2>2. ASSUME NEW s \in Steps, ChainStep(s) PROVE ForkInv'
    <3>1. CASE InsertStep(s)
      BY <3>1 DEF InsertStep, ForkInv, PastCheck, TypeOK
    <3>2. CASE RefuseStep(s)
      BY <3>2 DEF RefuseStep, ForkInv, PastCheck, TypeOK
    <3>3. CASE CheckStep(s)
      <4>1. PICK p \in Steps \cup {None} : ParentIsFree(p) /\ parent' = [parent EXCEPT ![s] = p]
        BY <3>3 DEF CheckStep
      <4>2. /\ request' = [request EXCEPT ![s] = "checked"]
            /\ met' = [met EXCEPT ![s] = {q \in Steps : request[q] = "checked"}]
        BY <3>3 DEF CheckStep
      <4>3. ASSUME NEW q \in Steps, q # s, PastCheck(q), parent[q] = p, p # None
            PROVE  q \in met'[s]
        BY <4>1, <4>2, <4>3 DEF ParentIsFree, ChildrenOf, Stored, PastCheck, TypeOK
      <4>4. /\ parent'[s] = p
            /\ \A q \in Steps \ {s} : /\ parent'[q] = parent[q] /\ met'[q] = met[q]
                                      /\ PastCheck(q)' <=> PastCheck(q)
        BY <4>1, <4>2 DEF TypeOK, PastCheck
      <4> SUFFICES ASSUME NEW a \in Steps, NEW b \in Steps, a # b, PastCheck(a)', PastCheck(b)',
                          parent'[a] = parent'[b], parent'[a] # None
                   PROVE  a \in met'[b] \/ b \in met'[a]
        BY DEF ForkInv, PastCheck
      <4>5. CASE a # s /\ b # s
        BY <4>4, <4>5 DEF ForkInv
      <4>6. CASE a = s \/ b = s
        BY <4>3, <4>4, <4>6
      <4> QED BY <4>5, <4>6
    <3> QED BY <2>2, <3>1, <3>2, <3>3 DEF ChainStep
  <2>3. ASSUME NEW a \in Automations, StoreAutomation(a) PROVE UNCHANGED <<request, parent, met>>
    BY <2>3 DEF StoreAutomation
  <2>4. ASSUME NEW t \in Triggers, TriggerStep(t) PROVE UNCHANGED <<request, parent, met>>
    BY <2>4, TriggerMoves DEF chain
  <2>5. ASSUME NEW j \in StepJobs, RunnerStep(j) PROVE UNCHANGED <<request, parent, met>>
    BY <2>5, RunnerMoves DEF chain
  <2>6. BulkStep => UNCHANGED <<request, parent, met>>
    BY BulkLeavesJobs DEF chain
  <2> QED BY <2>1, <2>2, <2>3, <2>4, <2>5, <2>6, NextSplit DEF vars, chain
<1>3. ForkInv => ForkNeedsOverlap
  BY DEF ForkInv, PastCheck, ForkNeedsOverlap, Stored
<1> QED BY <1>1, <1>2, <1>3, TypesAtInit, TypesKept, JobsAtInit, JobsKept, PTL DEF Spec
-----------------------------------------------------------------------------
(***************************************************************************)
(* The two halves of a producer: its row and its job.                      *)
(***************************************************************************)

\* An execution past the queueing of its job, or a committed row, has the job;
\* executions to come have none yet.
SlotInv ==
    /\ \A t \in Triggers : triggerJob[t].state \in {"commit", "finish"} =>
           Exists(stepJob[JobOf(t)])
    /\ \A j \in committed : Exists(stepJob[j])
    /\ \A j \in StepJobs :
           LET job == triggerJob[j.trigger] IN
           Exists(stepJob[j]) =>
               /\ Exists(job)
               /\ j.run <= job.stalls
               /\ job.state \in {"waiting", "find", "begin", "add"} => j.run < job.stalls

\* The moves of a trigger job, by where it is.
LEMMA TriggerCases ==
    ASSUME JobInv, NEW t \in Triggers, TriggerStep(t)
    PROVE  LET job == triggerJob[t]
               new == triggerJob'[t]
           IN  \/ ~Exists(job) /\ new.state = "waiting"
               \/ /\ Exists(job) /\ Exists(new) /\ new.stalls = job.stalls
                  /\ job.state \in {"waiting", "find", "begin"}
                  /\ new.state \in {"find", "begin", "add", "completed"}
                  /\ UNCHANGED <<stepJob, committed>>
               \/ /\ Exists(job) /\ Exists(new) /\ new.stalls = job.stalls
                  /\ AddStepJob(t) /\ job.state = "add" /\ new.state = "commit"
               \/ /\ Exists(job) /\ Exists(new) /\ new.stalls = job.stalls
                  /\ CommitRow(t) /\ job.state = "commit" /\ new.state = "finish"
               \/ /\ Exists(job) /\ Exists(new) /\ new.stalls = job.stalls
                  /\ new.state \in {"completed", "failed"}
                  /\ UNCHANGED <<stepJob, committed>>
               \/ /\ Exists(job) /\ Exists(new) /\ new.stalls = job.stalls + 1
                  /\ new.state = "waiting"
                  /\ UNCHANGED <<stepJob, committed>>
<1> DEFINE job == triggerJob[t]
<1>1. CASE AddTrigger(t)
  BY <1>1 DEF AddTrigger, JobInv, Added
<1>2. CASE ~AddTrigger(t)
  <2>1. job \in LiveRecords(TriggerSteps, 1) /\ ~IsSettled(job) /\ Exists(job)
    BY <1>2 DEF JobInv, TriggerStep, TakeTrigger, FindNextStep, InsertCompletedRow, AddStepJob,
           CommitRow, FinishTrigger, FailTrigger, StallTrigger, IsActive, IsSettled,
           Exists, Settled
  <2>2. /\ \A step \in TriggerSteps : At(job, step).state = step /\ At(job, step).stalls = job.stalls
        /\ Complete(job).state = "completed" /\ Complete(job).stalls = job.stalls
    <3>1. Complete(job).stalls = job.stalls
      BY <2>1 DEF Complete, LiveRecords, JobRecords
    <3> QED BY <2>1, <3>1, Moves
  <2>3. triggerJob \in [Triggers -> LiveRecords(TriggerSteps, 1)]
    BY DEF JobInv
  <2>4. CASE TakeTrigger(t) \/ FindNextStep(t) \/ InsertCompletedRow(t)
    BY <2>1, <2>2, <2>3, <2>4 DEF TakeTrigger, FindNextStep, InsertCompletedRow, TriggerSteps,
       Exists, runner
  <2>5. CASE AddStepJob(t) \/ CommitRow(t)
    BY <2>1, <2>2, <2>3, <2>5 DEF AddStepJob, CommitRow, TriggerSteps, Exists
  <2>6. CASE FinishTrigger(t)
    BY <2>1, <2>2, <2>3, <2>6 DEF FinishTrigger, Exists, runner
  <2>7. CASE FailTrigger(t) \/ StallTrigger(t)
    BY <2>1, <2>3, <2>7, Moves DEF FailTrigger, StallTrigger, Exists, runner
  <2> QED BY <1>2, <2>4, <2>5, <2>6, <2>7 DEF TriggerStep
<1> QED BY <1>1, <1>2

\* The step job of an execution is new when it is added.
LEMMA SlotIsFree ==
    ASSUME JobInv, SlotInv, NEW t \in Triggers, AddStepJob(t)
    PROVE  /\ JobOf(t) \in StepJobs /\ JobOf(t).trigger = t
           /\ ~Exists(stepJob[JobOf(t)]) /\ JobOf(t) \notin committed
<1>1. JobOf(t) \in StepJobs /\ JobOf(t).trigger = t /\ JobOf(t).run = triggerJob[t].stalls
  BY JobOfTrigger DEF JobOf
<1>2. triggerJob[t].stalls \in Nat
  BY MaxStalledAssumption DEF JobInv, LiveRecords, JobRecords
<1>3. ~Exists(stepJob[JobOf(t)])
  BY <1>1, <1>2 DEF SlotInv, AddStepJob
<1> QED BY <1>1, <1>3 DEF SlotInv

\* Every step keeps the slots.
LEMMA SlotsKept ==
    ASSUME TypeOK, JobInv, SlotInv, [Next]_vars
    PROVE  SlotInv'
<1>1. CASE UNCHANGED <<triggerJob, stepJob, committed>>
  BY <1>1 DEF SlotInv, JobOf
<1>2. ASSUME NEW t \in Triggers, TriggerStep(t) PROVE SlotInv'
  <2> DEFINE job == triggerJob[t]
             new == triggerJob'[t]
  <2>1. /\ triggerJob \in [Triggers -> LiveRecords(TriggerSteps, 1)]
        /\ triggerJob' = [triggerJob EXCEPT ![t] = triggerJob'[t]]
        /\ \A u \in Triggers \ {t} : triggerJob'[u] = triggerJob[u]
    BY <1>2, TriggerMoves DEF JobInv
  <2>2. /\ \A j \in StepJobs : j.trigger \in Triggers /\ j.run \in Nat
        /\ \A u \in Triggers : triggerJob[u].stalls \in Nat
    BY <2>1, MaxStalledAssumption DEF StepJobs, LiveRecords, JobRecords
  <2>3. /\ \A u \in Triggers : JobOf(u) \in StepJobs
        /\ \A u \in Triggers \ {t} : JobOf(u)' = JobOf(u)
    BY <2>1, JobOfTrigger DEF JobOf
  <2>4. CASE ~Exists(job) /\ new.state = "waiting"
    <3>1. UNCHANGED <<stepJob, committed>>
      BY <1>2, <2>4, TriggerAdds DEF AddStepJob, CommitRow, Exists, TriggerStep, AddTrigger,
         TakeTrigger, FindNextStep, InsertCompletedRow, FinishTrigger, FailTrigger,
         StallTrigger, runner
    <3>2. \A j \in StepJobs : j.trigger = t => ~Exists(stepJob[j])
      BY <2>4 DEF SlotInv
    <3> QED BY <2>1, <2>2, <2>3, <2>4, <3>1, <3>2 DEF SlotInv
  <2>5. CASE AddStepJob(t) /\ Exists(job) /\ Exists(new) /\ new.stalls = job.stalls
             /\ job.state = "add" /\ new.state = "commit"
    <3>1. JobOf(t)' = JobOf(t)
      BY <2>5 DEF JobOf
    <3>2. /\ stepJob' = [stepJob EXCEPT ![JobOf(t)] = Added] /\ UNCHANGED committed
          /\ stepJob'[JobOf(t)] = Added
          /\ \A j \in StepJobs \ {JobOf(t)} : stepJob'[j] = stepJob[j]
      BY <2>3, <2>5 DEF AddStepJob, JobInv
    <3>3. Exists(Added) /\ JobOf(t).trigger = t /\ JobOf(t).run = job.stalls
      BY DEF Exists, Added, JobOf
    <3>4. committed \subseteq StepJobs
      BY DEF TypeOK
    <3>5. \A u \in Triggers : triggerJob'[u].state \in {"commit", "finish"} =>
              Exists(stepJob'[JobOf(u)'])
      BY <2>1, <2>3, <3>1, <3>2, <3>3 DEF SlotInv
    <3>6. \A j \in committed' : Exists(stepJob'[j])
      BY <3>2, <3>3, <3>4 DEF SlotInv
    <3>7. ASSUME NEW j \in StepJobs, Exists(stepJob'[j])
          PROVE  /\ Exists(triggerJob'[j.trigger])
                 /\ j.run <= triggerJob'[j.trigger].stalls
                 /\ triggerJob'[j.trigger].state \in {"waiting", "find", "begin", "add"} =>
                        j.run < triggerJob'[j.trigger].stalls
      <4>1. CASE j.trigger = t
        BY <2>2, <2>5, <3>2, <3>3, <3>7, <4>1 DEF SlotInv
      <4>2. CASE j.trigger # t
        BY <2>1, <2>2, <3>2, <3>3, <3>7, <4>2 DEF SlotInv
      <4> QED BY <4>1, <4>2
    <3> QED BY <3>5, <3>6, <3>7 DEF SlotInv
  <2>6. CASE CommitRow(t) /\ Exists(job) /\ Exists(new) /\ new.stalls = job.stalls
             /\ job.state = "commit" /\ new.state = "finish"
    <3>1. JobOf(t)' = JobOf(t)
      BY <2>6 DEF JobOf
    <3>2. UNCHANGED stepJob /\ committed' = committed \cup {JobOf(t)}
      BY <2>6 DEF CommitRow
    <3>3. Exists(stepJob[JobOf(t)])
      BY <2>6 DEF SlotInv
    <3> QED BY <2>1, <2>2, <2>3, <2>6, <3>1, <3>2, <3>3 DEF SlotInv
  <2>7. CASE /\ Exists(job) /\ Exists(new) /\ new.stalls = job.stalls
             /\ \/ job.state \in {"waiting", "find", "begin"}
                   /\ new.state \in {"find", "begin", "add", "completed"}
                \/ new.state \in {"completed", "failed"}
             /\ UNCHANGED <<stepJob, committed>>
    BY <2>1, <2>2, <2>3, <2>7 DEF SlotInv
  <2>8. CASE /\ Exists(job) /\ Exists(new) /\ new.stalls = job.stalls + 1
             /\ new.state = "waiting" /\ UNCHANGED <<stepJob, committed>>
    BY <2>1, <2>2, <2>3, <2>8 DEF SlotInv
  <2> QED BY <1>2, <2>4, <2>5, <2>6, <2>7, <2>8, TriggerCases
<1>3. ASSUME NEW j \in StepJobs, RunnerStep(j) PROVE SlotInv'
  <2>1. /\ UNCHANGED <<triggerJob, committed>>
        /\ \A i \in StepJobs : Exists(stepJob'[i]) <=> Exists(stepJob[i])
    BY <1>3, RunnerMoves DEF producer, JobInv
  <2>2. /\ \A t \in Triggers : JobOf(t) \in StepJobs /\ JobOf(t)' = JobOf(t)
        /\ committed \subseteq StepJobs
    BY <2>1, JobOfTrigger DEF JobOf, TypeOK
  <2> QED BY <2>1, <2>2 DEF SlotInv
<1>4. ASSUME NEW a, ChainStep(a) \/ StoreAutomation(a)
      PROVE  UNCHANGED <<triggerJob, stepJob, committed>>
  BY <1>4, ApiLeavesJobs DEF producer, runner
<1>5. BulkStep => UNCHANGED <<triggerJob, stepJob, committed>>
  BY BulkLeavesJobs DEF producer, runner
<1> QED BY <1>1, <1>2, <1>3, <1>4, <1>5, NextSplit DEF vars, producer, runner

\* At first there is nothing.
LEMMA SlotsAtInit == Init => SlotInv
  BY DEF Init, SlotInv, NoJob, Exists

\* A contact recorded as having completed a step has a job for it.
THEOREM Announced == Spec => []AnnouncedIsQueued
<1>1. SlotInv => AnnouncedIsQueued
  BY DEF SlotInv, AnnouncedIsQueued
<1> QED BY <1>1, TypesAtInit, TypesKept, JobsAtInit, JobsKept, SlotsAtInit, SlotsKept, PTL DEF Spec

\* Once its producer's row is committed, a job does not start its step.
THEOREM RecordedIsPassedOver == Spec => OnlyUncommittedRun
<1>1. JobInv /\ [Next]_vars =>
          [\A j \in StepJobs :
              stepJob[j].state = "read" /\ stepJob'[j].state = "act" => j \notin committed]_vars
  <2> SUFFICES ASSUME JobInv, Next, NEW j \in StepJobs,
                      stepJob[j].state = "read", stepJob'[j].state = "act"
               PROVE  j \notin committed
    OBVIOUS
  <2>1. ASSUME NEW t \in Triggers, TriggerStep(t) PROVE FALSE
    <3>1. CASE stepJob' = [stepJob EXCEPT ![JobOf(t)] = Added]
      BY <3>1 DEF JobInv, Added
    <3> QED BY <2>1, <3>1, TriggerAdds
  <2>2. ASSUME NEW i \in StepJobs, RunnerStep(i) PROVE j \notin committed
    <3>1. i = j
      BY <2>2, RunnerMoves DEF JobInv
    <3>2. stepJob[j] \in LiveRecords(RunnerSteps, 1) /\ ~IsSettled(stepJob[j])
      BY DEF JobInv, IsSettled, Settled
    <3>3. CASE ReadRow(j)
      BY <3>2, <3>3, Moves DEF ReadRow, HasRow, JobInv
    <3>4. CASE FailStep(j) \/ StallStep(j)
      <4>1. stepJob'[j] \in {AttemptFailed(stepJob[j], 1), Stall(stepJob[j])}
        BY <3>4 DEF FailStep, StallStep, GiveUp, JobInv
      <4>2. stepJob'[j].state \in {"failed", "waiting"}
        BY <3>2, <4>1, Moves
      <4> QED BY <4>2
    <3> QED BY <2>2, <3>1, <3>3, <3>4 DEF RunnerStep, TakeStep, SendEmail, MarkMail, AddTag,
               AttachTag, RemoveTag, RecordStep, FinishStep
  <2>3. ASSUME NEW a, ChainStep(a) \/ StoreAutomation(a) PROVE FALSE
    BY <2>3, ApiLeavesJobs DEF runner
  <2>4. BulkStep => FALSE
    BY BulkLeavesJobs DEF runner
  <2> QED BY <2>1, <2>2, <2>3, <2>4, NextSplit
<1> QED BY <1>1, TypesAtInit, TypesKept, JobsAtInit, JobsKept, PTL DEF Spec, OnlyUncommittedRun
-----------------------------------------------------------------------------
(***************************************************************************)
(* How often a runner acts.                                                *)
(***************************************************************************)

\* A pair that no execution was lost for, and that no two were busy with.
Calm(k) == k \notin cutOff /\ k \notin crowded

Busy(j) == stepJob[j].state \in {"act", "attach", "mark", "record"}

\* Of a calm pair at most one execution is busy with it; before it acts nobody
\* has; and after the act it is either still busy or has left a row.
ActOf(k) ==
    Calm(k) =>
        /\ \A i, j \in StepJobs : Busy(i) /\ Busy(j) /\ PairOf(i) = k /\ PairOf(j) = k => i = j
        /\ \A j \in StepJobs :
               stepJob[j].state \in {"act", "attach"} /\ PairOf(j) = k => effects[k] = 0
        /\ effects[k] <= 1
        /\ effects[k] = 1 =>
               \/ k \in recorded
               \/ \E j \in StepJobs : stepJob[j].state \in {"mark", "record"} /\ PairOf(j) = k

ActInv == \A k \in Pairs : ActOf(k)

\* A step that changes neither the busy executions of a pair nor its history.
LEMMA PairUntouched ==
    ASSUME NEW k, ActOf(k), effects'[k] = effects[k],
           k \in cutOff' <=> k \in cutOff, k \in crowded' <=> k \in crowded,
           k \in recorded => k \in recorded',
           \A j \in StepJobs :
               (Busy(j) /\ PairOf(j) = k) \/ (Busy(j)' /\ PairOf(j)' = k) =>
                   stepJob'[j].state = stepJob[j].state /\ PairOf(j)' = PairOf(j)
    PROVE  ActOf(k)'
<1> SUFFICES ASSUME Calm(k)'
             PROVE  ActOf(k)'
  BY DEF ActOf
<1>1. Calm(k)
  BY DEF Calm
<1>2. \A j \in StepJobs : Busy(j)' /\ PairOf(j)' = k =>
          stepJob'[j].state = stepJob[j].state /\ PairOf(j) = k /\ Busy(j)
  BY DEF Busy
<1>3. \A j \in StepJobs : Busy(j) /\ PairOf(j) = k =>
          stepJob'[j].state = stepJob[j].state /\ PairOf(j)' = k /\ Busy(j)'
  <2> SUFFICES ASSUME NEW j \in StepJobs, Busy(j), PairOf(j) = k
               PROVE  stepJob'[j].state = stepJob[j].state /\ PairOf(j)' = k /\ Busy(j)'
    OBVIOUS
  <2>1. stepJob'[j].state = stepJob[j].state /\ PairOf(j)' = PairOf(j)
    OBVIOUS
  <2>2. Busy(j)'
    BY <2>1 DEF Busy
  <2> QED BY <2>1, <2>2
<1>4. \A i, j \in StepJobs :
          Busy(i)' /\ Busy(j)' /\ PairOf(i)' = k /\ PairOf(j)' = k => i = j
  <2> SUFFICES ASSUME NEW i \in StepJobs, NEW j \in StepJobs, Busy(i)', Busy(j)',
                      PairOf(i)' = k, PairOf(j)' = k
               PROVE  i = j
    OBVIOUS
  <2>1. Busy(i) /\ Busy(j) /\ PairOf(i) = k /\ PairOf(j) = k
    BY <1>2
  <2> QED BY <1>1, <2>1 DEF ActOf
<1>5. \A j \in StepJobs :
          stepJob'[j].state \in {"act", "attach"} /\ PairOf(j)' = k => effects'[k] = 0
  BY <1>1, <1>2 DEF ActOf, Busy
<1>6. effects'[k] = 1 =>
          \/ k \in recorded'
          \/ \E j \in StepJobs : stepJob'[j].state \in {"mark", "record"} /\ PairOf(j)' = k
  BY <1>1, <1>3 DEF ActOf, Busy
<1> QED BY <1>1, <1>4, <1>5, <1>6 DEF ActOf

\* The pair that a step job is about.
LEMMA RunnerKeepsPair ==
    ASSUME TypeOK, JobInv, ActInv, NEW j \in StepJobs, RunnerStep(j),
           NEW k, k = PairOf(j)
    PROVE  ActOf(k)'
<1> USE AutomationAssumption
<1> DEFINE from == stepJob[j].state
           to == stepJob'[j].state
<1>1. /\ stepJob[j] \in LiveRecords(RunnerSteps, 1) /\ ~IsSettled(stepJob[j])
      /\ stepJob \in [StepJobs -> LiveRecords(RunnerSteps, 1)]
      /\ \A i \in StepJobs \ {j} : stepJob'[i] = stepJob[i]
  <2>1. ~IsSettled(stepJob[j])
    BY DEF RunnerStep, TakeStep, ReadRow, SendEmail, MarkMail, AddTag, AttachTag,
           RemoveTag, RecordStep, FinishStep, FailStep, StallStep, GiveUp, IsActive,
           IsSettled, Settled
  <2> QED BY <2>1, RunnerMoves DEF JobInv
<1>2. /\ \A i \in StepJobs : PairOf(i)' = PairOf(i)
      /\ k \in Pairs
  BY RunnerMoves DEF PairOf, Pairs, StepJobs
<1>3. ActOf(k) /\ effects[k] \in Nat /\ PairOf(j)' = k
  BY <1>2 DEF ActInv, TypeOK
<1>4. \A step \in RunnerSteps : At(stepJob[j], step).state = step
  BY <1>1 DEF At, LiveRecords, JobRecords
<1>5. CASE TakeStep(j) \/ FinishStep(j) \/ (ReadRow(j) /\ HasRow(k))
  <2>1. ~Busy(j)
    BY <1>5 DEF TakeStep, FinishStep, ReadRow, Busy
  <2>2. Complete(stepJob[j]).state = "completed"
    BY <1>1, Moves
  <2>3. to \in {"read", "completed"}
    BY <1>1, <1>4, <1>5, <2>2 DEF TakeStep, FinishStep, ReadRow, MovesTo, RunnerSteps
  <2>4. UNCHANGED <<effects, cutOff, crowded, recorded>>
    BY <1>5 DEF TakeStep, FinishStep, ReadRow, MovesTo
  <2> QED BY <1>1, <1>2, <1>3, <2>1, <2>3, <2>4, PairUntouched DEF Busy
<1>6. CASE ReadRow(j) /\ ~HasRow(k)
  <2>1. /\ to = "act" /\ UNCHANGED <<effects, cutOff, recorded>>
        /\ crowded' = IF BusyWith(k) = {} THEN crowded ELSE crowded \cup {k}
        /\ k \notin recorded
    BY <1>1, <1>4, <1>6 DEF ReadRow, RunnerSteps, HasRow
  <2>2. CASE BusyWith(k) # {}
    BY <1>3, <2>1, <2>2 DEF ActOf, Calm
  <2>3. CASE BusyWith(k) = {}
    <3>1. \A i \in StepJobs : ~(Busy(i) /\ PairOf(i) = k)
      BY <2>3 DEF BusyWith, Busy
    <3>2. Calm(k) => effects[k] = 0
      BY <1>3, <2>1, <3>1 DEF ActOf, Busy
    <3> QED BY <1>1, <1>2, <1>3, <2>1, <2>3, <3>1, <3>2 DEF ActOf, Calm, Busy
  <2> QED BY <2>2, <2>3
<1>7. CASE MarkMail(j) \/ (AddTag(j) /\ UNCHANGED effects) \/ (SendEmail(j) /\ UNCHANGED effects)
  <2>1. /\ from \in {"act", "mark"} /\ to \in {"attach", "record"}
        /\ from = "mark" => to = "record"
        /\ UNCHANGED <<effects, cutOff, crowded, recorded>>
    <3>1. ~Acted(j, "mark") \/ ~UNCHANGED effects
      BY <1>2, <1>3 DEF Acted, TypeOK
    <3> QED BY <1>1, <1>4, <1>7, <3>1 DEF MarkMail, AddTag, SendEmail, MovesTo, RunnerSteps
  <2> QED BY <1>1, <1>2, <1>3, <2>1 DEF ActOf, Calm, Busy
<1>8. CASE (SendEmail(j) /\ Acted(j, "mark")) \/ AttachTag(j) \/ RemoveTag(j)
  <2>1. /\ from \in {"act", "attach"} /\ to \in {"mark", "record"}
        /\ effects'[k] = effects[k] + 1
        /\ UNCHANGED <<cutOff, crowded, recorded>>
    BY <1>1, <1>2, <1>4, <1>8
    DEF SendEmail, AttachTag, RemoveTag, Acted, RunnerSteps, TypeOK
  <2> QED BY <1>1, <1>2, <1>3, <2>1 DEF ActOf, Calm, Busy
<1>9. CASE RecordStep(j)
  <2>1. /\ from = "record" /\ to = "finish" /\ UNCHANGED <<effects, cutOff, crowded>>
        /\ recorded' = recorded \cup {k}
    BY <1>1, <1>4, <1>9 DEF RecordStep, RunnerSteps
  <2> QED BY <1>1, <1>2, <1>3, <2>1 DEF ActOf, Calm, Busy
<1>10. CASE FailStep(j) \/ StallStep(j)
  <2>1. /\ to \in {"failed", "waiting"} /\ UNCHANGED <<effects, recorded, crowded>>
        /\ cutOff' = IF from \in {"mark", "record"} THEN cutOff \cup {k} ELSE cutOff
    BY <1>1, <1>10, Moves DEF FailStep, StallStep, GiveUp
  <2>2. CASE from \in {"mark", "record"}
    BY <1>2, <2>1, <2>2 DEF ActOf, Calm
  <2>3. CASE from \notin {"mark", "record"}
    BY <1>1, <1>2, <1>3, <2>1, <2>3 DEF ActOf, Calm, Busy
  <2> QED BY <2>2, <2>3
<1>11. AddTag(j) => UNCHANGED effects
  BY DEF AddTag, MovesTo
<1>12. SendEmail(j) => UNCHANGED effects \/ Acted(j, "mark")
  BY DEF SendEmail, MovesTo
<1> QED BY <1>5, <1>6, <1>7, <1>8, <1>9, <1>10, <1>11, <1>12 DEF RunnerStep

\* What a runner does to one pair it does not do to another.
LEMMA RunnerKeepsOthers ==
    ASSUME TypeOK, JobInv, ActInv, NEW j \in StepJobs, RunnerStep(j),
           NEW q \in Pairs, q # PairOf(j)
    PROVE  ActOf(q)'
<1>1. /\ \A i \in StepJobs \ {j} : stepJob'[i] = stepJob[i]
      /\ \A i \in StepJobs : PairOf(i)' = PairOf(i)
      /\ PairOf(j) \in Pairs
  BY RunnerMoves, AutomationAssumption DEF PairOf, JobInv, Pairs, StepJobs
<1>2. /\ effects'[q] = effects[q] /\ (q \in cutOff' <=> q \in cutOff)
      /\ (q \in crowded' <=> q \in crowded) /\ (q \in recorded => q \in recorded')
  BY <1>1 DEF RunnerStep, TakeStep, ReadRow, SendEmail, MarkMail, AddTag, AttachTag, MovesTo,
         RemoveTag, RecordStep, FinishStep, FailStep, StallStep, GiveUp, Acted, TypeOK
<1> QED BY <1>1, <1>2, PairUntouched DEF ActInv

\* A runner acts twice on a contact only after a loss, or beside another.
THEOREM Repeats == Spec => []RepeatNeedsLoss
<1> USE AutomationAssumption
<1>1. Init => ActInv
  BY DEF Init, ActInv, ActOf, Busy, NoJob
<1>2. TypeOK /\ JobInv /\ SlotInv /\ ActInv /\ [Next]_vars => ActInv'
  <2> SUFFICES ASSUME TypeOK, JobInv, SlotInv, ActInv, [Next]_vars PROVE ActInv'
    OBVIOUS
  <2>1. CASE UNCHANGED runner
    BY <2>1 DEF ActInv, ActOf, Calm, Busy, PairOf, runner
  <2>2. ASSUME NEW t \in Triggers, TriggerStep(t) PROVE ActInv'
    <3>1. UNCHANGED <<recorded, effects, cutOff, crowded>>
      BY <2>2, TriggerMoves
    <3>2. CASE AddStepJob(t)
      <4>1. /\ JobOf(t) \in StepJobs /\ ~Exists(stepJob[JobOf(t)])
            /\ stepJob' = [stepJob EXCEPT ![JobOf(t)] = Added]
            /\ stepOf' = [stepOf EXCEPT ![JobOf(t)] = next[t]]
        BY <3>2, SlotIsFree DEF AddStepJob
      <4>2. /\ ~Busy(JobOf(t)) /\ stepJob'[JobOf(t)].state = "waiting"
            /\ \A j \in StepJobs \ {JobOf(t)} :
                   stepJob'[j] = stepJob[j] /\ PairOf(j)' = PairOf(j)
        BY <4>1 DEF Busy, Exists, Added, PairOf, TypeOK, JobInv
      <4>3. \A j \in StepJobs : Busy(j) \/ Busy(j)' => j # JobOf(t)
        BY <4>2 DEF Busy
      <4> QED BY <3>1, <4>2, <4>3, PairUntouched DEF ActInv
    <3>3. CASE ~AddStepJob(t)
      BY <2>2, <3>1, <3>3, TriggerAdds DEF ActInv, ActOf, Calm, Busy, PairOf
    <3> QED BY <3>2, <3>3
  <2>3. ASSUME NEW j \in StepJobs, RunnerStep(j) PROVE ActInv'
    <3> SUFFICES ASSUME NEW q \in Pairs PROVE ActOf(q)'
      BY DEF ActInv, Pairs
    <3>1. CASE q = PairOf(j)
      BY <2>3, <3>1, RunnerKeepsPair
    <3>2. CASE q # PairOf(j)
      BY <2>3, <3>2, RunnerKeepsOthers
    <3> QED BY <3>1, <3>2
  <2>4. ASSUME NEW a, ChainStep(a) \/ StoreAutomation(a) PROVE UNCHANGED runner
    BY <2>4, ApiLeavesJobs
  <2>5. BulkStep => UNCHANGED runner
    BY BulkLeavesJobs
  <2> QED BY <2>1, <2>2, <2>3, <2>4, <2>5, NextSplit DEF vars
<1>3. TypeOK /\ ActInv => RepeatNeedsLoss
  BY DEF TypeOK, ActInv, ActOf, Calm, RepeatNeedsLoss
<1> QED BY <1>1, <1>2, <1>3, TypesAtInit, TypesKept, JobsAtInit, JobsKept, SlotsAtInit,
           SlotsKept, PTL DEF Spec
=============================================================================
