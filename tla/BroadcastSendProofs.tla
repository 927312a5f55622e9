------------------------- MODULE BroadcastSendProofs -------------------------
(***************************************************************************)
(* Theorems about BroadcastSend, for all requests, contacts, audiences,    *)
(* batch sizes, numbers of attempts, stalls and workers.                   *)
(***************************************************************************)
EXTENDS BroadcastSend, FiniteSetTheorems, TLAPS

\* TypeOK alone is not inductive: a job that is not settled must have an
\* attempt left, or a failed attempt would leave the range of its counter.
TypeInv ==
    /\ TypeOK
    /\ fanOut \in [Requests -> LiveRecords(FanOutSteps, 1)]
    /\ contactJob \in [ContactJobs -> LiveRecords(ContactSteps, Attempts)]

\* The row that is committed and the row that the session sees: they differ only
\* while a transaction is open, and in one direction.
RowInv ==
    /\ ~open => stored = Seen
    /\ stored.status # "DRAFT" => status # "DRAFT"
    /\ stored.status = "DELETED" => status = "DELETED"

\* How a request, its fan-out job and the row hang together.
RequestInv ==
    /\ \A r \in Requests :
        /\ request[r] \in {"idle", "read", "rejected"} => fanOut[r] = NoJob
        /\ request[r] \in {"added", "answered", "accepted", "undone"} => Exists(fanOut[r])
        /\ request[r] = "answered" => open /\ status # "DRAFT"
        /\ request[r] = "accepted" => stored.status # "DRAFT"
    /\ status = "QUEUED_FOR_SENDING" =>
           \E r \in Requests : request[r] \in {"answered", "accepted"}
    /\ stored.status = "QUEUED_FOR_SENDING" =>
           \E r \in Requests : request[r] = "accepted"
    /\ \A r, q \in Requests :
        /\ r # q
        /\ request[r] \in {"read", "added", "answered", "accepted"}
        /\ request[q] \in {"read", "added", "answered", "accepted"}
        => r \in inFlight[q] \/ q \in inFlight[r]

\* The contact jobs that the next page of a fan-out execution can add are new.
Ahead(k) ==
    LET r == k.request IN
    CASE fanOut[r].state \in {"none", "waiting", "find"} -> k.run >= fanOut[r].stalls
      [] fanOut[r].state = "page" ->
             \/ k.run > fanOut[r].stalls
             \/ k.run = fanOut[r].stalls /\ k.page >= cursor[r].page
      [] OTHER -> FALSE

FreshInv == \A k \in ContactJobs : Ahead(k) => contactJob[k] = NoJob

\* What the counters of a contact job say about its mails and its keys.
Sound(job, m, n) ==
    /\ n <= m
    /\ job.state = "none" => job = NoJob /\ m = 0
    /\ job.state \in {"waiting", "find", "send"} => m <= job.made + job.stalls
    /\ job.state \in {"mark", "ack", "completed"} =>
           job.made < Attempts /\ m <= job.made + job.stalls + 1
    /\ job.state = "mark" => n < m
    /\ job.state \in {"ack", "completed"} => n > 0
    /\ job.state = "failed" =>
           \/ job.made = Attempts /\ m <= job.made + job.stalls
           \/ /\ job.stalls = MaxStalled
              /\ job.made < Attempts
              /\ m <= job.made + job.stalls + 1

ContactInv == \A k \in ContactJobs : Sound(contactJob[k], mails[k], marks[k])
-----------------------------------------------------------------------------
(***************************************************************************)
(* Facts about the operators of JobQueue, for every handler and every      *)
(* number of attempts.                                                     *)
(***************************************************************************)
\* A job that was just added, and no job, are live records.
LEMMA NewJobs ==
    ASSUME NEW steps, NEW attempts \in Nat \ {0}
    PROVE  /\ NoJob \in LiveRecords(steps, attempts)
           /\ Added \in LiveRecords(steps, attempts)
           /\ ~Exists(NoJob) /\ Exists(Added) /\ ~IsSettled(Added)
  BY MaxStalledAssumption
  DEF LiveRecords, JobRecords, NoJob, Added, Exists, IsSettled, Settled

\* Moving an unsettled job to a step, or completing it, changes its state only.
LEMMA MovedJob ==
    ASSUME NEW steps, NEW attempts \in Nat \ {0},
           NEW job \in LiveRecords(steps, attempts), ~IsSettled(job),
           NEW step \in steps
    PROVE  /\ At(job, step) \in LiveRecords(steps, attempts)
           /\ At(job, step) = [state |-> step, made |-> job.made, stalls |-> job.stalls]
           /\ Complete(job) \in LiveRecords(steps, attempts)
           /\ Complete(job) = [state |-> "completed", made |-> job.made, stalls |-> job.stalls]
  BY MaxStalledAssumption
  DEF LiveRecords, JobRecords, At, Complete, IsSettled, Settled

\* A failed attempt is counted; the job waits again, or is failed exactly when
\* it has used up its attempts.
LEMMA FailedJob ==
    ASSUME NEW steps, NEW attempts \in Nat \ {0},
           NEW job \in LiveRecords(steps, attempts), ~IsSettled(job)
    PROVE  /\ AttemptFailed(job, attempts) \in LiveRecords(steps, attempts)
           /\ AttemptFailed(job, attempts).made = job.made + 1
           /\ AttemptFailed(job, attempts).stalls = job.stalls
           /\ \/ AttemptFailed(job, attempts).state = "waiting"
              \/ /\ AttemptFailed(job, attempts).state = "failed"
                 /\ job.made + 1 = attempts
<1>1. /\ job.made \in Nat /\ job.made < attempts
      /\ job.stalls \in 0 .. MaxStalled
      /\ job \in JobRecords(steps, attempts)
  BY DEF LiveRecords, JobRecords
<1>3. job.made + 1 \in 0 .. attempts
  BY <1>1
<1>4. CASE job.made + 1 < attempts
  <2>1. AttemptFailed(job, attempts) =
            [state |-> "waiting", made |-> job.made + 1, stalls |-> job.stalls]
    BY <1>1, <1>4 DEF AttemptFailed, JobRecords
  <2>2. QED
    BY <1>1, <1>3, <1>4, <2>1 DEF LiveRecords, JobRecords
<1>5. CASE ~(job.made + 1 < attempts)
  <2>1. AttemptFailed(job, attempts) =
            [state |-> "failed", made |-> job.made + 1, stalls |-> job.stalls]
    BY <1>1, <1>5 DEF AttemptFailed, JobRecords
  <2>2. job.made + 1 = attempts
    BY <1>1, <1>5
  <2>3. QED
    BY <1>1, <1>3, <2>1, <2>2 DEF LiveRecords, JobRecords, IsSettled, Settled
<1>6. QED
  BY <1>4, <1>5

\* A stall leaves the attempts alone; the job waits again with one more stall,
\* or is failed exactly when it has used up its stalls.
LEMMA StalledJob ==
    ASSUME NEW steps, NEW attempts \in Nat \ {0},
           NEW job \in LiveRecords(steps, attempts), ~IsSettled(job)
    PROVE  /\ Stall(job) \in LiveRecords(steps, attempts)
           /\ Stall(job).made = job.made
           /\ \/ /\ Stall(job).state = "waiting"
                 /\ Stall(job).stalls = job.stalls + 1
              \/ /\ Stall(job).state = "failed"
                 /\ Stall(job).stalls = job.stalls
                 /\ job.stalls = MaxStalled
<1>1. /\ job.made \in 0 .. attempts /\ job.made < attempts
      /\ job.stalls \in 0 .. MaxStalled
      /\ job \in JobRecords(steps, attempts)
  BY DEF LiveRecords, JobRecords
<1>2. CASE job.stalls < MaxStalled
  <2>1. Stall(job) =
            [state |-> "waiting", made |-> job.made, stalls |-> job.stalls + 1]
    BY <1>1, <1>2 DEF Stall, JobRecords
  <2>2. job.stalls + 1 \in 0 .. MaxStalled
    BY <1>1, <1>2, MaxStalledAssumption
  <2>3. QED
    BY <1>1, <2>1, <2>2 DEF LiveRecords, JobRecords
<1>3. CASE ~(job.stalls < MaxStalled)
  <2>1. Stall(job) =
            [state |-> "failed", made |-> job.made, stalls |-> job.stalls]
    BY <1>1, <1>3 DEF Stall, JobRecords
  <2>2. job.stalls = MaxStalled
    BY <1>1, <1>3, MaxStalledAssumption
  <2>3. QED
    BY <1>1, <2>1, <2>2 DEF LiveRecords, JobRecords, IsSettled, Settled
<1>4. QED
  BY <1>2, <1>3
-----------------------------------------------------------------------------
LEMMA TypeInit == Init => TypeInv
<1> SUFFICES ASSUME Init PROVE TypeInv
  OBVIOUS
<1> USE ParameterAssumption
<1>1. /\ NoJob \in LiveRecords(FanOutSteps, 1)
      /\ NoJob \in LiveRecords(ContactSteps, Attempts)
  BY NewJobs
<1>2. /\ fanOut \in [Requests -> LiveRecords(FanOutSteps, 1)]
      /\ contactJob \in [ContactJobs -> LiveRecords(ContactSteps, Attempts)]
  BY <1>1 DEF Init
<1>3. /\ fanOut \in [Requests -> JobRecords(FanOutSteps, 1)]
      /\ contactJob \in [ContactJobs -> JobRecords(ContactSteps, Attempts)]
  BY <1>2 DEF LiveRecords
<1>4. /\ status \in Statuses
      /\ stored \in [status : Statuses, isAbTest : BOOLEAN, target : Audiences]
  BY DEF Init, Seen, Statuses
<1>5. /\ request \in [Requests -> {"idle", "read", "added", "answered", "accepted",
                                 "undone", "rejected", "lost"}]
      /\ name \in [Requests -> {"SEND_BROADCAST", "SEND_AB_TEST_BROADCAST"}]
      /\ cursor \in [Requests -> [audience : Audiences, page : 0 .. TotalBatches + 1]]
      /\ inFlight \in [Requests -> SUBSET Requests]
  BY DEF Init, TotalBatches
<1>6. QED
  BY <1>2, <1>3, <1>4, <1>5 DEF Init, TypeInv, TypeOK

\* The variables of a contact job after a step of it.
LEMMA ContactTypeStep ==
    ASSUME TypeInv, NEW k \in ContactJobs,
           ContactStep(k) \/ StallContact(k)
    PROVE  TypeInv'
<1> USE ParameterAssumption
<1> DEFINE Live == LiveRecords(ContactSteps, Attempts)
<1>1. /\ contactJob[k] \in Live
      /\ IsSettled(contactJob[k]) => ~ContactStep(k) /\ ~StallContact(k)
  BY DEF TypeInv, ContactStep, TakeContact, FindContact, MailAccepted, MarkSent,
         FinishContact, FailContact, StallContact, IsActive, IsSettled, Settled
<1>2. ~IsSettled(contactJob[k])
  BY <1>1
<1>3. /\ \A s \in ContactSteps : At(contactJob[k], s) \in Live
      /\ Complete(contactJob[k]) \in Live
      /\ AttemptFailed(contactJob[k], Attempts) \in Live
      /\ Stall(contactJob[k]) \in Live
  BY <1>1, <1>2, MovedJob, FailedJob, StalledJob DEF ContactSteps
<1>4. \E job \in Live : contactJob' = [contactJob EXCEPT ![k] = job]
  BY <1>3 DEF ContactStep, TakeContact, FindContact, MailAccepted, MarkSent,
         FinishContact, FailContact, StallContact, ContactSteps
<1>5. contactJob' \in [ContactJobs -> Live]
  BY <1>4 DEF TypeInv
<1>6. contactJob' \in [ContactJobs -> JobRecords(ContactSteps, Attempts)]
  BY <1>5 DEF LiveRecords
<1>7. /\ mails' \in [ContactJobs -> Nat]
      /\ marks' \in [ContactJobs -> Nat]
      /\ lateMails' \in Nat
  <2>1. /\ mails \in [ContactJobs -> Nat]
        /\ marks \in [ContactJobs -> Nat]
        /\ lateMails \in Nat
    BY DEF TypeInv, TypeOK
  <2>2. CASE MailAccepted(k)
    BY <2>1, <2>2 DEF MailAccepted
  <2>3. CASE MarkSent(k)
    BY <2>1, <2>3 DEF MarkSent
  <2>4. CASE ~MailAccepted(k) /\ ~MarkSent(k)
    BY <2>1, <2>4 DEF ContactStep, TakeContact, FindContact, FinishContact,
                      FailContact, StallContact
  <2>5. QED
    BY <2>2, <2>3, <2>4
<1>8. UNCHANGED <<row, matching, http, fanning>>
  BY DEF ContactStep, TakeContact, FindContact, MailAccepted, MarkSent,
         FinishContact, FailContact, StallContact
<1>9. QED
  BY <1>5, <1>6, <1>7, <1>8 DEF TypeInv, TypeOK, row, http, fanning

\* A step of a fan-out job that leaves the contact jobs alone.
LEMMA FanOutTypeStep ==
    ASSUME TypeInv, NEW r \in Requests,
           \/ TakeFanOut(r) \/ DropUnregistered(r) \/ FindBroadcast(r)
           \/ FinishFanOut(r) \/ FailFanOut(r) \/ StallFanOut(r)
    PROVE  TypeInv'
<1> DEFINE Live == LiveRecords(FanOutSteps, 1)
<1>1. /\ fanOut[r] \in Live
      /\ ~IsSettled(fanOut[r])
  BY DEF TypeInv, TakeFanOut, DropUnregistered, FindBroadcast, FinishFanOut,
         FailFanOut, StallFanOut, FanOutSteps, IsActive, IsSettled, Settled
<1>2. /\ \A s \in FanOutSteps : At(fanOut[r], s) \in Live
      /\ Complete(fanOut[r]) \in Live
      /\ AttemptFailed(fanOut[r], 1) \in Live
      /\ Stall(fanOut[r]) \in Live
  BY <1>1, MovedJob, FailedJob, StalledJob DEF FanOutSteps
<1>3. \E job \in Live : fanOut' = [fanOut EXCEPT ![r] = job]
  BY <1>2 DEF TakeFanOut, DropUnregistered, FindBroadcast, FinishFanOut,
              FailFanOut, StallFanOut, FanOutSteps
<1>4. fanOut' \in [Requests -> Live]
  BY <1>3 DEF TypeInv
<1>5. fanOut' \in [Requests -> JobRecords(FanOutSteps, 1)]
  BY <1>4 DEF LiveRecords
<1>6. cursor' \in [Requests -> [audience : Audiences, page : 0 .. TotalBatches + 1]]
  <2>1. /\ stored.target \in Audiences
        /\ cursor \in [Requests -> [audience : Audiences, page : 0 .. TotalBatches + 1]]
    BY DEF TypeInv, TypeOK
  <2>2. CASE FindBroadcast(r)
    BY <2>1, <2>2 DEF FindBroadcast, TotalBatches
  <2>3. CASE ~FindBroadcast(r)
    BY <2>1, <2>3 DEF TakeFanOut, DropUnregistered, FinishFanOut, FailFanOut,
                      StallFanOut
  <2>4. QED
    BY <2>2, <2>3
<1>7. UNCHANGED <<row, matching, http, mailing>>
  BY DEF TakeFanOut, DropUnregistered, FindBroadcast, FinishFanOut, FailFanOut,
         StallFanOut
<1>8. QED
  BY <1>4, <1>5, <1>6, <1>7 DEF TypeInv, TypeOK, row, http, mailing

LEMMA QueuePageType ==
    ASSUME TypeInv, NEW r \in Requests, QueuePage(r)
    PROVE  TypeInv'
<1> USE ParameterAssumption
<1>1. Added \in LiveRecords(ContactSteps, Attempts)
  BY NewJobs
<1>2. contactJob' \in [ContactJobs -> LiveRecords(ContactSteps, Attempts)]
  BY <1>1 DEF TypeInv, QueuePage
<1>3. contactJob' \in [ContactJobs -> JobRecords(ContactSteps, Attempts)]
  BY <1>2 DEF LiveRecords
<1>4. cursor' \in [Requests -> [audience : Audiences, page : 0 .. TotalBatches + 1]]
  <2>1. /\ cursor \in [Requests -> [audience : Audiences, page : 0 .. 2]]
        /\ cursor[r].page \in 0 .. 1
    BY DEF QueuePage, TypeInv, TypeOK, Pages, TotalBatches
  <2>2. cursor[r].page + 1 \in 0 .. 2
    BY <2>1
  <2>3. [cursor[r] EXCEPT !.page = @ + 1] \in [audience : Audiences, page : 0 .. 2]
    BY <2>1, <2>2
  <2>4. QED
    BY <2>1, <2>3 DEF QueuePage, TotalBatches
<1>5. QED
  BY <1>2, <1>3, <1>4 DEF QueuePage, TypeInv, TypeOK, row, http

LEMMA RequestTypeStep ==
    ASSUME TypeInv, NEW r \in Requests, SendRequest(r)
    PROVE  TypeInv'
<1>1. CASE AddFanOut(r)
  <2>1. Added \in LiveRecords(FanOutSteps, 1)
    BY NewJobs
  <2>2. fanOut' \in [Requests -> LiveRecords(FanOutSteps, 1)]
    BY <1>1, <2>1 DEF AddFanOut, TypeInv
  <2>3. fanOut' \in [Requests -> JobRecords(FanOutSteps, 1)]
    BY <2>2 DEF LiveRecords
  <2>4. QED
    BY <1>1, <2>2, <2>3 DEF AddFanOut, TypeInv, TypeOK, row, mailing
<1>2. CASE ReadForSend(r)
  <2>1. /\ request' \in [Requests -> {"idle", "read", "added", "answered", "accepted",
                                      "undone", "rejected", "lost"}]
        /\ name' \in [Requests -> {"SEND_BROADCAST", "SEND_AB_TEST_BROADCAST"}]
    BY <1>2 DEF ReadForSend, TypeInv, TypeOK
  <2>2. inFlight' \in [Requests -> SUBSET Requests]
    <3>1. UnderWay \in SUBSET Requests
      BY DEF UnderWay
    <3>2. QED
      BY <1>2, <3>1 DEF ReadForSend, TypeInv, TypeOK
  <2>3. UNCHANGED <<row, matching, fanning, mailing>>
    BY <1>2 DEF ReadForSend
  <2>4. QED
    BY <2>1, <2>2, <2>3 DEF TypeInv, TypeOK, row, fanning, mailing
<1>3. CASE MarkQueued(r)
  BY <1>3 DEF MarkQueued, Written, Seen, Statuses, TypeInv, TypeOK, fanning, mailing
<1>4. CASE LoseRequest(r)
  BY <1>4 DEF LoseRequest, TypeInv, TypeOK, row, fanning, mailing
<1>5. QED
  BY <1>1, <1>2, <1>3, <1>4 DEF SendRequest

LEMMA RowTypeStep ==
    ASSUME TypeInv,
           \/ Session \/ UpdateBroadcast \/ DeleteBroadcast
           \/ \E c \in Contacts : ContactChanges(c)
    PROVE  TypeInv'
<1>1. CASE UpdateBroadcast
  BY <1>1 DEF UpdateBroadcast, Written, Seen, TypeInv, TypeOK, http, fanning, mailing
<1>2. CASE DeleteBroadcast
  BY <1>2 DEF DeleteBroadcast, Written, Seen, Statuses, TypeInv, TypeOK, http, fanning,
              mailing
<1>3. CASE \E c \in Contacts : ContactChanges(c)
  BY <1>3 DEF ContactChanges, TypeInv, TypeOK, row, http, fanning, mailing
<1>4. CASE BeginTransaction \/ CommitTransaction
  <2>1. request' \in [Requests -> {"idle", "read", "added", "answered", "accepted",
                                   "undone", "rejected", "lost"}]
    BY <1>4 DEF BeginTransaction, CommitTransaction, Committed, TypeInv, TypeOK
  <2>2. /\ stored' \in [status : Statuses, isAbTest : BOOLEAN, target : Audiences]
        /\ open' \in BOOLEAN
    <3>1. stored' = Seen
      BY <1>4 DEF BeginTransaction, CommitTransaction, Committed
    <3>2. Seen \in [status : Statuses, isAbTest : BOOLEAN, target : Audiences]
      BY DEF Seen, TypeInv, TypeOK
    <3>3. open' = TRUE \/ open' = FALSE
      BY <1>4 DEF BeginTransaction, CommitTransaction
    <3>4. QED
      BY <3>1, <3>2, <3>3
  <2>3. UNCHANGED <<status, isAbTest, target, matching, name, inFlight, fanning, mailing>>
    BY <1>4 DEF BeginTransaction, CommitTransaction, Committed
  <2>4. QED
    BY <2>1, <2>2, <2>3 DEF TypeInv, TypeOK, fanning, mailing
<1>5. CASE RollbackTransaction
  BY <1>5 DEF RollbackTransaction, TypeInv, TypeOK, fanning, mailing
<1>6. QED
  BY <1>1, <1>2, <1>3, <1>4, <1>5 DEF Session

LEMMA TypeStep == TypeInv /\ [Next]_vars => TypeInv'
<1> SUFFICES ASSUME TypeInv, [Next]_vars PROVE TypeInv'
  OBVIOUS
<1>1. CASE Next
  BY <1>1, RequestTypeStep, RowTypeStep, FanOutTypeStep, QueuePageType, ContactTypeStep
  DEF Next, WorkerStep, FanOutStep
<1>2. CASE UNCHANGED vars
  BY <1>2 DEF vars, TypeInv, TypeOK, row, http, fanning, mailing
<1>3. QED
  BY <1>1, <1>2

\* The variables keep their types, for every value of the constants.
THEOREM TypeCorrect == SafeSpec => []TypeOK
<1>1. TypeInv => TypeOK
  BY DEF TypeInv
<1>2. QED
  BY TypeInit, TypeStep, <1>1, PTL DEF SafeSpec
-----------------------------------------------------------------------------
(***************************************************************************)
(* The requests.  A step of a worker can neither add nor remove a fan-out  *)
(* job and leaves the requests and the row alone.                          *)
(***************************************************************************)
LEMMA RequestInit == Init => RowInv /\ RequestInv
  BY DEF Init, RowInv, RequestInv, Seen

LEMMA WorkerKeepsRequests ==
    ASSUME TypeInv,
           \/ WorkerStep
           \/ \E r \in Requests : StallFanOut(r)
           \/ \E k \in ContactJobs : StallContact(k)
    PROVE  /\ UNCHANGED <<row, matching, http>>
           /\ fanOut' \in [Requests -> JobRecords(FanOutSteps, 1)]
           /\ \A r \in Requests : /\ Exists(fanOut[r]) => Exists(fanOut'[r])
                                  /\ ~Exists(fanOut[r]) => fanOut'[r] = fanOut[r]
<1>1. ASSUME NEW k \in ContactJobs, ContactStep(k) \/ StallContact(k)
      PROVE  UNCHANGED <<row, matching, http, fanOut>>
  BY <1>1 DEF ContactStep, TakeContact, FindContact, MailAccepted, MarkSent,
              FinishContact, FailContact, StallContact, fanning
<1>2. ASSUME NEW r \in Requests, QueuePage(r)
      PROVE  UNCHANGED <<row, matching, http, fanOut>>
  BY <1>2 DEF QueuePage
<1>3. fanOut \in [Requests -> JobRecords(FanOutSteps, 1)]
  BY DEF TypeInv, TypeOK
<1>4. ASSUME NEW r \in Requests,
             \/ TakeFanOut(r) \/ DropUnregistered(r) \/ FindBroadcast(r)
             \/ FinishFanOut(r) \/ FailFanOut(r) \/ StallFanOut(r)
      PROVE  /\ UNCHANGED <<row, matching, http>>
             /\ Exists(fanOut[r])
             /\ \E job : Exists(job) /\ fanOut' = [fanOut EXCEPT ![r] = job]
  <2>1. Exists(fanOut[r]) /\ ~IsSettled(fanOut[r])
    BY <1>4 DEF TakeFanOut, DropUnregistered, FindBroadcast, FinishFanOut,
                FailFanOut, StallFanOut, Exists, IsActive, IsSettled, FanOutSteps, Settled
  <2>2. fanOut[r] \in LiveRecords(FanOutSteps, 1)
    BY DEF TypeInv
  <2>3. /\ \A s \in FanOutSteps : Exists(At(fanOut[r], s))
        /\ Exists(Complete(fanOut[r]))
        /\ Exists(AttemptFailed(fanOut[r], 1))
        /\ Exists(Stall(fanOut[r]))
    BY <2>1, <2>2, MovedJob, FailedJob, StalledJob DEF Exists, FanOutSteps
  <2>4. QED
    BY <1>4, <2>1, <2>3 DEF TakeFanOut, DropUnregistered, FindBroadcast,
       FinishFanOut, FailFanOut, StallFanOut, FanOutSteps
<1>5. ASSUME NEW r \in Requests,
             \/ TakeFanOut(r) \/ DropUnregistered(r) \/ FindBroadcast(r)
             \/ FinishFanOut(r) \/ FailFanOut(r) \/ StallFanOut(r)
      PROVE  \A q \in Requests : /\ Exists(fanOut[q]) => Exists(fanOut'[q])
                                 /\ ~Exists(fanOut[q]) => fanOut'[q] = fanOut[q]
  BY <1>3, <1>4, <1>5
<1>6. TypeInv'
  BY FanOutTypeStep, QueuePageType, ContactTypeStep DEF WorkerStep, FanOutStep
<1>7. QED
  BY <1>1, <1>2, <1>4, <1>5, <1>6 DEF WorkerStep, FanOutStep, TypeInv, TypeOK

\* What a statement of a handler leaves in the committed row.
LEMMA WrittenRow ==
    ASSUME TypeInv, Written
    PROVE  /\ open' = open
           /\ open => stored' = stored
           /\ ~open => stored' = Seen' /\ stored'.status = status'
  BY DEF Written, Seen

\* What a BEGIN, a COMMIT and a ROLLBACK make of the row and of the requests.
LEMMA CommittedRow ==
    ASSUME TypeInv, Committed
    PROVE  /\ stored' = Seen' /\ stored'.status = status
           /\ UNCHANGED <<status, fanOut, inFlight>>
           /\ \A r \in Requests :
                  request'[r] = IF request[r] = "answered" THEN "accepted" ELSE request[r]
  BY DEF Committed, Seen, TypeInv, TypeOK, fanning

LEMMA RolledBackRow ==
    ASSUME TypeInv, RollbackTransaction
    PROVE  /\ stored' = Seen' /\ stored' = stored /\ status' = stored.status
           /\ UNCHANGED <<fanOut, inFlight>>
           /\ \A r \in Requests :
                  request'[r] = IF request[r] = "answered" THEN "undone" ELSE request[r]
  BY DEF RollbackTransaction, Seen, TypeInv, TypeOK, fanning

\* A BEGIN, a COMMIT and a ROLLBACK touch no job, no contact and no job name.
LEMMA SessionKeepsJobs ==
    ASSUME Session
    PROVE  UNCHANGED <<matching, name, inFlight, fanning, mailing>>
  BY DEF Session, BeginTransaction, CommitTransaction, Committed, RollbackTransaction

LEMMA RowStep == TypeInv /\ RowInv /\ [Next]_vars => RowInv'
<1> SUFFICES ASSUME TypeInv, RowInv, [Next]_vars PROVE RowInv'
  OBVIOUS
<1> USE DEF RowInv
<1>1. ASSUME Written,
             /\ status # "DRAFT" => status' # "DRAFT"
             /\ status = "DELETED" => status' = "DELETED"
      PROVE  RowInv'
  BY <1>1, WrittenRow
<1>2. ASSUME NEW r \in Requests, MarkQueued(r) PROVE RowInv'
  BY <1>1, <1>2 DEF MarkQueued
<1>3. CASE UpdateBroadcast \/ DeleteBroadcast
  BY <1>1, <1>3 DEF UpdateBroadcast, DeleteBroadcast
<1>4. CASE BeginTransaction \/ CommitTransaction
  BY <1>4, CommittedRow DEF BeginTransaction, CommitTransaction
<1>5. CASE RollbackTransaction
  BY <1>5, RolledBackRow
<1>6. CASE UNCHANGED row
  BY <1>6 DEF row, Seen
<1>7. ASSUME NEW r \in Requests, SendRequest(r) PROVE RowInv'
  BY <1>2, <1>6, <1>7 DEF SendRequest, ReadForSend, AddFanOut, LoseRequest
<1>8. CASE \E c \in Contacts : ContactChanges(c)
  BY <1>6, <1>8 DEF ContactChanges
<1>9. CASE \/ WorkerStep
           \/ \E r \in Requests : StallFanOut(r)
           \/ \E k \in ContactJobs : StallContact(k)
  BY <1>6, <1>9, WorkerKeepsRequests
<1>10. CASE UNCHANGED vars
  BY <1>6, <1>10 DEF vars
<1>11. QED
  BY <1>3, <1>4, <1>5, <1>7, <1>8, <1>9, <1>10 DEF Next, Session

LEMMA RequestStep == TypeInv /\ RowInv /\ RequestInv /\ [Next]_vars => RequestInv'
<1> SUFFICES ASSUME TypeInv, RowInv, RequestInv, [Next]_vars PROVE RequestInv'
  OBVIOUS
<1> USE DEF RequestInv
<1>1. ASSUME NEW r \in Requests, ReadForSend(r) PROVE RequestInv'
  <2>1. /\ UNCHANGED <<status, open, stored, fanOut>>
        /\ \A q \in Requests \ {r} :
               request'[q] = request[q] /\ inFlight'[q] = inFlight[q]
        /\ request[r] = "idle"
        /\ \/ request'[r] = "rejected"
           \/ /\ request'[r] = "read"
              /\ status = "DRAFT"
              /\ inFlight'[r] = UnderWay
    BY <1>1 DEF ReadForSend, TypeInv, TypeOK, row, fanning
  <2>2. \A q \in Requests \ {r} :
            /\ request[q] \in {"read", "added", "answered", "accepted"}
            /\ status = "DRAFT"
            => q \in UnderWay
    BY DEF UnderWay, RowInv
  <2>3. QED
    BY <2>1, <2>2
<1>2. ASSUME NEW r \in Requests, AddFanOut(r) PROVE RequestInv'
  <2>1. /\ UNCHANGED <<status, open, stored, inFlight>>
        /\ \A q \in Requests \ {r} :
               request'[q] = request[q] /\ fanOut'[q] = fanOut[q]
        /\ request[r] = "read" /\ request'[r] = "added"
        /\ fanOut'[r] = Added
    BY <1>2 DEF AddFanOut, TypeInv, TypeOK, row
  <2>2. Exists(Added)
    BY DEF Exists, Added
  <2>3. QED
    BY <2>1, <2>2
<1>3. ASSUME NEW r \in Requests, MarkQueued(r) PROVE RequestInv'
  <2>1. /\ UNCHANGED <<fanOut, inFlight>>
        /\ \A q \in Requests \ {r} : request'[q] = request[q]
        /\ request[r] = "added"
        /\ request'[r] = IF open THEN "answered" ELSE "accepted"
        /\ status' # "DRAFT"
        /\ Written
    BY <1>3 DEF MarkQueued, TypeInv, TypeOK, fanning, Statuses
  <2>2. CASE open
    BY <2>1, <2>2, WrittenRow
  <2>3. CASE ~open
    BY <2>1, <2>3, WrittenRow
  <2>4. QED
    BY <2>2, <2>3
<1>4. ASSUME NEW r \in Requests, LoseRequest(r) PROVE RequestInv'
  <2>1. /\ UNCHANGED <<status, open, stored, fanOut, inFlight>>
        /\ \A q \in Requests \ {r} : request'[q] = request[q]
        /\ request[r] \in {"read", "added"} /\ request'[r] = "lost"
    BY <1>4 DEF LoseRequest, TypeInv, TypeOK, row, fanning
  <2>2. QED
    BY <2>1
<1>5. CASE UpdateBroadcast \/ DeleteBroadcast
  <2>1. /\ UNCHANGED <<request, fanOut, inFlight>>
        /\ status' = status \/ status' = "DELETED"
        /\ Written
    BY <1>5 DEF UpdateBroadcast, DeleteBroadcast, http, fanning
  <2>2. stored'.status = stored.status \/ stored'.status = status'
    BY <2>1, WrittenRow
  <2>3. stored' = stored \/ (~open /\ stored.status = status /\ stored'.status = status')
    BY <2>1, WrittenRow DEF RowInv, Seen
  <2>4. QED
    BY <2>1, <2>2, <2>3, WrittenRow
<1>6. CASE BeginTransaction \/ CommitTransaction
  <2>1. /\ stored'.status = status
        /\ UNCHANGED <<status, fanOut, inFlight>>
        /\ \A r \in Requests :
               request'[r] = IF request[r] = "answered" THEN "accepted" ELSE request[r]
    BY <1>6, CommittedRow DEF BeginTransaction, CommitTransaction
  <2>2. /\ \A r \in Requests :
               /\ request'[r] \in {"idle", "read", "rejected"} => fanOut'[r] = NoJob
               /\ request'[r] \in {"added", "answered", "accepted", "undone"} =>
                      Exists(fanOut'[r])
               /\ request'[r] # "answered"
               /\ request'[r] = "accepted" => stored'.status # "DRAFT"
    BY <2>1 DEF RowInv
  <2>3. status = "QUEUED_FOR_SENDING" => \E r \in Requests : request'[r] = "accepted"
    BY <2>1
  <2>4. \A r \in Requests :
            request'[r] \in {"read", "added", "answered", "accepted"} =>
                request[r] \in {"read", "added", "answered", "accepted"}
    BY <2>1
  <2>5. QED
    BY <2>1, <2>2, <2>3, <2>4
<1>7. CASE RollbackTransaction
  BY <1>7, RolledBackRow
<1>8. CASE \E c \in Contacts : ContactChanges(c)
  BY <1>8 DEF ContactChanges, row, http, fanning
<1>9. CASE \/ WorkerStep
           \/ \E r \in Requests : StallFanOut(r)
           \/ \E k \in ContactJobs : StallContact(k)
  <2>1. UNCHANGED <<status, open, stored, request, inFlight>>
    BY <1>9, WorkerKeepsRequests DEF row, http
  <2>2. \A r \in Requests : /\ Exists(fanOut[r]) => Exists(fanOut'[r])
                            /\ fanOut[r] = NoJob => fanOut'[r] = NoJob
    BY <1>9, WorkerKeepsRequests DEF Exists, NoJob
  <2>3. QED
    BY <2>1, <2>2
<1>10. CASE UNCHANGED vars
  BY <1>10 DEF vars, row, http, fanning
<1>11. QED
  BY <1>1, <1>2, <1>3, <1>4, <1>5, <1>6, <1>7, <1>8, <1>9, <1>10
  DEF Next, SendRequest, Session

\* The request invariants, whatever the other actors do: a request that was
\* answered has its job, and a row that is no draft unless the ROLLBACK of another
\* handler took the write; a queued row has a job; a double fan-out needs a race, a
\* lost request or such a ROLLBACK.
THEOREM RequestsSafe == SafeSpec => [](AcceptedIsQueued /\ DoubleSendNeedsRace)
<1>1. TypeInv /\ RequestInv => AcceptedIsQueued
  BY DEF RequestInv, AcceptedIsQueued
<1>2. TypeInv /\ RequestInv => DoubleSendNeedsRace
  <2>1. SUFFICES ASSUME TypeInv, RequestInv,
                        NEW r \in Requests, NEW q \in Requests, r # q,
                        Exists(fanOut[r]), Exists(fanOut[q]),
                        {request[r], request[q]} \cap {"lost", "undone"} = {}
                 PROVE  r \in inFlight[q] \/ q \in inFlight[r]
    BY DEF DoubleSendNeedsRace
  <2>2. /\ request[r] \in {"added", "answered", "accepted"}
        /\ request[q] \in {"added", "answered", "accepted"}
    <3>1. request[r] \notin {"lost", "undone"} /\ request[q] \notin {"lost", "undone"}
      BY <2>1
    <3>2. QED
      BY <2>1, <3>1 DEF RequestInv, TypeInv, TypeOK, Exists, NoJob
  <2>3. QED
    BY <2>1, <2>2 DEF RequestInv
<1>3. QED
  BY TypeInit, TypeStep, RequestInit, RowStep, RequestStep, <1>1, <1>2, PTL DEF SafeSpec

\* What a client may rely on: once the request is answered, its job exists, and,
\* unless the ROLLBACK of another handler takes the write, the row is no draft that
\* could be sent once more.
COROLLARY AcceptedStaysQueued == SafeSpec => []AcceptedIsQueued
BY RequestsSafe, PTL
-----------------------------------------------------------------------------
(***************************************************************************)
(* The contact jobs.                                                       *)
(***************************************************************************)
LEMMA FreshInit == Init => FreshInv
  BY DEF Init, FreshInv

\* A fan-out job never falls back: the keys ahead of it only get fewer, and a
\* key it adds is not ahead of it any more.
LEMMA FreshStep ==
    TypeInv /\ RequestInv /\ FreshInv /\ [Next]_vars => FreshInv'
<1> SUFFICES ASSUME TypeInv, RequestInv, FreshInv, [Next]_vars,
                    NEW k \in ContactJobs, Ahead(k)'
             PROVE  contactJob'[k] = NoJob
  BY DEF FreshInv
<1> DEFINE r == k.request
<1>0. /\ r \in Requests /\ k.run \in 0 .. MaxStalled /\ k.page \in 0 .. 1
      /\ fanOut[r] \in LiveRecords(FanOutSteps, 1)
      /\ fanOut[r].stalls \in 0 .. MaxStalled
      /\ cursor[r].page \in 0 .. 2
      /\ fanOut \in [Requests -> LiveRecords(FanOutSteps, 1)]
      /\ cursor \in [Requests -> [audience : Audiences, page : 0 .. 2]]
      /\ contactJob \in [ContactJobs -> LiveRecords(ContactSteps, Attempts)]
  BY DEF ContactJobs, TypeInv, TypeOK, Pages, TotalBatches, LiveRecords, JobRecords
<1>1. ASSUME UNCHANGED <<fanOut[r], cursor[r], contactJob[k]>>
      PROVE  contactJob'[k] = NoJob
  BY <1>1 DEF FreshInv, Ahead
<1>2. ASSUME UNCHANGED <<fanOut, cursor, contactJob>>
      PROVE  contactJob'[k] = NoJob
  BY <1>1, <1>2
<1>3. ASSUME NEW q \in Requests, SendRequest(q)
      PROVE  contactJob'[k] = NoJob
  <2>1. CASE AddFanOut(q) /\ q = r
    <3>1. fanOut[r] = NoJob /\ fanOut'[r] = Added /\ contactJob' = contactJob
      BY <1>0, <2>1 DEF AddFanOut, RequestInv, mailing
    <3>2. Ahead(k)
      BY <1>0, <3>1 DEF Ahead, NoJob
    <3>3. QED
      BY <3>1, <3>2 DEF FreshInv
  <2>2. CASE AddFanOut(q) /\ q # r
    BY <1>0, <1>1, <2>2 DEF AddFanOut, mailing
  <2>3. CASE ~AddFanOut(q)
    BY <1>2, <1>3, <2>3 DEF SendRequest, ReadForSend, MarkQueued, LoseRequest,
                            fanning, mailing
  <2>4. QED
    BY <2>1, <2>2, <2>3
<1>4. CASE \/ Session \/ UpdateBroadcast \/ DeleteBroadcast
           \/ \E c \in Contacts : ContactChanges(c)
  BY <1>2, <1>4, SessionKeepsJobs DEF UpdateBroadcast, DeleteBroadcast, ContactChanges, fanning, mailing
<1>5. ASSUME NEW q \in Requests,
             \/ TakeFanOut(q) \/ DropUnregistered(q) \/ FindBroadcast(q)
             \/ FinishFanOut(q) \/ FailFanOut(q) \/ StallFanOut(q)
      PROVE  contactJob'[k] = NoJob
  <2>1. contactJob' = contactJob
    BY <1>5 DEF TakeFanOut, DropUnregistered, FindBroadcast, FinishFanOut,
                FailFanOut, StallFanOut, mailing
  <2>2. CASE q # r
    BY <1>0, <1>1, <1>5, <2>1, <2>2 DEF TakeFanOut, DropUnregistered, FindBroadcast,
       FinishFanOut, FailFanOut, StallFanOut
  <2>3. CASE q = r
    <3>1. ~IsSettled(fanOut[r]) /\ Exists(fanOut[r])
      BY <1>5, <2>3 DEF TakeFanOut, DropUnregistered, FindBroadcast, FinishFanOut,
         FailFanOut, StallFanOut, FanOutSteps, IsActive, IsSettled, Exists, Settled
    <3>2. fanOut[r].state \in {"waiting", "find", "page"}
      BY <1>0, <3>1 DEF LiveRecords, JobRecords, IsSettled, Exists, FanOutSteps
    <3>3. CASE TakeFanOut(q)
      <4>1. /\ fanOut[r].state = "waiting"
            /\ fanOut'[r].stalls = fanOut[r].stalls
            /\ fanOut'[r].state = "find"
        BY <1>0, <2>3, <3>1, <3>3, MovedJob DEF TakeFanOut, FanOutSteps
      <4>2. Ahead(k)
        BY <4>1 DEF Ahead
      <4>3. QED
        BY <2>1, <4>2 DEF FreshInv
    <3>4. CASE FindBroadcast(q)
      <4>1. /\ fanOut[r].state = "find"
            /\ fanOut'[r].stalls = fanOut[r].stalls
            /\ fanOut'[r].state = "page"
            /\ cursor'[r].page = 0
        BY <1>0, <2>3, <3>1, <3>4, MovedJob DEF FindBroadcast, FanOutSteps
      <4>2. Ahead(k)
        BY <1>0, <4>1 DEF Ahead
      <4>3. QED
        BY <2>1, <4>2 DEF FreshInv
    <3>5. CASE DropUnregistered(q) \/ FinishFanOut(q)
      <4>1. fanOut'[r].state = "completed"
        BY <1>0, <2>3, <3>1, <3>5, MovedJob DEF DropUnregistered, FinishFanOut, FanOutSteps
      <4>2. QED
        BY <4>1 DEF Ahead
    <3>6. CASE FailFanOut(q)
      <4>1. fanOut'[r] = AttemptFailed(fanOut[r], 1) /\ fanOut[r].made = 0
        BY <1>0, <2>3, <3>1, <3>6 DEF FailFanOut, LiveRecords, JobRecords
      <4>2. fanOut'[r].state = "failed"
        BY <1>0, <4>1 DEF AttemptFailed, LiveRecords, JobRecords
      <4>3. QED
        BY <4>2 DEF Ahead
    <3>7. CASE StallFanOut(q)
      <4>1. /\ \/ fanOut'[r].state = "waiting" /\ fanOut'[r].stalls = fanOut[r].stalls + 1
               \/ fanOut'[r].state = "failed"
        BY <1>0, <2>3, <3>1, <3>7, StalledJob DEF StallFanOut
      <4>2. Ahead(k)
        BY <1>0, <3>2, <4>1 DEF Ahead
      <4>3. QED
        BY <2>1, <4>2 DEF FreshInv
    <3>8. QED
      BY <1>5, <3>3, <3>4, <3>5, <3>6, <3>7
  <2>4. QED
    BY <2>2, <2>3
<1>6. ASSUME NEW q \in Requests, QueuePage(q)
      PROVE  contactJob'[k] = NoJob
  <2>1. fanOut' = fanOut
    BY <1>6 DEF QueuePage
  <2>2. CASE q # r
    <3>1. cursor'[r] = cursor[r] /\ contactJob'[k] = contactJob[k]
      BY <1>0, <1>6, <2>2 DEF QueuePage
    <3>2. QED
      BY <1>1, <2>1, <3>1
  <2>3. CASE q = r
    <3>1. /\ fanOut[r].state = "page"
          /\ cursor'[r].page = cursor[r].page + 1
      BY <1>0, <1>6, <2>3 DEF QueuePage
    <3>2. /\ Ahead(k)
          /\ ~(k.run = fanOut[r].stalls /\ k.page = cursor[r].page)
      BY <1>0, <2>1, <3>1 DEF Ahead
    <3>3. contactJob'[k] = contactJob[k]
      BY <1>6, <2>3, <3>2 DEF QueuePage
    <3>4. QED
      BY <3>2, <3>3 DEF FreshInv
  <2>4. QED
    BY <2>2, <2>3
<1>7. ASSUME NEW j \in ContactJobs, ContactStep(j) \/ StallContact(j)
      PROVE  contactJob'[k] = NoJob
  <2>1. UNCHANGED <<fanOut, cursor>>
    BY <1>7 DEF ContactStep, TakeContact, FindContact, MailAccepted, MarkSent,
                FinishContact, FailContact, StallContact, fanning
  <2>2. CASE j # k
    <3>1. contactJob'[k] = contactJob[k]
      BY <1>0, <1>7, <2>2 DEF ContactStep, TakeContact, FindContact, MailAccepted,
         MarkSent, FinishContact, FailContact, StallContact
    <3>2. QED
      BY <1>1, <2>1, <3>1
  <2>3. CASE j = k
    <3>1. contactJob[k] # NoJob
      BY <1>7, <2>3 DEF ContactStep, TakeContact, FindContact, MailAccepted, MarkSent,
         FinishContact, FailContact, StallContact, IsActive, NoJob
    <3>2. ~Ahead(k)
      BY <3>1 DEF FreshInv
    <3>3. QED
      BY <2>1, <3>2 DEF Ahead
  <2>4. QED
    BY <2>2, <2>3
<1>8. CASE UNCHANGED vars
  BY <1>2, <1>8 DEF vars, fanning, mailing
<1>9. QED
  BY <1>3, <1>4, <1>5, <1>6, <1>7, <1>8 DEF Next, WorkerStep, FanOutStep

LEMMA ContactInit == Init => ContactInv
  BY DEF Init, ContactInv, Sound, NoJob

\* One step of a contact job keeps its counters in order.
LEMMA ContactMove ==
    ASSUME TypeInv, ContactInv, NEW k \in ContactJobs,
           ContactStep(k) \/ StallContact(k)
    PROVE  ContactInv'
<1> USE ParameterAssumption
<1> DEFINE job == contactJob[k]
<1>0. /\ job \in LiveRecords(ContactSteps, Attempts)
      /\ job.made \in Nat /\ job.stalls \in 0 .. MaxStalled
      /\ mails[k] \in Nat /\ marks[k] \in Nat
      /\ contactJob \in [ContactJobs -> LiveRecords(ContactSteps, Attempts)]
      /\ mails \in [ContactJobs -> Nat]
      /\ marks \in [ContactJobs -> Nat]
      /\ Sound(job, mails[k], marks[k])
  BY DEF TypeInv, TypeOK, LiveRecords, JobRecords, ContactInv
<1>1. job.state \in {"waiting", "find", "send", "mark", "ack"} /\ ~IsSettled(job)
  BY <1>0 DEF ContactStep, TakeContact, FindContact, MailAccepted, MarkSent,
              FinishContact, FailContact, StallContact, IsActive, IsSettled,
              LiveRecords, JobRecords, ContactSteps, Settled
<1>2. job.made < Attempts
  BY <1>0, <1>1 DEF LiveRecords
<1>3. SUFFICES Sound(contactJob'[k], mails'[k], marks'[k])
  <2>1. ASSUME NEW j \in ContactJobs, j # k
        PROVE  contactJob'[j] = contactJob[j] /\ mails'[j] = mails[j] /\ marks'[j] = marks[j]
    BY <1>0, <2>1 DEF ContactStep, TakeContact, FindContact, MailAccepted, MarkSent,
       FinishContact, FailContact, StallContact
  <2>2. QED
    BY <2>1 DEF ContactInv
<1>4. CASE TakeContact(k)
  <2>1. contactJob'[k] = At(job, "find") /\ UNCHANGED <<mails, marks>>
    BY <1>0, <1>4 DEF TakeContact
  <2>2. QED
    BY <1>0, <1>1, <1>4, <2>1, MovedJob DEF TakeContact, Sound, ContactSteps
<1>5. CASE FindContact(k)
  <2>1. contactJob'[k] = At(job, "send") /\ UNCHANGED <<mails, marks>>
    BY <1>0, <1>5 DEF FindContact
  <2>2. QED
    BY <1>0, <1>1, <1>5, <2>1, MovedJob DEF FindContact, Sound, ContactSteps
<1>6. CASE MailAccepted(k)
  <2>1. contactJob'[k] = At(job, "mark") /\ mails'[k] = mails[k] + 1 /\ marks' = marks
    BY <1>0, <1>6 DEF MailAccepted
  <2>2. QED
    BY <1>0, <1>1, <1>2, <1>6, <2>1, MovedJob DEF MailAccepted, Sound, ContactSteps
<1>7. CASE MarkSent(k)
  <2>1. contactJob'[k] = At(job, "ack") /\ marks'[k] = marks[k] + 1 /\ mails' = mails
    BY <1>0, <1>7 DEF MarkSent
  <2>2. QED
    BY <1>0, <1>1, <1>2, <1>7, <2>1, MovedJob DEF MarkSent, Sound, ContactSteps
<1>8. CASE FinishContact(k)
  <2>1. contactJob'[k] = Complete(job) /\ UNCHANGED <<mails, marks>>
    BY <1>0, <1>8 DEF FinishContact
  <2>2. QED
    BY <1>0, <1>1, <1>2, <1>8, <2>1, MovedJob DEF FinishContact, Sound, ContactSteps
<1>9. CASE FailContact(k)
  <2>1. contactJob'[k] = AttemptFailed(job, Attempts) /\ UNCHANGED <<mails, marks>>
    BY <1>0, <1>9 DEF FailContact
  <2>2. /\ job.state \in {"find", "send", "mark"}
        /\ contactJob'[k].made = job.made + 1
        /\ contactJob'[k].stalls = job.stalls
        /\ \/ contactJob'[k].state = "waiting"
           \/ contactJob'[k].state = "failed" /\ job.made + 1 = Attempts
    BY <1>0, <1>1, <1>9, <2>1, FailedJob DEF FailContact
  <2>3. mails[k] <= job.made + 1 + job.stalls /\ marks[k] <= mails[k]
    BY <1>0, <2>2 DEF Sound
  <2>4. QED
    BY <1>0, <2>1, <2>2, <2>3 DEF Sound
<1>10. CASE StallContact(k)
  <2>1. contactJob'[k] = Stall(job) /\ UNCHANGED <<mails, marks>>
    BY <1>0, <1>10 DEF StallContact
  <2>2. /\ job.state \in {"find", "send", "mark", "ack"}
        /\ contactJob'[k].made = job.made
        /\ \/ /\ contactJob'[k].state = "waiting"
              /\ contactJob'[k].stalls = job.stalls + 1
           \/ /\ contactJob'[k].state = "failed"
              /\ contactJob'[k].stalls = job.stalls
              /\ job.stalls = MaxStalled
    BY <1>0, <1>1, <1>10, <2>1, StalledJob DEF StallContact, IsActive
  <2>3. mails[k] <= job.made + job.stalls + 1 /\ marks[k] <= mails[k]
    BY <1>0, <2>2 DEF Sound
  <2>4. QED
    BY <1>0, <1>2, <2>1, <2>2, <2>3 DEF Sound
<1>11. QED
  BY <1>4, <1>5, <1>6, <1>7, <1>8, <1>9, <1>10 DEF ContactStep

\* A page never touches a job that is there: the jobs it adds are new.
LEMMA PageAddsNew ==
    ASSUME FreshInv, NEW r \in Requests, QueuePage(r),
           NEW k \in ContactJobs, contactJob'[k] # contactJob[k]
    PROVE  contactJob[k] = NoJob /\ contactJob'[k] = Added
<1>1. /\ contactJob'[k] = Added
      /\ k.request = r /\ k.run = fanOut[r].stalls /\ k.page = cursor[r].page
      /\ fanOut[r].state = "page"
      /\ k.page \in 0 .. 1
  BY DEF QueuePage, ContactJobs, Pages, TotalBatches
<1>2. Ahead(k)
  BY <1>1 DEF Ahead
<1>3. QED
  BY <1>1, <1>2 DEF FreshInv

LEMMA ContactInvStep ==
    TypeInv /\ FreshInv /\ ContactInv /\ [Next]_vars => ContactInv'
<1> SUFFICES ASSUME TypeInv, FreshInv, ContactInv, [Next]_vars PROVE ContactInv'
  OBVIOUS
<1>1. ASSUME UNCHANGED <<contactJob, mails, marks>> PROVE ContactInv'
  BY <1>1 DEF ContactInv
<1>2. ASSUME NEW r \in Requests, SendRequest(r) PROVE ContactInv'
  BY <1>1, <1>2 DEF SendRequest, ReadForSend, AddFanOut, MarkQueued, LoseRequest, mailing
<1>3. CASE \/ Session \/ UpdateBroadcast \/ DeleteBroadcast
           \/ \E c \in Contacts : ContactChanges(c)
  BY <1>1, <1>3, SessionKeepsJobs DEF UpdateBroadcast, DeleteBroadcast, ContactChanges, mailing
<1>4. ASSUME NEW r \in Requests,
             \/ TakeFanOut(r) \/ DropUnregistered(r) \/ FindBroadcast(r)
             \/ FinishFanOut(r) \/ FailFanOut(r) \/ StallFanOut(r)
      PROVE  ContactInv'
  BY <1>1, <1>4 DEF TakeFanOut, DropUnregistered, FindBroadcast, FinishFanOut,
                    FailFanOut, StallFanOut, mailing
<1>5. ASSUME NEW r \in Requests, QueuePage(r), NEW k \in ContactJobs
      PROVE  Sound(contactJob'[k], mails'[k], marks'[k])
  <2>1. UNCHANGED <<mails, marks>>
    BY <1>5 DEF QueuePage
  <2>2. CASE contactJob'[k] = contactJob[k]
    BY <2>1, <2>2 DEF ContactInv
  <2>3. CASE contactJob'[k] # contactJob[k]
    <3>1. contactJob'[k] = Added
      BY <1>5, <2>3, PageAddsNew
    <3>2. contactJob[k] = NoJob
      BY <1>5, <2>3, PageAddsNew
    <3>3. mails[k] = 0 /\ marks[k] = 0
      <4>1. Sound(NoJob, mails[k], marks[k]) /\ marks[k] \in Nat
        BY <3>2 DEF ContactInv, TypeInv, TypeOK
      <4>2. QED
        BY <4>1 DEF Sound, NoJob
    <3>4. QED
      BY <2>1, <3>1, <3>3 DEF Sound, Added
  <2>4. QED
    BY <2>2, <2>3
<1>6. ASSUME NEW k \in ContactJobs, ContactStep(k) \/ StallContact(k) PROVE ContactInv'
  BY <1>6, ContactMove
<1>7. CASE UNCHANGED vars
  BY <1>1, <1>7 DEF vars, mailing
<1>8. QED
  BY <1>2, <1>3, <1>4, <1>5, <1>6, <1>7
  DEF Next, WorkerStep, FanOutStep, ContactInv

\* The conjunction is inductive.
Inv == TypeInv /\ RowInv /\ RequestInv /\ FreshInv /\ ContactInv

LEMMA InvHolds == SafeSpec => []Inv
<1>1. Init => Inv
  BY TypeInit, RequestInit, FreshInit, ContactInit DEF Inv
<1>2. Inv /\ [Next]_vars => Inv'
  BY TypeStep, RowStep, RequestStep, FreshStep, ContactInvStep DEF Inv
<1>3. QED
  BY <1>1, <1>2, PTL DEF SafeSpec

LEMMA MailLimit ==
    ASSUME Inv, NEW k \in ContactJobs
    PROVE  /\ mails[k] <= Attempts + MaxStalled
           /\ contactJob[k].state = "send" => mails[k] < Attempts + MaxStalled
<1> USE ParameterAssumption, MaxStalledAssumption
<1>1. /\ contactJob[k] \in LiveRecords(ContactSteps, Attempts)
      /\ contactJob[k].made \in 0 .. Attempts
      /\ contactJob[k].stalls \in 0 .. MaxStalled
      /\ contactJob[k].state \in
             {"none", "waiting", "find", "send", "mark", "ack", "completed", "failed"}
      /\ ~IsSettled(contactJob[k]) => contactJob[k].made < Attempts
      /\ mails[k] \in Nat
      /\ Sound(contactJob[k], mails[k], marks[k])
  BY DEF Inv, TypeInv, TypeOK, LiveRecords, JobRecords, ContactInv, ContactSteps, Settled
<1>2. CASE contactJob[k].state = "none"
  BY <1>1, <1>2 DEF Sound
<1>3. CASE contactJob[k].state \in {"waiting", "find", "send"}
  <2>1. /\ mails[k] <= contactJob[k].made + contactJob[k].stalls
        /\ contactJob[k].made < Attempts
    BY <1>1, <1>3 DEF Sound, IsSettled, Settled
  <2>2. QED
    BY <1>1, <2>1
<1>4. CASE contactJob[k].state \in {"mark", "ack", "completed"}
  BY <1>1, <1>4 DEF Sound
<1>5. CASE contactJob[k].state = "failed"
  BY <1>1, <1>5 DEF Sound
<1>6. QED
  BY <1>1, <1>2, <1>3, <1>4, <1>5

\* The contact jobs, under every crash and retry: the bound on their mails,
\* keys only for mails, and no job given up early.
THEOREM DeliverySafe ==
    SafeSpec => [](MailsBounded /\ MarkFollowsMail /\ GivenUpWhenExhausted)
<1>1. Inv => MailsBounded
  BY MailLimit DEF MailsBounded
<1>2. ASSUME Inv, NEW k \in ContactJobs
      PROVE  Sound(contactJob[k], mails[k], marks[k])
  BY <1>2 DEF Inv, ContactInv
<1>3. Inv => MarkFollowsMail
  BY <1>2 DEF MarkFollowsMail, Sound
<1>4. Inv => GivenUpWhenExhausted
  BY <1>2 DEF GivenUpWhenExhausted, Sound
<1>5. QED
  BY InvHolds, <1>1, <1>3, <1>4, PTL

\* Of the worker's two counters: a job is failed only when its attempts, or its
\* stalls, are used up, and not by a mixture of both.
COROLLARY NotGivenUpEarly == SafeSpec => []GivenUpWhenExhausted
BY DeliverySafe, PTL
-----------------------------------------------------------------------------
(***************************************************************************)
(* The audience of an execution.                                           *)
(***************************************************************************)

\* The contact jobs of the execution that is under way come from the audience
\* that its handler holds.
AudienceInv ==
    /\ OneAudiencePerExecution
    /\ \A k \in ContactJobs :
           /\ fanOut[k.request].state = "page"
           /\ k.run = fanOut[k.request].stalls
           /\ Exists(contactJob[k])
           => HomeOf[k.contact] = cursor[k.request].audience

LEMMA AudienceInit == Init => AudienceInv
  BY DEF Init, AudienceInv, OneAudiencePerExecution, NoJob, Exists

\* A step of a contact job neither adds a job nor removes one.
LEMMA ContactKeepsExistence ==
    ASSUME TypeInv, NEW k \in ContactJobs, ContactStep(k) \/ StallContact(k)
    PROVE  /\ UNCHANGED fanning
           /\ \A j \in ContactJobs : Exists(contactJob'[j]) <=> Exists(contactJob[j])
<1>1. /\ contactJob \in [ContactJobs -> LiveRecords(ContactSteps, Attempts)]
      /\ contactJob' \in [ContactJobs -> LiveRecords(ContactSteps, Attempts)]
  BY ContactTypeStep DEF TypeInv
<1>2. /\ UNCHANGED fanning
      /\ \A j \in ContactJobs \ {k} : contactJob'[j] = contactJob[j]
  BY <1>1 DEF ContactStep, TakeContact, FindContact, MailAccepted, MarkSent,
     FinishContact, FailContact, StallContact
<1>3. Exists(contactJob[k]) /\ ~IsSettled(contactJob[k])
  BY DEF ContactStep, TakeContact, FindContact, MailAccepted, MarkSent, FinishContact,
     FailContact, StallContact, Exists, IsActive, IsSettled, Settled
<1>4. /\ \A s \in ContactSteps : Exists(At(contactJob[k], s))
      /\ Exists(Complete(contactJob[k]))
      /\ Exists(AttemptFailed(contactJob[k], Attempts))
      /\ Exists(Stall(contactJob[k]))
  BY <1>1, <1>3, ParameterAssumption, MovedJob, FailedJob, StalledJob
  DEF Exists, ContactSteps
<1>5. Exists(contactJob'[k])
  BY <1>1, <1>4 DEF ContactStep, TakeContact, FindContact, MailAccepted, MarkSent,
     FinishContact, FailContact, StallContact, ContactSteps
<1>6. QED
  BY <1>2, <1>3, <1>5

LEMMA AudienceStep ==
    TypeInv /\ FreshInv /\ AudienceInv /\ [Next]_vars => AudienceInv'
<1> SUFFICES ASSUME TypeInv, FreshInv, AudienceInv, [Next]_vars PROVE AudienceInv'
  OBVIOUS
<1>0. /\ fanOut \in [Requests -> LiveRecords(FanOutSteps, 1)]
      /\ cursor \in [Requests -> [audience : Audiences, page : 0 .. 2]]
      /\ \A k \in ContactJobs : k.request \in Requests /\ k.run \in 0 .. MaxStalled
  BY DEF TypeInv, TypeOK, TotalBatches, ContactJobs
<1>1. ASSUME UNCHANGED <<fanning, contactJob>> PROVE AudienceInv'
  BY <1>1 DEF AudienceInv, OneAudiencePerExecution, fanning
<1>2. ASSUME NEW r \in Requests, SendRequest(r) PROVE AudienceInv'
  <2>1. CASE AddFanOut(r)
    <3>1. UNCHANGED <<cursor, contactJob>>
      BY <2>1 DEF AddFanOut, mailing
    <3>2. \A q \in Requests : fanOut'[q].state = "page" => fanOut'[q] = fanOut[q]
      BY <1>0, <2>1 DEF AddFanOut, Added
    <3>3. QED
      BY <1>0, <3>1, <3>2 DEF AudienceInv, OneAudiencePerExecution
  <2>2. CASE ~AddFanOut(r)
    BY <1>1, <1>2, <2>2 DEF SendRequest, ReadForSend, MarkQueued, LoseRequest, mailing
  <2>3. QED
    BY <2>1, <2>2
<1>3. CASE \/ Session \/ UpdateBroadcast \/ DeleteBroadcast
           \/ \E c \in Contacts : ContactChanges(c)
  BY <1>1, <1>3, SessionKeepsJobs DEF UpdateBroadcast, DeleteBroadcast, ContactChanges, mailing
<1>4. ASSUME NEW r \in Requests,
             \/ TakeFanOut(r) \/ DropUnregistered(r) \/ FinishFanOut(r)
             \/ FailFanOut(r) \/ StallFanOut(r)
      PROVE  AudienceInv'
  <2>1. UNCHANGED <<cursor, contactJob>>
    BY <1>4 DEF TakeFanOut, DropUnregistered, FinishFanOut, FailFanOut, StallFanOut, mailing
  <2>2. ~IsSettled(fanOut[r]) /\ fanOut[r].made = 0
    BY <1>0, <1>4 DEF TakeFanOut, DropUnregistered, FinishFanOut, FailFanOut, StallFanOut,
       FanOutSteps, IsActive, IsSettled, Settled, LiveRecords, JobRecords
  <2>3. fanOut'[r].state # "page" /\ \A q \in Requests \ {r} : fanOut'[q] = fanOut[q]
    BY <1>0, <1>4, <2>2, MovedJob, FailedJob, StalledJob
    DEF TakeFanOut, DropUnregistered, FinishFanOut, FailFanOut, StallFanOut, FanOutSteps
  <2>4. QED
    BY <1>0, <2>1, <2>3 DEF AudienceInv, OneAudiencePerExecution
<1>5. ASSUME NEW r \in Requests, FindBroadcast(r) PROVE AudienceInv'
  <2>1. /\ contactJob' = contactJob
        /\ fanOut'[r] = At(fanOut[r], "page") /\ fanOut[r].state = "find"
        /\ \A q \in Requests \ {r} : fanOut'[q] = fanOut[q] /\ cursor'[q] = cursor[q]
    BY <1>0, <1>5 DEF FindBroadcast, mailing
  <2>2. fanOut'[r].stalls = fanOut[r].stalls /\ fanOut[r].stalls \in 0 .. MaxStalled
    <3>1. fanOut[r] \in LiveRecords(FanOutSteps, 1) /\ ~IsSettled(fanOut[r])
      BY <1>0, <2>1 DEF IsSettled, Settled
    <3>2. fanOut'[r].stalls = fanOut[r].stalls
      BY <2>1, <3>1, MovedJob DEF FanOutSteps
    <3>3. fanOut[r].stalls \in 0 .. MaxStalled
      BY <3>1 DEF LiveRecords, JobRecords
    <3>4. QED
      BY <3>2, <3>3
  <2>3. ASSUME NEW k \in ContactJobs, k.request = r, k.run = fanOut'[r].stalls
        PROVE  ~Exists(contactJob'[k])
    <3>1. Ahead(k)
      BY <2>1, <2>2, <2>3, MaxStalledAssumption DEF Ahead
    <3>2. QED
      BY <2>1, <3>1 DEF FreshInv, NoJob, Exists
  <2>4. QED
    BY <1>0, <2>1, <2>3 DEF AudienceInv, OneAudiencePerExecution
<1>6. ASSUME NEW r \in Requests, QueuePage(r) PROVE AudienceInv'
  <2>1. /\ fanOut' = fanOut /\ fanOut[r].state = "page"
        /\ \A q \in Requests : cursor'[q].audience = cursor[q].audience
    BY <1>0, <1>6 DEF QueuePage
  <2>2. ASSUME NEW k \in ContactJobs, contactJob'[k] # contactJob[k]
        PROVE  /\ k.request = r /\ k.run = fanOut[r].stalls
               /\ HomeOf[k.contact] = cursor[r].audience
    <3>1. PICK ids \in PageOf({c \in matching : HomeOf[c] = cursor[r].audience},
                              cursor[r].page) :
              contactJob' = [j \in ContactJobs |->
                  IF /\ j.request = r
                     /\ j.run = fanOut[r].stalls
                     /\ j.page = cursor[r].page
                     /\ j.contact \in ids
                  THEN Added
                  ELSE contactJob[j]]
      BY <1>6 DEF QueuePage
    <3>2. ids \subseteq {c \in matching : HomeOf[c] = cursor[r].audience}
      BY <3>1 DEF PageOf
    <3>3. QED
      BY <2>2, <3>1, <3>2
  <2>3. \A k \in ContactJobs :
            /\ fanOut'[k.request].state = "page"
            /\ k.run = fanOut'[k.request].stalls
            /\ Exists(contactJob'[k])
            => HomeOf[k.contact] = cursor'[k.request].audience
    BY <1>0, <2>1, <2>2 DEF AudienceInv
  <2>4. ASSUME NEW j \in ContactJobs, NEW k \in ContactJobs,
               j.request = k.request, j.run = k.run,
               Exists(contactJob'[j]), Exists(contactJob'[k])
        PROVE  HomeOf[j.contact] = HomeOf[k.contact]
    <3>1. CASE contactJob'[j] = contactJob[j] /\ contactJob'[k] = contactJob[k]
      BY <2>4, <3>1 DEF AudienceInv, OneAudiencePerExecution
    <3>2. CASE contactJob'[j] # contactJob[j] \/ contactJob'[k] # contactJob[k]
      <4>1. j.request = r /\ j.run = fanOut[r].stalls
        BY <2>2, <2>4, <3>2
      <4>2. /\ HomeOf[j.contact] = cursor'[r].audience
            /\ HomeOf[k.contact] = cursor'[r].audience
        BY <2>1, <2>3, <2>4, <4>1
      <4>3. QED
        BY <4>2
    <3>3. QED
      BY <3>1, <3>2
  <2>5. QED
    BY <2>3, <2>4 DEF AudienceInv, OneAudiencePerExecution
<1>7. ASSUME NEW k \in ContactJobs, ContactStep(k) \/ StallContact(k) PROVE AudienceInv'
  BY <1>0, <1>7, ContactKeepsExistence DEF AudienceInv, OneAudiencePerExecution, fanning
<1>8. CASE UNCHANGED vars
  BY <1>1, <1>8 DEF vars, mailing
<1>9. QED
  BY <1>2, <1>3, <1>4, <1>5, <1>6, <1>7, <1>8 DEF Next, WorkerStep, FanOutStep

\* However the broadcast is edited while it is fanned out, one execution of
\* the handler adds jobs for contacts of one audience.
THEOREM OneAudience == SafeSpec => []OneAudiencePerExecution
<1>1. AudienceInv => OneAudiencePerExecution
  BY DEF AudienceInv
<1>2. Inv /\ AudienceInv /\ [Next]_vars => AudienceInv'
  BY AudienceStep DEF Inv
<1>3. QED
  BY InvHolds, AudienceInit, <1>1, <1>2, PTL DEF SafeSpec
-----------------------------------------------------------------------------
(***************************************************************************)
(* Mails after a delete.                                                   *)
(***************************************************************************)
Working == {k \in ContactJobs : IsActive(contactJob[k])}
Sending == {k \in ContactJobs : contactJob[k].state = "send"}

\* What is committed is not taken back: neither a queued row nor a deleted one.
LEMMA StoredStays ==
    ASSUME Inv, [Next]_vars
    PROVE  /\ stored.status # "DRAFT" => stored'.status # "DRAFT"
           /\ stored.status = "DELETED" => stored'.status = "DELETED"
<1> USE DEF Inv, RowInv
<1>1. CASE \E r \in Requests : MarkQueued(r)
  BY <1>1, WrittenRow DEF MarkQueued
<1>2. CASE UpdateBroadcast \/ DeleteBroadcast
  BY <1>2, WrittenRow DEF UpdateBroadcast, DeleteBroadcast
<1>3. CASE BeginTransaction \/ CommitTransaction
  BY <1>3, CommittedRow DEF BeginTransaction, CommitTransaction
<1>4. CASE RollbackTransaction
  BY <1>4, RolledBackRow
<1>5. ASSUME NEW r \in Requests, ReadForSend(r) \/ AddFanOut(r) \/ LoseRequest(r)
      PROVE  stored' = stored
  BY <1>5 DEF ReadForSend, AddFanOut, LoseRequest, row
<1>6. CASE \E c \in Contacts : ContactChanges(c)
  BY <1>6 DEF ContactChanges, row
<1>7. CASE \/ WorkerStep
           \/ \E r \in Requests : StallFanOut(r)
           \/ \E k \in ContactJobs : StallContact(k)
  BY <1>7, WorkerKeepsRequests DEF row
<1>8. CASE UNCHANGED vars
  BY <1>8 DEF vars, row
<1>9. QED
  BY <1>1, <1>2, <1>3, <1>4, <1>5, <1>6, <1>7, <1>8 DEF Next, SendRequest, Session

\* A worker runs one job, and after the committed delete no handler gets past its read:
\* each late mail uses up one of those that were past it.
LateInv ==
    /\ IsFiniteSet(Working)
    /\ Cardinality(Working) <= NumWorkers
    /\ IF stored.status = "DELETED" THEN lateMails + Cardinality(Sending) <= NumWorkers
                             ELSE lateMails = 0

LEMMA LateInit == Init => LateInv
<1> SUFFICES ASSUME Init PROVE LateInv
  OBVIOUS
<1>1. Working = {} /\ stored.status # "DELETED" /\ lateMails = 0
  BY DEF Init, Seen, Working, IsActive, NoJob
<1>2. QED
  BY <1>1, FS_EmptySet, ParameterAssumption DEF LateInv

LEMMA SendingIsWorking ==
    ASSUME LateInv
    PROVE  /\ IsFiniteSet(Sending)
           /\ Cardinality(Sending) \in Nat /\ Cardinality(Working) \in Nat
           /\ Cardinality(Sending) <= Cardinality(Working)
<1>1. Sending \in SUBSET Working
  BY DEF Sending, Working, IsActive, Settled
<1>2. QED
  BY <1>1, FS_Subset, FS_CardinalityType DEF LateInv

\* A step after which no more jobs are in hand, or past their read, than before.
LEMMA LateShrinks ==
    ASSUME LateInv, lateMails \in Nat,
           Working' \in SUBSET Working, Sending' \in SUBSET Sending,
           lateMails' = lateMails,
           stored'.status = stored.status \/ stored.status # "DELETED"
    PROVE  LateInv'
<1>1. /\ IsFiniteSet(Sending)
      /\ Cardinality(Sending) \in Nat /\ Cardinality(Working) \in Nat
      /\ Cardinality(Sending) <= Cardinality(Working)
  BY SendingIsWorking
<1>2. /\ IsFiniteSet(Working') /\ Cardinality(Working') <= Cardinality(Working)
      /\ Cardinality(Working') \in Nat
  BY FS_Subset, FS_CardinalityType DEF LateInv
<1>3. /\ Cardinality(Sending') <= Cardinality(Sending)
      /\ Cardinality(Sending') \in Nat
  BY <1>1, FS_Subset, FS_CardinalityType
<1>4. Cardinality(Working') <= NumWorkers
  BY <1>1, <1>2, ParameterAssumption DEF LateInv
<1>5. CASE stored.status = "DELETED"
  <2>1. stored'.status = "DELETED" /\ lateMails + Cardinality(Sending) <= NumWorkers
    BY <1>5 DEF LateInv
  <2>2. lateMails' + Cardinality(Sending') <= NumWorkers
    BY <1>1, <1>3, <2>1, ParameterAssumption
  <2>3. QED
    BY <1>2, <1>4, <2>1, <2>2 DEF LateInv
<1>6. CASE stored.status # "DELETED"
  <2>1. lateMails' = 0
    BY <1>6 DEF LateInv
  <2>2. Cardinality(Sending') <= NumWorkers
    BY <1>1, <1>3, ParameterAssumption DEF LateInv
  <2>3. lateMails' + Cardinality(Sending') <= NumWorkers
    BY <1>3, <2>1, <2>2
  <2>4. QED
    BY <1>2, <1>4, <2>1, <2>3 DEF LateInv
<1>7. QED
  BY <1>5, <1>6

\* A free worker takes up one more job.
LEMMA LateTake ==
    ASSUME TypeOK, LateInv, NEW k \in ContactJobs, TakeContact(k)
    PROVE  LateInv'
<1>1. contactJob \in [ContactJobs -> JobRecords(ContactSteps, Attempts)]
  BY DEF TypeOK
<1>2. /\ Working' = Working \cup {k} /\ k \notin Working
      /\ Sending' = Sending
      /\ stored'.status = stored.status /\ lateMails' = lateMails
  BY <1>1 DEF TakeContact, At, Working, Sending, IsActive, Settled, JobRecords, row
<1>3. Cardinality({r \in Requests : IsActive(fanOut[r])}) \in Nat
  <2>1. {r \in Requests : IsActive(fanOut[r])} \in SUBSET Requests
    OBVIOUS
  <2>2. QED
    BY <2>1, FiniteAssumption, FS_Subset, FS_CardinalityType
<1>4. Cardinality(Working) \in Nat
  BY FS_CardinalityType DEF LateInv
<1>5. Cardinality(Working) < NumWorkers
  BY <1>3, <1>4, ParameterAssumption DEF TakeContact, WorkerIsFree, Working
<1>6. /\ IsFiniteSet(Working') /\ Cardinality(Working') = Cardinality(Working) + 1
  BY <1>2, FS_AddElement DEF LateInv
<1>7. Cardinality(Working') <= NumWorkers
  BY <1>4, <1>5, <1>6, ParameterAssumption
<1>8. QED
  BY <1>2, <1>6, <1>7 DEF LateInv

LEMMA LateMail ==
    ASSUME TypeOK, LateInv, NEW k \in ContactJobs, MailAccepted(k)
    PROVE  LateInv'
<1>1. contactJob \in [ContactJobs -> JobRecords(ContactSteps, Attempts)] /\ lateMails \in Nat
  BY DEF TypeOK
<1>2. /\ Working' = Working
      /\ Sending' = Sending \ {k} /\ k \in Sending
      /\ stored'.status = stored.status
      /\ lateMails' = IF stored.status = "DELETED" THEN lateMails + 1 ELSE lateMails
  BY <1>1 DEF MailAccepted, At, Working, Sending, IsActive, Settled, JobRecords, row
<1>3. IsFiniteSet(Sending) /\ Cardinality(Sending) \in Nat
  BY SendingIsWorking
<1>4. Cardinality(Sending') = Cardinality(Sending) - 1
  BY <1>2, <1>3, FS_RemoveElement
<1>5. stored.status = "DELETED" => lateMails' + Cardinality(Sending') <= NumWorkers
  BY <1>1, <1>2, <1>3, <1>4, ParameterAssumption DEF LateInv
<1>6. QED
  BY <1>2, <1>5 DEF LateInv

LEMMA LateStep == Inv /\ LateInv /\ [Next]_vars => LateInv'
<1> SUFFICES ASSUME Inv, LateInv, [Next]_vars PROVE LateInv'
  OBVIOUS
<1>0. /\ TypeOK
      /\ contactJob \in [ContactJobs -> JobRecords(ContactSteps, Attempts)]
      /\ lateMails \in Nat
  BY DEF Inv, TypeInv, TypeOK
<1>1. ASSUME UNCHANGED <<contactJob, lateMails>>, stored'.status = stored.status \/ stored.status # "DELETED"
      PROVE  LateInv'
  <2>1. Working' = Working /\ Sending' = Sending
    BY <1>1 DEF Working, Sending
  <2>2. QED
    BY <1>0, <1>1, <2>1, LateShrinks
<1>2. CASE \/ \E r \in Requests : SendRequest(r)
           \/ Session \/ UpdateBroadcast \/ DeleteBroadcast
           \/ \E c \in Contacts : ContactChanges(c)
  <2>1. UNCHANGED <<contactJob, lateMails>>
    BY <1>2, SessionKeepsJobs DEF SendRequest, ReadForSend, AddFanOut, MarkQueued,
       LoseRequest, UpdateBroadcast, DeleteBroadcast, ContactChanges, mailing
  <2>2. stored'.status = stored.status \/ stored.status # "DELETED"
    BY StoredStays
  <2>3. QED
    BY <1>1, <2>1, <2>2
<1>3. CASE \E r \in Requests :
               \/ TakeFanOut(r) \/ DropUnregistered(r) \/ FindBroadcast(r)
               \/ FinishFanOut(r) \/ FailFanOut(r) \/ StallFanOut(r)
  <2>1. UNCHANGED <<contactJob, lateMails, stored>>
    BY <1>3 DEF TakeFanOut, DropUnregistered, FindBroadcast, FinishFanOut, FailFanOut,
       StallFanOut, row, mailing
  <2>2. QED
    BY <1>1, <2>1
<1>4. ASSUME NEW r \in Requests, QueuePage(r) PROVE LateInv'
  <2>1. ASSUME NEW k \in ContactJobs, contactJob'[k] # contactJob[k]
        PROVE  contactJob[k] = NoJob /\ contactJob'[k] = Added
    BY <1>4, <2>1, PageAddsNew DEF Inv
  <2>2. Working' \in SUBSET Working
    BY <2>1 DEF Working, IsActive, Added
  <2>3. Sending' \in SUBSET Sending
    BY <2>1 DEF Sending, Added
  <2>4. lateMails' = lateMails /\ stored'.status = stored.status
    BY <1>4 DEF QueuePage, row
  <2>5. QED
    BY <1>0, <2>2, <2>3, <2>4, LateShrinks
<1>5. ASSUME NEW k \in ContactJobs, FindContact(k) PROVE LateInv'
  <2>1. /\ Working' = Working
        /\ stored'.status = stored.status /\ stored.status # "DELETED" /\ lateMails' = lateMails
    BY <1>0, <1>5 DEF FindContact, At, Working, IsActive, Settled, JobRecords, row
  <2>2. QED
    BY <2>1 DEF LateInv
<1>6. ASSUME NEW k \in ContactJobs,
             MarkSent(k) \/ FinishContact(k) \/ FailContact(k) \/ StallContact(k)
      PROVE  LateInv'
  <2>1. /\ contactJob[k].state # "waiting"
        /\ IsActive(contactJob[k])
        /\ contactJob'[k].state \in {"ack", "completed", "waiting", "failed"}
        /\ \A j \in ContactJobs \ {k} : contactJob'[j] = contactJob[j]
        /\ lateMails' = lateMails /\ stored'.status = stored.status
    BY <1>0, <1>6 DEF MarkSent, FinishContact, FailContact, StallContact, At, Complete,
       AttemptFailed, Stall, IsActive, Settled, JobRecords, row
  <2>2. Working' \in SUBSET Working /\ Sending' \in SUBSET Sending
    BY <2>1 DEF Working, Sending
  <2>3. QED
    BY <1>0, <2>1, <2>2, LateShrinks
<1>7. CASE UNCHANGED vars
  <2>1. UNCHANGED <<contactJob, lateMails, stored>>
    BY <1>7 DEF vars, row, mailing
  <2>2. QED
    BY <1>1, <2>1
<1>8. QED
  BY <1>0, <1>2, <1>3, <1>4, <1>5, <1>6, <1>7, LateTake, LateMail
  DEF Next, WorkerStep, FanOutStep, ContactStep

\* However a committed delete falls among the handlers, the mail server takes at most one
\* more mail per worker.
THEOREM DeleteStops == SafeSpec => []DeleteStopsSending
<1>1. Inv /\ LateInv => DeleteStopsSending
  <2> SUFFICES ASSUME Inv, LateInv PROVE DeleteStopsSending
    OBVIOUS
  <2>1. lateMails \in Nat /\ Cardinality(Sending) \in Nat
    BY SendingIsWorking DEF Inv, TypeInv, TypeOK
  <2>2. QED
    BY <2>1, ParameterAssumption DEF LateInv, DeleteStopsSending
<1>2. QED
  BY InvHolds, LateInit, LateStep, <1>1, PTL DEF SafeSpec
-----------------------------------------------------------------------------
(***************************************************************************)
(* Action properties and the refinement.                                   *)
(***************************************************************************)

\* What any step does to one contact job: it adds it, runs it, or leaves it.
LEMMA ContactCases ==
    ASSUME Inv, [Next]_vars, NEW k \in ContactJobs
    PROVE  \/ contactJob'[k] = contactJob[k] /\ mails'[k] = mails[k]
           \/ contactJob[k] = NoJob /\ contactJob'[k] = Added /\ mails'[k] = mails[k]
           \/ ContactStep(k) \/ StallContact(k)
<1>0. /\ contactJob \in [ContactJobs -> LiveRecords(ContactSteps, Attempts)]
      /\ mails \in [ContactJobs -> Nat]
  BY DEF Inv, TypeInv, TypeOK
<1>1. ASSUME NEW r \in Requests, QueuePage(r), contactJob'[k] # contactJob[k]
      PROVE  contactJob[k] = NoJob /\ contactJob'[k] = Added /\ mails'[k] = mails[k]
  BY <1>1, PageAddsNew DEF QueuePage, Inv
<1>2. ASSUME NEW r \in Requests, QueuePage(r) PROVE mails' = mails
  BY <1>2 DEF QueuePage
<1>3. ASSUME NEW j \in ContactJobs, j # k, ContactStep(j) \/ StallContact(j)
      PROVE  contactJob'[k] = contactJob[k] /\ mails'[k] = mails[k]
  BY <1>0, <1>3 DEF ContactStep, TakeContact, FindContact, MailAccepted, MarkSent,
     FinishContact, FailContact, StallContact
<1>4. ASSUME \/ \E r \in Requests : SendRequest(r)
             \/ Session \/ UpdateBroadcast \/ DeleteBroadcast
             \/ \E c \in Contacts : ContactChanges(c)
             \/ \E r \in Requests :
                    \/ TakeFanOut(r) \/ DropUnregistered(r) \/ FindBroadcast(r)
                    \/ FinishFanOut(r) \/ FailFanOut(r) \/ StallFanOut(r)
             \/ UNCHANGED vars
      PROVE  UNCHANGED <<contactJob, mails>>
  BY <1>4, SessionKeepsJobs DEF SendRequest, ReadForSend, AddFanOut, MarkQueued, LoseRequest,
     UpdateBroadcast, DeleteBroadcast, ContactChanges, TakeFanOut, DropUnregistered,
     FindBroadcast, FinishFanOut, FailFanOut, StallFanOut, vars, mailing
<1>5. QED
  BY <1>1, <1>2, <1>3, <1>4 DEF Next, WorkerStep, FanOutStep

\* A job that was added is in the queue for good.
LEMMA ExistsStays ==
    ASSUME Inv, [Next]_vars, NEW k \in ContactJobs, Exists(contactJob[k])
    PROVE  Exists(contactJob'[k])
<1>1. /\ contactJob \in [ContactJobs -> LiveRecords(ContactSteps, Attempts)]
      /\ contactJob[k] # NoJob
  BY DEF Inv, TypeInv, Exists, NoJob
<1>2. CASE ContactStep(k) \/ StallContact(k)
  BY <1>1, <1>2 DEF ContactStep, TakeContact, FindContact, MailAccepted, MarkSent,
     FinishContact, FailContact, StallContact, At, Complete, AttemptFailed, Stall,
     Exists, LiveRecords, JobRecords
<1>3. QED
  BY <1>1, <1>2, ContactCases

\* What was settled stays settled, and a committed row, queued or deleted, is not
\* taken back, whatever other handlers roll back on the session.
THEOREM SettledStays == SafeSpec => SettledIsFinal
<1>1. ASSUME Inv, [Next]_vars, NEW k \in ContactJobs, IsSettled(contactJob[k])
      PROVE  contactJob'[k] = contactJob[k] /\ mails'[k] = mails[k]
  <2>1. /\ contactJob[k] # NoJob
        /\ ~ContactStep(k) /\ ~StallContact(k)
    BY <1>1 DEF NoJob, IsSettled, Settled, IsActive, ContactStep, TakeContact,
       FindContact, MailAccepted, MarkSent, FinishContact, FailContact, StallContact
  <2>2. QED
    BY <1>1, <2>1, ContactCases
<1>2. Inv /\ [Next]_vars =>
          [/\ \A k \in ContactJobs : IsSettled(contactJob[k]) =>
                  contactJob'[k] = contactJob[k] /\ mails'[k] = mails[k]
           /\ stored.status # "DRAFT" => stored'.status # "DRAFT"
           /\ stored.status = "DELETED" => stored'.status = "DELETED"]_vars
  BY <1>1, StoredStays
<1>3. QED
  BY InvHolds, <1>2, PTL DEF SafeSpec, SettledIsFinal

LEMMA PromisedInit == Init => Promised!Init
  BY DEF Init, Promised!Init, Outcome, NoJob

LEMMA PromisedStep == Inv /\ [Next]_vars => [Promised!Next]_(Promised!vars)
<1> SUFFICES ASSUME Inv, [Next]_vars PROVE [Promised!Next]_(Promised!vars)
  OBVIOUS
<1> USE ParameterAssumption, MaxStalledAssumption
<1> DEFINE out == [k \in ContactJobs |-> Outcome(contactJob[k])]
<1>0. /\ contactJob \in [ContactJobs -> LiveRecords(ContactSteps, Attempts)]
      /\ contactJob' \in [ContactJobs -> LiveRecords(ContactSteps, Attempts)]
      /\ mails \in [ContactJobs -> Nat]
  BY TypeStep DEF Inv, TypeInv, TypeOK
<1>1. ASSUME UNCHANGED <<contactJob, mails>> PROVE UNCHANGED Promised!vars
  BY <1>1 DEF Promised!vars
<1>2. ASSUME NEW r \in Requests, QueuePage(r)
      PROVE  \E page \in SUBSET ContactJobs : Promised!Promise(page)
  <2> DEFINE page == {k \in ContactJobs : contactJob'[k] # contactJob[k]}
  <2>1. ASSUME NEW k \in page
        PROVE  contactJob[k] = NoJob /\ contactJob'[k] = Added
    BY <1>2, PageAddsNew DEF Inv
  <2>2. \A k \in page : Outcome(contactJob[k]) = "absent" /\ Outcome(contactJob'[k]) = "open"
    BY <2>1 DEF Outcome, NoJob, Added
  <2>3. \A k \in ContactJobs \ page : contactJob'[k] = contactJob[k]
    OBVIOUS
  <2>4. mails' = mails
    BY <1>2 DEF QueuePage
  <2>5. Promised!Promise(page)
    BY <2>2, <2>3, <2>4 DEF Promised!Promise
  <2>6. QED
    BY <2>5
<1>3. ASSUME NEW k \in ContactJobs, ContactStep(k) \/ StallContact(k)
      PROVE  [Promised!Next]_(Promised!vars)
  <2>1. \A j \in ContactJobs \ {k} : contactJob'[j] = contactJob[j]
    BY <1>0, <1>3 DEF ContactStep, TakeContact, FindContact, MailAccepted, MarkSent,
       FinishContact, FailContact, StallContact
  <2>2. Outcome(contactJob[k]) = "open" /\ ~IsSettled(contactJob[k])
    BY <1>3 DEF ContactStep, TakeContact, FindContact, MailAccepted, MarkSent,
       FinishContact, FailContact, StallContact, IsActive, IsSettled, Settled, Outcome
  <2>3. CASE TakeContact(k) \/ FindContact(k) \/ MarkSent(k)
    <3>1. Outcome(contactJob'[k]) = "open" /\ mails' = mails
      BY <1>0, <2>2, <2>3, MovedJob DEF TakeContact, FindContact, MarkSent, ContactSteps, Outcome
    <3>2. out' = out
      BY <2>1, <2>2, <3>1
    <3>3. QED
      BY <3>1, <3>2 DEF Promised!vars
  <2>4. CASE MailAccepted(k)
    <3>1. /\ Outcome(contactJob'[k]) = "open"
          /\ mails' = [mails EXCEPT ![k] = @ + 1]
          /\ mails[k] < Attempts + MaxStalled
      BY <1>0, <2>2, <2>4, MovedJob, MailLimit DEF MailAccepted, ContactSteps, Outcome
    <3>2. out' = out
      BY <2>1, <2>2, <3>1
    <3>3. Promised!Mail(k)
      BY <2>2, <3>1, <3>2 DEF Promised!Mail
    <3>4. QED
      BY <3>3 DEF Promised!Next
  <2>5. CASE FinishContact(k)
    <3>1. Outcome(contactJob'[k]) = "done" /\ mails' = mails
      BY <1>0, <2>2, <2>5, MovedJob DEF FinishContact, ContactSteps, Outcome
    <3>2. mails[k] > 0
      <4>1. Sound(contactJob[k], mails[k], marks[k]) /\ mails[k] \in Nat /\ marks[k] \in Nat
        BY DEF Inv, TypeInv, TypeOK, ContactInv
      <4>2. contactJob[k].state = "ack"
        BY <2>5 DEF FinishContact
      <4>3. QED
        BY <4>1, <4>2 DEF Sound
    <3>3. out' = [out EXCEPT ![k] = "done"]
      BY <2>1, <3>1
    <3>4. Promised!Finish(k)
      BY <2>2, <3>1, <3>2, <3>3 DEF Promised!Finish
    <3>5. QED
      BY <3>4 DEF Promised!Next, Promised!Settle
  <2>6. CASE FailContact(k) \/ StallContact(k)
    <3>1. /\ Outcome(contactJob'[k]) \in {"open", "dead"}
          /\ mails' = mails
      BY <1>0, <2>2, <2>6, FailedJob, StalledJob DEF FailContact, StallContact, Outcome
    <3>2. CASE Outcome(contactJob'[k]) = "open"
      <4>1. out' = out
        BY <2>1, <2>2, <3>2
      <4>2. QED
        BY <3>1, <4>1 DEF Promised!vars
    <3>3. CASE Outcome(contactJob'[k]) = "dead"
      <4>1. out' = [out EXCEPT ![k] = "dead"]
        BY <2>1, <3>3
      <4>2. Promised!GiveUp(k)
        BY <2>2, <3>1, <4>1 DEF Promised!GiveUp
      <4>3. QED
        BY <4>2 DEF Promised!Next, Promised!Settle
    <3>4. QED
      BY <3>1, <3>2, <3>3
  <2>7. QED
    BY <1>3, <2>3, <2>4, <2>5, <2>6 DEF ContactStep
<1>4. ASSUME \/ \E r \in Requests : SendRequest(r)
             \/ Session \/ UpdateBroadcast \/ DeleteBroadcast
             \/ \E c \in Contacts : ContactChanges(c)
             \/ \E r \in Requests :
                    \/ TakeFanOut(r) \/ DropUnregistered(r) \/ FindBroadcast(r)
                    \/ FinishFanOut(r) \/ FailFanOut(r) \/ StallFanOut(r)
             \/ UNCHANGED vars
      PROVE  UNCHANGED Promised!vars
  <2>1. UNCHANGED <<contactJob, mails>>
    BY <1>4, SessionKeepsJobs DEF SendRequest, ReadForSend, AddFanOut, MarkQueued, LoseRequest,
       UpdateBroadcast, DeleteBroadcast, ContactChanges, TakeFanOut, DropUnregistered,
       FindBroadcast, FinishFanOut, FailFanOut, StallFanOut, vars, mailing
  <2>2. QED
    BY <1>1, <2>1
<1>5. QED
  BY <1>2, <1>3, <1>4 DEF Next, WorkerStep, FanOutStep, Promised!Next

\* The contact jobs keep the safety part of the delivery promise: they implement
\* the abstract specification, step by step.
THEOREM PromiseKept == SafeSpec => Promised!SafeSpec
  BY InvHolds, PromisedInit, PromisedStep, PTL DEF SafeSpec, Promised!SafeSpec
-----------------------------------------------------------------------------
(***************************************************************************)
(* A fan-out over audiences that fit on one page.                          *)
(***************************************************************************)
\* The first of the code's two pages is enough: with it, nothing depends on the
\* order in which a page lists the contacts, or on who came between two pages.
OnePage ==
    \A a \in Audiences : Cardinality({c \in Contacts : HomeOf[c] = a}) <= BatchSize

FirstPageJob(r, c) ==
    [request |-> r, run |-> fanOut[r].stalls, page |-> 0, contact |-> c]

PastFirstPage(r) ==
    \/ fanOut[r].state = "page" /\ cursor[r].page > 0
    \/ fanOut[r].state = "completed" /\ name[r] = "SEND_BROADCAST"

CoverInv ==
    /\ Steady \subseteq matching
    /\ \A r \in Requests, c \in Steady :
           PastFirstPage(r) /\ HomeOf[c] = cursor[r].audience =>
               Exists(contactJob[FirstPageJob(r, c)])

LEMMA CoverInit == Init => CoverInv
<1> SUFFICES ASSUME Init PROVE CoverInv
  OBVIOUS
<1>1. Steady \subseteq matching
  BY DEF Init
<1>2. \A r \in Requests : ~PastFirstPage(r)
  BY DEF Init, PastFirstPage, NoJob
<1>3. QED
  BY <1>1, <1>2 DEF CoverInv

\* A first page is everybody whom the segment selects.
LEMMA FirstPageIsAll ==
    ASSUME TypeOK, OnePage, NEW a \in Audiences,
           NEW ids \in PageOf({c \in matching : HomeOf[c] = a}, 0)
    PROVE  ids = {c \in matching : HomeOf[c] = a}
<1> DEFINE home == {c \in Contacts : HomeOf[c] = a}
           rows == {c \in matching : HomeOf[c] = a}
<1>1. IsFiniteSet(home) /\ Cardinality(home) <= BatchSize
  <2>1. home \in SUBSET Contacts
    OBVIOUS
  <2>2. QED
    BY <2>1, FiniteAssumption, FS_Subset DEF OnePage
<1>2. IsFiniteSet(rows) /\ Cardinality(rows) <= BatchSize /\ Cardinality(rows) \in Nat
  <2>1. rows \in SUBSET home
    BY DEF TypeOK
  <2>2. IsFiniteSet(rows) /\ Cardinality(rows) <= Cardinality(home)
    BY <1>1, <2>1, FS_Subset
  <2>3. Cardinality(rows) \in Nat /\ Cardinality(home) \in Nat
    BY <1>1, <2>2, FS_CardinalityType
  <2>4. QED
    BY <1>1, <2>2, <2>3, ParameterAssumption
<1>3. Cardinality(rows) - 0 * BatchSize = Cardinality(rows)
  BY <1>2, ParameterAssumption
<1>4. ids \in SUBSET rows
  BY DEF PageOf
<1>5. Cardinality(ids) = Cardinality(rows)
  <2>1. Cardinality(ids) = IF Cardinality(rows) > 0
                           THEN IF Cardinality(rows) > BatchSize THEN BatchSize
                                                                 ELSE Cardinality(rows)
                           ELSE 0
    BY <1>3 DEF PageOf
  <2>2. QED
    BY <1>2, <2>1, ParameterAssumption
<1>6. QED
  BY <1>2, <1>4, <1>5, FS_Subset

\* The jobs that a request is past stay, and so does the rest of what CoverInv
\* says of it, unless the request's own execution moves.
LEMMA CoverStays ==
    ASSUME Inv, CoverInv, [Next]_vars, NEW r \in Requests, NEW c \in Steady,
           fanOut'[r].stalls = fanOut[r].stalls, cursor'[r].audience = cursor[r].audience,
           PastFirstPage(r), HomeOf[c] = cursor'[r].audience
    PROVE  Exists(contactJob'[FirstPageJob(r, c)'])
<1>1. FirstPageJob(r, c)' = FirstPageJob(r, c)
  BY DEF FirstPageJob
<1>2. FirstPageJob(r, c) \in ContactJobs
  BY ParameterAssumption, MaxStalledAssumption
  DEF FirstPageJob, ContactJobs, Pages, TotalBatches, Inv, TypeInv, LiveRecords, JobRecords
<1>3. Exists(contactJob[FirstPageJob(r, c)])
  BY DEF CoverInv
<1>4. QED
  BY <1>1, <1>2, <1>3, ExistsStays

LEMMA CoverStep == OnePage /\ Inv /\ CoverInv /\ [Next]_vars => CoverInv'
<1> SUFFICES ASSUME OnePage, Inv, CoverInv, [Next]_vars PROVE CoverInv'
  OBVIOUS
<1>0. /\ TypeOK /\ RequestInv
      /\ fanOut \in [Requests -> LiveRecords(FanOutSteps, 1)]
      /\ cursor \in [Requests -> [audience : Audiences, page : 0 .. 2]]
  BY DEF Inv, TypeInv, TypeOK, TotalBatches
<1>1. (Steady \subseteq matching)'
  <2>1. ASSUME NEW c \in Contacts, ContactChanges(c) PROVE Steady \subseteq matching'
    BY <2>1 DEF ContactChanges, CoverInv
  <2>2. \/ matching' = matching
        \/ \E c \in Contacts : ContactChanges(c)
    BY SessionKeepsJobs DEF Next, SendRequest, ReadForSend, AddFanOut, MarkQueued, LoseRequest,
       UpdateBroadcast, DeleteBroadcast, WorkerStep, FanOutStep, TakeFanOut,
       DropUnregistered, FindBroadcast, QueuePage, FinishFanOut, FailFanOut, StallFanOut,
       ContactStep, TakeContact, FindContact, MailAccepted, MarkSent, FinishContact,
       FailContact, StallContact, vars
  <2>3. QED
    BY <2>1, <2>2 DEF CoverInv
<1>2. ASSUME NEW r \in Requests, NEW c \in Steady,
             PastFirstPage(r)', HomeOf[c] = cursor'[r].audience
      PROVE  Exists(contactJob'[FirstPageJob(r, c)'])
  <2> DEFINE Still == /\ fanOut'[r].stalls = fanOut[r].stalls
                      /\ cursor'[r].audience = cursor[r].audience
                      /\ PastFirstPage(r)
  <2>1. CASE Still
    BY <1>2, <2>1, CoverStays
  <2>2. CASE QueuePage(r)
    <3>1. CASE cursor[r].page > 0
      <4>1. fanOut' = fanOut /\ cursor'[r].audience = cursor[r].audience
        BY <1>0, <2>2 DEF QueuePage
      <4>2. PastFirstPage(r)
        BY <2>2, <3>1 DEF QueuePage, PastFirstPage
      <4>3. QED
        BY <2>1, <4>1, <4>2
    <3>2. CASE cursor[r].page = 0
      <4>1. PICK ids \in PageOf({d \in matching : HomeOf[d] = cursor[r].audience}, 0) :
                contactJob' = [k \in ContactJobs |->
                    IF /\ k.request = r
                       /\ k.run = fanOut[r].stalls
                       /\ k.page = 0
                       /\ k.contact \in ids
                    THEN Added
                    ELSE contactJob[k]]
        BY <2>2, <3>2 DEF QueuePage
      <4>2. cursor[r].audience \in Audiences
        BY <1>0
      <4>3. fanOut' = fanOut /\ cursor'[r].audience = cursor[r].audience
        BY <1>0, <2>2 DEF QueuePage
      <4>4. c \in ids
        <5>1. ids = {d \in matching : HomeOf[d] = cursor[r].audience}
          BY <1>0, <4>1, <4>2, FirstPageIsAll
        <5>2. QED
          BY <1>2, <4>3, <5>1 DEF CoverInv
      <4>5. FirstPageJob(r, c)' = FirstPageJob(r, c) /\ FirstPageJob(r, c) \in ContactJobs
        BY <1>0, <4>3, ParameterAssumption, MaxStalledAssumption
        DEF FirstPageJob, ContactJobs, Pages, TotalBatches, LiveRecords, JobRecords
      <4>6. contactJob'[FirstPageJob(r, c)] = Added
        BY <4>1, <4>4, <4>5 DEF FirstPageJob
      <4>7. QED
        BY <4>5, <4>6 DEF Exists, Added
    <3>3. QED
      BY <1>0, <3>1, <3>2
  <2>3. CASE FinishFanOut(r)
    <3>1. /\ fanOut'[r].stalls = fanOut[r].stalls /\ cursor' = cursor
          /\ fanOut[r].state = "page" /\ cursor[r].page > 0
      BY <1>0, <2>3 DEF FinishFanOut, Complete, Pages, TotalBatches, LiveRecords, JobRecords
    <3>2. QED
      BY <2>1, <3>1 DEF PastFirstPage
  <2>4. CASE FindBroadcast(r) \/ TakeFanOut(r) \/ FailFanOut(r) \/ StallFanOut(r)
    <3>1. ASSUME FindBroadcast(r) PROVE ~PastFirstPage(r)'
      BY <1>0, <3>1 DEF FindBroadcast, At, PastFirstPage, LiveRecords, JobRecords
    <3>2. ASSUME TakeFanOut(r) \/ FailFanOut(r) \/ StallFanOut(r) PROVE ~PastFirstPage(r)'
      <4>1. fanOut'[r].state \in {"find", "waiting", "failed"}
        BY <1>0, <3>2 DEF TakeFanOut, FailFanOut, StallFanOut, At, AttemptFailed, Stall,
           LiveRecords, JobRecords
      <4>2. QED
        BY <4>1 DEF PastFirstPage
    <3>3. QED
      BY <1>2, <2>4, <3>1, <3>2
  <2>5. CASE DropUnregistered(r)
    <3>1. ~PastFirstPage(r)'
      BY <1>0, <2>5 DEF DropUnregistered, Complete, PastFirstPage, http, LiveRecords, JobRecords
    <3>2. QED
      BY <1>2, <3>1
  <2>6. CASE AddFanOut(r) \/ ReadForSend(r)
    <3>1. fanOut[r].state = "none"
      BY <1>0, <2>6 DEF AddFanOut, ReadForSend, RequestInv, NoJob
    <3>2. ~PastFirstPage(r)'
      BY <1>0, <2>6, <3>1 DEF AddFanOut, ReadForSend, Added, PastFirstPage, fanning
    <3>3. QED
      BY <1>2, <3>2
  <2>7. CASE UNCHANGED <<fanOut[r], cursor[r], name[r]>>
    BY <1>2, <2>1, <2>7 DEF PastFirstPage
  <2>8. ASSUME NEW q \in Requests \ {r}, SendRequest(q) \/ FanOutStep(q) \/ StallFanOut(q)
        PROVE  UNCHANGED <<fanOut[r], cursor[r], name[r]>>
    BY <1>0, <2>8 DEF SendRequest, ReadForSend, AddFanOut, MarkQueued, LoseRequest,
       FanOutStep, TakeFanOut, DropUnregistered, FindBroadcast, QueuePage, FinishFanOut,
       FailFanOut, StallFanOut, http, fanning, TypeOK
  <2>9. CASE \/ MarkQueued(r) \/ LoseRequest(r)
             \/ Session \/ UpdateBroadcast \/ DeleteBroadcast
             \/ \E d \in Contacts : ContactChanges(d)
             \/ \E k \in ContactJobs : ContactStep(k) \/ StallContact(k)
             \/ UNCHANGED vars
    <3>1. UNCHANGED <<fanOut[r], cursor[r], name[r]>>
      BY <2>9, SessionKeepsJobs DEF MarkQueued, LoseRequest, UpdateBroadcast, DeleteBroadcast,
         ContactChanges, ContactStep, TakeContact, FindContact, MailAccepted, MarkSent,
         FinishContact, FailContact, StallContact, vars, http, fanning
    <3>2. QED
      BY <2>7, <3>1
  <2>10. QED
    BY <2>2, <2>3, <2>4, <2>5, <2>6, <2>7, <2>8, <2>9
    DEF Next, SendRequest, WorkerStep, FanOutStep
<1>3. QED
  BY <1>1, <1>2 DEF CoverInv

\* Where every audience fits on a page, a fan-out that reports success has queued
\* everybody who was selected all along, whoever else comes and goes, and
\* whatever was edited, retried or lost meanwhile.
THEOREM OnePageIsWhole == SafeSpec => [](OnePage => EveryContactQueued)
<1>1. Inv /\ CoverInv => EveryContactQueued
  <2> SUFFICES ASSUME Inv, CoverInv, NEW r \in Requests, NEW c \in Steady,
                      name[r] = "SEND_BROADCAST", fanOut[r].state = "completed",
                      HomeOf[c] = cursor[r].audience
               PROVE  \E k \in ContactJobs :
                          k.request = r /\ k.contact = c /\ Exists(contactJob[k])
    BY DEF EveryContactQueued
  <2>1. FirstPageJob(r, c) \in ContactJobs
    BY ParameterAssumption, MaxStalledAssumption
    DEF FirstPageJob, ContactJobs, Pages, TotalBatches, Inv, TypeInv, LiveRecords, JobRecords
  <2>2. Exists(contactJob[FirstPageJob(r, c)])
    BY DEF CoverInv, PastFirstPage
  <2>3. WITNESS FirstPageJob(r, c) \in ContactJobs
  <2>4. QED
    BY <2>2 DEF FirstPageJob
<1>2. CoverInv => (OnePage => CoverInv)
  OBVIOUS
<1>3. Inv /\ (OnePage => CoverInv) /\ [Next]_vars => (OnePage => CoverInv)'
  BY CoverStep DEF OnePage
<1>4. Inv /\ (OnePage => CoverInv) => (OnePage => EveryContactQueued)
  BY <1>1
<1>5. QED
  BY InvHolds, CoverInit, <1>2, <1>3, <1>4, PTL DEF SafeSpec
-----------------------------------------------------------------------------
(***************************************************************************)
(* Nothing runs for ever.                                                  *)
(***************************************************************************)

\* A step or a stall of a contact job leaves it less to do.
LEMMA ContactRunsDown ==
    ASSUME Inv, NEW k \in ContactJobs, ContactStep(k) \/ StallContact(k)
    PROVE  Exists(contactJob[k]) /\ ContactLeft(k)' < ContactLeft(k)
<1> DEFINE job == contactJob[k]
           runs == (Attempts - job.made) + (MaxStalled - job.stalls)
<1>1. /\ contactJob \in [ContactJobs -> LiveRecords(ContactSteps, Attempts)]
      /\ job \in LiveRecords(ContactSteps, Attempts)
      /\ Attempts \in Nat \ {0} /\ MaxStalled \in Nat
  BY ParameterAssumption, MaxStalledAssumption DEF Inv, TypeInv
<1>2. Exists(job) /\ ~IsSettled(job)
  BY DEF ContactStep, TakeContact, FindContact, MailAccepted, MarkSent, FinishContact,
     FailContact, StallContact, Exists, IsSettled, IsActive, Settled
<1>3. /\ job.made \in Nat /\ job.made < Attempts
      /\ job.stalls \in Nat /\ job.stalls <= MaxStalled
      /\ runs \in Nat \ {0}
  BY <1>1, <1>2 DEF LiveRecords, JobRecords
<1>4. ContactLeft(k) = 5 * runs + CASE job.state = "waiting" -> 5
                                    [] job.state = "find"    -> 4
                                    [] job.state = "send"    -> 3
                                    [] job.state = "mark"    -> 2
                                    [] OTHER                 -> 1
  BY <1>2 DEF ContactLeft
<1>5. ContactLeft(k) > 5 * runs
  BY <1>3, <1>4
<1>6. ASSUME NEW step \in ContactSteps, contactJob' = [contactJob EXCEPT ![k] = At(@, step)]
      PROVE  ContactLeft(k)' = 5 * runs + CASE step = "find" -> 4
                                            [] step = "send" -> 3
                                            [] step = "mark" -> 2
                                            [] OTHER         -> 1
  <2>1. contactJob'[k] = [state |-> step, made |-> job.made, stalls |-> job.stalls]
    BY <1>1, <1>2, <1>6, MovedJob
  <2>2. QED
    BY <2>1 DEF ContactLeft, IsSettled, Settled, ContactSteps
<1>7. CASE TakeContact(k)
  <2>1. ContactLeft(k)' = 5 * runs + 4
    BY <1>6, <1>7 DEF TakeContact, ContactSteps
  <2>2. ContactLeft(k) = 5 * runs + 5
    BY <1>4, <1>7 DEF TakeContact
  <2>3. QED
    BY <1>2, <1>3, <2>1, <2>2
<1>8. CASE FindContact(k)
  <2>1. ContactLeft(k)' = 5 * runs + 3
    BY <1>6, <1>8 DEF FindContact, ContactSteps
  <2>2. ContactLeft(k) = 5 * runs + 4
    BY <1>4, <1>8 DEF FindContact
  <2>3. QED
    BY <1>2, <1>3, <2>1, <2>2
<1>9. CASE MailAccepted(k)
  <2>1. ContactLeft(k)' = 5 * runs + 2
    BY <1>6, <1>9 DEF MailAccepted, ContactSteps
  <2>2. ContactLeft(k) = 5 * runs + 3
    BY <1>4, <1>9 DEF MailAccepted
  <2>3. QED
    BY <1>2, <1>3, <2>1, <2>2
<1>10. CASE MarkSent(k)
  <2>1. ContactLeft(k)' = 5 * runs + 1
    BY <1>6, <1>10 DEF MarkSent, ContactSteps
  <2>2. ContactLeft(k) = 5 * runs + 2
    BY <1>4, <1>10 DEF MarkSent
  <2>3. QED
    BY <1>2, <1>3, <2>1, <2>2
<1>11. ASSUME IsSettled(contactJob'[k]) PROVE ContactLeft(k)' < ContactLeft(k)
  <2>1. ContactLeft(k)' = 0
    BY <1>11 DEF ContactLeft
  <2>2. QED
    BY <1>3, <1>4, <2>1
<1>12. ASSUME contactJob'[k].state = "waiting",
              (Attempts - contactJob'[k].made) + (MaxStalled - contactJob'[k].stalls) = runs - 1
       PROVE  ContactLeft(k)' < ContactLeft(k)
  <2>1. ContactLeft(k)' = 5 * (runs - 1) + 5
    BY <1>12 DEF ContactLeft, IsSettled, Settled
  <2>2. QED
    BY <1>3, <1>5, <1>4, <2>1
<1>13. CASE FinishContact(k)
  <2>1. contactJob'[k] = Complete(job)
    BY <1>1, <1>13 DEF FinishContact
  <2>2. job.state = "ack" /\ "ack" \in ContactSteps
    BY <1>13 DEF FinishContact, ContactSteps
  <2>3. contactJob'[k].state = "completed"
    BY <1>1, <1>2, <2>1, <2>2, MovedJob
  <2>4. QED
    BY <1>2, <1>11, <2>3 DEF IsSettled, Settled
<1>14. CASE FailContact(k)
  <2>1. contactJob'[k] = AttemptFailed(job, Attempts)
    BY <1>1, <1>14 DEF FailContact
  <2>2. /\ contactJob'[k].made = job.made + 1
        /\ contactJob'[k].stalls = job.stalls
        /\ contactJob'[k].state \in {"waiting", "failed"}
    BY <1>1, <1>2, <2>1, FailedJob
  <2>3. (Attempts - contactJob'[k].made) + (MaxStalled - contactJob'[k].stalls) = runs - 1
    BY <1>1, <1>3, <2>2
  <2>4. QED
    BY <1>2, <1>11, <1>12, <2>2, <2>3 DEF IsSettled, Settled
<1>15. CASE StallContact(k)
  <2>1. contactJob'[k] = Stall(job)
    BY <1>1, <1>15 DEF StallContact
  <2>2. /\ contactJob'[k].made = job.made
        /\ \/ /\ contactJob'[k].state = "waiting"
              /\ contactJob'[k].stalls = job.stalls + 1
           \/ contactJob'[k].state = "failed"
    BY <1>1, <1>2, <2>1, StalledJob
  <2>3. CASE contactJob'[k].state = "failed"
    BY <1>2, <1>11, <2>3 DEF IsSettled, Settled
  <2>4. CASE contactJob'[k].state = "waiting" /\ contactJob'[k].stalls = job.stalls + 1
    <3>1. (Attempts - contactJob'[k].made) + (MaxStalled - contactJob'[k].stalls) = runs - 1
      BY <1>1, <1>3, <2>2, <2>4
    <3>2. QED
      BY <1>2, <1>12, <2>4, <3>1
  <2>5. QED
    BY <2>2, <2>3, <2>4
<1>16. QED
  BY <1>7, <1>8, <1>9, <1>10, <1>13, <1>14, <1>15 DEF ContactStep

\* A step or a stall of a fan-out job leaves it less to do.
LEMMA FanOutRunsDown ==
    ASSUME Inv, NEW r \in Requests, FanOutStep(r) \/ StallFanOut(r)
    PROVE  Exists(fanOut[r]) /\ FanOutLeft(r)' < FanOutLeft(r)
<1> DEFINE job == fanOut[r]
           runs == (1 - job.made) + (MaxStalled - job.stalls)
<1>1. /\ fanOut \in [Requests -> LiveRecords(FanOutSteps, 1)]
      /\ job \in LiveRecords(FanOutSteps, 1)
      /\ cursor \in [Requests -> [audience : Audiences, page : 0 .. 2]]
      /\ cursor[r].page \in 0 .. 2
      /\ MaxStalled \in Nat
      /\ 1 \in Nat \ {0}
  BY MaxStalledAssumption DEF Inv, TypeInv, TypeOK, TotalBatches
<1>2. Exists(job) /\ ~IsSettled(job)
  BY DEF FanOutStep, TakeFanOut, DropUnregistered, FindBroadcast, QueuePage, FinishFanOut,
     FailFanOut, StallFanOut, FanOutSteps, Exists, IsSettled, IsActive, Settled
<1>3. /\ job.made = 0
      /\ job.stalls \in Nat /\ job.stalls <= MaxStalled
      /\ runs \in Nat \ {0}
  BY <1>1, <1>2 DEF LiveRecords, JobRecords
<1>4. FanOutLeft(r) = 5 * runs + CASE job.state = "waiting" -> 5
                                   [] job.state = "find"    -> 4
                                   [] OTHER                 -> 3 - cursor[r].page
  BY <1>1, <1>2, <1>3 DEF FanOutLeft, TotalBatches
<1>5. FanOutLeft(r) \in Nat /\ FanOutLeft(r) > 5 * runs
  BY <1>1, <1>3, <1>4
<1>6. ASSUME NEW step \in FanOutSteps, fanOut' = [fanOut EXCEPT ![r] = At(@, step)],
             cursor'[r].page \in Nat
      PROVE  FanOutLeft(r)' = 5 * runs + CASE step = "find" -> 4
                                           [] OTHER         -> 3 - cursor'[r].page
  <2>1. fanOut'[r] = [state |-> step, made |-> job.made, stalls |-> job.stalls]
    BY <1>1, <1>2, <1>6, MovedJob
  <2>2. QED
    BY <1>1, <1>3, <1>6, <2>1 DEF FanOutLeft, TotalBatches, IsSettled, Settled, FanOutSteps
<1>7. ASSUME IsSettled(fanOut'[r]) PROVE FanOutLeft(r)' < FanOutLeft(r)
  <2>1. FanOutLeft(r)' = 0
    BY <1>7 DEF FanOutLeft
  <2>2. QED
    BY <1>3, <1>5, <2>1
<1>8. CASE TakeFanOut(r)
  <2>1. FanOutLeft(r)' = 5 * runs + 4
    BY <1>1, <1>6, <1>8 DEF TakeFanOut, FanOutSteps
  <2>2. FanOutLeft(r) = 5 * runs + 5
    BY <1>4, <1>8 DEF TakeFanOut
  <2>3. QED
    BY <1>2, <1>3, <2>1, <2>2
<1>9. CASE FindBroadcast(r)
  <2>1. cursor'[r].page = 0
    BY <1>1, <1>9 DEF FindBroadcast
  <2>2. FanOutLeft(r)' = 5 * runs + (3 - cursor'[r].page)
    BY <1>6, <1>9, <2>1 DEF FindBroadcast, FanOutSteps
  <2>3. FanOutLeft(r) = 5 * runs + 4
    BY <1>4, <1>9 DEF FindBroadcast
  <2>4. QED
    BY <1>2, <1>3, <2>1, <2>2, <2>3
<1>10. CASE QueuePage(r)
  <2>1. /\ job.state = "page" /\ fanOut'[r] = job
        /\ cursor'[r].page = cursor[r].page + 1
    BY <1>1, <1>10 DEF QueuePage
  <2>2. FanOutLeft(r) = 5 * runs + (3 - cursor[r].page)
    BY <1>4, <2>1
  <2>3. FanOutLeft(r)' = 5 * runs + (3 - cursor'[r].page)
    BY <1>1, <1>2, <1>3, <2>1 DEF FanOutLeft, TotalBatches
  <2>4. QED
    BY <1>1, <1>2, <1>3, <2>1, <2>2, <2>3
<1>11. CASE DropUnregistered(r) \/ FinishFanOut(r)
  <2>1. fanOut'[r] = Complete(job)
    BY <1>1, <1>11 DEF DropUnregistered, FinishFanOut
  <2>2. "page" \in FanOutSteps
    BY DEF FanOutSteps
  <2>3. fanOut'[r].state = "completed"
    BY <1>1, <1>2, <2>1, <2>2, MovedJob
  <2>4. QED
    BY <1>2, <1>7, <2>3 DEF IsSettled, Settled
<1>12. CASE FailFanOut(r)
  <2>1. fanOut'[r] = AttemptFailed(job, 1)
    BY <1>1, <1>12 DEF FailFanOut
  <2>2. fanOut'[r].state = "failed"
    BY <1>1, <1>3, <2>1 DEF AttemptFailed, LiveRecords, JobRecords
  <2>3. QED
    BY <1>2, <1>7, <2>2 DEF IsSettled, Settled
<1>13. CASE StallFanOut(r)
  <2>1. fanOut'[r] = Stall(job)
    BY <1>1, <1>13 DEF StallFanOut
  <2>2. /\ fanOut'[r].made = job.made
        /\ \/ /\ fanOut'[r].state = "waiting"
              /\ fanOut'[r].stalls = job.stalls + 1
           \/ fanOut'[r].state = "failed"
    BY <1>1, <1>2, <2>1, StalledJob
  <2>3. CASE fanOut'[r].state = "failed"
    BY <1>2, <1>7, <2>3 DEF IsSettled, Settled
  <2>4. CASE fanOut'[r].state = "waiting" /\ fanOut'[r].stalls = job.stalls + 1
    <3>1. (1 - fanOut'[r].made) + (MaxStalled - fanOut'[r].stalls) = runs - 1
      BY <1>1, <1>3, <2>2, <2>4
    <3>2. FanOutLeft(r)' = 5 * (runs - 1) + 5
      BY <2>4, <3>1 DEF FanOutLeft, TotalBatches, IsSettled, Settled
    <3>3. QED
      BY <1>2, <1>3, <1>5, <1>4, <3>2
  <2>5. QED
    BY <2>2, <2>3, <2>4
<1>14. QED
  BY <1>8, <1>9, <1>10, <1>11, <1>12, <1>13 DEF FanOutStep

\* What any step does to one fan-out job: it adds it, runs it, or leaves it.
LEMMA FanOutCases ==
    ASSUME Inv, [Next]_vars, NEW r \in Requests
    PROVE  \/ fanOut'[r] = fanOut[r] /\ cursor'[r] = cursor[r]
           \/ fanOut[r] = NoJob
           \/ FanOutStep(r) \/ StallFanOut(r)
<1>1. ASSUME NEW q \in Requests, AddFanOut(q)
      PROVE  fanOut[q] = NoJob /\ cursor' = cursor /\ (q # r => fanOut'[r] = fanOut[r])
  BY <1>1 DEF AddFanOut, Inv, RequestInv, TypeInv
<1>2. ASSUME NEW q \in Requests, q # r, FanOutStep(q) \/ StallFanOut(q)
      PROVE  fanOut'[r] = fanOut[r] /\ cursor'[r] = cursor[r]
  BY <1>2 DEF FanOutStep, TakeFanOut, DropUnregistered, FindBroadcast, QueuePage,
     FinishFanOut, FailFanOut, StallFanOut, Inv, TypeInv, TypeOK
<1>3. ASSUME \/ \E q \in Requests : ReadForSend(q) \/ MarkQueued(q) \/ LoseRequest(q)
             \/ Session \/ UpdateBroadcast \/ DeleteBroadcast
             \/ \E c \in Contacts : ContactChanges(c)
             \/ \E k \in ContactJobs : ContactStep(k) \/ StallContact(k)
             \/ UNCHANGED vars
      PROVE  UNCHANGED fanning
  BY <1>3, SessionKeepsJobs DEF ReadForSend, MarkQueued, LoseRequest, UpdateBroadcast, DeleteBroadcast,
     ContactChanges, ContactStep, TakeContact, FindContact, MailAccepted, MarkSent,
     FinishContact, FailContact, StallContact, vars
<1>4. QED
  BY <1>1, <1>2, <1>3 DEF Next, SendRequest, WorkerStep, fanning

\* A job that was added has less to do after each step that touches it, and each
\* step of a worker touches one: no error path, retry or stall goes on for ever.
THEOREM JobsRunDown == SafeSpec => RunsDown
<1>1. ASSUME Inv, [Next]_vars, NEW r \in Requests, Exists(fanOut[r]),
             fanOut'[r] # fanOut[r] \/ cursor'[r] # cursor[r]
      PROVE  FanOutLeft(r)' < FanOutLeft(r)
  BY <1>1, FanOutCases, FanOutRunsDown, NewJobs, ParameterAssumption
<1>2. ASSUME Inv, [Next]_vars, NEW k \in ContactJobs, Exists(contactJob[k]),
             contactJob'[k] # contactJob[k]
      PROVE  ContactLeft(k)' < ContactLeft(k)
  BY <1>2, ContactCases, ContactRunsDown, NewJobs, ParameterAssumption
<1>3. ASSUME Inv, WorkerStep
      PROVE  \/ \E r \in Requests : Exists(fanOut[r]) /\ FanOutLeft(r)' < FanOutLeft(r)
             \/ \E k \in ContactJobs :
                    Exists(contactJob[k]) /\ ContactLeft(k)' < ContactLeft(k)
  BY <1>3, FanOutRunsDown, ContactRunsDown DEF WorkerStep
<1>4. Inv /\ [Next]_vars =>
        [/\ \A r \in Requests :
                Exists(fanOut[r]) /\ (fanOut'[r] # fanOut[r] \/ cursor'[r] # cursor[r])
                => FanOutLeft(r)' < FanOutLeft(r)
         /\ \A k \in ContactJobs :
                Exists(contactJob[k]) /\ contactJob'[k] # contactJob[k]
                => ContactLeft(k)' < ContactLeft(k)
         /\ WorkerStep =>
                \/ \E r \in Requests : Exists(fanOut[r]) /\ FanOutLeft(r)' < FanOutLeft(r)
                \/ \E k \in ContactJobs :
                       Exists(contactJob[k]) /\ ContactLeft(k)' < ContactLeft(k)]_vars
  BY <1>1, <1>2, <1>3
<1>5. QED
  BY InvHolds, <1>4, PTL DEF SafeSpec, RunsDown
=============================================================================
