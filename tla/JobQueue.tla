------------------------------ MODULE JobQueue ------------------------------
(***************************************************************************)
(* The life of one BullMQ job as the worker process of the repository      *)
(* drives it (worker/ignitor/worker_ignitor.ts, processJob).  The job      *)
(* record keeps what BullMQ keeps of it: its state, the number of failed   *)
(* attempts and the number of times its worker vanished while it ran (a    *)
(* "stalled" job).  A component gives its own names to the steps of its    *)
(* handler; every state outside Settled \cup {"none", "waiting"} is such a *)
(* step, and the job is then active.                                       *)
(*                                                                         *)
(* A delayed job is a waiting one here: the model has no clock, a waiting  *)
(* job may be taken up arbitrarily late.                                   *)
(***************************************************************************)
EXTENDS Naturals

CONSTANT MaxStalled  \* BullMQ's maxStalledCount; the worker keeps the default, 1

ASSUME MaxStalledAssumption == MaxStalled \in Nat

Settled == {"completed", "failed"}

\* The records of a job whose handler has the given steps and that is added
\* with opts.attempts = attempts.
JobRecords(steps, attempts) ==
    [state  : {"none", "waiting"} \cup steps \cup Settled,
     made   : 0 .. attempts,
     stalls : 0 .. MaxStalled]

NoJob == [state |-> "none",    made |-> 0, stalls |-> 0]
Added == [state |-> "waiting", made |-> 0, stalls |-> 0]

Exists(job)    == job.state # "none"
IsSettled(job) == job.state \in Settled
IsActive(job)  == job.state \notin Settled \cup {"none", "waiting"}

\* The records a queue really holds: a job that is not settled has an attempt left.
LiveRecords(steps, attempts) ==
    {job \in JobRecords(steps, attempts) : IsSettled(job) \/ job.made < attempts}

\* processJob starts, or goes on with, the handler.
At(job, step) == [job EXCEPT !.state = step]

\* The handler returned success.
Complete(job) == [job EXCEPT !.state = "completed"]

\* Mutants: an attempt too many; and no retry at all.
AttemptFailedLate(job, attempts) ==
    IF job.made < attempts
    THEN [job EXCEPT !.state = "waiting", !.made = @ + 1]
    ELSE [job EXCEPT !.state = "failed",  !.made = @ + 1]

AttemptFailedForGood(job, attempts) ==
    [job EXCEPT !.state = "failed", !.made = @ + 1]

\* The handler threw, or answered success: false, which processJob turns into
\* a throw.  The job waits again as long as it has attempts left.
AttemptFailed(job, attempts) ==
    IF job.made + 1 < attempts
    THEN [job EXCEPT !.state = "waiting", !.made = @ + 1]
    ELSE [job EXCEPT !.state = "failed",  !.made = @ + 1]

\* The worker vanished while it ran the job.  BullMQ hands the job out again,
\* from its first step, or fails it once it has stalled too often.  A stall
\* is not an attempt.
Stall(job) ==
    IF job.stalls < MaxStalled
    THEN [job EXCEPT !.state = "waiting", !.stalls = @ + 1]
    ELSE [job EXCEPT !.state = "failed"]
=============================================================================
