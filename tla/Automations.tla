----------------------------- MODULE Automations -----------------------------
(***************************************************************************)
(* Automations (automations/): the chain of steps that HTTP requests       *)
(* build, and the three jobs that move contacts along it, on the queue     *)
(* "automations".                                                          *)
(*                                                                         *)
(* A step is named after the request that creates it, a step job after the *)
(* execution of RunAutomationForContactJob that added it.  A row of        *)
(* contactAutomationSteps for a step and a contact is written twice in the *)
(* code: by the producer of the step's job ("committed" holds the jobs     *)
(* whose producer got that far) and by the runner of the step              *)
(* ("recorded").  Nothing in the repository adds the first job of an       *)
(* automation yet, and WorkerIgnitor has no executor for the three jobs:   *)
(* they are taken up here as the unit tests call them.                     *)
(***************************************************************************)
EXTENDS JobQueue, FiniteSets

CONSTANTS
    Steps,        \* requests POST .../steps, and the steps they create
    Bodies,       \* what the requests may bring, but for their parentId:
                  \* functions from Steps to bodies
    Automations,
    Triggers,     \* jobs RunAutomationForContactJob
    AutomationOf, \* the automation in the payload of each such job
    ContactOf,    \* the contact in its payload
    Contacts,     \* contact ids: numbers, in the order of the primary key
    BatchSize,    \* contacts per page of RunAutomationStepJob, 75 in the code
    NumWorkers,   \* worker processes
    None          \* no parentId, no step

ASSUME AutomationAssumption ==
    /\ None \notin Steps
    /\ AutomationOf \in [Triggers -> Automations]
    /\ ContactOf \in [Triggers -> Contacts]
    /\ Contacts \subseteq Nat \ {0} /\ IsFiniteSet(Contacts)
    /\ BatchSize \in Nat \ {0}

\* The subtypes that each type of step admits.
SubtypesOf(type) ==
    CASE type = "TRIGGER" ->
            {"TRIGGER_CONTACT_SUBSCRIBED", "TRIGGER_CONTACT_UNSUBSCRIBED",
             "TRIGGER_CONTACT_TAG_ADDED", "TRIGGER_CONTACT_TAG_REMOVED",
             "TRIGGER_API_MANUAL"}
      [] type = "ACTION" ->
            {"ACTION_SEND_EMAIL", "ACTION_ADD_TAG", "ACTION_REMOVE_TAG",
             "ACTION_SUBSCRIBE_TO_AUDIENCE", "ACTION_UNSUBSCRIBE_FROM_AUDIENCE",
             "ACTION_UPDATE_CONTACT_ATTRIBUTES"}
      [] type = "RULE" ->
            {"RULE_IF_ELSE", "RULE_WAIT_FOR_DURATION",
             "RULE_PERCENTAGE_SPLIT", "RULE_WAIT_FOR_TRIGGER"}
      [] type = "END" -> {"END"}

StepTypes == {"TRIGGER", "ACTION", "RULE", "END"}
Ids       == {"emailId", "tagId", "audienceId"}

\* The columns of a step, as a request may give them, but for its parentId.
StepBodies ==
    [type       : StepTypes,
     subtype    : UNION {SubtypesOf(type) : type \in StepTypes},
     given      : SUBSET Ids,   \* the ids that are there,
     missing    : SUBSET Ids,   \* and that name no row
     configured : BOOLEAN,      \* the configuration has the shape for the subtype
     automation : Automations]

ASSUME BodiesAssumption == Bodies \subseteq [Steps -> StepBodies]

\* One execution of a trigger job adds at most one step job.
StepJobs == [trigger : Triggers, run : 0 .. MaxStalled]

TriggerSteps == {"find", "begin", "add", "commit", "finish"}
RunnerSteps  == {"read", "act", "attach", "mark", "record", "finish"}
BulkSteps    == {"find", "page", "finish"}

VARIABLES
    automations,  \* rows of automations
    request,      \* [Steps -> state of the creating request]
    parent,       \* [Steps -> parentId of the request]
    body,         \* [Steps -> body of the request]
    met,          \* history: the requests past their checks when this one was checked
    triggerJob,   \* [Triggers -> job]
    next,         \* [Triggers -> the step the handler found]
    stepJob,      \* [StepJobs -> job]
    stepOf,       \* [StepJobs -> automationStepId in the job's payload]
    committed,    \* step jobs whose producer committed its COMPLETED row
    recorded,     \* pairs of a step and a contact with a row from the runner
    effects,      \* history: [pairs -> how often a runner acted]
    cutOff,       \* history: pairs whose runner was lost between act and row
    crowded,      \* history: pairs that two runners were busy with at a time
    bulkJob,      \* the job RunAutomationStepJob
    cursor,       \* the id its next page starts after, 0 for undefined
    pending,      \* contacts with a PENDING row for its step
    queued,       \* [Contacts -> jobs this execution added]
    steady        \* history: contacts PENDING since this execution began

chain    == <<automations, request, parent, body, met>>
producer == <<triggerJob, next>>
runner   == <<stepJob, stepOf, committed, recorded, effects, cutOff, crowded>>
bulk     == <<bulkJob, cursor, pending, queued, steady>>
vars     == <<chain, producer, runner, bulk>>

Pairs == Steps \X Contacts

TypeOK ==
    /\ automations \subseteq Automations
    /\ request \in [Steps -> {"idle", "checked", "stored", "refused"}]
    /\ parent \in [Steps -> Steps \cup {None}]
    /\ body \in Bodies
    /\ met \in [Steps -> SUBSET Steps]
    /\ triggerJob \in [Triggers -> JobRecords(TriggerSteps, 1)]
    /\ next \in [Triggers -> Steps \cup {None}]
    /\ stepJob \in [StepJobs -> JobRecords(RunnerSteps, 1)]
    /\ stepOf \in [StepJobs -> Steps \cup {None}]
    /\ committed \subseteq StepJobs
    /\ recorded \subseteq Pairs
    /\ effects \in [Pairs -> Nat]
    /\ cutOff \subseteq Pairs
    /\ crowded \subseteq Pairs
    /\ bulkJob \in JobRecords(BulkSteps, 1)
    /\ cursor \in Contacts \cup {0}
    /\ pending \subseteq Contacts
    /\ queued \in [Contacts -> Nat]
    /\ steady \subseteq Contacts

Init ==
    /\ automations = {}
    /\ request = [s \in Steps |-> "idle"]
    /\ parent = [s \in Steps |-> None]
    /\ body \in Bodies
    /\ met = [s \in Steps |-> {}]
    /\ triggerJob = [t \in Triggers |-> NoJob]
    /\ next = [t \in Triggers |-> None]
    /\ stepJob = [j \in StepJobs |-> NoJob]
    /\ stepOf = [j \in StepJobs |-> None]
    /\ committed = {}
    /\ recorded = {}
    /\ effects = [k \in Pairs |-> 0]
    /\ cutOff = {}
    /\ crowded = {}
    /\ bulkJob = NoJob
    /\ cursor = 0
    /\ pending = {}
    /\ queued = [c \in Contacts |-> 0]
    /\ steady = {}
-----------------------------------------------------------------------------
(***************************************************************************)
(* The HTTP API: POST /automations and POST /automations/:id/steps.        *)
(***************************************************************************)
StoreAutomation(a) ==
    /\ a \notin automations
    /\ automations' = automations \cup {a}
    /\ UNCHANGED <<request, parent, body, met, producer, runner, bulk>>

\* The body alone: the subtype belongs to the type, the configuration has the
\* shape its subtype asks for, and the ids that the subtype needs are there.
\* "missing" are the ids given that name no row.
WellFormed(b) ==
    /\ b.subtype \in SubtypesOf(b.type)
    /\ b.subtype \in {"RULE_IF_ELSE", "ACTION_UPDATE_CONTACT_ATTRIBUTES"}
       => b.configured
    /\ b.subtype = "ACTION_SEND_EMAIL" => "emailId" \in b.given
    /\ b.subtype \in {"ACTION_ADD_TAG", "ACTION_REMOVE_TAG"} => "tagId" \in b.given
    /\ b.subtype \in {"ACTION_SUBSCRIBE_TO_AUDIENCE", "ACTION_UNSUBSCRIBE_FROM_AUDIENCE"}
       => "audienceId" \in b.given
    /\ b.missing = {}

Stored(s)   == request[s] = "stored"
ChildrenOf(p) == {s \in Steps : Stored(s) /\ parent[s] = p}

\* A parentId names a step, of whichever automation, that has no child.
ParentIsFree(p) == p # None => Stored(p) /\ ChildrenOf(p) = {}

\* Mutant: only the existence of the parent is checked.
CheckParentExists(s) ==
    /\ request[s] = "idle"
    /\ \E p \in Steps \cup {None} :
           /\ p # None => Stored(p)
           /\ WellFormed(body[s])
           /\ parent' = [parent EXCEPT ![s] = p]
    /\ request' = [request EXCEPT ![s] = "checked"]
    /\ met' = [met EXCEPT ![s] = {q \in Steps : request[q] = "checked"}]
    /\ UNCHANGED <<automations, body, producer, runner, bulk>>

\* createStep up to the insert: the audience exists, the user may author, and
\* the DTO holds.  A request that is refused here changes nothing: it stays idle.
CheckStep(s) ==
    /\ request[s] = "idle"
    /\ \E p \in Steps \cup {None} :
           /\ ParentIsFree(p)
           /\ WellFormed(body[s])
           /\ parent' = [parent EXCEPT ![s] = p]
    /\ request' = [request EXCEPT ![s] = "checked"]
    /\ met' = [met EXCEPT ![s] = {q \in Steps : request[q] = "checked"}]
    /\ UNCHANGED <<automations, body, producer, runner, bulk>>

\* The insert, which checks nothing again; the foreign key asks for the
\* automation.
InsertStep(s) ==
    /\ request[s] = "checked"
    /\ body[s].automation \in automations
    /\ request' = [request EXCEPT ![s] = "stored"]
    /\ UNCHANGED <<automations, parent, body, met, producer, runner, bulk>>

\* The insert throws: nothing is left of the request.
RefuseStep(s) ==
    /\ request[s] = "checked"
    /\ request' = [request EXCEPT ![s] = "refused"]
    /\ parent' = [parent EXCEPT ![s] = None]
    /\ met' = [met EXCEPT ![s] = {}]
    /\ UNCHANGED <<automations, body, producer, runner, bulk>>
-----------------------------------------------------------------------------
(***************************************************************************)
(* The queue.                                                              *)
(***************************************************************************)
\* A worker process runs one job of the queue at a time.
WorkerIsFree ==
    Cardinality({t \in Triggers : IsActive(triggerJob[t])})
        + Cardinality({j \in StepJobs : IsActive(stepJob[j])})
        + (IF IsActive(bulkJob) THEN 1 ELSE 0) < NumWorkers

\* No code adds these two jobs yet.  They meet only at the workers, which
\* no property is about: either kind is added in the absence of the other.
AddTrigger(t) ==
    /\ ~Exists(bulkJob)
    /\ ~Exists(triggerJob[t])
    /\ triggerJob' = [triggerJob EXCEPT ![t] = Added]
    /\ UNCHANGED <<chain, next, runner, bulk>>

AddBulk ==
    /\ \A t \in Triggers : ~Exists(triggerJob[t])
    /\ ~Exists(bulkJob)
    /\ bulkJob' = Added
    /\ UNCHANGED <<chain, producer, runner, cursor, pending, queued, steady>>
-----------------------------------------------------------------------------
(***************************************************************************)
(* RunAutomationForContactJob.                                             *)
(***************************************************************************)
\* The step job of the execution that runs now.
JobOf(t) == [trigger |-> t, run |-> triggerJob[t].stalls]

TriggersOf(a) ==
    {s \in Steps : Stored(s) /\ body[s].automation = a /\ body[s].type = "TRIGGER"}

TakeTrigger(t) ==
    /\ triggerJob[t].state = "waiting"
    /\ WorkerIsFree
    /\ triggerJob' = [triggerJob EXCEPT ![t] = At(@, "find")]
    /\ UNCHANGED <<chain, next, runner, bulk>>

\* The three queries up to the transaction.  Steps are only ever added, so that
\* what the first query found is still there at the last.  A contact that is
\* gone or that the trigger's filter does not select ends the job.
FindNextStep(t) ==
    /\ triggerJob[t].state = "find"
    /\ \/ \E trigger \in TriggersOf(AutomationOf[t]) :
              \E s \in ChildrenOf(trigger) :
                  /\ body[s].automation = AutomationOf[t]
                  /\ next' = [next EXCEPT ![t] = s]
                  /\ triggerJob' = [triggerJob EXCEPT ![t] = At(@, "begin")]
       \/ /\ TriggersOf(AutomationOf[t]) # {}
          /\ triggerJob' = [triggerJob EXCEPT ![t] = Complete(@)]
          /\ UNCHANGED next
    /\ UNCHANGED <<chain, runner, bulk>>

\* BEGIN and the insert of the COMPLETED row, which no other session sees yet.
InsertCompletedRow(t) ==
    /\ triggerJob[t].state = "begin"
    /\ triggerJob' = [triggerJob EXCEPT ![t] = At(@, "add")]
    /\ UNCHANGED <<chain, next, runner, bulk>>

\* Mutant: the transaction ends before the job is added.
CommitThenAdd(t) ==
    /\ triggerJob[t].state = "add"
    /\ triggerJob' = [triggerJob EXCEPT ![t] = At(@, "commit")]
    /\ committed' = committed \cup {JobOf(t)}
    /\ UNCHANGED <<chain, next, stepJob, stepOf, recorded, effects, cutOff, crowded, bulk>>

\* The job is in the queue at once, whatever becomes of the transaction.
AddStepJob(t) ==
    /\ triggerJob[t].state = "add"
    /\ triggerJob' = [triggerJob EXCEPT ![t] = At(@, "commit")]
    /\ stepJob' = [stepJob EXCEPT ![JobOf(t)] = Added]
    /\ stepOf' = [stepOf EXCEPT ![JobOf(t)] = next[t]]
    /\ UNCHANGED <<chain, next, committed, recorded, effects, cutOff, crowded, bulk>>

CommitRow(t) ==
    /\ triggerJob[t].state = "commit"
    /\ triggerJob' = [triggerJob EXCEPT ![t] = At(@, "finish")]
    /\ committed' = committed \cup {JobOf(t)}
    /\ UNCHANGED <<chain, next, stepJob, stepOf, recorded, effects, cutOff, crowded, bulk>>

FinishTrigger(t) ==
    /\ triggerJob[t].state = "finish"
    /\ triggerJob' = [triggerJob EXCEPT ![t] = Complete(@)]
    /\ UNCHANGED <<chain, next, runner, bulk>>

\* No trigger, no next step, or a query or the queue that throws: the open
\* transaction is rolled back.  (At "finish" the answer to COMMIT is lost.)
FailTrigger(t) ==
    /\ IsActive(triggerJob[t])
    /\ triggerJob' = [triggerJob EXCEPT ![t] = AttemptFailed(@, 1)]
    /\ UNCHANGED <<chain, next, runner, bulk>>

StallTrigger(t) ==
    /\ IsActive(triggerJob[t])
    /\ triggerJob' = [triggerJob EXCEPT ![t] = Stall(@)]
    /\ UNCHANGED <<chain, next, runner, bulk>>
-----------------------------------------------------------------------------
(***************************************************************************)
(* RunAutomationStepForContactJob.                                         *)
(***************************************************************************)
PairOf(j)  == <<stepOf[j], ContactOf[j.trigger]>>
Subtype(j) == body[stepOf[j]].subtype

HasRow(k) == k \in recorded \/ \E j \in committed : PairOf(j) = k

BusyWith(k) ==
    {j \in StepJobs : PairOf(j) = k
                      /\ stepJob[j].state \in {"act", "attach", "mark", "record"}}

\* The runner acted on the contact, or found nothing to do; "then" is its next
\* step.
Acted(j, then) ==
    /\ stepJob' = [stepJob EXCEPT ![j] = At(@, then)]
    /\ effects' = [effects EXCEPT ![PairOf(j)] = @ + 1]
    /\ UNCHANGED <<chain, producer, stepOf, committed, recorded, cutOff, crowded, bulk>>

MovesTo(j, then) ==
    /\ stepJob' = [stepJob EXCEPT ![j] = At(@, then)]
    /\ UNCHANGED <<chain, producer, stepOf, committed, recorded, effects, cutOff, crowded, bulk>>

TakeStep(j) ==
    /\ stepJob[j].state = "waiting"
    /\ WorkerIsFree
    /\ MovesTo(j, "read")

\* Mutant: rows of the runner alone count.
ReadRecordedOnly(j) ==
    /\ stepJob[j].state = "read"
    /\ \/ /\ PairOf(j) \in recorded
          /\ stepJob' = [stepJob EXCEPT ![j] = Complete(@)]
          /\ UNCHANGED crowded
       \/ /\ PairOf(j) \notin recorded
          /\ stepJob' = [stepJob EXCEPT ![j] = At(@, "act")]
          /\ crowded' = IF BusyWith(PairOf(j)) = {} THEN crowded
                                                   ELSE crowded \cup {PairOf(j)}
    /\ UNCHANGED <<chain, producer, stepOf, committed, recorded, effects, cutOff, bulk>>

\* A row of the contact for this step, whoever wrote it and whatever its status,
\* means that the step ran.  Steps and contacts are never deleted, so that the
\* other two reads find theirs.
ReadRow(j) ==
    /\ stepJob[j].state = "read"
    /\ \/ /\ HasRow(PairOf(j))
          /\ stepJob' = [stepJob EXCEPT ![j] = Complete(@)]
          /\ UNCHANGED crowded
       \/ /\ ~HasRow(PairOf(j))
          /\ stepJob' = [stepJob EXCEPT ![j] = At(@, "act")]
          /\ crowded' = IF BusyWith(PairOf(j)) = {} THEN crowded
                                                   ELSE crowded \cup {PairOf(j)}
    /\ UNCHANGED <<chain, producer, stepOf, committed, recorded, effects, cutOff, bulk>>

\* An email that is gone, or has no content, is no error.
SendEmail(j) ==
    /\ stepJob[j].state = "act"
    /\ Subtype(j) = "ACTION_SEND_EMAIL"
    /\ Acted(j, "mark") \/ MovesTo(j, "record")

\* The key of the message in Redis.
MarkMail(j) ==
    /\ stepJob[j].state = "mark"
    /\ MovesTo(j, "record")

\* The tags that still exist and that the contact does not have are attached.
AddTag(j) ==
    /\ stepJob[j].state = "act"
    /\ Subtype(j) = "ACTION_ADD_TAG"
    /\ MovesTo(j, "attach") \/ MovesTo(j, "record")

AttachTag(j) ==
    /\ stepJob[j].state = "attach"
    /\ Acted(j, "record")

RemoveTag(j) ==
    /\ stepJob[j].state = "act"
    /\ Subtype(j) = "ACTION_REMOVE_TAG"
    /\ Acted(j, "record")

\* Mutant: the row is forgotten.
RecordNothing(j) ==
    /\ stepJob[j].state = "record"
    /\ MovesTo(j, "finish")

RecordStep(j) ==
    /\ stepJob[j].state = "record"
    /\ stepJob' = [stepJob EXCEPT ![j] = At(@, "finish")]
    /\ recorded' = recorded \cup {PairOf(j)}
    /\ UNCHANGED <<chain, producer, stepOf, committed, effects, cutOff, crowded, bulk>>

FinishStep(j) ==
    /\ stepJob[j].state = "finish"
    /\ stepJob' = [stepJob EXCEPT ![j] = Complete(@)]
    /\ UNCHANGED <<chain, producer, stepOf, committed, recorded, effects, cutOff, crowded, bulk>>

\* The job leaves the hands of its worker; if the runner may have acted and left
\* no row, nothing tells the next execution.
GiveUp(j, job) ==
    /\ IsActive(stepJob[j])
    /\ stepJob' = [stepJob EXCEPT ![j] = job]
    /\ cutOff' = IF stepJob[j].state \in {"mark", "record"}
                 THEN cutOff \cup {PairOf(j)} ELSE cutOff
    /\ UNCHANGED <<chain, producer, stepOf, committed, recorded, effects, crowded, bulk>>

\* The mailer, Redis or a statement throws (a tag that another request attached
\* meanwhile, say), or no runner is defined for the subtype.  The job was added
\* without attempts, so it has one.
FailStep(j) == GiveUp(j, AttemptFailed(stepJob[j], 1))

StallStep(j) == GiveUp(j, Stall(stepJob[j]))
-----------------------------------------------------------------------------
(***************************************************************************)
(* RunAutomationStepJob: pages of the contacts with a PENDING row.  The    *)
(* jobs it adds carry no automationStepId: their query for the step        *)
(* throws, and they fail before they touch anything.                       *)
(***************************************************************************)
\* The first n members of S above the cursor, in the order of the ids.
FirstAfter(S, after, n) ==
    {c \in S : c > after /\ Cardinality({d \in S : d > after /\ d <= c}) <= n}

Page == FirstAfter(pending, cursor, BatchSize)

LastOf(S) == CHOOSE c \in S : \A d \in S : d <= c

\* Mutant: the cursor is the id of the one row more that the query fetches.
NextCursorBeyond ==
    LET rows == FirstAfter(pending, cursor, BatchSize + 1)
    IN  IF Cardinality(rows) <= BatchSize THEN 0 ELSE LastOf(rows)

\* Paginator.next: the id of the last row of a full page, or undefined.  (The
\* row more that it fetches only sets "finished", which the job does not read.)
NextCursor == IF Cardinality(Page) < BatchSize THEN 0 ELSE LastOf(Page)

TakeBulk ==
    /\ bulkJob.state = "waiting"
    /\ WorkerIsFree
    /\ bulkJob' = At(bulkJob, "find")
    /\ UNCHANGED <<chain, producer, runner, cursor, pending, queued, steady>>

\* The step is found and the loop begins.  Nothing looks at the PENDING rows
\* outside the loop: they are whatever came of them until now.
FindStep ==
    /\ bulkJob.state = "find"
    /\ \E s \in Steps : Stored(s)
    /\ bulkJob' = At(bulkJob, "page")
    /\ cursor' = 0
    /\ queued' = [c \in Contacts |-> 0]
    /\ pending' \in SUBSET Contacts
    /\ steady' = pending'
    /\ UNCHANGED <<chain, producer, runner>>

QueuePage ==
    /\ bulkJob.state = "page"
    /\ queued' = [c \in Contacts |-> IF c \in Page THEN queued[c] + 1 ELSE queued[c]]
    /\ cursor' = NextCursor
    /\ bulkJob' = IF NextCursor = 0 THEN At(bulkJob, "finish") ELSE bulkJob
    /\ UNCHANGED <<chain, producer, runner, pending, steady>>

FinishBulk ==
    /\ bulkJob.state = "finish"
    /\ bulkJob' = Complete(bulkJob)
    /\ UNCHANGED <<chain, producer, runner, cursor, pending, queued, steady>>

\* The step is not there, or the query or addBulk throws.
FailBulk ==
    /\ IsActive(bulkJob)
    /\ bulkJob' = AttemptFailed(bulkJob, 1)
    /\ UNCHANGED <<chain, producer, runner, cursor, pending, queued, steady>>

StallBulk ==
    /\ IsActive(bulkJob)
    /\ bulkJob' = Stall(bulkJob)
    /\ UNCHANGED <<chain, producer, runner, cursor, pending, queued, steady>>

\* PENDING rows come from outside too: no code writes one, it is the default of
\* the column.
PendingChanges(c) ==
    /\ bulkJob.state = "page"
    /\ pending' \in {pending \cup {c}, pending \ {c}}
    /\ pending' # pending
    /\ steady' = steady \cap pending'
    /\ UNCHANGED <<chain, producer, runner, bulkJob, cursor, queued>>
-----------------------------------------------------------------------------
Api ==
    \/ \E a \in Automations : StoreAutomation(a)
    \/ \E s \in Steps : CheckStep(s) \/ InsertStep(s) \/ RefuseStep(s)

TriggerStep(t) ==
    \/ AddTrigger(t) \/ TakeTrigger(t) \/ FindNextStep(t)
    \/ InsertCompletedRow(t) \/ AddStepJob(t) \/ CommitRow(t)
    \/ FinishTrigger(t) \/ FailTrigger(t) \/ StallTrigger(t)

RunnerStep(j) ==
    \/ TakeStep(j) \/ ReadRow(j)
    \/ SendEmail(j) \/ MarkMail(j)
    \/ AddTag(j) \/ AttachTag(j) \/ RemoveTag(j)
    \/ RecordStep(j) \/ FinishStep(j) \/ FailStep(j) \/ StallStep(j)

BulkStep ==
    \/ AddBulk \/ TakeBulk \/ FindStep \/ QueuePage
    \/ FinishBulk \/ FailBulk \/ StallBulk
    \/ \E c \in Contacts : PendingChanges(c)

Next ==
    \/ Api
    \/ \E t \in Triggers : TriggerStep(t)
    \/ \E j \in StepJobs : RunnerStep(j)
    \/ BulkStep

Spec == Init /\ [][Next]_vars
-----------------------------------------------------------------------------
\* Two steps hang on one parent only if the checks of their requests overlapped:
\* one of them was checked while the other was not inserted yet.
ForkNeedsOverlap ==
    \A s, q \in Steps :
        s # q /\ Stored(s) /\ Stored(q) /\ parent[s] = parent[q] /\ parent[s] # None =>
            s \in met[q] \/ q \in met[s]

\* A contact that is recorded, by the producer's transaction, as having completed
\* a step has at least a job in the queue for it, whenever the producer dies.
AnnouncedIsQueued == \A j \in committed : Exists(stepJob[j])

\* A runner acts on a contact for a second time only if an execution for that
\* step and contact was lost between the act and its row, or two executions were
\* busy with the pair at the same time.
RepeatNeedsLoss ==
    \A k \in Pairs : effects[k] > 1 => k \in cutOff \/ k \in crowded

\* Once the producer of a job has committed its row, the job never starts the
\* step: the contact is recorded and passed over.
OnlyUncommittedRun ==
    [][\A j \in StepJobs :
          stepJob[j].state = "read" /\ stepJob'[j].state = "act" => j \notin committed]_vars

\* However rows come and go between its pages, an execution of
\* RunAutomationStepJob queues no contact twice, and when it ends it has queued
\* each contact that was PENDING all along.
PendingQueuedOnce ==
    /\ bulkJob.state \in {"page", "finish"} => \A c \in Contacts : queued[c] <= 1
    /\ bulkJob.state = "finish" => \A c \in steady : queued[c] = 1
=============================================================================
