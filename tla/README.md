# Kibamail in TLA+

A verification development for the Kibamail server (`src/`, TypeScript: a Hono
API process, BullMQ worker processes, MySQL through Drizzle, Redis, KumoMTA as
the mail server). The modules model what the code does where its steps can
interleave, fail or be repeated; TLC checks them on small instances, and TLAPS
proves the main safety properties for every value of the constants. Source
references below are relative to `src/src/` unless they say otherwise.

## The system

| Component | State it keeps | Operations | Talks to | Hard about it | Correct when |
|---|---|---|---|---|---|
| Broadcast sending (`broadcasts/controllers`, `actions/send_broadcast_action.ts`, `jobs/send_broadcast_job.ts`, `jobs/send_broadcast_to_contact_job.ts`) | row of `broadcasts`; jobs in Redis; Redis keys of sent mails | send, fan out, mail a contact | MySQL, the queue, the mailer | check and write are apart; retries mail again; edits and deletes in between | each accepted send is queued; repeats and losses are bounded and explained; an execution stays with one audience; a delete stops the mails |
| Job queue and worker (`worker/`, `shared/queue/`) | BullMQ jobs, map of executors | listen, process, retry, give up | all components with jobs | stalls and attempts are counted apart; jobs without an executor | no job is given up early, none is reopened, each is settled |
| A/B dispatch (`broadcasts/jobs/send_ab_test_broadcast_job.ts`, `concerns/`) | offsets and sizes computed from one count | split, dispatch samples, schedule the winner | MySQL, the queue | OFFSET pages of a table that changes; floating point floors | each contact in exactly one sample; what churn costs is bounded |
| Database session (`database/client.ts`, `api/ignitor`) | one MySQL connection per process | BEGIN, statements, COMMIT, ROLLBACK | every handler | all handlers share one session | a transaction alone is atomic; a lost write has a culprit |
| Broadcast editing (`broadcasts/actions/update_broadcast_action.ts`, `content/`) | broadcast, contents, variants, weights | create, update, delete | session | lost updates, orphans, weights over 100 | contents and variants hang together |
| Automations (`automations/`) | steps, `contactAutomationSteps`, jobs | create step; run for contact; run step for contact; run step | queue, contacts, mailer | chain built by check-then-insert; rows and jobs in two stores; rows that stop the jobs they announce; cursor pages of a table that changes | a fork needs overlapping requests; an announced step has its job; a runner acts again only after a loss; pages miss and repeat nobody |
| Audiences, contacts, tags, segments (`audiences/`) | contacts, attributes, tags, tags on contacts | create, update, attach, detach, list by segment | MySQL | merges of stale rows; check-then-insert; a count, a page and its tags read apart | a lost attribute, an error or a page with holes needs somebody who wrote in between |
| Imports and exports (`audiences/jobs`, `actions/contact_imports`) | imports, files in MinIO | upload, save settings, import; export | MySQL, MinIO, queue | one transaction for the whole run; upserts under fresh ids; settings saved again while it runs | a success has its contacts and tags; an import in process has a run |
| Teams and memberships (`teams/`) | memberships, jobs that mail invitations | invite, accept, reject, revoke | queue, mailer | overlapping answers and invitations; two writes of one acceptance | one membership per address; a member is the invitee; a deletion is final |
| Auth and API keys (`auth/`) | users, access tokens in MySQL and Redis | register, log in, create key | session, Redis | two stores | a key is in both or in none |
| Sending domains (`sending_domains/`, `tools/dns`) | domains, DKIM keys in MySQL and Redis, jobs that check DNS | create, check DNS | queue, Redis, DNS | parallel writes to two stores; a chain of jobs that adds itself | mails are signed with the key of the row; an unverified domain is checked again |
| Mailer (`shared/mailers`), injector, KumoMTA adapters, webhooks | none | send, inject, log | SMTP, HTTP | answers may be lost | accepted at most once per call |
| Utilities, HTTP server, views, DKIM and DNS tools, schema | none | pure functions, routing, rendering | | | |

Components call each other in process, through a container that makes a new
action or repository for each call and shares the database and Redis clients; the
API process and the workers share MySQL and Redis and nothing else. The only
messages are BullMQ jobs. Every `await` is a point where another handler of
the process runs.

## Modules

* **JobQueue**: the record of one BullMQ job (`state`, `made` = failed attempts,
  `stalls`) and the operators that `WorkerIgnitor.processJob` and BullMQ apply to
  it. `AttemptFailed` retries while attempts are left, `Stall` hands a job whose
  worker vanished out again at most `MaxStalled` times. BullMQ itself is external:
  it is modelled by how `worker_ignitor.ts` and the calls of `Queue` use it.
* **BroadcastSend** (extends JobQueue): one broadcast from the HTTP request to the
  mail server.
  `ReadForSend`, `AddFanOut`, `MarkQueued`, `LoseRequest` are the awaits of
  `BroadcastController.send` and `SendBroadcastAction`; `TakeFanOut` ..
  `FailFanOut` those of `SendBroadcastJob`; `TakeContact` .. `FailContact` those of
  `SendBroadcastToContact`; `DropUnregistered` is a job name without an executor.
  `UpdateBroadcast`, `DeleteBroadcast` and `ContactChanges` are the users that
  interfere, `StallFanOut` and `StallContact` the workers that die.
  `row` is the row, with status `DELETED` once it is gone (SENDING and SENT are
  declared in the schema and never written). It is there twice: `status`, `isAbTest` and
  `target` as the one MySQL session of the API process sees them, and `stored` as it is
  committed, which is what workers read. `open` says that some handler has a
  transaction open on that session. It may be any handler's, so that a BEGIN, a COMMIT
  and a ROLLBACK (`Session`) may come at any time; whatever is written in between, the
  status of a send included (`Written`), is committed or undone with it. An update is the
  UPDATE statement of its PUT, whose transaction is one of those. A request whose
  write lies in an open transaction is "answered"; the COMMIT makes it "accepted", the
  ROLLBACK "undone". A contact job is named by the execution that added it, so that jobs
  of two executions stay apart.
* **DeliveryPromise**: the abstract specification of the mails. A job that was
  added hands over between one and `MaxMails` mails before it is done, may be given
  up, and is never reopened; under fairness it is settled. `BroadcastSend`
  implements it with `outcome` computed from the job's state and
  `MaxMails = Attempts + MaxStalled` (`DeliveryPromised`).
* **AbTestDispatch**: one execution of `SendAbTestBroadcastJob`: the count, the
  windows of offsets, the pages with LIMIT and OFFSET over rows ordered by id, while
  contacts appear and vanish. `Portion` is `Math.floor((weight / 100) * n)` in
  floating point: an exact product may come out as the integer below. A weight is any
  integer: the DTO checks only the sum of those of one payload
  (`update_broadcast_dto.ts:55`, `168`), and the column is signed (`schema.ts:348`). A
  negative size gives its variant no batch and moves the later windows back over rows
  that were queued; the history variable `back` counts by how many.
* **SharedSession**: handlers on the one MySQL session of a process. `Begin`,
  `Write`, `Commit`, `Rollback` are what `database.transaction` sends, `Statement`
  a query outside a transaction, `Crash` the loss of the process. COMMIT and
  ROLLBACK end whatever transaction is open, and a second BEGIN commits the first.
* **BroadcastEdit**: PUT and DELETE of one broadcast, on that shared session.
  `Read` and `Validate` are the controller's awaits before the transaction; `Begin` ..
  `Commit` are the statements of `UpdateBroadcastAction`, in order: the row, the
  content (`WriteContent`, `LinkContent`), the variants (`FindVariants`,
  `InsertContents`, `InsertVariants`). `Fail` is a statement that throws, whichever it
  is and whatever the reason; a guard that is false (a variant that is gone, a
  foreign key, an insert of no rows) leaves it as the only way on. Each inserted row
  is named after its update, and `met` records which updates overlapped. The
  session is part of the module, and not an instance of SharedSession, because the
  rows themselves matter here: `undo` is the image that a ROLLBACK restores.
* **Automations** (extends JobQueue): the chain of an automation's steps and the
  three jobs of `automations/jobs`. `StoreAutomation`, `CheckStep`, `InsertStep`,
  `RefuseStep` are the awaits of the controllers and of `create_automation_step_dto.ts`,
  with the DTO's conditions on the body in `WellFormed` and on the chain in
  `ParentIsFree`. `TakeTrigger` .. `FailTrigger` are `RunAutomationForContactJob`:
  the row that announces the next step is inserted in a transaction
  (`InsertCompletedRow`, `CommitRow`) around the addition of the job (`AddStepJob`).
  `TakeStep` .. `FailStep` are `RunAutomationStepForContactJob` with the runners that
  `AutomationStepRunner` knows (`SendEmail`, `AddTag`, `RemoveTag`; any other step
  fails, as its runner is undefined), and `RecordStep` the row that `AutomationStepRunner` leaves. `FindStep`,
  `QueuePage`, .. are `RunAutomationStepJob` over the cursor paginator
  (`paginator.ts`), whose page and cursor are `Page` and `NextCursor`. `committed` are the
  rows of the producers, `recorded` those of the runners; `effects` counts what
  runners did to a contact.
* **Accounts** (extends JobQueue): users, teams and memberships. `Register` and
  `Login` are `auth/`; `BeginInvite` .. `LoseInvite` the awaits of
  `TeamMembershipController.store` and `InviteTeamMember`, with the policy in
  `CanAdministrate`; `TakeInvite` .. `StallInviteJob` the job that mails the token;
  `BeginReply` .. `EndReply` a request that accepts, rejects or revokes: the middleware,
  the read of the row, then its writes, of which an acceptance may need two
  (`ClaimMembership`, `ActivateMembership`). A reply is a slot that is used again, so
  that any number of them follow each other. `Updated` is an UPDATE by id, which changes
  nothing and is no error when the row is gone.
* **Senders**: what a team sends with. `InsertKey` .. `LoseKey` are
  `CreateTeamAccessToken`, a key in MySQL and then in Redis, inside a transaction.
  `CheckName` .. `LoseDomain` are the DTO and `CreateSendingDomainAction`: `InsertDomain`
  and `SaveDkim` go out at the same time, and the one that is left when the other fails
  still arrives. `TakeCheck` .. `StallCheck` are
  `CheckSendingDomainDnsConfigurationJob`; `worker` holds the check in each worker's
  hands, `waiting` those in the queue, so that a chain that was doubled by a stall
  is two jobs. `InjectorAccepts` and `SigningKey` are the lookups in Redis of the injector
  and of the mail server.
* **Contacts**: contacts, tags and imports of one audience. `StoreContact`,
  `ReadContact` / `WriteContact`, `BeginTagging` / `FindTags` / `InsertTags` / `DetachTags`,
  `CheckTag` / `InsertTag`, `FindTag` / `DeleteTag` are the awaits of the contact and tag
  controllers with their actions and repositories. `FindSegment`, `CountRows`,
  `SelectRows`, `AnswerPage` are `GetContactsAction`: the segment's filter groups
  (`Matching`), then the count and the page of `Paginator.paginate`, then the tags.
  `CreateImport`, `ReadImport`, `SaveSettings`, `QueueImport` prepare an import, and
  `TakeImport` .. `StallImport` are `ImportContactsJob`. The worker has a session of its
  own, so its transaction is invisible until `CommitImport`; what it has written is
  locked meanwhile (`LockedContacts`, `LockedTags`, `LockedNames`). The requests are taken
  to meet no transaction of another handler on the API's session: a neighbour's ROLLBACK
  could take an answered write, which is the subject of SharedSession.
* **MC\*** hold the values for TLC. **\*Proofs** hold the theorems.

### How steps were chosen

A step ends where another actor can notice or change something: at each write
to MySQL or Redis, each job added, each mail, and each read whose result is used
after a later await. In `SendBroadcastJob` the query of a page and the `addBulk`
after it are one step: the query changes nothing, and the batch it returns is
used by that `addBulk` alone, so a change between the two has the effect of the
same change after both. A failure of either is `FailFanOut`, before or after.
Validation of the payload and of the content is abstracted to "may be refused".
The mail server accepts a mail or the send fails, and its answer can get lost
after it accepted (`FailContact` at "mark").

An import is the one transaction whose statements are steps although nobody
else sees them: each of them can fail for a reason that another request made
(a name taken, a contact locked, an attached id that does not exist), and a stall
throws all of them away.

Properties that speak of an overlap do so with a history variable (`met`, `stale`,
`detached`, `crowded`, `cutOff`, `cut`, `broken`) that no guard reads: a
check-then-insert without a lock cannot promise that there is no duplicate, but it can
promise that a duplicate needs two requests at the same time, and that is what would
break if a check were dropped or read the wrong rows.

A delayed job is a waiting job: there is no clock, so it may be taken up at any
time. A worker process runs one job of each queue at a time (BullMQ's default
concurrency, which `WorkerIgnitor.listen` keeps).

## Runs

All runs state `CHECK_DEADLOCK FALSE`: a broadcast, a dispatch and a set of
handlers or updates end, and then nothing more happens. A run has several
properties where they can be asked of one instance. `TypeOK` is proved for every
module with a state of its own, and so no run spends a check on it.

| Run | Instance | Shows |
|---|---|---|
| delivery | 1 request, 1 contact, 2 attempts, 1 stall, 1 worker | bounds on mails, also after a committed delete; jobs are given up only when exhausted; settled jobs and committed statuses stay; every step leaves less to do |
| requests | 2 requests, no contact, 2 audiences | an answered request is queued, and its row no draft unless a ROLLBACK took the write; two fan-outs need a race, a lost request or such a ROLLBACK |
| audiences | audiences of 1 and 2 contacts, of which 2 come and go, pages of 1, 2 workers | no page is taken from an audience set after the execution began; a fan-out over an audience of one page that reports success queued everyone who was there all along |
| promise | 1 contact, 3 attempts, 2 workers, fair | the contact jobs implement `DeliveryPromise`, liveness included; every job settles |
| two_pages | 3 contacts, pages of 1 | **violation**: the fan-out stops after pages 0 and 1 (150 contacts) |
| ab_samples | 7 contacts, weights 2/4, 1/4 and -1/4, pages of 2, up to 2 contacts appear and 2 vanish | undisturbed, each contact is queued, and once unless a negative size moved a window back, and samples have their sizes; no more contacts are passed over than vanished or than appeared, whichever is more; repeats are at most appeared plus the rows gone back over |
| session_overlap | 3 transactions of 2 writes, 2 statements | a transaction that meets no other is atomic; a lost write has a failed neighbour |
| edit_overlap | 3 updates with 3 payloads, a delete, errors, crashes | an update alone leaves no orphan and its A/B flag stays; an acknowledged update is lost only beside one that failed |
| automations | 3 steps in two sets of bodies, 1 trigger job, 3 contacts, pages of 2, 2 workers, 1 stall | a fork needs overlapping requests; an announced step has its job, and that job then skips the step; a runner acts again only after a loss; the cursor's pages miss and repeat nobody, whatever comes and goes between them |
| memberships | an owner, a guest, 2 invitations of one address, 2 handlers of replies | duplicates need overlapping invitations; an active member is who was invited; what was deleted stays deleted; an unmailed invitation was lost |
| domains | 1 key, 2 requests for one name, 1 worker, 1 stall, fair | both stores of a key agree; the mail server signs with the key of the row unless requests overlapped; the checks of a domain go on until it is verified or one of them failed |
| contacts | 2 contacts, 2 attributes, 3 tags of 2 names, 3 requests of any kind, 1 import with 2 workers and 1 stall, pages of 1 | lost attributes, tags and pages with holes need an overlap; an import in process has a run; a success is whole |

Why these bounds are enough to be interesting. In `delivery`, two attempts and
BullMQ's one stall give a failure before, between and after a stall, and the worst case
(a mail for each of the three runs) is reached; the code's three attempts are in
`promise`, where a worker that vanishes uses up the job, and in the theorems. A retried
contact is mailed often enough there to tell a delete that stops it from one that does not. In
`requests` two requests and the transactions of any number of other handlers are enough
for all orders of two reads, two writes and a ROLLBACK; `RequestsSafe` is for any number of
requests. `audiences` needs an audience of two pages next to another one, so that a page of
the wrong audience is not empty; whether the execution stalled and began again
makes no difference to one execution, and the theorem `OneAudience` covers it.
The page size of 75 becomes 1 or 2: the handlers use it only to divide.
`ab_samples` begins with every audience of up to 7 contacts, in every rounding, with a
negative weight before and after a positive one, and
two changes in each direction are enough for a shift that crosses a boundary of
pages and one of samples. `session_overlap` has three transactions
so that one can lie between the other two, and two writes each so that a
transaction can be half done. `edit_overlap` has three updates for the same reason: of
an update that met no other, the two that came before and after it may overlap. One
new variant per payload (five in the code) is enough there: the variants of a payload
are inserted by one statement, and the payloads differ in what they bring.

`automations` needs a trigger and two steps for a fork, and a second set of bodies for a
runner that is not there and for a step of another automation. Its trigger job
stalls once, so that one trigger adds two jobs for the same pair, which two workers
then run at a time; three contacts in pages of two give a page that is full and one
that is not. `memberships` has two invitations of one address, as a duplicate needs, and
two replies at a time, as a race between an acceptance and a revocation does; both
roles that can revoke occur, the owner and the member. A job that mails has one attempt
in the code, and here no stall is survived: a stall and a failure differ in nothing but
the number of mails, and no property counts those. `domains` has two requests for one
name, one of which may fail and write late; domains of different names share nothing but
the columns, of which the property `MarkedAfterLookup` is proved for any number. In
`contacts` a third request makes the difference between a request that met somebody and
two that met the same one; the files hold a new row, a known one and the same one twice,
which are the cases of an upsert; three tags allow two of one name, one created by a
request and one by an import.

**Fairness.** In BroadcastSend, `Spec` has `WF_vars(WorkerStep)`: some worker goes on as long as there
is a step to take. It is what BullMQ's blocking fetch gives as long as one worker
process is up. Nothing is assumed of users, of the API process, of which job is
taken first, or of stalls, which are bounded by `MaxStalled` per job. Senders is about one
chain of jobs among others, and there the order of the queue matters: each worker goes
on with the check it has (`WF_vars(Handles(w))`), and the check of a domain that waits
is taken up again and again while a worker gets free (`SF_vars` of `TakeCheck` of that
domain), which BullMQ gives by handing out waiting jobs in the order of their arrival. A
check that fails is not excluded: it is the other way for `CheckedUntilVerified` to end.
The other modules have no fairness, and no liveness property.

**Bounds in guards.** `MaxStalled` (BullMQ's own limit), `MaxChurn` in
AbTestDispatch, `MaxStalls` in Senders and Contacts (there for all jobs together);
each request is made once, and each handler of SharedSession and each
update of BroadcastEdit runs once, and so do the creating requests of Automations,
Accounts, Senders and Contacts (an invitation that was refused may be repeated). Mails, marks and late mails are counted without a cap.

## What is proved

The theorems hold for every finite set of requests and contacts, every set of
audiences, every page size, number of attempts, stalls, workers and variants, all
integer weights, and all handlers and payloads that meet the named assumptions of the modules
(`ParameterAssumption`, `FiniteAssumption`, `MaxStalledAssumption`,
`DispatchAssumption`, `SessionAssumption`, `EditAssumption`, `AutomationAssumption`,
`BodiesAssumption`, `AccountsAssumption`, `SendersAssumption`, `ContactsAssumption`).

* `BroadcastSendProofs` (of `SafeSpec`, which `Spec` implies):
  * `TypeCorrect`, by `TypeInv` = `TypeOK` with live job records (`LiveRecords` of
    JobQueue). They exclude a job that waits with all its attempts used up: without
    that, `TypeOK` is not inductive. The lemmas `MovedJob`, `FailedJob` and `StalledJob`
    say what JobQueue's operators do to such a record.
  * `RequestsSafe` = `AcceptedIsQueued` and `DoubleSendNeedsRace`, by `RequestInv`: a
    request that is past its read was under way with every other one that is,
    because the first to finish leaves a row that is no draft, as long as no ROLLBACK
    takes its write; a request whose write was taken is "undone" and leaves the
    relation. It needs `RowInv`: the row that the session sees and the committed one
    differ only while a transaction is open, and never so that the committed row is
    further than the one seen. `AcceptedStaysQueued` is the half of it that the API promises.
  * `DeliverySafe` = `MailsBounded`, `MarkFollowsMail`, `GivenUpWhenExhausted`, by
    `ContactInv`, which ties mails and keys to the counters of the job at each step of
    the handler. It needs `FreshInv`: a page adds only jobs that did not exist, since
    the execution's number of stalls and its page move ahead of them. `NotGivenUpEarly`
    is the part of it about the queue.
  * `OneAudience`, by `AudienceInv`: the jobs of a running execution belong to the
    audience in its cursor.
  * `SettledStays` (action property `SettledIsFinal`): of the jobs from the step each
    takes, of the committed status from `RowInv` (`StoredStays`).
  * `JobsRunDown` (action property `RunsDown`): each job has a natural number of steps
    it may still take, from its attempts, its stalls, its page and its step; whatever
    happens to the job lowers it, and every step of a worker lowers that of one job.
    This is the argument for `EveryJobSettles` up to its last part, that a worker can
    always take a step while a job is open, which needs ENABLED and stays with TLC.
  * `DeleteStops` = `DeleteStopsSending`, by `LateInv`: no more jobs are in hand than
    there are workers, and from the committed delete on the late mails and the handlers that are
    past their read of the broadcast are together no more than that. A handler that
    sends moves from the one count to the other, and none joins either.
  * `OnePageIsWhole`: `EveryContactQueued` under `OnePage`, by `CoverInv`. With an
    audience that fits one page, the execution that ends without an error has been
    through that page; `BroadcastSend_two_pages` shows what happens beyond it.
  * `PromiseKept`: the safety part of the refinement of `DeliveryPromise`, initial
    states and every step (`PromisedInit`, `PromisedStep`).
* `AbTestDispatchProofs`: `TypeCorrect` and `QuietDispatch` =
  `ExactlyOnceWhenQuiet`, by `TilingInv`: the contacts queued are those whose
  rank is below what the dispatch has reached at any time, once each as long as it never
  went back. It goes back by the negative sizes and by nothing else
  (`ReachedMoves`, `ReachedGoesBack`). `QuietSizes` =
  `SampleSizesWhenQuiet`, by `SizeInv`: a sample is a window of ranks, and
  `WindowSize` says that a window within the rows holds as many as it is long (ranks are an
  injection of the rows into as many numbers, hence a bijection); one that lies anywhere
  holds no more (`WindowBound`). `FewMissed` =
  `MissedBounded`, by `PassedInv`: the contacts that the pages have passed without a
  job are no more than have vanished, because a row less moves one row at most across
  the place that was reached (`RankShifts`, `RowsAt`); what is left above it at the end
  is what appeared more than vanished. `RepeatsAppeared` = `RepeatsBounded`, by
  `RepeatInv`: the extra jobs of a contact, together with the queued contacts that a
  page is still to come to (`Ahead`), are no more than have appeared and the rows that were
  gone back over (`back`), because a row more
  moves one row at most across that place (`RowAppears`), and going back uncovers a window.
* `SharedSessionProofs`: `TypeCorrect`, `Atomicity` (`AloneInv`: while a transaction
  that met no other runs, a transaction is open and its undo image has none of its
  writes) and `Loss` (`LossInv`: a write that a rollback would take belongs to a
  handler that met the one that runs), both over `MeetInv`.
* `BroadcastEditProofs`: `TypeCorrect` and `AbTestKept` = `AbTestStays`, by `AbTestInv`:
  from the write of its row on, the update's flag is in the database, then in the
  image a rollback would restore, and in the row that every later update has read.
  It rests on `MeetInv`, by which an open transaction belongs to an update under way.
  `NoOrphans` = `NoOrphanWhenAlone`, by `OrphanInv`: what an update that met no other has
  inserted by each of its steps, that the image of its transaction has none of it, and
  that a later update links a content only over a row that had none. `AcknowledgedKept`
  = `AcknowledgedStays`, by `KeptInv`: once an update is done, a rollback that would take
  what it brought is only in the hands of updates that it met.
* `AutomationsProofs`: `TypeCorrect`, with `JobInv`: a step job exists only for an
  execution of its trigger that began, and it has a step. `PagesAreWhole` =
  `PendingQueuedOnce`, by `PageInv`: a contact at or below the cursor is not queued
  again, and one that stayed PENDING has been. The lemmas `PageFacts` and its neighbours
  give what a page of a finite set of ids holds. `Forks` by `ForkInv`, which relates every
  two requests past their checks; `Announced` by `SlotInv`, which ties each slot of a step
  job to the step at which its producer is; `Repeats` by `ActInv`: a pair that was acted
  upon is either calm (its row is there, or nobody acts) or busy with exactly one
  runner, as long as it is neither crowded nor cut off. `RecordedIsPassedOver` is
  the action property.
* `AccountsProofs`: `TypeCorrect`; `MailFollowsRow` = `UnmailedNeedsLoss` by `RowInv`;
  `Duplicates` by `PairInv`, over pairs of invitations of one address; `Members` =
  `ActiveIsInvitee` by `InviteeInv`: a row's user is always the invitee (`RowOf`), and
  an acceptance that has read a row without a user claims it before it activates it
  (`ReplyOf`). `GoneForGood` is the action property.
* `SendersProofs`: `TypeCorrect`; `KeysInBothStores` by `KeyInv`; `RowSigns` =
  `SignsWithRow` by `StoreInv`, in three parts: what a row and its writes say of its
  request, how two requests of one name may lie, and whose key is in Redis. `ChecksGoOn` =
  `ChainEndsVerified` by `ChainInv`: a domain that was answered has a check in the queue or
  in a worker's hands before its requeue, or it is verified or cut; what a worker has
  seen is in the columns once it has marked them (`HandInv`). `MarksAreSeen` is
  the action property.

* `ContactsProofs`: `TypeCorrect`, which has the references between the tables in it, by
  `Inv` = `TypeOK` with what a request, a run and an import hold at each of their
  steps (`BoundInv`, `RunInv`): a run has the settings of its import, unless they were
  saved again, it has created a tag for each name in them, and the rows that it
  inserted are nobody else's. `OvertakenOnly` = `UpdatesKept` by
  `SeenInv`: an update that nobody overtook has read what the contact was promised.
  `Attached` = `AttachedStays` by `AttachedInv`, for each attach request between its look
  and its answer. `ErrorsExplained` = `ErrorNeedsOverlap` by `CheckInv`: a check that
  found nothing is still right, or a write has met the request since. `PagesWhole` =
  `PageIsWhole` by `PageInv`: the total a reader holds is that of the rows as long as no
  write met it. `ProcessingRuns` = `ProcessingHasRun`, which is inductive with `Inv`.
  `SuccessWhole` is the action property `SuccessIsWhole`.

Only model-checked: the liveness properties `EveryJobSettles`, `CheckedUntilVerified`
and the fair part of `DeliveryPromised`, because liveness under fairness and ENABLED are
beyond the prover. Every other property of a passing run is a theorem.

## Disagreements found

One run ends in a violation on purpose: it states what the repository says of itself and
shows that the code does something else.

* `two_pages`: `send_broadcast_job.ts:52` fixes the number of pages, so that the
  151st contact is never queued, against "for each contact" in `src/readme.md:40`.

Observed while modelling, and part of the models without a run of their own.
Broadcasts:

* `worker_ignitor.ts:25-31` registers executors for three jobs, and `processJob`
  completes any other without effect: A/B dispatches, automations, imports, exports,
  invitations and DNS checks are queued and dropped. Their handlers are modelled as
  their tests call them, and `DropUnregistered` is what a worker does today.
* `send_broadcast_action.ts:42` writes the status after the job was added, so that two
  requests in time send twice, next to "Only a draft broadcast can be sent."
  (`broadcast_controller.ts:138`); `DoubleSendNeedsRace` says when.
* That write is made on the session that all handlers of the API process share
  (`ignitor_api.ts:81`). It may lie in the transaction of a PUT, and if the PUT fails
  (`ab_test_repository.ts:87`, below), its ROLLBACK takes the status of a send that was
  answered 200 back to DRAFT; a later send then passes the check and fans out again.
  The models call such a request "undone".
* `update_broadcast_dto.ts:168` sums the weights of one payload, and the variants of two
  payloads add up on the broadcast. It bounds the sum alone: weights of 60 and -20 on 100
  contacts give a final sample from 40 on, and the contacts of rank 40 to 59 are queued
  twice; a weight below zero that comes first makes the offset of the next page
  negative, which MySQL refuses.
* A payload whose variants all have an id ends with an insert of no rows, which throws
  (`ab_test_repository.ts:87`): such an update is never accepted.
* A payload with variants and nothing else writes no row, so that the broadcast does
  not become an A/B test (`update_broadcast_action.ts:33`); `AbTestStays` therefore speaks
  of updates with other fields.
* A delete removes the variants and leaves the contents
  (`schema.ts:335-346`, `391-396`): `NoOrphanWhenAlone` speaks of a broadcast that exists.

Automations:

* The row that `RunAutomationForContactJob` inserts for the next step is COMPLETED, and
  `RunAutomationStepForContactJob` skips a contact that has any row for its step: once
  the transaction of the producer is committed, the step is not run
  (`OnlyUncommittedRun`). Only a worker that reads before the commit acts.
* No registered runner queues the step after its own; a chain ends at its first action.
* The DTO refuses a second child of any parent, a rule with two branches included, and
  `rule_if_else_runner.ts:44-50`, which is not registered, looks both branches up by
  `branchIndex` 0.
* The jobs of `RunAutomationStepJob` carry no `automationStepId`: their query for the step
  throws, and they fail.

Accounts and senders:

* An error of the mailer is returned, and the invitation's job completes without a mail
  (`MailInvite`).
* Reject deletes a membership that has become ACTIVE in the meantime; an acceptance of a
  membership that was deleted in the meantime is answered with success and changes
  nothing.
* The API's middleware takes tokens of users; the rows of API keys name a team and no user,
  and only the injector, which asks Redis, knows them.
* The updates of the verified columns have no WHERE: a check that sees a record marks
  every domain of every team (`MarkVerified`).

Contacts:

* An import with tags fails whenever one of its rows updates a contact: the tags are
  attached under the ids generated for the insert, which such a row does not get
  (`AttachTags`). Without tags it succeeds.
* The status of an import stays PROCESSING when its run fails: with one attempt
  `failed()` is not called (`FailImport`).
* Pages are taken with LIMIT and OFFSET and without an order, so that two pages of a table
  that nobody writes may still overlap: `PageIsWhole` speaks of one page.

## Not modelled

* Locks that expire while the worker is alive, delays, priorities and the shutdown
  of workers: BullMQ's own, and there is no clock.
* The choice of the A/B winner: `PickAbTestWinnerJob.handle` is empty.
* More than one API process, and other writes on a worker's own session. BroadcastSend has
  the API's session with the transactions of its other handlers in it; Senders,
  Accounts and Contacts take each handler to be alone on the session, and what
  SharedSession shows of a neighbour's ROLLBACK applies to their acknowledged writes too.
* MySQL's isolation between sessions: a transaction is invisible until it commits
  and holds what it wrote; the statements of the models are single rows or single
  queries.
* Exports of contacts: the controller queues a payload without the `audienceId` that the
  job reads, and under the job id of the imports, so that no export that the code starts
  has a run to speak of; the job alone is a read, a file and a mail.
* Creation and deletion of audiences and segments, and reads of a single row: one statement
  each, with nothing that another step depends on.
* Adapters without state (KumoMTA, logs, webhooks, transactional jobs), HTTP routing,
  views, the tool that renders mails, key generation, migrations and seeds: they map one
  value to another, or hold what a library does.

## Plan

1. *Done*: JobQueue, BroadcastSend with DeliveryPromise, AbTestDispatch, SharedSession,
   BroadcastEdit, Automations, Accounts, Senders, Contacts, and the theorems above
   (8 modules of theorems).
2. Exports, and the runners of automations that are not registered, once the code runs them.
