---------------------------- MODULE BroadcastSend ----------------------------
(***************************************************************************)
(* Sending one broadcast, from the HTTP request to the mail server.        *)
(*                                                                         *)
(*   POST /broadcasts/:id/send   reads the row, adds a fan-out job, then   *)
(*                               writes status QUEUED_FOR_SENDING;         *)
(*   SendBroadcastJob            reads two pages of contacts and adds one  *)
(*                               contact job per contact of a page;        *)
(*   SendBroadcastToContact      reads the rows, mails, stores a Redis key.*)
(*                                                                         *)
(* Requests, edits, deletes and worker processes interleave between any    *)
(* two awaits that other actors can notice; a request and a worker can die *)
(* at each of them.  A query and the addBulk that follows it are one step: *)
(* the query has no effect and nothing reads the batch in between.         *)
(*                                                                         *)
(* All handlers of the API process share its one MySQL session, as in      *)
(* SharedSession: while some handler has a transaction open there, any     *)
(* statement of any other handler belongs to it, and a ROLLBACK takes them *)
(* all.  The handlers of the API see what the session sees; the workers    *)
(* see the committed row.  There is one API process.  The session of a     *)
(* worker is taken to have no transaction open while it sends; an import   *)
(* that runs beside in the same process would show it an older row.        *)
(***************************************************************************)
EXTENDS JobQueue, FiniteSets

CONSTANTS
    Requests,    \* send requests, each made at most once
    Contacts,    \* rows of the contacts table
    Audiences,   \* rows of the audiences table
    HomeOf,      \* contacts.audienceId, a function on Contacts
    Steady,      \* contacts whose row the segment filter always selects
    BatchSize,   \* 75 in the code
    Attempts,    \* opts.attempts of a contact job, 3 in the code
    NumWorkers   \* worker processes that listen on the "broadcasts" queue

ASSUME ParameterAssumption ==
    /\ HomeOf \in [Contacts -> Audiences]
    /\ Audiences # {}
    /\ Steady \subseteq Contacts
    /\ BatchSize \in Nat \ {0}
    /\ Attempts \in Nat \ {0}
    /\ NumWorkers \in Nat \ {0}

ASSUME FiniteAssumption == IsFiniteSet(Requests) /\ IsFiniteSet(Contacts)

TotalBatches == 1                  \* the loop runs batch = 0 .. TotalBatches
Pages == 0 .. TotalBatches

\* A contact job is named by the execution that added it: the fan-out job (one
\* per request), how often that job had stalled, the page and the contact.
ContactJobs ==
    [request : Requests, run : 0 .. MaxStalled, page : Pages, contact : Contacts]

FanOutSteps  == {"find", "page"}
ContactSteps == {"find", "send", "mark", "ack"}

VARIABLES
    status,      \* broadcasts.status, or "DELETED" when the row is gone
    isAbTest,    \* broadcasts.isAbTest
    target,      \* broadcasts.audienceId; these three as the API's session sees them
    open,        \* has some handler a transaction open in that session?
    stored,      \* the row that is committed, which other sessions see
    matching,    \* contacts the segment filter selects now
    request,     \* where each send request is
    name,        \* the job name each request decided on when it read the row
    fanOut,      \* the job each request added
    cursor,      \* the handler of that job: the audience it read, its next page
    contactJob,  \* the jobs of the contacts
    mails,       \* how often a contact job handed its mail to the mail server
    marks,       \* how often it stored its Redis key
    lateMails,   \* history: mails accepted after the row was deleted
    inFlight     \* history: the requests under way when a request read the row

row     == <<status, isAbTest, target, open, stored>>
http    == <<request, name, inFlight>>
fanning == <<fanOut, cursor>>
mailing == <<contactJob, mails, marks, lateMails>>
vars    == <<row, matching, http, fanning, mailing>>

Statuses == {"DRAFT", "QUEUED_FOR_SENDING", "DELETED"}

TypeOK ==
    /\ status \in Statuses
    /\ isAbTest \in BOOLEAN
    /\ target \in Audiences
    /\ open \in BOOLEAN
    /\ stored \in [status : Statuses, isAbTest : BOOLEAN, target : Audiences]
    /\ matching \in SUBSET Contacts
    /\ request \in [Requests -> {"idle", "read", "added", "answered", "accepted",
                                "undone", "rejected", "lost"}]
    /\ name \in [Requests -> {"SEND_BROADCAST", "SEND_AB_TEST_BROADCAST"}]
    /\ fanOut \in [Requests -> JobRecords(FanOutSteps, 1)]
    /\ cursor \in [Requests -> [audience : Audiences, page : 0 .. TotalBatches + 1]]
    /\ contactJob \in [ContactJobs -> JobRecords(ContactSteps, Attempts)]
    /\ mails \in [ContactJobs -> Nat]
    /\ marks \in [ContactJobs -> Nat]
    /\ lateMails \in Nat
    /\ inFlight \in [Requests -> SUBSET Requests]

\* The row as the session of the API sees it.
Seen == [status |-> status, isAbTest |-> isAbTest, target |-> target]

Init ==
    /\ status = "DRAFT"
    /\ isAbTest \in BOOLEAN
    /\ target \in Audiences
    /\ open = FALSE
    /\ stored = Seen
    /\ matching \in {S \in SUBSET Contacts : Steady \subseteq S}
    /\ request = [r \in Requests |-> "idle"]
    /\ name = [r \in Requests |-> "SEND_BROADCAST"]
    /\ fanOut = [r \in Requests |-> NoJob]
    /\ cursor = [r \in Requests |-> [audience |-> target, page |-> 0]]
    /\ contactJob = [k \in ContactJobs |-> NoJob]
    /\ mails = [k \in ContactJobs |-> 0]
    /\ marks = [k \in ContactJobs |-> 0]
    /\ lateMails = 0
    /\ inFlight = [r \in Requests |-> {}]
-----------------------------------------------------------------------------
(***************************************************************************)
(* The one MySQL session of the API process.  Any number of handlers use   *)
(* it, of this broadcast and of others, so that a BEGIN, a COMMIT and a    *)
(* ROLLBACK may come at any time: of PUT /broadcasts/:id, whose handler    *)
(* throws, among others, when it has no variant to insert.                 *)
(***************************************************************************)
\* A statement of a handler that writes the row, in whatever transaction is open.
Written ==
    /\ stored' = IF open THEN stored ELSE Seen'
    /\ UNCHANGED open

\* What was written becomes permanent, and so does the send whose request was
\* answered while its write was not.
Committed ==
    /\ stored' = Seen
    /\ request' = [r \in Requests |-> IF request[r] = "answered" THEN "accepted" ELSE request[r]]
    /\ UNCHANGED <<status, isAbTest, target, matching, name, inFlight, fanning, mailing>>

\* A BEGIN commits the transaction that is open, if there is one.
BeginTransaction == open' = TRUE /\ Committed

CommitTransaction == open /\ open' = FALSE /\ Committed

\* A handler throws, or the process dies (and its requests with it, LoseRequest).
RollbackTransaction ==
    /\ open
    /\ open' = FALSE
    /\ status' = stored.status
    /\ isAbTest' = stored.isAbTest
    /\ target' = stored.target
    /\ request' = [r \in Requests |-> IF request[r] = "answered" THEN "undone" ELSE request[r]]
    /\ UNCHANGED <<stored, matching, name, inFlight, fanning, mailing>>

Session == BeginTransaction \/ CommitTransaction \/ RollbackTransaction
-----------------------------------------------------------------------------
(***************************************************************************)
(* The HTTP API.                                                           *)
(***************************************************************************)
UnderWay == {q \in Requests : request[q] \in {"read", "added"}}

\* Mutant: the controller forgets the draft check.
SendWithoutDraftCheck(r) ==
    /\ request[r] = "idle"
    /\ request' = [request EXCEPT ![r] = "read"]
    /\ inFlight' = [inFlight EXCEPT ![r] = UnderWay]
    /\ UNCHANGED <<name, row, matching, fanning, mailing>>

\* The controller reads the row and goes on only with a draft whose contents
\* pass validation; what the validation looks at is abstracted, so a draft may
\* be refused too.
ReadForSend(r) ==
    /\ request[r] = "idle"
    /\ \/ /\ status = "DRAFT"
          /\ request' = [request EXCEPT ![r] = "read"]
          /\ name' = [name EXCEPT ![r] = IF isAbTest THEN "SEND_AB_TEST_BROADCAST"
                                                     ELSE "SEND_BROADCAST"]
          /\ inFlight' = [inFlight EXCEPT ![r] = UnderWay]
       \/ /\ request' = [request EXCEPT ![r] = "rejected"]
          /\ UNCHANGED <<name, inFlight>>
    /\ UNCHANGED <<row, matching, fanning, mailing>>

\* SendBroadcastAction adds the job first ...
AddFanOut(r) ==
    /\ request[r] = "read"
    /\ request' = [request EXCEPT ![r] = "added"]
    /\ fanOut' = [fanOut EXCEPT ![r] = Added]
    /\ UNCHANGED <<row, matching, name, inFlight, cursor, mailing>>

\* Mutant: the row may be written, and the request answered, before the job is
\* added.
MarkQueuedEarly(r) ==
    /\ request[r] \in {"read", "added"}
    /\ request' = [request EXCEPT ![r] = IF open THEN "answered" ELSE "accepted"]
    /\ status' = IF status = "DELETED" THEN status ELSE "QUEUED_FOR_SENDING"
    /\ UNCHANGED <<isAbTest, target, matching, name, inFlight, fanning, mailing>>
    /\ Written

\* ... and updates the row afterwards, without looking at it again.  The request
\* is then answered, though the write may lie in a transaction of another handler.
MarkQueued(r) ==
    /\ request[r] = "added"
    /\ request' = [request EXCEPT ![r] = IF open THEN "answered" ELSE "accepted"]
    /\ status' = IF status = "DELETED" THEN status ELSE "QUEUED_FOR_SENDING"
    /\ UNCHANGED <<isAbTest, target, matching, name, inFlight, fanning, mailing>>
    /\ Written

\* The API process dies, or the queue or the database call throws.
LoseRequest(r) ==
    /\ request[r] \in {"read", "added"}
    /\ request' = [request EXCEPT ![r] = "lost"]
    /\ UNCHANGED <<row, matching, name, inFlight, fanning, mailing>>

\* The UPDATE of PUT /broadcasts/:id, between the BEGIN and the COMMIT or ROLLBACK
\* of its handler; it has no guard on the status.  Two updates may undo each
\* other's isAbTest, because each writes the value it read.
UpdateBroadcast ==
    /\ status # "DELETED"
    /\ isAbTest' \in BOOLEAN
    /\ target' \in Audiences
    /\ UNCHANGED <<status, matching, http, fanning, mailing>>
    /\ Written

\* DELETE /broadcasts/:id has no guard on the status either.
DeleteBroadcast ==
    /\ status # "DELETED"
    /\ status' = "DELETED"
    /\ UNCHANGED <<isAbTest, target, matching, http, fanning, mailing>>
    /\ Written

\* A contact is created, or its attributes change, so that the filter of the
\* broadcast begins or ceases to select it.
ContactChanges(c) ==
    /\ c \notin Steady
    /\ \/ c \in matching /\ matching' = matching \ {c}
       \/ c \notin matching /\ matching' = matching \cup {c}
    /\ UNCHANGED <<row, http, fanning, mailing>>
-----------------------------------------------------------------------------
(***************************************************************************)
(* SendBroadcastJob, added without opts.attempts: one attempt.             *)
(***************************************************************************)
\* A worker process runs one job of the queue "broadcasts" at a time.
WorkerIsFree ==
    Cardinality({r \in Requests : IsActive(fanOut[r])})
        + Cardinality({k \in ContactJobs : IsActive(contactJob[k])}) < NumWorkers

TakeFanOut(r) ==
    /\ fanOut[r].state = "waiting"
    /\ name[r] = "SEND_BROADCAST"
    /\ WorkerIsFree
    /\ fanOut' = [fanOut EXCEPT ![r] = At(@, "find")]
    /\ UNCHANGED <<row, matching, http, cursor, mailing>>

\* The A/B job is in the queue "abtests_broadcasts", for which each process has
\* a worker of its own.  processJob has no executor for the job: it logs the
\* name and returns, and BullMQ counts the job as completed.
DropUnregistered(r) ==
    /\ fanOut[r].state = "waiting"
    /\ name[r] = "SEND_AB_TEST_BROADCAST"
    /\ fanOut' = [fanOut EXCEPT ![r] = Complete(@)]
    /\ UNCHANGED <<row, matching, http, cursor, mailing>>

\* Mutant: the loop over the pages starts at 1.
SkipFirstPage(r) ==
    /\ fanOut[r].state = "find"
    /\ stored.status # "DELETED"
    /\ fanOut' = [fanOut EXCEPT ![r] = At(@, "page")]
    /\ cursor' = [cursor EXCEPT ![r] = [audience |-> stored.target, page |-> 1]]
    /\ UNCHANGED <<row, matching, http, mailing>>

FindBroadcast(r) ==
    /\ fanOut[r].state = "find"
    /\ stored.status # "DELETED"
    /\ fanOut' = [fanOut EXCEPT ![r] = At(@, "page")]
    /\ cursor' = [cursor EXCEPT ![r] = [audience |-> stored.target, page |-> 0]]
    /\ UNCHANGED <<row, matching, http, mailing>>

\* LIMIT BatchSize OFFSET n * BatchSize of a query without ORDER BY: any set of
\* selected rows that has the size of the n-th page.
PageOf(rows, n) ==
    LET left == Cardinality(rows) - n * BatchSize
        size == IF left > BatchSize THEN BatchSize ELSE left
    IN  {ids \in SUBSET rows : Cardinality(ids) = IF left > 0 THEN size ELSE 0}

\* Mutant: each page is taken from the audience the row has now.
QueuePageOfTarget(r) ==
    /\ fanOut[r].state = "page"
    /\ cursor[r].page \in Pages
    /\ \E ids \in PageOf({c \in matching : HomeOf[c] = stored.target}, cursor[r].page) :
           contactJob' = [k \in ContactJobs |->
               IF /\ k.request = r
                  /\ k.run = fanOut[r].stalls
                  /\ k.page = cursor[r].page
                  /\ k.contact \in ids
               THEN Added
               ELSE contactJob[k]]
    /\ cursor' = [cursor EXCEPT ![r].page = @ + 1]
    /\ UNCHANGED <<row, matching, http, fanOut, mails, marks, lateMails>>

QueuePage(r) ==
    /\ fanOut[r].state = "page"
    /\ cursor[r].page \in Pages
    /\ \E ids \in PageOf({c \in matching : HomeOf[c] = cursor[r].audience}, cursor[r].page) :
           contactJob' = [k \in ContactJobs |->
               IF /\ k.request = r
                  /\ k.run = fanOut[r].stalls
                  /\ k.page = cursor[r].page
                  /\ k.contact \in ids
               THEN Added
               ELSE contactJob[k]]
    /\ cursor' = [cursor EXCEPT ![r].page = @ + 1]
    /\ UNCHANGED <<row, matching, http, fanOut, mails, marks, lateMails>>

FinishFanOut(r) ==
    /\ fanOut[r].state = "page"
    /\ cursor[r].page \notin Pages
    /\ fanOut' = [fanOut EXCEPT ![r] = Complete(@)]
    /\ UNCHANGED <<row, matching, http, cursor, mailing>>

\* The row is gone, or a query or an addBulk throws (maybe after it took effect).
FailFanOut(r) ==
    /\ fanOut[r].state \in FanOutSteps
    /\ fanOut' = [fanOut EXCEPT ![r] = AttemptFailed(@, 1)]
    /\ UNCHANGED <<row, matching, http, cursor, mailing>>

StallFanOut(r) ==
    /\ IsActive(fanOut[r])
    /\ fanOut' = [fanOut EXCEPT ![r] = Stall(@)]
    /\ UNCHANGED <<row, matching, http, cursor, mailing>>
-----------------------------------------------------------------------------
(***************************************************************************)
(* SendBroadcastToContact, added with opts.attempts = Attempts.            *)
(***************************************************************************)
\* Mutants: a failed job is taken up like a waiting one; and a job that waits
\* for its next attempt is not.
TakeFailedContact(k) ==
    /\ contactJob[k].state \in {"waiting", "failed"}
    /\ WorkerIsFree
    /\ contactJob' = [contactJob EXCEPT ![k] = At(@, "find")]
    /\ UNCHANGED <<row, matching, http, fanning, mails, marks, lateMails>>

TakeContactOnce(k) ==
    /\ contactJob[k].state = "waiting"
    /\ contactJob[k].made = 0
    /\ WorkerIsFree
    /\ contactJob' = [contactJob EXCEPT ![k] = At(@, "find")]
    /\ UNCHANGED <<row, matching, http, fanning, mails, marks, lateMails>>

TakeContact(k) ==
    /\ contactJob[k].state = "waiting"
    /\ WorkerIsFree
    /\ contactJob' = [contactJob EXCEPT ![k] = At(@, "find")]
    /\ UNCHANGED <<row, matching, http, fanning, mails, marks, lateMails>>

\* Mutant: the handler does not check that the broadcast is still there.
FindWithoutCheck(k) ==
    /\ contactJob[k].state = "find"
    /\ contactJob' = [contactJob EXCEPT ![k] = At(@, "send")]
    /\ UNCHANGED <<row, matching, http, fanning, mails, marks, lateMails>>

FindContact(k) ==
    /\ contactJob[k].state = "find"
    /\ stored.status # "DELETED"
    /\ contactJob' = [contactJob EXCEPT ![k] = At(@, "send")]
    /\ UNCHANGED <<row, matching, http, fanning, mails, marks, lateMails>>

\* The mail server takes the mail; whether the handler hears of it is another
\* matter (FailContact at "mark").
MailAccepted(k) ==
    /\ contactJob[k].state = "send"
    /\ contactJob' = [contactJob EXCEPT ![k] = At(@, "mark")]
    /\ mails' = [mails EXCEPT ![k] = @ + 1]
    /\ lateMails' = IF stored.status = "DELETED" THEN lateMails + 1 ELSE lateMails
    /\ UNCHANGED <<row, matching, http, fanning, marks>>

MarkSent(k) ==
    /\ contactJob[k].state = "mark"
    /\ contactJob' = [contactJob EXCEPT ![k] = At(@, "ack")]
    /\ marks' = [marks EXCEPT ![k] = @ + 1]
    /\ UNCHANGED <<row, matching, http, fanning, mails, lateMails>>

\* Mutant: the handler answers success when it finds no row.
FinishWhenNotFound(k) ==
    /\ \/ contactJob[k].state = "ack"
       \/ contactJob[k].state = "find" /\ stored.status = "DELETED"
    /\ contactJob' = [contactJob EXCEPT ![k] = Complete(@)]
    /\ UNCHANGED <<row, matching, http, fanning, mails, marks, lateMails>>

FinishContact(k) ==
    /\ contactJob[k].state = "ack"
    /\ contactJob' = [contactJob EXCEPT ![k] = Complete(@)]
    /\ UNCHANGED <<row, matching, http, fanning, mails, marks, lateMails>>

\* Mutant: the handler tries again by itself, and no attempt is counted.
TryAgain(k) ==
    /\ contactJob[k].state \in {"find", "send", "mark"}
    /\ contactJob' = [contactJob EXCEPT ![k] = At(@, "find")]
    /\ UNCHANGED <<row, matching, http, fanning, mails, marks, lateMails>>

\* At "find" a row is missing or the query throws, at "send" the mail is
\* refused or incomplete, at "mark" the answer of the mail server is lost or
\* redis.set throws.
FailContact(k) ==
    /\ contactJob[k].state \in {"find", "send", "mark"}
    /\ contactJob' = [contactJob EXCEPT ![k] = AttemptFailed(@, Attempts)]
    /\ UNCHANGED <<row, matching, http, fanning, mails, marks, lateMails>>

StallContact(k) ==
    /\ IsActive(contactJob[k])
    /\ contactJob' = [contactJob EXCEPT ![k] = Stall(@)]
    /\ UNCHANGED <<row, matching, http, fanning, mails, marks, lateMails>>
-----------------------------------------------------------------------------
SendRequest(r) ==
    \/ ReadForSend(r) \/ AddFanOut(r) \/ MarkQueued(r) \/ LoseRequest(r)

FanOutStep(r) ==
    \/ TakeFanOut(r) \/ DropUnregistered(r) \/ FindBroadcast(r)
    \/ QueuePage(r) \/ FinishFanOut(r) \/ FailFanOut(r)

ContactStep(k) ==
    \/ TakeContact(k) \/ FindContact(k) \/ MailAccepted(k)
    \/ MarkSent(k) \/ FinishContact(k) \/ FailContact(k)

WorkerStep ==
    \/ \E r \in Requests : FanOutStep(r)
    \/ \E k \in ContactJobs : ContactStep(k)

Next ==
    \/ \E r \in Requests : SendRequest(r)
    \/ Session
    \/ UpdateBroadcast
    \/ DeleteBroadcast
    \/ \E c \in Contacts : ContactChanges(c)
    \/ WorkerStep
    \/ \E r \in Requests : StallFanOut(r)
    \/ \E k \in ContactJobs : StallContact(k)

SafeSpec == Init /\ [][Next]_vars

\* Some worker goes on as long as there is a step to take; nothing is assumed
\* of the users, of the API process or of crashes.
Spec == SafeSpec /\ WF_vars(WorkerStep)
-----------------------------------------------------------------------------
(***************************************************************************)
(* Properties.                                                             *)
(***************************************************************************)

\* A request that was answered 200 has left its fan-out job in the queue, and a
\* row that is no draft any more unless a ROLLBACK of another handler took the
\* write ("undone"); what is committed is no draft once that handler is through.
\* A queued row, committed or not, has a job that was added for it:
\* send_broadcast_action.ts adds the job before it writes the status, and no edit,
\* delete, crash or ROLLBACK in between may break the pair.
AcceptedIsQueued ==
    /\ \A r \in Requests :
           /\ request[r] \in {"answered", "accepted", "undone"} => Exists(fanOut[r])
           /\ request[r] = "answered" => status # "DRAFT"
           /\ request[r] = "accepted" => stored.status # "DRAFT"
    /\ "QUEUED_FOR_SENDING" \in {status, stored.status} =>
           \E r \in Requests : Exists(fanOut[r])

\* The draft check and the status write are not atomic, so one broadcast can
\* be fanned out twice; but only by two requests of which one was under way
\* when the other read the row, or after a request died with its job added, or
\* after the ROLLBACK of another handler took the write of one that was answered.
DoubleSendNeedsRace ==
    \A r, q \in Requests :
        r # q /\ Exists(fanOut[r]) /\ Exists(fanOut[q]) =>
            \/ r \in inFlight[q] \/ q \in inFlight[r]
            \/ {request[r], request[q]} \cap {"lost", "undone"} # {}

\* One execution of SendBroadcastJob queues contacts of one audience only, the
\* one it read at its start, even if the broadcast is given another audience
\* between its two pages.
OneAudiencePerExecution ==
    \A j, k \in ContactJobs :
        /\ j.request = k.request /\ j.run = k.run
        /\ Exists(contactJob[j]) /\ Exists(contactJob[k])
        => HomeOf[j.contact] = HomeOf[k.contact]

\* However its attempts fail and its workers vanish, a contact job hands its
\* mail to the mail server at most Attempts + MaxStalled times: once for each
\* attempt, once more for each time its worker vanished.
MailsBounded ==
    \A k \in ContactJobs : mails[k] <= Attempts + MaxStalled

\* A Redis key stands for a mail the mail server took, each for another one,
\* and a contact job is completed only after such a mail and such a key.
MarkFollowsMail ==
    \A k \in ContactJobs :
        /\ marks[k] <= mails[k]
        /\ contactJob[k].state = "completed" => marks[k] > 0

\* A contact job is given up only when its attempts, or its stalls, are used up.
GivenUpWhenExhausted ==
    \A k \in ContactJobs : contactJob[k].state = "failed" =>
        \/ contactJob[k].made = Attempts
        \/ contactJob[k].stalls = MaxStalled

\* Deleting a broadcast that is being sent stops it: past the committed delete the mail
\* server takes at most one mail per worker, from the handlers that had read
\* the row before.
DeleteStopsSending == lateMails <= NumWorkers

\* A handler that reports success on a broadcast has queued a job for every
\* contact that the audience and the segment selected all along
\* (readme.md:40, "for each contact, queues a SendBroadcastToContact job").
EveryContactQueued ==
    \A r \in Requests, c \in Steady :
        /\ name[r] = "SEND_BROADCAST"
        /\ fanOut[r].state = "completed"
        /\ HomeOf[c] = cursor[r].audience
        => \E k \in ContactJobs :
               k.request = r /\ k.contact = c /\ Exists(contactJob[k])

\* A settled contact job is never run again and never mails again, and a status
\* that is committed is never taken back, neither a queued row nor a deleted one
\* becomes a draft: no crash, retry, later request or ROLLBACK reopens what was
\* finished.
SettledIsFinal ==
    [][/\ \A k \in ContactJobs : IsSettled(contactJob[k]) =>
              contactJob'[k] = contactJob[k] /\ mails'[k] = mails[k]
       /\ stored.status # "DRAFT" => stored'.status # "DRAFT"
       /\ stored.status = "DELETED" => stored'.status = "DELETED"]_vars

\* What attempts, stalls and steps leave a job to do: the runs of the handler
\* that it may still have, each as long as the longest, and the rest of this one.
ContactLeft(k) ==
    LET job  == contactJob[k]
        runs == (Attempts - job.made) + (MaxStalled - job.stalls)
        rest == CASE job.state = "waiting" -> 5
                  [] job.state = "find"    -> 4
                  [] job.state = "send"    -> 3
                  [] job.state = "mark"    -> 2
                  [] OTHER                 -> 1
    IN  IF IsSettled(job) THEN 0 ELSE 5 * runs + rest

FanOutLeft(r) ==
    LET job   == fanOut[r]
        runs  == (1 - job.made) + (MaxStalled - job.stalls)
        pages == TotalBatches + 1
        rest  == CASE job.state = "waiting" -> pages + 3
                   [] job.state = "find"    -> pages + 2
                   [] OTHER                 -> pages + 1 - cursor[r].page
    IN  IF IsSettled(job) THEN 0 ELSE (pages + 3) * runs + rest

\* Nothing runs for ever: whatever happens to a job that was added, a step, a
\* failure, a stall or a retry, leaves it less to do than before, and every step
\* of a worker is spent on such a job.  The error paths of processJob and of the
\* two handlers may send a job back to its start only against an attempt or a stall.
RunsDown ==
    [][/\ \A r \in Requests :
              Exists(fanOut[r]) /\ (fanOut'[r] # fanOut[r] \/ cursor'[r] # cursor[r])
              => FanOutLeft(r)' < FanOutLeft(r)
       /\ \A k \in ContactJobs :
              Exists(contactJob[k]) /\ contactJob'[k] # contactJob[k]
              => ContactLeft(k)' < ContactLeft(k)
       /\ WorkerStep =>
              \/ \E r \in Requests : Exists(fanOut[r]) /\ FanOutLeft(r)' < FanOutLeft(r)
              \/ \E k \in ContactJobs :
                     Exists(contactJob[k]) /\ ContactLeft(k)' < ContactLeft(k)]_vars

\* Every job that was added, of a fan-out or of a contact, is settled at last.
EveryJobSettles ==
    /\ \A r \in Requests : Exists(fanOut[r]) ~> IsSettled(fanOut[r])
    /\ \A k \in ContactJobs : Exists(contactJob[k]) ~> IsSettled(contactJob[k])

\* The contact jobs implement the abstract delivery promise.
Outcome(job) ==
    CASE job.state = "none"      -> "absent"
      [] job.state = "completed" -> "done"
      [] job.state = "failed"    -> "dead"
      [] OTHER                   -> "open"

Promised == INSTANCE DeliveryPromise WITH
    Jobs     <- ContactJobs,
    MaxMails <- Attempts + MaxStalled,
    outcome  <- [k \in ContactJobs |-> Outcome(contactJob[k])]

\* Safety and liveness of the promise: at least one mail before a job is done,
\* a bound on their number, jobs appear once, every open job settles.
DeliveryPromised == Promised!Spec
=============================================================================
