------------------------------ MODULE Contacts ------------------------------
(***************************************************************************)
(* The contacts and tags of one audience (audiences/): requests that write *)
(* them in several statements without a transaction, listings that read    *)
(* them in several, and imports, which a job runs in one transaction of    *)
(* another process.                                                        *)
(*                                                                         *)
(* A contact is its email, unique within the audience, and has attributes  *)
(* or has not; a contact is never deleted.  A tag is its id, which names   *)
(* it for good: ids are fresh and are not used again.                      *)
(*                                                                         *)
(* The requests are taken to meet no transaction of another handler on the *)
(* one session that the API process has: a neighbour's ROLLBACK could take *)
(* a write that was answered, which is what module SharedSession is about. *)
(***************************************************************************)
EXTENDS Integers, FiniteSets, Sequences, SequencesExt

CONSTANTS
    Emails,
    Attributes,   \* attributes that a payload or a file may set
    Tags,
    Names,
    NameOf,       \* the name of each tag
    Filters,      \* the segments of the audience, as their filterGroups
    PerPage,
    Requests,
    Imports,
    Files,        \* files to import, as the emails of their rows
    Payloads,     \* settings that a PUT may save
    Columns,      \* the attributes that an import reads from its file
    Workers,      \* processes that listen on the queue of contacts
    MaxStalls,    \* how often workers vanish in the middle of an import
    Existing,     \* contacts, and
    Given,        \* tags, to begin with
    None

ASSUME ContactsAssumption ==
    /\ NameOf \in [Tags -> Names]
    /\ Files \subseteq Seq(Emails)
    /\ PerPage \in Nat \ {0}
    /\ Columns \subseteq Attributes
    /\ Payloads \subseteq [tags : SUBSET Names, tagIds : SUBSET Tags, update : BOOLEAN]
    /\ Existing \subseteq Emails /\ IsFiniteSet(Existing)
    /\ Given \subseteq Tags
    /\ MaxStalls \in Nat
    /\ None \notin Imports \cup Filters

VARIABLES
    contacts,     \* emails with a row
    attributes,   \* [Emails -> the attributes that are set]
    tags,         \* tags with a row
    used,         \* ids that were ever given to a tag
    tagged,       \* tagsOnContacts: pairs of a contact and a tag
    request,      \* [Requests -> what it does, and where it is]
    file,         \* [Imports -> what was uploaded]
    status,       \* contactImports: [Imports -> the status]
    settings,     \* contactImports: [Imports -> what the last PUT asked for]
    queued,       \* [Imports -> jobs that wait]
    worker,       \* [Workers -> the import it runs]
    stalls,       \* how often a worker vanished
    met,          \* history: requests beside which somebody else wrote what
                  \* they had read
    latest,       \* history: [Emails -> the attributes, as the answers to the
                  \* writers promise them]
    stale,        \* history: contacts that such a request wrote
    detached,     \* history: [Requests -> tags detached from its contact since
                  \* it read them]
    broken        \* history: imports with a run that failed, or was never queued

rowVars    == <<contacts, attributes, tags, used, tagged>>
importVars == <<file, status, settings, queued, worker, stalls, broken>>
history    == <<met, latest, stale, detached>>
vars       == <<rowVars, request, importVars, history>>

Idle     == [op |-> "none", step |-> "idle"]
Answered == [op |-> "none", step |-> "done"]
Lost     == [op |-> "none", step |-> "lost"]
Settings == [tags : SUBSET Names, tagIds : SUBSET Tags, update : BOOLEAN]
Unset    == [tags |-> {}, tagIds |-> {}, update |-> TRUE]
NoImport == [import |-> None, step |-> "idle", settings |-> Unset, created |-> {},
             fresh |-> TRUE, late |-> FALSE]

Updates  == [op : {"update"}, step : {"read"}, contact : Emails,
             attributes : SUBSET Attributes, seen : SUBSET Attributes]
Attaches == [op : {"attach"}, step : {"valid", "found", "done", "failed"},
             contact : Emails, tags : SUBSET Tags, found : SUBSET Tags]
Detaches == [op : {"detach"}, step : {"valid"}, contact : Emails, tags : SUBSET Tags]
Creates  == [op : {"create"}, step : {"checked", "failed"}, tag : Tags]
Deletes  == [op : {"delete"}, step : {"found"}, tag : Tags]
Saves    == [op : {"save"}, step : {"valid", "saved"}, import : Imports, settings : Settings]
Listings == [op : {"list"}, step : {"count", "select", "tags"}, filter : Filters \cup {None},
             page : {1, 2}, total : Nat, rows : SUBSET Emails]
Records  == Updates \cup Attaches \cup Detaches \cup Creates \cup Deletes \cup Saves
                    \cup Listings \cup {Idle, Answered, Lost}
Runs     == [import : Imports, step : {"find", "tags", "contacts", "attach", "commit"},
             settings : Settings, created : SUBSET Tags, fresh : BOOLEAN, late : BOOLEAN]

TypeOK ==
    /\ contacts \subseteq Emails
    /\ attributes \in [Emails -> SUBSET Attributes]
    /\ tags \subseteq used /\ used \subseteq Tags
    /\ tagged \subseteq contacts \X tags
    /\ request \in [Requests -> Records]
    /\ file \in [Imports -> Files \cup {<<>>}]
    /\ status \in [Imports -> {"none", "PENDING", "PROCESSING", "SUCCESS"}]
    /\ settings \in [Imports -> Settings]
    /\ queued \in [Imports -> Nat]
    /\ worker \in [Workers -> Runs \cup {NoImport}]
    /\ stalls \in 0 .. MaxStalls
    /\ met \subseteq Requests
    /\ latest \in [Emails -> SUBSET Attributes]
    /\ stale \subseteq Emails
    /\ detached \in [Requests -> SUBSET Tags]
    /\ broken \subseteq Imports

Init ==
    /\ contacts = Existing
    /\ attributes = [e \in Emails |-> {}]
    /\ tags = Given
    /\ used = Given
    /\ tagged = {}
    /\ request = [r \in Requests |-> Idle]
    /\ file = [i \in Imports |-> <<>>]
    /\ status = [i \in Imports |-> "none"]
    /\ settings = [i \in Imports |-> Unset]
    /\ queued = [i \in Imports |-> 0]
    /\ worker = [w \in Workers |-> NoImport]
    /\ stalls = 0
    /\ met = {}
    /\ latest = attributes
    /\ stale = {}
    /\ detached = [r \in Requests |-> {}]
    /\ broken = {}
-----------------------------------------------------------------------------
(***************************************************************************)
(* Rows that an import has written and not committed: a statement that     *)
(* needs one of them waits.                                                *)
(***************************************************************************)
RowsOf(i) == Range(file[i])

LockedContacts ==
    UNION {RowsOf(worker[w].import) : w \in {v \in Workers : worker[v].step \in {"attach", "commit"}}}
LockedNames == UNION {{NameOf[t] : t \in worker[w].created} : w \in Workers}
LockedTags  ==
    UNION {worker[w].settings.tagIds : w \in {v \in Workers : worker[v].step = "commit"}}

(***************************************************************************)
(* SegmentBuilder: a condition that it does not know restricts nothing,    *)
(* and neither does a group without others.  (Tags that are neither        *)
(* contained nor not contained are refused.)                               *)
(***************************************************************************)
Restricts(condition) ==
    \/ condition.field = "tags"
    \/ /\ condition.field \in {"email", "firstName", "lastName"}
       /\ condition.operation \in {"eq", "startsWith", "endsWith", "gte", "lte",
                                   "contains", "notContains"}

\* The value of a condition on a column stands for the contacts that it fits.
Holds(condition, e) ==
    LET hit == IF condition.field = "tags" THEN \E t \in condition.value : <<e, t>> \in tagged
               ELSE e \in condition.value
    IN  hit = (condition.operation # "notContains")

Combine(type, S, True) == IF type = "OR" THEN S \cap True # {} ELSE S \subseteq True

GroupHolds(group, e) ==
    LET known == {c \in group.conditions : Restricts(c)}
    IN  Combine(group.type, known, {c \in known : Holds(c, e)})

Matches(filter, e) ==
    filter # None =>
        LET groups == {g \in filter.groups : \E c \in g.conditions : Restricts(c)}
        IN  groups = {} \/ Combine(filter.type, groups, {g \in groups : GroupHolds(g, e)})

Matching(filter) == {e \in contacts : Matches(filter, e)}
-----------------------------------------------------------------------------
(***************************************************************************)
(* Requests.  One that is refused has written nothing and is left out.     *)
(***************************************************************************)
Begin(r, record) ==
    /\ request[r] = Idle
    /\ request' = [request EXCEPT ![r] = record]
    /\ UNCHANGED <<rowVars, importVars, history>>

At(r, op, step) == request[r].op = op /\ request[r].step = step
To(r, step)     == request' = [request EXCEPT ![r].step = step]
Answer(r)       == request' = [request EXCEPT ![r] = Answered]

UnderWay(r) == request[r].step \notin {"idle", "done", "failed", "lost"}
Of(op)      == {r \in Requests : request[r].op = op /\ UnderWay(r)}
Meets(S)    == met' = met \cup S

StoreContact(r, e, given) ==
    /\ request[r] = Idle
    /\ e \notin contacts \cup LockedContacts
    /\ contacts' = contacts \cup {e}
    /\ attributes' = [attributes EXCEPT ![e] = given]
    /\ latest' = [latest EXCEPT ![e] = given]
    /\ Answer(r)
    /\ Meets(Of("list"))
    /\ UNCHANGED <<tags, used, tagged, importVars, stale, detached>>

\* UpdateContactAction reads the row.
ReadContact(r, e, given) ==
    /\ e \in contacts
    /\ Begin(r, [op |-> "update", step |-> "read", contact |-> e,
                 attributes |-> given, seen |-> attributes[e]])

\* Mutant: the payload takes the place of all attributes.
WriteUnmerged(r) ==
    LET e == request[r].contact IN
    /\ At(r, "update", "read")
    /\ e \notin LockedContacts
    /\ attributes' = [attributes EXCEPT ![e] = request[r].attributes]
    /\ latest' = [latest EXCEPT ![e] = @ \cup request[r].attributes]
    /\ stale' = IF r \in met THEN stale \cup {e} ELSE stale
    /\ Answer(r)
    /\ Meets({q \in Of("update") : request[q].contact = e} \cup Of("list"))
    /\ UNCHANGED <<contacts, tags, used, tagged, importVars, detached>>

\* It writes all of the row that it read, the payload merged into it.
WriteContact(r) ==
    LET e == request[r].contact IN
    /\ At(r, "update", "read")
    /\ e \notin LockedContacts
    /\ attributes' = [attributes EXCEPT ![e] = request[r].seen \cup request[r].attributes]
    /\ latest' = [latest EXCEPT ![e] = @ \cup request[r].attributes]
    /\ stale' = IF r \in met THEN stale \cup {e} ELSE stale
    /\ Answer(r)
    /\ Meets({q \in Of("update") : request[q].contact = e} \cup Of("list"))
    /\ UNCHANGED <<contacts, tags, used, tagged, importVars, detached>>
-----------------------------------------------------------------------------
\* AttachTagsToContactDto and DetachTagsFromContactDto find every tag.
BeginTagging(r, op, e, given) ==
    /\ e \in contacts
    /\ given \subseteq tags
    /\ Begin(r, IF op = "attach"
                THEN [op |-> op, step |-> "valid", contact |-> e, tags |-> given, found |-> {}]
                ELSE [op |-> op, step |-> "valid", contact |-> e, tags |-> given])

PairsOf(r) == {request[r].contact} \X request[r].tags

FindTags(r) ==
    /\ At(r, "attach", "valid")
    /\ request' = [request EXCEPT ![r].step = "found",
                                  ![r].found = {t \in Tags : <<request[r].contact, t>> \in tagged}]
    /\ UNCHANGED <<rowVars, importVars, history>>

\* Mutant: nothing is inserted for a contact that has tags.
InsertFirstTags(r) ==
    LET new == IF request[r].found = {} THEN request[r].tags ELSE {}
        pairs == {request[r].contact} \X new
    IN
    /\ At(r, "attach", "found")
    /\ request[r].contact \notin LockedContacts
    /\ IF new \subseteq tags /\ pairs \cap tagged = {}
       THEN tagged' = tagged \cup pairs /\ To(r, "done")
       ELSE UNCHANGED tagged /\ To(r, "failed")
    /\ Meets({q \in Of("attach") \ {r} : PairsOf(q) \cap pairs # {}} \cup Of("list"))
    /\ UNCHANGED <<contacts, attributes, tags, used, importVars, latest, stale, detached>>

\* One insert for the tags that were not found: when a tag is gone, or a pair is
\* there already, a key refuses all of it.
InsertTags(r) ==
    LET new == request[r].tags \ request[r].found
        pairs == {request[r].contact} \X new
    IN
    /\ At(r, "attach", "found")
    /\ request[r].contact \notin LockedContacts
    /\ IF new \subseteq tags /\ pairs \cap tagged = {}
       THEN tagged' = tagged \cup pairs /\ To(r, "done")
       ELSE UNCHANGED tagged /\ To(r, "failed")
    /\ Meets({q \in Of("attach") \ {r} : PairsOf(q) \cap pairs # {}} \cup Of("list"))
    /\ UNCHANGED <<contacts, attributes, tags, used, importVars, latest, stale, detached>>

DetachTags(r) ==
    /\ At(r, "detach", "valid")
    /\ tagged' = tagged \ PairsOf(r)
    /\ Answer(r)
    /\ detached' = [q \in Requests |->
           IF request[q].op = "attach" /\ request[q].contact = request[r].contact
              /\ request[q].step # "valid"
           THEN detached[q] \cup request[r].tags ELSE detached[q]]
    /\ Meets(Of("list"))
    /\ UNCHANGED <<contacts, attributes, tags, used, importVars, latest, stale>>

Fresh == Tags \ (used \cup {request[r].tag : r \in Of("create")}
                     \cup UNION {worker[w].created : w \in Workers})
NameIsFree(t) == \A u \in tags : NameOf[u] # NameOf[t]

\* Mutant: the name is not looked up.
CheckNothing(r, t) ==
    /\ t \in Fresh
    /\ Begin(r, [op |-> "create", step |-> "checked", tag |-> t])

CheckTag(r, t) ==
    /\ t \in Fresh
    /\ NameIsFree(t)
    /\ Begin(r, [op |-> "create", step |-> "checked", tag |-> t])

InsertTag(r) ==
    LET t == request[r].tag IN
    /\ At(r, "create", "checked")
    /\ NameOf[t] \notin LockedNames
    /\ IF NameIsFree(t)
       THEN tags' = tags \cup {t} /\ used' = used \cup {t} /\ Answer(r)
       ELSE UNCHANGED <<tags, used>> /\ To(r, "failed")
    /\ Meets({q \in Of("create") \ {r} : NameOf[request[q].tag] = NameOf[t]})
    /\ UNCHANGED <<contacts, attributes, tagged, importVars, latest, stale, detached>>

FindTag(r, t) ==
    /\ t \in tags
    /\ Begin(r, [op |-> "delete", step |-> "found", tag |-> t])

\* The foreign key refuses to delete a tag that is attached.
DeleteTag(r) ==
    LET t == request[r].tag IN
    /\ At(r, "delete", "found")
    /\ t \notin LockedTags
    /\ tags' = IF \E e \in contacts : <<e, t>> \in tagged THEN tags ELSE tags \ {t}
    /\ Answer(r)
    /\ Meets({q \in Of("attach") : t \in request[q].tags})
    /\ UNCHANGED <<contacts, attributes, used, tagged, importVars, latest, stale, detached>>
-----------------------------------------------------------------------------
(***************************************************************************)
(* GetContactsAction: the segment, then Paginator.paginate, then the tags. *)
(***************************************************************************)
FindSegment(r, filter, page) ==
    Begin(r, [op |-> "list", step |-> "count", filter |-> filter, page |-> page,
              total |-> 0, rows |-> {}])

CountRows(r) ==
    /\ At(r, "list", "count")
    /\ request' = [request EXCEPT ![r].step = "select",
                                  ![r].total = Cardinality(Matching(request[r].filter))]
    /\ UNCHANGED <<rowVars, importVars, history>>

SizeOfPage(n, page) == LET left == n - (page - 1) * PerPage
                       IN  IF left < 0 THEN 0 ELSE IF left < PerPage THEN left ELSE PerPage

\* Mutant: pages counted from zero.
SelectNextRows(r) ==
    LET rows == Matching(request[r].filter) IN
    /\ At(r, "list", "select")
    /\ \E S \in SUBSET rows :
           /\ Cardinality(S) = SizeOfPage(Cardinality(rows), request[r].page + 1)
           /\ request' = [request EXCEPT ![r].step = "tags", ![r].rows = S]
    /\ UNCHANGED <<rowVars, importVars, history>>

\* LIMIT and OFFSET without an order: any rows, as many as the page has.
SelectRows(r) ==
    LET rows == Matching(request[r].filter) IN
    /\ At(r, "list", "select")
    /\ \E S \in SUBSET rows :
           /\ Cardinality(S) = SizeOfPage(Cardinality(rows), request[r].page)
           /\ request' = [request EXCEPT ![r].step = "tags", ![r].rows = S]
    /\ UNCHANGED <<rowVars, importVars, history>>

AnswerPage(r) ==
    /\ At(r, "list", "tags")
    /\ Answer(r)
    /\ UNCHANGED <<rowVars, importVars, history>>
-----------------------------------------------------------------------------
(***************************************************************************)
(* Imports: the file is uploaded, its settings are saved, a job runs it.   *)
(* WorkerIgnitor has no executor for the job yet; it is run here as its    *)
(* test calls it.                                                          *)
(***************************************************************************)
CreateImport(i) ==
    /\ status[i] = "none"
    /\ status' = [status EXCEPT ![i] = "PENDING"]
    /\ \E f \in Files : file' = [file EXCEPT ![i] = f]
    /\ UNCHANGED <<rowVars, request, settings, queued, worker, stalls, broken, history>>

ReadImport(r, i, given) ==
    /\ status[i] # "none"
    /\ given.tagIds \subseteq tags
    /\ Begin(r, [op |-> "save", step |-> "valid", import |-> i, settings |-> given])

\* Whatever the status is.
SaveSettings(r) ==
    LET i == request[r].import IN
    /\ At(r, "save", "valid")
    /\ status' = [status EXCEPT ![i] = "PROCESSING"]
    /\ settings' = [settings EXCEPT ![i] = request[r].settings]
    /\ worker' = [w \in Workers |->
           IF worker[w].import = i /\ worker[w].step # "find"
           THEN [worker[w] EXCEPT !.late = TRUE] ELSE worker[w]]
    /\ To(r, "saved")
    /\ UNCHANGED <<rowVars, file, queued, stalls, broken, history>>

QueueImport(r) ==
    /\ At(r, "save", "saved")
    /\ queued' = [queued EXCEPT ![request[r].import] = @ + 1]
    /\ Answer(r)
    /\ UNCHANGED <<rowVars, file, status, settings, worker, stalls, broken, history>>

\* The process dies, or a statement waits too long for a lock.
LoseRequest(r) ==
    /\ UnderWay(r)
    /\ request' = [request EXCEPT ![r] = Lost]
    /\ broken' = IF At(r, "save", "saved") THEN broken \cup {request[r].import} ELSE broken
    /\ UNCHANGED <<rowVars, file, status, settings, queued, worker, stalls, history>>

TakeImport(w, i) ==
    /\ worker[w] = NoImport
    /\ queued[i] > 0
    /\ queued' = [queued EXCEPT ![i] = @ - 1]
    /\ worker' = [worker EXCEPT ![w] = [NoImport EXCEPT !.import = i, !.step = "find"]]
    /\ UNCHANGED <<rowVars, request, file, status, settings, stalls, broken, history>>

\* Mutant: only an import that is pending is run.
FindPending(w) ==
    LET i == worker[w].import IN
    /\ worker[w].step = "find"
    /\ worker' = [worker EXCEPT ![w] = IF status[i] # "PENDING" THEN NoImport
                                      ELSE [@ EXCEPT !.step = "tags", !.settings = settings[i]]]
    /\ UNCHANGED <<rowVars, request, file, status, settings, queued, stalls, broken, history>>

FindImport(w) ==
    /\ worker[w].step = "find"
    /\ worker' = [worker EXCEPT ![w].step = "tags", ![w].settings = settings[worker[w].import]]
    /\ UNCHANGED <<rowVars, request, file, status, settings, queued, stalls, broken, history>>

\* The new tags get new ids; a name that the audience has fails the run.
CreateTags(w) ==
    LET names == worker[w].settings.tags IN
    /\ worker[w].step = "tags"
    /\ names \cap (LockedNames \cup {NameOf[t] : t \in tags}) = {}
    /\ \E new \in SUBSET Fresh :
           /\ {NameOf[t] : t \in new} = names
           /\ Cardinality(new) = Cardinality(names)
           /\ worker' = [worker EXCEPT ![w].step = "contacts", ![w].created = new]
    /\ UNCHANGED <<rowVars, request, file, status, settings, queued, stalls, broken, history>>

\* The rows are inserted; one whose email the audience, or the file before it,
\* has, updates that row.  (Without updateExistingContacts nothing is to be set;
\* should MySQL refuse that, the run ends in FailImport.)
UpsertContacts(w) ==
    LET i == worker[w].import IN
    /\ worker[w].step = "contacts"
    /\ RowsOf(i) \cap LockedContacts = {}
    /\ worker' = [worker EXCEPT ![w].step = "attach",
                                ![w].fresh = /\ RowsOf(i) \cap contacts = {}
                                             /\ IsInjective(file[i])]
    /\ UNCHANGED <<rowVars, request, file, status, settings, queued, stalls, broken, history>>

TagsFor(run) == run.created \cup run.settings.tagIds

\* Mutant: the tags are attached to the contacts that are new.
AttachToFresh(w) ==
    /\ worker[w].step = "attach"
    /\ worker[w].settings.tagIds \subseteq tags
    /\ worker' = [worker EXCEPT ![w].step = "commit"]
    /\ UNCHANGED <<rowVars, request, file, status, settings, queued, stalls, broken, history>>

\* The tags are attached under the ids that the insert was given: those of rows
\* that were updated do not exist, and the foreign key fails the run.
AttachTags(w) ==
    /\ worker[w].step = "attach"
    /\ worker[w].settings.tagIds \subseteq tags
    /\ worker[w].fresh \/ TagsFor(worker[w]) = {}
    /\ worker' = [worker EXCEPT ![w].step = "commit"]
    /\ UNCHANGED <<rowVars, request, file, status, settings, queued, stalls, broken, history>>

\* An existing row keeps its attributes unless it is to be updated; then it has
\* those of the file alone.
Upserted(run, S) ==
    [e \in Emails |->
        IF e \in RowsOf(run.import) /\ (run.settings.update \/ e \notin contacts)
        THEN Columns ELSE S[e]]

CommitImport(w) ==
    LET run == worker[w]
        i   == run.import
    IN
    /\ run.step = "commit"
    /\ contacts' = contacts \cup RowsOf(i)
    /\ attributes' = Upserted(run, attributes)
    /\ latest' = Upserted(run, latest)
    /\ tags' = tags \cup run.created
    /\ used' = used \cup run.created
    /\ tagged' = tagged \cup (IF run.fresh THEN RowsOf(i) \X TagsFor(run) ELSE {})
    /\ status' = [status EXCEPT ![i] = "SUCCESS"]
    /\ worker' = [worker EXCEPT ![w] = NoImport]
    /\ Meets({q \in Of("update") : request[q].contact \in RowsOf(i)} \cup Of("list")
             \cup {q \in Of("create") : NameOf[request[q].tag] \in {NameOf[t] : t \in run.created}})
    /\ UNCHANGED <<request, file, settings, queued, stalls, broken, stale, detached>>

\* An error, and ROLLBACK.  The status stays: on its last attempt a job has made
\* none, and failed() is not called.
FailImport(w) ==
    /\ worker[w].import # None
    /\ worker' = [worker EXCEPT ![w] = NoImport]
    /\ broken' = broken \cup {worker[w].import}
    /\ UNCHANGED <<rowVars, request, file, status, settings, queued, stalls, history>>

\* The worker vanishes, its session is rolled back and the job handed out again.
StallImport(w) ==
    /\ worker[w].import # None
    /\ stalls < MaxStalls
    /\ stalls' = stalls + 1
    /\ queued' = [queued EXCEPT ![worker[w].import] = @ + 1]
    /\ worker' = [worker EXCEPT ![w] = NoImport]
    /\ UNCHANGED <<rowVars, request, file, status, settings, broken, history>>
-----------------------------------------------------------------------------
Contact(r) ==
    \/ \E e \in Emails, given \in SUBSET Attributes :
           StoreContact(r, e, given) \/ ReadContact(r, e, given)
    \/ \E e \in Emails, given \in SUBSET Tags \ {{}}, op \in {"attach", "detach"} :
           BeginTagging(r, op, e, given)
    \/ \E filter \in Filters \cup {None}, page \in {1, 2} : FindSegment(r, filter, page)
    \/ WriteContact(r) \/ FindTags(r) \/ InsertTags(r) \/ DetachTags(r)
    \/ CountRows(r) \/ SelectRows(r) \/ AnswerPage(r)

Tag(r) ==
    \/ \E t \in Tags : CheckTag(r, t) \/ FindTag(r, t)
    \/ InsertTag(r) \/ DeleteTag(r)

Import(r) ==
    \/ \E i \in Imports, given \in Payloads : ReadImport(r, i, given)
    \/ SaveSettings(r) \/ QueueImport(r)

Job(w) ==
    \/ \E i \in Imports : TakeImport(w, i)
    \/ FindImport(w) \/ CreateTags(w) \/ UpsertContacts(w) \/ AttachTags(w)
    \/ CommitImport(w) \/ FailImport(w) \/ StallImport(w)

Next ==
    \/ \E r \in Requests : Contact(r) \/ Tag(r) \/ Import(r) \/ LoseRequest(r)
    \/ \E i \in Imports : CreateImport(i)
    \/ \E w \in Workers : Job(w)

Spec == Init /\ [][Next]_vars
-----------------------------------------------------------------------------
\* A contact has the attributes that the answers to its writers promise, unless
\* an update wrote it whose row somebody else had written in between: the whole
\* row is written as it was read.
UpdatesKept ==
    \A e \in contacts : attributes[e] = latest[e] \/ e \in stale

\* A tag that an answered request attached is attached, unless it was detached
\* since the request looked at the tags of the contact.
AttachedStays ==
    \A r \in Requests : At(r, "attach", "done") =>
        \A t \in request[r].tags \ detached[r] : <<request[r].contact, t>> \in tagged

\* A tag that cannot be created, or attached, is answered as such, and with an
\* error of the database only if somebody got in between the check and the insert.
\* (Two errors of the data are abstracted away with the strings: a name that is
\* longer than its column, and the id of an attached tag in another case, which
\* the lookup misses and the unique key does not.)
ErrorNeedsOverlap ==
    \A r \in Requests : request[r].step = "failed" => r \in met

\* A page that nobody wrote beside is as long as it can be, and its total is the
\* number of contacts of the segment.
PageIsWhole ==
    \A r \in Requests : At(r, "list", "tags") /\ r \notin met =>
        LET rows == Matching(request[r].filter) IN
        /\ request[r].total = Cardinality(rows)
        /\ request[r].rows \subseteq rows
        /\ request[r].page = 1 /\ rows # {} => request[r].rows # {}
        /\ Cardinality(rows) <= request[r].page * PerPage =>
               Cardinality(rows \ request[r].rows) <= (request[r].page - 1) * PerPage

\* An import that is said to be processed is on its way, or a run of it failed,
\* or its job was never added.
ProcessingHasRun ==
    \A i \in Imports : status[i] = "PROCESSING" =>
        \/ queued[i] > 0
        \/ \E w \in Workers : worker[w].import = i
        \/ \E r \in Requests : At(r, "save", "saved") /\ request[r].import = i
        \/ i \in broken

\* An import becomes a success together with all of its contacts and of the tags
\* its settings ask for, unless they were saved again while it ran.
SuccessIsWhole ==
    [][\A i \in Imports :
          status[i] # "SUCCESS" /\ status'[i] = "SUCCESS" =>
              \/ \E w \in Workers : worker[w].import = i /\ worker[w].late
              \/ \A e \in RowsOf(i) :
                     /\ e \in contacts'
                     /\ \A t \in settings[i].tagIds : <<e, t>> \in tagged'
                     /\ \A n \in settings[i].tags :
                            \E t \in tags' : NameOf[t] = n /\ <<e, t>> \in tagged']_vars
=============================================================================
