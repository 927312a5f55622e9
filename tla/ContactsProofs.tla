--------------------------- MODULE ContactsProofs ---------------------------
(***************************************************************************)
(* Theorems about Contacts, for every audience, any number of requests,    *)
(* imports and workers, any segments, files, settings and page size.       *)
(***************************************************************************)
EXTENDS Contacts, FiniteSetTheorems, TLAPS

\* A record is of the kind that its operation says, and a worker that is not
\* idle has a run.
LEMMA Kinds ==
    ASSUME TypeOK, NEW r \in Requests
    PROVE  /\ request[r].op = "update" => request[r] \in Updates
           /\ request[r].op = "attach" => request[r] \in Attaches
           /\ request[r].op = "detach" => request[r] \in Detaches
           /\ request[r].op = "create" => request[r] \in Creates
           /\ request[r].op = "delete" => request[r] \in Deletes
           /\ request[r].op = "save"   => request[r] \in Saves
           /\ request[r].op = "list"   => request[r] \in Listings
<1>1. request[r] \in Records
  BY DEF TypeOK
<1>2. QED
  BY <1>1 DEF Records, Updates, Attaches, Detaches, Creates, Deletes, Saves, Listings,
              Idle, Answered, Lost

LEMMA WorkersRun ==
    ASSUME TypeOK, NEW w \in Workers
    PROVE  /\ worker[w] \in Runs \cup {NoImport}
           /\ worker[w].step # "idle" => worker[w] \in Runs
           /\ worker[w].import # None => worker[w] \in Runs
           /\ worker[w] = NoImport <=> worker[w].step = "idle"
           /\ worker[w].created \subseteq Tags
<1>1. worker[w] \in Runs \cup {NoImport}
  BY DEF TypeOK
<1>2. NoImport.import = None /\ NoImport.step = "idle" /\ NoImport.created = {}
  BY DEF NoImport
<1>3. \A run \in Runs : run.import # None /\ run.step # "idle" /\ run.created \subseteq Tags
  BY ContactsAssumption DEF Runs
<1>4. QED
  BY <1>1, <1>2, <1>3

\* The rows of a file are finitely many emails.
LEMMA FileRows ==
    ASSUME TypeOK, NEW i \in Imports
    PROVE  /\ RowsOf(i) \subseteq Emails
           /\ IsFiniteSet(RowsOf(i))
<1>1. file[i] \in Seq(Emails)
  <2>1. file[i] \in Files \cup {<<>>}
    BY DEF TypeOK
  <2>2. Files \subseteq Seq(Emails) /\ <<>> \in Seq(Emails)
    BY ContactsAssumption
  <2>3. QED
    BY <2>1, <2>2
<1>2. DOMAIN file[i] = 1 .. Len(file[i]) /\ Len(file[i]) \in Nat
  BY <1>1
<1>3. \A k \in DOMAIN file[i] : file[i][k] \in Emails
  BY <1>1, <1>2
<1>4. IsFiniteSet(DOMAIN file[i])
  <2>1. IsFiniteSet(1 .. Len(file[i]))
    BY <1>2, FS_Interval
  <2>2. QED
    BY <1>2, <2>1
<1>5. file[i] \in Surjection(DOMAIN file[i], RowsOf(i))
  <2>1. file[i] \in [DOMAIN file[i] -> RowsOf(i)]
    BY <1>1, <1>2 DEF RowsOf, Range
  <2>2. QED
    BY <2>1 DEF Surjection, RowsOf, Range
<1>6. QED
  BY <1>3, <1>4, <1>5, FS_Surjection DEF RowsOf, Range
-----------------------------------------------------------------------------
(***************************************************************************)
(* The inductive invariants.                                               *)
(***************************************************************************)
OnRows(w) == worker[w].step \in {"attach", "commit"}

\* The contacts, imports and files that a request or a job refers to exist.
BoundInv ==
    /\ IsFiniteSet(contacts)
    /\ \A r \in Requests :
           /\ request[r].op \in {"update", "attach", "detach"} => request[r].contact \in contacts
           /\ request[r].op = "save" => status[request[r].import] # "none"
    /\ \A i \in Imports : queued[i] > 0 => status[i] # "none"
    /\ \A w \in Workers : worker[w].import # None => status[worker[w].import] # "none"

\* A run has the settings of its import, unless they were saved again.
SettingsRead(w) ==
    worker[w].step \in {"tags", "contacts", "attach", "commit"} /\ ~worker[w].late =>
        worker[w].settings = settings[worker[w].import]

\* It has created a tag for each name that it was asked for.
NamesGiven(w) ==
    worker[w].step \in {"contacts", "attach", "commit"} =>
        {NameOf[t] : t \in worker[w].created} = worker[w].settings.tags

\* The rows that it inserted are nobody else's,
RowsNew(w) ==
    OnRows(w) /\ worker[w].fresh => RowsOf(worker[w].import) \cap contacts = {}

Apart(v, w) ==
    OnRows(v) /\ OnRows(w) => RowsOf(worker[v].import) \cap RowsOf(worker[w].import) = {}

\* and the tags that it attaches to them are there.
Ready(w) ==
    worker[w].step = "commit" => /\ worker[w].settings.tagIds \subseteq tags
                                 /\ worker[w].fresh \/ TagsFor(worker[w]) = {}

RunInv ==
    \A w \in Workers :
        /\ SettingsRead(w) /\ NamesGiven(w) /\ RowsNew(w) /\ Ready(w)
        /\ \A v \in Workers \ {w} : Apart(v, w)

LEMMA InvInit == Init => TypeOK /\ BoundInv /\ RunInv
<1> SUFFICES ASSUME Init PROVE TypeOK /\ BoundInv /\ RunInv
  OBVIOUS
<1>1. Unset \in Settings
  BY DEF Unset, Settings
<1>2. TypeOK
  <2>1. request \in [Requests -> Records]
    BY DEF Init, Records
  <2>2. /\ contacts \subseteq Emails /\ tags \subseteq used /\ used \subseteq Tags
        /\ tagged \subseteq contacts \X tags /\ stalls \in 0 .. MaxStalls
    BY ContactsAssumption DEF Init
  <2>3. QED
    BY <1>1, <2>1, <2>2 DEF Init, TypeOK
<1>3. BoundInv
  BY ContactsAssumption DEF Init, BoundInv, Idle, NoImport
<1>4. RunInv
  BY DEF Init, RunInv, NoImport, OnRows, SettingsRead, NamesGiven, RowsNew, Apart, Ready
<1>5. QED
  BY <1>2, <1>3, <1>4
-----------------------------------------------------------------------------
(***************************************************************************)
(* Types.                                                                  *)
(***************************************************************************)
\* A request that moves to another step of its operation keeps its type.
LEMMA Moved ==
    ASSUME TypeOK, NEW r \in Requests, NEW record \in Records,
           request' = [request EXCEPT ![r] = record]
    PROVE  request' \in [Requests -> Records]
  BY DEF TypeOK

LEMMA NewRecords ==
    /\ {Idle, Answered, Lost} \subseteq Records
    /\ Updates \subseteq Records /\ Attaches \subseteq Records /\ Detaches \subseteq Records
    /\ Creates \subseteq Records /\ Deletes \subseteq Records
    /\ Saves \subseteq Records /\ Listings \subseteq Records
  BY DEF Records

\* The statements of a request that write rows.
LEMMA TypeOfWrites ==
    ASSUME TypeOK, BoundInv, NEW r \in Requests,
           \/ \E e \in Emails, given \in SUBSET Attributes : StoreContact(r, e, given)
           \/ WriteContact(r) \/ InsertTags(r) \/ DetachTags(r) \/ InsertTag(r) \/ DeleteTag(r)
    PROVE  TypeOK'
<1> USE NewRecords, Kinds
<1>1. ASSUME NEW e \in Emails, NEW given \in SUBSET Attributes, StoreContact(r, e, given)
      PROVE  TypeOK'
  BY <1>1 DEF StoreContact, Answer, Meets, Of, UnderWay, TypeOK, importVars
<1>2. CASE WriteContact(r)
  <2>1. request[r] \in Updates
    BY <1>2 DEF WriteContact, At
  <2>2. request[r].contact \in Emails /\ request[r].attributes \in SUBSET Attributes
        /\ request[r].seen \in SUBSET Attributes
    BY <2>1 DEF Updates
  <2>3. QED
    BY <1>2, <2>2 DEF WriteContact, Answer, Meets, Of, UnderWay, TypeOK, importVars
<1>3. CASE InsertTags(r)
  <2>1. request[r] \in Attaches /\ request[r].contact \in contacts
    BY <1>3 DEF InsertTags, At, BoundInv
  <2>2. /\ [request[r] EXCEPT !.step = "done"] \in Attaches
        /\ [request[r] EXCEPT !.step = "failed"] \in Attaches
    BY <2>1 DEF Attaches
  <2>3. request' \in [Requests -> Records]
    BY <1>3, <2>2 DEF InsertTags, To, TypeOK
  <2>4. tagged' \subseteq contacts' \X tags'
    BY <1>3, <2>1 DEF InsertTags, TypeOK
  <2>5. QED
    BY <1>3, <2>3, <2>4 DEF InsertTags, Meets, Of, UnderWay, TypeOK, importVars
<1>4. CASE DetachTags(r)
  <2>1. request[r] \in Detaches
    BY <1>4 DEF DetachTags, At
  <2>2. request[r].tags \in SUBSET Tags
    BY <2>1 DEF Detaches
  <2>3. detached' \in [Requests -> SUBSET Tags]
    BY <1>4, <2>2 DEF DetachTags, TypeOK
  <2>4. QED
    BY <1>4, <2>3 DEF DetachTags, Answer, Meets, Of, UnderWay, TypeOK, importVars
<1>5. CASE InsertTag(r)
  <2>1. request[r] \in Creates
    BY <1>5 DEF InsertTag, At
  <2>2. [request[r] EXCEPT !.step = "failed"] \in Creates /\ request[r].tag \in Tags
    BY <2>1 DEF Creates
  <2>3. request' \in [Requests -> Records]
    BY <1>5, <2>2 DEF InsertTag, To, Answer, TypeOK
  <2>4. QED
    BY <1>5, <2>2, <2>3 DEF InsertTag, Meets, Of, UnderWay, TypeOK, importVars
<1>6. CASE DeleteTag(r)
  <2>1. tagged' \subseteq contacts' \X tags'
    <3>1. tagged \subseteq contacts \X tags
      BY DEF TypeOK
    <3>2. ASSUME NEW e \in contacts, NEW t \in tags, <<e, t>> \in tagged PROVE t \in tags'
      BY <1>6, <3>2 DEF DeleteTag
    <3>3. tagged' = tagged /\ contacts' = contacts
      BY <1>6 DEF DeleteTag
    <3>4. QED
      BY <3>1, <3>2, <3>3
  <2>2. QED
    BY <1>6, <2>1 DEF DeleteTag, Answer, Meets, Of, UnderWay, TypeOK, importVars
<1>7. QED
  BY <1>1, <1>2, <1>3, <1>4, <1>5, <1>6

\* A new request has the record of its operation.
LEMMA TypeOfBegin ==
    ASSUME TypeOK, NEW r \in Requests, NEW record \in Records, Begin(r, record)
    PROVE  TypeOK'
  BY Moved DEF Begin, TypeOK, rowVars, importVars, history

\* The steps of a request that write no row.
LEMMA TypeOfSteps ==
    ASSUME TypeOK, BoundInv, NEW r \in Requests,
           \/ FindTags(r) \/ CountRows(r) \/ SelectRows(r) \/ AnswerPage(r)
           \/ SaveSettings(r) \/ QueueImport(r) \/ LoseRequest(r)
    PROVE  TypeOK'
<1> USE NewRecords, Kinds
<1>1. CASE FindTags(r)
  <2>1. request[r] \in Attaches
    BY <1>1 DEF FindTags, At
  <2>2. [request[r] EXCEPT !.step = "found",
                           !.found = {t \in Tags : <<request[r].contact, t>> \in tagged}] \in Attaches
    BY <2>1 DEF Attaches
  <2>3. request' \in [Requests -> Records]
    BY <1>1, <2>2 DEF FindTags, TypeOK
  <2>4. QED
    BY <1>1, <2>3 DEF FindTags, TypeOK, rowVars, importVars, history
<1>2. CASE CountRows(r)
  <2>1. request[r] \in Listings
    BY <1>2 DEF CountRows, At
  <2>2. Cardinality(Matching(request[r].filter)) \in Nat
    BY FS_Subset, FS_CardinalityType DEF Matching, BoundInv
  <2>3. [request[r] EXCEPT !.step = "select",
                           !.total = Cardinality(Matching(request[r].filter))] \in Listings
    BY <2>1, <2>2 DEF Listings
  <2>4. request' \in [Requests -> Records]
    BY <1>2, <2>3 DEF CountRows, TypeOK
  <2>5. QED
    BY <1>2, <2>4 DEF CountRows, TypeOK, rowVars, importVars, history
<1>3. CASE SelectRows(r)
  <2>1. request[r] \in Listings
    BY <1>3 DEF SelectRows, At
  <2>2. PICK S \in SUBSET Matching(request[r].filter) :
            request' = [request EXCEPT ![r].step = "tags", ![r].rows = S]
    BY <1>3 DEF SelectRows
  <2>3. S \in SUBSET Emails
    BY DEF Matching, TypeOK
  <2>4. [request[r] EXCEPT !.step = "tags", !.rows = S] \in Listings
    BY <2>1, <2>3 DEF Listings
  <2>5. request' \in [Requests -> Records]
    BY <2>2, <2>4 DEF TypeOK
  <2>6. QED
    BY <1>3, <2>5 DEF SelectRows, TypeOK, rowVars, importVars, history
<1>4. CASE AnswerPage(r)
  BY <1>4 DEF AnswerPage, Answer, TypeOK, rowVars, importVars, history
<1>5. CASE SaveSettings(r)
  <2>1. request[r] \in Saves
    BY <1>5 DEF SaveSettings, At
  <2>2. /\ request[r].import \in Imports /\ request[r].settings \in Settings
        /\ [request[r] EXCEPT !.step = "saved"] \in Saves
    BY <2>1 DEF Saves
  <2>3. request' \in [Requests -> Records]
    BY <1>5, <2>2 DEF SaveSettings, To, TypeOK
  <2>4. worker' \in [Workers -> Runs \cup {NoImport}]
    <3>1. \A w \in Workers : worker[w].import = request[r].import => worker[w] \in Runs
      BY <2>2, WorkersRun, ContactsAssumption
    <3>2. \A run \in Runs : [run EXCEPT !.late = TRUE] \in Runs
      BY DEF Runs
    <3>3. QED
      BY <1>5, <3>1, <3>2 DEF SaveSettings, TypeOK
  <2>5. QED
    BY <1>5, <2>2, <2>3, <2>4 DEF SaveSettings, TypeOK, rowVars, history
<1>6. CASE QueueImport(r)
  <2>1. request[r] \in Saves
    BY <1>6 DEF QueueImport, At
  <2>2. request[r].import \in Imports
    BY <2>1 DEF Saves
  <2>3. QED
    BY <1>6, <2>2 DEF QueueImport, Answer, TypeOK, rowVars, history
<1>7. CASE LoseRequest(r)
  <2>1. At(r, "save", "saved") => request[r].import \in Imports
    BY DEF At, Saves
  <2>2. QED
    BY <1>7, <2>1 DEF LoseRequest, TypeOK, rowVars, history
<1>8. QED
  BY <1>1, <1>2, <1>3, <1>4, <1>5, <1>6, <1>7

\* The steps of a job.
LEMMA TypeOfJobs ==
    ASSUME TypeOK, RunInv, NEW w \in Workers, Job(w)
    PROVE  TypeOK'
<1>1. ASSUME NEW i \in Imports, TakeImport(w, i) PROVE TypeOK'
  <2>1. [NoImport EXCEPT !.import = i, !.step = "find"] \in Runs
    BY DEF NoImport, Runs, Unset, Settings
  <2>2. queued[i] - 1 \in Nat
    BY <1>1 DEF TakeImport, TypeOK
  <2>3. QED
    BY <1>1, <2>1, <2>2 DEF TakeImport, TypeOK, rowVars, history
<1>2. CASE FindImport(w)
  <2>1. worker[w] \in Runs
    BY <1>2, WorkersRun DEF FindImport
  <2>2. settings[worker[w].import] \in Settings
    BY <2>1 DEF Runs, TypeOK
  <2>3. [worker[w] EXCEPT !.step = "tags", !.settings = settings[worker[w].import]] \in Runs
    BY <2>1, <2>2 DEF Runs
  <2>4. worker' \in [Workers -> Runs \cup {NoImport}]
    BY <1>2, <2>3 DEF FindImport, TypeOK
  <2>5. QED
    BY <1>2, <2>4 DEF FindImport, TypeOK, rowVars, history
<1>3. CASE CreateTags(w)
  <2>1. worker[w] \in Runs
    BY <1>3, WorkersRun DEF CreateTags
  <2>2. PICK new \in SUBSET Fresh :
            worker' = [worker EXCEPT ![w].step = "contacts", ![w].created = new]
    BY <1>3 DEF CreateTags
  <2>3. new \in SUBSET Tags
    BY DEF Fresh
  <2>4. [worker[w] EXCEPT !.step = "contacts", !.created = new] \in Runs
    BY <2>1, <2>3 DEF Runs
  <2>5. worker' \in [Workers -> Runs \cup {NoImport}]
    BY <2>2, <2>4 DEF TypeOK
  <2>6. QED
    BY <1>3, <2>5 DEF CreateTags, TypeOK, rowVars, history
<1>4. CASE UpsertContacts(w)
  <2>1. worker[w] \in Runs
    BY <1>4, WorkersRun DEF UpsertContacts
  <2>2. PICK fresh \in BOOLEAN :
            worker' = [worker EXCEPT ![w].step = "attach", ![w].fresh = fresh]
    BY <1>4 DEF UpsertContacts
  <2>3. [worker[w] EXCEPT !.step = "attach", !.fresh = fresh] \in Runs
    BY <2>1 DEF Runs
  <2>4. worker' \in [Workers -> Runs \cup {NoImport}]
    BY <2>2, <2>3 DEF TypeOK
  <2>5. QED
    BY <1>4, <2>4 DEF UpsertContacts, TypeOK, rowVars, history
<1>5. CASE AttachTags(w)
  <2>1. worker[w] \in Runs
    BY <1>5, WorkersRun DEF AttachTags
  <2>2. [worker[w] EXCEPT !.step = "commit"] \in Runs
    BY <2>1 DEF Runs
  <2>3. worker' \in [Workers -> Runs \cup {NoImport}]
    BY <1>5, <2>2 DEF AttachTags, TypeOK
  <2>4. QED
    BY <1>5, <2>3 DEF AttachTags, TypeOK, rowVars, history
<1>6. CASE CommitImport(w)
  <2> DEFINE run == worker[w]
             i   == run.import
  <2>1. run \in Runs
    BY <1>6, WorkersRun DEF CommitImport
  <2>2. /\ i \in Imports /\ run.created \subseteq Tags
        /\ RowsOf(i) \subseteq Emails
    BY <2>1, FileRows DEF Runs
  <2>3. /\ contacts' \subseteq Emails
        /\ tags' \subseteq used' /\ used' \subseteq Tags
    BY <1>6, <2>2 DEF CommitImport, TypeOK
  <2>4. \A S \in [Emails -> SUBSET Attributes] : Upserted(run, S) \in [Emails -> SUBSET Attributes]
    BY ContactsAssumption DEF Upserted
  <2>5. attributes' \in [Emails -> SUBSET Attributes] /\ latest' \in [Emails -> SUBSET Attributes]
    BY <1>6, <2>4 DEF CommitImport, TypeOK
  <2>6. tagged' \subseteq contacts' \X tags'
    <3>1. TagsFor(run) \subseteq tags'
      BY <1>6 DEF TagsFor, CommitImport, RunInv, Ready
    <3>2. RowsOf(i) \subseteq contacts' /\ contacts \subseteq contacts' /\ tags \subseteq tags'
      BY <1>6 DEF CommitImport
    <3>3. tagged' \subseteq tagged \cup (RowsOf(i) \X TagsFor(run))
      BY <1>6 DEF CommitImport
    <3>4. tagged \subseteq contacts \X tags
      BY DEF TypeOK
    <3>5. QED
      BY <3>1, <3>2, <3>3, <3>4
  <2>7. /\ status' \in [Imports -> {"none", "PENDING", "PROCESSING", "SUCCESS"}]
        /\ worker' \in [Workers -> Runs \cup {NoImport}]
        /\ met' \subseteq Requests
    BY <1>6, <2>2 DEF CommitImport, TypeOK, Meets, Of
  <2>8. QED
    BY <1>6, <2>3, <2>5, <2>6, <2>7 DEF CommitImport, TypeOK
<1>7. CASE FailImport(w)
  BY <1>7, WorkersRun DEF FailImport, TypeOK, Runs, rowVars, history
<1>8. CASE StallImport(w)
  <2>1. worker[w] \in Runs
    BY <1>8, WorkersRun DEF StallImport
  <2>2. worker[w].import \in Imports
    BY <2>1 DEF Runs
  <2>3. stalls' \in 0 .. MaxStalls
    BY <1>8, ContactsAssumption DEF StallImport, TypeOK
  <2>4. queued' \in [Imports -> Nat]
    BY <1>8, <2>2 DEF StallImport, TypeOK
  <2>5. QED
    BY <1>8, <2>3, <2>4 DEF StallImport, TypeOK, rowVars, history
<1>9. QED
  BY <1>1, <1>2, <1>3, <1>4, <1>5, <1>6, <1>7, <1>8 DEF Job

\* What Next is made of.
LEMMA Steps ==
    ASSUME [Next]_vars
    PROVE  \/ \E r \in Requests :
                  \/ \E e \in Emails, given \in SUBSET Attributes :
                         StoreContact(r, e, given) \/ ReadContact(r, e, given)
                  \/ \E e \in Emails, given \in SUBSET Tags, op \in {"attach", "detach"} :
                         BeginTagging(r, op, e, given)
                  \/ \E filter \in Filters \cup {None}, page \in {1, 2} : FindSegment(r, filter, page)
                  \/ \E t \in Tags : CheckTag(r, t) \/ FindTag(r, t)
                  \/ \E i \in Imports, given \in Payloads : ReadImport(r, i, given)
                  \/ WriteContact(r) \/ InsertTags(r) \/ DetachTags(r)
                  \/ InsertTag(r) \/ DeleteTag(r)
                  \/ FindTags(r) \/ CountRows(r) \/ SelectRows(r) \/ AnswerPage(r)
                  \/ SaveSettings(r) \/ QueueImport(r) \/ LoseRequest(r)
           \/ \E i \in Imports : CreateImport(i)
           \/ \E w \in Workers : Job(w)
           \/ UNCHANGED vars
<1>1. CASE \E r \in Requests : Contact(r) \/ Tag(r) \/ Import(r) \/ LoseRequest(r)
  <2>1. PICK r \in Requests : Contact(r) \/ Tag(r) \/ Import(r) \/ LoseRequest(r)
    BY <1>1
  <2>2. CASE Contact(r)
    BY <2>2 DEF Contact
  <2>3. CASE Tag(r)
    BY <2>3 DEF Tag
  <2>4. CASE Import(r)
    BY <2>4 DEF Import
  <2>5. QED
    BY <2>1, <2>2, <2>3, <2>4
<1>2. QED
  BY <1>1 DEF Next

LEMMA NewTypes ==
    ASSUME TypeOK
    PROVE  /\ \A e \in Emails, given \in SUBSET Attributes :
                  [op |-> "update", step |-> "read", contact |-> e,
                   attributes |-> given, seen |-> attributes[e]] \in Records
           /\ \A e \in Emails, given \in SUBSET Tags :
                  /\ [op |-> "attach", step |-> "valid", contact |-> e,
                      tags |-> given, found |-> {}] \in Records
                  /\ [op |-> "detach", step |-> "valid", contact |-> e, tags |-> given] \in Records
           /\ \A filter \in Filters \cup {None}, page \in {1, 2} :
                  [op |-> "list", step |-> "count", filter |-> filter, page |-> page,
                   total |-> 0, rows |-> {}] \in Records
           /\ \A t \in Tags :
                  /\ [op |-> "create", step |-> "checked", tag |-> t] \in Records
                  /\ [op |-> "delete", step |-> "found", tag |-> t] \in Records
           /\ \A i \in Imports, given \in Payloads :
                  [op |-> "save", step |-> "valid", import |-> i, settings |-> given] \in Records
<1>1. Payloads \subseteq Settings
  BY ContactsAssumption DEF Settings
<1>2. \A e \in Emails : attributes[e] \in SUBSET Attributes
  BY DEF TypeOK
<1>3. QED
  BY <1>1, <1>2 DEF Records, Updates, Attaches, Detaches, Creates, Deletes, Saves, Listings

LEMMA TypeStep == TypeOK /\ BoundInv /\ RunInv /\ [Next]_vars => TypeOK'
<1> SUFFICES ASSUME TypeOK, BoundInv, RunInv, [Next]_vars PROVE TypeOK'
  OBVIOUS
<1> USE NewTypes, TypeOfBegin
<1>1. ASSUME NEW r \in Requests, NEW e \in Emails, NEW given \in SUBSET Attributes,
             ReadContact(r, e, given)
      PROVE  TypeOK'
  BY <1>1 DEF ReadContact
<1>2. ASSUME NEW r \in Requests, NEW e \in Emails, NEW given \in SUBSET Tags,
             NEW op \in {"attach", "detach"}, BeginTagging(r, op, e, given)
      PROVE  TypeOK'
  BY <1>2 DEF BeginTagging
<1>3. ASSUME NEW r \in Requests, NEW filter \in Filters \cup {None}, NEW page \in {1, 2},
             FindSegment(r, filter, page)
      PROVE  TypeOK'
  BY <1>3 DEF FindSegment
<1>4. ASSUME NEW r \in Requests, NEW t \in Tags, CheckTag(r, t) \/ FindTag(r, t)
      PROVE  TypeOK'
  BY <1>4 DEF CheckTag, FindTag
<1>5. ASSUME NEW r \in Requests, NEW i \in Imports, NEW given \in Payloads,
             ReadImport(r, i, given)
      PROVE  TypeOK'
  BY <1>5 DEF ReadImport
<1>6. ASSUME NEW i \in Imports, CreateImport(i) PROVE TypeOK'
  BY <1>6 DEF CreateImport, TypeOK, rowVars, history
<1>7. CASE UNCHANGED vars
  BY <1>7 DEF TypeOK, vars, rowVars, importVars, history
<1>8. QED
  BY <1>1, <1>2, <1>3, <1>4, <1>5, <1>6, <1>7, Steps, TypeOfWrites, TypeOfSteps, TypeOfJobs
-----------------------------------------------------------------------------
(***************************************************************************)
(* What one step does to a request, to the rows and to an import.          *)
(***************************************************************************)
\* A request that goes on is about what it was about.
SameRequest(new, old) ==
    /\ new.op = old.op
    /\ old.op \in {"update", "attach", "detach"} => new.contact = old.contact
    /\ old.op = "update" => new.seen = old.seen
    /\ old.op = "attach" => new.tags = old.tags
    /\ old.op = "create" => new.tag = old.tag
    /\ old.op = "save" => new.import = old.import
    /\ old.op = "list" => new.filter = old.filter /\ new.page = old.page

\* A step of an operation changes the record of the request that takes it, and
\* no field that says what it is about.
LEMMA GoesOn ==
    ASSUME TypeOK, [Next]_vars, NEW r \in Requests, request[r] # Idle
    PROVE  request'[r] \in {Answered, Lost} \/ SameRequest(request'[r], request[r])
<1> DEFINE Goal == request'[r] \in {Answered, Lost} \/ SameRequest(request'[r], request[r])
<1> USE Kinds
<1>1. ASSUME request'[r] = request[r] PROVE Goal
  BY <1>1 DEF SameRequest
<1>2. ASSUME NEW q \in Requests, NEW record, request[q] = Idle,
             request' = [request EXCEPT ![q] = record]
      PROVE  Goal
  BY <1>1, <1>2 DEF TypeOK
<1>3. ASSUME NEW q \in Requests, request' = [request EXCEPT ![q] = Answered] PROVE Goal
  BY <1>1, <1>3 DEF TypeOK
<1>4. ASSUME NEW q \in Requests, NEW step, To(q, step) PROVE Goal
  <2>1. CASE q = r
    <3>1. request'[r] = [request[r] EXCEPT !.step = step]
      BY <1>4, <2>1 DEF To, TypeOK
    <3>2. CASE request[r].op = "none"
      <4>1. request[r] \in {Answered, Lost}
        BY <3>2 DEF TypeOK, Records, Updates, Attaches, Detaches, Creates, Deletes, Saves, Listings
      <4>2. QED
        BY <3>1, <4>1 DEF SameRequest, Answered, Lost
    <3>3. QED
      BY <3>1, <3>2 DEF SameRequest, Updates, Attaches, Detaches, Creates, Saves, Listings,
                        Deletes, TypeOK, Records, Idle, Answered, Lost
  <2>2. QED
    BY <1>1, <1>4, <2>1 DEF To, TypeOK
<1>5. ASSUME NEW q \in Requests, NEW e \in Emails, NEW given \in SUBSET Attributes,
             StoreContact(q, e, given) \/ ReadContact(q, e, given)
      PROVE  Goal
  BY <1>2, <1>3, <1>5 DEF StoreContact, ReadContact, Begin, Answer
<1>6. ASSUME NEW q \in Requests, NEW e \in Emails, NEW given \in SUBSET Tags,
             NEW op \in {"attach", "detach"}, BeginTagging(q, op, e, given)
      PROVE  Goal
  BY <1>2, <1>6 DEF BeginTagging, Begin
<1>7. ASSUME NEW q \in Requests, NEW filter \in Filters \cup {None}, NEW page \in {1, 2},
             FindSegment(q, filter, page)
      PROVE  Goal
  BY <1>2, <1>7 DEF FindSegment, Begin
<1>8. ASSUME NEW q \in Requests, NEW t \in Tags, CheckTag(q, t) \/ FindTag(q, t) PROVE Goal
  BY <1>2, <1>8 DEF CheckTag, FindTag, Begin
<1>9. ASSUME NEW q \in Requests, NEW i \in Imports, NEW given \in Payloads,
             ReadImport(q, i, given)
      PROVE  Goal
  BY <1>2, <1>9 DEF ReadImport, Begin
<1>10. ASSUME NEW q \in Requests,
              \/ WriteContact(q) \/ DetachTags(q) \/ DeleteTag(q) \/ AnswerPage(q) \/ QueueImport(q)
       PROVE  Goal
  BY <1>3, <1>10 DEF WriteContact, DetachTags, DeleteTag, AnswerPage, QueueImport, Answer
<1>11. ASSUME NEW q \in Requests, InsertTags(q) \/ InsertTag(q) \/ SaveSettings(q) PROVE Goal
  BY <1>3, <1>4, <1>11 DEF InsertTags, InsertTag, SaveSettings, Answer
<1>12. ASSUME NEW q \in Requests, FindTags(q) PROVE Goal
  <2>1. q # r => request'[r] = request[r]
    BY <1>12 DEF FindTags, TypeOK
  <2>2. q = r => request[r] \in Attaches
    BY <1>12 DEF FindTags, At
  <2>3. QED
    BY <1>1, <1>12, <2>1, <2>2 DEF FindTags, SameRequest, Attaches, TypeOK
<1>13. ASSUME NEW q \in Requests, CountRows(q) \/ SelectRows(q) PROVE Goal
  <2>1. q # r => request'[r] = request[r]
    BY <1>13 DEF CountRows, SelectRows, TypeOK
  <2>2. q = r => request[r] \in Listings
    BY <1>13 DEF CountRows, SelectRows, At
  <2>3. QED
    BY <1>1, <1>13, <2>1, <2>2 DEF CountRows, SelectRows, SameRequest, Listings, TypeOK
<1>14. ASSUME NEW q \in Requests, LoseRequest(q) PROVE Goal
  BY <1>1, <1>14 DEF LoseRequest, TypeOK
<1>15. ASSUME NEW i \in Imports, CreateImport(i) PROVE Goal
  BY <1>1, <1>15 DEF CreateImport
<1>16. ASSUME NEW w \in Workers, Job(w) PROVE Goal
  BY <1>1, <1>16 DEF Job, TakeImport, FindImport, CreateTags, UpsertContacts, AttachTags,
                     CommitImport, FailImport, StallImport
<1>17. CASE UNCHANGED vars
  BY <1>1, <1>17 DEF vars
<1>18. QED
  BY <1>5, <1>6, <1>7, <1>8, <1>9, <1>10, <1>11, <1>12, <1>13, <1>14, <1>15, <1>16, <1>17, Steps

\* How an idle request begins: nothing but its own record changes.
Begun(r) ==
    LET new == request'[r] IN
    /\ UNCHANGED <<rowVars, importVars, history>>
    /\ new.step # "failed"
    /\ new.op \in {"update", "attach", "detach"} => new.contact \in contacts
    /\ new.op = "update" => new.seen = attributes[new.contact]
    /\ new.op = "attach" => new.step = "valid" /\ new.tags \subseteq tags
    /\ new.op = "create" => NameIsFree(new.tag)
    /\ new.op = "save" => new.step = "valid" /\ status[new.import] # "none"
    /\ new.op = "list" => new.step = "count"

\* A request that begins has changed nothing but its own record.
LEMMA Begins ==
    ASSUME TypeOK, [Next]_vars, NEW r \in Requests,
           request[r] = Idle, request'[r] \notin {Idle, Answered, Lost}
    PROVE  Begun(r)
<1> USE DEF TypeOK
<1>1. request'[r] # request[r]
  OBVIOUS
<1>2. request[r].op = "none" /\ request[r].step = "idle"
  BY DEF Idle
<1>3. ASSUME NEW e \in Emails, NEW given \in SUBSET Attributes, NEW q \in Requests,
             StoreContact(q, e, given)
      PROVE  FALSE
  BY <1>1, <1>3 DEF StoreContact, Answer
<1>4. ASSUME NEW e \in Emails, NEW given \in SUBSET Attributes, NEW q \in Requests,
             ReadContact(q, e, given)
      PROVE  Begun(r)
  <2>1. /\ UNCHANGED <<rowVars, importVars, history>>
        /\ \E f \in contacts, new \in SUBSET Attributes :
                   request'[r] = [op |-> "update", step |-> "read", contact |-> f,
                                  attributes |-> new, seen |-> attributes[f]]
    BY <1>1, <1>4 DEF ReadContact, Begin
  <2>2. QED
    BY <2>1 DEF Begun
<1>5. ASSUME NEW q \in Requests, NEW e \in Emails, NEW given \in SUBSET Tags,
             NEW op \in {"attach", "detach"}, BeginTagging(q, op, e, given)
      PROVE  Begun(r)
  <2>1. /\ UNCHANGED <<rowVars, importVars, history>>
        /\ \E f \in contacts, new \in SUBSET tags :
                   \/ request'[r] = [op |-> "attach", step |-> "valid", contact |-> f,
                                     tags |-> new, found |-> {}]
                   \/ request'[r] = [op |-> "detach", step |-> "valid", contact |-> f,
                                     tags |-> new]
    BY <1>1, <1>5 DEF BeginTagging, Begin
  <2>2. QED
    BY <2>1 DEF Begun
<1>6. ASSUME NEW q \in Requests, NEW filter \in Filters \cup {None}, NEW page \in {1, 2},
             FindSegment(q, filter, page)
      PROVE  Begun(r)
  <2>1. /\ UNCHANGED <<rowVars, importVars, history>>
        /\ request'[r] = [op |-> "list", step |-> "count", filter |-> filter,
                             page |-> page, total |-> 0, rows |-> {}]
    BY <1>1, <1>6 DEF FindSegment, Begin
  <2>2. QED
    BY <2>1 DEF Begun
<1>7. ASSUME NEW q \in Requests, NEW t \in Tags, CheckTag(q, t)
      PROVE  Begun(r)
  <2>1. /\ UNCHANGED <<rowVars, importVars, history>> /\ NameIsFree(t)
        /\ request'[r] = [op |-> "create", step |-> "checked", tag |-> t]
    BY <1>1, <1>7 DEF CheckTag, Begin
  <2>2. QED
    BY <2>1 DEF Begun
<1>8. ASSUME NEW q \in Requests, NEW t \in Tags, FindTag(q, t)
      PROVE  Begun(r)
  <2>1. /\ UNCHANGED <<rowVars, importVars, history>>
        /\ request'[r] = [op |-> "delete", step |-> "found", tag |-> t]
    BY <1>1, <1>8 DEF FindTag, Begin
  <2>2. QED
    BY <2>1 DEF Begun
<1>9. ASSUME NEW q \in Requests, NEW i \in Imports, NEW given \in Payloads,
             ReadImport(q, i, given)
      PROVE  Begun(r)
  <2>1. /\ UNCHANGED <<rowVars, importVars, history>> /\ status[i] # "none"
        /\ request'[r] = [op |-> "save", step |-> "valid", import |-> i,
                             settings |-> given]
    BY <1>1, <1>9 DEF ReadImport, Begin
  <2>2. QED
    BY <2>1 DEF Begun
<1>10. ASSUME NEW q \in Requests,
              \/ WriteContact(q) \/ InsertTags(q) \/ DetachTags(q) \/ InsertTag(q) \/ DeleteTag(q)
              \/ FindTags(q) \/ CountRows(q) \/ SelectRows(q) \/ AnswerPage(q)
              \/ SaveSettings(q) \/ QueueImport(q) \/ LoseRequest(q)
       PROVE  FALSE
  <2>1. q # r
    BY <1>2, <1>10 DEF WriteContact, InsertTags, DetachTags, InsertTag, DeleteTag, FindTags,
        CountRows, SelectRows, AnswerPage, SaveSettings, QueueImport, LoseRequest, At, UnderWay
  <2>2. QED
    BY <1>1, <1>10, <2>1 DEF WriteContact, InsertTags, DetachTags, InsertTag, DeleteTag, FindTags,
        CountRows, SelectRows, AnswerPage, SaveSettings, QueueImport, LoseRequest, Answer, To
<1>11. ASSUME NEW i \in Imports, CreateImport(i) PROVE FALSE
  BY <1>1, <1>11 DEF CreateImport
<1>12. ASSUME NEW w \in Workers, Job(w) PROVE FALSE
  BY <1>1, <1>12 DEF Job, TakeImport, FindImport, CreateTags, UpsertContacts, AttachTags,
                     CommitImport, FailImport, StallImport
<1>13. CASE UNCHANGED vars
  BY <1>1, <1>13 DEF vars
<1>14. QED
  BY <1>3, <1>4, <1>5, <1>6, <1>7, <1>8, <1>9, <1>10, <1>11, <1>12, <1>13, Steps

\* The steps of a run that neither begin nor end it.
RunStep(w) == FindImport(w) \/ CreateTags(w) \/ UpsertContacts(w) \/ AttachTags(w)

\* A worker goes on with its import, drops it, takes another when it has none, or
\* is told that the settings of its import were saved again.
LEMMA RunGoesOn ==
    ASSUME TypeOK, [Next]_vars, NEW w \in Workers
    PROVE  \/ worker'[w] = worker[w]
           \/ worker'[w] = NoImport
           \/ \E i \in Imports : TakeImport(w, i)
           \/ RunStep(w) /\ worker'[w].import = worker[w].import
           \/ \E r \in Requests : /\ SaveSettings(r)
                                  /\ worker[w].import = request[r].import
                                  /\ worker'[w].import = worker[w].import
                                  /\ worker'[w] = [worker[w] EXCEPT !.late = TRUE]
<1>1. worker \in [Workers -> Runs \cup {NoImport}]
  BY DEF TypeOK
<1>2. ASSUME NEW v \in Workers, NEW i \in Imports, TakeImport(v, i)
      PROVE  worker'[w] = worker[w] \/ TakeImport(w, i)
  BY <1>1, <1>2 DEF TakeImport
<1>3. ASSUME NEW v \in Workers, RunStep(v)
      PROVE  \/ worker'[w] = worker[w]
             \/ RunStep(w) /\ worker'[w].import = worker[w].import
  <2>1. CASE v # w
    BY <1>1, <1>3, <2>1 DEF RunStep, FindImport, CreateTags, UpsertContacts, AttachTags
  <2>2. CASE v = w
    <3>1. worker[w] \in Runs
      BY <1>3, <2>2, WorkersRun DEF RunStep, FindImport, CreateTags, UpsertContacts, AttachTags
    <3>2. worker'[w].import = worker[w].import
      <4>1. CASE FindImport(w)
        BY <1>1, <3>1, <4>1 DEF FindImport, Runs
      <4>2. CASE CreateTags(w)
        BY <1>1, <3>1, <4>2 DEF CreateTags, Runs
      <4>3. CASE UpsertContacts(w)
        BY <1>1, <3>1, <4>3 DEF UpsertContacts, Runs
      <4>4. CASE AttachTags(w)
        BY <1>1, <3>1, <4>4 DEF AttachTags, Runs
      <4>5. QED
        BY <1>3, <2>2, <4>1, <4>2, <4>3, <4>4 DEF RunStep
    <3>3. QED
      BY <1>3, <2>2, <3>2
  <2>3. QED
    BY <2>1, <2>2
<1>4. ASSUME NEW v \in Workers, CommitImport(v) \/ FailImport(v) \/ StallImport(v)
      PROVE  worker'[w] = worker[w] \/ worker'[w] = NoImport
  BY <1>1, <1>4 DEF CommitImport, FailImport, StallImport
<1>5. ASSUME NEW r \in Requests, SaveSettings(r)
      PROVE  \/ worker'[w] = worker[w]
             \/ /\ worker[w].import = request[r].import
                /\ worker'[w].import = worker[w].import
                /\ worker'[w] = [worker[w] EXCEPT !.late = TRUE]
  BY <1>1, <1>5 DEF SaveSettings, Runs, NoImport
<1>6. QED
  BY <1>2, <1>3, <1>4, <1>5, Steps
  DEF ReadContact, BeginTagging, FindSegment, CheckTag, FindTag, ReadImport, Begin, importVars,
      StoreContact, WriteContact, InsertTags, DetachTags, InsertTag, DeleteTag, FindTags,
      CountRows, SelectRows, AnswerPage, QueueImport, LoseRequest, CreateImport, Job, RunStep, vars

\* Contacts are never deleted, and the file of an import is never replaced.
LEMMA Grows ==
    ASSUME TypeOK, [Next]_vars
    PROVE  /\ contacts \subseteq contacts'
           /\ \A i \in Imports : status[i] # "none" => status'[i] # "none" /\ file'[i] = file[i]
<1> USE DEF TypeOK
<1> DEFINE Goal == /\ contacts \subseteq contacts'
                   /\ \A i \in Imports :
                          status[i] # "none" => status'[i] # "none" /\ file'[i] = file[i]
<1>1. CASE UNCHANGED <<file, status>> /\ contacts \subseteq contacts'
  BY <1>1
<1>2. ASSUME NEW r \in Requests, NEW record, Begin(r, record) PROVE Goal
  BY <1>1, <1>2 DEF Begin, rowVars, importVars
<1>3. ASSUME NEW r \in Requests,
             \/ \E e \in Emails, given \in SUBSET Attributes : StoreContact(r, e, given)
             \/ WriteContact(r) \/ InsertTags(r) \/ DetachTags(r) \/ InsertTag(r) \/ DeleteTag(r)
             \/ FindTags(r) \/ CountRows(r) \/ SelectRows(r) \/ AnswerPage(r)
             \/ QueueImport(r) \/ LoseRequest(r)
      PROVE  Goal
  BY <1>1, <1>3 DEF StoreContact, WriteContact, InsertTags, DetachTags, InsertTag, DeleteTag,
     FindTags, CountRows, SelectRows, AnswerPage, QueueImport, LoseRequest, rowVars, importVars
<1>4. ASSUME NEW r \in Requests, SaveSettings(r) PROVE Goal
  BY <1>4 DEF SaveSettings, rowVars
<1>5. ASSUME NEW i \in Imports, CreateImport(i) PROVE Goal
  BY <1>5 DEF CreateImport, rowVars
<1>6. ASSUME NEW w \in Workers, CommitImport(w) PROVE Goal
  BY <1>6 DEF CommitImport
<1>7. ASSUME NEW w \in Workers,
             \/ \E i \in Imports : TakeImport(w, i)
             \/ FindImport(w) \/ CreateTags(w) \/ UpsertContacts(w) \/ AttachTags(w)
             \/ FailImport(w) \/ StallImport(w)
      PROVE  Goal
  BY <1>1, <1>7 DEF TakeImport, FindImport, CreateTags, UpsertContacts, AttachTags,
                    FailImport, StallImport, rowVars
<1>8. CASE UNCHANGED vars
  BY <1>1, <1>8 DEF vars, rowVars, importVars
<1>9. QED
  BY <1>2, <1>3, <1>4, <1>5, <1>6, <1>7, <1>8, Steps
  DEF Job, ReadContact, BeginTagging, FindSegment, CheckTag, FindTag, ReadImport

LEMMA BoundStep == TypeOK /\ TypeOK' /\ BoundInv /\ [Next]_vars => BoundInv'
<1> SUFFICES ASSUME TypeOK, TypeOK', BoundInv, [Next]_vars PROVE BoundInv'
  OBVIOUS
<1>1. IsFiniteSet(contacts')
  <2>1. CASE contacts' = contacts
    BY <2>1 DEF BoundInv
  <2>2. ASSUME NEW r \in Requests, NEW e \in Emails, NEW given \in SUBSET Attributes,
               StoreContact(r, e, given)
        PROVE  IsFiniteSet(contacts')
    BY <2>2, FS_AddElement DEF StoreContact, BoundInv
  <2>3. ASSUME NEW w \in Workers, CommitImport(w) PROVE IsFiniteSet(contacts')
    <3>1. worker[w] \in Runs
      BY <2>3, WorkersRun DEF CommitImport
    <3>2. IsFiniteSet(RowsOf(worker[w].import))
      BY <3>1, FileRows DEF Runs
    <3>3. QED
      BY <2>3, <3>2, FS_Union DEF CommitImport, BoundInv
  <2>4. QED
    BY <2>1, <2>2, <2>3, Steps
    DEF ReadContact, BeginTagging, FindSegment, CheckTag, FindTag, ReadImport, Begin, rowVars,
        WriteContact, InsertTags, DetachTags, InsertTag, DeleteTag, FindTags, CountRows, SelectRows,
        AnswerPage, SaveSettings, QueueImport, LoseRequest, CreateImport, Job, TakeImport, FindImport,
        CreateTags, UpsertContacts, AttachTags, FailImport, StallImport, vars
<1>2. ASSUME NEW r \in Requests
      PROVE  /\ request'[r].op \in {"update", "attach", "detach"} => request'[r].contact \in contacts'
             /\ request'[r].op = "save" => status'[request'[r].import] # "none"
  <2>1. CASE request'[r] \in {Idle, Answered, Lost}
    BY <2>1 DEF Idle, Answered, Lost
  <2>2. CASE request[r] # Idle /\ SameRequest(request'[r], request[r])
    <3>1. request[r].op = "save" => request[r].import \in Imports
      BY Kinds DEF Saves
    <3>2. QED
      BY <2>2, <3>1, Grows DEF SameRequest, BoundInv
  <2>3. CASE request[r] = Idle /\ Begun(r)
    <3>1. contacts' = contacts /\ status' = status
      BY <2>3 DEF Begun, rowVars, importVars
    <3>2. request'[r].op \in {"update", "attach", "detach"} => request'[r].contact \in contacts
      BY <2>3 DEF Begun
    <3>3. request'[r].op = "save" => status[request'[r].import] # "none"
      BY <2>3 DEF Begun
    <3>4. QED
      BY <3>1, <3>2, <3>3
  <2>4. QED
    BY <2>1, <2>2, <2>3, GoesOn, Begins
<1>3. ASSUME NEW i \in Imports, queued'[i] > 0 PROVE status'[i] # "none"
  <2>1. CASE queued[i] > 0
    BY <2>1, Grows DEF BoundInv
  <2>2. CASE ~(queued[i] > 0)
    <3>1. queued[i] = 0 /\ queued'[i] # queued[i]
      BY <1>3, <2>2 DEF TypeOK
    <3>2. ASSUME NEW r \in Requests, QueueImport(r) PROVE status[i] # "none"
      <4>1. request[r].op = "save" /\ request[r].import = i
        BY <3>1, <3>2 DEF QueueImport, At, TypeOK
      <4>2. QED
        BY <4>1 DEF BoundInv
    <3>3. ASSUME NEW w \in Workers, NEW j \in Imports, TakeImport(w, j) PROVE status[i] # "none"
      BY <1>3, <3>1, <3>3 DEF TakeImport, TypeOK
    <3>4. ASSUME NEW w \in Workers, StallImport(w) PROVE status[i] # "none"
      <4>1. worker[w].import = i
        BY <3>1, <3>4 DEF StallImport, TypeOK
      <4>2. QED
        BY <3>4, <4>1 DEF BoundInv, StallImport
    <3>5. status[i] # "none"
      BY <3>1, <3>2, <3>3, <3>4, Steps
      DEF ReadContact, BeginTagging, FindSegment, CheckTag, FindTag, ReadImport, Begin, importVars,
          StoreContact, WriteContact, InsertTags, DetachTags, InsertTag, DeleteTag, FindTags,
          CountRows, SelectRows, AnswerPage, SaveSettings, LoseRequest, CreateImport, Job,
          FindImport, CreateTags, UpsertContacts, AttachTags, CommitImport, FailImport, vars
    <3>6. QED
      BY <3>5, Grows
  <2>3. QED
    BY <2>1, <2>2
<1>4. ASSUME NEW w \in Workers, worker'[w].import # None
      PROVE  status'[worker'[w].import] # "none"
  <2>1. CASE worker'[w].import = worker[w].import
    BY <1>4, <2>1, WorkersRun, Grows DEF BoundInv, Runs
  <2>2. CASE worker'[w].import # worker[w].import
    <3>1. PICK i \in Imports : TakeImport(w, i)
      <4>1. worker'[w] # NoImport /\ worker'[w] # worker[w]
        BY <1>4, <2>2 DEF NoImport
      <4>2. QED
        BY <2>2, <4>1, RunGoesOn
    <3>2. worker'[w].import = i /\ queued[i] > 0
      BY <3>1 DEF TakeImport, TypeOK, NoImport
    <3>3. QED
      BY <3>2, Grows DEF BoundInv
  <2>3. QED
    BY <2>1, <2>2
<1>5. QED
  BY <1>1, <1>2, <1>3, <1>4 DEF BoundInv

\* The file of a run stays what it was.
LEMMA SameRows ==
    ASSUME TypeOK, BoundInv, [Next]_vars, NEW w \in Workers, worker[w].step # "idle",
           worker'[w].import = worker[w].import
    PROVE  RowsOf(worker[w].import)' = RowsOf(worker[w].import)
<1>1. worker[w] \in Runs
  BY WorkersRun
<1>2. worker[w].import \in Imports /\ status[worker[w].import] # "none"
  BY <1>1, ContactsAssumption DEF Runs, BoundInv
<1>3. QED
  BY <1>2, Grows DEF RowsOf

\* A worker gets on rows by UpsertContacts; by then it was alone on them.
LEMMA OntoRows ==
    ASSUME TypeOK, TypeOK', [Next]_vars, NEW w \in Workers, OnRows(w)'
    PROVE  /\ worker[w].step # "idle"
           /\ worker'[w].import = worker[w].import
           /\ \/ OnRows(w) /\ worker'[w].fresh = worker[w].fresh
              \/ UpsertContacts(w)
<1>1. worker \in [Workers -> Runs \cup {NoImport}] /\ worker'[w].step \in {"attach", "commit"}
  BY DEF TypeOK, OnRows
<1>2. CASE worker'[w] = worker[w]
  BY <1>1, <1>2 DEF OnRows
<1>3. CASE worker'[w] = NoImport
  BY <1>1, <1>3 DEF NoImport
<1>4. ASSUME NEW i \in Imports, TakeImport(w, i) PROVE FALSE
  BY <1>1, <1>4 DEF TakeImport, NoImport
<1>5. CASE RunStep(w) /\ worker'[w].import = worker[w].import
  <2>1. worker[w].step # "idle" /\ worker[w] \in Runs
    BY <1>5, WorkersRun DEF RunStep, FindImport, CreateTags, UpsertContacts, AttachTags
  <2>2. CASE FindImport(w)
    BY <1>1, <2>1, <2>2 DEF FindImport, Runs
  <2>3. CASE CreateTags(w)
    BY <1>1, <2>1, <2>3 DEF CreateTags, Runs
  <2>4. CASE UpsertContacts(w)
    BY <1>5, <2>1, <2>4
  <2>5. CASE AttachTags(w)
    BY <1>1, <1>5, <2>1, <2>5 DEF AttachTags, OnRows, Runs
  <2>6. QED
    BY <1>5, <2>2, <2>3, <2>4, <2>5 DEF RunStep
<1>6. ASSUME worker'[w].import = worker[w].import, worker'[w] = [worker[w] EXCEPT !.late = TRUE]
      PROVE  worker[w].step # "idle" /\ OnRows(w) /\ worker'[w].fresh = worker[w].fresh
  BY <1>1, <1>6 DEF OnRows, Runs, NoImport
<1>7. QED
  BY <1>2, <1>3, <1>4, <1>5, <1>6, RunGoesOn

LEMMA RunInvStep == TypeOK /\ TypeOK' /\ BoundInv /\ RunInv /\ [Next]_vars => RunInv'
<1> SUFFICES ASSUME TypeOK, TypeOK', BoundInv, RunInv, [Next]_vars, NEW w \in Workers
             PROVE  /\ SettingsRead(w)' /\ NamesGiven(w)' /\ RowsNew(w)' /\ Ready(w)'
                    /\ \A v \in Workers \ {w} : Apart(v, w)'
  BY DEF RunInv
<1> USE WorkersRun
<1>0. worker \in [Workers -> Runs \cup {NoImport}]
  BY DEF TypeOK
<1>1. SettingsRead(w)'
  <2>1. ASSUME NEW r \in Requests, SaveSettings(r) PROVE SettingsRead(w)'
    <3>1. request[r].import \in Imports
      BY <2>1, Kinds DEF SaveSettings, At, Saves
    <3>2. CASE worker[w].import = request[r].import /\ worker[w].step # "find"
      BY <1>0, <2>1, <3>2 DEF SaveSettings, SettingsRead, Runs, NoImport
    <3>3. CASE worker[w].import = request[r].import /\ worker[w].step = "find"
      BY <1>0, <2>1, <3>3 DEF SaveSettings, SettingsRead
    <3>4. CASE worker[w].import # request[r].import
      BY <1>0, <2>1, <3>1, <3>4 DEF SaveSettings, SettingsRead, RunInv, TypeOK
    <3>5. QED
      BY <3>2, <3>3, <3>4
  <2>2. CASE settings' = settings
    <3>1. CASE worker'[w] = worker[w]
      BY <2>2, <3>1 DEF RunInv, SettingsRead
    <3>2. CASE worker'[w] = NoImport
      BY <3>2 DEF NoImport, SettingsRead
    <3>3. ASSUME NEW i \in Imports, TakeImport(w, i) PROVE SettingsRead(w)'
      BY <1>0, <3>3 DEF TakeImport, NoImport, SettingsRead
    <3>4. CASE FindImport(w)
      BY <1>0, <2>2, <3>4 DEF FindImport, Runs, SettingsRead
    <3>5. CASE CreateTags(w)
      BY <1>0, <2>2, <3>5 DEF CreateTags, Runs, SettingsRead, RunInv
    <3>6. CASE UpsertContacts(w)
      BY <1>0, <2>2, <3>6 DEF UpsertContacts, Runs, SettingsRead, RunInv
    <3>7. CASE AttachTags(w)
      BY <1>0, <2>2, <3>7 DEF AttachTags, Runs, SettingsRead, RunInv
    <3>8. QED
      BY <2>1, <3>1, <3>2, <3>3, <3>4, <3>5, <3>6, <3>7, RunGoesOn DEF RunStep
  <2>3. QED
    BY <2>1, <2>2, Steps
    DEF ReadContact, BeginTagging, FindSegment, CheckTag, FindTag, ReadImport, Begin, importVars,
        StoreContact, WriteContact, InsertTags, DetachTags, InsertTag, DeleteTag, FindTags, CountRows,
        SelectRows, AnswerPage, QueueImport, LoseRequest, CreateImport, Job, TakeImport, FindImport,
        CreateTags, UpsertContacts, AttachTags, CommitImport, FailImport, StallImport, vars
<1>2. NamesGiven(w)'
  <2>1. CASE worker'[w] = worker[w]
    BY <2>1 DEF RunInv, NamesGiven
  <2>2. CASE worker'[w] = NoImport
    BY <2>2 DEF NoImport, NamesGiven
  <2>3. ASSUME NEW i \in Imports, TakeImport(w, i) PROVE NamesGiven(w)'
    BY <1>0, <2>3 DEF TakeImport, NoImport, NamesGiven
  <2>4. CASE FindImport(w)
    BY <1>0, <2>4 DEF FindImport, Runs, NamesGiven
  <2>5. CASE CreateTags(w)
    BY <1>0, <2>5 DEF CreateTags, Runs, NamesGiven
  <2>6. CASE UpsertContacts(w) \/ AttachTags(w)
    BY <1>0, <2>6 DEF UpsertContacts, AttachTags, Runs, NamesGiven, RunInv
  <2>7. CASE worker'[w] = [worker[w] EXCEPT !.late = TRUE]
    BY <1>0, <2>7 DEF Runs, NoImport, NamesGiven, RunInv
  <2>8. QED
    BY <2>1, <2>2, <2>3, <2>4, <2>5, <2>6, <2>7, RunGoesOn DEF RunStep
<1>3. RowsNew(w)'
  <2> SUFFICES ASSUME OnRows(w)', worker'[w].fresh
               PROVE  RowsOf(worker[w].import) \cap contacts' = {}
    BY OntoRows, SameRows DEF RowsNew
  <2>1. worker[w].step # "idle" /\ worker'[w].import = worker[w].import
    BY OntoRows
  <2>2. CASE UpsertContacts(w)
    <3>1. worker'[w].fresh = (RowsOf(worker[w].import) \cap contacts = {} /\ IsInjective(file[worker[w].import]))
      BY <1>0, <2>1, <2>2 DEF UpsertContacts, Runs
    <3>2. contacts' = contacts
      BY <2>2 DEF UpsertContacts, rowVars
    <3>3. QED
      BY <3>1, <3>2
  <2>3. CASE OnRows(w) /\ worker'[w].fresh = worker[w].fresh
    <3>1. RowsOf(worker[w].import) \cap contacts = {}
      BY <2>3 DEF RunInv, RowsNew
    <3>2. ASSUME NEW r \in Requests, NEW e \in Emails, NEW given \in SUBSET Attributes,
                 StoreContact(r, e, given)
          PROVE  RowsOf(worker[w].import) \cap contacts' = {}
      <4>1. RowsOf(worker[w].import) \subseteq LockedContacts
        BY <2>3 DEF LockedContacts, OnRows
      <4>2. QED
        BY <3>1, <3>2, <4>1 DEF StoreContact
    <3>3. ASSUME NEW v \in Workers, CommitImport(v)
          PROVE  RowsOf(worker[w].import) \cap contacts' = {}
      <4>1. v # w
        BY <1>0, <2>1, <2>3, <3>3 DEF CommitImport, OnRows, NoImport
      <4>2. RowsOf(worker[v].import) \cap RowsOf(worker[w].import) = {}
        BY <2>3, <3>3, <4>1 DEF RunInv, Apart, OnRows, CommitImport
      <4>3. QED
        BY <3>1, <3>3, <4>2 DEF CommitImport
    <3>4. CASE contacts' = contacts
      BY <3>1, <3>4
    <3>5. QED
      BY <3>2, <3>3, <3>4, Steps
      DEF ReadContact, BeginTagging, FindSegment, CheckTag, FindTag, ReadImport, Begin, rowVars,
          WriteContact, InsertTags, DetachTags, InsertTag, DeleteTag, FindTags, CountRows, SelectRows,
          AnswerPage, SaveSettings, QueueImport, LoseRequest, CreateImport, Job, TakeImport, FindImport,
          CreateTags, UpsertContacts, AttachTags, FailImport, StallImport, vars
  <2>4. QED
    BY <2>2, <2>3, OntoRows
<1>4. Ready(w)'
  <2> SUFFICES ASSUME worker'[w].step = "commit"
               PROVE  /\ worker'[w].settings.tagIds \subseteq tags'
                      /\ worker'[w].fresh \/ TagsFor(worker'[w]) = {}
    BY DEF Ready, TagsFor
  <2>1. CASE AttachTags(w)
    <3>1. worker[w] \in Runs
      BY <2>1 DEF AttachTags
    <3>2. worker'[w] = [worker[w] EXCEPT !.step = "commit"] /\ tags' = tags
      BY <1>0, <2>1 DEF AttachTags, rowVars
    <3>3. /\ worker'[w].settings = worker[w].settings /\ worker'[w].created = worker[w].created
          /\ worker'[w].fresh = worker[w].fresh
      BY <3>1, <3>2 DEF Runs
    <3>4. QED
      BY <2>1, <3>2, <3>3 DEF AttachTags, TagsFor
  <2>2. CASE /\ worker[w].step = "commit"
             /\ worker'[w].settings = worker[w].settings /\ worker'[w].created = worker[w].created
             /\ worker'[w].fresh = worker[w].fresh
    <3>1. /\ worker[w].settings.tagIds \subseteq tags
          /\ worker[w].fresh \/ TagsFor(worker[w]) = {}
      BY <2>2 DEF RunInv, Ready
    <3>2. ASSUME NEW r \in Requests, DeleteTag(r) PROVE worker[w].settings.tagIds \subseteq tags'
      <4>1. request[r].tag \notin worker[w].settings.tagIds
        BY <2>2, <3>2 DEF DeleteTag, LockedTags
      <4>2. QED
        BY <3>1, <3>2, <4>1 DEF DeleteTag
    <3>3. ASSUME tags \subseteq tags' PROVE worker[w].settings.tagIds \subseteq tags'
      BY <3>1, <3>3
    <3>4. worker[w].settings.tagIds \subseteq tags'
      BY <3>2, <3>3, Steps
      DEF ReadContact, BeginTagging, FindSegment, CheckTag, FindTag, ReadImport, Begin, rowVars,
          StoreContact, WriteContact, InsertTags, DetachTags, InsertTag, FindTags, CountRows,
          SelectRows, AnswerPage, SaveSettings, QueueImport, LoseRequest, CreateImport, Job,
          TakeImport, FindImport, CreateTags, UpsertContacts, AttachTags, CommitImport, FailImport,
          StallImport, vars
    <3>5. QED
      BY <2>2, <3>1, <3>4 DEF TagsFor
  <2>3. CASE worker'[w] = worker[w]
    BY <2>2, <2>3
  <2>4. CASE worker'[w] = NoImport
    BY <2>4 DEF NoImport
  <2>5. ASSUME NEW i \in Imports, TakeImport(w, i) PROVE FALSE
    BY <1>0, <2>5 DEF TakeImport, NoImport
  <2>6. CASE FindImport(w) \/ CreateTags(w) \/ UpsertContacts(w)
    BY <1>0, <2>6 DEF FindImport, CreateTags, UpsertContacts, Runs
  <2>7. CASE worker'[w] = [worker[w] EXCEPT !.late = TRUE]
    <3>1. worker[w].step = "commit"
      BY <1>0, <2>7 DEF Runs, NoImport
    <3>2. QED
      BY <1>0, <2>2, <2>7, <3>1 DEF Runs, NoImport
  <2>8. QED
    BY <2>1, <2>3, <2>4, <2>5, <2>6, <2>7, RunGoesOn DEF RunStep
<1>5. ASSUME NEW v \in Workers \ {w}, OnRows(v)', OnRows(w)'
      PROVE  RowsOf(worker[v].import)' \cap RowsOf(worker[w].import)' = {}
  <2>1. /\ RowsOf(worker[v].import)' = RowsOf(worker[v].import)
        /\ RowsOf(worker[w].import)' = RowsOf(worker[w].import)
        /\ worker'[v].import = worker[v].import /\ worker'[w].import = worker[w].import
    BY <1>5, OntoRows, SameRows
  <2>2. ASSUME NEW a \in Workers, NEW b \in Workers, a # b, UpsertContacts(a), OnRows(b)
        PROVE  RowsOf(worker[a].import) \cap RowsOf(worker[b].import) = {}
    <3>1. RowsOf(worker[b].import) \subseteq LockedContacts
      BY <2>2 DEF LockedContacts, OnRows
    <3>2. QED
      BY <2>2, <3>1 DEF UpsertContacts
  <2>3. CASE OnRows(v) /\ OnRows(w)
    BY <2>1, <2>3 DEF RunInv, Apart
  <2>4. CASE ~(OnRows(v) /\ OnRows(w))
    <3>1. UpsertContacts(v) => worker'[w] = worker[w]
      BY <1>0 DEF UpsertContacts
    <3>2. UpsertContacts(w) => worker'[v] = worker[v]
      BY <1>0 DEF UpsertContacts
    <3>3. \/ UpsertContacts(v) /\ OnRows(w)
          \/ UpsertContacts(w) /\ OnRows(v)
      BY <1>5, <2>4, <3>1, <3>2, OntoRows DEF OnRows
    <3>4. QED
      BY <2>1, <2>2, <3>3
  <2>5. QED
    BY <2>3, <2>4
<1>6. \A v \in Workers \ {w} : Apart(v, w)'
  BY <1>5 DEF Apart
<1>7. QED
  BY <1>1, <1>2, <1>3, <1>4, <1>6

Inv == TypeOK /\ BoundInv /\ RunInv

LEMMA InvHolds == Spec => []Inv
<1>1. Inv /\ [Next]_vars => Inv'
  BY TypeStep, BoundStep, RunInvStep DEF Inv
<1>2. QED
  BY InvInit, <1>1, PTL DEF Spec, Inv

\* The variables keep their types: among others, only contacts and tags that
\* exist are attached to each other, whatever is deleted beside it.
THEOREM TypeCorrect == Spec => []TypeOK
<1>1. Inv => TypeOK
  BY DEF Inv
<1>2. QED
  BY InvHolds, <1>1, PTL
-----------------------------------------------------------------------------
(***************************************************************************)
(* Updates.                                                                *)
(***************************************************************************)
\* An update that nobody met has seen the row as it is.
SeenInv ==
    /\ UpdatesKept
    /\ \A r \in Requests : At(r, "update", "read") /\ r \notin met =>
           request[r].seen = attributes[request[r].contact]

\* Requests that were met stay so.
LEMMA MetGrows == [Next]_vars => met \subseteq met'
<1> SUFFICES ASSUME [Next]_vars PROVE met \subseteq met'
  OBVIOUS
<1>1. QED
  BY Steps
  DEF ReadContact, BeginTagging, FindSegment, CheckTag, FindTag, ReadImport, Begin, history, Meets,
      StoreContact, WriteContact, InsertTags, DetachTags, InsertTag, DeleteTag, FindTags, CountRows,
      SelectRows, AnswerPage, SaveSettings, QueueImport, LoseRequest, CreateImport, Job, TakeImport,
      FindImport, CreateTags, UpsertContacts, AttachTags, CommitImport, FailImport, StallImport, vars

\* The steps that write a contact.
LEMMA RowWrites ==
    ASSUME [Next]_vars
    PROVE  \/ UNCHANGED <<contacts, attributes, latest, stale>>
           \/ \E r \in Requests, e \in Emails, given \in SUBSET Attributes : StoreContact(r, e, given)
           \/ \E r \in Requests : WriteContact(r)
           \/ \E w \in Workers : CommitImport(w)
<1>1. ASSUME \A r \in Requests, e \in Emails, given \in SUBSET Attributes : ~StoreContact(r, e, given),
             \A r \in Requests : ~WriteContact(r),
             \A w \in Workers : ~CommitImport(w)
      PROVE  UNCHANGED <<contacts, attributes, latest, stale>>
  BY <1>1, Steps
  DEF ReadContact, BeginTagging, FindSegment, CheckTag, FindTag, ReadImport, Begin, history, rowVars,
      InsertTags, DetachTags, InsertTag, DeleteTag, FindTags, CountRows, SelectRows, AnswerPage,
      SaveSettings, QueueImport, LoseRequest, CreateImport, Job, TakeImport, FindImport, CreateTags,
      UpsertContacts, AttachTags, FailImport, StallImport, vars
<1>2. QED
  BY <1>1

LEMMA UpdatesKeptStep == TypeOK /\ BoundInv /\ SeenInv /\ [Next]_vars => UpdatesKept'
<1> SUFFICES ASSUME TypeOK, BoundInv, SeenInv, [Next]_vars, NEW e \in contacts'
             PROVE  attributes'[e] = latest'[e] \/ e \in stale'
  BY DEF UpdatesKept
<1> USE DEF TypeOK
<1>0. e \in contacts => attributes[e] = latest[e] \/ e \in stale
  BY DEF SeenInv, UpdatesKept
<1>1. CASE UNCHANGED <<contacts, attributes, latest, stale>>
  BY <1>0, <1>1
<1>2. ASSUME NEW r \in Requests, NEW f \in Emails, NEW given \in SUBSET Attributes,
             StoreContact(r, f, given)
      PROVE  attributes'[e] = latest'[e] \/ e \in stale'
  BY <1>0, <1>2 DEF StoreContact
<1>3. ASSUME NEW r \in Requests, WriteContact(r)
      PROVE  attributes'[e] = latest'[e] \/ e \in stale'
  <2> DEFINE f == request[r].contact
  <2>1. f \in contacts /\ f \in Emails /\ e \in Emails /\ e \in contacts
    BY <1>3 DEF WriteContact, At, BoundInv
  <2>2. CASE e # f
    BY <1>0, <1>3, <2>1, <2>2 DEF WriteContact
  <2>3. CASE e = f /\ r \in met
    BY <1>3, <2>3 DEF WriteContact
  <2>4. CASE e = f /\ r \notin met
    <3>1. request[r].seen = attributes[f]
      BY <1>3, <2>4 DEF SeenInv, WriteContact
    <3>2. /\ attributes'[e] = attributes[e] \cup request[r].attributes
          /\ latest'[e] = latest[e] \cup request[r].attributes
          /\ stale' = stale
      BY <1>3, <2>1, <2>4, <3>1 DEF WriteContact
    <3>3. QED
      BY <1>0, <2>1, <3>2
  <2>5. QED
    BY <2>2, <2>3, <2>4
<1>4. ASSUME NEW w \in Workers, CommitImport(w)
      PROVE  attributes'[e] = latest'[e] \/ e \in stale'
  <2> DEFINE i == worker[w].import
             set == e \in RowsOf(i) /\ (worker[w].settings.update \/ e \notin contacts)
  <2>1. RowsOf(i) \subseteq Emails
    BY <1>4, WorkersRun, FileRows DEF CommitImport, Runs
  <2>2. e \in Emails
    BY <1>4, <2>1 DEF CommitImport
  <2>3. /\ attributes'[e] = IF set THEN Columns ELSE attributes[e]
        /\ latest'[e] = IF set THEN Columns ELSE latest[e]
    BY <1>4, <2>2 DEF CommitImport, Upserted
  <2>4. set \/ e \in contacts
    BY <1>4 DEF CommitImport
  <2>5. stale' = stale
    BY <1>4 DEF CommitImport
  <2>6. QED
    BY <1>0, <2>3, <2>4, <2>5
<1>5. QED
  BY <1>1, <1>2, <1>3, <1>4, RowWrites

LEMMA SeenStep == TypeOK /\ BoundInv /\ SeenInv /\ [Next]_vars => SeenInv'
<1> SUFFICES ASSUME TypeOK, BoundInv, SeenInv, [Next]_vars,
                    NEW r \in Requests, At(r, "update", "read")', r \notin met'
             PROVE  request'[r].seen = attributes'[request'[r].contact]
  BY UpdatesKeptStep DEF SeenInv
<1>1. request'[r].op = "update" /\ request'[r] \notin {Idle, Answered, Lost}
  BY DEF At, Idle, Answered, Lost
<1>2. CASE request[r] = Idle
  BY <1>1, <1>2, Begins DEF Begun, rowVars
<1>3. CASE request[r] # Idle
  <2> DEFINE f == request[r].contact
  <2>1. SameRequest(request'[r], request[r])
    BY <1>1, <1>3, GoesOn
  <2>2. /\ request[r].op = "update" /\ request'[r].seen = request[r].seen
        /\ request'[r].contact = request[r].contact
    BY <1>1, <2>1 DEF SameRequest
  <2>3. At(r, "update", "read") /\ f \in contacts /\ f \in Emails
    BY <2>2, Kinds DEF Updates, At, BoundInv
  <2>4. request[r].seen = attributes[f]
    BY <2>3, MetGrows DEF SeenInv
  <2>5. r \in Of("update")
    BY <2>3 DEF At, Of, UnderWay
  <2>6. ASSUME NEW q \in Requests, NEW e \in Emails, NEW given \in SUBSET Attributes,
               StoreContact(q, e, given)
        PROVE  attributes'[f] = attributes[f]
    BY <2>3, <2>6 DEF StoreContact, TypeOK
  <2>7. ASSUME NEW q \in Requests, WriteContact(q) PROVE attributes'[f] = attributes[f]
    <3>1. request[q].contact # f
      BY <2>5, <2>7 DEF WriteContact, Meets
    <3>2. QED
      BY <2>3, <2>7, <3>1 DEF WriteContact, TypeOK
  <2>8. ASSUME NEW w \in Workers, CommitImport(w) PROVE attributes'[f] = attributes[f]
    <3>1. f \notin RowsOf(worker[w].import)
      BY <2>5, <2>8 DEF CommitImport, Meets
    <3>2. QED
      BY <2>3, <2>8, <3>1 DEF CommitImport, Upserted
  <2>9. attributes'[f] = attributes[f]
    BY <2>6, <2>7, <2>8, RowWrites
  <2>10. QED
    BY <2>2, <2>4, <2>9
<1>4. QED
  BY <1>2, <1>3

\* A contact whose attributes are not those that the answers to its writers
\* promise was written by an update that somebody had overtaken.
THEOREM OvertakenOnly == Spec => []UpdatesKept
<1>1. Init => SeenInv
  BY DEF Init, SeenInv, UpdatesKept, At, Idle
<1>2. Inv /\ SeenInv /\ [Next]_vars => SeenInv'
  BY SeenStep DEF Inv
<1>3. SeenInv => UpdatesKept
  BY DEF SeenInv
<1>4. QED
  BY InvHolds, <1>1, <1>2, <1>3, PTL DEF Spec
-----------------------------------------------------------------------------
(***************************************************************************)
(* Tags of a contact.                                                      *)
(***************************************************************************)
\* The steps by which a request gets on.
LEMMA Moves ==
    ASSUME TypeOK, [Next]_vars, NEW r \in Requests, request[r] # Idle
    PROVE  \/ request'[r] = request[r]
           \/ request'[r] \in {Answered, Lost}
           \/ FindTags(r) \/ InsertTags(r) \/ InsertTag(r)
           \/ CountRows(r) \/ SelectRows(r) \/ SaveSettings(r)
<1> DEFINE Goal == \/ request'[r] = request[r]
                   \/ request'[r] \in {Answered, Lost}
                   \/ FindTags(r) \/ InsertTags(r) \/ InsertTag(r)
                   \/ CountRows(r) \/ SelectRows(r) \/ SaveSettings(r)
<1> USE DEF TypeOK
<1>1. ASSUME NEW q \in Requests, NEW record, Begin(q, record) PROVE Goal
  BY <1>1 DEF Begin
<1>2. ASSUME NEW q \in Requests,
             \/ \E e \in Emails, given \in SUBSET Attributes : StoreContact(q, e, given)
             \/ WriteContact(q) \/ DetachTags(q) \/ DeleteTag(q) \/ AnswerPage(q) \/ QueueImport(q)
      PROVE  Goal
  BY <1>2 DEF StoreContact, WriteContact, DetachTags, DeleteTag, AnswerPage, QueueImport, Answer
<1>3. ASSUME NEW q \in Requests, LoseRequest(q) PROVE Goal
  BY <1>3 DEF LoseRequest
<1>4. ASSUME NEW q \in Requests,
             \/ FindTags(q) \/ InsertTags(q) \/ InsertTag(q)
             \/ CountRows(q) \/ SelectRows(q) \/ SaveSettings(q)
      PROVE  Goal
  <2>1. q # r => request'[r] = request[r]
    BY <1>4 DEF FindTags, InsertTags, InsertTag, CountRows, SelectRows, SaveSettings, To, Answer
  <2>2. QED
    BY <1>4, <2>1
<1>5. ASSUME NEW i \in Imports, CreateImport(i) PROVE Goal
  BY <1>5 DEF CreateImport
<1>6. ASSUME NEW w \in Workers, Job(w) PROVE Goal
  BY <1>6 DEF Job, TakeImport, FindImport, CreateTags, UpsertContacts, AttachTags,
              CommitImport, FailImport, StallImport
<1>7. CASE UNCHANGED vars
  BY <1>7 DEF vars
<1>8. QED
  BY <1>1, <1>2, <1>3, <1>4, <1>5, <1>6, <1>7, Steps
  DEF ReadContact, BeginTagging, FindSegment, CheckTag, FindTag, ReadImport

\* The steps that write a pair of a contact and a tag, or a tag.
LEMMA PairWrites ==
    ASSUME [Next]_vars
    PROVE  \/ UNCHANGED <<tagged, detached>>
           \/ \E r \in Requests : InsertTags(r) \/ DetachTags(r)
           \/ \E w \in Workers : CommitImport(w)
<1>1. ASSUME \A r \in Requests : ~InsertTags(r) /\ ~DetachTags(r),
             \A w \in Workers : ~CommitImport(w)
      PROVE  UNCHANGED <<tagged, detached>>
  BY <1>1, Steps
  DEF ReadContact, BeginTagging, FindSegment, CheckTag, FindTag, ReadImport, Begin, history, rowVars,
      StoreContact, WriteContact, InsertTag, DeleteTag, FindTags, CountRows, SelectRows, AnswerPage,
      SaveSettings, QueueImport, LoseRequest, CreateImport, Job, TakeImport, FindImport, CreateTags,
      UpsertContacts, AttachTags, FailImport, StallImport, vars
<1>2. QED
  BY <1>1

LEMMA TagWrites ==
    ASSUME [Next]_vars
    PROVE  \/ tags' = tags
           \/ \E r \in Requests : InsertTag(r) \/ DeleteTag(r)
           \/ \E w \in Workers : CommitImport(w)
<1>1. ASSUME \A r \in Requests : ~InsertTag(r) /\ ~DeleteTag(r),
             \A w \in Workers : ~CommitImport(w)
      PROVE  tags' = tags
  BY <1>1, Steps
  DEF ReadContact, BeginTagging, FindSegment, CheckTag, FindTag, ReadImport, Begin, history, rowVars,
      StoreContact, WriteContact, InsertTags, DetachTags, FindTags, CountRows, SelectRows, AnswerPage,
      SaveSettings, QueueImport, LoseRequest, CreateImport, Job, TakeImport, FindImport, CreateTags,
      UpsertContacts, AttachTags, FailImport, StallImport, vars
<1>2. QED
  BY <1>1

\* What a request found on its contact is still there, or was detached since.
AttachedInv ==
    /\ AttachedStays
    /\ \A r \in Requests : At(r, "attach", "found") =>
           \A t \in request[r].found \ detached[r] : <<request[r].contact, t>> \in tagged

\* A pair of the contact of such a request goes only as the history records.
LEMMA PairStays ==
    ASSUME TypeOK, [Next]_vars, NEW r \in Requests, request[r].op = "attach",
           request[r].step # "valid", NEW t, <<request[r].contact, t>> \in tagged \/ t \in detached[r]
    PROVE  <<request[r].contact, t>> \in tagged' \/ t \in detached'[r]
<1>1. ASSUME NEW q \in Requests, DetachTags(q)
      PROVE  <<request[r].contact, t>> \in tagged' \/ t \in detached'[r]
  <2>1. detached'[r] = IF request[r].contact = request[q].contact
                       THEN detached[r] \cup request[q].tags ELSE detached[r]
    BY <1>1 DEF DetachTags
  <2>2. \A e \in {request[r].contact} : <<e, t>> \in PairsOf(q) <=>
            e = request[q].contact /\ t \in request[q].tags
    BY DEF PairsOf
  <2>3. tagged' = tagged \ PairsOf(q)
    BY <1>1 DEF DetachTags
  <2>4. QED
    BY <2>1, <2>2, <2>3
<1>2. ASSUME NEW q \in Requests, InsertTags(q)
      PROVE  <<request[r].contact, t>> \in tagged' \/ t \in detached'[r]
  BY <1>2 DEF InsertTags
<1>3. ASSUME NEW w \in Workers, CommitImport(w)
      PROVE  <<request[r].contact, t>> \in tagged' \/ t \in detached'[r]
  BY <1>3 DEF CommitImport
<1>4. QED
  BY <1>1, <1>2, <1>3, PairWrites

LEMMA AttachedStep == TypeOK /\ TypeOK' /\ AttachedInv /\ [Next]_vars => AttachedInv'
<1> SUFFICES ASSUME TypeOK, TypeOK', AttachedInv, [Next]_vars,
                    NEW r \in Requests, request'[r].op = "attach",
                    request'[r].step \in {"found", "done"}
             PROVE  /\ request'[r].step = "done" =>
                           \A t \in request'[r].tags : \/ t \in detached'[r]
                                                       \/ <<request'[r].contact, t>> \in tagged'
                    /\ request'[r].step = "found" =>
                           \A t \in request'[r].found : \/ t \in detached'[r]
                                                        \/ <<request'[r].contact, t>> \in tagged'
  BY DEF AttachedInv, AttachedStays, At
<1> DEFINE Goal == /\ request'[r].step = "done" =>
                          \A t \in request'[r].tags : \/ t \in detached'[r]
                                                      \/ <<request'[r].contact, t>> \in tagged'
                   /\ request'[r].step = "found" =>
                          \A t \in request'[r].found : \/ t \in detached'[r]
                                                       \/ <<request'[r].contact, t>> \in tagged'
<1>1. request[r] # Idle
  BY Begins DEF Begun, Idle, Answered, Lost
<1>2. request'[r] \notin {Answered, Lost}
  BY DEF Answered, Lost
<1>3. SameRequest(request'[r], request[r])
  BY <1>1, <1>2, GoesOn
<1>4. /\ request[r].op = "attach" /\ request'[r].contact = request[r].contact
      /\ request'[r].tags = request[r].tags /\ request[r] \in Attaches
  BY <1>3, Kinds DEF SameRequest
<1>5. CASE request'[r] = request[r]
  <2>1. ASSUME request[r].step = "done"
        PROVE  \A t \in request[r].tags : \/ t \in detached'[r]
                                          \/ <<request[r].contact, t>> \in tagged'
    BY <1>4, <2>1, PairStays DEF AttachedInv, AttachedStays, At
  <2>2. ASSUME request[r].step = "found"
        PROVE  \A t \in request[r].found : \/ t \in detached'[r]
                                           \/ <<request[r].contact, t>> \in tagged'
    BY <1>4, <2>2, PairStays DEF AttachedInv, At
  <2>3. QED
    BY <1>5, <2>1, <2>2
<1>6. CASE FindTags(r)
  <2>1. request'[r].step = "found" /\ tagged' = tagged
    BY <1>4, <1>6 DEF FindTags, TypeOK, Attaches, rowVars
  <2>2. request'[r].found = {t \in Tags : <<request[r].contact, t>> \in tagged}
    BY <1>4, <1>6 DEF FindTags, TypeOK, Attaches
  <2>3. QED
    BY <1>4, <2>1, <2>2
<1>7. CASE InsertTags(r)
  <2> DEFINE new == request[r].tags \ request[r].found
             pairs == {request[r].contact} \X new
  <2>1. request'[r].step = "done"
    BY <1>4, <1>7 DEF InsertTags, To, TypeOK, Attaches
  <2>2. tagged' = tagged \cup pairs
    <3>1. CASE new \subseteq tags /\ pairs \cap tagged = {}
      BY <1>7, <3>1 DEF InsertTags
    <3>2. CASE ~(new \subseteq tags /\ pairs \cap tagged = {})
      <4>1. To(r, "failed")
        BY <1>7, <3>2 DEF InsertTags
      <4>2. QED
        BY <1>4, <2>1, <4>1 DEF To, TypeOK, Attaches
    <3>3. QED
      BY <3>1, <3>2
  <2>3. \A t \in new : <<request[r].contact, t>> \in tagged'
    BY <2>2
  <2>4. \A t \in request[r].found : <<request[r].contact, t>> \in tagged' \/ t \in detached'[r]
    BY <1>4, <1>7, PairStays DEF AttachedInv, InsertTags, At
  <2>5. QED
    BY <1>4, <2>1, <2>3, <2>4
<1>8. CASE InsertTag(r) \/ CountRows(r) \/ SelectRows(r) \/ SaveSettings(r)
  BY <1>4, <1>8 DEF InsertTag, CountRows, SelectRows, SaveSettings, At
<1>9. QED
  BY <1>1, <1>2, <1>5, <1>6, <1>7, <1>8, Moves

\* Tags that an answered request attached stay with the contact until they are
\* detached, and cannot be deleted before.
THEOREM Attached == Spec => []AttachedStays
<1>1. Init => AttachedInv
  BY DEF Init, AttachedInv, AttachedStays, At, Idle
<1>2. Inv /\ Inv' /\ AttachedInv /\ [Next]_vars => AttachedInv'
  BY AttachedStep DEF Inv
<1>3. AttachedInv => AttachedStays
  BY DEF AttachedInv
<1>4. QED
  BY InvHolds, <1>1, <1>2, <1>3, PTL DEF Spec

\* What a request that nobody met has looked up still holds: its tags are there,
\* those it did not find are not attached, and its name is free.
AttachChecked(r) ==
    /\ request[r].op = "attach" /\ request[r].step \in {"valid", "found"} =>
           request[r].tags \subseteq tags
    /\ At(r, "attach", "found") =>
           \A t \in request[r].tags \ request[r].found : <<request[r].contact, t>> \notin tagged

CreateChecked(r) == At(r, "create", "checked") => NameIsFree(request[r].tag)

CheckInv ==
    \A r \in Requests \ met : /\ AttachChecked(r) /\ CreateChecked(r)
                              /\ request[r].step # "failed"

LEMMA AttachCheckedStep ==
    ASSUME TypeOK, TypeOK', BoundInv, RunInv, CheckInv, [Next]_vars,
           NEW r \in Requests, r \notin met'
    PROVE  AttachChecked(r)'
<1> SUFFICES ASSUME request'[r].op = "attach", request'[r].step \in {"valid", "found"}
             PROVE  /\ request'[r].tags \subseteq tags'
                    /\ request'[r].step = "found" =>
                           \A t \in request'[r].tags \ request'[r].found :
                               <<request'[r].contact, t>> \notin tagged'
  BY DEF AttachChecked, At
<1>1. request'[r] \notin {Idle, Answered, Lost} /\ r \notin met
  BY MetGrows DEF Idle, Answered, Lost
<1>2. CASE request[r] = Idle
  BY <1>1, <1>2, Begins DEF Begun, rowVars
<1>3. CASE request[r] # Idle
  <2>1. SameRequest(request'[r], request[r])
    BY <1>1, <1>3, GoesOn
  <2>2. /\ request[r].op = "attach" /\ request'[r].contact = request[r].contact
        /\ request'[r].tags = request[r].tags /\ request[r] \in Attaches
    BY <2>1, Kinds DEF SameRequest
  <2>3. /\ request[r].contact \in contacts
        /\ request[r].tags \subseteq Tags
    BY <2>2 DEF BoundInv, Attaches
  <2>4. request[r].step \in {"valid", "found"} /\ request'[r] # request[r] => FindTags(r)
    <3>1. ASSUME InsertTags(r) PROVE request'[r].step \in {"done", "failed"}
      BY <2>2, <3>1 DEF InsertTags, To, Attaches, TypeOK
    <3>2. QED
      BY <1>1, <1>3, <2>2, <3>1, Moves
      DEF InsertTag, CountRows, SelectRows, SaveSettings, At
  <2>5. request[r].step \in {"valid", "found"}
    <3>1. CASE request'[r] = request[r]
      BY <3>1
    <3>2. CASE FindTags(r)
      BY <3>2 DEF FindTags, At
    <3>3. ASSUME InsertTags(r) PROVE FALSE
      BY <2>2, <3>3 DEF InsertTags, To, Attaches, TypeOK
    <3>4. QED
      BY <1>1, <1>3, <2>2, <3>1, <3>2, <3>3, Moves
      DEF InsertTag, CountRows, SelectRows, SaveSettings, At
  <2>6. r \in Of("attach")
    BY <2>2, <2>5 DEF Of, UnderWay
  <2>7. request[r].tags \subseteq tags'
    <3>1. request[r].tags \subseteq tags
      BY <1>1, <2>2, <2>5 DEF CheckInv, AttachChecked
    <3>2. ASSUME NEW q \in Requests, InsertTag(q) PROVE tags \subseteq tags'
      BY <3>2 DEF InsertTag
    <3>3. ASSUME NEW q \in Requests, DeleteTag(q) PROVE request[r].tags \subseteq tags'
      <4>1. request[q].tag \notin request[r].tags
        BY <2>6, <3>3 DEF DeleteTag, Meets
      <4>2. QED
        BY <3>1, <3>3, <4>1 DEF DeleteTag
    <3>4. ASSUME NEW w \in Workers, CommitImport(w) PROVE tags \subseteq tags'
      BY <3>4 DEF CommitImport
    <3>5. QED
      BY <3>1, <3>2, <3>3, <3>4, TagWrites
  <2>8. ASSUME request'[r].step = "found", NEW t \in request[r].tags, t \notin request'[r].found
        PROVE  <<request[r].contact, t>> \notin tagged'
    <3>1. CASE FindTags(r)
      <4>1. request'[r].found = {u \in Tags : <<request[r].contact, u>> \in tagged}
        BY <2>2, <3>1 DEF FindTags, TypeOK, Attaches
      <4>2. tagged' = tagged
        BY <3>1 DEF FindTags, rowVars
      <4>3. QED
        BY <2>3, <2>8, <4>1, <4>2
    <3>2. CASE request'[r] = request[r]
      <4>1. <<request[r].contact, t>> \notin tagged
        BY <1>1, <2>2, <2>8, <3>2 DEF CheckInv, AttachChecked, At
      <4>2. ASSUME NEW q \in Requests, InsertTags(q) PROVE <<request[r].contact, t>> \notin tagged'
        <5> DEFINE pairs == {request[q].contact} \X (request[q].tags \ request[q].found)
        <5>1. q # r
          BY <2>2, <3>2, <4>2 DEF InsertTags, To, Attaches, TypeOK
        <5>2. tagged' \subseteq tagged \cup pairs
          BY <4>2 DEF InsertTags
        <5>3. PairsOf(r) \cap pairs = {}
          BY <2>6, <4>2, <5>1 DEF InsertTags, Meets
        <5>4. <<request[r].contact, t>> \in PairsOf(r)
          BY <2>8 DEF PairsOf
        <5>5. QED
          BY <4>1, <5>2, <5>3, <5>4
      <4>3. ASSUME NEW q \in Requests, DetachTags(q) PROVE <<request[r].contact, t>> \notin tagged'
        BY <4>1, <4>3 DEF DetachTags
      <4>4. ASSUME NEW w \in Workers, CommitImport(w) PROVE <<request[r].contact, t>> \notin tagged'
        <5>1. worker[w].fresh => request[r].contact \notin RowsOf(worker[w].import)
          BY <2>3, <4>4 DEF RunInv, RowsNew, OnRows, CommitImport
        <5>2. QED
          BY <4>1, <4>4, <5>1 DEF CommitImport
      <4>5. QED
        BY <4>1, <4>2, <4>3, <4>4, PairWrites
    <3>3. QED
      BY <2>4, <2>5, <3>1, <3>2
  <2>9. QED
    BY <2>2, <2>7, <2>8
<1>4. QED
  BY <1>2, <1>3

LEMMA CreateCheckedStep ==
    ASSUME TypeOK, TypeOK', CheckInv, [Next]_vars, NEW r \in Requests, r \notin met'
    PROVE  CreateChecked(r)'
<1> SUFFICES ASSUME request'[r].op = "create", request'[r].step = "checked"
             PROVE  \A u \in tags' : NameOf[u] # NameOf[request'[r].tag]
  BY DEF CreateChecked, At, NameIsFree
<1>1. request'[r] \notin {Idle, Answered, Lost} /\ r \notin met
  BY MetGrows DEF Idle, Answered, Lost
<1>2. CASE request[r] = Idle
  BY <1>1, <1>2, Begins DEF Begun, rowVars, NameIsFree
<1>3. CASE request[r] # Idle
  <2> DEFINE t == request[r].tag
  <2>1. SameRequest(request'[r], request[r])
    BY <1>1, <1>3, GoesOn
  <2>2. request[r].op = "create" /\ request'[r].tag = t /\ request[r] \in Creates
    BY <2>1, Kinds DEF SameRequest
  <2>3. ~InsertTag(r)
    BY <1>1, <2>2 DEF InsertTag, To, Answer, Creates, TypeOK
  <2>4. request'[r] = request[r]
    BY <1>1, <1>3, <2>2, <2>3, Moves
    DEF FindTags, InsertTags, CountRows, SelectRows, SaveSettings, At
  <2>5. \A u \in tags : NameOf[u] # NameOf[t]
    BY <1>1, <2>2, <2>4 DEF CheckInv, CreateChecked, At, NameIsFree
  <2>6. r \in Of("create")
    BY <2>2, <2>4 DEF Of, UnderWay
  <2>7. ASSUME NEW q \in Requests, InsertTag(q) PROVE \A u \in tags' : NameOf[u] # NameOf[t]
    <3>1. q # r
      BY <2>3, <2>7
    <3>2. NameOf[request[q].tag] # NameOf[t]
      BY <2>6, <2>7, <3>1 DEF InsertTag, Meets
    <3>3. tags' \subseteq tags \cup {request[q].tag}
      BY <2>7 DEF InsertTag
    <3>4. QED
      BY <2>5, <3>2, <3>3
  <2>8. ASSUME NEW q \in Requests, DeleteTag(q) PROVE \A u \in tags' : NameOf[u] # NameOf[t]
    BY <2>5, <2>8 DEF DeleteTag
  <2>9. ASSUME NEW w \in Workers, CommitImport(w) PROVE \A u \in tags' : NameOf[u] # NameOf[t]
    <3>1. NameOf[t] \notin {NameOf[u] : u \in worker[w].created}
      BY <2>6, <2>9 DEF CommitImport, Meets
    <3>2. tags' = tags \cup worker[w].created
      BY <2>9 DEF CommitImport
    <3>3. QED
      BY <2>5, <3>1, <3>2
  <2>10. \A u \in tags' : NameOf[u] # NameOf[t]
    BY <2>5, <2>7, <2>8, <2>9, TagWrites
  <2>11. QED
    BY <2>2, <2>10
<1>4. QED
  BY <1>2, <1>3

LEMMA CheckStep ==
    TypeOK /\ TypeOK' /\ BoundInv /\ RunInv /\ CheckInv /\ [Next]_vars => CheckInv'
<1> SUFFICES ASSUME TypeOK, TypeOK', BoundInv, RunInv, CheckInv, [Next]_vars,
                    NEW r \in Requests, r \notin met'
             PROVE  AttachChecked(r)' /\ CreateChecked(r)' /\ request'[r].step # "failed"
  BY DEF CheckInv
<1>1. r \notin met
  BY MetGrows
<1>2. request'[r].step # "failed"
  <2>1. CASE request[r] = Idle
    BY <2>1, Begins DEF Begun, Idle, Answered, Lost
  <2>2. CASE request'[r] \in {Answered, Lost}
    BY <2>2 DEF Answered, Lost
  <2>3. CASE request'[r] = request[r]
    BY <1>1, <2>3 DEF CheckInv
  <2>4. CASE InsertTags(r)
    <3>1. request[r] \in Attaches
      BY <2>4, Kinds DEF InsertTags, At
    <3>2. AttachChecked(r)
      BY <1>1 DEF CheckInv
    <3>3. request[r].tags \subseteq tags
      BY <2>4, <3>2 DEF InsertTags, AttachChecked, At
    <3>4. ({request[r].contact} \X (request[r].tags \ request[r].found)) \cap tagged = {}
      BY <2>4, <3>2 DEF InsertTags, AttachChecked
    <3>5. To(r, "done")
      BY <2>4, <3>3, <3>4 DEF InsertTags
    <3>6. QED
      BY <3>1, <3>5 DEF To, Attaches, TypeOK
  <2>5. CASE InsertTag(r)
    <3>1. NameIsFree(request[r].tag)
      BY <1>1, <2>5 DEF InsertTag, CheckInv, CreateChecked
    <3>2. Answer(r)
      BY <2>5, <3>1 DEF InsertTag
    <3>3. QED
      BY <3>2 DEF Answer, Answered, TypeOK
  <2>6. CASE FindTags(r)
    BY <2>6, Kinds DEF FindTags, At, Attaches, TypeOK
  <2>7. CASE CountRows(r) \/ SelectRows(r)
    BY <2>7, Kinds DEF CountRows, SelectRows, At, Listings, TypeOK
  <2>8. CASE SaveSettings(r)
    BY <2>8, Kinds DEF SaveSettings, To, At, Saves, TypeOK
  <2>9. QED
    BY <2>1, <2>2, <2>3, <2>4, <2>5, <2>6, <2>7, <2>8, Moves
<1>3. QED
  BY <1>2, AttachCheckedStep, CreateCheckedStep

\* A key of the database refuses what a request had found to be free only when
\* somebody else wrote in between.
THEOREM ErrorsExplained == Spec => []ErrorNeedsOverlap
<1>1. Init => CheckInv
  BY DEF Init, CheckInv, AttachChecked, CreateChecked, At, Idle
<1>2. Inv /\ Inv' /\ CheckInv /\ [Next]_vars => CheckInv'
  BY CheckStep DEF Inv
<1>3. CheckInv => ErrorNeedsOverlap
  BY DEF CheckInv, ErrorNeedsOverlap
<1>4. QED
  BY InvHolds, <1>1, <1>2, <1>3, PTL DEF Spec
-----------------------------------------------------------------------------
(***************************************************************************)
(* Listings.                                                               *)
(***************************************************************************)
\* What a listing that nobody wrote beside has read is still so.
PageInv ==
    \A r \in Requests \ met : request[r].op = "list" =>
        LET rows == Matching(request[r].filter) IN
        /\ request[r].step \in {"select", "tags"} => request[r].total = Cardinality(rows)
        /\ request[r].step = "tags" =>
               /\ request[r].rows \subseteq rows
               /\ Cardinality(request[r].rows) = SizeOfPage(Cardinality(rows), request[r].page)

\* Who is in a segment depends on the contacts and on their tags alone, and every
\* step that writes those meets the listings under way.
LEMMA SegmentStays ==
    ASSUME TypeOK, [Next]_vars, NEW r \in Requests, r \in Of("list"), r \notin met', NEW filter
    PROVE  Matching(filter)' = Matching(filter)
<1>1. UNCHANGED <<contacts, tagged>>
  <2>1. \A q \in Requests, e \in Emails, given \in SUBSET Attributes : ~StoreContact(q, e, given)
    BY DEF StoreContact, Meets
  <2>2. \A q \in Requests : ~InsertTags(q) /\ ~DetachTags(q)
    BY DEF InsertTags, DetachTags, Meets
  <2>3. \A w \in Workers : ~CommitImport(w)
    BY DEF CommitImport, Meets
  <2>4. QED
    BY <2>1, <2>2, <2>3, Steps
    DEF ReadContact, BeginTagging, FindSegment, CheckTag, FindTag, ReadImport, Begin, rowVars,
        WriteContact, InsertTag, DeleteTag, FindTags, CountRows, SelectRows, AnswerPage, SaveSettings,
        QueueImport, LoseRequest, CreateImport, Job, TakeImport, FindImport, CreateTags,
        UpsertContacts, AttachTags, FailImport, StallImport, vars
<1>2. \A e : Matches(filter, e)' = Matches(filter, e)
  BY <1>1 DEF Matches, GroupHolds, Holds
<1>3. QED
  BY <1>1, <1>2 DEF Matching

\* A page of n rows: not empty when there is a row and it is the first, and all
\* that earlier pages have not when it is the last.
LEMMA PageSizes ==
    ASSUME NEW n \in Nat, NEW page \in {1, 2}
    PROVE  /\ SizeOfPage(n, page) \in Nat /\ SizeOfPage(n, page) <= n
           /\ page = 1 /\ n # 0 => SizeOfPage(n, page) # 0
           /\ n <= page * PerPage => n - SizeOfPage(n, page) <= (page - 1) * PerPage
<1>1. PerPage \in Nat \ {0}
  BY ContactsAssumption
<1>2. CASE page = 1
  BY <1>1, <1>2 DEF SizeOfPage
<1>3. CASE page = 2
  BY <1>1, <1>3 DEF SizeOfPage
<1>4. QED
  BY <1>2, <1>3

LEMMA PageStep == TypeOK /\ TypeOK' /\ PageInv /\ [Next]_vars => PageInv'
<1> DEFINE Counted(n, rows) == n = Cardinality(rows)
           Read(S, rows, page) == /\ S \subseteq rows
                                  /\ Cardinality(S) = SizeOfPage(Cardinality(rows), page)
<1> SUFFICES ASSUME TypeOK, TypeOK', PageInv, [Next]_vars,
                    NEW r \in Requests, r \notin met', request'[r].op = "list"
             PROVE  /\ request'[r].step \in {"select", "tags"} =>
                           Counted(request'[r].total, Matching(request[r].filter)')
                    /\ request'[r].step = "tags" =>
                           Read(request'[r].rows, Matching(request[r].filter)', request'[r].page)
  BY DEF PageInv
<1>1. request'[r] \notin {Idle, Answered, Lost} /\ r \notin met
  BY MetGrows DEF Idle, Answered, Lost
<1>2. CASE request[r] = Idle
  BY <1>1, <1>2, Begins DEF Begun
<1>3. CASE request[r] # Idle
  <2> DEFINE rows == Matching(request[r].filter)
  <2>1. SameRequest(request'[r], request[r])
    BY <1>1, <1>3, GoesOn
  <2>2. /\ request[r].op = "list" /\ request'[r].filter = request[r].filter
        /\ request'[r].page = request[r].page /\ request[r] \in Listings
    BY <2>1, Kinds DEF SameRequest
  <2>3. r \in Of("list")
    BY <2>2 DEF Of, UnderWay, Listings
  <2>4. Matching(request[r].filter)' = rows
    BY <1>1, <2>2, <2>3, SegmentStays DEF Matching, Matches, GroupHolds, Holds
  <2>5. CASE request'[r] = request[r]
    BY <1>1, <2>2, <2>4, <2>5 DEF PageInv
  <2>6. CASE CountRows(r)
    BY <2>2, <2>4, <2>6 DEF CountRows, Listings, TypeOK
  <2>7. CASE SelectRows(r)
    <3>1. PICK S \in SUBSET rows :
              /\ Cardinality(S) = SizeOfPage(Cardinality(rows), request[r].page)
              /\ request' = [request EXCEPT ![r].step = "tags", ![r].rows = S]
      BY <2>7 DEF SelectRows
    <3>2. request[r].step = "select" /\ request[r].total = Cardinality(rows)
      BY <1>1, <2>2, <2>7 DEF SelectRows, PageInv, At
    <3>3. /\ request'[r].step = "tags" /\ request'[r].rows = S
          /\ request'[r].total = request[r].total
      <4>1. request'[r] = [request[r] EXCEPT !.step = "tags", !.rows = S]
        BY <3>1 DEF TypeOK
      <4>2. QED
        BY <2>2, <4>1 DEF Listings
    <3>4. Counted(request'[r].total, rows)
      BY <3>2, <3>3
    <3>5. Read(request'[r].rows, rows, request'[r].page)
      BY <2>2, <3>1, <3>3
    <3>6. QED
      BY <2>4, <3>4, <3>5
  <2>8. QED
    BY <1>1, <1>3, <2>2, <2>5, <2>6, <2>7, Moves
    DEF FindTags, InsertTags, InsertTag, SaveSettings, At
<1>4. QED
  BY <1>2, <1>3

\* For Contacts!PageIsWhole (GetContactsAction, Paginator.paginate): a page that
\* nobody wrote beside is as long as it can be, and its total is the number of
\* contacts of the segment.
THEOREM PagesWhole == Spec => []PageIsWhole
<1>1. Init => PageInv
  BY DEF Init, PageInv, Idle
<1>2. Inv /\ Inv' /\ PageInv /\ [Next]_vars => PageInv'
  BY PageStep DEF Inv
<1>3. Inv /\ PageInv => PageIsWhole
  <2> SUFFICES ASSUME Inv, PageInv, NEW r \in Requests, At(r, "list", "tags"), r \notin met
               PROVE  LET rows == Matching(request[r].filter) IN
                      /\ request[r].total = Cardinality(rows)
                      /\ request[r].rows \subseteq rows
                      /\ request[r].page = 1 /\ rows # {} => request[r].rows # {}
                      /\ Cardinality(rows) <= request[r].page * PerPage =>
                             Cardinality(rows \ request[r].rows) <= (request[r].page - 1) * PerPage
    BY DEF PageIsWhole
  <2> DEFINE rows == Matching(request[r].filter)
             S    == request[r].rows
  <2>1. /\ request[r].total = Cardinality(rows) /\ S \subseteq rows
        /\ Cardinality(S) = SizeOfPage(Cardinality(rows), request[r].page)
    BY DEF PageInv, At
  <2>2. request[r].page \in {1, 2}
    BY Kinds DEF Inv, At, Listings
  <2>3. IsFiniteSet(rows)
    <3>1. rows \subseteq contacts
      BY DEF Matching
    <3>2. QED
      BY <3>1, FS_Subset DEF Inv, BoundInv
  <2>4. Cardinality(rows) \in Nat
    BY <2>3, FS_CardinalityType
  <2>5. Cardinality(rows \ S) = Cardinality(rows) - Cardinality(S)
    <3>1. rows \cap S = S
      BY <2>1
    <3>2. QED
      BY <2>3, <3>1, FS_Difference
  <2>6. rows # {} => Cardinality(rows) # 0
    BY <2>3, FS_EmptySet
  <2>7. S = {} => Cardinality(S) = 0
    BY FS_EmptySet
  <2> HIDE DEF rows, S
  <2>8. /\ request[r].page = 1 /\ rows # {} => S # {}
        /\ Cardinality(rows) <= request[r].page * PerPage =>
               Cardinality(rows \ S) <= (request[r].page - 1) * PerPage
    BY <2>1, <2>2, <2>4, <2>5, <2>6, <2>7, PageSizes
  <2>9. QED
    BY <2>1, <2>8 DEF rows, S
<1>4. QED
  BY InvHolds, <1>1, <1>2, <1>3, PTL DEF Spec
-----------------------------------------------------------------------------
(***************************************************************************)
(* Imports.                                                                *)
(***************************************************************************)
\* A job that waits is taken or goes on waiting.
LEMMA JobWaits ==
    ASSUME TypeOK, [Next]_vars, NEW i \in Imports, queued[i] > 0
    PROVE  queued'[i] > 0 \/ \E w \in Workers : TakeImport(w, i)
<1>1. CASE queued' = queued
  BY <1>1
<1>2. ASSUME NEW r \in Requests, QueueImport(r) PROVE queued'[i] > 0
  BY <1>2 DEF QueueImport, TypeOK
<1>3. ASSUME NEW w \in Workers, NEW j \in Imports, TakeImport(w, j)
      PROVE  queued'[i] > 0 \/ TakeImport(w, i)
  BY <1>3 DEF TakeImport, TypeOK
<1>4. ASSUME NEW w \in Workers, StallImport(w) PROVE queued'[i] > 0
  BY <1>4 DEF StallImport, TypeOK
<1>5. QED
  BY <1>1, <1>2, <1>3, <1>4, Steps
  DEF ReadContact, BeginTagging, FindSegment, CheckTag, FindTag, ReadImport, Begin, importVars,
      StoreContact, WriteContact, InsertTags, DetachTags, InsertTag, DeleteTag, FindTags, CountRows,
      SelectRows, AnswerPage, SaveSettings, LoseRequest, CreateImport, Job, FindImport, CreateTags,
      UpsertContacts, AttachTags, CommitImport, FailImport, vars

\* A run goes on, or ends as a success, with an error, or is handed out again.
LEMMA RunEnds ==
    ASSUME TypeOK, [Next]_vars, NEW w \in Workers, worker[w].import # None
    PROVE  \/ worker'[w].import = worker[w].import
           \/ CommitImport(w) \/ FailImport(w) \/ StallImport(w)
<1>1. worker \in [Workers -> Runs \cup {NoImport}] /\ worker[w] # NoImport
  BY DEF TypeOK, NoImport
<1>2. ASSUME NEW i \in Imports, TakeImport(w, i) PROVE FALSE
  BY <1>1, <1>2 DEF TakeImport
<1>3. ASSUME worker'[w] = NoImport PROVE CommitImport(w) \/ FailImport(w) \/ StallImport(w)
  <2>1. worker[w] \in Runs
    BY <1>1
  <2>2. ASSUME NEW r \in Requests, SaveSettings(r) PROVE FALSE
    BY <1>1, <1>3, <2>1, <2>2, ContactsAssumption DEF SaveSettings, Runs, NoImport
  <2>3. ASSUME NEW v \in Workers, NEW i \in Imports, TakeImport(v, i) PROVE FALSE
    BY <1>1, <1>3, <2>3 DEF TakeImport
  <2>4. ASSUME NEW v \in Workers, FindImport(v) \/ CreateTags(v) \/ UpsertContacts(v) \/ AttachTags(v)
        PROVE  FALSE
    <3>1. v = w
      BY <1>1, <1>3, <2>4 DEF FindImport, CreateTags, UpsertContacts, AttachTags
    <3>2. worker'[w].step # "idle"
      BY <1>1, <2>1, <2>4, <3>1 DEF FindImport, CreateTags, UpsertContacts, AttachTags, Runs
    <3>3. QED
      BY <1>3, <3>2 DEF NoImport
  <2>5. ASSUME NEW v \in Workers, CommitImport(v) \/ FailImport(v) \/ StallImport(v)
        PROVE  v = w
    BY <1>1, <1>3, <2>5 DEF CommitImport, FailImport, StallImport
  <2>6. worker' # worker
    BY <1>1, <1>3
  <2>7. QED
    BY <2>2, <2>3, <2>4, <2>5, <2>6, Steps
    DEF ReadContact, BeginTagging, FindSegment, CheckTag, FindTag, ReadImport, Begin, importVars,
        StoreContact, WriteContact, InsertTags, DetachTags, InsertTag, DeleteTag, FindTags, CountRows,
        SelectRows, AnswerPage, QueueImport, LoseRequest, CreateImport, Job, vars
<1>4. QED
  BY <1>2, <1>3, RunGoesOn

\* Saved settings stay so until their job is added or the request is lost.
LEMMA SavedStays ==
    ASSUME TypeOK, [Next]_vars, NEW r \in Requests, At(r, "save", "saved")
    PROVE  request'[r] = request[r] \/ QueueImport(r) \/ LoseRequest(r)
<1> USE DEF TypeOK
<1>1. request[r].op = "save" /\ request[r].step = "saved"
  BY DEF At
<1>2. ASSUME NEW q \in Requests, NEW record, Begin(q, record) PROVE request'[r] = request[r]
  BY <1>1, <1>2 DEF Begin, Idle
<1>3. ASSUME NEW q \in Requests,
             \/ \E e \in Emails, given \in SUBSET Attributes : StoreContact(q, e, given)
             \/ WriteContact(q) \/ InsertTags(q) \/ DetachTags(q) \/ InsertTag(q) \/ DeleteTag(q)
             \/ FindTags(q) \/ CountRows(q) \/ SelectRows(q) \/ AnswerPage(q) \/ SaveSettings(q)
      PROVE  request'[r] = request[r]
  <2>1. q # r
    BY <1>1, <1>3 DEF StoreContact, WriteContact, InsertTags, DetachTags, InsertTag, DeleteTag,
       FindTags, CountRows, SelectRows, AnswerPage, SaveSettings, At, Idle
  <2>2. QED
    BY <1>3, <2>1 DEF StoreContact, WriteContact, InsertTags, DetachTags, InsertTag, DeleteTag,
       FindTags, CountRows, SelectRows, AnswerPage, SaveSettings, To, Answer
<1>4. ASSUME NEW q \in Requests, QueueImport(q) \/ LoseRequest(q)
      PROVE  request'[r] = request[r] \/ QueueImport(r) \/ LoseRequest(r)
  BY <1>4 DEF QueueImport, LoseRequest, Answer
<1>5. ASSUME NEW i \in Imports, CreateImport(i) PROVE request'[r] = request[r]
  BY <1>5 DEF CreateImport
<1>6. ASSUME NEW w \in Workers, Job(w) PROVE request'[r] = request[r]
  BY <1>6 DEF Job, TakeImport, FindImport, CreateTags, UpsertContacts, AttachTags,
              CommitImport, FailImport, StallImport
<1>7. CASE UNCHANGED vars
  BY <1>7 DEF vars
<1>8. QED
  BY <1>2, <1>3, <1>4, <1>5, <1>6, <1>7, Steps
  DEF ReadContact, BeginTagging, FindSegment, CheckTag, FindTag, ReadImport

\* The steps that write the status of an import; and a run that failed did.
LEMMA StatusWrites ==
    ASSUME TypeOK, [Next]_vars, NEW i \in Imports
    PROVE  /\ \/ status'[i] = status[i] \/ status'[i] = "PENDING"
              \/ \E r \in Requests : SaveSettings(r) /\ request[r].import = i
              \/ \E w \in Workers : CommitImport(w) /\ worker[w].import = i
           /\ broken \subseteq broken'
<1> USE DEF TypeOK
<1> DEFINE Goal == /\ \/ status'[i] = status[i] \/ status'[i] = "PENDING"
                      \/ \E r \in Requests : SaveSettings(r) /\ request[r].import = i
                      \/ \E w \in Workers : CommitImport(w) /\ worker[w].import = i
                   /\ broken \subseteq broken'
<1>1. CASE UNCHANGED <<status, broken>>
  BY <1>1
<1>2. ASSUME NEW r \in Requests, SaveSettings(r) PROVE Goal
  BY <1>2 DEF SaveSettings
<1>3. ASSUME NEW r \in Requests, LoseRequest(r) PROVE Goal
  BY <1>3 DEF LoseRequest
<1>4. ASSUME NEW j \in Imports, CreateImport(j) PROVE Goal
  BY <1>4 DEF CreateImport
<1>5. ASSUME NEW w \in Workers, CommitImport(w) PROVE Goal
  BY <1>5 DEF CommitImport
<1>6. ASSUME NEW w \in Workers, FailImport(w) PROVE Goal
  BY <1>6 DEF FailImport
<1>7. QED
  BY <1>1, <1>2, <1>3, <1>4, <1>5, <1>6, Steps
  DEF ReadContact, BeginTagging, FindSegment, CheckTag, FindTag, ReadImport, Begin, importVars,
      StoreContact, WriteContact, InsertTags, DetachTags, InsertTag, DeleteTag, FindTags, CountRows,
      SelectRows, AnswerPage, QueueImport, Job, TakeImport, FindImport, CreateTags, UpsertContacts,
      AttachTags, StallImport, vars

LEMMA ProcessingStep == Inv /\ ProcessingHasRun /\ [Next]_vars => ProcessingHasRun'
<1> DEFINE Underway(i) == \/ queued[i] > 0
                          \/ \E w \in Workers : worker[w].import = i
                          \/ \E r \in Requests : At(r, "save", "saved") /\ request[r].import = i
                          \/ i \in broken
<1> SUFFICES ASSUME Inv, ProcessingHasRun, [Next]_vars,
                    NEW i \in Imports, status'[i] = "PROCESSING"
             PROVE  Underway(i)'
  BY DEF ProcessingHasRun
<1>1. TypeOK /\ i # None
  BY ContactsAssumption DEF Inv
<1>2. ASSUME NEW w \in Workers, CommitImport(w), worker[w].import = i PROVE FALSE
  BY <1>1, <1>2 DEF CommitImport, TypeOK
<1>3. ASSUME NEW r \in Requests, SaveSettings(r), request[r].import = i PROVE Underway(i)'
  <2>1. request[r] \in Saves
    BY <1>1, <1>3, Kinds DEF SaveSettings, At
  <2>2. request'[r] = [request[r] EXCEPT !.step = "saved"]
    BY <1>1, <1>3 DEF SaveSettings, To, TypeOK
  <2>3. request'[r].op = "save" /\ request'[r].step = "saved" /\ request'[r].import = i
    BY <1>3, <2>1, <2>2 DEF Saves
  <2>4. QED
    BY <2>3 DEF At
<1>4. CASE status[i] = "PROCESSING"
  <2>1. CASE queued[i] > 0
    <3>1. ASSUME NEW w \in Workers, TakeImport(w, i) PROVE worker'[w].import = i
      BY <1>1, <3>1 DEF TakeImport, TypeOK, NoImport
    <3>2. QED
      BY <1>1, <2>1, <3>1, JobWaits
  <2>2. ASSUME NEW w \in Workers, worker[w].import = i PROVE Underway(i)'
    <3>1. CASE worker'[w].import = i
      BY <3>1
    <3>2. CASE FailImport(w)
      BY <2>2, <3>2 DEF FailImport
    <3>3. CASE StallImport(w)
      BY <1>1, <2>2, <3>3 DEF StallImport, TypeOK
    <3>4. QED
      BY <1>1, <1>2, <2>2, <3>1, <3>2, <3>3, RunEnds
  <2>3. ASSUME NEW r \in Requests, At(r, "save", "saved"), request[r].import = i
        PROVE  Underway(i)'
    <3>1. CASE request'[r] = request[r]
      BY <2>3, <3>1 DEF At
    <3>2. CASE QueueImport(r)
      BY <1>1, <2>3, <3>2 DEF QueueImport, TypeOK
    <3>3. CASE LoseRequest(r)
      BY <2>3, <3>3 DEF LoseRequest
    <3>4. QED
      BY <1>1, <2>3, <3>1, <3>2, <3>3, SavedStays
  <2>4. CASE i \in broken
    BY <1>1, <2>4, StatusWrites
  <2>5. QED
    BY <1>4, <2>1, <2>2, <2>3, <2>4 DEF ProcessingHasRun
<1>5. QED
  BY <1>1, <1>2, <1>3, <1>4, StatusWrites

\* For Contacts!ProcessingHasRun (ImportContactsAction, ImportContactsJob): an
\* import that is said to be processed waits for its job, has it or is about to
\* get it, unless a run of it failed or its request was lost.
THEOREM ProcessingRuns == Spec => []ProcessingHasRun
<1>1. Init => ProcessingHasRun
  BY DEF Init, ProcessingHasRun
<1>2. Inv /\ ProcessingHasRun /\ [Next]_vars => ProcessingHasRun'
  BY ProcessingStep
<1>3. QED
  BY InvHolds, <1>1, <1>2, PTL DEF Spec

\* What an import has to have written when it becomes a success.
Whole(i) ==
    \A e \in RowsOf(i) :
        /\ e \in contacts'
        /\ \A t \in settings[i].tagIds : <<e, t>> \in tagged'
        /\ \A n \in settings[i].tags : \E t \in tags' : NameOf[t] = n /\ <<e, t>> \in tagged'

LEMMA CommitWhole ==
    ASSUME TypeOK, RunInv, NEW w \in Workers, CommitImport(w), ~worker[w].late
    PROVE  Whole(worker[w].import)
<1> DEFINE run == worker[w]
           i   == run.import
<1>1. /\ contacts' = contacts \cup RowsOf(i) /\ tags' = tags \cup run.created
      /\ tagged' = tagged \cup (IF run.fresh THEN RowsOf(i) \X TagsFor(run) ELSE {})
      /\ run.step = "commit"
  BY DEF CommitImport
<1>2. /\ run.settings = settings[i] /\ {NameOf[t] : t \in run.created} = settings[i].tags
      /\ run.fresh \/ TagsFor(run) = {}
  BY <1>1 DEF RunInv, SettingsRead, NamesGiven, Ready
<1>3. \A e \in RowsOf(i), t \in TagsFor(run) : <<e, t>> \in tagged'
  <2>1. CASE run.fresh
    BY <1>1, <2>1
  <2>2. CASE TagsFor(run) = {}
    BY <2>2
  <2>3. QED
    BY <1>2, <2>1, <2>2
<1>4. settings[i].tagIds \subseteq TagsFor(run) /\ run.created \subseteq TagsFor(run)
  BY <1>2 DEF TagsFor
<1>5. \A n \in settings[i].tags : \E t \in run.created : NameOf[t] = n
  BY <1>2
<1>6. ASSUME NEW e \in RowsOf(i), NEW n \in settings[i].tags
      PROVE  \E t \in tags' : NameOf[t] = n /\ <<e, t>> \in tagged'
  <2>1. PICK t \in run.created : NameOf[t] = n
    BY <1>5
  <2>2. t \in tags' /\ <<e, t>> \in tagged'
    BY <1>1, <1>3, <1>4
  <2>3. QED
    BY <2>1, <2>2
<1>7. QED
  BY <1>1, <1>3, <1>4, <1>6 DEF Whole

\* For Contacts!SuccessIsWhole (ImportContactsAction): an import becomes a success
\* together with all of its contacts, each with all of the tags its settings ask
\* for, unless they were saved again while it ran.
THEOREM SuccessWhole == Spec => SuccessIsWhole
<1>1. Inv /\ [Next]_vars =>
          [\A i \in Imports :
              status[i] # "SUCCESS" /\ status'[i] = "SUCCESS" =>
                  \/ \E w \in Workers : worker[w].import = i /\ worker[w].late
                  \/ \A e \in RowsOf(i) :
                         /\ e \in contacts'
                         /\ \A t \in settings[i].tagIds : <<e, t>> \in tagged'
                         /\ \A n \in settings[i].tags :
                                \E t \in tags' : NameOf[t] = n /\ <<e, t>> \in tagged']_vars
  <2> SUFFICES ASSUME Inv, [Next]_vars, NEW i \in Imports,
                      status[i] # "SUCCESS", status'[i] = "SUCCESS"
               PROVE  (\E w \in Workers : worker[w].import = i /\ worker[w].late) \/ Whole(i)
    BY DEF Whole
  <2>1. ASSUME NEW r \in Requests, SaveSettings(r), request[r].import = i PROVE FALSE
    BY <2>1 DEF SaveSettings, Inv, TypeOK
  <2>2. PICK w \in Workers : CommitImport(w) /\ worker[w].import = i
    BY <2>1, StatusWrites DEF Inv
  <2>3. QED
    BY <2>2, CommitWhole DEF Inv
<1>2. QED
  BY InvHolds, <1>1, PTL DEF Spec, SuccessIsWhole
=============================================================================
