---------------------------- MODULE BroadcastEdit ----------------------------
(***************************************************************************)
(* PUT and DELETE /broadcasts/:id of one broadcast, in one API process.    *)
(*                                                                         *)
(* UpdateBroadcastAction writes the row, its content, and its A/B variants *)
(* with their contents in one transaction, from a row that the controller  *)
(* read before the transaction began.  All requests of the process share   *)
(* one MySQL session (see SharedSession), so that statements, COMMITs and  *)
(* ROLLBACKs of concurrent requests act on one another.                    *)
(*                                                                         *)
(* A content that is only rewritten, and the columns of the row other than *)
(* isAbTest and emailContentId, do not appear.                             *)
(***************************************************************************)
EXTENDS Naturals, Sequences, FiniteSetsExt

CONSTANTS
    Updates,  \* PUT requests, each made at most once
    Bodies,   \* their payloads: are there other fields, is there a content,
              \* and the weights of the variants without an id
    MaxNew,   \* variants in a payload, at most 5 in the code
    Hundred,  \* 100 in the code
    None      \* no content

ASSUME EditAssumption ==
    /\ None \notin Updates
    /\ MaxNew \in Nat
    /\ Bodies \subseteq [fields : BOOLEAN, content : BOOLEAN, new : Seq(Nat)]
    /\ \A b \in Bodies : Len(b.new) <= MaxNew
    /\ Hundred \in Nat

\* The rows an update inserts are named after it: the content of the broadcast
\* is number 0, the variants and their contents are numbered from 1.
Variants == Updates \X (1 .. MaxNew)
Contents == Updates \X (0 .. MaxNew)
NewVariants(u, b) == {<<u, i>> : i \in DOMAIN b.new}

VARIABLES
    db,     \* what the session sees
    open,   \* is a transaction open in the session?
    undo,   \* what the session saw at the last BEGIN
    step,   \* of each update
    seen,   \* the row it read
    body,   \* its payload
    named,  \* the variants its payload names by id
    met     \* history: the updates that were under way while it was

session == <<db, open, undo>>
request == <<seen, body, named>>
vars    == <<session, step, request, met>>

InTransaction == {"row", "content", "link", "find", "contents", "variants", "commit"}

Databases ==
    [exists   : BOOLEAN,               \* the row of the broadcast
     isAbTest : BOOLEAN,
     content  : Updates \cup {None},   \* emailContentId: whose content
     contents : SUBSET Contents,
     variants : SUBSET Variants]

TypeOK ==
    /\ db \in Databases
    /\ open \in BOOLEAN
    /\ undo \in Databases
    /\ step \in [Updates -> {"idle", "read", "begin", "done", "rejected", "failed", "lost"}
                                \cup InTransaction]
    /\ seen \in [Updates -> [isAbTest : BOOLEAN, content : Updates \cup {None}]]
    /\ body \in [Updates -> Bodies]
    /\ named \in [Updates -> SUBSET Variants]
    /\ met \in [Updates -> SUBSET Updates]

\* BroadcastRepository.create: a draft without content.
Created == [exists |-> TRUE, isAbTest |-> FALSE, content |-> None,
            contents |-> {}, variants |-> {}]

Init ==
    /\ db = Created
    /\ open = FALSE
    /\ undo = Created
    /\ step = [u \in Updates |-> "idle"]
    /\ seen = [u \in Updates |-> [isAbTest |-> FALSE, content |-> None]]
    /\ body \in [Updates -> Bodies]
    /\ named = [u \in Updates |-> {}]
    /\ met = [u \in Updates |-> {}]
-----------------------------------------------------------------------------
UnderWay == {u \in Updates : step[u] \in {"read", "begin"} \cup InTransaction}

GoTo(u, s) == step' = [step EXCEPT ![u] = s]

HasVariants(u) == body[u].new # <<>> \/ named[u] # {}

Weight(v) == body[v[1]].new[v[2]]

\* The controller reads the row; without one the request is refused.
Read(u) ==
    /\ step[u] = "idle"
    /\ IF db.exists
       THEN /\ GoTo(u, "read")
            /\ seen' = [seen EXCEPT ![u] = [isAbTest |-> db.isAbTest, content |-> db.content]]
            /\ met' = [v \in Updates |-> IF v = u THEN UnderWay
                                         ELSE IF v \in UnderWay THEN met[v] \cup {u}
                                         ELSE met[v]]
       ELSE GoTo(u, "rejected") /\ UNCHANGED <<seen, met>>
    /\ UNCHANGED <<session, body, named>>

\* The payload is validated: the variants it names exist, and the weights in
\* it, those of named variants from 0 on, sum up to less than 100.
Validate(u) ==
    /\ step[u] = "read"
    /\ \/ /\ MapThenSumSet(Weight, NewVariants(u, body[u])) < Hundred
          /\ \E vs \in SUBSET db.variants : named' = [named EXCEPT ![u] = vs]
          /\ GoTo(u, "begin")
       \/ GoTo(u, "rejected") /\ UNCHANGED named
    /\ UNCHANGED <<session, seen, body, met>>

Begin(u) ==
    /\ step[u] = "begin"
    /\ GoTo(u, "row")
    /\ open' = TRUE
    /\ undo' = db
    /\ UNCHANGED <<db, request, met>>

\* A statement of the transaction, with which u comes to step s.
Statement(u, s, after) ==
    /\ GoTo(u, s)
    /\ db' = after
    /\ UNCHANGED <<open, undo, request, met>>

\* Mutant: a broadcast is an A/B test only if this payload has variants.
WriteRowAfresh(u) ==
    /\ step[u] = "row"
    /\ Statement(u, "content",
           IF body[u].fields /\ db.exists
           THEN [db EXCEPT !.isAbTest = HasVariants(u)]
           ELSE db)

WriteRow(u) ==
    /\ step[u] = "row"
    /\ Statement(u, "content",
           IF body[u].fields /\ db.exists
           THEN [db EXCEPT !.isAbTest = HasVariants(u) \/ seen[u].isAbTest]
           ELSE db)

\* EmailContentRepository.updateForBroadcast rewrites the content the row had,
\* or inserts one ...
WriteContent(u) ==
    /\ step[u] = "content"
    /\ IF body[u].content /\ seen[u].content = None
       THEN Statement(u, "link", [db EXCEPT !.contents = @ \cup {<<u, 0>>}])
       ELSE Statement(u, "find", db)

\* ... and links it.  The foreign key holds if the content is there.
LinkContent(u) ==
    /\ step[u] = "link"
    /\ IF db.exists
       THEN <<u, 0>> \in db.contents /\ Statement(u, "find", [db EXCEPT !.content = u])
       ELSE Statement(u, "find", db)

\* AbTestVariantRepository.bulkUpsertVariants looks the named variants up: one
\* that is gone makes it throw.
FindVariants(u) ==
    /\ step[u] = "find"
    /\ IF HasVariants(u)
       THEN named[u] \subseteq db.variants /\ Statement(u, "contents", db)
       ELSE Statement(u, "commit", db)

InsertContents(u) ==
    /\ step[u] = "contents"
    /\ Statement(u, "variants",
                 [db EXCEPT !.contents = @ \cup NewVariants(u, body[u])])

\* An insert of no rows throws, and so does one against a foreign key.
InsertVariants(u) ==
    /\ step[u] = "variants"
    /\ body[u].new # <<>>
    /\ db.exists
    /\ NewVariants(u, body[u]) \subseteq db.contents
    /\ Statement(u, "commit",
                 [db EXCEPT !.variants = @ \cup NewVariants(u, body[u])])

\* Mutant: COMMIT is not sent.
ForgetCommit(u) ==
    /\ step[u] = "commit"
    /\ GoTo(u, "done")
    /\ UNCHANGED <<session, request, met>>

Commit(u) ==
    /\ step[u] = "commit"
    /\ GoTo(u, "done")
    /\ open' = FALSE
    /\ UNCHANGED <<db, undo, request, met>>

\* Mutant: an error ends the transaction with COMMIT.
FailWithCommit(u) ==
    /\ step[u] \in InTransaction
    /\ GoTo(u, "failed")
    /\ open' = FALSE
    /\ UNCHANGED <<db, undo, request, met>>

\* A statement throws; what is open in the session is rolled back.
Fail(u) ==
    /\ step[u] \in InTransaction
    /\ GoTo(u, "failed")
    /\ db' = IF open THEN undo ELSE db
    /\ open' = FALSE
    /\ UNCHANGED <<undo, request, met>>

\* The variants go with the row, by the foreign key; the contents stay.
Delete ==
    /\ db.exists
    /\ db' = [db EXCEPT !.exists = FALSE, !.isAbTest = FALSE,
                        !.content = None, !.variants = {}]
    /\ UNCHANGED <<open, undo, step, request, met>>

Crash ==
    /\ UnderWay # {}
    /\ step' = [u \in Updates |-> IF u \in UnderWay THEN "lost" ELSE step[u]]
    /\ db' = IF open THEN undo ELSE db
    /\ open' = FALSE
    /\ UNCHANGED <<undo, request, met>>

Update(u) ==
    \/ Read(u) \/ Validate(u) \/ Begin(u) \/ WriteRow(u)
    \/ WriteContent(u) \/ LinkContent(u)
    \/ FindVariants(u) \/ InsertContents(u) \/ InsertVariants(u)
    \/ Commit(u) \/ Fail(u)

Next == (\E u \in Updates : Update(u)) \/ Delete \/ Crash

Spec == Init /\ [][Next]_vars
-----------------------------------------------------------------------------
EndedBadly(u) == step[u] \in {"failed", "lost"}

Linked == (IF db.content = None THEN {} ELSE {<<db.content, 0>>}) \cup db.variants

\* An update that met no other has, whatever its outcome, left no content that
\* neither the broadcast nor a variant refers to, as long as the broadcast is
\* there: its inserts and its links are committed or undone together.
NoOrphanWhenAlone ==
    \A u \in Updates :
        db.exists /\ met[u] = {} /\ u \notin UnderWay =>
            \A c \in db.contents : c[1] = u => c \in Linked

\* The variants of an update that was answered 200 are there as long as the
\* broadcast is, and so is some content if it brought one, unless an update
\* that it met failed or died.
AcknowledgedStays ==
    \A u \in Updates :
        /\ step[u] = "done" /\ db.exists
        /\ ~\E v \in met[u] : EndedBadly(v)
        => /\ NewVariants(u, body[u]) \subseteq db.variants
           /\ body[u].content => db.content # None

\* A broadcast that an update made an A/B test stays one: only an update that
\* was under way at the same time, with the row it had read, can undo it.
AbTestStays ==
    \A u \in Updates :
        /\ step[u] = "done" /\ db.exists
        /\ body[u].fields /\ HasVariants(u)
        /\ met[u] = {}
        => db.isAbTest
=============================================================================
