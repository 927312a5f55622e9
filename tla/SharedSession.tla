---------------------------- MODULE SharedSession ----------------------------
(***************************************************************************)
(* Transactions on the one database connection of a process.               *)
(*                                                                         *)
(* startDatabaseConnector opens a single MySQL connection and registers    *)
(* one Drizzle client on it.  Every request of the API process, and every  *)
(* job of the eight queues of a worker process, talks to the database      *)
(* through that session.  database.transaction(f) sends BEGIN, runs f, and *)
(* sends COMMIT, or ROLLBACK when f throws; on a client that is no pool    *)
(* all of this goes to the same session, in the order in which the         *)
(* handlers' awaits happen to interleave.  To MySQL there is at most one   *)
(* open transaction, and a second BEGIN commits the first.                 *)
(***************************************************************************)
EXTENDS Naturals

CONSTANTS
    Transactional,  \* handlers that use database.transaction
    Plain,          \* handlers that send one statement outside of it
    NumWrites       \* statements that write in a transaction

Handlers == Transactional \cup Plain

ASSUME SessionAssumption ==
    /\ Transactional \cap Plain = {}
    /\ NumWrites \in Nat \ {0}

Last(h)   == IF h \in Plain THEN 1 ELSE NumWrites
Writes(h) == {<<h, i>> : i \in 1 .. Last(h)}

VARIABLES
    saved,  \* the writes whose effect the session sees
    open,   \* is a transaction open in the session?
    undo,   \* what the session saw at the last BEGIN
    state,  \* of each handler
    made,   \* how many writes it has sent
    met     \* history: the handlers that ran while it ran

session == <<saved, open, undo>>
vars    == <<session, state, made, met>>

TypeOK ==
    /\ saved \in SUBSET (Handlers \X (1 .. NumWrites))
    /\ open \in BOOLEAN
    /\ undo \in SUBSET (Handlers \X (1 .. NumWrites))
    /\ state \in [Handlers -> {"idle", "running", "done", "failed", "lost"}]
    /\ made \in [Handlers -> 0 .. NumWrites]
    /\ met \in [Handlers -> SUBSET Handlers]

Init ==
    /\ saved = {}
    /\ open = FALSE
    /\ undo = {}
    /\ state = [h \in Handlers |-> "idle"]
    /\ made = [h \in Handlers |-> 0]
    /\ met = [h \in Handlers |-> {}]
-----------------------------------------------------------------------------
Running == {h \in Handlers : state[h] = "running"}

\* h meets everybody who runs now.
Meets(h) ==
    met' = [g \in Handlers |-> IF g = h THEN Running
                               ELSE IF g \in Running THEN met[g] \cup {h}
                               ELSE met[g]]

\* BEGIN: what an open transaction has written until now is committed.
Begin(h) ==
    /\ state[h] = "idle"
    /\ h \in Transactional
    /\ state' = [state EXCEPT ![h] = "running"]
    /\ open' = TRUE
    /\ undo' = saved
    /\ Meets(h)
    /\ UNCHANGED <<saved, made>>

\* A statement of a transaction, or of what is left of it.
Write(h) ==
    /\ state[h] = "running"
    /\ made[h] < NumWrites
    /\ made' = [made EXCEPT ![h] = @ + 1]
    /\ saved' = saved \cup {<<h, made[h] + 1>>}
    /\ UNCHANGED <<open, undo, state, met>>

\* Mutant: COMMIT is not sent.
ForgetCommit(h) ==
    /\ state[h] = "running"
    /\ made[h] = NumWrites
    /\ state' = [state EXCEPT ![h] = "done"]
    /\ UNCHANGED <<session, made, met>>

\* COMMIT ends the open transaction, whoever began it.
Commit(h) ==
    /\ state[h] = "running"
    /\ made[h] = NumWrites
    /\ state' = [state EXCEPT ![h] = "done"]
    /\ open' = FALSE
    /\ UNCHANGED <<saved, undo, made, met>>

\* Mutant: the error is swallowed and the transaction committed.
CommitOnError(h) ==
    /\ state[h] = "running"
    /\ state' = [state EXCEPT ![h] = "failed"]
    /\ open' = FALSE
    /\ UNCHANGED <<saved, undo, made, met>>

\* A statement, or other code of the handler, throws.  ROLLBACK undoes the
\* open transaction, whoever wrote in it, and nothing when none is open.
Rollback(h) ==
    /\ state[h] = "running"
    /\ state' = [state EXCEPT ![h] = "failed"]
    /\ saved' = IF open THEN undo ELSE saved
    /\ open' = FALSE
    /\ UNCHANGED <<undo, made, met>>

\* A handler without a transaction: its statement lands in whatever is open.
Statement(h) ==
    /\ state[h] = "idle"
    /\ h \in Plain
    /\ state' = [state EXCEPT ![h] = "done"]
    /\ made' = [made EXCEPT ![h] = 1]
    /\ saved' = saved \cup {<<h, 1>>}
    /\ Meets(h)
    /\ UNCHANGED <<open, undo>>

\* The process or its connection is gone: MySQL rolls back.
Crash ==
    /\ state' = [h \in Handlers |-> IF h \in Running THEN "lost" ELSE state[h]]
    /\ saved' = IF open THEN undo ELSE saved
    /\ open' = FALSE
    /\ UNCHANGED <<undo, made, met>>

Next ==
    \/ \E h \in Handlers : Begin(h) \/ Write(h) \/ Commit(h) \/ Rollback(h) \/ Statement(h)
    \/ Crash

Spec == Init /\ [][Next]_vars
-----------------------------------------------------------------------------
EndedBadly(h) == state[h] \in {"failed", "lost"}

\* A transaction that met no other transaction is atomic: when its handler
\* succeeded all its writes are there, for good, and when it failed or its
\* process died none is.  Single statements in between do not disturb it.
AtomicWhenAlone ==
    \A h \in Handlers : met[h] \cap Transactional = {} =>
        /\ state[h] = "done" => Writes(h) \subseteq saved
        /\ EndedBadly(h) => Writes(h) \cap saved = {}

\* A handler that was told of success and whose write is gone all the same
\* ran beside a transaction that failed or died: nothing else can take it.
LossNeedsRollback ==
    \A h \in Handlers :
        state[h] = "done" /\ ~(Writes(h) \subseteq saved)
        => \E g \in met[h] : EndedBadly(g)
=============================================================================
