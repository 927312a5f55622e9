--------------------------- MODULE AbTestDispatch ---------------------------
(***************************************************************************)
(* SendAbTestBroadcastJob.handle: the contacts of a broadcast are split    *)
(* into one sample per A/B variant and a final sample.                     *)
(*                                                                         *)
(* The handler counts the contacts once, computes a window of offsets for  *)
(* each variant from that count, and then reads the windows page by page   *)
(* with LIMIT and OFFSET, ordered by id.  Contacts come and go between the *)
(* count and the pages, which shifts every later offset.                   *)
(*                                                                         *)
(* A weight is any integer: UpdateBroadcastDto bounds only the sum of the  *)
(* weights of one request, and the column is signed.  A negative weight    *)
(* gives its variant no batch, and moves the windows that follow back over *)
(* rows that were queued already.                                          *)
(*                                                                         *)
(* The module is about one execution of the handler; executions of a job   *)
(* that is run again are independent of each other.                        *)
(***************************************************************************)
EXTENDS Integers, FiniteSets

CONSTANTS
    Ids,          \* contacts.id of the audience; ORDER BY id is their order
    NumVariants,  \* rows of abTestVariants of the broadcast
    Weights,      \* values of abTestVariants.weight, in percent in the code
    Hundred,      \* 100 in the code; less in small instances
    BatchSize,    \* 75 in the code
    MaxChurn      \* bound: contacts that appear or vanish during the execution

Variants == 1 .. NumVariants
Final    == NumVariants + 1   \* the sample that waits for the winner
Samples  == 1 .. Final

ASSUME DispatchAssumption ==
    /\ Ids \subseteq Nat /\ IsFiniteSet(Ids)
    /\ NumVariants \in Nat \ {0}
    /\ Hundred \in Nat \ {0}
    /\ Weights \subseteq Int
    /\ BatchSize \in Nat \ {0}
    /\ MaxChurn \in Nat

VARIABLES
    matching,  \* contacts of the audience that the segment selects now
    step,      \* of the handler
    total,     \* totalContacts
    size,      \* of each variant's sample
    sample,    \* the sample being dispatched
    start,     \* its offset, which may be negative
    sent,      \* batch * batchSize: offset inside the sample of the next page
    times,     \* history: how often each contact was queued
    members,   \* history: the contacts queued for each sample
    back,      \* history: how far samples of a negative size moved the offset back
    stayed,    \* history: contacts counted that have matched ever since
    appeared,  \* history: contacts that appeared since the count
    vanished   \* history: contacts that vanished since the count

plan    == <<total, size>>
cursor  == <<sample, start, sent>>
queued  == <<times, members>>
churn   == <<stayed, appeared, vanished>>
vars    == <<matching, step, plan, cursor, queued, back, churn>>

TypeOK ==
    /\ matching \in SUBSET Ids
    /\ step \in {"count", "dispatch", "winner", "done", "failed"}
    /\ total \in Nat
    /\ size \in [Variants -> Int]
    /\ sample \in Samples
    /\ start \in Int
    /\ sent \in Nat
    /\ times \in [Ids -> Nat]
    /\ members \in [Samples -> SUBSET Ids]
    /\ back \in Nat
    /\ stayed \in SUBSET Ids
    /\ appeared \in 0 .. MaxChurn
    /\ vanished \in 0 .. MaxChurn

Init ==
    /\ matching \in SUBSET Ids
    /\ step = "count"
    /\ total = 0
    /\ size = [v \in Variants |-> 0]
    /\ sample = 1
    /\ start = 0
    /\ sent = 0
    /\ times = [c \in Ids |-> 0]
    /\ members = [s \in Samples |-> {}]
    /\ back = 0
    /\ stayed = {}
    /\ appeared = 0
    /\ vanished = 0
-----------------------------------------------------------------------------
\* Math.floor((weight / 100) * n) in floating point: a product that is exact may
\* come out a little too small and fall to the integer below
\* (0.29 * 100 = 28.999...).
Portion(weight, n) ==
    LET product == weight * n
        exact   == product \div Hundred
    IN  IF product # 0 /\ product % Hundred = 0 THEN {exact - 1, exact} ELSE {exact}

\* What is counted and every size that follows from it.
CountContacts ==
    /\ step = "count"
    /\ step' = "dispatch"
    /\ total' = Cardinality(matching)
    /\ size' \in [Variants -> UNION {Portion(w, total') : w \in Weights}]
    /\ stayed' = matching
    /\ UNCHANGED <<matching, cursor, queued, back, appeared, vanished>>

\* The place of a contact in the order of the rows.
Rank(c, rows) == Cardinality({d \in rows : d < c})

SampleSize == IF sample = Final THEN total - start ELSE size[sample]

\* Mutant: the pages of a variant are not cut off at the end of its sample.
FullPageSize == BatchSize

\* A page of a variant ends with its sample; a page of the final sample is as
\* long as a batch.
PageSize ==
    IF sample = Final \/ SampleSize - sent > BatchSize THEN BatchSize
                                                       ELSE SampleSize - sent

\* Mutant: off by one at the end of a page.
PageAndOneMore == {c \in matching : /\ start + sent <= Rank(c, matching)
                                    /\ Rank(c, matching) <= start + sent + PageSize}

\* SELECT id ... ORDER BY id LIMIT PageSize OFFSET start + sent.
Page == {c \in matching : /\ start + sent <= Rank(c, matching)
                          /\ Rank(c, matching) < start + sent + PageSize}

\* MySQL refuses an OFFSET below zero (Fail).
QueuePage ==
    /\ step = "dispatch"
    /\ sent < SampleSize
    /\ start + sent >= 0
    /\ times' = [c \in Ids |-> IF c \in Page THEN times[c] + 1 ELSE times[c]]
    /\ members' = [members EXCEPT ![sample] = @ \cup Page]
    /\ sent' = sent + BatchSize
    /\ UNCHANGED <<matching, step, plan, sample, start, back, churn>>

Positive(n) == IF n > 0 THEN n ELSE 0

\* Mutant: the next sample starts after whole pages.
NextSampleAfterPages ==
    /\ step = "dispatch"
    /\ sent >= SampleSize
    /\ sample # Final
    /\ sample' = sample + 1
    /\ start' = start + sent
    /\ back' = back + Positive(-size[sample])
    /\ sent' = 0
    /\ UNCHANGED <<matching, step, plan, queued, churn>>

NextSample ==
    /\ step = "dispatch"
    /\ sent >= SampleSize
    /\ sample # Final
    /\ sample' = sample + 1
    /\ start' = start + size[sample]
    /\ back' = back + Positive(-size[sample])
    /\ sent' = 0
    /\ UNCHANGED <<matching, step, plan, queued, churn>>

SamplesDone ==
    /\ step = "dispatch"
    /\ sent >= SampleSize
    /\ sample = Final
    /\ step' = "winner"
    /\ UNCHANGED <<matching, plan, cursor, queued, back, churn>>

SchedulePickWinner ==
    /\ step = "winner"
    /\ step' = "done"
    /\ UNCHANGED <<matching, plan, cursor, queued, back, churn>>

\* The row or its audience is gone, or a query or addBulk throws: always when
\* the offset of a page is negative.
Fail ==
    /\ step \in {"count", "dispatch", "winner"}
    /\ step' = "failed"
    /\ UNCHANGED <<matching, plan, cursor, queued, back, churn>>

Running == step \in {"dispatch", "winner"}

\* A contact is created, or begins to match.  Before the count it does not
\* matter: any set may be counted.
Appear(c) ==
    /\ Running
    /\ appeared < MaxChurn
    /\ c \notin matching
    /\ matching' = matching \cup {c}
    /\ appeared' = appeared + 1
    /\ UNCHANGED <<step, plan, cursor, queued, back, stayed, vanished>>

Vanish(c) ==
    /\ Running
    /\ vanished < MaxChurn
    /\ c \in matching
    /\ matching' = matching \ {c}
    /\ stayed' = stayed \ {c}
    /\ vanished' = vanished + 1
    /\ UNCHANGED <<step, plan, cursor, queued, back, appeared>>

Handler ==
    \/ CountContacts \/ QueuePage \/ NextSample
    \/ SamplesDone \/ SchedulePickWinner \/ Fail

Next == Handler \/ \E c \in Ids : Appear(c) \/ Vanish(c)

Spec == Init /\ [][Next]_vars
-----------------------------------------------------------------------------
Dispatched == step \in {"winner", "done"}
Quiet      == appeared = 0 /\ vanished = 0

\* An execution during which no contact came or went queues every contact that
\* matches, and exactly once unless a sample of negative size moved the offset
\* back, whatever the weights, rounding and page size.
ExactlyOnceWhenQuiet ==
    Dispatched /\ Quiet =>
        \A c \in Ids : IF c \in matching THEN times[c] >= 1 /\ (back = 0 => times[c] = 1)
                                         ELSE times[c] = 0

\* ... and the sample of a variant has the size its weight gives it, none for a
\* negative one, unless the sizes that are not negative (start + back) add up to
\* more than the whole.
SampleSizesWhenQuiet ==
    Dispatched /\ Quiet /\ start + back <= total =>
        \A v \in Variants : Cardinality(members[v]) = Positive(size[v])

\* Of the contacts that matched all along, no more are passed over than others
\* vanished during the execution, or than others appeared, whichever is more.
MissedBounded ==
    Dispatched => LET missed == Cardinality({c \in stayed : times[c] = 0})
                  IN  missed <= vanished \/ missed <= appeared

\* The times a contact was queued after the first.
Repeats == UNION {{c} \X (2 .. times[c]) : c \in Ids}

\* Contacts are queued again only because others appeared, one for each, or
\* because a negative size moved the offset back, one for each row of it.
RepeatsBounded == Cardinality(Repeats) <= appeared + back
=============================================================================
