--------------------------- MODULE DeliveryPromise ---------------------------
(***************************************************************************)
(* What the queue of email jobs promises, whatever the handler does        *)
(* inside: a promised job hands the mail server between one and MaxMails   *)
(* mails before it is done, it may instead be given up, and it is never    *)
(* reopened.  The delivery is at least once, and at most MaxMails times.   *)
(***************************************************************************)
EXTENDS Naturals

CONSTANTS Jobs,     \* the jobs that can ever be promised
          MaxMails  \* how often one job may hand its mail to the mail server

VARIABLES outcome,  \* of each job
          mails     \* how many mails each job has handed over

vars == <<outcome, mails>>

TypeOK ==
    /\ outcome \in [Jobs -> {"absent", "open", "done", "dead"}]
    /\ mails \in [Jobs -> 0 .. MaxMails]

Init ==
    /\ outcome = [j \in Jobs |-> "absent"]
    /\ mails = [j \in Jobs |-> 0]

\* A page of jobs is added at once.
Promise(page) ==
    /\ \A j \in page : outcome[j] = "absent"
    /\ outcome' = [j \in Jobs |-> IF j \in page THEN "open" ELSE outcome[j]]
    /\ UNCHANGED mails

Mail(j) ==
    /\ outcome[j] = "open"
    /\ mails[j] < MaxMails
    /\ mails' = [mails EXCEPT ![j] = @ + 1]
    /\ UNCHANGED outcome

Finish(j) ==
    /\ outcome[j] = "open"
    /\ mails[j] > 0
    /\ outcome' = [outcome EXCEPT ![j] = "done"]
    /\ UNCHANGED mails

GiveUp(j) ==
    /\ outcome[j] = "open"
    /\ outcome' = [outcome EXCEPT ![j] = "dead"]
    /\ UNCHANGED mails

Settle == \E j \in Jobs : Finish(j) \/ GiveUp(j)

Next ==
    \/ \E page \in SUBSET Jobs : Promise(page)
    \/ \E j \in Jobs : Mail(j)
    \/ Settle

SafeSpec == Init /\ [][Next]_vars
Spec     == SafeSpec /\ WF_vars(Settle)
=============================================================================
