---------------------------- MODULE AccountsProofs ----------------------------
(***************************************************************************)
(* What holds of invitations and memberships for any users, teams,         *)
(* addresses and requests.                                                 *)
(***************************************************************************)
EXTENDS Accounts, TLAPS

InviteStep(i) == \/ BeginInvite(i) \/ CheckMembership(i) \/ FindInvitee(i)
                 \/ InsertMembership(i) \/ QueueInvite(i)
                 \/ RefuseInvite(i) \/ LoseInvite(i) \/ Expire(i)

JobStep(i) == \/ TakeInvite(i) \/ FindInvite(i) \/ MailInvite(i)
              \/ FailInviteJob(i) \/ StallInviteJob(i)

ReplyStep(r) == \/ BeginReply(r) \/ ReadMembership(r) \/ ClaimMembership(r)
                \/ ActivateMembership(r) \/ DeleteMembership(r) \/ EndReply(r)

\* A step is one of a user, an invitation, a job or a reply.
LEMMA NextSplit ==
    ASSUME Next
    PROVE  \/ \E u \in Users : Register(u) \/ Login(u)
           \/ \E i \in Invites : InviteStep(i)
           \/ \E i \in Invites : JobStep(i)
           \/ \E r \in Replies : ReplyStep(r)
  BY DEF Next, InviteStep, JobStep, ReplyStep
-----------------------------------------------------------------------------
(***************************************************************************)
(* Types.  A job that is not settled has an attempt left.                  *)
(***************************************************************************)
LiveJobs == inviteJob \in [Invites -> LiveRecords(MailSteps, MailAttempts)]

\* A step of a job leaves it a live record that exists, and changes nothing but
\* the job and what was mailed.
LEMMA JobStepsLive ==
    ASSUME TypeOK, LiveJobs, NEW i \in Invites, JobStep(i)
    PROVE  /\ LiveJobs'
           /\ mailed' \subseteq Invites
           /\ mailed \subseteq mailed'
           /\ \A j \in Invites : Exists(inviteJob'[j]) <=> Exists(inviteJob[j])
           /\ UNCHANGED <<people, inviter, member, expired, reply>>
<1> USE AccountsAssumption
<1> DEFINE job == inviteJob[i]
<1>1. job \in LiveRecords(MailSteps, MailAttempts) /\ ~IsSettled(job) /\ Exists(job)
  BY DEF LiveJobs, JobStep, TakeInvite, FindInvite, MailInvite, FailInviteJob,
         StallInviteJob, CutOff, IsActive, IsSettled, Exists, Settled
<1>2. /\ \A step \in MailSteps : /\ At(job, step) \in LiveRecords(MailSteps, MailAttempts)
                                 /\ Exists(At(job, step))
      /\ Complete(job) \in LiveRecords(MailSteps, MailAttempts)
      /\ Exists(Complete(job))
  BY <1>1, MaxStalledAssumption
  DEF LiveRecords, JobRecords, MailSteps, At, Complete, IsSettled, Settled, Exists
<1>3. /\ AttemptFailed(job, MailAttempts) \in LiveRecords(MailSteps, MailAttempts)
      /\ Exists(AttemptFailed(job, MailAttempts))
  <2>1. job.made + 1 \in 0 .. MailAttempts
    BY <1>1 DEF LiveRecords, JobRecords
  <2>2. QED
    BY <1>1, <2>1 DEF LiveRecords, JobRecords, AttemptFailed, IsSettled, Settled, Exists
<1>4. Stall(job) \in LiveRecords(MailSteps, MailAttempts) /\ Exists(Stall(job))
  <2>1. /\ job \in JobRecords(MailSteps, MailAttempts)
        /\ job.stalls \in 0 .. MaxStalled /\ job.made < MailAttempts
    BY <1>1 DEF LiveRecords, JobRecords
  <2>2. CASE job.stalls < MaxStalled
    <3>1. job.stalls + 1 \in 0 .. MaxStalled
      BY <2>1, <2>2, MaxStalledAssumption
    <3>2. Stall(job) = [state |-> "waiting", made |-> job.made, stalls |-> job.stalls + 1]
      BY <2>1, <2>2 DEF Stall, JobRecords
    <3>3. QED
      BY <2>1, <3>1, <3>2 DEF LiveRecords, JobRecords, Exists
  <2>3. CASE ~(job.stalls < MaxStalled)
    <3>1. Stall(job) = [state |-> "failed", made |-> job.made, stalls |-> job.stalls]
      BY <2>1, <2>3 DEF Stall, JobRecords
    <3>2. QED
      BY <2>1, <3>1 DEF LiveRecords, JobRecords, IsSettled, Settled, Exists
  <2>4. QED
    BY <2>2, <2>3
<1>5. PICK new \in LiveRecords(MailSteps, MailAttempts) :
          Exists(new) /\ inviteJob' = [inviteJob EXCEPT ![i] = new]
  <2>1. CASE TakeInvite(i)
    BY <2>1, <1>2 DEF TakeInvite, MailJob, MailSteps
  <2>2. CASE FindInvite(i)
    BY <2>2, <1>2 DEF FindInvite, MailJob, MailSteps
  <2>3. CASE MailInvite(i)
    BY <2>3, <1>2 DEF MailInvite
  <2>4. CASE FailInviteJob(i)
    BY <2>4, <1>3 DEF FailInviteJob, CutOff
  <2>5. CASE StallInviteJob(i)
    BY <2>5, <1>4 DEF StallInviteJob, CutOff
  <2> QED BY <2>1, <2>2, <2>3, <2>4, <2>5 DEF JobStep
<1>6. LiveJobs'
  BY <1>5 DEF LiveJobs
<1>7. \A j \in Invites : Exists(inviteJob'[j]) <=> Exists(inviteJob[j])
  BY <1>1, <1>5 DEF LiveJobs
<1>8. mailed' \subseteq Invites /\ mailed \subseteq mailed'
  BY DEF JobStep, TakeInvite, FindInvite, MailInvite, FailInviteJob, StallInviteJob,
         CutOff, MailJob, TypeOK
<1>9. UNCHANGED <<people, inviter, member, expired, reply>>
  BY DEF JobStep, TakeInvite, FindInvite, MailInvite, FailInviteJob, StallInviteJob,
         CutOff, MailJob
<1> QED BY <1>6, <1>7, <1>8, <1>9

\* What an update may make of a row keeps the rows a function into Rows.
LEMMA UpdatedRows ==
    ASSUME member \in [Invites -> Rows], NEW i \in Invites, NEW row \in Rows
    PROVE  /\ Updated(i, row) \in [Invites -> Rows]
           /\ \A j \in Invites : Updated(i, row)[j] =
                  IF j = i /\ IsRow(i) THEN row ELSE member[j]
  BY DEF Updated

\* A request that is under way is a record of Requests.
LEMMA RequestUnderWay ==
    ASSUME TypeOK, NEW r \in Replies, reply[r].state # "idle"
    PROVE  /\ reply[r] \in Requests
           /\ reply[r].invite \in Invites /\ reply[r].user \in Users
           /\ member[reply[r].invite] \in Rows
  BY DEF TypeOK, NoRequest, Requests

\* The types are inductive together with the attempts that jobs have left.
LEMMA TypesKept ==
    ASSUME TypeOK, LiveJobs, [Next]_vars
    PROVE  TypeOK' /\ LiveJobs'
<1> USE AccountsAssumption
<1>1. ASSUME NEW u \in Users, Register(u) \/ Login(u) PROVE TypeOK' /\ LiveJobs'
  BY <1>1 DEF TypeOK, LiveJobs, Register, Login, inviter, mailing
<1>2. ASSUME NEW i \in Invites, InviteStep(i) PROVE TypeOK' /\ LiveJobs'
  <2>1. CASE BeginInvite(i) \/ CheckMembership(i) \/ RefuseInvite(i) \/ Expire(i)
    BY <1>2, <2>1 DEF TypeOK, LiveJobs, BeginInvite, CheckMembership, RefuseInvite, Expire,
                Invitation, PastCheck, people, inviter, mailing
  <2>2. CASE FindInvitee(i)
    <3>1. found' \in [Invites -> Users \cup {None}]
      <4>1. \A S \in SUBSET Users : S # {} => (CHOOSE u \in S : TRUE) \in Users
        OBVIOUS
      <4>2. UsersWith(InvitedEmail[i]) \in SUBSET Users
        BY DEF UsersWith, TypeOK
      <4> QED BY <2>2, <4>1, <4>2 DEF FindInvitee, TypeOK
    <3> QED BY <2>2, <3>1 DEF TypeOK, LiveJobs, FindInvitee, Invitation, people, mailing
  <2>3. CASE InsertMembership(i)
    <3>1. [status |-> "PENDING", user |-> found[i]] \in Rows
      BY DEF TypeOK, Rows
    <3> QED BY <2>3, <3>1 DEF TypeOK, LiveJobs, InsertMembership, Invitation, people, mailing
  <2>4. CASE QueueInvite(i) \/ LoseInvite(i)
    <3>1. Added \in LiveRecords(MailSteps, MailAttempts)
      BY MaxStalledAssumption DEF LiveRecords, JobRecords, Added
    <3> QED BY <2>4, <3>1 DEF TypeOK, LiveJobs, LiveRecords, QueueInvite, LoseInvite,
                              Invitation, people
  <2> QED BY <1>2, <2>1, <2>2, <2>3, <2>4 DEF InviteStep
<1>3. ASSUME NEW i \in Invites, JobStep(i) PROVE TypeOK' /\ LiveJobs'
  BY <1>3, JobStepsLive DEF TypeOK, LiveJobs, LiveRecords, people, inviter
<1>4. ASSUME NEW r \in Replies, ReplyStep(r) PROVE TypeOK' /\ LiveJobs'
  <2>1. CASE BeginReply(r)
    <3>1. PICK u \in Users, i \in Invites, kind \in {"accept", "reject", "revoke"} :
              Moves(r, [state |-> "begun", kind |-> kind, invite |-> i, user |-> u,
                        admin |-> kind = "revoke" /\ CanAdministrate(InvitedTo[i], u)])
      BY <2>1 DEF BeginReply
    <3>2. (kind = "revoke" /\ CanAdministrate(InvitedTo[i], u)) \in BOOLEAN
      BY ZenonT(30) DEF CanAdministrate
    <3>3. [state |-> "begun", kind |-> kind, invite |-> i, user |-> u,
           admin |-> kind = "revoke" /\ CanAdministrate(InvitedTo[i], u)] \in Requests
      BY <3>2 DEF Requests
    <3> QED BY <3>1, <3>3 DEF Moves, TypeOK, LiveJobs, people, inviter, mailing
  <2>2. CASE ReadMembership(r)
    <3>1. reply[r] \in Requests
      BY <2>2, RequestUnderWay DEF ReadMembership
    <3> QED BY <2>2, <3>1 DEF ReadMembership, Requests, Moves, TypeOK, LiveJobs, people,
                              inviter, mailing
  <2>3. CASE ClaimMembership(r) \/ ActivateMembership(r) \/ DeleteMembership(r)
    <3>1. /\ reply[r] \in Requests
          /\ reply[r].invite \in Invites /\ reply[r].user \in Users
          /\ member[reply[r].invite] \in Rows
      BY <2>3, RequestUnderWay DEF ClaimMembership, ActivateMembership, DeleteMembership
    <3>2. /\ [member[reply[r].invite] EXCEPT !.user = reply[r].user] \in Rows
          /\ [member[reply[r].invite] EXCEPT !.status = "ACTIVE"] \in Rows
          /\ [status |-> "deleted", user |-> None] \in Rows
      BY <3>1 DEF Rows
    <3>3. member' \in [Invites -> Rows]
      BY <2>3, <3>1, <3>2, UpdatedRows
      DEF ClaimMembership, ActivateMembership, DeleteMembership, TypeOK
    <3>4. reply' \in [Replies -> Requests \cup {NoRequest}]
      BY <2>3, <3>1 DEF ClaimMembership, ActivateMembership, DeleteMembership, TypeOK, Requests
    <3> QED BY <2>3, <3>3, <3>4
            DEF ClaimMembership, ActivateMembership, DeleteMembership, TypeOK, LiveJobs,
                people, inviter, mailing
  <2>4. CASE EndReply(r)
    BY <2>4 DEF EndReply, Moves, TypeOK, LiveJobs, people, inviter, mailing
  <2> QED BY <1>4, <2>1, <2>2, <2>3, <2>4 DEF ReplyStep
<1>5. CASE UNCHANGED vars
  BY <1>5 DEF TypeOK, LiveJobs, vars, people, inviter, mailing
<1> QED BY <1>1, <1>2, <1>3, <1>4, <1>5, NextSplit

\* The first state has the types, and no job.
LEMMA TypesAtInit == Init => TypeOK /\ LiveJobs
<1> SUFFICES ASSUME Init PROVE TypeOK /\ LiveJobs
  OBVIOUS
<1>1. NoJob \in LiveRecords(MailSteps, MailAttempts)
  BY AccountsAssumption, MaxStalledAssumption DEF LiveRecords, JobRecords, NoJob
<1> QED BY <1>1, AccountsAssumption DEF Init, TypeOK, LiveJobs, LiveRecords, Rows

\* Every variable keeps its type.
THEOREM TypeCorrect == Spec => []TypeOK
  BY TypesAtInit, TypesKept, PTL DEF Spec
-----------------------------------------------------------------------------
(***************************************************************************)
(* The row of an invitation.                                               *)
(***************************************************************************)

\* There is a row, or was one, from the insert on, and a job from the answer on.
RowInv ==
    \A i \in Invites :
        /\ member[i].status = "none" <=> invitation[i] \in {"idle", "begun", "checked", "found"}
        /\ member[i].status # "none" /\ ~Exists(inviteJob[i]) =>
               invitation[i] \in {"inserted", "lost"}

\* A step of a reply leaves rows that are not there as they are.
LEMMA ReplyKeepsAbsence ==
    ASSUME TypeOK, NEW r \in Replies, ReplyStep(r), NEW i \in Invites
    PROVE  /\ ~IsRow(i) => member'[i] = member[i]
           /\ IsRow(i) => member'[i].status \in {"PENDING", "ACTIVE", "deleted"}
           /\ UNCHANGED <<people, inviter, expired, mailing>>
<1> USE AccountsAssumption
<1>1. CASE BeginReply(r) \/ ReadMembership(r) \/ EndReply(r)
  BY <1>1 DEF BeginReply, ReadMembership, EndReply, Moves, IsRow
<1>2. CASE ClaimMembership(r) \/ ActivateMembership(r) \/ DeleteMembership(r)
  <2>1. /\ reply[r].invite \in Invites /\ reply[r].user \in Users
        /\ member[reply[r].invite] \in Rows
    BY <1>2, RequestUnderWay DEF ClaimMembership, ActivateMembership, DeleteMembership
  <2>2. /\ [member[reply[r].invite] EXCEPT !.user = reply[r].user] \in Rows
        /\ [member[reply[r].invite] EXCEPT !.user = reply[r].user].status =
               member[reply[r].invite].status
        /\ [member[reply[r].invite] EXCEPT !.status = "ACTIVE"] \in Rows
        /\ [member[reply[r].invite] EXCEPT !.status = "ACTIVE"].status = "ACTIVE"
        /\ [status |-> "deleted", user |-> None] \in Rows
    BY <2>1 DEF Rows
  <2>3. PICK row \in Rows :
            /\ member' = Updated(reply[r].invite, row)
            /\ row.status \in {"ACTIVE", "deleted", member[reply[r].invite].status}
    BY <1>2, <2>2 DEF ClaimMembership, ActivateMembership, DeleteMembership
  <2>4. member'[i] = IF i = reply[r].invite /\ IsRow(reply[r].invite) THEN row ELSE member[i]
    <3>1. member \in [Invites -> Rows]
      BY DEF TypeOK
    <3>2. Updated(reply[r].invite, row)[i] =
              IF i = reply[r].invite /\ IsRow(reply[r].invite) THEN row ELSE member[i]
      BY <2>1, <3>1, UpdatedRows
    <3> QED BY <2>3, <3>2
  <2>5. UNCHANGED <<people, inviter, expired, mailing>>
    BY <1>2 DEF ClaimMembership, ActivateMembership, DeleteMembership
  <2> QED BY <2>3, <2>4, <2>5 DEF IsRow
<1> QED BY <1>1, <1>2 DEF ReplyStep

\* Rows and jobs follow the requests that make them.
LEMMA RowsKept ==
    ASSUME TypeOK, LiveJobs, RowInv, [Next]_vars
    PROVE  RowInv'
<1>1. ASSUME NEW u \in Users, Register(u) \/ Login(u) PROVE RowInv'
  BY <1>1 DEF RowInv, Register, Login, inviter, mailing
<1>2. ASSUME NEW i \in Invites, InviteStep(i) PROVE RowInv'
  <2>1. CASE BeginInvite(i) \/ CheckMembership(i) \/ FindInvitee(i) \/ RefuseInvite(i)
             \/ Expire(i)
    BY <2>1 DEF RowInv, TypeOK, BeginInvite, CheckMembership, FindInvitee, RefuseInvite,
                Expire, Invitation, inviter, mailing
  <2>2. CASE InsertMembership(i)
    BY <2>2 DEF RowInv, TypeOK, InsertMembership, Invitation, mailing
  <2>3. CASE QueueInvite(i) \/ LoseInvite(i)
    BY <2>3 DEF RowInv, TypeOK, QueueInvite, LoseInvite, Invitation, Added, Exists
  <2> QED BY <1>2, <2>1, <2>2, <2>3 DEF InviteStep
<1>3. ASSUME NEW i \in Invites, JobStep(i) PROVE RowInv'
  BY <1>3, JobStepsLive DEF RowInv, inviter
<1>4. ASSUME NEW r \in Replies, ReplyStep(r) PROVE RowInv'
  BY <1>4, ReplyKeepsAbsence DEF RowInv, IsRow, inviter, mailing, TypeOK, Rows
<1>5. CASE UNCHANGED vars
  BY <1>5 DEF RowInv, vars, inviter, mailing
<1> QED BY <1>1, <1>2, <1>3, <1>4, <1>5, NextSplit

\* At first there is no row and no job.
LEMMA RowsAtInit == Init => RowInv
  BY DEF Init, RowInv, NoJob, Exists

\* A membership without the job that mails its token belongs to a request under way, or lost.
THEOREM MailFollowsRow == Spec => []UnmailedNeedsLoss
<1>1. RowInv => UnmailedNeedsLoss
  BY DEF RowInv, UnmailedNeedsLoss
<1> QED BY <1>1, TypesAtInit, TypesKept, RowsAtInit, RowsKept, PTL DEF Spec

\* What was rejected or revoked is not brought back.
THEOREM GoneForGood == Spec => GoneStaysGone
<1>1. TypeOK /\ LiveJobs /\ RowInv /\ [Next]_vars =>
          [\A i \in Invites : member[i].status = "deleted" => member'[i].status = "deleted"]_vars
  <2> SUFFICES ASSUME TypeOK, LiveJobs, RowInv, Next, NEW i \in Invites,
                      member[i].status = "deleted"
               PROVE  member'[i].status = "deleted"
    OBVIOUS
  <2>1. ASSUME NEW u \in Users, Register(u) \/ Login(u) PROVE UNCHANGED member
    BY <2>1 DEF Register, Login
  <2>2. ASSUME NEW j \in Invites, InviteStep(j) PROVE member'[i] = member[i]
    BY <2>2 DEF InviteStep, BeginInvite, CheckMembership, FindInvitee, InsertMembership,
                QueueInvite, RefuseInvite, LoseInvite, Expire, Invitation, RowInv, TypeOK
  <2>3. ASSUME NEW j \in Invites, JobStep(j) PROVE UNCHANGED member
    BY <2>3, JobStepsLive
  <2>4. ASSUME NEW r \in Replies, ReplyStep(r) PROVE member'[i] = member[i]
    BY <2>4, ReplyKeepsAbsence DEF IsRow
  <2> QED BY <2>1, <2>2, <2>3, <2>4, NextSplit
<1> QED BY <1>1, TypesAtInit, TypesKept, RowsAtInit, RowsKept, PTL DEF Spec, GoneStaysGone
-----------------------------------------------------------------------------
(***************************************************************************)
(* Two invitations of one address.                                         *)
(***************************************************************************)

\* An invitation that counts: past its check, or with a row.
Counts(i) == invitation[i] \in {"checked", "found"} \/ IsRow(i)

PairInv ==
    \A i, j \in Invites :
        i # j /\ Counts(i) /\ Counts(j) /\ SameInvitee(i, j) => i \in met[j] \/ j \in met[i]

\* A step under which nothing new counts, and nothing is forgotten.
LEMMA PairsKept ==
    ASSUME PairInv, \A i \in Invites : Counts(i)' => Counts(i) /\ met[i] \subseteq met'[i]
    PROVE  PairInv'
  BY DEF PairInv, SameInvitee

\* Two memberships of one address need overlapping invitations.
THEOREM Duplicates == Spec => []DuplicateNeedsOverlap
<1>1. Init => PairInv
  BY DEF Init, PairInv, Counts, IsRow
<1>2. TypeOK /\ LiveJobs /\ RowInv /\ PairInv /\ [Next]_vars => PairInv'
  <2> SUFFICES ASSUME TypeOK, LiveJobs, RowInv, PairInv, [Next]_vars PROVE PairInv'
    OBVIOUS
  <2>0. ASSUME UNCHANGED <<invitation, met, member>> PROVE PairInv'
    BY <2>0, PairsKept DEF Counts, IsRow
  <2>1. ASSUME NEW u \in Users, Register(u) \/ Login(u)
        PROVE  UNCHANGED <<invitation, met, member>>
    BY <2>1 DEF Register, Login, inviter
  <2>2. ASSUME NEW i \in Invites, InviteStep(i) PROVE PairInv'
    <3>1. CASE BeginInvite(i) \/ FindInvitee(i) \/ QueueInvite(i) \/ LoseInvite(i)
               \/ Expire(i)
      BY <3>1, PairsKept DEF BeginInvite, FindInvitee, QueueInvite, LoseInvite, Expire,
                             Invitation, Counts, IsRow, inviter, TypeOK
    <3>2. CASE InsertMembership(i)
      BY <3>2, PairsKept DEF InsertMembership, Invitation, Counts, IsRow, TypeOK
    <3>3. CASE RefuseInvite(i)
      BY <3>3, PairsKept DEF RefuseInvite, Counts, IsRow, RowInv, TypeOK
    <3>4. CASE CheckMembership(i)
      <4> SUFFICES ASSUME NEW a \in Invites, NEW b \in Invites, a # b, Counts(a)', Counts(b)',
                          SameInvitee(a, b)
                   PROVE  (a \in met[b] \/ b \in met[a])'
        BY DEF PairInv, SameInvitee
      <4>1. /\ \A j \in Invites \ {i} : met'[j] = met[j] /\ (Counts(j)' <=> Counts(j))
            /\ met'[i] = PastCheck
        BY <3>4 DEF CheckMembership, Invitation, Counts, IsRow, TypeOK
      <4>2. ASSUME NEW j \in Invites, j # i, Counts(j), SameInvitee(i, j) PROVE j \in PastCheck
        BY <3>4, <4>2 DEF CheckMembership, Counts, SameInvitee, PastCheck
      <4>3. CASE a # i /\ b # i
        BY <4>1, <4>3 DEF PairInv
      <4>4. CASE a = i \/ b = i
        BY <4>1, <4>2, <4>4 DEF SameInvitee
      <4> QED BY <4>3, <4>4
    <3> QED BY <2>2, <3>1, <3>2, <3>3, <3>4 DEF InviteStep
  <2>3. ASSUME NEW i \in Invites, JobStep(i) PROVE UNCHANGED <<invitation, met, member>>
    BY <2>3, JobStepsLive DEF inviter
  <2>4. ASSUME NEW r \in Replies, ReplyStep(r) PROVE PairInv'
    BY <2>4, ReplyKeepsAbsence, PairsKept DEF Counts, IsRow, inviter
  <2> QED BY <2>0, <2>1, <2>2, <2>3, <2>4, NextSplit DEF vars, inviter
<1>3. PairInv => DuplicateNeedsOverlap
  BY DEF PairInv, Counts, DuplicateNeedsOverlap
<1> QED BY <1>1, <1>2, <1>3, TypesAtInit, TypesKept, RowsAtInit, RowsKept, PTL DEF Spec
-----------------------------------------------------------------------------
(***************************************************************************)
(* Who becomes an active member.                                           *)
(***************************************************************************)

\* A registered user who has the address of the invitation.
Invitee(i, u) == u \in registered /\ EmailOf[u] = InvitedEmail[i]

\* Whoever a request found, and a row names, is the invitee; an active row names
\* somebody.
RowOf(i) ==
    /\ found[i] # None => Invitee(i, found[i])
    /\ member[i].user # None => Invitee(i, member[i].user)
    /\ member[i].status = "ACTIVE" => member[i].user # None
    /\ member[i].status = "none" => member[i].user = None

\* An accept or a reject is the invitee's; the row that is about to be activated
\* names somebody, or is gone.
ReplyOf(r) ==
    /\ reply[r].state \in {"claim", "activate"} => reply[r].kind = "accept"
    /\ reply[r].state # "idle" /\ reply[r].kind # "revoke" =>
           Invitee(reply[r].invite, reply[r].user)
    /\ reply[r].state = "activate" =>
           \/ member[reply[r].invite].user # None
           \/ ~IsRow(reply[r].invite) /\ member[reply[r].invite].status # "none"
    /\ reply[r].state = "claim" => member[reply[r].invite].status # "none"

InviteeInv ==
    /\ tokens \subseteq registered
    /\ \A i \in Invites : RowOf(i)
    /\ \A r \in Replies : ReplyOf(r)

\* Rows that stay, or change as updates change them, do not disturb a request
\* that stays.
LEMMA ReplyStays ==
    ASSUME TypeOK, InviteeInv, NEW r \in Replies, reply'[r] = reply[r],
           registered \subseteq registered',
           \A i \in Invites :
               /\ member[i].status # "none" => member'[i].status # "none"
               /\ member[i].status # "none" /\ ~IsRow(i) => ~IsRow(i)'
               /\ member[i].user # None => \/ member'[i].user # None
                                           \/ member'[i].status = "deleted"
    PROVE  ReplyOf(r)'
<1>1. ReplyOf(r)
  BY DEF InviteeInv, ReplyOf
<1>2. CASE reply[r].state = "idle"
  BY <1>2 DEF ReplyOf
<1>3. CASE reply[r].state # "idle"
  <2>1. reply[r].invite \in Invites
    BY <1>3, RequestUnderWay
  <2> QED BY <1>1, <2>1 DEF ReplyOf, Invitee, IsRow
<1> QED BY <1>2, <1>3

\* The invitee is known at every step of an invitation and of a reply.
LEMMA InviteesKept ==
    ASSUME TypeOK, LiveJobs, RowInv, InviteeInv, [Next]_vars
    PROVE  InviteeInv'
<1> USE AccountsAssumption
<1>1. ASSUME NEW u \in Users, Register(u) \/ Login(u) PROVE InviteeInv'
  <2>1. /\ UNCHANGED <<found, member, reply>>
        /\ registered \subseteq registered'
        /\ tokens' \subseteq registered'
    BY <1>1 DEF Register, Login, inviter, InviteeInv, Registered
  <2>2. \A r \in Replies : ReplyOf(r)'
    BY <2>1, ReplyStays DEF IsRow
  <2> QED BY <2>1, <2>2 DEF InviteeInv, RowOf, Invitee
<1>2. ASSUME NEW i \in Invites, InviteStep(i) PROVE InviteeInv'
  <2>0. UNCHANGED <<people, reply>>
    BY <1>2 DEF InviteStep, BeginInvite, CheckMembership, FindInvitee, InsertMembership,
                QueueInvite, RefuseInvite, LoseInvite, Expire, mailing
  <2>1. CASE ~InsertMembership(i)
    <3>1. UNCHANGED member
      BY <1>2, <2>1 DEF InviteStep, BeginInvite, CheckMembership, FindInvitee,
                        QueueInvite, RefuseInvite, LoseInvite, Expire
    <3>2. \A j \in Invites : found'[j] # None => Invitee(j, found'[j])
      <4>1. CASE FindInvitee(i)
        <5>1. \A S \in SUBSET Users : S # {} => (CHOOSE u \in S : TRUE) \in S
          OBVIOUS
        <5>2. UsersWith(InvitedEmail[i]) \in SUBSET Users
          BY DEF UsersWith, TypeOK
        <5>3. found'[i] = None \/ found'[i] \in UsersWith(InvitedEmail[i])
          BY <4>1, <5>1, <5>2 DEF FindInvitee, TypeOK
        <5>4. \A j \in Invites \ {i} : found'[j] = found[j]
          BY <4>1 DEF FindInvitee, TypeOK
        <5> QED BY <5>3, <5>4 DEF InviteeInv, RowOf, Invitee, UsersWith
      <4>2. CASE ~FindInvitee(i)
        BY <1>2, <2>1, <4>2 DEF InviteStep, BeginInvite, CheckMembership, QueueInvite,
               RefuseInvite, LoseInvite, Expire, TypeOK, InviteeInv, RowOf, inviter
      <4> QED BY <4>1, <4>2
    <3>3. \A r \in Replies : ReplyOf(r)'
      BY <2>0, <3>1, ReplyStays DEF IsRow, people
    <3> QED BY <2>0, <3>1, <3>2, <3>3 DEF InviteeInv, RowOf, Invitee, people
  <2>2. CASE InsertMembership(i)
    <3>1. member[i].status = "none" /\ member[i].user = None
      BY <2>2 DEF InsertMembership, Invitation, RowInv, InviteeInv, RowOf
    <3>2. /\ member'[i] = [status |-> "PENDING", user |-> found[i]]
          /\ \A j \in Invites \ {i} : member'[j] = member[j]
          /\ \A j \in Invites : found'[j] \in {None, found[j]}
      BY <2>2 DEF InsertMembership, TypeOK
    <3>3. \A r \in Replies : ReplyOf(r)'
      BY <2>0, <3>1, <3>2, ReplyStays DEF IsRow, people
    <3>4. \A j \in Invites : RowOf(j)'
      BY <2>0, <3>2 DEF InviteeInv, RowOf, Invitee, people
    <3> QED BY <2>0, <3>3, <3>4 DEF InviteeInv, people
  <2> QED BY <2>1, <2>2
<1>3. ASSUME NEW i \in Invites, JobStep(i) PROVE InviteeInv'
  <2>1. UNCHANGED <<people, inviter, member, reply>>
    BY <1>3, JobStepsLive
  <2>2. \A r \in Replies : ReplyOf(r)'
    BY <2>1, ReplyStays DEF IsRow, people
  <2> QED BY <2>1, <2>2 DEF InviteeInv, RowOf, Invitee, people, inviter
<1>4. ASSUME NEW r \in Replies, ReplyStep(r) PROVE InviteeInv'
  <2>0. UNCHANGED <<people, inviter>>
    BY <1>4 DEF ReplyStep, BeginReply, ReadMembership, ClaimMembership, ActivateMembership,
                DeleteMembership, EndReply, Moves
  <2>1. \A s \in Replies \ {r} : reply'[s] = reply[s]
    BY <1>4 DEF ReplyStep, BeginReply, ReadMembership, ClaimMembership, ActivateMembership,
                DeleteMembership, EndReply, Moves, TypeOK
  <2>2. CASE BeginReply(r) \/ ReadMembership(r) \/ EndReply(r)
    <3>1. UNCHANGED member
      BY <2>2 DEF BeginReply, ReadMembership, EndReply, Moves
    <3>2. \A s \in Replies \ {r} : ReplyOf(s)'
      BY <2>0, <2>1, <3>1, ReplyStays DEF IsRow, people
    <3>3. ReplyOf(r)'
      <4>1. CASE BeginReply(r)
        <5>1. PICK u \in Users, i \in Invites, kind \in {"accept", "reject", "revoke"} :
                  /\ Authenticated(u)
                  /\ kind # "revoke" => HoldsToken(u, i)
                  /\ Moves(r, [state |-> "begun", kind |-> kind, invite |-> i, user |-> u,
                               admin |-> kind = "revoke" /\ CanAdministrate(InvitedTo[i], u)])
          BY <4>1 DEF BeginReply
        <5>2. /\ reply'[r].state = "begun" /\ reply'[r].kind = kind
              /\ reply'[r].invite = i /\ reply'[r].user = u
          BY <5>1 DEF Moves, TypeOK
        <5>3. kind # "revoke" => Invitee(i, u)'
          BY <2>0, <5>1 DEF HoldsToken, Authenticated, InviteeInv, Invitee, people
        <5> QED BY <5>2, <5>3 DEF ReplyOf, Invitee
      <4>2. CASE ReadMembership(r)
        <5>1. reply[r] \in Requests /\ IsRow(reply[r].invite)
          BY <4>2, RequestUnderWay DEF ReadMembership
        <5>2. /\ reply'[r].kind = reply[r].kind /\ reply'[r].invite = reply[r].invite
              /\ reply'[r].user = reply[r].user
              /\ \/ reply'[r].state = "delete"
                 \/ reply'[r].state = "claim" /\ reply[r].kind = "accept"
                 \/ /\ reply'[r].state = "activate" /\ reply[r].kind = "accept"
                    /\ member[reply[r].invite].user # None
          BY <4>2, <5>1 DEF ReadMembership, Moves, TypeOK, Requests
        <5>3. reply[r].kind # "revoke" => Invitee(reply[r].invite, reply[r].user)
          BY <4>2 DEF InviteeInv, ReplyOf, ReadMembership
        <5> QED BY <2>0, <3>1, <5>1, <5>2, <5>3 DEF ReplyOf, Invitee, IsRow, people
      <4>3. CASE EndReply(r)
        BY <4>3 DEF EndReply, Moves, TypeOK, ReplyOf, NoRequest
      <4> QED BY <2>2, <4>1, <4>2, <4>3
    <3> QED BY <2>0, <3>1, <3>2, <3>3 DEF InviteeInv, RowOf, Invitee, people, inviter
  <2>3. CASE ClaimMembership(r) \/ ActivateMembership(r) \/ DeleteMembership(r)
    <3> DEFINE i == reply[r].invite
    <3>1. /\ reply[r] \in Requests /\ i \in Invites /\ reply[r].user \in Users
          /\ member[i] \in Rows /\ ReplyOf(r) /\ RowOf(i)
      BY <2>3, RequestUnderWay
      DEF ClaimMembership, ActivateMembership, DeleteMembership, InviteeInv
    <3>2. member \in [Invites -> Rows]
      BY DEF TypeOK
    <3>3. PICK row \in Rows :
              /\ member' = Updated(i, row)
              /\ row.user # None => Invitee(i, row.user)
              /\ IsRow(i) /\ row.status = "ACTIVE" => row.user # None
              /\ row.status = "none" => ~IsRow(i)
              /\ member[i].user # None => row.user # None \/ row.status = "deleted"
              /\ ClaimMembership(r) => row.user # None
      <4>1. CASE ClaimMembership(r)
        <5> DEFINE row == [member[i] EXCEPT !.user = reply[r].user]
        <5>1. /\ row \in Rows /\ row.user = reply[r].user /\ row.status = member[i].status
              /\ row.user # None
          BY <3>1 DEF Rows
        <5>2. Invitee(i, reply[r].user)
          BY <3>1, <4>1 DEF ReplyOf, ClaimMembership
        <5>3. member' = Updated(i, row)
          BY <4>1 DEF ClaimMembership
        <5> QED BY <5>1, <5>2, <5>3 DEF IsRow
      <4>2. CASE ActivateMembership(r)
        <5> DEFINE row == [member[i] EXCEPT !.status = "ACTIVE"]
        <5>1. row \in Rows /\ row.user = member[i].user /\ row.status = "ACTIVE"
          BY <3>1 DEF Rows
        <5>2. IsRow(i) => member[i].user # None
          BY <3>1, <4>2 DEF ReplyOf, ActivateMembership
        <5>3. member' = Updated(i, row) /\ ~ClaimMembership(r)
          BY <4>2 DEF ActivateMembership, ClaimMembership
        <5> QED BY <3>1, <5>1, <5>2, <5>3 DEF RowOf
      <4>3. CASE DeleteMembership(r)
        <5> DEFINE row == [status |-> "deleted", user |-> None]
        <5>1. row \in Rows /\ row.user = None /\ row.status = "deleted"
          BY DEF Rows
        <5>2. member' = Updated(i, row) /\ ~ClaimMembership(r)
          BY <4>3 DEF DeleteMembership, ClaimMembership
        <5> QED BY <5>1, <5>2
      <4> QED BY <2>3, <4>1, <4>2, <4>3
    <3>4. \A j \in Invites : Updated(i, row)[j] = IF j = i /\ IsRow(i) THEN row ELSE member[j]
      BY <3>1, <3>2, UpdatedRows
    <3>5. /\ IsRow(i) => member'[i] = row
          /\ ~IsRow(i) => member'[i] = member[i]
          /\ \A j \in Invites \ {i} : member'[j] = member[j]
      BY <3>1, <3>3, <3>4
    <3>6. \A j \in Invites : RowOf(j)'
      BY <2>0, <3>3, <3>5 DEF InviteeInv, RowOf, Invitee, people, inviter
    <3>7. \A j \in Invites :
              /\ member[j].status # "none" => member'[j].status # "none"
              /\ member[j].status # "none" /\ ~IsRow(j) => ~IsRow(j)'
              /\ member[j].user # None => \/ member'[j].user # None
                                          \/ member'[j].status = "deleted"
      BY <3>3, <3>5 DEF IsRow
    <3>8. \A s \in Replies \ {r} : ReplyOf(s)'
      BY <2>0, <2>1, <3>7, ReplyStays DEF people
    <3>9. ReplyOf(r)'
      <4>1. CASE ClaimMembership(r)
        <5>1. /\ reply'[r].state = "activate" /\ reply'[r].kind = reply[r].kind
              /\ reply'[r].invite = i /\ reply'[r].user = reply[r].user
              /\ reply[r].state = "claim"
          BY <3>1, <4>1 DEF ClaimMembership, TypeOK, Requests
        <5>2. member'[i].user # None \/ (~IsRow(i)' /\ member'[i].status # "none")
          BY <3>1, <3>3, <3>5, <4>1, <5>1 DEF ReplyOf, IsRow
        <5> QED BY <2>0, <3>1, <5>1, <5>2 DEF ReplyOf, Invitee, people, IsRow
      <4>2. CASE ActivateMembership(r) \/ DeleteMembership(r)
        BY <4>2 DEF ActivateMembership, DeleteMembership, TypeOK, ReplyOf, NoRequest
      <4> QED BY <2>3, <4>1, <4>2
    <3> QED BY <2>0, <3>6, <3>8, <3>9 DEF InviteeInv, people
  <2> QED BY <1>4, <2>2, <2>3 DEF ReplyStep
<1>5. CASE UNCHANGED vars
  <2>1. UNCHANGED <<people, inviter, member, reply>>
    BY <1>5 DEF vars
  <2>2. \A r \in Replies : ReplyOf(r)'
    BY <2>1, ReplyStays DEF IsRow, people
  <2> QED BY <2>1, <2>2 DEF InviteeInv, RowOf, Invitee, people, inviter
<1> QED BY <1>1, <1>2, <1>3, <1>4, <1>5, NextSplit

\* An active member is the registered user who was invited.
THEOREM Members == Spec => []ActiveIsInvitee
<1>1. Init => InviteeInv
  BY DEF Init, InviteeInv, RowOf, ReplyOf, NoRequest
<1>2. TypeOK /\ InviteeInv => ActiveIsInvitee
  BY DEF TypeOK, InviteeInv, RowOf, Invitee, ActiveIsInvitee, Registered
<1> QED BY <1>1, <1>2, TypesAtInit, TypesKept, RowsAtInit, RowsKept, InviteesKept, PTL DEF Spec
=============================================================================
