------------------------------ MODULE Accounts ------------------------------
(***************************************************************************)
(* Accounts (auth/, teams/): registration and login, and the memberships   *)
(* of a team from invitation to revocation.                                *)
(*                                                                         *)
(* A user is named after the request that registers it, and so is the team *)
(* that the same transaction creates; a membership after the request that  *)
(* invites.  The transaction of a registration is that of a handler alone  *)
(* on its session; what the sharing of the one session of a process does   *)
(* to it is module SharedSession.                                          *)
(***************************************************************************)
EXTENDS JobQueue, FiniteSets

CONSTANTS
    Users,         \* POST /auth/register, and the users and teams they create
    Emails,
    EmailOf,       \* the address that each registration brings
    Invites,       \* POST /memberships, and the rows they create
    InvitedTo,     \* the team of each invitation
    InvitedEmail,
    InvitedAs,     \* its role
    Replies,       \* slots for requests that accept, reject or revoke
    MailAttempts,  \* attempts of the job that mails an invitation, 1 in the code
    None           \* no user

Roles == {"ADMINISTRATOR", "MANAGER", "AUTHOR", "GUEST"}

ASSUME AccountsAssumption ==
    /\ None \notin Users
    /\ EmailOf \in [Users -> Emails]
    /\ InvitedTo \in [Invites -> Users]
    /\ InvitedEmail \in [Invites -> Emails]
    /\ InvitedAs \in [Invites -> Roles]
    /\ MailAttempts \in Nat \ {0}

MailSteps == {"find", "mail"}

VARIABLES
    registered,    \* rows of users, and of the teams they own
    tokens,        \* users with a row of accessTokens
    invitation,    \* [Invites -> state of the request]
    found,         \* [Invites -> the user that the request found, or None]
    met,           \* history: invitations past their check when this one was checked
    member,        \* [Invites -> row of teamMemberships]
    expired,       \* invitations older than seven days
    inviteJob,     \* [Invites -> job SendTeamMemberInviteJob]
    mailed,        \* invitations whose token was mailed
    reply          \* [Replies -> request]

people  == <<registered, tokens>>
inviter == <<invitation, found, met>>
mailing == <<inviteJob, mailed>>
vars    == <<people, inviter, member, expired, mailing, reply>>

Rows == [status : {"none", "PENDING", "ACTIVE", "deleted"}, user : Users \cup {None}]

\* A request that handles the membership of an invitation for a user.
Requests ==
    [state  : {"begun", "claim", "activate", "delete"},
     kind   : {"accept", "reject", "revoke"},
     invite : Invites,
     user   : Users,
     admin  : BOOLEAN]   \* for a revoke: the user administrates the team as it was read

NoRequest == [state |-> "idle"]

TypeOK ==
    /\ registered \subseteq Users
    /\ tokens \subseteq Users
    /\ invitation \in [Invites -> {"idle", "begun", "checked", "found", "inserted",
                                   "answered", "lost"}]
    /\ found \in [Invites -> Users \cup {None}]
    /\ met \in [Invites -> SUBSET Invites]
    /\ member \in [Invites -> Rows]
    /\ expired \subseteq Invites
    /\ inviteJob \in [Invites -> JobRecords(MailSteps, MailAttempts)]
    /\ mailed \subseteq Invites
    /\ reply \in [Replies -> Requests \cup {NoRequest}]

Init ==
    /\ registered = {}
    /\ tokens = {}
    /\ invitation = [i \in Invites |-> "idle"]
    /\ found = [i \in Invites |-> None]
    /\ met = [i \in Invites |-> {}]
    /\ member = [i \in Invites |-> [status |-> "none", user |-> None]]
    /\ expired = {}
    /\ inviteJob = [i \in Invites |-> NoJob]
    /\ mailed = {}
    /\ reply = [r \in Replies |-> NoRequest]
-----------------------------------------------------------------------------
(***************************************************************************)
(* Registration and login.                                                 *)
(***************************************************************************)
Registered(u) == u \in registered

UsersWith(email) == {u \in registered : EmailOf[u] = email}

\* CreateUserSchema asks for a free address, which is a unique key besides.
EmailIsFree(email) == UsersWith(email) = {}

\* The transaction inserts the user and the team.  A registration that fails, or
\* loses its process, leaves nothing.
Register(u) ==
    /\ ~Registered(u)
    /\ EmailIsFree(EmailOf[u])
    /\ registered' = registered \cup {u}
    /\ UNCHANGED <<tokens, inviter, member, expired, mailing, reply>>

\* A token of a user never ends.
Authenticated(u) == u \in tokens

Login(u) ==
    /\ Registered(u)
    /\ ~Authenticated(u)
    /\ tokens' = tokens \cup {u}
    /\ UNCHANGED <<registered, inviter, member, expired, mailing, reply>>
-----------------------------------------------------------------------------
(***************************************************************************)
(* Invitations.  A request of the API begins with the middleware: a token  *)
(* of a user, and the team of the request with its members.                *)
(***************************************************************************)
CanAdministrate(t, u) ==
    \/ u = t
    \/ \E i \in Invites : /\ InvitedTo[i] = t
                          /\ member[i].user = u
                          /\ member[i].status = "ACTIVE"
                          /\ InvitedAs[i] = "ADMINISTRATOR"

IsRow(i) == member[i].status \in {"PENDING", "ACTIVE"}

Invitation(i, from, to) ==
    /\ invitation[i] = from
    /\ invitation' = [invitation EXCEPT ![i] = to]

BeginInvite(i) ==
    /\ Registered(InvitedTo[i])
    /\ \E u \in Users : Authenticated(u) /\ CanAdministrate(InvitedTo[i], u)
    /\ Invitation(i, "idle", "begun")
    /\ UNCHANGED <<people, found, met, member, expired, mailing, reply>>

PastCheck == {i \in Invites : invitation[i] \in {"checked", "found"}}

\* Mutant: members that accepted are the only ones looked for.
CheckActiveMembers(i) ==
    /\ Invitation(i, "begun", "checked")
    /\ \A j \in Invites :
           member[j].status = "ACTIVE" =>
               <<InvitedTo[j], InvitedEmail[j]>> # <<InvitedTo[i], InvitedEmail[i]>>
    /\ met' = [met EXCEPT ![i] = PastCheck]
    /\ UNCHANGED <<people, found, member, expired, mailing, reply>>

\* membershipExists finds none for the address and the team.
CheckMembership(i) ==
    /\ Invitation(i, "begun", "checked")
    /\ \A j \in Invites :
           IsRow(j) => <<InvitedTo[j], InvitedEmail[j]>> # <<InvitedTo[i], InvitedEmail[i]>>
    /\ met' = [met EXCEPT ![i] = PastCheck]
    /\ UNCHANGED <<people, found, member, expired, mailing, reply>>

FindInvitee(i) ==
    /\ Invitation(i, "checked", "found")
    /\ found' = [found EXCEPT ![i] =
           IF UsersWith(InvitedEmail[i]) = {} THEN None
           ELSE CHOOSE u \in UsersWith(InvitedEmail[i]) : TRUE]
    /\ UNCHANGED <<people, met, member, expired, mailing, reply>>

InsertMembership(i) ==
    /\ Invitation(i, "found", "inserted")
    /\ member' = [member EXCEPT ![i] = [status |-> "PENDING", user |-> found[i]]]
    /\ found' = [found EXCEPT ![i] = None]
    /\ UNCHANGED <<people, met, expired, mailing, reply>>

\* Mutant: the answer does not wait for the queue.
AnswerWithoutJob(i) ==
    /\ Invitation(i, "inserted", "answered")
    /\ inviteJob' \in {inviteJob, [inviteJob EXCEPT ![i] = Added]}
    /\ UNCHANGED <<people, found, met, member, expired, mailed, reply>>

QueueInvite(i) ==
    /\ Invitation(i, "inserted", "answered")
    /\ inviteJob' = [inviteJob EXCEPT ![i] = Added]
    /\ UNCHANGED <<people, found, met, member, expired, mailed, reply>>

\* A member already, an error of a statement, or a process that dies: before the
\* insert nothing is left, and the address may be invited again.
RefuseInvite(i) ==
    /\ invitation[i] \in {"begun", "checked", "found"}
    /\ invitation' = [invitation EXCEPT ![i] = "idle"]
    /\ found' = [found EXCEPT ![i] = None]
    /\ met' = [met EXCEPT ![i] = {}]
    /\ UNCHANGED <<people, member, expired, mailing, reply>>

\* After it the row stays, with a job or without.
LoseInvite(i) ==
    /\ Invitation(i, "inserted", "lost")
    /\ inviteJob' \in {inviteJob, [inviteJob EXCEPT ![i] = Added]}
    /\ UNCHANGED <<people, found, met, member, expired, mailed, reply>>

\* Nobody asks for the age of an active membership.
Expire(i) ==
    /\ member[i].status = "PENDING"
    /\ i \notin expired
    /\ expired' = expired \cup {i}
    /\ UNCHANGED <<people, inviter, member, mailing, reply>>
-----------------------------------------------------------------------------
(***************************************************************************)
(* SendTeamMemberInviteJob.  WorkerIgnitor has no executor for it yet; it  *)
(* is taken up here as its unit test calls it.                             *)
(***************************************************************************)
MailJob(i, job) ==
    /\ inviteJob' = [inviteJob EXCEPT ![i] = job]
    /\ UNCHANGED <<people, inviter, member, expired, mailed, reply>>

TakeInvite(i) ==
    /\ inviteJob[i].state = "waiting"
    /\ MailJob(i, At(inviteJob[i], "find"))

\* An invitation that was rejected or revoked is not mailed any more.
FindInvite(i) ==
    /\ inviteJob[i].state = "find"
    /\ MailJob(i, IF IsRow(i) THEN At(inviteJob[i], "mail") ELSE Complete(inviteJob[i]))

\* The mailer returns its error, which nothing looks at.
MailInvite(i) ==
    /\ inviteJob[i].state = "mail"
    /\ inviteJob' = [inviteJob EXCEPT ![i] = Complete(@)]
    /\ mailed' \in {mailed, mailed \cup {i}}
    /\ UNCHANGED <<people, inviter, member, expired, reply>>

\* The job leaves the hands of its worker, perhaps just after the mail.
CutOff(i, job) ==
    /\ IsActive(inviteJob[i])
    /\ inviteJob' = [inviteJob EXCEPT ![i] = job]
    /\ mailed' \in IF inviteJob[i].state = "mail" THEN {mailed, mailed \cup {i}} ELSE {mailed}
    /\ UNCHANGED <<people, inviter, member, expired, reply>>

FailInviteJob(i) == CutOff(i, AttemptFailed(inviteJob[i], MailAttempts))

StallInviteJob(i) == CutOff(i, Stall(inviteJob[i]))
-----------------------------------------------------------------------------
(***************************************************************************)
(* Accept, reject, revoke.                                                 *)
(***************************************************************************)
Moves(r, request) ==
    /\ reply' = [reply EXCEPT ![r] = request]
    /\ UNCHANGED <<people, inviter, member, expired, mailing>>

\* The mailed token names the row, and its reader must have the address.  (The
\* address is compared after the row is read; no address ever changes, and a
\* request that is refused changes nothing.)
HoldsToken(u, i) == i \in mailed /\ EmailOf[u] = InvitedEmail[i]

\* The middleware: the user, and the team with its members.
BeginReply(r) ==
    /\ reply[r] = NoRequest
    /\ \E u \in Users, i \in Invites, kind \in {"accept", "reject", "revoke"} :
           /\ Authenticated(u)
           /\ kind # "revoke" => HoldsToken(u, i)
           /\ Moves(r, [state |-> "begun", kind |-> kind, invite |-> i, user |-> u,
                        admin |-> kind = "revoke" /\ CanAdministrate(InvitedTo[i], u)])

\* Mutant: the user is not written to a row that has none.
ReadWithoutClaim(r) ==
    /\ reply[r].state = "begun"
    /\ LET q   == reply[r]
           row == member[q.invite]
       IN  /\ IsRow(q.invite)
           /\ q.kind = "revoke" => q.user = row.user \/ q.admin
           /\ Moves(r, [q EXCEPT !.state =
                          IF q.kind = "accept" THEN "activate" ELSE "delete"])

\* ensureValidInvite, or ensureExists and the policy: the row is read, and the
\* handler goes on with what it read.
ReadMembership(r) ==
    /\ reply[r].state = "begun"
    /\ LET q   == reply[r]
           row == member[q.invite]
       IN  /\ IsRow(q.invite)
           /\ q.kind = "revoke" => q.user = row.user \/ q.admin
           /\ Moves(r, [q EXCEPT !.state =
                          CASE q.kind # "accept" -> "delete"
                            [] q.kind = "accept" /\ row.user = None -> "claim"
                            [] OTHER -> "activate"])

\* UPDATE ... WHERE id: no row is no error.
Updated(i, row) == IF IsRow(i) THEN [member EXCEPT ![i] = row] ELSE member

ClaimMembership(r) ==
    /\ reply[r].state = "claim"
    /\ LET q == reply[r] IN
           /\ member' = Updated(q.invite, [member[q.invite] EXCEPT !.user = q.user])
           /\ reply' = [reply EXCEPT ![r].state = "activate"]
    /\ UNCHANGED <<people, inviter, expired, mailing>>

\* Mutant: the row is written back whole, as it was read.
ActivateAsRead(r) ==
    /\ reply[r].state = "activate"
    /\ LET q == reply[r] IN
           /\ q.invite \notin expired
           /\ member' = [member EXCEPT ![q.invite] = [status |-> "ACTIVE", user |-> q.user]]
    /\ reply' = [reply EXCEPT ![r] = NoRequest]
    /\ UNCHANGED <<people, inviter, expired, mailing>>

ActivateMembership(r) ==
    /\ reply[r].state = "activate"
    /\ LET q == reply[r] IN
           /\ q.invite \notin expired
           /\ member' = Updated(q.invite, [member[q.invite] EXCEPT !.status = "ACTIVE"])
    /\ reply' = [reply EXCEPT ![r] = NoRequest]
    /\ UNCHANGED <<people, inviter, expired, mailing>>

\* Reject and revoke delete the row whatever its status is by now.
DeleteMembership(r) ==
    /\ reply[r].state = "delete"
    /\ LET q == reply[r] IN
           member' = Updated(q.invite, [status |-> "deleted", user |-> None])
    /\ reply' = [reply EXCEPT ![r] = NoRequest]
    /\ UNCHANGED <<people, inviter, expired, mailing>>

\* Refused (no such row, not allowed, expired), an error, or a process that dies.
EndReply(r) ==
    /\ reply[r] # NoRequest
    /\ Moves(r, NoRequest)
-----------------------------------------------------------------------------
Next ==
    \/ \E u \in Users : Register(u) \/ Login(u)
    \/ \E i \in Invites :
           \/ BeginInvite(i) \/ CheckMembership(i) \/ FindInvitee(i)
           \/ InsertMembership(i) \/ QueueInvite(i)
           \/ RefuseInvite(i) \/ LoseInvite(i) \/ Expire(i)
           \/ TakeInvite(i) \/ FindInvite(i) \/ MailInvite(i)
           \/ FailInviteJob(i) \/ StallInviteJob(i)
    \/ \E r \in Replies :
           \/ BeginReply(r) \/ ReadMembership(r) \/ ClaimMembership(r)
           \/ ActivateMembership(r) \/ DeleteMembership(r) \/ EndReply(r)

Spec == Init /\ [][Next]_vars
-----------------------------------------------------------------------------
SameInvitee(i, j) == InvitedTo[i] = InvitedTo[j] /\ InvitedEmail[i] = InvitedEmail[j]

\* One address has two memberships of one team only if their invitations
\* overlapped: one was past its check, and not inserted, when the other was
\* checked.
DuplicateNeedsOverlap ==
    \A i, j \in Invites :
        i # j /\ IsRow(i) /\ IsRow(j) /\ SameInvitee(i, j) => i \in met[j] \/ j \in met[i]

\* An active member is a registered user who has the address that was invited,
\* also when the address had no user at the time of the invitation.
ActiveIsInvitee ==
    \A i \in Invites :
        member[i].status = "ACTIVE" =>
            /\ member[i].user \in Users
            /\ Registered(member[i].user)
            /\ EmailOf[member[i].user] = InvitedEmail[i]

\* An accept that was on its way when the membership was rejected or revoked does
\* not bring it back.
GoneStaysGone ==
    [][\A i \in Invites : member[i].status = "deleted" => member'[i].status = "deleted"]_vars

\* A membership without a job that mails its token is one whose request is still
\* under way, or was lost after the insert.
UnmailedNeedsLoss ==
    \A i \in Invites :
        member[i].status # "none" /\ ~Exists(inviteJob[i]) =>
            invitation[i] \in {"inserted", "lost"}
=============================================================================
