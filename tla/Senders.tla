------------------------------- MODULE Senders -------------------------------
(***************************************************************************)
(* What a team sends with: its API keys (auth/) and its sending domains    *)
(* (sending_domains/, tools/dns/).  Both are kept twice, in MySQL for the  *)
(* API and in Redis for the injector and the mail server, and both are     *)
(* written inside a transaction that Redis knows nothing of.  A domain is  *)
(* then checked, by a job that adds the next one, until its DNS records    *)
(* are there.                                                              *)
(*                                                                         *)
(* Keys and domains are named after the requests that create them.  The    *)
(* transactions are those of a handler that is alone on its session; what  *)
(* the sharing of a session does to them is module SharedSession.          *)
(***************************************************************************)
EXTENDS Naturals, FiniteSets

CONSTANTS
    Keys,        \* POST /auth/api-keys
    Domains,     \* POST /sending_domains
    Names,
    NameOf,      \* the name in the payload of each such request
    Workers,     \* worker processes
    MaxStalls,   \* how often workers vanish with a check in their hands
    None         \* no domain

ASSUME SendersAssumption ==
    /\ None \notin Domains
    /\ NameOf \in [Domains -> Names]
    /\ MaxStalls \in Nat

Records    == {"cname", "dkim"}
CheckSteps == {"find", "resolve", "mark", "requeue", "finish"}

VARIABLES
    keyRequest,   \* [Keys -> state of the request]
    keyRows,      \* keys with a committed row of accessTokens
    redisKeys,    \* keys under ACCESS_KEY: in Redis
    request,      \* [Domains -> state of the request]
    wrote,        \* [Domains -> the writes that arrived: "row" and "redis"]
    rows,         \* domains with a committed row of sendingDomains
    redisDkim,    \* [Names -> the domain whose key is under DOMAIN: in Redis]
    met,          \* history: requests of the same name with a write under way
                  \* when this one was checked
    waiting,      \* [Domains -> check jobs that wait]
    worker,       \* [Workers -> the check it runs]
    verified,     \* [Records -> rows whose column for it is set]
    cut,          \* history: domains with a check that failed, or was never added
    stalls        \* how often a worker vanished

keyVars    == <<keyRequest, keyRows, redisKeys>>
domainVars == <<request, wrote, rows, redisDkim, met>>
checkVars  == <<waiting, worker, verified, cut, stalls>>
vars       == <<keyVars, domainVars, checkVars>>

Idle   == [domain |-> None, step |-> "idle", seen |-> {}]
Checks == [domain : Domains, step : CheckSteps, seen : SUBSET Records]

TypeOK ==
    /\ keyRequest \in [Keys -> {"idle", "inserted", "cached", "committed", "answered", "lost"}]
    /\ keyRows \subseteq Keys
    /\ redisKeys \subseteq Keys
    /\ request \in [Domains -> {"idle", "writing", "failed", "committed", "answered", "lost"}]
    /\ wrote \in [Domains -> SUBSET {"row", "redis"}]
    /\ rows \subseteq Domains
    /\ redisDkim \in [Names -> Domains \cup {None}]
    /\ met \in [Domains -> SUBSET Domains]
    /\ waiting \in [Domains -> Nat]
    /\ worker \in [Workers -> Checks \cup {Idle}]
    /\ verified \in [Records -> SUBSET Domains]
    /\ cut \subseteq Domains
    /\ stalls \in 0 .. MaxStalls

Init ==
    /\ keyRequest = [k \in Keys |-> "idle"]
    /\ keyRows = {}
    /\ redisKeys = {}
    /\ request = [d \in Domains |-> "idle"]
    /\ wrote = [d \in Domains |-> {}]
    /\ rows = {}
    /\ redisDkim = [n \in Names |-> None]
    /\ met = [d \in Domains |-> {}]
    /\ waiting = [d \in Domains |-> 0]
    /\ worker = [w \in Workers |-> Idle]
    /\ verified = [x \in Records |-> {}]
    /\ cut = {}
    /\ stalls = 0
-----------------------------------------------------------------------------
(***************************************************************************)
(* API keys of a team.  The API itself refuses them, their rows name no    *)
(* user; the injector and the mail server ask Redis alone.                 *)
(***************************************************************************)
InjectorAccepts(k) == k \in redisKeys

\* Mutant: the row is inserted outside of the transaction.
InsertKeyOutside(k) ==
    /\ keyRequest[k] = "idle"
    /\ keyRequest' = [keyRequest EXCEPT ![k] = "inserted"]
    /\ keyRows' = keyRows \cup {k}
    /\ UNCHANGED <<redisKeys, domainVars, checkVars>>

\* BEGIN and the insert.  (It does not go through the transaction's client, but
\* the process has one connection, and the insert is in the transaction on it.)
InsertKey(k) ==
    /\ keyRequest[k] = "idle"
    /\ keyRequest' = [keyRequest EXCEPT ![k] = "inserted"]
    /\ UNCHANGED <<keyRows, redisKeys, domainVars, checkVars>>

CacheKey(k) ==
    /\ keyRequest[k] = "inserted"
    /\ keyRequest' = [keyRequest EXCEPT ![k] = "cached"]
    /\ redisKeys' = redisKeys \cup {k}
    /\ UNCHANGED <<keyRows, domainVars, checkVars>>

CommitKey(k) ==
    /\ keyRequest[k] = "cached"
    /\ keyRequest' = [keyRequest EXCEPT ![k] = "committed"]
    /\ keyRows' = keyRows \cup {k}
    /\ UNCHANGED <<redisKeys, domainVars, checkVars>>

AnswerKey(k) ==
    /\ keyRequest[k] = "committed"
    /\ keyRequest' = [keyRequest EXCEPT ![k] = "answered"]
    /\ UNCHANGED <<keyRows, redisKeys, domainVars, checkVars>>

\* An error, or a process that dies.  The row is rolled back, Redis is not; an
\* error of Redis may come although the key was set.
LoseKey(k) ==
    /\ keyRequest[k] \in {"inserted", "cached", "committed"}
    /\ keyRequest' = [keyRequest EXCEPT ![k] = "lost"]
    /\ redisKeys' \in {redisKeys, redisKeys \cup {k}}
    /\ UNCHANGED <<keyRows, domainVars, checkVars>>
-----------------------------------------------------------------------------
(***************************************************************************)
(* Creation of a domain.  The row and the hash in Redis are written at the *)
(* same time: when one of them fails, or the process dies, the other may   *)
(* still be on its way.                                                    *)
(***************************************************************************)
SameName(d, e) == d # e /\ NameOf[d] = NameOf[e]

\* The key that the mail server signs with.
SigningKey(name) == redisDkim[name]

UnderWay(d) ==
    \/ request[d] = "writing"
    \/ request[d] = "failed" /\ "redis" \notin wrote[d]

\* Mutant: the name is not looked up.
CheckNothing(d) ==
    /\ request[d] = "idle"
    /\ request' = [request EXCEPT ![d] = "writing"]
    /\ met' = [met EXCEPT ![d] = {e \in Domains : SameName(d, e) /\ UnderWay(e)}]
    /\ UNCHANGED <<keyVars, wrote, rows, redisDkim, checkVars>>

\* CreateSendingDomainSchema finds no row of that name; the transaction begins.
CheckName(d) ==
    /\ request[d] = "idle"
    /\ \A e \in rows : NameOf[e] # NameOf[d]
    /\ request' = [request EXCEPT ![d] = "writing"]
    /\ met' = [met EXCEPT ![d] = {e \in Domains : SameName(d, e) /\ UnderWay(e)}]
    /\ UNCHANGED <<keyVars, wrote, rows, redisDkim, checkVars>>

InsertDomain(d) ==
    /\ request[d] = "writing"
    /\ wrote' = [wrote EXCEPT ![d] = @ \cup {"row"}]
    /\ UNCHANGED <<keyVars, request, rows, redisDkim, met, checkVars>>

\* HMSET, also after the request failed.
SaveDkim(d) ==
    /\ UnderWay(d)
    /\ "redis" \notin wrote[d]
    /\ wrote' = [wrote EXCEPT ![d] = @ \cup {"redis"}]
    /\ redisDkim' = [redisDkim EXCEPT ![NameOf[d]] = d]
    /\ UNCHANGED <<keyVars, request, rows, met, checkVars>>

CommitDomain(d) ==
    /\ request[d] = "writing"
    /\ wrote[d] = {"row", "redis"}
    /\ request' = [request EXCEPT ![d] = "committed"]
    /\ rows' = rows \cup {d}
    /\ UNCHANGED <<keyVars, wrote, redisDkim, met, checkVars>>

QueueFirstCheck(d) ==
    /\ request[d] = "committed"
    /\ request' = [request EXCEPT ![d] = "answered"]
    /\ waiting' = [waiting EXCEPT ![d] = @ + 1]
    /\ UNCHANGED <<keyVars, wrote, rows, redisDkim, met, worker, verified, cut, stalls>>

\* ROLLBACK, or a process that dies.
FailDomain(d) ==
    /\ request[d] = "writing"
    /\ request' = [request EXCEPT ![d] = "failed"]
    /\ UNCHANGED <<keyVars, wrote, rows, redisDkim, met, checkVars>>

\* Lost between the commit and the job, or between the job and the answer.
LoseDomain(d) ==
    /\ request[d] = "committed"
    /\ request' = [request EXCEPT ![d] = "lost"]
    /\ \/ waiting' = [waiting EXCEPT ![d] = @ + 1] /\ UNCHANGED cut
       \/ cut' = cut \cup {d} /\ UNCHANGED waiting
    /\ UNCHANGED <<keyVars, wrote, rows, redisDkim, met, worker, verified, stalls>>
-----------------------------------------------------------------------------
(***************************************************************************)
(* CheckSendingDomainDnsConfigurationJob, added with one attempt.          *)
(* WorkerIgnitor has no executor for it yet; it is taken up here as its    *)
(* integration test calls it.                                              *)
(***************************************************************************)
Step(w, from, to) ==
    /\ worker[w].step = from
    /\ worker' = [worker EXCEPT ![w].step = to]

TakeCheck(w, d) ==
    /\ worker[w] = Idle
    /\ waiting[d] > 0
    /\ waiting' = [waiting EXCEPT ![d] = @ - 1]
    /\ worker' = [worker EXCEPT ![w] = [domain |-> d, step |-> "find", seen |-> {}]]
    /\ UNCHANGED <<keyVars, domainVars, verified, cut, stalls>>

FindDomain(w) ==
    /\ Step(w, "find", "resolve")
    /\ worker[w].domain \in rows
    /\ UNCHANGED <<keyVars, domainVars, waiting, verified, cut, stalls>>

\* Both records are asked for.  What there is to see is up to the owner of the
\* domain; a query that fails is a record that is not there.
Resolve(w) ==
    /\ worker[w].step = "resolve"
    /\ \E seen \in SUBSET Records :
           worker' = [worker EXCEPT ![w].step = "mark", ![w].seen = seen]
    /\ UNCHANGED <<keyVars, domainVars, waiting, verified, cut, stalls>>

\* Mutant: columns are set for records that were not seen.
MarkBoth(w) ==
    /\ Step(w, "mark", "requeue")
    /\ verified' = [x \in Records |-> rows]
    /\ UNCHANGED <<keyVars, domainVars, waiting, cut, stalls>>

\* The updates name no row: they set the column of every domain.
MarkVerified(w) ==
    /\ Step(w, "mark", "requeue")
    /\ verified' = [x \in Records |-> IF x \in worker[w].seen THEN rows ELSE verified[x]]
    /\ UNCHANGED <<keyVars, domainVars, waiting, cut, stalls>>

\* Mutant: one record is enough.
RequeueIfNone(w) ==
    /\ Step(w, "requeue", "finish")
    /\ waiting' = IF worker[w].seen # {} THEN waiting
                  ELSE [waiting EXCEPT ![worker[w].domain] = @ + 1]
    /\ UNCHANGED <<keyVars, domainVars, verified, cut, stalls>>

\* The next check, unless both records were seen by this one.
Requeue(w) ==
    /\ Step(w, "requeue", "finish")
    /\ waiting' = IF worker[w].seen = Records THEN waiting
                  ELSE [waiting EXCEPT ![worker[w].domain] = @ + 1]
    /\ UNCHANGED <<keyVars, domainVars, verified, cut, stalls>>

FinishCheck(w) ==
    /\ worker[w].step = "finish"
    /\ worker' = [worker EXCEPT ![w] = Idle]
    /\ UNCHANGED <<keyVars, domainVars, waiting, verified, cut, stalls>>

\* A query of MySQL or the queue throws, or the worker vanishes once too often.
FailCheck(w) ==
    /\ worker[w] # Idle
    /\ worker' = [worker EXCEPT ![w] = Idle]
    /\ cut' = cut \cup {worker[w].domain}
    /\ UNCHANGED <<keyVars, domainVars, waiting, verified, stalls>>

\* The worker vanishes, the job is handed out again from its first step: if its
\* successor is in the queue already, the domain has two chains of checks.
StallCheck(w) ==
    /\ worker[w] # Idle
    /\ stalls < MaxStalls
    /\ stalls' = stalls + 1
    /\ worker' = [worker EXCEPT ![w] = Idle]
    /\ waiting' = [waiting EXCEPT ![worker[w].domain] = @ + 1]
    /\ UNCHANGED <<keyVars, domainVars, verified, cut>>
-----------------------------------------------------------------------------
Api ==
    \/ \E k \in Keys : \/ InsertKey(k) \/ CacheKey(k) \/ CommitKey(k)
                       \/ AnswerKey(k) \/ LoseKey(k)
    \/ \E d \in Domains :
           \/ CheckName(d) \/ InsertDomain(d) \/ SaveDkim(d) \/ CommitDomain(d)
           \/ QueueFirstCheck(d) \/ FailDomain(d) \/ LoseDomain(d)

Handles(w) ==
    \/ FindDomain(w) \/ Resolve(w) \/ MarkVerified(w) \/ Requeue(w) \/ FinishCheck(w)

Next ==
    \/ Api
    \/ \E w \in Workers : \/ \E d \in Domains : TakeCheck(w, d)
                          \/ Handles(w) \/ FailCheck(w) \/ StallCheck(w)

\* A worker goes on with the job it has; the queue hands out its jobs in turn, so
\* that a job that waits is not passed over for ever.
Fairness ==
    /\ \A w \in Workers : WF_vars(Handles(w))
    /\ \A d \in Domains : SF_vars(\E w \in Workers : TakeCheck(w, d))

Spec == Init /\ [][Next]_vars /\ Fairness
-----------------------------------------------------------------------------
\* The two stores of an API key: what the caller got is in both, MySQL never has
\* a key that the injector would refuse, and Redis has one without a row only
\* between the two writes, or after a loss.
KeysAgree ==
    \A k \in Keys :
        /\ keyRequest[k] = "answered" => k \in keyRows
        /\ k \in keyRows => InjectorAccepts(k)
        /\ InjectorAccepts(k) /\ k \notin keyRows =>
               keyRequest[k] \in {"cached", "lost"}

Overlapped(d, e) == e \in met[d] \/ d \in met[e]

\* The mail server signs with the key that the row of the domain has, unless
\* another request of that name overlapped with the one that created it: the
\* name is no unique key, and a late write to Redis of a request that failed
\* counts as well.
SignsWithRow ==
    \A d \in rows :
        SigningKey(NameOf[d]) = d \/ \E e \in Domains : SameName(d, e) /\ Overlapped(d, e)

\* The check of a domain ends only with both of its columns set, or with a
\* check that failed or was never added.
ChainEndsVerified ==
    \A d \in Domains :
        request[d] \in {"answered", "lost"} /\ waiting[d] = 0
        /\ (\A w \in Workers : worker[w].domain # d)
            => d \in cut \/ \A x \in Records : d \in verified[x]

\* A column of any domain is set only if the record of some domain was seen, by
\* a check of a domain that had it.
MarkedAfterLookup ==
    [][\A x \in Records :
          verified'[x] # verified[x] => \E w \in Workers : x \in worker[w].seen]_vars

\* As long as the checks of a domain are neither done nor cut, its records are
\* looked up again and again.
CheckedUntilVerified ==
    \A d \in Domains :
        request[d] = "answered" ~>
            \/ \E w \in Workers : worker[w].domain = d /\ worker[w].step = "resolve"
            \/ d \in cut
            \/ \A x \in Records : d \in verified[x]
=============================================================================
