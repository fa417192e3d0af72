------------------------------ MODULE FetchJobs ------------------------------
(***************************************************************************)
(* From "this feed is due" to "its articles are stored": the sources rows, *)
(* the BullMQ queue "tasks" and the workers that run ParseSource jobs      *)
(* (src/src/lib/workers/main.ts, src/src/lib/feed-parser.ts parseSource,   *)
(* src/src/db/data-services/source-data-service.ts).                       *)
(*                                                                         *)
(* A job is named after its source (jobId parseSource-<id>), and adding a  *)
(* job whose name exists does nothing: the periodic gather, a new          *)
(* subscription and a hub's push all end in the same AddJob.  Several      *)
(* worker replicas take jobs; a worker may crash, or lose the lock of its  *)
(* job and run on as an orphan while another worker runs the job again.    *)
(*                                                                         *)
(* What a feed says is a version number, which only grows at the origin.   *)
(* The response cache and its lock are module CacheLock's: here a fetch     *)
(* sees the cached response that is still fresh, or asks the origin.       *)
(* One tick of the clock is pollFloorMs (five minutes).                    *)
(*                                                                         *)
(* Workers are not the only ones who write articles: POST /subscribe        *)
(* (src/src/routes/reader/subscribe.ts) stores the preview the user has     *)
(* seen, without a job.  A writer fetches the feed first and takes the      *)
(* time of its observation later (observedAt of a run, created_at of a      *)
(* subscription); the upsert compares these times, not the versions.       *)
(* The clocks of the replicas are taken to agree, and no two observations   *)
(* to fall into one millisecond.                                           *)
(***************************************************************************)
EXTENDS Naturals, Sequences, FiniteSets, SequencesExt

CONSTANTS
    Source,         \* the sources rows
    Email,          \* those of kind "email"
    Hubbed,         \* those whose feed names a WebSub hub
    Shared,         \* those whose responses a shared cache may keep
    Worker,         \* job slots: replicas times WORKER_CONCURRENCY
    Subscriber,     \* users who preview a feed and may subscribe to it
    Nobody,         \* no worker, or no source
    Limit,          \* gatherBatchLimit
    Day,            \* the daily fallback of a websub source, in ticks
    BackoffCap,     \* the 15 of failSource's backoff
    Freshness,      \* lifetimes an origin gives its responses, in ticks
    MaxVersion      \* bound: versions an origin publishes

ASSUME FetchAssumption ==
    /\ IsFiniteSet(Source)
    /\ Email \subseteq Source
    /\ Hubbed \subseteq Source \ Email
    /\ Shared \subseteq Source
    /\ Nobody \notin Worker \cup Source
    /\ Worker \cap Subscriber = {}
    /\ Limit \in Nat \ {0}
    /\ Day \in Nat
    /\ BackoffCap \in Nat \ {0}
    /\ Freshness \subseteq Nat
    /\ MaxVersion \in Nat \ {0}

VARIABLES
    kind,       \* sources.kind
    wait,       \* ticks until sources.not_before
    idle,       \* ticks since sources.last_attempt; Day + 1 also for never
    line,       \* all sources, the longest unattempted (last_attempt) first
    failures,   \* sources.recent_failures
    job,        \* the source's ParseSource job in Redis
    run,        \* what each worker slot, and each subscriber, is doing
    later,      \* who observed the feed after a writer that is storing it
    gathered,   \* rows a GatherJobs job has selected and not yet added
    origin,     \* the version the origin serves
    cache,      \* the fresh response in the HTTP cache, 0 when there is none
    stored      \* the version of an article of the feed in articles

sourceVars == <<kind, wait, idle, line, failures>>
queueVars  == <<job, run, later, gathered>>
feedVars   == <<origin, cache, stored>>
vars == <<kind, wait, idle, line, failures, job, run, later, gathered,
          origin, cache, stored>>

Version == 0 .. MaxVersion
Job == [at : {"none", "waiting", "active", "delayed"}, skipCache : BOOLEAN,
        lock : Worker \cup {Nobody}, stalls : 0 .. 1]
NoJob == [at |-> "none", skipCache |-> FALSE, lock |-> Nobody, stalls |-> 0]
\* Who fetches a feed and stores what it says.
Writer == Worker \cup Subscriber
Run == [at : {"free", "fetching", "fetched", "storing"},
        src : Source \cup {Nobody}, skipCache : BOOLEAN, version : Version,
        orphan : BOOLEAN,       \* has it lost the lock of its job?
        overtaken : BOOLEAN,    \* did another one observe before it, see below?
        outrun : BOOLEAN]       \* has one that observed later stored?
Free == [at |-> "free", src |-> Nobody, skipCache |-> FALSE, version |-> 0,
         orphan |-> FALSE, overtaken |-> FALSE, outrun |-> FALSE]

Least(a, b) == IF a <= b THEN a ELSE b
Greatest(a, b) == IF a >= b THEN a ELSE b

TypeOK ==
    /\ kind \in [Source -> {"feed", "websub", "email"}]
    /\ wait \in [Source -> Nat]
    /\ \A s \in Source : \E t \in Freshness \cup {BackoffCap} : wait[s] <= t
    /\ idle \in [Source -> 0 .. Day + 1]
    /\ line \in SetToSeqs(Source)
    /\ failures \in [Source -> 0 .. BackoffCap]
    /\ job \in [Source -> Job]
    /\ run \in [Writer -> Run]
    /\ later \in [Writer -> SUBSET Writer]
    /\ gathered \subseteq Source
    /\ origin \in [Source -> Version]
    /\ cache \in [Source -> Version]
    /\ stored \in [Source -> Version]

Init ==
    /\ kind = [s \in Source |-> IF s \in Email THEN "email" ELSE "feed"]
    /\ wait = [s \in Source |-> 0]
    /\ idle = [s \in Source |-> Day + 1]
    /\ line \in SetToSeqs(Source)
    /\ failures = [s \in Source |-> 0]
    /\ job = [s \in Source |-> NoJob]
    /\ run = [w \in Writer |-> Free]
    /\ later = [w \in Writer |-> {}]
    /\ gathered = {}
    /\ origin = [s \in Source |-> 1]
    /\ cache = [s \in Source |-> 0]
    /\ stored = [s \in Source |-> 0]

------------------------------------------------------------------------------
(* Putting jobs in the queue *)

\* Faulty: a new job replaces one of the same name.
ReplaceJob(jobs, s, skipCache) ==
    [jobs EXCEPT ![s] = [NoJob EXCEPT !.at = "waiting", !.skipCache = skipCache]]

\* bullmqQueue.add: nothing happens when a job of that name exists, whatever
\* its state and whatever the new one asks for.
AddJob(jobs, s, skipCache) ==
    IF jobs[s].at # "none" THEN jobs
    ELSE [jobs EXCEPT ![s] = [NoJob EXCEPT !.at = "waiting",
                                           !.skipCache = skipCache]]

\* enqueueSource by POST /subscribe without a preview or by an OPML import.
EnqueueManual(s) ==
    /\ job' = AddJob(job, s, TRUE)
    /\ UNCHANGED <<sourceVars, run, later, gathered, feedVars>>

\* POST /api/websub/callback/:token, correctly signed.  A hub may push while
\* the subscription is not (or no longer) verified.
HubPush(s) ==
    /\ s \in Hubbed
    /\ job' = AddJob(job, s, TRUE)
    /\ UNCHANGED <<sourceVars, run, later, gathered, feedVars>>

\* Faulty: websub sources are left to their hub.
DueByPolling(s) == kind[s] = "feed" /\ wait[s] = 0

Due(s) ==
    \/ kind[s] = "feed" /\ wait[s] = 0
    \/ kind[s] = "websub" /\ idle[s] > Day

DueInLine == {i \in DOMAIN line : Due(line[i])}

\* Faulty: the sources attempted most recently come first.
SelectNewest ==
    {line[i] : i \in {j \in DueInLine : Cardinality({k \in DueInLine : k > j}) < Limit}}

\* getSourcesToProcess: ORDER BY last_attempt NULLS FIRST, LIMIT.
SourcesToProcess ==
    {line[i] : i \in {j \in DueInLine : Cardinality({k \in DueInLine : k < j}) < Limit}}

\* A GatherJobs job (or a starting worker) selects the rows ...
GatherSelect ==
    /\ gathered = {}
    /\ gathered' = SourcesToProcess
    /\ UNCHANGED <<sourceVars, job, run, later, feedVars>>

\* ... and adds their jobs, when the rows may have changed already.
GatherAdd ==
    /\ gathered # {}
    /\ job' = [s \in Source |-> IF s \in gathered
                                THEN AddJob(job, s, FALSE)[s]
                                ELSE job[s]]
    /\ gathered' = {}
    /\ UNCHANGED <<sourceVars, run, later, feedVars>>

------------------------------------------------------------------------------
(* Running jobs *)

Take(w, s) ==
    /\ run[w].at = "free"
    /\ job[s].at = "waiting"
    /\ job' = [job EXCEPT ![s].at = "active", ![s].lock = w]
    /\ run' = [run EXCEPT ![w] = [Free EXCEPT !.at = "fetching", !.src = s,
                                    !.skipCache = job[s].skipCache]]
    /\ UNCHANGED <<sourceVars, later, gathered, feedVars>>

\* Faulty: an answer that may not be shared leaves the cached one in place.
AskOriginOnly(s) ==
    \E v \in {cache[s]} \cup (IF s \in Shared THEN {origin[s]} ELSE {}) :
        cache' = [cache EXCEPT ![s] = v]

\* The origin is asked; its answer replaces the cached response or, when it
\* may not be shared, removes it.
AskOrigin(s) ==
    \E v \in {0} \cup (IF s \in Shared THEN {origin[s]} ELSE {}) :
        cache' = [cache EXCEPT ![s] = v]

\* parseUrl: a fresh cached response is served unless the job says skipCache.
\* (No answer is older than an earlier one: module CacheLock.)
Answer(s, skipCache, v) ==
    /\ kind[s] # "email"            \* parseHttpUrl rejects an address
    /\ IF ~skipCache /\ cache[s] # 0
       THEN v = cache[s] /\ UNCHANGED cache
       ELSE v = origin[s] /\ AskOrigin(s)

Fetch(w) ==
    /\ run[w].at = "fetching"
    /\ \E v \in Version :
          /\ Answer(run[w].src, run[w].skipCache, v)
          /\ run' = [run EXCEPT ![w].at = "fetched", ![w].version = v,
                                ![w].skipCache = FALSE]     \* not used again
    /\ UNCHANGED <<sourceVars, job, later, gathered, origin, stored>>

\* A writer that is serialized by the name of its job.
Locked(w) == w \in Worker /\ ~run[w].orphan

\* The time that goes with the articles is taken: observedAt when parseSource
\* comes back from the hub's discovery, created_at when a subscription is
\* inserted.  Writers of the source that have fetched and not yet observed are
\* overtaken, unless it is the lock of a job that keeps the two apart; those
\* that store at the moment have observed earlier.
Observe(w) ==
    LET s == run[w].src IN
    /\ run[w].at = "fetched"
    /\ run' = [x \in Writer |->
                IF x = w THEN [run[x] EXCEPT !.at = "storing"]
                ELSE IF /\ run[x].at = "fetched" /\ run[x].src = s
                        /\ ~(Locked(x) /\ Locked(w))
                THEN [run[x] EXCEPT !.overtaken = TRUE]
                ELSE run[x]]
    /\ later' = [x \in Writer |->
                  IF run[x].at = "storing" /\ run[x].src = s
                  THEN later[x] \cup {w} ELSE later[x]]
    /\ UNCHANGED <<sourceVars, job, gathered, feedVars>>

\* batchUpsertArticles: an article seen later is left as it is.
Store(w) ==
    stored' = [stored EXCEPT ![run[w].src] =
                  IF run[w].outrun THEN @ ELSE run[w].version]

\* Articles were written: those who observed before w will write nothing.
Outrun(w, hasStored) ==
    [x \in Writer |-> IF hasStored /\ w \in later[x]
                      THEN [run[x] EXCEPT !.outrun = TRUE] ELSE run[x]]

\* w is done with its source.
Leave(w, hasStored) ==
    /\ run' = [Outrun(w, hasStored) EXCEPT ![w] = Free]
    /\ later' = [x \in Writer |-> IF x = w THEN {} ELSE later[x] \ {w}]

\* BullMQ removes the job of a processor that returned, if the worker still
\* has its lock; the slot is free.
Finish(w, hasStored) ==
    LET s == run[w].src IN
    /\ job' = IF job[s].lock = w THEN [job EXCEPT ![s] = NoJob] ELSE job
    /\ Leave(w, hasStored)

\* The source's last_attempt becomes the present (a run's success writes the
\* time of its observation, taken here to be that of the statement).
Attempted(s) ==
    /\ idle' = [idle EXCEPT ![s] = 0]
    /\ \E i \in DOMAIN line : line[i] = s /\ line' = Append(RemoveAt(line, i), s)

\* successSource: five minutes at least, whatever the origin allows.
Success(s, lifetime) ==
    /\ wait' = [wait EXCEPT ![s] = Greatest(lifetime, 1)]
    /\ failures' = [failures EXCEPT ![s] = 0]
    /\ Attempted(s)

\* batchUpsertArticles, recomputeUnreadCounts and successSource.
Succeed(w, lifetime) ==
    /\ run[w].at = "storing"
    /\ Store(w)
    /\ Success(run[w].src, lifetime)
    /\ Finish(w, TRUE)
    /\ UNCHANGED <<kind, gathered, origin, cache>>

\* Faulty: the wait doubles with no upper limit.
UncappedBackoff(n) == n + n + 1

\* failSource: five minutes for every failure in a row, up to the cap.
Backoff(n) == Least(n + 1, BackoffCap)

\* Any other error: failSource, whose own error is swallowed (recorded =
\* FALSE).  Some batches of articles may have been stored before.
Fail(w, recorded, partly) ==
    LET s == run[w].src IN
    /\ run[w].at # "free"
    /\ partly => run[w].at = "storing"
    /\ IF partly THEN Store(w) ELSE UNCHANGED stored
    /\ IF recorded
       THEN /\ wait' = [wait EXCEPT ![s] = Backoff(failures[s])]
            /\ failures' = [failures EXCEPT ![s] = Least(@ + 1, BackoffCap)]
            /\ Attempted(s)
       ELSE UNCHANGED <<wait, idle, line, failures>>
    /\ Finish(w, partly)
    /\ UNCHANGED <<kind, gathered, origin, cache>>

\* HttpDeferredError: moveToDelayed(retryAt, token).  It throws when Redis
\* fails or the lock is lost; then the job just ends (moved = FALSE).
Defer(w, moved) ==
    LET s == run[w].src IN
    /\ run[w].at = "fetching"
    /\ kind[s] # "email"
    /\ IF moved
       THEN /\ job[s].lock = w
            /\ job' = [job EXCEPT ![s].at = "delayed", ![s].lock = Nobody]
            /\ Leave(w, FALSE)
       ELSE Finish(w, FALSE)
    /\ UNCHANGED <<sourceVars, gathered, feedVars>>

\* retryAt has come.
Wake(s) ==
    /\ job[s].at = "delayed"
    /\ job' = [job EXCEPT ![s].at = "waiting"]
    /\ UNCHANGED <<sourceVars, run, later, gathered, feedVars>>

Crash(w) ==
    /\ run[w].at # "free"
    /\ Leave(w, FALSE)
    /\ UNCHANGED <<sourceVars, job, gathered, feedVars>>

\* BullMQ finds an active job whose lock was not renewed: it is queued again
\* the first time and failed (hence removed) the second.  A worker that still
\* runs does not notice.
Stall(s) ==
    /\ job[s].at = "active"
    /\ job' = [job EXCEPT ![s] =
                IF @.stalls = 0
                THEN [@ EXCEPT !.at = "waiting", !.lock = Nobody, !.stalls = 1]
                ELSE NoJob]
    /\ run' = [w \in Writer |-> IF w = job[s].lock /\ run[w].src = s
                                THEN [run[w] EXCEPT !.orphan = TRUE]
                                ELSE run[w]]
    /\ UNCHANGED <<sourceVars, later, gathered, feedVars>>

------------------------------------------------------------------------------
(* Subscriptions that are seeded from a preview.  Their requests, leases and *)
(* crashes are module SubscriptionLease's.                                   *)

\* GET /preview: the feed is fetched and kept for its user.  (Ten minutes in
\* the code; here a preview may be of any age.)
Preview(u, s) ==
    /\ run[u].at = "free"
    /\ \E v \in Version :
          /\ Answer(s, FALSE, v)
          /\ run' = [run EXCEPT ![u] = [Free EXCEPT !.at = "fetched", !.src = s,
                                                    !.version = v]]
    /\ UNCHANGED <<sourceVars, job, later, gathered, origin, stored>>

\* The preview expires unused, or the user unsubscribes before it is stored.
Abandon(u) ==
    /\ run[u].at # "free"
    /\ Leave(u, FALSE)
    /\ UNCHANGED <<sourceVars, job, gathered, feedVars>>

\* The user subscribes: the row is inserted with its created_at.
Subscribe(u) == Observe(u)

\* Under the lease: the upsert, the recount and successSource.  When the lease
\* cannot be completed (done = FALSE), a later request of the user resumes with
\* the stored snapshot and the same created_at.
Seed(u, lifetime, done) ==
    /\ run[u].at = "storing"
    /\ Store(u)
    /\ Success(run[u].src, lifetime)
    /\ IF done THEN Leave(u, TRUE)
               ELSE run' = Outrun(u, TRUE) /\ UNCHANGED later
    /\ UNCHANGED <<kind, job, gathered, origin, cache>>

\* The upsert, the recount or successSource throws, perhaps after some batches:
\* the source is enqueued instead; when that throws too, the request fails and
\* a later one resumes.
SeedFails(u, partly, queued) ==
    LET s == run[u].src IN
    /\ run[u].at = "storing"
    /\ IF partly THEN Store(u) ELSE UNCHANGED stored
    /\ IF queued
       THEN job' = AddJob(job, s, TRUE) /\ Leave(u, partly)
       ELSE run' = Outrun(u, partly) /\ UNCHANGED <<job, later>>
    /\ UNCHANGED <<sourceVars, gathered, origin, cache>>

------------------------------------------------------------------------------
(* The rest of the world *)

Publish(s) ==
    /\ kind[s] # "email"
    /\ origin[s] < MaxVersion
    /\ origin' = [origin EXCEPT ![s] = @ + 1]
    /\ UNCHANGED <<sourceVars, queueVars, cache, stored>>

\* Somebody looks at the feed and stores nothing (a preview that is not used,
\* the discovery of its hub).
Browse(s) ==
    /\ s \in Shared
    /\ cache[s] = 0
    /\ AskOrigin(s)
    /\ UNCHANGED <<sourceVars, queueVars, origin, stored>>

CacheExpires(s) ==
    /\ cache[s] # 0
    /\ cache' = [cache EXCEPT ![s] = 0]
    /\ UNCHANGED <<sourceVars, queueVars, origin, stored>>

\* markWebSubVerified and markWebSubFailed (module WebSub).
ChangeKind(s) ==
    /\ s \in Hubbed
    /\ kind' = [kind EXCEPT ![s] = IF @ = "feed" THEN "websub" ELSE "feed"]
    /\ UNCHANGED <<wait, idle, line, failures, queueVars, feedVars>>

Tick ==
    /\ wait' = [s \in Source |-> IF wait[s] = 0 THEN 0 ELSE wait[s] - 1]
    /\ idle' = [s \in Source |-> Least(idle[s] + 1, Day + 1)]
    /\ UNCHANGED <<kind, line, failures, queueVars, feedVars>>

Parse(w) ==
    \/ Fetch(w)
    \/ Observe(w)
    \/ \E lifetime \in Freshness : Succeed(w, lifetime)
    \/ \E recorded, partly \in BOOLEAN : Fail(w, recorded, partly)
    \/ \E moved \in BOOLEAN : Defer(w, moved)

Reads(u) ==
    \/ \E s \in Source : Preview(u, s)
    \/ Abandon(u)
    \/ Subscribe(u)
    \/ \E lifetime \in Freshness, done \in BOOLEAN : Seed(u, lifetime, done)
    \/ \E partly, queued \in BOOLEAN : SeedFails(u, partly, queued)

Next ==
    \/ \E s \in Source : EnqueueManual(s) \/ HubPush(s)
    \/ GatherSelect \/ GatherAdd
    \/ \E w \in Worker, s \in Source : Take(w, s)
    \/ \E w \in Worker : Parse(w) \/ Crash(w)
    \/ \E u \in Subscriber : Reads(u)
    \/ \E s \in Source : Wake(s) \/ Stall(s) \/ Publish(s) \/ Browse(s)
                         \/ CacheExpires(s)
                         \/ ChangeKind(s)
    \/ Tick

Spec == Init /\ [][Next]_vars

\* The schedule repeats GatherJobs, workers take waiting jobs, Redis wakes
\* delayed jobs and expires cached responses, BullMQ's stalled check finds the
\* jobs of crashed workers, and time passes.
RunsOn(w, s) == run[w].src = s
SchedulingFairness ==
    /\ WF_vars(Tick)
    /\ WF_vars(GatherSelect)
    /\ WF_vars(GatherAdd)
    /\ \A s \in Source :
          /\ WF_vars(Wake(s))
          /\ WF_vars(CacheExpires(s))
          /\ SF_vars(\E w \in Worker : Take(w, s))
          /\ WF_vars(job[s].at = "active" /\ run[job[s].lock].src # s /\ Stall(s))
\* A host does not defer a feed for ever: what is tried again and again ends
\* in an outcome the database records.
AttemptFairness ==
    \A s \in Source :
        SF_vars(\E w \in Worker :
                   /\ RunsOn(w, s)
                   /\ \/ \E lifetime \in Freshness : Succeed(w, lifetime)
                      \/ \E partly \in BOOLEAN : Fail(w, TRUE, partly))
\* A feed is not broken for ever either: what is tried again and again works.
\* The run of an email source's address only fails.
FeedFairness ==
    \A s \in Source :
        /\ SF_vars(\E w \in Worker : RunsOn(w, s) /\ Fetch(w))
        /\ SF_vars(\E w \in Worker : RunsOn(w, s) /\ Observe(w))
        /\ SF_vars(\E w \in Worker, lifetime \in Freshness :
                      RunsOn(w, s) /\ Succeed(w, lifetime))
        /\ WF_vars(\E w \in Worker, recorded \in BOOLEAN :
                      s \in Email /\ RunsOn(w, s) /\ Fail(w, recorded, FALSE))
\* A preview expires, and nobody resumes one subscription for ever.
SubscriberFairness ==
    \A u \in Subscriber :
        WF_vars(\/ Abandon(u)
                \/ \E lifetime \in Freshness : Seed(u, lifetime, TRUE)
                \/ \E partly \in BOOLEAN : SeedFails(u, partly, TRUE))
AttemptSpec == Spec /\ SchedulingFairness /\ AttemptFairness
FeedSpec == Spec /\ SchedulingFairness /\ FeedFairness /\ SubscriberFairness

------------------------------------------------------------------------------
(* Properties *)

\* Two workers fetch the same source at once only when one of them has lost
\* its job's lock: the job name serializes polls, pushes and subscriptions.
OneFetchPerSource ==
    \A v, w \in Worker :
        /\ run[v].at # "free" /\ ~run[v].orphan
        /\ run[w].at # "free" /\ ~run[w].orphan
        /\ run[v].src = run[w].src
        => v = w

\* What is stored goes back to an older version of the feed in one way only: a
\* writer takes the time of its observation after another one did that fetched
\* later or at the same time, and one of the two is not kept away by the lock
\* of the job: a run that has lost it, or a subscription that stores its
\* preview.  Neither slow fetches and upserts, nor cached responses, nor
\* pushes, polls and imports, nor resumed subscriptions do it.
StoredNeverRegresses ==
    [][\A s \in Source :
          stored'[s] < stored[s]
          => \E w \in Writer :
                /\ run[w].at = "storing" /\ run[w].src = s
                /\ run[w].overtaken
                /\ stored'[s] = run[w].version]_vars

\* Whatever an origin publishes is stored in the end, also when the push that
\* announced it met a job of the same name and was dropped, or never came: the
\* periodic poll, or a websub source's daily one, finds it.
UpdatesEventuallyStored ==
    \A s \in Source \ Email, v \in Version \ {0} :
        origin[s] = v ~> stored[s] >= v

\* Every feed is attempted again and again, however many are due at a time.
EveryFeedAttempted ==
    \A s \in Source \ Email : []<>(idle[s] = 0)
==============================================================================
