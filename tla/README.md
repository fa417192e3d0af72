# FeedFathom in TLA+

FeedFathom is a self-hosted feed reader: an Elysia server, a BullMQ worker, a
single-page client with a service worker, a browser extension and an email
relay around one PostgreSQL database and one Redis. Servers and workers are
replicated, every request and job is a sequence of separate SQL statements and
Redis commands, and most of the code that is hard to get right is about what
other processes do between two of them. This directory models those parts,
checks them with TLC on small instances and proves the main results with TLAPS
for all values of the constants. Paths below are relative to the repository.

## 1. The system

| Part | State | Operations | Talks to |
|---|---|---|---|
| Subscription initialization (`src/routes/reader/subscribe.ts`, `user-source-data-service.ts`) | `user_sources`: `initializing_at`, `initialization_owner`, `initialized_at`, snapshot | insert or find the row, claim, seed, complete, release, unsubscribe | articles, job queue, cleanup, WebSub discovery |
| Feed scheduling and parsing (`lib/workers/main.ts`, `lib/feed-parser.ts`, `source-data-service.ts`, `article-data-service.ts`) | `sources`: `kind`, `not_before`, `last_attempt`, `recent_failures`; BullMQ jobs; `articles` | gather, enqueue, parse, succeed, fail, defer, stall | HTTP client, WebSub |
| WebSub subscriber (`lib/feed-parser.ts`, `lib/websub.ts`, `routes/websub.ts`, `WebSubRenewal` in `main.ts`) | `sources`: `websub_status`, token, secret, lease end, attempt time | discover, claim an attempt, record, ask the hub, verify, renew, fail, receive a push | hub, job queue |
| HTTP client, response cache (`lib/http-client.ts`) | Redis: cached response and lock per URL; a deadline per call | lock, read, ask, save or remove, release | host gate, transport |
| HTTP client, host gate (`lib/http-client.ts`) | Redis: `blocked`, `interval` and waiter keys per host | reserve, wait, block | workers (deferral) |
| Articles and unread counts (`article-data-service.ts`, `user-source-data-service.ts`) | `articles`, `user_articles`, `unread_count` | upsert, mark read, delete, recompute | every writer of articles |
| Cleanup (`db/maintenance.ts`) | all tables | delete expired users, unused sources, unreachable articles | all of the above |
| Service worker (`spa/public/sw.js`) | IndexedDB queue of deletions, API cache, preloaded tree | queue a deletion, replay, answer from the cache, empty both at a logout | server API, page |
| Accounts and sessions (`user-data-service.ts`, `routes/public-auth`) | `users`, `sessions` | register, activate, log in and out, touch `last_seen_at`, expire | reader API, mail, cleanup |
| Folders and OPML import (`folder-data-service.ts`, `opml-import-service.ts`) | `user_folders`, `opml_imports` | create, delete, move into, import | subscriptions, job queue |
| Preview cache, redirect map (`lib/feed-preview-cache.ts`, `lib/redirect-map.ts`) | Redis keys with a lifetime | save, get, resolve | subscribe, feed parser |
| Feed mapping, scanners, OPML parser | none | pure conversions | feed parser, discovery |
| Mail (`lib/email*`, `cloudflare/email-worker.ts`) | articles | receive, store as an article, answer the relay | articles |
| Migrator and startup (`migrator.ts`, `db/connection.ts`) | schema, migration journal | migrate, wait for a migration | all processes |
| Transport, private network guard | sockets | request | HTTP client |
| Reading page (`spa/dashboard.tsx`, `spa/feed-discovery.tsx`) | selection, lists, counts, forms, requests on their way | select, open, delete, refresh, find, preview, subscribe | server API, extension |
| Extension (`extension/*.ts`, `spa/extension-reader.ts`) | menu, debounce timers, pending reader requests | list a page's feeds, hide, fetch an article | pages, reading page |

What makes each part correct, and what can go wrong in it, is the list of
`hazards` in `PROJECT.json`, each at its line with the properties that cover it.

Three kinds of interaction matter most. *Shared rows and keys*: several replicas
update the same `sources`, `user_sources` row or Redis key in separate
statements. *The job queue*: polls, pushes and subscriptions all add a job named
after the source, and the name is what serializes them. *Answers in any order*:
the pages, the service worker and the extension go on while requests are under
way, and what comes back may belong to a selection, a session or a document
that is gone.

## 2. The modules

| Module | Models |
|---|---|
| `Lease` | the abstract fenced lease of an object: every action names the owner that acts; only the owner that took the lease last gives it back or finishes the object, and only the object it took it for; a finished object stays finished, also when it is gone, and is never leased again |
| `SubscriptionLease` | the `user_sources` row of one user and feed, and any number of `POST /subscribe` requests at work on it; implements `Lease` |
| `FetchJobs` | the `sources` rows, the BullMQ jobs, the workers, the subscribers who store a preview, what is stored of each feed |
| `WebSub` | one source's subscription at a hub: attempts, verification, renewal |
| `CacheLock` | concurrent `HttpClient.get` calls of one URL: lock, deadline, commands on the wire |
| `ArticleRows` | what one upsert does to the row of an article |
| `Articles` | the articles of a feed, the marks and counts of its subscribers, the rules of the cleanup |
| `HostGate` | the turns that requests to one host take: interval, waiters, block |
| `Accounts` | registration, activation, sessions, expiry |
| `Folders` | one user's folders, the subscriptions in them, OPML imports |
| `Migrator` | migrators under the advisory lock, concurrent index builds, waiting workers |
| `Redirects` | the redirect map and permanent moves of sources |
| `MailRelay` | a message from the sending server to its article |
| `OfflineQueue` | the service worker's queue of deletions and its replays |
| `WorkerCache` | the service worker's API cache and preloaded tree, against logout |
| `Dashboard` | the reading page |
| `FeedDiscovery` | the form that finds, previews and subscribes, and the preview cache behind it |
| `ContextMenus` | the extension's menu of a page's feeds |
| `ReaderBridge` | reader mode: page, content script, extension worker |
| `*Proofs` | the theorems of each |
| `MC*` | the values TLC needs; `MCParts` puts the smaller parts side by side |

A name of the code keeps its meaning in the models; `map` in `PROJECT.json`
gives the lines of each definition. Operators marked *Faulty* in a comment are
plausible bugs of the definition that follows them; they occur in no behaviour
of the specifications and show that the properties can fail.

### Server and worker

**SubscriptionLease.** `pc[r]` is the statement a request is about to execute:
`FindSource`, `InsertRow`/`LookupRow` (`addSourceToUser`), `Claim`,
`ExplainRefusal` (the SELECT after a failed claim), `UpsertBatch` and `Stamp`
or `Enqueue` (the work), `Complete`, `Release`. `Unsubscribe` and `Cleanup` are
other writers of the same tables. `NOW()` is an age per row and per request that
grows with `Tick` and stops at the first value past five minutes. Creation times
are row numbers, and an article's `last_seen_in_feed_at` is the creation time
it was stamped with. In terms of `Lease`, a request works on the row of its
subscription while it is in a statement of the lease (`Activities`, `WorksOn`),
and a row is finished while its `initialized_at` is set, for good once the row is
gone (`Completed`). The OPML import, which inserts a subscription with
`initialized_at` set and enqueues its source after the commit, is in `Folders`.
External: the clock, crashes.

**FetchJobs.** `job[s]` is the one job BullMQ can hold under
`parseSource-<id>`; `AddJob` does nothing when it exists. `run[w]` is a job
slot; `orphan` says that it has lost the lock of its job. A subscriber with a
preview is the other sort of writer: `Preview`, `Subscribe` (which takes
`created_at`) and `Seed` need no job and respect no lock. A writer fetches first
(`Fetch`) and takes the time of its observation later (`Observe`:
`feed-parser.ts:242`, behind the await of the hub's discovery; the insert of the
subscription), and the upsert compares these times. `overtaken` says that another
writer, not kept away by the lock of a job, observed between the two; `later[w]`
are those who observed after `w` and `outrun` says that one of them has stored, so
that `w` writes nothing. The clocks of the replicas are taken to agree, and no two
observations to fall into one millisecond. A preview may be of any age here (ten
minutes in the code). `GatherSelect` and `GatherAdd` are the
two halves of `gatherParseSourceJobs`. `line` is the order of `last_attempt`,
`wait` is `not_before`, both in ticks of five minutes. A feed's content is a
version number. The response cache appears as the version it would answer with:
`CacheLock` is where that is earned. External: BullMQ, the origin, the clock.

**WebSub.** One source's row, any number of fetches that discover the hub, the
renewal job and the hub. The callback token and the secret are one value; a new
token is one that nobody remembers (`crypto.randomUUID`). The verification is
two actions (`FindByToken`, `Verify`) because the handler is two statements.
Hubs accept, refuse, lose, verify late and forget, and grant leases of any
length. A run of the renewal job may be late by `MaxLate` ticks or fail outright
(`RenewalMissed`), and its process may die; `Throws` is a claim or a recording
that throws, whose attempt is marked failed all the same. `attempt` is what has
become of the renewal of the lease that is verified: owed, made, or excused.

**CacheLock.** `pc[r]` follows `get`; `wire[r]` holds the commands Redis has
not executed yet, in order. The deadline makes a call throw at once, while what
it has sent still arrives, at most `Delay` ticks later (a stall of the process
between its last look at the clock and the command counts as delay). The lock
lives `Slack` (5 s) longer than the deadline (30 s). `skip` is `skipCache`, and
`floor` records what the call's answer must not be older than. A 304 answers
with the cached version, which is the origin's. A Redis that loses the lock's
key before its time and the client without Redis commands (no lock at all) are
not modelled.

**HostGate.** Each Redis command of `reserve` and `reserveSlot` is an action:
the waiters' INCR and EXPIRE are two, so a caller may die between them or the
counter may expire there. A caller takes itself for a waiter before its INCR is
awaited: one that is rejected (`RegisterFails`) is undone by a DECR as well. `lost`
counts the increments that the counter lacks for either reason. `ahead[c]`
remembers, for a background request that reads the counter, the interactive
requests that had announced themselves.

**Articles.** `job[p]` is the fetch or a user's request: it asks, stores one
article after the other, recounts (`StoreCount` reads, `WriteCount` writes: two
steps, since an UPDATE computes on its snapshot) and stamps. The three pruning
rules of `cleanupOrphanedData` are a select and a delete each. A time is a tick.

**Accounts, Folders, Migrator, MailRelay, Redirects.** One action per statement
or call. A registration or an import may stop after any of them. A deletion of
a folder is `SelectEmptyFolder` and a later delete, because READ COMMITTED
evaluates NOT EXISTS on the statement's snapshot and the foreign key cascades
later. An index build that is interrupted leaves an invalid index. A mail
attempt that the relay has given up goes on. A fetch keeps the hops it has seen
(`fetch.seen`), while the origin may change them. What the response cache has
(`kept`) answers with the URL where the chain ended when it was kept and with no
permanent move, fresh (`Hit`) or after a 304 (`NotModified`).

### Browser

**OfflineQueue, WorkerCache.** A replay (`Flush`) has the entries it read at its
start; the worker may be stopped at any step, and both replays and requests of
the page reach the server in any order. A request opens the cache, asks the
network, and puts its answer into the cache *it opened*: `apiCache.number` tells
the cache that was deleted at a logout from its successor.

**Dashboard.** Requests on their way are records with `current`, the answer of
`supersession.ts`'s guard, and with every state of the server they may have
read. A removal of articles or of a node is a DELETE that the server carries out
(`ServerRemoves`, `ServerRemovesNode`) at another time than the page hears of it.
The answer may be lost (`DeletionFails`, `NodeNotRemoved`); the service worker
answers what the network refuses as if it had been done, and replays it
(`DeletionQueued`, `NodeQueued`, `LateRemoval`); and it may answer a tree request
with a copy (`TreeCopied`). `late` holds the removals that nobody waits for. Lists
are sets, and keyboard, scrolling and drag and drop are left out.

**FeedDiscovery, ContextMenus, ReaderBridge.** The form's shared request
counter; the worker's debounce timer, its update in five asynchronous
operations and the two flags that are looked at between them; the two timers of
reader mode with the messages between page, script and worker.

### How the modules meet

`FetchJobs` uses the result of two others: a fetch sees a fresh cached response
or the origin (`CacheLock`: `AnswersNotOlder`), and `ChangeKind` is what `WebSub`
does to `kind`. `HubPush` is a push of a subscription that `WebSub` has made.
`SubscriptionLease.Enqueue` is `FetchJobs.EnqueueManual`, and the seeding that
`SubscriptionLease` has batch by batch is one `FetchJobs.Seed` that may stop
halfway (`SeedFails`) or be resumed. What `Redirects` calls kept is an entry of
`CacheLock`'s cache, and `Dashboard`'s late removals are entries of `OfflineQueue`.
`Articles` refines
what "stored" means there. `FeedDiscovery`'s submission with a preview is
`SubscriptionLease`'s seeded request. They are kept apart because their product
is out of reach, and each uses the other's effect as an action that may happen
at any time, which allows more than the composition does.

`MCParts` extends eleven modules that share no state, and lets each behaviour be
one of a single part while the others rest; it is one run in place of eleven,
and says nothing about their composition. That it is a behaviour of each of the
eleven is proved (`PartsAreThemselves`).

## 3. What the runs check

| Run | Shows |
|---|---|
| `subscription_lease` | with two requests, crashes, unsubscription and cleanup between any two statements: fresh leases exclude (`FreshLeaseExclusive`), nobody timely is refused by another request (`RefusedOnlyAfterLapse`), 200 is truthful (`OkMeansInitialized`), an initialized subscription has its articles (`InitializedIsSeeded`), the row and the handlers implement `Lease` (`ImplementsLease`: nobody completes or releases but the request that claimed last, completed stays completed), an abandoned lease can be claimed again (`AbandonedLeaseRecovers`) |
| `fetch_jobs` | two workers, a subscriber with a preview, lost locks and crashes: `OneFetchPerSource`; a stored version goes back only through a writer that was overtaken outside a lock (`StoredNeverRegresses`) |
| `fetch_updates` | `UpdatesEventuallyStored`, although pushes that meet a job are dropped and a preview may put an older version back |
| `fetch_attempts` | `EveryFeedAttempted` with more due sources than the gather takes |
| `websub` | `RecentClaimExclusive`, `SlowSourceIsWatched`, and for runs that are late or fail and for leases short and long: one that lapses untried was short, or a run has failed, is late or is still at it (`LapseIsExcused`) |
| `websub_live` | `StrandedIsNoticed`, `PendingHeals` |
| `cache_lock` | `WorkingAlone`, `AnswersNotOlder`, `NoRedundantFetch`, `LockIsFreed` |
| `articles` | `ReadersSettle`: whatever overlapped, once the feed is only polled a reader is shown what the feed shows but for what they deleted, and the stored count is the length of their list |
| `parts` | `HostGate`: `PriorityKept`. `Accounts`: `OneAdmin`, `ActiveIsKept`. `Folders`: `ImportedOnce`, and a deletion takes along only what entered between its two steps (`DeletionTakesOnlyEntered`). `Migrator`: `WorkersFindSchema`. `Redirects`: `StaleRedirectsExpire`. `MailRelay`: `DeliveredOnce`. `OfflineQueue`: `NothingLost`. `ContextMenus`: `MenusSettle`. `ReaderBridge`: `ServedBeforeTimeout`. `FeedDiscovery`: `PreviewIsWanted`. `WorkerCache`: `LogoutForgets`. `PartsTypeOK`: the types of all eleven |
| `dashboard` | `ReaderShowsSelected`, `SkeletonMeansRequest`, `CountsReconcile`, `ListIsOfNode` |
| `folder_race` | violation: a feed that enters a folder while its deletion is under way is deleted (`DeletionKeepsFeeds`) |
| `permanent_redirect` | violation: a remembered temporary redirect followed by a permanent one moves the source for good (`MovesArePermanent`) |

### Bounds

* `SubscriptionLease`: two requests are the least that compete; a third adds
  only another loser. `MaxRows` 2 allows an unsubscription and a fresh row after
  it, which is where old owners meet new rows; one `sources` row, so after the
  cleanup has deleted the source no request finds one again. `LeaseTicks` 1
  separates "fresh", "at the limit" and "over". The batch is one article; that a
  seeding may be partial, and the source may come back, is covered by the
  theorems, which hold for any number of articles and rows.
* `FetchJobs`: two workers and a subscriber are what any two writers need, with or
  without a lock between them; versions up to 2 let what is stored, cached and
  served differ (a version is compared with one other at a time). `fetch_jobs` has
  lifetimes of 0 and a day of 0 ticks: its properties depend on no wait, and a
  source is then due whenever the job allows it. The liveness runs use one worker:
  with more, slots only help. `fetch_attempts` has two due sources for a limit of 1.
  No run has an email source; the invariants proved hold with any.
* `WebSub`: two fetches and two tokens (one in the row, one in a delayed attempt or
  at the hub); a day of two ticks with leases of one and two, a run that is late by
  one, and one that fails: a lease shorter than a day, and one that is just long
  enough. `websub_live` has one fetch and a day of one tick.
* `CacheLock`: two calls, a deadline of 2 ticks, a lock that outlives it by 2
  and commands that are late by 1, so that a late command, an expired lock and a
  new holder can coincide.
* `Articles`: one reader, one article, three ticks. That is enough for a fetch,
  a read, a deletion, a prune and the recounts of any two of them to overlap;
  ticks only order `created_at`, `last_seen_in_feed_at` and `last_success`. The
  article has one text: that a later text replaces an earlier one is not told
  apart here (a second text makes the run several times longer than the others).
* `HostGate`: two interactive callers and one background caller; a patience
  shorter than the counter's lifetime, as in the code (`Patience < CounterTtl`
  is assumed, and true of the code's values); one increment left by a dead caller
  (`MaxAbandoned`) and one rejected (`MaxLost`).
* `Accounts`, `Folders`, `MailRelay`, `OfflineQueue`: two of each actor, and one
  or two rows. `OfflineQueue`'s second deletion is of the folder that holds the
  first one's subscription, so order matters; it also fails when repeated.
* `Migrator`: a baseline and two indexes, two migrators, databases of any age.
* `Redirects`: three URLs, enough for a chain of a temporary and a permanent
  hop, and responses that are kept for the two that redirect; `folder_race` and
  `permanent_redirect` use the same modules.
* `ReaderBridge`: ticks keep the order of the code's timeouts (the worker's abort
  and the messages together are shorter than the page's wait).
* `Dashboard`: two feeds and an empty folder, two articles, two requests on their
  way altogether (any two may race, the removal of a node among them) and one
  failure, which is a request that fails, a lost answer, a removal that is queued
  or a tree that is a copy.

### Fairness

* `TimelySpec` (`SubscriptionLease`): only time passes. The recovery of a lease
  needs no request to finish.
* `SchedulingFairness` (`FetchJobs`): the repeated GatherJobs job, BullMQ's
  delayed and stalled checks, Redis expiry and time, each of which is a timer.
  Taking a job is strongly fair because a slot may be taken by another job again
  and again; new work is pushed on the front of the queue (`lifo`), but there is
  one job per source, so a waiting job's turn comes. `AttemptFairness` adds that
  a host does not defer a feed for ever; `FeedFairness` that a feed is not broken
  for ever, without which nothing can be promised about its content, and
  `SubscriberFairness` that a preview expires and nobody resumes one subscription
  for ever.
* `ServerFairness` (`WebSub`): polls, the daily job and time, and that of
  infinitely many attempts some get past the crashes. `PromptHubFairness` is a
  hub that is, now and then, faster than the next attempt.
* `TimedSpec` (`CacheLock`): time passes, calls past their deadline end
  (`RequestDeadline`'s timer), commands on the wire arrive.
* `ArticlesFairSpec`: the feed is polled and a poll proceeds (the repeated
  GatherJobs job), a request that has begun goes on, a pruning statement that has
  selected deletes, and at some point nothing else happens any more (`calm`).

## 4. What is proved

Everything in this section holds for all values of the constants under the
`ASSUME` of each module (types and non-emptiness; `CacheLock` also assumes
`Delay < Slack`, that a command reaches Redis within the five seconds the lock
has over the deadline; without it the lock does not exclude; `HostGate` and
`ReaderBridge` assume the inequalities named below).

* `SubscriptionLeaseProofs`: the inductive invariant is `LeaseInv`. Alone, no
  invariant of the run is inductive: exclusion needs `Fenced` (a request inside
  its five minutes owns the row, and its own claim is as old as the row's), a
  truthful 200 needs `InitializedIsClosed`, seeding needs `SeededSoFar` (what a
  request has upserted is still there for *its* row, whatever the cleanup
  deletes). `RefinesLease` maps each step to a step of `Lease` or a stutter.
  What the abstract lease compares by the acting owner and its object, the code
  compares in its WHERE clauses by owner and row; that an id is never given out again
  (`IdsKnown`) and that a completed row is not leased (`InitializedIsClosed`) is what
  the mapping needs beyond the statements themselves.
* `FetchJobsProofs`: `FetchesAreSerialized` from `LockInv` (a run that is not an
  orphan has the lock of its source's job, which has one). `StoredVersionsGrow`
  from `VersionInv`: stored <= cached (if anything is) <= origin (`FeedOrder`); a
  writer that was neither overtaken nor outrun holds something at least as new as
  what is stored (`WriterOrder`); and of two writers the one that observed later
  holds the newer version, unless it was overtaken (`PairOrder`). That a writer which
  observes puts nobody else in the wrong needs `LockInv` in its turn: it marks all
  that have fetched but those the lock of a job keeps apart, and of those there is
  only one.
* `WebSubProofs`: `ClaimsExclude` from the claim's cooldown, which outlasts every
  recent attempt; `SlowSourcesAreWatched` from the order in which status, kind
  and token change; `LapsesAreExcused` from `RenewalInv`: as long as a renewal is
  owed and no run has it in hand, what is left of the lease and the time since the
  last run was due add up to a day at least. It assumes nothing about leases and
  delays; that the window is enough for a job on time is the case of it in which
  no run was late or failed.
* `CacheLockProofs`: `CallsWorkAlone` from `WireInv` (what a call can have on the
  wire where it is) and `AloneInv` (whoever works has the lock, and the lock's
  remaining life plus the age of the call is at least the lock's whole life).
  `AnswersAreCurrent` and `FetchesAreNotRedundant` from `AnswerInv`: what is fresh
  in the cache, or in the hands of the only call at work, is at least as new as
  anything anybody was given.
* `FetchJobsProofs` also has `FetchesAreTyped`, from `RowsOK`: `line` stays a
  permutation of the sources, and a source waits no longer than the freshness of an
  answer or the longest back-off. It assumes that the sources are finitely many.
* `ServerProofs`, for `Accounts` and `MailRelay`: `AtMostOneAdmin`, which rests
  on the lock of the table under which `createUser` looks for users and inserts;
  `AccountsInUseAreKept` from `SeenFollowsUse` (`last_seen_at` lags behind the use
  of an account by a day at most, at every step of a login or a touch);
  `MailIsDeliveredOnce` from `WorkIsKept` (an attempt that has stored, counted or
  succeeded left that behind, also when another attempt had been first) and
  `DeliveredIsCounted`.
  For `Migrator` and `Folders`: `SchemaIsReady`. That workers find the schema is
  not inductive: `JournalIsTrue` says that what the journal holds has been applied
  with usable indexes, `PrebuiltIsUsable` that whoever has left the listing of
  pending indexes has made all others usable, which is why the journal can be
  written without looking again. `DeletionsTakeOnlyEntered` from `DeletionsAreWatched`
  (whatever is in a folder that was found empty entered it since).
  `DocumentsAreImportedOnce` from `ImportInv`: who inserts is alone, with a document
  that nobody has imported.
  For `HostGate`: `InteractiveGoesFirst` from `GateInv`: the counter is the number of
  those between their INCR and their DECR, plus what dead callers left in it, less
  what it has lost (`CounterIsExact`), and what it has left of its life plus what a
  caller has waited is at least its whole life (`OutlivesWaiters`). `Patience <
  CounterTtl` then keeps it from expiring under a caller that waits, so that it
  loses only what was not yet given an expiry.
  For `Redirects`: `RedirectsAreForgotten` from `RedirectsInv`. That a stale entry
  dies two lifetimes after the origin's last change is not inductive, since a fetch
  begun behind one entry may write another. `EntryIsDying` says how long each has: an
  entry that is not where its URL ends was written before the change (what is left
  of it and the time since are at most one lifetime), or from such an entry, and then
  its target redirects no further and there are two. `FetchIsTrue` relates what a
  fetch has in hand to the time since the change. `ResponsesAreTrue`: what is kept of
  a URL is where its chain ends, unless there is no calm at all. That chains end is
  proved from the least-number principle (`LeastMember`).
* `BrowserProofs`, for `WorkerCache`, `FeedDiscovery`, `ReaderBridge`, `ContextMenus`
  and `OfflineQueue`:
  `LogoutIsClean`, because a request that is about to put an answer of a user who is
  gone has opened a cache that was deleted (`JobsAreClean`). `WantedPreviewIsShown`
  from `DiscoveryInv` (the request with the latest number asks for what is wanted).
  `ExtensionAnswersFirst` from `OnItsWay`: a request that the page waits for is no
  older than its messages and its fetch have taken; it assumes
  `AbortAfter + MaxLag < PageTimeout`, that messages take less than the five seconds
  by which the page outwaits the extension. `MenusComeToRest` from `Pending`: what
  the worker was told last is in its timer, waits for the end of the update, is what
  the update lists, or is what the menu shows. `NoDeletionIsLost` from `QueueInv`:
  an entry that a replay is about to delete as done has been done (`IsTrue`), and
  removing one entry by its position leaves the others (`Removal`).
* `ReadingProofs`, for `Articles` and `Dashboard`. `LaterObservationWins` and
  `RetriesChangeNothing` are about the upsert alone: two batches leave the text of the
  later observation in whatever order they are written, and a batch stored again
  changes nothing. `StoredRowsMoveOn` from `ArticlesInv` (no job stores what it saw
  later than the present, and only what its document shows): `last_seen_in_feed_at`
  never goes back, and a changed text has a later `updated_at`. `ReadersSettle` is a
  liveness property; its safety half is proved. `PollsSettle`: a poll begun while
  nothing else is at work stays one (`Polling`) until every reader sees the feed.
  `SettledStays`: then no later poll takes it away, not even between two statements.
  `PollIsTrue` says what a poll has done at each of its statements. What is left for
  TLC is fairness: that such a poll begins and proceeds.
  The page: `ReaderIsTrue` from `ReadingInv` (what is open, wanted and on its way agree),
  `SkeletonsEnd` and `ListsAreOfTheNode` from `LoadingInv` (the list that is loading is
  the selected node's), `CountsAreReconciled` from `CountsInv` (when the server has
  carried out no removal that the page has not heard of, and the page is not `behind`,
  the tree that is shown or will be is the server's), on top of `PageIsTyped`.

* `PartsProofs`, for `MCParts`. `PartsAreThemselves`: a behaviour of the composed
  specification is one of each part, so that what is proved of a part holds in it.
  `PartsAreTyped` (`PartsTypeOK`) from the invariants above and, where a type says more
  than they do, from a bound of its own: the counter of `HostGate` is at most the number
  of those who wait and those who died waiting, and at least what is left of the waiters
  when every caller has decremented a counter that had expired (`CounterBounded`); only
  closing the form takes its request numbers past `MaxRequests` (`NumbersOK`);
  subscriptions are in folders that exist (`PlacesOK`); sessions are of users that exist
  (`SessionsOK`); a request of reader mode keeps to its limits (`WithinLimits`).

Only model-checked: the liveness properties (`AbandonedLeaseRecovers`,
`UpdatesEventuallyStored`, `EveryFeedAttempted`, `StrandedIsNoticed`,
`PendingHeals`, `LockIsFreed`, `ReadersSettle`), because they need fairness and
ENABLED, which the proof system does not reach. No theorem needs an induction whose
step is a formula of its own: where one seems to be needed (chains of redirects,
the rest of a queue), positions and the least-number principle take its place.

## 5. What the code does and its comments do not say

Two runs show a disagreement with a comment or a test of the repository:

* `folder_race` (`folder-data-service.ts:39`): the deletion of an empty folder can
  take along a subscription that enters it in another transaction.
  `DeletionTakesOnlyEntered` shows that it takes nothing else.
* `permanent_redirect` (`feed-parser.ts:538`): whether a chain is permanent is
  decided from the hops of one fetch, which may have begun behind a remembered
  temporary hop.

Further behaviour that reading and modelling brought up, and no run is kept for:

* *Pushes.* A push is acknowledged while its source's job is storing what it
  fetched before the change; BullMQ drops the new job and the change waits for
  the daily poll. `UpdatesEventuallyStored` shows that it is not lost.
* *Renewal.* The comment at `source-data-service.ts:493-496` promises "at least one
  renewal attempt before its lease actually lapses, even if a given day's job run is
  late or fails outright". The window equals the period of the job, so for a lease of
  a day one run that is late or fails is enough for it to lapse untried, and
  `websub.ts:44-48` accepts leases shorter than a day. `LapseIsExcused` says what
  does hold. The source still has its fallback poll, and `StrandedIsNoticed` holds.
* *Previews.* A subscription stores a preview that is up to ten minutes old under its
  own, later `created_at`, over what a fetch stored in between (`subscribe.ts:143`);
  and a run takes its `observedAt` after it has fetched (`feed-parser.ts:236-242`).
  Either puts an older text over a newer one (`overtaken` in `StoredNeverRegresses`);
  the next poll that finds a change, or that asks the origin, mends it
  (`UpdatesEventuallyStored`).
* *Tokens.* The token in the row and the one an attempt posts can differ after
  thirty seconds, and each retry of a pending source is a new subscription to the
  hub; a hub slower than the polls never gets a source out of pending, which is
  why `PendingHeals` assumes a prompt one.
* *Host gate.* `waiting` is set before the INCR is awaited (`http-client.ts:455`), so
  a rejected INCR is undone all the same; and a counter that expires between INCR and
  EXPIRE is decremented later. Either leaves -1, which hides the next waiter (`lost`
  in `PriorityKept`).
* *Redirects.* `feed-parser.ts:525-532` takes care that a mapping which the origin has
  taken back is not refreshed, but a cache hit or a 304 answers with the URL where the
  chain ended when the response was kept (`http-client.ts:228-232, 254-270`), and the
  mapping is written anew. `StaleRedirectsExpire` counts from the last such response.
* *Offline queue.* The replay skips a 5xx and a 401 and later entries overtake
  them, as do requests sent directly, although `sw.js:170` asks for the order to
  be kept; the user may then be told that a deletion was discarded which would
  have succeeded in order. A replay goes on after a logout.
* *API cache.* A tree preloaded by a navigation can be an older one, or, after a
  logout, the previous user's (`early` in `LogoutForgets`). The cache stays when a
  session expires, or when a logout is cut short after its request.
* *Reading page.* The tree can stay different from the server's with nothing under
  way and nothing asked for: when the answer of a node's removal is lost, the error is
  shown and no tree is loaded (`dashboard.tsx:634-636`), and a removal that the service
  worker has only queued is answered as done (`sw.js:215-229`), so that the tree loaded
  next still has it and its replay is not announced (`behind` in `CountsReconcile`). A
  folder found empty leaves the skeleton of the list it
  interrupted (`onEmpty` in `SkeletonMeansRequest`); a deletion that fails is
  rolled back into whatever list is shown; a node removed elsewhere clears the
  list of the one selected.
* *Feed discovery.* The feeds found are not disabled while something is loading, so
  a submission and a preview reset each other's flag; `saved()` runs after Cancel.
* *Extension.* The scan of a hidden tab can clear the menu of the visible one, and
  an item that cannot be created leaves the rest of the menu in part (`broken`).
* *Migrator.* A second migrator that waits for the advisory lock holds a snapshot,
  and a concurrent index build of the first waits for it. `Migrator` has no such
  waiting, since it is about the schema and not about progress.

## 6. Not modelled

* Sockets and address checks (`http-native-transport.ts`,
  `private-network-guard.ts`): pure I/O, seen by `CacheLock` as an answer, an error
  or a deadline.
* The scanners of pages, the mapping of documents into articles and the parser of
  OPML: sequential conversions without state, better served by tests with
  documents than by a model that would repeat them.
* The pages for accounts and administration, which send one request per form, but
  for their logout; rendering, layout, keyboard and preferences.
* Favicons, tags and titles of sources, `job_failures`, rate limits of routes,
  captchas, passwords, the cache of the application shell, the update of the
  service worker, configuration and start of processes.
* Of the modelled parts: the second version of an article's text (see *Bounds*),
  several feeds per user in `Articles`, signatures of pushes, a Redis that loses
  keys before their time.

Worth doing next, in this order: `SeesTheFeed` with two texts under a stronger
abstraction of time; an abstract reader's view that `Articles` implements; the
favicon comparison (`isBetterFavicon`) and the freshness directives (`expiresAt`)
against reference definitions.
