-------------------------- MODULE SubscriptionLease --------------------------
(***************************************************************************)
(* POST /subscribe of one user for one feed, with its initialization       *)
(* lease (src/src/db/data-services/user-source-data-service.ts and         *)
(* src/src/routes/reader/subscribe.ts).                                    *)
(*                                                                         *)
(* The user's requests (a double click, a retry, two browser tabs) run at  *)
(* the same time on any replica of the server.  The first one creates the  *)
(* user_sources row; each then tries to claim the row's lease, seeds the   *)
(* feed's articles from the stored preview (or hands the feed to the       *)
(* worker's queue), and marks the row initialized.  A request may crash    *)
(* anywhere, the user may unsubscribe, and the daily cleanup may delete    *)
(* the feed's sources row once nobody subscribes to it.                    *)
(*                                                                         *)
(* Time is kept as ages: the age of the row's initializing_at and the age  *)
(* of each request's own claim grow together with Tick and stop at         *)
(* LeaseTicks + 1, the first age at which the five minutes are over.       *)
(* created_at of a row is the row's serial number: both only grow.         *)
(***************************************************************************)
EXTENDS Naturals

CONSTANTS
    Request,        \* concurrent POST /subscribe requests
    Article,        \* the batches of articles a preview holds
    NoOwner,        \* initialization_owner IS NULL
    LeaseTicks,     \* five minutes, in ticks of the clock
    MaxRows,        \* bound: user_sources rows created in a behaviour
    MaxSources      \* bound: sources rows created in a behaviour

ASSUME LeaseAssumption ==
    /\ NoOwner \notin Request
    /\ LeaseTicks \in Nat
    /\ MaxRows \in Nat
    /\ MaxSources \in Nat

VARIABLES
    row,        \* the user's user_sources row for the feed, or NoRow
    rows,       \* how many rows have been created
    source,     \* id of the feed's sources row, 0 when there is none
    sourceIds,  \* how many sources rows have been created
    seen,       \* articles.last_seen_in_feed_at, 0 when there is no such row
    enqueued,   \* rows whose feed was handed to the worker's queue
    finished,   \* rows that have been marked initialized
    pc,         \* where each request is
    sub,        \* the row a request works on (subscriptionId)
    feed,       \* the source a request works on (source.id)
    preview,    \* has the request a preview to seed from?
    todo,       \* batches the request has still to upsert
    held        \* age of the request's own claim

dbVars   == <<row, rows, source, sourceIds, seen, enqueued, finished>>
requestVars == <<pc, sub, feed, preview, todo, held>>
vars == <<row, rows, source, sourceIds, seen, enqueued, finished,
          pc, sub, feed, preview, todo, held>>

RowId == 0 .. MaxRows
Age   == 0 .. LeaseTicks + 1

\* A row of user_sources as it is inserted, and the absence of one.
NewRow(id, sourceId, hasPreview) ==
    [id |-> id, source |-> sourceId, owner |-> NoOwner, age |-> 0,
     initialized |-> FALSE, snapshot |-> hasPreview]
NoRow == NewRow(0, 0, FALSE)

\* Places where a request holds what it believes to be a live lease.
Holding == {"seeding", "enqueueing", "completing"}
\* Places where a request has been answered or was never sent.
Answered == {"idle", "ok", "conflict", "error", "crashed"}
Place == Holding \cup Answered \cup
         {"found", "lookup", "added", "refused", "lapsed", "failing"}

Row == [id : RowId, source : 0 .. MaxSources,
        owner : Request \cup {NoOwner}, age : Age,
        initialized : BOOLEAN, snapshot : BOOLEAN]

TypeOK ==
    /\ row \in Row
    /\ rows \in RowId
    /\ source \in 0 .. MaxSources
    /\ sourceIds \in 0 .. MaxSources
    /\ seen \in [Article -> RowId]
    /\ enqueued \in SUBSET RowId
    /\ finished \in SUBSET RowId
    /\ pc \in [Request -> Place]
    /\ sub \in [Request -> RowId]
    /\ feed \in [Request -> 0 .. MaxSources]
    /\ preview \in [Request -> BOOLEAN]
    /\ todo \in [Request -> SUBSET Article]
    /\ held \in [Request -> Age]

Init ==
    /\ row = NoRow
    /\ rows = 0
    /\ source = 0
    /\ sourceIds = 0
    /\ seen = [a \in Article |-> 0]
    /\ enqueued = {}
    /\ finished = {}
    /\ pc = [r \in Request |-> "idle"]
    /\ sub = [r \in Request |-> 0]
    /\ feed = [r \in Request |-> 0]
    /\ preview = [r \in Request |-> FALSE]
    /\ todo = [r \in Request |-> {}]
    /\ held = [r \in Request |-> 0]

Goto(r, place) == pc' = [pc EXCEPT ![r] = place]
At(r, place) == pc[r] = place

------------------------------------------------------------------------------
(* addSourceToUser *)

\* A new request arrives: findOrCreateSourceByUrl.
FindSource(r) ==
    /\ pc[r] \in Answered
    /\ IF source = 0
       THEN /\ sourceIds < MaxSources
            /\ sourceIds' = sourceIds + 1
            /\ source' = sourceIds'
       ELSE UNCHANGED <<source, sourceIds>>
    /\ feed' = [feed EXCEPT ![r] = source']
    /\ sub' = [sub EXCEPT ![r] = 0]
    /\ preview' = [preview EXCEPT ![r] = FALSE]
    /\ held' = [held EXCEPT ![r] = 0]
    /\ todo' = [todo EXCEPT ![r] = {}]
    /\ Goto(r, "found")
    /\ UNCHANGED <<row, rows, seen, enqueued, finished>>

\* INSERT INTO user_sources ... ON CONFLICT DO NOTHING.  The foreign key
\* fails when the source is gone; hasPreview is the feed-preview cache's
\* answer, stored in the new row as its snapshot.
InsertRow(r, hasPreview) ==
    /\ At(r, "found")
    /\ \/ /\ source # feed[r]
          /\ Goto(r, "error")
          /\ UNCHANGED <<row, rows, sub, preview>>
       \/ /\ source = feed[r]
          /\ row.id # 0
          /\ Goto(r, "lookup")
          /\ UNCHANGED <<row, rows, sub, preview>>
       \/ /\ source = feed[r]
          /\ row.id = 0
          /\ rows < MaxRows
          /\ rows' = rows + 1
          /\ row' = NewRow(rows', source, hasPreview)
          /\ sub' = [sub EXCEPT ![r] = rows']
          /\ preview' = [preview EXCEPT ![r] = hasPreview]
          /\ Goto(r, "added")
    /\ UNCHANGED <<source, sourceIds, seen, enqueued, finished,
                   feed, todo, held>>

\* The insert met an existing row, which is read back in a second statement.
LookupRow(r) ==
    /\ At(r, "lookup")
    /\ \/ /\ row.id = 0                     \* conflict without a row
          /\ Goto(r, "error")
          /\ UNCHANGED <<sub, preview>>
       \/ /\ row.id # 0
          /\ sub' = [sub EXCEPT ![r] = row.id]
          /\ preview' = [preview EXCEPT ![r] = row.snapshot]
          /\ Goto(r, IF row.initialized THEN "ok" ELSE "added")
    /\ UNCHANGED <<dbVars, feed, todo, held>>

------------------------------------------------------------------------------
(* withSubscriptionInitializationLease *)

\* Faulty: the lease never expires.
NeverExpired == FALSE

Expired == row.age > LeaseTicks

\* Faulty: the claim does not look at the lease.
ClaimableByAnyone(id) == row.id = id /\ ~row.initialized

Claimable(id) ==
    /\ row.id = id
    /\ ~row.initialized
    /\ row.owner = NoOwner \/ Expired

Claim(r) ==
    /\ At(r, "added")
    /\ IF Claimable(sub[r])
       THEN /\ row' = [row EXCEPT !.owner = r, !.age = 0]
            /\ held' = [held EXCEPT ![r] = 0]
            /\ todo' = [todo EXCEPT ![r] = IF preview[r] THEN Article ELSE {}]
            /\ Goto(r, IF preview[r] THEN "seeding" ELSE "enqueueing")
       ELSE /\ Goto(r, "refused")
            /\ UNCHANGED <<row, held, todo>>
    /\ UNCHANGED <<rows, source, sourceIds, seen, enqueued, finished,
                   sub, feed, preview>>

\* The claim failed; a second statement says why.
ExplainRefusal(r) ==
    /\ At(r, "refused")
    /\ Goto(r, IF row.id = sub[r] /\ row.initialized THEN "ok" ELSE "conflict")
    /\ UNCHANGED <<dbVars, sub, feed, preview, todo, held>>

\* Faulty: the row is updated by its id alone.
OwnsUnfenced(r) == row.id = sub[r] /\ ~row.initialized

Owns(r) ==
    /\ row.id = sub[r]
    /\ row.owner = r
    /\ ~row.initialized

CompletedRow == [row EXCEPT !.owner = NoOwner, !.age = 0,
                            !.initialized = TRUE, !.snapshot = FALSE]

\* Faulty: the number of updated rows is not looked at.
CompleteUnchecked(r, next) ==
    /\ At(r, "completing")
    /\ row' = IF Owns(r) THEN CompletedRow ELSE row
    /\ finished' = IF Owns(r) THEN finished \cup {sub[r]} ELSE finished
    /\ Goto(r, next)
    /\ UNCHANGED <<rows, source, sourceIds, seen, enqueued,
                   sub, feed, preview, todo, held>>

\* completeSubscriptionInitialization: 0 rows updated means the lease was
\* lost.  The reply to a committed update may be lost too (next = "failing").
Complete(r, next) ==
    /\ At(r, "completing")
    /\ IF Owns(r)
       THEN /\ row' = CompletedRow
            /\ finished' = finished \cup {sub[r]}
            /\ Goto(r, next)
       ELSE /\ Goto(r, "lapsed")
            /\ UNCHANGED <<row, finished>>
    /\ UNCHANGED <<rows, source, sourceIds, seen, enqueued,
                   sub, feed, preview, todo, held>>

\* The update itself failed.
CompleteFails(r) ==
    /\ At(r, "completing")
    /\ Goto(r, "failing")
    /\ UNCHANGED <<dbVars, sub, feed, preview, todo, held>>

\* releaseSubscriptionInitialization, then the error is thrown on.
Release(r) ==
    /\ pc[r] \in {"lapsed", "failing"}
    /\ row' = IF Owns(r) THEN [row EXCEPT !.owner = NoOwner, !.age = 0]
                         ELSE row
    /\ Goto(r, "error")
    /\ UNCHANGED <<rows, source, sourceIds, seen, enqueued, finished,
                   sub, feed, preview, todo, held>>

------------------------------------------------------------------------------
(* The work done under the lease *)

\* Faulty: an upsert overwrites whatever last_seen_in_feed_at it finds.
UpsertBatchBlindly(r) ==
    /\ At(r, "seeding")
    /\ source = feed[r]
    /\ \E a \in todo[r] :
          /\ seen' = [seen EXCEPT ![a] = sub[r]]
          /\ todo' = [todo EXCEPT ![r] = @ \ {a}]
    /\ UNCHANGED <<row, rows, source, sourceIds, enqueued, finished,
                   pc, sub, feed, preview, held>>

\* One batch of batchUpsertArticles, stamped with the row's created_at.
UpsertBatch(r) ==
    /\ At(r, "seeding")
    /\ source = feed[r]
    /\ \E a \in todo[r] :
          /\ seen' = [seen EXCEPT ![a] = IF sub[r] >= @ THEN sub[r] ELSE @]
          /\ todo' = [todo EXCEPT ![r] = @ \ {a}]
    /\ UNCHANGED <<row, rows, source, sourceIds, enqueued, finished,
                   pc, sub, feed, preview, held>>

\* A batch, the recount or successSource throws: the feed is enqueued instead.
\* A batch always throws when the source it refers to is gone.
SeedFails(r) ==
    /\ At(r, "seeding")
    /\ Goto(r, "enqueueing")
    /\ UNCHANGED <<dbVars, sub, feed, preview, todo, held>>

\* All batches are in: recomputeUnreadCounts and successSource, whose state
\* (unread counts, the poll schedule) is not part of this module.
Stamp(r) ==
    /\ At(r, "seeding")
    /\ todo[r] = {}
    /\ Goto(r, "completing")
    /\ UNCHANGED <<dbVars, sub, feed, preview, todo, held>>

\* enqueueSource; it throws when Redis cannot be reached.
Enqueue(r) ==
    /\ At(r, "enqueueing")
    /\ \/ /\ enqueued' = enqueued \cup {sub[r]}
          /\ Goto(r, "completing")
       \/ /\ Goto(r, "failing")
          /\ UNCHANGED enqueued
    /\ UNCHANGED <<row, rows, source, sourceIds, seen, finished,
                   sub, feed, preview, todo, held>>

------------------------------------------------------------------------------
(* The rest of the world *)

Crash(r) ==
    /\ pc[r] \notin Answered
    /\ Goto(r, "crashed")
    /\ UNCHANGED <<dbVars, sub, feed, preview, todo, held>>

\* removeSourceFromUser
Unsubscribe ==
    /\ row.id # 0
    /\ row' = NoRow
    /\ UNCHANGED <<rows, source, sourceIds, seen, enqueued, finished,
                   requestVars>>

\* cleanupOrphanedData: a source without subscribers goes with its articles;
\* articles nobody who subscribes could have seen go too.
Cleanup ==
    /\ source # 0
    /\ \/ /\ row.id = 0
          /\ source' = 0
          /\ seen' = [a \in Article |-> 0]
       \/ /\ row.id # 0
          /\ seen' = [a \in Article |-> IF seen[a] < row.id THEN 0 ELSE seen[a]]
          /\ UNCHANGED source
    /\ UNCHANGED <<row, rows, sourceIds, enqueued, finished, requestVars>>

Older(age) == IF age > LeaseTicks THEN age ELSE age + 1

Tick ==
    /\ row' = [row EXCEPT !.age = IF row.owner = NoOwner THEN @ ELSE Older(@)]
    /\ held' = [r \in Request |-> IF pc[r] \in Holding THEN Older(held[r])
                                                        ELSE held[r]]
    /\ UNCHANGED <<rows, source, sourceIds, seen, enqueued, finished,
                   pc, sub, feed, preview, todo>>

Step(r) ==
    \/ FindSource(r)
    \/ \E hasPreview \in BOOLEAN : InsertRow(r, hasPreview)
    \/ LookupRow(r)
    \/ Claim(r)
    \/ ExplainRefusal(r)
    \/ \E next \in {"ok", "failing"} : Complete(r, next)
    \/ CompleteFails(r)
    \/ Release(r)
    \/ UpsertBatch(r)
    \/ SeedFails(r)
    \/ Stamp(r)
    \/ Enqueue(r)
    \/ Crash(r)

Next ==
    \/ \E r \in Request : Step(r)
    \/ Unsubscribe
    \/ Cleanup
    \/ Tick

Spec == Init /\ [][Next]_vars

\* Only time is certain to pass: nothing obliges a client to send or resend
\* a request, and a request may crash at every step.
TimelySpec == Spec /\ WF_vars(Tick)

------------------------------------------------------------------------------
(* Properties *)

\* Among the requests whose five minutes are not over, at most one is doing a
\* subscription's initialization work, whatever lapsed requests still do.
FreshLeaseExclusive ==
    \A r, s \in Request :
        /\ pc[r] \in Holding /\ held[r] <= LeaseTicks
        /\ pc[s] \in Holding /\ held[s] <= LeaseTicks
        /\ sub[r] = sub[s]
        => r = s

\* "Subscription initialization lease expired" is thrown only to a request
\* that outlived its five minutes or whose subscription is gone: no other
\* request can make a timely one fail.
RefusedOnlyAfterLapse ==
    \A r \in Request :
        At(r, "lapsed") => held[r] > LeaseTicks \/ row.id # sub[r]

\* A 200 answer means the subscription it names has been initialized (by this
\* request or by another one).
OkMeansInitialized ==
    \A r \in Request : At(r, "ok") => sub[r] \in finished

\* A subscription is marked initialized only when the reader will get the
\* feed: either every article of the preview is visible to it
\* (last_seen_in_feed_at >= created_at) or a fetch was queued for it.
InitializedIsSeeded ==
    row.initialized =>
        \/ row.id \in enqueued
        \/ \A a \in Article : seen[a] >= row.id

\* The inductive invariant behind the four invariants above.
IdsKnown ==
    /\ row.id <= rows
    /\ \A id \in finished : id # 0 /\ id <= rows
    /\ \A r \in Request :
          /\ sub[r] <= rows
          /\ pc[r] \in Holding \cup {"added", "refused", "lapsed", "failing"}
             => sub[r] # 0
InitializedIsClosed ==
    /\ row.id = 0 => row.owner = NoOwner
    /\ row.initialized => row.owner = NoOwner
    /\ row.initialized <=> row.id \in finished
Fenced ==
    \A r \in Request :
        pc[r] \in Holding /\ sub[r] = row.id =>
            /\ held[r] <= LeaseTicks => row.owner = r
            /\ row.owner = r => row.age = held[r]
SeededSoFar ==
    \A r \in Request : sub[r] = row.id =>
        /\ At(r, "seeding") => \A a \in Article \ todo[r] : seen[a] >= row.id
        /\ At(r, "completing") => \/ row.id \in enqueued
                                 \/ \A a \in Article : seen[a] >= row.id
LeaseInv ==
    /\ TypeOK
    /\ IdsKnown
    /\ InitializedIsClosed
    /\ Fenced
    /\ SeededSoFar
    /\ FreshLeaseExclusive
    /\ RefusedOnlyAfterLapse
    /\ OkMeansInitialized
    /\ InitializedIsSeeded

\* A lease left behind by a crashed or unanswered request does not block the
\* subscription for ever: in time the row can be claimed again.
Abandoned ==
    row.owner # NoOwner /\ pc[row.owner] \notin Holding
Recoverable ==
    row.id = 0 \/ row.initialized \/ Claimable(row.id)
AbandonedLeaseRecovers == Abandoned ~> Recoverable

\* The state in the terms of the abstract lease: what a request is doing, the
\* row it does it for, the rows that are completed (of the present row it is
\* initialized_at that counts; the history stands for the rows that are gone)
\* and whether the time of the claim in the row is over.
Activity(place) ==
    IF place \in Holding THEN "working"
    ELSE IF place \in {"lapsed", "failing"} THEN "ending"
    ELSE IF place = "ok" THEN "served"
    ELSE IF place = "crashed" THEN "dead"
    ELSE "away"
Activities == [r \in Request |-> Activity(pc[r])]
WorksOn ==
    [r \in Request |-> IF Activity(pc[r]) \in {"working", "ending", "served"}
                       THEN sub[r] ELSE 0]
Completed == {id \in finished : id # row.id}
                \cup (IF row.initialized THEN {row.id} ELSE {})
Lapsed == row.owner # NoOwner /\ Expired

\* The columns of user_sources and the statements of the handlers implement the
\* fenced lease of module Lease: nobody completes or releases a subscription
\* but the request that claimed it last, a completed subscription is never
\* open again, and a 200 answer names a completed one.
L == INSTANCE Lease WITH
        Owner <- Request,
        object <- row.id,
        made <- rows,
        holder <- row.owner,
        lapsed <- Lapsed,
        finished <- Completed,
        at <- Activities,
        on <- WorksOn
ImplementsLease == L!LeaseSpec
==============================================================================
