------------------------------- MODULE Articles -------------------------------
(***************************************************************************)
(* The articles of one feed and what its subscribers see of them: fetches  *)
(* and subscriptions that store articles one batch after the other, the    *)
(* marks of deleted articles, the stored unread counts, and the cleanup    *)
(* job that prunes rows (article-data-service.ts, maintenance.ts,          *)
(* recomputeUnreadCounts, routes/reader/articles.ts).                      *)
(*                                                                         *)
(* Postgres runs these statements under READ COMMITTED.  A statement that  *)
(* computes what it writes, or selects what it deletes, works on the       *)
(* snapshot of its start and writes later, to rows that may have changed   *)
(* since; so the recount and each pruning statement are two steps.         *)
(*                                                                         *)
(* A time is a tick; Never stands for a null timestamp.  At some point the *)
(* world (publishing, subscribing, deleting, failing, pruning) calms down, *)
(* and from then on the feed is only polled.                               *)
(***************************************************************************)
EXTENDS ArticleRows, FiniteSets

CONSTANTS
    User,
    Guid,
    Fetcher,        \* the job parseSource-<id> of the feed
    Date,           \* dates the feed may give to an article
    Buffer,         \* confirmedGoneFromFeedBuffer
    DormantRule,    \* is the rule for dormant subscribers on?
    StaleAfter,     \* articleStaleAfterDays
    MaxBody,        \* bound: versions of an article
    MaxTime         \* bound: ticks

ASSUME ArticlesAssumption ==
    /\ Fetcher \notin User
    /\ Date \subseteq Nat \ {0}
    /\ Buffer \in Nat
    /\ StaleAfter \in Nat
    /\ DormantRule \in BOOLEAN
    /\ MaxBody \in Nat \ {0}
    /\ MaxTime \in Nat \ {0}
    /\ IsFiniteSet(Guid)

VARIABLES
    now,
    calm,       \* has the world calmed down?
    feed,       \* what the feed shows
    rows,       \* the table articles
    sub,        \* created_at of each user's subscription
    unread,     \* its unread_count
    deleted,    \* the table user_articles
    job,        \* the fetch, and the request each user has in flight
    success,    \* last_success of the source
    prune       \* the cleanup job: its statement, and what that selected

articleVars == <<now, calm, feed, rows, sub, unread, deleted, job, success, prune>>

Process == User \cup {Fetcher}
Time == 1 .. MaxTime
Busy == ~calm

FeedItem == [body : 1 .. MaxBody, date : Date \cup {Never}, listed : BOOLEAN]
NoItem == [body |-> 0, date |-> Never, listed |-> FALSE]
Nothing == [g \in Guid |-> NoItem]
NoCount == Cardinality(Guid) + 1
NoCounts == [u \in User |-> NoCount]
Idle == [pc |-> "idle", doc |-> Nothing, at |-> Never, todo |-> {},
         counts |-> NoCounts, ok |-> FALSE]

Row == [body : 0 .. MaxBody, seen : Time \cup {Never}, updated : Nat]
Doc == [Guid -> FeedItem \cup {NoItem}]
Job == [pc : {"idle", "asked", "store", "count", "write", "stamp"},
        doc : Doc, at : Time \cup {Never}, todo : SUBSET Guid,
        counts : [User -> 0 .. NoCount], ok : BOOLEAN]

ArticlesTypeOK ==
    /\ now \in Time
    /\ calm \in BOOLEAN
    /\ feed \in Doc
    /\ rows \in [Guid -> Row]
    /\ sub \in [User -> Time \cup {Never}]
    /\ unread \in [User -> Nat]
    /\ deleted \in [User -> SUBSET Guid]
    /\ job \in [Process -> Job]
    /\ success \in Time \cup {Never}
    /\ prune \in [rule : 1 .. 3, picks : SUBSET Guid]

ArticlesInit ==
    /\ now = 1
    /\ calm = FALSE
    /\ feed = Nothing
    /\ rows = [g \in Guid |-> NoRow]
    /\ sub = [u \in User |-> Never]
    /\ unread = [u \in User |-> 0]
    /\ deleted = [u \in User |-> {}]
    /\ job = [p \in Process |-> Idle]
    /\ success = Never
    /\ prune = [rule |-> 1, picks |-> {}]

------------------------------------------------------------------------------
(* What a subscriber sees *)

Stored(g) == rows[g] # NoRow
Subscribed(u) == sub[u] # Never

\* userArticleAccessJoin: an article last seen since the subscription began.
Visible(u) == {g \in Guid : Stored(g) /\ Subscribed(u) /\ rows[g].seen >= sub[u]}

\* getUserArticlesForSources.  Nothing sets read_at: a row of user_articles
\* is a deletion.
Listed(u) == Visible(u) \ deleted[u]

\* Faulty: articles from before the subscription are counted as well.
CountOfAll(u) == Cardinality({g \in Guid : Stored(g)} \ deleted[u])

\* The subselect of recomputeUnreadCounts: all that is visible without what
\* the user deleted.
CountOf(u) == Cardinality(Listed(u))

------------------------------------------------------------------------------
(* The feed *)

Publish(g) ==
    /\ Busy
    /\ feed[g].body < MaxBody
    /\ \E date \in Date \cup {Never} :
          feed' = [feed EXCEPT ![g] =
                      [body |-> feed[g].body + 1, date |-> date, listed |-> TRUE]]
    /\ UNCHANGED <<now, calm, rows, sub, unread, deleted, job, success, prune>>

\* The article leaves the feed's window, or comes back to it.
Relist(g) ==
    /\ Busy
    /\ feed[g].body > 0
    /\ feed' = [feed EXCEPT ![g].listed = ~@]
    /\ UNCHANGED <<now, calm, rows, sub, unread, deleted, job, success, prune>>

------------------------------------------------------------------------------
(* Storing articles *)

Shown(doc) == {g \in Guid : doc[g].listed}

\* The worker takes the source's job and has the feed's document; so has the
\* preview a user asks for, who may look at it for a while.
Ask(p) ==
    /\ job[p] = Idle
    /\ IF p = Fetcher THEN \E u \in User : Subscribed(u)
                      ELSE Busy /\ ~Subscribed(p) /\ Shown(feed) # {}
    /\ job' = [job EXCEPT ![p] = [Idle EXCEPT
                  !.pc = "asked", !.doc = [g \in Guid |-> IF feed[g].listed
                                                          THEN feed[g] ELSE NoItem]]]
    /\ UNCHANGED <<now, calm, feed, rows, sub, unread, deleted, success, prune>>

\* A job that stores a document with the time it stands for.
Storing(doc, at) ==
    [Idle EXCEPT !.pc = "store", !.doc = doc, !.at = at, !.todo = Shown(doc),
                 !.ok = TRUE]

\* observedAt is read once the document has arrived.
FetchObserve ==
    /\ job[Fetcher].pc = "asked"
    /\ job' = [job EXCEPT ![Fetcher] = Storing(@.doc, now)]
    /\ UNCHANGED <<now, calm, feed, rows, sub, unread, deleted, success, prune>>

\* One batch of batchUpsertArticles.
StoreBatch(p, g) ==
    /\ job[p].pc = "store"
    /\ g \in job[p].todo
    /\ rows' = [rows EXCEPT ![g] = Upserted(@, job[p].doc[g], job[p].at)]
    /\ job' = [job EXCEPT ![p].todo = @ \ {g}]
    /\ UNCHANGED <<now, calm, feed, sub, unread, deleted, success, prune>>

\* All batches are stored, or one has failed: the recount is due either way.
StoreEnds(p) ==
    /\ job[p].pc = "store"
    /\ job[p].todo = {} \/ Busy
    /\ job' = [job EXCEPT ![p] = [@ EXCEPT
                  !.pc = "count", !.ok = job[p].todo = {}, !.todo = {},
                  !.doc = IF p = Fetcher THEN Nothing ELSE job[p].doc]]
    /\ UNCHANGED <<now, calm, feed, rows, sub, unread, deleted, success, prune>>

\* Who is counted for: every subscriber, or the user who deleted articles.
Scope(p) == IF job[p].at = Never THEN {p} ELSE User

\* recomputeUnreadCounts: the snapshot of the statement.
Count(p) ==
    /\ job[p].pc = "count"
    /\ job' = [job EXCEPT ![p] = [@ EXCEPT
                  !.pc = "write",
                  !.counts = [u \in User |-> IF u \in Scope(p) /\ Subscribed(u)
                                             THEN CountOf(u) ELSE NoCount]]]
    /\ UNCHANGED <<now, calm, feed, rows, sub, unread, deleted, success, prune>>

\* Its update, of the subscriptions it counted that still exist.  A success is
\* stamped next.
WriteCounts(p) ==
    /\ job[p].pc = "write"
    /\ unread' = [u \in User |-> IF job[p].counts[u] = NoCount
                                 THEN unread[u] ELSE job[p].counts[u]]
    /\ job' = [job EXCEPT ![p] = IF @.ok
                                 THEN [@ EXCEPT !.pc = "stamp", !.counts = NoCounts]
                                 ELSE Idle]
    /\ UNCHANGED <<now, calm, feed, rows, sub, deleted, success, prune>>

\* successSource: the fetch passes its observedAt, a subscription lets it be
\* the time of the call.
Stamp(p) ==
    /\ job[p].pc = "stamp"
    /\ success' = IF p = Fetcher THEN job[p].at ELSE now
    /\ job' = [job EXCEPT ![p] = Idle]
    /\ UNCHANGED <<now, calm, feed, rows, sub, unread, deleted, prune>>

\* An error or a crash, or a preview that is left.  The fetch begins anew with
\* the next poll; the row of a subscription keeps the preview it began with,
\* and the user's next request resumes it.
Interrupt(p) ==
    /\ Busy
    /\ job[p].pc \notin {"idle", "write"}
    /\ job' = [job EXCEPT ![p] = IF p # Fetcher /\ @.ok THEN Storing(@.doc, @.at)
                                                       ELSE Idle]
    /\ UNCHANGED <<now, calm, feed, rows, sub, unread, deleted, success, prune>>

------------------------------------------------------------------------------
(* Subscribers *)

\* POST /subscribe.  With a preview, its articles are stored with the time of
\* the subscription; without one the fetch job is left to do it.
Subscribe(u) ==
    /\ Busy
    /\ ~Subscribed(u)
    /\ job[u].pc \in {"idle", "asked"}
    /\ sub' = [sub EXCEPT ![u] = now]
    /\ unread' = [unread EXCEPT ![u] = 0]
    /\ job' = IF job[u] = Idle THEN job
              ELSE [job EXCEPT ![u] = Storing(@.doc, now)]
    /\ UNCHANGED <<now, calm, feed, rows, deleted, success, prune>>

\* DELETE /source: what was counted for the row finds it gone.  A subscription
\* lasts a tick (bound).
Unsubscribe(u) ==
    /\ Busy
    /\ Subscribed(u)
    /\ sub[u] < now
    /\ sub' = [sub EXCEPT ![u] = Never]
    /\ unread' = [unread EXCEPT ![u] = 0]
    /\ job' = [p \in Process |-> [job[p] EXCEPT !.counts[u] = NoCount]]
    /\ UNCHANGED <<now, calm, feed, rows, deleted, success, prune>>

\* DELETE /articles: removeUserArticles marks those the user may see, in one
\* transaction; the recount of the user's counts follows.
Remove(u, gs) ==
    /\ Busy
    /\ job[u] = Idle
    /\ gs \cap Visible(u) # {}
    /\ deleted' = [deleted EXCEPT ![u] = @ \cup (gs \cap Visible(u))]
    /\ job' = [job EXCEPT ![u] = [Idle EXCEPT !.pc = "count"]]
    /\ UNCHANGED <<now, calm, feed, rows, sub, unread, success, prune>>

------------------------------------------------------------------------------
(* cleanupOrphanedData *)

MayHaveSeen(u, g) == Subscribed(u) /\ sub[u] <= rows[g].seen

\* articlesBeforeSubscription
BeforeSubscriptions(g) ==
    /\ \E u \in User : Subscribed(u)
    /\ \A u \in User : Subscribed(u) => rows[g].seen < sub[u]

\* articlesUnreachableByAnyone
GoneForGood(g) ==
    /\ success # Never
    /\ rows[g].seen + Buffer < success
    /\ \A u \in User : MayHaveSeen(u, g) => g \in deleted[u]

\* articlesOnlyDormantCouldSee
OnlyForDormant(g, dormant) ==
    /\ DormantRule
    /\ rows[g].seen + StaleAfter < now
    /\ \A u \in User : MayHaveSeen(u, g) => u \in dormant

Prunable(rule, dormant) ==
    {g \in Guid : Stored(g) /\ CASE rule = 1 -> BeforeSubscriptions(g)
                                 [] rule = 2 -> GoneForGood(g)
                                 [] rule = 3 -> OnlyForDormant(g, dormant)}

\* When users made their last request is not in the state: any that have none
\* in flight may be dormant.
MayBeDormant == {u \in User : job[u] = Idle}

Pruning(rule, picks) == [rule |-> rule, picks |-> picks]
NextRule == (prune.rule % 3) + 1

\* A pruning statement's snapshot; one that selects nothing is over.
PrunePick ==
    /\ Busy
    /\ prune.picks = {}
    /\ \E dormant \in SUBSET MayBeDormant :
          LET picks == Prunable(prune.rule, dormant)
          IN prune' = IF picks = {} THEN Pruning(NextRule, {})
                                    ELSE Pruning(prune.rule, picks)
    /\ UNCHANGED <<now, calm, feed, rows, sub, unread, deleted, job, success>>

\* Its deletions, which take the users' marks with them.
PruneDelete ==
    /\ prune.picks # {}
    /\ rows' = [g \in Guid |-> IF g \in prune.picks THEN NoRow ELSE rows[g]]
    /\ deleted' = [u \in User |-> deleted[u] \ prune.picks]
    /\ prune' = Pruning(NextRule, {})
    /\ UNCHANGED <<now, calm, feed, sub, unread, job, success>>

NextDay ==
    /\ Busy
    /\ now < MaxTime
    /\ now' = now + 1
    /\ UNCHANGED <<calm, feed, rows, sub, unread, deleted, job, success, prune>>

CalmDown ==
    /\ Busy
    /\ calm' = TRUE
    /\ UNCHANGED <<now, feed, rows, sub, unread, deleted, job, success, prune>>

------------------------------------------------------------------------------
JobStep(p) ==
    \/ \E g \in Guid : StoreBatch(p, g)
    \/ StoreEnds(p) \/ Count(p) \/ WriteCounts(p) \/ Stamp(p)

FetchStep == Ask(Fetcher) \/ FetchObserve \/ JobStep(Fetcher)

ArticlesNext ==
    \/ \E g \in Guid : Publish(g) \/ Relist(g)
    \/ FetchStep
    \/ \E p \in Process : Interrupt(p)
    \/ \E u \in User :
          \/ Ask(u) \/ JobStep(u) \/ Subscribe(u) \/ Unsubscribe(u)
          \/ \E gs \in SUBSET Guid : Remove(u, gs)
    \/ PrunePick \/ PruneDelete \/ NextDay \/ CalmDown

ArticlesSpec == ArticlesInit /\ [][ArticlesNext]_articleVars

\* The world calms down, the feed is polled, and what a request or the cleanup has
\* begun ends.
ArticlesFairSpec ==
    /\ ArticlesSpec
    /\ WF_articleVars(CalmDown) /\ WF_articleVars(FetchStep)
    /\ WF_articleVars(PruneDelete)
    /\ \A u \in User : WF_articleVars(JobStep(u))

------------------------------------------------------------------------------
(* Properties *)

\* Whatever recounts, prunings, subscriptions and deletions overlapped: once
\* the feed is only polled, each subscriber is shown what the feed shows
\* except for what they deleted, and the stored count is the list's length.
SeesTheFeed ==
    \A u \in User : Subscribed(u) =>
        /\ unread[u] = Cardinality(Listed(u))
        /\ \A g \in Shown(feed) : g \in Visible(u) /\ rows[g].body = feed[g].body
ReadersSettle == <>[]SeesTheFeed
==============================================================================
