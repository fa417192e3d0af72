---------------------------- MODULE ReadingProofs -----------------------------
(***************************************************************************)
(* What readers are promised, on the server and on the page.               *)
(* Articles: upserts commute and repeat without effect, rows only move on  *)
(* in time, and in the quiet a poll brings every subscriber the feed and   *)
(* no later one takes it away, for any subscribers, articles and dates:    *)
(* the safety half of ReadersSettle.                                       *)
(* Dashboard: what the reader shows, what a skeleton stands for, when the  *)
(* counts are the server's, and whose list is shown, for any tree of feeds *)
(* and folders and any number of requests.                                 *)
(***************************************************************************)
EXTENDS Articles, Dashboard, FiniteSetTheorems, TLAPS

USE ArticlesAssumption

------------------------------------------------------------------------------
(* What an upsert does to a row *)

AnyRow == [body : Nat, seen : Nat, updated : Nat]
AnyItem == [body : Nat \ {0}, date : Nat, listed : BOOLEAN]

LEMMA UpsertedRow ==
    ASSUME NEW row \in AnyRow, NEW item \in AnyItem, NEW at \in Nat \ {0}
    PROVE  /\ Upserted(row, item, at) \in AnyRow /\ Upserted(row, item, at) # NoRow
           /\ Upserted(row, item, at).body \in {row.body, item.body}
           /\ Upserted(row, item, at).seen \in {row.seen, at}
           /\ Upserted(row, item, at).seen >= row.seen
           /\ at >= row.seen => /\ Upserted(row, item, at).body = item.body
                                /\ Upserted(row, item, at).seen = at
           /\ at < row.seen => Upserted(row, item, at) = row
           /\ row # NoRow /\ Upserted(row, item, at).body # row.body =>
                 Upserted(row, item, at).updated > row.updated
<1>. DEFINE later == UpdatedAt(row, item, at)
            new == [body |-> item.body, seen |-> at, updated |-> later]
            first == [body |-> item.body, seen |-> at, updated |-> item.date]
<1>1. /\ row.body \in Nat /\ row.seen \in Nat /\ row.updated \in Nat
      /\ item.body \in Nat \ {0} /\ item.date \in Nat
  BY DEF AnyRow, AnyItem
<1>2. /\ later \in Nat
      /\ item.body # row.body => later > row.updated
  BY <1>1 DEF UpdatedAt, Later, Never
<1>. HIDE DEF later
<1>3. /\ new \in AnyRow /\ new.body = item.body /\ new.seen = at /\ new.updated = later
      /\ first \in AnyRow /\ first.body = item.body /\ first.seen = at
  BY <1>1, <1>2 DEF AnyRow
<1>4. new # NoRow /\ first # NoRow /\ NoRow.seen = 0
  BY <1>1, <1>3 DEF NoRow, Never
<1>5. Upserted(row, item, at) = IF row = NoRow THEN first
                                ELSE IF at < row.seen THEN row ELSE new
  BY DEF Upserted, later
<1>. HIDE DEF new, first
<1>6. CASE row = NoRow
  BY <1>1, <1>3, <1>4, <1>5, <1>6
<1>7. CASE row # NoRow /\ at < row.seen
  BY <1>1, <1>5, <1>7
<1>8. CASE row # NoRow /\ ~(at < row.seen)
  BY <1>1, <1>2, <1>3, <1>4, <1>5, <1>8
<1>. QED
  BY <1>6, <1>7, <1>8

\* Two runs that store the same article leave the text of the one that observed the
\* feed later, whichever writes last (batchUpsertArticles).
THEOREM LaterObservationWins ==
    ASSUME NEW row \in AnyRow, NEW i \in AnyItem, NEW j \in AnyItem,
           NEW s \in Nat \ {0}, NEW t \in Nat \ {0}, s < t
    PROVE  /\ Upserted(Upserted(row, i, s), j, t).body = Upserted(Upserted(row, j, t), i, s).body
           /\ Upserted(Upserted(row, i, s), j, t).seen = Upserted(Upserted(row, j, t), i, s).seen
           /\ t >= row.seen => Upserted(Upserted(row, i, s), j, t).body = j.body
<1>. DEFINE a == Upserted(row, i, s)
            b == Upserted(row, j, t)
<1>1. row.body \in Nat /\ row.seen \in Nat
  BY DEF AnyRow
<1>2. /\ a \in AnyRow /\ a.seen \in Nat /\ a.body \in Nat
      /\ s >= row.seen => a.body = i.body /\ a.seen = s
      /\ s < row.seen => a = row
  BY UpsertedRow DEF AnyRow
<1>3. /\ b \in AnyRow /\ b.seen \in Nat /\ b.body \in Nat
      /\ t >= row.seen => b.body = j.body /\ b.seen = t
      /\ t < row.seen => b = row
  BY UpsertedRow DEF AnyRow
<1>. HIDE DEF a, b
<1>4. /\ t >= a.seen => Upserted(a, j, t).body = j.body /\ Upserted(a, j, t).seen = t
      /\ t < a.seen => Upserted(a, j, t) = a
  BY <1>2, UpsertedRow
<1>5. /\ s >= b.seen => Upserted(b, i, s).body = i.body /\ Upserted(b, i, s).seen = s
      /\ s < b.seen => Upserted(b, i, s) = b
  BY <1>3, UpsertedRow
<1>6. CASE t < row.seen
  BY <1>1, <1>2, <1>3, <1>4, <1>5, <1>6 DEF a, b
<1>7. CASE t >= row.seen
  <2>1. t >= a.seen /\ s < b.seen
    BY <1>1, <1>2, <1>3, <1>7
  <2>. QED
    BY <1>3, <1>4, <1>5, <1>7, <2>1 DEF a, b
<1>. QED
  BY <1>1, <1>6, <1>7

\* A batch that is stored again, as a resumed subscription does, changes nothing.
THEOREM RetriesChangeNothing ==
    ASSUME NEW row \in AnyRow, NEW item \in AnyItem, NEW at \in Nat \ {0}
    PROVE  Upserted(Upserted(row, item, at), item, at) = Upserted(row, item, at)
<1>. DEFINE new == Upserted(row, item, at)
<1>1. new \in AnyRow /\ new # NoRow
  BY UpsertedRow
<1>2. CASE at < row.seen
  BY <1>2, UpsertedRow
<1>3. CASE ~(at < row.seen)
  <2>1. /\ row.updated \in Nat /\ item.date \in Nat /\ item.body \in Nat \ {0} /\ row.seen \in Nat
        /\ row.body \in Nat
    BY DEF AnyRow, AnyItem
  <2>2. new.body = item.body /\ new.seen = at
    BY <1>3, <2>1, UpsertedRow
  <2>3. new = [body |-> new.body, seen |-> new.seen, updated |-> new.updated]
    BY <1>1 DEF AnyRow
  <2>4. UpdatedAt(new, item, at) = new.updated
    <3>1. \/ new.updated = item.date
          \/ new.updated = UpdatedAt(row, item, at)
      BY <1>3 DEF Upserted
    <3>2. \/ new.updated = item.date
          \/ item.date = Never
          \/ new.updated \in Nat /\ item.date <= new.updated /\ new.updated # Never
      BY <2>1, <3>1 DEF UpdatedAt, Later, Never
    <3>. HIDE DEF new
    <3>. QED
      BY <2>1, <2>2, <3>2 DEF UpdatedAt, Never
  <2>. HIDE DEF new
  <2>5. Upserted(new, item, at) = [body |-> item.body, seen |-> at, updated |-> new.updated]
    BY <1>1, <2>1, <2>2, <2>4 DEF Upserted
  <2>6. Upserted(new, item, at) = new
    BY <2>2, <2>3, <2>5
  <2>. QED
    BY <2>6 DEF new
<1>. QED
  BY <1>2, <1>3

------------------------------------------------------------------------------
(* Types and times *)

\* A job stores nothing later than the present, and only what its document shows.
TrueJob(j, present) ==
    /\ j.at <= present
    /\ j.pc = "store" \/ j.ok => j.at # Never
    /\ j.pc = "store" => j.todo \subseteq Shown(j.doc)

TimesAreTrue ==
    /\ \A u \in User : sub[u] <= now
    /\ \A g \in Guid : rows[g].seen <= now
    /\ \A p \in Process : TrueJob(job[p], now)

ArticlesInv == ArticlesTypeOK /\ TimesAreTrue

LEMMA Ranges ==
    /\ Time \subseteq Nat \ {0} /\ Never = 0 /\ 1 \in Time
    /\ NoCount \in 0 .. NoCount /\ NoCount = Cardinality(Guid) + 1
    /\ Fetcher \in Process /\ User \subseteq Process
    /\ \A t \in Time : t < MaxTime => t + 1 \in Time
    /\ \A t \in Time \cup {Never} : t \in Nat
    /\ \A date \in Date \cup {Never} : date \in Nat
    /\ \A n \in 0 .. NoCount : n \in Nat
    /\ \A b \in 0 .. MaxBody : b \in Nat
    /\ \A b \in 1 .. MaxBody : b \in Nat \ {0}
<1>1. Cardinality(Guid) \in Nat
  BY FS_CardinalityType
<1>2. \A date \in Date \cup {Never} : date \in Nat
  BY DEF Never
<1>3. \A t \in Time \cup {Never} : t \in Nat
  BY DEF Never, Time
<1>. QED
  BY <1>1, <1>2, <1>3 DEF Time, Never, NoCount, Process

LEMMA NothingYet ==
    /\ NoItem \notin FeedItem /\ NoItem.body = 0 /\ NoItem.listed = FALSE
    /\ Nothing \in Doc
    /\ NoCounts \in [User -> 0 .. NoCount]
    /\ NoRow \in Row
    /\ Idle \in Job /\ Idle.pc = "idle" /\ Idle.counts = NoCounts /\ Idle.todo = {}
    /\ \A present \in Nat : TrueJob(Idle, present)
<1>1. NoItem \notin FeedItem /\ NoItem.body = 0 /\ NoItem.listed = FALSE
  BY DEF NoItem, FeedItem
<1>2. Nothing \in Doc
  BY DEF Nothing, Doc
<1>3. NoCounts \in [User -> 0 .. NoCount]
  BY Ranges DEF NoCounts
<1>4. NoRow \in Row
  BY Ranges DEF NoRow, Row
<1>5. /\ Idle \in Job /\ Idle.pc = "idle" /\ Idle.at = 0 /\ Idle.ok = FALSE
      /\ Idle.counts = NoCounts /\ Idle.todo = {}
  BY <1>2, <1>3, Ranges DEF Idle, Job
<1>. QED
  BY <1>1, <1>2, <1>3, <1>4, <1>5 DEF TrueJob

LEMMA CountsAreSmall == \A u \in User : CountOf(u) \in 0 .. Cardinality(Guid)
<1>. SUFFICES ASSUME NEW u \in User PROVE CountOf(u) \in 0 .. Cardinality(Guid)
  OBVIOUS
<1>1. Listed(u) \subseteq Guid
  BY DEF Listed, Visible
<1>2. IsFiniteSet(Listed(u)) /\ Cardinality(Listed(u)) <= Cardinality(Guid)
  BY <1>1, FS_Subset
<1>3. Cardinality(Listed(u)) \in Nat /\ Cardinality(Guid) \in Nat
  BY <1>2, FS_CardinalityType
<1>. QED
  BY <1>2, <1>3 DEF CountOf

LEMMA ArticlesInitially == ArticlesInit => ArticlesInv
<1>. SUFFICES ASSUME ArticlesInit PROVE ArticlesInv
  OBVIOUS
<1>1. /\ now = 1 /\ calm = FALSE /\ feed = Nothing
      /\ rows = [g \in Guid |-> NoRow] /\ NoRow.seen = 0
      /\ sub = [u \in User |-> 0] /\ unread = [u \in User |-> 0]
      /\ deleted = [u \in User |-> {}] /\ job = [p \in Process |-> Idle]
      /\ success = 0 /\ prune = [rule |-> 1, picks |-> {}]
  BY Ranges DEF ArticlesInit, NoRow
<1>2. /\ now \in Time /\ sub \in [User -> Time \cup {Never}]
      /\ unread \in [User -> Nat] /\ success \in Time \cup {Never}
      /\ prune \in [rule : 1 .. 3, picks : SUBSET Guid]
      /\ deleted \in [User -> SUBSET Guid]
  BY <1>1, Ranges
<1>3. job \in [Process -> Job] /\ rows \in [Guid -> Row] /\ feed \in Doc
  BY <1>1, NothingYet
<1>4. TimesAreTrue
  BY <1>1, NothingYet DEF TimesAreTrue
<1>. QED
  BY <1>1, <1>2, <1>3, <1>4 DEF ArticlesInv, ArticlesTypeOK

\* One job goes on; nothing else changes.
LEMMA OneJob ==
    ASSUME ArticlesInv, NEW p \in Process, NEW new \in Job, TrueJob(new, now),
           job' = [job EXCEPT ![p] = new],
           UNCHANGED <<now, feed, rows, sub, unread, deleted, prune>>,
           calm' \in BOOLEAN, success' \in Time \cup {Never}
    PROVE  ArticlesInv'
<1>1. /\ job \in [Process -> Job] /\ \A q \in Process : TrueJob(job[q], now)
  BY DEF ArticlesInv, ArticlesTypeOK, TimesAreTrue
<1>2. job' \in [Process -> Job] /\ \A q \in Process : TrueJob(job'[q], now)
  BY <1>1
<1>. QED
  BY <1>2 DEF ArticlesInv, ArticlesTypeOK, TimesAreTrue

\* A job that begins to store a document.
LEMMA StoringJob ==
    ASSUME NEW doc \in Doc, NEW at \in Time
    PROVE  /\ Storing(doc, at) \in Job
           /\ Storing(doc, at).pc = "store" /\ Storing(doc, at).doc = doc
           /\ Storing(doc, at).at = at /\ Storing(doc, at).todo = Shown(doc)
           /\ \A present \in Nat : at <= present => TrueJob(Storing(doc, at), present)
<1>1. Shown(doc) \in SUBSET Guid
  BY DEF Shown
<1>2. /\ Storing(doc, at) \in Job
      /\ Storing(doc, at).pc = "store" /\ Storing(doc, at).doc = doc
      /\ Storing(doc, at).at = at /\ Storing(doc, at).todo = Shown(doc)
  BY <1>1, NothingYet DEF Storing, Job
<1>. QED
  BY <1>2, Ranges DEF TrueJob

\* The fields of a job.
LEMMA Fields ==
    ASSUME ArticlesInv, NEW p \in Process
    PROVE  /\ job[p] \in Job /\ TrueJob(job[p], now)
           /\ job[p].doc \in Doc /\ job[p].at \in Time \cup {Never}
           /\ job[p].todo \in SUBSET Guid /\ job[p].ok \in BOOLEAN
           /\ job[p].counts \in [User -> 0 .. NoCount]
           /\ job[p] = [pc |-> job[p].pc, doc |-> job[p].doc, at |-> job[p].at,
                        todo |-> job[p].todo, counts |-> job[p].counts, ok |-> job[p].ok]
           /\ now \in Time
BY DEF ArticlesInv, ArticlesTypeOK, TimesAreTrue, Job

\* A document shows items only.
LEMMA ShownItems ==
    ASSUME NEW doc \in Doc, NEW g \in Shown(doc)
    PROVE  g \in Guid /\ doc[g] \in FeedItem /\ doc[g] \in AnyItem /\ doc[g].listed
<1>1. g \in Guid /\ doc[g].listed /\ doc[g] \in FeedItem \cup {NoItem}
  BY DEF Shown, Doc
<1>2. doc[g] \in FeedItem
  BY <1>1, NothingYet
<1>3. doc[g] \in AnyItem
  BY <1>2, Ranges DEF FeedItem, AnyItem
<1>. QED
  BY <1>1, <1>2, <1>3

\* One batch: the row of g becomes what Upserted says, and no other one changes.
LEMMA Batch ==
    ASSUME ArticlesInv, NEW p \in Process, NEW g \in Guid, StoreBatch(p, g)
    PROVE  /\ job[p].at \in Time /\ job[p].at <= now
           /\ job[p].doc[g] \in AnyItem /\ rows[g] \in AnyRow
           /\ rows'[g] = Upserted(rows[g], job[p].doc[g], job[p].at)
           /\ rows' \in [Guid -> Row] /\ rows'[g].seen <= now
           /\ \A h \in Guid \ {g} : rows'[h] = rows[h]
<1>. DEFINE item == job[p].doc[g]
            at == job[p].at
            new == Upserted(rows[g], item, at)
<1>1. /\ job[p].pc = "store" /\ g \in job[p].todo /\ rows' = [rows EXCEPT ![g] = new]
  BY DEF StoreBatch
<1>2. at \in Time /\ at <= now /\ job[p].doc \in Doc /\ g \in Shown(job[p].doc)
  BY <1>1, Fields DEF TrueJob
<1>3. item \in FeedItem /\ item \in AnyItem
  BY <1>2, ShownItems
<1>4. rows[g] \in Row /\ rows[g].seen <= now /\ rows \in [Guid -> Row]
  BY DEF ArticlesInv, ArticlesTypeOK, TimesAreTrue
<1>5. rows[g] \in AnyRow
  BY <1>4, Ranges DEF Row, AnyRow
<1>6. /\ new \in AnyRow /\ new.body \in {rows[g].body, item.body}
      /\ new.seen \in {rows[g].seen, at}
  BY <1>2, <1>3, <1>5, Ranges, UpsertedRow
<1>. HIDE DEF new
<1>7. new \in Row /\ new.seen <= now
  BY <1>2, <1>3, <1>4, <1>6 DEF Row, FeedItem, AnyRow
<1>8. rows' \in [Guid -> Row] /\ rows'[g] = new /\ \A h \in Guid \ {g} : rows'[h] = rows[h]
  BY <1>1, <1>4, <1>7
<1>. QED
  BY <1>2, <1>3, <1>5, <1>7, <1>8 DEF new

\* The feed changes, the calm comes, or a pruning statement selects.
LEMMA ElsewhereOnly ==
    ASSUME ArticlesInv, UNCHANGED <<rows, sub, job>>, now' \in Time, now' >= now,
           calm' \in BOOLEAN, feed' \in Doc, unread' \in [User -> Nat],
           deleted' \in [User -> SUBSET Guid], success' \in Time \cup {Never},
           prune' \in [rule : 1 .. 3, picks : SUBSET Guid]
    PROVE  ArticlesInv'
<1>1. \A p \in Process : TrueJob(job[p], now')
  <2>. SUFFICES ASSUME NEW p \in Process PROVE TrueJob(job[p], now')
    OBVIOUS
  <2>1. TrueJob(job[p], now) /\ job[p].at \in Nat /\ now \in Nat /\ now' \in Nat
    BY Fields, Ranges
  <2>. QED
    BY <2>1 DEF TrueJob
<1>2. /\ \A u \in User : sub[u] <= now'
      /\ \A g \in Guid : rows[g].seen <= now'
  <2>1. /\ \A u \in User : sub[u] \in Nat
        /\ \A g \in Guid : rows[g].seen \in Nat
        /\ now \in Nat /\ now' \in Nat
    BY Ranges DEF ArticlesInv, ArticlesTypeOK, Row
  <2>. QED
    BY <2>1 DEF ArticlesInv, TimesAreTrue
<1>. QED
  BY <1>1, <1>2 DEF ArticlesInv, ArticlesTypeOK, TimesAreTrue

LEMMA Rules ==
    ASSUME ArticlesInv
    PROVE  /\ NextRule \in 1 .. 3 /\ prune.rule \in 1 .. 3
           /\ \A rule \in 1 .. 3, picks \in SUBSET Guid :
                 /\ Pruning(rule, picks) \in [rule : 1 .. 3, picks : SUBSET Guid]
                 /\ Pruning(rule, picks).picks = picks
           /\ \A dormant : Prunable(prune.rule, dormant) \in SUBSET Guid
<1>1. prune.rule \in 1 .. 3
  BY DEF ArticlesInv, ArticlesTypeOK
<1>2. NextRule \in 1 .. 3
  BY <1>1 DEF NextRule
<1>3. \A rule \in 1 .. 3, picks \in SUBSET Guid :
         /\ Pruning(rule, picks) \in [rule : 1 .. 3, picks : SUBSET Guid]
         /\ Pruning(rule, picks).picks = picks
  BY DEF Pruning
<1>4. \A dormant : Prunable(prune.rule, dormant) \in SUBSET Guid
  BY DEF Prunable
<1>. QED
  BY <1>1, <1>2, <1>3, <1>4

LEMMA ArticlesStep == ArticlesInv /\ [ArticlesNext]_articleVars => ArticlesInv'
<1>. SUFFICES ASSUME ArticlesInv, [ArticlesNext]_articleVars PROVE ArticlesInv'
  OBVIOUS
<1>0. /\ now \in Time /\ calm \in BOOLEAN /\ feed \in Doc /\ rows \in [Guid -> Row]
      /\ sub \in [User -> Time \cup {Never}] /\ unread \in [User -> Nat]
      /\ deleted \in [User -> SUBSET Guid] /\ job \in [Process -> Job]
      /\ success \in Time \cup {Never} /\ prune \in [rule : 1 .. 3, picks : SUBSET Guid]
      /\ now \in Nat
  BY Ranges DEF ArticlesInv, ArticlesTypeOK
<1>1. ASSUME NEW g \in Guid, Publish(g) \/ Relist(g) PROVE ArticlesInv'
  <2>1. feed[g] \in FeedItem \cup {NoItem}
    BY <1>0 DEF Doc
  <2>2. feed' \in Doc
    <3>1. CASE Relist(g)
      <4>1. feed[g] \in FeedItem
        BY <2>1, <3>1, NothingYet DEF Relist
      <4>2. [feed[g] EXCEPT !.listed = ~@] \in FeedItem
        BY <4>1 DEF FeedItem
      <4>. QED
        BY <1>0, <3>1, <4>2 DEF Relist, Doc
    <3>2. CASE Publish(g)
      <4>1. PICK date \in Date \cup {Never} :
               feed' = [feed EXCEPT ![g] =
                           [body |-> feed[g].body + 1, date |-> date, listed |-> TRUE]]
        BY <3>2 DEF Publish
      <4>2. feed[g].body + 1 \in 1 .. MaxBody
        <5>1. feed[g].body \in 0 .. MaxBody /\ feed[g].body < MaxBody
          BY <2>1, <3>2, NothingYet DEF Publish, FeedItem
        <5>. QED
          BY <5>1
      <4>3. [body |-> feed[g].body + 1, date |-> date, listed |-> TRUE] \in FeedItem
        BY <4>2 DEF FeedItem
      <4>. QED
        BY <1>0, <4>1, <4>3 DEF Doc
    <3>. QED
      BY <1>1, <3>1, <3>2
  <2>. QED
    BY <1>0, <1>1, <2>2, ElsewhereOnly DEF Publish, Relist
<1>2. ASSUME NEW p \in Process, Ask(p) PROVE ArticlesInv'
  <2>. DEFINE doc == [g \in Guid |-> IF feed[g].listed THEN feed[g] ELSE NoItem]
              new == [Idle EXCEPT !.pc = "asked", !.doc = doc]
  <2>1. doc \in Doc
    BY <1>0 DEF Doc
  <2>. HIDE DEF doc
  <2>2. new \in Job /\ new.pc = "asked" /\ new.at = Idle.at
    BY <2>1, NothingYet DEF Job
  <2>3. TrueJob(new, now)
    BY <1>0, <2>2, NothingYet DEF TrueJob
  <2>4. job' = [job EXCEPT ![p] = new]
    BY <1>2 DEF Ask, doc
  <2>. HIDE DEF new
  <2>. QED
    BY <1>0, <1>2, <2>2, <2>3, <2>4, OneJob DEF Ask
<1>3. CASE FetchObserve
  <2>. DEFINE new == Storing(job[Fetcher].doc, now)
  <2>1. new \in Job /\ TrueJob(new, now)
    BY <1>0, Fields, StoringJob, Ranges
  <2>2. job' = [job EXCEPT ![Fetcher] = new]
    BY <1>0, <1>3 DEF FetchObserve
  <2>. HIDE DEF new
  <2>. QED
    BY <1>0, <1>3, <2>1, <2>2, Ranges, OneJob DEF FetchObserve
<1>4. ASSUME NEW p \in Process, NEW g \in Guid, StoreBatch(p, g) PROVE ArticlesInv'
  <2>. DEFINE new == [job[p] EXCEPT !.todo = @ \ {g}]
  <2>1. /\ new \in Job /\ new.pc = job[p].pc /\ new.at = job[p].at /\ new.doc = job[p].doc
        /\ new.todo = job[p].todo \ {g} /\ new.ok = job[p].ok
    BY Fields DEF Job
  <2>2. TrueJob(new, now)
    BY <2>1, Fields DEF TrueJob
  <2>3. job' = [job EXCEPT ![p] = new]
    BY <1>0, <1>4 DEF StoreBatch
  <2>. HIDE DEF new
  <2>4. job' \in [Process -> Job] /\ \A q \in Process : TrueJob(job'[q], now)
    BY <1>0, <2>1, <2>2, <2>3, Fields
  <2>5. rows' \in [Guid -> Row] /\ \A h \in Guid : rows'[h].seen <= now
    BY <1>4, Batch DEF ArticlesInv, TimesAreTrue
  <2>. QED
    BY <1>4, <2>4, <2>5 DEF StoreBatch, ArticlesInv, ArticlesTypeOK, TimesAreTrue
<1>5. ASSUME NEW p \in Process, StoreEnds(p) PROVE ArticlesInv'
  <2>. DEFINE doc == IF p = Fetcher THEN Nothing ELSE job[p].doc
              done == job[p].todo = {}
              new == [job[p] EXCEPT !.pc = "count", !.ok = done, !.todo = {}, !.doc = doc]
  <2>1. doc \in Doc /\ done \in BOOLEAN
    BY Fields, NothingYet
  <2>2. job' = [job EXCEPT ![p] = new]
    BY <1>0, <1>5, Fields DEF StoreEnds
  <2>. HIDE DEF doc, done
  <2>3. /\ new \in Job /\ new.pc = "count" /\ new.at = job[p].at
        /\ job[p].pc = "store"
    BY <1>5, <2>1, Fields DEF Job, StoreEnds
  <2>. HIDE DEF new
  <2>4. TrueJob(new, now)
    BY <2>3, Fields DEF TrueJob
  <2>. HIDE DEF new
  <2>. QED
    BY <1>0, <1>5, <2>2, <2>3, <2>4, OneJob DEF StoreEnds
<1>6. ASSUME NEW p \in Process, Count(p) PROVE ArticlesInv'
  <2>. DEFINE counts == [u \in User |-> IF u \in Scope(p) /\ Subscribed(u)
                                        THEN CountOf(u) ELSE NoCount]
              new == [job[p] EXCEPT !.pc = "write", !.counts = counts]
  <2>1. counts \in [User -> 0 .. NoCount]
    BY CountsAreSmall, Ranges, FS_CardinalityType
  <2>2. job' = [job EXCEPT ![p] = new]
    BY <1>0, <1>6 DEF Count
  <2>. HIDE DEF counts
  <2>3. new \in Job /\ new.pc = "write" /\ new.at = job[p].at /\ new.ok = job[p].ok
    BY <2>1, Fields DEF Job
  <2>. HIDE DEF new
  <2>4. TrueJob(new, now)
    BY <2>3, Fields DEF TrueJob
  <2>. HIDE DEF new
  <2>. QED
    BY <1>0, <1>6, <2>2, <2>3, <2>4, OneJob DEF Count
<1>7. ASSUME NEW p \in Process, WriteCounts(p) PROVE ArticlesInv'
  <2>. DEFINE stamping == [job[p] EXCEPT !.pc = "stamp", !.counts = NoCounts]
              new == IF job[p].ok THEN stamping ELSE Idle
  <2>1. /\ stamping \in Job /\ stamping.pc = "stamp" /\ stamping.at = job[p].at
        /\ stamping.ok = job[p].ok
    BY Fields, NothingYet DEF Job
  <2>2. new \in Job /\ TrueJob(new, now)
    BY <1>0, <2>1, Fields, NothingYet DEF TrueJob
  <2>3. job' = [job EXCEPT ![p] = new]
    BY <1>0, <1>7 DEF WriteCounts
  <2>. HIDE DEF new
  <2>4. job' \in [Process -> Job] /\ \A q \in Process : TrueJob(job'[q], now)
    BY <1>0, <2>2, <2>3, Fields
  <2>5. unread' \in [User -> Nat]
    <3>1. \A u \in User : job[p].counts[u] \in Nat
      BY Fields, Ranges
    <3>. QED
      BY <1>0, <1>7, <3>1 DEF WriteCounts
  <2>. QED
    BY <1>7, <2>4, <2>5 DEF WriteCounts, ArticlesInv, ArticlesTypeOK, TimesAreTrue
<1>8. ASSUME NEW p \in Process, Stamp(p) PROVE ArticlesInv'
  <2>1. success' \in Time \cup {Never}
    BY <1>0, <1>8, Fields DEF Stamp
  <2>. QED
    BY <1>0, <1>8, <2>1, NothingYet, OneJob DEF Stamp
<1>9. ASSUME NEW p \in Process, Interrupt(p) PROVE ArticlesInv'
  <2>. DEFINE new == IF p # Fetcher /\ job[p].ok THEN Storing(job[p].doc, job[p].at) ELSE Idle
  <2>1. job' = [job EXCEPT ![p] = new]
    BY <1>0, <1>9 DEF Interrupt
  <2>2. CASE job[p].at \in Time
    <3>1. /\ Storing(job[p].doc, job[p].at) \in Job
          /\ TrueJob(Storing(job[p].doc, job[p].at), now)
      BY <1>0, <2>2, Fields, StoringJob DEF TrueJob
    <3>2. new \in Job /\ TrueJob(new, now)
      BY <1>0, <3>1, NothingYet
    <3>. HIDE DEF new
    <3>. QED
      BY <1>0, <1>9, <2>1, <3>2, OneJob DEF Interrupt
  <2>3. CASE ~job[p].ok \/ p = Fetcher
    <3>1. new = Idle
      BY <2>3
    <3>. QED
      BY <1>0, <1>9, <2>1, <3>1, NothingYet, OneJob DEF Interrupt
  <2>. QED
    BY <2>2, <2>3, Fields DEF TrueJob
<1>10. ASSUME NEW u \in User, Subscribe(u) PROVE ArticlesInv'
  <2>1. sub' = [sub EXCEPT ![u] = now] /\ unread' = [unread EXCEPT ![u] = 0]
    BY <1>10 DEF Subscribe
  <2>2. /\ sub' \in [User -> Time \cup {Never}] /\ unread' \in [User -> Nat]
        /\ \A v \in User : sub'[v] <= now
    BY <1>0, <2>1 DEF ArticlesInv, TimesAreTrue
  <2>3. job' \in [Process -> Job] /\ \A q \in Process : TrueJob(job'[q], now)
    <3>1. CASE job' = job
      BY <1>0, <3>1, Fields
    <3>2. CASE job' = [job EXCEPT ![u] = Storing(job[u].doc, now)]
      BY <1>0, <3>2, Fields, StoringJob, Ranges
    <3>. QED
      BY <1>0, <1>10, <3>1, <3>2, Ranges DEF Subscribe
  <2>. QED
    BY <1>10, <2>2, <2>3 DEF Subscribe, ArticlesInv, ArticlesTypeOK, TimesAreTrue
<1>11. ASSUME NEW u \in User, Unsubscribe(u) PROVE ArticlesInv'
  <2>1. /\ sub' = [sub EXCEPT ![u] = Never] /\ unread' = [unread EXCEPT ![u] = 0]
        /\ job' = [p \in Process |-> [job[p] EXCEPT !.counts[u] = NoCount]]
    BY <1>11 DEF Unsubscribe
  <2>2. /\ sub' \in [User -> Time \cup {Never}] /\ unread' \in [User -> Nat]
        /\ \A v \in User : sub'[v] <= now
    BY <1>0, <2>1, Ranges DEF ArticlesInv, TimesAreTrue
  <2>3. ASSUME NEW p \in Process
        PROVE  /\ [job[p] EXCEPT !.counts[u] = NoCount] \in Job
               /\ TrueJob([job[p] EXCEPT !.counts[u] = NoCount], now)
    <3>. DEFINE counts == [job[p].counts EXCEPT ![u] = NoCount]
                new == [job[p] EXCEPT !.counts = counts]
    <3>1. counts \in [User -> 0 .. NoCount]
      BY Fields, Ranges
    <3>2. new = [job[p] EXCEPT !.counts[u] = NoCount]
      OBVIOUS
    <3>. HIDE DEF counts
    <3>3. /\ new \in Job /\ new.pc = job[p].pc /\ new.at = job[p].at /\ new.doc = job[p].doc
          /\ new.todo = job[p].todo /\ new.ok = job[p].ok
      BY <3>1, Fields DEF Job
    <3>. HIDE DEF new
    <3>4. TrueJob(new, now)
      BY <3>3, Fields DEF TrueJob
    <3>. QED
      BY <3>2, <3>3, <3>4
  <2>4. job' \in [Process -> Job] /\ \A q \in Process : TrueJob(job'[q], now)
    BY <2>1, <2>3
  <2>. QED
    BY <1>11, <2>2, <2>4 DEF Unsubscribe, ArticlesInv, ArticlesTypeOK, TimesAreTrue
<1>12. ASSUME NEW u \in User, NEW gs \in SUBSET Guid, Remove(u, gs) PROVE ArticlesInv'
  <2>. DEFINE new == [Idle EXCEPT !.pc = "count"]
  <2>1. new \in Job /\ TrueJob(new, now)
    <3>1. new \in Job /\ new.pc = "count" /\ new.at = Idle.at /\ new.ok = Idle.ok
      BY NothingYet DEF Job
    <3>. HIDE DEF new
    <3>. QED
      BY <1>0, <3>1, NothingYet DEF TrueJob
  <2>2. job' = [job EXCEPT ![u] = new]
    BY <1>12 DEF Remove
  <2>. HIDE DEF new
  <2>3. job' \in [Process -> Job] /\ \A q \in Process : TrueJob(job'[q], now)
    BY <1>0, <2>1, <2>2, Fields
  <2>4. deleted' \in [User -> SUBSET Guid]
    BY <1>0, <1>12 DEF Remove
  <2>. QED
    BY <1>12, <2>3, <2>4 DEF Remove, ArticlesInv, ArticlesTypeOK, TimesAreTrue
<1>13. CASE PrunePick
  <2>1. PICK dormant \in SUBSET MayBeDormant :
           LET picks == Prunable(prune.rule, dormant)
           IN prune' = IF picks = {} THEN Pruning(NextRule, {})
                                     ELSE Pruning(prune.rule, picks)
    BY <1>13 DEF PrunePick
  <2>2. prune' \in [rule : 1 .. 3, picks : SUBSET Guid]
    BY <2>1, Rules
  <2>. QED
    BY <1>0, <1>13, <2>2, ElsewhereOnly DEF PrunePick
<1>14. CASE PruneDelete
  <2>1. rows' = [g \in Guid |-> IF g \in prune.picks THEN NoRow ELSE rows[g]]
    BY <1>14 DEF PruneDelete
  <2>2. rows' \in [Guid -> Row] /\ \A g \in Guid : rows'[g].seen <= now
    <3>1. NoRow.seen = 0 /\ \A g \in Guid : rows[g].seen <= now
      BY Ranges DEF NoRow, ArticlesInv, TimesAreTrue
    <3>. QED
      BY <1>0, <2>1, <3>1, NothingYet
  <2>3. /\ prune' \in [rule : 1 .. 3, picks : SUBSET Guid]
        /\ deleted' \in [User -> SUBSET Guid]
    BY <1>0, <1>14, Rules DEF PruneDelete
  <2>. QED
    BY <1>0, <1>14, <2>2, <2>3 DEF PruneDelete, ArticlesInv, ArticlesTypeOK, TimesAreTrue
<1>15. CASE NextDay
  <2>1. now' \in Time /\ now' >= now
    BY <1>0, <1>15, Ranges DEF NextDay
  <2>. QED
    BY <1>0, <1>15, <2>1, ElsewhereOnly DEF NextDay
<1>16. CASE CalmDown
  BY <1>0, <1>16, ElsewhereOnly DEF CalmDown
<1>17. CASE UNCHANGED articleVars
  BY <1>0, <1>17, ElsewhereOnly DEF articleVars
<1>18. ASSUME NEW p \in Process, JobStep(p) PROVE ArticlesInv'
  BY <1>4, <1>5, <1>6, <1>7, <1>8, <1>18 DEF JobStep
<1>. QED
  BY <1>1, <1>2, <1>3, <1>9, <1>10, <1>11, <1>12, <1>13, <1>14, <1>15, <1>16, <1>17, <1>18, Ranges
  DEF ArticlesNext, FetchStep

\* Rows, counts, jobs and marks have their types: no count passes the number of
\* articles and no time is later than the present.
THEOREM ArticlesAreTyped == ArticlesSpec => []ArticlesInv
<1>. QED
  BY ArticlesInitially, ArticlesStep, PTL DEF ArticlesSpec

------------------------------------------------------------------------------
(* What a row keeps *)

\* As long as an article is stored, its last sighting never goes back, and when
\* its text changes its updated_at gets later (batchUpsertArticles).
MovesOn(g) ==
    rows[g] # NoRow /\ rows'[g] # NoRow =>
       /\ rows'[g].seen >= rows[g].seen
       /\ rows'[g].body # rows[g].body => rows'[g].updated > rows[g].updated

RowsMoveOn == [][\A g \in Guid : MovesOn(g)]_articleVars

\* Whatever fetches, retries and prunings overlap, a stored article only moves
\* forward in time: no late or repeated batch brings back an older sighting, and
\* readers who sort by updated_at find each new text later than the one before.
THEOREM StoredRowsMoveOn == ArticlesSpec => RowsMoveOn
<1>1. ArticlesInv /\ [ArticlesNext]_articleVars => \A g \in Guid : MovesOn(g)
  <2>. SUFFICES ASSUME ArticlesInv, [ArticlesNext]_articleVars
                PROVE  \A g \in Guid : MovesOn(g)
    OBVIOUS
  <2>1. \A g \in Guid : rows[g] \in Row /\ rows[g].seen \in Nat
    <3>1. \A g \in Guid : rows[g] \in Row
      BY DEF ArticlesInv, ArticlesTypeOK
    <3>. QED
      BY <3>1, Ranges DEF Row
  <2>2. CASE UNCHANGED rows
    BY <2>1, <2>2 DEF MovesOn
  <2>3. ASSUME NEW p \in Process, NEW h \in Guid, StoreBatch(p, h)
        PROVE  \A g \in Guid : MovesOn(g)
    <3>. DEFINE new == Upserted(rows[h], job[p].doc[h], job[p].at)
    <3>1. /\ job[p].at \in Nat \ {0} /\ job[p].doc[h] \in AnyItem /\ rows[h] \in AnyRow
          /\ rows'[h] = new
      BY <2>3, Batch, Ranges
    <3>2. /\ new.seen >= rows[h].seen
          /\ rows[h] # NoRow /\ new.body # rows[h].body => new.updated > rows[h].updated
      BY <3>1, UpsertedRow
    <3>3. MovesOn(h)
      BY <3>1, <3>2 DEF MovesOn
    <3>4. \A g \in Guid \ {h} : MovesOn(g)
      BY <2>1, <2>3, Batch DEF MovesOn
    <3>. QED
      BY <3>3, <3>4
  <2>4. CASE PruneDelete
    BY <2>1, <2>4 DEF PruneDelete, MovesOn
  <2>5. \/ UNCHANGED rows
        \/ \E p \in Process, h \in Guid : StoreBatch(p, h)
        \/ PruneDelete
    BY Ranges
    DEF ArticlesNext, FetchStep, JobStep, articleVars, Publish, Relist, Ask, FetchObserve,
        StoreEnds, Count, WriteCounts, Stamp, Interrupt, Subscribe, Unsubscribe, Remove, PrunePick,
        NextDay, CalmDown
  <2>. QED
    BY <2>2, <2>3, <2>4, <2>5
<1>. QED
  BY <1>1, ArticlesAreTyped, PTL DEF RowsMoveOn, ArticlesSpec

------------------------------------------------------------------------------
(* A poll in the quiet *)

\* Nobody but the feed's poll is at work; a preview may be looked at.
Quiet ==
    /\ calm
    /\ prune.picks = {}
    /\ \A u \in User : job[u].pc \in {"idle", "asked"}

\* What a fetch of the feed finds.
AsShown == [g \in Guid |-> IF feed[g].listed THEN feed[g] ELSE NoItem]

\* What the feed shows of g has been stored, and every subscriber may see it.
InPlace(g) ==
    /\ Stored(g) /\ rows[g].body = feed[g].body
    /\ \A u \in User : rows[g].seen >= sub[u]

\* What the feed shows is what the poll has fetched, has stored as far as it is
\* due, and has counted when it comes to write.
PollIsTrue ==
    LET poll == job[Fetcher] IN
    /\ poll.pc \in {"asked", "store"} => poll.doc = AsShown
    /\ poll.pc = "store" =>
          /\ poll.at = now
          /\ \A g \in Shown(feed) \ poll.todo : InPlace(g)
          /\ poll.todo \subseteq Shown(feed)
    /\ poll.pc \in {"count", "write", "stamp"} =>
          poll.at # Never /\ \A g \in Shown(feed) : InPlace(g)
    /\ poll.pc = "write" =>
          \A u \in User : poll.counts[u] = IF Subscribed(u) THEN CountOf(u) ELSE NoCount

Polling ==
    /\ Quiet /\ PollIsTrue
    /\ job[Fetcher].pc \in {"asked", "store", "count", "write"}

Settled == Quiet /\ PollIsTrue /\ SeesTheFeed

\* A poll that begins in the quiet goes on until every subscriber sees the feed.
PollSettles == [][/\ Quiet /\ Ask(Fetcher) => Polling'
                  /\ Polling => Polling' \/ Settled']_articleVars

\* In the quiet only the poll takes a step, and it leaves the quiet alone.
LEMMA QuietStep ==
    ASSUME ArticlesInv, Quiet, [ArticlesNext]_articleVars
    PROVE  /\ FetchStep \/ UNCHANGED articleVars
           /\ UNCHANGED <<now, calm, feed, sub, deleted, prune>> /\ Quiet'
<1>1. ~Busy /\ prune.picks = {}
  BY DEF Quiet, Busy
<1>2. \A u \in User : job[u].pc \in {"idle", "asked"} /\ u # Fetcher /\ u \in Process
  BY Ranges DEF Quiet
<1>3. \A u \in User : ~JobStep(u) /\ ~Ask(u)
  BY <1>1, <1>2 DEF JobStep, StoreBatch, StoreEnds, Count, WriteCounts, Stamp, Ask
<1>4. FetchStep \/ UNCHANGED articleVars
  BY <1>1, <1>3
  DEF ArticlesNext, Publish, Relist, Interrupt, Subscribe, Unsubscribe, Remove, PrunePick,
      PruneDelete, NextDay, CalmDown
<1>5. /\ UNCHANGED <<now, calm, feed, sub, deleted, prune>>
      /\ \A u \in User : job'[u] = job[u]
  <2>1. job \in [Process -> Job]
    BY DEF ArticlesInv, ArticlesTypeOK
  <2>2. CASE Ask(Fetcher)
    BY <1>2, <2>1, <2>2 DEF Ask
  <2>3. CASE FetchObserve
    BY <1>2, <2>1, <2>3 DEF FetchObserve
  <2>4. ASSUME NEW g \in Guid, StoreBatch(Fetcher, g)
        PROVE  /\ UNCHANGED <<now, calm, feed, sub, deleted, prune>>
               /\ \A u \in User : job'[u] = job[u]
    BY <1>2, <2>1, <2>4 DEF StoreBatch
  <2>5. CASE StoreEnds(Fetcher)
    BY <1>2, <2>1, <2>5 DEF StoreEnds
  <2>6. CASE Count(Fetcher)
    BY <1>2, <2>1, <2>6 DEF Count
  <2>7. CASE WriteCounts(Fetcher)
    BY <1>2, <2>1, <2>7 DEF WriteCounts
  <2>8. CASE Stamp(Fetcher)
    BY <1>2, <2>1, <2>8 DEF Stamp
  <2>9. CASE UNCHANGED articleVars
    BY <2>9 DEF articleVars
  <2>. QED
    BY <1>4, <2>2, <2>3, <2>4, <2>5, <2>6, <2>7, <2>8, <2>9 DEF FetchStep, JobStep
<1>. QED
  BY <1>4, <1>5 DEF Quiet

LEMMA Masked ==
    ASSUME ArticlesInv
    PROVE  /\ AsShown \in Doc /\ Shown(AsShown) = Shown(feed)
           /\ \A g \in Shown(feed) : g \in Guid /\ AsShown[g] = feed[g]
<1>1. feed \in Doc
  BY DEF ArticlesInv, ArticlesTypeOK
<1>. QED
  BY <1>1, NothingYet DEF AsShown, Doc, Shown

\* A batch of the poll puts its article in place and takes none away.
LEMMA BatchInPlace ==
    ASSUME ArticlesInv, Quiet, PollIsTrue, NEW h \in Guid, StoreBatch(Fetcher, h)
    PROVE  /\ h \in Shown(feed) /\ rows'[h].seen = now /\ rows'[h] # NoRow
           /\ rows'[h].body = feed[h].body
           /\ InPlace(h)' /\ \A g \in Guid : InPlace(g) => InPlace(g)'
<1>1. /\ job[Fetcher].pc = "store" /\ h \in job[Fetcher].todo
      /\ UNCHANGED <<feed, sub>>
  BY DEF StoreBatch
<1>2. /\ job[Fetcher].doc = AsShown /\ job[Fetcher].at = now
      /\ h \in Shown(feed) /\ job[Fetcher].doc[h] = feed[h]
  BY <1>1, Masked DEF PollIsTrue
<1>3. /\ now \in Nat \ {0} /\ feed[h] \in AnyItem /\ rows[h] \in AnyRow
      /\ rows'[h] = Upserted(rows[h], feed[h], now)
      /\ \A g \in Guid \ {h} : rows'[g] = rows[g]
  BY <1>2, Batch, Ranges
<1>4. rows[h].seen <= now /\ rows[h].seen \in Nat
  BY <1>3 DEF ArticlesInv, TimesAreTrue, AnyRow
<1>5. rows'[h].seen = now /\ rows'[h] # NoRow /\ rows'[h].body = feed[h].body
  BY <1>3, <1>4, UpsertedRow
<1>6. \A u \in User : sub[u] <= now
  BY DEF ArticlesInv, TimesAreTrue
<1>7. InPlace(h)'
  BY <1>1, <1>5, <1>6 DEF InPlace, Stored
<1>8. ASSUME NEW g \in Guid, InPlace(g) PROVE InPlace(g)'
  BY <1>1, <1>3, <1>7, <1>8 DEF InPlace, Stored
<1>. QED
  BY <1>2, <1>5, <1>7, <1>8

\* What the poll knows stays true while it works.
LEMMA PollGoesOn ==
    ASSUME ArticlesInv, Quiet, PollIsTrue, [ArticlesNext]_articleVars
    PROVE  PollIsTrue'
<1>1. /\ job \in [Process -> Job] /\ Fetcher \in Process /\ Never = 0
      /\ now \in Nat \ {0}
  BY Ranges DEF ArticlesInv, ArticlesTypeOK
<1>2. UNCHANGED <<now, calm, feed, sub, deleted, prune>>
  BY QuietStep
<1>3. AsShown' = AsShown /\ Shown(feed)' = Shown(feed)
  BY <1>2 DEF AsShown, Shown
<1>4. rows' = rows => \A g \in Guid : InPlace(g) => InPlace(g)'
  BY <1>2 DEF InPlace, Stored
<1>5. Shown(feed) \subseteq Guid
  BY DEF Shown
<1>6. CASE Ask(Fetcher)
  <2>1. job'[Fetcher].pc = "asked" /\ job'[Fetcher].doc = AsShown
    BY <1>1, <1>6 DEF Ask, AsShown, Idle
  <2>. QED
    BY <1>3, <2>1 DEF PollIsTrue
<1>7. CASE FetchObserve
  <2>1. job[Fetcher].doc = AsShown
    BY <1>7 DEF FetchObserve, PollIsTrue
  <2>2. job'[Fetcher] = Storing(AsShown, now)
    BY <1>1, <1>7, <2>1 DEF FetchObserve
  <2>3. /\ job'[Fetcher].pc = "store" /\ job'[Fetcher].doc = AsShown
        /\ job'[Fetcher].at = now /\ job'[Fetcher].todo = Shown(feed)
    BY <2>2, Masked, StoringJob DEF ArticlesInv, ArticlesTypeOK
  <2>. QED
    BY <1>2, <1>3, <2>3 DEF PollIsTrue
<1>8. ASSUME NEW h \in Guid, StoreBatch(Fetcher, h) PROVE PollIsTrue'
  <2>1. /\ job[Fetcher].pc = "store" /\ job[Fetcher].todo \in SUBSET Guid
        /\ job[Fetcher].doc = AsShown
        /\ job[Fetcher].at = now /\ job[Fetcher].todo \subseteq Shown(feed)
        /\ \A g \in Shown(feed) \ job[Fetcher].todo : InPlace(g)
    BY <1>1, <1>8, Fields DEF StoreBatch, PollIsTrue
  <2>2. /\ job'[Fetcher].pc = "store" /\ job'[Fetcher].todo = job[Fetcher].todo \ {h}
        /\ job'[Fetcher].doc = AsShown /\ job'[Fetcher].at = now
    BY <1>1, <1>8, <2>1, Fields DEF StoreBatch
  <2>3. \A g \in Shown(feed) \ job'[Fetcher].todo : InPlace(g)'
    BY <1>5, <1>8, <2>1, <2>2, BatchInPlace
  <2>. QED
    BY <1>2, <1>3, <2>1, <2>2, <2>3 DEF PollIsTrue
<1>9. CASE StoreEnds(Fetcher)
  <2>1. /\ job[Fetcher].pc = "store" /\ job[Fetcher].todo = {} /\ UNCHANGED rows
        /\ job[Fetcher].at = now
    BY <1>9 DEF StoreEnds, Quiet, Busy, PollIsTrue
  <2>2. job'[Fetcher].pc = "count" /\ job'[Fetcher].at = now
    BY <1>1, <1>9, <2>1, Fields DEF StoreEnds
  <2>3. \A g \in Shown(feed) : InPlace(g)'
    BY <1>4, <1>5, <2>1 DEF PollIsTrue
  <2>. QED
    BY <1>1, <1>2, <1>3, <2>2, <2>3 DEF PollIsTrue
<1>10. CASE Count(Fetcher)
  <2>1. /\ job[Fetcher].pc = "count" /\ job[Fetcher].at # Never /\ UNCHANGED rows
        /\ \A g \in Shown(feed) : InPlace(g)
    BY <1>10 DEF Count, PollIsTrue
  <2>2. /\ job'[Fetcher].pc = "write" /\ job'[Fetcher].at # Never
        /\ \A u \in User :
              job'[Fetcher].counts[u] = IF Subscribed(u) THEN CountOf(u) ELSE NoCount
    BY <1>1, <1>10, <2>1, Fields DEF Count, Scope
  <2>3. \A u \in User : /\ Subscribed(u)' = Subscribed(u)
                        /\ CountOf(u)' = CountOf(u)
    BY <1>2, <2>1 DEF Subscribed, CountOf, Listed, Visible, Stored
  <2>4. \A g \in Shown(feed) : InPlace(g)'
    BY <1>4, <1>5, <2>1
  <2>. QED
    BY <1>3, <2>2, <2>3, <2>4 DEF PollIsTrue
<1>11. CASE WriteCounts(Fetcher)
  <2>1. /\ job[Fetcher].pc = "write" /\ job[Fetcher].at # Never /\ UNCHANGED rows
        /\ \A g \in Shown(feed) : InPlace(g)
    BY <1>11 DEF WriteCounts, PollIsTrue
  <2>2. \/ job'[Fetcher].pc = "stamp" /\ job'[Fetcher].at # Never
        \/ job'[Fetcher].pc = "idle"
    BY <1>1, <1>11, <2>1, Fields, NothingYet DEF WriteCounts
  <2>3. \A g \in Shown(feed) : InPlace(g)'
    BY <1>4, <1>5, <2>1
  <2>. QED
    BY <1>3, <2>2, <2>3 DEF PollIsTrue
<1>12. CASE Stamp(Fetcher)
  <2>1. job'[Fetcher].pc = "idle"
    BY <1>1, <1>12, NothingYet DEF Stamp
  <2>. QED
    BY <2>1 DEF PollIsTrue
<1>13. CASE UNCHANGED articleVars
  <2>1. /\ UNCHANGED <<job, rows>>
        /\ \A u \in User : /\ Subscribed(u)' = Subscribed(u)
                           /\ CountOf(u)' = CountOf(u)
    BY <1>2, <1>13 DEF articleVars, Subscribed, CountOf, Listed, Visible, Stored
  <2>. QED
    BY <1>2, <1>3, <1>4, <1>5, <2>1 DEF PollIsTrue
<1>. QED
  BY <1>6, <1>7, <1>8, <1>9, <1>10, <1>11, <1>12, <1>13, QuietStep DEF FetchStep, JobStep

\* What a reader sees changes in the quiet only where the poll writes the counts.
LEMMA SeenGoesOn ==
    ASSUME ArticlesInv, Settled, [ArticlesNext]_articleVars
    PROVE  SeesTheFeed'
<1>1. /\ Quiet /\ PollIsTrue /\ SeesTheFeed
      /\ UNCHANGED <<now, calm, feed, sub, deleted, prune>>
  BY QuietStep DEF Settled
<1>2. Shown(feed)' = Shown(feed) /\ Shown(feed) \subseteq Guid
      /\ \A u \in User : Subscribed(u)' = Subscribed(u)
  BY <1>1 DEF Shown, Subscribed
<1>3. CASE UNCHANGED rows
  <2>1. \A u \in User : Visible(u)' = Visible(u) /\ Listed(u)' = Listed(u)
    BY <1>1, <1>3 DEF Visible, Listed, Stored, Subscribed
  <2>2. CASE UNCHANGED unread
    BY <1>1, <1>2, <1>3, <2>1, <2>2 DEF SeesTheFeed
  <2>3. CASE WriteCounts(Fetcher)
    <3>1. /\ job[Fetcher].pc = "write"
          /\ unread' = [u \in User |-> IF job[Fetcher].counts[u] = NoCount
                                       THEN unread[u] ELSE job[Fetcher].counts[u]]
      BY <2>3 DEF WriteCounts
    <3>2. ASSUME NEW u \in User, Subscribed(u) PROVE unread'[u] = Cardinality(Listed(u))
      <4>1. job[Fetcher].counts[u] = Cardinality(Listed(u))
        BY <1>1, <3>1, <3>2 DEF PollIsTrue, CountOf
      <4>2. unread[u] = Cardinality(Listed(u))
        BY <1>1, <3>2 DEF SeesTheFeed
      <4>. QED
        BY <3>1, <4>1, <4>2
    <3>. QED
      BY <1>1, <1>2, <1>3, <2>1, <3>2 DEF SeesTheFeed
  <2>. QED
    BY <1>1, <1>3, <2>2, <2>3, QuietStep
    DEF FetchStep, JobStep, Ask, FetchObserve, StoreBatch, StoreEnds, Count, Stamp, articleVars
<1>4. ASSUME NEW h \in Guid, StoreBatch(Fetcher, h) PROVE SeesTheFeed'
  <2>1. /\ h \in Shown(feed) /\ rows'[h].seen = now /\ rows'[h] # NoRow
        /\ rows'[h].body = feed[h].body
    BY <1>1, <1>4, BatchInPlace
  <2>2. UNCHANGED unread /\ \A g \in Guid \ {h} : rows'[g] = rows[g]
    BY <1>4, Ranges, Batch DEF StoreBatch
  <2>3. \A u \in User : sub[u] <= now
    BY DEF ArticlesInv, TimesAreTrue
  <2>4. ASSUME NEW u \in User, Subscribed(u) PROVE Visible(u)' = Visible(u)
    <3>1. h \in Visible(u)
      BY <1>1, <2>1, <2>4 DEF SeesTheFeed
    <3>2. h \in Visible(u)'
      BY <1>1, <2>1, <2>3, <2>4 DEF Visible, Stored, Subscribed
    <3>3. \A g \in Guid \ {h} : g \in Visible(u)' <=> g \in Visible(u)
      BY <1>1, <2>2 DEF Visible, Stored, Subscribed
    <3>4. Visible(u) \subseteq Guid /\ Visible(u)' \subseteq Guid
      BY DEF Visible
    <3>. QED
      BY <3>1, <3>2, <3>3, <3>4
  <2>5. ASSUME NEW u \in User, Subscribed(u) PROVE Listed(u)' = Listed(u)
    BY <1>1, <2>4, <2>5 DEF Listed
  <2>. QED
    BY <1>1, <1>2, <2>1, <2>2, <2>4, <2>5 DEF SeesTheFeed
<1>. QED
  BY <1>1, <1>3, <1>4, QuietStep
  DEF FetchStep, JobStep, Ask, FetchObserve, StoreEnds, Count, WriteCounts, Stamp,
      articleVars

\* When the poll writes its counts, every subscriber sees the feed.
LEMMA WritingSettles ==
    ASSUME ArticlesInv, Quiet, PollIsTrue, WriteCounts(Fetcher)
    PROVE  SeesTheFeed'
<1>1. /\ job[Fetcher].pc = "write" /\ UNCHANGED <<rows, sub, deleted, feed>>
      /\ unread' = [u \in User |-> IF job[Fetcher].counts[u] = NoCount
                                   THEN unread[u] ELSE job[Fetcher].counts[u]]
  BY DEF WriteCounts
<1>2. \A g \in Shown(feed) : g \in Guid /\ InPlace(g)
  BY <1>1 DEF PollIsTrue, Shown
<1>3. ASSUME NEW u \in User, Subscribed(u)
      PROVE  /\ unread'[u] = Cardinality(Listed(u))
             /\ \A g \in Shown(feed) : g \in Visible(u) /\ rows[g].body = feed[g].body
  <2>1. job[Fetcher].counts[u] = CountOf(u)
    BY <1>1, <1>3 DEF PollIsTrue
  <2>2. CountOf(u) # NoCount
    BY CountsAreSmall, Ranges, FS_CardinalityType
  <2>3. unread'[u] = Cardinality(Listed(u))
    BY <1>1, <2>1, <2>2 DEF CountOf
  <2>. QED
    BY <1>2, <1>3, <2>3 DEF InPlace, Visible
<1>4. /\ Shown(feed)' = Shown(feed)
      /\ \A u \in User : /\ Subscribed(u)' = Subscribed(u)
                         /\ Listed(u)' = Listed(u) /\ Visible(u)' = Visible(u)
  BY <1>1 DEF Shown, Subscribed, Listed, Visible, Stored
<1>. QED
  BY <1>1, <1>3, <1>4 DEF SeesTheFeed

\* Once every subscriber sees the feed in the quiet, no further poll takes that
\* away again, not even between two of its batches: the safety half of ReadersSettle.
THEOREM SettledStays == ArticlesSpec => [](Settled => []Settled)
<1>1. ArticlesInv /\ Settled /\ [ArticlesNext]_articleVars => Settled'
  <2>. SUFFICES ASSUME ArticlesInv, Settled, [ArticlesNext]_articleVars PROVE Settled'
    OBVIOUS
  <2>1. Quiet /\ PollIsTrue
    BY DEF Settled
  <2>2. Quiet' /\ PollIsTrue' /\ SeesTheFeed'
    BY <2>1, QuietStep, PollGoesOn, SeenGoesOn
  <2>. QED
    BY <2>2 DEF Settled
<1>. QED
  BY <1>1, ArticlesAreTyped, PTL DEF ArticlesSpec

\* A poll begun in the quiet is on its way until it has brought every subscriber the
\* feed: nothing it does can end it short of that.  The rest of ReadersSettle is
\* fairness.
THEOREM PollsSettle == ArticlesSpec => PollSettles
<1>1. ArticlesInv /\ [ArticlesNext]_articleVars => (Quiet /\ Ask(Fetcher) => Polling')
  <2>. SUFFICES ASSUME ArticlesInv, [ArticlesNext]_articleVars, Quiet, Ask(Fetcher)
                PROVE  Polling'
    OBVIOUS
  <2>1. job[Fetcher] = Idle /\ job \in [Process -> Job] /\ Fetcher \in Process
    BY Ranges DEF Ask, ArticlesInv, ArticlesTypeOK
  <2>2. PollIsTrue
    BY <2>1, NothingYet DEF PollIsTrue
  <2>3. job'[Fetcher].pc = "asked"
    BY <2>1 DEF Ask, Idle
  <2>. QED
    BY <2>2, <2>3, QuietStep, PollGoesOn DEF Polling
<1>2. ArticlesInv /\ [ArticlesNext]_articleVars => (Polling => Polling' \/ Settled')
  <2>. SUFFICES ASSUME ArticlesInv, [ArticlesNext]_articleVars, Polling
                PROVE  Polling' \/ Settled'
    OBVIOUS
  <2>1. /\ Quiet /\ PollIsTrue /\ Quiet' /\ PollIsTrue'
        /\ FetchStep \/ UNCHANGED articleVars
        /\ job[Fetcher].pc \in {"asked", "store", "count", "write"}
    BY QuietStep, PollGoesOn DEF Polling
  <2>2. job \in [Process -> Job] /\ Fetcher \in Process
    BY Ranges DEF ArticlesInv, ArticlesTypeOK
  <2>3. CASE WriteCounts(Fetcher)
    BY <2>1, <2>3, WritingSettles DEF Settled
  <2>4. CASE FetchObserve
    BY <2>1, <2>2, <2>4, Fields, Ranges, StoringJob DEF FetchObserve, Polling
  <2>5. ASSUME NEW h \in Guid, StoreBatch(Fetcher, h) PROVE Polling'
    BY <2>1, <2>2, <2>5, Fields DEF StoreBatch, Polling
  <2>6. CASE StoreEnds(Fetcher)
    BY <2>1, <2>2, <2>6, Fields DEF StoreEnds, Polling
  <2>7. CASE Count(Fetcher)
    BY <2>1, <2>2, <2>7, Fields DEF Count, Polling
  <2>8. CASE UNCHANGED articleVars
    BY <2>1, <2>8 DEF articleVars, Polling
  <2>. QED
    BY <2>1, <2>3, <2>4, <2>5, <2>6, <2>7, <2>8, NothingYet DEF FetchStep, JobStep, Ask, Stamp
<1>. QED
  BY <1>1, <1>2, ArticlesAreTyped, PTL DEF PollSettles, ArticlesSpec

HIDE ArticlesAssumption

------------------------------------------------------------------------------
USE DashboardAssumption

------------------------------------------------------------------------------
(* Requests keep their kind when a later one supersedes them *)

Late(r) == [r EXCEPT !.current = FALSE]
Unselected(r) == [r EXCEPT !.selection = FALSE]
Grown(r, s) == [r EXCEPT !.reads = @ \cup {s}]

\* The three updates, request by request.
LEMMA Images ==
    /\ \A rs : Superseded(rs) = {Late(r) : r \in rs}
    /\ \A rs : NoSelection(rs) = {Unselected(r) : r \in rs}
    /\ \A rs, s : {[r EXCEPT !.reads = @ \cup {s}] : r \in rs} = {Grown(r, s) : r \in rs}
BY DEF Superseded, NoSelection, Late, Unselected, Grown

LEMMA OpensStay ==
    ASSUME NEW rs \in SUBSET OpenRequest
    PROVE  /\ Superseded(rs) \in SUBSET OpenRequest
           /\ NoSelection(rs) \in SUBSET OpenRequest
           /\ \A r \in Superseded(rs) : ~r.current
           /\ \A r \in NoSelection(rs) : ~r.selection
           /\ Current(rs) # {} => Current(NoSelection(rs)) # {}
<1>1. \A r \in rs : /\ Late(r) \in OpenRequest /\ ~Late(r).current
                    /\ Unselected(r) \in OpenRequest /\ ~Unselected(r).selection
                    /\ Unselected(r).current = r.current
  BY DEF OpenRequest, Late, Unselected
<1>. QED
  BY <1>1, Images DEF Current

LEMMA ListsStay ==
    ASSUME NEW rs \in SUBSET ListRequest
    PROVE  /\ Superseded(rs) \in SUBSET ListRequest
           /\ \A r \in Superseded(rs) : ~r.current
           /\ \A s \in Server :
                 {Grown(r, s) : r \in rs} \in SUBSET ListRequest
<1>1. \A r \in rs : /\ Late(r) \in ListRequest /\ ~Late(r).current
                    /\ \A s \in Server : Grown(r, s) \in ListRequest
  BY DEF ListRequest, Late, Grown
<1>. QED
  BY <1>1, Images DEF Current

LEMMA TreesStay ==
    ASSUME NEW rs \in SUBSET TreeRequest
    PROVE  /\ Superseded(rs) \in SUBSET TreeRequest
           /\ \A r \in Superseded(rs) : ~r.current
           /\ \A s \in Server :
                 {Grown(r, s) : r \in rs} \in SUBSET TreeRequest
<1>1. \A r \in rs : /\ Late(r) \in TreeRequest /\ ~Late(r).current
                    /\ \A s \in Server : Grown(r, s) \in TreeRequest
  BY DEF TreeRequest, Late, Grown
<1>. QED
  BY <1>1, Images

LEMMA ArticlesAreItems == \A n \in Node : ArticlesOf(n) \in SUBSET Item
BY DEF Node, Item

LEMMA Counting ==
    \A x \in SUBSET Item : IsFiniteSet(x) /\ Cardinality(x) \in 0 .. Cardinality(Item)
BY FS_Subset, FS_CardinalityType

LEMMA TreesOfServers ==
    ASSUME NEW s \in Server
    PROVE  TreeOf(s) \in [nodes : SUBSET Node, counts : [Feed -> 0 .. Cardinality(Item)]]
<1>1. \A n \in Feed : Cardinality(Unread(s, n)) \in 0 .. Cardinality(Item)
  BY Counting DEF Unread, Server
<1>. QED
  BY <1>1 DEF TreeOf, Server

------------------------------------------------------------------------------
(* Types *)

\* What setArticleSelection leaves.
LEMMA SelectionIsTyped ==
    ASSUME NEW l \in SUBSET Item, NEW s \in SUBSET l, NEW before \in SUBSET OpenRequest,
           mode \in Mode, SetSelection(l, s, before)
    PROVE  /\ list' = l /\ chosen' = s
           /\ opened' = NoNode /\ content' = NoNode
           /\ opens' \in SUBSET OpenRequest /\ loadingArticle' \in BOOLEAN
           /\ \A r \in Current(opens') : r.stage = "article"
           /\ loadingArticle' => Current(opens') # {}
<1>1. list' = l /\ chosen' = s /\ opened' = NoNode /\ content' = NoNode
  BY DEF SetSelection
<1>2. CASE opens' = Superseded(before) /\ loadingArticle' = FALSE
  BY <1>1, <1>2, OpensStay DEF Current
<1>3. ASSUME NEW a \in s, Opening(a, before)
      PROVE  /\ opens' \in SUBSET OpenRequest /\ loadingArticle' = TRUE
             /\ \A r \in Current(opens') : r.stage = "article"
             /\ Current(opens') # {}
  <2>. DEFINE asked == [item |-> a, mode |-> mode, stage |-> "article",
                        current |-> TRUE, selection |-> TRUE]
  <2>1. asked \in OpenRequest /\ asked.stage = "article" /\ asked.current
    BY DEF OpenRequest
  <2>2. opens' = Superseded(before) \cup {asked} /\ loadingArticle' = TRUE
    BY <1>3 DEF Opening
  <2>. HIDE DEF asked
  <2>. QED
    BY <2>1, <2>2, OpensStay DEF Current
<1>4. (\E a \in s : Opening(a, before)) \/ (opens' = Superseded(before) /\ loadingArticle' = FALSE)
  BY Zenon DEF SetSelection
<1>. QED
  BY <1>1, <1>2, <1>3, <1>4

\* The articles that a deletion in flight takes were in the list that it keeps.
DeletionsAreWhole == \A d \in deletions : d.ids \subseteq d.items

PageInv == DashboardTypeOK /\ DeletionsAreWhole

LEMMA TypedInitially == DashboardInit => PageInv
<1>1. [nodes |-> Node, unread |-> Item] \in Server
  BY DEF Server
<1>. QED
  <2>. SUFFICES ASSUME DashboardInit PROVE PageInv
    OBVIOUS
  <2>1. server \in Server /\ tree = TreeOf(server)
    BY <1>1 DEF DashboardInit
  <2>2. tree \in [nodes : SUBSET Node, counts : [Feed -> 0 .. Cardinality(Item)]]
    BY <2>1, TreesOfServers
  <2>3. lost \in 0 .. MaxLost
    BY DEF DashboardInit
  <2>. QED
    BY <2>1, <2>2, <2>3
    DEF DashboardInit, PageInv, DeletionsAreWhole, DashboardTypeOK, Mode

LEMMA TreeAskedIsTyped ==
    ASSUME PageInv, NEW s \in Server, TreeAsked(s)
    PROVE  trees' \in SUBSET TreeRequest /\ behind' = FALSE
<1>1. [reads |-> {s}, current |-> TRUE] \in TreeRequest
  BY DEF TreeRequest
<1>. QED
  BY <1>1, TreesStay DEF TreeAsked, PageInv, DashboardTypeOK

LEMMA ChangesAreTyped ==
    /\ \A ids \in SUBSET Item : OfItems(ids) \in Change
    /\ \A n \in Node : OfNode(n) \in Change
BY ArticlesAreItems DEF OfItems, OfNode, Change

LEMMA BecomesIsTyped ==
    ASSUME PageInv, NEW c \in Change, Becomes(c)
    PROVE  /\ server' \in Server
           /\ lists' \in SUBSET ListRequest
           /\ trees' \in SUBSET TreeRequest
<1>1. server' \in Server
  BY DEF Becomes, Without, Change, Server, PageInv, DashboardTypeOK
<1>2. lists' = {Grown(r, server') : r \in lists} /\ trees' = {Grown(r, server') : r \in trees}
  BY Zenon DEF Becomes, Grown
<1>3. {Grown(r, server') : r \in lists} \in SUBSET ListRequest
  BY <1>1, ListsStay DEF PageInv, DashboardTypeOK
<1>4. {Grown(r, server') : r \in trees} \in SUBSET TreeRequest
  BY <1>1, TreesStay DEF PageInv, DashboardTypeOK
<1>. QED
  BY <1>1, <1>2, <1>3, <1>4

\* Selecting and opening.
LEMMA OpeningIsTyped ==
    ASSUME PageInv,
           \/ \E n \in Node : Select(n)
           \/ \E s \in SUBSET list : Choose(s)
           \/ \E r \in lists : ListArrives(r) \/ ListFails(r)
    PROVE  PageInv'
<1>. USE DEF PageInv, DeletionsAreWhole, DashboardTypeOK, shown, requests
<1>1. ASSUME NEW n \in Node, Select(n), n \in EmptyFolder PROVE PageInv'
  <2>1. SetSelection({}, {}, NoSelection(opens)) /\ lists' = Superseded(lists)
    BY <1>1 DEF Select
  <2>2. /\ list' = {} /\ chosen' = {} /\ opened' = NoNode /\ content' = NoNode
        /\ opens' \in SUBSET OpenRequest /\ loadingArticle' \in BOOLEAN
    BY <2>1, SelectionIsTyped, OpensStay
  <2>. QED
    BY <1>1, <2>1, <2>2, ListsStay DEF Select
<1>2. ASSUME NEW n \in Node, Select(n), n \notin EmptyFolder PROVE PageInv'
  <2>1. [node |-> n, reads |-> {server}, current |-> TRUE] \in ListRequest
    BY <1>2 DEF ListRequest, Node
  <2>2. opens' = NoSelection(opens) /\ opens' \in SUBSET OpenRequest
    BY <1>2, OpensStay DEF Select
  <2>3. lists' \in SUBSET ListRequest
    <3>1. Superseded(lists) \in SUBSET ListRequest
      BY ListsStay
    <3>. QED
      BY <1>2, <2>1, <3>1 DEF Select
  <2>. QED
    BY <1>2, <2>2, <2>3 DEF Select
<1>3. ASSUME NEW s \in SUBSET list, Choose(s) PROVE PageInv'
  <2>1. SetSelection(list, s, opens)
    BY <1>3 DEF Choose
  <2>2. /\ list' = list /\ chosen' = s /\ opened' = NoNode /\ content' = NoNode
        /\ opens' \in SUBSET OpenRequest /\ loadingArticle' \in BOOLEAN
    BY <2>1, SelectionIsTyped
  <2>. QED
    BY <1>3, <2>2 DEF Choose
<1>4. ASSUME NEW r \in lists, ListArrives(r), r.current PROVE PageInv'
  <2>0. PICK s \in r.reads : \E first \in SUBSET Unread(s, r.node) :
           SetSelection(Unread(s, r.node), first, opens)
    BY <1>4 DEF ListArrives
  <2>1. PICK first \in SUBSET Unread(s, r.node) : SetSelection(Unread(s, r.node), first, opens)
    BY <2>0
  <2>2. Unread(s, r.node) \in SUBSET Item
    BY ArticlesAreItems DEF Unread, ListRequest, Node
  <2>3. /\ list' \in SUBSET Item /\ chosen' \in SUBSET list'
        /\ opened' = NoNode /\ content' = NoNode
        /\ opens' \in SUBSET OpenRequest /\ loadingArticle' \in BOOLEAN
    BY <2>1, <2>2, SelectionIsTyped
  <2>. QED
    BY <1>4, <2>3 DEF ListArrives
<1>5. ASSUME NEW r \in lists, ListArrives(r), ~r.current PROVE PageInv'
  BY <1>5 DEF ListArrives
<1>6. ASSUME NEW r \in lists, ListFails(r) PROVE PageInv'
  <2>1. lost' \in 0 .. MaxLost
    BY <1>6 DEF ListFails, Fails
  <2>2. lists' \in SUBSET ListRequest /\ loading' \in BOOLEAN
    BY <1>6 DEF ListFails
  <2>. QED
    BY <1>6, <2>1, <2>2 DEF ListFails
<1>. QED
  BY <1>1, <1>2, <1>3, <1>4, <1>5, <1>6

\* Articles, pages and the reader mode.
LEMMA ReadingIsTyped ==
    ASSUME PageInv,
           \/ \E r \in opens : ArticleArrives(r) \/ PageArrives(r) \/ OpenFails(r)
           \/ \E found \in BOOLEAN : Probe(found)
           \/ \E m \in Mode : ChangeMode(m)
    PROVE  PageInv'
<1>. USE DEF PageInv, DeletionsAreWhole, DashboardTypeOK, shown, requests
<1>0. \A rs \in SUBSET OpenRequest : Superseded(rs) \in SUBSET OpenRequest
  BY OpensStay
<1>1. ASSUME NEW r \in opens, ArticleArrives(r) PROVE PageInv'
  <2>1. [r EXCEPT !.stage = "page"] \in OpenRequest
    BY DEF OpenRequest
  <2>2. r.item \in Item
    BY DEF OpenRequest
  <2>. QED
    BY <1>1, <2>1, <2>2 DEF ArticleArrives
<1>2. ASSUME NEW r \in opens, PageArrives(r) PROVE PageInv'
  BY <1>2 DEF PageArrives, OpenRequest
<1>3. ASSUME NEW r \in opens, OpenFails(r) PROVE PageInv'
  <2>1. lost' \in 0 .. MaxLost
    BY <1>3 DEF OpenFails, Fails
  <2>2. /\ opens' \in SUBSET OpenRequest /\ loadingArticle' \in BOOLEAN
        /\ available' \in BOOLEAN /\ mode' \in Mode
        /\ content' \in {content, NoNode}
    BY <1>0, <1>3 DEF OpenFails, Disabled, Mode
  <2>. QED
    BY <1>3, <2>1, <2>2 DEF OpenFails
<1>4. ASSUME NEW found \in BOOLEAN, Probe(found) PROVE PageInv'
  BY <1>0, <1>4 DEF Probe, Disabled, Mode
<1>5. ASSUME NEW m \in Mode, ChangeMode(m), NEW a \in chosen,
             opens' = Superseded(opens) \cup
                {[item |-> a, mode |-> m, stage |-> "article", current |-> TRUE,
                  selection |-> TRUE]}
      PROVE  opens' \in SUBSET OpenRequest
  <2>1. [item |-> a, mode |-> m, stage |-> "article", current |-> TRUE,
         selection |-> TRUE] \in OpenRequest
    BY DEF OpenRequest
  <2>. QED
    BY <1>0, <1>5, <2>1
<1>6. ASSUME NEW m \in Mode, ChangeMode(m) PROVE PageInv'
  BY <1>5, <1>6 DEF ChangeMode
<1>. QED
  BY <1>1, <1>2, <1>3, <1>4, <1>6

\* The tree and the counts.
LEMMA CountingIsTyped ==
    ASSUME PageInv,
           \/ \E r \in trees : TreeArrives(r) \/ TreeCopied(r) \/ TreeFails(r)
           \/ Reload \/ RemoveSelected
    PROVE  PageInv'
<1>. USE DEF PageInv, DeletionsAreWhole, DashboardTypeOK, shown, requests
<1>1. ASSUME NEW r \in trees, TreeArrives(r) PROVE PageInv'
  BY <1>1, TreesOfServers DEF TreeArrives, TreeRequest, ShowTree
<1>5. ASSUME NEW r \in trees, TreeCopied(r) PROVE PageInv'
  <2>1. PICK s \in Server : ShowTree(s)
    BY <1>5 DEF TreeCopied
  <2>2. /\ tree' \in [nodes : SUBSET Node, counts : [Feed -> 0 .. Cardinality(Item)]]
        /\ node' \in Node \cup {NoNode}
    BY <2>1, TreesOfServers DEF ShowTree
  <2>3. lost' \in 0 .. MaxLost
    BY <1>5 DEF TreeCopied, Fails
  <2>. QED
    BY <1>5, <2>2, <2>3 DEF TreeCopied
<1>2. ASSUME NEW r \in trees, TreeFails(r) PROVE PageInv'
  BY <1>2 DEF TreeFails, Fails
<1>3. CASE Reload
  BY <1>3, TreeAskedIsTyped DEF Reload
<1>4. CASE RemoveSelected
  <2>1. PICK next \in SUBSET (list \ chosen) : SetSelection(list \ chosen, next, opens)
    BY <1>4 DEF RemoveSelected
  <2>2. /\ list' = list \ chosen /\ chosen' = next /\ opened' = NoNode /\ content' = NoNode
        /\ opens' \in SUBSET OpenRequest /\ loadingArticle' \in BOOLEAN
    BY <2>1, SelectionIsTyped
  <2>3. deletions' \in SUBSET Deletion /\ DeletionsAreWhole'
    <3>. DEFINE new == [items |-> list, ids |-> chosen, applied |-> FALSE]
    <3>1. new \in Deletion /\ new.ids \subseteq new.items
      BY DEF Deletion
    <3>2. deletions' = deletions \cup {new}
      BY <1>4 DEF RemoveSelected
    <3>. HIDE DEF new
    <3>. QED
      BY <3>1, <3>2
  <2>4. tree' \in [nodes : SUBSET Node, counts : [Feed -> 0 .. Cardinality(Item)]]
    <3>1. \A n \in Feed : Cardinality(chosen \cap ArticlesOf(n)) \in Nat
      BY Counting
    <3>2. Cardinality(Item) \in Nat
      BY FS_CardinalityType
    <3>. DEFINE fewer == [n \in Feed |->
                   LET left == tree.counts[n] - Cardinality(chosen \cap ArticlesOf(n))
                   IN IF left < 0 THEN 0 ELSE left]
    <3>3. fewer \in [Feed -> 0 .. Cardinality(Item)]
      BY <3>1, <3>2
    <3>4. tree' = [tree EXCEPT !.counts = fewer]
      BY <1>4 DEF RemoveSelected
    <3>. HIDE DEF fewer
    <3>. QED
      BY <3>3, <3>4
  <2>. QED
    BY <1>4, <2>2, <2>3, <2>4 DEF RemoveSelected
<1>. QED
  BY <1>1, <1>2, <1>3, <1>4, <1>5

\* The deletions that the page still has in flight, and those it has given up.
Deletes ==
    \/ \E d \in deletions : \/ ServerRemoves(d) \/ DeletionSucceeds(d)
                            \/ DeletionQueued(d) \/ DeletionFails(d)
    \/ \E c \in late : LateRemoval(c) \/ LateRefused(c)

LEMMA DeletingIsTyped ==
    ASSUME PageInv, Deletes
    PROVE  PageInv'
<1>. USE DEF PageInv, DeletionsAreWhole, DashboardTypeOK, shown, requests
<1>0. ASSUME NEW d \in deletions
      PROVE  /\ d.items \in SUBSET Item /\ d.ids \in SUBSET Item /\ d.ids \in SUBSET d.items
             /\ OfItems(d.ids) \in Change
  <2>1. d.items \in SUBSET Item /\ d.ids \in SUBSET Item /\ d.ids \in SUBSET d.items
    BY DEF Deletion
  <2>. QED
    BY <2>1, ChangesAreTyped
<1>1. ASSUME NEW d \in deletions, ServerRemoves(d) PROVE PageInv'
  <2>1. Becomes(OfItems(d.ids))
    BY <1>1 DEF ServerRemoves
  <2>2. /\ server' \in Server /\ lists' \in SUBSET ListRequest
        /\ trees' \in SUBSET TreeRequest
    BY <1>0, <2>1, BecomesIsTyped
  <2>. DEFINE done == [d EXCEPT !.applied = TRUE]
  <2>4. done \in Deletion /\ done.ids \subseteq done.items
    BY DEF Deletion
  <2>5. deletions' = (deletions \ {d}) \cup {done}
    BY <1>1, <2>4 DEF ServerRemoves
  <2>. HIDE DEF done
  <2>6. deletions' \in SUBSET Deletion /\ DeletionsAreWhole'
    BY <2>4, <2>5
  <2>. QED
    BY <1>1, <2>2, <2>5, <2>6 DEF ServerRemoves
<1>2. ASSUME NEW d \in deletions, DeletionSucceeds(d) PROVE PageInv'
  BY <1>2, TreeAskedIsTyped DEF DeletionSucceeds, Reconcile
<1>3. ASSUME NEW d \in deletions, DeletionQueued(d) PROVE PageInv'
  <2>1. late' \subseteq Change
    BY <1>0, <1>3 DEF DeletionQueued
  <2>2. lost' \in 0 .. MaxLost
    BY <1>3 DEF DeletionQueued, Fails
  <2>. QED
    BY <1>3, <2>1, <2>2, TreeAskedIsTyped DEF DeletionQueued, Reconcile
<1>4. ASSUME NEW d \in deletions, DeletionFails(d) PROVE PageInv'
  <2>1. late' \subseteq Change
    BY <1>0, <1>4 DEF DeletionFails, Unheard
  <2>2. /\ list' = d.items /\ chosen' = d.ids /\ opened' = NoNode /\ content' = NoNode
        /\ opens' \in SUBSET OpenRequest /\ loadingArticle' \in BOOLEAN
    BY <1>0, <1>4, SelectionIsTyped DEF DeletionFails
  <2>3. lost' \in 0 .. MaxLost
    BY <1>4 DEF DeletionFails, Fails
  <2>. QED
    BY <1>0, <1>4, <2>1, <2>2, <2>3, TreeAskedIsTyped DEF DeletionFails
<1>5. ASSUME NEW c \in late, LateRemoval(c) PROVE PageInv'
  <2>1. /\ server' \in Server /\ lists' \in SUBSET ListRequest
        /\ trees' \in SUBSET TreeRequest
    BY <1>5, BecomesIsTyped DEF LateRemoval
  <2>2. behind' \in BOOLEAN /\ late' \subseteq Change
    BY <1>5 DEF LateRemoval
  <2>. QED
    BY <1>5, <2>1, <2>2 DEF LateRemoval
<1>6. ASSUME NEW c \in late, LateRefused(c) PROVE PageInv'
  BY <1>6 DEF LateRefused
<1>. QED
  BY <1>1, <1>2, <1>3, <1>4, <1>5, <1>6 DEF Deletes

\* The node that is removed.
RemovesNode ==
    RemoveNode \/ ServerRemovesNode \/ NodeRemoved \/ NodeQueued \/ NodeNotRemoved

LEMMA RemovingIsTyped ==
    ASSUME PageInv, RemovesNode
    PROVE  PageInv'
<1>. USE DEF PageInv, DeletionsAreWhole, DashboardTypeOK, shown, requests
<1>0. ASSUME removal # NoRemoval
      PROVE  removal \in Removal /\ removal.node \in Node /\ OfNode(removal.node) \in Change
  BY <1>0, ChangesAreTyped DEF Removal
<1>1. CASE RemoveNode
  BY <1>1 DEF RemoveNode, Removal
<1>2. CASE ServerRemovesNode
  <2>1. /\ server' \in Server /\ lists' \in SUBSET ListRequest
        /\ trees' \in SUBSET TreeRequest
    BY <1>0, <1>2, BecomesIsTyped DEF ServerRemovesNode
  <2>2. removal' \in Removal
    BY <1>0, <1>2 DEF ServerRemovesNode, Removal
  <2>. QED
    BY <1>2, <2>1, <2>2 DEF ServerRemovesNode
<1>3. ASSUME LeaveNode, late' \subseteq Change, lost' \in 0 .. MaxLost PROVE PageInv'
  <2>1. /\ list' = {} /\ chosen' = {} /\ opened' = NoNode /\ content' = NoNode
        /\ opens' \in SUBSET OpenRequest /\ loadingArticle' \in BOOLEAN
    BY <1>3, SelectionIsTyped DEF LeaveNode
  <2>. QED
    BY <1>3, <2>1, TreeAskedIsTyped DEF LeaveNode
<1>4. CASE NodeRemoved
  BY <1>3, <1>4 DEF NodeRemoved
<1>5. CASE NodeQueued
  BY <1>0, <1>3, <1>5 DEF NodeQueued, Fails
<1>6. CASE NodeNotRemoved
  <2>1. late' \subseteq Change /\ lost' \in 0 .. MaxLost
    BY <1>0, <1>6 DEF NodeNotRemoved, Unheard, Fails
  <2>2. behind' \in BOOLEAN
    BY <1>0, <1>6 DEF NodeNotRemoved, Removal
  <2>. QED
    BY <1>6, <2>1, <2>2 DEF NodeNotRemoved
<1>. QED
  BY <1>1, <1>2, <1>4, <1>5, <1>6 DEF RemovesNode

\* The variables of Dashboard keep their types.
THEOREM PageIsTyped == DashboardSpec => []DashboardTypeOK
<1>1. PageInv /\ [DashboardNext]_dashboardVars => PageInv'
  <2>1. ASSUME PageInv, DashboardStep PROVE PageInv'
    BY <2>1, OpeningIsTyped, ReadingIsTyped, CountingIsTyped, DeletingIsTyped, RemovingIsTyped
    DEF DashboardStep, Deletes, RemovesNode
  <2>2. ASSUME PageInv, UNCHANGED dashboardVars PROVE PageInv'
    BY <2>2 DEF dashboardVars, shown, requests, PageInv, DeletionsAreWhole,
                DashboardTypeOK
  <2>. QED
    BY <2>1, <2>2 DEF DashboardNext
<1>2. PageInv => DashboardTypeOK
  BY DEF PageInv
<1>. QED
  BY <1>1, <1>2, TypedInitially, PTL DEF DashboardSpec

------------------------------------------------------------------------------
(* The reader and its skeleton *)

\* A page is asked for in a reader mode, and an answer that is still wanted is
\* for the article that is open.
OpenedIsWanted ==
    \A r \in opens : r.stage = "page" => r.mode # "feed" /\ (IsCurrent(r) => opened = r.item)

ReadingInv ==
    /\ ReaderShowsSelected
    /\ OpenedIsWanted
    /\ loadingArticle => Current(opens) # {}

\* A request that is superseded is still one for the same article and stage.
LEMMA StagesStay ==
    ASSUME NEW rs \in SUBSET OpenRequest,
           \A r \in rs : r.stage = "page" => r.mode # "feed"
    PROVE  /\ \A r \in Superseded(rs) : r.stage = "page" => r.mode # "feed"
           /\ \A r \in NoSelection(rs) : r.stage = "page" => r.mode # "feed"
<1>1. \A r \in rs : /\ Late(r).stage = r.stage /\ Late(r).mode = r.mode
                    /\ Unselected(r).stage = r.stage /\ Unselected(r).mode = r.mode
  BY DEF OpenRequest, Late, Unselected
<1>. QED
  BY <1>1, Images

\* setArticleSelection leaves an empty reader.
LEMMA SelectionEmptiesReader ==
    ASSUME NEW l \in SUBSET Item, NEW s \in SUBSET l, NEW before \in SUBSET OpenRequest,
           \A r \in before : r.stage = "page" => r.mode # "feed",
           mode \in Mode, mode' = mode, SetSelection(l, s, before)
    PROVE  ReadingInv'
<1>1. /\ opened' = NoNode /\ content' = NoNode
      /\ loadingArticle' => Current(opens') # {}
      /\ \A r \in Current(opens') : r.stage = "article"
  BY SelectionIsTyped
<1>2. \A r \in opens' : r.stage = "page" => r.mode # "feed"
  <2>. DEFINE asked(a) == [item |-> a, mode |-> mode, stage |-> "article",
                           current |-> TRUE, selection |-> TRUE]
  <2>1. \A a \in s : asked(a).stage = "article"
    OBVIOUS
  <2>2. opens' = Superseded(before) \/ \E a \in s : opens' = Superseded(before) \cup {asked(a)}
    BY DEF SetSelection, Opening
  <2>. HIDE DEF asked
  <2>. QED
    BY <2>1, <2>2, StagesStay
<1>3. \A r \in opens' : IsCurrent(r)' => r \in Current(opens')
  BY DEF IsCurrent, Current
<1>. QED
  BY <1>1, <1>2, <1>3 DEF ReadingInv, ReaderShowsSelected, OpenedIsWanted

LEMMA SelectingReads ==
    ASSUME PageInv, ReadingInv,
           \/ \E n \in Node : Select(n)
           \/ \E s \in SUBSET list : Choose(s)
           \/ \E r \in lists : ListArrives(r) \/ ListFails(r)
    PROVE  ReadingInv'
<1>0. /\ opens \in SUBSET OpenRequest /\ mode \in Mode /\ list \in SUBSET Item
      /\ \A r \in opens : r.stage = "page" => r.mode # "feed"
  BY DEF PageInv, DashboardTypeOK, ReadingInv, OpenedIsWanted
<1>1. ASSUME NEW n \in Node, Select(n), n \in EmptyFolder PROVE ReadingInv'
  BY <1>0, <1>1, OpensStay, StagesStay, SelectionEmptiesReader DEF Select
<1>2. ASSUME NEW n \in Node, Select(n), n \notin EmptyFolder PROVE ReadingInv'
  <2>1. /\ opens' = NoSelection(opens) /\ opened' = NoNode /\ content' = NoNode
        /\ UNCHANGED <<loadingArticle, mode, chosen>>
    BY <1>2 DEF Select
  <2>2. \A r \in opens' : /\ r.stage = "page" => r.mode # "feed"
                          /\ ~IsCurrent(r)'
    BY <1>0, <2>1, OpensStay, StagesStay DEF IsCurrent
  <2>3. Current(opens) # {} => Current(opens') # {}
    BY <1>0, <2>1, OpensStay
  <2>4. loadingArticle' => Current(opens)' # {}
    BY <2>1, <2>3 DEF ReadingInv, Current
  <2>. QED
    BY <2>1, <2>2, <2>4 DEF ReadingInv, ReaderShowsSelected, OpenedIsWanted
<1>3. ASSUME NEW s \in SUBSET list, Choose(s) PROVE ReadingInv'
  BY <1>0, <1>3, SelectionEmptiesReader DEF Choose
<1>4. ASSUME NEW r \in lists, ListArrives(r), r.current PROVE ReadingInv'
  <2>1. PICK s \in r.reads : \E first \in SUBSET Unread(s, r.node) :
           SetSelection(Unread(s, r.node), first, opens)
    BY <1>4 DEF ListArrives
  <2>2. Unread(s, r.node) \in SUBSET Item
    BY ArticlesAreItems DEF Unread, ListRequest, Node, PageInv, DashboardTypeOK
  <2>3. mode' = mode
    BY <1>4 DEF ListArrives
  <2>. QED
    BY <1>0, <2>1, <2>2, <2>3, SelectionEmptiesReader
<1>5. ASSUME UNCHANGED <<opened, content, loadingArticle, mode, chosen, opens>> PROVE ReadingInv'
  BY <1>5 DEF ReadingInv, ReaderShowsSelected, OpenedIsWanted, IsCurrent, Current
<1>6. ASSUME NEW r \in lists, ListFails(r) \/ (ListArrives(r) /\ ~r.current) PROVE ReadingInv'
  BY <1>5, <1>6 DEF ListFails, ListArrives, shown
<1>. QED
  BY <1>1, <1>2, <1>3, <1>4, <1>6

\* Whoever is not current leaves the current requests as they are, and a current
\* one that leaves takes the skeleton with it.
LEMMA SkeletonOutlives ==
    ASSUME ReadingInv, NEW r \in opens, opens' = opens \ {r},
           loadingArticle' = (loadingArticle /\ ~r.current) \/ loadingArticle' = FALSE
    PROVE  loadingArticle' => Current(opens)' # {}
BY DEF ReadingInv, Current

\* disableReader leaves nothing that is wanted.
LEMMA DisablingReads ==
    ASSUME NEW rs \in SUBSET OpenRequest, Disabled(rs), ReadingInv, UNCHANGED <<opened, chosen>>,
           \A r \in rs : r.stage = "page" => r.mode # "feed"
    PROVE  ReadingInv'
<1>1. /\ opens' = Superseded(rs) /\ content' = NoNode /\ loadingArticle' = FALSE
  BY DEF Disabled
<1>2. \A r \in opens' : /\ ~r.current
                        /\ r.stage = "page" => r.mode # "feed"
  BY <1>1, OpensStay, StagesStay
<1>. QED
  BY <1>1, <1>2 DEF ReadingInv, ReaderShowsSelected, OpenedIsWanted, IsCurrent

LEMMA ArrivingReads ==
    ASSUME PageInv, ReadingInv, NEW r \in opens, ArticleArrives(r)
    PROVE  ReadingInv'
<1>. USE DEF ArticleArrives
<1>0. UNCHANGED <<chosen, content, mode>> /\ r \in OpenRequest
  BY DEF PageInv, DashboardTypeOK
<1>1. CASE ~IsCurrent(r)
  <2>1. loadingArticle' => Current(opens)' # {}
    BY <1>1, SkeletonOutlives
  <2>. QED
    BY <1>0, <1>1, <2>1 DEF ReadingInv, ReaderShowsSelected, OpenedIsWanted, IsCurrent
<1>2. CASE IsCurrent(r) /\ r.mode = "feed"
  BY <1>0, <1>2 DEF ReadingInv, ReaderShowsSelected, OpenedIsWanted, IsCurrent
<1>3. CASE IsCurrent(r) /\ r.mode # "feed"
  <2>. DEFINE asking == [r EXCEPT !.stage = "page"]
  <2>1. asking.item = r.item /\ asking.mode = r.mode /\ asking.current
    BY <1>0, <1>3 DEF IsCurrent, OpenRequest
  <2>2. opens' = (opens \ {r}) \cup {asking} /\ opened' = r.item
    BY <1>3
  <2>. HIDE DEF asking
  <2>3. Current(opens)' # {}
    BY <2>1, <2>2 DEF Current
  <2>4. \A x \in opens' : IsCurrent(x)' => x.item = r.item
    BY <1>0, <1>3 DEF IsCurrent
  <2>5. \A x \in opens' : x.stage = "page" => x.mode # "feed"
    BY <1>3, <2>1, <2>2 DEF ReadingInv, OpenedIsWanted
  <2>. QED
    BY <1>0, <1>3, <2>2, <2>3, <2>4, <2>5
    DEF ReadingInv, ReaderShowsSelected, OpenedIsWanted, IsCurrent
<1>. QED
  BY <1>1, <1>2, <1>3

LEMMA FailingReads ==
    ASSUME PageInv, ReadingInv, NEW r \in opens, OpenFails(r)
    PROVE  ReadingInv'
<1>. USE DEF OpenFails
<1>0. UNCHANGED <<opened, chosen>> /\ opens \in SUBSET OpenRequest
  BY DEF PageInv, DashboardTypeOK
<1>1. CASE ~IsCurrent(r)
  <2>1. loadingArticle' => Current(opens)' # {}
    BY <1>1, SkeletonOutlives
  <2>. QED
    BY <1>0, <1>1, <2>1 DEF ReadingInv, ReaderShowsSelected, OpenedIsWanted, IsCurrent
<1>2. CASE Disabled(opens \ {r})
  BY <1>0, <1>2, DisablingReads DEF ReadingInv, OpenedIsWanted
<1>3. CASE opens' = opens \ {r} /\ loadingArticle' = FALSE /\ mode' = "feed" /\ content' = NoNode
  BY <1>0, <1>3 DEF ReadingInv, ReaderShowsSelected, OpenedIsWanted, IsCurrent
<1>. QED
  BY <1>1, <1>2, <1>3

LEMMA ChangingReads ==
    ASSUME PageInv, ReadingInv, NEW m \in Mode, ChangeMode(m)
    PROVE  ReadingInv'
<1>. USE DEF ChangeMode
<1>0. /\ UNCHANGED chosen /\ opens \in SUBSET OpenRequest
      /\ \A r \in opens : r.stage = "page" => r.mode # "feed"
  BY DEF PageInv, DashboardTypeOK, ReadingInv, OpenedIsWanted
<1>1. CASE Cardinality(chosen) = 1
  <2>. DEFINE asked(a) == [item |-> a, mode |-> m, stage |-> "article", current |-> TRUE,
                           selection |-> TRUE]
  <2>1. PICK a \in chosen : opens' = Superseded(opens) \cup {asked(a)}
    BY <1>1
  <2>2. asked(a).stage = "article" /\ asked(a).current
    OBVIOUS
  <2>. HIDE DEF asked
  <2>3. \A r \in opens' : r.stage = "page" => r.mode # "feed" /\ ~r.current
    BY <1>0, <2>1, <2>2, OpensStay, StagesStay
  <2>4. Current(opens)' # {}
    BY <2>1, <2>2 DEF Current
  <2>5. opened' = NoNode /\ content' = NoNode
    BY <1>1
  <2>. QED
    BY <2>3, <2>4, <2>5 DEF ReadingInv, ReaderShowsSelected, OpenedIsWanted, IsCurrent
<1>2. CASE Cardinality(chosen) # 1
  <2>1. \A x : chosen # {x}
    BY <1>2, FS_Singleton
  <2>. QED
    BY <1>0, <1>2, <2>1 DEF ReadingInv, ReaderShowsSelected, OpenedIsWanted, IsCurrent, Current
<1>. QED
  BY <1>1, <1>2

LEMMA ReaderModeReads ==
    ASSUME PageInv, ReadingInv,
           \/ \E r \in opens : PageArrives(r)
           \/ \E found \in BOOLEAN : Probe(found)
    PROVE  ReadingInv'
<1>1. ASSUME NEW r \in opens, PageArrives(r) PROVE ReadingInv'
  <2>1. loadingArticle' => Current(opens)' # {}
    BY <1>1, SkeletonOutlives DEF PageArrives
  <2>2. IsCurrent(r) => opened # NoNode /\ r.mode = mode
    BY <1>1 DEF PageArrives, ReadingInv, OpenedIsWanted, IsCurrent, PageInv, DashboardTypeOK,
                OpenRequest
  <2>. QED
    BY <1>1, <2>1, <2>2
    DEF PageArrives, ReadingInv, ReaderShowsSelected, OpenedIsWanted, IsCurrent
<1>2. ASSUME NEW found \in BOOLEAN, Probe(found), Disabled(opens) PROVE ReadingInv'
  BY <1>2, DisablingReads DEF Probe, ReadingInv, OpenedIsWanted, PageInv, DashboardTypeOK
<1>3. ASSUME NEW found \in BOOLEAN, Probe(found), ~Disabled(opens) PROVE ReadingInv'
  BY <1>3 DEF Probe, ReadingInv, ReaderShowsSelected, OpenedIsWanted, IsCurrent, Current
<1>. QED
  BY <1>1, <1>2, <1>3

LEMMA RemovingReads ==
    ASSUME PageInv, ReadingInv,
           \/ \E r \in trees : TreeArrives(r) \/ TreeCopied(r) \/ TreeFails(r)
           \/ Reload \/ RemoveSelected \/ Deletes \/ RemovesNode
    PROVE  ReadingInv'
<1>0. /\ opens \in SUBSET OpenRequest /\ mode \in Mode /\ list \in SUBSET Item
      /\ deletions \in SUBSET Deletion /\ DeletionsAreWhole
      /\ \A r \in opens : r.stage = "page" => r.mode # "feed"
  BY DEF PageInv, DashboardTypeOK, ReadingInv, OpenedIsWanted
<1>1. ASSUME UNCHANGED <<opened, content, loadingArticle, mode, chosen, opens>> PROVE ReadingInv'
  BY <1>1 DEF ReadingInv, ReaderShowsSelected, OpenedIsWanted, IsCurrent, Current
<1>2. ASSUME \/ \E r \in trees : TreeArrives(r) \/ TreeCopied(r) \/ TreeFails(r)
             \/ Reload \/ RemoveNode \/ ServerRemovesNode \/ NodeNotRemoved
      PROVE  ReadingInv'
  BY <1>1, <1>2 DEF TreeArrives, TreeCopied, TreeFails, Reload, RemoveNode, ServerRemovesNode,
                    NodeNotRemoved, shown, requests
<1>3. ASSUME \/ \E d \in deletions : ServerRemoves(d) \/ DeletionSucceeds(d) \/ DeletionQueued(d)
             \/ \E c \in late : LateRemoval(c) \/ LateRefused(c)
      PROVE  ReadingInv'
  BY <1>1, <1>3 DEF ServerRemoves, DeletionSucceeds, DeletionQueued, Reconcile, LateRemoval,
                    LateRefused, shown, requests
<1>4. CASE RemoveSelected
  BY <1>0, <1>4, SelectionEmptiesReader DEF RemoveSelected
<1>5. CASE NodeRemoved \/ NodeQueued
  BY <1>0, <1>5, SelectionEmptiesReader DEF NodeRemoved, NodeQueued, LeaveNode
<1>6. ASSUME NEW d \in deletions, DeletionFails(d) PROVE ReadingInv'
  <2>1. d.items \in SUBSET Item /\ d.ids \in SUBSET d.items
    BY <1>0 DEF Deletion, DeletionsAreWhole
  <2>. QED
    BY <1>0, <1>6, <2>1, SelectionEmptiesReader DEF DeletionFails
<1>. QED
  BY <1>2, <1>3, <1>4, <1>5, <1>6 DEF Deletes, RemovesNode

LEMMA PageStep == PageInv /\ [DashboardNext]_dashboardVars => PageInv'
<1>1. ASSUME PageInv, DashboardStep PROVE PageInv'
  BY <1>1, OpeningIsTyped, ReadingIsTyped, CountingIsTyped, DeletingIsTyped, RemovingIsTyped
  DEF DashboardStep, Deletes, RemovesNode
<1>2. ASSUME PageInv, UNCHANGED dashboardVars PROVE PageInv'
  BY <1>2 DEF dashboardVars, shown, requests, PageInv, DashboardTypeOK, DeletionsAreWhole
<1>. QED
  BY <1>1, <1>2 DEF DashboardNext

LEMMA ReadingStep == PageInv /\ ReadingInv /\ [DashboardNext]_dashboardVars => ReadingInv'
<1>1. ASSUME PageInv, ReadingInv, DashboardStep PROVE ReadingInv'
  BY <1>1, SelectingReads, ArrivingReads, FailingReads, ChangingReads, ReaderModeReads,
     RemovingReads DEF DashboardStep, Deletes, RemovesNode
<1>2. ASSUME ReadingInv, UNCHANGED dashboardVars PROVE ReadingInv'
  BY <1>2 DEF dashboardVars, shown, requests, ReadingInv, ReaderShowsSelected, OpenedIsWanted,
              IsCurrent, Current
<1>. QED
  BY <1>1, <1>2 DEF DashboardNext

\* Whatever answers arrive in whatever order, the reader shows the article that
\* alone is selected, and a reader mode's content only in that mode
\* (articleRequestGuard, selectionGuard).
THEOREM ReaderIsTrue == DashboardSpec => []ReaderShowsSelected
<1>1. DashboardInit => ReadingInv
  BY DEF DashboardInit, ReadingInv, ReaderShowsSelected, OpenedIsWanted
<1>2. ReadingInv => ReaderShowsSelected
  BY DEF ReadingInv
<1>. QED
  BY <1>1, <1>2, TypedInitially, PageStep, ReadingStep, PTL DEF DashboardSpec

------------------------------------------------------------------------------
(* The list *)

\* The list that is loading is the selected node's, while one is selected.
LoadingInv ==
    /\ loading => Current(lists) # {} \/ onEmpty
    /\ \A r \in Current(lists) : node \in {r.node, NoNode}

LEMMA SelectingLoads ==
    ASSUME PageInv, LoadingInv, NEW n \in Node, Select(n)
    PROVE  LoadingInv'
<1>0. \A r \in Superseded(lists) : ~r.current
  BY ListsStay DEF PageInv, DashboardTypeOK
<1>1. CASE n \in EmptyFolder
  BY <1>0, <1>1 DEF Select, LoadingInv, Current
<1>2. CASE n \notin EmptyFolder
  <2>. DEFINE asked == [node |-> n, reads |-> {server}, current |-> TRUE]
  <2>1. asked.node = n /\ asked.current
    OBVIOUS
  <2>2. lists' = Superseded(lists) \cup {asked} /\ node' = n
    BY <1>2 DEF Select
  <2>. HIDE DEF asked
  <2>. QED
    BY <1>0, <2>1, <2>2 DEF LoadingInv, Current
<1>. QED
  BY <1>1, <1>2

LEMMA AnsweringLoads ==
    ASSUME PageInv, LoadingInv, NEW r \in lists, ListArrives(r) \/ ListFails(r)
    PROVE  LoadingInv'
BY DEF ListArrives, ListFails, LoadingInv, Current

\* The lists in flight read what the server becomes.
LEMMA BecomingLoads ==
    ASSUME PageInv, LoadingInv, NEW c, Becomes(c), UNCHANGED <<loading, onEmpty, node>>
    PROVE  LoadingInv'
<1>1. lists' = {Grown(r, server') : r \in lists}
  BY Zenon DEF Becomes, Grown
<1>0. lists \in SUBSET ListRequest
  BY DEF PageInv, DashboardTypeOK
<1>2. \A r \in lists : /\ Grown(r, server').current = r.current
                       /\ Grown(r, server').node = r.node
  BY <1>0 DEF Grown, ListRequest
<1>. QED
  BY <1>1, <1>2 DEF LoadingInv, Current

LEMMA OthersLoad ==
    ASSUME PageInv, LoadingInv, DashboardStep,
           ~ \E n \in Node : Select(n),
           ~ \E r \in lists : ListArrives(r) \/ ListFails(r)
    PROVE  LoadingInv'
<1>1. ASSUME UNCHANGED <<loading, lists, onEmpty>>, node' = node \/ node' = NoNode PROVE LoadingInv'
  BY <1>1 DEF LoadingInv, Current
<1>2. ASSUME \/ \E s \in SUBSET list : Choose(s)
             \/ \E r \in opens : ArticleArrives(r) \/ PageArrives(r) \/ OpenFails(r)
             \/ \E found \in BOOLEAN : Probe(found)
             \/ \E m \in Mode : ChangeMode(m)
      PROVE  LoadingInv'
  BY <1>1, <1>2 DEF Choose, ArticleArrives, PageArrives, OpenFails, Probe, ChangeMode
<1>3. ASSUME \/ \E r \in trees : TreeArrives(r) \/ TreeCopied(r) \/ TreeFails(r)
             \/ Reload \/ RemoveSelected
      PROVE  LoadingInv'
  BY <1>1, <1>3 DEF TreeArrives, TreeCopied, TreeFails, ShowTree, Reload, RemoveSelected, requests
<1>4. ASSUME \/ \E d \in deletions : DeletionSucceeds(d) \/ DeletionQueued(d) \/ DeletionFails(d)
             \/ \E c \in late : LateRefused(c)
             \/ RemoveNode \/ NodeRemoved \/ NodeQueued \/ NodeNotRemoved
      PROVE  LoadingInv'
  BY <1>1, <1>4 DEF DeletionSucceeds, DeletionQueued, Reconcile, DeletionFails, LateRefused,
                    RemoveNode, NodeRemoved, NodeQueued, LeaveNode, NodeNotRemoved, requests
<1>5. ASSUME NEW c, Becomes(c), UNCHANGED <<loading, onEmpty, node>> PROVE LoadingInv'
  BY <1>5, BecomingLoads
<1>6. ASSUME \/ \E d \in deletions : ServerRemoves(d)
             \/ \E c \in late : LateRemoval(c)
             \/ ServerRemovesNode
      PROVE  LoadingInv'
  BY <1>5, <1>6 DEF ServerRemoves, LateRemoval, ServerRemovesNode
<1>. QED
  BY <1>2, <1>3, <1>4, <1>6 DEF DashboardStep

LEMMA LoadingStep == PageInv /\ LoadingInv /\ [DashboardNext]_dashboardVars => LoadingInv'
<1>1. ASSUME PageInv, LoadingInv, DashboardStep PROVE LoadingInv'
  BY <1>1, SelectingLoads, AnsweringLoads, OthersLoad
<1>2. ASSUME LoadingInv, UNCHANGED dashboardVars PROVE LoadingInv'
  BY <1>2 DEF dashboardVars, requests, LoadingInv, Current
<1>. QED
  BY <1>1, <1>2 DEF DashboardNext

\* A skeleton stands for a request that will be answered, but for the list's after
\* an empty folder (articlesLoading, articleLoading).
THEOREM SkeletonsEnd == DashboardSpec => []SkeletonMeansRequest
<1>1. DashboardInit => ReadingInv /\ LoadingInv
  BY DEF DashboardInit, ReadingInv, ReaderShowsSelected, OpenedIsWanted, LoadingInv, Current
<1>2. ReadingInv /\ LoadingInv => SkeletonMeansRequest
  BY DEF ReadingInv, LoadingInv, SkeletonMeansRequest
<1>. QED
  BY <1>1, <1>2, TypedInitially, PageStep, ReadingStep, LoadingStep, PTL
  DEF DashboardSpec

\* A list that arrives is the selected node's (articlesRequestGuard).
THEOREM ListsAreOfTheNode == DashboardSpec => ListIsOfNode
<1>. DEFINE Fits == \/ list' \subseteq list \/ deletions' # deletions \/ node = NoNode
                    \/ list' \subseteq ArticlesOf(node)
<1>1. ASSUME PageInv, LoadingInv, DashboardStep PROVE Fits
  <2>1. ASSUME UNCHANGED list PROVE Fits
    BY <2>1
  <2>2. ASSUME \/ \E r \in opens : ArticleArrives(r) \/ PageArrives(r) \/ OpenFails(r)
               \/ \E found \in BOOLEAN : Probe(found)
               \/ \E m \in Mode : ChangeMode(m)
               \/ \E r \in lists : ListFails(r)
        PROVE  Fits
    BY <2>1, <2>2 DEF ArticleArrives, PageArrives, OpenFails, Probe, ChangeMode, ListFails, shown
  <2>3. ASSUME \/ \E r \in trees : TreeArrives(r) \/ TreeCopied(r) \/ TreeFails(r)
               \/ \E d \in deletions : \/ ServerRemoves(d) \/ DeletionSucceeds(d)
                                       \/ DeletionQueued(d)
               \/ \E c \in late : LateRemoval(c) \/ LateRefused(c)
               \/ Reload \/ RemoveNode \/ ServerRemovesNode \/ NodeNotRemoved
        PROVE  Fits
    BY <2>1, <2>3 DEF TreeArrives, TreeCopied, TreeFails, ServerRemoves, DeletionSucceeds,
                      DeletionQueued, Reconcile, LateRemoval, LateRefused, Reload, RemoveNode,
                      ServerRemovesNode, NodeNotRemoved, shown
  <2>4. ASSUME NEW d \in deletions, DeletionFails(d) PROVE Fits
    BY <2>4 DEF DeletionFails
  <2>5. ASSUME \/ \E s \in SUBSET list : Choose(s)
               \/ RemoveSelected \/ NodeRemoved \/ NodeQueued
               \/ \E n \in Node : Select(n)
        PROVE  Fits
    BY <2>5 DEF Choose, RemoveSelected, NodeRemoved, NodeQueued, LeaveNode, Select, SetSelection
  <2>6. ASSUME NEW r \in lists, ListArrives(r) PROVE Fits
    <3>1. CASE ~r.current
      BY <2>1, <2>6, <3>1 DEF ListArrives, shown
    <3>2. CASE r.current
      <4>0. r \in Current(lists)
        BY <3>2 DEF Current
      <4>1. node \in {r.node, NoNode}
        BY <1>1, <4>0 DEF LoadingInv
      <4>2. list' \subseteq ArticlesOf(r.node)
        BY <2>6, <3>2 DEF ListArrives, SetSelection, Unread
      <4>. QED
        BY <4>1, <4>2
    <3>. QED
      BY <3>1, <3>2
  <2>. HIDE DEF Fits
  <2>. QED
    BY <1>1, <2>2, <2>3, <2>4, <2>5, <2>6 DEF DashboardStep
<1>2. PageInv /\ LoadingInv /\ [DashboardNext]_dashboardVars => [Fits]_dashboardVars
  BY <1>1 DEF DashboardNext
<1>3. DashboardInit => LoadingInv
  BY DEF DashboardInit, LoadingInv, Current
<1>. QED
  BY <1>2, <1>3, TypedInitially, PageStep, LoadingStep, PTL DEF DashboardSpec, ListIsOfNode

------------------------------------------------------------------------------
(* The counts *)

\* While the server has carried out no removal that the page has not heard of, and
\* unless the page is behind, the tree that it shows or will show is the server's.
CountsInv ==
    deletions = {} /\ ~removal.applied /\ ~behind =>
        /\ \A r \in Current(trees) : r.reads = {server}
        /\ Current(trees) = {} => tree = TreeOf(server)

\* loadTree() leaves one request, with what the server has now.
LEMMA AskingCounts ==
    ASSUME PageInv, TreeAsked(server), UNCHANGED server
    PROVE  CountsInv'
<1>. DEFINE asked == [reads |-> {server}, current |-> TRUE]
<1>1. asked.reads = {server} /\ asked.current
  OBVIOUS
<1>2. trees' = Superseded(trees) \cup {asked}
  BY DEF TreeAsked
<1>3. \A r \in Superseded(trees) : ~r.current
  BY TreesStay DEF PageInv, DashboardTypeOK
<1>. HIDE DEF asked
<1>4. Current(trees') = {asked}
  BY <1>1, <1>2, <1>3 DEF Current
<1>. QED
  BY <1>1, <1>4 DEF CountsInv, Current

LEMMA TreesCount ==
    ASSUME PageInv, CountsInv, NEW r \in trees, TreeArrives(r) \/ TreeCopied(r) \/ TreeFails(r)
    PROVE  CountsInv'
<1>1. UNCHANGED <<server, deletions, removal>> /\ trees' = trees \ {r}
  BY DEF TreeArrives, TreeCopied, TreeFails
<1>2. CASE r.current /\ TreeArrives(r)
  BY <1>1, <1>2 DEF TreeArrives, ShowTree, CountsInv, Current
<1>3. CASE behind'
  BY <1>3 DEF CountsInv
<1>4. CASE ~r.current /\ ~behind'
  <2>1. Current(trees)' = Current(trees)
    BY <1>1, <1>4 DEF Current
  <2>2. tree' = tree /\ behind' = behind
    BY <1>4 DEF TreeArrives, TreeCopied, TreeFails, PageInv, DashboardTypeOK
  <2>. QED
    BY <1>1, <2>1, <2>2 DEF CountsInv
<1>5. r.current /\ ~TreeArrives(r) => behind'
  BY DEF TreeCopied, TreeFails
<1>. QED
  BY <1>2, <1>3, <1>4, <1>5

\* A deletion that is applied late leaves the page behind, unless it has changed nothing.
LEMMA LateCounts ==
    ASSUME PageInv, CountsInv, NEW c \in late, LateRemoval(c)
    PROVE  CountsInv'
<1>1. CASE server' # server
  BY <1>1 DEF LateRemoval, CountsInv
<1>2. CASE server' = server
  <2>1. trees' = {Grown(r, server) : r \in trees}
    BY <1>2, Zenon DEF LateRemoval, Becomes, Grown
  <2>2. \A r \in trees : /\ Grown(r, server).current = r.current
                         /\ Grown(r, server).reads = r.reads \cup {server}
    BY DEF Grown, TreeRequest, PageInv, DashboardTypeOK
  <2>3. \A r \in Current(trees') : \E x \in Current(trees) : r.reads = x.reads \cup {server}
    BY <2>1, <2>2 DEF Current
  <2>4. Current(trees') = {} => Current(trees) = {}
    BY <2>1, <2>2 DEF Current
  <2>5. UNCHANGED <<deletions, removal, tree>> /\ (behind => behind')
    BY DEF LateRemoval
  <2>. QED
    BY <1>2, <2>3, <2>4, <2>5 DEF CountsInv, Current
<1>. QED
  BY <1>1, <1>2

LEMMA OthersCount ==
    ASSUME PageInv, CountsInv, DashboardStep,
           ~ \E r \in trees : TreeArrives(r) \/ TreeCopied(r) \/ TreeFails(r),
           ~ \E c \in late : LateRemoval(c)
    PROVE  CountsInv'
<1>1. ASSUME UNCHANGED <<server, tree, behind, removal, trees, deletions>> PROVE CountsInv'
  BY <1>1 DEF CountsInv, Current
<1>2. ASSUME \/ \E n \in Node : Select(n)
             \/ \E s \in SUBSET list : Choose(s)
             \/ \E r \in lists : ListArrives(r) \/ ListFails(r)
             \/ \E r \in opens : ArticleArrives(r) \/ PageArrives(r) \/ OpenFails(r)
             \/ \E found \in BOOLEAN : Probe(found)
             \/ \E m \in Mode : ChangeMode(m)
             \/ \E c \in late : LateRefused(c)
      PROVE  CountsInv'
  BY <1>1, <1>2 DEF Select, Choose, ListArrives, ListFails, ArticleArrives, PageArrives, OpenFails,
                    Probe, ChangeMode, LateRefused, requests
<1>3. ASSUME \/ Reload \/ NodeRemoved \/ NodeQueued
             \/ \E d \in deletions : DeletionSucceeds(d) \/ DeletionQueued(d) \/ DeletionFails(d)
      PROVE  CountsInv'
  <2>1. TreeAsked(server) /\ UNCHANGED server
    BY <1>3 DEF Reload, NodeRemoved, NodeQueued, LeaveNode, DeletionSucceeds, DeletionQueued,
                Reconcile, DeletionFails
  <2>. QED
    BY <2>1, AskingCounts
<1>4. ASSUME RemoveSelected \/ \E d \in deletions : ServerRemoves(d) PROVE CountsInv'
  BY <1>4 DEF RemoveSelected, ServerRemoves, CountsInv
<1>5. CASE RemoveNode
  BY <1>5 DEF RemoveNode, NoRemoval, CountsInv, Current, requests
<1>6. CASE ServerRemovesNode
  <2>1. removal \in Removal
    BY <1>6 DEF ServerRemovesNode, PageInv, DashboardTypeOK
  <2>2. removal'.applied
    BY <1>6, <2>1 DEF ServerRemovesNode, Removal
  <2>. QED
    BY <2>2 DEF CountsInv
<1>7. CASE NodeNotRemoved
  BY <1>7 DEF NodeNotRemoved, CountsInv, Current, requests
<1>. QED
  BY <1>2, <1>3, <1>4, <1>5, <1>6, <1>7 DEF DashboardStep

\* Once everything has been answered, the tree with the counts that the page computed
\* for itself is the server's, unless since it was asked for it could not be loaded or
\* was a copy, the answer of a removal was lost, or a deletion that nobody waited for
\* has changed the server (removeSelected, removeSelectedNode, loadTree; flushQueue).
THEOREM CountsAreReconciled == DashboardSpec => []CountsReconcile
<1>1. DashboardInit => CountsInv
  BY DEF DashboardInit, CountsInv, Current
<1>2. PageInv /\ CountsInv /\ [DashboardNext]_dashboardVars => CountsInv'
  <2>1. ASSUME PageInv, CountsInv, DashboardStep PROVE CountsInv'
    BY <2>1, TreesCount, LateCounts, OthersCount
  <2>2. ASSUME CountsInv, UNCHANGED dashboardVars PROVE CountsInv'
    BY <2>2 DEF dashboardVars, requests, CountsInv, Current
  <2>. QED
    BY <2>1, <2>2 DEF DashboardNext
<1>3. CountsInv => CountsReconcile
  BY DEF CountsInv, CountsReconcile, Current, NoRemoval
<1>. QED
  BY <1>1, <1>2, <1>3, TypedInitially, PageStep, PTL DEF DashboardSpec
==============================================================================
