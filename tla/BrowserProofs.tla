----------------------------- MODULE BrowserProofs ----------------------------
(***************************************************************************)
(* What runs in the browser, for any number of users, requests, feeds,     *)
(* deletions, pages and addresses.  Service worker: a complete logout      *)
(* leaves nothing of the user in the cache; no deletion that was queued is *)
(* lost.  Form: the preview that is shown is the one that was asked for    *)
(* last.  Extension: the menu comes to rest with what the worker was told  *)
(* last, and the worker answers a request before the page gives it up.     *)
(***************************************************************************)
EXTENDS WorkerCache, OfflineQueue, FeedDiscovery, ContextMenus, ReaderBridge,
        SequenceTheorems, TLAPS

------------------------------------------------------------------------------
(* The cache of the service worker *)

JobState == [pc : {"idle", "asking", "putting"}, kind : Kind,
             cache : 0 .. MaxDeletes, answer : Kept]

\* Whoever has the session has not gone.
SessionIsNotGone == cookie \notin gone

\* No request has opened a cache that does not exist yet; one that is about to
\* put something into the present one puts nothing of a user who has gone.
JobsAreClean ==
    \A j \in Job :
        /\ job[j].cache <= apiCache.number
        /\ JobAt(j, "putting") /\ job[j].cache = apiCache.number =>
              (job[j].answer.of \in gone => job[j].answer.early)

CacheInv == WorkerCacheTypeOK /\ SessionIsNotGone /\ JobsAreClean /\ LogoutForgets

USE WorkerCacheAssumption

LEMMA CacheInitially == WorkerCacheInit => CacheInv
BY DEF WorkerCacheInit, CacheInv, WorkerCacheTypeOK, SessionIsNotGone, JobsAreClean,
       LogoutForgets, Kind, Kept, MaybeUser, Nothing, Unhandled, NoAnswer, JobAt

\* A step that changes one request, and neither cache nor users.
LEMMA OneRequest ==
    ASSUME CacheInv, NEW j \in Job, NEW new \in JobState,
           job' = [job EXCEPT ![j] = new],
           treePreload' \in [pc : {"none", "asking", "answered"}, of : MaybeUser],
           UNCHANGED <<cookie, apiCache, leaving, gone>>,
           new.cache <= apiCache.number,
           new.pc = "putting" => (new.answer.of \in gone => new.answer.early)
    PROVE  CacheInv'
BY DEF CacheInv, WorkerCacheTypeOK, SessionIsNotGone, JobsAreClean, LogoutForgets,
       JobState, JobAt

\* What a request can become.
LEMMA Requests ==
    ASSUME CacheInv
    PROVE  /\ Unhandled \in JobState /\ Unhandled.pc = "idle" /\ Unhandled.cache = 0
           /\ Opened \in JobState /\ Opened.pc = "idle"
           /\ Opened.cache = apiCache.number
           /\ apiCache.number \in 0 .. MaxDeletes
           /\ \A j \in Job : job[j] \in JobState
<1>1. Unhandled \in JobState /\ Unhandled.pc = "idle" /\ Unhandled.cache = 0
  BY DEF Unhandled, JobState, Kind, Kept, Nothing, MaybeUser
<1>2. apiCache.number \in 0 .. MaxDeletes /\ \A j \in Job : job[j] \in JobState
  BY DEF CacheInv, WorkerCacheTypeOK, JobState
<1>3. Opened \in JobState /\ Opened.pc = "idle" /\ Opened.cache = apiCache.number
  BY <1>1, <1>2 DEF Opened, JobState
<1>. QED
  BY <1>1, <1>2, <1>3

\* A request that ends.
LEMMA RequestEnds ==
    ASSUME CacheInv, NEW j \in Job, job' = [job EXCEPT ![j] = Unhandled],
           treePreload' \in [pc : {"none", "asking", "answered"}, of : MaybeUser],
           UNCHANGED <<cookie, apiCache, leaving, gone>>
    PROVE  CacheInv'
<1>1. Unhandled \in JobState /\ Unhandled.pc # "putting"
  BY Requests
<1>2. Unhandled.cache <= apiCache.number
  BY Requests
<1>. QED
  BY <1>1, <1>2, OneRequest

\* Every step keeps the invariant.
LEMMA CacheStep == CacheInv /\ [WorkerCacheNext]_workerCacheVars => CacheInv'
<1>. SUFFICES ASSUME CacheInv, [WorkerCacheNext]_workerCacheVars PROVE CacheInv'
  OBVIOUS
<1>. USE DEF CacheInv
<1>1. CASE UNCHANGED workerCacheVars
  BY <1>1 DEF workerCacheVars, WorkerCacheTypeOK, SessionIsNotGone, JobsAreClean,
             LogoutForgets, JobAt
<1>2. ASSUME NEW u \in User, LogIn(u) PROVE CacheInv'
  BY <1>2 DEF LogIn, WorkerCacheTypeOK, SessionIsNotGone, JobsAreClean, LogoutForgets,
             JobAt, MaybeUser
<1>3. CASE SessionExpires \/ PostLogout
  BY <1>3 DEF SessionExpires, PostLogout, WorkerCacheTypeOK, SessionIsNotGone,
             JobsAreClean, LogoutForgets, JobAt, MaybeUser
<1>4. CASE DeleteCache
  <2>1. /\ apiCache'.number = apiCache.number + 1
        /\ apiCache'.number \in 0 .. MaxDeletes
        /\ apiCache'.entries = [k \in Kind |-> Nothing]
        /\ apiCache' \in [number : 0 .. MaxDeletes, entries : [Kind -> Kept]]
    BY <1>4 DEF DeleteCache, WorkerCacheTypeOK, Kept, Nothing, MaybeUser
  <2>2. gone' \subseteq User /\ leaving' \in MaybeUser /\ cookie' \notin gone'
    BY <1>4 DEF DeleteCache, WorkerCacheTypeOK, SessionIsNotGone, MaybeUser
  <2>3. \A j \in Job : job'[j].cache < apiCache'.number
    BY <1>4, <2>1, Requests DEF DeleteCache, JobsAreClean, JobState
  <2>4. \A j \in Job : job'[j].cache \in 0 .. MaxDeletes
    BY <1>4, Requests DEF DeleteCache, JobState
  <2>5. WorkerCacheTypeOK' /\ SessionIsNotGone'
    BY <1>4, <2>1, <2>2 DEF DeleteCache, WorkerCacheTypeOK, SessionIsNotGone
  <2>6. JobsAreClean'
    BY <2>1, <2>3, <2>4 DEF JobsAreClean
  <2>7. LogoutForgets'
    BY <2>1, <2>2 DEF LogoutForgets, Nothing
  <2>. QED
    BY <2>5, <2>6, <2>7
<1>5. CASE LogoutCut
  BY <1>5 DEF LogoutCut, WorkerCacheTypeOK, SessionIsNotGone, JobsAreClean,
             LogoutForgets, JobAt, MaybeUser
<1>6. ASSUME NEW j \in Job, NEW kind \in Kind, Handle(j, kind) PROVE CacheInv'
  <2>. DEFINE new == [Opened EXCEPT !.pc = "asking", !.kind = kind]
  <2>1. new \in JobState /\ new.cache = apiCache.number /\ new.pc = "asking"
    BY Requests DEF JobState
  <2>2. apiCache.number <= apiCache.number
    BY Requests
  <2>3. job' = [job EXCEPT ![j] = new]
    BY <1>6 DEF Handle
  <2>. HIDE DEF new
  <2>. QED
    BY <1>6, <2>1, <2>2, <2>3, OneRequest DEF Handle, WorkerCacheTypeOK
<1>7. ASSUME NEW j \in Job, HandlePreloaded(j) PROVE CacheInv'
  <2>. DEFINE taken == [Opened EXCEPT !.kind = "tree",
                                      !.answer = [of |-> treePreload.of, early |-> TRUE]]
              new == CASE treePreload.pc = "asking" -> [taken EXCEPT !.pc = "asking"]
                       [] treePreload.of # NoSession -> [taken EXCEPT !.pc = "putting"]
                       [] OTHER -> Unhandled
  <2>1. [of |-> treePreload.of, early |-> TRUE] \in Kept
    BY DEF Kept, WorkerCacheTypeOK
  <2>2. taken \in JobState /\ taken.cache = apiCache.number /\ taken.answer.early
    BY <2>1, Requests DEF JobState, Kind
  <2>3. new \in {[taken EXCEPT !.pc = "asking"], [taken EXCEPT !.pc = "putting"], Unhandled}
    OBVIOUS
  <2>4. job' = [job EXCEPT ![j] = new]
    BY <1>7 DEF HandlePreloaded
  <2>a. \A pc \in {"asking", "putting"} :
           LET next == [taken EXCEPT !.pc = pc]
           IN next \in JobState /\ next.cache = apiCache.number /\ next.answer.early
    BY <2>2 DEF JobState
  <2>b. Unhandled \in JobState /\ Unhandled.cache <= apiCache.number /\ Unhandled.pc = "idle"
    BY Requests
  <2>c. apiCache.number <= apiCache.number
    BY Requests
  <2>. HIDE DEF taken
  <2>5. /\ new \in JobState
        /\ new.cache <= apiCache.number
        /\ new.pc = "putting" => new.answer.early
    BY <2>3, <2>a, <2>b, <2>c
  <2>6. NoAnswer \in [pc : {"none", "asking", "answered"}, of : MaybeUser]
    BY DEF NoAnswer, MaybeUser
  <2>. HIDE DEF new
  <2>. QED
    BY <1>7, <2>4, <2>5, <2>6, OneRequest DEF HandlePreloaded
<1>8. ASSUME NEW j \in Job, NetworkAnswers(j) PROVE CacheInv'
  <2>1. job[j] \in JobState /\ job[j].cache <= apiCache.number
    BY Requests DEF JobsAreClean
  <2>2. CASE cookie = NoSession
    BY <1>8, <2>2, RequestEnds DEF NetworkAnswers, WorkerCacheTypeOK
  <2>3. CASE cookie # NoSession
    <3>. DEFINE kept == [job[j].answer EXCEPT !.of = cookie]
                new == [job[j] EXCEPT !.pc = "putting", !.answer = kept]
    <3>0. kept \in Kept /\ kept.of = cookie
      BY <2>1 DEF JobState, Kept, WorkerCacheTypeOK
    <3>1. new \in JobState /\ new.cache = job[j].cache /\ new.answer.of = cookie
      BY <2>1, <3>0 DEF JobState
    <3>2. job' = [job EXCEPT ![j] = new]
      BY <1>8, <2>3 DEF NetworkAnswers, WorkerCacheTypeOK
    <3>. HIDE DEF new
    <3>. QED
      BY <1>8, <2>1, <3>1, <3>2, OneRequest DEF NetworkAnswers, WorkerCacheTypeOK,
                                             SessionIsNotGone
  <2>. QED
    BY <2>2, <2>3
<1>9. ASSUME NEW j \in Job, NetworkFails(j) PROVE CacheInv'
  BY <1>9, RequestEnds DEF NetworkFails, WorkerCacheTypeOK
<1>10. ASSUME NEW j \in Job, PutAnswer(j) PROVE CacheInv'
  <2>1. job[j] \in JobState /\ job[j].cache <= apiCache.number
    BY Requests DEF JobsAreClean
  <2>. DEFINE icon == [job[j] EXCEPT !.pc = "asking", !.kind = "icon", !.answer = Nothing]
  <2>a. Nothing \in Kept
    BY DEF Nothing, Kept, MaybeUser
  <2>b. icon \in JobState /\ icon.cache = job[j].cache /\ icon.pc = "asking"
    BY <2>1, <2>a DEF JobState, Kind
  <2>c. Unhandled \in JobState /\ Unhandled.cache <= apiCache.number /\ Unhandled.pc = "idle"
    BY Requests
  <2>d. NextJob(j) = icon \/ NextJob(j) = Unhandled
    BY DEF NextJob
  <2>. HIDE DEF icon
  <2>2. /\ NextJob(j) \in JobState
        /\ NextJob(j).cache <= apiCache.number
        /\ NextJob(j).pc # "putting"
    BY <2>1, <2>b, <2>c, <2>d
  <2>3. /\ apiCache' \in [number : 0 .. MaxDeletes, entries : [Kind -> Kept]]
        /\ apiCache'.number = apiCache.number
    BY <1>10, <2>1 DEF PutAnswer, WorkerCacheTypeOK, JobState
  <2>4. LogoutForgets'
    BY <1>10, <2>1 DEF PutAnswer, WorkerCacheTypeOK, LogoutForgets, JobsAreClean, JobState
  <2>5. JobsAreClean' /\ job' \in [Job -> JobState]
    BY <1>10, <2>2, <2>3, Requests DEF PutAnswer, WorkerCacheTypeOK, JobsAreClean, JobAt,
                                      JobState
  <2>. QED
    BY <1>10, <2>3, <2>4, <2>5 DEF PutAnswer, WorkerCacheTypeOK, SessionIsNotGone, JobState
<1>11. CASE NavigateShell \/ PreloadAnswers
  BY <1>11 DEF NavigateShell, PreloadAnswers, WorkerCacheTypeOK, SessionIsNotGone,
              JobsAreClean, LogoutForgets, JobAt, MaybeUser
<1>12. CASE CacheWorkerStops
  <2>1. \A j \in Job : job'[j] = Unhandled
    BY <1>12 DEF CacheWorkerStops
  <2>2. NoAnswer \in [pc : {"none", "asking", "answered"}, of : MaybeUser]
    BY DEF NoAnswer, MaybeUser
  <2>. QED
    BY <1>12, <2>1, <2>2, Requests DEF CacheWorkerStops, WorkerCacheTypeOK,
              SessionIsNotGone, JobsAreClean, LogoutForgets, JobAt, JobState
<1>. QED
  BY <1>1, <1>2, <1>3, <1>4, <1>5, <1>6, <1>7, <1>8, <1>9, <1>10, <1>11, <1>12
  DEF WorkerCacheNext

\* Once a user has logged out completely, what the API cache holds of them is a
\* tree that a navigation asked for at most (logout, networkFirst,
\* treeWithInlineFavicons).
THEOREM LogoutIsClean == WorkerCacheSpec => []LogoutForgets
BY CacheInitially, CacheStep, PTL DEF WorkerCacheSpec, CacheInv

HIDE WorkerCacheAssumption

------------------------------------------------------------------------------
(* The form that finds and previews feeds *)

USE DiscoveryAssumption

\* Only the latest request can be of what is wanted, and it is of nothing else.
DiscoveryInv ==
    /\ latest \in Nat
    /\ form \in [feed : MaybeFeed, titled : BOOLEAN, found : SUBSET Feed, shown : MaybeFeed,
                 folders : {"loading", "loaded", "failed"}]
    /\ wanted \in MaybeFeed
    /\ form.shown \in {NoFeed, wanted}
    /\ \A r \in requests :
          /\ r \in [n : Nat, kind : {"find", "preview"}, feed : MaybeFeed,
                    state : {"asked", "answered", "failed"}]
          /\ r.n <= latest
          /\ r.n = latest /\ r.kind = "preview" => r.feed = wanted

FormType == [feed : MaybeFeed, titled : BOOLEAN, found : SUBSET Feed, shown : MaybeFeed,
             folders : {"loading", "loaded", "failed"}]

LEMMA DiscoveryInitially == DiscoveryInit => DiscoveryInv
<1>. SUFFICES ASSUME DiscoveryInit PROVE DiscoveryInv
  OBVIOUS
<1>1. PICK f \in MaybeFeed :
         /\ editing \in (IF f = NoFeed THEN {FALSE} ELSE BOOLEAN)
         /\ form = [EmptyForm EXCEPT !.feed = f, !.titled = editing]
         /\ \/ latest = 1 /\ wanted = f
               /\ requests = {[n |-> 1, kind |-> "preview", feed |-> f, state |-> "asked"]}
            \/ latest = 0 /\ wanted = NoFeed /\ requests = {}
  BY Zenon DEF DiscoveryInit
<1>2. form = [feed |-> f, titled |-> editing, found |-> {}, shown |-> NoFeed,
              folders |-> "loading"]
  BY <1>1 DEF EmptyForm
<1>3. editing \in BOOLEAN /\ NoFeed \in MaybeFeed
  BY <1>1 DEF MaybeFeed
<1>4. form \in FormType /\ form.shown = NoFeed
  BY <1>2, <1>3 DEF FormType
<1>5. ASSUME NEW r \in requests
      PROVE  /\ r = [n |-> 1, kind |-> "preview", feed |-> f, state |-> "asked"]
             /\ latest = 1 /\ wanted = f
  BY <1>1, <1>5
<1>6. latest \in {0, 1} /\ wanted \in MaybeFeed
  BY <1>1, <1>3
<1>. QED
  BY <1>4, <1>5, <1>6 DEF DiscoveryInv, FormType

\* The fields may change; no request does.
LEMMA FormChanges ==
    ASSUME DiscoveryInv, form' \in FormType, form'.shown \in {NoFeed, wanted},
           latest' \in Nat, latest' >= latest, wanted' = wanted, requests' \subseteq requests
    PROVE  DiscoveryInv'
BY DEF DiscoveryInv, FormType

LEMMA Asking ==
    ASSUME DiscoveryInv, NEW kind \in {"find", "preview"}, NEW f \in MaybeFeed,
           AskLatest(kind, f), wanted' \in MaybeFeed, kind = "preview" => wanted' = f,
           form' \in FormType, form'.shown \in {NoFeed, wanted'}
    PROVE  DiscoveryInv'
<1>1. latest' = latest + 1 /\ latest' \in Nat
  BY DEF AskLatest, DiscoveryInv
<1>2. ASSUME NEW r \in requests'
      PROVE  /\ r \in [n : Nat, kind : {"find", "preview"}, feed : MaybeFeed,
                       state : {"asked", "answered", "failed"}]
             /\ r.n <= latest'
             /\ r.n = latest' /\ r.kind = "preview" => r.feed = wanted'
  <2>1. CASE r \in requests
    BY <1>1, <2>1 DEF DiscoveryInv
  <2>2. CASE r = [n |-> latest + 1, kind |-> kind, feed |-> f, state |-> "asked"]
    BY <1>1, <2>2
  <2>. QED
    BY <1>2, <2>1, <2>2 DEF AskLatest
<1>. QED
  BY <1>1, <1>2 DEF DiscoveryInv, FormType

LEMMA Serving ==
    ASSUME DiscoveryInv, NEW r \in requests, NEW state \in {"answered", "failed"},
           ServedAs(r, state), ClientAlone
    PROVE  DiscoveryInv'
<1>1. r = [n |-> r.n, kind |-> r.kind, feed |-> r.feed, state |-> r.state]
      /\ r \in [n : Nat, kind : {"find", "preview"}, feed : MaybeFeed,
                state : {"asked", "answered", "failed"}]
  BY DEF DiscoveryInv
<1>2. [r EXCEPT !.state = state]
         = [n |-> r.n, kind |-> r.kind, feed |-> r.feed, state |-> state]
  BY <1>1
<1>3. requests' = (requests \ {r})
                     \cup {[n |-> r.n, kind |-> r.kind, feed |-> r.feed, state |-> state]}
  BY <1>2 DEF ServedAs
<1>. QED
  BY <1>1, <1>3 DEF DiscoveryInv, ClientAlone

LEMMA DiscoveryStep == DiscoveryInv /\ [DiscoveryNext]_discoveryVars => DiscoveryInv'
<1>. SUFFICES ASSUME DiscoveryInv, [DiscoveryNext]_discoveryVars PROVE DiscoveryInv'
  OBVIOUS
<1>0. form \in FormType
  BY DEF DiscoveryInv, FormType
<1>1. CASE UNCHANGED discoveryVars
  BY <1>1 DEF discoveryVars, DiscoveryInv
<1>2. CASE Type \/ FoldersLoad
  <2>1. form' \in FormType /\ form'.shown = form.shown
    BY <1>0, <1>2 DEF Type, FoldersLoad, FormType
  <2>. QED
    BY <1>2, <2>1, FormChanges DEF Type, FoldersLoad, FormAlone, DiscoveryInv
<1>3. CASE FindFeeds
  BY <1>0, <1>3, Asking DEF FindFeeds, DiscoveryInv, MaybeFeed
<1>4. ASSUME NEW f \in MaybeFeed, Preview(f) PROVE DiscoveryInv'
  <2>1. form' \in FormType /\ form'.shown = NoFeed
    BY <1>0, <1>4 DEF Preview, FormType, MaybeFeed
  <2>. QED
    BY <1>4, <2>1, Asking DEF Preview
<1>5. CASE SubmitForm \/ CloseForm
  BY <1>0, <1>5, FormChanges DEF SubmitForm, CloseForm, DiscoveryInv
<1>6. ASSUME NEW r \in requests, FoundArrives(r) PROVE DiscoveryInv'
  <2>1. form' \in FormType /\ form'.shown = form.shown
    BY <1>0, <1>6 DEF FoundArrives, FormType
  <2>. QED
    BY <1>6, <2>1, FormChanges DEF FoundArrives, Finished, DiscoveryInv
<1>7. ASSUME NEW r \in requests, PreviewArrives(r) PROVE DiscoveryInv'
  <2>1. form' \in FormType /\ form'.shown \in {NoFeed, wanted}
    <3>1. CASE IsLatest(r) /\ r.state = "answered"
      <4>1. r.feed = wanted /\ r.feed \in MaybeFeed
        BY <1>7, <3>1 DEF PreviewArrives, IsLatest, DiscoveryInv
      <4>. QED
        BY <1>0, <1>7, <3>1, <4>1 DEF PreviewArrives, PreviewShown, FormType
    <3>2. CASE ~(IsLatest(r) /\ r.state = "answered")
      BY <1>0, <1>7, <3>2 DEF PreviewArrives, DiscoveryInv
    <3>. QED
      BY <3>1, <3>2
  <2>. QED
    BY <1>7, <2>1, FormChanges DEF PreviewArrives, Finished, DiscoveryInv
<1>8. ASSUME NEW r \in requests, ServeFind(r) \/ ServePreview(r) PROVE DiscoveryInv'
  BY <1>8, Serving DEF ServeFind, ServePreview
<1>9. ASSUME NEW s \in submits, SubmitArrives(s) \/ ServeSubmit(s) PROVE DiscoveryInv'
  <2>1. /\ latest' = latest \/ latest' = latest + 1
        /\ form' = form /\ wanted' = wanted /\ requests' = requests
    BY <1>9, Zenon DEF SubmitArrives, ServeSubmit, ClientAlone
  <2>. QED
    BY <1>0, <2>1, FormChanges DEF DiscoveryInv
<1>10. CASE CacheTick
  BY <1>0, <1>10, FormChanges DEF CacheTick, ClientAlone, DiscoveryInv
<1>. QED
  BY <1>1, <1>2, <1>3, <1>4, <1>5, <1>6, <1>7, <1>8, <1>9, <1>10 DEF DiscoveryNext

\* The articles that the form shows are of the feed that was asked for last
\* (latestRequest in feed-discovery.tsx).
THEOREM WantedPreviewIsShown == DiscoverySpec => []PreviewIsWanted
<1>1. DiscoveryInv => PreviewIsWanted
  BY DEF DiscoveryInv, PreviewIsWanted
<1>. QED
  BY <1>1, DiscoveryInitially, DiscoveryStep, PTL DEF DiscoverySpec

HIDE DiscoveryAssumption

------------------------------------------------------------------------------
(* Reader mode *)

USE BridgeAssumption

AskState == [pc : AskPlace, answer : Answer, age : Nat, lag : Nat, took : Nat,
            redirects : Nat, chunks : Nat]

\* A request has been under way for what its messages and its fetch have taken.
OnItsWay(r) ==
    /\ promise[r] = "none" => ask[r] = NotAsked
    /\ ask[r].took <= AbortAfter /\ ask[r].lag <= MaxLag
    /\ promise[r] = "pending" /\ installed =>
          ask[r].pc # "home" /\ ask[r].age <= ask[r].lag + ask[r].took
    /\ promise[r] = "no answer" => ~installed
    /\ promise[r] = "pending" => ~disposed

BridgeInv ==
    /\ ask \in [Reading -> AskState]
    /\ promise \in [Reading -> Outcome]
    /\ \A r \in Reading : OnItsWay(r)

LEMMA Home ==
    /\ NotAsked \in AskState
    /\ NotAsked.pc = "home" /\ NotAsked.age = 0 /\ NotAsked.lag = 0 /\ NotAsked.took = 0
BY DEF NotAsked, AskState, AskPlace, Answer, FetchError

LEMMA BridgeInitially == BridgeInit => BridgeInv
BY Home DEF BridgeInit, BridgeInv, OnItsWay, Outcome

\* A request goes on.
LEMMA GoesOn ==
    ASSUME BridgeInv, NEW r \in Reading, ask[r].pc # "home", Elsewhere,
           ask' \in [Reading -> AskState],
           \A q \in Reading \ {r} : ask'[q] = ask[q],
           ask'[r].pc # "home",
           ask'[r].age = ask[r].age, ask'[r].lag = ask[r].lag, ask'[r].took = ask[r].took
    PROVE  BridgeInv'
<1>1. promise[r] # "none"
  BY Home DEF BridgeInv, OnItsWay
<1>. QED
  BY <1>1 DEF BridgeInv, OnItsWay, Elsewhere

LEMMA Answering ==
    ASSUME BridgeInv, NEW r \in Reading, NEW answer \in Answer, ask[r].pc # "home",
           Elsewhere, AnswerWith(r, answer)
    PROVE  BridgeInv'
<1>1. /\ ask' \in [Reading -> AskState]
      /\ \A q \in Reading \ {r} : ask'[q] = ask[q]
      /\ ask'[r].pc = "answered"
      /\ ask'[r].age = ask[r].age /\ ask'[r].lag = ask[r].lag /\ ask'[r].took = ask[r].took
  BY DEF BridgeInv, AnswerWith, AskState, AskPlace
<1>. QED
  BY <1>1, GoesOn

LEMMA Moving ==
    ASSUME BridgeInv, NEW r \in Reading, NEW pc \in AskPlace \ {"home"},
           ask[r].pc # "home", Elsewhere, ask' = [ask EXCEPT ![r].pc = pc]
    PROVE  BridgeInv'
<1>1. /\ ask' \in [Reading -> AskState]
      /\ \A q \in Reading \ {r} : ask'[q] = ask[q]
      /\ ask'[r].pc = pc
      /\ ask'[r].age = ask[r].age /\ ask'[r].lag = ask[r].lag /\ ask'[r].took = ask[r].took
  BY DEF BridgeInv, AskState
<1>. QED
  BY <1>1, GoesOn

LEMMA Counting ==
    ASSUME BridgeInv, NEW r \in Reading, ask[r].pc # "home", Elsewhere,
           \/ ask' = [ask EXCEPT ![r].redirects = @ + 1]
           \/ ask' = [ask EXCEPT ![r].chunks = @ + 1]
    PROVE  BridgeInv'
<1>1. /\ ask' \in [Reading -> AskState]
      /\ \A q \in Reading \ {r} : ask'[q] = ask[q]
      /\ ask'[r].pc = ask[r].pc
      /\ ask'[r].age = ask[r].age /\ ask'[r].lag = ask[r].lag /\ ask'[r].took = ask[r].took
  BY DEF BridgeInv, AskState
<1>. QED
  BY <1>1, GoesOn

\* The script and the worker: a request goes on or is answered.
LEMMA Worker ==
    ASSUME BridgeInv, NEW r \in Reading,
           \/ Forward(r) \/ WorkerStops(r) \/ Authorize(r) \/ FetchDocument(r)
           \/ Follow(r) \/ Respond(r) \/ ReadChunk(r) \/ FetchBreaks(r)
    PROVE  BridgeInv'
<1>1. ask[r].pc # "home" /\ Elsewhere
  BY DEF Forward, WorkerStops, Authorize, FetchDocument, Follow, Respond, ReadChunk,
         FetchBreaks, AskAt
<1>2. \/ \E answer \in Answer : AnswerWith(r, answer)
      \/ \E pc \in AskPlace \ {"home"} : ask' = [ask EXCEPT ![r].pc = pc]
      \/ ask' = [ask EXCEPT ![r].redirects = @ + 1]
      \/ ask' = [ask EXCEPT ![r].chunks = @ + 1]
  <2>1. {"UNAVAILABLE", "UNAUTHORIZED", "capable", "html", "INVALID_URL", "PRIVATE_URL",
         "TOO_MANY_REDIRECTS", "INVALID_RESPONSE", "FETCH_FAILED", "NOT_HTML", "TOO_LARGE",
         "TIMEOUT"} \subseteq Answer
    BY DEF Answer, FetchError
  <2>2. {"worker", "fetching", "reading"} \subseteq AskPlace \ {"home"}
    BY DEF AskPlace
  <2>3. CASE Forward(r)
    BY <2>1, <2>2, <2>3 DEF Forward
  <2>4. CASE WorkerStops(r) \/ Authorize(r)
    BY <2>1, <2>4 DEF WorkerStops, Authorize
  <2>5. CASE FetchDocument(r)
    BY <2>1, <2>2, <2>5 DEF FetchDocument
  <2>6. CASE Follow(r)
    BY <2>1, <2>6 DEF Follow
  <2>7. CASE Respond(r)
    BY <2>1, <2>2, <2>7 DEF Respond
  <2>8. CASE ReadChunk(r)
    BY <2>1, <2>8 DEF ReadChunk
  <2>9. CASE FetchBreaks(r)
    BY <2>1, <2>9 DEF FetchBreaks
  <2>. QED
    BY <2>3, <2>4, <2>5, <2>6, <2>7, <2>8, <2>9
<1>. QED
  BY <1>1, <1>2, Answering, Moving, Counting

LEMMA Sending ==
    ASSUME BridgeInv, NEW r \in Reading, SendRequest(r)
    PROVE  BridgeInv'
<1>1. promise' \in [Reading -> Outcome] /\ promise'[r] = "pending"
      /\ \A q \in Reading \ {r} : promise'[q] = promise[q]
  BY DEF SendRequest, Settle, BridgeInv, Outcome
<1>2. ask[r] = NotAsked /\ ~disposed
  BY DEF SendRequest, BridgeInv, OnItsWay
<1>3. CASE installed
  <2>1. /\ ask' \in [Reading -> AskState]
        /\ \A q \in Reading \ {r} : ask'[q] = ask[q]
        /\ ask'[r].pc = "script" /\ ask'[r].age = 0 /\ ask'[r].lag = 0 /\ ask'[r].took = 0
    BY <1>2, <1>3, Home DEF SendRequest, BridgeInv, AskState, AskPlace
  <2>2. /\ NotAsked # ask'[r] /\ ask'[r].took <= AbortAfter /\ ask'[r].lag <= MaxLag
        /\ ask'[r].age <= ask'[r].lag + ask'[r].took
    BY <2>1, Home
  <2>3. OnItsWay(r)'
    BY <1>1, <1>2, <2>1, <2>2 DEF SendRequest, OnItsWay
  <2>4. ASSUME NEW q \in Reading \ {r} PROVE OnItsWay(q)'
    BY <1>1, <2>1 DEF SendRequest, BridgeInv, OnItsWay
  <2>. QED
    BY <1>1, <2>1, <2>3, <2>4 DEF BridgeInv
<1>4. CASE ~installed
  BY <1>1, <1>2, <1>4 DEF SendRequest, BridgeInv, OnItsWay
<1>. QED
  BY <1>3, <1>4

LEMMA Receiving ==
    ASSUME BridgeInv, NEW r \in Reading, ReceiveAnswer(r)
    PROVE  BridgeInv'
<1>1. ask' \in [Reading -> AskState] /\ ask'[r] = NotAsked
      /\ \A q \in Reading \ {r} : ask'[q] = ask[q]
  BY Home DEF ReceiveAnswer, BridgeInv
<1>2. ask[r].answer \in Answer /\ Answer \subseteq Outcome
      /\ Answer \cap {"none", "pending", "no answer"} = {}
  BY DEF BridgeInv, AskState, Outcome, Answer, FetchError
<1>3. /\ promise' \in [Reading -> Outcome]
      /\ \A q \in Reading \ {r} : promise'[q] = promise[q]
      /\ promise'[r] # "pending"
      /\ promise'[r] \in {"none", "no answer"} => promise'[r] = promise[r]
  <2>1. CASE promise[r] = "pending" /\ ~disposed
    BY <1>2, <2>1 DEF ReceiveAnswer, Settle, BridgeInv
  <2>2. CASE ~(promise[r] = "pending" /\ ~disposed)
    BY <2>2 DEF ReceiveAnswer, BridgeInv, OnItsWay
  <2>. QED
    BY <2>1, <2>2
<1>4. UNCHANGED <<installed, disposed>>
  BY DEF ReceiveAnswer
<1>5. OnItsWay(r)'
  <2>1. NotAsked.took <= AbortAfter /\ NotAsked.lag <= MaxLag
    BY Home
  <2>2. promise[r] = "no answer" => ~installed
    BY DEF BridgeInv, OnItsWay
  <2>. QED
    BY <1>1, <1>3, <1>4, <2>1, <2>2 DEF OnItsWay
<1>6. ASSUME NEW q \in Reading \ {r} PROVE OnItsWay(q)'
  BY <1>1, <1>3, <1>4 DEF BridgeInv, OnItsWay
<1>. QED
  BY <1>1, <1>3, <1>5, <1>6 DEF BridgeInv

\* The page's timer rings only where no script is there to answer.
LEMMA Ringing ==
    ASSUME BridgeInv, NEW r \in Reading, PageTimerRings(r)
    PROVE  BridgeInv'
<1>1. ask[r].age \in Nat /\ ask[r].lag \in Nat /\ ask[r].took \in Nat
  BY DEF BridgeInv, AskState
<1>2. ~installed
  <2>1. /\ promise[r] = "pending" /\ ask[r].age = PageTimeout
        /\ ask[r].lag <= MaxLag /\ ask[r].took <= AbortAfter
    BY DEF PageTimerRings, BridgeInv, OnItsWay
  <2>2. ~(ask[r].age <= ask[r].lag + ask[r].took)
    BY <1>1, <2>1
  <2>. QED
    BY <2>1, <2>2 DEF BridgeInv, OnItsWay
<1>3. promise' \in [Reading -> Outcome] /\ promise'[r] = "no answer"
      /\ \A q \in Reading \ {r} : promise'[q] = promise[q]
  BY DEF PageTimerRings, Settle, BridgeInv, Outcome
<1>. QED
  BY <1>2, <1>3 DEF PageTimerRings, BridgeInv, OnItsWay

\* Three fields of a request that change, and four that do not.
LEMMA Growing ==
    ASSUME NEW pc, NEW answer, NEW age, NEW lag, NEW took, NEW redirects, NEW chunks,
           NEW age2, NEW lag2, NEW took2
    PROVE  [[pc |-> pc, answer |-> answer, age |-> age, lag |-> lag, took |-> took,
             redirects |-> redirects, chunks |-> chunks]
               EXCEPT !.age = age2, !.took = took2, !.lag = lag2]
              = [pc |-> pc, answer |-> answer, age |-> age2, lag |-> lag2, took |-> took2,
                 redirects |-> redirects, chunks |-> chunks]
<1>. DEFINE R(a, l, t) == [pc |-> pc, answer |-> answer, age |-> a, lag |-> l, took |-> t,
                           redirects |-> redirects, chunks |-> chunks]
<1>1. [R(age, lag, took) EXCEPT !.age = age2] = R(age2, lag, took)
  OBVIOUS
<1>2. [R(age2, lag, took) EXCEPT !.took = took2] = R(age2, lag, took2)
  OBVIOUS
<1>3. [R(age2, lag, took2) EXCEPT !.lag = lag2] = R(age2, lag2, took2)
  OBVIOUS
<1>4. [R(age, lag, took) EXCEPT !.age = age2, !.took = took2, !.lag = lag2]
         = R(age2, lag2, took2)
  <2>. HIDE DEF R
  <2>. QED
    BY <1>1, <1>2, <1>3
<1>. QED
  BY <1>4

LEMMA BridgeTicking ==
    ASSUME BridgeInv, BridgeTick
    PROVE  BridgeInv'
<1>1. ASSUME NEW r \in Reading
      PROVE  /\ ask'[r] \in AskState
             /\ OnItsWay(r)'
  <2>1. PICK pc \in AskPlace, answer \in Answer, age \in Nat, lag \in Nat, took \in Nat,
             redirects \in Nat, chunks \in Nat :
           ask[r] = [pc |-> pc, answer |-> answer, age |-> age, lag |-> lag, took |-> took,
                     redirects |-> redirects, chunks |-> chunks]
    BY DEF BridgeInv, AskState
  <2>. DEFINE age2 == IF promise[r] = "pending" THEN age + 1 ELSE age
              took2 == IF Slow(r) THEN took + 1 ELSE took
              lag2 == IF Travelling(r) THEN lag + 1 ELSE lag
  <2>2. ask'[r] = [pc |-> pc, answer |-> answer, age |-> age2, lag |-> lag2, took |-> took2,
                   redirects |-> redirects, chunks |-> chunks]
    <3>1. ask[r].age = age /\ ask[r].lag = lag /\ ask[r].took = took
      BY <2>1
    <3>2. ask'[r] = [ask[r] EXCEPT !.age = age2, !.took = took2, !.lag = lag2]
      BY <3>1 DEF BridgeTick
    <3>. HIDE DEF age2, took2, lag2
    <3>. QED
      <4>1. ask'[r] = [[pc |-> pc, answer |-> answer, age |-> age, lag |-> lag, took |-> took,
                        redirects |-> redirects, chunks |-> chunks]
                          EXCEPT !.age = age2, !.took = took2, !.lag = lag2]
        BY <2>1, <3>2, Zenon
      <4>. QED
        BY <4>1, Growing, Zenon
  <2>3. /\ age2 \in Nat /\ took2 \in Nat /\ lag2 \in Nat
        /\ took2 <= AbortAfter /\ lag2 <= MaxLag
    <3>1. /\ took <= AbortAfter /\ lag <= MaxLag
          /\ Slow(r) => took < AbortAfter
          /\ Travelling(r) => lag < MaxLag
      <4>1. took <= AbortAfter /\ lag <= MaxLag
        <5>1. ask[r].took <= AbortAfter /\ ask[r].lag <= MaxLag
          BY DEF BridgeInv, OnItsWay
        <5>. QED
          BY <2>1, <5>1
      <4>2. /\ Slow(r) => ask[r].took < AbortAfter
            /\ Travelling(r) => ask[r].lag < MaxLag
        BY DEF BridgeTick
      <4>. QED
        BY <2>1, <4>1, <4>2
    <3>. QED
      BY <3>1
  <2>4. ask'[r] \in AskState
    BY <2>2, <2>3 DEF AskState
  <2>6. ASSUME promise[r] = "none" PROVE ask'[r] = NotAsked
    <3>1. ask[r] = NotAsked /\ ~Slow(r) /\ ~Travelling(r)
      BY <2>6, Home DEF BridgeInv, OnItsWay, Slow, Travelling
    <3>. QED
      BY <2>1, <2>2, <2>6, <3>1
  <2>7. ASSUME promise[r] = "pending", installed
        PROVE  pc # "home" /\ age2 <= lag2 + took2
    <3>1. pc # "home" /\ age <= lag + took
      <4>1. ask[r].pc # "home" /\ ask[r].age <= ask[r].lag + ask[r].took
        BY <2>7 DEF BridgeInv, OnItsWay
      <4>. QED
        BY <2>1, <4>1
    <3>2. Slow(r) \/ Travelling(r)
      BY <2>1, <3>1 DEF Slow, Travelling, AskPlace
    <3>. QED
      BY <2>7, <3>1, <3>2
  <2>8. UNCHANGED <<installed, promise, disposed>>
    BY DEF BridgeTick
  <2>9. /\ promise[r] = "no answer" => ~installed
        /\ promise[r] = "pending" => ~disposed
    BY DEF BridgeInv, OnItsWay
  <2>. HIDE DEF age2, took2, lag2
  <2>10. /\ ask'[r].pc = pc /\ ask'[r].age = age2
         /\ ask'[r].lag = lag2 /\ ask'[r].took = took2
    BY <2>2
  <2>. QED
    BY <2>3, <2>4, <2>6, <2>7, <2>8, <2>9, <2>10 DEF OnItsWay
<1>2. ask' \in [Reading -> AskState]
  BY <1>1 DEF BridgeTick
<1>. QED
  BY <1>1, <1>2 DEF BridgeTick, BridgeInv

LEMMA BridgeStep == BridgeInv /\ [BridgeNext]_bridgeVars => BridgeInv'
<1>. SUFFICES ASSUME BridgeInv, [BridgeNext]_bridgeVars PROVE BridgeInv'
  OBVIOUS
<1>1. CASE UNCHANGED bridgeVars
  BY <1>1 DEF bridgeVars, BridgeInv, OnItsWay
<1>2. CASE Dispose
  <2>1. /\ promise' \in [Reading -> Outcome]
        /\ \A r \in Reading : promise'[r] = IF promise[r] = "pending" THEN "disposed"
                                            ELSE promise[r]
    BY <1>2 DEF Dispose, BridgeInv, Outcome
  <2>2. UNCHANGED <<installed, ask>>
    BY <1>2 DEF Dispose
  <2>. QED
    BY <2>1, <2>2 DEF BridgeInv, OnItsWay
<1>3. ASSUME NEW r \in Reading, Extract(r) PROVE BridgeInv'
  <2>1. promise' \in [Reading -> Outcome] /\ promise'[r] \in {"text", "content", "no article"}
        /\ \A q \in Reading \ {r} : promise'[q] = promise[q]
    BY <1>3 DEF Extract, Settle, BridgeInv, Outcome
  <2>. QED
    BY <1>3, <2>1 DEF Extract, BridgeInv, OnItsWay
<1>. QED
  BY <1>1, <1>2, <1>3, Worker, Sending, Receiving, Ringing, BridgeTicking DEF BridgeNext

\* An extension that is there answers before the page gives up, as long as its own
\* timer and the messages take less than the page waits (responseTimeoutMs).
THEOREM ExtensionAnswersFirst == BridgeSpec => []ServedBeforeTimeout
<1>1. BridgeInv => ServedBeforeTimeout
  BY DEF BridgeInv, OnItsWay, ServedBeforeTimeout
<1>. QED
  BY <1>1, BridgeInitially, BridgeStep, PTL DEF BridgeSpec

HIDE BridgeAssumption

------------------------------------------------------------------------------
(* The extension's menu *)

USE MenuAssumption

PageState == [at : Address, feeds : FeedList, scanDue : BOOLEAN, listDue : BOOLEAN,
              moves : Nat]

\* Pages tell lists of feeds, or that they were hidden.
ScriptInv ==
    /\ page \in [Page -> PageState]
    /\ front \in Page
    /\ mail \in [Page -> Seq(FeedList \cup {Lost})]

\* What the worker was told last is in its timer, waits for the end of the update,
\* is what the update lists, or, at rest, is what the menu shows; a loss of
\* visibility is in the flag.
WorkerInv ==
    /\ update.pc = "idle" => update = MenuIdle /\ later = NoList /\ ~clearing
    /\ update.pc \in {"idle", "removing", "parents", "dropping", "children", "ending"}
    /\ update.pc \in {"removing", "dropping", "ending"} => menu = {}
    /\ update.pc = "parents" => menu = {Parents}
    /\ update.pc = "children" => menu = update.feeds \cup {Parents}
    /\ update.pc \in {"dropping", "ending"} => clearing
    /\ update = [pc |-> update.pc, feeds |-> update.feeds]
    /\ clearing \in BOOLEAN /\ broken \in BOOLEAN
    /\ heard # NoList
    /\ listTimer # Lost /\ later # Lost
    /\ update.feeds \notin {NoList, Lost}

Pending ==
    IF heard = Lost
    THEN /\ listTimer = NoList /\ later = NoList
         /\ IF update.pc = "idle" THEN ~broken => menu = {} ELSE clearing
    ELSE IF listTimer # NoList THEN listTimer = heard
    ELSE IF later # NoList THEN later = heard
    ELSE IF update.pc = "idle" THEN ~broken => menu = heard \cup {Parents}
    ELSE update.feeds = heard /\ ~clearing

MenuInv == ScriptInv /\ WorkerInv /\ Pending

LEMMA MenusInitially == MenusInit => MenuInv
<1>. SUFFICES ASSUME MenusInit PROVE MenuInv
  OBVIOUS
<1>1. PICK a \in [Page -> Address] :
         page = [p \in Page |-> [at |-> a[p], feeds |-> {}, scanDue |-> TRUE,
                                 listDue |-> FALSE, moves |-> 0]]
  BY DEF MenusInit
<1>2. {} \in FeedList
  BY DEF FeedList
<1>3. page \in [Page -> PageState]
  BY <1>1, <1>2 DEF PageState
<1>4. mail \in [Page -> Seq(FeedList \cup {Lost})]
  BY DEF MenusInit
<1>. QED
  BY <1>2, <1>3, <1>4 DEF MenusInit, MenuInv, ScriptInv, WorkerInv, Pending, MenuIdle

------------------------------------------------------------------------------
(* The pages *)

LEMMA Telling ==
    ASSUME ScriptInv, NEW p \in Page, NEW message \in FeedList \cup {Lost},
           mail' = [mail EXCEPT ![p] = Append(@, message)]
    PROVE  mail' \in [Page -> Seq(FeedList \cup {Lost})]
BY AppendProperties DEF ScriptInv

LEMMA MailTaken ==
    ASSUME ScriptInv, NEW p \in Page, mail[p] # <<>>, Receive(p)
    PROVE  /\ mail' \in [Page -> Seq(FeedList \cup {Lost})]
           /\ Head(mail[p]) \in FeedList \cup {Lost}
BY HeadTailProperties DEF ScriptInv, Receive

LEMMA Listing ==
    ASSUME ScriptInv, NEW p \in Page, NEW record \in PageState, NEW hidden \in BOOLEAN,
           SourcesListed(p, record, hidden), front' = front
    PROVE  ScriptInv'
<1>1. [record EXCEPT !.listDue = ~hidden] \in PageState
  BY DEF PageState
<1>2. page' \in [Page -> PageState]
  BY <1>1 DEF SourcesListed, ScriptInv
<1>3. mail' \in [Page -> Seq(FeedList \cup {Lost})]
  BY Telling DEF SourcesListed, ScriptInv
<1>. QED
  BY <1>2, <1>3 DEF ScriptInv

LEMMA Scripts ==
    ASSUME ScriptInv, NEW p \in Page,
           ScanPage(p) \/ Navigate(p) \/ Switch(p) \/ SendList(p)
    PROVE  ScriptInv' /\ UNCHANGED workerVars
<1>0. page[p] \in PageState
  BY DEF ScriptInv
<1>1. CASE ScanPage(p)
  <2>1. FeedsAt(page[p].at) \in FeedList
    BY <1>0 DEF PageState, FeedList, AnyFeed
  <2>2. [page[p] EXCEPT !.scanDue = FALSE, !.feeds = FeedsAt(page[p].at)] \in PageState
    BY <1>0, <2>1 DEF PageState
  <2>. QED
    BY <1>1, <2>2, Listing DEF ScanPage
<1>2. CASE Navigate(p)
  <2>1. PICK a \in Address :
          SourcesListed(p, [page[p] EXCEPT !.at = a, !.feeds = {}, !.scanDue = TRUE,
                                           !.moves = @ + 1], p # front)
    BY <1>2 DEF Navigate
  <2>2. [page[p] EXCEPT !.at = a, !.feeds = {}, !.scanDue = TRUE, !.moves = @ + 1]
           \in PageState
    <3>1. {} \in FeedList /\ page[p].moves + 1 \in Nat
      BY <1>0 DEF PageState, FeedList
    <3>. QED
      BY <1>0, <3>1 DEF PageState
  <2>. QED
    BY <1>2, <2>1, <2>2, Listing DEF Navigate
<1>3. CASE Switch(p)
  <2>1. page' \in [Page -> PageState]
    <3>1. page[front] \in PageState /\ front # p
      BY <1>3 DEF Switch, ScriptInv
    <3>2. /\ [page[p] EXCEPT !.listDue = TRUE, !.moves = @ + 1] \in PageState
          /\ [page[front] EXCEPT !.listDue = FALSE] \in PageState
      <4>1. page[p].moves + 1 \in Nat
        BY <1>0 DEF PageState
      <4>2. [page[p] EXCEPT !.listDue = TRUE, !.moves = @ + 1] \in PageState
        BY <1>0, <4>1 DEF PageState
      <4>3. [page[front] EXCEPT !.listDue = FALSE] \in PageState
        BY <3>1 DEF PageState
      <4>. QED
        BY <4>2, <4>3
    <3>3. page' = [page EXCEPT ![p] = [page[p] EXCEPT !.listDue = TRUE, !.moves = @ + 1],
                               ![front] = [page[front] EXCEPT !.listDue = FALSE]]
      BY <1>3, <3>1 DEF Switch, ScriptInv
    <3>. QED
      BY <3>2, <3>3 DEF ScriptInv
  <2>2. mail' \in [Page -> Seq(FeedList \cup {Lost})]
    BY <1>3, Telling DEF Switch, ScriptInv
  <2>. QED
    BY <1>3, <2>1, <2>2 DEF Switch, ScriptInv
<1>4. CASE SendList(p)
  <2>1. page' \in [Page -> PageState]
    BY <1>0, <1>4 DEF SendList, ScriptInv, PageState
  <2>2. page[p].feeds \in FeedList
    BY <1>0 DEF PageState
  <2>3. mail' \in [Page -> Seq(FeedList \cup {Lost})]
    BY <1>4, <2>2, Telling DEF SendList
  <2>. QED
    BY <1>4, <2>1, <2>3 DEF SendList, ScriptInv
<1>. QED
  BY <1>1, <1>2, <1>3, <1>4

------------------------------------------------------------------------------
(* The worker *)

LEMMA Told ==
    ASSUME MenuInv, NEW p \in Page, ListFeeds(p) \/ VisibilityLost(p)
    PROVE  MenuInv'
<1>1. ScriptInv'
  <2>1. mail' \in [Page -> Seq(FeedList \cup {Lost})]
    BY MailTaken DEF ListFeeds, VisibilityLost, MenuInv
  <2>. QED
    BY <2>1 DEF ListFeeds, VisibilityLost, MenuInv, ScriptInv
<1>2. CASE ListFeeds(p)
  <2>1. Head(mail[p]) \in FeedList
    BY <1>2, MailTaken DEF ListFeeds, MenuInv
  <2>2. listTimer' = heard' /\ heard' \notin {NoList, Lost}
    BY <1>2, <2>1 DEF ListFeeds
  <2>3. UNCHANGED <<update, clearing, later, menu, broken>>
    BY <1>2 DEF ListFeeds
  <2>. QED
    BY <1>1, <2>2, <2>3 DEF MenuInv, WorkerInv, Pending
<1>3. CASE VisibilityLost(p)
  <2>1. heard' = Lost /\ listTimer' = NoList /\ UNCHANGED <<update, broken>>
    BY <1>3 DEF VisibilityLost
  <2>2. CASE update.pc = "idle"
    <3>1. update = MenuIdle
      BY <2>2 DEF MenuInv, WorkerInv
    <3>2. menu' = {} /\ UNCHANGED <<clearing, later>>
      BY <1>3, <3>1 DEF VisibilityLost
    <3>. QED
      BY <1>1, <2>1, <2>2, <3>1, <3>2 DEF MenuInv, WorkerInv, Pending
  <2>3. CASE update.pc # "idle"
    <3>1. clearing' = TRUE /\ later' = NoList /\ menu' = menu
      BY <1>3, <2>3 DEF VisibilityLost, MenuIdle
    <3>. QED
      BY <1>1, <2>1, <2>3, <3>1 DEF MenuInv, WorkerInv, Pending
  <2>. QED
    BY <2>2, <2>3
<1>. QED
  BY <1>2, <1>3

\* An update begins with a list, at rest or where another one ends.
LEMMA Starting ==
    ASSUME MenuInv, NEW feeds, feeds \notin {NoList, Lost}, StartUpdate(feeds),
           later' = NoList, listTimer' \in {listTimer, NoList},
           heard' = heard, clearing' = FALSE, UNCHANGED scriptVars,
           heard # Lost, listTimer' # NoList \/ feeds = heard
    PROVE  MenuInv'
<1>1. update' = [pc |-> "removing", feeds |-> feeds] /\ menu' = {} /\ broken' = FALSE
  BY DEF StartUpdate
<1>2. ScriptInv'
  BY DEF MenuInv, ScriptInv, scriptVars
<1>. QED
  BY <1>1, <1>2 DEF MenuInv, WorkerInv, Pending

\* An update ends, and nothing waits.
LEMMA Resting ==
    ASSUME MenuInv, update' = MenuIdle, later = NoList, later' = NoList, clearing' = FALSE,
           UNCHANGED <<listTimer, heard>>, UNCHANGED scriptVars,
           broken' \in BOOLEAN,
           listTimer = NoList /\ ~broken' =>
              menu' = IF heard = Lost THEN {} ELSE heard \cup {Parents}
    PROVE  MenuInv'
<1>1. ScriptInv'
  BY DEF MenuInv, ScriptInv, scriptVars
<1>2. {} \in FeedList /\ update' = [pc |-> "idle", feeds |-> {}]
  BY DEF FeedList, MenuIdle
<1>. QED
  <2>0. {} \notin {NoList, Lost}
    BY <1>2
  <2>1. update'.pc = "idle" /\ update' = MenuIdle /\ update'.feeds \notin {NoList, Lost}
    BY <1>2, <2>0 DEF MenuIdle
  <2>2. /\ heard # NoList /\ listTimer # Lost /\ later # Lost
        /\ heard = Lost => listTimer = NoList
        /\ heard # Lost /\ listTimer # NoList => listTimer = heard
    BY DEF MenuInv, WorkerInv, Pending
  <2>3. WorkerInv'
    BY <1>2, <2>1, <2>2 DEF WorkerInv
  <2>4. Pending'
    BY <2>1, <2>2 DEF Pending
  <2>. QED
    BY <1>1, <2>3, <2>4 DEF MenuInv

\* What waits is begun, or the update ends with an empty menu; it was to clear.
LEMMA Cleared ==
    ASSUME MenuInv, update.pc # "idle", clearing, menu = {},
           clearing' = FALSE, UNCHANGED <<listTimer, heard>>, UNCHANGED scriptVars,
           \/ later = NoList /\ update' = MenuIdle /\ UNCHANGED <<menu, later, broken>>
           \/ later # NoList /\ StartUpdate(later) /\ later' = NoList
    PROVE  MenuInv'
<1>1. CASE later = NoList /\ update' = MenuIdle /\ UNCHANGED <<menu, later, broken>>
  <2>1. listTimer = NoList => heard = Lost
    BY <1>1 DEF MenuInv, Pending
  <2>. QED
    BY <1>1, <2>1, Resting DEF MenuInv, WorkerInv
<1>2. CASE later # NoList /\ StartUpdate(later) /\ later' = NoList
  <2>1. heard # Lost /\ later # Lost /\ (listTimer # NoList \/ later = heard)
    BY <1>2 DEF MenuInv, WorkerInv, Pending
  <2>. QED
    BY <1>2, <2>1, Starting
<1>. QED
  BY <1>1, <1>2

LEMMA Timing ==
    ASSUME MenuInv, MenuTimer
    PROVE  MenuInv'
<1>1. listTimer = heard /\ heard \notin {NoList, Lost} /\ listTimer' = NoList
      /\ UNCHANGED <<clearing, heard>> /\ UNCHANGED scriptVars
  BY DEF MenuTimer, MenuInv, WorkerInv, Pending
<1>2. CASE update.pc = "idle"
  <2>1. update = MenuIdle /\ later = NoList /\ clearing = FALSE
    BY <1>2 DEF MenuInv, WorkerInv
  <2>. QED
    BY <1>1, <2>1, Starting DEF MenuTimer
<1>3. CASE update.pc # "idle"
  <2>1. later' = heard /\ UNCHANGED <<update, menu, broken>>
    BY <1>1, <1>3 DEF MenuTimer, MenuIdle
  <2>2. ScriptInv'
    BY <1>1 DEF MenuInv, ScriptInv, scriptVars
  <2>. QED
    BY <1>1, <1>3, <2>1, <2>2 DEF MenuInv, WorkerInv, Pending
<1>. QED
  BY <1>2, <1>3

\* A step inside an update: the menu follows its place.
LEMMA Proceeding ==
    ASSUME MenuInv, NEW pc \in {"parents", "dropping", "children", "ending"},
           update.pc # "idle",
           update' = [update EXCEPT !.pc = pc], UNCHANGED <<listTimer, later, heard>>,
           UNCHANGED scriptVars, clearing' = clearing, broken' \in BOOLEAN,
           pc \in {"dropping", "ending"} => clearing /\ menu' = {},
           pc = "parents" => menu' = {Parents},
           pc = "children" => menu' = update.feeds \cup {Parents}
    PROVE  MenuInv'
<1>1. update' = [pc |-> pc, feeds |-> update.feeds]
  BY DEF MenuInv, WorkerInv
<1>2. ScriptInv'
  BY DEF MenuInv, ScriptInv, scriptVars
<1>. QED
  BY <1>1, <1>2 DEF MenuInv, WorkerInv, Pending

LEMMA Updating ==
    ASSUME MenuInv, Removed \/ ParentsCreated \/ Dropped \/ ChildrenCreated \/ Ended
    PROVE  MenuInv'
<1>1. CASE Removed
  <2>1. CASE clearing
    BY <1>1, <2>1, Cleared DEF Removed, MenuInv, WorkerInv
  <2>2. CASE ~clearing
    <3>1. clearing' = clearing
      BY <1>1, <2>2 DEF Removed, MenuInv, WorkerInv
    <3>. QED
      BY <1>1, <2>2, <3>1, Proceeding DEF Removed, MenuInv, WorkerInv
  <2>. QED
    BY <2>1, <2>2
<1>2. CASE ParentsCreated
  BY <1>2, Proceeding DEF ParentsCreated, MenuInv, WorkerInv
<1>3. CASE Dropped \/ Ended
  BY <1>3, Cleared DEF Dropped, Ended, MenuInv, WorkerInv
<1>4. CASE ChildrenCreated
  <2>1. CASE clearing
    BY <1>4, <2>1, Proceeding DEF ChildrenCreated, Ending, MenuInv, WorkerInv
  <2>2. CASE ~clearing
    <3>1. clearing' = FALSE /\ heard # Lost /\ later # Lost
      BY <1>4, <2>2 DEF ChildrenCreated, MenuInv, WorkerInv, Pending
    <3>2. CASE later = NoList
      <4>1. listTimer = NoList => menu = heard \cup {Parents}
        BY <1>4, <3>1, <3>2 DEF ChildrenCreated, MenuInv, WorkerInv, Pending
      <4>. QED
        BY <1>4, <2>2, <3>1, <3>2, <4>1, Resting DEF ChildrenCreated, Ending, MenuInv, WorkerInv
    <3>3. CASE later # NoList
      <4>1. listTimer # NoList \/ later = heard
        BY <3>1, <3>3 DEF MenuInv, Pending
      <4>. QED
        BY <1>4, <2>2, <3>1, <3>3, <4>1, Starting DEF ChildrenCreated, Ending
    <3>. QED
      BY <3>2, <3>3
  <2>. QED
    BY <2>1, <2>2
<1>. QED
  BY <1>1, <1>2, <1>3, <1>4

LEMMA Failing ==
    ASSUME MenuInv, CreateFails
    PROVE  MenuInv'
<1>1. CASE clearing
  BY <1>1, Proceeding DEF CreateFails, MenuInv, WorkerInv
<1>2. CASE ~clearing
  <2>1. clearing' = FALSE /\ heard # Lost /\ later # Lost
    BY <1>2 DEF CreateFails, MenuInv, WorkerInv, Pending
  <2>2. CASE later = NoList
    BY <1>2, <2>1, <2>2, Resting DEF CreateFails
  <2>3. CASE later # NoList
    <3>1. listTimer # NoList \/ later = heard
      BY <2>1, <2>3 DEF MenuInv, Pending
    <3>. QED
      BY <1>2, <2>1, <2>3, <3>1, Starting DEF CreateFails
  <2>. QED
    BY <2>2, <2>3
<1>. QED
  BY <1>1, <1>2

LEMMA MenusStep == MenuInv /\ [MenusNext]_menuVars => MenuInv'
<1>. SUFFICES ASSUME MenuInv, [MenusNext]_menuVars PROVE MenuInv'
  OBVIOUS
<1>1. ASSUME ScriptInv', UNCHANGED workerVars PROVE MenuInv'
  BY <1>1 DEF workerVars, MenuInv, WorkerInv, Pending
<1>2. CASE UNCHANGED menuVars
  BY <1>2 DEF menuVars, MenuInv, ScriptInv, WorkerInv, Pending
<1>3. ASSUME NEW p \in Page, ScanPage(p) \/ Navigate(p) \/ Switch(p) \/ SendList(p)
      PROVE  MenuInv'
  BY <1>1, <1>3, Scripts DEF MenuInv
<1>. QED
  BY <1>2, <1>3, Told, Timing, Updating, Failing DEF MenusNext

\* At rest the menu shows the list that the worker was told last, or nothing after
\* a loss of visibility (updateContextMenus and messageHandler).
THEOREM MenusComeToRest == MenusSpec => []MenusSettle
<1>1. MenuInv => MenusSettle
  BY DEF MenuInv, WorkerInv, Pending, MenusSettle, MenuIdle
<1>. QED
  BY <1>1, MenusInitially, MenusStep, PTL DEF MenusSpec

HIDE MenuAssumption

------------------------------------------------------------------------------
(* The queue of the service worker *)

USE QueueAssumption

\* A sequence without the element at one place.
LEMMA Removal ==
    ASSUME NEW S, NEW q \in Seq(S), NEW i \in DOMAIN q
    PROVE  /\ RemoveAt(q, i) \in Seq(S)
           /\ Len(RemoveAt(q, i)) = Len(q) - 1
           /\ \A j \in 1 .. Len(q) - 1 :
                 RemoveAt(q, i)[j] = IF j < i THEN q[j] ELSE q[j + 1]
<1>. DEFINE before == SubSeq(q, 1, i - 1)
            after == SubSeq(q, i + 1, Len(q))
<1>1. i \in 1 .. Len(q) /\ Len(q) \in Nat
  OBVIOUS
<1>2. /\ before \in Seq(S) /\ Len(before) = i - 1
      /\ \A j \in 1 .. i - 1 : before[j] = q[j]
  BY <1>1
<1>3. /\ after \in Seq(S) /\ Len(after) = Len(q) - i
      /\ \A j \in 1 .. Len(q) - i : after[j] = q[i + j]
  BY <1>1
<1>4. RemoveAt(q, i) = before \o after
  BY DEF RemoveAt
<1>. HIDE DEF before, after
<1>5. /\ before \o after \in Seq(S) /\ Len(before \o after) = Len(before) + Len(after)
      /\ \A j \in 1 .. Len(before) + Len(after) :
            (before \o after)[j] = IF j <= Len(before) THEN before[j]
                                   ELSE after[j - Len(before)]
  BY <1>2, <1>3, ConcatProperties
<1>6. RemoveAt(q, i) \in Seq(S) /\ Len(RemoveAt(q, i)) = Len(q) - 1
  BY <1>1, <1>2, <1>3, <1>4, <1>5
<1>7. ASSUME NEW j \in 1 .. Len(q) - 1
      PROVE  RemoveAt(q, i)[j] = IF j < i THEN q[j] ELSE q[j + 1]
  <2>1. CASE j < i
    BY <1>1, <1>2, <1>3, <1>4, <1>5, <2>1
  <2>2. CASE ~(j < i)
    <3>1. j \in 1 .. Len(before) + Len(after) /\ ~(j <= Len(before))
      BY <1>1, <1>2, <1>3, <2>2
    <3>2. RemoveAt(q, i)[j] = after[j - Len(before)]
      BY <1>4, <1>5, <3>1
    <3>3. j - (i - 1) \in 1 .. Len(q) - i /\ i + (j - (i - 1)) = j + 1
      BY <1>1, <2>2
    <3>. QED
      BY <1>2, <1>3, <2>2, <3>2, <3>3
  <2>. QED
    BY <2>1, <2>2
<1>. QED
  BY <1>6, <1>7

LEMMA RemovalSet ==
    ASSUME NEW S, NEW q \in Seq(S), NEW i \in DOMAIN q
    PROVE  /\ ToSet(q) \ {q[i]} \subseteq ToSet(RemoveAt(q, i))
           /\ ToSet(RemoveAt(q, i)) \subseteq ToSet(q)
           /\ IsInjective(q) => IsInjective(RemoveAt(q, i))
<1>. DEFINE r == RemoveAt(q, i)
<1>1. /\ r \in Seq(S) /\ Len(r) = Len(q) - 1
      /\ \A j \in 1 .. Len(q) - 1 : r[j] = IF j < i THEN q[j] ELSE q[j + 1]
  BY Removal
<1>. HIDE DEF r
<1>2. DOMAIN q = 1 .. Len(q) /\ DOMAIN r = 1 .. Len(q) - 1 /\ Len(q) \in Nat
  BY <1>1
<1>3. ASSUME NEW x \in ToSet(q), x # q[i] PROVE x \in ToSet(r)
  <2>1. PICK k \in 1 .. Len(q) : q[k] = x
    BY <1>2, <1>3 DEF ToSet
  <2>2. CASE k < i
    <3>1. k \in DOMAIN r /\ r[k] = x
      BY <1>1, <1>2, <2>1, <2>2
    <3>. QED
      BY <3>1 DEF ToSet
  <2>3. CASE k > i
    <3>1. k - 1 \in DOMAIN r /\ r[k - 1] = x
      BY <1>1, <1>2, <2>1, <2>3
    <3>. QED
      BY <3>1 DEF ToSet
  <2>. QED
    BY <1>2, <1>3, <2>1, <2>2, <2>3
<1>4. ASSUME NEW x \in ToSet(r) PROVE x \in ToSet(q)
  <2>1. PICK k \in 1 .. Len(q) - 1 : r[k] = x
    BY <1>2, <1>4 DEF ToSet
  <2>2. k \in DOMAIN q /\ k + 1 \in DOMAIN q /\ x \in {q[k], q[k + 1]}
    BY <1>1, <1>2, <2>1
  <2>. QED
    BY <2>2 DEF ToSet
<1>5. ASSUME IsInjective(q), NEW a \in DOMAIN r, NEW b \in DOMAIN r, r[a] = r[b]
      PROVE  a = b
  <2>. DEFINE at(j) == IF j < i THEN j ELSE j + 1
  <2>1. /\ at(a) \in DOMAIN q /\ at(b) \in DOMAIN q
        /\ r[a] = q[at(a)] /\ r[b] = q[at(b)]
    BY <1>1, <1>2
  <2>2. at(a) = at(b)
    BY <1>5, <2>1 DEF IsInjective
  <2>. QED
    BY <1>2, <2>2
<1>6. IsInjective(q) => IsInjective(r)
  BY <1>5 DEF IsInjective
<1>. QED
  BY <1>3, <1>4, <1>6 DEF r


\* A replay that is under way has an entry to deal with; all that it has read was
\* told; what is about to be deleted as done has been done.
IsTrue(r, said, done) ==
    /\ r.pc = "idle" => r = NoReplay
    /\ r.pc # "idle" => r.todo # <<>>
    /\ ToSet(r.todo) \subseteq said
    /\ r.pc = "ok" => Head(r.todo) \in done

QueueInv ==
    /\ QueueTypeOK
    /\ ToSet(queue) \subseteq told
    /\ \A f \in Flush : IsTrue(replay[f], told, applied)
    /\ NothingLost

LEMMA IdleReplay ==
    /\ NoReplay \in Replay /\ NoReplay.pc = "idle"
    /\ IsTrue(NoReplay, told, applied)
<1>1. <<>> \in Seq(Mutation) /\ ToSet(<<>>) = {}
  BY DEF ToSet
<1>. QED
  BY <1>1 DEF NoReplay, Replay, IsTrue

LEMMA QueueInitially == QueueInit => QueueInv
<1>1. ToSet(<<>>) = {} /\ IsInjective(<<>>) /\ <<>> \in Seq(Mutation)
  BY DEF ToSet, IsInjective
<1>. QED
  BY <1>1, IdleReplay DEF QueueInit, QueueInv, QueueTypeOK, NothingLost

\* The entry a replay is at, and what is left after it.
LEMMA HeadAndRest ==
    ASSUME QueueInv, NEW f \in Flush, replay[f].pc # "idle"
    PROVE  /\ replay[f] \in Replay
           /\ Head(replay[f].todo) \in told \cap Mutation
           /\ Rest(f) \in Replay /\ IsTrue(Rest(f), told, applied)
<1>. DEFINE todo == replay[f].todo
            next == [todo |-> Tail(todo), pc |-> "sending"]
<1>1. replay[f] \in Replay /\ todo \in Seq(Mutation) /\ todo # <<>> /\ ToSet(todo) \subseteq told
  BY DEF QueueInv, QueueTypeOK, Replay, IsTrue
<1>2. Len(todo) \in Nat /\ 1 \in DOMAIN todo /\ Head(todo) = todo[1]
  BY <1>1
<1>3. Head(todo) \in ToSet(todo) /\ Head(todo) \in Mutation
  BY <1>1, <1>2 DEF ToSet
<1>4. ASSUME Len(todo) # 1 PROVE next \in Replay /\ IsTrue(next, told, applied)
  <2>1. /\ Tail(todo) \in Seq(Mutation) /\ Len(Tail(todo)) = Len(todo) - 1
        /\ Tail(todo) # <<>>
        /\ \A i \in 1 .. Len(todo) - 1 : Tail(todo)[i] = todo[i + 1]
    <3>1. /\ Tail(todo) \in Seq(Mutation) /\ Len(Tail(todo)) = Len(todo) - 1
          /\ \A i \in 1 .. Len(Tail(todo)) : Tail(todo)[i] = todo[i + 1]
      BY <1>1, HeadTailProperties
    <3>2. Len(Tail(todo)) # 0
      BY <1>2, <1>4, <3>1
    <3>3. \A i \in 1 .. Len(todo) - 1 : Tail(todo)[i] = todo[i + 1]
      BY <3>1
    <3>4. Tail(todo) # <<>>
      BY <3>1, <3>2, EmptySeq
    <3>. QED
      BY <3>1, <3>3, <3>4
  <2>2. ToSet(Tail(todo)) \subseteq ToSet(todo)
    <3>. SUFFICES ASSUME NEW x \in ToSet(Tail(todo)) PROVE x \in ToSet(todo)
      OBVIOUS
    <3>1. PICK i \in DOMAIN Tail(todo) : x = Tail(todo)[i]
      BY DEF ToSet
    <3>2. i + 1 \in DOMAIN todo /\ x = todo[i + 1]
      BY <1>1, <1>2, <2>1, <3>1
    <3>. QED
      BY <3>2 DEF ToSet
  <2>3. next \in Replay
    BY <2>1 DEF Replay
  <2>. QED
    BY <1>1, <2>1, <2>2, <2>3 DEF IsTrue
<1>. QED
  BY <1>1, <1>3, <1>4, IdleReplay DEF Rest

\* One replay goes on, and the server undoes nothing.
LEMMA OneReplay ==
    ASSUME QueueInv, NEW f \in Flush, NEW new \in Replay, IsTrue(new, told', applied'),
           replay' = [replay EXCEPT ![f] = new],
           told' = told, applied \subseteq applied', applied' \subseteq Mutation
    PROVE  /\ replay' \in [Flush -> Replay]
           /\ \A g \in Flush : IsTrue(replay'[g], told', applied')
           /\ replay[f].pc # "notifying" => Notifying \subseteq Notifying'
           /\ Notifying \subseteq Notifying' \cup {Head(replay[f].todo)}
<1>1. replay \in [Flush -> Replay] /\ \A g \in Flush : IsTrue(replay[g], told, applied)
  BY DEF QueueInv, QueueTypeOK
<1>2. replay' \in [Flush -> Replay] /\ replay'[f] = new
      /\ \A g \in Flush \ {f} : replay'[g] = replay[g]
  BY <1>1
<1>3. ASSUME NEW g \in Flush PROVE IsTrue(replay'[g], told', applied')
  <2>1. CASE g = f
    BY <1>2, <2>1 DEF IsTrue
  <2>2. CASE g # f
    BY <1>1, <1>2, <2>2 DEF IsTrue
  <2>. QED
    BY <2>1, <2>2
<1>. QED
  BY <1>2, <1>3 DEF Notifying

\* An answer: the server may have done it.
LEMMA Handled ==
    ASSUME QueueInv, NEW m \in Mutation, Handles(m)
    PROVE  /\ applied \subseteq applied' /\ applied' \subseteq Mutation
           /\ ~Refuses(m) => m \in applied'
BY DEF Handles, QueueInv, QueueTypeOK

LEMMA QueueStep == QueueInv /\ [QueueNext]_queueVars => QueueInv'
<1>. SUFFICES ASSUME QueueInv, [QueueNext]_queueVars PROVE QueueInv'
  OBVIOUS
<1>0. /\ queue \in Seq(Mutation) /\ replay \in [Flush -> Replay]
      /\ applied \subseteq Mutation /\ told \subseteq Mutation
  BY DEF QueueInv, QueueTypeOK
<1>1. ASSUME NEW m \in Mutation, Enqueue(m) PROVE QueueInv'
  <2>1. applied \subseteq applied' /\ applied' \subseteq Mutation
    BY <1>0, <1>1, Handled DEF Enqueue
  <2>2. /\ queue' \in Seq(Mutation) /\ ToSet(queue') = ToSet(queue) \cup {m}
        /\ m \notin ToSet(queue) /\ IsInjective(queue')
    <3>1. /\ queue' = Append(queue, m) /\ m \notin ToSet(queue)
          /\ IsInjective(queue)
      BY <1>1 DEF Enqueue, QueueInv, QueueTypeOK
    <3>2. /\ queue' \in Seq(Mutation) /\ DOMAIN queue' = 1 .. Len(queue) + 1
          /\ DOMAIN queue = 1 .. Len(queue) /\ Len(queue) \in Nat
          /\ \A i \in 1 .. Len(queue) : queue'[i] = queue[i]
          /\ queue'[Len(queue) + 1] = m
      BY <1>0, <3>1
    <3>3. ToSet(queue') = ToSet(queue) \cup {m}
      BY <3>2 DEF ToSet
    <3>4. IsInjective(queue')
      BY <3>1, <3>2 DEF IsInjective, ToSet
    <3>. QED
      BY <3>1, <3>2, <3>3, <3>4
  <2>3. \A f \in Flush : IsTrue(replay'[f], told', applied')
    BY <1>1, <2>1 DEF Enqueue, QueueInv, IsTrue
  <2>. QED
    BY <1>0, <1>1, <2>1, <2>2, <2>3
    DEF Enqueue, QueueInv, QueueTypeOK, NothingLost, Notifying
<1>2. ASSUME NEW m \in Mutation, Send(m) PROVE QueueInv'
  <2>1. applied \subseteq applied' /\ applied' \subseteq Mutation
    BY <1>2, Handled DEF Send
  <2>. QED
    BY <1>2, <2>1 DEF Send, QueueInv, QueueTypeOK, NothingLost, Notifying, IsTrue
<1>3. ASSUME NEW f \in Flush, NEW new \in Replay, IsTrue(new, told', applied'),
             replay' = [replay EXCEPT ![f] = new], replay[f].pc # "notifying",
             applied \subseteq applied', applied' \subseteq Mutation,
             UNCHANGED <<queue, told, discarded, unheard, forgotten>>
      PROVE  QueueInv'
  <2>1. /\ replay' \in [Flush -> Replay]
        /\ \A g \in Flush : IsTrue(replay'[g], told', applied')
        /\ Notifying \subseteq Notifying'
    BY <1>3, OneReplay
  <2>. QED
    BY <1>3, <2>1 DEF QueueInv, QueueTypeOK, NothingLost
<1>4. ASSUME NEW f \in Flush, StartFlush(f) PROVE QueueInv'
  <2>. DEFINE new == [todo |-> queue, pc |-> "sending"]
  <2>1. new \in Replay /\ IsTrue(new, told', applied')
    BY <1>0, <1>4 DEF Replay, IsTrue, StartFlush, QueueInv
  <2>2. replay[f].pc # "notifying" /\ replay' = [replay EXCEPT ![f] = new]
    BY <1>4 DEF StartFlush, NoReplay
  <2>. HIDE DEF new
  <2>. QED
    BY <1>0, <1>3, <1>4, <2>1, <2>2 DEF StartFlush
<1>5. ASSUME NEW f \in Flush, Answered(f) PROVE QueueInv'
  <2>. DEFINE m == Head(replay[f].todo)
              pc == IF Refuses(m) THEN "rejected" ELSE "ok"
              new == [replay[f] EXCEPT !.pc = pc]
  <2>1. /\ replay[f].pc = "sending"
        /\ UNCHANGED <<queue, told, discarded, unheard, forgotten>>
    BY <1>5 DEF Answered
  <2>2. /\ m \in told \cap Mutation /\ replay[f] \in Replay /\ IsTrue(replay[f], told, applied)
        /\ Rest(f) \in Replay /\ IsTrue(Rest(f), told, applied)
    BY <2>1, HeadAndRest DEF QueueInv
  <2>3. CASE replay' = [replay EXCEPT ![f] = Rest(f)] /\ UNCHANGED applied
    <3>2. replay' = [replay EXCEPT ![f] = Rest(f)]
      BY <2>3
    <3>. DEFINE rest == Rest(f)
    <3>3. rest \in Replay /\ IsTrue(rest, told', applied')
      BY <2>1, <2>2, <2>3 DEF IsTrue
    <3>4. replay' = [replay EXCEPT ![f] = rest]
      BY <3>2
    <3>. HIDE DEF rest
    <3>. QED
      BY <1>0, <1>3, <2>1, <2>3, <3>3, <3>4
  <2>4. CASE Handles(m) /\ replay' = [replay EXCEPT ![f].pc = pc]
    <3>1. /\ applied \subseteq applied' /\ applied' \subseteq Mutation
          /\ ~Refuses(m) => m \in applied'
      BY <2>2, <2>4, Handled
    <3>2. /\ new \in Replay /\ new.todo = replay[f].todo /\ new.pc = pc
          /\ replay[f].todo # <<>> /\ ToSet(replay[f].todo) \subseteq told
      BY <2>1, <2>2 DEF Replay, IsTrue
    <3>3. /\ new.pc # "idle" /\ new.todo # <<>> /\ ToSet(new.todo) \subseteq told'
          /\ new.pc = "ok" => Head(new.todo) \in applied'
      BY <2>1, <3>1, <3>2
    <3>4. replay' = [replay EXCEPT ![f] = new]
      BY <1>0, <2>4
    <3>. HIDE DEF new
    <3>5. IsTrue(new, told', applied')
      BY <3>3 DEF IsTrue
    <3>. QED
      BY <1>3, <2>1, <3>1, <3>2, <3>4, <3>5
  <2>. QED
    BY <1>5, <2>3, <2>4 DEF Answered
<1>6. ASSUME NEW f \in Flush, Unanswered(f) PROVE QueueInv'
  <2>1. replay[f].pc = "sending"
    BY <1>6 DEF Unanswered
  <2>2. applied \subseteq applied' /\ applied' \subseteq Mutation
    BY <1>0, <1>6, <2>1, HeadAndRest, Handled DEF Unanswered
  <2>3. NoReplay \in Replay /\ IsTrue(NoReplay, told', applied')
    <3>1. NoReplay.pc = "idle" /\ ToSet(NoReplay.todo) = {}
      BY DEF NoReplay, ToSet
    <3>. QED
      BY <3>1, IdleReplay DEF IsTrue
  <2>. QED
    BY <1>3, <1>6, <2>1, <2>2, <2>3 DEF Unanswered
<1>7. ASSUME NEW f \in Flush, DeleteEntry(f) PROVE QueueInv'
  <2>. DEFINE m == Head(replay[f].todo)
              new == IF replay[f].pc = "ok" THEN Rest(f)
                     ELSE [replay[f] EXCEPT !.pc = "notifying"]
  <2>1. /\ replay[f].pc \in {"ok", "rejected"}
        /\ UNCHANGED <<applied, told, discarded, unheard, forgotten>>
        /\ replay' = [replay EXCEPT ![f] = new]
    BY <1>0, <1>7 DEF DeleteEntry
  <2>2. /\ m \in told \cap Mutation /\ replay[f] \in Replay /\ IsTrue(replay[f], told, applied)
        /\ Rest(f) \in Replay /\ IsTrue(Rest(f), told, applied)
    BY <2>1, HeadAndRest DEF QueueInv
  <2>3. new \in Replay /\ IsTrue(new, told', applied')
    <3>1. CASE replay[f].pc = "ok"
      BY <2>1, <2>2, <3>1 DEF IsTrue
    <3>2. CASE replay[f].pc # "ok"
      BY <2>1, <2>2, <3>2 DEF IsTrue, Replay
    <3>. QED
      BY <3>1, <3>2
  <2>4. \/ replay[f].pc = "ok" /\ m \in applied
        \/ new.pc = "notifying" /\ Head(new.todo) = m
    BY <2>1, <2>2 DEF IsTrue, Replay
  <2>. HIDE DEF new
  <2>5. /\ replay' \in [Flush -> Replay]
        /\ \A g \in Flush : IsTrue(replay'[g], told', applied')
        /\ Notifying \subseteq Notifying'
    BY <1>0, <2>1, <2>3, OneReplay
  <2>6. m \in applied \cup Notifying'
    <3>1. replay'[f] = new
      BY <1>0, <2>1
    <3>. QED
      BY <2>4, <3>1 DEF Notifying
  <2>7. /\ queue' \in Seq(Mutation) /\ IsInjective(queue')
        /\ ToSet(queue') \subseteq ToSet(queue)
        /\ ToSet(queue) \subseteq ToSet(queue') \cup {m}
    <3>0. IsInjective(queue)
      BY DEF QueueInv, QueueTypeOK
    <3>1. CASE UNCHANGED queue
      BY <1>0, <3>0, <3>1
    <3>2. CASE \E i \in DOMAIN queue : queue[i] = m /\ queue' = RemoveAt(queue, i)
      BY <1>0, <3>0, <3>2, Removal, RemovalSet
    <3>. QED
      BY <1>7, <3>1, <3>2 DEF DeleteEntry
  <2>. QED
    BY <1>0, <2>1, <2>5, <2>6, <2>7 DEF QueueInv, QueueTypeOK, NothingLost
<1>8. ASSUME NEW f \in Flush, Notify(f) PROVE QueueInv'
  <2>. DEFINE m == Head(replay[f].todo)
              rest == Rest(f)
  <2>1. /\ replay[f].pc = "notifying" /\ replay' = [replay EXCEPT ![f] = rest]
        /\ UNCHANGED <<queue, applied, told, forgotten>>
        /\ discarded \subseteq discarded' /\ unheard \subseteq unheard'
        /\ m \in discarded' \cup unheard'
        /\ discarded' \cup unheard' \subseteq discarded \cup unheard \cup {m}
    BY <1>8 DEF Notify
  <2>2. m \in told /\ rest \in Replay /\ IsTrue(rest, told, applied)
    BY <2>1, HeadAndRest
  <2>3. IsTrue(rest, told', applied')
    BY <2>1, <2>2 DEF IsTrue
  <2>. HIDE DEF rest
  <2>4. /\ replay' \in [Flush -> Replay]
        /\ \A g \in Flush : IsTrue(replay'[g], told', applied')
        /\ Notifying \subseteq Notifying' \cup {m}
    BY <1>0, <2>1, <2>2, <2>3, OneReplay
  <2>. QED
    BY <2>1, <2>2, <2>4 DEF QueueInv, QueueTypeOK, NothingLost
<1>9. CASE ClearQueue
  <2>1. ToSet(<<>>) = {} /\ IsInjective(<<>>) /\ <<>> \in Seq(Mutation)
    BY DEF ToSet, IsInjective
  <2>2. /\ queue' = <<>> /\ forgotten' = forgotten \cup ToSet(queue)
        /\ UNCHANGED <<replay, applied, told, discarded, unheard>>
    BY <1>9 DEF ClearQueue
  <2>3. \A f \in Flush : IsTrue(replay'[f], told', applied')
    BY <2>2 DEF QueueInv, IsTrue
  <2>. QED
    BY <2>1, <2>2, <2>3 DEF QueueInv, QueueTypeOK, NothingLost, Notifying
<1>10. CASE Stop
  <2>1. /\ replay' = [f \in Flush |-> NoReplay] /\ unheard' = unheard \cup Notifying
        /\ UNCHANGED <<queue, applied, told, discarded, forgotten>>
    BY <1>10 DEF Stop
  <2>2. Notifying \subseteq told
    <3>1. \A f \in Flush : replay[f].pc = "notifying" => Head(replay[f].todo) \in told
      BY HeadAndRest
    <3>. QED
      BY <3>1 DEF Notifying
  <2>3. \A f \in Flush : IsTrue(NoReplay, told', applied') /\ replay'[f] = NoReplay
    BY <2>1, IdleReplay DEF IsTrue
  <2>4. \A f \in Flush : IsTrue(replay'[f], told', applied')
    BY <2>3 DEF IsTrue
  <2>. QED
    BY <2>1, <2>2, <2>4, IdleReplay DEF QueueInv, QueueTypeOK, NothingLost
<1>11. CASE UNCHANGED queueVars
  BY <1>11 DEF queueVars, QueueInv, QueueTypeOK, NothingLost, Notifying, IsTrue
<1>. QED
  BY <1>1, <1>2, <1>4, <1>5, <1>6, <1>7, <1>8, <1>9, <1>10, <1>11 DEF QueueNext

\* However replays overlap, answers get lost, pages close, users log out and the
\* worker is stopped, a deletion the user was told of is done, still queued,
\* refused for good, or given up at a logout.
THEOREM NoDeletionIsLost == QueueSpec => []NothingLost
BY QueueInitially, QueueStep, PTL DEF QueueSpec, QueueInv
==============================================================================
