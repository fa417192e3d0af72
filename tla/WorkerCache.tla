------------------------------ MODULE WorkerCache ------------------------------
(***************************************************************************)
(* What the service worker keeps of a user's data (sw.js): answers to GETs *)
(* go into the API cache, to be served when the network fails, and logging *)
(* out deletes that cache from the page (options-admin.tsx).  A handler    *)
(* opens the cache before it asks the network; once that cache is deleted, *)
(* what it puts goes to a cache that nobody opens again.  A navigation     *)
(* asks for the tree ahead of the page, and the next request for the tree  *)
(* takes that answer, whoever makes it.                                    *)
(***************************************************************************)
EXTENDS Naturals, FiniteSets

CONSTANTS
    User,
    NoSession,  \* no session, or nothing kept
    Job,        \* requests that the worker handles at a time
    MaxDeletes  \* bound: deletions of the cache

ASSUME WorkerCacheAssumption == NoSession \notin User /\ MaxDeletes \in Nat

VARIABLES
    cookie,     \* the user of the browser's session
    apiCache,   \* the API cache: which one it is, and whose answers it holds
    job,        \* each request that is handled
    treePreload,\* the answer to the tree that a navigation asked for
    leaving,    \* whose page is logging out
    gone        \* users that have logged out completely

workerCacheVars == <<cookie, apiCache, job, treePreload, leaving, gone>>

MaybeUser == User \cup {NoSession}
Kind == {"data", "tree", "icon"}
Kept == [of : MaybeUser, early : BOOLEAN]   \* early: by a navigation's request
Nothing == [of |-> NoSession, early |-> FALSE]
Unhandled == [pc |-> "idle", kind |-> "data", cache |-> 0, answer |-> Nothing]
NoAnswer == [pc |-> "none", of |-> NoSession]

WorkerCacheTypeOK ==
    /\ cookie \in MaybeUser /\ leaving \in MaybeUser /\ gone \subseteq User
    /\ apiCache \in [number : 0 .. MaxDeletes, entries : [Kind -> Kept]]
    /\ job \in [Job -> [pc : {"idle", "asking", "putting"}, kind : Kind,
                             cache : 0 .. MaxDeletes, answer : Kept]]
    /\ treePreload \in [pc : {"none", "asking", "answered"}, of : MaybeUser]

WorkerCacheInit ==
    /\ cookie = NoSession /\ leaving = NoSession /\ gone = {}
    /\ apiCache = [number |-> 0, entries |-> [k \in Kind |-> Nothing]]
    /\ job = [j \in Job |-> Unhandled]
    /\ treePreload = NoAnswer

JobAt(j, pc) == job[j].pc = pc
Opened == [Unhandled EXCEPT !.cache = apiCache.number]
Preloaded(kind) == kind = "tree" /\ treePreload # NoAnswer

\* A session begins, or ends without a logout.
LogIn(u) ==
    /\ cookie = NoSession
    /\ cookie' = u
    /\ gone' = gone \ {u}
    /\ UNCHANGED <<apiCache, job, treePreload, leaving>>

SessionExpires ==
    /\ cookie # NoSession
    /\ cookie' = NoSession
    /\ UNCHANGED <<apiCache, job, treePreload, leaving, gone>>

\* logout: POST /api/logout ends the session ...
PostLogout ==
    /\ cookie # NoSession /\ leaving = NoSession
    /\ leaving' = cookie
    /\ cookie' = NoSession
    /\ UNCHANGED <<apiCache, job, treePreload, gone>>

\* ... then the page deletes the cache ...
DeleteCache ==
    /\ leaving # NoSession
    /\ apiCache.number < MaxDeletes
    /\ apiCache' = [number |-> apiCache.number + 1, entries |-> [k \in Kind |-> Nothing]]
    /\ gone' = IF cookie = leaving THEN gone ELSE gone \cup {leaving}
    /\ leaving' = NoSession
    /\ UNCHANGED <<cookie, job, treePreload>>

\* ... unless it is closed in between.
LogoutCut ==
    /\ leaving # NoSession
    /\ leaving' = NoSession
    /\ UNCHANGED <<cookie, apiCache, job, treePreload, gone>>

\* The fetch listener: the handler of a GET opens the cache, and for the tree
\* takes what a navigation asked for (treeWithInlineFavicons), if it is there.
Handle(j, kind) ==
    /\ JobAt(j, "idle")
    /\ ~Preloaded(kind)
    /\ job' = [job EXCEPT ![j] = [Opened EXCEPT !.pc = "asking", !.kind = kind]]
    /\ UNCHANGED <<cookie, apiCache, treePreload, leaving, gone>>

HandlePreloaded(j) ==
    /\ JobAt(j, "idle")
    /\ Preloaded("tree")
    /\ LET taken == [Opened EXCEPT !.kind = "tree",
                                   !.answer = [of |-> treePreload.of, early |-> TRUE]]
       IN  job' = [job EXCEPT ![j] =
                     CASE treePreload.pc = "asking"  -> [taken EXCEPT !.pc = "asking"]
                       [] treePreload.of # NoSession    -> [taken EXCEPT !.pc = "putting"]
                       [] OTHER                      -> Unhandled]
    /\ treePreload' = NoAnswer
    /\ UNCHANGED <<cookie, apiCache, leaving, gone>>

\* The network answers networkFirst, staleWhileRevalidate or the tree's request;
\* without a session it is a 401, which is passed on and not kept.
NetworkAnswers(j) ==
    /\ JobAt(j, "asking")
    /\ job' = IF cookie = NoSession THEN [job EXCEPT ![j] = Unhandled]
              ELSE [job EXCEPT ![j].pc = "putting", ![j].answer.of = cookie]
    /\ UNCHANGED <<cookie, apiCache, treePreload, leaving, gone>>

\* The network fails: what the cache holds is served, and nothing changes.
NetworkFails(j) ==
    /\ JobAt(j, "asking")
    /\ job' = [job EXCEPT ![j] = Unhandled]
    /\ UNCHANGED <<cookie, apiCache, treePreload, leaving, gone>>

\* After the tree, its icons are fetched into the same cache.
NextJob(j) == IF job[j].kind = "tree"
              THEN [job[j] EXCEPT !.pc = "asking", !.kind = "icon", !.answer = Nothing]
              ELSE Unhandled

\* Faulty: the cache is opened when there is something to put.
PutInOpenedNow(j) ==
    /\ JobAt(j, "putting")
    /\ apiCache' = [apiCache EXCEPT !.entries[job[j].kind] = job[j].answer]
    /\ job' = [job EXCEPT ![j] = NextJob(j)]
    /\ UNCHANGED <<cookie, treePreload, leaving, gone>>

\* cache.put, into the cache that was opened.
PutAnswer(j) ==
    /\ JobAt(j, "putting")
    /\ apiCache' = IF job[j].cache = apiCache.number
                   THEN [apiCache EXCEPT !.entries[job[j].kind] = job[j].answer]
                   ELSE apiCache
    /\ job' = [job EXCEPT ![j] = NextJob(j)]
    /\ UNCHANGED <<cookie, treePreload, leaving, gone>>

\* shell: a navigation to the dashboard asks for the tree.
NavigateShell ==
    /\ treePreload' = [pc |-> "asking", of |-> NoSession]
    /\ UNCHANGED <<cookie, apiCache, job, leaving, gone>>

PreloadAnswers ==
    /\ treePreload.pc = "asking"
    /\ treePreload' = [pc |-> "answered", of |-> cookie]
    /\ UNCHANGED <<cookie, apiCache, job, leaving, gone>>

\* The worker stops: what it handled and the preload are lost.
CacheWorkerStops ==
    /\ job' = [j \in Job |-> Unhandled]
    /\ treePreload' = NoAnswer
    /\ UNCHANGED <<cookie, apiCache, leaving, gone>>

WorkerCacheNext ==
    \/ \E u \in User : LogIn(u)
    \/ SessionExpires \/ PostLogout \/ DeleteCache \/ LogoutCut
    \/ \E j \in Job :
          \/ \E kind \in Kind : Handle(j, kind)
          \/ HandlePreloaded(j) \/ NetworkAnswers(j) \/ NetworkFails(j) \/ PutAnswer(j)
    \/ NavigateShell \/ PreloadAnswers \/ CacheWorkerStops

WorkerCacheSpec == WorkerCacheInit /\ [][WorkerCacheNext]_workerCacheVars

------------------------------------------------------------------------------
(* Properties *)

\* A logout that is complete leaves nothing of the user in the cache that later
\* users of the browser are served from, whatever requests were on their way;
\* only a tree that a navigation asked for can still come.
LogoutForgets ==
    \A k \in Kind : LET kept == apiCache.entries[k]
                    IN  kept.of \in gone => kept.early
==============================================================================
