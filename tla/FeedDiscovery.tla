----------------------------- MODULE FeedDiscovery -----------------------------
(***************************************************************************)
(* The form that finds, previews, subscribes to and edits a feed           *)
(* (feed-discovery.tsx), with the routes behind it (find.ts, preview.ts,   *)
(* subscribe.ts) and the cache of previews that a subscription is seeded   *)
(* from (feed-preview-cache.ts).  Searches and previews share a counter:   *)
(* only the answer to the latest of them is used.  A submission does not   *)
(* take part in that, though it shares the loading flag, and the feeds     *)
(* that were found can be clicked while anything is loading.               *)
(***************************************************************************)
EXTENDS Naturals, FiniteSets

CONSTANTS
    Feed,           \* feed addresses
    NoFeed,         \* an empty field
    CacheTtl,       \* ttlMs of the cache, in ticks
    MaxRequests,    \* bound: searches and previews
    MaxSubmits      \* bound: submissions

ASSUME DiscoveryAssumption ==
    NoFeed \notin Feed /\ {CacheTtl, MaxSubmits} \subseteq Nat /\ MaxRequests \in Nat \ {0}

VARIABLES
    form,       \* the fields, the feeds found and the preview that is shown
    loading,    \* the flag that disables the buttons
    latest,     \* latestRequest
    wanted,     \* the feed whose preview was asked for last
    requests,   \* searches and previews on their way, by number
    submits,    \* submissions on their way
    cache,      \* the user's previews: ticks until each expires
    editing,    \* is an existing subscription edited?
    open        \* is the form there?  (~disposed)

discoveryVars == <<form, loading, latest, wanted, requests, submits, cache, editing, open>>

MaybeFeed == Feed \cup {NoFeed}
Request == [n : 1 .. MaxRequests, kind : {"find", "preview"}, feed : MaybeFeed,
            state : {"asked", "answered", "failed"}]
Submit == [n : 1 .. MaxSubmits, feed : MaybeFeed, seeded : BOOLEAN,
           state : {"asked", "answered", "failed"}]
EmptyForm == [feed |-> NoFeed, titled |-> FALSE, found |-> {}, shown |-> NoFeed,
              folders |-> "loading"]

DiscoveryTypeOK ==
    /\ form \in [feed : MaybeFeed, titled : BOOLEAN, found : SUBSET Feed, shown : MaybeFeed,
                 folders : {"loading", "loaded", "failed"}]
    /\ loading \in BOOLEAN /\ editing \in BOOLEAN /\ open \in BOOLEAN
    /\ latest \in 0 .. MaxRequests + 1
    /\ wanted \in MaybeFeed
    /\ requests \subseteq Request /\ submits \subseteq Submit
    /\ cache \in [Feed -> 0 .. CacheTtl]

\* onMount: the feed that is edited, or the feed of the link that was followed,
\* whose preview is loaded, or an empty form.
DiscoveryInit ==
    /\ open = TRUE
    /\ cache \in [Feed -> {0, CacheTtl}]
    /\ submits = {}
    /\ \E f \in MaybeFeed :
          /\ editing \in (IF f = NoFeed THEN {FALSE} ELSE BOOLEAN)
          /\ LET asks == f # NoFeed /\ ~editing
             IN  /\ form = [EmptyForm EXCEPT !.feed = f, !.titled = editing]
                 /\ loading = asks
                 /\ latest = IF asks THEN 1 ELSE 0
                 /\ wanted = IF asks THEN f ELSE NoFeed
                 /\ requests = IF asks THEN {[n |-> 1, kind |-> "preview", feed |-> f,
                                              state |-> "asked"]}
                               ELSE {}

FormAlone == UNCHANGED <<loading, latest, wanted, requests, submits, cache, editing, open>>

------------------------------------------------------------------------------
(* The form *)

\* Typing into the feed's address or title, possible while anything loads; the
\* address of a subscription that is edited is locked.
Type ==
    /\ open
    /\ \/ ~editing /\ \E f \in MaybeFeed : form' = [form EXCEPT !.feed = f]
       \/ \E titled \in BOOLEAN : form' = [form EXCEPT !.titled = titled]
    /\ FormAlone

\* The folders for the menu arrive, or fail to.
FoldersLoad ==
    /\ open /\ form.folders = "loading"
    /\ \E state \in {"loaded", "failed"} : form' = [form EXCEPT !.folders = state]
    /\ FormAlone

AskLatest(kind, f) ==
    /\ latest < MaxRequests
    /\ latest' = latest + 1
    /\ loading' = TRUE
    /\ requests' = requests \cup {[n |-> latest + 1, kind |-> kind, feed |-> f,
                                   state |-> "asked"]}

\* findFeeds: the feeds of an earlier search stay on the screen.
FindFeeds ==
    /\ open /\ ~editing /\ ~loading
    /\ AskLatest("find", NoFeed)
    /\ UNCHANGED <<form, wanted, submits, cache, editing, open>>

\* preview: of the address in the form, unless something is loading, or of a
\* feed that was found, whatever is loading.
Preview(f) ==
    /\ open /\ ~editing
    /\ f \in form.found \/ (~loading /\ f = form.feed)
    /\ AskLatest("preview", f)
    /\ wanted' = f
    /\ form' = [form EXCEPT !.shown = NoFeed, !.titled = FALSE]
    /\ UNCHANGED <<submits, cache, editing, open>>

\* submit: what the form holds at the click.
SubmitForm ==
    /\ open /\ ~loading
    /\ form.feed # NoFeed /\ form.titled
    /\ Cardinality(submits) < MaxSubmits
    /\ loading' = TRUE
    /\ \E n \in 1 .. MaxSubmits :
          /\ \A s \in submits : s.n # n
          /\ submits' = submits \cup {[n |-> n, feed |-> form.feed, seeded |-> FALSE,
                                       state |-> "asked"]}
    /\ UNCHANGED <<form, latest, wanted, requests, cache, editing, open>>

\* Cancel, or the dashboard takes the form away.
CloseForm ==
    /\ open
    /\ open' = FALSE
    /\ latest' = latest + 1
    /\ UNCHANGED <<form, loading, wanted, requests, submits, cache, editing>>

IsLatest(r) == r.n = latest
Finished(r) ==
    /\ requests' = requests \ {r}
    /\ loading' = IF IsLatest(r) THEN FALSE ELSE loading
    /\ UNCHANGED <<latest, wanted, submits, cache, editing, open>>

\* The feeds that a search found, or its failure, which leaves the feeds of the
\* search before.
FoundArrives(r) ==
    /\ r \in requests /\ r.kind = "find" /\ r.state # "asked"
    /\ IF IsLatest(r) /\ r.state = "answered"
       THEN \E found \in SUBSET Feed \ {{}} : form' = [form EXCEPT !.found = found]
       ELSE UNCHANGED form
    /\ Finished(r)

PreviewShown(r) ==
    form' = [form EXCEPT !.feed = r.feed, !.titled = TRUE, !.shown = r.feed, !.found = {}]

\* Faulty: the answer to a request that was superseded is shown.
PreviewArrivesLate(r) ==
    /\ r \in requests /\ r.kind = "preview" /\ r.state # "asked"
    /\ IF r.state = "answered" THEN PreviewShown(r) ELSE UNCHANGED form
    /\ Finished(r)

\* A preview, or its failure.
PreviewArrives(r) ==
    /\ r \in requests /\ r.kind = "preview" /\ r.state # "asked"
    /\ IF IsLatest(r) /\ r.state = "answered" THEN PreviewShown(r) ELSE UNCHANGED form
    /\ Finished(r)

\* A submission is answered: saved() closes the form, even if it is gone, or
\* the error is shown; the flag is reset, whatever else is loading.
SubmitArrives(s) ==
    /\ s \in submits /\ s.state # "asked"
    /\ submits' = submits \ {s}
    /\ loading' = FALSE
    /\ open' = (open /\ s.state = "failed")
    /\ latest' = IF open /\ ~open' THEN latest + 1 ELSE latest
    /\ UNCHANGED <<form, wanted, requests, cache, editing>>

------------------------------------------------------------------------------
(* The server *)

ServedAs(r, state) == requests' = (requests \ {r}) \cup {[r EXCEPT !.state = state]}
ClientAlone == UNCHANGED <<form, loading, latest, wanted, editing, open>>

\* getFindHandler: the site's feeds, each parsed to see whether it has a hub;
\* none, a deferral or an error is a failure.
ServeFind(r) ==
    /\ r \in requests /\ r.kind = "find" /\ r.state = "asked"
    /\ \E state \in {"answered", "failed"} : ServedAs(r, state)
    /\ ClientAlone /\ UNCHANGED <<submits, cache>>

\* getPreviewHandler: the preview is saved under the address that was asked for.
ServePreview(r) ==
    /\ r \in requests /\ r.kind = "preview" /\ r.state = "asked"
    /\ \/ ServedAs(r, "failed") /\ UNCHANGED cache
       \/ /\ r.feed # NoFeed
          /\ ServedAs(r, "answered")
          /\ \/ cache' = [cache EXCEPT ![r.feed] = CacheTtl]
             \/ UNCHANGED cache
    /\ ClientAlone /\ UNCHANGED submits

\* postSubscribeHandler seeds the subscription from the user's preview of that
\* address, if Redis has one; postSourceHandler changes one that exists.
ServeSubmit(s) ==
    /\ s \in submits /\ s.state = "asked"
    /\ \E state \in {"answered", "failed"}, seeded \in BOOLEAN :
          /\ seeded => state = "answered" /\ ~editing /\ cache[s.feed] > 0
          /\ submits' = (submits \ {s}) \cup {[s EXCEPT !.state = state, !.seeded = seeded]}
    /\ ClientAlone /\ UNCHANGED <<requests, cache>>

\* Time passes for the cache.
CacheTick ==
    /\ \E f \in Feed : cache[f] > 0
    /\ cache' = [f \in Feed |-> IF cache[f] = 0 THEN 0 ELSE cache[f] - 1]
    /\ ClientAlone /\ UNCHANGED <<requests, submits>>

DiscoveryNext ==
    \/ Type \/ FoldersLoad \/ FindFeeds \/ (\E f \in MaybeFeed : Preview(f)) \/ SubmitForm
    \/ CloseForm
    \/ \E r \in requests : FoundArrives(r) \/ PreviewArrives(r) \/ ServeFind(r)
                              \/ ServePreview(r)
    \/ \E s \in submits : SubmitArrives(s) \/ ServeSubmit(s)
    \/ CacheTick

DiscoverySpec == DiscoveryInit /\ [][DiscoveryNext]_discoveryVars

------------------------------------------------------------------------------
(* Properties *)

\* Whatever order searches, previews and submissions are answered in, the
\* articles in the form are those of the feed whose preview was asked for last,
\* so the preview of a feed that was clicked before never replaces it.
PreviewIsWanted == form.shown \in {NoFeed, wanted}
==============================================================================
