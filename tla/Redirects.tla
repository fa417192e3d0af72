------------------------------- MODULE Redirects -------------------------------
(***************************************************************************)
(* What feed fetches learn from redirects (parseUrl and parseGenericFeed   *)
(* in feed-parser.ts, redirect-map.ts, updateSourceUrl): the target of a   *)
(* temporary redirect goes into a Redis map for a day and is fetched       *)
(* instead of the URL; a permanent one is written into the subscribed      *)
(* source.  The origin may change its redirects between two fetches, and    *)
(* what the HTTP client keeps in its cache answers with the URL where the  *)
(* chain ended when it was kept.                                           *)
(***************************************************************************)
EXTENDS Naturals, FiniteSets

CONSTANTS
    Url,
    HopsOf(_),  \* what each URL may answer: Here, or a redirect
    Cacheable,  \* the URLs whose responses may be kept
    Sources,    \* the URLs of the sources at the start
    Ttl,        \* 24 hours, in ticks
    MaxHops     \* 5 redirects

Here == [to |-> "here", permanent |-> FALSE]
Hop == [to : Url, permanent : BOOLEAN] \cup {Here}

ASSUME RedirectsAssumption ==
    /\ IsFiniteSet(Url)
    /\ \A u \in Url : HopsOf(u) \subseteq Hop
    /\ Sources \subseteq Url /\ Cacheable \subseteq Url
    /\ Ttl \in Nat \ {0} /\ MaxHops \in Nat

VARIABLES
    hops,       \* what the origin answers for each URL
    sources,    \* the URLs of the table sources
    map,        \* redirect_map: the target and the ticks until it expires
    kept,       \* http-cache: where the chain from a URL ended, and whether it is fresh
    fetch,      \* the fetch under way
    calm        \* ticks, up to a bound, since the origin has changed or a response
                \* was kept that it has made outdated

redirectVars == <<hops, sources, map, kept, fetch, calm>>

NoEntry == [to |-> "none", ttl |-> 0]
NoResponse == [to |-> "none", fresh |-> FALSE]
NoFetch == [pc |-> "idle"]
MaxCalm == 2 * Ttl

RedirectsTypeOK ==
    /\ \A u \in Url : hops[u] \in HopsOf(u)
    /\ sources \subseteq Url
    /\ map \in [Url -> [to : Url, ttl : 1 .. Ttl] \cup {NoEntry}]
    /\ kept \in [Cacheable -> [to : Url, fresh : BOOLEAN] \cup {NoResponse}]
    /\ fetch = NoFetch \/ fetch.pc \in {"fetching", "first", "second"}
    /\ calm \in 0 .. MaxCalm

RedirectsInit ==
    /\ hops \in {h \in [Url -> Hop] : \A u \in Url : h[u] \in HopsOf(u)}
    /\ sources = Sources
    /\ map = [u \in Url |-> NoEntry]
    /\ kept = [u \in Cacheable |-> NoResponse]
    /\ fetch = NoFetch
    /\ calm = 0

\* fetchFollowingRedirects: the chain from u in h, and whether it ends.
Chain(h, u) ==
    LET walk[n \in 0 .. MaxHops + 1] ==
          IF n = 0 THEN u
          ELSE IF h[walk[n - 1]] = Here THEN walk[n - 1] ELSE h[walk[n - 1]].to
    IN walk
Ends(h, u) == h[Chain(h, u)[MaxHops]] = Here
Final(h, u) == Chain(h, u)[MaxHops]
Permanent(h, u) ==
    /\ Final(h, u) # u
    /\ \A n \in 0 .. MaxHops : h[Chain(h, u)[n]] = Here \/ h[Chain(h, u)[n]].permanent

\* Somebody previews u, or the source u is due: the map is asked first.
StartFetch(u) ==
    /\ fetch = NoFetch
    /\ fetch' = [pc |-> "fetching", original |-> u,
                 fetched |-> IF map[u] = NoEntry THEN u ELSE map[u].to]
    /\ UNCHANGED <<hops, sources, map, kept, calm>>

\* Faulty: the target is remembered for the original URL whether or not this
\* fetch was redirected.
LearnAnyhow(final, permanent) ==
    fetch' = IF final = fetch.original THEN NoFetch
             ELSE [pc |-> "second", original |-> fetch.original, fetched |-> fetch.fetched,
                   final |-> final, permanent |-> permanent, seen |-> hops]

\* The response says where it comes from; a redirect is there to be remembered.
Learn(final, permanent) ==
    fetch' = IF final = fetch.fetched THEN NoFetch
             ELSE [pc |-> "first", original |-> fetch.original, fetched |-> fetch.fetched,
                   final |-> final, permanent |-> permanent, seen |-> hops]

\* The response kept for the URL being fetched, if any.
Known == IF fetch.fetched \in Cacheable THEN kept[fetch.fetched] ELSE NoResponse

\* saveCached, or del.
Keep(response) ==
    kept' = [u \in Cacheable |-> IF u = fetch.fetched THEN response ELSE kept[u]]

\* The feed arrives from where the chain ends (too many redirects are an error),
\* and is kept if it has a lifetime or a validator.
Fetched ==
    /\ fetch.pc = "fetching" /\ Ends(hops, fetch.fetched)
    /\ LET final == Final(hops, fetch.fetched)
       IN /\ Learn(final, Permanent(hops, fetch.fetched))
          /\ \E r \in [to : {final}, fresh : BOOLEAN] \cup {NoResponse} : Keep(r)
    /\ UNCHANGED <<hops, sources, map, calm>>

\* The response that is kept is fresh, and nobody asks the origin.
Hit ==
    /\ fetch.pc = "fetching" /\ Known # NoResponse /\ Known.fresh
    /\ Learn(Known.to, FALSE)
    /\ UNCHANGED <<hops, sources, map, kept, calm>>

\* 304, from wherever the chain ends now: the answer is the response that is
\* kept, with the URL where the chain ended then.
NotModified ==
    /\ fetch.pc = "fetching" /\ Known # NoResponse /\ Ends(hops, fetch.fetched)
    /\ Learn(Known.to, FALSE)
    /\ \E r \in [to : {Known.to}, fresh : BOOLEAN] \cup {NoResponse} : Keep(r)
    /\ UNCHANGED <<hops, sources, map, calm>>

\* rememberRedirect: updateSourceUrl, where a source that has the URL already
\* is a conflict, or setRedirect.
Remember(from) ==
    IF fetch.permanent
    THEN /\ sources' = IF from \in sources /\ fetch.final \notin sources
                       THEN (sources \ {from}) \cup {fetch.final} ELSE sources
         /\ UNCHANGED map
    ELSE /\ map' = [map EXCEPT ![from] = [to |-> fetch.final, ttl |-> Ttl]]
         /\ UNCHANGED sources

RememberFetched ==
    /\ fetch.pc = "first"
    /\ Remember(fetch.fetched)
    /\ fetch' = IF fetch.original = fetch.fetched THEN NoFetch
                ELSE [fetch EXCEPT !.pc = "second"]
    /\ UNCHANGED <<hops, kept, calm>>

RememberOriginal ==
    /\ fetch.pc = "second"
    /\ Remember(fetch.original)
    /\ fetch' = NoFetch
    /\ UNCHANGED <<hops, kept, calm>>

\* An error on the way, or a crash.
FetchFails ==
    /\ fetch # NoFetch
    /\ fetch' = NoFetch
    /\ UNCHANGED <<hops, sources, map, kept, calm>>

\* An administrator removes a mapping.
RemoveRedirect(u) ==
    /\ map[u] # NoEntry
    /\ map' = [map EXCEPT ![u] = NoEntry]
    /\ UNCHANGED <<hops, sources, kept, fetch, calm>>

\* The origin changes a redirect.
OriginChanges(u) ==
    /\ \E h \in HopsOf(u) \ {hops[u]} : hops' = [hops EXCEPT ![u] = h]
    /\ calm' = 0
    /\ UNCHANGED <<sources, map, kept, fetch>>

\* A response that is kept is no longer fresh, or Redis drops it.
ResponseAges(u) ==
    /\ kept[u] # NoResponse
    /\ \E r \in {[kept[u] EXCEPT !.fresh = FALSE], NoResponse} \ {kept[u]} :
          kept' = [kept EXCEPT ![u] = r]
    /\ UNCHANGED <<hops, sources, map, fetch, calm>>

\* A response that the origin has made outdated since it was kept.
Outdated(u) ==
    /\ kept[u] # NoResponse
    /\ ~(Ends(hops, u) /\ kept[u].to = Final(hops, u))

\* A fetch takes no time on the scale of the map's expiry.
RedirectTick ==
    /\ fetch = NoFetch
    /\ map' = [u \in Url |-> IF map[u].ttl <= 1 THEN NoEntry
                             ELSE [map[u] EXCEPT !.ttl = @ - 1]]
    /\ calm' = IF \E u \in Cacheable : Outdated(u) THEN 0
               ELSE IF calm < MaxCalm THEN calm + 1 ELSE calm
    /\ UNCHANGED <<hops, sources, kept, fetch>>

RedirectsNext ==
    \/ \E u \in Url : StartFetch(u) \/ RemoveRedirect(u) \/ OriginChanges(u)
    \/ \E u \in Cacheable : ResponseAges(u)
    \/ Fetched \/ Hit \/ NotModified
    \/ RememberFetched \/ RememberOriginal \/ FetchFails \/ RedirectTick

RedirectsSpec == RedirectsInit /\ [][RedirectsNext]_redirectVars

------------------------------------------------------------------------------
(* Properties *)

\* A redirect that the origin has taken back is forgotten: two lifetimes after
\* the origin's last change, and after the last response from before it that
\* is kept, what the map still holds is where a fetch of the URL itself would
\* end.  (One lifetime is not enough: the target may redirect in its turn, and
\* that refreshes the entry once.  As long as the cache keeps an outdated
\* response, which the origin may go on confirming, it can write the entry anew.)
StaleRedirectsExpire ==
    calm >= 2 * Ttl => \A u \in Url : map[u] = NoEntry \/ map[u].to = Final(hops, u)

\* "a single temporary hop anywhere means the resolved URL could still change
\* back, so the chain can't be trusted as permanent" (http-client.ts): a source
\* moves only along a chain of permanent redirects.
MovesArePermanent ==
    [][\A u \in sources \ sources' : Permanent(fetch.seen, u)]_redirectVars
==============================================================================
