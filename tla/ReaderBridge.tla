----------------------------- MODULE ReaderBridge ------------------------------
(***************************************************************************)
(* Reader mode: the page's bridge posts a request to the content script,   *)
(* the script hands it to the extension's worker, and the worker answers,  *)
(* for an article after it fetched the document itself (extension-         *)
(* reader.ts, content-script.ts, background-event.ts, reader-fetch.ts).    *)
(* The page and the worker each have a timer, and the worker may be        *)
(* stopped.                                                                *)
(***************************************************************************)
EXTENDS Naturals, FiniteSets

CONSTANTS
    Reading,        \* requests of the page
    Article,        \* those that fetch a document; the others ask whether
                    \* there is an extension (available)
    PageTimeout,    \* responseTimeoutMs, in ticks
    AbortAfter,     \* timeoutMs of the worker
    MaxLag,         \* what messages and the start of a worker may take
    MaxRedirects,   \* maximumRedirects
    MaxChunks       \* maximumBytes, in chunks of the body

ASSUME BridgeAssumption ==
    /\ Article \subseteq Reading
    /\ {PageTimeout, AbortAfter, MaxLag, MaxRedirects, MaxChunks} \subseteq Nat
    /\ AbortAfter + MaxLag < PageTimeout

VARIABLES
    installed,  \* is there a content script in the page?
    instance,   \* the instance that the extension is configured for
    ask,        \* each request on its way
    promise,    \* what the page got for each: "none" before it asked
    disposed    \* has the page disposed of the bridge?

bridgeVars == <<installed, instance, ask, promise, disposed>>

FetchError == {"INVALID_URL", "PRIVATE_URL", "INVALID_RESPONSE", "TOO_MANY_REDIRECTS",
               "FETCH_FAILED", "NOT_HTML", "TOO_LARGE", "TIMEOUT"}
Answer == FetchError \cup {"html", "capable", "UNAVAILABLE", "UNAUTHORIZED"}
Outcome == {"none", "pending", "no answer", "disposed", "text", "content", "no article"}
               \cup Answer
AskPlace == {"home", "script", "worker", "fetching", "reading", "answered"}
NotAsked == [pc |-> "home", answer |-> "UNAVAILABLE", age |-> 0, lag |-> 0, took |-> 0,
             redirects |-> 0, chunks |-> 0]

BridgeTypeOK ==
    /\ installed \in BOOLEAN /\ disposed \in BOOLEAN
    /\ instance \in {"none", "this", "other"}
    /\ ask \in [Reading -> [pc : AskPlace, answer : Answer, age : 0 .. PageTimeout,
                            lag : 0 .. MaxLag, took : 0 .. AbortAfter,
                            redirects : 0 .. MaxRedirects, chunks : 0 .. MaxChunks]]
    /\ promise \in [Reading -> Outcome]

BridgeInit ==
    /\ installed \in BOOLEAN
    /\ instance \in {"none", "this", "other"}
    /\ ask = [r \in Reading |-> NotAsked]
    /\ promise = [r \in Reading |-> "none"]
    /\ disposed = FALSE

AskAt(r, pc) == ask[r].pc = pc
AnswerWith(r, answer) ==
    ask' = [ask EXCEPT ![r].pc = "answered", ![r].answer = answer]
Settle(r, outcome) == promise' = [promise EXCEPT ![r] = outcome]
Elsewhere == UNCHANGED <<installed, instance, promise, disposed>>

------------------------------------------------------------------------------
(* The page: createExtensionReaderBridge *)

\* send: the request is pending, its timer runs, and it is posted.
SendRequest(r) ==
    /\ promise[r] = "none"
    /\ ~disposed
    /\ Settle(r, "pending")
    /\ ask' = IF installed THEN [ask EXCEPT ![r].pc = "script"] ELSE ask
    /\ UNCHANGED <<installed, instance, disposed>>

\* receive: an answer to a request that is no longer pending is ignored.
ReceiveAnswer(r) ==
    /\ AskAt(r, "answered")
    /\ ask' = [ask EXCEPT ![r] = NotAsked]
    /\ IF promise[r] = "pending" /\ ~disposed THEN Settle(r, ask[r].answer)
       ELSE UNCHANGED promise
    /\ UNCHANGED <<installed, instance, disposed>>

\* The page's timer rings: UNAVAILABLE.
PageTimerRings(r) ==
    /\ promise[r] = "pending"
    /\ ask[r].age = PageTimeout
    /\ Settle(r, "no answer")
    /\ UNCHANGED <<installed, instance, ask, disposed>>

\* dispose rejects everything that is pending.
Dispose ==
    /\ ~disposed
    /\ disposed' = TRUE
    /\ promise' = [r \in Reading |-> IF promise[r] = "pending" THEN "disposed"
                                     ELSE promise[r]]
    /\ UNCHANGED <<installed, instance, ask>>

\* extractReaderContent: Readability gives markup or, in the plain mode, text;
\* the other extractor markup; either may find no article.
Extract(r) ==
    /\ promise[r] = "html"
    /\ \E outcome \in {"text", "content", "no article"} : Settle(r, outcome)
    /\ UNCHANGED <<installed, instance, ask, disposed>>

------------------------------------------------------------------------------
(* The content script and the worker *)

\* readerMessage of the content script: the request is passed on, or the
\* extension is gone (its context was invalidated) and the script says so.
Forward(r) ==
    /\ AskAt(r, "script")
    /\ \/ ask' = [ask EXCEPT ![r].pc = "worker"]
       \/ AnswerWith(r, "UNAVAILABLE")
    /\ Elsewhere

\* The worker stops with the request: chrome.runtime.lastError.
WorkerStops(r) ==
    /\ ask[r].pc \in {"worker", "fetching", "reading"}
    /\ AnswerWith(r, "UNAVAILABLE")
    /\ Elsewhere

\* authorizeSender, then the request for the extension's capabilities.
Authorize(r) ==
    /\ AskAt(r, "worker")
    /\ \/ instance = "none" /\ AnswerWith(r, "UNAVAILABLE")
       \/ instance = "other" /\ AnswerWith(r, "UNAUTHORIZED")
       \/ instance = "this" /\ r \notin Article /\ AnswerWith(r, "capable")
    /\ Elsewhere

\* validateArticleUrl: the address is refused, or the timer is set and the
\* first request is sent.
FetchDocument(r) ==
    /\ AskAt(r, "worker")
    /\ instance = "this" /\ r \in Article
    /\ \/ \E error \in {"INVALID_URL", "PRIVATE_URL"} : AnswerWith(r, error)
       \/ ask' = [ask EXCEPT ![r].pc = "fetching"]
    /\ Elsewhere

\* Faulty: each hop has a timer of its own.
FollowRestartsTimer(r) ==
    /\ AskAt(r, "fetching")
    /\ \/ ask[r].redirects = MaxRedirects /\ AnswerWith(r, "TOO_MANY_REDIRECTS")
       \/ /\ ask[r].redirects < MaxRedirects
          /\ \/ \E error \in {"INVALID_RESPONSE", "INVALID_URL", "PRIVATE_URL"} :
                   AnswerWith(r, error)
             \/ ask' = [ask EXCEPT ![r].redirects = @ + 1, ![r].took = 0]
    /\ Elsewhere

\* A redirect: too many, none to follow, refused, or followed.
Follow(r) ==
    /\ AskAt(r, "fetching")
    /\ \/ ask[r].redirects = MaxRedirects /\ AnswerWith(r, "TOO_MANY_REDIRECTS")
       \/ /\ ask[r].redirects < MaxRedirects
          /\ \/ \E error \in {"INVALID_RESPONSE", "INVALID_URL", "PRIVATE_URL"} :
                   AnswerWith(r, error)
             \/ ask' = [ask EXCEPT ![r].redirects = @ + 1]
    /\ Elsewhere

\* Any other response: an opaque redirect, an error, another type, a length
\* that is too large, or a document whose body is read.
Respond(r) ==
    /\ AskAt(r, "fetching")
    /\ \/ \E error \in {"INVALID_RESPONSE", "FETCH_FAILED", "NOT_HTML", "TOO_LARGE"} :
             AnswerWith(r, error)
       \/ ask' = [ask EXCEPT ![r].pc = "reading"]
    /\ Elsewhere

\* readBoundedHtml: a chunk, one too many, or the end.
ReadChunk(r) ==
    /\ AskAt(r, "reading")
    /\ \/ ask[r].chunks < MaxChunks /\ ask' = [ask EXCEPT ![r].chunks = @ + 1]
       \/ ask[r].chunks = MaxChunks /\ AnswerWith(r, "TOO_LARGE")
       \/ AnswerWith(r, "html")
    /\ Elsewhere

\* The connection breaks, or the worker's timer aborts it.
FetchBreaks(r) ==
    /\ ask[r].pc \in {"fetching", "reading"}
    /\ AnswerWith(r, IF ask[r].took = AbortAfter THEN "TIMEOUT" ELSE "FETCH_FAILED")
    /\ Elsewhere

\* Time passes: no timer that is due is overrun, and messages together take at
\* most MaxLag (bound).
Slow(r) == ask[r].pc \in {"fetching", "reading"}
Travelling(r) == ask[r].pc \in {"script", "worker", "answered"}
BridgeTick ==
    /\ \E r \in Reading : promise[r] = "pending"
    /\ \A r \in Reading :
          /\ promise[r] = "pending" => ask[r].age < PageTimeout
          /\ Slow(r) => ask[r].took < AbortAfter
          /\ Travelling(r) => ask[r].lag < MaxLag
    /\ ask' = [r \in Reading |->
                 [ask[r] EXCEPT !.age = IF promise[r] = "pending" THEN @ + 1 ELSE @,
                                !.took = IF Slow(r) THEN @ + 1 ELSE @,
                                !.lag = IF Travelling(r) THEN @ + 1 ELSE @]]
    /\ UNCHANGED <<installed, instance, promise, disposed>>

BridgeNext ==
    \/ \E r \in Reading :
          \/ SendRequest(r) \/ ReceiveAnswer(r) \/ PageTimerRings(r) \/ Extract(r)
          \/ Forward(r) \/ WorkerStops(r) \/ Authorize(r) \/ FetchDocument(r)
          \/ Follow(r) \/ Respond(r) \/ ReadChunk(r) \/ FetchBreaks(r)
    \/ Dispose \/ BridgeTick

BridgeSpec == BridgeInit /\ [][BridgeNext]_bridgeVars

------------------------------------------------------------------------------
(* Properties *)

\* The page gives a request up by its own timer only if no content script is
\* there: whatever redirects, slow bodies or a stopped worker it meets, an
\* extension that is there always answers first, with a reason of its own.
ServedBeforeTimeout ==
    \A r \in Reading : promise[r] = "no answer" => ~installed
==============================================================================
