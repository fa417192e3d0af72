------------------------------- MODULE HostGate -------------------------------
(***************************************************************************)
(* How requests to one host take their turns (HttpClient.reserve in        *)
(* http-client.ts): an interval key that lets one request through per      *)
(* feedDelayMs, a counter of interactive requests that wait for it, before *)
(* which background requests step back, and the block a 429 leaves.  Each  *)
(* command to Redis is a step, and a process may die between any two of    *)
(* them: the counter then keeps its increment, with or without an expiry.  *)
(* The counter may expire between a request's INCR and its EXPIRE, and a    *)
(* request whose INCR was rejected undoes it all the same: either way a    *)
(* DECR takes from the counter what was not added to it.                   *)
(***************************************************************************)
EXTENDS Integers, FiniteSets

CONSTANTS
    Caller,         \* requests to the host
    Interactive,    \* those somebody waits for
    Interval,       \* feedDelayMs, in ticks
    Patience,       \* interactiveWaitMs
    CounterTtl,     \* EXPIRE of the counter of waiters
    BlockTime,      \* what a Retry-After may ask for
    MaxAbandoned,   \* bound: increments that dead processes leave
    MaxLost         \* bound: DECRs of requests whose INCR was rejected

ASSUME GateAssumption ==
    /\ Interactive \subseteq Caller
    /\ Interval \in Nat \ {0}
    /\ Patience \in Nat \ {0}
    /\ CounterTtl \in Nat
    /\ Patience < CounterTtl
    /\ BlockTime \subseteq Nat \ {0}
    /\ IsFiniteSet(Caller)
    /\ MaxAbandoned \in Nat
    /\ MaxLost \in Nat

VARIABLES
    slot,       \* ticks until the interval key expires
    waiters,    \* the counter: does its key exist, its value, and the ticks
                \* until it expires, 0 without an expiry
    block,      \* ticks until the host's block is over
    call,       \* each request: where it is and how long it has waited
    ahead,      \* interactive requests that were waiting when a background
                \* request read the counter
    abandoned,  \* increments that were left
    lost        \* increments that the counter has lost or never got, of
                \* requests that count themselves among those who wait

gateVars == <<slot, waiters, block, call, ahead, abandoned, lost>>

Place == {"idle", "reading", "reserving", "expiring", "waiting", "leaving", "yielding",
          "undoing", "sent"}
Call == [pc : Place, waited : 0 .. Patience]
NoCounter == [there |-> FALSE, n |-> 0, ttl |-> 0]
NoCall == [pc |-> "idle", waited |-> 0]

GateTypeOK ==
    /\ slot \in 0 .. Interval
    /\ waiters \in [there : BOOLEAN,
                    n : -(Cardinality(Caller) + MaxLost) .. Cardinality(Caller) + MaxAbandoned,
                    ttl : 0 .. CounterTtl]
    /\ block \in {0} \cup UNION {0 .. b : b \in BlockTime}
    /\ call \in [Caller -> Call]
    /\ ahead \in [Caller -> SUBSET Interactive]
    /\ abandoned \in 0 .. MaxAbandoned
    /\ lost \in 0 .. Cardinality(Caller) + MaxLost

GateInit ==
    /\ slot = 0 /\ waiters = NoCounter /\ block = 0
    /\ call = [c \in Caller |-> NoCall]
    /\ ahead = [c \in Caller |-> {}]
    /\ abandoned = 0
    /\ lost = 0

At(c, place) == call[c].pc = place
CallTo(c, place) == call' = [call EXCEPT ![c].pc = place]

\* Interactive requests that the counter holds.
Counted == {c \in Interactive : call[c].pc \in {"expiring", "waiting"}}

\* What a request does from its INCR to its DECR.
Registered == {"expiring", "waiting", "leaving", "yielding"}

\* blockedUntil: a blocked host defers the request.
CheckBlock(c) ==
    /\ At(c, "idle")
    /\ block = 0
    /\ CallTo(c, IF c \in Interactive THEN "reserving" ELSE "reading")
    /\ UNCHANGED <<slot, waiters, block, ahead, abandoned, lost>>

\* Faulty: the counter is not read.
ReadNothing(c) ==
    /\ At(c, "reading")
    /\ ahead' = [ahead EXCEPT ![c] = Counted]
    /\ CallTo(c, "reserving")
    /\ UNCHANGED <<slot, waiters, block, abandoned, lost>>

\* A background request that reads waiters is deferred.
ReadWaiters(c) ==
    /\ At(c, "reading")
    /\ IF waiters.n > 0
       THEN CallTo(c, "idle") /\ UNCHANGED ahead
       ELSE CallTo(c, "reserving") /\ ahead' = [ahead EXCEPT ![c] = Counted]
    /\ UNCHANGED <<slot, waiters, block, abandoned, lost>>

\* reserveSlot has set the interval key.
TakeSlot(c) ==
    /\ call[c].pc \in {"reserving", "waiting"}
    /\ slot = 0
    /\ slot' = Interval
    /\ CallTo(c, IF At(c, "waiting") THEN "leaving" ELSE "sent")
    /\ UNCHANGED <<waiters, block, ahead, abandoned, lost>>

\* The key exists: a background request is deferred.
BackgroundDeferred(c) ==
    /\ c \notin Interactive
    /\ At(c, "reserving")
    /\ slot > 0
    /\ CallTo(c, "idle")
    /\ ahead' = [ahead EXCEPT ![c] = {}]
    /\ UNCHANGED <<slot, waiters, block, abandoned, lost>>

\* INCR, at an interactive request's first miss.
Register(c) ==
    /\ c \in Interactive
    /\ At(c, "reserving")
    /\ slot > 0
    /\ waiters' = [waiters EXCEPT !.there = TRUE, !.n = @ + 1]
    /\ CallTo(c, "expiring")
    /\ UNCHANGED <<slot, block, ahead, abandoned, lost>>

\* The INCR is rejected, when the request takes itself for a waiter already.
RegisterFails(c) ==
    /\ c \in Interactive
    /\ At(c, "reserving")
    /\ slot > 0
    /\ CallTo(c, "undoing")
    /\ UNCHANGED <<slot, waiters, block, ahead, abandoned, lost>>

\* EXPIRE; the counter may have gone since its INCR.
SetExpiry(c) ==
    /\ At(c, "expiring")
    /\ waiters' = [waiters EXCEPT !.ttl = IF waiters.there THEN CounterTtl ELSE 0]
    /\ CallTo(c, "waiting")
    /\ UNCHANGED <<slot, block, ahead, abandoned, lost>>

\* The reservation deadline: deferred.
GiveUp(c) ==
    /\ At(c, "waiting")
    /\ call[c].waited = Patience
    /\ CallTo(c, "yielding")
    /\ UNCHANGED <<slot, waiters, block, ahead, abandoned, lost>>

\* The answer of the INCR, or a later command, is an error, or the deadline of
\* the request is over; a SET may have been applied.
WaitFails(c) ==
    /\ call[c].pc \in {"expiring", "waiting"}
    /\ \/ slot' = slot
       \/ At(c, "waiting") /\ slot = 0 /\ slot' = Interval
    /\ CallTo(c, "yielding")
    /\ UNCHANGED <<waiters, block, ahead, abandoned, lost>>

\* c is not in front of anybody any more.
GoneFrom(c) == [b \in Caller |-> ahead[b] \ {c}]

\* DECR, in any case.  A counter that has come to 0 keeps its expiry.
Unregister(c) ==
    /\ call[c].pc \in {"leaving", "yielding", "undoing"}
    /\ At(c, "undoing") => lost < MaxLost
    /\ lost' = IF At(c, "undoing") THEN lost + 1 ELSE lost
    /\ waiters' = [waiters EXCEPT !.there = TRUE, !.n = @ - 1]
    /\ call' = [call EXCEPT ![c] = IF At(c, "leaving") THEN [NoCall EXCEPT !.pc = "sent"]
                                   ELSE NoCall]
    /\ ahead' = GoneFrom(c)
    /\ UNCHANGED <<slot, block, abandoned>>

\* The host answers; a 429 blocks it, for a longer or a shorter time than a
\* block that is there already.
HostAnswers(c) ==
    /\ At(c, "sent")
    /\ \E b \in BlockTime \cup {0} : block' = IF b = 0 THEN block ELSE b
    /\ call' = [call EXCEPT ![c] = NoCall]
    /\ ahead' = [ahead EXCEPT ![c] = {}]
    /\ UNCHANGED <<slot, waiters, abandoned, lost>>

\* The process dies, or a command fails after which nothing is undone (a first
\* GET or SET, the DECR itself): an increment is left.
CallerDies(c) ==
    /\ ~At(c, "idle")
    /\ call[c].pc \in Registered => abandoned < MaxAbandoned
    /\ abandoned' = IF call[c].pc \in Registered
                    THEN abandoned + 1 ELSE abandoned
    /\ call' = [call EXCEPT ![c] = NoCall]
    /\ ahead' = [GoneFrom(c) EXCEPT ![c] = {}]
    /\ UNCHANGED <<slot, waiters, block, lost>>

\* Only waiting takes time, except that INCR and EXPIRE may fall into two
\* ticks.  A counter that expires between them forgets the INCR.
Passes(n) == IF n = 0 THEN 0 ELSE n - 1
GateTick ==
    /\ \A c \in Caller :
          /\ call[c].pc \in {"idle", "sent", "waiting", "expiring"}
          /\ call[c].waited < Patience
    /\ slot' = Passes(slot)
    /\ block' = Passes(block)
    /\ waiters' = IF waiters.ttl = 1 THEN NoCounter
                  ELSE [waiters EXCEPT !.ttl = Passes(@)]
    /\ abandoned' = IF waiters.ttl = 1 THEN 0 ELSE abandoned
    /\ lost' = IF waiters.ttl = 1 THEN Cardinality({c \in Caller : At(c, "expiring")})
               ELSE lost
    /\ call' = [c \in Caller |-> IF c \in Counted
                                 THEN [call[c] EXCEPT !.waited = @ + 1] ELSE call[c]]
    /\ UNCHANGED ahead

GateNext ==
    \/ \E c \in Caller :
          \/ CheckBlock(c) \/ ReadWaiters(c) \/ TakeSlot(c) \/ BackgroundDeferred(c)
          \/ Register(c) \/ RegisterFails(c) \/ SetExpiry(c) \/ GiveUp(c)
          \/ WaitFails(c) \/ Unregister(c)
          \/ HostAnswers(c) \/ CallerDies(c)
    \/ GateTick

GateSpec == GateInit /\ [][GateNext]_gateVars

------------------------------------------------------------------------------
(* Properties *)

\* Who waits in front of a screen goes first: a background request never gets
\* the host while an interactive request is waiting that had announced itself
\* when the background request asked, whatever dead processes left in the
\* counter and whenever it expires, unless the counter lacks an increment: that
\* of a request whose INCR was rejected and undone, or of one that lost it before
\* its EXPIRE.  And background requests step back for somebody who waits, or for
\* what a dead process (or a failed DECR) has left.
PriorityKept ==
    /\ lost = 0 => \A c \in Caller \ Interactive : ahead[c] \cap Counted = {}
    /\ waiters.n > 0 => \/ \E c \in Caller : call[c].pc \in Registered
                        \/ abandoned > 0
==============================================================================
