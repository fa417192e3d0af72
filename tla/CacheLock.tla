------------------------------ MODULE CacheLock -------------------------------
(***************************************************************************)
(* HttpClient.get of one URL, by any number of concurrent callers in any   *)
(* number of processes (src/src/lib/http-client.ts): the lock in Redis     *)
(* under which a call reads the cached response, asks the origin and       *)
(* replaces or removes the cached response, all within one deadline.       *)
(*                                                                         *)
(* A call that runs out of time throws at once; the commands it has sent   *)
(* to Redis are still on the wire and take effect later, in the order they *)
(* were sent.  `wire` holds them.  A stall of the process between its last *)
(* look at the clock and the sending of a command is part of that delay.   *)
(*                                                                         *)
(* A response is its version at the origin, which only grows there.  A 304 *)
(* answers with the cached version because it is the origin's, so it is a  *)
(* response like any other.  Whether the host may be asked now is module   *)
(* HostGate's question.                                                    *)
(***************************************************************************)
EXTENDS Naturals

CONSTANTS
    Request,        \* concurrent calls of get
    Nobody,         \* the lock's key does not exist
    Deadline,       \* deadlineMs, in ticks
    Slack,          \* what the lock lives longer than the deadline
    Delay,          \* how long after the deadline a command may arrive
    Lifetime,       \* freshness lifetimes of responses, in ticks
    MaxVersion      \* bound: versions the origin publishes

ASSUME CacheAssumption ==
    /\ Nobody \notin Request
    /\ Deadline \in Nat \ {0}
    /\ Slack \in Nat
    /\ Delay \in Nat
    /\ Delay < Slack
    /\ Lifetime \subseteq Nat
    /\ MaxVersion \in Nat \ {0}

VARIABLES
    lock,       \* the call whose token is the lock's value
    ttl,        \* ticks until the lock's key expires
    entry,      \* the cached response
    origin,     \* the version the origin serves
    newest,     \* the newest version a call has answered with
    pc,         \* where each call is
    age,        \* ticks since the call began
    wire,       \* commands of the call that Redis has not executed yet
    skip,       \* options.skipCache
    got,        \* the response a call holds
    floor       \* what a call's answer may not be older than

lockVars == <<lock, ttl>>
dataVars == <<entry, origin, newest>>
callVars == <<pc, age, wire, skip, got, floor>>
vars == <<lock, ttl, entry, origin, newest, pc, age, wire, skip, got, floor>>

Version == 0 .. MaxVersion
Entry == [version : Version, fresh : {0} \cup UNION {0 .. l : l \in Lifetime}]
NoEntry == [version |-> 0, fresh |-> 0]
Response == [version : Version, keep : BOOLEAN, life : Lifetime \cup {0}]
NoResponse == [version |-> 0, keep |-> FALSE, life |-> 0]

\* Where a call has the lock, as far as it knows.
Inside == {"reading", "reserving", "fetching", "saving", "awaiting", "answering"}

\* Faulty: the lock lives as long as the call that takes it.
LockTtlOfDeadline == Deadline

\* acquireCacheLock: deadlineMs + 5_000
LockTtl == Deadline + Slack

TypeOK ==
    /\ lock \in Request \cup {Nobody}
    /\ ttl \in 0 .. LockTtl
    /\ entry \in Entry
    /\ origin \in Version \ {0}
    /\ newest \in Version
    /\ pc \in [Request -> {"idle", "locking", "polling"} \cup Inside]
    /\ age \in [Request -> 0 .. Deadline + Delay]
    /\ wire \in [Request -> SUBSET {"lock", "save", "release"}]
    /\ skip \in [Request -> BOOLEAN]
    /\ got \in [Request -> Response]
    /\ floor \in [Request -> Version]

Init ==
    /\ lock = Nobody
    /\ ttl = 0
    /\ entry = NoEntry
    /\ origin = 1
    /\ newest = 0
    /\ pc = [r \in Request |-> "idle"]
    /\ age = [r \in Request |-> 0]
    /\ wire = [r \in Request |-> {}]
    /\ skip = [r \in Request |-> FALSE]
    /\ got = [r \in Request |-> NoResponse]
    /\ floor = [r \in Request |-> 0]

Goto(r, place) == pc' = [pc EXCEPT ![r] = place]
Send(r, command) == wire' = [wire EXCEPT ![r] = @ \cup {command}]
Executed(r, command) == wire' = [wire EXCEPT ![r] = @ \ {command}]

\* RequestDeadline.assertActive
Active(r) == age[r] < Deadline

------------------------------------------------------------------------------
(* A call *)

\* A caller that skips the cache wants what the origin has now, the others
\* nothing older than what they may have been given before.
Start(r, skipCache) ==
    /\ pc[r] = "idle"
    /\ wire[r] = {}
    /\ Goto(r, "locking")
    /\ age' = [age EXCEPT ![r] = 0]
    /\ skip' = [skip EXCEPT ![r] = skipCache]
    /\ floor' = [floor EXCEPT ![r] = IF skipCache THEN origin ELSE newest]
    /\ UNCHANGED <<lockVars, dataVars, wire, got>>

\* SET lock NX PX, again after every 25 ms.
SendLock(r) ==
    /\ pc[r] = "locking"
    /\ Active(r)
    /\ Send(r, "lock")
    /\ Goto(r, "polling")
    /\ UNCHANGED <<lockVars, dataVars, age, skip, got, floor>>

\* getCached, and the local answer.
Read(r) ==
    /\ pc[r] = "reading"
    /\ Active(r)
    /\ IF entry.fresh > 0 /\ ~skip[r]
       THEN /\ got' = [got EXCEPT ![r] = [NoResponse EXCEPT !.version = entry.version]]
            /\ Goto(r, "answering")
       ELSE /\ Goto(r, "reserving")
            /\ UNCHANGED got
    /\ UNCHANGED <<lockVars, dataVars, age, wire, skip, floor>>

\* reserve lets the call through (or throws: Quit).
Reserve(r) ==
    /\ pc[r] = "reserving"
    /\ Active(r)
    /\ Goto(r, "fetching")
    /\ UNCHANGED <<lockVars, dataVars, age, wire, skip, got, floor>>

\* fetchWithRetry and readBody.  The response is kept if a shared cache may
\* keep it and it has a lifetime or a validator.
Ask(r, keep, life) ==
    /\ pc[r] = "fetching"
    /\ Active(r)
    /\ got' = [got EXCEPT ![r] = [version |-> origin, keep |-> keep, life |-> life]]
    /\ Goto(r, "saving")
    /\ UNCHANGED <<lockVars, dataVars, age, wire, skip, floor>>

\* saveCached, or the removal of what was cached.
SendSave(r) ==
    /\ pc[r] = "saving"
    /\ Active(r)
    /\ Send(r, "save")
    /\ Goto(r, "awaiting")
    /\ UNCHANGED <<lockVars, dataVars, age, skip, got, floor>>

\* What a call knew is forgotten, apart from what it is saving.
Forget(r) ==
    /\ Goto(r, "idle")
    /\ skip' = [skip EXCEPT ![r] = FALSE]
    /\ floor' = [floor EXCEPT ![r] = 0]
    /\ got' = IF "save" \in wire'[r] THEN got ELSE [got EXCEPT ![r] = NoResponse]

\* However a call ends, it sends the release of a lock it knows it has.
Leave(r) ==
    /\ IF pc[r] \in Inside THEN Send(r, "release") ELSE UNCHANGED wire
    /\ Forget(r)

Answer(r) ==
    /\ pc[r] = "answering"
    /\ Active(r)
    /\ newest' = IF got[r].version > newest THEN got[r].version ELSE newest
    /\ Leave(r)
    /\ UNCHANGED <<lockVars, entry, origin, age>>

\* The deadline, a deferral, or an error of Redis, the origin or the network.
Quit(r) ==
    /\ pc[r] # "idle"
    /\ Leave(r)
    /\ UNCHANGED <<lockVars, dataVars, age>>

\* A process dies, or its connection breaks: the commands that were sent last
\* are lost.
Crash(r) ==
    /\ pc[r] # "idle" \/ wire[r] # {}
    /\ \E lost \in {{}, wire[r], wire[r] \cap {"release"}} :
          wire' = [wire EXCEPT ![r] = @ \ lost]
    /\ Forget(r)
    /\ UNCHANGED <<lockVars, dataVars, age>>

------------------------------------------------------------------------------
(* Redis *)

\* Faulty: SET without NX.
LockUnconditionally(r) ==
    /\ "lock" \in wire[r]
    /\ Executed(r, "lock")
    /\ lock' = r /\ ttl' = LockTtl
    /\ IF pc[r] = "polling" THEN Goto(r, "reading") ELSE UNCHANGED pc
    /\ UNCHANGED <<dataVars, age, skip, got, floor>>

\* Faulty: SET without PX (a ttl of 0 never reaches its end).
LockForGood(r) ==
    /\ "lock" \in wire[r]
    /\ Executed(r, "lock")
    /\ IF lock = Nobody
       THEN /\ lock' = r /\ ttl' = 0
            /\ IF pc[r] = "polling" THEN Goto(r, "reading") ELSE UNCHANGED pc
       ELSE /\ IF pc[r] = "polling" THEN Goto(r, "locking") ELSE UNCHANGED pc
            /\ UNCHANGED lockVars
    /\ UNCHANGED <<dataVars, age, skip, got, floor>>

\* A call that has given up does not learn that it was given the lock.
RedisLock(r) ==
    /\ "lock" \in wire[r]
    /\ Executed(r, "lock")
    /\ IF lock = Nobody
       THEN /\ lock' = r /\ ttl' = LockTtl
            /\ IF pc[r] = "polling" THEN Goto(r, "reading") ELSE UNCHANGED pc
       ELSE /\ IF pc[r] = "polling" THEN Goto(r, "locking") ELSE UNCHANGED pc
            /\ UNCHANGED lockVars
    /\ UNCHANGED <<dataVars, age, skip, got, floor>>

\* Faulty: a response that may not be kept leaves the older one in place.
Superseding(r) ==
    IF got[r].keep THEN [version |-> got[r].version, fresh |-> got[r].life]
    ELSE entry

\* Faulty: seconds are taken for minutes.
SavedTooLong(r) ==
    IF got[r].keep THEN [version |-> got[r].version, fresh |-> 60 * got[r].life]
    ELSE NoEntry

\* What is cached after the call has saved.
Saved(r) ==
    IF got[r].keep THEN [version |-> got[r].version, fresh |-> got[r].life]
    ELSE NoEntry

RedisSave(r) ==
    /\ "save" \in wire[r]
    /\ Executed(r, "save")
    /\ entry' = Saved(r)
    /\ IF pc[r] = "awaiting"
       THEN Goto(r, "answering") /\ UNCHANGED <<skip, got, floor>>
       ELSE Forget(r)
    /\ UNCHANGED <<lockVars, origin, newest, age>>

\* releaseCacheLockScript compares the token; commands keep their order.
RedisRelease(r) ==
    /\ "release" \in wire[r]
    /\ "save" \notin wire[r]
    /\ Executed(r, "release")
    /\ IF lock = r THEN lock' = Nobody /\ ttl' = 0 ELSE UNCHANGED lockVars
    /\ UNCHANGED <<dataVars, pc, age, skip, got, floor>>

\* Redis drops a cached response, at its retention's end or earlier: nothing
\* depends on its staying.  The lock's key lives as long as it says.
Evict ==
    /\ entry # NoEntry
    /\ entry' = NoEntry
    /\ UNCHANGED <<lockVars, origin, newest, callVars>>

Publish ==
    /\ origin < MaxVersion
    /\ origin' = origin + 1
    /\ UNCHANGED <<lockVars, entry, newest, callVars>>

\* Time passes.  A call ends at its deadline, and its commands arrive within
\* the delay.
Tick ==
    /\ \A r \in Request :
          /\ pc[r] # "idle" => age[r] < Deadline
          /\ wire[r] # {} => age[r] < Deadline + Delay
    /\ age' = [r \in Request |-> IF pc[r] = "idle" /\ wire[r] = {}
                                 THEN 0 ELSE age[r] + 1]
    /\ lock' = IF ttl = 1 THEN Nobody ELSE lock
    /\ ttl' = IF ttl = 0 THEN 0 ELSE ttl - 1
    /\ entry' = [entry EXCEPT !.fresh = IF @ = 0 THEN 0 ELSE @ - 1]
    /\ UNCHANGED <<origin, newest, pc, wire, skip, got, floor>>

------------------------------------------------------------------------------
Call(r) ==
    \/ \E skipCache \in BOOLEAN : Start(r, skipCache)
    \/ SendLock(r) \/ Read(r) \/ Reserve(r)
    \/ \E keep \in BOOLEAN, life \in Lifetime : Ask(r, keep, life)
    \/ SendSave(r) \/ Answer(r) \/ Quit(r) \/ Crash(r)

Redis(r) == RedisLock(r) \/ RedisSave(r) \/ RedisRelease(r)

Next ==
    \/ \E r \in Request : Call(r) \/ Redis(r)
    \/ Evict \/ Publish \/ Tick

Spec == Init /\ [][Next]_vars

\* Time passes, calls that are out of time end, and what was sent arrives.
Fairness ==
    /\ WF_vars(Tick)
    /\ \A r \in Request : WF_vars(Redis(r)) /\ WF_vars(~Active(r) /\ Quit(r))
TimedSpec == Spec /\ Fairness

------------------------------------------------------------------------------
(* Properties *)

\* Only one call at a time works on a URL, its last command to Redis included:
\* the lock outlives every call that took it and all it has sent.
Working(r) == pc[r] \in Inside \/ wire[r] \cap {"save", "release"} # {}
WorkingAlone ==
    \A q, r \in Request : Working(q) /\ Working(r) => q = r

\* No call answers with something older than what another call had answered
\* before it began, and a call that skips the cache (a push's) with nothing
\* older than what the origin had by then.
AnswersNotOlder ==
    \A r \in Request : pc[r] = "answering" => got[r].version >= floor[r]

\* What the lock is for: calls that waited for another one's fetch do not ask
\* the origin again while its response is fresh.
NoRedundantFetch ==
    \A r \in Request : pc[r] = "fetching" /\ ~skip[r] => entry.fresh = 0

\* A lock that nobody will release (its call gave up while it was being given
\* it, or died) does not stay.
LockIsFreed ==
    \A r \in Request : lock = r ~> lock # r
==============================================================================
