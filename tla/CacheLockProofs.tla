--------------------------- MODULE CacheLockProofs ----------------------------
(***************************************************************************)
(* What the response cache's lock guarantees for any number of calls, any  *)
(* deadline and any response lifetimes, as long as commands arrive within  *)
(* the slack the lock has over the deadline (Delay < Slack).               *)
(***************************************************************************)
EXTENDS CacheLock, TLAPS

Commands == {"lock", "save", "release"}
Fresh == {0} \cup UNION {0 .. l : l \in Lifetime}
Age == 0 .. Deadline + Delay
Ttl == 0 .. LockTtl

LEMMA Intervals ==
    /\ Version \subseteq Nat /\ 0 \in Version /\ 1 \in Version \ {0}
    /\ \A v \in Version : v < MaxVersion => v + 1 \in Version \ {0}
    /\ Age \subseteq Nat /\ 0 \in Age
    /\ \A a \in Age : a < Deadline + Delay => a + 1 \in Age
    /\ Ttl \subseteq Nat /\ 0 \in Ttl /\ LockTtl \in Ttl
    /\ \A t \in Ttl : t # 0 => t - 1 \in Ttl
BY CacheAssumption DEF CacheAssumption, Version, Age, Ttl, LockTtl

LEMMA Freshness ==
    /\ Fresh \subseteq Nat /\ 0 \in Fresh
    /\ Lifetime \subseteq Fresh
    /\ \A f \in Fresh : f # 0 => f - 1 \in Fresh
<1>1. ASSUME NEW l \in Lifetime
      PROVE  l \in Nat /\ l \in 0 .. l /\ \A f \in 0 .. l : f \in Nat /\ (f # 0 => f - 1 \in 0 .. l)
  BY CacheAssumption DEF CacheAssumption
<1> QED
  BY <1>1 DEF Fresh

LEMMA Records ==
    /\ NoEntry \in Entry
    /\ NoResponse \in Response
    /\ \A v \in Version : [NoResponse EXCEPT !.version = v] \in Response
    /\ \A v \in Version : [NoResponse EXCEPT !.version = v].version = v
    /\ \A v \in Version, k \in BOOLEAN, l \in Lifetime :
          [version |-> v, keep |-> k, life |-> l] \in Response
    /\ \A e \in Entry : e.version \in Version /\ e.fresh \in Fresh
    /\ \A x \in Response : x.version \in Version /\ x.keep \in BOOLEAN
                           /\ x.life \in Fresh
    /\ \A v \in Version, f \in Fresh : [version |-> v, fresh |-> f] \in Entry
<1>1. Entry = [version : Version, fresh : Fresh]
  BY DEF Entry, Fresh
<1>2. Response = [version : Version, keep : BOOLEAN, life : Lifetime \cup {0}]
  BY DEF Response
<1> QED
  BY <1>1, <1>2, Intervals, Freshness DEF NoEntry, NoResponse

\* TypeOK with its intervals named.
CallType ==
    /\ pc \in [Request -> {"idle", "locking", "polling"} \cup Inside]
    /\ wire \in [Request -> SUBSET Commands]
    /\ skip \in [Request -> BOOLEAN]
    /\ got \in [Request -> Response]
    /\ floor \in [Request -> Version]
DataType ==
    /\ entry \in Entry
    /\ origin \in Version \ {0}
    /\ newest \in Version
ClockType ==
    /\ lock \in Request \cup {Nobody}
    /\ ttl \in Ttl
    /\ age \in [Request -> Age]

LEMMA TypeInParts ==
    /\ TypeOK <=> CallType /\ DataType /\ ClockType
    /\ TypeOK' <=> CallType' /\ DataType' /\ ClockType'
BY DEF TypeOK, CallType, DataType, ClockType, Commands, Age, Ttl

------------------------------------------------------------------------------
(* Types *)

LEMMA LeaveType ==
    ASSUME CallType, NEW r \in Request, Leave(r)
    PROVE  CallType'
<1>1. wire' \in [Request -> SUBSET Commands]
  BY DEF Leave, CallType, Send, Commands
<1>2. Forget(r)
  BY DEF Leave
<1> QED
  BY <1>1, <1>2, Records, Intervals DEF Forget, Goto, CallType

LEMMA SavedType ==
    ASSUME CallType, NEW r \in Request
    PROVE  Saved(r) \in Entry
BY Records DEF CallType, Saved

LEMMA CallStepType ==
    ASSUME TypeOK, NEW r \in Request, Call(r)
    PROVE  TypeOK'
<1> USE TypeInParts
<1>1. ClockType'
  <2>1. lock' = lock /\ ttl' = ttl
    BY DEF Call, Start, SendLock, Read, Reserve, Ask, SendSave, Answer, Quit,
           Crash, lockVars
  <2>2. age' = age \/ age' = [age EXCEPT ![r] = 0]
    BY DEF Call, Start, SendLock, Read, Reserve, Ask, SendSave, Answer, Quit, Crash
  <2> QED
    BY <2>1, <2>2, Intervals DEF ClockType
<1>2. DataType'
  <2>1. CASE Answer(r)
    BY <2>1, Records DEF Answer, DataType, CallType
  <2>2. CASE ~Answer(r)
    BY <2>2 DEF Call, DataType, Start, SendLock, Read, Reserve, Ask, SendSave,
                Quit, Crash, dataVars
  <2> QED
    BY <2>1, <2>2
<1>3. CallType'
  <2>0. CallType /\ DataType
    OBVIOUS
  <2>1. ASSUME NEW skipCache \in BOOLEAN, Start(r, skipCache) PROVE CallType'
    BY <2>0, <2>1 DEF Start, Goto, CallType, DataType
  <2>2. CASE SendLock(r)
    BY <2>0, <2>2 DEF SendLock, Goto, Send, CallType, Commands
  <2>3. CASE Read(r)
    <3>1. entry.version \in Version
      BY <2>0, Records DEF DataType
    <3>2. [NoResponse EXCEPT !.version = entry.version] \in Response
      BY <3>1, Records
    <3>3. got' \in [Request -> Response]
      BY <2>0, <2>3, <3>2 DEF Read, CallType
    <3> QED
      BY <2>0, <2>3, <3>3 DEF Read, Goto, CallType, Inside
  <2>4. CASE Reserve(r)
    BY <2>0, <2>4 DEF Reserve, Goto, CallType, Inside
  <2>5. ASSUME NEW keep \in BOOLEAN, NEW life \in Lifetime, Ask(r, keep, life)
        PROVE  CallType'
    BY <2>0, <2>5, Records DEF Ask, Goto, CallType, DataType, Inside
  <2>6. CASE SendSave(r)
    BY <2>0, <2>6 DEF SendSave, Goto, Send, CallType, Commands, Inside
  <2>7. CASE Answer(r) \/ Quit(r)
    BY <2>0, <2>7, LeaveType DEF Answer, Quit
  <2>8. CASE Crash(r)
    <3>1. wire' \in [Request -> SUBSET Commands]
      BY <2>0, <2>8 DEF Crash, CallType
    <3>2. Forget(r)
      BY <2>8 DEF Crash
    <3> QED
      BY <2>0, <3>1, <3>2, Records, Intervals DEF Forget, Goto, CallType
  <2> QED
    BY <2>1, <2>2, <2>3, <2>4, <2>5, <2>6, <2>7, <2>8 DEF Call
<1> QED
  BY <1>1, <1>2, <1>3

LEMMA RedisStepType ==
    ASSUME TypeOK, NEW r \in Request, Redis(r)
    PROVE  TypeOK'
<1> USE TypeInParts
<1>0. CallType /\ DataType /\ ClockType
  OBVIOUS
<1>1. CASE RedisLock(r)
  <2>1. CallType'
    BY <1>0, <1>1 DEF RedisLock, Executed, Goto, CallType, Inside
  <2>2. ClockType'
    BY <1>0, <1>1, Intervals DEF RedisLock, ClockType, lockVars
  <2> QED
    BY <1>0, <1>1, <2>1, <2>2 DEF RedisLock, DataType, dataVars
<1>2. CASE RedisSave(r)
  <2>1. wire' \in [Request -> SUBSET Commands]
    BY <1>0, <1>2 DEF RedisSave, Executed, CallType
  <2>2. CASE Forget(r)
    <3>1. CallType'
      BY <1>0, <2>1, <2>2, Records, Intervals DEF Forget, Goto, CallType
    <3> QED
      BY <1>0, <1>2, <3>1, SavedType DEF RedisSave, DataType, ClockType, lockVars
  <2>3. CASE Goto(r, "answering") /\ UNCHANGED <<skip, got, floor>>
    <3>1. CallType'
      BY <1>0, <2>1, <2>3 DEF Goto, CallType, Inside
    <3> QED
      BY <1>0, <1>2, <3>1, SavedType DEF RedisSave, DataType, ClockType, lockVars
  <2> QED
    BY <1>2, <2>2, <2>3 DEF RedisSave
<1>3. CASE RedisRelease(r)
  <2>1. CallType'
    BY <1>0, <1>3 DEF RedisRelease, Executed, CallType
  <2>2. ClockType'
    BY <1>0, <1>3, Intervals DEF RedisRelease, ClockType, lockVars
  <2> QED
    BY <1>0, <1>3, <2>1, <2>2 DEF RedisRelease, DataType, dataVars
<1> QED
  BY <1>1, <1>2, <1>3 DEF Redis

LEMMA TickType ==
    ASSUME TypeOK, Tick
    PROVE  TypeOK'
<1> USE TypeInParts
<1>0. CallType /\ DataType /\ ClockType
  OBVIOUS
<1>1. ttl' \in Ttl /\ lock' \in Request \cup {Nobody}
  BY <1>0, Intervals DEF Tick, ClockType
<1>2. age' \in [Request -> Age]
  <2>1. ASSUME NEW r \in Request, ~(pc[r] = "idle" /\ wire[r] = {})
        PROVE  age[r] + 1 \in Age
    <3>1. age[r] < Deadline + Delay /\ age[r] \in Age
      BY <1>0, <2>1, Intervals, CacheAssumption DEF Tick, ClockType, CacheAssumption
    <3> QED
      BY <3>1, Intervals
  <2> QED
    BY <2>1, Intervals DEF Tick
<1>3. entry' \in Entry
  <2>1. /\ entry.version \in Version /\ entry.fresh \in Fresh
        /\ entry.fresh # 0 => entry.fresh - 1 \in Fresh
    BY <1>0, Records, Freshness DEF DataType
  <2>2. [entry EXCEPT !.fresh = IF @ = 0 THEN 0 ELSE @ - 1]
         = [version |-> entry.version,
            fresh |-> IF entry.fresh = 0 THEN 0 ELSE entry.fresh - 1]
    BY <1>0 DEF DataType, Entry
  <2> QED
    BY <2>1, <2>2, Records, Freshness DEF Tick
<1> QED
  BY <1>0, <1>1, <1>2, <1>3 DEF Tick, CallType, DataType, ClockType

\* Every state is well formed: the ages and the lock's remaining life stay within
\* their bounds, and what is cached is never fresh for longer than a lifetime the
\* origin gave.
THEOREM TypeCorrect == Spec => []TypeOK
<1>1. Init => TypeOK
  <2> SUFFICES ASSUME Init PROVE CallType /\ DataType /\ ClockType
    BY TypeInParts
  <2> QED
    BY Records, Intervals DEF Init, CallType, DataType, ClockType
<1>2. TypeOK /\ [Next]_vars => TypeOK'
  <2> SUFFICES ASSUME TypeOK, [Next]_vars PROVE TypeOK'
    OBVIOUS
  <2>1. CASE Evict \/ Publish
    BY <2>1, TypeInParts, Records, Intervals
    DEF Evict, Publish, DataType, CallType, ClockType, lockVars, callVars
  <2>2. CASE UNCHANGED vars
    BY <2>2 DEF vars, TypeOK
  <2> QED
    BY <2>1, <2>2, CallStepType, RedisStepType, TickType DEF Next
<1> QED
  BY <1>1, <1>2, PTL DEF Spec

------------------------------------------------------------------------------
(* The lock *)

\* What a call can have on the wire where it is.
WireInv ==
    \A r \in Request :
        /\ pc[r] \in {"locking"} \cup (Inside \ {"awaiting"}) => wire[r] = {}
        /\ pc[r] = "awaiting" => wire[r] = {"save"}
        /\ pc[r] = "polling" => wire[r] = {"lock"}
        /\ "lock" \in wire[r] => wire[r] = {"lock"}

LEMMA WireInvInit == Init => WireInv
BY DEF Init, WireInv, Inside

LEMMA WireInvStep ==
    ASSUME TypeOK, WireInv, [Next]_vars
    PROVE  WireInv'
<1> USE DEF WireInv
<1>0. /\ pc \in [Request -> {"idle", "locking", "polling"} \cup Inside]
      /\ wire \in [Request -> SUBSET Commands]
  BY TypeInParts DEF CallType
<1>1. ASSUME NEW r \in Request, Call(r) PROVE WireInv'
  <2>1. ASSUME NEW place \in {"locking"} \cup (Inside \ {"awaiting"}),
               Goto(r, place), UNCHANGED wire, wire[r] = {}
        PROVE  WireInv'
    BY <1>0, <2>1 DEF Goto, Inside
  <2>2. CASE \/ \E skipCache \in BOOLEAN : Start(r, skipCache)
             \/ Read(r) \/ Reserve(r)
             \/ \E keep \in BOOLEAN, life \in Lifetime : Ask(r, keep, life)
    BY <2>1, <2>2 DEF Start, Read, Reserve, Ask, Inside
  <2>3. CASE SendLock(r)
    BY <1>0, <2>3 DEF SendLock, Goto, Send, Inside
  <2>4. CASE SendSave(r)
    BY <1>0, <2>4 DEF SendSave, Goto, Send, Inside
  <2>5. CASE Answer(r) \/ Quit(r)
    <3>1. Leave(r)
      BY <2>5 DEF Answer, Quit
    <3> QED
      BY <1>0, <3>1 DEF Leave, Forget, Goto, Send, Inside, Commands
  <2>6. CASE Crash(r)
    BY <1>0, <2>6 DEF Crash, Forget, Goto, Inside, Commands
  <2> QED
    BY <1>1, <2>2, <2>3, <2>4, <2>5, <2>6 DEF Call
<1>2. ASSUME NEW r \in Request, Redis(r) PROVE WireInv'
  <2>1. CASE RedisLock(r)
    BY <1>0, <2>1 DEF RedisLock, Executed, Goto, Inside
  <2>2. CASE RedisSave(r)
    BY <1>0, <2>2 DEF RedisSave, Executed, Forget, Goto, Inside
  <2>3. CASE RedisRelease(r)
    BY <1>0, <2>3 DEF RedisRelease, Executed
  <2> QED
    BY <1>2, <2>1, <2>2, <2>3 DEF Redis
<1>3. CASE Evict \/ Publish \/ Tick \/ UNCHANGED vars
  BY <1>3 DEF Evict, Publish, Tick, vars, callVars
<1> QED
  BY <1>1, <1>2, <1>3 DEF Next

\* Whoever works has the lock, and the lock lives on for at least as long as the
\* call and its commands still may.
AloneInv ==
    \A r \in Request : Working(r) => lock = r /\ ttl + age[r] >= LockTtl

LEMMA AloneInvStep ==
    ASSUME TypeOK, WireInv, AloneInv, [Next]_vars
    PROVE  AloneInv'
<1> USE DEF AloneInv
<1>0. /\ pc \in [Request -> {"idle", "locking", "polling"} \cup Inside]
      /\ wire \in [Request -> SUBSET Commands]
      /\ age \in [Request -> Age] /\ Age \subseteq Nat
      /\ ttl \in Nat /\ LockTtl \in Nat
      /\ Nobody \notin Request
  BY TypeInParts, Intervals, CacheAssumption
  DEF CallType, ClockType, CacheAssumption
\* No action but RedisLock makes a call work that did not.
<1>1. ASSUME NEW r \in Request, Call(r) PROVE AloneInv'
  <2>1. UNCHANGED <<lock, ttl>>
    BY <1>1 DEF Call, Start, SendLock, Read, Reserve, Ask, SendSave, Answer, Quit,
                Crash, lockVars
  <2>2. \A q \in Request \ {r} :
           pc'[q] = pc[q] /\ wire'[q] = wire[q] /\ age'[q] = age[q]
    BY <1>0, <1>1
    DEF Call, Start, SendLock, Read, Reserve, Ask, SendSave, Answer, Quit, Crash,
        Leave, Forget, Goto, Send
  <2>3. Working(r)' => Working(r) /\ age'[r] = age[r]
    <3>1. CASE \E skipCache \in BOOLEAN : Start(r, skipCache)
      BY <1>0, <3>1 DEF Start, Goto, Working, Inside
    <3>2. CASE SendLock(r)
      BY <1>0, <3>2 DEF SendLock, Goto, Send, Working, Inside
    <3>3. CASE \/ Read(r) \/ Reserve(r) \/ SendSave(r)
               \/ \E keep \in BOOLEAN, life \in Lifetime : Ask(r, keep, life)
      BY <3>3 DEF Read, Reserve, Ask, SendSave, Working, Inside
    <3>4. CASE Answer(r) \/ Quit(r)
      BY <1>0, <3>4
      DEF Answer, Quit, Leave, Forget, Goto, Send, Working, Inside
    <3>5. CASE Crash(r)
      BY <1>0, <3>5 DEF Crash, Forget, Goto, Working, Inside
    <3> QED
      BY <1>1, <3>1, <3>2, <3>3, <3>4, <3>5 DEF Call
  <2> QED
    BY <2>1, <2>2, <2>3 DEF Working
<1>2. ASSUME NEW r \in Request, Redis(r) PROVE AloneInv'
  <2>0. age' = age /\ \A q \in Request \ {r} : pc'[q] = pc[q] /\ wire'[q] = wire[q]
    BY <1>0, <1>2
    DEF Redis, RedisLock, RedisSave, RedisRelease, Executed, Forget, Goto
  <2>1. CASE RedisLock(r) /\ lock = Nobody
    <3>1. lock' = r /\ ttl' = LockTtl
      BY <2>1 DEF RedisLock
    <3>2. \A q \in Request : ~Working(q)
      BY <1>0, <2>1
    <3>3. \A q \in Request \ {r} : ~Working(q)'
      BY <2>0, <3>2 DEF Working
    <3>4. ttl' + age'[r] >= LockTtl'
      <4>1. age[r] \in Nat /\ LockTtl' = LockTtl
        BY <1>0 DEF LockTtl
      <4> QED
        BY <1>0, <2>0, <3>1, <4>1
    <3> QED
      BY <3>1, <3>3, <3>4
  <2>2. CASE RedisLock(r) /\ lock # Nobody
    <3>1. UNCHANGED <<lock, ttl>>
      BY <2>2 DEF RedisLock, lockVars
    <3>2. Working(r)' => Working(r)
      BY <1>0, <2>2 DEF RedisLock, Executed, Goto, Working, Inside
    <3> QED
      BY <2>0, <3>1, <3>2 DEF Working
  <2>3. CASE RedisSave(r)
    <3>1. UNCHANGED <<lock, ttl>>
      BY <2>3 DEF RedisSave, lockVars
    <3>2. Working(r)
      BY <2>3 DEF RedisSave, Working
    <3> QED
      BY <2>0, <3>1, <3>2 DEF Working
  <2>4. CASE RedisRelease(r)
    <3>1. Working(r) /\ lock = r
      BY <2>4 DEF RedisRelease, Working
    <3>2. ~Working(r)'
      BY <1>0, <2>4 DEF RedisRelease, Executed, Working, WireInv, Inside, Commands
    <3> QED
      BY <2>0, <3>1, <3>2 DEF Working
  <2> QED
    BY <1>2, <2>1, <2>2, <2>3, <2>4 DEF Redis
<1>3. CASE Tick
  <2>1. ASSUME NEW r \in Request, Working(r)'
        PROVE  lock' = r /\ ttl' + age'[r] >= LockTtl'
    <3>1. Working(r) /\ (pc[r] # "idle" \/ wire[r] # {})
      BY <1>3, <2>1 DEF Tick, Working, Inside
    <3>2. age[r] \in Nat /\ age[r] < Deadline + Delay /\ age'[r] = age[r] + 1
      BY <1>0, <1>3, <3>1, CacheAssumption DEF Tick, CacheAssumption
    <3>3. lock = r /\ ttl + age[r] >= LockTtl
      BY <3>1
    <3>4. ttl > 1
      BY <1>0, <3>2, <3>3, CacheAssumption DEF LockTtl, CacheAssumption
    <3>5. lock' = r /\ ttl' = ttl - 1
      BY <1>3, <3>3, <3>4 DEF Tick
    <3> QED
      BY <1>0, <3>2, <3>3, <3>4, <3>5 DEF LockTtl
  <2> QED
    BY <2>1
<1>4. CASE Evict \/ Publish \/ UNCHANGED vars
  BY <1>4 DEF Evict, Publish, vars, callVars, lockVars, Working
<1> QED
  BY <1>1, <1>2, <1>3, <1>4 DEF Next

LEMMA LockInvariant == Spec => [](WireInv /\ AloneInv)
<1>1. Init => AloneInv
  BY DEF Init, AloneInv, Working, Inside
<1> QED
  BY <1>1, WireInvInit, WireInvStep, AloneInvStep, TypeCorrect, PTL DEF Spec

\* No two calls ever work on the URL at a time, and no command of one call
\* reaches Redis while another call works: a process that stalls, or a command
\* that is slow, by less than the slack cannot undo what a later call did.
THEOREM CallsWorkAlone == Spec => []WorkingAlone
<1>1. AloneInv => WorkingAlone
  BY DEF AloneInv, WorkingAlone
<1> QED
  BY <1>1, LockInvariant, PTL

------------------------------------------------------------------------------
(* The answers *)

\* Whose response is known: it is in the call's hands or on its way to Redis.
Holding(r) == pc[r] \in {"saving", "awaiting", "answering"} \/ "save" \in wire[r]

\* A response that is fresh in the cache is the newest one anybody was given.
CacheInv ==
    /\ newest <= origin
    /\ entry.fresh > 0 => newest <= entry.version /\ entry.version <= origin

\* While a call holds a response, nothing newer is given to anybody, and what it
\* may not be older than is not newer than the response.
CallInv(r) ==
    /\ Holding(r) => newest <= got[r].version /\ got[r].version <= origin
    /\ pc[r] # "idle" => floor[r] <= origin
    /\ pc[r] # "idle" /\ ~skip[r] => floor[r] <= newest
    /\ skip[r] /\ pc[r] \in {"saving", "awaiting", "answering"}
       => floor[r] <= got[r].version
    /\ pc[r] = "answering" /\ entry.fresh > 0 => got[r].version <= entry.version
    /\ pc[r] \in {"reserving", "fetching"} /\ ~skip[r] => entry.fresh = 0

AnswerInv == CacheInv /\ \A r \in Request : CallInv(r)

Numbers ==
    /\ newest \in Nat /\ origin \in Nat
    /\ entry.version \in Nat /\ entry.fresh \in Nat
    /\ \A r \in Request : got[r].version \in Nat /\ floor[r] \in Nat
                          /\ got[r].life \in Nat
Functions ==
    /\ pc \in [Request -> {"idle", "locking", "polling"} \cup Inside]
    /\ wire \in [Request -> SUBSET Commands]
    /\ skip \in [Request -> BOOLEAN]
    /\ got \in [Request -> Response]
    /\ floor \in [Request -> Version]

LEMMA TypeFacts ==
    ASSUME TypeOK
    PROVE  Numbers /\ Functions
<1>0. CallType /\ DataType /\ ClockType
  BY TypeInParts
<1>1. Functions
  BY <1>0 DEF Functions, CallType
<1>2. newest \in Nat /\ origin \in Nat /\ entry.version \in Nat /\ entry.fresh \in Nat
  BY <1>0, Records, Intervals, Freshness DEF DataType
<1>3. \A r \in Request : got[r].version \in Nat /\ floor[r] \in Nat
                         /\ got[r].life \in Nat
  <2> SUFFICES ASSUME NEW r \in Request
               PROVE  got[r].version \in Nat /\ floor[r] \in Nat /\ got[r].life \in Nat
    OBVIOUS
  <2>1. got[r] \in Response /\ floor[r] \in Version
    BY <1>1 DEF Functions
  <2> QED
    BY <2>1, Records, Intervals, Freshness
<1> QED
  BY <1>1, <1>2, <1>3 DEF Numbers

\* Another call's invariant only depends on its own variables.
LEMMA OthersKept ==
    ASSUME Functions, NEW r \in Request, NEW q \in Request, q # r, CallInv(q),
           Call(r) \/ Redis(r), UNCHANGED <<entry, origin, newest>>
    PROVE  CallInv(q)'
<1>1. /\ pc'[q] = pc[q] /\ wire'[q] = wire[q] /\ skip'[q] = skip[q]
      /\ got'[q] = got[q] /\ floor'[q] = floor[q]
  BY DEF Functions, Call, Start, SendLock, Read, Reserve, Ask, SendSave, Answer,
         Quit, Crash, Leave, Forget, Goto, Send, Redis, RedisLock, RedisSave,
         RedisRelease, Executed
<1> QED
  BY <1>1 DEF CallInv, Holding

\* A call that goes away holds at most the response it has sent to Redis.
LEMMA GoneKept ==
    ASSUME Functions, WireInv, NEW r \in Request, CallInv(r), Forget(r),
           "save" \in wire'[r] => "save" \in wire[r],
           UNCHANGED <<entry, origin, newest>>
    PROVE  CallInv(r)'
<1>1. pc'[r] = "idle" /\ skip'[r] = FALSE
  BY DEF Functions, Forget, Goto
<1>2. "save" \in wire'[r] => got' = got
  BY DEF Forget
<1> QED
  BY <1>1, <1>2 DEF CallInv, Holding

LEMMA CallInvStep ==
    ASSUME Numbers, Functions, WireInv, AnswerInv, NEW r \in Request, Call(r),
           ~Answer(r)
    PROVE  AnswerInv'
<1> USE DEF Numbers, Functions
<1>1. UNCHANGED <<entry, origin, newest>>
  BY DEF Call, Start, SendLock, Read, Reserve, Ask, SendSave, Quit, Crash, dataVars
<1>2. CacheInv' /\ CallInv(r) /\ CacheInv
  BY <1>1 DEF AnswerInv, CacheInv
<1>3. CallInv(r)'
  <2>1. ASSUME NEW skipCache \in BOOLEAN, Start(r, skipCache) PROVE CallInv(r)'
    <3>1. /\ pc'[r] = "locking" /\ wire'[r] = {} /\ skip'[r] = skipCache
          /\ floor'[r] = IF skipCache THEN origin ELSE newest
      BY <2>1 DEF Start, Goto
    <3>2. newest <= origin
      BY <1>2 DEF CacheInv
    <3> QED
      BY <1>1, <3>1, <3>2 DEF CallInv, Holding
  <2>2. CASE SendLock(r)
    <3>1. /\ pc[r] = "locking" /\ pc'[r] = "polling"
          /\ wire'[r] = wire[r] \cup {"lock"}
      BY <2>2 DEF SendLock, Goto, Send
    <3> QED
      BY <1>1, <1>2, <2>2, <3>1 DEF SendLock, CallInv, Holding
  <2>3. CASE Read(r)
    <3>1. pc[r] = "reading" /\ wire[r] = {}
      BY <2>3 DEF Read, WireInv, Inside
    <3>2. CASE entry.fresh > 0 /\ ~skip[r]
      <4>1. /\ pc'[r] = "answering"
            /\ got'[r] = [NoResponse EXCEPT !.version = entry.version]
        BY <2>3, <3>2 DEF Read, Goto
      <4>2. got'[r].version = entry.version
        BY <4>1 DEF NoResponse
      <4> QED
        BY <1>1, <1>2, <2>3, <3>1, <3>2, <4>1, <4>2
        DEF Read, CallInv, Holding, CacheInv
    <3>3. CASE ~(entry.fresh > 0 /\ ~skip[r])
      <4>1. pc'[r] = "reserving" /\ got' = got
        BY <2>3, <3>3 DEF Read, Goto
      <4>2. ~skip[r] => entry.fresh = 0
        BY <3>3
      <4> QED
        BY <1>1, <1>2, <2>3, <3>1, <4>1, <4>2 DEF Read, CallInv, Holding
    <3> QED
      BY <3>2, <3>3
  <2>4. CASE Reserve(r)
    <3>1. pc[r] = "reserving" /\ pc'[r] = "fetching"
      BY <2>4 DEF Reserve, Goto
    <3> QED
      BY <1>1, <1>2, <2>4, <3>1 DEF Reserve, CallInv, Holding
  <2>5. ASSUME NEW keep \in BOOLEAN, NEW life \in Lifetime, Ask(r, keep, life)
        PROVE  CallInv(r)'
    <3>1. pc[r] = "fetching" /\ pc'[r] = "saving" /\ got'[r].version = origin
      BY <2>5 DEF Ask, Goto
    <3> QED
      BY <1>1, <1>2, <2>5, <3>1 DEF Ask, CallInv, Holding, CacheInv
  <2>6. CASE SendSave(r)
    <3>1. pc[r] = "saving" /\ pc'[r] = "awaiting"
      BY <2>6 DEF SendSave, Goto
    <3> QED
      BY <1>1, <1>2, <2>6, <3>1 DEF SendSave, CallInv, Holding
  <2>7. CASE Quit(r)
    <3>1. Forget(r) /\ ("save" \in wire'[r] => "save" \in wire[r])
      BY <2>7 DEF Quit, Leave, Send
    <3> QED
      BY <1>1, <1>2, <3>1, GoneKept
  <2>8. CASE Crash(r)
    <3>1. Forget(r) /\ ("save" \in wire'[r] => "save" \in wire[r])
      BY <2>8 DEF Crash
    <3> QED
      BY <1>1, <1>2, <3>1, GoneKept
  <2> QED
    BY <2>1, <2>2, <2>3, <2>4, <2>5, <2>6, <2>7, <2>8 DEF Call
<1> QED
  BY <1>1, <1>2, <1>3, OthersKept DEF AnswerInv

\* Nobody else works while a call answers or a response is saved.
LEMMA OthersIdle ==
    ASSUME WorkingAlone, NEW r \in Request, Working(r), NEW q \in Request, q # r
    PROVE  /\ ~Holding(q)
           /\ pc[q] \notin Inside
BY DEF WorkingAlone, Working, Holding, Inside

LEMMA AnswerStep ==
    ASSUME Numbers, Functions, WireInv, WorkingAlone, AnswerInv,
           NEW r \in Request, Answer(r)
    PROVE  AnswerInv'
<1> USE DEF Numbers, Functions
<1>1. /\ pc[r] = "answering" /\ wire[r] = {} /\ Working(r) /\ Holding(r)
      /\ UNCHANGED <<entry, origin>>
  BY DEF Answer, WireInv, Working, Inside, Holding
<1>2. CacheInv /\ CallInv(r) /\ newest <= got[r].version /\ got[r].version <= origin
  BY <1>1 DEF AnswerInv, CallInv
<1>3. newest' = got[r].version
  BY <1>2 DEF Answer
<1>4. CacheInv'
  BY <1>1, <1>2, <1>3 DEF CacheInv, CallInv
<1>5. CallInv(r)'
  <2>1. pc'[r] = "idle" /\ wire'[r] = {"release"} /\ skip'[r] = FALSE
    BY <1>1 DEF Answer, Leave, Forget, Goto, Send, Inside
  <2> QED
    BY <2>1 DEF CallInv, Holding
<1>6. ASSUME NEW q \in Request, q # r PROVE CallInv(q)'
  <2>1. ~Holding(q) /\ pc[q] \notin Inside
    BY <1>1, <1>6, OthersIdle
  <2>2. /\ pc'[q] = pc[q] /\ wire'[q] = wire[q] /\ skip'[q] = skip[q]
        /\ got'[q] = got[q] /\ floor'[q] = floor[q]
    BY <1>6 DEF Answer, Leave, Forget, Goto, Send
  <2>3. CallInv(q)
    BY DEF AnswerInv
  <2> QED
    BY <1>1, <1>2, <1>3, <2>1, <2>2, <2>3 DEF CallInv, Holding, Inside
<1> QED
  BY <1>4, <1>5, <1>6 DEF AnswerInv

LEMMA SaveStep ==
    ASSUME Numbers, Functions, WireInv, WorkingAlone, AnswerInv,
           NEW r \in Request, RedisSave(r)
    PROVE  AnswerInv'
<1> USE DEF Numbers, Functions
<1>1. /\ Working(r) /\ Holding(r) /\ UNCHANGED <<origin, newest>>
      /\ entry' = Saved(r) /\ "save" \notin wire'[r]
  BY DEF RedisSave, Executed, Working, Holding
<1>2. /\ CacheInv /\ CallInv(r)
      /\ newest <= got[r].version /\ got[r].version <= origin
  BY <1>1 DEF AnswerInv, CallInv
<1>3. \/ entry'.fresh = 0
      \/ entry'.version = got[r].version /\ entry'.fresh = got[r].life
  BY <1>1 DEF Saved, NoEntry
<1>4. CacheInv'
  BY <1>1, <1>2, <1>3 DEF CacheInv
<1>5. CallInv(r)'
  <2>1. CASE pc[r] = "awaiting"
    <3>1. pc'[r] = "answering" /\ UNCHANGED <<skip, got, floor>>
      BY <2>1 DEF RedisSave, Goto
    <3> QED
      BY <1>1, <1>2, <1>3, <2>1, <3>1 DEF CallInv, Holding
  <2>2. CASE pc[r] # "awaiting"
    <3>1. pc'[r] = "idle" /\ skip'[r] = FALSE
      BY <2>2 DEF RedisSave, Forget, Goto
    <3> QED
      BY <1>1, <3>1 DEF CallInv, Holding
  <2> QED
    BY <2>1, <2>2
<1>6. ASSUME NEW q \in Request, q # r PROVE CallInv(q)'
  <2>1. ~Holding(q) /\ pc[q] \notin Inside
    BY <1>1, <1>6, OthersIdle
  <2>2. /\ pc'[q] = pc[q] /\ wire'[q] = wire[q] /\ skip'[q] = skip[q]
        /\ floor'[q] = floor[q]
    BY <1>6 DEF RedisSave, Executed, Forget, Goto
  <2>3. CallInv(q)
    BY DEF AnswerInv
  <2> QED
    BY <1>1, <2>1, <2>2, <2>3 DEF CallInv, Holding, Inside
<1> QED
  BY <1>4, <1>5, <1>6 DEF AnswerInv

LEMMA OtherRedisStep ==
    ASSUME Numbers, Functions, WireInv, AnswerInv, NEW r \in Request,
           RedisLock(r) \/ RedisRelease(r)
    PROVE  AnswerInv'
<1>1. /\ UNCHANGED <<entry, origin, newest, skip, got, floor>>
      /\ "save" \in wire'[r] => "save" \in wire[r]
  BY DEF Functions, RedisLock, RedisRelease, Executed, dataVars
<1>2. CacheInv /\ CacheInv' /\ CallInv(r)
  BY <1>1 DEF AnswerInv, CacheInv
<1>3. pc'[r] = pc[r] \/ (pc[r] = "polling" /\ pc'[r] \in {"locking", "reading"})
  BY DEF Functions, RedisLock, RedisRelease, Goto
<1>4. CallInv(r)'
  BY <1>1, <1>2, <1>3 DEF CallInv, Holding
<1>5. Redis(r)
  BY DEF Redis
<1> QED
  BY <1>1, <1>2, <1>4, <1>5, OthersKept DEF AnswerInv

LEMMA EnvironmentStep ==
    ASSUME TypeOK, Numbers, Functions, AnswerInv,
           Evict \/ Publish \/ Tick \/ UNCHANGED vars
    PROVE  AnswerInv'
<1> USE DEF Numbers
<1>1. UNCHANGED <<newest, pc, wire, skip, got, floor>>
  BY DEF Evict, Publish, Tick, vars, callVars
<1>2. /\ origin <= origin' /\ origin' \in Nat
      /\ entry'.fresh \in Nat
      /\ entry'.fresh > 0 => entry.fresh > 0 /\ entry'.version = entry.version
      /\ entry.fresh = 0 => entry'.fresh = 0
  <2>1. CASE Evict
    BY <2>1 DEF Evict, NoEntry
  <2>2. CASE Publish
    BY <2>2 DEF Publish
  <2>3. CASE Tick
    <3>1. entry \in Entry
      BY TypeInParts DEF DataType
    <3>2. /\ entry'.version = entry.version
          /\ entry'.fresh = IF entry.fresh = 0 THEN 0 ELSE entry.fresh - 1
      BY <2>3, <3>1 DEF Tick, Entry
    <3> QED
      BY <2>3, <3>2 DEF Tick
  <2>4. CASE UNCHANGED vars
    BY <2>4 DEF vars
  <2> QED
    BY <2>1, <2>2, <2>3, <2>4
<1>3. CacheInv'
  BY <1>1, <1>2 DEF AnswerInv, CacheInv
<1>4. ASSUME NEW q \in Request PROVE CallInv(q)'
  <2>1. CallInv(q) /\ got[q].version \in Nat /\ floor[q] \in Nat
    BY DEF AnswerInv
  <2> QED
    BY <1>1, <1>2, <2>1 DEF CallInv, Holding
<1> QED
  BY <1>3, <1>4 DEF AnswerInv

LEMMA AnswerInvariant == Spec => []AnswerInv
<1>1. Init => AnswerInv
  BY CacheAssumption
  DEF Init, AnswerInv, CacheInv, CallInv, Holding, NoEntry, NoResponse, CacheAssumption
<1>2. TypeOK /\ WireInv /\ WorkingAlone /\ AnswerInv /\ [Next]_vars => AnswerInv'
  <2> SUFFICES ASSUME TypeOK, WireInv, WorkingAlone, AnswerInv, [Next]_vars
               PROVE  AnswerInv'
    OBVIOUS
  <2>1. Numbers /\ Functions
    BY TypeFacts
  <2>2. ASSUME NEW r \in Request, Call(r) PROVE AnswerInv'
    BY <2>1, <2>2, CallInvStep, AnswerStep
  <2>3. ASSUME NEW r \in Request, Redis(r) PROVE AnswerInv'
    BY <2>1, <2>3, SaveStep, OtherRedisStep DEF Redis
  <2> QED
    BY <2>1, <2>2, <2>3, EnvironmentStep DEF Next
<1> QED
  BY <1>1, <1>2, TypeCorrect, LockInvariant, CallsWorkAlone, PTL DEF Spec

\* No call answers with something older than another call had answered before it
\* began, and a push's call with nothing older than what the origin had by then.
THEOREM AnswersAreCurrent == Spec => []AnswersNotOlder
<1>1. TypeOK /\ AnswerInv => AnswersNotOlder
  <2> SUFFICES ASSUME TypeOK, AnswerInv, NEW r \in Request, pc[r] = "answering"
               PROVE  got[r].version >= floor[r]
    BY DEF AnswersNotOlder
  <2>1. Numbers /\ Functions /\ CallInv(r)
    BY TypeFacts DEF AnswerInv
  <2> QED
    BY <2>1 DEF Numbers, Functions, CallInv, Holding
<1> QED
  BY <1>1, AnswerInvariant, TypeCorrect, PTL

\* Calls that waited for another one's fetch do not ask the origin again while its
\* response is fresh.
THEOREM FetchesAreNotRedundant == Spec => []NoRedundantFetch
<1>1. AnswerInv => NoRedundantFetch
  BY DEF AnswerInv, CallInv, NoRedundantFetch
<1> QED
  BY <1>1, AnswerInvariant, PTL
==============================================================================
