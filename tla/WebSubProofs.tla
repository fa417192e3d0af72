----------------------------- MODULE WebSubProofs -----------------------------
(***************************************************************************)
(* What module WebSub promises for any number of fetches and tokens, any   *)
(* length of the day and any leases.                                       *)
(***************************************************************************)
EXTENDS WebSub, TLAPS

\* Arithmetic the steps below use with the intervals left closed.
LEMMA ClockStaysInRange ==
    ASSUME NEW n \in 0 .. Day + MaxLate
    PROVE  /\ 0 \in 0 .. Day + MaxLate
           /\ n < Day + MaxLate => n + 1 \in 0 .. Day + MaxLate
           /\ n >= Day => n - Day \in 0 .. Day + MaxLate
BY WebSubAssumption DEF WebSubAssumption

\* Every lease leaves a natural number of ticks, bounded by that lease.
LEMMA LeaseLeftInRange ==
    ASSUME NEW lease \in Leases
    PROVE  LeaseLeft(lease) \in Nat /\ LeaseLeft(lease) <= lease + 1
BY WebSubAssumption DEF WebSubAssumption, LeaseLeft

\* A tick takes at most one tick off what is left.
LEMMA LeftAfterTick ==
    ASSUME NEW n \in Nat, n = 0 \/ \E lease \in Leases : n <= lease + 1
    PROVE  LET m == IF n = 0 THEN 0 ELSE n - 1
           IN  m \in Nat /\ (m = 0 \/ \E lease \in Leases : m <= lease + 1)
<1>1. CASE n = 0
  BY <1>1
<1>2. CASE n # 0
  <2>1. PICK lease \in Leases : n <= lease + 1
    BY <1>2
  <2>2. n - 1 \in Nat /\ n - 1 <= lease + 1
    BY <1>2, <2>1, WebSubAssumption DEF WebSubAssumption
  <2> QED
    BY <1>2, <2>1, <2>2
<1> QED
  BY <1>1, <1>2

------------------------------------------------------------------------------
(* Types *)

\* The parts of TypeOK that a step of a fetch, of the hub or of the renewal job
\* can disturb, apart from the lease's clock.
RowType ==
    /\ kind \in {"feed", "websub"}
    /\ status \in Status
    /\ token \in Token \cup {NoToken}
    /\ cooling \in BOOLEAN
FetchType ==
    /\ pc \in [Fetch -> {"idle", "read", "claimed", "posting", "failing"}]
    /\ read \in [Fetch -> Status]
    /\ mine \in [Fetch -> Token \cup {NoToken}]
    /\ recent \in [Fetch -> BOOLEAN]
ClockType ==
    /\ left \in Nat
    /\ left = 0 \/ \E lease \in Leases : left <= lease + 1
    /\ slot \in 0 .. Day + MaxLate
RenewalType ==
    /\ renewing \in {"idle", "posting", "failing"}
    /\ renewed \in Token \cup {NoToken}
    /\ attempt \in {"none", "owed", "made", "excused"}
HubType ==
    /\ check \in [Token -> {"none", "asked", "found"}]
    /\ live \subseteq Token

LEMMA TypeInParts ==
    /\ TypeOK <=> RowType /\ FetchType /\ ClockType /\ RenewalType /\ HubType
    /\ TypeOK' <=> (RowType /\ FetchType /\ ClockType /\ RenewalType /\ HubType)'
BY DEF TypeOK, RowType, FetchType, ClockType, RenewalType, HubType

LEMMA TypeInit == Init => TypeOK
<1> SUFFICES ASSUME Init PROVE TypeOK
  OBVIOUS
<1>1. RowType /\ FetchType /\ RenewalType /\ HubType
  BY DEF Init, RowType, FetchType, RenewalType, HubType, Status
<1>2. ClockType
  BY WebSubAssumption DEF Init, ClockType, WebSubAssumption
<1> QED
  BY <1>1, <1>2, TypeInParts

LEMMA FetchStepType ==
    ASSUME TypeOK, NEW f \in Fetch, FetchStep(f)
    PROVE  TypeOK'
<1> USE TypeInParts
<1>1. ClockType'
  BY DEF FetchStep, ClockType, ReadSource, Skip, Claim, Throws, Record, Post, GiveUp,
         Crash, rowVars, renewalVars
<1>2. RenewalType'
  BY DEF FetchStep, RenewalType, ReadSource, Skip, Claim, Throws, Record, Post, GiveUp,
         Crash, renewalVars, MarkFailed
<1>3. RowType'
  BY DEF FetchStep, RowType, ReadSource, Skip, Claim, Throws, Record, Post, GiveUp,
         Crash, rowVars, MarkFailed, Status
<1>4. HubType'
  BY DEF FetchStep, HubType, ReadSource, Skip, Claim, Throws, Record, Post, GiveUp,
         Crash, hubVars, Request
<1>5. FetchType'
  <2>0. FetchType /\ status \in Status
    BY DEF RowType
  <2>1. ASSUME Leave(f) PROVE FetchType'
    BY <2>0, <2>1 DEF Leave, FetchType, Status
  <2>2. ASSUME NEW place \in {"read", "claimed", "posting", "failing"},
               Goto(f, place), UNCHANGED <<read, mine, recent>>
        PROVE  FetchType'
    BY <2>0, <2>2 DEF Goto, FetchType
  <2>3. CASE ReadSource(f)
    BY <2>0, <2>3 DEF ReadSource, Goto, FetchType
  <2>4. CASE Claim(f)
    <3>1. Leave(f) \/ (/\ recent' = [recent EXCEPT ![f] = TRUE]
                       /\ Goto(f, "claimed")
                       /\ Forget(f)
                       /\ UNCHANGED mine)
      BY <2>4 DEF Claim
    <3> QED
      BY <2>0, <2>1, <3>1 DEF Goto, Forget, FetchType, Status
  <2>5. ASSUME NEW t \in Token, Record(f, t) PROVE FetchType'
    BY <2>0, <2>5 DEF Record, Goto, FetchType
  <2>6. ASSUME NEW accepted \in BOOLEAN, NEW answered \in BOOLEAN,
               Post(f, accepted, answered)
        PROVE  FetchType'
    <3>1. Leave(f) \/ (Goto(f, "failing") /\ UNCHANGED <<read, mine, recent>>)
      BY <2>6 DEF Post
    <3> QED
      BY <2>1, <2>2, <3>1
  <2>7. CASE Skip(f) \/ GiveUp(f) \/ Crash(f)
    BY <2>1, <2>7 DEF Skip, GiveUp, Crash
  <2>8. CASE Throws(f)
    BY <2>0, <2>8 DEF Throws, Goto, Forget, FetchType, Status
  <2> QED
    BY <2>3, <2>4, <2>5, <2>6, <2>7, <2>8 DEF FetchStep
<1> QED
  BY <1>1, <1>2, <1>3, <1>4, <1>5

LEMMA HubStepType ==
    ASSUME TypeOK, NEW t \in Token, HubStep(t)
    PROVE  TypeOK'
<1> USE TypeInParts
<1>1. RowType' /\ FetchType'
  BY DEF HubStep, RowType, FetchType, FindByToken, Verify, HubLosesRequest,
         HubForgets, rowVars, fetchVars, Status
<1>2. RenewalType'
  BY DEF HubStep, RenewalType, FindByToken, Verify, HubLosesRequest,
         HubForgets, renewalVars
<1>3. HubType'
  BY DEF HubStep, HubType, FindByToken, Verify, HubLosesRequest, HubForgets
<1>4. ClockType'
  <2>1. slot' = slot /\ (left' = left \/ \E lease \in Leases : left' = LeaseLeft(lease))
    BY DEF HubStep, FindByToken, Verify, HubLosesRequest, HubForgets,
           rowVars, renewalVars
  <2> QED
    BY <2>1, LeaseLeftInRange DEF ClockType
<1> QED
  BY <1>1, <1>2, <1>3, <1>4

LEMMA RenewalStepType ==
    ASSUME TypeOK, RenewalStep
    PROVE  TypeOK'
<1> USE TypeInParts
<1>1. RowType' /\ FetchType'
  BY DEF RenewalStep, RowType, FetchType, Renew, RenewalMissed, RenewalPost, RenewalFails,
         RenewalCrashes, rowVars, fetchVars, MarkFailed, Status
<1>2. RenewalType'
  BY DEF RenewalStep, RenewalType, RowType, Renew, RenewalMissed, RenewalPost, RenewalFails,
         RenewalCrashes, Excuse, MarkFailed
<1>3. HubType'
  BY DEF RenewalStep, HubType, Renew, RenewalMissed, RenewalPost, RenewalFails,
         RenewalCrashes, hubVars, Request
<1>4. ClockType'
  <2>1. left' = left /\ (slot' = slot \/ (slot >= Day /\ slot' = slot - Day))
    BY DEF RenewalStep, Renew, RenewalMissed, RenewalPost, RenewalFails, RenewalCrashes,
           rowVars
  <2> QED
    BY <2>1, ClockStaysInRange DEF ClockType
<1> QED
  BY <1>1, <1>2, <1>3, <1>4

\* Every state of a source's subscription is well formed; in particular what is
\* left of a lease never exceeds a lease the hub granted.
THEOREM TypeCorrect == Spec => []TypeOK
<1>1. TypeOK /\ [Next]_vars => TypeOK'
  <2> SUFFICES ASSUME TypeOK, [Next]_vars PROVE TypeOK'
    OBVIOUS
  <2>1. ASSUME NEW f \in Fetch, FetchStep(f) PROVE TypeOK'
    BY <2>1, FetchStepType
  <2>2. ASSUME NEW t \in Token, HubStep(t) PROVE TypeOK'
    BY <2>2, HubStepType
  <2>3. CASE RenewalStep
    BY <2>3, RenewalStepType
  <2>4. CASE CooldownEnds
    BY <2>4 DEF CooldownEnds, TypeOK, renewalVars, hubVars
  <2>5. CASE Tick
    <3>1. ClockType'
      BY <2>5, ClockStaysInRange, LeftAfterTick DEF Tick, TypeOK, ClockType
    <3>2. (RowType /\ FetchType /\ RenewalType /\ HubType)'
      BY <2>5 DEF Tick, TypeOK, RowType, FetchType, RenewalType, HubType,
                  fetchVars, hubVars
    <3> QED
      BY <3>1, <3>2, TypeInParts
  <2>6. CASE UNCHANGED vars
    BY <2>6 DEF vars, TypeOK
  <2> QED
    BY <2>1, <2>2, <2>3, <2>4, <2>5, <2>6 DEF Next
<1> QED
  BY TypeInit, <1>1, PTL DEF Spec

------------------------------------------------------------------------------
(* The cooldown *)

\* A fetch that claimed within the cooldown is the only one, and the row says
\* that somebody claimed.
ClaimInv ==
    /\ \A f \in Fetch : recent[f] => cooling
    /\ \A f, g \in Fetch : recent[f] /\ recent[g] => f = g

\* The atomic claim (UPDATE ... WHERE websub_subscribe_attempted_at IS NULL OR
\* is older than the cooldown) lets one fetch attempt at a time.
THEOREM ClaimsExclude == Spec => []RecentClaimExclusive
<1>1. Init => ClaimInv
  BY DEF Init, ClaimInv
<1>2. TypeOK /\ ClaimInv /\ [Next]_vars => ClaimInv'
  <2> USE DEF ClaimInv
  <2> SUFFICES ASSUME TypeOK, ClaimInv, [Next]_vars PROVE ClaimInv'
    OBVIOUS
  <2>0. recent \in [Fetch -> BOOLEAN]
    BY DEF TypeOK
  <2>1. ASSUME NEW f \in Fetch, FetchStep(f) PROVE ClaimInv'
    <3>1. CASE Claim(f)
      BY <2>0, <3>1 DEF Claim, Leave
    <3>2. CASE UNCHANGED <<recent, cooling>>
      BY <3>2
    <3>3. CASE Leave(f) /\ UNCHANGED cooling
      BY <2>0, <3>3 DEF Leave
    <3> QED
      BY <2>1, <3>1, <3>2, <3>3
      DEF FetchStep, ReadSource, Skip, Throws, Record, Post, GiveUp, Crash, rowVars
  <2>2. ASSUME NEW t \in Token, HubStep(t) PROVE ClaimInv'
    BY <2>2 DEF HubStep, FindByToken, Verify, HubLosesRequest, HubForgets,
                rowVars, fetchVars
  <2>3. CASE RenewalStep
    BY <2>3 DEF RenewalStep, Renew, RenewalMissed, RenewalPost, RenewalFails,
                RenewalCrashes, rowVars, fetchVars
  <2>4. CASE CooldownEnds
    BY <2>4 DEF CooldownEnds
  <2>5. CASE Tick
    BY <2>5 DEF Tick, fetchVars
  <2>6. CASE UNCHANGED vars
    BY <2>6 DEF vars
  <2> QED
    BY <2>1, <2>2, <2>3, <2>4, <2>5, <2>6 DEF Next
<1>3. ClaimInv => RecentClaimExclusive
  BY DEF ClaimInv, RecentClaimExclusive, Attempting
<1> QED
  BY <1>1, <1>2, <1>3, TypeCorrect, PTL DEF Spec

------------------------------------------------------------------------------
(* The slow cadence *)

\* A verification under way has found a row with a token, and a row never loses
\* its token again.
WatchInv ==
    /\ SlowSourceIsWatched
    /\ \A t \in Token : check[t] = "found" => token # NoToken

\* Every way into the once-a-day cadence (a verification, whatever happened
\* between its two statements) and every way the status changes afterwards
\* leave the source with the renewal job or with its next poll.
THEOREM SlowSourcesAreWatched == Spec => []SlowSourceIsWatched
<1> USE DEF WatchInv, SlowSourceIsWatched
<1>1. Init => WatchInv
  BY DEF Init
<1>2. TypeOK /\ WatchInv /\ [Next]_vars => WatchInv'
  <2> SUFFICES ASSUME TypeOK, WatchInv, [Next]_vars PROVE WatchInv'
    OBVIOUS
  <2>0. check \in [Token -> {"none", "asked", "found"}]
    BY DEF TypeOK
  <2>1. ASSUME NEW f \in Fetch, FetchStep(f) PROVE WatchInv'
    <3>1. CASE \E t \in Token : Record(f, t)
      BY <3>1, WebSubAssumption DEF Record, hubVars, WebSubAssumption
    <3>2. CASE GiveUp(f)
      BY <3>2 DEF GiveUp, MarkFailed, hubVars
    <3>3. CASE \E accepted, answered \in BOOLEAN : Post(f, accepted, answered)
      BY <2>0, <3>3 DEF Post, Request, rowVars
    <3>4. CASE ReadSource(f) \/ Skip(f) \/ Claim(f) \/ Throws(f) \/ Crash(f)
      BY <3>4 DEF ReadSource, Skip, Claim, Throws, Crash, rowVars, hubVars
    <3> QED
      BY <2>1, <3>1, <3>2, <3>3, <3>4 DEF FetchStep
  <2>2. ASSUME NEW t \in Token, HubStep(t) PROVE WatchInv'
    <3>1. CASE FindByToken(t)
      BY <2>0, <3>1, WebSubAssumption
      DEF FindByToken, rowVars, WebSubAssumption
    <3>2. CASE \E lease \in Leases, delivered \in BOOLEAN :
                  Verify(t, lease, delivered)
      BY <2>0, <3>2 DEF Verify
    <3>3. CASE HubLosesRequest(t) \/ HubForgets(t)
      BY <2>0, <3>3 DEF HubLosesRequest, HubForgets, rowVars
    <3> QED
      BY <2>2, <3>1, <3>2, <3>3 DEF HubStep
  <2>3. CASE RenewalStep
    <3>1. CASE \E accepted, answered \in BOOLEAN : RenewalPost(accepted, answered)
      BY <2>0, <3>1 DEF RenewalPost, Request, rowVars
    <3>2. CASE RenewalFails
      BY <3>2 DEF RenewalFails, MarkFailed, hubVars
    <3>3. CASE Renew \/ RenewalMissed \/ RenewalCrashes
      BY <3>3 DEF Renew, RenewalMissed, RenewalCrashes, rowVars, hubVars
    <3> QED
      BY <2>3, <3>1, <3>2, <3>3 DEF RenewalStep
  <2>4. CASE CooldownEnds
    BY <2>4 DEF CooldownEnds, hubVars
  <2>5. CASE Tick
    BY <2>5 DEF Tick, hubVars
  <2>6. CASE UNCHANGED vars
    BY <2>6 DEF vars
  <2> QED
    BY <2>1, <2>2, <2>3, <2>4, <2>5, <2>6 DEF Next
<1> QED
  BY <1>1, <1>2, TypeCorrect, PTL DEF Spec

------------------------------------------------------------------------------
(* Renewal *)

\* As long as the renewal of a verified lease is owed, what is left of it reaches
\* to the next run of the daily job and beyond, unless a run has it in hand.
RenewalInv ==
    status = "verified" /\ attempt = "owed" /\ renewing # "posting" => left + slot >= Day + 1

\* For any leases, any delay of the daily job and any failures: a lease that
\* lapses without an attempt to renew it was short, or a run failed, is late or
\* is still at it.  So the window of getWebSubSubscriptionsNeedingRenewal is just
\* long enough for a job that is on time, and for no other.
THEOREM LapsesAreExcused == Spec => []LapseIsExcused
<1> USE DEF RenewalInv
<1>1. TypeOK /\ Init => RenewalInv
  BY DEF Init
<1>2. TypeOK /\ RenewalInv /\ [Next]_vars => RenewalInv'
  <2> SUFFICES ASSUME TypeOK, RenewalInv, [Next]_vars PROVE RenewalInv'
    OBVIOUS
  <2>0. left \in Nat /\ slot \in Nat /\ Day \in Nat
    BY WebSubAssumption DEF TypeOK, WebSubAssumption
  <2>1. ASSUME NEW f \in Fetch, FetchStep(f) PROVE RenewalInv'
    <3>1. UNCHANGED <<left, slot, renewing>>
      BY <2>1 DEF FetchStep, ReadSource, Skip, Claim, Throws, Record, Post, GiveUp,
                  Crash, rowVars, renewalVars
    <3>2. status' = "verified" => status = "verified" /\ attempt' = attempt
      BY <2>1 DEF FetchStep, ReadSource, Skip, Claim, Throws, Record, Post, GiveUp,
                  Crash, rowVars, renewalVars, MarkFailed
    <3> QED
      BY <3>1, <3>2
  <2>2. ASSUME NEW t \in Token, HubStep(t) PROVE RenewalInv'
    <3>1. CASE \E lease \in Leases, delivered \in BOOLEAN :
                  Verify(t, lease, delivered)
      <4>1. PICK lease \in Leases, delivered \in BOOLEAN :
                  Verify(t, lease, delivered)
        BY <3>1
      <4>2. /\ left' = lease + 1 /\ lease \in Nat /\ slot' = slot
            /\ attempt' = "owed" => lease >= Day
        BY <4>1, WebSubAssumption DEF Verify, LeaseLeft, WebSubAssumption
      <4> QED
        BY <2>0, <4>2
    <3>2. CASE FindByToken(t) \/ HubLosesRequest(t) \/ HubForgets(t)
      BY <3>2 DEF FindByToken, HubLosesRequest, HubForgets, rowVars, renewalVars
    <3> QED
      BY <2>2, <3>1, <3>2 DEF HubStep
  <2>3. CASE RenewalStep
    <3>1. CASE Renew
      BY <2>0, <3>1 DEF Renew, NeedsRenewal, rowVars
    <3>2. CASE RenewalFails
      BY <3>2 DEF RenewalFails, MarkFailed
    <3>3. CASE RenewalMissed \/ RenewalCrashes
      BY <3>3 DEF RenewalMissed, RenewalCrashes, Excuse
    <3>4. CASE \E accepted, answered \in BOOLEAN : RenewalPost(accepted, answered)
      BY <3>4 DEF RenewalPost
    <3> QED
      BY <2>3, <3>1, <3>2, <3>3, <3>4 DEF RenewalStep
  <2>4. CASE CooldownEnds
    BY <2>4 DEF CooldownEnds, renewalVars
  <2>5. CASE Tick
    BY <2>0, <2>5 DEF Tick
  <2>6. CASE UNCHANGED vars
    BY <2>6 DEF vars
  <2> QED
    BY <2>1, <2>2, <2>3, <2>4, <2>5, <2>6 DEF Next
<1>3. TypeOK /\ RenewalInv => LapseIsExcused
  BY WebSubAssumption DEF TypeOK, LapseIsExcused, WebSubAssumption
<1> QED
  BY <1>1, <1>2, <1>3, TypeInit, TypeCorrect, PTL DEF Spec
==============================================================================
