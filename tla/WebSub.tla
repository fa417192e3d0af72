-------------------------------- MODULE WebSub --------------------------------
(***************************************************************************)
(* One source's subscription at its feed's WebSub hub: who asks the hub,   *)
(* what the hub's verification does to the sources row, and who renews the *)
(* subscription before its lease is over (src/src/lib/feed-parser.ts       *)
(* maybeSubscribeToWebSub, src/src/routes/websub.ts, WebSubRenewal in      *)
(* src/src/lib/workers/main.ts and source-data-service.ts).                *)
(*                                                                         *)
(* Fetches of the feed (the worker's ParseSource jobs and the discovery of *)
(* POST /subscribe) may find a hub and try to subscribe, several at a      *)
(* time.  The hub is external: it accepts or refuses a request, loses it,  *)
(* verifies it by a GET that the server handles in two statements, and may *)
(* forget a subscription at any time.                                      *)
(*                                                                         *)
(* A callback token stands for itself and for the secret generated with    *)
(* it.  crypto.randomUUID never repeats: a new token is one that nobody    *)
(* remembers.  The clock's ticks divide a day; the 30 seconds of the       *)
(* attempt cooldown end whenever they end.                                 *)
(***************************************************************************)
EXTENDS Naturals

CONSTANTS
    Fetch,          \* concurrent fetches of the feed
    Token,          \* callback tokens (with their secrets)
    NoToken,        \* websub_callback_token IS NULL
    Day,            \* ticks of a day
    MaxLate,        \* bound: ticks a run of the daily renewal job may be late
    Faults,         \* may processes die and hubs lose what they accepted?
    Leases          \* the leases hubs grant, in ticks

ASSUME WebSubAssumption ==
    /\ NoToken \notin Token
    /\ Day \in Nat \ {0}
    /\ MaxLate \in Nat
    /\ Faults \in BOOLEAN
    /\ Leases \subseteq Nat

VARIABLES
    kind,       \* sources.kind
    status,     \* sources.websub_status
    token,      \* sources.websub_callback_token
    left,       \* ticks to websub_lease_expires_at, plus 1; 0: it is past
    cooling,    \* is websub_subscribe_attempted_at within 30 seconds?
    pc,         \* where each fetch is
    read,       \* the websub_status a fetch has read
    mine,       \* the token a fetch has recorded
    recent,     \* is a fetch's claim within 30 seconds?
    slot,       \* ticks since the renewal job was last due
    renewing,   \* where the renewal job is
    renewed,    \* the token the renewal job has selected
    attempt,    \* the renewal of the verified lease: owed, made, or excused (a run
                \* of the job has failed, or the lease is short)
    check,      \* the hub's verification of each token
    live        \* tokens the hub would push to

rowVars     == <<kind, status, token, left, cooling>>
fetchVars   == <<pc, read, mine, recent>>
renewalVars == <<slot, renewing, renewed, attempt>>
hubVars     == <<check, live>>
vars == <<kind, status, token, left, cooling, pc, read, mine, recent,
          slot, renewing, renewed, attempt, check, live>>

Status == {"none", "pending", "verified", "failed"}

TypeOK ==
    /\ kind \in {"feed", "websub"}
    /\ status \in Status
    /\ token \in Token \cup {NoToken}
    /\ left \in Nat
    /\ left = 0 \/ \E lease \in Leases : left <= lease + 1
    /\ cooling \in BOOLEAN
    /\ pc \in [Fetch -> {"idle", "read", "claimed", "posting", "failing"}]
    /\ read \in [Fetch -> Status]
    /\ mine \in [Fetch -> Token \cup {NoToken}]
    /\ recent \in [Fetch -> BOOLEAN]
    /\ slot \in 0 .. Day + MaxLate
    /\ renewing \in {"idle", "posting", "failing"}
    /\ renewed \in Token \cup {NoToken}
    /\ attempt \in {"none", "owed", "made", "excused"}
    /\ check \in [Token -> {"none", "asked", "found"}]
    /\ live \subseteq Token

Init ==
    /\ kind = "feed"
    /\ status = "none"
    /\ token = NoToken
    /\ left = 0
    /\ cooling = FALSE
    /\ pc = [f \in Fetch |-> "idle"]
    /\ read = [f \in Fetch |-> "none"]
    /\ mine = [f \in Fetch |-> NoToken]
    /\ recent = [f \in Fetch |-> FALSE]
    /\ slot = 0
    /\ renewing = "idle"
    /\ renewed = NoToken
    /\ attempt = "none"
    /\ check = [t \in Token |-> "none"]
    /\ live = {}

Goto(f, place) == pc' = [pc EXCEPT ![f] = place]

\* A fetch is over and what it knew is forgotten.
Leave(f) ==
    /\ pc' = [pc EXCEPT ![f] = "idle"]
    /\ read' = [read EXCEPT ![f] = "none"]
    /\ mine' = [mine EXCEPT ![f] = NoToken]
    /\ recent' = [recent EXCEPT ![f] = FALSE]

------------------------------------------------------------------------------
(* Subscribing: parseSource or discoverAndSubscribeWebSub *)

Forget(f) == read' = [read EXCEPT ![f] = "none"]

\* The source row is read before the feed is fetched.
ReadSource(f) ==
    /\ pc[f] = "idle"
    /\ read' = [read EXCEPT ![f] = status]
    /\ Goto(f, "read")
    /\ UNCHANGED <<rowVars, mine, recent, renewalVars, hubVars>>

\* Faulty: a pending subscription is left to the hub.
ShouldAttemptOnce(s) == s = "none"

\* shouldAttemptWebSubSubscribe
ShouldAttempt(s) == s \in {"none", "pending"}

\* The feed names no hub, could not be fetched, or nothing is to be done.
Skip(f) ==
    /\ pc[f] = "read"
    /\ Leave(f)
    /\ UNCHANGED <<rowVars, renewalVars, hubVars>>

\* Faulty: the cooldown is not looked at.
ClaimAlways(f) ==
    /\ pc[f] = "read"
    /\ ShouldAttempt(read[f])
    /\ cooling' = TRUE
    /\ recent' = [recent EXCEPT ![f] = TRUE]
    /\ Goto(f, "claimed")
    /\ Forget(f)
    /\ UNCHANGED <<kind, status, token, left, mine, renewalVars, hubVars>>

\* claimWebSubSubscribeAttempt
Claim(f) ==
    /\ pc[f] = "read"
    /\ ShouldAttempt(read[f])
    /\ \/ cooling /\ Leave(f) /\ UNCHANGED cooling
       \/ /\ ~cooling
          /\ cooling' = TRUE
          /\ recent' = [recent EXCEPT ![f] = TRUE]
          /\ Goto(f, "claimed")
          /\ Forget(f)
          /\ UNCHANGED mine
    /\ UNCHANGED <<kind, status, token, left, renewalVars, hubVars>>

Unknown(t) ==
    /\ t # token
    /\ t # renewed
    /\ check[t] = "none"
    /\ t \notin live
    /\ \A f \in Fetch : mine[f] # t

\* recordWebSubDiscovery
Record(f, t) ==
    /\ pc[f] = "claimed"
    /\ Unknown(t)
    /\ token' = t
    /\ status' = "pending"
    /\ attempt' = "none"
    /\ mine' = [mine EXCEPT ![f] = t]
    /\ Goto(f, "posting")
    /\ UNCHANGED <<kind, left, cooling, read, recent, slot, renewing, renewed, hubVars>>

\* The claim's statement or the recording's throws, the claim's maybe after it
\* was done: the attempt has failed as well.
Throws(f) ==
    /\ Faults
    /\ pc[f] = "claimed" \/ (pc[f] = "read" /\ ShouldAttempt(read[f]))
    /\ Goto(f, "failing")
    /\ Forget(f)
    /\ UNCHANGED <<rowVars, mine, recent, renewalVars, hubVars>>

\* What the hub makes of a request: it takes it up or not.
Request(t, accepted) ==
    check' = IF accepted /\ check[t] = "none"
             THEN [check EXCEPT ![t] = "asked"] ELSE check

\* requestHubSubscription.  The hub's answer may be lost after it accepted.
Post(f, accepted, answered) ==
    /\ pc[f] = "posting"
    /\ Request(mine[f], accepted)
    /\ IF accepted /\ answered
       THEN Leave(f)
       ELSE Goto(f, "failing") /\ UNCHANGED <<read, mine, recent>>
    /\ UNCHANGED <<rowVars, renewalVars, live>>

\* Faulty: the source stays on the cadence of a subscribed one.
FailKeepingKind == status' = "failed" /\ attempt' = "none" /\ UNCHANGED kind

\* markWebSubFailed
MarkFailed == status' = "failed" /\ kind' = "feed" /\ attempt' = "none"

GiveUp(f) ==
    /\ pc[f] = "failing"
    /\ MarkFailed
    /\ Leave(f)
    /\ UNCHANGED <<token, left, cooling, slot, renewing, renewed, hubVars>>

\* The process of a fetch dies, or the database cannot be reached.
Crash(f) ==
    /\ Faults
    /\ pc[f] # "idle"
    /\ Leave(f)
    /\ UNCHANGED <<rowVars, renewalVars, hubVars>>

\* Thirty seconds have passed since the last claim.
CooldownEnds ==
    /\ cooling
    /\ cooling' = FALSE
    /\ recent' = [f \in Fetch |-> FALSE]
    /\ UNCHANGED <<kind, status, token, left, pc, read, mine,
                   renewalVars, hubVars>>

------------------------------------------------------------------------------
(* The hub, and the callback's two statements *)

\* GET /api/websub/callback/:token finds the source, or answers 404.
FindByToken(t) ==
    /\ check[t] = "asked"
    /\ check' = [check EXCEPT ![t] = IF token = t THEN "found" ELSE "none"]
    /\ UNCHANGED <<rowVars, fetchVars, renewalVars, live>>

LeaseLeft(lease) == lease + 1

\* markWebSubVerified updates that source by its id; the hub may not see the
\* answer.
Verify(t, lease, delivered) ==
    /\ check[t] = "found"
    /\ kind' = "websub"
    /\ status' = "verified"
    /\ left' = LeaseLeft(lease)
    /\ attempt' = IF lease < Day THEN "excused" ELSE "owed"
    /\ check' = [check EXCEPT ![t] = "none"]
    /\ live' = IF delivered THEN live \cup {t} ELSE live
    /\ UNCHANGED <<token, cooling, fetchVars, slot, renewing, renewed>>

HubLosesRequest(t) ==
    /\ Faults
    /\ check[t] # "none"
    /\ check' = [check EXCEPT ![t] = "none"]
    /\ UNCHANGED <<rowVars, fetchVars, renewalVars, live>>

HubForgets(t) ==
    /\ t \in live
    /\ live' = live \ {t}
    /\ UNCHANGED <<rowVars, fetchVars, renewalVars, check>>

------------------------------------------------------------------------------
(* Renewal *)

\* Faulty: only leases that are over are renewed.
ExpiredOnly == status = "verified" /\ left = 0

\* Faulty: leases that are over are left alone.
ExpiringOnly == status = "verified" /\ left > 0 /\ left <= Day + 1

\* getWebSubSubscriptionsNeedingRenewal: verified, and over within a day.
NeedsRenewal == status = "verified" /\ left <= Day + 1

\* The daily job starts.
Renew ==
    /\ slot >= Day
    /\ renewing = "idle"
    /\ slot' = slot - Day
    /\ IF NeedsRenewal
       THEN renewing' = "posting" /\ renewed' = token
       ELSE UNCHANGED <<renewing, renewed>>
    /\ UNCHANGED <<rowVars, fetchVars, attempt, hubVars>>

Excuse == attempt' = IF attempt = "owed" THEN "excused" ELSE attempt

\* The job fails outright: no worker takes it, or the database does not answer.
RenewalMissed ==
    /\ Faults
    /\ slot >= Day
    /\ renewing = "idle"
    /\ slot' = slot - Day
    /\ Excuse
    /\ UNCHANGED <<rowVars, fetchVars, renewing, renewed, hubVars>>

RenewalPost(accepted, answered) ==
    /\ renewing = "posting"
    /\ Request(renewed, accepted)
    /\ attempt' = IF attempt = "none" THEN "none" ELSE "made"
    /\ IF accepted /\ answered
       THEN renewing' = "idle" /\ renewed' = NoToken
       ELSE renewing' = "failing" /\ UNCHANGED renewed
    /\ UNCHANGED <<rowVars, fetchVars, slot, live>>

RenewalFails ==
    /\ renewing = "failing"
    /\ MarkFailed
    /\ renewing' = "idle"
    /\ renewed' = NoToken
    /\ UNCHANGED <<token, left, cooling, fetchVars, slot, hubVars>>

\* The process of the job dies, before its request or after.
RenewalCrashes ==
    /\ Faults
    /\ renewing # "idle"
    /\ renewing' = "idle"
    /\ renewed' = NoToken
    /\ Excuse
    /\ UNCHANGED <<rowVars, fetchVars, slot, hubVars>>

\* Time passes; a run of the renewal job is at most MaxLate ticks late, and so
\* is the end of the one before it.
Tick ==
    /\ slot < Day + MaxLate
    /\ slot' = slot + 1
    /\ left' = IF left = 0 THEN 0 ELSE left - 1
    /\ UNCHANGED <<kind, status, token, cooling, fetchVars, renewing, renewed,
                   attempt, hubVars>>

------------------------------------------------------------------------------
FetchStep(f) ==
    \/ ReadSource(f) \/ Skip(f) \/ Claim(f) \/ Throws(f)
    \/ \E t \in Token : Record(f, t)
    \/ \E accepted, answered \in BOOLEAN : Post(f, accepted, answered)
    \/ GiveUp(f) \/ Crash(f)

HubStep(t) ==
    \/ FindByToken(t)
    \/ \E lease \in Leases, delivered \in BOOLEAN : Verify(t, lease, delivered)
    \/ HubLosesRequest(t) \/ HubForgets(t)

RenewalStep ==
    \/ Renew
    \/ \E accepted, answered \in BOOLEAN : RenewalPost(accepted, answered)
    \/ RenewalMissed \/ RenewalFails \/ RenewalCrashes

Next ==
    \/ \E f \in Fetch : FetchStep(f)
    \/ \E t \in Token : HubStep(t)
    \/ RenewalStep
    \/ CooldownEnds
    \/ Tick

Spec == Init /\ [][Next]_vars

\* The feed is polled and names its hub, time passes, the daily job runs, and
\* among infinitely many requests some get the hub's answer, or fail.
ServerFairness ==
    /\ WF_vars(Tick)
    /\ WF_vars(CooldownEnds)
    /\ SF_vars(Renew)
    /\ SF_vars(RenewalPost(TRUE, TRUE) \/ RenewalFails)
    /\ \A f \in Fetch :
          /\ WF_vars(ReadSource(f))
          /\ SF_vars(Claim(f))
          /\ SF_vars(\E t \in Token : Record(f, t))
          /\ SF_vars(Post(f, TRUE, TRUE) \/ GiveUp(f))

\* A hub whose verification is, now and then, faster than the next attempt to
\* subscribe, which replaces the token.
PromptHubFairness ==
    /\ SF_vars(\E t \in Token : token = t /\ FindByToken(t))
    /\ SF_vars(\E t \in Token, lease \in Leases :
                  token = t /\ Verify(t, lease, TRUE))
    /\ WF_vars(\E t \in Token :
                  /\ token # t
                  /\ \/ FindByToken(t) \/ HubForgets(t)
                     \/ \E lease \in Leases : Verify(t, lease, FALSE))

PromptHubSpec == Spec /\ ServerFairness /\ PromptHubFairness

------------------------------------------------------------------------------
(* Properties *)

\* The claim's purpose: "guarding against concurrent subscribe attempts for
\* the same source".  Within its thirty seconds an attempt is alone.
Attempting(f) == recent[f] /\ pc[f] \in {"claimed", "posting", "failing"}
RecentClaimExclusive ==
    \A f, g \in Fetch : Attempting(f) /\ Attempting(g) => cooling /\ f = g

\* A source on the once-a-day cadence always has a way back: it is verified
\* (the renewal job watches it) or pending (its next poll subscribes again).
SlowSourceIsWatched ==
    kind = "websub" => status \in {"verified", "pending"} /\ token # NoToken

\* What the renewal window guarantees, for any lease and any delay: a lease that
\* lapses with no attempt to renew it was granted for less than a day, or a run
\* since it was granted failed, is late, or is still at it.  (Its comment in
\* source-data-service.ts promises an attempt "even if a given day's job run is
\* late or fails outright"; the window is as long as the period of the job.)
LapseIsExcused ==
    status = "verified" /\ left = 0 /\ attempt = "owed" =>
        slot > Day \/ renewing = "posting"

\* A source polled once a day because of a subscription the hub does not have
\* is noticed: it gets a live subscription or its ordinary cadence back.
Stranded == kind = "websub" /\ token \notin live
StrandedIsNoticed == Stranded ~> ~Stranded

\* "subscribing again is idempotent from the hub's perspective -- self-heals a
\* verification the hub silently dropped": a source does not stay pending.
PendingHeals == status = "pending" ~> status \in {"verified", "failed"}
==============================================================================
