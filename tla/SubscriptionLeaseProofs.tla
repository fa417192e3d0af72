----------------------- MODULE SubscriptionLeaseProofs -----------------------
(***************************************************************************)
(* Proofs about SubscriptionLease, for every set of requests and articles, *)
(* every lease length and every bound.                                     *)
(***************************************************************************)
EXTENDS SubscriptionLease, TLAPS

\* The few facts of arithmetic the records of the model need.
LEMMA Arithmetic ==
    /\ 0 \in RowId
    /\ 0 \in Age
    /\ 0 \in 0 .. MaxSources
    /\ \A age \in Age : Older(age) \in Age
    /\ \A n \in RowId : n < MaxRows => n + 1 \in RowId
    /\ \A n \in 0 .. MaxSources : n < MaxSources => n + 1 \in 0 .. MaxSources
BY LeaseAssumption DEF LeaseAssumption, RowId, Age, Older

\* Type correctness: every column and local variable of the subscribe handler
\* keeps its type.
THEOREM TypeCorrect == Spec => []TypeOK
<1>1. Init => TypeOK
  BY Arithmetic DEF Init, TypeOK, NoRow, NewRow, Row, Place, Answered
<1>2. TypeOK /\ [Next]_vars => TypeOK'
  <2> USE Arithmetic DEF TypeOK, Place, Holding, Answered, Goto, At, dbVars,
                         requestVars
  <2> SUFFICES ASSUME TypeOK, [Next]_vars PROVE TypeOK'
    OBVIOUS
  <2>1. ASSUME NEW r \in Request, FindSource(r) PROVE TypeOK'
    BY <2>1 DEF FindSource
  <2>2. ASSUME NEW r \in Request, NEW hasPreview \in BOOLEAN,
               InsertRow(r, hasPreview)
        PROVE TypeOK'
    <3>1. rows' \in RowId
      BY <2>2 DEF InsertRow
    <3>2. NewRow(rows', source, hasPreview) \in Row
      BY <3>1 DEF NewRow, Row
    <3>3. row' \in Row /\ sub' \in [Request -> RowId]
      BY <2>2, <3>1, <3>2 DEF InsertRow
    <3>4. QED
      BY <2>2, <3>1, <3>3 DEF InsertRow
  <2>3. ASSUME NEW r \in Request, LookupRow(r) PROVE TypeOK'
    BY <2>3 DEF LookupRow, Row
  <2>4. ASSUME NEW r \in Request, Claim(r) PROVE TypeOK'
    <3>1. row' \in Row
      BY <2>4 DEF Claim, Row
    <3>2. QED
      BY <2>4, <3>1 DEF Claim
  <2>5. ASSUME NEW r \in Request, ExplainRefusal(r) PROVE TypeOK'
    BY <2>5 DEF ExplainRefusal
  <2>6. ASSUME NEW r \in Request, NEW next \in {"ok", "failing"},
               Complete(r, next)
        PROVE TypeOK'
    <3>1. CompletedRow \in Row
      BY DEF CompletedRow, Row
    <3>2. QED
      BY <2>6, <3>1 DEF Complete
  <2>7. ASSUME NEW r \in Request, CompleteFails(r) PROVE TypeOK'
    BY <2>7 DEF CompleteFails
  <2>8. ASSUME NEW r \in Request, Release(r) PROVE TypeOK'
    BY <2>8 DEF Release, Row
  <2>9. ASSUME NEW r \in Request, UpsertBatch(r) PROVE TypeOK'
    BY <2>9 DEF UpsertBatch
  <2>10. ASSUME NEW r \in Request, SeedFails(r) PROVE TypeOK'
    BY <2>10 DEF SeedFails
  <2>11. ASSUME NEW r \in Request, Stamp(r) PROVE TypeOK'
    BY <2>11 DEF Stamp
  <2>12. ASSUME NEW r \in Request, Enqueue(r) PROVE TypeOK'
    BY <2>12 DEF Enqueue
  <2>13. ASSUME NEW r \in Request, Crash(r) PROVE TypeOK'
    BY <2>13 DEF Crash
  <2>14. CASE Unsubscribe
    BY <2>14 DEF Unsubscribe, NoRow, NewRow, Row
  <2>15. CASE Cleanup
    BY <2>15 DEF Cleanup
  <2>16. CASE Tick
    BY <2>16 DEF Tick, Row
  <2>17. CASE UNCHANGED vars
    BY <2>17 DEF vars
  <2>18. QED
    BY <2>1, <2>2, <2>3, <2>4, <2>5, <2>6, <2>7, <2>8, <2>9, <2>10, <2>11,
       <2>12, <2>13, <2>14, <2>15, <2>16, <2>17 DEF Next, Step
<1>3. QED
  BY <1>1, <1>2, PTL DEF Spec

\* What the two updates of claim and complete leave in the row.
LEMMA ClaimedRow ==
    ASSUME row \in Row, NEW r \in Request
    PROVE  LET claimed == [row EXCEPT !.owner = r, !.age = 0]
           IN  /\ claimed.id = row.id /\ claimed.owner = r /\ claimed.age = 0
               /\ claimed.initialized = row.initialized
BY DEF Row

LEMMA ClosedRow ==
    ASSUME row \in Row
    PROVE  /\ CompletedRow.id = row.id /\ CompletedRow.owner = NoOwner
           /\ CompletedRow.age = 0 /\ CompletedRow.initialized
BY DEF Row, CompletedRow

LEMMA LeaseInvStep == LeaseInv /\ TypeOK' /\ [Next]_vars => LeaseInv'
  <1> USE LeaseAssumption DEF LeaseAssumption, LeaseInv, IdsKnown,
          InitializedIsClosed, Fenced, SeededSoFar, FreshLeaseExclusive,
          RefusedOnlyAfterLapse, OkMeansInitialized, InitializedIsSeeded,
          TypeOK, Row, RowId, Age, Place, Holding, Answered, Goto, At, dbVars, requestVars
  <1> SUFFICES ASSUME LeaseInv, TypeOK', [Next]_vars PROVE LeaseInv'
    OBVIOUS
  <1>1. ASSUME NEW r \in Request, FindSource(r) PROVE LeaseInv'
    BY <1>1 DEF FindSource
  <1>2. ASSUME NEW r \in Request, NEW hasPreview \in BOOLEAN,
               InsertRow(r, hasPreview)
        PROVE LeaseInv'
    BY <1>2 DEF InsertRow, NewRow
  <1>3. ASSUME NEW r \in Request, LookupRow(r) PROVE LeaseInv'
    BY <1>3 DEF LookupRow
  <1>4. ASSUME NEW r \in Request, Claim(r) PROVE LeaseInv'
    <2>1. CASE Claimable(sub[r])
      <3>1. /\ row' = [row EXCEPT !.owner = r, !.age = 0]
            /\ row'.id = row.id /\ row'.owner = r /\ row'.age = 0
            /\ row'.initialized = row.initialized /\ ~row.initialized
            /\ row.id = sub[r]
        <4>1. row' = [row EXCEPT !.owner = r, !.age = 0]
          BY <1>4, <2>1 DEF Claim
        <4>2. QED
          BY <2>1, <4>1, ClaimedRow DEF Claimable
      <3>2. /\ held' = [held EXCEPT ![r] = 0]
            /\ pc' = [pc EXCEPT ![r] =
                        IF preview[r] THEN "seeding" ELSE "enqueueing"]
            /\ todo' = [todo EXCEPT ![r] =
                          IF preview[r] THEN Article ELSE {}]
            /\ UNCHANGED <<rows, seen, enqueued, finished, sub>>
            /\ pc[r] = "added"
        BY <1>4, <2>1 DEF Claim
      <3>3. \A s \in Request :
               pc[s] \in Holding /\ sub[s] = row.id => held[s] > LeaseTicks
        BY <2>1, <3>1 DEF Claimable, Expired
      <3>4. IdsKnown' /\ InitializedIsClosed' /\ SeededSoFar'
        BY <3>1, <3>2
      <3>5. Fenced' /\ FreshLeaseExclusive'
        BY <3>1, <3>2, <3>3
      <3>6. RefusedOnlyAfterLapse' /\ OkMeansInitialized'
            /\ InitializedIsSeeded'
        BY <3>1, <3>2
      <3>7. QED
        BY <3>4, <3>5, <3>6
    <2>2. CASE ~Claimable(sub[r])
      BY <1>4, <2>2 DEF Claim
    <2>3. QED
      BY <2>1, <2>2
  <1>5. ASSUME NEW r \in Request, ExplainRefusal(r) PROVE LeaseInv'
    BY <1>5 DEF ExplainRefusal
  <1>6. ASSUME NEW r \in Request, NEW next \in {"ok", "failing"},
               Complete(r, next)
        PROVE LeaseInv'
    <2>1. CASE Owns(r)
      <3>1. /\ row'.id = row.id /\ row'.owner = NoOwner /\ row'.age = 0
            /\ row'.initialized
            /\ row.id = sub[r] /\ row.owner = r
        <4>1. row' = CompletedRow
          BY <1>6, <2>1 DEF Complete
        <4>2. QED
          BY <2>1, <4>1, ClosedRow DEF Owns
      <3>2. /\ pc' = [pc EXCEPT ![r] = next]
            /\ finished' = finished \cup {sub[r]}
            /\ UNCHANGED <<rows, seen, enqueued, sub, todo, held>>
            /\ pc[r] = "completing"
        BY <1>6, <2>1 DEF Complete
      <3>3. \A s \in Request :
               pc'[s] \in Holding /\ sub[s] = row.id => held[s] > LeaseTicks
        BY <3>1, <3>2
      <3>4. IdsKnown' /\ InitializedIsClosed' /\ SeededSoFar'
        BY <3>1, <3>2
      <3>5. Fenced' /\ FreshLeaseExclusive'
        BY <3>1, <3>2, <3>3
      <3>6. RefusedOnlyAfterLapse' /\ OkMeansInitialized'
            /\ InitializedIsSeeded'
        BY <3>1, <3>2
      <3>7. QED
        BY <3>4, <3>5, <3>6
    <2>2. CASE ~Owns(r)
      BY <1>6, <2>2 DEF Complete, Owns
    <2>3. QED
      BY <2>1, <2>2
  <1>7. ASSUME NEW r \in Request, CompleteFails(r) PROVE LeaseInv'
    BY <1>7 DEF CompleteFails
  <1>8. ASSUME NEW r \in Request, Release(r) PROVE LeaseInv'
    BY <1>8 DEF Release, Owns
  <1>9. ASSUME NEW r \in Request, UpsertBatch(r) PROVE LeaseInv'
    BY <1>9 DEF UpsertBatch
  <1>10. ASSUME NEW r \in Request, SeedFails(r) PROVE LeaseInv'
    BY <1>10 DEF SeedFails
  <1>11. ASSUME NEW r \in Request, Stamp(r) PROVE LeaseInv'
    BY <1>11 DEF Stamp
  <1>12. ASSUME NEW r \in Request, Enqueue(r) PROVE LeaseInv'
    BY <1>12 DEF Enqueue
  <1>13. ASSUME NEW r \in Request, Crash(r) PROVE LeaseInv'
    BY <1>13 DEF Crash
  <1>14. CASE Unsubscribe
    BY <1>14 DEF Unsubscribe, NoRow, NewRow
  <1>15. CASE Cleanup
    BY <1>15 DEF Cleanup
  <1>16. CASE Tick
    BY <1>16 DEF Tick, Older
  <1>17. CASE UNCHANGED vars
    BY <1>17 DEF vars
  <1>18. QED
    BY <1>1, <1>2, <1>3, <1>4, <1>5, <1>6, <1>7, <1>8, <1>9, <1>10, <1>11,
       <1>12, <1>13, <1>14, <1>15, <1>16, <1>17 DEF Next, Step

LEMMA LeaseInvariant == Spec => []LeaseInv
<1>1. Init => LeaseInv
  BY LeaseAssumption, Arithmetic
     DEF LeaseAssumption, Init, LeaseInv, IdsKnown, InitializedIsClosed, Fenced,
         SeededSoFar, FreshLeaseExclusive, RefusedOnlyAfterLapse,
         OkMeansInitialized, InitializedIsSeeded, TypeOK, NoRow, NewRow, Row,
         Place, Holding, Answered, At
<1>2. LeaseInv /\ TypeOK' /\ [Next]_vars => LeaseInv'
  BY LeaseInvStep
<1>3. QED
  BY <1>1, <1>2, TypeCorrect, PTL DEF Spec

\* Whatever lapsed requests still do, at most one request whose five minutes
\* are not over works on a subscription's initialization.
THEOREM FreshLeaseIsExclusive == Spec => []FreshLeaseExclusive
BY LeaseInvariant, PTL DEF LeaseInv

\* "Subscription initialization lease expired" is thrown only to a request
\* that outlived its lease or lost its subscription.
THEOREM TimelyRequestsAreNotRefused == Spec => []RefusedOnlyAfterLapse
BY LeaseInvariant, PTL DEF LeaseInv

\* A 200 answer to POST /subscribe means the subscription was initialized.
THEOREM OkIsTruthful == Spec => []OkMeansInitialized
BY LeaseInvariant, PTL DEF LeaseInv

\* An initialized subscription sees every article of its preview, or had a
\* fetch queued: a crashed, lapsed or partly failed attempt cannot complete
\* one that has neither.
THEOREM InitializedImpliesSeeded == Spec => []InitializedIsSeeded
BY LeaseInvariant, PTL DEF LeaseInv

\* What the state's records and functions are, for the steps below.
LEMMA LeaseFacts ==
    ASSUME LeaseInv
    PROVE  /\ row \in Row /\ LeaseTicks \in Nat /\ NoOwner \notin Request
           /\ pc \in [Request -> Place] /\ sub \in [Request -> Nat]
           /\ rows \in Nat /\ row.id <= rows /\ row.id \in Nat
           /\ Completed = finished
           /\ row.initialized <=> row.id \in finished
           /\ row.id = 0 => row.owner = NoOwner
           /\ \A id \in finished : id # 0 /\ id <= rows
BY LeaseAssumption DEF LeaseAssumption, LeaseInv, TypeOK, IdsKnown,
                       InitializedIsClosed, RowId, Completed, Row

\* A request that goes from place to place, seen from the abstract lease.
LEMMA Moved ==
    ASSUME pc \in [Request -> Place], sub \in [Request -> Nat],
           NEW r \in Request, NEW place \in Place, NEW x \in Nat,
           Goto(r, place), sub' = [sub EXCEPT ![r] = x]
    PROVE  /\ Activities' = [Activities EXCEPT ![r] = Activity(place)]
           /\ WorksOn' =
                [WorksOn EXCEPT ![r] =
                    IF Activity(place) \in {"working", "ending", "served"}
                    THEN x ELSE 0]
           /\ Activities[r] = Activity(pc[r])
           /\ WorksOn[r] = IF Activity(pc[r]) \in {"working", "ending", "served"}
                           THEN sub[r] ELSE 0
BY DEF Goto, Activities, WorksOn

\* The same, when the request keeps the row it works on.
LEMMA MovedOn ==
    ASSUME pc \in [Request -> Place], sub \in [Request -> Nat],
           NEW r \in Request, NEW place \in Place, Goto(r, place),
           UNCHANGED sub
    PROVE  /\ Activities' = [Activities EXCEPT ![r] = Activity(place)]
           /\ WorksOn' =
                [WorksOn EXCEPT ![r] =
                    IF Activity(place) \in {"working", "ending", "served"}
                    THEN sub[r] ELSE 0]
           /\ Activities[r] = Activity(pc[r])
           /\ WorksOn[r] = IF Activity(pc[r]) \in {"working", "ending", "served"}
                           THEN sub[r] ELSE 0
BY DEF Goto, Activities, WorksOn

\* A request may change its place and its row without the lease noticing.
LEMMA MovedUnseen ==
    ASSUME pc \in [Request -> Place], sub \in [Request -> Nat],
           NEW r \in Request, NEW place \in Place, NEW x \in Nat,
           Goto(r, place), sub' = [sub EXCEPT ![r] = x],
           Activity(place) = Activity(pc[r]),
           \/ Activity(place) = "away"
           \/ x = sub[r]
    PROVE  UNCHANGED <<Activities, WorksOn>>
BY DEF Goto, Activities, WorksOn

\* The columns of user_sources, the statements that change them and the
\* answers of the requests implement the fenced lease of module Lease.
THEOREM RefinesLease == Spec => ImplementsLease
<1>1. Init => L!LeaseInit
  BY LeaseAssumption DEF LeaseAssumption, Init, NoRow, NewRow, L!LeaseInit,
        Expired, Activity, Activities, WorksOn, Completed, Lapsed, Holding
<1>2. LeaseInv /\ LeaseInv' /\ [Next]_vars => [L!LeaseNext]_L!leaseVars
  <2> SUFFICES ASSUME LeaseInv, LeaseInv', [Next]_vars
               PROVE  [L!LeaseNext]_L!leaseVars
    OBVIOUS
  <2>0. /\ row \in Row /\ LeaseTicks \in Nat /\ NoOwner \notin Request
        /\ pc \in [Request -> Place] /\ sub \in [Request -> Nat]
        /\ rows \in Nat /\ row.id <= rows /\ row.id \in Nat
        /\ Completed = finished /\ Completed' = finished'
        /\ row.initialized <=> row.id \in finished
        /\ row.id = 0 => row.owner = NoOwner
        /\ \A id \in finished : id # 0 /\ id <= rows
    <3>1. Completed' = finished'
      BY DEF LeaseInv, InitializedIsClosed, Completed
    <3>2. QED
      BY <3>1, LeaseFacts
  <2> USE DEF L!Becomes, L!Free, L!Holds, Place, Holding, Answered, At, dbVars,
              requestVars
  <2>1. ASSUME NEW r \in Request, FindSource(r)
        PROVE  [L!LeaseNext]_L!leaseVars
    <3>1. /\ Goto(r, "found") /\ sub' = [sub EXCEPT ![r] = 0]
          /\ UNCHANGED <<row, rows, finished>> /\ pc[r] \in Answered
      BY <2>1 DEF FindSource
    <3>2. UNCHANGED <<row.id, row.owner, Lapsed, Completed, rows>>
      BY <3>1, <2>0 DEF Lapsed, Expired
    <3>3. CASE pc[r] \in {"ok", "crashed"}
      <4>1. /\ Activities' = [Activities EXCEPT ![r] = "away"]
            /\ WorksOn' = [WorksOn EXCEPT ![r] = 0]
            /\ Activities[r] \in {"served", "dead"}
        <5>1. Activity("found") = "away" /\ Activity(pc[r]) \in {"served", "dead"}
          BY <3>3 DEF Activity
        <5>2. QED
          BY <3>1, <3>3, <5>1, <2>0 DEF Goto, Activities, WorksOn
      <4>2. L!ComeBack(r)
        BY <3>1, <3>2, <4>1 DEF L!ComeBack
      <4>3. QED
        BY <4>2 DEF L!LeaseNext
    <3>4. CASE pc[r] \in {"idle", "conflict", "error"}
      <4>1. UNCHANGED <<Activities, WorksOn>>
        BY <3>1, <3>4, <2>0, MovedUnseen DEF Activity
      <4>2. QED
        BY <3>2, <4>1 DEF L!leaseVars
    <3>5. QED
      BY <3>1, <3>3, <3>4
  <2>2. ASSUME NEW r \in Request, NEW hasPreview \in BOOLEAN,
               InsertRow(r, hasPreview)
        PROVE  [L!LeaseNext]_L!leaseVars
    <3>1. CASE source # feed[r] \/ row.id # 0
      <4>1. /\ UNCHANGED <<row, rows, sub, finished>> /\ pc[r] = "found"
            /\ \E place \in {"error", "lookup"} : Goto(r, place)
        BY <2>2, <3>1 DEF InsertRow
      <4>2. UNCHANGED <<Activities, WorksOn>>
        BY <4>1, <2>0 DEF Activity, Activities, WorksOn, Goto
      <4>3. QED
        BY <4>1, <4>2, <2>0 DEF L!leaseVars, Lapsed, Expired
    <3>2. CASE source = feed[r] /\ row.id = 0
      <4>1. /\ rows' = rows + 1 /\ row' = NewRow(rows', source, hasPreview)
            /\ sub' = [sub EXCEPT ![r] = rows'] /\ Goto(r, "added")
            /\ pc[r] = "found" /\ UNCHANGED finished /\ rows' \in Nat
        BY <2>2, <3>2, <2>0 DEF InsertRow
      <4>2. UNCHANGED <<Activities, WorksOn>>
        BY <4>1, <2>0, MovedUnseen DEF Activity
      <4>3. /\ row'.id = rows' /\ row'.owner = NoOwner
            /\ row.owner = NoOwner /\ Lapsed' = Lapsed
        BY <4>1, <3>2, <2>0 DEF NewRow, Lapsed
      <4>4. L!Create
        BY <3>2, <4>1, <4>2, <4>3, <2>0 DEF L!Create
      <4>5. QED
        BY <4>4 DEF L!LeaseNext
    <3>3. QED
      BY <3>1, <3>2
  <2>3. ASSUME NEW r \in Request, LookupRow(r)
        PROVE  [L!LeaseNext]_L!leaseVars
    <3>1. UNCHANGED <<row, rows, finished>> /\ pc[r] = "lookup"
      BY <2>3 DEF LookupRow
    <3>2. UNCHANGED <<row.id, row.owner, Lapsed, Completed, rows>>
      BY <3>1, <2>0 DEF Lapsed, Expired
    <3>3. CASE row.id = 0
      <4>1. UNCHANGED <<Activities, WorksOn>>
        BY <2>3, <3>1, <3>3, <2>0 DEF LookupRow, Activity, Activities,
                                     WorksOn, Goto
      <4>2. QED
        BY <3>2, <4>1 DEF L!leaseVars
    <3>4. CASE row.id # 0 /\ row.initialized
      <4>1. Goto(r, "ok") /\ sub' = [sub EXCEPT ![r] = row.id]
        BY <2>3, <3>4 DEF LookupRow
      <4>2. L!Serve(r)
        BY <3>1, <3>2, <3>4, <4>1, <2>0, Moved DEF L!Serve, Activity
      <4>3. QED
        BY <4>2 DEF L!LeaseNext
    <3>5. CASE row.id # 0 /\ ~row.initialized
      <4>1. Goto(r, "added") /\ sub' = [sub EXCEPT ![r] = row.id]
        BY <2>3, <3>5 DEF LookupRow
      <4>2. UNCHANGED <<Activities, WorksOn>>
        BY <3>1, <4>1, <2>0, MovedUnseen DEF Activity
      <4>3. QED
        BY <3>2, <4>2 DEF L!leaseVars
    <3>6. QED
      BY <3>3, <3>4, <3>5
  <2>4. ASSUME NEW r \in Request, Claim(r)
        PROVE  [L!LeaseNext]_L!leaseVars
    <3>1. CASE Claimable(sub[r])
      <4>1. row' = [row EXCEPT !.owner = r, !.age = 0]
        BY <2>4, <3>1 DEF Claim
      <4>2. /\ row'.id = row.id /\ row'.owner = r /\ ~Lapsed'
            /\ row.id = sub[r] /\ ~row.initialized
            /\ row.owner = NoOwner \/ Lapsed
        BY <2>0, <3>1, <4>1, ClaimedRow DEF Claimable, Lapsed, Expired
      <4>3. \E place \in {"seeding", "enqueueing"} : Goto(r, place)
        BY <2>4, <3>1 DEF Claim
      <4>4. UNCHANGED <<rows, finished, sub>> /\ pc[r] = "added"
        BY <2>4, <3>1 DEF Claim
      <4>5. row.id # 0
        BY <4>2, <4>4 DEF LeaseInv, IdsKnown
      <4>6. L!Take(r)
        <5>1. PICK place \in {"seeding", "enqueueing"} : Goto(r, place)
          BY <4>3
        <5>2. Activity(place) = "working" /\ Activity(pc[r]) = "away"
          BY <4>4, <5>1 DEF Activity
        <5>3. /\ Activities' = [Activities EXCEPT ![r] = "working"]
              /\ WorksOn' = [WorksOn EXCEPT ![r] = row.id]
              /\ Activities[r] = "away"
          BY <4>2, <4>4, <5>1, <5>2, <2>0, MovedOn
        <5>4. QED
          BY <4>2, <4>4, <4>5, <5>3, <2>0 DEF L!Take
      <4>7. QED
        BY <4>6 DEF L!LeaseNext
    <3>2. CASE ~Claimable(sub[r])
      <4>1. /\ Goto(r, "refused") /\ pc[r] = "added"
            /\ UNCHANGED <<row, rows, finished, sub>>
        BY <2>4, <3>2 DEF Claim
      <4>2. UNCHANGED <<Activities, WorksOn>>
        BY <4>1, <2>0 DEF Activity, Activities, WorksOn, Goto
      <4>3. QED
        BY <4>1, <4>2, <2>0 DEF L!leaseVars, Lapsed, Expired
    <3>3. QED
      BY <3>1, <3>2
  <2>5. ASSUME NEW r \in Request, ExplainRefusal(r)
        PROVE  [L!LeaseNext]_L!leaseVars
    <3>1. UNCHANGED <<row, rows, finished, sub>> /\ pc[r] = "refused"
      BY <2>5 DEF ExplainRefusal
    <3>2. UNCHANGED <<row.id, row.owner, Lapsed, Completed, rows>>
      BY <3>1, <2>0 DEF Lapsed, Expired
    <3>3. CASE row.id = sub[r] /\ row.initialized
      <4>1. Goto(r, "ok")
        BY <2>5, <3>3 DEF ExplainRefusal
      <4>2. L!Serve(r)
        BY <3>1, <3>2, <3>3, <4>1, <2>0, MovedOn DEF L!Serve, Activity
      <4>3. QED
        BY <4>2 DEF L!LeaseNext
    <3>4. CASE ~(row.id = sub[r] /\ row.initialized)
      <4>1. Goto(r, "conflict")
        BY <2>5, <3>4 DEF ExplainRefusal
      <4>2. UNCHANGED <<Activities, WorksOn>>
        BY <3>1, <4>1, <2>0 DEF Activity, Activities, WorksOn, Goto
      <4>3. QED
        BY <3>2, <4>2 DEF L!leaseVars
    <3>5. QED
      BY <3>3, <3>4
  <2>6. ASSUME NEW r \in Request, NEW next \in {"ok", "failing"},
               Complete(r, next)
        PROVE  [L!LeaseNext]_L!leaseVars
    <3>1. CASE Owns(r)
      <4>1. row' = CompletedRow
        BY <2>6, <3>1 DEF Complete
      <4>2. /\ row'.id = row.id /\ row'.owner = NoOwner /\ ~Lapsed'
            /\ row.id = sub[r] /\ row.owner = r /\ ~row.initialized
        BY <2>0, <3>1, <4>1, ClosedRow DEF Owns, Lapsed
      <4>3. /\ Goto(r, next) /\ pc[r] = "completing"
            /\ finished' = finished \cup {row.id} /\ UNCHANGED <<rows, sub>>
        BY <2>6, <3>1, <4>2 DEF Complete
      <4>4. Activity(pc[r]) = "working" /\ Activity(next) \in {"served", "ending"}
        BY <4>3 DEF Activity
      <4>5. /\ Activities' = [Activities EXCEPT ![r] = Activity(next)]
            /\ WorksOn' = [WorksOn EXCEPT ![r] = WorksOn[r]]
            /\ Activities[r] = "working" /\ WorksOn[r] = row.id
        BY <4>2, <4>3, <4>4, <2>0, MovedOn
      <4>6. /\ L!Holds(r) /\ L!Free
            /\ UNCHANGED <<row.id, rows>>
            /\ Completed' = Completed \cup {row.id}
        BY <4>2, <4>3, <4>5, <2>0
      <4>7. L!Finish(r)
        BY <4>4, <4>5, <4>6 DEF L!Finish
      <4>8. QED
        BY <4>7 DEF L!LeaseNext
    <3>2. CASE ~Owns(r)
      <4>1. /\ Goto(r, "lapsed") /\ pc[r] = "completing"
            /\ UNCHANGED <<row, rows, finished, sub>>
        BY <2>6, <3>2 DEF Complete
      <4>2. L!Fail(r)
        BY <4>1, <2>0, MovedOn DEF L!Fail, Activity, Lapsed, Expired
      <4>3. QED
        BY <4>2 DEF L!LeaseNext
    <3>3. QED
      BY <3>1, <3>2
  <2>7. ASSUME NEW r \in Request, CompleteFails(r)
        PROVE  [L!LeaseNext]_L!leaseVars
    <3>1. /\ Goto(r, "failing") /\ pc[r] = "completing"
          /\ UNCHANGED <<row, rows, finished, sub>>
      BY <2>7 DEF CompleteFails
    <3>2. L!Fail(r)
      BY <3>1, <2>0, MovedOn DEF L!Fail, Activity, Lapsed, Expired
    <3>3. QED
      BY <3>2 DEF L!LeaseNext
  <2>8. ASSUME NEW r \in Request, Release(r)
        PROVE  [L!LeaseNext]_L!leaseVars
    <3>1. /\ Goto(r, "error") /\ pc[r] \in {"lapsed", "failing"}
          /\ UNCHANGED <<rows, finished, sub>>
      BY <2>8 DEF Release
    <3>2. /\ Activities' = [Activities EXCEPT ![r] = "away"]
          /\ WorksOn' = [WorksOn EXCEPT ![r] = 0]
          /\ Activities[r] = "ending" /\ WorksOn[r] = sub[r]
      BY <3>1, <2>0, MovedOn DEF Activity
    <3>3. Owns(r) <=> L!Holds(r)
      BY <3>2, <2>0 DEF Owns
    <3>4. row'.id = row.id
      BY <2>8, <2>0 DEF Release, Row
    <3>5. IF L!Holds(r) THEN row'.owner = NoOwner /\ ~Lapsed'
                        ELSE UNCHANGED <<row.owner, Lapsed>>
      BY <2>8, <3>3, <2>0 DEF Release, Row, Lapsed, Expired
    <3>6. L!GiveBack(r)
      BY <3>1, <3>2, <3>4, <3>5, <2>0 DEF L!GiveBack
    <3>7. QED
      BY <3>6 DEF L!LeaseNext
  <2>9. ASSUME NEW r \in Request, Enqueue(r), Goto(r, "failing")
        PROVE  [L!LeaseNext]_L!leaseVars
    <3>1. /\ Goto(r, "failing") /\ pc[r] = "enqueueing"
          /\ UNCHANGED <<row, rows, finished, sub>>
      BY <2>9 DEF Enqueue
    <3>2. L!Fail(r)
      BY <3>1, <2>0, MovedOn DEF L!Fail, Activity, Lapsed, Expired
    <3>3. QED
      BY <3>2 DEF L!LeaseNext
  <2>10. ASSUME NEW r \in Request,
                \/ UpsertBatch(r) \/ SeedFails(r) \/ Stamp(r)
                \/ Enqueue(r) /\ Goto(r, "completing")
         PROVE  [L!LeaseNext]_L!leaseVars
    <3>1. /\ UNCHANGED <<row, rows, finished, sub>> /\ pc[r] \in Holding
          /\ \E place \in Holding : pc' = [pc EXCEPT ![r] = place]
      BY <2>10, <2>0 DEF UpsertBatch, SeedFails, Stamp, Enqueue, Goto
    <3>2. UNCHANGED <<Activities, WorksOn>>
      BY <3>1, <2>0 DEF Activity, Activities, WorksOn
    <3>3. QED
      BY <3>1, <3>2, <2>0 DEF L!leaseVars, Lapsed, Expired
  <2>11. ASSUME NEW r \in Request, Crash(r)
         PROVE  [L!LeaseNext]_L!leaseVars
    <3>1. /\ Goto(r, "crashed") /\ pc[r] \notin Answered
          /\ UNCHANGED <<row, rows, finished, sub>>
      BY <2>11 DEF Crash
    <3>2. Activity(pc[r]) \in {"away", "working", "ending"}
      BY <3>1, <2>0 DEF Activity
    <3>3. L!Die(r)
      BY <3>1, <3>2, <2>0, MovedOn DEF L!Die, Activity, Lapsed, Expired
    <3>4. QED
      BY <3>3 DEF L!LeaseNext
  <2>12. CASE Unsubscribe
    <3>1. /\ row.id # 0 /\ row' = NoRow
          /\ UNCHANGED <<rows, finished, pc, sub>>
      BY <2>12 DEF Unsubscribe
    <3>2. row'.id = 0 /\ row'.owner = NoOwner /\ ~Lapsed'
      BY <3>1 DEF NoRow, NewRow, Lapsed
    <3>3. UNCHANGED <<Activities, WorksOn>>
      BY <3>1 DEF Activities, WorksOn
    <3>4. L!Discard
      BY <3>1, <3>2, <3>3, <2>0 DEF L!Discard
    <3>5. QED
      BY <3>4 DEF L!LeaseNext
  <2>13. CASE Cleanup \/ UNCHANGED vars
    <3>1. UNCHANGED <<row, rows, finished, pc, sub>>
      BY <2>13 DEF Cleanup, vars
    <3>2. QED
      BY <3>1, <2>0 DEF L!leaseVars, Lapsed, Expired, Activities, WorksOn
  <2>14. CASE Tick
    <3>1. /\ row'.id = row.id /\ row'.owner = row.owner
          /\ row'.age = IF row.owner = NoOwner THEN row.age ELSE Older(row.age)
          /\ UNCHANGED <<rows, finished, pc, sub>>
      BY <2>14, <2>0 DEF Tick, Row
    <3>2. UNCHANGED <<Activities, WorksOn>>
      BY <3>1 DEF Activities, WorksOn
    <3>3. row.age \in Nat
      BY <2>0, LeaseAssumption DEF LeaseAssumption, Row, Age
    <3>4. UNCHANGED Lapsed \/ (row.owner # NoOwner /\ Lapsed' = TRUE)
      <4>1. CASE row.owner = NoOwner
        BY <3>1, <4>1 DEF Lapsed
      <4>2. CASE row.owner # NoOwner /\ row.age > LeaseTicks
        BY <3>1, <3>3, <4>2, <2>0 DEF Lapsed, Expired, Older
      <4>3. CASE row.owner # NoOwner /\ row'.age > LeaseTicks
        BY <3>1, <4>3 DEF Lapsed, Expired
      <4>4. CASE /\ row.owner # NoOwner
                 /\ ~(row.age > LeaseTicks) /\ ~(row'.age > LeaseTicks)
        BY <3>1, <4>4 DEF Lapsed, Expired
      <4>5. QED
        BY <4>1, <4>2, <4>3, <4>4
    <3>5. CASE UNCHANGED Lapsed
      BY <3>1, <3>2, <3>5, <2>0 DEF L!leaseVars
    <3>6. CASE row.owner # NoOwner /\ Lapsed' = TRUE
      BY <3>1, <3>2, <3>6, <2>0 DEF L!Lapse, L!LeaseNext
    <3>7. QED
      BY <3>4, <3>5, <3>6
  <2>15. ASSUME NEW r \in Request, Enqueue(r)
         PROVE  Goto(r, "failing") \/ Goto(r, "completing")
    BY <2>15 DEF Enqueue
  <2>16. QED
    BY <2>1, <2>2, <2>3, <2>4, <2>5, <2>6, <2>7, <2>8, <2>9, <2>10, <2>11,
       <2>12, <2>13, <2>14, <2>15 DEF Next, Step
<1>3. QED
  BY <1>1, <1>2, LeaseInvariant, PTL DEF Spec, ImplementsLease, L!LeaseSpec
==============================================================================
