-------------------------------- MODULE Lease --------------------------------
(***************************************************************************)
(* What a fenced, time-limited lease on an object promises; the             *)
(* initialization lease of a subscription (SubscriptionLease) implements it.*)
(*                                                                         *)
(* An owner may take the lease of the present object when nobody holds it  *)
(* or when the holder's time is over.  Only the owner that took it last    *)
(* may give it back or finish the object, and only the object it took it   *)
(* for; an owner whose time is over keeps both rights until somebody else  *)
(* takes the lease.  A finished object stays finished, is never leased     *)
(* again, and is the only thing an owner may report as served.             *)
(***************************************************************************)
EXTENDS Naturals

CONSTANTS
    Owner,      \* those who may hold the lease
    NoOwner     \* not an owner

VARIABLES
    object,     \* the object that exists, 0 when there is none
    made,       \* how many objects have been created: ids are not reused
    holder,     \* the last owner that took the lease and has not ended it
    lapsed,     \* has the holder's time run out?
    finished,   \* the objects whose work has been finished
    at,         \* what each owner is doing
    on          \* the object it does it for

leaseVars == <<object, made, holder, lapsed, finished, at, on>>

LeaseTypeOK ==
    /\ object \in Nat
    /\ made \in Nat
    /\ holder \in Owner \cup {NoOwner}
    /\ lapsed \in BOOLEAN
    /\ finished \in SUBSET Nat
    /\ at \in [Owner -> {"away", "working", "ending", "served", "dead"}]
    /\ on \in [Owner -> Nat]

LeaseInit ==
    /\ object = 0
    /\ made = 0
    /\ holder = NoOwner
    /\ lapsed = FALSE
    /\ finished = {}
    /\ at = [o \in Owner |-> "away"]
    /\ on = [o \in Owner |-> 0]

\* o still has the lease it took: nobody took it over, the object exists and
\* is not finished.
Holds(o) == holder = o /\ object = on[o] /\ object \notin finished

Becomes(o, activity, x) ==
    /\ at' = [at EXCEPT ![o] = activity]
    /\ on' = [on EXCEPT ![o] = x]

Free == holder' = NoOwner /\ lapsed' = FALSE

Take(o) ==
    /\ at[o] = "away"
    /\ object # 0 /\ object \notin finished
    /\ holder = NoOwner \/ lapsed
    /\ holder' = o
    /\ lapsed' = FALSE
    /\ Becomes(o, "working", object)
    /\ UNCHANGED <<object, made, finished>>

\* The answer to the owner may be lost: it then goes on as if it had failed.
Finish(o) ==
    /\ at[o] = "working"
    /\ Holds(o)
    /\ Free
    /\ finished' = finished \cup {object}
    /\ \E activity \in {"served", "ending"} : Becomes(o, activity, on[o])
    /\ UNCHANGED <<object, made>>

Fail(o) ==
    /\ at[o] = "working"
    /\ Becomes(o, "ending", on[o])
    /\ UNCHANGED <<object, made, holder, lapsed, finished>>

\* The end of a failed attempt: an owner that still holds the lease gives it
\* back, another one touches nothing.
GiveBack(o) ==
    /\ at[o] = "ending"
    /\ IF Holds(o) THEN Free ELSE UNCHANGED <<holder, lapsed>>
    /\ Becomes(o, "away", 0)
    /\ UNCHANGED <<object, made, finished>>

\* The object is found finished, by this owner or by another one.
Serve(o) ==
    /\ at[o] = "away"
    /\ object \in finished
    /\ Becomes(o, "served", object)
    /\ UNCHANGED <<object, made, holder, lapsed, finished>>

\* An owner that dies leaves everything as it is.
Die(o) ==
    /\ at[o] \in {"away", "working", "ending"}
    /\ Becomes(o, "dead", 0)
    /\ UNCHANGED <<object, made, holder, lapsed, finished>>

ComeBack(o) ==
    /\ at[o] \in {"served", "dead"}
    /\ Becomes(o, "away", 0)
    /\ UNCHANGED <<object, made, holder, lapsed, finished>>

\* The holder's time runs out; nothing is taken from it yet.
Lapse ==
    /\ holder # NoOwner
    /\ lapsed' = TRUE
    /\ UNCHANGED <<object, made, holder, finished, at, on>>

\* A new object is free and not finished.
Create ==
    /\ object = 0
    /\ made' = made + 1
    /\ object' = made'
    /\ UNCHANGED <<holder, lapsed, finished, at, on>>

\* The object goes, and its lease with it; what was finished is not undone.
Discard ==
    /\ object # 0
    /\ object' = 0
    /\ Free
    /\ UNCHANGED <<made, finished, at, on>>

LeaseNext ==
    \/ \E o \in Owner : \/ Take(o) \/ Finish(o) \/ Fail(o) \/ GiveBack(o)
                        \/ Serve(o) \/ Die(o) \/ ComeBack(o)
    \/ Lapse
    \/ Create
    \/ Discard

LeaseSpec == LeaseInit /\ [][LeaseNext]_leaseVars
==============================================================================
