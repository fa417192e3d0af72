----------------------------- MODULE OfflineQueue ------------------------------
(***************************************************************************)
(* The service worker's queue of deletions made offline (spa/public/sw.js) *)
(* and its replay.  A deletion that cannot be sent is kept in IndexedDB    *)
(* and answered as done; replays start when the worker is activated, at a  *)
(* sync event and after every successful GET, so several may be under way, *)
(* each with the entries it read at its start.  Logging out empties the    *)
(* queue (options-admin.tsx).  The worker may be stopped at any time.      *)
(***************************************************************************)
EXTENDS Naturals, Sequences, SequencesExt

CONSTANTS
    Mutation,       \* deletions, each made once
    Needs(_),       \* what must have been deleted before: a folder is empty
    Repeatable,     \* those that succeed again; a folder that has gone is a 404
    Flush           \* replays under way

ASSUME QueueAssumption ==
    /\ \A m \in Mutation : Needs(m) \subseteq Mutation
    /\ Repeatable \subseteq Mutation

VARIABLES
    queue,      \* the object store, in the order of its keys
    replay,     \* each replay: the entries it still has, and where it is
    applied,    \* what the server has done
    told,       \* what the user was told is done
    discarded,  \* what the user was told could not be done
    unheard,    \* what was refused, with nobody there to be told
    forgotten   \* what was queued at a logout

queueVars == <<queue, replay, applied, told, discarded, unheard, forgotten>>

NoReplay == [todo |-> <<>>, pc |-> "idle"]
Replay == [todo : Seq(Mutation), pc : {"idle", "sending", "ok", "rejected", "notifying"}]

QueueTypeOK ==
    /\ queue \in Seq(Mutation) /\ IsInjective(queue)
    /\ replay \in [Flush -> Replay]
    /\ applied \subseteq Mutation /\ told \subseteq Mutation
    /\ discarded \cup unheard \cup forgotten \subseteq told

QueueInit ==
    /\ queue = <<>>
    /\ replay = [f \in Flush |-> NoReplay]
    /\ applied = {} /\ told = {} /\ discarded = {} /\ unheard = {} /\ forgotten = {}

------------------------------------------------------------------------------
(* The server: a deletion is done, or refused for good *)

Refuses(m) == ~(Needs(m) \subseteq applied) \/ (m \in applied \ Repeatable)

\* What it does with a deletion.
Handles(m) == applied' = IF Refuses(m) THEN applied ELSE applied \cup {m}

------------------------------------------------------------------------------
(* The worker *)

\* queueableMutation: the deletion does not get through, or only its answer
\* does not come back.
Enqueue(m) ==
    /\ m \notin told \cup applied
    /\ told' = told \cup {m}
    /\ queue' = Append(queue, m)
    /\ \/ UNCHANGED applied
       \/ ~Refuses(m) /\ Handles(m)
    /\ UNCHANGED <<replay, discarded, unheard, forgotten>>

\* It gets through, past whatever is queued.
Send(m) ==
    /\ m \notin told \cup applied
    /\ ~Refuses(m)
    /\ Handles(m)
    /\ UNCHANGED <<queue, replay, told, discarded, unheard, forgotten>>

\* flushQueue reads the whole queue.
StartFlush(f) ==
    /\ replay[f] = NoReplay
    /\ queue # <<>>
    /\ replay' = [replay EXCEPT ![f] = [todo |-> queue, pc |-> "sending"]]
    /\ UNCHANGED <<queue, applied, told, discarded, unheard, forgotten>>

Rest(f) == IF Len(replay[f].todo) = 1 THEN NoReplay
            ELSE [todo |-> Tail(replay[f].todo), pc |-> "sending"]

\* Faulty: a server error is taken for an answer.
AnsweredAnyhow(f) ==
    /\ replay[f].pc = "sending"
    /\ LET m == Head(replay[f].todo)
       IN \/ /\ Handles(m)
             /\ replay' = [replay EXCEPT ![f].pc = IF Refuses(m) THEN "rejected" ELSE "ok"]
          \/ /\ replay' = [replay EXCEPT ![f].pc = "ok"]
             /\ UNCHANGED applied
    /\ UNCHANGED <<queue, told, discarded, unheard, forgotten>>

\* The head is sent and answered: it is done, refused for good (4xx), or it is
\* passed over (5xx, 401).
Answered(f) ==
    /\ replay[f].pc = "sending"
    /\ LET m == Head(replay[f].todo)
       IN \/ /\ Handles(m)
             /\ replay' = [replay EXCEPT ![f].pc = IF Refuses(m) THEN "rejected" ELSE "ok"]
          \/ /\ replay' = [replay EXCEPT ![f] = Rest(f)]
             /\ UNCHANGED applied
    /\ UNCHANGED <<queue, told, discarded, unheard, forgotten>>

\* fetch throws: still offline, whether or not the server got it.
Unanswered(f) ==
    /\ replay[f].pc = "sending"
    /\ replay' = [replay EXCEPT ![f] = NoReplay]
    /\ \/ UNCHANGED applied
       \/ Handles(Head(replay[f].todo))
    /\ UNCHANGED <<queue, told, discarded, unheard, forgotten>>

\* queueDelete of the entry's key.
DeleteEntry(f) ==
    /\ replay[f].pc \in {"ok", "rejected"}
    /\ LET m == Head(replay[f].todo)
       IN \/ \E i \in DOMAIN queue : queue[i] = m /\ queue' = RemoveAt(queue, i)
          \/ m \notin ToSet(queue) /\ UNCHANGED queue
    /\ replay' = [replay EXCEPT ![f] = IF @.pc = "ok" THEN Rest(f)
                                       ELSE [@ EXCEPT !.pc = "notifying"]]
    /\ UNCHANGED <<applied, told, discarded, unheard, forgotten>>

\* notifyMutationFailed, if a page is open.
Notify(f) ==
    /\ replay[f].pc = "notifying"
    /\ LET m == Head(replay[f].todo)
       IN \/ discarded' = discarded \cup {m} /\ UNCHANGED unheard
          \/ unheard' = unheard \cup {m} /\ UNCHANGED discarded
    /\ replay' = [replay EXCEPT ![f] = Rest(f)]
    /\ UNCHANGED <<queue, applied, told, forgotten>>

\* logout clears the object store; a replay goes on with what it has read.
ClearQueue ==
    /\ queue # <<>>
    /\ forgotten' = forgotten \cup ToSet(queue)
    /\ queue' = <<>>
    /\ UNCHANGED <<replay, applied, told, discarded, unheard>>

Notifying == {Head(replay[f].todo) : f \in {g \in Flush : replay[g].pc = "notifying"}}

\* The browser stops the worker.
Stop ==
    /\ replay' = [f \in Flush |-> NoReplay]
    /\ unheard' = unheard \cup Notifying
    /\ UNCHANGED <<queue, applied, told, discarded, forgotten>>

------------------------------------------------------------------------------
QueueNext ==
    \/ \E m \in Mutation : Enqueue(m) \/ Send(m)
    \/ \E f \in Flush : StartFlush(f) \/ Answered(f) \/ Unanswered(f) \/ DeleteEntry(f)
                        \/ Notify(f)
    \/ ClearQueue \/ Stop

QueueSpec == QueueInit /\ [][QueueNext]_queueVars

------------------------------------------------------------------------------
(* Properties *)

\* What the user was told is done has been done, is still queued, was refused
\* for good, or was given up at a logout: overlapping replays, lost answers and a
\* stopped worker lose nothing.
NothingLost ==
    told \subseteq applied \cup ToSet(queue) \cup Notifying \cup discarded \cup unheard
             \cup forgotten
==============================================================================
