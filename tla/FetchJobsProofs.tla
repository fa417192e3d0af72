--------------------------- MODULE FetchJobsProofs ----------------------------
(***************************************************************************)
(* What module FetchJobs promises for any number of sources, workers and   *)
(* versions: fetches of a source are serialized by the name of its job,    *)
(* and what is stored goes back to an older version only through a writer  *)
(* that another one overtook outside the locks of the jobs.                *)
(***************************************************************************)
EXTENDS FetchJobs, FiniteSetTheorems, SequenceTheorems, TLAPS

\* The shape of the queue and of the versions, as far as the proofs need it.
Shape ==
    /\ job \in [Source -> Job]
    /\ run \in [Writer -> Run]
    /\ later \in [Writer -> SUBSET Writer]
    /\ origin \in [Source -> Version]
    /\ cache \in [Source -> Version]
    /\ stored \in [Source -> Version]
    /\ \A w \in Writer : run[w].at # "free" => run[w].src \in Source

LEMMA Versions ==
    /\ Version \subseteq Nat
    /\ 0 \in Version /\ 1 \in Version
    /\ \A v \in Version : v < MaxVersion => v + 1 \in Version
BY FetchAssumption DEF Version, FetchAssumption

LEMMA Stalls == {0, 1} \subseteq 0 .. 1
OBVIOUS

LEMMA Constructors ==
    /\ NoJob \in Job
    /\ Free \in Run
    /\ \A b \in BOOLEAN : [NoJob EXCEPT !.at = "waiting", !.skipCache = b] \in Job
    /\ \A s \in Source, b \in BOOLEAN :
          [Free EXCEPT !.at = "fetching", !.src = s, !.skipCache = b] \in Run
    /\ \A s \in Source, v \in Version :
          [Free EXCEPT !.at = "fetched", !.src = s, !.version = v] \in Run
BY Versions, Stalls DEF NoJob, Job, Free, Run

LEMMA AddJobShape ==
    ASSUME NEW jobs \in [Source -> Job], NEW s \in Source, NEW b \in BOOLEAN
    PROVE  /\ AddJob(jobs, s, b) \in [Source -> Job]
           /\ \A x \in Source : jobs[x].at # "none" => AddJob(jobs, s, b)[x] = jobs[x]
BY Constructors DEF AddJob

\* A change of some fields of a run, or of a job, gives a run, or a job.
LEMMA JobFields ==
    ASSUME NEW j \in Job
    PROVE  /\ \A w \in Worker : [j EXCEPT !.at = "active", !.lock = w] \in Job
           /\ [j EXCEPT !.at = "delayed", !.lock = Nobody] \in Job
           /\ [j EXCEPT !.at = "waiting"] \in Job
           /\ [j EXCEPT !.at = "waiting", !.lock = Nobody, !.stalls = 1] \in Job
           /\ j.skipCache \in BOOLEAN
BY Stalls DEF Job

LEMMA RunFields ==
    ASSUME NEW r \in Run
    PROVE  /\ \A v \in Version :
                [r EXCEPT !.at = "fetched", !.version = v, !.skipCache = FALSE] \in Run
           /\ [r EXCEPT !.at = "storing"] \in Run
           /\ [r EXCEPT !.orphan = TRUE] \in Run
           /\ [r EXCEPT !.overtaken = TRUE] \in Run
           /\ [r EXCEPT !.outrun = TRUE] \in Run
           /\ r.version \in Version
           /\ r.orphan \in BOOLEAN /\ r.overtaken \in BOOLEAN /\ r.outrun \in BOOLEAN
BY DEF Run

\* Two runs that differ in flags only.
Alike(r, q) == r.at = q.at /\ r.src = q.src /\ r.version = q.version

\* The fields of a run that a change of one flag, or of its place, leaves alone.
LEMMA FlagFields ==
    ASSUME NEW r \in Run
    PROVE  /\ Alike([r EXCEPT !.outrun = TRUE], r)
           /\ [r EXCEPT !.outrun = TRUE].orphan = r.orphan
           /\ [r EXCEPT !.outrun = TRUE].overtaken = r.overtaken
           /\ [r EXCEPT !.outrun = TRUE].outrun = TRUE
           /\ Alike([r EXCEPT !.orphan = TRUE], r)
           /\ [r EXCEPT !.orphan = TRUE].orphan = TRUE
           /\ [r EXCEPT !.orphan = TRUE].overtaken = r.overtaken
           /\ [r EXCEPT !.orphan = TRUE].outrun = r.outrun
           /\ Alike([r EXCEPT !.overtaken = TRUE], r)
           /\ [r EXCEPT !.overtaken = TRUE].orphan = r.orphan
           /\ [r EXCEPT !.overtaken = TRUE].overtaken = TRUE
           /\ [r EXCEPT !.overtaken = TRUE].outrun = r.outrun
           /\ [r EXCEPT !.at = "storing"].at = "storing"
           /\ [r EXCEPT !.at = "storing"].src = r.src
           /\ [r EXCEPT !.at = "storing"].version = r.version
           /\ [r EXCEPT !.at = "storing"].orphan = r.orphan
           /\ [r EXCEPT !.at = "storing"].overtaken = r.overtaken
           /\ [r EXCEPT !.at = "storing"].outrun = r.outrun
BY DEF Run, Alike

LEMMA FreeFields ==
    /\ Free.at = "free" /\ Free.src = Nobody
    /\ Free.orphan = FALSE /\ Free.overtaken = FALSE /\ Free.outrun = FALSE
    /\ NoJob.at = "none"
BY DEF Free, NoJob

------------------------------------------------------------------------------
(* What the steps do to the runs *)

\* A writer that stores marks those who observed before it.
LEMMA OutrunShape ==
    ASSUME Shape, NEW w \in Writer, NEW hasStored \in BOOLEAN
    PROVE  /\ Outrun(w, hasStored) \in [Writer -> Run]
           /\ \A x \in Writer :
                 /\ Alike(Outrun(w, hasStored)[x], run[x])
                 /\ Outrun(w, hasStored)[x].orphan = run[x].orphan
                 /\ Outrun(w, hasStored)[x].overtaken = run[x].overtaken
                 /\ run[x].outrun => Outrun(w, hasStored)[x].outrun
                 /\ hasStored /\ w \in later[x] => Outrun(w, hasStored)[x].outrun
<1>1. \A x \in Writer : run[x] \in Run
  BY DEF Shape
<1>2. ASSUME NEW x \in Writer
      PROVE  /\ Outrun(w, hasStored)[x] \in Run
             /\ Alike(Outrun(w, hasStored)[x], run[x])
             /\ Outrun(w, hasStored)[x].orphan = run[x].orphan
             /\ Outrun(w, hasStored)[x].overtaken = run[x].overtaken
             /\ run[x].outrun => Outrun(w, hasStored)[x].outrun
             /\ hasStored /\ w \in later[x] => Outrun(w, hasStored)[x].outrun
  <2>1. CASE hasStored /\ w \in later[x]
    <3>1. Outrun(w, hasStored)[x] = [run[x] EXCEPT !.outrun = TRUE]
      BY <2>1 DEF Outrun
    <3>2. /\ [run[x] EXCEPT !.outrun = TRUE] \in Run
          /\ Alike([run[x] EXCEPT !.outrun = TRUE], run[x])
          /\ [run[x] EXCEPT !.outrun = TRUE].orphan = run[x].orphan
          /\ [run[x] EXCEPT !.outrun = TRUE].overtaken = run[x].overtaken
          /\ [run[x] EXCEPT !.outrun = TRUE].outrun = TRUE
      BY <1>1, RunFields, FlagFields
    <3>. QED
      BY <3>1, <3>2
  <2>2. CASE ~(hasStored /\ w \in later[x])
    <3>1. Outrun(w, hasStored)[x] = run[x]
      BY <2>2 DEF Outrun
    <3>. QED
      BY <1>1, <2>2, <3>1 DEF Alike
  <2>. QED
    BY <2>1, <2>2
<1>3. Outrun(w, hasStored) \in [Writer -> Run]
  BY <1>2 DEF Outrun
<1>. QED
  BY <1>2, <1>3

\* What the runs of the others become when w stores, or ends, or both.
Others(w, hasStored) ==
    \A x \in Writer \ {w} :
        /\ Alike(run'[x], run[x])
        /\ run'[x].orphan = run[x].orphan
        /\ run'[x].overtaken = run[x].overtaken
        /\ run[x].outrun => run'[x].outrun
        /\ hasStored /\ w \in later[x] => run'[x].outrun
        /\ later[x] \ {w} \subseteq later'[x]

RunShape ==
    /\ run' \in [Writer -> Run]
    /\ later' \in [Writer -> SUBSET Writer]
    /\ \A w \in Writer : run'[w].at # "free" => run'[w].src \in Source

LEMMA LeaveShape ==
    ASSUME Shape, NEW w \in Writer, NEW hasStored \in BOOLEAN, Leave(w, hasStored)
    PROVE  RunShape /\ run'[w].at = "free" /\ run'[w].orphan = FALSE
           /\ Others(w, hasStored)
<1>1. /\ run'[w] = Free
      /\ \A x \in Writer \ {w} : run'[x] = Outrun(w, hasStored)[x]
      /\ run' \in [Writer -> Run]
  BY OutrunShape, Constructors DEF Leave
<1>2. later' \in [Writer -> SUBSET Writer]
      /\ \A x \in Writer \ {w} : later'[x] = later[x] \ {w}
  BY DEF Leave, Shape
<1>3. Others(w, hasStored)
  BY <1>1, <1>2, OutrunShape DEF Others
<1>4. \A x \in Writer : run'[x].at # "free" => run'[x].src \in Source
  BY <1>1, <1>3, FreeFields DEF Others, Alike, Shape
<1>. QED
  BY <1>1, <1>2, <1>3, <1>4, FreeFields DEF RunShape

\* The same for a subscription that will be resumed.
LEMMA StayShape ==
    ASSUME Shape, NEW w \in Writer, NEW hasStored \in BOOLEAN,
           run' = Outrun(w, hasStored), UNCHANGED later
    PROVE  /\ RunShape /\ Others(w, hasStored)
           /\ Alike(run'[w], run[w]) /\ run'[w].orphan = run[w].orphan
           /\ run'[w].overtaken = run[w].overtaken
           /\ run[w].outrun => run'[w].outrun
<1>1. Others(w, hasStored)
  BY OutrunShape DEF Others
<1>2. run' \in [Writer -> Run] /\ later' \in [Writer -> SUBSET Writer]
  BY OutrunShape DEF Shape
<1>3. \A x \in Writer : run'[x].at # "free" => run'[x].src \in Source
  BY OutrunShape DEF Alike, Shape
<1>. QED
  BY <1>1, <1>2, <1>3, OutrunShape DEF RunShape

\* A finished processor's job is gone, unless it lost the lock.
LEMMA FinishShape ==
    ASSUME Shape, NEW w \in Writer, NEW hasStored \in BOOLEAN,
           run[w].at # "free", Finish(w, hasStored)
    PROVE  /\ job' \in [Source -> Job]
           /\ Leave(w, hasStored)
           /\ \A s \in Source :
                 job'[s] = job[s] \/ (job[s].lock = w /\ job'[s] = NoJob)
BY Constructors DEF Finish, Shape

\* A writer that observes, and those it overtakes.
LEMMA ObserveShape ==
    ASSUME Shape, NEW w \in Writer, Observe(w)
    PROVE  /\ RunShape
           /\ run[w].at = "fetched" /\ run'[w].at = "storing"
           /\ run'[w].src = run[w].src /\ run'[w].version = run[w].version
           /\ run'[w].orphan = run[w].orphan
           /\ run'[w].overtaken = run[w].overtaken /\ run'[w].outrun = run[w].outrun
           /\ \A x \in Writer \ {w} :
                 /\ Alike(run'[x], run[x])
                 /\ run'[x].orphan = run[x].orphan
                 /\ run'[x].outrun = run[x].outrun
                 /\ run[x].overtaken => run'[x].overtaken
                 /\ run[x].at = "fetched" /\ run[x].src = run[w].src
                       /\ ~(Locked(x) /\ Locked(w))
                    => run'[x].overtaken
           /\ \A x \in Writer :
                 /\ later[x] \subseteq later'[x]
                 /\ run[x].at = "storing" /\ run[x].src = run[w].src
                    => w \in later'[x]
<1>1. \A x \in Writer : run[x] \in Run
  BY DEF Shape
<1>2. run'[w] = [run[w] EXCEPT !.at = "storing"] /\ run[w].at = "fetched"
  BY DEF Observe
<1>3. ASSUME NEW x \in Writer \ {w}
      PROVE  /\ run'[x] \in Run
             /\ Alike(run'[x], run[x])
             /\ run'[x].orphan = run[x].orphan
             /\ run'[x].outrun = run[x].outrun
             /\ run[x].overtaken => run'[x].overtaken
             /\ run[x].at = "fetched" /\ run[x].src = run[w].src
                   /\ ~(Locked(x) /\ Locked(w))
                => run'[x].overtaken
  <2>1. CASE /\ run[x].at = "fetched" /\ run[x].src = run[w].src
             /\ ~(Locked(x) /\ Locked(w))
    <3>1. run'[x] = [run[x] EXCEPT !.overtaken = TRUE]
      BY <2>1 DEF Observe
    <3>2. /\ [run[x] EXCEPT !.overtaken = TRUE] \in Run
          /\ Alike([run[x] EXCEPT !.overtaken = TRUE], run[x])
          /\ [run[x] EXCEPT !.overtaken = TRUE].orphan = run[x].orphan
          /\ [run[x] EXCEPT !.overtaken = TRUE].outrun = run[x].outrun
          /\ [run[x] EXCEPT !.overtaken = TRUE].overtaken = TRUE
      BY <1>1, RunFields, FlagFields
    <3>. QED
      BY <3>1, <3>2
  <2>2. CASE ~(/\ run[x].at = "fetched" /\ run[x].src = run[w].src
               /\ ~(Locked(x) /\ Locked(w)))
    <3>1. run'[x] = run[x]
      BY <2>2 DEF Observe
    <3>. QED
      BY <1>1, <2>2, <3>1 DEF Alike
  <2>. QED
    BY <2>1, <2>2
<1>4. run' \in [Writer -> Run]
  <2>1. run'[w] \in Run
    BY <1>1, <1>2, RunFields
  <2>. QED
    BY <1>3, <2>1 DEF Observe
<1>5. later' \in [Writer -> SUBSET Writer]
      /\ \A x \in Writer :
            /\ later[x] \subseteq later'[x]
            /\ run[x].at = "storing" /\ run[x].src = run[w].src => w \in later'[x]
  BY DEF Observe, Shape
<1>6. /\ run'[w].at = "storing" /\ run'[w].src = run[w].src
      /\ run'[w].version = run[w].version /\ run'[w].orphan = run[w].orphan
      /\ run'[w].overtaken = run[w].overtaken /\ run'[w].outrun = run[w].outrun
  BY <1>1, <1>2, FlagFields
<1>7. \A x \in Writer : run'[x].at # "free" => run'[x].src \in Source
  BY <1>2, <1>3, <1>6 DEF Shape, Alike
<1>. QED
  BY <1>2, <1>3, <1>4, <1>5, <1>6, <1>7 DEF RunShape

\* A worker that loses the lock of its job keeps everything else.
LEMMA StallShape ==
    ASSUME Shape, NEW s \in Source, Stall(s)
    PROVE  /\ RunShape
           /\ UNCHANGED later
           /\ \A x \in Writer :
                 /\ Alike(run'[x], run[x])
                 /\ run'[x].overtaken = run[x].overtaken
                 /\ run'[x].outrun = run[x].outrun
                 /\ run[x].orphan => run'[x].orphan
                 /\ job[s].lock = x /\ run[x].src = s => run'[x].orphan
<1>1. \A x \in Writer : run[x] \in Run
  BY DEF Shape
<1>2. ASSUME NEW x \in Writer
      PROVE  /\ run'[x] \in Run
             /\ Alike(run'[x], run[x])
             /\ run'[x].overtaken = run[x].overtaken
             /\ run'[x].outrun = run[x].outrun
             /\ run[x].orphan => run'[x].orphan
             /\ job[s].lock = x /\ run[x].src = s => run'[x].orphan
  <2>1. CASE job[s].lock = x /\ run[x].src = s
    <3>1. run'[x] = [run[x] EXCEPT !.orphan = TRUE]
      BY <2>1 DEF Stall
    <3>2. /\ [run[x] EXCEPT !.orphan = TRUE] \in Run
          /\ Alike([run[x] EXCEPT !.orphan = TRUE], run[x])
          /\ [run[x] EXCEPT !.orphan = TRUE].overtaken = run[x].overtaken
          /\ [run[x] EXCEPT !.orphan = TRUE].outrun = run[x].outrun
          /\ [run[x] EXCEPT !.orphan = TRUE].orphan = TRUE
      BY <1>1, RunFields, FlagFields
    <3>. QED
      BY <3>1, <3>2
  <2>2. CASE ~(job[s].lock = x /\ run[x].src = s)
    <3>1. run'[x] = run[x]
      BY <2>2 DEF Stall
    <3>. QED
      BY <1>1, <2>2, <3>1 DEF Alike
  <2>. QED
    BY <2>1, <2>2
<1>3. run' \in [Writer -> Run] /\ later' = later
  BY <1>2 DEF Stall
<1>4. \A x \in Writer : run'[x].at # "free" => run'[x].src \in Source
  BY <1>2 DEF Shape, Alike
<1>. QED
  BY <1>2, <1>3, <1>4 DEF RunShape, Shape

\* Stores write the version a writer holds, unless it was outrun.
LEMMA StoreShape ==
    ASSUME Shape, NEW w \in Writer, run[w].at # "free", Store(w)
    PROVE  /\ stored' \in [Source -> Version]
           /\ \A s \in Source \ {run[w].src} : stored'[s] = stored[s]
           /\ stored'[run[w].src] =
                IF run[w].outrun THEN stored[run[w].src] ELSE run[w].version
<1>1. run[w] \in Run /\ run[w].src \in Source
  BY DEF Shape
<1>2. run[w].version \in Version
  BY <1>1, RunFields
<1>. QED
  BY <1>1, <1>2 DEF Store, Shape

LEMMA AskOriginShape ==
    ASSUME Shape, NEW s \in Source, AskOrigin(s)
    PROVE  /\ cache' \in [Source -> Version]
           /\ \A x \in Source \ {s} : cache'[x] = cache[x]
           /\ cache'[s] = 0 \/ cache'[s] = origin[s]
BY Versions DEF AskOrigin, Shape

\* The answer to whoever asks for a feed, and what it leaves in the cache.
LEMMA AnswerShape ==
    ASSUME Shape, NEW s \in Source, NEW b \in BOOLEAN, NEW v \in Version,
           Answer(s, b, v)
    PROVE  /\ cache' \in [Source -> Version]
           /\ \A x \in Source \ {s} : cache'[x] = cache[x]
           /\ \/ cache' = cache /\ cache[s] # 0 /\ v = cache[s]
              \/ v = origin[s] /\ (cache'[s] = 0 \/ cache'[s] = origin[s])
BY AskOriginShape DEF Answer, Shape

\* A writer that has fetched: a worker, or a user who has a preview.
LEMMA FetchedShape ==
    ASSUME Shape, NEW w \in Writer, NEW r \in Run, r.src \in Source,
           run' = [run EXCEPT ![w] = r], UNCHANGED later
    PROVE  RunShape /\ run'[w] = r /\ \A x \in Writer \ {w} : run'[x] = run[x]
BY DEF RunShape, Shape

LEMMA FetchShape ==
    ASSUME Shape, NEW w \in Worker, Fetch(w)
    PROVE  \E v \in Version :
              /\ Answer(run[w].src, run[w].skipCache, v)
              /\ RunShape
              /\ run'[w].at = "fetched" /\ run'[w].src = run[w].src
              /\ run'[w].version = v /\ run'[w].orphan = run[w].orphan
              /\ \A x \in Writer \ {w} : run'[x] = run[x]
              /\ UNCHANGED <<job, later, origin, stored>>
<1>1. w \in Writer /\ run[w] \in Run /\ run[w].src \in Source
  BY DEF Writer, Shape, Fetch
<1>2. PICK v \in Version :
         /\ Answer(run[w].src, run[w].skipCache, v)
         /\ run' = [run EXCEPT ![w].at = "fetched", ![w].version = v,
                               ![w].skipCache = FALSE]
  BY DEF Fetch
<1>. DEFINE r == [run[w] EXCEPT !.at = "fetched", !.version = v, !.skipCache = FALSE]
<1>3. /\ r \in Run /\ r.at = "fetched" /\ r.src = run[w].src
      /\ r.version = v /\ r.orphan = run[w].orphan
  BY <1>1, RunFields DEF Run
<1>4. run' = [run EXCEPT ![w] = r] /\ UNCHANGED <<job, later, origin, stored>>
  BY <1>1, <1>2 DEF Fetch, Shape
<1>. HIDE DEF r
<1>. QED
  BY <1>1, <1>2, <1>3, <1>4, FetchedShape

LEMMA PreviewShape ==
    ASSUME Shape, NEW u \in Subscriber, NEW s \in Source, Preview(u, s)
    PROVE  \E v \in Version :
              /\ Answer(s, FALSE, v)
              /\ RunShape
              /\ run'[u].at = "fetched" /\ run'[u].src = s /\ run'[u].version = v
              /\ \A x \in Writer \ {u} : run'[x] = run[x]
              /\ UNCHANGED <<job, later, origin, stored>>
<1>1. PICK v \in Version :
         /\ Answer(s, FALSE, v)
         /\ run' = [run EXCEPT ![u] = [Free EXCEPT !.at = "fetched", !.src = s,
                                                   !.version = v]]
  BY DEF Preview
<1>. DEFINE r == [Free EXCEPT !.at = "fetched", !.src = s, !.version = v]
<1>2. r \in Run /\ r.at = "fetched" /\ r.src = s /\ r.version = v
  BY Constructors DEF Free
<1>3. run' = [run EXCEPT ![u] = r] /\ UNCHANGED <<job, later, origin, stored>>
  BY <1>1 DEF Preview
<1>. HIDE DEF r
<1>4. u \in Writer /\ Answer(s, FALSE, v)
  BY <1>1 DEF Writer
<1>5. RunShape /\ run'[u] = r /\ \A x \in Writer \ {u} : run'[x] = run[x]
  BY <1>2, <1>3, <1>4, FetchedShape
<1>. QED
  BY <1>2, <1>3, <1>4, <1>5

\* A writer that stores, or ends without having stored; a subscription may also
\* stay to be resumed.
Ends(w) == run'[w].at = "free" /\ run'[w].orphan = FALSE
Stays(w) == /\ Alike(run'[w], run[w]) /\ run'[w].orphan = run[w].orphan
            /\ run'[w].overtaken = run[w].overtaken
            /\ run[w].outrun => run'[w].outrun
            /\ later' = later
Stored(w) == /\ run[w].at = "storing" /\ Store(w) /\ RunShape
             /\ Others(w, TRUE) /\ (Ends(w) \/ Stays(w))
             /\ UNCHANGED <<origin, cache>>
Ended(w) == /\ RunShape /\ Others(w, FALSE) /\ (Ends(w) \/ Stays(w))
            /\ UNCHANGED <<origin, cache, stored>>
\* What becomes of the jobs.
JobKept(w) ==
    /\ job' \in [Source -> Job]
    /\ \A s \in Source : \/ job'[s] = job[s]
                         \/ job[s].at = "none"
                         \/ job[s].lock = w

LEMMA WorkerShape ==
    ASSUME Shape, NEW w \in Worker,
           \/ \E lifetime \in Freshness : Succeed(w, lifetime)
           \/ \E recorded, partly \in BOOLEAN : Fail(w, recorded, partly)
           \/ \E moved \in BOOLEAN : Defer(w, moved)
           \/ Crash(w)
    PROVE  /\ run[w].at # "free" /\ Ends(w) /\ (Stored(w) \/ Ended(w))
           /\ JobKept(w) \/ job' = job
<1>0. w \in Writer
  BY DEF Writer
<1>1. ASSUME NEW lifetime \in Freshness, Succeed(w, lifetime)
      PROVE  /\ run[w].at # "free" /\ Ends(w) /\ Stored(w) /\ JobKept(w)
  <2>1. /\ run[w].at = "storing" /\ Store(w) /\ Finish(w, TRUE)
        /\ UNCHANGED <<origin, cache>>
    BY <1>1 DEF Succeed
  <2>2. Leave(w, TRUE) /\ JobKept(w)
    BY <1>0, <2>1, FinishShape DEF JobKept
  <2>. QED
    BY <1>0, <2>1, <2>2, LeaveShape DEF Ends, Stored
<1>2. ASSUME NEW recorded \in BOOLEAN, NEW partly \in BOOLEAN, Fail(w, recorded, partly)
      PROVE  /\ run[w].at # "free" /\ Ends(w) /\ (Stored(w) \/ Ended(w)) /\ JobKept(w)
  <2>1. /\ run[w].at # "free" /\ Finish(w, partly) /\ UNCHANGED <<origin, cache>>
        /\ partly => run[w].at = "storing" /\ Store(w)
        /\ ~partly => stored' = stored
    BY <1>2 DEF Fail
  <2>2. Leave(w, partly) /\ JobKept(w)
    BY <1>0, <2>1, FinishShape DEF JobKept
  <2>3. RunShape /\ Ends(w) /\ Others(w, partly)
    BY <1>0, <2>2, LeaveShape DEF Ends
  <2>4. CASE partly = TRUE
    BY <2>1, <2>2, <2>3, <2>4 DEF Stored
  <2>5. CASE partly = FALSE
    BY <2>1, <2>2, <2>3, <2>5 DEF Ended
  <2>. QED
    BY <2>4, <2>5
<1>3. ASSUME NEW moved \in BOOLEAN, Defer(w, moved)
      PROVE  /\ run[w].at # "free" /\ Ends(w) /\ Ended(w) /\ JobKept(w)
  <2>1. run[w].at # "free" /\ run[w].src \in Source /\ UNCHANGED <<origin, cache, stored>>
    BY <1>0, <1>3 DEF Defer, feedVars, Shape
  <2>2. CASE moved
    <3>1. /\ job[run[w].src].lock = w /\ Leave(w, FALSE)
          /\ job' = [job EXCEPT ![run[w].src].at = "delayed",
                                ![run[w].src].lock = Nobody]
      BY <1>3, <2>2 DEF Defer
    <3>2. [job[run[w].src] EXCEPT !.at = "delayed", !.lock = Nobody] \in Job
      BY <2>1, JobFields DEF Shape
    <3>3. JobKept(w)
      BY <2>1, <3>1, <3>2 DEF JobKept, Shape
    <3>. QED
      BY <1>0, <2>1, <3>1, <3>3, LeaveShape DEF Ends, Ended
  <2>3. CASE ~moved
    <3>1. Finish(w, FALSE)
      BY <1>3, <2>3 DEF Defer
    <3>2. Leave(w, FALSE) /\ JobKept(w)
      BY <1>0, <2>1, <3>1, FinishShape DEF JobKept
    <3>. QED
      BY <1>0, <2>1, <3>2, LeaveShape DEF Ends, Ended
  <2>. QED
    BY <2>2, <2>3
<1>4. ASSUME Crash(w)
      PROVE  run[w].at # "free" /\ Ends(w) /\ Ended(w) /\ job' = job
  BY <1>0, <1>4, LeaveShape DEF Crash, feedVars, Ends, Ended
<1>. QED
  BY <1>1, <1>2, <1>3, <1>4

LEMMA SubscriberShape ==
    ASSUME Shape, NEW u \in Subscriber,
           \/ Abandon(u)
           \/ \E lifetime \in Freshness, done \in BOOLEAN : Seed(u, lifetime, done)
           \/ \E partly, queued \in BOOLEAN : SeedFails(u, partly, queued)
    PROVE  run[u].at # "free" /\ (Stored(u) \/ Ended(u)) /\ (JobKept(u) \/ job' = job)
<1>0. u \in Writer
  BY DEF Writer
<1>1. CASE Abandon(u)
  BY <1>0, <1>1, LeaveShape DEF Abandon, feedVars, Ends, Ended
<1>2. ASSUME NEW lifetime \in Freshness, NEW done \in BOOLEAN, Seed(u, lifetime, done)
      PROVE  run[u].at # "free" /\ Stored(u) /\ job' = job
  <2>1. run[u].at = "storing" /\ Store(u) /\ UNCHANGED <<job, origin, cache>>
    BY <1>2 DEF Seed
  <2>2. CASE done
    BY <1>0, <1>2, <2>1, <2>2, LeaveShape DEF Seed, Ends, Stored
  <2>3. CASE ~done
    BY <1>0, <1>2, <2>1, <2>3, StayShape DEF Seed, Stays, Stored
  <2>. QED
    BY <2>2, <2>3
<1>3. ASSUME NEW partly \in BOOLEAN, NEW queued \in BOOLEAN, SeedFails(u, partly, queued)
      PROVE  run[u].at # "free" /\ (Stored(u) \/ Ended(u)) /\ (JobKept(u) \/ job' = job)
  <2>1. /\ run[u].at = "storing" /\ UNCHANGED <<origin, cache>>
        /\ partly => Store(u)
        /\ ~partly => stored' = stored
    BY <1>3 DEF SeedFails
  <2>2. RunShape /\ Others(u, partly) /\ (Ends(u) \/ Stays(u)) /\ (JobKept(u) \/ job' = job)
    <3>1. CASE queued
      <4>1. Leave(u, partly) /\ job' = AddJob(job, run[u].src, TRUE)
        BY <1>3, <3>1 DEF SeedFails
      <4>2. JobKept(u)
        BY <1>0, <2>1, <4>1, AddJobShape DEF JobKept, Shape
      <4>. QED
        BY <1>0, <4>1, <4>2, LeaveShape DEF Ends
    <3>2. CASE ~queued
      <4>1. run' = Outrun(u, partly) /\ UNCHANGED <<job, later>>
        BY <1>3, <3>2 DEF SeedFails
      <4>. QED
        BY <1>0, <4>1, StayShape DEF Stays
    <3>. QED
      BY <3>1, <3>2
  <2>3. CASE partly = TRUE
    BY <2>1, <2>2, <2>3 DEF Stored
  <2>4. CASE partly = FALSE
    BY <2>1, <2>2, <2>4 DEF Ended
  <2>. QED
    BY <2>1, <2>2, <2>3, <2>4
<1>. QED
  BY <1>1, <1>2, <1>3

\* Steps that concern the jobs, the rows and the origin only.
LEMMA OtherShape ==
    ASSUME Shape,
           \/ \E s \in Source : \/ EnqueueManual(s) \/ HubPush(s) \/ Wake(s)
                                \/ ChangeKind(s) \/ Publish(s) \/ Browse(s)
                                \/ CacheExpires(s)
           \/ GatherSelect \/ GatherAdd \/ Tick \/ UNCHANGED vars
    PROVE  /\ UNCHANGED <<run, later, stored>>
           /\ job' \in [Source -> Job]
           /\ \A s \in Source : job[s].at = "active" => job'[s] = job[s]
           /\ \/ UNCHANGED <<origin, cache>>
              \/ \E s \in Source : Publish(s) \/ Browse(s) \/ CacheExpires(s)
<1>1. ASSUME NEW s \in Source, EnqueueManual(s) \/ HubPush(s)
      PROVE  /\ UNCHANGED <<run, later, origin, cache, stored>> /\ job' \in [Source -> Job]
             /\ \A x \in Source : job[x].at = "active" => job'[x] = job[x]
  <2>1. job' = AddJob(job, s, TRUE) /\ UNCHANGED <<run, later, origin, cache, stored>>
    BY <1>1 DEF EnqueueManual, HubPush, feedVars
  <2>. QED
    BY <2>1, AddJobShape DEF Shape
<1>2. ASSUME GatherAdd
      PROVE  /\ UNCHANGED <<run, later, origin, cache, stored>> /\ job' \in [Source -> Job]
             /\ \A x \in Source : job[x].at = "active" => job'[x] = job[x]
  <2>1. /\ UNCHANGED <<run, later, origin, cache, stored>>
        /\ \A s \in Source : job'[s] = AddJob(job, s, FALSE)[s] \/ job'[s] = job[s]
    BY <1>2 DEF GatherAdd, feedVars
  <2>2. \A s \in Source : AddJob(job, s, FALSE) \in [Source -> Job]
    BY AddJobShape DEF Shape
  <2>3. job' \in [Source -> Job]
    BY <1>2, <2>2 DEF GatherAdd, Shape
  <2>. QED
    BY <2>1, <2>3, AddJobShape DEF Shape
<1>3. ASSUME NEW s \in Source, Wake(s)
      PROVE  /\ UNCHANGED <<run, later, origin, cache, stored>> /\ job' \in [Source -> Job]
             /\ \A x \in Source : job[x].at = "active" => job'[x] = job[x]
  BY <1>3, JobFields DEF Wake, feedVars, Shape
<1>4. ASSUME \/ \E s \in Source : \/ ChangeKind(s) \/ Publish(s) \/ Browse(s)
                                  \/ CacheExpires(s)
             \/ GatherSelect \/ Tick \/ UNCHANGED vars
      PROVE  /\ UNCHANGED <<job, run, later, stored>>
             /\ \/ UNCHANGED <<origin, cache>>
                \/ \E s \in Source : Publish(s) \/ Browse(s) \/ CacheExpires(s)
  BY <1>4 DEF ChangeKind, Publish, Browse, CacheExpires, GatherSelect, Tick,
              queueVars, feedVars, vars
<1>. QED
  BY <1>1, <1>2, <1>3, <1>4 DEF Shape

THEOREM ShapeCorrect == Spec => []Shape
<1>1. Init => Shape
  <2> SUFFICES ASSUME Init PROVE Shape
    OBVIOUS
  <2>1. job \in [Source -> Job] /\ run \in [Writer -> Run] /\ later \in [Writer -> SUBSET Writer]
    BY Constructors DEF Init
  <2>2. \A w \in Writer : run[w].at = "free"
    BY FreeFields DEF Init
  <2> QED
    BY <2>1, <2>2, Versions DEF Init, Shape
<1>2. Shape /\ [Next]_vars => Shape'
  <2> SUFFICES ASSUME Shape, [Next]_vars PROVE Shape'
    OBVIOUS
  <2>0. Worker \subseteq Writer /\ Subscriber \subseteq Writer
    BY DEF Writer
  <2>1. CASE \/ \E s \in Source : \/ EnqueueManual(s) \/ HubPush(s) \/ Wake(s)
                                  \/ ChangeKind(s) \/ Publish(s) \/ Browse(s)
                                  \/ CacheExpires(s)
             \/ GatherSelect \/ GatherAdd \/ Tick \/ UNCHANGED vars
    <3>1. UNCHANGED <<run, later, stored>> /\ job' \in [Source -> Job]
      BY <2>1, OtherShape
    <3>2. origin' \in [Source -> Version] /\ cache' \in [Source -> Version]
      <4>1. ASSUME NEW s \in Source, Publish(s)
            PROVE  origin' \in [Source -> Version] /\ cache' = cache
        BY <4>1, Versions DEF Publish, Shape, Version
      <4>2. ASSUME NEW s \in Source, Browse(s)
            PROVE  cache' \in [Source -> Version] /\ origin' = origin
        BY <4>2, AskOriginShape DEF Browse
      <4>3. ASSUME NEW s \in Source, CacheExpires(s)
            PROVE  cache' \in [Source -> Version] /\ origin' = origin
        BY <4>3, Versions DEF CacheExpires, Shape
      <4>. QED
        BY <2>1, <4>1, <4>2, <4>3, OtherShape DEF Shape
    <3>. QED
      BY <3>1, <3>2 DEF Shape
  <2>2. ASSUME NEW w \in Worker, NEW s \in Source, Take(w, s) PROVE Shape'
    <3>1. job' \in [Source -> Job]
      BY <2>2, JobFields DEF Take, Shape
    <3>2. job[s].skipCache \in BOOLEAN
      BY JobFields DEF Shape
    <3>3. /\ run' \in [Writer -> Run]
          /\ \A x \in Writer : run'[x].at # "free" => run'[x].src \in Source
      BY <2>0, <2>2, <3>2, Constructors DEF Take, Free, Shape
    <3> QED
      BY <2>2, <3>1, <3>3 DEF Take, feedVars, Shape
  <2>3. ASSUME NEW w \in Worker, Fetch(w) PROVE Shape'
    <3>1. run[w].src \in Source /\ run[w].skipCache \in BOOLEAN
      BY <2>0, <2>3 DEF Fetch, Shape, Run
    <3>2. PICK v \in Version :
             /\ Answer(run[w].src, run[w].skipCache, v) /\ RunShape
             /\ UNCHANGED <<job, later, origin, stored>>
      BY <2>3, FetchShape
    <3> QED
      BY <3>1, <3>2, AnswerShape DEF Shape, RunShape
  <2>4. ASSUME NEW u \in Subscriber, NEW s \in Source, Preview(u, s) PROVE Shape'
    <3>1. PICK v \in Version :
             /\ Answer(s, FALSE, v) /\ RunShape
             /\ UNCHANGED <<job, later, origin, stored>>
      BY <2>4, PreviewShape
    <3> QED
      BY <3>1, AnswerShape DEF Shape, RunShape
  <2>5. ASSUME NEW w \in Writer, Observe(w) PROVE Shape'
    BY <2>5, ObserveShape DEF Observe, feedVars, Shape, RunShape
  <2>6. ASSUME NEW w \in Writer, run[w].at # "free", Stored(w) \/ Ended(w),
               JobKept(w) \/ job' = job
        PROVE  Shape'
    <3>1. stored' \in [Source -> Version] /\ UNCHANGED <<origin, cache>> /\ RunShape
      BY <2>6, StoreShape DEF Stored, Ended, Shape
    <3>. QED
      BY <2>6, <3>1 DEF Shape, RunShape, JobKept
  <2>7. ASSUME NEW s \in Source, Stall(s) PROVE Shape'
    <3>1. job' \in [Source -> Job]
      BY <2>7, JobFields, Constructors DEF Stall, Shape
    <3> QED
      BY <2>7, <3>1, StallShape DEF Stall, feedVars, Shape, RunShape
  <2>8. ASSUME NEW w \in Worker, Parse(w) \/ Crash(w) PROVE Shape'
    BY <2>0, <2>3, <2>5, <2>6, <2>8, WorkerShape DEF Parse
  <2>9. ASSUME NEW u \in Subscriber, Reads(u) PROVE Shape'
    BY <2>0, <2>4, <2>5, <2>6, <2>9, SubscriberShape DEF Reads, Subscribe
  <2> QED
    BY <2>1, <2>2, <2>7, <2>8, <2>9 DEF Next
<1> QED
  BY <1>1, <1>2, PTL DEF Spec

------------------------------------------------------------------------------
(* One fetch of a source at a time *)

\* A worker that has not lost the lock of its job is named by that lock.
LockInv ==
    \A w \in Worker :
        run[w].at # "free" /\ ~run[w].orphan
        => job[run[w].src].at = "active" /\ job[run[w].src].lock = w

\* Who had the lock of its job has it still, or has taken notice.
LEMMA LocksAreKept ==
    ASSUME Shape, LockInv,
           \A x \in Worker :
              run'[x].at # "free" /\ ~run'[x].orphan
              => /\ run[x].at # "free" /\ ~run[x].orphan /\ run'[x].src = run[x].src
                 /\ job[run[x].src].at = "active" /\ job[run[x].src].lock = x
                    => job'[run[x].src] = job[run[x].src]
    PROVE  LockInv'
BY DEF LockInv

THEOREM LocksNameTheirWorkers == Spec => []LockInv
<1>1. Init => LockInv
  BY FreeFields DEF Init, LockInv, Writer
<1>2. Shape /\ LockInv /\ [Next]_vars => LockInv'
  <2> SUFFICES ASSUME Shape, LockInv, [Next]_vars PROVE LockInv'
    OBVIOUS
  <2>0. /\ Worker \subseteq Writer /\ Subscriber \subseteq Writer
        /\ \A u \in Subscriber : u \notin Worker
        /\ \A w \in Writer : run[w] \in Run /\ (run[w].at # "free" => run[w].src \in Source)
        /\ \A s \in Source : /\ job[s] \in Job
                             /\ job[s].lock \notin Worker => job[s].lock = Nobody
                             /\ Nobody \notin Worker
    BY FetchAssumption DEF Shape, Writer, Job
  <2>1. CASE \/ \E s \in Source : \/ EnqueueManual(s) \/ HubPush(s) \/ Wake(s)
                                  \/ ChangeKind(s) \/ Publish(s) \/ Browse(s)
                                  \/ CacheExpires(s)
             \/ GatherSelect \/ GatherAdd \/ Tick \/ UNCHANGED vars
    <3>1. run' = run /\ \A s \in Source : job[s].at = "active" => job'[s] = job[s]
      BY <2>1, OtherShape
    <3> QED
      BY <2>0, <3>1, LocksAreKept
  <2>2. ASSUME NEW w \in Worker, NEW s \in Source, Take(w, s) PROVE LockInv'
    <3>1. /\ job[s].at = "waiting"
          /\ job'[s].at = "active" /\ job'[s].lock = w
          /\ \A x \in Source \ {s} : job'[x] = job[x]
      BY <2>2 DEF Take, Job, Shape
    <3>2. run'[w].src = s /\ \A x \in Worker \ {w} : run'[x] = run[x]
      BY <2>0, <2>2 DEF Take, Free, Shape
    <3> QED
      BY <2>0, <3>1, <3>2 DEF LockInv
  <2>3. ASSUME NEW w \in Worker, Fetch(w) PROVE LockInv'
    <3>1. /\ run[w].at # "free" /\ job' = job
          /\ run'[w].src = run[w].src /\ run'[w].orphan = run[w].orphan
          /\ \A x \in Writer \ {w} : run'[x] = run[x]
      BY <2>3, FetchShape DEF Fetch
    <3> QED
      BY <2>0, <3>1, LocksAreKept
  <2>4. ASSUME NEW u \in Subscriber, NEW s \in Source, Preview(u, s) PROVE LockInv'
    <3>1. job' = job /\ \A x \in Writer \ {u} : run'[x] = run[x]
      BY <2>4, PreviewShape
    <3> QED
      BY <2>0, <3>1, LocksAreKept
  <2>5. ASSUME NEW w \in Writer, Observe(w) PROVE LockInv'
    <3>1. /\ job' = job /\ run[w].at = "fetched"
          /\ run'[w].src = run[w].src /\ run'[w].orphan = run[w].orphan
          /\ \A x \in Writer \ {w} : /\ run'[x].at = run[x].at /\ run'[x].src = run[x].src
                                     /\ run'[x].orphan = run[x].orphan
      BY <2>5, ObserveShape DEF Observe, Alike
    <3> QED
      BY <2>0, <3>1, LocksAreKept
  <2>6. ASSUME NEW w \in Writer, run[w].at # "free", Stored(w) \/ Ended(w),
               Ends(w) \/ w \notin Worker, JobKept(w) \/ job' = job
        PROVE  LockInv'
    <3>1. \A x \in Writer \ {w} : /\ run'[x].at = run[x].at /\ run'[x].src = run[x].src
                                  /\ run'[x].orphan = run[x].orphan
      BY <2>6 DEF Stored, Ended, Others, Alike
    <3>2. w \in Worker => run'[w].at = "free"
      BY <2>6 DEF Ends
    <3>3. \A s \in Source : \/ job'[s] = job[s] \/ job[s].at = "none" \/ job[s].lock = w
      BY <2>6 DEF JobKept
    <3>. QED
      BY <2>0, <3>1, <3>2, <3>3, LocksAreKept
  <2>7. ASSUME NEW s \in Source, Stall(s) PROVE LockInv'
    <3>1. /\ \A x \in Source \ {s} : job'[x] = job[x]
      BY <2>7 DEF Stall, Shape
    <3>2. \A x \in Writer : /\ run'[x].at = run[x].at /\ run'[x].src = run[x].src
                            /\ run[x].orphan => run'[x].orphan
                            /\ job[s].lock = x /\ run[x].src = s => run'[x].orphan
      BY <2>7, StallShape DEF Alike
    <3>. QED
      BY <2>0, <3>1, <3>2, LocksAreKept
  <2>8. ASSUME NEW w \in Worker, Parse(w) \/ Crash(w) PROVE LockInv'
    BY <2>0, <2>3, <2>5, <2>6, <2>8, WorkerShape DEF Parse
  <2>9. ASSUME NEW u \in Subscriber, Reads(u) PROVE LockInv'
    BY <2>0, <2>4, <2>5, <2>6, <2>9, SubscriberShape DEF Reads, Subscribe
  <2> QED
    BY <2>1, <2>2, <2>7, <2>8, <2>9 DEF Next
<1> QED
  BY <1>1, <1>2, ShapeCorrect, PTL DEF Spec

\* Whoever adds the job of a source (a poll, a push, a subscription, an import),
\* whenever, and however many workers there are: as long as no worker loses a
\* lock, no source is fetched by two of them at once.
THEOREM FetchesAreSerialized == Spec => []OneFetchPerSource
<1>1. LockInv => OneFetchPerSource
  BY DEF LockInv, OneFetchPerSource
<1> QED
  BY <1>1, LocksNameTheirWorkers, PTL

------------------------------------------------------------------------------
(* What is stored *)

\* Nothing is newer than the origin, and a fresh response is at least as new as
\* what is stored.
FeedOrder(s) ==
    /\ stored[s] <= origin[s]
    /\ cache[s] <= origin[s]
    /\ cache[s] # 0 => stored[s] <= cache[s]

\* The same holds of what a writer has fetched; and when nobody overtook it, and
\* nobody who observed later has stored, it is at least as new as what is stored.
WriterOrder(w) ==
    /\ run[w].at \in {"fetched", "storing"}
       => /\ run[w].version <= origin[run[w].src]
          /\ cache[run[w].src] # 0 => run[w].version <= cache[run[w].src]
    /\ run[w].at = "fetched" /\ ~run[w].overtaken
       => stored[run[w].src] <= run[w].version
    /\ run[w].at = "storing" /\ ~run[w].overtaken /\ ~run[w].outrun
       => stored[run[w].src] <= run[w].version

\* x observed before w did, or w has still to observe: then w's version is at
\* least as new, unless w was overtaken.
PairOrder(w, x) ==
    /\ run[x].at = "storing" /\ run[x].src = run[w].src
    /\ ~run[w].overtaken
    /\ \/ run[w].at = "fetched"
       \/ run[w].at = "storing" /\ x \notin later[w]
    => run[x].version <= run[w].version

VersionInv ==
    /\ \A s \in Source : FeedOrder(s)
    /\ \A w \in Writer : WriterOrder(w)
    /\ \A w \in Writer : \A x \in Writer \ {w} : PairOrder(w, x)

LEMMA VersionsAreNumbers ==
    ASSUME Shape
    PROVE  /\ \A s \in Source : stored[s] \in Nat /\ cache[s] \in Nat /\ origin[s] \in Nat
           /\ \A w \in Writer :
                 /\ run[w].version \in Nat
                 /\ run[w].at # "free" => run[w].src \in Source
BY Versions, RunFields DEF Shape

\* A writer that stops, or goes on with the same version, while no other one
\* stores, disturbs nothing.
LEMMA WaitingKeepsVersions ==
    ASSUME VersionInv, UNCHANGED <<origin, cache, stored>>,
           \A x \in Writer :
              \/ run'[x].at \notin {"fetched", "storing"}
              \/ /\ run'[x].at = run[x].at /\ run'[x].src = run[x].src
                 /\ run'[x].version = run[x].version
                 /\ run[x].overtaken => run'[x].overtaken
                 /\ run[x].outrun => run'[x].outrun
                 /\ \A y \in later[x] : run'[y].at = "storing" => y \in later'[x]
    PROVE  VersionInv'
<1>1. \A s \in Source : FeedOrder(s)'
  BY DEF VersionInv, FeedOrder
<1>2. \A w \in Writer : WriterOrder(w)'
  BY DEF VersionInv, WriterOrder
<1>3. ASSUME NEW w \in Writer, NEW x \in Writer \ {w} PROVE PairOrder(w, x)'
  BY DEF VersionInv, PairOrder
<1>. QED
  BY <1>1, <1>2, <1>3 DEF VersionInv

\* Who asks gets what is at least as new as all that is stored or being stored.
LEMMA FetchingKeepsVersions ==
    ASSUME Shape, Shape', VersionInv, NEW w \in Writer, NEW s \in Source,
           NEW b \in BOOLEAN, NEW v \in Version, Answer(s, b, v),
           run'[w].at = "fetched", run'[w].src = s, run'[w].version = v,
           \A x \in Writer \ {w} : run'[x] = run[x],
           UNCHANGED <<later, origin, stored>>
    PROVE  VersionInv'
<1>1. /\ \A x \in Source \ {s} : cache'[x] = cache[x]
      /\ \/ cache' = cache /\ cache[s] # 0 /\ v = cache[s]
         \/ v = origin[s] /\ (cache'[s] = 0 \/ cache'[s] = origin[s])
  BY AnswerShape
<1>2. /\ \A x \in Source : stored[x] \in Nat /\ cache[x] \in Nat /\ origin[x] \in Nat
      /\ \A x \in Writer : /\ run[x].version \in Nat
                           /\ run[x].at # "free" => run[x].src \in Source
      /\ v \in Nat
  BY VersionsAreNumbers, Versions
<1>3. \A x \in Source : FeedOrder(x)'
  BY <1>1, <1>2 DEF VersionInv, FeedOrder
<1>4. v <= origin[s] /\ stored[s] <= v
  BY <1>1, <1>2 DEF VersionInv, FeedOrder
<1>5. \A x \in Writer : run[x].at = "storing" /\ run[x].src = s => run[x].version <= v
  BY <1>1, <1>2 DEF VersionInv, WriterOrder
<1>6. ASSUME NEW x \in Writer PROVE WriterOrder(x)'
  <2>1. CASE x = w
    BY <1>1, <1>2, <1>4, <2>1 DEF WriterOrder
  <2>2. CASE x # w
    <3>1. run'[x] = run[x] /\ WriterOrder(x)
      BY <2>2 DEF VersionInv
    <3>. QED
      BY <1>1, <1>2, <3>1 DEF WriterOrder
  <2>. QED
    BY <2>1, <2>2
<1>7. ASSUME NEW y \in Writer, NEW x \in Writer \ {y} PROVE PairOrder(y, x)'
  <2>1. CASE y = w
    BY <1>5, <2>1 DEF PairOrder
  <2>2. CASE x = w
    BY <2>2 DEF PairOrder
  <2>3. CASE y # w /\ x # w
    BY <2>3 DEF VersionInv, PairOrder
  <2>. QED
    BY <2>1, <2>2, <2>3
<1>. QED
  BY <1>3, <1>6, <1>7 DEF VersionInv

\* Who observes overtakes all that have fetched, but for the lock of a job; and
\* under that lock there is no other.
LEMMA ObservingKeepsVersions ==
    ASSUME Shape, LockInv, VersionInv, NEW w \in Writer, Observe(w)
    PROVE  VersionInv'
<1>1. /\ run[w].at = "fetched" /\ run'[w].at = "storing"
      /\ run'[w].src = run[w].src /\ run'[w].version = run[w].version
      /\ run'[w].overtaken = run[w].overtaken /\ run'[w].outrun = run[w].outrun
      /\ UNCHANGED <<origin, cache, stored>>
  BY ObserveShape DEF Observe, feedVars
<1>2. /\ \A x \in Writer \ {w} :
            /\ run'[x].at = run[x].at /\ run'[x].src = run[x].src
            /\ run'[x].version = run[x].version
            /\ run'[x].outrun = run[x].outrun
            /\ run[x].overtaken => run'[x].overtaken
            /\ run[x].at = "fetched" /\ run[x].src = run[w].src
                  /\ ~(Locked(x) /\ Locked(w))
               => run'[x].overtaken
      /\ \A x \in Writer :
            /\ later[x] \subseteq later'[x]
            /\ run[x].at = "storing" /\ run[x].src = run[w].src => w \in later'[x]
  BY ObserveShape DEF Alike
<1>3. \A x \in Writer \ {w} :
         run[x].at = "fetched" /\ run[x].src = run[w].src => ~(Locked(x) /\ Locked(w))
  BY <1>1 DEF Locked, LockInv
<1>4. \A s \in Source : FeedOrder(s)'
  BY <1>1 DEF VersionInv, FeedOrder
<1>5. \A x \in Writer : WriterOrder(x)'
  BY <1>1, <1>2 DEF VersionInv, WriterOrder
<1>6. ASSUME NEW y \in Writer, NEW x \in Writer \ {y} PROVE PairOrder(y, x)'
  <2>1. PairOrder(y, x)
    BY DEF VersionInv
  <2>2. CASE y = w
    BY <1>1, <1>2, <2>1, <2>2 DEF PairOrder
  <2>3. CASE x = w
    BY <1>1, <1>2, <1>3, <2>3 DEF PairOrder
  <2>4. CASE y # w /\ x # w
    BY <1>1, <1>2, <2>1, <2>4 DEF PairOrder
  <2>. QED
    BY <2>2, <2>3, <2>4
<1>. QED
  BY <1>4, <1>5, <1>6 DEF VersionInv

\* Who stores marks those that observed before; all others hold newer versions.
LEMMA StoringKeepsVersions ==
    ASSUME Shape, Shape', VersionInv, NEW w \in Writer, Stored(w)
    PROVE  VersionInv'
<1>1. /\ run[w].at = "storing" /\ run[w].src \in Source
      /\ \A s \in Source \ {run[w].src} : stored'[s] = stored[s]
      /\ stored'[run[w].src] =
            IF run[w].outrun THEN stored[run[w].src] ELSE run[w].version
      /\ UNCHANGED <<origin, cache>>
  BY StoreShape DEF Stored, Shape
<1>2. /\ \A s \in Source : stored[s] \in Nat /\ cache[s] \in Nat /\ origin[s] \in Nat
      /\ \A x \in Writer : /\ run[x].version \in Nat
                           /\ run[x].at # "free" => run[x].src \in Source
  BY VersionsAreNumbers
<1>3. \A x \in Writer \ {w} :
         /\ run'[x].at = run[x].at /\ run'[x].src = run[x].src
         /\ run'[x].version = run[x].version
         /\ run'[x].overtaken = run[x].overtaken
         /\ run[x].outrun => run'[x].outrun
         /\ w \in later[x] => run'[x].outrun
         /\ later[x] \ {w} \subseteq later'[x]
  BY DEF Stored, Others, Alike
<1>4. \/ run'[w].at = "free"
      \/ /\ run'[w].at = run[w].at /\ run'[w].src = run[w].src
         /\ run'[w].version = run[w].version
         /\ run'[w].overtaken = run[w].overtaken
         /\ run[w].outrun => run'[w].outrun
         /\ later' = later
  BY DEF Stored, Ends, Stays, Alike
<1>5. /\ run[w].version <= origin[run[w].src]
      /\ cache[run[w].src] # 0 => run[w].version <= cache[run[w].src]
  BY <1>1 DEF VersionInv, WriterOrder
<1>6. \A s \in Source : FeedOrder(s)'
  BY <1>1, <1>2, <1>5 DEF VersionInv, FeedOrder
<1>7. ASSUME NEW x \in Writer PROVE WriterOrder(x)'
  <2>1. WriterOrder(x)
    BY DEF VersionInv
  <2>2. CASE x = w
    BY <1>1, <1>2, <1>4, <2>1, <2>2 DEF WriterOrder
  <2>3. CASE x # w /\ run[x].src = run[w].src
    <3>1. PairOrder(x, w)
      BY <2>3 DEF VersionInv
    <3>. QED
      BY <1>1, <1>2, <1>3, <2>1, <2>3, <3>1 DEF WriterOrder, PairOrder
  <2>4. CASE x # w /\ run[x].src # run[w].src
    BY <1>1, <1>2, <1>3, <2>1, <2>4 DEF WriterOrder
  <2>. QED
    BY <2>2, <2>3, <2>4
<1>8. ASSUME NEW y \in Writer, NEW x \in Writer \ {y} PROVE PairOrder(y, x)'
  <2>1. PairOrder(y, x)
    BY DEF VersionInv
  <2>2. CASE y = w
    BY <1>3, <1>4, <2>1, <2>2 DEF PairOrder
  <2>3. CASE x = w
    BY <1>3, <1>4, <2>1, <2>3 DEF PairOrder
  <2>4. CASE y # w /\ x # w
    BY <1>3, <2>1, <2>4 DEF PairOrder
  <2>. QED
    BY <2>2, <2>3, <2>4
<1>. QED
  BY <1>6, <1>7, <1>8 DEF VersionInv

\* The cache may be filled from the origin, or emptied, at any time.
LEMMA CachingKeepsVersions ==
    ASSUME Shape, VersionInv, NEW s \in Source, UNCHANGED <<origin, stored, run, later>>,
           cache' \in [Source -> Version],
           \A x \in Source \ {s} : cache'[x] = cache[x],
           cache'[s] = 0 \/ cache'[s] = origin[s]
    PROVE  VersionInv'
<1>1. \A x \in Source : FeedOrder(x)'
  BY VersionsAreNumbers DEF VersionInv, FeedOrder
<1>2. \A w \in Writer : WriterOrder(w)'
  BY VersionsAreNumbers DEF VersionInv, WriterOrder
<1>3. \A w \in Writer : \A x \in Writer \ {w} : PairOrder(w, x)'
  BY DEF VersionInv, PairOrder
<1> QED
  BY <1>1, <1>2, <1>3 DEF VersionInv

THEOREM VersionsAreOrdered == Spec => []VersionInv
<1>1. Init => VersionInv
  BY FreeFields DEF Init, VersionInv, FeedOrder, WriterOrder, PairOrder
<1>2. Shape /\ Shape' /\ LockInv /\ VersionInv /\ [Next]_vars => VersionInv'
  <2> SUFFICES ASSUME Shape, Shape', LockInv, VersionInv, [Next]_vars PROVE VersionInv'
    OBVIOUS
  <2>0. /\ Worker \subseteq Writer /\ Subscriber \subseteq Writer
        /\ \A w \in Writer : run[w].at # "free" => run[w].src \in Source
    BY DEF Writer, Shape
  <2>1. CASE UNCHANGED <<run, later, origin, cache, stored>>
    BY <2>1, WaitingKeepsVersions
  <2>2. ASSUME NEW w \in Worker, NEW s \in Source, Take(w, s) PROVE VersionInv'
    <3>1. /\ run'[w].at = "fetching"
          /\ \A x \in Writer \ {w} : run'[x] = run[x]
          /\ UNCHANGED <<later, origin, cache, stored>>
      BY <2>0, <2>2 DEF Take, Free, feedVars, Shape
    <3> QED
      BY <3>1, WaitingKeepsVersions
  <2>3. ASSUME NEW w \in Worker, Fetch(w) PROVE VersionInv'
    <3>1. run[w].src \in Source /\ run[w].skipCache \in BOOLEAN
      BY <2>0, <2>3 DEF Fetch, Shape, Run
    <3>2. PICK v \in Version :
             /\ Answer(run[w].src, run[w].skipCache, v)
             /\ run'[w].at = "fetched" /\ run'[w].src = run[w].src
             /\ run'[w].version = v
             /\ \A x \in Writer \ {w} : run'[x] = run[x]
             /\ UNCHANGED <<later, origin, stored>>
      BY <2>3, FetchShape
    <3> QED
      BY <2>0, <3>1, <3>2, FetchingKeepsVersions
  <2>4. ASSUME NEW u \in Subscriber, NEW s \in Source, Preview(u, s) PROVE VersionInv'
    <3>1. PICK v \in Version :
             /\ Answer(s, FALSE, v)
             /\ run'[u].at = "fetched" /\ run'[u].src = s /\ run'[u].version = v
             /\ \A x \in Writer \ {u} : run'[x] = run[x]
             /\ UNCHANGED <<later, origin, stored>>
      BY <2>4, PreviewShape
    <3> QED
      BY <2>0, <3>1, FetchingKeepsVersions
  <2>5. ASSUME NEW w \in Writer, Ended(w) PROVE VersionInv'
    BY <2>5, WaitingKeepsVersions DEF Ended, Others, Ends, Stays, Alike
  <2>6. ASSUME NEW s \in Source, Stall(s) PROVE VersionInv'
    <3>1. UNCHANGED <<later, origin, cache, stored>>
      BY <2>6, StallShape DEF Stall, feedVars
    <3>. QED
      BY <2>6, <3>1, StallShape, WaitingKeepsVersions DEF Alike
  <2>7. ASSUME NEW s \in Source, Publish(s) PROVE VersionInv'
    <3>1. /\ UNCHANGED <<run, later, cache, stored>>
          /\ \A x \in Source : origin'[x] \in Nat /\ origin[x] <= origin'[x]
      BY <2>7, VersionsAreNumbers DEF Publish, queueVars, Shape
    <3>2. \A x \in Source : FeedOrder(x)'
      BY <3>1, VersionsAreNumbers DEF VersionInv, FeedOrder
    <3>3. \A w \in Writer : WriterOrder(w)'
      BY <3>1, VersionsAreNumbers DEF VersionInv, WriterOrder
    <3>4. \A w \in Writer : \A x \in Writer \ {w} : PairOrder(w, x)'
      BY <3>1 DEF VersionInv, PairOrder
    <3> QED
      BY <3>2, <3>3, <3>4 DEF VersionInv
  <2>8. ASSUME NEW s \in Source, Browse(s) PROVE VersionInv'
    BY <2>8, AskOriginShape, CachingKeepsVersions DEF Browse, queueVars
  <2>9. ASSUME NEW s \in Source, CacheExpires(s) PROVE VersionInv'
    <3>1. /\ UNCHANGED <<origin, stored, run, later>>
          /\ cache' \in [Source -> Version] /\ cache'[s] = 0
          /\ \A x \in Source \ {s} : cache'[x] = cache[x]
      BY <2>9, Versions DEF CacheExpires, queueVars, Shape
    <3> QED
      BY <3>1, CachingKeepsVersions
  <2>10. CASE \/ \E s \in Source : \/ EnqueueManual(s) \/ HubPush(s) \/ Wake(s)
                                   \/ ChangeKind(s) \/ Publish(s) \/ Browse(s)
                                   \/ CacheExpires(s)
              \/ GatherSelect \/ GatherAdd \/ Tick \/ UNCHANGED vars
    BY <2>1, <2>7, <2>8, <2>9, <2>10, OtherShape
  <2>11. ASSUME NEW w \in Worker, Parse(w) \/ Crash(w) PROVE VersionInv'
    BY <2>0, <2>3, <2>5, <2>11, WorkerShape, ObservingKeepsVersions, StoringKeepsVersions
    DEF Parse
  <2>12. ASSUME NEW u \in Subscriber, Reads(u) PROVE VersionInv'
    BY <2>0, <2>4, <2>5, <2>12, SubscriberShape, ObservingKeepsVersions,
       StoringKeepsVersions
    DEF Reads, Subscribe
  <2> QED
    BY <2>2, <2>6, <2>10, <2>11, <2>12 DEF Next
<1> QED
  BY <1>1, <1>2, ShapeCorrect, LocksNameTheirWorkers, PTL DEF Spec

\* However polls, pushes, previews and subscriptions interleave, whatever the
\* cache serves and whichever locks are lost: who takes a source back to an older
\* version of its feed was overtaken, outside the lock of a job, between its fetch
\* and its observation.
THEOREM StoredVersionsGrow == Spec => StoredNeverRegresses
<1>. DEFINE Overtaken(s) ==
        \E w \in Writer : /\ run[w].at = "storing" /\ run[w].src = s
                          /\ run[w].overtaken
                          /\ stored'[s] = run[w].version
<1>1. Shape /\ VersionInv /\ [Next]_vars
      => [\A s \in Source : stored'[s] < stored[s] => Overtaken(s)]_vars
  <2> SUFFICES ASSUME Shape, VersionInv, Next, NEW s \in Source, stored'[s] < stored[s]
               PROVE  Overtaken(s)
    BY DEF vars
  <2>0. /\ Worker \subseteq Writer /\ Subscriber \subseteq Writer
        /\ stored[s] \in Nat /\ \A w \in Writer : run[w].version \in Nat
    BY VersionsAreNumbers DEF Writer
  <2>1. stored' # stored
    BY <2>0
  <2>2. ASSUME NEW w \in Worker, Parse(w) \/ Crash(w) PROVE Stored(w)
    BY <2>1, <2>2, WorkerShape DEF Parse, Fetch, Observe, Ended, feedVars
  <2>3. ASSUME NEW u \in Subscriber, Reads(u) PROVE Stored(u)
    BY <2>1, <2>3, SubscriberShape DEF Reads, Preview, Subscribe, Observe, Ended, feedVars
  <2>4. \E w \in Writer : Stored(w)
    BY <2>0, <2>1, <2>2, <2>3
    DEF Next, EnqueueManual, HubPush, GatherSelect, GatherAdd, Take, Wake,
        Stall, Publish, Browse, CacheExpires, ChangeKind, Tick, feedVars
  <2>5. PICK w \in Writer : Stored(w)
    BY <2>4
  <2>6. /\ run[w].at = "storing"
        /\ \A x \in Source \ {run[w].src} : stored'[x] = stored[x]
        /\ stored'[run[w].src] =
              IF run[w].outrun THEN stored[run[w].src] ELSE run[w].version
    BY <2>5, StoreShape DEF Stored
  <2>7. run[w].src = s /\ ~run[w].outrun /\ stored'[s] = run[w].version
    BY <2>0, <2>6
  <2>8. run[w].overtaken
    BY <2>0, <2>6, <2>7 DEF VersionInv, WriterOrder
  <2> QED
    BY <2>6, <2>7, <2>8
<1> QED
  BY <1>1, ShapeCorrect, VersionsAreOrdered, PTL DEF Spec, StoredNeverRegresses

------------------------------------------------------------------------------
(* The rows of the sources *)

\* A sequence without the element at one place.
LEMMA Removal ==
    ASSUME NEW S, NEW q \in Seq(S), NEW i \in DOMAIN q
    PROVE  /\ RemoveAt(q, i) \in Seq(S)
           /\ Len(RemoveAt(q, i)) = Len(q) - 1
           /\ \A j \in 1 .. Len(q) - 1 :
                 RemoveAt(q, i)[j] = IF j < i THEN q[j] ELSE q[j + 1]
<1>. DEFINE before == SubSeq(q, 1, i - 1)
            after == SubSeq(q, i + 1, Len(q))
<1>1. i \in 1 .. Len(q) /\ Len(q) \in Nat
  OBVIOUS
<1>2. /\ before \in Seq(S) /\ Len(before) = i - 1
      /\ \A j \in 1 .. i - 1 : before[j] = q[j]
  BY <1>1
<1>3. /\ after \in Seq(S) /\ Len(after) = Len(q) - i
      /\ \A j \in 1 .. Len(q) - i : after[j] = q[i + j]
  BY <1>1
<1>4. RemoveAt(q, i) = before \o after
  BY DEF RemoveAt
<1>. HIDE DEF before, after
<1>5. /\ before \o after \in Seq(S) /\ Len(before \o after) = Len(before) + Len(after)
      /\ \A j \in 1 .. Len(before) + Len(after) :
            (before \o after)[j] = IF j <= Len(before) THEN before[j]
                                   ELSE after[j - Len(before)]
  BY <1>2, <1>3, ConcatProperties
<1>6. RemoveAt(q, i) \in Seq(S) /\ Len(RemoveAt(q, i)) = Len(q) - 1
  BY <1>1, <1>2, <1>3, <1>4, <1>5
<1>7. ASSUME NEW j \in 1 .. Len(q) - 1
      PROVE  RemoveAt(q, i)[j] = IF j < i THEN q[j] ELSE q[j + 1]
  <2>1. CASE j < i
    BY <1>1, <1>2, <1>3, <1>4, <1>5, <2>1
  <2>2. CASE ~(j < i)
    <3>1. j \in 1 .. Len(before) + Len(after) /\ ~(j <= Len(before))
      BY <1>1, <1>2, <1>3, <2>2
    <3>2. RemoveAt(q, i)[j] = after[j - Len(before)]
      BY <1>4, <1>5, <3>1
    <3>3. j - (i - 1) \in 1 .. Len(q) - i /\ i + (j - (i - 1)) = j + 1
      BY <1>1, <2>2
    <3>. QED
      BY <1>2, <1>3, <2>2, <3>2, <3>3
  <2>. QED
    BY <2>1, <2>2
<1>. QED
  BY <1>6, <1>7

\* The source attempted last goes to the end of the line: each still has one place.
LEMMA EndOfLine ==
    ASSUME line \in SetToSeqs(Source), NEW i \in DOMAIN line
    PROVE  Append(RemoveAt(line, i), line[i]) \in SetToSeqs(Source)
<1>. DEFINE n == Cardinality(Source)
            rest == RemoveAt(line, i)
            next == Append(rest, line[i])
            at(j) == IF j = n THEN i ELSE IF j < i THEN j ELSE j + 1
<1>1. n \in Nat
  BY FetchAssumption, FS_CardinalityType
<1>2. /\ line \in [1 .. n -> Source]
      /\ \A j, k \in 1 .. n : j # k => line[j] # line[k]
  BY DEF SetToSeqs
<1>3. line \in Seq(Source) /\ Len(line) = n /\ i \in 1 .. n
  BY <1>1, <1>2
<1>4. /\ rest \in Seq(Source) /\ Len(rest) = n - 1
      /\ \A j \in 1 .. n - 1 : rest[j] = IF j < i THEN line[j] ELSE line[j + 1]
  BY <1>3, Removal
<1>. HIDE DEF rest, n
<1>5. line[i] \in Source
  BY <1>2, <1>3
<1>6. /\ next \in Seq(Source) /\ Len(next) = n /\ next[n] = line[i]
      /\ \A j \in 1 .. n - 1 : next[j] = rest[j]
  BY <1>1, <1>3, <1>4, <1>5
<1>. HIDE DEF next
<1>7. \A j \in 1 .. n : at(j) \in 1 .. n /\ next[j] = line[at(j)]
  BY <1>1, <1>3, <1>4, <1>6
<1>8. \A j, k \in 1 .. n : j # k => at(j) # at(k)
  BY <1>1, <1>3
<1>. HIDE DEF at
<1>9. next \in [1 .. n -> Source] /\ \A j, k \in 1 .. n : j # k => next[j] # next[k]
  BY <1>1, <1>2, <1>6, <1>7, <1>8
<1>. QED
  BY <1>9 DEF SetToSeqs, next, n, rest

\* What the database says of the sources is in range, the line holds each of them
\* once, and what has been gathered are sources.
RowsOK ==
    /\ kind \in [Source -> {"feed", "websub", "email"}]
    /\ wait \in [Source -> Nat]
    /\ \A s \in Source : \E t \in Freshness \cup {BackoffCap} : wait[s] <= t
    /\ idle \in [Source -> 0 .. Day + 1]
    /\ line \in SetToSeqs(Source)
    /\ failures \in [Source -> 0 .. BackoffCap]
    /\ gathered \subseteq Source

\* An attempt is recorded in one row.
LEMMA AttemptRecorded ==
    ASSUME RowsOK, NEW s \in Source, Attempted(s), UNCHANGED <<kind, gathered>>,
           NEW delay \in Nat, \E t \in Freshness \cup {BackoffCap} : delay <= t,
           NEW count \in 0 .. BackoffCap,
           wait' = [wait EXCEPT ![s] = delay], failures' = [failures EXCEPT ![s] = count]
    PROVE  RowsOK'
<1>1. line' \in SetToSeqs(Source)
  BY EndOfLine DEF RowsOK, Attempted
<1>2. wait' \in [Source -> Nat] /\ failures' \in [Source -> 0 .. BackoffCap]
  BY DEF RowsOK
<1>3. \A x \in Source : \E t \in Freshness \cup {BackoffCap} : wait'[x] <= t
  BY DEF RowsOK
<1>4. idle' \in [Source -> 0 .. Day + 1]
  BY FetchAssumption DEF RowsOK, Attempted
<1>. QED
  BY <1>1, <1>2, <1>3, <1>4 DEF RowsOK

\* successSource records an attempt.
LEMMA SuccessRecorded ==
    ASSUME RowsOK, NEW s \in Source, NEW lifetime \in Freshness, Success(s, lifetime),
           UNCHANGED <<kind, gathered>>
    PROVE  RowsOK'
<1>1. /\ Greatest(lifetime, 1) \in Nat /\ 0 \in 0 .. BackoffCap
      /\ \E t \in Freshness \cup {BackoffCap} : Greatest(lifetime, 1) <= t
  BY FetchAssumption DEF Greatest
<1>. QED
  BY <1>1, AttemptRecorded DEF Success

THEOREM FetchesAreTyped == Spec => []TypeOK
<1>1. Init => RowsOK
  <2>. SUFFICES ASSUME Init PROVE RowsOK
    OBVIOUS
  <2>1. kind \in [Source -> {"feed", "websub", "email"}] /\ gathered \subseteq Source
    BY DEF Init
  <2>2. /\ wait \in [Source -> Nat] /\ \A s \in Source : wait[s] <= BackoffCap
        /\ idle \in [Source -> 0 .. Day + 1]
        /\ failures \in [Source -> 0 .. BackoffCap]
    BY FetchAssumption DEF Init
  <2>. QED
    BY <2>1, <2>2 DEF Init, RowsOK
<1>2. Shape /\ RowsOK /\ [Next]_vars => RowsOK'
  <2>. SUFFICES ASSUME Shape, RowsOK, [Next]_vars PROVE RowsOK'
    OBVIOUS
  <2>1. CASE UNCHANGED <<sourceVars, gathered>>
    BY <2>1 DEF sourceVars, RowsOK
  <2>2. CASE GatherSelect
    <3>1. \A i \in DOMAIN line : line[i] \in Source
      BY DEF RowsOK, SetToSeqs
    <3>2. gathered' \subseteq Source
      BY <2>2, <3>1 DEF GatherSelect, SourcesToProcess, DueInLine
    <3>. QED
      BY <2>2, <3>2 DEF GatherSelect, sourceVars, RowsOK
  <2>3. CASE GatherAdd
    BY <2>3 DEF GatherAdd, sourceVars, RowsOK
  <2>0. /\ Worker \subseteq Writer /\ Subscriber \subseteq Writer
        /\ \A w \in Writer : run[w].at # "free" => run[w].src \in Source
    BY DEF Writer, Shape
  <2>4. /\ \A w \in Worker, lifetime \in Freshness : Succeed(w, lifetime) => RowsOK'
        /\ \A u \in Subscriber, lifetime \in Freshness, done \in BOOLEAN :
              Seed(u, lifetime, done) => RowsOK'
    BY <2>0, SuccessRecorded DEF Succeed, Seed
  <2>5. ASSUME NEW w \in Worker, NEW recorded \in BOOLEAN, NEW partly \in BOOLEAN,
               Fail(w, recorded, partly)
        PROVE  RowsOK'
    <3>. DEFINE s == run[w].src
                count == Least(failures[s] + 1, BackoffCap)
    <3>1. CASE recorded
      <4>1. s \in Source /\ failures[s] \in 0 .. BackoffCap
        BY <2>0, <2>5 DEF Fail, RowsOK
      <4>2. /\ Backoff(failures[s]) = count /\ count \in Nat /\ count \in 0 .. BackoffCap
            /\ count <= BackoffCap
        BY <4>1, FetchAssumption DEF Backoff, Least
      <4>3. /\ wait' = [wait EXCEPT ![s] = count]
            /\ failures' = [failures EXCEPT ![s] = count]
            /\ Attempted(s) /\ UNCHANGED <<kind, gathered>>
        BY <2>5, <3>1, <4>1, <4>2 DEF Fail, RowsOK
      <4>. HIDE DEF count, s
      <4>. QED
        BY <4>1, <4>2, <4>3, AttemptRecorded
    <3>2. CASE ~recorded
      BY <2>1, <2>5, <3>2 DEF Fail, sourceVars
    <3>. QED
      BY <3>1, <3>2
  <2>6. ASSUME NEW s \in Source, ChangeKind(s) PROVE RowsOK'
    BY <2>6 DEF ChangeKind, queueVars, RowsOK
  <2>7. CASE Tick
    <3>1. /\ wait' = [s \in Source |-> IF wait[s] = 0 THEN 0 ELSE wait[s] - 1]
          /\ idle' = [s \in Source |-> Least(idle[s] + 1, Day + 1)]
          /\ UNCHANGED <<kind, line, failures, gathered>>
      BY <2>7 DEF Tick, queueVars
    <3>2. idle' \in [Source -> 0 .. Day + 1]
      BY <3>1, FetchAssumption DEF RowsOK, Least
    <3>3. ASSUME NEW s \in Source
          PROVE  /\ wait'[s] \in Nat
                 /\ \E t \in Freshness \cup {BackoffCap} : wait'[s] <= t
      <4>1. PICK t \in Freshness \cup {BackoffCap} : wait[s] <= t
        BY DEF RowsOK
      <4>2. wait[s] \in Nat /\ t \in Nat
        BY <4>1, FetchAssumption DEF RowsOK
      <4>3. wait'[s] \in Nat /\ wait'[s] <= t
        BY <3>1, <4>1, <4>2
      <4>. QED
        BY <4>3
    <3>4. wait' \in [Source -> Nat]
      BY <3>1, <3>3
    <3>. QED
      BY <3>1, <3>2, <3>3, <3>4 DEF RowsOK
  <2>8. CASE \/ \E s \in Source : EnqueueManual(s) \/ HubPush(s) \/ Wake(s) \/ Stall(s)
                                \/ Publish(s) \/ Browse(s) \/ CacheExpires(s)
             \/ \E w \in Worker : Crash(w) \/ Fetch(w) \/ \E moved \in BOOLEAN : Defer(w, moved)
             \/ \E w \in Worker, s \in Source : Take(w, s)
             \/ \E w \in Writer : Observe(w)
             \/ \E u \in Subscriber : \/ \E s \in Source : Preview(u, s)
                                     \/ Abandon(u)
                                     \/ \E partly, queued \in BOOLEAN :
                                           SeedFails(u, partly, queued)
    BY <2>1, <2>8 DEF EnqueueManual, HubPush, Wake, Stall, Publish, Browse, CacheExpires,
                      Crash, Fetch, Defer, Take, Observe, Preview, Abandon, SeedFails,
                      queueVars, sourceVars
  <2>9. CASE UNCHANGED vars
    BY <2>1, <2>9 DEF vars, sourceVars
  <2>. QED
    BY <2>0, <2>2, <2>3, <2>4, <2>5, <2>6, <2>7, <2>8, <2>9
    DEF Next, Parse, Reads, Subscribe
<1>3. Shape /\ RowsOK => TypeOK
  BY DEF Shape, RowsOK, TypeOK
<1>. QED
  BY <1>1, <1>2, <1>3, ShapeCorrect, PTL DEF Spec
==============================================================================
