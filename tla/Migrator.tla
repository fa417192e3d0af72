------------------------------- MODULE Migrator --------------------------------
(***************************************************************************)
(* Database migrations (migrator.ts) and the workers that wait for them    *)
(* (waitForMigration in db/connection.ts).  Migration 1 is the baseline,   *)
(* which creates the table; each later one creates an index on it with IF  *)
(* NOT EXISTS, and that index is built concurrently before the transaction *)
(* of the migrations.  A build that is interrupted leaves an invalid       *)
(* index, which IF NOT EXISTS would keep.  Several migrators may start,    *)
(* and each may fail or be stopped at any step.                            *)
(***************************************************************************)
EXTENDS Integers, FiniteSets

CONSTANTS
    Latest,         \* the newest migration
    MigratorProc,   \* migrators
    WorkerProc,     \* workers
    Nobody

ASSUME MigratorAssumption ==
    /\ Latest \in Nat \ {0}
    /\ Nobody \notin MigratorProc

Migration == 1 .. Latest
Indexed == 2 .. Latest      \* a migration, and the index it creates
PreSquash == 0              \* journal row of the last migration before the squash

VARIABLES
    table,      \* does the table exist?
    index,      \* each index
    journal,    \* drizzle.__drizzle_migrations
    lock,       \* who has the advisory lock
    migrator,   \* each migrator: where it is, and its pending indexes
    started     \* workers that have seen the newest migration

migratorVars == <<table, index, journal, lock, migrator, started>>

Stopped == [pc |-> "stopped", pending |-> {}]
MigratorState == [pc : {"stopped", "locking", "adopting", "listing", "checking", "building",
                        "migrating"},
                  pending : SUBSET Indexed]

MigratorTypeOK ==
    /\ table \in BOOLEAN
    /\ index \in [Indexed -> {"none", "invalid", "valid"}]
    /\ journal \subseteq Migration \cup {PreSquash}
    /\ lock \in MigratorProc \cup {Nobody}
    /\ migrator \in [MigratorProc -> MigratorState]
    /\ \A m \in MigratorProc : migrator[m].pc \notin {"stopped", "locking"} => lock = m
    /\ started \subseteq WorkerProc

\* A database of any age: fresh, migrated up to a point, or older than the
\* squash, with all of the migrations before it or only some.
MigratorInit ==
    /\ \E last \in 0 .. Latest :
          /\ index = [k \in Indexed |-> IF k <= last THEN "valid" ELSE "none"]
          /\ \/ last = 0 /\ table = FALSE /\ journal = {}
             \/ last = 0 /\ table = TRUE /\ journal \in {{}, {PreSquash}}
             \/ last > 0 /\ table = TRUE /\ journal = 1 .. last
    /\ lock = Nobody
    /\ migrator = [m \in MigratorProc |-> Stopped]
    /\ started = {}

To(m, pc) == migrator' = [migrator EXCEPT ![m].pc = pc]
At_(m, pc) == migrator[m].pc = pc
First(s) == CHOOSE k \in s : \A j \in s : k <= j

\* reserveWhenReady has got its session.
Connect(m) ==
    /\ At_(m, "stopped")
    /\ To(m, "locking")
    /\ UNCHANGED <<table, index, journal, lock, started>>

\* pg_advisory_lock
TakeLock(m) ==
    /\ At_(m, "locking") /\ lock = Nobody
    /\ lock' = m
    /\ To(m, "adopting")
    /\ UNCHANGED <<table, index, journal, started>>

\* adoptSquashedBaseline
Adopt(m) ==
    /\ At_(m, "adopting")
    /\ journal' = IF PreSquash \in journal THEN journal \cup {1} ELSE journal
    /\ To(m, "listing")
    /\ UNCHANGED <<table, index, lock, started>>

\* pendingConcurrentIndexes
ListPending(m) ==
    /\ At_(m, "listing")
    /\ migrator' = [migrator EXCEPT ![m] =
                      [pc |-> "checking", pending |-> Indexed \ journal]]
    /\ UNCHANGED <<table, index, journal, lock, started>>

\* Faulty: an invalid index is taken for one that is there.
CheckExists(m) ==
    /\ At_(m, "checking")
    /\ IF migrator[m].pending = {}
       THEN To(m, "migrating") /\ UNCHANGED index
       ELSE LET k == First(migrator[m].pending)
            IN IF ~table \/ index[k] # "none"
               THEN /\ migrator' = [migrator EXCEPT ![m].pending = @ \ {k}]
                    /\ UNCHANGED index
               ELSE index' = [index EXCEPT ![k] = "invalid"] /\ To(m, "building")
    /\ UNCHANGED <<table, journal, lock, started>>

\* prebuildIndexesConcurrently looks at the next index: without its table there
\* is nothing to build, a valid index is kept, an invalid one is dropped and
\* built again.
CheckIndex(m) ==
    /\ At_(m, "checking")
    /\ IF migrator[m].pending = {}
       THEN To(m, "migrating") /\ UNCHANGED index
       ELSE LET k == First(migrator[m].pending)
            IN IF ~table \/ index[k] = "valid"
               THEN /\ migrator' = [migrator EXCEPT ![m].pending = @ \ {k}]
                    /\ UNCHANGED index
               ELSE index' = [index EXCEPT ![k] = "invalid"] /\ To(m, "building")
    /\ UNCHANGED <<table, journal, lock, started>>

\* CREATE INDEX CONCURRENTLY has finished.
Built(m) ==
    /\ At_(m, "building")
    /\ LET k == First(migrator[m].pending)
       IN /\ index' = [index EXCEPT ![k] = "valid"]
          /\ migrator' = [migrator EXCEPT ![m] =
                            [pc |-> "checking", pending |-> @.pending \ {k}]]
    /\ UNCHANGED <<table, journal, lock, started>>

\* migrate: one transaction runs what is newer than the newest row.
ToRun == {k \in Migration : \A j \in journal : j < k}

Migrate(m) ==
    /\ At_(m, "migrating")
    /\ 1 \in ToRun => ~table
    /\ table' = (table \/ 1 \in ToRun)
    /\ index' = [k \in Indexed |-> IF k \in ToRun /\ index[k] = "none" THEN "valid"
                                   ELSE index[k]]
    /\ journal' = journal \cup ToRun
    /\ migrator' = [migrator EXCEPT ![m] = Stopped]
    /\ lock' = Nobody
    /\ UNCHANGED started

\* Any step fails or the process is stopped: the session ends and its lock goes
\* with it.  An index whose build had begun stays invalid.
Abort(m) ==
    /\ ~At_(m, "stopped")
    /\ migrator' = [migrator EXCEPT ![m] = Stopped]
    /\ lock' = IF lock = m THEN Nobody ELSE lock
    /\ UNCHANGED <<table, index, journal, started>>

\* waitForMigration returns.
StartWorker(w) ==
    /\ w \notin started
    /\ Latest \in journal
    /\ started' = started \cup {w}
    /\ UNCHANGED <<table, index, journal, lock, migrator>>

MigratorNext ==
    \/ \E m \in MigratorProc :
          \/ Connect(m) \/ TakeLock(m) \/ Adopt(m) \/ ListPending(m) \/ CheckIndex(m)
          \/ Built(m) \/ Migrate(m) \/ Abort(m)
    \/ \E w \in WorkerProc : StartWorker(w)

MigratorSpec == MigratorInit /\ [][MigratorNext]_migratorVars

------------------------------------------------------------------------------
(* Properties *)

\* A worker that runs has the schema it was compiled for, with every index
\* usable, wherever earlier migrators were interrupted.
WorkersFindSchema ==
    started # {} => table /\ \A k \in Indexed : index[k] = "valid"
==============================================================================
