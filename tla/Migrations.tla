----------------------------- MODULE Migrations -----------------------------
(***************************************************************************)
(* db.Migrate, run by every server process at startup: under a session     *)
(* level advisory lock it applies, one transaction per version, the        *)
(* versions that schema_migrations does not list yet, in order.  Processes *)
(* start together, crash and start again.  What a process does once it has *)
(* migrated is in module Server.                                           *)
(***************************************************************************)
EXTENDS Integers

CONSTANTS
    Procs,          \* server processes
    NumVersions,    \* migration files, in the order of their names
    Nobody,
    MaxFaults       \* bound on crashes, errors and failed unlocks

ASSUME MigrationsAssumption ==
    /\ NumVersions \in Nat \ {0} /\ MaxFaults \in Nat
    /\ Nobody \notin Procs

VARIABLES
    ledger,         \* versions listed in schema_migrations
    applied,        \* how often each version's statements were committed
    lock,           \* the process whose session holds the advisory lock
    pc,             \* where each process is
    version,        \* the version its loop has reached
    faults

database == <<ledger, applied>>
migrateVars == <<database, lock, pc, version, faults>>

Versions == 1..NumVersions

MigrateTypeOK ==
    /\ ledger \subseteq Versions
    /\ applied \in [Versions -> Nat]
    /\ lock \in Procs \cup {Nobody}
    /\ pc \in [Procs -> {"lock", "check", "apply", "done", "error", "serving", "down"}]
    /\ version \in [Procs -> 1..NumVersions + 1]
    /\ faults \in 0..MaxFaults

\* A deployment that starts on an empty database or on an older release's.
MigrateInit ==
    /\ \E n \in 0..NumVersions :
          /\ ledger = 1..n
          /\ applied = [v \in Versions |-> IF v <= n THEN 1 ELSE 0]
    /\ lock = Nobody
    /\ pc = [p \in Procs |-> "lock"]
    /\ version = [p \in Procs |-> 1]
    /\ faults = 0

Fault == faults < MaxFaults /\ faults' = faults + 1

Goto(p, to) == pc' = [pc EXCEPT ![p] = to]

-----------------------------------------------------------------------------

\* Mutated form: pg_advisory_lock is not called.
LockNothing(p) ==
    /\ pc[p] = "lock"
    /\ Goto(p, "check")
    /\ UNCHANGED <<database, lock, version, faults>>

\* pg_advisory_lock waits for the lock; the ledger table is created if it is
\* missing.
Lock(p) ==
    /\ pc[p] = "lock"
    /\ lock = Nobody
    /\ lock' = p
    /\ Goto(p, "check")
    /\ UNCHANGED <<database, version, faults>>

\* Mutated form: the last version is left out.
CheckShort(p) ==
    LET v == version[p] IN
    /\ pc[p] = "check"
    /\ IF v >= NumVersions
         THEN Goto(p, "done") /\ UNCHANGED version
         ELSE IF v \in ledger
                THEN version' = [version EXCEPT ![p] = v + 1] /\ UNCHANGED pc
                ELSE Goto(p, "apply") /\ UNCHANGED version
    /\ UNCHANGED <<database, lock, faults>>

\* The loop's test: is this version in the ledger?
Check(p) ==
    LET v == version[p] IN
    /\ pc[p] = "check"
    /\ IF v > NumVersions
         THEN Goto(p, "done") /\ UNCHANGED version
         ELSE IF v \in ledger
                THEN version' = [version EXCEPT ![p] = v + 1] /\ UNCHANGED pc
                ELSE Goto(p, "apply") /\ UNCHANGED version
    /\ UNCHANGED <<database, lock, faults>>

\* The effect of the transaction: the version's statements and its row.
Commit(p) ==
    /\ ledger' = ledger \cup {version[p]}
    /\ applied' = [applied EXCEPT ![version[p]] = @ + 1]

\* Mutated form: the row is written in a transaction of its own, which fails.
ApplyUnlisted(p) ==
    /\ pc[p] = "apply"
    /\ applied' = [applied EXCEPT ![version[p]] = @ + 1]
    /\ Goto(p, "error")
    /\ UNCHANGED <<ledger, lock, version, faults>>

\* Begin, the statements, the row, commit.  If a concurrent transaction has
\* applied the version since the check, the statements or the primary key of
\* the ledger fail.
Apply(p) ==
    /\ pc[p] = "apply"
    /\ IF version[p] \notin ledger
         THEN Commit(p) /\ Goto(p, "check")
         ELSE Goto(p, "error") /\ UNCHANGED database
    /\ UNCHANGED <<lock, version, faults>>

\* The commit takes place but reports an error.
ApplyUnknown(p) ==
    /\ pc[p] = "apply"
    /\ version[p] \notin ledger
    /\ Fault
    /\ Commit(p)
    /\ Goto(p, "error")
    /\ UNCHANGED <<lock, version>>

\* A statement ends with an error: main exits, from the wait for the lock at
\* once and otherwise after the deferred unlock; a transaction is rolled back.
Interrupt(p) ==
    /\ pc[p] \in {"lock", "check", "apply"}
    /\ Goto(p, IF pc[p] = "lock" THEN "down" ELSE "error")
    /\ UNCHANGED <<database, lock, version>>

Fail(p) == Fault /\ Interrupt(p)

Release(p) == lock' = IF lock = p THEN Nobody ELSE lock

\* The deferred pg_advisory_unlock; main goes on to serve.
Unlock(p) ==
    /\ pc[p] = "done"
    /\ Release(p)
    /\ Goto(p, "serving")
    /\ UNCHANGED <<database, version, faults>>

\* The unlock fails and its error is dropped: the session goes back to the
\* pool with the lock.
UnlockFails(p) ==
    /\ pc[p] = "done"
    /\ Fault
    /\ Goto(p, "serving")
    /\ UNCHANGED <<database, lock, version>>

\* Mutated form: sessions live as long as the process.
SessionStays(p) ==
    /\ pc[p] = "down" /\ lock = p
    /\ Release(p)
    /\ UNCHANGED <<database, pc, version, faults>>

\* SetConnMaxLifetime: the pool closes the session after thirty minutes.
SessionEnds(p) ==
    /\ pc[p] = "serving" /\ lock = p
    /\ Release(p)
    /\ UNCHANGED <<database, pc, version, faults>>

\* Migrate unlocks, main logs the error and exits.
MigrateExit(p) ==
    /\ pc[p] = "error"
    /\ Release(p)
    /\ Goto(p, "down")
    /\ UNCHANGED <<database, version, faults>>

Crash(p) ==
    /\ pc[p] # "down"
    /\ Fault
    /\ Release(p)
    /\ Goto(p, "down")
    /\ UNCHANGED <<database, version>>

Restart(p) ==
    /\ pc[p] = "down"
    /\ Goto(p, "lock")
    /\ version' = [version EXCEPT ![p] = 1]
    /\ UNCHANGED <<database, lock, faults>>

\* What Migrate does when nothing goes wrong.
Migrate(p) == Lock(p) \/ Check(p) \/ Apply(p) \/ Unlock(p)

-----------------------------------------------------------------------------
(* Properties                                                              *)

\* README: migrations "are safe to repeat".  Through crashes, ambiguous commits
\* and concurrent starts a version's statements are committed at most once,
\* and exactly when the ledger lists it.
AppliedOnce == \A v \in Versions : applied[v] = IF v \in ledger THEN 1 ELSE 0

=============================================================================
