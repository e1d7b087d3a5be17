----------------------------- MODULE Retention -----------------------------
(***************************************************************************)
(* RetentionService.Run deletes old telemetry and then old sessions, in    *)
(* two statements with one reading of the clock, while measurements and    *)
(* sessions are added, other runs do the same and statements fail.         *)
(***************************************************************************)
EXTENDS Integers, FiniteSets

CONSTANTS
    Sweeps,         \* calls of RetentionService.Run
    Keys,           \* <<device, sequence>> pairs of enabled devices
    SessionIds,
    TelemetryAge, SessionAge,   \* the arguments of Run, positive
    SessionLife,    \* how long a new session is valid
    Skew,           \* how far in the future Record accepts a measurement
    MaxTime,        \* bound on the clock
    MaxRows         \* bound on the telemetry rows ever inserted

ASSUME RetentionAssumption ==
    /\ TelemetryAge \in Nat \ {0} /\ SessionAge \in Nat \ {0}
    /\ SessionLife \in Nat /\ Skew \in Nat
    /\ MaxTime \in Nat /\ MaxRows \in Nat

VARIABLES
    clock,
    stored,         \* the telemetry table: rows [id, key, at]
    inserted,       \* rows inserted so far, the sequence of their ids
    sess,           \* each session: [at: expires_at, status]
    sweep           \* each call of Run

retentionVars == <<clock, stored, inserted, sess, sweep>>

\* `now' is the clock Run read, the counts are those its report gives, and
\* `before' (history) the rows there were when it began.
NoSweep == [pc |-> "idle", now |-> 0, telemetry |-> 0, sessions |-> 0, before |-> {}]

TelemetryRows == [id : 1..MaxRows, key : Keys, at : 0..MaxTime + Skew]

RetentionTypeOK ==
    /\ clock \in 0..MaxTime
    /\ stored \subseteq TelemetryRows
    /\ inserted \in 0..MaxRows
    /\ sess \in [SessionIds -> [status : {"absent", "live", "revoked", "deleted", "vacuumed"},
                                at : 0..MaxTime + SessionLife]]
    /\ sweep \in [Sweeps -> [pc : {"idle", "telemetry", "sessions", "ok", "error"},
                             now : 0..MaxTime, telemetry : Nat, sessions : Nat,
                             before : SUBSET TelemetryRows]]

RetentionInit ==
    /\ clock = 0
    /\ stored = {}
    /\ inserted = 0
    /\ sess = [s \in SessionIds |-> [status |-> "absent", at |-> 0]]
    /\ sweep = [w \in Sweeps |-> NoSweep]

-----------------------------------------------------------------------------

Tick ==
    /\ clock < MaxTime
    /\ clock' = clock + 1
    /\ UNCHANGED <<stored, inserted, sess, sweep>>

\* TelemetryService.Record of a measurement taken at `at', which the UNIQUE
\* constraint accepts once while the row is stored.
Record(k, at) ==
    /\ at <= clock + Skew
    /\ \A t \in stored : t.key # k
    /\ inserted < MaxRows
    /\ inserted' = inserted + 1
    /\ stored' = stored \cup {[id |-> inserted + 1, key |-> k, at |-> at]}
    /\ UNCHANGED <<clock, sess, sweep>>

\* CreateSession and RevokeSession, by Login and Logout.
CreateSession(s) ==
    /\ sess[s].status = "absent"
    /\ sess' = [sess EXCEPT ![s] = [status |-> "live", at |-> clock + SessionLife]]
    /\ UNCHANGED <<clock, stored, inserted, sweep>>

RevokeSession(s) ==
    /\ sess[s].status = "live"
    /\ sess' = [sess EXCEPT ![s].status = "revoked"]
    /\ UNCHANGED <<clock, stored, inserted, sweep>>

\* WHERE expires_at <= $1 OR revoked_at IS NOT NULL
Ended(cutoff) == {s \in SessionIds :
                    \/ sess[s].status = "revoked"
                    \/ sess[s].status = "live" /\ sess[s].at <= cutoff}

\* The rows are deleted; `how' tells the two sweeps apart.
WithoutSessions(ended, how) ==
    [s \in SessionIds |-> IF s \in ended THEN [sess[s] EXCEPT !.status = how] ELSE sess[s]]

\* The maintenance cycle deletes sessions too, at the time they expire.
VacuumSessions ==
    /\ Ended(clock) # {}
    /\ sess' = WithoutSessions(Ended(clock), "vacuumed")
    /\ UNCHANGED <<clock, stored, inserted, sweep>>

-----------------------------------------------------------------------------

\* Run reads the clock once.
StartSweep(w) ==
    /\ sweep[w].pc = "idle"
    /\ sweep' = [sweep EXCEPT ![w] =
          [pc |-> "telemetry", now |-> clock, telemetry |-> 0, sessions |-> 0,
           before |-> stored]]
    /\ UNCHANGED <<clock, stored, inserted, sess>>

\* Run goes on to `pc', with these counts.
GoesOn(w, pc, telemetry, sessions) ==
    sweep' = [sweep EXCEPT ![w] =
        [pc |-> pc, now |-> sweep[w].now, telemetry |-> telemetry, sessions |-> sessions,
         before |-> sweep[w].before]]

\* An error: the report is empty, whatever has been deleted.
Errors(w) == GoesOn(w, "error", 0, 0)

\* Mutated form: the age is added.
OldFuture(now) == {t \in stored : t.at < now + TelemetryAge}

\* WHERE measured_at < $1
Old(now) == {t \in stored : t.at < now - TelemetryAge}

DeleteTelemetryBefore(w) ==
    LET old == Old(sweep[w].now) IN
    /\ sweep[w].pc = "telemetry"
    /\ stored' = stored \ old
    /\ \/ GoesOn(w, "sessions", Cardinality(old), 0)
       \/ Errors(w)                                   \* the answer is lost
    /\ UNCHANGED <<clock, inserted, sess>>

DeleteExpiredSessions(w) ==
    LET ended == Ended(sweep[w].now - SessionAge) IN
    /\ sweep[w].pc = "sessions"
    /\ sess' = WithoutSessions(ended, "deleted")
    /\ GoesOn(w, "ok", sweep[w].telemetry, Cardinality(ended)) \/ Errors(w)
    /\ UNCHANGED <<clock, stored, inserted>>

\* Mutated form: Run goes on when the telemetry could not be deleted.
DeleteFailsSilently(w) ==
    /\ sweep[w].pc \in {"telemetry", "sessions"}
    /\ IF sweep[w].pc = "telemetry" THEN GoesOn(w, "sessions", 0, 0) ELSE Errors(w)
    /\ UNCHANGED <<clock, stored, inserted, sess>>

\* A statement fails and deletes nothing.
DeleteFails(w) ==
    /\ sweep[w].pc \in {"telemetry", "sessions"}
    /\ Errors(w)
    /\ UNCHANGED <<clock, stored, inserted, sess>>

RunSweep(w) ==
    StartSweep(w) \/ DeleteTelemetryBefore(w) \/ DeleteExpiredSessions(w) \/ DeleteFails(w)

RetentionNext ==
    \/ Tick
    \/ \E k \in Keys, at \in 0..MaxTime + Skew : Record(k, at)
    \/ \E s \in SessionIds : CreateSession(s) \/ RevokeSession(s)
    \/ VacuumSessions
    \/ \E w \in Sweeps : RunSweep(w)

RetentionSpec == RetentionInit /\ [][RetentionNext]_retentionVars

-----------------------------------------------------------------------------
(* Properties                                                              *)

DeletedSessions == {s \in SessionIds : sess[s].status = "deleted"}

\* The sum of the counts n[w]: how many pairs <<w, i>> have i among n[w] numbers.
\* (Without a fold, so that the proofs can reason about it.)
Pairs(n) == UNION {{w} \X (1..n[w]) : w \in DOMAIN n}
Total(n) == Cardinality(Pairs(n))

Returned(w) == sweep[w].pc = "ok"
ReportedTelemetry ==
    Total([w \in Sweeps |-> IF Returned(w) THEN sweep[w].telemetry ELSE 0])
ReportedSessions ==
    Total([w \in Sweeps |-> IF Returned(w) THEN sweep[w].sessions ELSE 0])

\* No row is counted in two reports, and what no report counts was deleted by a
\* run that failed or has not returned.
CountsExact ==
    /\ ReportedTelemetry <= inserted - Cardinality(stored)
    /\ ReportedSessions <= Cardinality(DeletedSessions)
    /\ (\A w \in Sweeps : sweep[w].pc \in {"idle", "telemetry", "ok"}) =>
          /\ ReportedTelemetry = inserted - Cardinality(stored)
          /\ ReportedSessions = Cardinality(DeletedSessions)

\* None of the rows there were when a run began is left after it returns nil
\* with a measurement older than its cutoff.
NoneOldLeft ==
    \A w \in Sweeps : Returned(w) =>
        \A t \in stored \cap sweep[w].before : t.at >= sweep[w].now - TelemetryAge

\* A report can be believed although runs overlap and the rows change under
\* them: its counts are those of the rows its run deleted, and none that it had
\* to delete is left.
ReportsExact == CountsExact /\ NoneOldLeft

\* However long a run takes, it deletes no measurement younger than the age it
\* was given and no session that could still be used.
DeletesOnlyOld ==
    [][/\ \A t \in stored \ stored' : t.at + TelemetryAge < clock
       /\ \A s \in SessionIds : sess'[s].status = "deleted" /\ sess[s].status = "live" =>
             sess[s].at + SessionAge <= clock]_retentionVars
=============================================================================
