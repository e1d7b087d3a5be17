-------------------------- MODULE OperationsProofs --------------------------
(***************************************************************************)
(* Proofs about the process and what it keeps in order, each part on its   *)
(* own: Server and Migrations, for any number of processes, migrations,    *)
(* requests and faults; Alerts, for any number of alerts and calls;        *)
(* Retention, for any sessions and rows.                                   *)
(***************************************************************************)
EXTENDS Server, Alerts, Retention, FiniteSetTheorems, TLAPS

-----------------------------------------------------------------------------
(* Server and Migrations.  The invariant says what the advisory lock        *)
(* protects: a process between its lock and its unlock is the one that      *)
(* holds it, so that what its loop has found out about the ledger stays     *)
(* true until it acts on it.                                                *)

\* From the lock to the unlock the process holds the lock; before and after
\* its life it does not.
LockHeld ==
    \A p \in Procs :
        /\ pc[p] \in {"check", "apply", "done", "error"} => lock = p
        /\ pc[p] \in {"lock", "down"} => lock # p

\* The loop has left no version behind, and applies one that is not listed.
LoopProgress ==
    \A p \in Procs :
        /\ pc[p] = "lock" => version[p] = 1
        /\ pc[p] \in {"check", "apply"} => \A v \in Versions : v < version[p] => v \in ledger
        /\ pc[p] = "apply" => version[p] \in Versions \ ledger
        /\ pc[p] \in {"done", "serving"} => ledger = Versions
        /\ p \in listening => pc[p] = "serving"

\* main leaves ListenAndServe because of Shutdown, and Shutdown is called
\* because the context ended.
StopsInOrder ==
    \A p \in Procs :
        /\ shutdown[p] # "waiting" => p \in cancelled
        /\ main[p] = "closing" => shutdown[p] # "waiting"

ServerInv == TypeOK /\ LockHeld /\ LoopProgress /\ AppliedOnce /\ StopsInOrder /\ NoRefusedStart

USE MigrationsAssumption

\* A version's transaction, run by the holder of the lock on an unlisted
\* version, keeps the ledger and the statements in step.
LEMMA CommitStep ==
    ASSUME ServerInv, NEW p \in Procs, pc[p] = "apply", Commit(p)
    PROVE  /\ ledger' = ledger \cup {version[p]}
           /\ ledger' \subseteq Versions
           /\ applied' \in [Versions -> Nat]
           /\ AppliedOnce'
<1>1. version[p] \in Versions \ ledger
  BY DEF ServerInv, LoopProgress
<1>2. /\ ledger' = ledger \cup {version[p]}
      /\ applied' = [applied EXCEPT ![version[p]] = applied[version[p]] + 1]
      /\ applied \in [Versions -> Nat] /\ ledger \subseteq Versions
      /\ AppliedOnce
  BY DEF Commit, ServerInv, TypeOK, MigrateTypeOK
<1>3. applied' \in [Versions -> Nat]
  BY <1>1, <1>2
<1>4. ASSUME NEW v \in Versions PROVE applied'[v] = IF v \in ledger' THEN 1 ELSE 0
  BY <1>1, <1>2 DEF AppliedOnce
<1>. QED
  BY <1>1, <1>2, <1>3, <1>4 DEF AppliedOnce

\* Waiting for and taking the lock.
LEMMA LockStep ==
    ASSUME ServerInv, NEW p \in Procs, Lock(p), UNCHANGED serverVars
    PROVE  ServerInv'
<1> USE DEF Lock, Goto, serverVars, database
<1>1. TypeOK'
  BY DEF ServerInv, TypeOK, MigrateTypeOK
<1>2. LockHeld'
  BY DEF ServerInv, LockHeld, TypeOK, MigrateTypeOK
<1>3. LoopProgress'
  BY DEF ServerInv, LoopProgress, TypeOK, MigrateTypeOK, Versions
<1>4. AppliedOnce' /\ StopsInOrder' /\ NoRefusedStart'
  BY DEF ServerInv, TypeOK, MigrateTypeOK, AppliedOnce, StopsInOrder, NoRefusedStart, Versions
<1>. QED
  BY <1>1, <1>2, <1>3, <1>4 DEF ServerInv

\* The test of the loop.
LEMMA CheckStep ==
    ASSUME ServerInv, NEW p \in Procs, Check(p), UNCHANGED serverVars
    PROVE  ServerInv'
<1> USE DEF Goto, serverVars, database
<1> DEFINE v == version[p]
<1>1. /\ pc[p] = "check" /\ v \in 1..(NumVersions + 1)
      /\ UNCHANGED <<ledger, applied, lock, faults, cancelled, shutdown, listening, main, request>>
  BY DEF Check, ServerInv, TypeOK, MigrateTypeOK
<1>2. \/ v > NumVersions /\ pc' = [pc EXCEPT ![p] = "done"] /\ version' = version
      \/ v \in Versions /\ v \in ledger /\ version' = [version EXCEPT ![p] = v + 1] /\ pc' = pc
      \/ v \in Versions /\ v \notin ledger /\ pc' = [pc EXCEPT ![p] = "apply"] /\ version' = version
  BY <1>1 DEF Check, Versions
<1>3. version' \in [Procs -> 1..(NumVersions + 1)]
  BY <1>1, <1>2 DEF ServerInv, TypeOK, MigrateTypeOK, Versions
<1>4. TypeOK'
  BY <1>1, <1>2, <1>3 DEF ServerInv, TypeOK, MigrateTypeOK
<1>5. LockHeld'
  BY <1>1, <1>2 DEF ServerInv, LockHeld, TypeOK, MigrateTypeOK
<1>6. LoopProgress'
  <2>1. CASE pc' = [pc EXCEPT ![p] = "done"] /\ v > NumVersions /\ version' = version
    <3>1. \A u \in Versions : u \in ledger
      BY <1>1, <2>1 DEF ServerInv, LoopProgress, Versions
    <3>. QED
      BY <1>1, <2>1, <3>1 DEF ServerInv, LoopProgress, TypeOK, MigrateTypeOK
  <2>2. CASE v \in ledger /\ version' = [version EXCEPT ![p] = v + 1] /\ pc' = pc
    <3>1. version'[p] = v + 1 /\ \A q \in Procs : q # p => version'[q] = version[q]
      BY <2>2 DEF ServerInv, TypeOK, MigrateTypeOK
    <3>2. \A u \in Versions : u < v + 1 => u \in ledger
      BY <1>1, <2>2 DEF ServerInv, LoopProgress, Versions
    <3>. QED
      BY <1>1, <2>2, <3>1, <3>2 DEF ServerInv, LoopProgress, Versions
  <2>3. CASE v \in Versions /\ v \notin ledger /\ pc' = [pc EXCEPT ![p] = "apply"] /\ version' = version
    BY <1>1, <2>3 DEF ServerInv, LoopProgress, TypeOK, MigrateTypeOK, Versions
  <2>. QED
    BY <1>2, <2>1, <2>2, <2>3
<1>7. AppliedOnce' /\ StopsInOrder' /\ NoRefusedStart'
  BY <1>1, <1>2 DEF ServerInv, TypeOK, MigrateTypeOK, AppliedOnce, StopsInOrder, NoRefusedStart, Versions
<1>. QED
  BY <1>4, <1>5, <1>6, <1>7 DEF ServerInv

\* The transaction of a version, committed, and the error branch, which the
\* lock makes unreachable.
LEMMA ApplyStep ==
    ASSUME ServerInv, NEW p \in Procs, Apply(p), UNCHANGED serverVars
    PROVE  ServerInv'
<1> USE DEF Goto, serverVars
<1>1. /\ pc[p] = "apply" /\ version[p] \in Versions \ ledger
      /\ Commit(p)
      /\ pc' = [pc EXCEPT ![p] = "check"]
      /\ UNCHANGED <<lock, version, faults, cancelled, shutdown, listening, main, request>>
  BY DEF Apply, ServerInv, LoopProgress
<1>2. /\ ledger' = ledger \cup {version[p]} /\ ledger' \subseteq Versions
      /\ applied' \in [Versions -> Nat] /\ AppliedOnce'
  BY <1>1, CommitStep
<1>3. TypeOK'
  BY <1>1, <1>2 DEF ServerInv, TypeOK, MigrateTypeOK, Versions
<1>4. LockHeld'
  BY <1>1 DEF ServerInv, LockHeld, TypeOK, MigrateTypeOK
<1>5. LoopProgress'
  BY <1>1, <1>2 DEF ServerInv, LockHeld, LoopProgress, TypeOK, MigrateTypeOK, Versions
<1>6. StopsInOrder' /\ NoRefusedStart'
  BY <1>1 DEF ServerInv, TypeOK, MigrateTypeOK, StopsInOrder, NoRefusedStart
<1>. QED
  BY <1>2, <1>3, <1>4, <1>5, <1>6 DEF ServerInv

\* The commit whose answer is lost.
LEMMA ApplyUnknownStep ==
    ASSUME ServerInv, NEW p \in Procs, ApplyUnknown(p), UNCHANGED serverVars
    PROVE  ServerInv'
<1> USE DEF Goto, serverVars
<1>1. /\ pc[p] = "apply" /\ version[p] \in Versions \ ledger
      /\ Commit(p)
      /\ pc' = [pc EXCEPT ![p] = "error"]
      /\ faults' \in 0..MaxFaults /\ faults' # 0
      /\ UNCHANGED <<lock, version, cancelled, shutdown, listening, main, request>>
  BY DEF ApplyUnknown, Fault, ServerInv, LoopProgress, TypeOK, MigrateTypeOK
<1>2. /\ ledger' = ledger \cup {version[p]} /\ ledger' \subseteq Versions
      /\ applied' \in [Versions -> Nat] /\ AppliedOnce'
  BY <1>1, CommitStep
<1>3. TypeOK'
  BY <1>1, <1>2 DEF ServerInv, TypeOK, MigrateTypeOK, Versions
<1>4. LockHeld'
  BY <1>1 DEF ServerInv, LockHeld, TypeOK, MigrateTypeOK
<1>5. LoopProgress'
  BY <1>1, <1>2 DEF ServerInv, LockHeld, LoopProgress, TypeOK, MigrateTypeOK, Versions
<1>6. StopsInOrder' /\ NoRefusedStart'
  BY <1>1 DEF ServerInv, TypeOK, MigrateTypeOK, StopsInOrder, NoRefusedStart
<1>. QED
  BY <1>2, <1>3, <1>4, <1>5, <1>6 DEF ServerInv

\* Steps that leave the database alone and move one process on or out of its
\* life: what each must respect.  Every remaining step is one of them.
LEMMA MoveStep ==
    ASSUME ServerInv, NEW p \in Procs,
           NEW to \in {"error", "serving", "down", "lock"},
           UNCHANGED database,
           pc' = [pc EXCEPT ![p] = to],
           lock' = lock \/ lock' = IF lock = p THEN Nobody ELSE lock,
           to = "error" => pc[p] \in {"check", "apply"} /\ lock' = lock,
           to = "serving" => pc[p] \in {"done", "serving"},
           to = "down" => lock' # p /\ p \notin listening',
           to = "lock" => pc[p] = "down" /\ lock' = lock,
           version' = IF to = "lock" THEN [version EXCEPT ![p] = 1] ELSE version,
           faults' \in 0..MaxFaults, faults' >= faults,
           faults' = 0 /\ to \in {"error", "down"} => p \in cancelled,
           UNCHANGED <<main, shutdown, cancelled>> \/
              /\ to = "lock"
              /\ cancelled' = cancelled \ {p}
              /\ shutdown' = [shutdown EXCEPT ![p] = "waiting"]
              /\ main' = [main EXCEPT ![p] = "starting"],
           listening' = listening \/ listening' = listening \ {p},
           request' \in [Procs -> [Requests -> {"none", "active", "answered", "failed", "cut"}]]
    PROVE  ServerInv'
<1>1. TypeOK'
  <2>1. version' \in [Procs -> 1..(NumVersions + 1)]
    BY DEF ServerInv, TypeOK, MigrateTypeOK
  <2>2. MigrateTypeOK'
    BY <2>1 DEF database, ServerInv, TypeOK, MigrateTypeOK, Versions
  <2>3. /\ cancelled' \subseteq Procs /\ listening' \subseteq Procs
        /\ shutdown' \in [Procs -> {"waiting", "draining", "returned"}]
        /\ main' \in [Procs -> {"starting", "serving", "closing"}]
    BY DEF ServerInv, TypeOK
  <2>. QED
    BY <2>2, <2>3 DEF TypeOK
<1>2. LockHeld'
  BY DEF database, ServerInv, LockHeld, TypeOK, MigrateTypeOK
<1>3. LoopProgress'
  BY DEF database, ServerInv, LoopProgress, TypeOK, MigrateTypeOK, Versions
<1>4. AppliedOnce'
  BY DEF database, ServerInv, AppliedOnce, Versions
<1>5. StopsInOrder'
  BY DEF ServerInv, StopsInOrder, TypeOK
<1>6. NoRefusedStart'
  BY DEF ServerInv, NoRefusedStart, TypeOK, MigrateTypeOK
<1>. QED
  BY <1>1, <1>2, <1>3, <1>4, <1>5, <1>6 DEF ServerInv

\* Steps of the serving process that leave Migrate's state alone.
LEMMA ServeStep ==
    ASSUME ServerInv, NEW p \in Procs,
           \/ Signal(p) \/ Listen(p) \/ BeginShutdown(p) \/ EndShutdown(p) \/ ReturnFromListen(p)
           \/ \E q \in Requests : Accept(p, q) \/ Respond(p, q)
    PROVE  ServerInv'
<1>1. UNCHANGED <<ledger, applied, lock, pc, version, faults>>
  BY DEF Signal, Listen, BeginShutdown, EndShutdown, ReturnFromListen, Accept, Respond,
         migrateVars, database
<1>2. MigrateTypeOK' /\ LockHeld' /\ AppliedOnce'
  BY <1>1 DEF ServerInv, TypeOK, MigrateTypeOK, LockHeld, AppliedOnce
<1> USE <1>1, <1>2 DEF ServerInv, TypeOK, LoopProgress, StopsInOrder, NoRefusedStart
<1>3. CASE Signal(p)
  BY <1>3 DEF Signal
<1>4. CASE Listen(p)
  BY <1>4 DEF Listen, Running
<1>5. CASE BeginShutdown(p)
  BY <1>5 DEF BeginShutdown, Running
<1>6. CASE EndShutdown(p)
  BY <1>6 DEF EndShutdown
<1>7. CASE ReturnFromListen(p)
  BY <1>7 DEF ReturnFromListen
<1>8. ASSUME NEW q \in Requests, Accept(p, q) \/ Respond(p, q) PROVE ServerInv'
  <2>1. PICK a \in {"active", "answered", "failed"} :
          request' = [request EXCEPT ![p] = [request[p] EXCEPT ![q] = a]]
    BY <1>8 DEF Accept, Respond
  <2>2. UNCHANGED <<cancelled, shutdown, listening, main>>
    BY <1>8 DEF Accept, Respond
  <2>. QED
    BY <2>1, <2>2
<1>. QED
  BY <1>3, <1>4, <1>5, <1>6, <1>7, <1>8

\* Ends of a process, by an error of Migrate, by a signal, by a crash or by a
\* failed listen.
LEMMA EndStep ==
    ASSUME ServerInv, NEW p \in Procs,
           \/ (MigrateExit(p) /\ UNCHANGED serverVars) \/ Exit(p) \/ ListenFails(p) \/ (Crash(p) /\ End(p))
    PROVE  ServerInv'
<1> DEFINE cut == [request EXCEPT ![p] =
                      [q \in Requests |-> IF @[q] = "active" THEN "cut" ELSE @[q]]]
<1>1. /\ UNCHANGED <<database, version, cancelled, shutdown, main>>
      /\ pc' = [pc EXCEPT ![p] = "down"]
      /\ lock' = IF lock = p THEN Nobody ELSE lock
      /\ listening' = listening \/ listening' = listening \ {p}
      /\ request' = request \/ request' = cut
  BY DEF MigrateExit, Exit, ListenFails, Crash, End, Release, Goto, serverVars
<1>2. lock' # p
  BY <1>1
<1>3. p \notin listening'
  <2>1. CASE MigrateExit(p) /\ UNCHANGED serverVars
    BY <2>1 DEF MigrateExit, serverVars, ServerInv, LoopProgress
  <2>. QED
    BY <2>1 DEF Exit, ListenFails, End
<1>4. cut \in [Procs -> [Requests -> {"none", "active", "answered", "failed", "cut"}]]
  BY DEF ServerInv, TypeOK
<1>5. request' \in [Procs -> [Requests -> {"none", "active", "answered", "failed", "cut"}]]
  BY <1>1, <1>4 DEF ServerInv, TypeOK
<1>6. /\ faults' \in 0..MaxFaults /\ faults' >= faults
      /\ faults' = 0 => p \in cancelled
  <2> USE DEF ServerInv, TypeOK, MigrateTypeOK
  <2>1. CASE MigrateExit(p)
    BY <2>1 DEF MigrateExit, NoRefusedStart
  <2>2. CASE Exit(p)
    BY <2>2 DEF Exit, StopsInOrder
  <2>3. CASE ListenFails(p) \/ Crash(p)
    BY <2>3 DEF ListenFails, Crash, Fault
  <2>. QED
    BY <2>1, <2>2, <2>3
<1>. HIDE DEF cut
<1>. QED
  BY <1>1, <1>2, <1>3, <1>5, <1>6, MoveStep

\* The deferred unlock, and the pool that closes a session later.
LEMMA UnlockStep ==
    ASSUME ServerInv, NEW p \in Procs,
           Unlock(p) \/ UnlockFails(p) \/ SessionEnds(p), UNCHANGED serverVars
    PROVE  ServerInv'
<1>1. /\ UNCHANGED <<database, version, cancelled, shutdown, main, listening, request>>
      /\ pc[p] \in {"done", "serving"}
      /\ pc' = [pc EXCEPT ![p] = "serving"]
      /\ lock' = lock \/ lock' = IF lock = p THEN Nobody ELSE lock
  BY DEF Unlock, UnlockFails, SessionEnds, Release, Goto, serverVars, ServerInv, TypeOK, MigrateTypeOK
<1>2. faults' \in 0..MaxFaults /\ faults' >= faults
  BY DEF Unlock, UnlockFails, SessionEnds, Fault, ServerInv, TypeOK, MigrateTypeOK
<1>3. request' \in [Procs -> [Requests -> {"none", "active", "answered", "failed", "cut"}]]
  BY <1>1 DEF ServerInv, TypeOK
<1>. QED
  BY <1>1, <1>2, <1>3, MoveStep

\* A statement of Migrate that fails, or is cancelled with the context.
LEMMA InterruptStep ==
    ASSUME ServerInv, NEW p \in Procs,
           CancelMigrate(p) \/ (Fail(p) /\ UNCHANGED serverVars)
    PROVE  ServerInv'
<1>1. /\ UNCHANGED <<database, version, lock, cancelled, shutdown, main, listening, request>>
      /\ pc[p] \in {"lock", "check", "apply"}
      /\ pc' = [pc EXCEPT ![p] = IF pc[p] = "lock" THEN "down" ELSE "error"]
  BY DEF CancelMigrate, Fail, Interrupt, Goto, serverVars
<1>2. /\ faults' \in 0..MaxFaults /\ faults' >= faults
      /\ faults' = 0 => p \in cancelled
  BY DEF CancelMigrate, Fail, Fault, ServerInv, TypeOK, MigrateTypeOK
<1>3. request' \in [Procs -> [Requests -> {"none", "active", "answered", "failed", "cut"}]]
  BY <1>1 DEF ServerInv, TypeOK
<1>4. CASE pc[p] = "lock"
  <2>1. lock' # p /\ p \notin listening'
    BY <1>1, <1>4 DEF ServerInv, LockHeld, LoopProgress
  <2>. QED
    BY <1>1, <1>2, <1>3, <1>4, <2>1, MoveStep
<1>5. CASE pc[p] # "lock"
  BY <1>1, <1>2, <1>3, <1>5, MoveStep
<1>. QED
  BY <1>4, <1>5

\* A new process in the place of one that ended.
LEMMA StartStep ==
    ASSUME ServerInv, NEW p \in Procs, Start(p)
    PROVE  ServerInv'
<1>1. /\ UNCHANGED <<database, lock, faults, listening>>
      /\ pc[p] = "down" /\ pc' = [pc EXCEPT ![p] = "lock"]
      /\ version' = [version EXCEPT ![p] = 1]
      /\ cancelled' = cancelled \ {p}
      /\ shutdown' = [shutdown EXCEPT ![p] = "waiting"]
      /\ main' = [main EXCEPT ![p] = "starting"]
  BY DEF Start, Restart, Goto
<1>2. request' \in [Procs -> [Requests -> {"none", "active", "answered", "failed", "cut"}]]
  BY DEF Start, ServerInv, TypeOK
<1>3. faults' \in 0..MaxFaults /\ faults' >= faults
  BY <1>1 DEF ServerInv, TypeOK, MigrateTypeOK
<1>. QED
  BY <1>1, <1>2, <1>3, MoveStep

\* The inductive invariant of the migrations and the processes.
THEOREM ServerInvariance == Spec => []ServerInv
<1>1. Init => ServerInv
  <2>1. ASSUME Init PROVE ServerInv
    <3>1. PICK n \in 0..NumVersions :
            ledger = 1..n /\ applied = [v \in Versions |-> IF v <= n THEN 1 ELSE 0]
      BY <2>1 DEF Init, MigrateInit
    <3>2. TypeOK
      BY <2>1, <3>1 DEF Init, MigrateInit, TypeOK, MigrateTypeOK, Versions
    <3>3. AppliedOnce
      BY <3>1 DEF AppliedOnce, Versions
    <3>4. LockHeld /\ LoopProgress /\ StopsInOrder /\ NoRefusedStart
      BY <2>1 DEF Init, MigrateInit, LockHeld, LoopProgress, StopsInOrder, NoRefusedStart
    <3>. QED
      BY <3>2, <3>3, <3>4 DEF ServerInv
  <2>. QED
    BY <2>1
<1>2. ASSUME ServerInv, [Next]_vars PROVE ServerInv'
  <2>1. CASE UNCHANGED vars
    BY <1>2, <2>1
    DEF vars, migrateVars, serverVars, database, ServerInv, TypeOK, MigrateTypeOK, LockHeld,
        LoopProgress, AppliedOnce, StopsInOrder, NoRefusedStart
  <2>2. CASE Next
    BY <1>2, <2>2, LockStep, CheckStep, ApplyStep, ApplyUnknownStep, ServeStep, EndStep, UnlockStep,
       InterruptStep, StartStep
    DEF Next, Migrate
  <2>. QED
    BY <1>2, <2>1, <2>2
<1>. QED
  BY <1>1, <1>2, PTL DEF Spec

\* A process takes requests only on the full schema, and every migration has
\* been applied exactly once if the ledger lists it and never otherwise.
THEOREM SchemaAlwaysExact == Spec => []SchemaExact
<1>1. ServerInv => SchemaExact
  BY DEF ServerInv, TypeOK, LoopProgress, SchemaExact
<1>. QED
  BY ServerInvariance, <1>1, PTL

\* Without faults a process ends only because it was told to: the lock keeps
\* concurrent starts from failing one another.
THEOREM StartNeverRefused == Spec => []NoRefusedStart
<1>1. ServerInv => NoRefusedStart
  BY DEF ServerInv
<1>. QED
  BY ServerInvariance, <1>1, PTL

\* At most one process is between its lock and its unlock.
THEOREM MigratesAlone ==
    Spec => [](\A p, q \in Procs :
                 pc[p] \in {"check", "apply", "done", "error"}
                    /\ pc[q] \in {"check", "apply", "done", "error"} => p = q)
<1>1. ServerInv => \A p, q \in Procs :
                 pc[p] \in {"check", "apply", "done", "error"}
                    /\ pc[q] \in {"check", "apply", "done", "error"} => p = q
  BY DEF ServerInv, LockHeld
<1>. QED
  BY ServerInvariance, <1>1, PTL

-----------------------------------------------------------------------------
(* Alerts                                                                   *)

\* The states from which Resolve goes on to its UPDATE.
Resolvable == {"open", "acknowledged"}

\* ResolvedOnce is not inductive: a call between its read and its write has read
\* a state that can be resolved, the row can only have moved on from it, and the
\* call has not written.
AlertInv ==
    /\ AlertTypeOK
    /\ ResolvedOnce
    /\ \A r \in Resolvers :
          /\ resolve[r].pc # "idle" /\ resolve[r].pc # "error" => resolve[r].id \in AlertIds
          /\ resolve[r].pc = "read" =>
                /\ resolve[r].seen \in Resolvable
                /\ alert[resolve[r].id] \in {resolve[r].seen, "acknowledged", "resolved"}
          /\ resolve[r].pc \in {"idle", "read"} =>
                \A a \in AlertIds : r \notin wrote[a]

\* No call has begun and no alert has been resolved.
LEMMA AlertInitInv == AlertInit => AlertInv
  BY NoAlertAssumption DEF AlertInit, AlertInv, AlertTypeOK, ResolvedOnce, NoResolve, AlertStates

\* Every step of a caller or of another writer keeps what a pending Resolve knows.
LEMMA AlertStepInv == AlertInv /\ [AlertNext]_alertVars => AlertInv'
<1> SUFFICES ASSUME AlertInv, [AlertNext]_alertVars PROVE AlertInv'
  OBVIOUS
<1> USE NoAlertAssumption DEF AlertInv, AlertTypeOK, ResolvedOnce, AlertStates, Resolvable
<1>1. ASSUME NEW a \in AlertIds, CreateAlert(a) PROVE AlertInv'
  BY <1>1 DEF CreateAlert
<1>2. ASSUME NEW a \in AlertIds, Acknowledge(a) PROVE AlertInv'
  BY <1>2 DEF Acknowledge
<1>3. ASSUME NEW r \in Resolvers, NEW a \in AlertIds, GetAlert(r, a) PROVE AlertInv'
  BY <1>3 DEF GetAlert, AlertTransition
<1>4. ASSUME NEW r \in Resolvers, TransitionAlert(r) PROVE AlertInv'
  BY <1>4 DEF TransitionAlert, Matches
<1>5. ASSUME NEW r \in Resolvers, TransitionConflict(r) PROVE AlertInv'
  BY <1>5 DEF TransitionConflict, Matches
<1>6. ASSUME NEW r \in Resolvers, ResolveFails(r) PROVE AlertInv'
  BY <1>6 DEF ResolveFails
<1>7. CASE UNCHANGED alertVars
  BY <1>7 DEF alertVars
<1> QED
  BY <1>1, <1>2, <1>3, <1>4, <1>5, <1>6, <1>7 DEF AlertNext, Resolve

\* One call at most resolves an alert, for any number of concurrent calls of
\* Resolve: nil means that this call did, ErrConflict that it changed nothing.
THEOREM ResolvedOnceAlways == AlertSpec => []ResolvedOnce
<1>1. AlertInv => ResolvedOnce
  BY DEF AlertInv
<1> QED
  BY <1>1, AlertInitInv, AlertStepInv, PTL DEF AlertSpec

-----------------------------------------------------------------------------
(* Retention                                                                *)

\* What a run deletes depends on the clock it read when it began, which the
\* clock has only moved on from; the sets it counts are finite.
RetentionInv ==
    /\ RetentionTypeOK
    /\ IsFiniteSet(stored)
    /\ \A w \in Sweeps : sweep[w].now <= clock

\* The tables are empty and no run has begun.
LEMMA RetentionInitInv == RetentionInit => RetentionInv
  BY RetentionAssumption, FS_EmptySet
     DEF RetentionInit, RetentionInv, RetentionTypeOK, NoSweep

\* The rows a statement deletes are counted by a natural number.
LEMMA CountsNat ==
  ASSUME RetentionInv, IsFiniteSet(SessionIds), NEW now
  PROVE  /\ Cardinality(Old(now)) \in Nat
         /\ Cardinality(Ended(now)) \in Nat
         /\ IsFiniteSet(stored \ Old(now))
<1>1. IsFiniteSet(Old(now)) /\ IsFiniteSet(stored \ Old(now))
  BY FS_Subset DEF Old, RetentionInv
<1>2. IsFiniteSet(Ended(now))
  BY FS_Subset DEF Ended
<1> QED
  BY <1>1, <1>2, FS_CardinalityType

\* Every step keeps the tables finite and the cutoffs of the runs in the past.
LEMMA RetentionStepInv ==
  ASSUME IsFiniteSet(SessionIds), RetentionInv, [RetentionNext]_retentionVars
  PROVE  RetentionInv'
<1> USE RetentionAssumption DEF RetentionInv, RetentionTypeOK
<1>1. CASE Tick
  BY <1>1 DEF Tick
<1>2. ASSUME NEW k \in Keys, NEW at \in 0..MaxTime + Skew, Record(k, at)
      PROVE  RetentionInv'
  <2>1. IsFiniteSet(stored')
    BY <1>2, FS_AddElement DEF Record
  <2>2. stored' \subseteq TelemetryRows
    BY <1>2 DEF Record, TelemetryRows
  <2> QED
    BY <1>2, <2>1, <2>2 DEF Record
<1>3. ASSUME NEW s \in SessionIds, CreateSession(s) PROVE RetentionInv'
  BY <1>3 DEF CreateSession
<1>4. ASSUME NEW s \in SessionIds, RevokeSession(s) PROVE RetentionInv'
  BY <1>4 DEF RevokeSession
<1>5. CASE VacuumSessions
  BY <1>5 DEF VacuumSessions, WithoutSessions
<1>6. ASSUME NEW w \in Sweeps, StartSweep(w) PROVE RetentionInv'
  BY <1>6 DEF StartSweep
<1>7. ASSUME NEW w \in Sweeps, DeleteTelemetryBefore(w) PROVE RetentionInv'
  <2>1. Cardinality(Old(sweep[w].now)) \in Nat /\ IsFiniteSet(stored')
    BY <1>7, CountsNat DEF DeleteTelemetryBefore
  <2> QED
    BY <1>7, <2>1 DEF DeleteTelemetryBefore, GoesOn, Errors
<1>8. ASSUME NEW w \in Sweeps, DeleteExpiredSessions(w) PROVE RetentionInv'
  <2>1. Cardinality(Ended(sweep[w].now - SessionAge)) \in Nat
    BY CountsNat
  <2>2. sess' \in [SessionIds ->
                      [status : {"absent", "live", "revoked", "deleted", "vacuumed"},
                       at : 0..MaxTime + SessionLife]]
    BY <1>8 DEF DeleteExpiredSessions, WithoutSessions
  <2>3. CASE GoesOn(w, "ok", sweep[w].telemetry, Cardinality(Ended(sweep[w].now - SessionAge)))
    BY <1>8, <2>1, <2>2, <2>3 DEF DeleteExpiredSessions, GoesOn
  <2>4. CASE Errors(w)
    BY <1>8, <2>2, <2>4 DEF DeleteExpiredSessions, GoesOn, Errors
  <2> QED
    BY <1>8, <2>3, <2>4 DEF DeleteExpiredSessions
<1>9. ASSUME NEW w \in Sweeps, DeleteFails(w) PROVE RetentionInv'
  BY <1>9 DEF DeleteFails, GoesOn, Errors
<1>10. CASE UNCHANGED retentionVars
  BY <1>10 DEF retentionVars
<1> QED
  BY <1>1, <1>2, <1>3, <1>4, <1>5, <1>6, <1>7, <1>8, <1>9, <1>10
     DEF RetentionNext, RunSweep

\* The types of the tables and of the runs, with counts that are numbers.
THEOREM RetentionTypes ==
  ASSUME IsFiniteSet(SessionIds)
  PROVE  RetentionSpec => []RetentionTypeOK
<1>1. RetentionInv => RetentionTypeOK
  BY DEF RetentionInv
<1>2. RetentionInv /\ [RetentionNext]_retentionVars => RetentionInv'
  BY RetentionStepInv
<1> QED
  BY <1>1, <1>2, RetentionInitInv, PTL DEF RetentionSpec

\* No run of Run deletes a measurement younger than the age it was given or a
\* session that could still be used, for any number of overlapping runs and
\* however far the clock moves on during them.
THEOREM DeletesOnlyOldAlways ==
  ASSUME IsFiniteSet(SessionIds)
  PROVE  RetentionSpec => DeletesOnlyOld
<1> DEFINE Step ==
      /\ \A t \in stored \ stored' : t.at + TelemetryAge < clock
      /\ \A s \in SessionIds : sess'[s].status = "deleted" /\ sess[s].status = "live" =>
            sess[s].at + SessionAge <= clock
<1>1. RetentionInv /\ [RetentionNext]_retentionVars => [Step]_retentionVars
  <2> SUFFICES ASSUME RetentionInv, RetentionNext PROVE Step
    OBVIOUS
  <2> USE RetentionAssumption DEF RetentionInv, RetentionTypeOK
  <2>1. CASE Tick
    BY <2>1 DEF Tick
  <2>2. ASSUME NEW k \in Keys, NEW at \in 0..MaxTime + Skew, Record(k, at) PROVE Step
    BY <2>2 DEF Record
  <2>3. ASSUME NEW s \in SessionIds, CreateSession(s) \/ RevokeSession(s) PROVE Step
    BY <2>3 DEF CreateSession, RevokeSession
  <2>4. CASE VacuumSessions
    BY <2>4 DEF VacuumSessions, WithoutSessions
  <2>5. ASSUME NEW w \in Sweeps, StartSweep(w) \/ DeleteFails(w) PROVE Step
    BY <2>5 DEF StartSweep, DeleteFails
  <2>6. ASSUME NEW w \in Sweeps, DeleteTelemetryBefore(w) PROVE Step
    BY <2>6 DEF DeleteTelemetryBefore, Old, TelemetryRows
  <2>7. ASSUME NEW w \in Sweeps, DeleteExpiredSessions(w) PROVE Step
    BY <2>7 DEF DeleteExpiredSessions, WithoutSessions, Ended
  <2> QED
    BY <2>1, <2>2, <2>3, <2>4, <2>5, <2>6, <2>7 DEF RetentionNext, RunSweep
<1>2. RetentionInv /\ [RetentionNext]_retentionVars => RetentionInv'
  BY RetentionStepInv
<1> QED
  BY <1>1, <1>2, RetentionInitInv, PTL DEF RetentionSpec, DeletesOnlyOld

\* NoneOldLeft is not inductive: the second statement adds nothing to what the
\* first has done, and a row recorded after it is no row there was before,
\* because ids are never used again.
SweptInv ==
    /\ \A t \in stored : t.id <= inserted
    /\ \A w \in Sweeps : \A t \in sweep[w].before : t.id <= inserted
    /\ \A w \in Sweeps : sweep[w].pc \in {"sessions", "ok"} =>
          \A t \in stored \cap sweep[w].before : t.at >= sweep[w].now - TelemetryAge

\* Every step keeps what the first statement of a run has achieved.
LEMMA SweptStepInv ==
  ASSUME RetentionTypeOK, SweptInv, [RetentionNext]_retentionVars
  PROVE  SweptInv'
<1> USE RetentionAssumption DEF SweptInv, RetentionTypeOK
<1>1. ASSUME NEW k \in Keys, NEW at \in 0..MaxTime + Skew, Record(k, at)
      PROVE  SweptInv'
  <2> DEFINE new == [id |-> inserted + 1, key |-> k, at |-> at]
  <2>1. new \notin stored /\ \A w \in Sweeps : new \notin sweep[w].before
    OBVIOUS
  <2>2. \A t \in stored' : t.id <= inserted'
    BY <1>1 DEF Record, TelemetryRows
  <2>3. \A w \in Sweeps : \A t \in sweep'[w].before : t.id <= inserted'
    BY <1>1 DEF Record, TelemetryRows
  <2>4. \A w \in Sweeps : stored' \cap sweep'[w].before = stored \cap sweep[w].before
    BY <1>1, <2>1 DEF Record
  <2> QED
    BY <1>1, <2>2, <2>3, <2>4 DEF Record
<1>2. ASSUME NEW w \in Sweeps, StartSweep(w) PROVE SweptInv'
  BY <1>2 DEF StartSweep
<1>3. ASSUME NEW w \in Sweeps, DeleteTelemetryBefore(w) PROVE SweptInv'
  <2>1. /\ stored' = stored \ Old(sweep[w].now) /\ inserted' = inserted
        /\ \A v \in Sweeps : /\ sweep'[v].before = sweep[v].before
                             /\ sweep'[v].now = sweep[v].now
                             /\ v # w => sweep'[v].pc = sweep[v].pc
    BY <1>3 DEF DeleteTelemetryBefore, GoesOn, Errors
  <2>2. \A t \in stored' : t.at >= sweep[w].now - TelemetryAge
    BY <2>1 DEF Old, TelemetryRows
  <2> QED
    BY <2>1, <2>2
<1>4. ASSUME NEW w \in Sweeps, DeleteExpiredSessions(w) \/ DeleteFails(w) PROVE SweptInv'
  <2>1. /\ stored' = stored /\ inserted' = inserted
        /\ \A v \in Sweeps : /\ sweep'[v].before = sweep[v].before
                             /\ sweep'[v].now = sweep[v].now
                             /\ sweep'[v].pc \in {"sessions", "ok"} =>
                                  sweep[v].pc \in {"sessions", "ok"}
    BY <1>4 DEF DeleteExpiredSessions, DeleteFails, GoesOn, Errors
  <2> QED
    BY <2>1
<1>5. CASE UNCHANGED <<stored, inserted, sweep>>
  BY <1>5
<1> QED
  BY <1>1, <1>2, <1>3, <1>4, <1>5
     DEF RetentionNext, RunSweep, Tick, CreateSession, RevokeSession, VacuumSessions,
         retentionVars

-----------------------------------------------------------------------------
(* The counts of the reports                                                *)

\* A smaller count for each run makes a smaller sum.
LEMMA TotalMonotone ==
  ASSUME NEW S, NEW n \in [S -> Nat], NEW m \in [S -> Nat],
         \A w \in S : m[w] <= n[w], IsFiniteSet(Pairs(n))
  PROVE  /\ IsFiniteSet(Pairs(m))
         /\ Total(m) \in Nat /\ Total(n) \in Nat /\ Total(m) <= Total(n)
<1>1. ASSUME NEW p \in Pairs(m) PROVE p \in Pairs(n)
  <2>1. PICK w \in S : p \in {w} \X (1..m[w])
    BY DEF Pairs
  <2>2. p \in {w} \X (1..n[w])
    BY <2>1
  <2> QED
    BY <2>2 DEF Pairs
<1> QED
  BY <1>1, FS_Subset, FS_CardinalityType DEF Total

\* A count that was zero adds to the sum what it becomes.
LEMMA TotalGrows ==
  ASSUME NEW S, NEW n \in [S -> Nat], NEW w \in S, NEW k \in Nat,
         n[w] = 0, IsFiniteSet(Pairs(n))
  PROVE  /\ IsFiniteSet(Pairs([n EXCEPT ![w] = k]))
         /\ Total([n EXCEPT ![w] = k]) = Total(n) + k
<1> DEFINE P == Pairs(n)
           Q == {w} \X (1..k)
           m == [n EXCEPT ![w] = k]
<1>1. Pairs(m) = P \cup Q
  <2>1. ASSUME NEW v \in S, v # w PROVE m[v] = n[v]
    BY <2>1
  <2>2. m[w] = k /\ m \in [S -> Nat]
    OBVIOUS
  <2>3. Pairs(m) \subseteq P \cup Q
    <3>1. SUFFICES ASSUME NEW p \in Pairs(m) PROVE p \in P \cup Q
      OBVIOUS
    <3>2. PICK v \in S : p \in {v} \X (1..m[v])
      BY <2>2 DEF Pairs
    <3> QED
      BY <2>1, <2>2, <3>2 DEF Pairs
  <2>4. Q \subseteq Pairs(m)
    BY <2>2 DEF Pairs
  <2>5. P \subseteq Pairs(m)
    <3>1. SUFFICES ASSUME NEW p \in P PROVE p \in Pairs(m)
      OBVIOUS
    <3>2. PICK v \in S : p \in {v} \X (1..n[v])
      BY DEF Pairs
    <3>3. v # w
      BY <3>2
    <3> QED
      BY <2>1, <2>2, <3>2, <3>3 DEF Pairs
  <2> QED
    BY <2>3, <2>4, <2>5
<1>2. P \cap Q = {}
  <2>1. SUFFICES ASSUME NEW p \in P, p \in Q PROVE FALSE
    OBVIOUS
  <2>2. PICK v \in S : p \in {v} \X (1..n[v])
    BY DEF Pairs
  <2> QED
    BY <2>1, <2>2
<1>3. IsFiniteSet(Q) /\ Cardinality(Q) = k
  <2>1. IsFiniteSet(1..k) /\ Cardinality(1..k) = k
    <3>1. \A a, b \in Int : /\ IsFiniteSet(a..b)
                            /\ Cardinality(a..b) = IF a > b THEN 0 ELSE b - a + 1
      BY FS_Interval
    <3>2. /\ IsFiniteSet(1..k)
          /\ Cardinality(1..k) = IF 1 > k THEN 0 ELSE k - 1 + 1
      <4>1. 1 \in Int /\ k \in Int
        OBVIOUS
      <4> QED
        BY <3>1, <4>1, Zenon
    <3> QED
      BY <3>2
  <2>2. IsFiniteSet({w}) /\ Cardinality({w}) = 1
    BY FS_Singleton
  <2>3. IsFiniteSet(Q) /\ Cardinality(Q) = Cardinality({w}) * Cardinality(1..k)
    BY <2>1, <2>2, FS_Product
  <2>4. Cardinality({w}) * Cardinality(1..k) = k
    BY <2>1, <2>2
  <2> QED
    BY <2>3, <2>4
<1>4. /\ IsFiniteSet(P \cup Q)
      /\ Cardinality(P \cup Q) = Cardinality(P) + Cardinality(Q) - Cardinality(P \cap Q)
  <2> HIDE DEF P, Q
  <2> QED
    BY <1>3, FS_Union DEF P
<1>5. Cardinality(P \cap Q) = 0 /\ Cardinality(P) \in Nat
  BY <1>2, FS_EmptySet, FS_CardinalityType
<1>6. Cardinality(P \cup Q) = Cardinality(P) + k
  <2> HIDE DEF P, Q
  <2> QED
    BY <1>3, <1>4, <1>5
<1> QED
  BY <1>1, <1>4, <1>6 DEF Total

\* What the runs have counted so far, whether they return it or not.
TelemetryCounts == [w \in Sweeps |-> sweep[w].telemetry]
SessionCounts == [w \in Sweeps |-> sweep[w].sessions]

NoErrors == \A w \in Sweeps : sweep[w].pc # "error"

\* CountsExact is not inductive: a run between its statements has already
\* deleted what it will report, and one that failed has forgotten it.
TelemetryCounted ==
    /\ \A w \in Sweeps : sweep[w].pc \in {"idle", "telemetry", "error"} => sweep[w].telemetry = 0
    /\ IsFiniteSet(Pairs(TelemetryCounts))
    /\ Total(TelemetryCounts) <= inserted - Cardinality(stored)
    /\ NoErrors => Total(TelemetryCounts) = inserted - Cardinality(stored)

SessionsCounted ==
    /\ \A w \in Sweeps : sweep[w].pc # "ok" => sweep[w].sessions = 0
    /\ IsFiniteSet(Pairs(SessionCounts))
    /\ Total(SessionCounts) <= Cardinality(DeletedSessions)
    /\ NoErrors => Total(SessionCounts) = Cardinality(DeletedSessions)

\* Removing a part of a finite set leaves the rest to count.
LEMMA RemovePart ==
  ASSUME NEW S, IsFiniteSet(S), NEW T \in SUBSET S
  PROVE  /\ Cardinality(S) \in Nat /\ Cardinality(T) \in Nat
         /\ Cardinality(S \ T) = Cardinality(S) - Cardinality(T)
<1>1. IsFiniteSet(T) /\ IsFiniteSet(S \ T)
  BY FS_Subset
<1>2. Cardinality(T \cup (S \ T)) =
         Cardinality(T) + Cardinality(S \ T) - Cardinality(T \cap (S \ T))
  BY <1>1, FS_Union
<1>3. T \cup (S \ T) = S /\ T \cap (S \ T) = {}
  OBVIOUS
<1>4. Cardinality(S) = Cardinality(T) + Cardinality(S \ T) - Cardinality({})
  BY <1>2, <1>3
<1>5. /\ Cardinality(S) \in Nat /\ Cardinality(T) \in Nat /\ Cardinality(S \ T) \in Nat
      /\ Cardinality({}) = 0
  BY <1>1, FS_CardinalityType, FS_EmptySet
<1> QED
  BY <1>4, <1>5

\* A run that fails forgets what it counted.
LEMMA ForgottenCounts ==
  ASSUME RetentionTypeOK, TelemetryCounted, NEW w \in Sweeps, Errors(w)
  PROVE  /\ IsFiniteSet(Pairs(TelemetryCounts'))
         /\ Total(TelemetryCounts') \in Nat /\ Total(TelemetryCounts) \in Nat
         /\ Total(TelemetryCounts') <= Total(TelemetryCounts)
         /\ ~NoErrors'
         /\ \A v \in Sweeps : sweep'[v].pc \in {"idle", "telemetry", "error"} =>
               sweep'[v].telemetry = 0
<1>1. TelemetryCounts \in [Sweeps -> Nat] /\ TelemetryCounts' \in [Sweeps -> Nat]
  BY DEF TelemetryCounts, RetentionTypeOK, Errors, GoesOn
<1>2. \A v \in Sweeps : TelemetryCounts'[v] <= TelemetryCounts[v]
  BY DEF TelemetryCounts, RetentionTypeOK, Errors, GoesOn
<1>3. sweep'[w].pc = "error"
  BY DEF RetentionTypeOK, Errors, GoesOn
<1>4. \A v \in Sweeps : sweep'[v].pc \in {"idle", "telemetry", "error"} =>
               sweep'[v].telemetry = 0
  BY DEF TelemetryCounted, RetentionTypeOK, Errors, GoesOn
<1> QED
  BY <1>1, <1>2, <1>3, <1>4, TotalMonotone DEF TelemetryCounted, NoErrors

\* Only DeleteTelemetryBefore deletes rows, and it counts those that were there: a
\* row another run has deleted is not found again.
LEMMA TelemetryCountedStep ==
  ASSUME RetentionInv, SweptInv, TelemetryCounted, [RetentionNext]_retentionVars
  PROVE  TelemetryCounted'
<1> USE RetentionAssumption DEF RetentionInv
<1>0. /\ Cardinality(stored) \in Nat /\ inserted \in Nat
      /\ TelemetryCounts \in [Sweeps -> Nat]
      /\ Total(TelemetryCounts) \in Nat
  BY FS_CardinalityType DEF RetentionTypeOK, TelemetryCounts, TelemetryCounted, Total
<1>1. ASSUME NEW k \in Keys, NEW at \in 0..MaxTime + Skew, Record(k, at)
      PROVE  TelemetryCounted'
  <2> DEFINE new == [id |-> inserted + 1, key |-> k, at |-> at]
  <2>1. new \notin stored /\ stored' = stored \cup {new} /\ inserted' = inserted + 1
    BY <1>0, <1>1 DEF Record, SweptInv
  <2>2. Cardinality(stored') = Cardinality(stored) + 1
    <3> HIDE DEF new
    <3> QED
      BY <2>1, FS_AddElement
  <2>3. sweep' = sweep /\ TelemetryCounts' = TelemetryCounts
    BY <1>1 DEF Record, TelemetryCounts
  <2>4. inserted' - Cardinality(stored') = inserted - Cardinality(stored)
    BY <1>0, <2>1, <2>2
  <2> QED
    BY <2>3, <2>4 DEF TelemetryCounted, NoErrors
<1>2. ASSUME NEW w \in Sweeps, StartSweep(w) PROVE TelemetryCounted'
  <2>1. /\ UNCHANGED <<stored, inserted>> /\ TelemetryCounts' = TelemetryCounts
        /\ \A v \in Sweeps : sweep'[v].pc \in {"idle", "telemetry", "error"} =>
              sweep'[v].telemetry = 0
        /\ NoErrors' <=> NoErrors
    BY <1>2 DEF StartSweep, TelemetryCounts, RetentionTypeOK, TelemetryCounted, NoErrors
  <2> QED
    BY <2>1 DEF TelemetryCounted
<1>3. ASSUME NEW w \in Sweeps, DeleteTelemetryBefore(w) PROVE TelemetryCounted'
  <2> DEFINE old == Old(sweep[w].now)
  <2>1. /\ Cardinality(old) \in Nat
        /\ Cardinality(stored') = Cardinality(stored) - Cardinality(old)
        /\ inserted' = inserted
    BY <1>3, RemovePart DEF DeleteTelemetryBefore, Old
  <2>2. CASE GoesOn(w, "sessions", Cardinality(old), 0)
    <3>1. sweep[w].pc = "telemetry" /\ TelemetryCounts[w] = 0
      BY <1>3 DEF DeleteTelemetryBefore, TelemetryCounted, TelemetryCounts
    <3>2. TelemetryCounts' = [TelemetryCounts EXCEPT ![w] = Cardinality(old)]
      BY <2>2 DEF GoesOn, TelemetryCounts, RetentionTypeOK
    <3>3. /\ IsFiniteSet(Pairs(TelemetryCounts'))
          /\ Total(TelemetryCounts') = Total(TelemetryCounts) + Cardinality(old)
      <4> DEFINE n == TelemetryCounts
                 c == Cardinality(old)
      <4>1. IsFiniteSet(Pairs(n)) /\ n \in [Sweeps -> Nat] /\ n[w] = 0 /\ c \in Nat
        BY <1>0, <2>1, <3>1 DEF TelemetryCounted
      <4> HIDE DEF n, c
      <4>2. /\ IsFiniteSet(Pairs([n EXCEPT ![w] = c]))
            /\ Total([n EXCEPT ![w] = c]) = Total(n) + c
        BY <4>1, TotalGrows
      <4> QED
        BY <3>2, <4>2 DEF n, c
    <3>4. /\ NoErrors' <=> NoErrors
          /\ \A v \in Sweeps : sweep'[v].pc \in {"idle", "telemetry", "error"} =>
                sweep'[v].telemetry = 0
      BY <2>2, <3>1 DEF GoesOn, NoErrors, RetentionTypeOK, TelemetryCounted
    <3> HIDE DEF old
    <3> QED
      BY <1>0, <2>1, <3>3, <3>4 DEF TelemetryCounted
  <2>3. CASE Errors(w)
    <3> HIDE DEF old
    <3> QED
      BY <1>0, <2>1, <2>3, ForgottenCounts DEF TelemetryCounted
  <2> QED
    BY <1>3, <2>2, <2>3 DEF DeleteTelemetryBefore
<1>4. ASSUME NEW w \in Sweeps, DeleteExpiredSessions(w) \/ DeleteFails(w)
      PROVE  TelemetryCounted'
  <2>1. UNCHANGED <<stored, inserted>>
    BY <1>4 DEF DeleteExpiredSessions, DeleteFails
  <2>2. CASE Errors(w)
    BY <1>0, <2>1, <2>2, ForgottenCounts DEF TelemetryCounted
  <2>3. ASSUME NEW n, sweep[w].pc = "sessions", GoesOn(w, "ok", sweep[w].telemetry, n)
        PROVE  TelemetryCounted'
    <3>1. /\ TelemetryCounts' = TelemetryCounts
          /\ NoErrors' <=> NoErrors
          /\ \A v \in Sweeps : sweep'[v].pc \in {"idle", "telemetry", "error"} =>
                sweep'[v].telemetry = 0
      BY <2>3 DEF GoesOn, NoErrors, RetentionTypeOK, TelemetryCounted, TelemetryCounts
    <3> QED
      BY <2>1, <3>1 DEF TelemetryCounted
  <2> QED
    BY <1>4, <2>2, <2>3 DEF DeleteExpiredSessions, DeleteFails
<1>5. CASE UNCHANGED <<stored, inserted, sweep>>
  BY <1>5 DEF TelemetryCounted, TelemetryCounts, NoErrors
<1> QED
  BY <1>1, <1>2, <1>3, <1>4, <1>5
     DEF RetentionNext, RunSweep, Tick, CreateSession, RevokeSession, VacuumSessions,
         retentionVars

\* Only DeleteExpiredSessions counts sessions, each once: a session that is
\* deleted is not found again.
LEMMA SessionsCountedStep ==
  ASSUME IsFiniteSet(SessionIds), RetentionInv, SessionsCounted,
         [RetentionNext]_retentionVars
  PROVE  SessionsCounted'
<1> USE RetentionAssumption DEF RetentionInv
<1>0. /\ SessionCounts \in [Sweeps -> Nat]
      /\ Total(SessionCounts) \in Nat
      /\ IsFiniteSet(DeletedSessions) /\ Cardinality(DeletedSessions) \in Nat
  <2>1. DeletedSessions \subseteq SessionIds
    BY DEF DeletedSessions
  <2> QED
    BY <2>1, FS_Subset, FS_CardinalityType
       DEF RetentionTypeOK, SessionCounts, SessionsCounted, Total
<1>1. ASSUME UNCHANGED sweep, DeletedSessions' = DeletedSessions PROVE SessionsCounted'
  BY <1>1 DEF SessionsCounted, SessionCounts, NoErrors
<1>2. ASSUME NEW w \in Sweeps, DeletedSessions' = DeletedSessions,
             sweep[w].pc \notin {"ok", "error"},
             sweep'[w].pc # "ok", sweep'[w].sessions = 0,
             \A v \in Sweeps \ {w} : sweep'[v] = sweep[v]
      PROVE  SessionsCounted'
  <2>1. \A v \in Sweeps : sweep'[v].sessions = sweep[v].sessions
    BY <1>2 DEF SessionsCounted
  <2>2. SessionCounts' = SessionCounts
    BY <2>1 DEF SessionCounts
  <2>3. \A v \in Sweeps : sweep'[v].pc # "ok" => sweep'[v].sessions = 0
    BY <1>2 DEF SessionsCounted
  <2>4. NoErrors' => NoErrors
    BY <1>2 DEF NoErrors
  <2> QED
    BY <1>2, <2>2, <2>3, <2>4 DEF SessionsCounted
<1>3. ASSUME NEW s \in SessionIds, CreateSession(s) \/ RevokeSession(s) PROVE SessionsCounted'
  <2>1. sweep' = sweep /\ DeletedSessions' = DeletedSessions
    BY <1>3 DEF CreateSession, RevokeSession, DeletedSessions, RetentionTypeOK
  <2> QED
    BY <1>1, <2>1
<1>4. CASE VacuumSessions
  <2>1. sweep' = sweep /\ DeletedSessions' = DeletedSessions
    BY <1>4 DEF VacuumSessions, WithoutSessions, Ended, DeletedSessions, RetentionTypeOK
  <2> QED
    BY <1>1, <2>1
<1>5. ASSUME NEW w \in Sweeps, StartSweep(w) PROVE SessionsCounted'
  <2>1. DeletedSessions' = DeletedSessions /\ sweep[w].pc = "idle"
    BY <1>5 DEF StartSweep, DeletedSessions
  <2>2. /\ sweep'[w].pc = "telemetry" /\ sweep'[w].sessions = 0
        /\ \A v \in Sweeps \ {w} : sweep'[v] = sweep[v]
    BY <1>5 DEF StartSweep, RetentionTypeOK
  <2> QED
    BY <1>2, <2>1, <2>2
<1>6. ASSUME NEW w \in Sweeps, DeleteTelemetryBefore(w) \/ DeleteFails(w)
      PROVE  SessionsCounted'
  <2>1. DeletedSessions' = DeletedSessions /\ sweep[w].pc \in {"telemetry", "sessions"}
    BY <1>6 DEF DeleteTelemetryBefore, DeleteFails, DeletedSessions
  <2>2. \E to \in {"sessions", "error"} : \E t : GoesOn(w, to, t, 0)
    BY <1>6 DEF DeleteTelemetryBefore, DeleteFails, Errors
  <2>3. /\ sweep'[w].pc # "ok" /\ sweep'[w].sessions = 0
        /\ \A v \in Sweeps \ {w} : sweep'[v] = sweep[v]
    BY <2>2 DEF GoesOn, RetentionTypeOK
  <2> QED
    BY <1>2, <2>1, <2>3
<1>7. ASSUME NEW w \in Sweeps, DeleteExpiredSessions(w) PROVE SessionsCounted'
  <2> DEFINE ended == Ended(sweep[w].now - SessionAge)
  <2>1. /\ DeletedSessions' = DeletedSessions \cup ended
        /\ DeletedSessions \cap ended = {}
        /\ sweep[w].pc = "sessions"
    BY <1>7 DEF DeleteExpiredSessions, WithoutSessions, Ended, DeletedSessions,
                RetentionTypeOK
  <2>2. IsFiniteSet(ended) /\ Cardinality(ended) \in Nat
    BY FS_Subset, FS_CardinalityType DEF Ended
  <2>3. Cardinality(DeletedSessions') = Cardinality(DeletedSessions) + Cardinality(ended)
    <3>1. Cardinality(DeletedSessions \cap ended) = 0
      BY <2>1, FS_EmptySet
    <3>2. Cardinality(DeletedSessions \cup ended) =
             Cardinality(DeletedSessions) + Cardinality(ended)
                - Cardinality(DeletedSessions \cap ended)
      BY <1>0, <2>2, FS_Union
    <3> HIDE DEF ended
    <3> QED
      BY <1>0, <2>1, <2>2, <3>1, <3>2
  <2>4. CASE GoesOn(w, "ok", sweep[w].telemetry, Cardinality(ended))
    <3> DEFINE n == SessionCounts
               c == Cardinality(ended)
    <3>1. IsFiniteSet(Pairs(n)) /\ n \in [Sweeps -> Nat] /\ n[w] = 0 /\ c \in Nat
      BY <1>0, <2>1, <2>2 DEF SessionsCounted, SessionCounts
    <3>2. SessionCounts' = [n EXCEPT ![w] = c]
      BY <2>4 DEF GoesOn, SessionCounts, RetentionTypeOK
    <3>3. /\ NoErrors' => NoErrors
          /\ \A v \in Sweeps : sweep'[v].pc # "ok" => sweep'[v].sessions = 0
      BY <2>1, <2>4 DEF GoesOn, NoErrors, SessionsCounted, RetentionTypeOK
    <3>4. /\ IsFiniteSet(Pairs([n EXCEPT ![w] = c]))
          /\ Total([n EXCEPT ![w] = c]) = Total(n) + c
      <4> HIDE DEF n, c
      <4> QED
        BY <3>1, TotalGrows
    <3>5. IsFiniteSet(Pairs(SessionCounts')) /\ Total(SessionCounts') = Total(SessionCounts) + c
      BY <3>2, <3>4
    <3> HIDE DEF n, c, ended
    <3>6. c = Cardinality(ended)
      BY DEF c
    <3> QED
      BY <1>0, <2>2, <2>3, <3>3, <3>5, <3>6 DEF SessionsCounted
  <2>5. CASE Errors(w)
    <3>1. /\ SessionCounts' = SessionCounts /\ ~NoErrors'
          /\ \A v \in Sweeps : sweep'[v].pc # "ok" => sweep'[v].sessions = 0
      BY <2>1, <2>5 DEF Errors, GoesOn, SessionCounts, SessionsCounted, NoErrors,
                        RetentionTypeOK
    <3> HIDE DEF ended
    <3> QED
      BY <1>0, <2>2, <2>3, <3>1 DEF SessionsCounted
  <2> QED
    BY <1>7, <2>4, <2>5 DEF DeleteExpiredSessions
<1>8. CASE UNCHANGED <<sess, sweep>>
  BY <1>1, <1>8 DEF DeletedSessions
<1> QED
  BY <1>3, <1>4, <1>5, <1>6, <1>7, <1>8
     DEF RetentionNext, RunSweep, Tick, Record, retentionVars

\* What the runs have counted decides what their reports may say.
LEMMA CountedExact ==
  ASSUME RetentionInv, TelemetryCounted, SessionsCounted, IsFiniteSet(SessionIds)
  PROVE  CountsExact
<1> USE RetentionAssumption DEF RetentionInv
<1> DEFINE t == [w \in Sweeps |-> IF Returned(w) THEN sweep[w].telemetry ELSE 0]
           s == [w \in Sweeps |-> IF Returned(w) THEN sweep[w].sessions ELSE 0]
<1>1. /\ TelemetryCounts \in [Sweeps -> Nat] /\ SessionCounts \in [Sweeps -> Nat]
      /\ t \in [Sweeps -> Nat] /\ s \in [Sweeps -> Nat]
      /\ \A w \in Sweeps : t[w] <= TelemetryCounts[w] /\ s[w] <= SessionCounts[w]
  BY DEF TelemetryCounts, SessionCounts, RetentionTypeOK
<1>2. /\ Total(t) \in Nat /\ Total(TelemetryCounts) \in Nat
      /\ Total(t) <= Total(TelemetryCounts)
  <2> HIDE DEF t
  <2> QED
    BY <1>1, TotalMonotone DEF TelemetryCounted
<1>3. /\ Total(s) \in Nat /\ Total(SessionCounts) \in Nat
      /\ Total(s) <= Total(SessionCounts)
  <2> HIDE DEF s
  <2> QED
    BY <1>1, TotalMonotone DEF SessionsCounted
<1>4. ASSUME \A w \in Sweeps : sweep[w].pc \in {"idle", "telemetry", "ok"}
      PROVE  NoErrors /\ t = TelemetryCounts /\ s = SessionCounts
  BY <1>4 DEF NoErrors, TelemetryCounts, SessionCounts, Returned, TelemetryCounted,
              SessionsCounted
<1>5. ReportedTelemetry = Total(t) /\ ReportedSessions = Total(s)
  BY DEF ReportedTelemetry, ReportedSessions
<1>6. /\ Cardinality(stored) \in Nat /\ inserted \in Nat
      /\ Cardinality(DeletedSessions) \in Nat
  BY FS_Subset, FS_CardinalityType DEF RetentionTypeOK, DeletedSessions
<1> HIDE DEF t, s
<1>7. ReportedTelemetry <= inserted - Cardinality(stored)
  BY <1>2, <1>5, <1>6 DEF TelemetryCounted
<1>8. ReportedSessions <= Cardinality(DeletedSessions)
  BY <1>3, <1>5, <1>6 DEF SessionsCounted
<1>9. ASSUME \A w \in Sweeps : sweep[w].pc \in {"idle", "telemetry", "ok"}
      PROVE  /\ ReportedTelemetry = inserted - Cardinality(stored)
             /\ ReportedSessions = Cardinality(DeletedSessions)
  BY <1>4, <1>5, <1>9 DEF TelemetryCounted, SessionsCounted
<1> QED
  BY <1>7, <1>8, <1>9 DEF CountsExact

\* Reports can be believed, for any number of overlapping runs that fail, lose
\* their answers and delete under one another: every row is counted at most
\* once, and exactly once while no run has failed, and a run that returns nil has
\* left none of the old rows it found.
THEOREM ReportsExactAlways ==
  ASSUME IsFiniteSet(SessionIds)
  PROVE  RetentionSpec => []ReportsExact
<1> DEFINE Inv == RetentionInv /\ SweptInv /\ TelemetryCounted /\ SessionsCounted
<1>1. RetentionInit => Inv
  <2> SUFFICES ASSUME RetentionInit PROVE TelemetryCounted /\ SessionsCounted /\ SweptInv
    BY RetentionInitInv
  <2>1. SweptInv
    BY DEF RetentionInit, SweptInv, NoSweep
  <2>2. \A w \in Sweeps : sweep[w].telemetry = 0 /\ sweep[w].sessions = 0
    BY DEF RetentionInit, NoSweep
  <2>3. Pairs(TelemetryCounts) = {} /\ Pairs(SessionCounts) = {}
    BY <2>2 DEF Pairs, TelemetryCounts, SessionCounts
  <2>4. DeletedSessions = {} /\ stored = {} /\ inserted = 0
    BY DEF RetentionInit, DeletedSessions
  <2> QED
    BY <2>1, <2>2, <2>3, <2>4, FS_EmptySet DEF TelemetryCounted, SessionsCounted, Total
<1>2. Inv /\ [RetentionNext]_retentionVars => Inv'
  <2> SUFFICES ASSUME Inv, [RetentionNext]_retentionVars PROVE Inv'
    OBVIOUS
  <2>1. RetentionInv'
    BY RetentionStepInv
  <2>2. SweptInv'
    BY SweptStepInv DEF RetentionInv
  <2>3. TelemetryCounted' /\ SessionsCounted'
    BY TelemetryCountedStep, SessionsCountedStep
  <2> QED
    BY <2>1, <2>2, <2>3
<1>3. Inv => ReportsExact
  BY CountedExact DEF SweptInv, NoneOldLeft, Returned, ReportsExact
<1> QED
  BY <1>1, <1>2, <1>3, PTL DEF RetentionSpec
=============================================================================
