------------------------------- MODULE Server -------------------------------
(***************************************************************************)
(* The life of the server processes (cmd/server).  main migrates the       *)
(* database and then serves HTTP until its context ends.  A goroutine then *)
(* calls http.Server.Shutdown, which closes the listener at once and waits *)
(* for the active requests, up to ShutdownTimeout.  main is in             *)
(* ListenAndServe, which returns as soon as Shutdown is called; its        *)
(* deferred calls close the database pool and the process ends.            *)
(*                                                                         *)
(* pc[p] = "serving" of module Migrations means that Migrate has returned; *)
(* main[p] says where main is since then.                                  *)
(***************************************************************************)
EXTENDS Migrations

CONSTANT Requests       \* HTTP requests sent to each process

VARIABLES
    cancelled,      \* processes whose context has ended
    shutdown,       \* the goroutine around Shutdown
    listening,      \* processes whose listener is open
    main,           \* "starting", "serving" or "closing"
    request         \* "none", "active", "answered", "failed" or "cut"

serverVars == <<cancelled, shutdown, listening, main, request>>
vars == <<migrateVars, serverVars>>

TypeOK ==
    /\ MigrateTypeOK
    /\ cancelled \subseteq Procs /\ listening \subseteq Procs
    /\ shutdown \in [Procs -> {"waiting", "draining", "returned"}]
    /\ main \in [Procs -> {"starting", "serving", "closing"}]
    /\ request \in [Procs -> [Requests -> {"none", "active", "answered", "failed", "cut"}]]

Init ==
    /\ MigrateInit
    /\ cancelled = {}
    /\ shutdown = [p \in Procs |-> "waiting"]
    /\ listening = {}
    /\ main = [p \in Procs |-> "starting"]
    /\ request = [p \in Procs |-> [q \in Requests |-> "none"]]

\* The process is past Migrate and has not ended.
Running(p) == pc[p] = "serving"

Active(p) == {q \in Requests : request[p][q] = "active"}

-----------------------------------------------------------------------------
(* The context                                                             *)

\* SIGINT or SIGTERM
Signal(p) ==
    /\ pc[p] # "down" /\ p \notin cancelled
    /\ cancelled' = cancelled \cup {p}
    /\ UNCHANGED <<migrateVars, shutdown, listening, main, request>>

\* The statement of Migrate under way is cancelled.
CancelMigrate(p) ==
    /\ p \in cancelled
    /\ Interrupt(p)
    /\ UNCHANGED <<faults, serverVars>>

-----------------------------------------------------------------------------
(* Serving                                                                 *)

\* ListenAndServe opens the listener, unless Shutdown came first.
Listen(p) ==
    /\ Running(p) /\ main[p] = "starting" /\ shutdown[p] = "waiting"
    /\ main' = [main EXCEPT ![p] = "serving"]
    /\ listening' = listening \cup {p}
    /\ UNCHANGED <<migrateVars, cancelled, shutdown, request>>

Accept(p, q) ==
    /\ p \in listening
    /\ request[p][q] = "none"
    /\ request' = [request EXCEPT ![p][q] = "active"]
    /\ UNCHANGED <<migrateVars, cancelled, shutdown, listening, main>>

\* The handler answers; once main has closed the pool it can only report an
\* error.
Respond(p, q) ==
    /\ q \in Active(p)
    /\ request' = [request EXCEPT ![p][q] = IF main[p] = "closing" THEN "failed" ELSE "answered"]
    /\ UNCHANGED <<migrateVars, cancelled, shutdown, listening, main>>

-----------------------------------------------------------------------------
(* Shutdown                                                                *)

\* Mutated form: the goroutine waits for the requests before it calls Shutdown.
BeginShutdownIdle(p) ==
    /\ Running(p) /\ p \in cancelled /\ shutdown[p] = "waiting"
    /\ Active(p) = {}
    /\ shutdown' = [shutdown EXCEPT ![p] = "draining"]
    /\ listening' = listening \ {p}
    /\ UNCHANGED <<migrateVars, cancelled, main, request>>

\* Shutdown closes the listener...
BeginShutdown(p) ==
    /\ Running(p) /\ p \in cancelled /\ shutdown[p] = "waiting"
    /\ shutdown' = [shutdown EXCEPT ![p] = "draining"]
    /\ listening' = listening \ {p}
    /\ UNCHANGED <<migrateVars, cancelled, main, request>>

\* ...and returns when no request is active, or when ShutdownTimeout has passed.
EndShutdown(p) ==
    /\ Running(p) /\ shutdown[p] = "draining"
    /\ shutdown' = [shutdown EXCEPT ![p] = "returned"]
    /\ UNCHANGED <<migrateVars, cancelled, listening, main, request>>

\* ListenAndServe returns http.ErrServerClosed once Shutdown has been called,
\* main returns, and the deferred database.Close runs.
ReturnFromListen(p) ==
    /\ Running(p) /\ main[p] # "closing" /\ shutdown[p] # "waiting"
    /\ main' = [main EXCEPT ![p] = "closing"]
    /\ UNCHANGED <<migrateVars, cancelled, shutdown, listening, request>>

\* What is lost with a process: its listener and the requests under way.
End(p) ==
    /\ listening' = listening \ {p}
    /\ request' = [request EXCEPT ![p] =
                      [q \in Requests |-> IF @[q] = "active" THEN "cut" ELSE @[q]]]
    /\ UNCHANGED <<cancelled, shutdown, main>>

\* The process ends, and its sessions with it.
Exit(p) ==
    /\ Running(p) /\ main[p] = "closing"
    /\ Release(p)
    /\ Goto(p, "down")
    /\ End(p)
    /\ UNCHANGED <<database, version, faults>>

\* The address is taken: os.Exit(1), without the deferred calls.
ListenFails(p) ==
    /\ Running(p) /\ main[p] = "starting"
    /\ Fault
    /\ Release(p)
    /\ Goto(p, "down")
    /\ End(p)
    /\ UNCHANGED <<database, version>>

\* A new process with a context of its own.
Start(p) ==
    /\ Restart(p)
    /\ cancelled' = cancelled \ {p}
    /\ shutdown' = [shutdown EXCEPT ![p] = "waiting"]
    /\ main' = [main EXCEPT ![p] = "starting"]
    /\ request' = [request EXCEPT ![p] = [q \in Requests |-> "none"]]
    /\ UNCHANGED listening

-----------------------------------------------------------------------------

Next ==
    \E p \in Procs :
        \/ (Migrate(p) \/ MigrateExit(p) \/ SessionEnds(p)) /\ UNCHANGED serverVars
        \/ (ApplyUnknown(p) \/ Fail(p) \/ UnlockFails(p)) /\ UNCHANGED serverVars
        \/ Signal(p) \/ CancelMigrate(p)
        \/ Listen(p) \/ ListenFails(p)
        \/ \E q \in Requests : Accept(p, q) \/ Respond(p, q)
        \/ BeginShutdown(p) \/ EndShutdown(p) \/ ReturnFromListen(p)
        \/ Exit(p) \/ (Crash(p) /\ End(p)) \/ Start(p)

Spec == Init /\ [][Next]_vars

(***************************************************************************)
(* Fairness: statements are answered; PostgreSQL serves the waiters of an  *)
(* advisory lock in turn; the pool closes a session that has lived for     *)
(* thirty minutes; goroutines are scheduled; a process that ended is       *)
(* started again.  Nobody has to send signals, and requests may hang.      *)
(***************************************************************************)
Fairness ==
    \A p \in Procs :
        /\ SF_vars(Lock(p) /\ UNCHANGED serverVars)
        /\ WF_vars((Migrate(p) \/ MigrateExit(p)) /\ UNCHANGED serverVars)
        /\ WF_vars(SessionEnds(p) /\ UNCHANGED serverVars)
        /\ WF_vars(CancelMigrate(p))
        /\ WF_vars(Listen(p)) /\ WF_vars(BeginShutdown(p)) /\ WF_vars(ReturnFromListen(p))
        /\ WF_vars(Exit(p)) /\ WF_vars(Start(p))

FairSpec == Spec /\ Fairness

-----------------------------------------------------------------------------
(* Properties                                                              *)

\* A process that takes requests does so on the full schema, whichever process
\* applied it and whatever failed on the way, and on a schema to which every
\* migration has been applied once: what the ledger lists was applied and nothing
\* else was.
SchemaExact ==
    /\ \A p \in listening : ledger = Versions
    /\ AppliedOnce

\* The lock of Migrate is there for this: as long as nothing fails, a process
\* ends only because it was told to, never because another one migrates or
\* shuts down at the same time.
NoRefusedStart ==
    faults = 0 => \A p \in Procs : pc[p] \in {"error", "down"} => p \in cancelled

\* Every process comes to listen unless it is stopped, also when another one
\* crashed halfway through Migrate or went on to serve with the lock in its
\* pool.
EventuallyServing ==
    \A p \in Procs : pc[p] = "lock" ~> (p \in listening \/ p \in cancelled)

\* A signal ends the process, whether it waits for the lock, migrates, is about
\* to listen or serves, and however long its requests take.
CancelEndsProcess == \A p \in Procs : p \in cancelled ~> pc[p] = "down"

\* README: cmd/server does "graceful shutdown": it stops intake and the requests
\* it has accepted are answered, for ShutdownTimeout at least.  Unless the
\* process crashed, no request is cut off, or deprived of the database, before
\* Shutdown has returned.
GracefulShutdown ==
    faults = 0 =>
        \A p \in Procs : shutdown[p] # "returned" =>
            \A q \in Requests : request[p][q] \notin {"cut", "failed"}
=============================================================================
