-------------------------- MODULE GatewayDispatcher --------------------------
(***************************************************************************)
(* Dispatcher of internal/integration: device commands under idempotency   *)
(* keys.  The first caller with a key leads and calls the gateway without  *)
(* the mutex; callers with the same key and the same command wait for its  *)
(* result or take it from the cache, callers with another command are      *)
(* turned away.  Every outcome is cached, errors included, until Forget.   *)
(***************************************************************************)
EXTENDS Integers

CONSTANTS
    Keys,           \* idempotency keys
    Commands,       \* fingerprints of commands
    Clients,        \* concurrent callers of Dispatch
    NoKey, NoCommand,
    MaxCalls,       \* bound on gateway calls
    MaxForgets      \* bound on calls of Forget

ASSUME DispatcherAssumption ==
    /\ NoKey \notin Keys /\ NoCommand \notin Commands
    /\ MaxCalls \in Nat /\ MaxForgets \in Nat

VARIABLES
    results,        \* Results and fingerprints, which change together
    inflight,       \* the call under way for each key, 0 for none
    calls,          \* the dispatchCall objects, numbered as they are created
    client,         \* what each caller is doing, and the last answer it got
    executed,       \* history: gateway calls per key
    forgets         \* history: calls of Forget per key

dispatcherVars == <<results, inflight, calls, client, executed, forgets>>

Outcomes == {"accepted", "error"}
NoResult == [cmd |-> NoCommand, outcome |-> "none"]
Resting == [pc |-> "idle", key |-> NoKey, cmd |-> NoCommand, call |-> 0, answer |-> NoResult]

Calls == 1..MaxCalls
Created == {n \in Calls : calls[n].cmd # NoCommand}

ResultType == [cmd : Commands \cup {NoCommand}, outcome : Outcomes \cup {"none"}]

DispatcherTypeOK ==
    /\ results \in [Keys -> ResultType]
    /\ inflight \in [Keys -> 0..MaxCalls]
    /\ calls \in [Calls -> [cmd : Commands \cup {NoCommand}, outcome : Outcomes \cup {"none"}]]
    /\ client \in [Clients -> [pc : {"idle", "lead", "wait"},
                               key : Keys \cup {NoKey},
                               cmd : Commands \cup {NoCommand},
                               call : 0..MaxCalls,
                               answer : ResultType \cup {[cmd |-> NoCommand, outcome |-> "refused"]}]]
    /\ executed \in [Keys -> Nat]
    /\ forgets \in [Keys -> Nat]

DispatcherInit ==
    /\ results = [k \in Keys |-> NoResult]
    /\ inflight = [k \in Keys |-> 0]
    /\ calls = [n \in Calls |-> NoResult]
    /\ client = [c \in Clients |-> Resting]
    /\ executed = [k \in Keys |-> 0]
    /\ forgets = [k \in Keys |-> 0]

-----------------------------------------------------------------------------

Refused == [cmd |-> NoCommand, outcome |-> "refused"]

Answer(c, k, cmd, result) ==
    client' = [client EXCEPT ![c] =
        [pc |-> "idle", key |-> k, cmd |-> cmd, call |-> 0, answer |-> result]]

\* Mutated form: the fingerprint is not compared.
DispatchCachedBlind(c, k, cmd) ==
    /\ client[c].pc = "idle"
    /\ results[k] # NoResult
    /\ Answer(c, k, cmd, results[k])
    /\ UNCHANGED <<results, inflight, calls, executed, forgets>>

\* Dispatch finds a result: it is returned if the command is the same.
DispatchCached(c, k, cmd) ==
    /\ client[c].pc = "idle"
    /\ results[k] # NoResult
    /\ Answer(c, k, cmd, IF results[k].cmd = cmd THEN results[k] ELSE Refused)
    /\ UNCHANGED <<results, inflight, calls, executed, forgets>>

\* Dispatch finds a call under way: it waits for it if the command is the same.
DispatchJoin(c, k, cmd) ==
    /\ client[c].pc = "idle"
    /\ results[k] = NoResult /\ inflight[k] # 0
    /\ IF calls[inflight[k]].cmd = cmd
         THEN client' = [client EXCEPT ![c] =
                [pc |-> "wait", key |-> k, cmd |-> cmd, call |-> inflight[k], answer |-> NoResult]]
         ELSE Answer(c, k, cmd, Refused)
    /\ UNCHANGED <<results, inflight, calls, executed, forgets>>

\* Mutated form: calls under way are not looked at.
DispatchLeadAlone(c, k, cmd) ==
    /\ client[c].pc = "idle"
    /\ results[k] = NoResult
    /\ \E n \in Calls \ Created :
          /\ \A m \in Calls : m < n => m \in Created
          /\ calls' = [calls EXCEPT ![n] = [cmd |-> cmd, outcome |-> "none"]]
          /\ inflight' = [inflight EXCEPT ![k] = n]
          /\ client' = [client EXCEPT ![c] =
                [pc |-> "lead", key |-> k, cmd |-> cmd, call |-> n, answer |-> NoResult]]
    /\ executed' = [executed EXCEPT ![k] = @ + 1]
    /\ UNCHANGED <<results, forgets>>

\* Dispatch finds neither, and calls the gateway.
DispatchLead(c, k, cmd) ==
    /\ client[c].pc = "idle"
    /\ results[k] = NoResult /\ inflight[k] = 0
    /\ \E n \in Calls \ Created :
          /\ \A m \in Calls : m < n => m \in Created
          /\ calls' = [calls EXCEPT ![n] = [cmd |-> cmd, outcome |-> "none"]]
          /\ inflight' = [inflight EXCEPT ![k] = n]
          /\ client' = [client EXCEPT ![c] =
                [pc |-> "lead", key |-> k, cmd |-> cmd, call |-> n, answer |-> NoResult]]
    /\ executed' = [executed EXCEPT ![k] = @ + 1]
    /\ UNCHANGED <<results, forgets>>

\* Mutated form: the waiters are not told.
CompleteSilently(c, outcome) ==
    LET k == client[c].key
        result == [cmd |-> client[c].cmd, outcome |-> outcome]
    IN
    /\ client[c].pc = "lead"
    /\ results' = [results EXCEPT ![k] = result]
    /\ inflight' = [inflight EXCEPT ![k] = 0]
    /\ Answer(c, k, client[c].cmd, result)
    /\ UNCHANGED <<calls, executed, forgets>>

\* The gateway answers, refuses, times out or sees the leader's context
\* cancelled; the outcome is published to the waiters and cached.
Complete(c, outcome) ==
    LET k == client[c].key
        result == [cmd |-> client[c].cmd, outcome |-> outcome]
    IN
    /\ client[c].pc = "lead"
    /\ results' = [results EXCEPT ![k] = result]
    /\ calls' = [calls EXCEPT ![client[c].call] = result]
    /\ inflight' = [inflight EXCEPT ![k] = 0]
    /\ Answer(c, k, client[c].cmd, result)
    /\ UNCHANGED <<executed, forgets>>

\* The gateway panics out of Dispatch: nothing is published, and the key stays
\* in flight.
Panic(c) ==
    /\ client[c].pc = "lead"
    /\ client' = [client EXCEPT ![c] = Resting]
    /\ UNCHANGED <<results, inflight, calls, executed, forgets>>

\* The call a waiter joined is done.
Join(c) ==
    /\ client[c].pc = "wait"
    /\ calls[client[c].call].outcome # "none"
    /\ Answer(c, client[c].key, client[c].cmd, calls[client[c].call])
    /\ UNCHANGED <<results, inflight, calls, executed, forgets>>

\* The waiter's own context ends first.
GiveUp(c) ==
    /\ client[c].pc = "wait"
    /\ client' = [client EXCEPT ![c] = Resting]
    /\ UNCHANGED <<results, inflight, calls, executed, forgets>>

\* Forget drops the cached result, and not a call under way.
Forget(k) ==
    /\ forgets[k] < MaxForgets
    /\ forgets' = [forgets EXCEPT ![k] = @ + 1]
    /\ results' = [results EXCEPT ![k] = NoResult]
    /\ UNCHANGED <<inflight, calls, client, executed>>

Dispatch(c, k, cmd) == DispatchCached(c, k, cmd) \/ DispatchJoin(c, k, cmd) \/ DispatchLead(c, k, cmd)

DispatcherNext ==
    \/ \E c \in Clients, k \in Keys, cmd \in Commands : Dispatch(c, k, cmd)
    \/ \E c \in Clients, o \in Outcomes : Complete(c, o)
    \/ \E c \in Clients : Panic(c) \/ Join(c) \/ GiveUp(c)
    \/ \E k \in Keys : Forget(k)

DispatcherSpec == DispatcherInit /\ [][DispatcherNext]_dispatcherVars

(***************************************************************************)
(* Fairness: the gateway is called with a deadline and comes back, and a   *)
(* waiter whose channel is closed wakes up.  Nothing is assumed of         *)
(* contexts.                                                               *)
(***************************************************************************)
DispatcherFairSpec ==
    /\ DispatcherSpec
    /\ \A c \in Clients : WF_dispatcherVars(\E o \in Outcomes : Complete(c, o)) /\ WF_dispatcherVars(Join(c))

-----------------------------------------------------------------------------
(* Properties                                                              *)

\* The same key reaches the gateway again only after Forget: a command is
\* executed at most once per key and Forget, though the mutex is not held during
\* the call.
ExecutedOncePerForget == \A k \in Keys : executed[k] <= 1 + forgets[k]

\* Whoever is given an outcome, as leader, waiter or from the cache, is given
\* the outcome of its own command and not of another under the same key, and
\* until Forget is called everybody is told the same.
AnswersAgree ==
    \A c \in Clients : client[c].answer.outcome \in Outcomes =>
        /\ client[c].answer.cmd = client[c].cmd
        /\ forgets[client[c].key] = 0 => client[c].answer = results[client[c].key]

\* A panic of the gateway left the call of client c behind: its key stays in
\* flight and nobody leads it.
Abandoned(c) ==
    /\ inflight[client[c].key] = client[c].call
    /\ \A b \in Clients : client[b].pc = "lead" => client[b].call # client[c].call

\* A waiter is woken even if its own context never ends and Forget drops the
\* result under it; only a panic of the gateway keeps it waiting.
WaitersWoken ==
    \A c \in Clients :
        client[c].pc = "wait" ~> (client[c].pc # "wait" \/ Abandoned(c))
=============================================================================
