--------------------------- MODULE WebhookClient ---------------------------
(***************************************************************************)
(* One call of Webhook.SendWithKey, and so of Client.Do: the message is    *)
(* posted up to `attempts' times, with a growing pause in between, until   *)
(* the endpoint answers for good or the context ends.  Requests and        *)
(* answers may be lost, and a request the client has given up on may still *)
(* reach the endpoint.                                                     *)
(***************************************************************************)
EXTENDS Integers

CONSTANT Retries    \* the values of Client.Retry to try

ASSUME RetriesAssumption == Retries \subseteq Int

VARIABLES
    attempts,       \* tries Do allows itself
    attempt,        \* the loop variable
    pc,             \* where Do is
    status,         \* class of the answer being handled
    cancelled,      \* the context has ended
    wire,           \* requests on their way, by their attempt
    received,       \* requests the endpoint has received
    sent,           \* history: number of requests sent
    answers         \* history: classes of the answers Do has seen

network == <<wire, received, sent, answers>>
clientVars == <<attempts, attempt, pc, status, cancelled, network>>

Classes == {"success", "client_error", "server_error"}

\* attempts < 1 becomes 1.
AttemptsOf(r) == IF r < 1 THEN 1 ELSE r

ClientTypeOK ==
    /\ attempts \in {AttemptsOf(r) : r \in Retries}
    /\ attempt \in 1..attempts
    /\ pc \in {"send", "wait", "answer", "pause", "ok", "error"}
    /\ status \in Classes \cup {"none"}
    /\ cancelled \in BOOLEAN
    /\ wire \subseteq 1..attempts /\ received \subseteq 1..attempts
    /\ sent \in Nat /\ answers \subseteq Classes

ClientInit ==
    /\ \E r \in Retries : attempts = AttemptsOf(r)
    /\ attempt = 1
    /\ pc = "send"
    /\ status = "none"
    /\ cancelled = FALSE
    /\ wire = {} /\ received = {} /\ sent = 0 /\ answers = {}

-----------------------------------------------------------------------------

Returned == pc \in {"ok", "error"}

\* The caller's context ends: shutdown.
Cancel ==
    /\ ~cancelled /\ ~Returned
    /\ cancelled' = TRUE
    /\ UNCHANGED <<attempts, attempt, pc, status, network>>

\* net/http sends the request, unless the context has ended.
Send ==
    /\ pc = "send" /\ ~cancelled
    /\ pc' = "wait"
    /\ wire' = wire \cup {attempt}
    /\ sent' = sent + 1
    /\ UNCHANGED <<attempts, attempt, status, cancelled, received, answers>>

\* After an attempt that may be repeated.
AfterAttempt == pc' = IF attempt < attempts THEN "pause" ELSE "error"

\* The endpoint receives the request and its answer comes back.
Reply(s) ==
    /\ pc = "wait" /\ attempt \in wire
    /\ wire' = wire \ {attempt}
    /\ received' = received \cup {attempt}
    /\ status' = s
    /\ answers' = answers \cup {s}
    /\ pc' = "answer"
    /\ UNCHANGED <<attempts, attempt, cancelled, sent>>

\* The endpoint receives a request whose answer is lost, or comes when nobody
\* waits for it any more.
Arrive(n) ==
    /\ n \in wire
    /\ wire' = wire \ {n}
    /\ received' = received \cup {n}
    /\ UNCHANGED <<attempts, attempt, pc, status, cancelled, sent, answers>>

\* A request is lost.
Lose(n) ==
    /\ n \in wire
    /\ wire' = wire \ {n}
    /\ UNCHANGED <<attempts, attempt, pc, status, cancelled, received, sent, answers>>

\* Mutated form: the error of the last attempt is forgotten.
NoAnswerForgotten ==
    /\ pc = "wait" \/ (pc = "send" /\ cancelled)
    /\ pc' = IF attempt < attempts THEN "pause" ELSE "ok"
    /\ UNCHANGED <<attempts, attempt, status, cancelled, network>>

\* httpClient.Do reports an error: unreachable, ten seconds without an answer,
\* or the context has ended.
NoAnswer ==
    /\ pc = "wait" \/ (pc = "send" /\ cancelled)
    /\ AfterAttempt
    /\ UNCHANGED <<attempts, attempt, status, cancelled, network>>

\* The answer is handled: success ends the call, so does a client error, and a
\* server error leads to another attempt.
Handle ==
    /\ pc = "answer"
    /\ CASE status = "success" -> pc' = "ok"
         [] status = "client_error" -> pc' = "error"
         [] status = "server_error" -> AfterAttempt
    /\ status' = "none"
    /\ UNCHANGED <<attempts, attempt, cancelled, network>>

\* drainAndClose fails on the answer's body: Do returns that error, after a
\* success too.
DrainFails ==
    /\ pc = "answer"
    /\ pc' = "error"
    /\ status' = "none"
    /\ UNCHANGED <<attempts, attempt, cancelled, network>>

\* Mutated form: the attempt is not counted.
PauseUncounted ==
    /\ pc = "pause"
    /\ pc' = "send"
    /\ UNCHANGED <<attempts, attempt, status, cancelled, network>>

\* The timer fires: next attempt.
PauseOver ==
    /\ pc = "pause"
    /\ attempt' = attempt + 1
    /\ pc' = "send"
    /\ UNCHANGED <<attempts, status, cancelled, network>>

\* The context ends first.
PauseCancelled ==
    /\ pc = "pause" /\ cancelled
    /\ pc' = "error"
    /\ UNCHANGED <<attempts, attempt, status, cancelled, network>>

Do == Send \/ NoAnswer \/ Handle \/ PauseOver \/ PauseCancelled

ClientNext ==
    \/ Do \/ DrainFails
    \/ \E s \in Classes : Reply(s)
    \/ \E n \in wire : Arrive(n) \/ Lose(n)
    \/ Cancel

ClientSpec == ClientInit /\ [][ClientNext]_clientVars

-----------------------------------------------------------------------------
(* Properties                                                              *)

\* Nothing more is sent once the context has ended or the endpoint has answered
\* with anything but a server error: a delivered or a refused message is not
\* posted again by the same call.  And however requests and answers are lost, no
\* more copies are sent than Retry allows, nor more than one for a Retry below
\* one.
SendsOnlyToRetry ==
    [][sent' # sent =>
          /\ ~cancelled /\ answers \subseteq {"server_error"}
          /\ sent' <= attempts /\ attempts >= 1]_clientVars

\* What the caller and the endpoint see of the call.
outcome == IF pc \in {"ok", "error"} THEN pc ELSE "pending"

Publish == INSTANCE PublishContract WITH result <- outcome, got <- received # {}

\* Client.Do keeps the promise the outbox relies on.
ImplementsPublish == Publish!Spec
=============================================================================
