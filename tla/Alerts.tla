------------------------------- MODULE Alerts -------------------------------
(***************************************************************************)
(* The life of an alert row: AlertService.Resolve reads the row, decides,  *)
(* and writes with a statement that compares the state it read, while      *)
(* other calls resolve or acknowledge the same alert and answers get lost. *)
(***************************************************************************)
EXTENDS Integers

CONSTANTS
    AlertIds,
    Resolvers,      \* calls of AlertService.Resolve
    NoAlert

ASSUME NoAlertAssumption == NoAlert \notin AlertIds

VARIABLES
    alert,          \* state of each row, "absent" before CreateAlert
    resolve,        \* each call of Resolve: [pc, id, seen]
    wrote           \* history: the calls whose UPDATE resolved the row

alertVars == <<alert, resolve, wrote>>

\* ValidAlertState, and the CHECK constraint of the table
AlertStates == {"open", "acknowledged", "resolved"}

NoResolve == [pc |-> "idle", id |-> NoAlert, seen |-> "absent"]

AlertTypeOK ==
    /\ alert \in [AlertIds -> AlertStates \cup {"absent"}]
    /\ resolve \in [Resolvers -> [pc : {"idle", "read", "ok", "conflict", "error"},
                                  id : AlertIds \cup {NoAlert},
                                  seen : AlertStates \cup {"absent"}]]
    /\ wrote \in [AlertIds -> SUBSET Resolvers]

AlertInit ==
    /\ alert = [a \in AlertIds |-> "absent"]
    /\ resolve = [r \in Resolvers |-> NoResolve]
    /\ wrote = [a \in AlertIds |-> {}]

-----------------------------------------------------------------------------

\* domain.TransitionAlert
AlertTransition ==
    {<<"open", "acknowledged">>, <<"open", "resolved">>, <<"acknowledged", "resolved">>}

CreateAlert(a) ==
    /\ alert[a] = "absent"
    /\ alert' = [alert EXCEPT ![a] = "open"]
    /\ UNCHANGED <<resolve, wrote>>

\* An operator's TransitionAlert(id, "open", "acknowledged").
Acknowledge(a) ==
    /\ alert[a] = "open"
    /\ alert' = [alert EXCEPT ![a] = "acknowledged"]
    /\ UNCHANGED <<resolve, wrote>>

\* Resolve reads the row.  A row that does not exist is an error, and one that
\* cannot be resolved from the state it is in a conflict.
GetAlert(r, a) ==
    /\ resolve[r].pc = "idle"
    /\ resolve' = [resolve EXCEPT ![r] =
          [pc   |-> IF alert[a] = "absent" THEN "error"
                    ELSE IF <<alert[a], "resolved">> \in AlertTransition THEN "read"
                    ELSE "conflict",
           id   |-> a,
           seen |-> alert[a]]]
    /\ UNCHANGED <<alert, wrote>>

\* Mutated form: the statement does not compare the state.
MatchesAny(r) == alert[resolve[r].id] # "absent"

\* WHERE id=$1 AND state=$4
Matches(r) == alert[resolve[r].id] = resolve[r].seen

\* The UPDATE finds its row; the answer may get lost.
TransitionAlert(r) ==
    LET a == resolve[r].id IN
    /\ resolve[r].pc = "read" /\ Matches(r)
    /\ alert' = [alert EXCEPT ![a] = "resolved"]
    /\ wrote' = [wrote EXCEPT ![a] = @ \cup {r}]
    /\ \E answer \in {"ok", "error"} : resolve' = [resolve EXCEPT ![r].pc = answer]

\* No row was affected: ErrConflict.
TransitionConflict(r) ==
    /\ resolve[r].pc = "read" /\ ~Matches(r)
    /\ resolve' = [resolve EXCEPT ![r].pc = "conflict"]
    /\ UNCHANGED <<alert, wrote>>

\* Either statement fails before it does anything.
ResolveFails(r) ==
    /\ resolve[r].pc \in {"idle", "read"}
    /\ resolve' = [resolve EXCEPT ![r].pc = "error"]
    /\ UNCHANGED <<alert, wrote>>

Resolve(r) ==
    \/ \E a \in AlertIds : GetAlert(r, a)
    \/ TransitionAlert(r) \/ TransitionConflict(r) \/ ResolveFails(r)

AlertNext ==
    \/ \E a \in AlertIds : CreateAlert(a) \/ Acknowledge(a)
    \/ \E r \in Resolvers : Resolve(r)

AlertSpec == AlertInit /\ [][AlertNext]_alertVars

-----------------------------------------------------------------------------
(* Properties                                                              *)

\* However the calls interleave and whatever answers are lost, one call at most
\* resolves an alert; a call that returns nil is that one, and a call that
\* returns ErrConflict changed nothing and lost to a resolution or to an
\* acknowledgement.  A resolved alert stays resolved.
ResolvedOnce ==
    /\ \A a \in AlertIds :
          /\ \A r, s \in wrote[a] : r = s
          /\ alert[a] = "resolved" <=> wrote[a] # {}
    /\ \A r \in Resolvers :
          /\ resolve[r].pc = "ok" => r \in wrote[resolve[r].id]
          /\ resolve[r].pc = "conflict" =>
                /\ r \notin wrote[resolve[r].id]
                /\ alert[resolve[r].id] \in {"acknowledged", "resolved"}
=============================================================================
