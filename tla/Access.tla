------------------------------- MODULE Access -------------------------------
(***************************************************************************)
(* Households, members, sessions and the authorization of HTTP requests.   *)
(* A request reads its session, then the member, then the household of the *)
(* resource in its path, each in a statement of its own, and acts in a     *)
(* later one; sessions are revoked, expire and are deleted in between.     *)
(***************************************************************************)
EXTENDS Integers

CONSTANTS
    Households, Members, Sessions,
    Requests,       \* concurrent HTTP requests
    NoOne, Nowhere, NoSession

ASSUME AccessAssumption ==
    /\ NoOne \notin Members /\ Nowhere \notin Households /\ NoSession \notin Sessions

VARIABLES
    households,     \* the households that exist
    home,           \* household of each member, Nowhere before it is added
    role,           \* role of each member
    active,         \* the active members
    login,          \* logins between FindMember and CreateSession
    owner,          \* member of each session, NoOne before it is created
    session,        \* "absent", "live", "revoked" or "deleted"
    expired,        \* sessions whose expires_at has passed
    req,            \* each request under way
    addedBy         \* history: the member on whose request a member was added

people == <<households, home, role, active, addedBy>>
sessions == <<login, owner, session, expired>>
vars == <<people, sessions, req>>

Roles == {"viewer", "operator", "owner"}

\* The rank table of EnsureRole.
Rank(r) == CASE r = "viewer" -> 1 [] r = "operator" -> 2 [] r = "owner" -> 3

\* The roles the handlers ask for: addMember; enroll, device and plan
\* transitions, telemetry, plans, automations and runs; the telemetry window.
Required == [addMember |-> "owner", operate |-> "operator", view |-> "viewer"]
Routes == DOMAIN Required

NoReq == [pc |-> "idle", route |-> "view", target |-> Nowhere, session |-> NoSession,
          member |-> NoOne, late |-> FALSE, wasActive |-> FALSE]

\* Authorize accepts the session it reads.
Usable(s) == session[s] = "live" /\ s \notin expired

TypeOK ==
    /\ households \subseteq Households
    /\ home \in [Members -> Households \cup {Nowhere}]
    /\ role \in [Members -> Roles]
    /\ active \subseteq Members
    /\ addedBy \in [Members -> Members \cup {NoOne}]
    /\ login \in [Sessions -> Members \cup {NoOne}]
    /\ owner \in [Sessions -> Members \cup {NoOne}]
    /\ session \in [Sessions -> {"absent", "live", "revoked", "deleted"}]
    /\ expired \subseteq Sessions
    /\ req \in [Requests -> [pc : {"idle", "session", "member", "scope", "granted"},
                             route : Routes,
                             target : Households \cup {Nowhere},
                             session : Sessions \cup {NoSession},
                             member : Members \cup {NoOne},
                             late : BOOLEAN,
                             wasActive : BOOLEAN]]

Init ==
    /\ households = {}
    /\ home = [m \in Members |-> Nowhere]
    /\ role = [m \in Members |-> "viewer"]
    /\ active = {}
    /\ addedBy = [m \in Members |-> NoOne]
    /\ login = [s \in Sessions |-> NoOne]
    /\ owner = [s \in Sessions |-> NoOne]
    /\ session = [s \in Sessions |-> "absent"]
    /\ expired = {}
    /\ req = [q \in Requests |-> NoReq]

-----------------------------------------------------------------------------
(* Households and members                                                  *)

InsertMember(m, h, r, by) ==
    /\ home[m] = Nowhere
    /\ home' = [home EXCEPT ![m] = h]
    /\ role' = [role EXCEPT ![m] = r]
    /\ active' = active \cup {m}
    /\ addedBy' = [addedBy EXCEPT ![m] = by]

\* CreateHouseholdWithOwner: the household and its first owner in one
\* transaction.
CreateHouseholdWithOwner(h, m) ==
    /\ h \notin households
    /\ households' = households \cup {h}
    /\ InsertMember(m, h, "owner", m)
    /\ UNCHANGED <<sessions, req>>

\* Anybody may ask for a household.
Onboard(h, m) == CreateHouseholdWithOwner(h, m)

\* SetMemberActive
SetMemberActive(m) ==
    /\ home[m] # Nowhere
    /\ active' = IF m \in active THEN active \ {m} ELSE active \cup {m}
    /\ req' = [q \in Requests |->
          IF req[q].pc # "idle" /\ owner[req[q].session] = m
            THEN [req[q] EXCEPT !.wasActive = TRUE] ELSE req[q]]
    /\ UNCHANGED <<households, home, role, addedBy, sessions>>

-----------------------------------------------------------------------------
(* Sessions                                                                *)

\* Login finds an active member and checks the password...
FindMember(s, m) ==
    /\ session[s] = "absent" /\ login[s] = NoOne
    /\ home[m] # Nowhere /\ m \in active
    /\ login' = [login EXCEPT ![s] = m]
    /\ UNCHANGED <<people, owner, session, expired, req>>

\* ...and inserts a session, without another look at the member.
CreateSession(s) ==
    /\ login[s] # NoOne
    /\ owner' = [owner EXCEPT ![s] = login[s]]
    /\ session' = [session EXCEPT ![s] = "live"]
    /\ login' = [login EXCEPT ![s] = NoOne]
    /\ UNCHANGED <<people, expired, req>>

\* RevokeSession, if the row is there and not revoked yet.
RevokeSession(s) ==
    /\ session[s] = "live"
    /\ session' = [session EXCEPT ![s] = "revoked"]
    /\ UNCHANGED <<people, login, owner, expired, req>>

\* logout takes the bearer's own session only.
Logout(s) == RevokeSession(s)

\* Twelve hours pass.
Expire(s) ==
    /\ session[s] \in {"live", "revoked"} /\ s \notin expired
    /\ expired' = expired \cup {s}
    /\ UNCHANGED <<people, login, owner, session, req>>

\* VacuumSessions: DELETE ... WHERE expires_at <= now OR revoked_at IS NOT NULL.
Dead == {s \in Sessions : session[s] = "revoked" \/ (session[s] = "live" /\ s \in expired)}

VacuumSessions ==
    /\ Dead # {}
    /\ session' = [s \in Sessions |-> IF s \in Dead THEN "deleted" ELSE session[s]]
    /\ UNCHANGED <<people, login, owner, expired, req>>

-----------------------------------------------------------------------------
(* Requests                                                                *)

\* A request comes in with a session id somebody was given.
Arrive(q, s, route, h) ==
    /\ req[q].pc = "idle"
    /\ session[s] # "absent"
    /\ req' = [req EXCEPT ![q] =
          [pc |-> "session", route |-> route, target |-> h, session |-> s, member |-> NoOne,
           late |-> ~Usable(s), wasActive |-> owner[s] \in active]]
    /\ UNCHANGED <<people, sessions>>

Goto(q, pc) ==
    /\ req' = [req EXCEPT ![q].pc = pc]
    /\ UNCHANGED <<people, sessions>>

Deny(q) ==
    /\ req' = [req EXCEPT ![q] = NoReq]
    /\ UNCHANGED <<people, sessions>>

\* Mutated form: revoked_at is not looked at.
ReadSessionRevoked(q) ==
    /\ req[q].pc = "session"
    /\ IF session[req[q].session] \in {"live", "revoked"} /\ req[q].session \notin expired
         THEN Goto(q, "member") ELSE Deny(q)

\* Authorize: GetSession
ReadSession(q) ==
    /\ req[q].pc = "session"
    /\ IF Usable(req[q].session) THEN Goto(q, "member") ELSE Deny(q)

\* Mutated form: the role is not compared.
ReadMemberAnyRole(q) ==
    LET m == owner[req[q].session] IN
    /\ req[q].pc = "member"
    /\ IF m \in active
         THEN /\ req' = [req EXCEPT ![q].pc = "scope", ![q].member = m]
              /\ UNCHANGED <<people, sessions>>
         ELSE Deny(q)

\* Authorize: MemberByID and EnsureRole
ReadMember(q) ==
    LET m == owner[req[q].session] IN
    /\ req[q].pc = "member"
    /\ IF m \in active /\ Rank(role[m]) >= Rank(Required[req[q].route])
         THEN /\ req' = [req EXCEPT ![q].pc = "scope", ![q].member = m]
              /\ UNCHANGED <<people, sessions>>
         ELSE Deny(q)

\* Mutated form: the household of the path is not compared.
CheckScopeSkipped(q) == req[q].pc = "scope" /\ Goto(q, "granted")

\* authorizeHousehold, or authorizeResource after looking up the household of
\* the device, plan or automation in the path.
CheckScope(q) ==
    /\ req[q].pc = "scope"
    /\ IF home[req[q].member] = req[q].target THEN Goto(q, "granted") ELSE Deny(q)

\* The handler of addMember does its work.
AddMember(q, m, r) ==
    /\ req[q].pc = "granted" /\ req[q].route = "addMember"
    /\ InsertMember(m, req[q].target, r, req[q].member)
    /\ req' = [req EXCEPT ![q] = NoReq]
    /\ UNCHANGED <<households, sessions>>

\* Any other handler does its work, or addMember fails: nothing changes here.
Respond(q) == req[q].pc = "granted" /\ Deny(q)

Next ==
    \/ \E h \in Households, m \in Members : Onboard(h, m)
    \/ \E m \in Members : SetMemberActive(m)
    \/ \E s \in Sessions, m \in Members : FindMember(s, m)
    \/ \E s \in Sessions : CreateSession(s) \/ Logout(s) \/ Expire(s)
    \/ VacuumSessions
    \/ \E q \in Requests, s \in Sessions, route \in Routes, h \in Households :
          Arrive(q, s, route, h)
    \/ \E q \in Requests : ReadSession(q) \/ ReadMember(q) \/ CheckScope(q) \/ Respond(q)
    \/ \E q \in Requests, m \in Members, r \in Roles : AddMember(q, m, r)

Spec == Init /\ [][Next]_vars

-----------------------------------------------------------------------------
(* Properties                                                              *)

\* README: sessions expire and can be revoked.  A request that arrives after its
\* session was revoked, expired or deleted never gets through, though the
\* session is read in a different statement than everything else; a request
\* of a member who was inactive all the while never does either.
NoGrantTooLate ==
    \A q \in Requests : req[q].pc = "granted" => ~req[q].late /\ req[q].wasActive

\* Requests that get through act in the household of the session's member and
\* with the role the route asks for.
TenantIsolation ==
    \A q \in Requests : req[q].pc = "granted" =>
        LET m == owner[req[q].session] IN
        /\ home[m] = req[q].target
        /\ Rank(role[m]) >= Rank(Required[req[q].route])

\* Onboarding is transactional and memberships go back to it: a household always
\* has an owner, and every member of a household was let in by an owner of the
\* same household and so, in turn, by its founder.
HouseholdsOwned ==
    /\ \A h \in households : \E m \in Members : home[m] = h /\ role[m] = "owner"
    /\ \A m \in Members : home[m] # Nowhere =>
          /\ home[m] \in households
          /\ home[addedBy[m]] = home[m] /\ role[addedBy[m]] = "owner"

=============================================================================
