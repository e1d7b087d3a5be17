---------------------------- MODULE AccessProofs ----------------------------
(***************************************************************************)
(* Proofs about Access, for any households, members, sessions and number   *)
(* of concurrent requests.                                                 *)
(*                                                                         *)
(* A request is authorized in three statements with others in between.     *)
(* The invariant says what each statement has established and why it is    *)
(* not undone: a session that is not usable never becomes usable again, a  *)
(* session keeps its member, and a member keeps household and role.        *)
(***************************************************************************)
EXTENDS Access, TLAPS

\* The records of requests under way, as in TypeOK.
RequestRecords ==
    [pc : {"idle", "session", "member", "scope", "granted"},
     route : Routes,
     target : Households \cup {Nowhere},
     session : Sessions \cup {NoSession},
     member : Members \cup {NoOne},
     late : BOOLEAN,
     wasActive : BOOLEAN]

\* A session belongs to a member of a household, and so does a login that is
\* about to create one.
SessionsOwned ==
    \A s \in Sessions :
        /\ session[s] # "absent" => owner[s] \in Members /\ home[owner[s]] # Nowhere
        /\ login[s] # NoOne => session[s] = "absent" /\ home[login[s]] # Nowhere

\* What a request has established by the point it has reached.
RequestOK(r) ==
    r.pc # "idle" =>
        /\ r.session \in Sessions /\ session[r.session] # "absent" /\ r.target \in Households
        /\ Usable(r.session) => ~r.late
        /\ owner[r.session] \in active => r.wasActive
        /\ r.pc # "session" => ~r.late
        /\ r.pc \in {"scope", "granted"} =>
              /\ r.wasActive
              /\ r.member = owner[r.session]
              /\ Rank(role[r.member]) >= Rank(Required[r.route])
        /\ r.pc = "granted" => home[r.member] = r.target

RequestsOK == \A q \in Requests : RequestOK(req[q])

\* Whoever let a member in is a member.
AddersKnown == \A m \in Members : home[m] # Nowhere => addedBy[m] \in Members

AccessInv == TypeOK /\ SessionsOwned /\ RequestsOK /\ AddersKnown /\ HouseholdsOwned

USE AccessAssumption

\* The rank table puts only owners at the rank addMember asks for.
LEMMA OwnerRank ==
    ASSUME NEW r \in Roles, Rank(r) >= Rank("owner")
    PROVE  r = "owner"
  BY DEF Rank, Roles

\* A request that moves on to what RequestOK asks of its new place.
LEMMA RequestStep ==
    ASSUME AccessInv, NEW q \in Requests, NEW r \in RequestRecords, RequestOK(r),
           req' = [req EXCEPT ![q] = r], UNCHANGED <<people, sessions>>
    PROVE  AccessInv'
<1>1. UNCHANGED <<households, home, role, active, addedBy, login, owner, session, expired>>
  BY DEF people, sessions
<1>2. TypeOK'
  BY <1>1 DEF AccessInv, TypeOK, RequestRecords
<1>3. RequestsOK'
  BY <1>1 DEF AccessInv, TypeOK, RequestsOK, RequestOK, Usable
<1>4. SessionsOwned' /\ AddersKnown' /\ HouseholdsOwned'
  BY <1>1 DEF AccessInv, SessionsOwned, AddersKnown, HouseholdsOwned
<1>. QED
  BY <1>2, <1>3, <1>4 DEF AccessInv

\* A denied or finished request.
LEMMA DenyStep ==
    ASSUME AccessInv, NEW q \in Requests, Deny(q)
    PROVE  AccessInv'
<1>1. NoReq \in RequestRecords
  BY DEF NoReq, RequestRecords, Routes, Required
<1>2. RequestOK(NoReq)
  BY DEF NoReq, RequestOK
<1>. QED
  BY <1>1, <1>2, RequestStep DEF Deny

\* A request arrives with a session id that was given out.
LEMMA ArriveStep ==
    ASSUME AccessInv, NEW q \in Requests, NEW s \in Sessions, NEW route \in Routes,
           NEW h \in Households, Arrive(q, s, route, h)
    PROVE  AccessInv'
<1> DEFINE r == [pc |-> "session", route |-> route, target |-> h, session |-> s, member |-> NoOne,
                 late |-> ~Usable(s), wasActive |-> owner[s] \in active]
<1>1. r \in RequestRecords
  BY DEF RequestRecords, Usable
<1>2. RequestOK(r)
  BY DEF Arrive, RequestOK
<1>. QED
  BY <1>1, <1>2, RequestStep DEF Arrive

\* Authorize reads the session: usable now, so it was usable on arrival.
LEMMA ReadSessionStep ==
    ASSUME AccessInv, NEW q \in Requests, ReadSession(q)
    PROVE  AccessInv'
<1>1. CASE ~Usable(req[q].session)
  BY <1>1, DenyStep DEF ReadSession
<1>2. CASE Usable(req[q].session)
  <2> DEFINE r == [req[q] EXCEPT !.pc = "member"]
  <2>1. req[q] \in RequestRecords /\ RequestOK(req[q]) /\ req[q].pc = "session"
    BY DEF ReadSession, AccessInv, TypeOK, RequestRecords, RequestsOK
  <2>2. r \in RequestRecords
    BY <2>1 DEF RequestRecords
  <2>3. RequestOK(r)
    BY <1>2, <2>1 DEF RequestRecords, RequestOK
  <2>4. req' = [req EXCEPT ![q] = r] /\ UNCHANGED <<people, sessions>>
    BY <1>2 DEF ReadSession, Goto
  <2>. QED
    BY <2>2, <2>3, <2>4, RequestStep
<1>. QED
  BY <1>1, <1>2

\* Authorize reads the member and compares the role.
LEMMA ReadMemberStep ==
    ASSUME AccessInv, NEW q \in Requests, ReadMember(q)
    PROVE  AccessInv'
<1> DEFINE m == owner[req[q].session]
<1>1. CASE ~(m \in active /\ Rank(role[m]) >= Rank(Required[req[q].route]))
  BY <1>1, DenyStep DEF ReadMember
<1>2. CASE m \in active /\ Rank(role[m]) >= Rank(Required[req[q].route])
  <2> DEFINE r == [req[q] EXCEPT !.pc = "scope", !.member = m]
  <2>1. req[q] \in RequestRecords /\ RequestOK(req[q]) /\ req[q].pc = "member"
    BY DEF ReadMember, AccessInv, TypeOK, RequestRecords, RequestsOK
  <2>2. m \in Members
    BY <1>2 DEF AccessInv, TypeOK
  <2>3. r \in RequestRecords
    BY <2>1, <2>2 DEF RequestRecords
  <2>4. RequestOK(r)
    BY <1>2, <2>1 DEF RequestRecords, RequestOK
  <2>5. req' = [req EXCEPT ![q] = r] /\ UNCHANGED <<people, sessions>>
    BY <1>2 DEF ReadMember
  <2>. QED
    BY <2>3, <2>4, <2>5, RequestStep
<1>. QED
  BY <1>1, <1>2

\* The household of the path is compared with the member's.
LEMMA CheckScopeStep ==
    ASSUME AccessInv, NEW q \in Requests, CheckScope(q)
    PROVE  AccessInv'
<1>1. CASE home[req[q].member] # req[q].target
  BY <1>1, DenyStep DEF CheckScope
<1>2. CASE home[req[q].member] = req[q].target
  <2> DEFINE r == [req[q] EXCEPT !.pc = "granted"]
  <2>1. req[q] \in RequestRecords /\ RequestOK(req[q]) /\ req[q].pc = "scope"
    BY DEF CheckScope, AccessInv, TypeOK, RequestRecords, RequestsOK
  <2>2. r \in RequestRecords
    BY <2>1 DEF RequestRecords
  <2>3. RequestOK(r)
    BY <1>2, <2>1 DEF RequestRecords, RequestOK
  <2>4. req' = [req EXCEPT ![q] = r] /\ UNCHANGED <<people, sessions>>
    BY <1>2 DEF CheckScope, Goto
  <2>. QED
    BY <2>2, <2>3, <2>4, RequestStep
<1>. QED
  BY <1>1, <1>2

\* Steps that change sessions and logins only: no session comes back to life,
\* and no session changes hands.
LEMMA SessionStep ==
    ASSUME AccessInv, UNCHANGED <<people, req>>,
           login' \in [Sessions -> Members \cup {NoOne}],
           owner' \in [Sessions -> Members \cup {NoOne}],
           session' \in [Sessions -> {"absent", "live", "revoked", "deleted"}],
           expired' \subseteq Sessions, expired \subseteq expired',
           \A s \in Sessions : session[s] # "absent" =>
              owner'[s] = owner[s] /\ session'[s] # "absent" /\ (session'[s] = "live" => session[s] = "live"),
           SessionsOwned'
    PROVE  AccessInv'
<1>1. UNCHANGED <<households, home, role, active, addedBy, req>>
  BY DEF people
<1>2. TypeOK'
  BY <1>1 DEF AccessInv, TypeOK
<1>3. ASSUME NEW q \in Requests PROVE RequestOK(req[q])'
  BY <1>1 DEF AccessInv, TypeOK, RequestsOK, RequestOK, Usable
<1>4. AddersKnown' /\ HouseholdsOwned'
  BY <1>1 DEF AccessInv, AddersKnown, HouseholdsOwned
<1>. QED
  BY <1>2, <1>3, <1>4 DEF AccessInv, RequestsOK

\* Login, logout, expiry and the sweep over sessions.
LEMMA SessionSteps ==
    ASSUME AccessInv,
           \/ \E s \in Sessions, m \in Members : FindMember(s, m)
           \/ \E s \in Sessions : CreateSession(s) \/ Logout(s) \/ Expire(s)
           \/ VacuumSessions
    PROVE  AccessInv'
<1> USE DEF AccessInv, TypeOK, SessionsOwned, people
<1>1. ASSUME NEW s \in Sessions, NEW m \in Members, FindMember(s, m) PROVE AccessInv'
  <2>1. SessionsOwned' /\ login' \in [Sessions -> Members \cup {NoOne}]
    BY <1>1 DEF FindMember
  <2>. QED
    BY <1>1, <2>1, SessionStep DEF FindMember
<1>2. ASSUME NEW s \in Sessions, CreateSession(s) PROVE AccessInv'
  <2>1. session[s] = "absent" /\ login[s] \in Members
    BY <1>2 DEF CreateSession
  <2>2. /\ login' \in [Sessions -> Members \cup {NoOne}]
        /\ owner' \in [Sessions -> Members \cup {NoOne}]
        /\ session' \in [Sessions -> {"absent", "live", "revoked", "deleted"}]
    BY <1>2, <2>1 DEF CreateSession
  <2>3. SessionsOwned'
    BY <1>2, <2>1 DEF CreateSession
  <2>4. \A t \in Sessions : session[t] # "absent" => owner'[t] = owner[t] /\ session'[t] = session[t]
    BY <1>2, <2>1 DEF CreateSession
  <2>. QED
    BY <1>2, <2>2, <2>3, <2>4, SessionStep DEF CreateSession
<1>3. ASSUME NEW s \in Sessions, Logout(s) PROVE AccessInv'
  BY <1>3, SessionStep DEF Logout, RevokeSession
<1>4. ASSUME NEW s \in Sessions, Expire(s) PROVE AccessInv'
  BY <1>4, SessionStep DEF Expire
<1>5. ASSUME VacuumSessions PROVE AccessInv'
  BY <1>5, SessionStep DEF VacuumSessions, Dead
<1>. QED
  BY <1>1, <1>2, <1>3, <1>4, <1>5

\* A new member, let in by itself as the founder of a household or by an owner
\* of the household: nobody else's household or role changes, and no request
\* loses what it has established.
LEMMA InsertStep ==
    ASSUME AccessInv, NEW m \in Members, NEW h \in Households, NEW r \in Roles, NEW by \in Members,
           InsertMember(m, h, r, by), UNCHANGED sessions,
           \/ by = m /\ r = "owner" /\ households' = households \cup {h}
           \/ by # m /\ home[by] = h /\ role[by] = "owner" /\ UNCHANGED households,
           req' \in [Requests -> RequestRecords],
           \A q \in Requests : req'[q] = req[q] \/ req'[q] = NoReq
    PROVE  AccessInv'
<1>1. /\ home[m] = Nowhere
      /\ home' = [home EXCEPT ![m] = h]
      /\ role' = [role EXCEPT ![m] = r]
      /\ active' = active \cup {m}
      /\ addedBy' = [addedBy EXCEPT ![m] = by]
      /\ UNCHANGED <<login, owner, session, expired>>
  BY DEF InsertMember, sessions
<1>2. HouseholdsOwned /\ AddersKnown /\ SessionsOwned /\ RequestsOK /\ TypeOK
  BY DEF AccessInv
<1>3. h \in households'
  BY <1>2 DEF HouseholdsOwned
<1>4. TypeOK'
  BY <1>1, <1>2 DEF TypeOK, RequestRecords
<1>5. SessionsOwned'
  BY <1>1, <1>2 DEF TypeOK, SessionsOwned
<1>6. ASSUME NEW q \in Requests PROVE RequestOK(req[q])'
  <2>1. CASE req'[q] = NoReq
    BY <2>1 DEF NoReq, RequestOK
  <2>2. CASE req'[q] = req[q] /\ req[q].pc # "idle"
    <3>1. RequestOK(req[q]) /\ req[q] \in RequestRecords
      BY <1>2 DEF RequestsOK, TypeOK, RequestRecords
    <3>2. req[q].session \in Sessions /\ owner[req[q].session] \in Members
          /\ owner[req[q].session] # m
      BY <1>1, <1>2, <2>2, <3>1 DEF RequestOK, SessionsOwned
    <3>. QED
      BY <1>1, <1>2, <2>2, <3>1, <3>2 DEF RequestOK, TypeOK, Usable
  <2>3. CASE req'[q] = req[q] /\ req[q].pc = "idle"
    BY <2>3 DEF RequestOK
  <2>. QED
    BY <2>1, <2>2, <2>3
<1>7. AddersKnown'
  BY <1>1, <1>2 DEF TypeOK, AddersKnown
<1>8. HouseholdsOwned'
  <2>1. ASSUME NEW g \in households' PROVE \E k \in Members : home'[k] = g /\ role'[k] = "owner"
    <3>1. CASE g \in households
      <4>1. PICK k \in Members : home[k] = g /\ role[k] = "owner"
        BY <1>2, <3>1 DEF HouseholdsOwned
      <4>2. k # m
        BY <1>1, <1>2, <3>1, <4>1 DEF TypeOK
      <4>. QED
        BY <1>1, <1>2, <4>1, <4>2 DEF TypeOK
    <3>2. CASE g \notin households
      BY <1>1, <1>2, <2>1, <3>2 DEF TypeOK
    <3>. QED
      BY <3>1, <3>2
  <2>2. ASSUME NEW k \in Members, home'[k] # Nowhere
        PROVE  /\ home'[k] \in households'
               /\ home'[addedBy'[k]] = home'[k] /\ role'[addedBy'[k]] = "owner"
    <3>1. CASE k = m
      BY <1>1, <1>2, <1>3, <3>1 DEF TypeOK
    <3>2. CASE k # m
      <4>1. home[k] # Nowhere /\ home'[k] = home[k] /\ addedBy'[k] = addedBy[k]
        BY <1>1, <1>2, <2>2, <3>2 DEF TypeOK
      <4>2. addedBy[k] \in Members /\ home[addedBy[k]] = home[k] /\ role[addedBy[k]] = "owner"
            /\ home[k] \in households
        BY <1>2, <4>1 DEF AddersKnown, HouseholdsOwned
      <4>3. addedBy[k] # m
        BY <1>1, <4>1, <4>2
      <4>. QED
        BY <1>1, <1>2, <4>1, <4>2, <4>3 DEF TypeOK
    <3>. QED
      BY <3>1, <3>2
  <2>. QED
    BY <2>1, <2>2 DEF HouseholdsOwned
<1>. QED
  BY <1>4, <1>5, <1>6, <1>7, <1>8 DEF AccessInv, RequestsOK

\* A household and its founder, in one transaction.
LEMMA OnboardStep ==
    ASSUME AccessInv, NEW h \in Households, NEW m \in Members, Onboard(h, m)
    PROVE  AccessInv'
<1>1. /\ InsertMember(m, h, "owner", m) /\ UNCHANGED <<sessions, req>>
      /\ households' = households \cup {h}
  BY DEF Onboard, CreateHouseholdWithOwner
<1>2. "owner" \in Roles
  BY DEF Roles
<1>3. req' \in [Requests -> RequestRecords] /\ \A q \in Requests : req'[q] = req[q]
  BY <1>1 DEF AccessInv, TypeOK, RequestRecords
<1>. QED
  BY <1>1, <1>2, <1>3, InsertStep

\* addMember: the request was granted to an owner of the household it names.
LEMMA AddMemberStep ==
    ASSUME AccessInv, NEW q \in Requests, NEW m \in Members, NEW r \in Roles, AddMember(q, m, r)
    PROVE  AccessInv'
<1> DEFINE x == req[q]
<1>1. /\ x.pc = "granted" /\ x.route = "addMember"
      /\ InsertMember(m, x.target, r, x.member) /\ home[m] = Nowhere
      /\ req' = [req EXCEPT ![q] = NoReq]
      /\ UNCHANGED sessions /\ UNCHANGED households
  BY DEF AddMember, InsertMember
<1>2. x \in RequestRecords /\ RequestOK(x)
  BY DEF AccessInv, TypeOK, RequestRecords, RequestsOK
<1>3. /\ x.target \in Households
      /\ x.member \in Members
      /\ home[x.member] = x.target
      /\ Rank(role[x.member]) >= Rank(Required[x.route])
  BY <1>1, <1>2 DEF RequestOK, AccessInv, SessionsOwned
<1>4. role[x.member] = "owner"
  <2>1. role[x.member] \in Roles
    BY <1>3 DEF AccessInv, TypeOK
  <2>2. Required[x.route] = "owner"
    BY <1>1 DEF Required
  <2>. QED
    BY <1>3, <2>1, <2>2, OwnerRank
<1>5. x.member # m
  BY <1>1, <1>3
<1>6. req' \in [Requests -> RequestRecords] /\ \A p \in Requests : req'[p] = req[p] \/ req'[p] = NoReq
  <2>1. NoReq \in RequestRecords
    BY DEF NoReq, RequestRecords, Routes, Required
  <2>. QED
    BY <1>1, <2>1 DEF AccessInv, TypeOK, RequestRecords
<1>. QED
  BY <1>1, <1>3, <1>4, <1>5, <1>6, InsertStep

\* A member is deactivated or activated: requests under way remember that
\* their member was active at some time.
LEMMA SetMemberActiveStep ==
    ASSUME AccessInv, NEW m \in Members, SetMemberActive(m)
    PROVE  AccessInv'
<1>1. /\ active' = IF m \in active THEN active \ {m} ELSE active \cup {m}
      /\ req' = [q \in Requests |->
            IF req[q].pc # "idle" /\ owner[req[q].session] = m
              THEN [req[q] EXCEPT !.wasActive = TRUE] ELSE req[q]]
      /\ UNCHANGED <<households, home, role, addedBy, login, owner, session, expired>>
  BY DEF SetMemberActive, sessions
<1>2. ASSUME NEW q \in Requests PROVE req'[q] \in RequestRecords
  BY <1>1 DEF AccessInv, TypeOK, RequestRecords
<1>3. TypeOK'
  BY <1>1, <1>2 DEF AccessInv, TypeOK, RequestRecords
<1>4. ASSUME NEW q \in Requests PROVE RequestOK(req[q])'
  <2>1. RequestOK(req[q]) /\ req[q] \in RequestRecords
    BY DEF AccessInv, RequestsOK, TypeOK, RequestRecords
  <2>2. CASE req[q].pc # "idle" /\ owner[req[q].session] = m
    <3>1. req'[q] = [req[q] EXCEPT !.wasActive = TRUE]
      BY <1>1, <2>2
    <3>. QED
      BY <1>1, <2>1, <2>2, <3>1 DEF RequestOK, RequestRecords, Usable
  <2>3. CASE ~(req[q].pc # "idle" /\ owner[req[q].session] = m)
    <3>1. req'[q] = req[q]
      BY <1>1, <2>3
    <3>. QED
      BY <1>1, <2>1, <2>3, <3>1 DEF RequestOK, Usable
  <2>. QED
    BY <2>2, <2>3
<1>5. SessionsOwned' /\ AddersKnown' /\ HouseholdsOwned'
  BY <1>1 DEF AccessInv, SessionsOwned, AddersKnown, HouseholdsOwned
<1>. QED
  BY <1>3, <1>4, <1>5 DEF AccessInv, RequestsOK

\* The inductive invariant of households, sessions and requests.
THEOREM AccessInvariance == Spec => []AccessInv
<1>1. Init => AccessInv
  BY DEF Init, AccessInv, TypeOK, SessionsOwned, RequestsOK, RequestOK, AddersKnown,
         HouseholdsOwned, NoReq, Roles, Routes, Required
<1>2. ASSUME AccessInv, [Next]_vars PROVE AccessInv'
  <2>1. CASE UNCHANGED vars
    BY <1>2, <2>1
    DEF vars, people, sessions, AccessInv, TypeOK, SessionsOwned, RequestsOK, RequestOK, Usable,
        AddersKnown, HouseholdsOwned
  <2>2. CASE Next
    BY <1>2, <2>2, OnboardStep, SetMemberActiveStep, SessionSteps, ArriveStep, ReadSessionStep,
       ReadMemberStep, CheckScopeStep, DenyStep, AddMemberStep
    DEF Next, Respond
  <2>. QED
    BY <1>2, <2>1, <2>2
<1>. QED
  BY <1>1, <1>2, PTL DEF Spec

\* No request gets through on a session that was revoked, expired or deleted
\* before it arrived, nor for a member who was inactive all the while.
THEOREM NeverGrantedTooLate == Spec => []NoGrantTooLate
<1>1. AccessInv => NoGrantTooLate
  BY DEF AccessInv, RequestsOK, RequestOK, NoGrantTooLate
<1>. QED
  BY AccessInvariance, <1>1, PTL

\* A request that gets through acts in its own member's household, with the
\* role the route asks for.
THEOREM TenantsIsolated == Spec => []TenantIsolation
<1>1. AccessInv => TenantIsolation
  BY DEF AccessInv, RequestsOK, RequestOK, TenantIsolation
<1>. QED
  BY AccessInvariance, <1>1, PTL

\* Every household has an owner, and every member was let in by an owner of the
\* same household.
THEOREM HouseholdsStayOwned == Spec => []HouseholdsOwned
<1>1. AccessInv => HouseholdsOwned
  BY DEF AccessInv
<1>. QED
  BY AccessInvariance, <1>1, PTL
=============================================================================
