\* Two households, three members, two sessions and a request; members and
\* sessions change under it.
SPECIFICATION Spec
CONSTANTS
    h1 = h1
    m3 = m3
    s2 = s2
    h2 = h2
    m1 = m1
    m2 = m2
    s1 = s1
    q1 = q1
    NoOne = NoOne
    Nowhere = Nowhere
    NoSession = NoSession
    Households = {h1, h2}
    Members = {m1, m2, m3}
    Sessions = {s1, s2}
    Requests = {q1}
SYMMETRY AccessSymmetry
INVARIANTS
    NoGrantTooLate
    TenantIsolation
    HouseholdsOwned
