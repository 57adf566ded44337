SPECIFICATION Spec
CONSTANTS
    Nobody = Nobody
    Users = {u1, u2}
    Logins = {s1, s2}
    Links = {k1, k2}
    Resets = {r1}
    Requests = {q1}
    Changes = {c1, c2}
SYMMETRY Symmetry
\* Every request answers, and an instance has finitely many of them.
CHECK_DEADLOCK FALSE
INVARIANTS
    TypeOK
    SessionHasAccount
    OpenLinkIsCurrent
PROPERTIES
    RevokedBeginsNothing
    ImplementsPermits
