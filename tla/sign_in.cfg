SPECIFICATION Spec
CONSTANTS
    t1 = t1  t2 = t2  a1 = a1  a2 = a2  r1 = r1  r2 = r2
    NoTab = NoTab
    NoUser = NoUser
    NoRequest = NoRequest
    Tabs = {t1, t2}
    Accounts = {a1, a2}
    Requests = {r1, r2}
    Faults = {"network", "lost"}
INVARIANTS
    TypeOK
    QuietUserIsTrue
    RequestsAreOfUser
SYMMETRY Symmetric
