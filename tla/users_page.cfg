SPECIFICATION Spec
CONSTANTS
    p1 = p1  p2 = p2  s1 = s1  s2 = s2
    NoUser = NoUser
    NoChange = NoChange
    NoData = NoData
    Users = {p1}
    Changes = {s1, s2}
    Faults = {"fetch", "lost", "refuse", "partial", "elsewhere"}
INVARIANTS
    TypeOK
    QuietListIsTrue
    LastWordCounts
