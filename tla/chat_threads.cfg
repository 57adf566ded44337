SPECIFICATION FairSpec
CONSTANTS
    c1 = c1  c2 = c2
    NoThread = NoThread
    NoData = NoData
    Threads = {c1, c2}
    Faults = {"fetch", "refuse", "lost", "removal", "age"}
INVARIANTS
    TypeOK
    QuietListIsTrue
    ActiveIsOfPage
PROPERTY DocumentGetsThread
