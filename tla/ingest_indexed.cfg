SPECIFICATION Spec
CONSTANTS
    u1 = u1  u2 = u2
    d1 = d1  d2 = d2  d3 = d3
    k1 = k1  k2 = k2
    c1 = c1  c2 = c2  c3 = c3
    t1 = t1  t2 = t2
    NoDoc = NoDoc
    Users = {u1, u2}
    Docs = {d1, d2}
    Contents = {k1, k2}
    Chunks = {c1, c2, c3}
    Triples = {t1, t2}
    Owner <- OneOwner
    ContentOf <- TwoFiles
    ChunksOf <- Split
    TriplesOf <- OwnFacts
    AdminTargets = {}
    Oversized = {k2}
    Faults = {"parse", "index", "cleanup", "lock", "logout", "crash", "db", "slow"}
    MaxJobsPerCycle = 1
    MaxDeleteAttempts = 2
    MaxOutages = 1
INVARIANTS
    ReadyIsIndexed
    ReadyIsInGraph
