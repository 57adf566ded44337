SPECIFICATION FairSpec
CONSTANTS
    d1 = d1  d2 = d2
    NoDoc = NoDoc
    NoData = NoData
    Docs = {d1, d2}
    Faults = {"fetch", "lost", "timeout", "refuse"}
INVARIANTS
    TypeOK
    QuietListIsTrue
PROPERTIES
    ShownNeverGoesBack
    SettledIsShown
