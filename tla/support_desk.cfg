SPECIFICATION FairSpec
CONSTANTS
    t1 = t1  r1 = r1  r2 = r2  u1 = u1  x1 = x1
    NoTicket = NoTicket
    NoReply = NoReply
    NoUpdate = NoUpdate
    NoText = NoText
    NoData = NoData
    Tickets = {t1}
    Replies = {r1, r2}
    MaxRequests = 2
    Updates = {u1}
    Texts = {x1}
    Filters = {"open", "resolved"}
    Faults = {"fetch", "lost", "refuse"}
INVARIANTS
    TypeOK
    NoReplyIsBuried
    TextIsStoredOnce
PROPERTY ListCatchesUp
