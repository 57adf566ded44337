-------------------------- MODULE UsersPageProofs --------------------------
(***************************************************************************)
(* Theorems about UsersPage that hold for every choice of its constants.   *)
(***************************************************************************)
EXTENDS UsersPage, QueryCacheLaws, TLAPS

-----------------------------------------------------------------------------
(* The laws of the query cache that are used below.                        *)

LEMMA EntriesClosed ==
    ASSUME NEW Data
    PROVE  EntryLaw(Data)
<1>1. Unloaded \in Entries(Data)
  BY DEF Entries, Unloaded
<1>2. ASSUME NEW e \in Entries(Data)
      PROVE  /\ Ask(e) \in Entries(Data) /\ Arrive(e) \in Entries(Data) /\ Fail(e) \in Entries(Data)
             /\ \A b \in BOOLEAN : Invalidate(e, b) \in Entries(Data)
             /\ \A v \in Data : Serve(e, v) \in Entries(Data) /\ Write(e, v) \in Entries(Data)
             /\ Loaded(e) => e.data \in Data
  BY DEF Entries, Ask, Arrive, Fail, Invalidate, AskAgain, Serve, Write, Fetching, Loaded
<1>. QED  BY <1>1, <1>2 DEF EntryLaw

LEMMA FetchMoves ==
    ASSUME NEW Data
    PROVE  FetchLaw(Data)
BY DEF FetchLaw, Entries, Ask, Arrive, Fail, Invalidate, AskAgain, Fetching, Loaded

Lists == [Users -> {"active", "banned", "absent"}]

-----------------------------------------------------------------------------
(* Type correctness.                                                       *)

LEMMA InitTypeOK == Init => TypeOK
<1>1. Unloaded \in Entries([Users -> {"active", "banned", "absent"}])
  BY EntriesClosed DEF EntryLaw
<1>2. Init => WatchedIsPending
  BY DEF Init, WatchedIsPending, Unwatched
<1>3. Init => change \in [Changes -> [at : {"none", "sent", "read", "done", "over"},
                                     user : Users \cup {NoUser}, to : {"active", "banned"},
                                     saw : {"none", "active", "banned"}, own : BOOLEAN]]
  BY DEF Init, NoRequest
<1>4. Init => \A s \in Changes : change[s].at = "none"
  BY DEF Init, NoRequest
<1>5. Init => watched \in [change : Changes \cup {NoChange}, removal : Users \cup {NoUser}]
  BY DEF Init, Unwatched
<1>. QED  BY <1>1, <1>2, <1>3, <1>4, <1>5 DEF Init, TypeOK

LEMMA ListedType == TypeOK => Listed \in Lists
BY DEF TypeOK, Listed, Lists

\* Every operation on the list keeps its type.
LEMMA ListClosed ==
    ASSUME TypeOK
    PROVE  /\ list \in Entries(Lists)
           /\ Ask(list) \in Entries(Lists) /\ Serve(list, Listed) \in Entries(Lists)
           /\ Arrive(list) \in Entries(Lists) /\ Fail(list) \in Entries(Lists)
           /\ Invalidate(list, mounted) \in Entries(Lists)
<1>1. list \in Entries(Lists) /\ mounted \in BOOLEAN
  BY DEF TypeOK, Lists
<1>. QED  BY <1>1, ListedType, EntriesClosed DEF EntryLaw

LEMMA ServerTypeOK ==
    ASSUME TypeOK,
           \/ \E u \in Users : Registered(u) \/ Elsewhere(u) \/ RemovalCommitted(u)
           \/ \E s \in Changes : StatusRead(s) \/ StatusCommitted(s)
    PROVE  TypeOK'
<1> USE UsersAssumption DEF TypeOK, WatchedIsPending, page, dialogs
<1>1. ASSUME NEW u \in Users, Registered(u)
      PROVE  TypeOK'
  BY <1>1 DEF Registered, Silently
<1>2. ASSUME NEW u \in Users, Elsewhere(u)
      PROVE  TypeOK'
  <2>1. ASSUME NEW s \in Changes, NEW to \in {"active", "banned"}, change[s].at = "none",
               change' = [change EXCEPT ![s] = [at |-> "sent", user |-> u, to |-> to,
                                                saw |-> "none", own |-> FALSE]],
               UNCHANGED <<row, unheard, after, removal, page>>
        PROVE  TypeOK'
    BY <2>1
  <2>2. CASE row' = [row EXCEPT ![u] = "gone"] /\ Silently(u)
             /\ UNCHANGED <<change, after, removal, page>>
    BY <2>2 DEF Silently
  <2>. QED  BY <1>2, <2>1, <2>2 DEF Elsewhere
<1>3. ASSUME NEW u \in Users, RemovalCommitted(u)
      PROVE  TypeOK'
  BY <1>3 DEF RemovalCommitted
<1>4. ASSUME NEW s \in Changes, StatusRead(s)
      PROVE  TypeOK'
  BY <1>4 DEF StatusRead
<1>5. ASSUME NEW s \in Changes, StatusCommitted(s)
      PROVE  TypeOK'
  <2>1. row' \in [Users -> {"none", "active", "banned", "gone"}]
    BY <1>5 DEF StatusCommitted, StatusAfter
  <2>2. /\ change' \in [Changes -> [at : {"none", "sent", "read", "done", "over"},
                                    user : Users \cup {NoUser}, to : {"active", "banned"},
                                    saw : {"none", "active", "banned"}, own : BOOLEAN]]
        /\ \A x \in Changes : /\ change'[x].own = change[x].own /\ change'[x].user = change[x].user
                              /\ x # s => change'[x].at = change[x].at
        /\ change[s].at = "read" /\ change'[s].at = IF change[s].own THEN "done" ELSE "over"
    BY <1>5 DEF StatusCommitted
  <2>3. after' \in [Changes -> SUBSET Changes]
    BY <1>5 DEF StatusCommitted
  <2>4. unheard' \subseteq Users /\ UNCHANGED <<removal, page>>
    BY <1>5 DEF StatusCommitted, Silently
  <2>. QED  BY <2>1, <2>2, <2>3, <2>4
<1>. QED  BY <1>1, <1>2, <1>3, <1>4, <1>5

LEMMA QueryTypeOK ==
    ASSUME TypeOK, Open \/ Leave \/ Refocus \/ ListServed \/ ListArrives \/ ListFails
    PROVE  TypeOK'
<1> USE ListClosed, UsersAssumption
        DEF TypeOK, WatchedIsPending, server, dialogs, Asked, Lists
<1>1. CASE Open
  BY <1>1 DEF Open
<1>2. CASE Leave
  BY <1>2 DEF Leave, Unwatched
<1>3. CASE Refocus
  BY <1>3 DEF Refocus
<1>4. CASE ListServed
  BY <1>4 DEF ListServed
<1>5. CASE ListArrives
  BY <1>5 DEF ListArrives
<1>6. CASE ListFails
  BY <1>6 DEF ListFails
<1>. QED  BY <1>1, <1>2, <1>3, <1>4, <1>5, <1>6

LEMMA StatusOverType ==
    ASSUME TypeOK, NEW s \in Changes, change[s].at # "none", StatusOver(s), removal' = removal
    PROVE  /\ WatchedIsPending'
           /\ \A x \in Changes : change'[x].at # "none" => change'[x].user \in Users
           /\ change' \in [Changes -> [at : {"none", "sent", "read", "done", "over"},
                                      user : Users \cup {NoUser}, to : {"active", "banned"},
                                      saw : {"none", "active", "banned"}, own : BOOLEAN]]
           /\ watched' \in [change : Changes \cup {NoChange}, removal : Users \cup {NoUser}]
<1> USE UsersAssumption DEF TypeOK, StatusOver
<1>1. /\ watched' \in [change : Changes \cup {NoChange}, removal : Users \cup {NoUser}]
      /\ watched'.removal = watched.removal
      /\ watched'.change # s
      /\ watched'.change # NoChange => watched'.change = watched.change
  OBVIOUS
<1>2. \A x \in Changes : x # s => change'[x] = change[x]
  OBVIOUS
<1>3. WatchedIsPending'
  BY <1>1, <1>2 DEF WatchedIsPending
<1>. QED  BY <1>1, <1>2, <1>3

LEMMA StatusTypeOK ==
    ASSUME TypeOK, NEW s \in Changes,
           (\E u \in Users : ClickStatus(s, u)) \/ StatusSucceeds(s) \/ StatusErrors(s)
    PROVE  TypeOK'
<1> USE DEF TypeOK
<1>1. ASSUME NEW u \in Users, ClickStatus(s, u)
      PROVE  TypeOK'
  BY <1>1, UsersAssumption DEF ClickStatus, WatchedIsPending, dialogs
<1>2. CASE StatusSucceeds(s)
  <2>1. change[s].at # "none" /\ StatusOver(s) /\ Refetch(change[s].user)
        /\ UNCHANGED <<row, after, removal, mounted, selectedId>>
    BY <1>2 DEF StatusSucceeds
  <2>2. change[s].user \in Users
    BY <1>2 DEF StatusSucceeds
  <2>3. /\ deleteTarget' \in Users \cup {NoUser} /\ unheard' \subseteq Users
        /\ isError' \in BOOLEAN
    BY <1>2, <2>2 DEF StatusSucceeds, Refetch
  <2>4. list' \in Entries(Lists)
    BY <2>1, ListClosed DEF Refetch
  <2>. QED  BY <2>1, <2>3, <2>4, StatusOverType DEF Lists
<1>3. CASE StatusErrors(s)
  <2>1. /\ change[s].at # "none" /\ StatusOver(s)
        /\ UNCHANGED <<row, after, removal, mounted, list, isError, dialogs>>
    BY <1>3 DEF StatusErrors
  <2>2. unheard' \subseteq Users
    BY <1>3 DEF StatusErrors, Silently
  <2>. QED  BY <2>1, <2>2, StatusOverType DEF dialogs
<1>. QED  BY <1>1, <1>2, <1>3

LEMMA RemovalTypeOK ==
    ASSUME TypeOK,
           \/ Confirm
           \/ \E u \in Users : RemovalSucceeds(u) \/ RemovalErrors(u)
           \/ \E u \in Users \cup {NoUser} : Select(u) \/ AskAbout(u)
    PROVE  TypeOK'
<1> USE ListClosed, UsersAssumption
        DEF TypeOK, WatchedIsPending, server, dialogs, Refetch, RemovalOver, Silently, Lists
<1>1. CASE Confirm
  BY <1>1 DEF Confirm
<1>2. ASSUME NEW u \in Users, RemovalSucceeds(u)
      PROVE  TypeOK'
  BY <1>2 DEF RemovalSucceeds
<1>3. ASSUME NEW u \in Users, RemovalErrors(u)
      PROVE  TypeOK'
  BY <1>3 DEF RemovalErrors
<1>4. ASSUME NEW u \in Users \cup {NoUser}, Select(u) \/ AskAbout(u)
      PROVE  TypeOK'
  BY <1>4 DEF Select, AskAbout
<1>. QED  BY <1>1, <1>2, <1>3, <1>4

LEMMA StepTypeOK == TypeOK /\ [Next]_vars => TypeOK'
<1>1. TypeOK /\ UNCHANGED vars => TypeOK'
  BY DEF vars, server, page, dialogs, TypeOK, WatchedIsPending
<1>. QED  BY <1>1, ServerTypeOK, QueryTypeOK, StatusTypeOK, RemovalTypeOK DEF Next

\* Every variable keeps its range, and a button waits only for a request that is
\* under way.
THEOREM TypeCorrect == Spec => []TypeOK
BY InitTypeOK, StepTypeOK, PTL DEF Spec

-----------------------------------------------------------------------------
(* Bans and unbans that overlap.                                           *)

\* Until it has committed, a change has seen only rivals commit; and what it has
\* found done is still done, unless it has seen one.
ChangesSee ==
    \A s \in Changes :
        /\ change[s].at \in {"none", "sent"} => after[s] = {}
        /\ change[s].at = "read" =>
              /\ s \notin after[s]
              /\ after[s] = {} /\ change[s].saw = change[s].to =>
                    row[change[s].user] \in {change[s].to, "gone"}

StatusInv == TypeOK /\ ChangesSee /\ LastWordCounts

LEMMA InitStatusInv == Init => StatusInv
BY InitTypeOK DEF Init, StatusInv, ChangesSee, LastWordCounts, NoRequest

LEMMA CommitStatusInv ==
    ASSUME StatusInv, NEW s \in Changes, StatusCommitted(s)
    PROVE  ChangesSee' /\ LastWordCounts'
<1> DEFINE u == change[s].user
<1> USE DEF StatusInv, TypeOK, ChangesSee, LastWordCounts
<1>1. /\ change[s].at = "read" /\ row[u] # "gone"
      /\ row' = [row EXCEPT ![u] = StatusAfter(s)]
      /\ change' = [change EXCEPT ![s].at = IF change[s].own THEN "done" ELSE "over",
                                  ![s].saw = "none"]
      /\ after' = [x \in Changes |-> IF x \in Marks(s) THEN after[x] \cup {s} ELSE after[x]]
  BY DEF StatusCommitted
<1>2. ASSUME NEW x \in Changes, x # s
      PROVE  /\ change'[x] = change[x]
             /\ x \in Marks(s) => after'[x] = after[x] \cup {s}
             /\ x \notin Marks(s) => after'[x] = after[x]
  BY <1>1, <1>2
<1>3. after'[s] = after[s] \cup {s} /\ change'[s].at \in {"done", "over"}
      /\ change'[s].to = change[s].to /\ change'[s].user = u
  BY <1>1 DEF Marks
<1>4. ASSUME NEW x \in Changes, x # s, change[x].user = u, row[u] \in {change[x].to, "gone"},
             change[x].to = change[s].to
      PROVE  row'[u] = change[x].to
  BY <1>1, <1>4 DEF StatusAfter
<1>5. after[s] = {} => row'[u] = change[s].to
  BY <1>1 DEF StatusAfter
<1>6. ASSUME NEW x \in Changes, change[x].user # u
      PROVE  row'[change[x].user] = row[change[x].user]
  BY <1>1, <1>6
<1>7. ChangesSee'
  <2>1. ASSUME NEW x \in Changes, x # s
        PROVE  /\ change[x].at \in {"none", "sent"} => after'[x] = {}
               /\ change[x].at = "read" =>
                    /\ x \notin after'[x]
                    /\ after'[x] = {} /\ change[x].saw = change[x].to =>
                          row'[change[x].user] \in {change[x].to, "gone"}
    BY <1>1, <1>2, <1>4, <1>6, <2>1 DEF Marks
  <2>. QED  BY <1>2, <1>3, <2>1
<1>8. LastWordCounts'
  <2>1. ASSUME NEW x \in Changes, x # s, after'[x] = {x}
        PROVE  row'[change[x].user] \in {change[x].to, "gone"}
    <3>1. after[x] = {x} /\ x \notin Marks(s)
      BY <1>2, <2>1
    <3>. QED  BY <1>4, <1>6, <2>1, <3>1 DEF Marks
  <2>2. after'[s] = {s} => row'[u] = change[s].to
    BY <1>1, <1>3, <1>5
  <2>. QED  BY <1>2, <1>3, <2>1, <2>2
<1>. QED  BY <1>7, <1>8

LEMMA OtherStatusInv ==
    ASSUME StatusInv,
           \/ \E u \in Users : \/ Registered(u) \/ Elsewhere(u) \/ RemovalCommitted(u)
                               \/ \E s \in Changes : ClickStatus(s, u)
           \/ \E s \in Changes : StatusRead(s) \/ StatusSucceeds(s) \/ StatusErrors(s)
    PROVE  ChangesSee' /\ LastWordCounts'
<1> USE DEF StatusInv, TypeOK, ChangesSee, LastWordCounts, server
<1>1. ASSUME NEW u \in Users, Registered(u)
      PROVE  ChangesSee' /\ LastWordCounts'
  BY <1>1 DEF Registered
<1>2. ASSUME NEW u \in Users, Elsewhere(u)
      PROVE  ChangesSee' /\ LastWordCounts'
  <2>1. /\ after' = after
        /\ \A x \in Users : row'[x] \in {row[x], "gone"}
    BY <1>2 DEF Elsewhere
  <2>2. \A x \in Changes : \/ change'[x] = change[x]
                            \/ /\ change[x].at = "none" /\ change'[x].at = "sent"
                               /\ change'[x].user = u
    BY <1>2 DEF Elsewhere
  <2>3. ChangesSee'
    BY <2>1, <2>2
  <2>4. LastWordCounts'
    <3> SUFFICES ASSUME NEW x \in Changes, after[x] = {x}
                 PROVE  row'[change'[x].user] \in {change'[x].to, "gone"}
      BY <2>1
    <3>1. change[x].at # "none" /\ change'[x] = change[x] /\ change[x].user \in Users
      BY <2>2
    <3>. QED  BY <2>1, <3>1
  <2>. QED  BY <2>3, <2>4
<1>3. ASSUME NEW u \in Users, RemovalCommitted(u)
      PROVE  ChangesSee' /\ LastWordCounts'
  BY <1>3 DEF RemovalCommitted
<1>4. ASSUME NEW u \in Users, NEW s \in Changes, ClickStatus(s, u)
      PROVE  ChangesSee' /\ LastWordCounts'
  BY <1>4 DEF ClickStatus
<1>5. ASSUME NEW s \in Changes, StatusRead(s)
      PROVE  ChangesSee' /\ LastWordCounts'
  <2>1. /\ row' = row /\ after' = after /\ change[s].at = "sent" /\ change'[s].at = "read"
        /\ change'[s].saw = row[change[s].user] /\ change'[s].user = change[s].user
        /\ change'[s].to = change[s].to
        /\ \A x \in Changes : x # s => change'[x] = change[x]
    BY <1>5 DEF StatusRead
  <2>2. after[s] = {}
    BY <2>1
  <2>3. ChangesSee'
    BY <2>1, <2>2
  <2>4. LastWordCounts'
    BY <2>1, <2>2
  <2>. QED  BY <2>3, <2>4
<1>6. ASSUME NEW s \in Changes, StatusSucceeds(s) \/ StatusErrors(s)
      PROVE  ChangesSee' /\ LastWordCounts'
  BY <1>6 DEF StatusSucceeds, StatusErrors, StatusOver
<1>. QED  BY <1>1, <1>2, <1>3, <1>4, <1>5, <1>6

LEMMA StepStatusInv == StatusInv /\ [Next]_vars => StatusInv'
<1> SUFFICES ASSUME StatusInv, [Next]_vars
             PROVE  ChangesSee' /\ LastWordCounts'
  BY StepTypeOK DEF StatusInv
<1>1. CASE UNCHANGED server
  BY <1>1 DEF server, StatusInv, ChangesSee, LastWordCounts
<1>2. CASE \E s \in Changes : StatusCommitted(s)
  BY <1>2, CommitStatusInv
<1>3. CASE \/ \E u \in Users : \/ Registered(u) \/ Elsewhere(u) \/ RemovalCommitted(u)
                               \/ \E s \in Changes : ClickStatus(s, u)
           \/ \E s \in Changes : StatusRead(s) \/ StatusSucceeds(s) \/ StatusErrors(s)
  BY <1>3, OtherStatusInv
<1>. QED
  BY <1>1, <1>2, <1>3
     DEF Next, vars, RemovalSucceeds, RemovalErrors, Select, AskAbout, Open, Leave, Refocus,
         ListServed, ListArrives, ListFails, Confirm

\* A ban or an unban holds until a rival that was not over when it began commits,
\* whether or not either of them wrote the row.
THEOREM LastWordsCount == Spec => []LastWordCounts
<1>1. StatusInv => LastWordCounts
  BY DEF StatusInv
<1>. QED  BY <1>1, InitStatusInv, StepStatusInv, PTL DEF Spec

-----------------------------------------------------------------------------
(* What the list shows.                                                    *)

\* A change of u by this tab is committed, of which the page has yet to be told.
Dirty(u) ==
    \/ removal[u] \in {"done", "partial"}
    \/ \E s \in Changes : change[s].own /\ change[s].user = u /\ change[s].at = "done"

\* With every change of u told, a list at rest and an answer on its way say of u
\* what the server would.
TrueOf(u) ==
    u \notin unheard /\ ~Dirty(u) =>
        /\ Loaded(list) /\ ~list.stale /\ list.fetch = "idle" => list.data[u] = Listed[u]
        /\ list.fetch = "served" => list.answer[u] = Listed[u]

QuietInv == TypeOK /\ \A u \in Users : TrueOf(u)

LEMMA InitQuietInv == Init => QuietInv
<1>1. Init => TypeOK
  BY InitTypeOK
<1>. QED  BY <1>1 DEF Init, QuietInv, TrueOf, Unloaded, Loaded

\* A step that tells the page of nothing and leaves u alone.
LEMMA TrueKept ==
    ASSUME TypeOK, NEW u \in Users, TrueOf(u), row'[u] = row[u],
                      u \notin unheard' => u \notin unheard, ~Dirty(u)' => ~Dirty(u),
           \/ list' = list \/ list' = Ask(list) \/ list' = Fail(list)
           \/ list.fetch = "served" /\ list' = Arrive(list)
    PROVE  TrueOf(u)'
<1>1. list \in Entries(Lists) /\ Listed'[u] = Listed[u]
  BY DEF TypeOK, Lists, Listed
<1>2. CASE list' = list
  BY <1>1, <1>2 DEF TrueOf
<1>3. CASE list' = Ask(list)
  BY <1>1, <1>2, <1>3, FetchMoves DEF FetchLaw, TrueOf
<1>4. CASE list' = Fail(list)
  BY <1>1, <1>4, FetchMoves DEF FetchLaw, TrueOf
<1>5. CASE list.fetch = "served" /\ list' = Arrive(list)
  <2>1. list'.data = list.answer
    BY <1>1, <1>5, FetchMoves DEF FetchLaw
  <2>2. list'.fetch = "idle"
    BY <1>1, <1>5, FetchMoves DEF FetchLaw
  <2>. QED  BY <1>1, <1>5, <2>1, <2>2 DEF TrueOf
<1>. QED  BY <1>2, <1>3, <1>4, <1>5

\* The page is told of a change of v, and of what else there is.
LEMMA RefetchTrue ==
    ASSUME TypeOK, NEW u \in Users, NEW v \in Users, TrueOf(u), Refetch(v), row' = row,
           u # v => (~Dirty(u)' => ~Dirty(u))
    PROVE  TrueOf(u)'
<1>1. list \in Entries(Lists) /\ mounted \in BOOLEAN
  BY DEF TypeOK, Lists
<1>2. list' = Invalidate(list, mounted)
  BY DEF Refetch
<1>3. list'.stale
  BY <1>1, <1>2, FetchMoves DEF FetchLaw
<1>4. CASE list'.fetch # "served"
  BY <1>3, <1>4 DEF TrueOf
<1>5. CASE list'.fetch = "served"
  <2>1. list.fetch = "served" /\ ~(mounted /\ Loaded(list))
    BY <1>1, <1>2, <1>5, FetchMoves DEF FetchLaw
  <2>2. unheard' = unheard \cup {v}
    BY <2>1 DEF Refetch
  <2>3. list'.answer = list.answer
    BY <1>1, <1>2, <1>5, FetchMoves DEF FetchLaw
  <2>. QED  BY <1>3, <2>1, <2>2, <2>3 DEF TrueOf, Listed
<1>. QED  BY <1>4, <1>5

LEMMA ServerTrue ==
    ASSUME TypeOK, NEW u \in Users, TrueOf(u),
           \/ \E v \in Users : Registered(v) \/ Elsewhere(v) \/ RemovalCommitted(v)
           \/ \E s \in Changes : StatusRead(s) \/ StatusCommitted(s)
    PROVE  TrueOf(u)'
<1> USE DEF page
<1>1. ASSUME NEW v \in Users, Registered(v)
      PROVE  TrueOf(u)'
  <2>1. CASE v = u
    BY <1>1, <2>1 DEF Registered, Silently, TrueOf
  <2>2. CASE v # u
    <3>1. row'[u] = row[u] /\ unheard' = unheard \cup {v} /\ list' = list /\ (~Dirty(u)' => ~Dirty(u))
      BY <1>1, <2>2 DEF Registered, Silently, TypeOK, Dirty
    <3>. QED  BY <2>2, <3>1, TrueKept
  <2>. QED  BY <2>1, <2>2
<1>2. ASSUME NEW v \in Users, Elsewhere(v)
      PROVE  TrueOf(u)'
  <2>1. CASE row' = [row EXCEPT ![v] = "gone"] /\ Silently(v) /\ change' = change
    <3>1. CASE v = u
      BY <2>1, <3>1 DEF Silently, TrueOf
    <3>2. CASE v # u
      <4>1. row'[u] = row[u] /\ unheard' = unheard \cup {v} /\ list' = list
            /\ (~Dirty(u)' => ~Dirty(u))
        BY <1>2, <2>1, <3>2 DEF Elsewhere, Silently, TypeOK, Dirty
      <4>. QED  BY <3>2, <4>1, TrueKept
    <3>. QED  BY <3>1, <3>2
  <2>2. CASE row' = row /\ unheard' = unheard
    <3>1. \A x \in Changes : change[x].at # "none" => change'[x] = change[x]
      BY <1>2, <2>2 DEF Elsewhere, TypeOK
    <3>2. list' = list /\ removal' = removal
      BY <1>2 DEF Elsewhere
    <3>3. ~Dirty(u)' => ~Dirty(u)
      BY <3>1, <3>2 DEF Dirty
    <3>. QED  BY <2>2, <3>2, <3>3, TrueKept
  <2>. QED  BY <1>2, <2>1, <2>2 DEF Elsewhere
<1>3. ASSUME NEW v \in Users, RemovalCommitted(v)
      PROVE  TrueOf(u)'
  <2>1. CASE v = u
    <3>1. removal'[u] \in {"done", "partial"}
      BY <1>3, <2>1 DEF RemovalCommitted, TypeOK
    <3>. QED  BY <3>1 DEF TrueOf, Dirty
  <2>2. CASE v # u
    <3>1. row'[u] = row[u] /\ removal'[u] = removal[u] /\ change' = change
          /\ list' = list /\ unheard' = unheard
      BY <1>3, <2>2 DEF RemovalCommitted, TypeOK
    <3>2. ~Dirty(u)' => ~Dirty(u)
      BY <3>1 DEF Dirty
    <3>. QED  BY <3>1, <3>2, TrueKept
  <2>. QED  BY <2>1, <2>2
<1>4. ASSUME NEW s \in Changes, StatusRead(s)
      PROVE  TrueOf(u)'
  <2>1. ~Dirty(u)' => ~Dirty(u)
    BY <1>4 DEF StatusRead, TypeOK, Dirty
  <2>. QED  BY <1>4, <2>1, TrueKept DEF StatusRead
<1>5. ASSUME NEW s \in Changes, StatusCommitted(s)
      PROVE  TrueOf(u)'
  <2>1. /\ \A x \in Changes : /\ change'[x].own = change[x].own /\ change'[x].user = change[x].user
                              /\ x # s => change'[x].at = change[x].at
        /\ change[s].at = "read" /\ change'[s].at = IF change[s].own THEN "done" ELSE "over"
        /\ list' = list /\ removal' = removal
        /\ change[s].user # u => row'[u] = row[u]
    BY <1>5 DEF StatusCommitted, TypeOK
  <2>2. ~Dirty(u)' => ~Dirty(u)
    BY <2>1 DEF Dirty
  <2>3. CASE change[s].user # u
    <3>1. u \notin unheard' => u \notin unheard
      BY <1>5 DEF StatusCommitted, Silently
    <3>. QED  BY <2>1, <2>2, <2>3, <3>1, TrueKept
  <2>4. CASE change[s].user = u /\ change[s].own
    BY <2>1, <2>4 DEF TrueOf, Dirty
  <2>5. CASE change[s].user = u /\ ~change[s].own
    BY <1>5, <2>5 DEF StatusCommitted, Silently, TrueOf
  <2>. QED  BY <2>3, <2>4, <2>5
<1>. QED  BY <1>1, <1>2, <1>3, <1>4, <1>5

LEMMA QueryTrue ==
    ASSUME TypeOK, NEW u \in Users, TrueOf(u),
           Open \/ Leave \/ Refocus \/ ListServed \/ ListArrives \/ ListFails
    PROVE  TrueOf(u)'
<1> USE DEF server
<1>1. CASE ListServed
  <2>1. list' = Serve(list, Listed) /\ row' = row
    BY <1>1 DEF ListServed
  <2>2. list'.fetch = "served" /\ list'.answer = Listed /\ Listed' = Listed
    BY <2>1 DEF Serve, TypeOK, Entries, Listed
  <2>. QED  BY <2>1, <2>2 DEF TrueOf
<1>2. CASE ~ListServed
  <2>1. UNCHANGED <<row, change, removal>> /\ unheard' = unheard
    BY <1>2 DEF Open, Leave, Refocus, ListArrives, ListFails
  <2>2. ~Dirty(u)' => ~Dirty(u)
    BY <2>1 DEF Dirty
  <2>3. \/ list' = list \/ list' = Ask(list) \/ list' = Fail(list)
        \/ list.fetch = "served" /\ list' = Arrive(list)
    BY <1>2 DEF Open, Leave, Refocus, ListArrives, ListFails, Asked
  <2>. QED  BY <2>1, <2>2, <2>3, TrueKept
<1>. QED  BY <1>1, <1>2

LEMMA RequestTrue ==
    ASSUME TypeOK, NEW u \in Users, TrueOf(u),
           \/ \E s \in Changes : \/ StatusSucceeds(s) \/ StatusErrors(s)
                                 \/ \E v \in Users : ClickStatus(s, v)
           \/ \E v \in Users : RemovalSucceeds(v) \/ RemovalErrors(v)
           \/ Confirm \/ \E v \in Users \cup {NoUser} : Select(v) \/ AskAbout(v)
    PROVE  TrueOf(u)'
<1> USE DEF server, dialogs
<1>1. ASSUME NEW s \in Changes, StatusOver(s), removal' = removal, change[s].user # u \/ change[s].at # "done"
      PROVE  ~Dirty(u)' => ~Dirty(u)
  <2>1. \A x \in Changes : x # s => change'[x] = change[x]
    BY <1>1 DEF StatusOver, TypeOK
  <2>. QED  BY <1>1, <2>1 DEF Dirty
<1>2. ASSUME NEW s \in Changes, StatusSucceeds(s)
      PROVE  TrueOf(u)'
  <2>1. change[s].user \in Users /\ Refetch(change[s].user) /\ row' = row /\ removal' = removal
        /\ StatusOver(s)
    BY <1>2 DEF StatusSucceeds, TypeOK
  <2>2. u # change[s].user => (~Dirty(u)' => ~Dirty(u))
    BY <1>1, <2>1
  <2>. QED  BY <2>1, <2>2, RefetchTrue
<1>3. ASSUME NEW s \in Changes, StatusErrors(s)
      PROVE  TrueOf(u)'
  <2>1. row' = row /\ removal' = removal /\ list' = list /\ StatusOver(s)
    BY <1>3 DEF StatusErrors
  <2>2. CASE change[s].user = u /\ change[s].at = "done"
    BY <1>3, <2>2 DEF StatusErrors, Silently, TrueOf
  <2>3. CASE change[s].user # u \/ change[s].at # "done"
    <3>1. u \notin unheard' => u \notin unheard
      BY <1>3 DEF StatusErrors, Silently
    <3>2. ~Dirty(u)' => ~Dirty(u)
      BY <1>1, <2>1, <2>3
    <3>. QED  BY <2>1, <3>1, <3>2, TrueKept
  <2>. QED  BY <2>2, <2>3
<1>4. ASSUME NEW s \in Changes, NEW v \in Users, ClickStatus(s, v)
      PROVE  TrueOf(u)'
  <2>1. \A x \in Changes : change[x].at # "none" => change'[x] = change[x]
    BY <1>4 DEF ClickStatus, TypeOK
  <2>2. ~Dirty(u)' => ~Dirty(u)
    BY <1>4, <2>1 DEF Dirty, ClickStatus
  <2>. QED  BY <1>4, <2>2, TrueKept DEF ClickStatus
<1>5. ASSUME NEW v \in Users, RemovalOver(v), change' = change, v # u \/ removal[v] = "sent"
      PROVE  ~Dirty(u)' => ~Dirty(u)
  BY <1>5 DEF RemovalOver, TypeOK, Dirty
<1>6. ASSUME NEW v \in Users, RemovalSucceeds(v)
      PROVE  TrueOf(u)'
  <2>1. Refetch(v) /\ RemovalOver(v) /\ row' = row /\ change' = change
    BY <1>6 DEF RemovalSucceeds
  <2>2. u # v => (~Dirty(u)' => ~Dirty(u))
    BY <1>5, <2>1
  <2>. QED  BY <2>1, <2>2, RefetchTrue
<1>7. ASSUME NEW v \in Users, RemovalErrors(v)
      PROVE  TrueOf(u)'
  <2>1. RemovalOver(v) /\ row' = row /\ change' = change /\ list' = list
    BY <1>7 DEF RemovalErrors
  <2>2. CASE v = u /\ removal[v] # "sent"
    BY <1>7, <2>2 DEF RemovalErrors, Silently, TrueOf
  <2>3. CASE v # u \/ removal[v] = "sent"
    <3>1. u \notin unheard' => u \notin unheard
      BY <1>7 DEF RemovalErrors, Silently
    <3>2. ~Dirty(u)' => ~Dirty(u)
      BY <1>5, <2>1, <2>3
    <3>. QED  BY <2>1, <3>1, <3>2, TrueKept
  <2>. QED  BY <2>2, <2>3
<1>8. CASE Confirm
  <2>1. ~Dirty(u)' => ~Dirty(u)
    BY <1>8 DEF Confirm, TypeOK, Dirty
  <2>. QED  BY <1>8, <2>1, TrueKept DEF Confirm
<1>9. ASSUME NEW v \in Users \cup {NoUser}, Select(v) \/ AskAbout(v)
      PROVE  TrueOf(u)'
  <2>1. UNCHANGED <<row, change, removal, list, unheard>>
    BY <1>9 DEF Select, AskAbout
  <2>. QED  BY <2>1 DEF TrueOf, Dirty, Listed
<1>. QED  BY <1>2, <1>3, <1>4, <1>6, <1>7, <1>8, <1>9

LEMMA StepQuietInv == QuietInv /\ [Next]_vars => QuietInv'
<1> SUFFICES ASSUME QuietInv, [Next]_vars, NEW u \in Users
             PROVE  TrueOf(u)'
  BY StepTypeOK DEF QuietInv
<1>1. TypeOK /\ TrueOf(u)
  BY DEF QuietInv
<1>2. CASE Next
  BY <1>1, <1>2, ServerTrue, QueryTrue, RequestTrue DEF Next
<1>3. CASE UNCHANGED vars
  BY <1>1, <1>3 DEF vars, server, page, TrueOf, Dirty, Listed
<1>. QED  BY <1>2, <1>3

\* A list that is fresh, with no request of this tab under way, is the server's
\* for every account with no change of which the page was not told.
THEOREM QuietListsAreTrue == Spec => []QuietListIsTrue
<1>1. QuietInv => QuietListIsTrue
  <2> SUFFICES ASSUME QuietInv, NEW u \in Users \ unheard, Quiet(u)
               PROVE  Shown(u) = Listed[u]
    BY DEF QuietListIsTrue
  <2>1. ~Dirty(u)
    BY DEF Quiet, Dirty, QuietInv, TypeOK
  <2>. QED  BY <2>1 DEF QuietInv, TrueOf, Quiet, Shown, Fetching
<1>. QED  BY <1>1, InitQuietInv, StepQuietInv, PTL DEF Spec
=============================================================================
