------------------------- MODULE ChatThreadsProofs -------------------------
(***************************************************************************)
(* Theorems about ChatThreads that hold for every choice of its constants. *)
(***************************************************************************)
EXTENDS ChatThreads, QueryCacheLaws, TLAPS

-----------------------------------------------------------------------------
(* The laws of the query cache that are used below.                        *)

LEMMA EntriesClosed ==
    ASSUME NEW Data
    PROVE  EntryLaw(Data)
<1>1. Unloaded \in Entries(Data)
  BY DEF Entries, Unloaded
<1>2. ASSUME NEW e \in Entries(Data)
      PROVE  /\ Ask(e) \in Entries(Data) /\ Arrive(e) \in Entries(Data) /\ Fail(e) \in Entries(Data)
             /\ \A b \in BOOLEAN : Invalidate(e, b) \in Entries(Data)
             /\ \A v \in Data : Serve(e, v) \in Entries(Data) /\ Write(e, v) \in Entries(Data)
             /\ Loaded(e) => e.data \in Data
  BY DEF Entries, Ask, Arrive, Fail, Invalidate, AskAgain, Serve, Write, Fetching, Loaded
<1>. QED  BY <1>1, <1>2 DEF EntryLaw

LEMMA FetchMoves ==
    ASSUME NEW Data
    PROVE  FetchLaw(Data)
BY DEF FetchLaw, Entries, Ask, Arrive, Fail, Invalidate, AskAgain, Fetching, Loaded

LEMMA TrueStays ==
    ASSUME NEW Data
    PROVE  TrueStaysLaw(Data)
BY FetchMoves DEF FetchLaw, TrueStaysLaw, IsTrue

LEMMA TrueAgain ==
    ASSUME NEW Data
    PROVE  TrueAgainLaw(Data)
BY FetchMoves DEF FetchLaw, TrueAgainLaw, IsTrue, Serve, Entries

Lists == Entries(SUBSET Threads)
Steps == {"none", "sent", "done", "over"}

-----------------------------------------------------------------------------
(* What the operators of the page give.                                    *)

LEMMA ListClosed ==
    ASSUME NEW e \in Lists, NEW b \in BOOLEAN, NEW d \in SUBSET Threads
    PROVE  /\ Ask(e) \in Lists /\ Arrive(e) \in Lists /\ Fail(e) \in Lists
           /\ Invalidate(e, b) \in Lists /\ Serve(e, d) \in Lists
BY EntriesClosed DEF EntryLaw, Lists

LEMMA ListData ==
    ASSUME NEW e \in Lists, NEW b \in BOOLEAN, NEW d \in SUBSET Threads
    PROVE  /\ Ask(e).data = e.data /\ Ask(e).answer = e.answer
           /\ Fail(e).data = e.data /\ Fail(e).answer = NoData
           /\ Arrive(e).data = e.answer /\ Arrive(e).answer = NoData
           /\ Invalidate(e, b).data = e.data /\ Invalidate(e, b).answer \in {e.answer, NoData}
           /\ Serve(e, d).data = e.data /\ Serve(e, d).answer = d
BY DEF Lists, Entries, Ask, Arrive, Fail, Invalidate, AskAgain, Serve, Fetching, Loaded

LEMMA MountedList ==
    ASSUME NEW e \in Lists, NEW x \in Mount(e)
    PROVE  x \in Lists /\ x.data = e.data /\ x.answer = e.answer
<1>1. x \in {e, Ask(e)}
  BY DEF Mount
<1>. QED  BY <1>1, ListClosed, ListData

\* Thread a is what a page for p may have on screen beside the list in e.
Fits(e, p, a) ==
    Loaded(e) => a \in IF OfPage(e.data, p) = {} THEN {NoThread} ELSE OfPage(e.data, p)

LEMMA PinnedFits ==
    ASSUME NEW e \in Lists, NEW p, NEW a \in Threads \cup {NoThread}, NEW b \in Pinned(e, p, a)
    PROVE  b \in Threads \cup {NoThread} /\ Fits(e, p, b)
<1>1. CASE ~Loaded(e)
  BY <1>1 DEF Pinned, Fits
<1>2. CASE Loaded(e)
  <2>1. OfPage(e.data, p) \subseteq Threads
    BY <1>2, EntriesClosed DEF EntryLaw, OfPage, Lists
  <2>. QED  BY <1>2, <2>1 DEF Pinned, Fits
<1>. QED  BY <1>1, <1>2

\* A new request takes a name that nothing has had.
LEMMA CreateKeeps ==
    ASSUME TypeOK, NEW p \in Scopes, Create(p)
    PROVE  /\ create' \in [Threads -> Steps] /\ scope' \in [Threads -> Scopes]
           /\ mine' \subseteq {"create", "delete"} \X Threads
           /\ creating' \in Threads \cup {NoThread}
           /\ creating' # NoThread => create'[creating'] \in {"sent", "done"}
           /\ \A c \in Threads \ Unused : create'[c] = create[c] /\ scope'[c] = scope[c]
<1>1. CASE Unused = {}
  BY <1>1 DEF Create, TypeOK, Steps
<1>2. CASE Unused # {}
  <2> DEFINE c == CHOOSE x \in Unused : TRUE
  <2>1. c \in Unused /\ c \in Threads
    BY <1>2 DEF Unused
  <2>2. /\ create' = [create EXCEPT ![c] = "sent"]
        /\ scope' = [scope EXCEPT ![c] = p]
        /\ mine' = mine \cup {<<"create", c>>}
        /\ creating' = c
    BY <1>2 DEF Create
  <2> HIDE DEF c
  <2>. QED  BY <2>1, <2>2, ThreadAssumption DEF TypeOK, Steps
<1>. QED  BY <1>1, <1>2

\* The same of the effect, which need not make one.
LEMMA AutoCreateKeeps ==
    ASSUME TypeOK, NEW e, NEW p \in Scopes, NEW done \in BOOLEAN, AutoCreate(e, p, done)
    PROVE  /\ auto' \in BOOLEAN /\ spent' \in BOOLEAN
           /\ create' \in [Threads -> Steps] /\ scope' \in [Threads -> Scopes]
           /\ mine' \subseteq {"create", "delete"} \X Threads
           /\ creating' \in Threads \cup {NoThread}
           /\ creating' # NoThread => create'[creating'] \in {"sent", "done"}
           /\ \A c \in Threads \ Unused : create'[c] = create[c] /\ scope'[c] = scope[c]
<1>1. CASE MustCreate(e, p, done)
  <2>1. spent \in BOOLEAN /\ spent' = (spent \/ Unused = {}) /\ auto' = TRUE /\ Create(p)
    BY <1>1 DEF AutoCreate, TypeOK
  <2>. QED  BY <2>1, CreateKeeps
<1>2. CASE ~MustCreate(e, p, done)
  BY <1>2 DEF AutoCreate, TypeOK, Steps
<1>. QED  BY <1>1, <1>2

-----------------------------------------------------------------------------
(* Type correctness.                                                       *)

LEMMA InitTypeOK == Init => TypeOK
<1>1. Unloaded \in Entries(SUBSET Threads)
  BY EntriesClosed DEF EntryLaw
<1>. QED  BY <1>1 DEF Init, TypeOK, Scopes

LEMMA ServerTypeOK ==
    ASSUME TypeOK,
           \/ DocumentRemoved \/ ListServed
           \/ \E c \in Threads : CreateCommitted(c) \/ DeleteCommitted(c)
    PROVE  TypeOK'
<1> USE DEF TypeOK, rows, view
<1>1. CASE DocumentRemoved
  BY <1>1 DEF DocumentRemoved
<1>2. CASE ListServed
  <2>1. convs' \in Lists
    BY <1>2, EntriesClosed DEF EntryLaw, ListServed, Lists
  <2>. QED  BY <1>2, <2>1 DEF ListServed, Lists
<1>3. ASSUME NEW c \in Threads, CreateCommitted(c)
      PROVE  TypeOK'
  BY <1>3 DEF CreateCommitted
<1>4. ASSUME NEW c \in Threads, DeleteCommitted(c)
      PROVE  TypeOK'
  BY <1>4 DEF DeleteCommitted
<1>. QED  BY <1>1, <1>2, <1>3, <1>4

LEMMA PageTypeOK ==
    ASSUME TypeOK,
           \/ \E p \in Scopes : Open(p)
           \/ Leave \/ PinLost \/ Refocus \/ NewConversation \/ TurnEnds
           \/ ListArrives \/ ListFails \/ \E c \in Threads : Select(c)
    PROVE  TypeOK'
<1> USE DEF TypeOK, rows, view
<1>0. convs \in Lists /\ Mounted \in BOOLEAN /\ NoThread \in Threads \cup {NoThread}
  BY DEF Lists, Mounted
<1>1. ASSUME NEW p \in Scopes, Open(p)
      PROVE  TypeOK'
  <2>1. convs' \in Lists /\ AutoCreate(convs', p, FALSE) /\ active' \in Pinned(convs', p, NoThread)
    BY <1>0, <1>1, MountedList DEF Open
  <2>2. active' \in Threads \cup {NoThread}
    BY <1>0, <2>1, PinnedFits
  <2>. QED  BY <1>1, <2>1, <2>2, AutoCreateKeeps DEF Open, Lists, Steps
<1>2. CASE Leave
  BY <1>2 DEF Leave
<1>3. CASE PinLost
  <2>1. active' \in Threads \cup {NoThread}
    BY <1>0, <1>3, PinnedFits DEF PinLost
  <2>. QED  BY <1>3, <2>1 DEF PinLost, Scopes
<1>4. CASE Refocus
  BY <1>0, <1>4, MountedList DEF Refocus, Lists
<1>5. CASE NewConversation
  <2>1. page \in Scopes /\ Create(page)
    BY <1>5 DEF NewConversation, Mounted
  <2>. QED  BY <1>5, <2>1, CreateKeeps DEF NewConversation, Steps
<1>6. CASE TurnEnds
  <2>1. convs' \in Lists /\ unheard' \in BOOLEAN
    BY <1>0, <1>6, ListClosed DEF TurnEnds, Refetch
  <2>. QED  BY <1>6, <2>1 DEF TurnEnds, Lists
<1>7. ASSUME NEW e \in Lists, ListChanges(e)
      PROVE  TypeOK'
  <2>1. CASE ~Mounted
    BY <1>7, <2>1 DEF ListChanges, Lists
  <2>2. CASE Mounted
    <3>1. page \in Scopes /\ AutoCreate(e, page, auto) /\ active' \in Pinned(e, page, active)
      BY <1>7, <2>2 DEF ListChanges, Mounted
    <3>2. active' \in Threads \cup {NoThread}
      BY <1>7, <3>1, PinnedFits
    <3>3. /\ auto' \in BOOLEAN
          /\ create' \in [Threads -> Steps] /\ scope' \in [Threads -> Scopes]
          /\ spent' \in BOOLEAN
          /\ mine' \subseteq {"create", "delete"} \X Threads
          /\ creating' \in Threads \cup {NoThread}
          /\ creating' # NoThread => create'[creating'] \in {"sent", "done"}
      <4>1. auto \in BOOLEAN
        OBVIOUS
      <4>. HIDE DEF TypeOK
      <4>. QED  BY <3>1, <4>1, AutoCreateKeeps
    <3>. QED  BY <1>7, <2>2, <3>2, <3>3 DEF ListChanges, Lists, Steps
  <2>. QED  BY <2>1, <2>2
<1>8. ASSUME ListArrives \/ ListFails
      PROVE  TypeOK'
  BY <1>0, <1>7, <1>8, EntriesClosed DEF EntryLaw, ListArrives, ListFails, Lists
<1>9. ASSUME NEW c \in Threads, Select(c)
      PROVE  TypeOK'
  BY <1>9 DEF Select
<1>. QED  BY <1>1, <1>2, <1>3, <1>4, <1>5, <1>6, <1>8, <1>9

LEMMA RequestTypeOK ==
    ASSUME TypeOK, NEW c \in Threads,
           \/ CreateSucceeds(c) \/ CreateErrors(c) \/ CreateLost(c) \/ ClickDelete(c)
           \/ DeleteSucceeds(c) \/ DeleteRefused(c) \/ DeleteLost(c)
    PROVE  TypeOK'
<1> USE DEF TypeOK, rows, view
<1>0. /\ convs \in Lists /\ c \in Threads \cup {NoThread} /\ NoThread \in Threads \cup {NoThread}
      /\ Invalidate(convs, Mounted) \in Lists
  BY EntriesClosed DEF EntryLaw, Lists, Mounted
<1>1. ASSUME Refetch
      PROVE  convs' \in Lists /\ unheard' \in BOOLEAN
  BY <1>0, <1>1 DEF Refetch
<1>2. ASSUME CreateOver(c)
      PROVE  /\ create' \in [Threads -> Steps]
             /\ mine' \subseteq {"create", "delete"} \X Threads
             /\ creating' \in Threads \cup {NoThread}
             /\ creating' # NoThread => create'[creating'] \in {"sent", "done"}
  BY <1>2 DEF CreateOver, Steps
<1>3. CASE CreateSucceeds(c)
  <2>1. convs' \in Lists /\ unheard' \in BOOLEAN /\ CreateOver(c)
    BY <1>1, <1>3 DEF CreateSucceeds
  <2>2. active' \in Threads \cup {NoThread}
    BY <1>0, <1>3, <2>1, PinnedFits DEF CreateSucceeds
  <2>. QED  BY <1>2, <1>3, <2>1, <2>2 DEF CreateSucceeds, Lists, Steps
<1>4. CASE CreateErrors(c) \/ CreateLost(c)
  <2>1. CreateOver(c) /\ spent' \in BOOLEAN /\ unheard' \in BOOLEAN
    BY <1>4 DEF CreateErrors, CreateLost, Spend
  <2>. QED  BY <1>2, <1>4, <2>1 DEF CreateErrors, CreateLost, Steps
<1>5. CASE ClickDelete(c)
  BY <1>5 DEF ClickDelete
<1>6. CASE DeleteSucceeds(c)
  <2>1. convs' \in Lists /\ unheard' \in BOOLEAN
    BY <1>1, <1>6 DEF DeleteSucceeds
  <2>2. active' \in Threads \cup {NoThread}
    BY <1>0, <1>6, <2>1, PinnedFits DEF DeleteSucceeds
  <2>. QED  BY <1>6, <2>1, <2>2 DEF DeleteSucceeds, DeleteOver, Lists
<1>7. CASE DeleteRefused(c) \/ DeleteLost(c)
  BY <1>7 DEF DeleteRefused, DeleteLost, DeleteOver
<1>. QED  BY <1>3, <1>4, <1>5, <1>6, <1>7

LEMMA StepTypeOK == TypeOK /\ [Next]_vars => TypeOK'
<1> SUFFICES ASSUME TypeOK, [Next]_vars
             PROVE  TypeOK'
  OBVIOUS
<1>1. CASE Next
  BY <1>1, ServerTypeOK, PageTypeOK, RequestTypeOK DEF Next
<1>2. CASE UNCHANGED vars
  BY <1>2 DEF vars, rows, view, TypeOK
<1>. QED  BY <1>1, <1>2

\* The variables keep to their ranges and "New" waits only for a request that
\* has yet to be answered.
THEOREM TypeCorrect == Spec => []TypeOK
BY InitTypeOK, StepTypeOK, PTL DEF Spec

-----------------------------------------------------------------------------
(* The thread on screen.                                                   *)

\* A name that is not in use yet is in no list.
UnusedAreNew ==
    /\ live \cap Unused = {}
    /\ \A D \in {convs.data, convs.answer} : D # NoData => D \cap Unused = {}

ActiveInv == TypeOK /\ UnusedAreNew /\ ActiveIsOfPage

\* What a step may do to names, rows and the list.
Moves ==
    /\ Unused' \subseteq Unused
    /\ \A c \in Threads \ Unused : scope'[c] = scope[c]
    /\ live' \cap Unused' \subseteq live
    /\ convs'.data \in {convs.data, convs.answer}
    /\ convs'.answer \in {convs.answer, NoData, live}

\* The thread on screen fits the new list, by the threads' present scopes.
Turns == page' = "away" \/ Fits(convs', page', active')

LEMMA InitActiveInv == Init => ActiveInv
<1>1. Init => TypeOK
  BY InitTypeOK
<1>2. Init => UnusedAreNew
  BY DEF Init, UnusedAreNew, Unloaded
<1>. QED  BY <1>1, <1>2 DEF Init, ActiveInv, ActiveIsOfPage, Mounted

LEMMA MovesKeepNew ==
    ASSUME UnusedAreNew, Moves
    PROVE  UnusedAreNew'
<1>1. (live \cap Unused)' = {}
  BY DEF UnusedAreNew, Moves
<1>2. \A D \in {convs'.data, convs'.answer} : D # NoData => D \cap Unused' = {}
  BY DEF UnusedAreNew, Moves
<1>. QED  BY <1>1, <1>2 DEF UnusedAreNew

LEMMA MovesKeepActive ==
    ASSUME UnusedAreNew, Moves, Turns, convs' \in Lists
    PROVE  ActiveIsOfPage'
<1> SUFFICES ASSUME page' # "away", Loaded(convs')
             PROVE  active' \in IF Visible' = {} THEN {NoThread} ELSE Visible'
  BY DEF ActiveIsOfPage, Mounted
<1>1. convs'.data \subseteq Threads /\ convs'.data \cap Unused = {}
  BY EntriesClosed DEF EntryLaw, Lists, UnusedAreNew, Moves, Loaded
<1>2. Visible' = OfPage(convs'.data, page')
  BY <1>1 DEF Moves, Visible, OfPage
<1>. QED  BY <1>2 DEF Turns, Fits

LEMMA ServerMoves ==
    ASSUME ActiveInv,
           \/ DocumentRemoved \/ ListServed
           \/ \E c \in Threads : CreateCommitted(c) \/ DeleteCommitted(c)
    PROVE  Moves /\ Turns
<1> USE DEF rows, view
<1>0. /\ TypeOK /\ ActiveIsOfPage /\ convs \in Lists /\ live \in SUBSET Threads
      /\ page # "away" => Fits(convs, page, active)
  BY DEF ActiveInv, ActiveIsOfPage, Mounted, TypeOK, Lists, Fits, Visible
<1>1. CASE DocumentRemoved
  BY <1>0, <1>1 DEF DocumentRemoved, Moves, Turns, Unused
<1>2. CASE ListServed
  <2>1. convs' = Serve(convs, live) /\ convs'.data = convs.data /\ convs'.answer = live
    BY <1>0, <1>2, ListData DEF ListServed
  <2>. QED  BY <1>0, <1>2, <2>1 DEF ListServed, Moves, Turns, Unused, Fits, Loaded, OfPage
<1>3. ASSUME NEW c \in Threads, CreateCommitted(c)
      PROVE  Moves /\ Turns
  BY <1>0, <1>3 DEF CreateCommitted, Moves, Turns, Unused, TypeOK
<1>4. ASSUME NEW c \in Threads, DeleteCommitted(c)
      PROVE  Moves /\ Turns
  BY <1>0, <1>4 DEF DeleteCommitted, Moves, Turns, Unused
<1>. QED  BY <1>1, <1>2, <1>3, <1>4

LEMMA PageMoves ==
    ASSUME ActiveInv,
           \/ \E p \in Scopes : Open(p)
           \/ Leave \/ PinLost \/ Refocus \/ NewConversation \/ TurnEnds
           \/ ListArrives \/ ListFails \/ \E c \in Threads : Select(c)
    PROVE  Moves /\ Turns
<1> USE DEF rows, view
<1>0. /\ TypeOK /\ convs \in Lists /\ live \in SUBSET Threads /\ Mounted \in BOOLEAN
      /\ active \in Threads \cup {NoThread} /\ auto \in BOOLEAN
      /\ page # "away" => Fits(convs, page, active)
  BY DEF ActiveInv, ActiveIsOfPage, Mounted, TypeOK, Lists, Fits, Visible
<1>1. ASSUME \A c \in Threads \ Unused : create'[c] = create[c] /\ scope'[c] = scope[c],
             live' = live,
             convs'.data \in {convs.data, convs.answer}, convs'.answer \in {convs.answer, NoData}
      PROVE  Moves
  <2>1. Unused' \subseteq Unused
    BY <1>1 DEF Unused
  <2>. QED  BY <1>1, <2>1 DEF Moves
<1>2. ASSUME NEW e, e.data = convs.data, Fits(convs, page, active)
      PROVE  Fits(e, page, active)
  BY <1>2 DEF Fits, Loaded
<1>3. ASSUME NEW p \in Scopes, Open(p)
      PROVE  Moves /\ Turns
  <2>1. /\ convs' \in Lists /\ convs'.data = convs.data /\ convs'.answer = convs.answer
        /\ page' = p /\ live' = live
    BY <1>0, <1>3, MountedList DEF Open
  <2>2. active' \in Pinned(convs', p, NoThread) /\ AutoCreate(convs', p, FALSE)
    BY <1>3 DEF Open
  <2>3. \A c \in Threads \ Unused : create'[c] = create[c] /\ scope'[c] = scope[c]
    BY <1>0, <2>2, AutoCreateKeeps
  <2>4. Fits(convs', p, active')
    BY <2>1, <2>2, PinnedFits
  <2>. QED  BY <1>1, <2>1, <2>3, <2>4 DEF Turns
<1>4. CASE Leave
  BY <1>0, <1>1, <1>4 DEF Leave, Turns
<1>5. CASE PinLost
  <2>1. page' = "general" /\ convs' = convs /\ Fits(convs, "general", active')
    BY <1>0, <1>5, PinnedFits DEF PinLost
  <2>. QED  BY <1>1, <1>5, <2>1 DEF PinLost, Turns
<1>6. CASE Refocus
  <2>1. convs'.data = convs.data /\ convs'.answer = convs.answer
    BY <1>0, <1>6, MountedList DEF Refocus
  <2>. QED  BY <1>0, <1>1, <1>2, <1>6, <2>1 DEF Refocus, Turns
<1>7. CASE NewConversation
  <2>1. \A c \in Threads \ Unused : create'[c] = create[c] /\ scope'[c] = scope[c]
    BY <1>0, <1>7, CreateKeeps DEF NewConversation, Mounted, TypeOK
  <2>. QED  BY <1>0, <1>1, <1>7, <2>1 DEF NewConversation, Turns
<1>8. CASE TurnEnds
  <2>1. convs'.data = convs.data /\ convs'.answer \in {convs.answer, NoData}
    BY <1>0, <1>8, ListData DEF TurnEnds, Refetch
  <2>. QED  BY <1>0, <1>1, <1>2, <1>8, <2>1 DEF TurnEnds, Turns
<1>9. ASSUME NEW e \in Lists, ListChanges(e), e.data \in {convs.data, convs.answer}, e.answer = NoData
      PROVE  Moves /\ Turns
  <2>1. convs' = e /\ page' = page /\ live' = live
    BY <1>9 DEF ListChanges
  <2>2. CASE ~Mounted
    BY <1>1, <1>9, <2>1, <2>2 DEF ListChanges, Turns, Mounted
  <2>3. CASE Mounted
    <3>1. page \in Scopes /\ AutoCreate(e, page, auto) /\ active' \in Pinned(e, page, active)
      BY <1>0, <1>9, <2>3 DEF ListChanges, Mounted, TypeOK
    <3>2. \A c \in Threads \ Unused : create'[c] = create[c] /\ scope'[c] = scope[c]
      BY <1>0, <3>1, AutoCreateKeeps
    <3>3. Fits(e, page, active')
      BY <1>0, <1>9, <3>1, PinnedFits
    <3>. QED  BY <1>1, <1>9, <2>1, <3>2, <3>3 DEF Turns
  <2>. QED  BY <2>2, <2>3
<1>10. CASE ListArrives
  <2>1. Arrive(convs) \in Lists /\ Arrive(convs).data = convs.answer /\ Arrive(convs).answer = NoData
    BY <1>0, ListClosed, ListData
  <2>. QED  BY <1>9, <1>10, <2>1 DEF ListArrives
<1>11. CASE ListFails
  <2>1. Fail(convs) \in Lists /\ Fail(convs).data = convs.data /\ Fail(convs).answer = NoData
    BY <1>0, ListClosed, ListData
  <2>. QED  BY <1>9, <1>11, <2>1 DEF ListFails
<1>12. ASSUME NEW c \in Threads, Select(c)
       PROVE  Moves /\ Turns
  <2>1. Fits(convs, page, c)
    BY <1>12 DEF Select, Visible, Fits
  <2>. QED  BY <1>1, <1>12, <2>1 DEF Select, Turns
<1>. QED  BY <1>3, <1>4, <1>5, <1>6, <1>7, <1>8, <1>10, <1>11, <1>12

LEMMA RequestMoves ==
    ASSUME ActiveInv, NEW c \in Threads,
           \/ CreateSucceeds(c) \/ CreateErrors(c) \/ CreateLost(c) \/ ClickDelete(c)
           \/ DeleteSucceeds(c) \/ DeleteRefused(c) \/ DeleteLost(c)
    PROVE  Moves /\ Turns
<1> USE DEF rows, view
<1>0. /\ TypeOK /\ convs \in Lists /\ live \in SUBSET Threads /\ Mounted \in BOOLEAN
      /\ page # "away" => Fits(convs, page, active)
  BY DEF ActiveInv, ActiveIsOfPage, Mounted, TypeOK, Lists, Fits, Visible
<1>1. ASSUME Unused' \subseteq Unused, scope' = scope, live' = live, Refetch
      PROVE  Moves
  BY <1>0, <1>1, ListData DEF Moves, Refetch
<1>2. ASSUME Refetch, page' = page,
             \/ active' = active
             \/ \E a \in Threads \cup {NoThread} : active' \in Pinned(convs', page, a)
      PROVE  Turns
  <2>1. convs' \in Lists /\ convs'.data = convs.data
    BY <1>0, <1>2, ListClosed, ListData DEF Refetch
  <2>2. CASE active' = active
    BY <1>0, <1>2, <2>1, <2>2 DEF Turns, Fits, Loaded
  <2>3. ASSUME NEW a \in Threads \cup {NoThread}, active' \in Pinned(convs', page, a)
        PROVE  Turns
    BY <1>2, <2>1, <2>3, PinnedFits DEF Turns
  <2>. QED  BY <1>2, <2>2, <2>3
<1>3. CASE CreateSucceeds(c)
  <2>1. Refetch /\ page' = page /\ scope' = scope /\ live' = live /\ Unused' \subseteq Unused
    BY <1>0, <1>3 DEF CreateSucceeds, CreateOver, Unused, TypeOK
  <2>2. active' = active \/ active' \in Pinned(convs', page, c)
    BY <1>3 DEF CreateSucceeds
  <2>. QED  BY <1>1, <1>2, <2>1, <2>2
<1>4. CASE CreateErrors(c) \/ CreateLost(c)
  <2>1. Unused' \subseteq Unused
    BY <1>0, <1>4 DEF CreateErrors, CreateFailure, CreateLost, CreateOver, Unused, TypeOK
  <2>. QED  BY <1>0, <1>4, <2>1 DEF CreateErrors, CreateLost, Moves, Turns
<1>5. CASE ClickDelete(c)
  BY <1>0, <1>5 DEF ClickDelete, Moves, Turns, Unused
<1>6. CASE DeleteSucceeds(c)
  <2>1. Refetch /\ page' = page /\ scope' = scope /\ live' = live /\ Unused' \subseteq Unused
    BY <1>6 DEF DeleteSucceeds, Unused
  <2>2. active' = active \/ active' \in Pinned(convs', page, NoThread)
    BY <1>6 DEF DeleteSucceeds
  <2>. QED  BY <1>1, <1>2, <2>1, <2>2
<1>7. CASE DeleteRefused(c) \/ DeleteLost(c)
  BY <1>0, <1>7 DEF DeleteRefused, DeleteLost, Moves, Turns, Unused
<1>. QED  BY <1>3, <1>4, <1>5, <1>6, <1>7

LEMMA StepActiveInv == ActiveInv /\ [Next]_vars => ActiveInv'
<1> SUFFICES ASSUME ActiveInv, [Next]_vars
             PROVE  ActiveInv'
  OBVIOUS
<1>1. TypeOK'
  BY StepTypeOK DEF ActiveInv
<1>2. convs' \in Lists
  BY <1>1 DEF TypeOK, Lists
<1>3. CASE Next
  <2>1. Moves /\ Turns
    BY <1>3, ServerMoves, PageMoves, RequestMoves DEF Next
  <2>. QED  BY <1>1, <1>2, <2>1, MovesKeepNew, MovesKeepActive DEF ActiveInv
<1>4. CASE UNCHANGED vars
  <2>1. UnusedAreNew' /\ ActiveIsOfPage'
    BY <1>4 DEF ActiveInv, UnusedAreNew, ActiveIsOfPage, Unused, Visible, Mounted, OfPage,
                vars, rows, view
  <2>. QED  BY <1>1, <2>1 DEF ActiveInv
<1>. QED  BY <1>3, <1>4

\* The thread on screen is always one of the pinned document, or a general one
\* when none is pinned, and there is one if the list has one.
THEOREM ActiveOfPage == Spec => []ActiveIsOfPage
<1>1. ActiveInv => ActiveIsOfPage
  BY DEF ActiveInv
<1>. QED  BY <1>1, InitActiveInv, StepActiveInv, PTL DEF Spec

-----------------------------------------------------------------------------
(* What the list shows.                                                    *)

\* A change is committed of which the page has yet to be told.
Dirty == \E c \in Threads : create[c] = "done" \/ delete[c] = "done"

\* With every change told, a list at rest and an answer on its way are the
\* server's.
QuietInv ==
    /\ TypeOK
    /\ ~unheard /\ ~Dirty => IsTrue(convs, live)

LEMMA InitQuietInv == Init => QuietInv
<1>1. Init => TypeOK
  BY InitTypeOK
<1>. QED  BY <1>1 DEF Init, QuietInv, IsTrue, Unloaded, Loaded

\* A step that commits nothing and tells the page of nothing.
LEMMA QuietKept ==
    ASSUME QuietInv, TypeOK', live' = live, unheard' = unheard, ~Dirty' => ~Dirty,
           \/ convs' = convs \/ convs' = Ask(convs) \/ convs' = Fail(convs)
           \/ convs.fetch = "served" /\ convs' = Arrive(convs)
    PROVE  QuietInv'
<1>1. convs \in Lists
  BY DEF QuietInv, TypeOK, Lists
<1>2. IsTrue(convs, live) => IsTrue(convs', live)
  BY <1>1, TrueStays DEF TrueStaysLaw, Lists
<1>. QED  BY <1>2 DEF QuietInv

\* The page is told.
LEMMA RefetchQuiet ==
    ASSUME QuietInv, TypeOK', Refetch
    PROVE  QuietInv'
<1>1. convs \in Lists /\ Mounted \in BOOLEAN
  BY DEF QuietInv, TypeOK, Lists, Mounted
<1>2. /\ convs' = Invalidate(convs, Mounted)
      /\ unheard' = (unheard \/ (convs.fetch = "served" /\ ~(Mounted /\ Loaded(convs))))
  BY DEF Refetch
<1>3. CASE convs.fetch = "served" /\ ~(Mounted /\ Loaded(convs))
  BY <1>2, <1>3 DEF QuietInv
<1>4. CASE convs.fetch # "served" \/ (Mounted /\ Loaded(convs))
  <2>1. IsTrue(convs', live')
    BY <1>1, <1>2, <1>4, TrueAgain DEF TrueAgainLaw, Lists
  <2>. QED  BY <2>1 DEF QuietInv
<1>. QED  BY <1>3, <1>4

LEMMA ServerQuiet ==
    ASSUME QuietInv, TypeOK',
           \/ DocumentRemoved \/ ListServed
           \/ \E c \in Threads : CreateCommitted(c) \/ DeleteCommitted(c)
    PROVE  QuietInv'
<1> USE DEF rows, view
<1>0. TypeOK /\ convs \in Lists /\ live \in SUBSET Threads
  BY DEF QuietInv, TypeOK, Lists
<1>1. CASE DocumentRemoved
  BY <1>1 DEF DocumentRemoved, QuietInv
<1>2. CASE ListServed
  <2>1. convs' = Serve(convs, live) /\ live' = live
    BY <1>2 DEF ListServed
  <2>2. IsTrue(convs', live)
    BY <1>0, <2>1, TrueAgain DEF TrueAgainLaw, Lists
  <2>. QED  BY <2>1, <2>2 DEF QuietInv
<1>3. ASSUME NEW c \in Threads, CreateCommitted(c) \/ DeleteCommitted(c)
      PROVE  QuietInv'
  <2>1. create'[c] = "done" \/ delete'[c] = "done"
    BY <1>0, <1>3 DEF CreateCommitted, DeleteCommitted, TypeOK
  <2>. QED  BY <2>1 DEF QuietInv, Dirty
<1>. QED  BY <1>1, <1>2, <1>3

LEMMA PageQuiet ==
    ASSUME QuietInv, TypeOK',
           \/ \E p \in Scopes : Open(p)
           \/ Leave \/ PinLost \/ Refocus \/ NewConversation \/ TurnEnds
           \/ ListArrives \/ ListFails \/ \E c \in Threads : Select(c)
    PROVE  QuietInv'
<1> USE DEF rows, view
<1>0. TypeOK /\ auto \in BOOLEAN
  BY DEF QuietInv, TypeOK
<1>1. ASSUME delete' = delete,
             \A c \in Threads \ Unused : create'[c] = create[c]
      PROVE  ~Dirty' => ~Dirty
  BY <1>1 DEF Dirty, Unused
<1>2. ASSUME NEW p \in Scopes, Open(p)
      PROVE  QuietInv'
  <2>1. \A c \in Threads \ Unused : create'[c] = create[c]
    BY <1>0, <1>2, AutoCreateKeeps DEF Open
  <2>. QED  BY <1>1, <1>2, <2>1, QuietKept DEF Open, Mount
<1>3. CASE Leave \/ PinLost \/ Refocus
  BY <1>1, <1>3, QuietKept DEF Leave, PinLost, Refocus, Mount
<1>4. CASE NewConversation
  <2>1. \A c \in Threads \ Unused : create'[c] = create[c]
    BY <1>0, <1>4, CreateKeeps DEF NewConversation, Mounted, TypeOK
  <2>. QED  BY <1>1, <1>4, <2>1, QuietKept DEF NewConversation
<1>5. CASE TurnEnds
  BY <1>5, RefetchQuiet DEF TurnEnds
<1>6. ASSUME NEW e, ListChanges(e)
      PROVE  live' = live /\ unheard' = unheard /\ (~Dirty' => ~Dirty) /\ convs' = e
  <2>1. \A c \in Threads \ Unused : create'[c] = create[c]
    <3>1. CASE Mounted
      <4>1. page \in Scopes /\ AutoCreate(e, page, auto)
        BY <1>0, <1>6, <3>1 DEF ListChanges, Mounted, TypeOK
      <4>. QED  BY <1>0, <4>1, AutoCreateKeeps
    <3>2. CASE ~Mounted
      BY <1>6, <3>2 DEF ListChanges
    <3>. QED  BY <3>1, <3>2
  <2>. QED  BY <1>1, <1>6, <2>1 DEF ListChanges
<1>7. CASE ListArrives \/ ListFails
  BY <1>6, <1>7, QuietKept DEF ListArrives, ListFails
<1>8. ASSUME NEW c \in Threads, Select(c)
      PROVE  QuietInv'
  BY <1>1, <1>8, QuietKept DEF Select
<1>. QED  BY <1>2, <1>3, <1>4, <1>5, <1>7, <1>8

LEMMA RequestQuiet ==
    ASSUME QuietInv, TypeOK', NEW c \in Threads,
           \/ CreateSucceeds(c) \/ CreateErrors(c) \/ CreateLost(c) \/ ClickDelete(c)
           \/ DeleteSucceeds(c) \/ DeleteRefused(c) \/ DeleteLost(c)
    PROVE  QuietInv'
<1> USE DEF rows, view
<1>1. CASE CreateSucceeds(c) \/ DeleteSucceeds(c)
  BY <1>1, RefetchQuiet DEF CreateSucceeds, DeleteSucceeds
<1>2. CASE CreateErrors(c) \/ ClickDelete(c) \/ DeleteRefused(c)
  <2>1. ~Dirty' => ~Dirty
    BY <1>2 DEF CreateErrors, CreateFailure, CreateOver, ClickDelete, DeleteRefused, DeleteOver,
                Dirty, QuietInv, TypeOK
  <2>. QED  BY <1>2, <2>1, QuietKept DEF CreateErrors, ClickDelete, DeleteRefused
<1>3. CASE CreateLost(c) \/ DeleteLost(c)
  BY <1>3 DEF CreateLost, DeleteLost, QuietInv
<1>. QED  BY <1>1, <1>2, <1>3

LEMMA StepQuietInv == QuietInv /\ [Next]_vars => QuietInv'
<1> SUFFICES ASSUME QuietInv, [Next]_vars
             PROVE  QuietInv'
  OBVIOUS
<1>1. TypeOK'
  BY StepTypeOK DEF QuietInv
<1>2. CASE Next
  BY <1>1, <1>2, ServerQuiet, PageQuiet, RequestQuiet DEF Next
<1>3. CASE UNCHANGED vars
  BY <1>1, <1>3, QuietKept DEF vars, rows, view, Dirty
<1>. QED  BY <1>2, <1>3

\* A list that is fresh, with no request under way, is the server's.
THEOREM QuietListsAreTrue == Spec => []QuietListIsTrue
<1>1. QuietInv => QuietListIsTrue
  BY DEF QuietInv, IsTrue, QuietListIsTrue, Quiet, Settled, Dirty, Fetching, TypeOK, Entries
<1>. QED  BY <1>1, InitQuietInv, StepQuietInv, PTL DEF Spec
=============================================================================
