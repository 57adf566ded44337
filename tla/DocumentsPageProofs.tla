------------------------ MODULE DocumentsPageProofs ------------------------
(***************************************************************************)
(* Theorems about DocumentsPage that hold for every choice of its          *)
(* constants.                                                              *)
(***************************************************************************)
EXTENDS DocumentsPage, QueryCacheLaws, TLAPS

-----------------------------------------------------------------------------
(* The laws of the query cache that are used below.                        *)

LEMMA EntriesClosed ==
    ASSUME NEW Data
    PROVE  EntryLaw(Data)
<1>1. Unloaded \in Entries(Data)
  BY DEF Entries, Unloaded
<1>2. ASSUME NEW e \in Entries(Data)
      PROVE  /\ Ask(e) \in Entries(Data) /\ Arrive(e) \in Entries(Data) /\ Fail(e) \in Entries(Data)
             /\ \A b \in BOOLEAN : Invalidate(e, b) \in Entries(Data)
             /\ \A v \in Data : Serve(e, v) \in Entries(Data) /\ Write(e, v) \in Entries(Data)
             /\ Loaded(e) => e.data \in Data
  BY DEF Entries, Ask, Arrive, Fail, Invalidate, AskAgain, Serve, Write, Fetching, Loaded
<1>. QED  BY <1>1, <1>2 DEF EntryLaw

LEMMA FetchMoves ==
    ASSUME NEW Data
    PROVE  FetchLaw(Data)
BY DEF FetchLaw, Entries, Ask, Arrive, Fail, Invalidate, AskAgain, Fetching, Loaded

-----------------------------------------------------------------------------
(* Type correctness.                                                       *)

LEMMA RowsType ==
    ASSUME row \in [Docs -> Server!Status]
    PROVE  Rows \in Lists
BY DEF Rows, Lists, Shows, Server!Status, Server!LiveStatus

\* Each operation of the server on its rows, and the documents it leaves alone.
LEMMA ServerMoves ==
    ASSUME row \in [Docs -> Server!Status], NEW d \in Docs,
           \/ Server!Upload(d) \/ Server!Settle(d) \/ Server!Remove({d}) \/ row' = row
    PROVE  /\ row' \in [Docs -> Server!Status]
           /\ \A x \in Docs : x # d => row'[x] = row[x]
<1>. USE DEF Server!Status, Server!LiveStatus
<1>1. CASE Server!Upload(d)
  BY <1>1 DEF Server!Upload
<1>2. CASE Server!Settle(d)
  BY <1>2 DEF Server!Settle
<1>3. CASE Server!Remove({d})
  BY <1>3 DEF Server!Remove
<1>. QED  BY <1>1, <1>2, <1>3

\* The list moves, and the rest of the screen and of the server does not.
LEMMA ListType ==
    ASSUME list \in Entries(Lists), Rows \in Lists,
           \/ list' \in {list, Ask(list), Arrive(list), Fail(list), Serve(list, Rows)}
           \/ list' = Invalidate(list, Mounted)
    PROVE  list' \in Entries(Lists)
<1>1. Mounted \in BOOLEAN
  BY DEF Mounted
<1>. QED  BY <1>1, EntriesClosed DEF EntryLaw

LEMMA InitTypeOK == Init => TypeOK
<1>1. Unloaded \in Entries(Lists)
  BY EntriesClosed DEF EntryLaw
<1>. QED
  BY <1>1 DEF Init, Server!Init, TypeOK, WatchedIsPending, Unwatched, Pages, Standing, Server!Status

LEMMA PageTypeOK ==
    ASSUME TypeOK,
           \/ OpenDocuments \/ OpenDashboard \/ Leave \/ Refocus \/ Poll
           \/ ListServed \/ ListArrives \/ ListFails
    PROVE  TypeOK'
<1>1. list' \in Entries(Lists)
  <2>1. \/ list' \in {list, Ask(list), Arrive(list), Fail(list), Serve(list, Rows)}
        \/ list' = Invalidate(list, Mounted)
    BY DEF OpenDocuments, OpenDashboard, Open, Leave, Refocus, Poll, ListServed, ListArrives, ListFails
  <2>. QED  BY <2>1, RowsType, ListType DEF TypeOK
<1>2. /\ UNCHANGED <<row, up, del>>
      /\ page' \in Pages
      /\ watched' = watched \/ watched' = Unwatched
      /\ unheard' \subseteq Docs
  BY DEF OpenDocuments, OpenDashboard, Open, Leave, Refocus, Poll, ListServed, ListArrives,
         ListFails, TypeOK, Pages
<1>3. watched' \in [up : Docs \cup {NoDoc}, del : Docs \cup {NoDoc}] /\ WatchedIsPending'
  BY <1>2 DEF TypeOK, WatchedIsPending, Unwatched
<1>. QED  BY <1>1, <1>2, <1>3 DEF TypeOK

LEMMA UploadTypeOK ==
    ASSUME TypeOK, NEW d \in Docs, OnFiles(d) \/ UploadSaved(d) \/ UploadSucceeds(d) \/ UploadErrors(d)
    PROVE  TypeOK'
<1>1. list' \in Entries(Lists)
  BY RowsType, ListType DEF OnFiles, UploadSaved, UploadSucceeds, UploadErrors, TypeOK
<1>2. row' \in [Docs -> Server!Status]
  BY ServerMoves DEF OnFiles, UploadSaved, UploadSucceeds, UploadErrors, TypeOK
<1>3. /\ UNCHANGED <<page, del>> /\ unheard' \subseteq Docs
      /\ up' \in [Docs -> Standing \ {"late"}]
      /\ \A x \in Docs : x # d => up'[x] = up[x]
  BY DEF OnFiles, UploadSaved, UploadSucceeds, UploadErrors, TypeOK, Standing
<1>4. \/ watched' = [watched EXCEPT !.up = d] /\ up'[d] = "sent"
      \/ watched' = watched /\ up'[d] = "done"
      \/ watched' = [watched EXCEPT !.up = IF watched.up = d THEN NoDoc ELSE watched.up]
  BY DEF OnFiles, UploadSaved, UploadSucceeds, UploadErrors, TypeOK, UploadOver
<1>5. watched' \in [up : Docs \cup {NoDoc}, del : Docs \cup {NoDoc}] /\ WatchedIsPending'
  <2>1. watched \in [up : Docs \cup {NoDoc}, del : Docs \cup {NoDoc}] /\ WatchedIsPending
    BY DEF TypeOK
  <2>2. watched' \in [up : Docs \cup {NoDoc}, del : Docs \cup {NoDoc}] /\ watched'.del = watched.del
    BY <1>4, <2>1
  <2>3. watched'.up # NoDoc => up'[watched'.up] \in {"sent", "done"}
    BY <1>3, <1>4, <2>1 DEF WatchedIsPending
  <2>. QED  BY <1>3, <2>1, <2>2, <2>3 DEF WatchedIsPending
<1>. QED  BY <1>1, <1>2, <1>3, <1>5 DEF TypeOK

LEMMA RemoveTypeOK ==
    ASSUME TypeOK, NEW d \in Docs,
           \/ ClickDelete(d) \/ DeleteCommitted(d) \/ DeleteSettles(d) \/ DeleteTimesOut(d)
           \/ ServerGivesUp(d) \/ WorkerSettles(d)
    PROVE  TypeOK'
<1>1. list' \in Entries(Lists)
  BY RowsType, ListType
     DEF ClickDelete, DeleteCommitted, DeleteSettles, DeleteTimesOut, ServerGivesUp, WorkerSettles, TypeOK
<1>2. row' \in [Docs -> Server!Status]
  BY ServerMoves
     DEF ClickDelete, DeleteCommitted, DeleteSettles, DeleteTimesOut, ServerGivesUp, WorkerSettles, TypeOK
<1>3. /\ UNCHANGED <<page, up>> /\ unheard' \subseteq Docs
      /\ del' \in [Docs -> Standing]
      /\ \A x \in Docs : x # d => del'[x] = del[x]
  BY DEF ClickDelete, DeleteCommitted, DeleteSettles, DeleteTimesOut, ServerGivesUp, WorkerSettles,
         TypeOK, Standing
<1>4. \/ watched' = [watched EXCEPT !.del = d] /\ del'[d] = "sent"
      \/ watched' = watched /\ (del'[d] = del[d] \/ del'[d] = "done" \/ del[d] = "late")
      \/ watched' = [watched EXCEPT !.del = IF watched.del = d THEN NoDoc ELSE watched.del]
  BY DEF ClickDelete, DeleteCommitted, DeleteSettles, DeleteTimesOut, ServerGivesUp, WorkerSettles,
         TypeOK, RemoveOver
<1>5. watched' \in [up : Docs \cup {NoDoc}, del : Docs \cup {NoDoc}] /\ WatchedIsPending'
  <2>1. watched \in [up : Docs \cup {NoDoc}, del : Docs \cup {NoDoc}] /\ WatchedIsPending
    BY DEF TypeOK
  <2>2. watched' \in [up : Docs \cup {NoDoc}, del : Docs \cup {NoDoc}] /\ watched'.up = watched.up
    BY <1>4, <2>1
  <2>3. watched'.del # NoDoc => del'[watched'.del] \in {"sent", "done"}
    BY <1>3, <1>4, <2>1 DEF WatchedIsPending
  <2>. QED  BY <1>3, <2>1, <2>2, <2>3 DEF WatchedIsPending
<1>. QED  BY <1>1, <1>2, <1>3, <1>5 DEF TypeOK

LEMMA StepTypeOK == TypeOK /\ [Next]_vars => TypeOK'
<1> SUFFICES ASSUME TypeOK, [Next]_vars
             PROVE  TypeOK'
  OBVIOUS
<1>1. CASE UNCHANGED vars
  BY <1>1 DEF vars, TypeOK, WatchedIsPending
<1>2. CASE Next
  BY <1>2, PageTypeOK, UploadTypeOK, RemoveTypeOK DEF Next, PageNext, AnswerNext, ServerNext
<1>. QED  BY <1>1, <1>2

\* Every variable keeps its range, and no delete button stays disabled without a
\* request that has yet to be answered.
THEOREM TypeCorrect == Spec => []TypeOK
BY InitTypeOK, StepTypeOK, PTL DEF Spec

-----------------------------------------------------------------------------
(* What the list shows.                                                    *)

Settled == {"ready", "failed"}

\* A change of d by this tab is committed, of which the page has yet to be told.
Dirty(d) == up[d] = "done" \/ del[d] = "done"

\* What was read of d: the worker may have settled it since, of which no page is
\* ever told, and a page goes on asking while it shows d as pending.
Matches(shown, d) == shown = Rows[d] \/ (shown = "pending" /\ Rows[d] \in Settled)

\* With every change of d told, a list at rest and an answer on its way match the
\* server's row.
TrueOf(d) ==
    d \notin unheard /\ ~Dirty(d) =>
        /\ Loaded(list) /\ ~list.stale /\ list.fetch = "idle" => Matches(list.data[d], d)
        /\ list.fetch = "served" => Matches(list.answer[d], d)

QuietInv == TypeOK /\ \A d \in Docs : TrueOf(d)

LEMMA InitQuietInv == Init => QuietInv
<1>1. Init => TypeOK
  BY InitTypeOK
<1>. QED  BY <1>1 DEF Init, QuietInv, TrueOf, Unloaded, Loaded

\* A step that leaves d alone, or lets the worker settle it, and tells the page
\* of nothing.
LEMMA TrueKept ==
    ASSUME TypeOK, NEW d \in Docs, TrueOf(d),
           \A shown : Matches(shown, d) => Matches(shown, d)',
           d \notin unheard' => d \notin unheard, ~Dirty(d)' => ~Dirty(d),
           \/ list' = list \/ list' = Ask(list) \/ list' = Fail(list)
           \/ list.fetch = "served" /\ list' = Arrive(list)
    PROVE  TrueOf(d)'
<1>1. list \in Entries(Lists)
  BY DEF TypeOK
<1>2. CASE list' = list
  BY <1>2 DEF TrueOf
<1>3. CASE list' = Ask(list)
  BY <1>1, <1>2, <1>3, FetchMoves DEF FetchLaw, TrueOf
<1>4. CASE list' = Fail(list)
  BY <1>1, <1>4, FetchMoves DEF FetchLaw, TrueOf
<1>5. CASE list.fetch = "served" /\ list' = Arrive(list)
  <2>1. list'.data = list.answer
    BY <1>1, <1>5, FetchMoves DEF FetchLaw
  <2>2. list'.fetch = "idle"
    BY <1>1, <1>5, FetchMoves DEF FetchLaw
  <2>. QED  BY <1>5, <2>1, <2>2 DEF TrueOf
<1>. QED  BY <1>2, <1>3, <1>4, <1>5

\* The page is told, and marks as unheard what it was told too late.
LEMMA RefetchTrue ==
    ASSUME TypeOK, NEW d \in Docs, TrueOf(d), list' = Invalidate(list, Mounted), row' = row,
           Overtaken => (d \notin unheard' /\ ~Dirty(d)' => d \notin unheard /\ ~Dirty(d))
    PROVE  TrueOf(d)'
<1>1. list \in Entries(Lists) /\ Mounted \in BOOLEAN
  BY DEF TypeOK, Mounted
<1>2. list'.stale
  BY <1>1, FetchMoves DEF FetchLaw
<1>3. CASE list'.fetch # "served"
  BY <1>2, <1>3 DEF TrueOf
<1>4. CASE list'.fetch = "served"
  <2>1. Overtaken /\ list'.answer = list.answer
    BY <1>1, <1>4, FetchMoves DEF FetchLaw, Overtaken
  <2>2. list.fetch = "served" /\ Rows' = Rows
    BY <2>1 DEF Overtaken, Rows
  <2>. QED  BY <1>2, <2>1, <2>2 DEF TrueOf, Matches
<1>. QED  BY <1>3, <1>4

\* The worker's verdict on a document that was read as pending.
LEMMA SettleMatches ==
    ASSUME row \in [Docs -> Server!Status], NEW d \in Docs, NEW x \in Docs,
           \/ Server!Settle(x) \/ row' = row
           \/ (Server!Upload(x) \/ Server!Remove({x})) /\ x # d
    PROVE  \A shown : Matches(shown, d) => Matches(shown, d)'
<1>1. CASE row'[d] = row[d]
  <2>1. Rows'[d] = Rows[d]
    BY <1>1 DEF Rows
  <2>. QED  BY <2>1 DEF Matches
<1>2. CASE x = d /\ Server!Settle(d)
  <2>1. Rows[d] = "pending" /\ Rows'[d] \in Settled
    BY <1>2 DEF Rows, Server!Settle, Server!LiveStatus, Settled
  <2>. QED  BY <2>1 DEF Matches, Settled
<1>. QED  BY <1>1, <1>2, ServerMoves

LEMMA PageTrue ==
    ASSUME TypeOK, NEW d \in Docs, TrueOf(d),
           \/ OpenDocuments \/ OpenDashboard \/ Leave \/ Refocus \/ Poll
           \/ ListServed \/ ListArrives \/ ListFails
    PROVE  TrueOf(d)'
<1>1. CASE ListServed
  <2>1. list' = Serve(list, Rows) /\ Rows' = Rows
    BY <1>1 DEF ListServed, Rows
  <2>2. list'.fetch = "served" /\ list'.answer = Rows'
    BY <2>1 DEF Serve, TypeOK, Entries
  <2>. QED  BY <2>2 DEF TrueOf, Matches
<1>2. CASE ~ListServed
  <2>1. UNCHANGED <<row, up, del, unheard>>
    BY <1>2 DEF OpenDocuments, OpenDashboard, Open, Leave, Refocus, Poll, ListArrives, ListFails
  <2>2. \/ list' = list \/ list' = Ask(list) \/ list' = Fail(list)
        \/ list.fetch = "served" /\ list' = Arrive(list)
    BY <1>2 DEF OpenDocuments, OpenDashboard, Open, Leave, Refocus, Poll, ListArrives, ListFails
  <2>3. \A shown : Matches(shown, d) => Matches(shown, d)'
    BY <2>1, SettleMatches DEF TypeOK
  <2>4. ~Dirty(d)' => ~Dirty(d)
    BY <2>1 DEF Dirty
  <2>. QED  BY <2>1, <2>2, <2>3, <2>4, TrueKept
<1>. QED  BY <1>1, <1>2

\* The steps that tell the page of x.
LEMMA ToldTrue ==
    ASSUME TypeOK, NEW d \in Docs, TrueOf(d), NEW x \in Docs,
           UploadSucceeds(x) \/ DeleteSettles(x) \/ DeleteTimesOut(x)
    PROVE  TrueOf(d)'
<1>1. list' = Invalidate(list, Mounted) /\ row' = row
  BY DEF UploadSucceeds, DeleteSettles, DeleteTimesOut
<1>2. x # d => up'[d] = up[d] /\ del'[d] = del[d]
  BY DEF UploadSucceeds, DeleteSettles, DeleteTimesOut, TypeOK
<1>3. CASE UploadSucceeds(x) \/ DeleteSettles(x)
  <2>1. unheard' = IF Overtaken THEN unheard \cup {x} ELSE unheard
    BY <1>3 DEF UploadSucceeds, DeleteSettles
  <2>2. Overtaken => (d \notin unheard' /\ ~Dirty(d)' => d \notin unheard /\ ~Dirty(d))
    BY <1>2, <2>1 DEF Dirty
  <2>. QED  BY <1>1, <2>2, RefetchTrue
<1>4. CASE DeleteTimesOut(x)
  <2>1. unheard' = unheard /\ (~Dirty(d)' => ~Dirty(d))
    BY <1>2, <1>4 DEF DeleteTimesOut, Dirty, TypeOK
  <2>. QED  BY <1>1, <2>1, RefetchTrue
<1>. QED  BY <1>3, <1>4

\* The steps that tell it of nothing: only its own change can make x dirty, and
\* what becomes of x unheard of is marked so.
LEMMA UntoldTrue ==
    ASSUME TypeOK, NEW d \in Docs, TrueOf(d), NEW x \in Docs,
           \/ OnFiles(x) \/ UploadSaved(x) \/ UploadErrors(x) \/ ClickDelete(x)
           \/ DeleteCommitted(x) \/ ServerGivesUp(x) \/ WorkerSettles(x)
    PROVE  TrueOf(d)'
<1>1. list' = list /\ (d \notin unheard' => d \notin unheard)
  BY DEF OnFiles, UploadSaved, UploadErrors, ClickDelete, DeleteCommitted, ServerGivesUp, WorkerSettles
<1>2. CASE x = d /\ (UploadSaved(x) \/ DeleteCommitted(x))
  <2>1. d \in unheard' \/ Dirty(d)'
    BY <1>2 DEF UploadSaved, DeleteCommitted, TypeOK, Dirty
  <2>. QED  BY <2>1 DEF TrueOf
<1>3. CASE x = d /\ UploadErrors(x) /\ up[d] = "done"
  <2>1. d \in unheard'
    BY <1>3 DEF UploadErrors
  <2>. QED  BY <2>1 DEF TrueOf
<1>4. CASE /\ ~(x = d /\ (UploadSaved(x) \/ DeleteCommitted(x)))
           /\ ~(x = d /\ UploadErrors(x) /\ up[d] = "done")
  <2>1. ~Dirty(d)' => ~Dirty(d)
    BY <1>4 DEF OnFiles, UploadSaved, UploadErrors, ClickDelete, DeleteCommitted, ServerGivesUp,
                WorkerSettles, Dirty, TypeOK
  <2>2. \/ Server!Settle(x) \/ row' = row
        \/ (Server!Upload(x) \/ Server!Remove({x})) /\ x # d
    <3>1. CASE UploadSaved(x) \/ DeleteCommitted(x)
      BY <1>4, <3>1 DEF UploadSaved, DeleteCommitted
    <3>2. CASE WorkerSettles(x)
      BY <3>2 DEF WorkerSettles
    <3>3. CASE OnFiles(x) \/ UploadErrors(x) \/ ClickDelete(x) \/ ServerGivesUp(x)
      BY <3>3 DEF OnFiles, UploadErrors, ClickDelete, ServerGivesUp
    <3>. QED  BY <3>1, <3>2, <3>3
  <2>3. \A shown : Matches(shown, d) => Matches(shown, d)'
    BY <2>2, SettleMatches DEF TypeOK
  <2>. QED  BY <1>1, <2>1, <2>3, TrueKept
<1>. QED  BY <1>2, <1>3, <1>4

LEMMA StepQuietInv == QuietInv /\ [Next]_vars => QuietInv'
<1> SUFFICES ASSUME QuietInv, [Next]_vars, NEW d \in Docs
             PROVE  TrueOf(d)'
  BY StepTypeOK DEF QuietInv
<1>1. TypeOK /\ TrueOf(d)
  BY DEF QuietInv
<1>2. CASE Next
  BY <1>1, <1>2, PageTrue, ToldTrue, UntoldTrue DEF Next, PageNext, AnswerNext, ServerNext
<1>3. CASE UNCHANGED vars
  BY <1>1, <1>3 DEF vars, TrueOf, Dirty, Matches, Rows
<1>. QED  BY <1>2, <1>3

\* A list that is fresh, with nothing of d under way, shows d as the server has
\* it, unless it shows d as pending, or no refetch was due to tell of a change.
THEOREM QuietListsAreTrue == Spec => []QuietListIsTrue
<1>1. QuietInv => QuietListIsTrue
  <2> SUFFICES ASSUME QuietInv, NEW d \in Docs \ unheard, Quiet(d), ~Active(d)
               PROVE  Shown(d) = Rows[d]
    BY DEF QuietListIsTrue
  <2>1. ~Dirty(d) /\ Loaded(list) /\ ~list.stale /\ list.fetch = "idle"
    BY DEF Quiet, Dirty, Fetching, QuietInv, TypeOK
  <2>2. Matches(list.data[d], d) /\ Shown(d) = list.data[d]
    BY <2>1 DEF QuietInv, TrueOf, Shown
  <2>. QED  BY <2>2 DEF Matches, Active
<1>. QED  BY <1>1, InitQuietInv, StepQuietInv, PTL DEF Spec

-----------------------------------------------------------------------------
(* The order of the answers.                                               *)

\* What the rows and the list have reached, per document; the answer on its way
\* has reached no less than the list.  Only a row that is listed is deleted, so
\* that a list without d, when d is gone, was read after the deletion.
OrderOf(d) ==
    /\ Shown(d) # "absent" => row[d] # "none"
    /\ Shown(d) \in Settled => row[d] \in Settled \cup {"gone"}
    /\ list.fetch = "served" =>
          /\ list.answer[d] # "absent" => row[d] # "none"
          /\ list.answer[d] \in Settled => row[d] \in Settled \cup {"gone"}
          /\ Shown(d) \in Settled => list.answer[d] # "pending"
          /\ Shown(d) # "absent" /\ row[d] # "gone" => list.answer[d] # "absent"
          /\ Shown(d) = "absent" /\ row[d] = "gone" => list.answer[d] = "absent"
    /\ del[d] \in {"sent", "late"} /\ row[d] # "gone" => Shown(d) # "absent"

AnswerIsList == list.fetch = "served" => list.answer \in Lists

OrderInv == TypeOK /\ AnswerIsList /\ \A d \in Docs : OrderOf(d)

LEMMA InitOrderInv == Init => OrderInv
<1>1. Init => TypeOK
  BY InitTypeOK
<1>2. Init => \A d \in Docs : Shown(d) = "absent" /\ row[d] = "none" /\ del[d] = "none"
  BY DEF Init, Unloaded, Shown, Loaded, Server!Init
<1>3. Init => list.fetch = "idle"
  BY DEF Init, Unloaded
<1>. QED  BY <1>1, <1>2, <1>3 DEF OrderInv, AnswerIsList, OrderOf, Settled

\* The list stays as it is, and no answer is read.
Still ==
    /\ list'.data = list.data
    /\ list'.fetch = "served" => list.fetch = "served" /\ list'.answer = list.answer

LEMMA StillLaws ==
    ASSUME TypeOK, \/ list' \in {list, Ask(list), Fail(list)} \/ list' = Invalidate(list, Mounted)
    PROVE  Still
<1>1. list \in Entries(Lists) /\ Mounted \in BOOLEAN
  BY DEF TypeOK, Mounted
<1>2. CASE list' = list
  BY <1>2 DEF Still
<1>3. CASE list' = Ask(list)
  BY <1>1, <1>3, FetchMoves DEF FetchLaw, Still
<1>4. CASE list' = Fail(list)
  BY <1>1, <1>4, FetchMoves DEF FetchLaw, Still
<1>5. CASE list' = Invalidate(list, Mounted)
  BY <1>1, <1>5, FetchMoves DEF FetchLaw, Still
<1>. QED  BY <1>2, <1>3, <1>4, <1>5

\* A row goes forward, and is deleted only while the list has it.
LEMMA OrderRow ==
    ASSUME TypeOK, NEW d \in Docs, OrderOf(d), Still,
           \/ row'[d] = row[d]
           \/ row[d] = "none" /\ row'[d] = "pending"
           \/ row[d] = "pending" /\ row'[d] \in Settled
           \/ row[d] # "none" /\ row'[d] = "gone" /\ Shown(d) # "absent",
           del'[d] \in {"sent", "late"} => del[d] \in {"sent", "late"} \/ Shown(d) # "absent"
    PROVE  OrderOf(d)'
<1>1. Shown(d)' = Shown(d)
  BY DEF Still, Shown, Loaded
<1>2. CASE list'.fetch = "served"
  <2>1. list.fetch = "served" /\ list'.answer = list.answer
    BY <1>2 DEF Still
  <2>. QED  BY <1>1, <1>2, <2>1 DEF OrderOf, Settled
<1>3. CASE list'.fetch # "served"
  BY <1>1, <1>3 DEF OrderOf, Settled
<1>. QED  BY <1>2, <1>3

LEMMA OrderServed ==
    ASSUME OrderInv, NEW d \in Docs, ListServed
    PROVE  OrderOf(d)'
<1>1. list' = Serve(list, Rows) /\ UNCHANGED <<row, del>> /\ TypeOK
  BY DEF ListServed, OrderInv
<1>2. list'.fetch = "served" /\ list'.answer = Rows /\ Shown(d)' = Shown(d)
  BY <1>1 DEF Serve, TypeOK, Entries, Shown, Loaded
<1>3. Rows[d] = IF row[d] \in {"pending", "ready", "failed"} THEN row[d] ELSE "absent"
  BY DEF Rows, Server!LiveStatus
<1>4. row[d] \in {"none", "pending", "ready", "failed", "gone"}
  BY <1>1 DEF TypeOK, Server!Status, Server!LiveStatus
<1>. QED  BY <1>1, <1>2, <1>3, <1>4 DEF OrderInv, OrderOf, Settled

\* The one step that changes what is shown.
LEMMA OrderArrives ==
    ASSUME OrderInv, NEW d \in Docs, ListArrives
    PROVE  /\ OrderOf(d)'
           /\ Shown(d) \in Settled => Shown(d)' # "pending"
           /\ Shown(d) = "absent" /\ row[d] = "gone" => Shown(d)' = "absent"
<1>1. /\ list.fetch = "served" /\ list' = Arrive(list) /\ UNCHANGED <<row, del>>
      /\ list \in Entries(Lists) /\ list.answer \in Lists
  BY DEF ListArrives, OrderInv, AnswerIsList, TypeOK
<1>2. list'.data = list.answer
  BY <1>1, FetchMoves DEF FetchLaw
<1>3. list'.fetch = "idle"
  BY <1>1, FetchMoves DEF FetchLaw
<1>4. Shown(d)' = list.answer[d]
  BY <1>1, <1>2, NoDataAssumption DEF Shown, Loaded
<1>. QED  BY <1>1, <1>3, <1>4 DEF OrderInv, OrderOf, Settled

LEMMA PageOrder ==
    ASSUME OrderInv, NEW d \in Docs,
           OpenDocuments \/ OpenDashboard \/ Leave \/ Refocus \/ Poll \/ ListFails
    PROVE  Still /\ OrderOf(d)'
<1>1. list' \in {list, Ask(list), Fail(list)} /\ row' = row /\ del' = del
  BY DEF OpenDocuments, OpenDashboard, Open, Leave, Refocus, Poll, ListFails
<1>2. Still
  BY <1>1, StillLaws DEF OrderInv
<1>. QED  BY <1>1, <1>2, OrderRow DEF OrderInv

LEMMA ChangeOrder ==
    ASSUME OrderInv, NEW d \in Docs, NEW x \in Docs,
           \/ OnFiles(x) \/ UploadSaved(x) \/ UploadSucceeds(x) \/ UploadErrors(x)
           \/ ClickDelete(x) \/ DeleteCommitted(x) \/ DeleteSettles(x) \/ DeleteTimesOut(x)
           \/ ServerGivesUp(x) \/ WorkerSettles(x)
    PROVE  Still /\ OrderOf(d)'
<1>1. TypeOK /\ OrderOf(d)
  BY DEF OrderInv
<1>2. Still
  <2>1. list' = list \/ list' = Invalidate(list, Mounted)
    BY DEF OnFiles, UploadSaved, UploadSucceeds, UploadErrors, ClickDelete, DeleteCommitted,
           DeleteSettles, DeleteTimesOut, ServerGivesUp, WorkerSettles
  <2>. QED  BY <1>1, <2>1, StillLaws
<1>3. del'[d] \in {"sent", "late"} => del[d] \in {"sent", "late"} \/ Shown(d) # "absent"
  BY <1>1 DEF OnFiles, UploadSaved, UploadSucceeds, UploadErrors, ClickDelete, DeleteCommitted,
              DeleteSettles, DeleteTimesOut, ServerGivesUp, WorkerSettles, TypeOK
<1>4. CASE UploadSaved(x)
  <2>1. row'[d] = row[d] \/ (row[d] = "none" /\ row'[d] = "pending")
    BY <1>1, <1>4 DEF UploadSaved, Server!Upload, TypeOK
  <2>. QED  BY <1>1, <1>2, <1>3, <2>1, OrderRow
<1>5. CASE DeleteCommitted(x)
  <2>1. row'[d] = row[d] \/ (x = d /\ row[d] \in Server!LiveStatus /\ row'[d] = "gone")
    BY <1>1, <1>5 DEF DeleteCommitted, Server!Remove, TypeOK
  <2>2. x = d /\ row[d] \in Server!LiveStatus => row[d] # "none" /\ Shown(d) # "absent"
    BY <1>1, <1>5 DEF DeleteCommitted, OrderOf, Server!LiveStatus
  <2>. QED  BY <1>1, <1>2, <1>3, <2>1, <2>2, OrderRow
<1>6. CASE WorkerSettles(x)
  <2>1. row'[d] = row[d] \/ (row[d] = "pending" /\ row'[d] \in Settled)
    BY <1>1, <1>6 DEF WorkerSettles, Server!Settle, TypeOK, Settled
  <2>. QED  BY <1>1, <1>2, <1>3, <2>1, OrderRow
<1>7. CASE \/ OnFiles(x) \/ UploadSucceeds(x) \/ UploadErrors(x) \/ ClickDelete(x)
           \/ DeleteSettles(x) \/ DeleteTimesOut(x) \/ ServerGivesUp(x)
  <2>1. row' = row
    BY <1>7 DEF OnFiles, UploadSucceeds, UploadErrors, ClickDelete, DeleteSettles, DeleteTimesOut,
                ServerGivesUp
  <2>. QED  BY <1>1, <1>2, <1>3, <2>1, OrderRow
<1>. QED  BY <1>2, <1>4, <1>5, <1>6, <1>7

LEMMA StillNeverBack ==
    ASSUME Still, NEW d \in Docs
    PROVE  Rank(d)' = Rank(d)
<1>1. Shown(d)' = Shown(d)
  BY DEF Still, Shown, Loaded
<1>. QED  BY <1>1 DEF Rank

LEMMA ArrivesNeverBack ==
    ASSUME OrderInv, NEW d \in Docs, ListArrives
    PROVE  /\ Rank(d) = 2 => Rank(d)' # 1
           /\ Rank(d) = 0 /\ row[d] = "gone" => Rank(d)' = 0
<1>1. /\ Shown(d) \in Settled => Shown(d)' # "pending"
      /\ Shown(d) = "absent" /\ row[d] = "gone" => Shown(d)' = "absent"
  BY OrderArrives
<1>2. Shown(d) \in Shows
  BY EntriesClosed DEF EntryLaw, OrderInv, TypeOK, Lists, Shown, Shows
<1>3. Rank(d) = 2 => Shown(d) \in Settled
  BY DEF Rank, Settled
<1>4. Rank(d) = 0 => Shown(d) = "absent"
  BY <1>2 DEF Rank, Shows
<1>5. Shown(d)' # "pending" => Rank(d)' # 1
  BY DEF Rank
<1>6. Shown(d)' = "absent" => Rank(d)' = 0
  BY DEF Rank
<1>. QED  BY <1>1, <1>3, <1>4, <1>5, <1>6

LEMMA StepOrder ==
    ASSUME OrderInv, [Next]_vars, NEW d \in Docs
    PROVE  /\ OrderOf(d)'
           /\ Rank(d) = 2 => Rank(d)' # 1
           /\ Rank(d) = 0 /\ row[d] = "gone" => Rank(d)' = 0
<1>1. Still => Rank(d)' = Rank(d)
  BY StillNeverBack
<1>2. CASE ListServed
  <2>1. Shown(d)' = Shown(d)
    BY <1>2 DEF ListServed, Serve, OrderInv, TypeOK, Entries, Shown, Loaded
  <2>2. Rank(d)' = Rank(d)
    BY <2>1 DEF Rank
  <2>. QED  BY <1>2, <2>2, OrderServed
<1>3. CASE ListArrives
  BY <1>3, OrderArrives, ArrivesNeverBack
<1>4. CASE OpenDocuments \/ OpenDashboard \/ Leave \/ Refocus \/ Poll \/ ListFails
  BY <1>1, <1>4, PageOrder
<1>5. CASE \E x \in Docs :
             \/ OnFiles(x) \/ UploadSaved(x) \/ UploadSucceeds(x) \/ UploadErrors(x)
             \/ ClickDelete(x) \/ DeleteCommitted(x) \/ DeleteSettles(x) \/ DeleteTimesOut(x)
             \/ ServerGivesUp(x) \/ WorkerSettles(x)
  BY <1>1, <1>5, ChangeOrder
<1>6. CASE UNCHANGED vars
  <2>1. Still /\ OrderOf(d)'
    BY <1>6 DEF vars, Still, OrderInv, OrderOf, Shown, Loaded
  <2>. QED  BY <1>1, <2>1
<1>. QED  BY <1>2, <1>3, <1>4, <1>5, <1>6 DEF Next, PageNext, AnswerNext, ServerNext

LEMMA StepAnswer == OrderInv /\ [Next]_vars => AnswerIsList'
<1> SUFFICES ASSUME OrderInv, [Next]_vars
             PROVE  AnswerIsList'
  OBVIOUS
<1>1. CASE ListServed
  <2>1. list'.answer = Rows
    BY <1>1 DEF ListServed, Serve, OrderInv, TypeOK, Entries
  <2>. QED  BY <2>1, RowsType DEF AnswerIsList, OrderInv, TypeOK
<1>2. CASE ListArrives
  <2>1. list'.fetch = "idle"
    BY <1>2, FetchMoves DEF FetchLaw, ListArrives, OrderInv, TypeOK
  <2>. QED  BY <2>1 DEF AnswerIsList
<1>3. CASE ~ListServed /\ ~ListArrives
  <2>1. \/ list' \in {list, Ask(list), Fail(list)} \/ list' = Invalidate(list, Mounted)
    BY <1>3 DEF Next, PageNext, AnswerNext, ServerNext, vars, OpenDocuments, OpenDashboard, Open,
         Leave, Refocus, Poll, ListFails, OnFiles, UploadSaved, UploadSucceeds, UploadErrors,
         ClickDelete, DeleteCommitted, DeleteSettles, DeleteTimesOut, ServerGivesUp, WorkerSettles
  <2>. QED  BY <2>1, StillLaws DEF OrderInv, AnswerIsList, Still
<1>. QED  BY <1>1, <1>2, <1>3

LEMMA StepOrderInv == OrderInv /\ [Next]_vars => OrderInv'
<1> SUFFICES ASSUME OrderInv, [Next]_vars
             PROVE  OrderInv'
  OBVIOUS
<1>1. TypeOK'
  BY StepTypeOK DEF OrderInv
<1>2. \A d \in Docs : OrderOf(d)'
  BY StepOrder
<1>. QED  BY <1>1, <1>2, StepAnswer DEF OrderInv

\* What was shown settled is never shown as being ingested again, and a deleted
\* document that left the list stays away.
THEOREM ShownNeverBack == Spec => ShownNeverGoesBack
<1>1. OrderInv /\ [Next]_vars =>
        [\A d \in Docs :
            /\ Rank(d) = 2 => Rank(d)' # 1
            /\ Rank(d) = 0 /\ row[d] = "gone" => Rank(d)' = 0]_vars
  BY StepOrder
<1>. QED  BY <1>1, InitOrderInv, StepOrderInv, PTL DEF Spec, ShownNeverGoesBack
=============================================================================
