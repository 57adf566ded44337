------------------------- MODULE SupportDeskProofs -------------------------
(***************************************************************************)
(* Theorems about SupportDesk that hold for every choice of its constants. *)
(***************************************************************************)
EXTENDS SupportDesk, QueryCacheLaws, TLAPS

-----------------------------------------------------------------------------
(* The laws of the query cache that are used below.                        *)

LEMMA EntriesClosed ==
    ASSUME NEW Data
    PROVE  EntryLaw(Data)
<1>1. Unloaded \in Entries(Data)
  BY DEF Entries, Unloaded
<1>2. ASSUME NEW e \in Entries(Data)
      PROVE  /\ Ask(e) \in Entries(Data) /\ Arrive(e) \in Entries(Data) /\ Fail(e) \in Entries(Data)
             /\ \A b \in BOOLEAN : Invalidate(e, b) \in Entries(Data)
             /\ \A v \in Data : Serve(e, v) \in Entries(Data) /\ Write(e, v) \in Entries(Data)
             /\ Loaded(e) => e.data \in Data
  BY DEF Entries, Ask, Arrive, Fail, Invalidate, AskAgain, Serve, Write, Fetching, Loaded
<1>. QED  BY <1>1, <1>2 DEF EntryLaw

Lists == [Tickets -> Statuses \cup {"none"}]
Posts == [at : Places, by : {"user", "admin"}, ticket : Tickets \cup {NoTicket},
          text : Texts \cup {NoText}, saw : Statuses \cup {"none"}, own : BOOLEAN]
Patches == [at : Places, ticket : Tickets \cup {NoTicket}, to : Statuses,
            saw : Statuses \cup {"none"}, own : BOOLEAN]
Watches == [reply : Replies \cup {NoReply}, resolve : Updates \cup {NoUpdate},
            reopen : Updates \cup {NoUpdate}, create : Tickets \cup {NoTicket}]

-----------------------------------------------------------------------------
(* Type correctness, in four parts that the steps disturb separately.      *)

RowsOK == status \in Lists /\ said \in [Tickets -> SUBSET Replies]

RequestsOK ==
    /\ post \in [Replies -> Posts] /\ patch \in [Updates -> Patches]
    /\ opening \in [Tickets -> Places \ {"read"}]
    /\ \A r \in Replies : /\ post[r].at # "none" => post[r].ticket \in Tickets
                          /\ post[r].own => post[r].text \in Texts
    /\ \A u \in Updates : patch[u].at # "none" => patch[u].ticket \in Tickets

ScreenOK ==
    /\ isAdmin \in BOOLEAN /\ filter \in Filters
    /\ lists \in [Filters -> Entries(Lists)]
    /\ active \in Tickets \cup {NoTicket} /\ draft \in Texts \cup {NoText}
    /\ watched \in Watches

HistoryOK == twice \subseteq Texts /\ since \in [Tickets -> SUBSET Replies]

Parts == RowsOK /\ RequestsOK /\ ScreenOK /\ HistoryOK /\ WatchedIsPending

LEMMA TypeParts == (TypeOK <=> Parts) /\ (TypeOK' <=> Parts')
BY DEF Parts, TypeOK, RowsOK, RequestsOK, ScreenOK, HistoryOK, Lists, Posts, Patches, Watches

LEMMA InitTypeOK == Init => TypeOK
<1> SUFFICES ASSUME Init
             PROVE  RowsOK /\ RequestsOK /\ ScreenOK /\ HistoryOK /\ WatchedIsPending
  BY TypeParts DEF Parts
<1>1. Unloaded \in Entries(Lists) /\ Ask(Unloaded) \in Entries(Lists)
  BY EntriesClosed DEF EntryLaw
<1>2. RowsOK
  BY DEF Init, RowsOK, Lists
<1>3. NoPost \in Posts /\ NoPatch \in Patches
  BY DEF NoPost, NoPatch, Posts, Patches, Places, Statuses
<1>4. RequestsOK
  <2>1. \A r \in Replies : post[r].at = "none" /\ ~post[r].own
    BY DEF Init, NoPost
  <2>2. \A u \in Updates : patch[u].at = "none"
    BY DEF Init, NoPatch
  <2>. QED  BY <1>3, <2>1, <2>2 DEF Init, RequestsOK, Places
<1>5. watched \in Watches
  BY DEF Init, Unwatched, Watches
<1>6. ScreenOK
  BY <1>1, <1>5, DeskAssumption DEF Init, ScreenOK
<1>7. HistoryOK
  BY DEF Init, HistoryOK
<1>8. WatchedIsPending
  BY DEF Init, WatchedIsPending, Button, Unwatched
<1>. QED  BY <1>2, <1>4, <1>6, <1>7, <1>8

\* What a list shows is a row of its type.
LEMMA ThreadsType ==
    ASSUME TypeOK, NEW f \in Filters
    PROVE  /\ Threads(f) \in Lists
           /\ \A e \in {lists[f]} : /\ Ask(e) \in Entries(Lists) /\ Arrive(e) \in Entries(Lists)
                                    /\ Fail(e) \in Entries(Lists)
                                    /\ Serve(e, Threads(f)) \in Entries(Lists)
                                    /\ \A b \in BOOLEAN : Invalidate(e, b) \in Entries(Lists)
<1>1. Threads(f) \in Lists
  BY TypeParts DEF Parts, RowsOK, Threads, Lists
<1>2. lists[f] \in Entries(Lists)
  BY TypeParts DEF Parts, ScreenOK
<1>. QED  BY <1>1, <1>2, EntriesClosed DEF EntryLaw

LEMMA RefetchType ==
    ASSUME TypeOK, Refetch
    PROVE  lists' \in [Filters -> Entries(Lists)]
BY ThreadsType DEF Refetch

\* The server's steps.
LEMMA ReplyTypeOK ==
    ASSUME TypeOK, NEW r \in Replies, ReplyRead(r) \/ ReplyCommitted(r)
    PROVE  TypeOK'
<1> USE TypeParts DEF Parts, RowsOK, RequestsOK, HistoryOK
<1>1. post[r].at \in {"sent", "read"} /\ post[r].ticket \in Tickets
  BY DEF ReplyRead, ReplyCommitted
<1>2. CASE ReplyRead(r)
  <2>1. /\ post' \in [Replies -> Posts]
        /\ \A x \in Replies : x # r => post'[x] = post[x]
        /\ post'[r].ticket = post[r].ticket /\ post'[r].text = post[r].text
        /\ post'[r].own = post[r].own /\ post'[r].at = "read"
    <3>1. post[r] \in Posts /\ status[post[r].ticket] \in Statuses \cup {"none"}
      BY <1>1 DEF Lists
    <3>2. post' = [post EXCEPT ![r].at = "read", ![r].saw = status[post[r].ticket]]
      BY <1>2 DEF ReplyRead
    <3>3. post' \in [Replies -> Posts]
      BY <3>1, <3>2 DEF Posts, Places
    <3>. QED  BY <3>1, <3>2, <3>3 DEF Posts
  <2>2. since' \in [Tickets -> SUBSET Replies]
    BY <1>1, <1>2 DEF ReplyRead, Begun
  <2>3. UNCHANGED <<isAdmin, rows, patch, opening, screen, twice>>
    BY <1>2 DEF ReplyRead
  <2>4. WatchedIsPending'
    BY <2>1, <2>3 DEF WatchedIsPending, Button, screen, ScreenOK, Watches
  <2>. QED  BY <1>1, <2>1, <2>2, <2>3, <2>4 DEF ScreenOK, rows, screen
<1>3. CASE ReplyCommitted(r)
  <2>1. /\ post' \in [Replies -> Posts]
        /\ \A x \in Replies : x # r => post'[x] = post[x]
        /\ post'[r].ticket = post[r].ticket /\ post'[r].text = post[r].text
        /\ post'[r].own = post[r].own
        /\ post'[r].at = IF post[r].own THEN "done" ELSE "over"
    <3>1. post' = [post EXCEPT ![r].at = IF post[r].own THEN "done" ELSE "over", ![r].saw = "none"]
      BY <1>3 DEF ReplyCommitted
    <3>2. PICK place \in {"done", "over"} :
             post' = [post EXCEPT ![r].at = place, ![r].saw = "none"]
      BY <3>1
    <3>3. post' \in [Replies -> Posts]
      <4>1. post[r] \in Posts /\ place \in Places
        BY DEF Places
      <4>2. [post[r] EXCEPT !.at = place, !.saw = "none"] \in Posts
        BY <4>1 DEF Posts
      <4>3. post' = [post EXCEPT ![r] = [post[r] EXCEPT !.at = place, !.saw = "none"]]
        BY <3>2
      <4>. QED  BY <4>2, <4>3
    <3>. QED  BY <3>1, <3>3 DEF Posts
  <2>2. status' \in Lists /\ said' \in [Tickets -> SUBSET Replies]
    BY <1>1, <1>3 DEF ReplyCommitted, AfterReply, Lists, Statuses
  <2>3. UNCHANGED <<isAdmin, patch, opening, screen, twice, since>>
    BY <1>3 DEF ReplyCommitted
  <2>4. WatchedIsPending'
    BY <2>1, <2>3 DEF WatchedIsPending, Button, screen, ScreenOK, Watches
  <2>. QED  BY <1>1, <2>1, <2>2, <2>3, <2>4 DEF ScreenOK, screen
<1>. QED  BY <1>2, <1>3

LEMMA UpdateTypeOK ==
    ASSUME TypeOK, NEW u \in Updates, UpdateRead(u) \/ UpdateCommitted(u)
    PROVE  TypeOK'
<1> USE TypeParts DEF Parts, RowsOK, RequestsOK, HistoryOK
<1>1. patch[u].at \in {"sent", "read"} /\ patch[u].ticket \in Tickets
  BY DEF UpdateRead, UpdateCommitted
<1>2. CASE UpdateRead(u)
  <2>1. /\ patch' \in [Updates -> Patches]
        /\ \A x \in Updates : x # u => patch'[x] = patch[x]
        /\ patch'[u].ticket = patch[u].ticket /\ patch'[u].own = patch[u].own
        /\ patch'[u].to = patch[u].to /\ patch'[u].at = "read"
    <3>1. patch[u] \in Patches /\ status[patch[u].ticket] \in Statuses \cup {"none"}
      BY <1>1 DEF Lists
    <3>2. patch' = [patch EXCEPT ![u].at = "read", ![u].saw = status[patch[u].ticket]]
      BY <1>2 DEF UpdateRead
    <3>3. patch' \in [Updates -> Patches]
      BY <3>1, <3>2 DEF Patches, Places
    <3>. QED  BY <3>1, <3>2, <3>3 DEF Patches
  <2>2. UNCHANGED <<isAdmin, rows, post, opening, screen, twice, since>>
    BY <1>2 DEF UpdateRead
  <2>3. WatchedIsPending'
    BY <2>1, <2>2 DEF WatchedIsPending, Button, screen, ScreenOK, Watches
  <2>. QED  BY <1>1, <2>1, <2>2, <2>3 DEF ScreenOK, rows, screen
<1>3. CASE UpdateCommitted(u)
  <2>1. /\ patch' \in [Updates -> Patches]
        /\ \A x \in Updates : x # u => patch'[x] = patch[x]
        /\ patch'[u].ticket = patch[u].ticket /\ patch'[u].own = patch[u].own
        /\ patch'[u].to = patch[u].to
        /\ patch'[u].at = IF patch[u].own THEN "done" ELSE "over"
    <3>1. patch' = [patch EXCEPT ![u].at = IF patch[u].own THEN "done" ELSE "over", ![u].saw = "none"]
      BY <1>3 DEF UpdateCommitted
    <3>2. PICK place \in {"done", "over"} :
             patch' = [patch EXCEPT ![u].at = place, ![u].saw = "none"]
      BY <3>1
    <3>3. patch' \in [Updates -> Patches]
      <4>1. patch[u] \in Patches /\ place \in Places
        BY DEF Places
      <4>2. [patch[u] EXCEPT !.at = place, !.saw = "none"] \in Patches
        BY <4>1 DEF Patches
      <4>3. patch' = [patch EXCEPT ![u] = [patch[u] EXCEPT !.at = place, !.saw = "none"]]
        BY <3>2
      <4>. QED  BY <4>2, <4>3
    <3>. QED  BY <3>1, <3>3 DEF Patches
  <2>2. status' \in Lists /\ since' \in [Tickets -> SUBSET Replies]
    BY <1>1, <1>3 DEF UpdateCommitted, Lists, Patches
  <2>3. UNCHANGED <<isAdmin, said, post, opening, screen, twice>>
    BY <1>3 DEF UpdateCommitted
  <2>4. WatchedIsPending'
    BY <2>1, <2>3 DEF WatchedIsPending, Button, screen, ScreenOK, Watches
  <2>. QED  BY <1>1, <2>1, <2>2, <2>3, <2>4 DEF ScreenOK, screen
<1>. QED  BY <1>2, <1>3

LEMMA ElsewhereTypeOK ==
    ASSUME TypeOK, NEW t \in Tickets, Elsewhere(t)
    PROVE  TypeOK'
<1> USE TypeParts DEF Parts, RowsOK, RequestsOK, HistoryOK
<1>1. status[t] \in Statuses
  BY DEF Elsewhere, Lists
<1>2. ASSUME NEW r \in Replies, NEW by \in {"user", "admin"},
             post[r].at = "none",
             post' = [post EXCEPT ![r] = [NoPost EXCEPT !.at = "read", !.by = by,
                                                       !.ticket = t, !.saw = status[t]]],
             since' = [since EXCEPT ![t] = Begun(by, r, @)],
             UNCHANGED <<patch, isAdmin, rows, opening, screen, twice>>
      PROVE  TypeOK'
  <2>1. [NoPost EXCEPT !.at = "read", !.by = by, !.ticket = t, !.saw = status[t]] \in Posts
    BY <1>1 DEF NoPost, Posts, Places
  <2>2. /\ post' \in [Replies -> Posts] /\ post'[r].ticket = t /\ ~post'[r].own
        /\ \A x \in Replies : x # r => post'[x] = post[x]
    BY <1>2, <2>1 DEF NoPost
  <2>3. WatchedIsPending'
    BY <1>2, <2>2 DEF WatchedIsPending, Button, screen, ScreenOK, Watches
  <2>4. since' \in [Tickets -> SUBSET Replies]
    BY <1>2 DEF Begun
  <2>. QED  BY <1>2, <2>2, <2>3, <2>4 DEF ScreenOK, rows, screen
<1>3. ASSUME NEW u \in Updates, NEW s \in {"open", "resolved"},
             patch[u].at = "none",
             patch' = [patch EXCEPT ![u] = [NoPatch EXCEPT !.at = "read", !.ticket = t,
                                                         !.to = s, !.saw = status[t]]],
             UNCHANGED <<post, since, isAdmin, rows, opening, screen, twice>>
      PROVE  TypeOK'
  <2>1. [NoPatch EXCEPT !.at = "read", !.ticket = t, !.to = s, !.saw = status[t]] \in Patches
    BY <1>1 DEF NoPatch, Patches, Places, Statuses
  <2>2. /\ patch' \in [Updates -> Patches] /\ patch'[u].ticket = t
        /\ \A x \in Updates : x # u => patch'[x] = patch[x]
    BY <1>3, <2>1 DEF NoPatch
  <2>3. WatchedIsPending'
    BY <1>3, <2>2 DEF WatchedIsPending, Button, screen, ScreenOK, Watches
  <2>. QED  BY <1>3, <2>2, <2>3 DEF ScreenOK, rows, screen
<1>. QED  BY <1>2, <1>3 DEF Elsewhere

LEMMA QueryTypeOK ==
    ASSUME TypeOK,
           \/ Poll
           \/ \E f \in Filters : Look(f) \/ ListServed(f) \/ ListArrives(f) \/ ListFails(f)
    PROVE  TypeOK'
<1> USE TypeParts DEF Parts, RowsOK, RequestsOK, HistoryOK
<1>1. lists' \in [Filters -> Entries(Lists)] /\ filter' \in Filters
  <2>1. ASSUME NEW f \in Filters, NEW e \in Entries(Lists), Entry(f, e)
        PROVE  lists' \in [Filters -> Entries(Lists)]
    BY <2>1 DEF Entry, ScreenOK
  <2>2. CASE Poll
    BY <2>1, <2>2, ThreadsType DEF Poll, ScreenOK
  <2>3. ASSUME NEW f \in Filters, Look(f)
        PROVE  lists' \in [Filters -> Entries(Lists)] /\ filter' \in Filters
    BY <2>1, <2>3, ThreadsType DEF Look, ScreenOK
  <2>4. ASSUME NEW f \in Filters, ListServed(f) \/ ListArrives(f) \/ ListFails(f)
        PROVE  lists' \in [Filters -> Entries(Lists)] /\ filter' \in Filters
    BY <2>1, <2>4, ThreadsType DEF ListServed, ListArrives, ListFails, ScreenOK
  <2>. QED  BY <2>2, <2>3, <2>4 DEF Poll, ScreenOK
<1>2. UNCHANGED <<isAdmin, rows, post, patch, opening, active, draft, watched, twice, since>>
  BY DEF Poll, Look, ListServed, ListArrives, ListFails
<1>. QED  BY <1>1, <1>2 DEF ScreenOK, rows, WatchedIsPending, Button

\* The steps of the page.
LEMMA BoxTypeOK ==
    ASSUME TypeOK,
           \/ \E t \in Tickets \cup {NoTicket} : Select(t)
           \/ \E x \in Texts : Type(x)
    PROVE  TypeOK'
BY TypeParts
   DEF Parts, RowsOK, RequestsOK, HistoryOK, ScreenOK, rows, WatchedIsPending, Button, Select, Type

LEMMA SendTypeOK ==
    ASSUME TypeOK, NEW r \in Replies, Send(r)
    PROVE  TypeOK'
<1> USE TypeParts DEF Parts, RowsOK, RequestsOK, HistoryOK
<1>1. /\ active \in Tickets /\ draft \in Texts /\ isAdmin \in BOOLEAN
      /\ watched \in Watches
  BY DEF Send, CanSend, HasCurrent, ScreenOK
<1>2. PICK by \in {"user", "admin"} :
         post' = [post EXCEPT ![r] = [at |-> "sent", by |-> by, ticket |-> active, text |-> draft,
                                      saw |-> "none", own |-> TRUE]]
  BY DEF Send
<1>3. /\ post' \in [Replies -> Posts]
      /\ \A x \in Replies : x # r => post'[x] = post[x]
      /\ post'[r].at = "sent" /\ post'[r].own /\ post'[r].ticket = active
      /\ post'[r].text = draft
  BY <1>1, <1>2 DEF Posts, Places
<1>4. /\ watched' = [watched EXCEPT !.reply = r]
      /\ UNCHANGED <<isAdmin, rows, patch, opening, filter, lists, active, draft, twice, since>>
  BY DEF Send
<1>5. watched' \in Watches
  BY <1>1, <1>4 DEF Watches
<1>6. WatchedIsPending'
  BY <1>1, <1>3, <1>4 DEF WatchedIsPending, Button, Watches
<1>. QED  BY <1>1, <1>3, <1>4, <1>5, <1>6 DEF ScreenOK, rows

LEMMA ReplyOverTypeOK ==
    ASSUME TypeOK, NEW r \in Replies, ReplySucceeds(r) \/ ReplyErrors(r)
    PROVE  TypeOK'
<1> USE TypeParts DEF Parts, RowsOK, RequestsOK, HistoryOK
<1>1. /\ post' = [post EXCEPT ![r].at = "over"]
      /\ watched' = [watched EXCEPT !.reply = IF @ = r THEN NoReply ELSE @]
      /\ UNCHANGED <<isAdmin, rows, patch, opening, filter, active, since>>
  BY DEF ReplySucceeds, ReplyErrors
<1>2. /\ post' \in [Replies -> Posts] /\ post[r].own
      /\ \A x \in Replies : /\ x # r => post'[x] = post[x]
                            /\ post'[x].ticket = post[x].ticket /\ post'[x].text = post[x].text
                            /\ post'[x].own => post[x].own
      /\ post[r].at # "none"
  BY <1>1 DEF ReplySucceeds, ReplyErrors, Posts, Places
<1>3. /\ lists' \in [Filters -> Entries(Lists)] /\ draft' \in Texts \cup {NoText}
      /\ twice' \subseteq Texts
  <2>1. CASE ReplySucceeds(r)
    BY <2>1, RefetchType DEF ReplySucceeds, ScreenOK
  <2>2. CASE ReplyErrors(r)
    BY <1>2, <2>2 DEF ReplyErrors, ScreenOK
  <2>. QED  BY <2>1, <2>2
<1>4. /\ watched' \in Watches /\ watched'.reply # r
      /\ watched'.reply # NoReply => watched'.reply = watched.reply
      /\ watched'.resolve = watched.resolve /\ watched'.reopen = watched.reopen
      /\ watched'.create = watched.create
  <2>1. watched \in Watches
    BY DEF ScreenOK
  <2>. QED  BY <1>1, <2>1, DeskAssumption DEF Watches
<1>5. WatchedIsPending'
  BY <1>1, <1>2, <1>4 DEF WatchedIsPending, Button, Watches
<1>. QED  BY <1>1, <1>2, <1>3, <1>4, <1>5 DEF ScreenOK, rows

\* What the button of a status watches after it turned to another update.
LEMMA WatchType ==
    ASSUME watched \in Watches, NEW s \in {"open", "resolved"}, NEW u \in Updates \cup {NoUpdate},
           watched' = Watch(s, u)
    PROVE  /\ watched' \in Watches
           /\ Button(s)' = u
           /\ \A x \in {"open", "resolved"} : x # s => Button(x)' = Button(x)
           /\ watched'.reply = watched.reply /\ watched'.create = watched.create
BY DEF Watch, Button, Watches

LEMMA ClickTypeOK ==
    ASSUME TypeOK, NEW u \in Updates, NEW s \in Statuses, ClickStatus(u, s)
    PROVE  TypeOK'
<1> USE TypeParts DEF Parts, RowsOK, RequestsOK, HistoryOK
<1>1. /\ active \in Tickets /\ s \in {"open", "resolved"} /\ patch[u].at = "none"
      /\ patch' = [patch EXCEPT ![u] = [at |-> "sent", ticket |-> active, to |-> s,
                                        saw |-> "none", own |-> TRUE]]
      /\ watched' = Watch(s, u) /\ watched \in Watches
      /\ UNCHANGED <<isAdmin, rows, post, opening, filter, lists, active, draft, twice, since>>
  BY DEF ClickStatus, HasCurrent, ScreenOK
<1>2. /\ patch' \in [Updates -> Patches]
      /\ \A x \in Updates : x # u => patch'[x] = patch[x]
      /\ patch'[u].at = "sent" /\ patch'[u].own /\ patch'[u].ticket = active /\ patch'[u].to = s
  BY <1>1 DEF Patches, Places
<1>3. WatchedIsPending'
  <2>1. ASSUME NEW x \in {"open", "resolved"}, Button(x)' # NoUpdate
        PROVE  /\ patch'[Button(x)'].own /\ patch'[Button(x)'].to = x
               /\ patch'[Button(x)'].at \in {"sent", "read", "done"}
    <3>1. CASE x = s
      BY <1>1, <1>2, <3>1, WatchType
    <3>2. CASE x # s
      <4>1. Button(x)' = Button(x) /\ Button(x) # u /\ Button(x) \in Updates
        BY <1>1, <2>1, <3>2, WatchType DEF WatchedIsPending, Button, Watches
      <4>. QED  BY <1>2, <2>1, <4>1 DEF WatchedIsPending
    <3>. QED  BY <3>1, <3>2
  <2>. QED  BY <1>1, <2>1, WatchType DEF WatchedIsPending, Watches
<1>. QED  BY <1>1, <1>2, <1>3, WatchType DEF ScreenOK, rows

LEMMA AnsweredTypeOK ==
    ASSUME TypeOK, NEW u \in Updates, UpdateAnswered(u)
    PROVE  TypeOK'
<1> USE TypeParts DEF Parts, RowsOK, RequestsOK, HistoryOK
<1>1. /\ patch' = [patch EXCEPT ![u].at = "over"] /\ patch[u].at # "none"
      /\ watched' = IF Button(patch[u].to) = u THEN Watch(patch[u].to, NoUpdate) ELSE watched
      /\ UNCHANGED <<isAdmin, rows, post, opening, filter, active, draft, twice, since>>
  BY DEF UpdateAnswered
<1>2. lists' \in [Filters -> Entries(Lists)]
  BY RefetchType DEF UpdateAnswered, ScreenOK
<1>3. /\ patch' \in [Updates -> Patches]
      /\ \A x \in Updates : /\ x # u => patch'[x] = patch[x]
                            /\ patch'[x].ticket = patch[x].ticket
  BY <1>1 DEF Patches, Places
<1>4. watched \in Watches
  BY DEF ScreenOK
<1>5. /\ watched' \in Watches
      /\ watched'.reply = watched.reply /\ watched'.create = watched.create
      /\ \A x \in {"open", "resolved"} :
            Button(x)' # NoUpdate => Button(x)' = Button(x) /\ Button(x) # u
  BY <1>1, <1>4 DEF Watch, Button, Watches, WatchedIsPending
<1>6. WatchedIsPending'
  BY <1>1, <1>3, <1>4, <1>5 DEF WatchedIsPending, Watches, Button
<1>. QED  BY <1>1, <1>2, <1>3, <1>5, <1>6 DEF ScreenOK, rows

LEMMA CreateTypeOK ==
    ASSUME TypeOK, NEW t \in Tickets, CreateCommitted(t) \/ Submit(t) \/ CreateAnswered(t)
    PROVE  TypeOK'
<1> USE TypeParts, DeskAssumption DEF Parts, RowsOK, RequestsOK, HistoryOK, Places
<1>1. watched \in Watches
  BY DEF ScreenOK
<1>2. CASE CreateCommitted(t)
  <2>1. /\ opening' \in [Tickets -> Places \ {"read"}] /\ status' \in Lists
        /\ \A x \in Tickets : x # t => opening'[x] = opening[x]
        /\ opening[t] = "sent" => opening'[t] = "done"
        /\ opening[t] # "sent" => opening[t] = "none"
    BY <1>2 DEF CreateCommitted, Lists, Statuses
  <2>2. UNCHANGED <<isAdmin, said, post, patch, screen, twice, since>>
    BY <1>2 DEF CreateCommitted
  <2>3. WatchedIsPending'
    BY <1>1, <2>1, <2>2 DEF WatchedIsPending, screen, Button, Watches
  <2>. QED  BY <2>1, <2>2, <2>3 DEF ScreenOK, screen
<1>3. CASE Submit(t)
  <2>1. /\ opening' \in [Tickets -> Places \ {"read"}] /\ opening'[t] = "sent"
        /\ watched' = [watched EXCEPT !.create = t]
        /\ UNCHANGED <<isAdmin, rows, post, patch, filter, lists, active, draft, twice, since>>
    BY <1>3 DEF Submit
  <2>2. watched' \in Watches
    BY <1>1, <2>1 DEF Watches
  <2>3. WatchedIsPending'
    BY <1>1, <2>1 DEF WatchedIsPending, Button, Watches
  <2>. QED  BY <2>1, <2>2, <2>3 DEF ScreenOK, rows
<1>4. CASE CreateAnswered(t)
  <2>1. /\ opening' \in [Tickets -> Places \ {"read"}]
        /\ \A x \in Tickets : x # t => opening'[x] = opening[x]
        /\ watched' = [watched EXCEPT !.create = IF @ = t THEN NoTicket ELSE @]
        /\ UNCHANGED <<isAdmin, rows, post, patch, filter, active, draft, twice, since>>
    BY <1>4 DEF CreateAnswered
  <2>2. lists' \in [Filters -> Entries(Lists)]
    BY <1>4, RefetchType DEF CreateAnswered, ScreenOK
  <2>3. watched' \in Watches
    BY <1>1, <2>1 DEF Watches
  <2>4. WatchedIsPending'
    BY <1>1, <2>1 DEF WatchedIsPending, Button, Watches
  <2>. QED  BY <2>1, <2>2, <2>3, <2>4 DEF ScreenOK, rows
<1>. QED  BY <1>2, <1>3, <1>4

LEMMA StepTypeOK == TypeOK /\ [Next]_vars => TypeOK'
<1>1. TypeOK /\ UNCHANGED vars => TypeOK'
  BY TypeParts
     DEF Parts, RowsOK, RequestsOK, ScreenOK, HistoryOK, WatchedIsPending, Button, vars, rows, screen
<1>. QED  BY <1>1, ReplyTypeOK, UpdateTypeOK, ElsewhereTypeOK, QueryTypeOK, BoxTypeOK, SendTypeOK,
             ReplyOverTypeOK, ClickTypeOK, AnsweredTypeOK, CreateTypeOK DEF Next

\* Every variable keeps its range, and a button waits only for a request that is
\* under way.
THEOREM TypeCorrect == Spec => []TypeOK
BY InitTypeOK, StepTypeOK, PTL DEF Spec

-----------------------------------------------------------------------------
(* Replies that overlap with resolutions.                                  *)

\* A user's reply that began since the last resolution and has yet to commit has
\* read the ticket as resolved, if it is.
BegunSince ==
    \A t \in Tickets : \A r \in since[t] :
        /\ post[r].at \in {"read", "done", "over"}
        /\ post[r].by = "user" /\ post[r].ticket = t
        /\ post[r].at = "read" /\ status[t] = "resolved" => post[r].saw = "resolved"

SaidIsOver == \A t \in Tickets : \A r \in said[t] : post[r].at \in {"done", "over"}

ReplyInv == TypeOK /\ BegunSince /\ SaidIsOver /\ NoReplyIsBuried

LEMMA InitReplyInv == Init => ReplyInv
BY InitTypeOK DEF Init, ReplyInv, BegunSince, SaidIsOver, NoReplyIsBuried

LEMMA CommitReplyInv ==
    ASSUME ReplyInv, NEW r \in Replies, ReplyCommitted(r)
    PROVE  BegunSince' /\ SaidIsOver' /\ NoReplyIsBuried'
<1> DEFINE t == post[r].ticket
<1> USE TypeParts DEF ReplyInv, Parts, RowsOK, RequestsOK, HistoryOK
<1>1. /\ post[r].at = "read" /\ t \in Tickets /\ since' = since
      /\ status' = [status EXCEPT ![t] = AfterReply(post[r].by, post[r].saw, @)]
      /\ said' = [said EXCEPT ![t] = @ \cup {r}]
      /\ post' = [post EXCEPT ![r].at = IF post[r].own THEN "done" ELSE "over", ![r].saw = "none"]
  BY DEF ReplyCommitted
<1>2. /\ \A x \in Replies : x # r => post'[x] = post[x]
      /\ post'[r].at \in {"done", "over"}
      /\ post'[r].by = post[r].by /\ post'[r].ticket = t
  BY <1>1 DEF Posts
<1>3. /\ \A x \in Tickets : x # t => status'[x] = status[x]
      /\ status'[t] = "resolved" => status[t] = "resolved"
      /\ post[r].by = "user" /\ post[r].saw = "resolved" => status'[t] = "open"
  BY <1>1 DEF AfterReply, Lists
<1>4. BegunSince'
  BY <1>1, <1>2, <1>3 DEF BegunSince
<1>5. SaidIsOver'
  BY <1>1, <1>2 DEF SaidIsOver
<1>6. NoReplyIsBuried'
  <2> SUFFICES ASSUME NEW x \in Tickets, NEW p \in Replies,
                      status'[x] = "resolved", p \in since[x], p \in said'[x]
               PROVE  FALSE
    BY <1>1 DEF NoReplyIsBuried
  <2>1. status[x] = "resolved"
    BY <1>3
  <2>2. p = r /\ x = t
    BY <1>1, <2>1 DEF NoReplyIsBuried
  <2>. QED  BY <1>1, <1>3, <2>1, <2>2 DEF BegunSince
<1>. QED  BY <1>4, <1>5, <1>6

LEMMA ReadReplyInv ==
    ASSUME ReplyInv, NEW r \in Replies, ReplyRead(r)
    PROVE  BegunSince' /\ SaidIsOver' /\ NoReplyIsBuried'
<1> DEFINE t == post[r].ticket
<1> USE TypeParts DEF ReplyInv, Parts, RowsOK, RequestsOK, HistoryOK
<1>0. status' = status
  BY DEF ReplyRead, rows
<1>1. /\ post[r].at = "sent" /\ t \in Tickets /\ status' = status /\ said' = said
      /\ post' = [post EXCEPT ![r].at = "read", ![r].saw = status[t]]
      /\ since' = [since EXCEPT ![t] = Begun(post[r].by, r, @)]
  BY DEF ReplyRead, rows
<1>2. /\ \A x \in Replies : x # r => post'[x] = post[x]
      /\ post'[r].at = "read" /\ post'[r].saw = status[t]
      /\ post'[r].by = post[r].by /\ post'[r].ticket = t
  BY <1>1 DEF Posts
<1>3. \A x \in Tickets, p \in Replies :
         p \in since'[x] => p \in since[x] \/ (x = t /\ p = r /\ post[r].by = "user")
  BY <1>1 DEF Begun
<1>4. \A x \in Tickets : r \notin said[x] /\ r \notin since[x]
  BY <1>1 DEF SaidIsOver, BegunSince
<1>5. BegunSince'
  <2> SUFFICES ASSUME NEW x \in Tickets, NEW p \in since'[x]
               PROVE  /\ post'[p].at \in {"read", "done", "over"}
                      /\ post'[p].by = "user" /\ post'[p].ticket = x
                      /\ post'[p].at = "read" /\ status[x] = "resolved" => post'[p].saw = "resolved"
    BY <1>0 DEF BegunSince
  <2>1. p \in Replies
    BY <1>1 DEF Begun
  <2>2. CASE p = r
    BY <1>2, <1>3, <1>4, <2>2
  <2>3. CASE p # r
    BY <1>2, <1>3, <2>1, <2>3 DEF BegunSince
  <2>. QED  BY <2>2, <2>3
<1>6. SaidIsOver'
  BY <1>1, <1>2, <1>4 DEF SaidIsOver
<1>7. NoReplyIsBuried'
  BY <1>1, <1>3, <1>4 DEF NoReplyIsBuried
<1>. QED  BY <1>5, <1>6, <1>7

LEMMA ElsewhereReplyInv ==
    ASSUME ReplyInv, NEW t \in Tickets, Elsewhere(t)
    PROVE  BegunSince' /\ SaidIsOver' /\ NoReplyIsBuried'
<1> USE TypeParts DEF ReplyInv, Parts, RowsOK, RequestsOK, HistoryOK
<1>1. status' = status /\ said' = said
  BY DEF Elsewhere, rows
<1>2. ASSUME NEW r \in Replies, NEW by \in {"user", "admin"}, post[r].at = "none",
             post' = [post EXCEPT ![r] = [NoPost EXCEPT !.at = "read", !.by = by,
                                                       !.ticket = t, !.saw = status[t]]],
             since' = [since EXCEPT ![t] = Begun(by, r, @)]
      PROVE  BegunSince' /\ SaidIsOver' /\ NoReplyIsBuried'
  <2>1. /\ \A x \in Replies : x # r => post'[x] = post[x]
        /\ post'[r].at = "read" /\ post'[r].saw = status[t]
        /\ post'[r].by = by /\ post'[r].ticket = t
    BY <1>2 DEF NoPost
  <2>2. \A x \in Tickets, p \in Replies :
           p \in since'[x] => p \in since[x] \/ (x = t /\ p = r /\ by = "user")
    BY <1>2 DEF Begun
  <2>3. \A x \in Tickets : r \notin said[x] /\ r \notin since[x]
    BY <1>2 DEF SaidIsOver, BegunSince
  <2>4. BegunSince'
    <3> SUFFICES ASSUME NEW x \in Tickets, NEW p \in since'[x]
                 PROVE  /\ post'[p].at \in {"read", "done", "over"}
                        /\ post'[p].by = "user" /\ post'[p].ticket = x
                        /\ post'[p].at = "read" /\ status[x] = "resolved" => post'[p].saw = "resolved"
      BY <1>1 DEF BegunSince
    <3>1. p \in Replies
      BY <1>2 DEF Begun
    <3>2. CASE p = r
      BY <2>1, <2>2, <2>3, <3>2
    <3>3. CASE p # r
      BY <2>1, <2>2, <3>1, <3>3 DEF BegunSince
    <3>. QED  BY <3>2, <3>3
  <2>5. SaidIsOver'
    BY <1>1, <2>1, <2>3 DEF SaidIsOver
  <2>6. NoReplyIsBuried'
    BY <1>1, <2>2, <2>3 DEF NoReplyIsBuried
  <2>. QED  BY <2>4, <2>5, <2>6
<1>3. CASE UNCHANGED <<post, since>>
  BY <1>1, <1>3 DEF BegunSince, SaidIsOver, NoReplyIsBuried
<1>. QED  BY <1>2, <1>3 DEF Elsewhere

LEMMA UpdateReplyInv ==
    ASSUME ReplyInv, NEW u \in Updates, UpdateCommitted(u)
    PROVE  BegunSince' /\ SaidIsOver' /\ NoReplyIsBuried'
<1> DEFINE t == patch[u].ticket
<1> USE TypeParts DEF ReplyInv, Parts, RowsOK, RequestsOK, HistoryOK
<1>1. /\ t \in Tickets /\ post' = post /\ said' = said
      /\ status' = [status EXCEPT ![t] = IF patch[u].saw = patch[u].to THEN @ ELSE patch[u].to]
      /\ since' = IF patch[u].to = "resolved" THEN [since EXCEPT ![t] = {}] ELSE since
  BY DEF UpdateCommitted
<1>2. \A x \in Tickets : \/ since'[x] = {}
                         \/ since'[x] = since[x] /\ (status'[x] = "resolved" => status[x] = "resolved")
  BY <1>1 DEF Lists
<1>. QED  BY <1>1, <1>2 DEF BegunSince, SaidIsOver, NoReplyIsBuried

LEMMA PostReplyInv ==
    ASSUME ReplyInv, NEW r \in Replies, Send(r) \/ ReplySucceeds(r) \/ ReplyErrors(r)
    PROVE  BegunSince' /\ SaidIsOver' /\ NoReplyIsBuried'
<1> USE TypeParts DEF ReplyInv, Parts, RowsOK, RequestsOK, HistoryOK
<1>1. status' = status /\ said' = said /\ since' = since
  BY DEF Send, ReplySucceeds, ReplyErrors, rows
<1>2. CASE Send(r)
  <2>1. /\ \A x \in Replies : x # r => post'[x] = post[x]
        /\ post[r].at = "none"
    BY <1>2 DEF Send
  <2>2. \A t \in Tickets : r \notin since[t] /\ r \notin said[t]
    BY <2>1 DEF BegunSince, SaidIsOver
  <2>. QED  BY <1>1, <2>1, <2>2 DEF BegunSince, SaidIsOver, NoReplyIsBuried
<1>3. CASE ReplySucceeds(r) \/ ReplyErrors(r)
  <2>1. post' = [post EXCEPT ![r].at = "over"]
    BY <1>3 DEF ReplySucceeds, ReplyErrors
  <2>2. /\ \A x \in Replies : x # r => post'[x] = post[x]
        /\ post'[r].at = "over" /\ post'[r].by = post[r].by /\ post'[r].ticket = post[r].ticket
    BY <2>1 DEF Posts
  <2>. QED  BY <1>1, <2>2 DEF BegunSince, SaidIsOver, NoReplyIsBuried
<1>. QED  BY <1>2, <1>3

LEMMA StepReplyInv == ReplyInv /\ [Next]_vars => ReplyInv'
<1> SUFFICES ASSUME ReplyInv, [Next]_vars
             PROVE  BegunSince' /\ SaidIsOver' /\ NoReplyIsBuried'
  BY StepTypeOK DEF ReplyInv
<1>1. CASE UNCHANGED <<rows, post, since>>
  BY <1>1 DEF rows, ReplyInv, BegunSince, SaidIsOver, NoReplyIsBuried
<1>2. ASSUME NEW t \in Tickets, CreateCommitted(t)
      PROVE  BegunSince' /\ SaidIsOver' /\ NoReplyIsBuried'
  BY <1>2, TypeParts DEF CreateCommitted, Parts, RowsOK, Lists, ReplyInv, BegunSince, SaidIsOver, NoReplyIsBuried
<1>3. ASSUME NEW u \in Updates, UpdateRead(u) \/ UpdateAnswered(u)
                                \/ \E s \in Statuses : ClickStatus(u, s)
      PROVE  UNCHANGED <<rows, post, since>>
  BY <1>3 DEF UpdateRead, UpdateAnswered, ClickStatus
<1>4. ASSUME NEW t \in Tickets, Submit(t) \/ CreateAnswered(t)
      PROVE  UNCHANGED <<rows, post, since>>
  BY <1>4 DEF Submit, CreateAnswered
<1>5. CASE \/ Poll \/ \E f \in Filters : Look(f) \/ ListServed(f) \/ ListArrives(f) \/ ListFails(f)
           \/ \E t \in Tickets \cup {NoTicket} : Select(t)
           \/ \E x \in Texts : Type(x)
  <2>1. UNCHANGED <<rows, post, since>>
    BY <1>5 DEF Poll, Look, ListServed, ListArrives, ListFails, Select, Type
  <2>. QED  BY <1>1, <2>1
<1>6. CASE UNCHANGED vars
  BY <1>1, <1>6 DEF vars
<1>. QED  BY <1>1, <1>2, <1>3, <1>4, <1>5, <1>6, CommitReplyInv, ReadReplyInv, ElsewhereReplyInv,
             UpdateReplyInv, PostReplyInv DEF Next

\* A reply of a user reopens its ticket, whatever it overlaps with.
THEOREM NoRepliesBuried == Spec => []NoReplyIsBuried
<1>1. ReplyInv => NoReplyIsBuried
  BY DEF ReplyInv
<1>. QED  BY <1>1, InitReplyInv, StepReplyInv, PTL DEF Spec

-----------------------------------------------------------------------------
(* Texts that are sent again.                                              *)

Stored(r) == \E t \in Tickets : r \in said[t]

\* The page waits for each of its replies until that reply is over, and a reply
\* of anybody else has no text here.
OwnIsWatched ==
    \A r \in Replies :
        /\ post[r].own /\ post[r].at # "over" => watched.reply = r
        /\ ~post[r].own => post[r].text = NoText
        /\ Stored(r) => post[r].at \in {"done", "over"}

\* A text that is stored is neither in the box nor on its way again.
NotAgain ==
    \A r \in Replies :
        post[r].own /\ Stored(r) /\ post[r].text \notin twice =>
            /\ post[r].at = "over" => draft # post[r].text
            /\ \A p \in Replies : p # r /\ post[p].own /\ post[p].text = post[r].text =>
                  post[p].at = "over" /\ ~Stored(p)

TextInv == TypeOK /\ OwnIsWatched /\ NotAgain

LEMMA InitTextInv == Init => TextInv
BY InitTypeOK DEF Init, TextInv, OwnIsWatched, NotAgain, Stored, NoPost

\* A step that stores nothing, sends nothing and puts nothing into the box.
LEMMA QuietTextInv ==
    ASSUME TextInv, twice' = twice, watched.reply' = watched.reply, draft' = draft,
           \A r \in Replies : /\ Stored(r)' <=> Stored(r)
                              /\ post'[r].own <=> post[r].own
                              /\ post'[r].text = post[r].text
                              /\ post'[r].at = "over" <=> post[r].at = "over"
                              /\ post'[r].at = "done" <=> post[r].at = "done"
    PROVE  OwnIsWatched' /\ NotAgain'
BY DEF TextInv, OwnIsWatched, NotAgain

LEMMA CommitTextInv ==
    ASSUME TextInv, NEW r \in Replies, ReplyCommitted(r)
    PROVE  OwnIsWatched' /\ NotAgain'
<1> USE TypeParts DEF TextInv, Parts, RowsOK, RequestsOK, HistoryOK
<1>1. /\ post[r].at = "read" /\ post[r].ticket \in Tickets
      /\ said' = [said EXCEPT ![post[r].ticket] = @ \cup {r}]
      /\ post' = [post EXCEPT ![r].at = IF post[r].own THEN "done" ELSE "over", ![r].saw = "none"]
      /\ twice' = twice /\ draft' = draft /\ watched' = watched
  BY DEF ReplyCommitted, screen
<1>2. /\ \A x \in Replies : /\ x # r => post'[x] = post[x]
                            /\ post'[x].own <=> post[x].own
                            /\ post'[x].text = post[x].text
      /\ post'[r].at = IF post[r].own THEN "done" ELSE "over"
  BY <1>1 DEF Posts
<1>3. \A x \in Replies : Stored(x)' <=> Stored(x) \/ x = r
  BY <1>1 DEF Stored
<1>4. OwnIsWatched'
  BY <1>1, <1>2, <1>3 DEF OwnIsWatched
<1>5. NotAgain'
  <2> SUFFICES ASSUME NEW x \in Replies, post[x].own, Stored(x) \/ x = r,
                      post[x].text \notin twice
               PROVE  /\ post'[x].at = "over" => draft # post[x].text
                      /\ \A p \in Replies : p # x /\ post[p].own /\ post[p].text = post[x].text =>
                            post'[p].at = "over" /\ ~(Stored(p) \/ p = r)
    BY <1>1, <1>2, <1>3 DEF NotAgain
  <2>1. CASE x = r
    <3>1. \A p \in Replies : p # r /\ post[p].own => post[p].at = "over"
      BY <1>1, <2>1 DEF OwnIsWatched
    <3>2. \A p \in Replies : p # r /\ post[p].own /\ post[p].text = post[r].text => ~Stored(p)
      BY <1>1, <2>1 DEF NotAgain
    <3>. QED  BY <1>2, <2>1, <3>1, <3>2
  <2>2. CASE x # r
    <3>1. Stored(x) /\ post'[x] = post[x]
      BY <1>2, <2>2
    <3>2. post[r].own => post[r].text # post[x].text
      BY <1>1, <2>2, <3>1 DEF NotAgain
    <3>. QED  BY <1>2, <2>2, <3>1, <3>2 DEF NotAgain
  <2>. QED  BY <2>1, <2>2
<1>. QED  BY <1>4, <1>5

LEMMA SendTextInv ==
    ASSUME TextInv, NEW r \in Replies, Send(r)
    PROVE  OwnIsWatched' /\ NotAgain'
<1> USE TypeParts DEF TextInv, Parts, RowsOK, RequestsOK, HistoryOK
<1>1. /\ watched.reply = NoReply /\ watched'.reply = r /\ post[r].at = "none"
      /\ twice' = twice /\ draft' = draft /\ said' = said
  BY DEF Send, CanSend, ScreenOK, Watches, rows
<1>2. /\ \A x \in Replies : x # r => post'[x] = post[x]
      /\ post'[r].at = "sent" /\ post'[r].own /\ post'[r].text = draft
  BY DEF Send
<1>3. \A x \in Replies : Stored(x)' <=> Stored(x)
  BY <1>1 DEF Stored
<1>4. ~Stored(r) /\ \A x \in Replies : post[x].own => post[x].at = "over"
  BY <1>1, DeskAssumption DEF OwnIsWatched
<1>5. OwnIsWatched'
  BY <1>1, <1>2, <1>3, <1>4 DEF OwnIsWatched
<1>6. NotAgain'
  BY <1>1, <1>2, <1>3, <1>4 DEF NotAgain
<1>. QED  BY <1>5, <1>6

LEMMA OverTextInv ==
    ASSUME TextInv, NEW r \in Replies, ReplySucceeds(r) \/ ReplyErrors(r)
    PROVE  OwnIsWatched' /\ NotAgain'
<1> USE TypeParts DEF TextInv, Parts, RowsOK, RequestsOK, HistoryOK
<1>1. /\ post' = [post EXCEPT ![r].at = "over"] /\ post[r].own /\ post[r].at # "over"
      /\ watched' = [watched EXCEPT !.reply = IF @ = r THEN NoReply ELSE @]
      /\ said' = said
  BY DEF ReplySucceeds, ReplyErrors, rows
<1>2. /\ \A x \in Replies : /\ x # r => post'[x] = post[x]
                            /\ post'[x].own <=> post[x].own
                            /\ post'[x].text = post[x].text
      /\ post'[r].at = "over"
  BY <1>1 DEF Posts
<1>3. /\ \A x \in Replies : Stored(x)' <=> Stored(x)
      /\ watched.reply = r
      /\ \A x \in Replies : x # r /\ post[x].own => post[x].at = "over"
  BY <1>1 DEF Stored, OwnIsWatched
<1>4. OwnIsWatched'
  BY <1>1, <1>2, <1>3 DEF OwnIsWatched
<1>5. CASE ReplySucceeds(r)
  <2>1. draft' = NoText /\ twice' = twice
    BY <1>3, <1>5 DEF ReplySucceeds
  <2>2. \A x \in Replies : post[x].own => post[x].text # NoText
    BY DeskAssumption
  <2>. QED  BY <1>2, <1>3, <1>4, <2>1, <2>2 DEF NotAgain
<1>6. CASE ReplyErrors(r)
  <2>1. /\ draft' = draft /\ twice \subseteq twice'
        /\ Stored(r) => post[r].text \in twice'
    BY <1>6 DEF ReplyErrors, OwnIsWatched
  <2>. QED  BY <1>2, <1>3, <1>4, <2>1 DEF NotAgain
<1>. QED  BY <1>5, <1>6

LEMMA StepTextInv == TextInv /\ [Next]_vars => TextInv'
<1> SUFFICES ASSUME TextInv, [Next]_vars
             PROVE  OwnIsWatched' /\ NotAgain'
  BY StepTypeOK DEF TextInv
<1> USE TypeParts DEF TextInv, Parts, RowsOK, RequestsOK
<1>1. ASSUME UNCHANGED <<post, said, twice, draft>>, watched'.reply = watched.reply
      PROVE  OwnIsWatched' /\ NotAgain'
  BY <1>1, QuietTextInv DEF Stored
<1>2. ASSUME NEW r \in Replies, ReplyRead(r)
      PROVE  OwnIsWatched' /\ NotAgain'
  <2>1. /\ UNCHANGED <<said, twice, draft, watched>> /\ post[r].at = "sent"
        /\ post' = [post EXCEPT ![r].at = "read", ![r].saw = status[post[r].ticket]]
    BY <1>2 DEF ReplyRead, rows, screen
  <2>2. \A x \in Replies : /\ post'[x].own <=> post[x].own
                           /\ post'[x].text = post[x].text
                           /\ post'[x].at = "over" <=> post[x].at = "over"
                           /\ post'[x].at = "done" <=> post[x].at = "done"
    BY <2>1 DEF Posts
  <2>. QED  BY <2>1, <2>2, QuietTextInv DEF Stored
<1>3. ASSUME NEW t \in Tickets, Elsewhere(t)
      PROVE  OwnIsWatched' /\ NotAgain'
  <2>1. UNCHANGED <<said, twice, draft, watched>>
    BY <1>3 DEF Elsewhere, rows, screen
  <2>2. \A x \in Replies : /\ post'[x].own <=> post[x].own
                           /\ post'[x].text = post[x].text
                           /\ post'[x].at = "over" <=> post[x].at = "over"
                           /\ post'[x].at = "done" <=> post[x].at = "done"
    <3>1. ASSUME NEW r \in Replies, NEW by \in {"user", "admin"}, post[r].at = "none",
                 post' = [post EXCEPT ![r] = [NoPost EXCEPT !.at = "read", !.by = by,
                                                           !.ticket = t, !.saw = status[t]]]
          PROVE  /\ \A x \in Replies : x # r => post'[x] = post[x]
                 /\ post'[r].text = NoText /\ ~post'[r].own /\ post'[r].at = "read"
                 /\ post[r].text = NoText /\ ~post[r].own
      <4>1. ~post[r].own
        BY <3>1, DeskAssumption DEF OwnIsWatched, WatchedIsPending
      <4>. QED  BY <3>1, <4>1 DEF NoPost, OwnIsWatched
    <3>2. CASE post' = post
      BY <3>2
    <3>. QED  BY <1>3, <3>1, <3>2 DEF Elsewhere
  <2>. QED  BY <2>1, <2>2, QuietTextInv DEF Stored
<1>4. ASSUME NEW x \in Texts, Type(x)
      PROVE  OwnIsWatched' /\ NotAgain'
  <2>1. /\ UNCHANGED <<post, said, twice, watched>>
        /\ draft' = x /\ \A r \in Replies : post[r].text # x
    BY <1>4 DEF Type, rows
  <2>. QED  BY <2>1 DEF OwnIsWatched, NotAgain, Stored
<1>5. ASSUME NEW u \in Updates, UpdateRead(u) \/ UpdateCommitted(u) \/ UpdateAnswered(u)
                                \/ \E s \in Statuses : ClickStatus(u, s)
      PROVE  OwnIsWatched' /\ NotAgain'
  <2>1. watched \in Watches
    BY DEF ScreenOK
  <2>2. UNCHANGED <<post, said, twice, draft>>
    BY <1>5 DEF UpdateRead, UpdateCommitted, UpdateAnswered, ClickStatus, rows, screen
  <2>3. watched'.reply = watched.reply
    BY <1>5, <2>1 DEF UpdateRead, UpdateCommitted, UpdateAnswered, ClickStatus, screen, Watch, Watches
  <2>. QED  BY <1>1, <2>2, <2>3
<1>6. ASSUME NEW t \in Tickets, CreateCommitted(t) \/ Submit(t) \/ CreateAnswered(t)
      PROVE  OwnIsWatched' /\ NotAgain'
  <2>1. watched \in Watches
    BY DEF ScreenOK
  <2>2. UNCHANGED <<post, said, twice, draft>> /\ watched'.reply = watched.reply
    BY <1>6, <2>1 DEF CreateCommitted, Submit, CreateAnswered, rows, screen, Watches
  <2>. QED  BY <1>1, <2>2
<1>7. CASE \/ Poll \/ \E f \in Filters : Look(f) \/ ListServed(f) \/ ListArrives(f) \/ ListFails(f)
           \/ \E t \in Tickets \cup {NoTicket} : Select(t)
  <2>1. UNCHANGED <<post, said, twice, draft, watched>>
    BY <1>7 DEF Poll, Look, ListServed, ListArrives, ListFails, Select, rows
  <2>. QED  BY <1>1, <2>1
<1>8. CASE UNCHANGED vars
  BY <1>1, <1>8 DEF vars, rows, screen
<1>. QED  BY <1>2, <1>3, <1>4, <1>5, <1>6, <1>7, <1>8, CommitTextInv, SendTextInv, OverTextInv
          DEF Next

\* However replies, errors and typing overlap, no text is stored twice whose
\* answer was not lost.
THEOREM TextsStoredOnce == Spec => []TextIsStoredOnce
<1>1. TextInv => TextIsStoredOnce
  <2> SUFFICES ASSUME TextInv, NEW t1 \in Tickets, NEW t2 \in Tickets,
                      NEW r1 \in said[t1], NEW r2 \in said[t2],
                      post[r1].text = post[r2].text, r1 # r2,
                      post[r1].text \notin twice, post[r1].text # NoText
               PROVE  FALSE
    BY DEF TextIsStoredOnce
  <2>1. r1 \in Replies /\ r2 \in Replies
    BY TypeParts DEF TextInv, Parts, RowsOK
  <2>2. Stored(r1) /\ Stored(r2) /\ post[r1].own /\ post[r2].own
    BY <2>1 DEF TextInv, OwnIsWatched, Stored
  <2>. QED  BY <2>1, <2>2 DEF TextInv, NotAgain
<1>. QED  BY <1>1, InitTextInv, StepTextInv, PTL DEF Spec
=============================================================================
