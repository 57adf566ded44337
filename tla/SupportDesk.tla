---------------------------- MODULE SupportDesk ----------------------------
(***************************************************************************)
(* pages/Support.tsx in one browser tab, of a user or of an administrator, *)
(* against the handlers of api/routers/support.py, which other tabs and    *)
(* other people call at the same time.  The tickets are those of one       *)
(* account, and the page stays open.                                       *)
(*                                                                         *)
(* Tickets, messages and status changes are named by their requests.  Left *)
(* out: subjects, the order of the list, the first message of a ticket and *)
(* the text of the form that opens one.                                    *)
(***************************************************************************)
EXTENDS QueryCache, Naturals, FiniteSets

CONSTANTS
    Tickets, NoTicket,
    Replies, NoReply,   \* requests that send a message
    Texts, NoText,      \* what may be typed into the box
    Updates, NoUpdate,  \* requests that change a status
    Filters,            \* statusFilters; a user's list stays at the first
    MaxRequests,        \* a bound: replies and status changes in one behaviour
    Faults              \* what may go wrong in this instance

FaultKinds == {"fetch", "lost", "refuse"}
Statuses == {"open", "pending", "resolved"}

ASSUME DeskAssumption ==
    /\ NoTicket \notin Tickets /\ NoReply \notin Replies /\ NoUpdate \notin Updates
    /\ NoText \notin Texts /\ MaxRequests \in Nat
    /\ "open" \in Filters /\ Filters \subseteq Statuses
    /\ Faults \subseteq FaultKinds

VARIABLES
    isAdmin,    \* the role of the account of this tab
    status,     \* support_threads.status, "none" without a row
    said,       \* said[t]: the messages rows of t
    post,       \* post[r]: where the request stands, and what it has read
    patch,      \* patch[u]: the same of a request that changes a status
    opening,    \* opening[t]: the request of this tab that creates t
    filter,     \* statusFilter
    lists,      \* the cache entries of ['support-threads', isAdmin, filter]
    active,     \* activeThread
    draft,      \* reply, the text in the box
    watched,    \* the mutations whose isPending the page observes
    twice,      \* history: texts whose answer was lost and may be sent again
    since       \* history: user's replies begun since the ticket was last resolved

rows == <<status, said>>
screen == <<filter, lists, active, draft, watched>>
vars == <<isAdmin, rows, post, patch, opening, screen, twice, since>>

NoPost == [at |-> "none", by |-> "user", ticket |-> NoTicket, text |-> NoText,
           saw |-> "none", own |-> FALSE]
NoPatch == [at |-> "none", ticket |-> NoTicket, to |-> "open", saw |-> "none", own |-> FALSE]
Unwatched == [reply |-> NoReply, resolve |-> NoUpdate, reopen |-> NoUpdate, create |-> NoTicket]

Places == {"none", "sent", "read", "done", "over"}

\* What my_threads and all_threads answer.
Threads(f) ==
    [t \in Tickets |->
        IF isAdmin /\ status[t] # f THEN "none" ELSE status[t]]

Shown == IF Loaded(lists[filter]) THEN lists[filter].data
         ELSE [t \in Tickets |-> "none"]
\* current
HasCurrent == active # NoTicket /\ Shown[active] # "none"

\* Requests differ only by their names, so a new one takes a fixed unused name.
NextReply == CHOOSE r \in Replies : post[r].at = "none"

MoreRequests ==
    Cardinality({r \in Replies : post[r].at # "none"})
        + Cardinality({u \in Updates : patch[u].at # "none"}) < MaxRequests

Init ==
    /\ isAdmin \in BOOLEAN
    /\ status = [t \in Tickets |-> "none"]
    /\ said = [t \in Tickets |-> {}]
    /\ post = [r \in Replies |-> NoPost]
    /\ patch = [u \in Updates |-> NoPatch]
    /\ opening = [t \in Tickets |-> "none"]
    /\ filter = "open"
    /\ lists = [f \in Filters |-> IF f = "open" THEN Ask(Unloaded) ELSE Unloaded]
    /\ active = NoTicket /\ draft = NoText /\ watched = Unwatched
    /\ twice = {} /\ since = [t \in Tickets |-> {}]
-----------------------------------------------------------------------------
(* The server.  A handler reads the row, and later commits what it changed. *)

CreateCommitted(t) ==
    /\ status[t] = "none"
    /\ \/ opening[t] = "sent" /\ opening' = [opening EXCEPT ![t] = "done"]
       \/ opening[t] = "none" /\ opening' = [opening EXCEPT ![t] = "over"]  \* elsewhere
    /\ status' = [status EXCEPT ![t] = "open"]
    /\ UNCHANGED <<isAdmin, said, post, patch, screen, twice, since>>

Begun(by, r, before) == IF by = "user" THEN before \cup {r} ELSE before

\* reply_to_thread as far as the commit, with the status it has loaded.
ReplyRead(r) ==
    /\ post[r].at = "sent"
    /\ post' = [post EXCEPT ![r].at = "read", ![r].saw = status[post[r].ticket]]
    /\ since' = [since EXCEPT ![post[r].ticket] = Begun(post[r].by, r, @)]
    /\ UNCHANGED <<isAdmin, rows, patch, opening, screen, twice>>

\* Mutant of AfterReply: nothing reopens a ticket.
AfterReplyAsIs(by, saw, now) == IF by = "admin" /\ saw = "open" THEN "pending" ELSE now

\* The status a reply leaves: written only where the handler changes it.
AfterReply(by, saw, now) ==
    IF by = "admin" /\ saw = "open" THEN "pending"
    ELSE IF by = "user" /\ saw = "resolved" THEN "open"
    ELSE now

ReplyCommitted(r) ==
    /\ post[r].at = "read"
    /\ LET t == post[r].ticket
       IN /\ status' = [status EXCEPT ![t] = AfterReply(post[r].by, post[r].saw, @)]
          /\ said' = [said EXCEPT ![t] = @ \cup {r}]
    /\ post' = [post EXCEPT ![r].at = IF post[r].own THEN "done" ELSE "over", ![r].saw = "none"]
    /\ UNCHANGED <<isAdmin, patch, opening, screen, twice, since>>

UpdateRead(u) ==
    /\ patch[u].at = "sent"
    /\ patch' = [patch EXCEPT ![u].at = "read", ![u].saw = status[patch[u].ticket]]
    /\ UNCHANGED <<isAdmin, rows, post, opening, screen, twice, since>>

\* update_status; the row is written only if it was loaded with another status.
UpdateCommitted(u) ==
    /\ patch[u].at = "read"
    /\ LET p == patch[u]
       IN /\ status' = [status EXCEPT ![p.ticket] = IF p.saw = p.to THEN @ ELSE p.to]
          /\ since' = IF p.to = "resolved" THEN [since EXCEPT ![p.ticket] = {}] ELSE since
          /\ patch' = [patch EXCEPT ![u].at = IF p.own THEN "done" ELSE "over", ![u].saw = "none"]
    /\ UNCHANGED <<isAdmin, said, post, opening, screen, twice>>

\* Requests of other tabs and of other people, as the server takes them up.
Elsewhere(t) ==
    /\ status[t] # "none" /\ MoreRequests
    /\ \/ \E r \in Replies, by \in {"user", "admin"} :
            /\ post[r].at = "none" /\ r = NextReply
            /\ post' = [post EXCEPT ![r] = [NoPost EXCEPT !.at = "read", !.by = by,
                                                       !.ticket = t, !.saw = status[t]]]
            /\ since' = [since EXCEPT ![t] = Begun(by, r, @)]
            /\ UNCHANGED patch
       \/ \E u \in Updates, s \in {"open", "resolved"} :
            /\ patch[u].at = "none"
            /\ patch' = [patch EXCEPT ![u] = [NoPatch EXCEPT !.at = "read", !.ticket = t,
                                                         !.to = s, !.saw = status[t]]]
            /\ UNCHANGED <<post, since>>
    /\ UNCHANGED <<isAdmin, rows, opening, screen, twice>>
-----------------------------------------------------------------------------
(* The query, polled every five seconds. *)

Entry(f, e) == lists' = [lists EXCEPT ![f] = e]

\* The inbox is turned to another filter.
Look(f) ==
    /\ isAdmin /\ f # filter
    /\ filter' = f
    /\ \/ Entry(f, Ask(lists[f]))
       \/ ~MustAsk(lists[f]) /\ UNCHANGED lists
    /\ UNCHANGED <<isAdmin, rows, post, patch, opening, active, draft, watched, twice, since>>

\* Mutant of Poll: a tick asks only while an open ticket is shown.
PollUnsettled ==
    /\ ~Fetching(lists[filter])
    /\ Entry(filter, IF \E t \in Tickets : Shown[t] = "open" THEN Ask(lists[filter])
                     ELSE lists[filter])
    /\ UNCHANGED <<isAdmin, rows, post, patch, opening, filter, active, draft,
                   watched, twice, since>>

\* refetchInterval
Poll ==
    /\ ~Fetching(lists[filter])
    /\ Entry(filter, Ask(lists[filter]))
    /\ UNCHANGED <<isAdmin, rows, post, patch, opening, filter, active, draft,
                   watched, twice, since>>

ListServed(f) ==
    /\ lists[f].fetch = "asked"
    /\ Entry(f, Serve(lists[f], Threads(f)))
    /\ UNCHANGED <<isAdmin, rows, post, patch, opening, filter, active, draft,
                   watched, twice, since>>

ListArrives(f) ==
    /\ lists[f].fetch = "served"
    /\ Entry(f, Arrive(lists[f]))
    /\ UNCHANGED <<isAdmin, rows, post, patch, opening, filter, active, draft,
                   watched, twice, since>>

ListFails(f) ==
    /\ "fetch" \in Faults
    /\ Fetching(lists[f])
    /\ Entry(f, Fail(lists[f]))
    /\ UNCHANGED <<isAdmin, rows, post, patch, opening, filter, active, draft,
                   watched, twice, since>>

\* invalidate
Refetch == lists' = [f \in Filters |-> Invalidate(lists[f], filter = f)]
-----------------------------------------------------------------------------
(* Reading and writing. *)

\* A row of the list, "New" or "Back to list"; the text in the box stays.
Select(t) ==
    /\ t = NoTicket \/ (t \in Tickets /\ Shown[t] # "none")
    /\ t # active
    /\ active' = t
    /\ UNCHANGED <<isAdmin, rows, post, patch, opening, filter, lists, draft,
                   watched, twice, since>>

\* The box is never disabled: one may type while a reply is being sent.
Type(x) ==
    /\ HasCurrent
    /\ draft # x /\ \A r \in Replies : post[r].text # x
    /\ draft' = x
    /\ UNCHANGED <<isAdmin, rows, post, patch, opening, filter, lists, active,
                   watched, twice, since>>

\* Mutant of CanSend: the button is not disabled while a reply is being sent.
CanSendAgain == HasCurrent /\ draft # NoText

CanSend == HasCurrent /\ draft # NoText /\ watched.reply = NoReply

Send(r) ==
    /\ CanSend
    /\ post[r].at = "none" /\ r = NextReply /\ MoreRequests
    /\ post' = [post EXCEPT ![r] =
                   [at |-> "sent", by |-> IF isAdmin THEN "admin" ELSE "user",
                    ticket |-> active, text |-> draft, saw |-> "none", own |-> TRUE]]
    /\ watched' = [watched EXCEPT !.reply = r]
    /\ UNCHANGED <<isAdmin, rows, patch, opening, filter, lists, active, draft,
                   twice, since>>

\* onSuccess: the box is emptied, whatever was typed into it meanwhile.
ReplySucceeds(r) ==
    /\ post[r].at = "done" /\ post[r].own
    /\ post' = [post EXCEPT ![r].at = "over"]
    /\ draft' = IF watched.reply = r THEN NoText ELSE draft
    /\ watched' = [watched EXCEPT !.reply = IF @ = r THEN NoReply ELSE @]
    /\ Refetch
    /\ UNCHANGED <<isAdmin, rows, patch, opening, filter, active, twice, since>>

\* Mutant of ReplyErrors: an error leaves the mutation pending.
ReplyErrorsPending(r) ==
    /\ post[r].own
    /\ \/ "refuse" \in Faults /\ post[r].at = "sent" /\ UNCHANGED twice
       \/ "lost" \in Faults /\ post[r].at = "done" /\ twice' = twice \cup {post[r].text}
    /\ post' = [post EXCEPT ![r].at = "over"]
    /\ UNCHANGED <<isAdmin, rows, patch, opening, filter, lists, active, draft, watched, since>>

\* onError: a toast; the text stays in the box and may be sent again.
ReplyErrors(r) ==
    /\ post[r].own
    /\ \/ "refuse" \in Faults /\ post[r].at = "sent" /\ UNCHANGED twice
       \/ "lost" \in Faults /\ post[r].at = "done" /\ twice' = twice \cup {post[r].text}
    /\ post' = [post EXCEPT ![r].at = "over"]
    /\ watched' = [watched EXCEPT !.reply = IF @ = r THEN NoReply ELSE @]
    /\ UNCHANGED <<isAdmin, rows, patch, opening, filter, lists, active, draft, since>>
-----------------------------------------------------------------------------
(* Resolving and reopening: one button of an administrator, chosen by the  *)
(* status that is shown, and disabled while its own mutation is pending.   *)

Button(s) == IF s = "resolved" THEN watched.resolve ELSE watched.reopen
Watch(s, u) == IF s = "resolved" THEN [watched EXCEPT !.resolve = u]
               ELSE [watched EXCEPT !.reopen = u]

ClickStatus(u, s) ==
    /\ isAdmin /\ HasCurrent
    /\ s = IF Shown[active] = "resolved" THEN "open" ELSE "resolved"
    /\ Button(s) = NoUpdate
    /\ patch[u].at = "none" /\ MoreRequests
    /\ patch' = [patch EXCEPT ![u] =
                    [at |-> "sent", ticket |-> active, to |-> s, saw |-> "none", own |-> TRUE]]
    /\ watched' = Watch(s, u)
    /\ UNCHANGED <<isAdmin, rows, post, opening, filter, lists, active, draft,
                   twice, since>>

\* onSuccess, or onError, which is a toast.
UpdateAnswered(u) ==
    /\ patch[u].own
    /\ \/ patch[u].at = "done" /\ Refetch
       \/ "lost" \in Faults /\ patch[u].at = "done" /\ UNCHANGED lists
       \/ "refuse" \in Faults /\ patch[u].at = "sent" /\ UNCHANGED lists
    /\ patch' = [patch EXCEPT ![u].at = "over"]
    /\ watched' = IF Button(patch[u].to) = u THEN Watch(patch[u].to, NoUpdate) ELSE watched
    /\ UNCHANGED <<isAdmin, rows, post, opening, filter, active, draft, twice, since>>

\* The form of a new ticket.
Submit(t) ==
    /\ ~isAdmin /\ active = NoTicket
    /\ watched.create = NoTicket
    /\ opening[t] = "none"
    /\ opening' = [opening EXCEPT ![t] = "sent"]
    /\ watched' = [watched EXCEPT !.create = t]
    /\ UNCHANGED <<isAdmin, rows, post, patch, filter, lists, active, draft,
                   twice, since>>

CreateAnswered(t) ==
    /\ \/ opening[t] = "done" /\ Refetch
       \/ "lost" \in Faults /\ opening[t] = "done" /\ UNCHANGED lists
       \/ "refuse" \in Faults /\ opening[t] = "sent" /\ UNCHANGED lists
    /\ opening' = [opening EXCEPT ![t] = "over"]
    /\ watched' = [watched EXCEPT !.create = IF @ = t THEN NoTicket ELSE @]
    /\ UNCHANGED <<isAdmin, rows, post, patch, filter, active, draft, twice, since>>
-----------------------------------------------------------------------------
Next ==
    \/ \E t \in Tickets : CreateCommitted(t) \/ Elsewhere(t) \/ Submit(t) \/ CreateAnswered(t)
    \/ \E r \in Replies :
          ReplyRead(r) \/ ReplyCommitted(r) \/ Send(r) \/ ReplySucceeds(r) \/ ReplyErrors(r)
    \/ \E u \in Updates :
          \/ UpdateRead(u) \/ UpdateCommitted(u) \/ UpdateAnswered(u)
          \/ \E s \in Statuses : ClickStatus(u, s)
    \/ \E f \in Filters : Look(f) \/ ListServed(f) \/ ListArrives(f) \/ ListFails(f)
    \/ \E t \in Tickets \cup {NoTicket} : Select(t)
    \/ \E x \in Texts : Type(x)
    \/ Poll

Spec == Init /\ [][Next]_vars

\* The interval ticks, and of the lists asked for not all fail for ever.
FairSpec ==
    /\ Spec
    /\ WF_vars(Poll)
    /\ \A f \in Filters : SF_vars(ListServed(f)) /\ SF_vars(ListArrives(f))
-----------------------------------------------------------------------------
\* What a button waits for is a request that has yet to be answered.
WatchedIsPending ==
    /\ watched.reply # NoReply =>
          post[watched.reply].own /\ post[watched.reply].at \in {"sent", "read", "done"}
    /\ \A s \in {"open", "resolved"} :
          Button(s) # NoUpdate =>
              /\ patch[Button(s)].own /\ patch[Button(s)].to = s
              /\ patch[Button(s)].at \in {"sent", "read", "done"}
    /\ watched.create # NoTicket => opening[watched.create] \in {"sent", "done"}

\* Ranges of the variables, and no button stays disabled without a reason.
TypeOK ==
    /\ WatchedIsPending
    /\ \A r \in Replies : /\ post[r].at # "none" => post[r].ticket \in Tickets
                          /\ post[r].own => post[r].text \in Texts
    /\ \A u \in Updates : patch[u].at # "none" => patch[u].ticket \in Tickets
    /\ isAdmin \in BOOLEAN
    /\ status \in [Tickets -> Statuses \cup {"none"}]
    /\ said \in [Tickets -> SUBSET Replies]
    /\ post \in [Replies -> [at : Places, by : {"user", "admin"}, ticket : Tickets \cup {NoTicket},
                             text : Texts \cup {NoText}, saw : Statuses \cup {"none"}, own : BOOLEAN]]
    /\ patch \in [Updates -> [at : Places, ticket : Tickets \cup {NoTicket}, to : Statuses,
                              saw : Statuses \cup {"none"}, own : BOOLEAN]]
    /\ opening \in [Tickets -> Places \ {"read"}]
    /\ filter \in Filters
    /\ lists \in [Filters -> Entries([Tickets -> Statuses \cup {"none"}])]
    /\ active \in Tickets \cup {NoTicket}
    /\ draft \in Texts \cup {NoText}
    /\ watched \in [reply : Replies \cup {NoReply}, resolve : Updates \cup {NoUpdate},
                    reopen : Updates \cup {NoUpdate}, create : Tickets \cup {NoTicket}]
    /\ twice \subseteq Texts
    /\ since \in [Tickets -> SUBSET Replies]

\* "Sending a reply reopens the ticket" (Support.tsx 309): no ticket is left
\* resolved with a user's reply that the server took up after the resolution,
\* however replies, resolutions and reopenings overlap.
NoReplyIsBuried ==
    \A t \in Tickets, r \in Replies :
        status[t] = "resolved" /\ r \in since[t] => r \notin said[t]

\* A text of the box is stored once, unless the answer to it was lost or the
\* page was left: switching tickets, typing on and errors do not send it again.
TextIsStoredOnce ==
    \A t1, t2 \in Tickets : \A r1 \in said[t1], r2 \in said[t2] :
        post[r1].text = post[r2].text /\ r1 # r2 => post[r1].text \in twice \cup {NoText}

\* A list on screen comes to show what the server has, replies and changes of
\* others included, unless the user leaves it.
ListCatchesUp ==
    \A f \in Filters :
        filter = f ~> filter # f \/ Shown = Threads(f)
=============================================================================
