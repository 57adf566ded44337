---------------------------- MODULE ChatThreads ----------------------------
(***************************************************************************)
(* The conversations of pages/Chat.tsx, and the handlers of                *)
(* api/routers/conversations.py that keep them.  One browser tab, one      *)
(* account, and one document that a conversation may be about.  The page   *)
(* is opened with the document (/chat?document=...) or without; what its   *)
(* effects do is part of the action that makes them run.                   *)
(*                                                                         *)
(* The messages of a thread are the subject of ChatTurns.  The order of    *)
(* the list (updated_at) is left out: the first thread of a list is any.   *)
(***************************************************************************)
EXTENDS QueryCache

CONSTANTS
    Threads,        \* conversations, named by the request that creates them
    NoThread,
    Faults          \* what may go wrong in this instance

FaultKinds ==
    {"fetch",       \* the list, or the pinned document, cannot be fetched
     "refuse",      \* the server fails, or is not reached, before it commits
     "lost",        \* the answer to a create or a delete is lost
     "removal",     \* the document is deleted, from another tab
     "age"}         \* not a failure: a list outlives staleTime (30 s)

ASSUME ThreadAssumption == NoThread \notin Threads /\ Faults \subseteq FaultKinds

VARIABLES
    docRow,     \* the documents row exists
    live,       \* conversations that have a row
    scope,      \* conversations.document_id: the document's or general
    create,     \* create[c]: where POST /conversations stands
    delete,     \* delete[c]: where DELETE /conversations/c stands
    page,       \* what the page is opened for, or "away"
    convs,      \* the cache entry of ['conversations']
    active,     \* activeId
    auto,       \* autoCreatedDoc holds the document
    mine,       \* the creates and deletes that this mount started
    creating,   \* the create whose isPending the page observes
    spent,      \* history: the one automatic create of this visit came to
                \* nothing, its answer was lost, or a thread was deleted after it
    unheard     \* history: a change since the list was last read, of which no
                \* refetch was due to tell the page

rows == <<docRow, live>>
view == <<page, convs, active, auto, mine, creating, spent, unheard>>
vars == <<rows, scope, create, delete, view>>

Scopes == {"general", "document"}
Mounted == page # "away"
OfPage(C, p) == {c \in C : scope[c] = p}
\* visibleConversations
Visible == IF Loaded(convs) THEN OfPage(convs.data, page) ELSE {}

Init ==
    /\ docRow = TRUE
    /\ live = {}
    /\ scope = [c \in Threads |-> "general"]
    /\ create = [c \in Threads |-> "none"]
    /\ delete = [c \in Threads |-> "none"]
    /\ page = "away"
    /\ convs = Unloaded
    /\ active = NoThread
    /\ auto = FALSE
    /\ mine = {}
    /\ creating = NoThread
    /\ spent = FALSE
    /\ unheard = FALSE
-----------------------------------------------------------------------------
(* The server. *)

\* create_conversation
CreateCommitted(c) ==
    /\ create[c] = "sent"
    /\ scope[c] = "document" => docRow
    /\ live' = live \cup {c}
    /\ create' = [create EXCEPT ![c] = "done"]
    /\ UNCHANGED <<docRow, scope, delete, view>>

\* delete_conversation
DeleteCommitted(c) ==
    /\ delete[c] = "sent"
    /\ c \in live
    /\ live' = live \ {c}
    /\ delete' = [delete EXCEPT ![c] = "done"]
    /\ UNCHANGED <<docRow, scope, create, view>>

\* The foreign key of conversations cascades.
DocumentRemoved ==
    /\ "removal" \in Faults
    /\ docRow
    /\ docRow' = FALSE
    /\ live' = {c \in live : scope[c] # "document"}
    /\ unheard' = TRUE
    /\ UNCHANGED <<scope, create, delete, page, convs, active, auto, mine, creating, spent>>

\* What the server reads now holds every change so far.
ListServed ==
    /\ convs.fetch = "asked"
    /\ convs' = Serve(convs, live)
    /\ unheard' = FALSE
    /\ UNCHANGED <<rows, scope, create, delete, page, active, auto, mine, creating, spent>>
-----------------------------------------------------------------------------
(* The effects of the component. *)

\* Mutant of Pinned: any thread of the list is kept.
PinnedOrListed(entry, p, a) ==
    IF ~Loaded(entry) THEN {a}
    ELSE LET visible == OfPage(entry.data, p)
         IN IF a \in entry.data THEN {a}
            ELSE IF visible = {} THEN {NoThread} ELSE visible

\* Line 153: keep the active thread if it is visible, else take the first one.
Pinned(entry, p, a) ==
    IF ~Loaded(entry) THEN {a}
    ELSE LET visible == OfPage(entry.data, p)
         IN IF visible = {} THEN {NoThread}
            ELSE IF a \in visible THEN {a} ELSE visible

\* createConversation.mutate.  A bound: with every name used, the request fails.
Unused == {c \in Threads : create[c] = "none"}
Create(p) ==
    IF Unused = {}
    THEN UNCHANGED <<create, scope, mine, creating>>
    ELSE LET c == CHOOSE x \in Unused : TRUE
         IN /\ create' = [create EXCEPT ![c] = "sent"]
            /\ scope' = [scope EXCEPT ![c] = p]
            /\ mine' = mine \cup {<<"create", c>>}
            /\ creating' = c

\* Mutant of MustCreate: any thread of the list will do.
MustCreateIfEmpty(entry, p, done) ==
    /\ p = "document" /\ ~done
    /\ Loaded(entry) \/ ~Fetching(entry)
    /\ ~Loaded(entry) \/ entry.data = {}

\* Line 137: the document is pinned, the list is not loading (isLoading), and
\* it holds no thread of the document.
MustCreate(entry, p, done) ==
    /\ p = "document" /\ ~done
    /\ Loaded(entry) \/ ~Fetching(entry)
    /\ ~Loaded(entry) \/ OfPage(entry.data, p) = {}

AutoCreate(entry, p, done) ==
    IF MustCreate(entry, p, done)
    THEN auto' = TRUE /\ Create(p) /\ spent' = (spent \/ Unused = {})
    ELSE auto' = done /\ UNCHANGED <<create, scope, mine, creating, spent>>

\* A query mounts, or the window gets the focus: what was never loaded, or was
\* invalidated, is fetched, and what has become older than staleTime is too.
Mount(e) ==
    {x \in {e, Ask(e)} : /\ MustAsk(e) => x = Ask(e)
                         /\ "age" \notin Faults /\ ~MustAsk(e) => x = e}

\* Mutant of Refetch: the list is invalidated only while it is on screen.
RefetchOnScreen ==
    /\ convs' = IF Mounted THEN Invalidate(convs, TRUE) ELSE convs
    /\ unheard' = (unheard \/ (Mounted /\ convs.fetch = "served" /\ ~Loaded(convs)))

\* invalidateQueries(['conversations']).  It comes too late for a fetch that has
\* read its rows, is not replaced, and will clear the mark.
Refetch ==
    /\ convs' = Invalidate(convs, Mounted)
    /\ unheard' = (unheard \/ (convs.fetch = "served" /\ ~(Mounted /\ Loaded(convs))))
-----------------------------------------------------------------------------
(* Opening and leaving the page, and its list. *)

Open(p) ==
    /\ page = "away"
    /\ p \in Scopes
    /\ page' = p
    /\ convs' \in Mount(convs)
    /\ active' \in Pinned(convs', p, NoThread)
    /\ AutoCreate(convs', p, FALSE)
    /\ UNCHANGED <<rows, delete, unheard>>

\* Requests go on without the page; its setters no longer do anything.
Leave ==
    /\ Mounted
    /\ page' = "away"
    /\ active' = NoThread /\ auto' = FALSE
    /\ mine' = {} /\ creating' = NoThread /\ spent' = FALSE
    /\ UNCHANGED <<rows, scope, create, delete, convs, unheard>>

\* The pinned document cannot be fetched: a toast, and the page goes on without.
PinLost ==
    /\ page = "document"
    /\ ~docRow \/ "fetch" \in Faults
    /\ page' = "general" /\ auto' = FALSE /\ spent' = FALSE
    /\ active' \in Pinned(convs, "general", active)
    /\ UNCHANGED <<rows, scope, create, delete, convs, mine, creating, unheard>>

Refocus ==
    /\ Mounted
    /\ convs' \in Mount(convs)
    /\ UNCHANGED <<rows, scope, create, delete,
                   page, active, auto, mine, creating, spent, unheard>>

\* What the mounted page does with a list that changed.
ListChanges(entry) ==
    /\ convs' = entry
    /\ IF Mounted
       THEN active' \in Pinned(entry, page, active) /\ AutoCreate(entry, page, auto)
       ELSE UNCHANGED <<active, auto, create, scope, mine, creating, spent>>
    /\ UNCHANGED <<rows, delete, page, unheard>>

ListArrives == convs.fetch = "served" /\ ListChanges(Arrive(convs))

ListFails ==
    /\ "fetch" \in Faults
    /\ Fetching(convs)
    /\ ListChanges(Fail(convs))

\* A click on a thread of the list.
Select(c) ==
    /\ Mounted
    /\ c \in Visible \ {active}
    /\ active' = c
    /\ UNCHANGED <<rows, scope, create, delete,
                   page, convs, auto, mine, creating, spent, unheard>>

\* A turn of some thread ends with its done frame (ChatTurns).
TurnEnds ==
    /\ live # {}
    /\ Refetch
    /\ UNCHANGED <<rows, scope, create, delete, page, active, auto, mine, creating, spent>>
-----------------------------------------------------------------------------
(* Creating and deleting. *)

NewConversation ==
    /\ Mounted
    /\ creating = NoThread
    /\ Unused # {}
    /\ Create(page)
    /\ UNCHANGED <<rows, delete, page, convs, active, auto, spent, unheard>>

CreateOver(c) ==
    /\ create' = [create EXCEPT ![c] = "over"]
    /\ creating' = IF creating = c THEN NoThread ELSE creating
    /\ mine' = mine \ {<<"create", c>>}

\* onSuccess.  The list that is on screen lacks the new thread as a rule, and so
\* the effect puts the first thread of that list back.
CreateSucceeds(c) ==
    /\ create[c] = "done"
    /\ CreateOver(c)
    /\ Refetch
    /\ active' \in IF <<"create", c>> \in mine THEN Pinned(convs', page, c) ELSE {active}
    /\ UNCHANGED <<rows, scope, delete, page, auto, spent>>

\* The document is gone (404), or the request fails on its way or at the server.
CreateFailure(c) ==
    /\ create[c] = "sent"
    /\ "refuse" \in Faults \/ (scope[c] = "document" /\ ~docRow)

\* autoCreatedDoc is not reset: this visit does not try again.
Spend(c) ==
    spent' = (spent \/ (auto /\ scope[c] = "document" /\ <<"create", c>> \in mine))

\* Mutant of CreateErrors: an error leaves the mutation pending.
CreateErrorsPending(c) ==
    /\ CreateFailure(c)
    /\ create' = [create EXCEPT ![c] = "over"]
    /\ mine' = mine \ {<<"create", c>>}
    /\ Spend(c)
    /\ UNCHANGED <<rows, scope, delete, page, convs, active, auto, creating, unheard>>

\* The page has no onError: the list is not fetched again.
CreateErrors(c) ==
    /\ CreateFailure(c)
    /\ CreateOver(c)
    /\ Spend(c)
    /\ UNCHANGED <<rows, scope, delete, page, convs, active, auto, unheard>>

\* The thread is stored, and the page takes it for an error.
CreateLost(c) ==
    /\ "lost" \in Faults
    /\ create[c] = "done"
    /\ CreateOver(c)
    /\ Spend(c)
    /\ unheard' = TRUE
    /\ UNCHANGED <<rows, scope, delete, page, convs, active, auto>>

\* The buttons are never disabled; a second request for c would be refused.
ClickDelete(c) ==
    /\ Mounted
    /\ c \in Visible \cup ({active} \ {NoThread})
    /\ delete[c] = "none"
    /\ delete' = [delete EXCEPT ![c] = "sent"]
    /\ mine' = mine \cup {<<"delete", c>>}
    /\ spent' = (spent \/ (auto /\ scope[c] = "document"))
    /\ UNCHANGED <<rows, scope, create, page, convs, active, auto, creating, unheard>>

DeleteOver(c) ==
    /\ delete' = [delete EXCEPT ![c] = "over"]
    /\ mine' = mine \ {<<"delete", c>>}

\* onSuccess: the thread on screen is left, whichever was deleted, and the effect
\* takes one of the list as it was.  What it does to the messages: ChatTurns.
DeleteSucceeds(c) ==
    /\ delete[c] = "done"
    /\ DeleteOver(c)
    /\ Refetch
    /\ active' \in IF <<"delete", c>> \in mine THEN Pinned(convs', page, NoThread) ELSE {active}
    /\ UNCHANGED <<rows, scope, create, page, auto, creating, spent>>

\* The thread is gone already (404), or the request fails.  No onError here either.
DeleteRefused(c) ==
    /\ delete[c] = "sent"
    /\ "refuse" \in Faults \/ c \notin live
    /\ DeleteOver(c)
    /\ UNCHANGED <<rows, scope, create, page, convs, active, auto, creating, spent, unheard>>

\* The thread is gone, and stays on screen.
DeleteLost(c) ==
    /\ "lost" \in Faults
    /\ delete[c] = "done"
    /\ DeleteOver(c)
    /\ unheard' = TRUE
    /\ UNCHANGED <<rows, scope, create, page, convs, active, auto, creating, spent>>
-----------------------------------------------------------------------------
Next ==
    \/ \E p \in Scopes : Open(p)
    \/ Leave \/ PinLost \/ Refocus \/ NewConversation \/ TurnEnds
    \/ ListServed \/ ListArrives \/ ListFails \/ DocumentRemoved
    \/ \E c \in Threads :
          \/ CreateCommitted(c) \/ CreateSucceeds(c) \/ CreateErrors(c) \/ CreateLost(c)
          \/ DeleteCommitted(c) \/ DeleteSucceeds(c) \/ DeleteRefused(c) \/ DeleteLost(c)
          \/ Select(c) \/ ClickDelete(c)

Spec == Init /\ [][Next]_vars

\* The server does what it was asked and its answers come; of the list requests
\* not all are dropped for newer ones for ever.  Nobody need click.
FairSpec ==
    /\ Spec
    /\ SF_vars(ListServed) /\ SF_vars(ListArrives)
    /\ \A c \in Threads : WF_vars(CreateCommitted(c)) /\ WF_vars(CreateSucceeds(c))
-----------------------------------------------------------------------------
\* Ranges of the variables, and "New" waits for a request that has yet to be
\* answered.
TypeOK ==
    /\ creating # NoThread => create[creating] \in {"sent", "done"}
    /\ docRow \in BOOLEAN
    /\ live \subseteq Threads
    /\ scope \in [Threads -> Scopes]
    /\ create \in [Threads -> {"none", "sent", "done", "over"}]
    /\ delete \in [Threads -> {"none", "sent", "done", "over"}]
    /\ page \in Scopes \cup {"away"}
    /\ convs \in Entries(SUBSET Threads)
    /\ active \in Threads \cup {NoThread}
    /\ auto \in BOOLEAN
    /\ mine \subseteq {"create", "delete"} \X Threads
    /\ creating \in Threads \cup {NoThread}
    /\ spent \in BOOLEAN
    /\ unheard \in BOOLEAN

Settled == {"none", "over"}
Quiet == Loaded(convs) /\ ~convs.stale /\ ~Fetching(convs)

\* A list that is fresh, with no request under way, is the server's: no new
\* thread is missing from it and no deleted one stays, however creates, deletes,
\* their failures, fetches and visits to the page overlap; unless an answer was
\* lost or came too late for a first fetch and the list was not read since.
QuietListIsTrue ==
    /\ Quiet /\ ~unheard
    /\ \A c \in Threads : create[c] \in Settled /\ delete[c] \in Settled
    => convs.data = live

\* The thread on screen is one of the pinned document, or a general one when
\* none is pinned, and there is one if the list has one (Chat.tsx 151), whatever
\* happens to the list, the document and the threads meanwhile.
ActiveIsOfPage ==
    Mounted /\ Loaded(convs) =>
        active \in IF Visible = {} THEN {NoThread} ELSE Visible

\* "so each document gets its own fresh conversation" (Chat.tsx 134): a visit with
\* a document comes to show a thread of it, unless it ends or the document goes,
\* the list fails or was not told of a change, or the visit has spent its one try.
DocumentGetsThread ==
    page = "document" ~>
        \/ page # "document" \/ active # NoThread \/ ~docRow \/ spent
        \/ unheard \/ (convs.stale /\ ~Fetching(convs))

\* Chat.tsx 134: "Auto-create a document-scoped thread when a document is pinned
\* and has none yet".
AutoCreateIsFirst ==
    [][~auto /\ auto' =>
          \A c \in Threads : scope[c] = "document" => c \notin live /\ create[c] # "sent"]_vars
=============================================================================
