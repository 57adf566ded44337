----------------------------- MODULE UsersPage -----------------------------
(***************************************************************************)
(* pages/Users.tsx in one browser tab of an administrator, against the     *)
(* handlers of api/routers/admin.py that other administrators call too.    *)
(*                                                                         *)
(* Accounts here are those an administrator may act on; the rows of        *)
(* administrators have no buttons.  Sessions are the subject of Accounts,  *)
(* the stores of AdminDeletion.  The numbers of the details are left out.  *)
(***************************************************************************)
EXTENDS QueryCache

CONSTANTS
    Users, NoUser,
    Changes, NoChange,  \* requests that ban or unban
    Faults              \* what may go wrong in this instance

FaultKinds ==
    {"fetch",       \* the list cannot be fetched
     "lost",        \* the answer to a request is lost
     "refuse",      \* the server fails before it commits
     "partial",     \* a store cannot be cleaned: 502, after the commit
     "elsewhere"}   \* not a failure: registrations and other administrators

ASSUME UsersAssumption ==
    NoUser \notin Users /\ NoChange \notin Changes /\ Faults \subseteq FaultKinds

VARIABLES
    row,        \* the users row and its is_active
    change,     \* change[s]: a status request: where it stands, what it has read
    removal,    \* removal[u]: where the request of this tab that deletes u stands
    mounted,    \* the page is on screen
    list,       \* the cache entry of ['admin-users']
    isError,    \* the latest fetch failed
    selectedId, \* whose details are open
    deleteTarget, \* whom the dialog asks about
    watched,    \* the mutations whose isPending the mounted page observes
    unheard,    \* history: users with a change since the list was last read
                \* of which no refetch was due to tell the page
    after       \* history: after[s]: s once it has committed, and the rivals that
                \* have committed since s was read

server == <<row, change, after>>
dialogs == <<selectedId, deleteTarget>>
page == <<mounted, list, isError, dialogs, watched>>
vars == <<server, removal, page, unheard>>

NoRequest == [at |-> "none", user |-> NoUser, to |-> "active", saw |-> "none", own |-> FALSE]
Unwatched == [change |-> NoChange, removal |-> NoUser]

\* What admin_users answers.
Listed == [u \in Users |-> IF row[u] \in {"active", "banned"} THEN row[u] ELSE "absent"]
Shown(u) == IF Loaded(list) THEN list.data[u] ELSE "absent"
\* The table is on screen: a failed refetch shows a card in its place.
Table == mounted /\ ~isError

Init ==
    /\ row = [u \in Users |-> "none"]
    /\ change = [s \in Changes |-> NoRequest]
    /\ removal = [u \in Users |-> "none"]
    /\ mounted = FALSE /\ list = Unloaded /\ isError = FALSE
    /\ selectedId = NoUser /\ deleteTarget = NoUser /\ watched = Unwatched
    /\ unheard = {} /\ after = [s \in Changes |-> {}]
-----------------------------------------------------------------------------
(* The server. *)

\* The change of a user that the page is not told of.
Silently(u) == unheard' = unheard \cup {u}

Registered(u) ==
    /\ row[u] = "none"
    /\ row' = [row EXCEPT ![u] = "active"]
    /\ Silently(u)
    /\ UNCHANGED <<change, after, removal, page>>

\* _get_managed_user in admin_set_user_status.
StatusRead(s) ==
    /\ change[s].at = "sent"
    /\ row[change[s].user] # "gone"
    /\ change' = [change EXCEPT ![s].at = "read", ![s].saw = row[change[s].user]]
    /\ UNCHANGED <<row, after, removal, page, unheard>>

\* What was read before the commit of s and wants the other status, and s itself.
Marks(s) ==
    {s} \cup {x \in Changes : /\ change[x].user = change[s].user /\ change[x].to # change[s].to
                              /\ change[x].at = "read" \/ x \in after[x]}

\* Mutant of StatusAfter: the request turns the status round.
StatusToggled(s) == IF change[s].saw = "active" THEN "banned" ELSE "active"

\* is_active as the commit leaves it: written only if it was loaded with the other
\* status.
StatusAfter(s) ==
    IF change[s].saw = change[s].to THEN row[change[s].user] ELSE change[s].to

\* The commit.  The row may have changed, but not gone, since it was loaded.
StatusCommitted(s) ==
    LET u == change[s].user
    IN /\ change[s].at = "read"
       /\ row[u] # "gone"
       /\ row' = [row EXCEPT ![u] = StatusAfter(s)]
       /\ change' = [change EXCEPT ![s].at = IF change[s].own THEN "done" ELSE "over",
                                   ![s].saw = "none"]
       /\ after' = [x \in Changes |-> IF x \in Marks(s) THEN after[x] \cup {s} ELSE after[x]]
       /\ IF change[s].own THEN UNCHANGED unheard ELSE Silently(u)
       /\ UNCHANGED <<removal, page>>

\* admin_delete_user; "partial": the stores could not all be cleaned.
RemovalCommitted(u) ==
    /\ removal[u] = "sent"
    /\ row[u] # "gone"
    /\ row' = [row EXCEPT ![u] = "gone"]
    /\ \/ removal' = [removal EXCEPT ![u] = "done"]
       \/ "partial" \in Faults /\ removal' = [removal EXCEPT ![u] = "partial"]
    /\ UNCHANGED <<change, after, page, unheard>>

\* Another administrator.
Elsewhere(u) ==
    /\ "elsewhere" \in Faults
    /\ row[u] \in {"active", "banned"}
    /\ \/ \E s \in Changes, to \in {"active", "banned"} :
            /\ change[s].at = "none"
            /\ change' = [change EXCEPT ![s] = [at |-> "sent", user |-> u, to |-> to,
                                                saw |-> "none", own |-> FALSE]]
            /\ UNCHANGED <<row, unheard>>
       \/ /\ row' = [row EXCEPT ![u] = "gone"]
          /\ Silently(u)
          /\ UNCHANGED change
    /\ UNCHANGED <<after, removal, page>>
-----------------------------------------------------------------------------
(* The query; retry is off, nothing polls. *)

Asked(e) == list' = Ask(e) /\ isError' = (isError /\ Loaded(e))

Open ==
    /\ ~mounted
    /\ mounted' = TRUE
    /\ Asked(list) \/ (~MustAsk(list) /\ UNCHANGED <<list, isError>>)
    /\ UNCHANGED <<server, removal, dialogs, watched, unheard>>

Leave ==
    /\ mounted
    /\ mounted' = FALSE
    /\ selectedId' = NoUser /\ deleteTarget' = NoUser /\ watched' = Unwatched
    /\ UNCHANGED <<server, removal, list, isError, unheard>>

\* The window gets the focus, and the list is invalidated or older than 30 s.
Refocus ==
    /\ mounted
    /\ Asked(list)
    /\ UNCHANGED <<server, removal, mounted, dialogs, watched, unheard>>

\* What the server reads now holds every change so far.
ListServed ==
    /\ list.fetch = "asked"
    /\ list' = Serve(list, Listed)
    /\ unheard' = {}
    /\ UNCHANGED <<server, removal, mounted, isError, dialogs, watched>>

ListArrives ==
    /\ list.fetch = "served"
    /\ list' = Arrive(list) /\ isError' = FALSE
    /\ UNCHANGED <<server, removal, mounted, dialogs, watched, unheard>>

ListFails ==
    /\ "fetch" \in Faults
    /\ Fetching(list)
    /\ list' = Fail(list) /\ isError' = TRUE
    /\ UNCHANGED <<server, removal, mounted, dialogs, watched, unheard>>

\* invalidate, after a change of u.  It comes too late for a fetch that has read
\* its rows, is not replaced, and will clear the mark.
Refetch(u) ==
    /\ list' = Invalidate(list, mounted)
    /\ isError' = (isError /\ (Loaded(list) \/ ~mounted))
    /\ unheard' = IF list.fetch = "served" /\ ~(mounted /\ Loaded(list))
                  THEN unheard \cup {u} ELSE unheard
-----------------------------------------------------------------------------
(* The table, the details and the dialog. *)

\* Opening and closing the details of an account.
Select(u) ==
    /\ Table
    /\ u = NoUser \/ (u \in Users /\ Shown(u) # "absent")
    /\ u # selectedId
    /\ selectedId' = u
    /\ UNCHANGED <<server, removal, mounted, list, isError, deleteTarget, watched, unheard>>

\* Ban or Unban, whichever the row shows.
ClickStatus(s, u) ==
    /\ Table /\ Shown(u) # "absent"
    /\ watched.change = NoChange
    /\ change[s].at = "none"
    /\ change' = [change EXCEPT ![s] =
                     [at |-> "sent", user |-> u, own |-> TRUE, saw |-> "none",
                      to |-> IF Shown(u) = "active" THEN "banned" ELSE "active"]]
    /\ watched' = [watched EXCEPT !.change = s]
    /\ UNCHANGED <<row, after, removal, mounted, list, isError, dialogs, unheard>>

StatusOver(s) ==
    /\ change[s].own
    /\ change' = [change EXCEPT ![s].at = "over"]
    /\ watched' = [watched EXCEPT !.change = IF @ = s THEN NoChange ELSE @]

\* Mutant of StatusSucceeds: no invalidation.
StatusSucceedsSilently(s) ==
    /\ change[s].at = "done"
    /\ StatusOver(s)
    /\ deleteTarget' = IF watched.change = s THEN NoUser ELSE deleteTarget
    /\ UNCHANGED <<row, after, removal, mounted, list, isError, selectedId, unheard>>

\* onSuccess: a dialog that is open is closed, whomever it asks about.
StatusSucceeds(s) ==
    /\ change[s].at = "done"
    /\ StatusOver(s)
    /\ Refetch(change[s].user)
    /\ deleteTarget' = IF watched.change = s THEN NoUser ELSE deleteTarget
    /\ UNCHANGED <<row, after, removal, mounted, selectedId>>

\* Mutant of StatusErrors: an error leaves the mutation pending.
StatusErrorsPending(s) ==
    /\ \/ /\ change[s].at \in {"sent", "read"}
          /\ row[change[s].user] = "gone" \/ "refuse" \in Faults
          /\ UNCHANGED unheard
       \/ "lost" \in Faults /\ change[s].at = "done" /\ Silently(change[s].user)
    /\ change[s].own
    /\ change' = [change EXCEPT ![s].at = "over"]
    /\ UNCHANGED <<row, after, removal, mounted, list, isError, dialogs, watched>>

\* onError: a toast, also for a 404 of an account that is gone.
StatusErrors(s) ==
    /\ \/ /\ change[s].at \in {"sent", "read"}
          /\ row[change[s].user] = "gone" \/ "refuse" \in Faults
          /\ UNCHANGED unheard
       \/ "lost" \in Faults /\ change[s].at = "done" /\ Silently(change[s].user)
    /\ StatusOver(s)
    /\ UNCHANGED <<row, after, removal, mounted, list, isError, dialogs>>

\* Delete, and Cancel in the dialog, which covers the rows but disables nothing.
AskAbout(u) ==
    /\ Table
    /\ \/ u = NoUser
       \/ u \in Users /\ Shown(u) # "absent" /\ watched.removal = NoUser
    /\ u # deleteTarget
    /\ deleteTarget' = u
    /\ UNCHANGED <<server, removal, mounted, list, isError, selectedId, watched, unheard>>

\* Delete permanently.
Confirm ==
    /\ Table /\ deleteTarget # NoUser
    /\ watched.removal = NoUser
    /\ removal[deleteTarget] = "none"
    /\ removal' = [removal EXCEPT ![deleteTarget] = "sent"]
    /\ watched' = [watched EXCEPT !.removal = deleteTarget]
    /\ UNCHANGED <<server, mounted, list, isError, dialogs, unheard>>

RemovalOver(u) ==
    /\ removal' = [removal EXCEPT ![u] = "none"]
    /\ watched' = [watched EXCEPT !.removal = IF @ = u THEN NoUser ELSE @]

\* onSuccess: the details and the dialog are closed, whomever they are about.
RemovalSucceeds(u) ==
    /\ removal[u] = "done"
    /\ RemovalOver(u)
    /\ Refetch(u)
    /\ selectedId' = IF watched.removal = u THEN NoUser ELSE selectedId
    /\ deleteTarget' = IF watched.removal = u THEN NoUser ELSE deleteTarget
    /\ UNCHANGED <<server, mounted>>

\* onError: a toast, and the dialog stays; also when the account is gone.
RemovalErrors(u) ==
    /\ \/ /\ removal[u] = "sent"
          /\ row[u] = "gone" \/ "refuse" \in Faults
          /\ UNCHANGED unheard
       \/ removal[u] = "partial" /\ Silently(u)
       \/ "lost" \in Faults /\ removal[u] = "done" /\ Silently(u)
    /\ RemovalOver(u)
    /\ UNCHANGED <<server, mounted, list, isError, dialogs>>
-----------------------------------------------------------------------------
Next ==
    \/ \E u \in Users :
          \/ Registered(u) \/ Elsewhere(u) \/ RemovalCommitted(u)
          \/ RemovalSucceeds(u) \/ RemovalErrors(u)
          \/ \E s \in Changes : ClickStatus(s, u)
    \/ \E s \in Changes :
          StatusRead(s) \/ StatusCommitted(s) \/ StatusSucceeds(s) \/ StatusErrors(s)
    \/ \E u \in Users \cup {NoUser} : Select(u) \/ AskAbout(u)
    \/ Open \/ Leave \/ Refocus \/ ListServed \/ ListArrives \/ ListFails \/ Confirm

Spec == Init /\ [][Next]_vars
-----------------------------------------------------------------------------
\* What a button waits for is a request that has yet to be answered.
WatchedIsPending ==
    /\ watched.change # NoChange =>
          change[watched.change].own /\ change[watched.change].at \in {"sent", "read", "done"}
    /\ watched.removal # NoUser => removal[watched.removal] # "none"

\* Ranges of the variables, and no button stays disabled without a reason.
TypeOK ==
    /\ WatchedIsPending
    /\ \A s \in Changes : change[s].at # "none" => change[s].user \in Users
    /\ row \in [Users -> {"none", "active", "banned", "gone"}]
    /\ change \in [Changes -> [at : {"none", "sent", "read", "done", "over"},
                               user : Users \cup {NoUser}, to : {"active", "banned"},
                               saw : {"none", "active", "banned"}, own : BOOLEAN]]
    /\ removal \in [Users -> {"none", "sent", "done", "partial"}]
    /\ mounted \in BOOLEAN /\ isError \in BOOLEAN
    /\ list \in Entries([Users -> {"active", "banned", "absent"}])
    /\ selectedId \in Users \cup {NoUser} /\ deleteTarget \in Users \cup {NoUser}
    /\ watched \in [change : Changes \cup {NoChange}, removal : Users \cup {NoUser}]
    /\ unheard \subseteq Users
    /\ after \in [Changes -> SUBSET Changes]

\* Nothing is on its way that would change the list.
Quiet(u) ==
    /\ Loaded(list) /\ ~list.stale /\ ~Fetching(list)
    /\ removal[u] = "none"
    /\ \A s \in Changes : change[s].own /\ change[s].user = u => change[s].at \in {"none", "over"}

\* A list that is fresh, with no request of this tab under way, is the server's
\* for every account that nobody else changed and no lost or partial answer
\* (admin.py 241) left out, however bans, deletions, visits and fetches overlap.
QuietListIsTrue ==
    \A u \in Users \ unheard : Quiet(u) => Shown(u) = Listed[u]

\* A change that has committed, whether or not it wrote the row (admin.py 180
\* writes nothing that was loaded), holds until a request for the other status
\* commits that was not over when it was taken up: a ban is undone by no earlier
\* unban and by no second ban.  Opposite requests that overlap are left out.
LastWordCounts ==
    \A s \in Changes :
        after[s] = {s} => row[change[s].user] \in {change[s].to, "gone"}
=============================================================================
