--------------------------- MODULE DocumentsPage ---------------------------
(***************************************************************************)
(* pages/Documents.tsx and the part of pages/Dashboard.tsx that reads the  *)
(* same query, against a server that keeps DocumentLifecycle (which the    *)
(* module Ingestion is shown to implement).  One browser tab of one        *)
(* account; documents are named before they are uploaded.                  *)
(***************************************************************************)
EXTENDS QueryCache

CONSTANTS Docs, NoDoc,
    Faults          \* the kinds of failure this instance explores

FaultKinds ==
    {"fetch",       \* the list request and its retry fail
     "lost",        \* the answer to an upload or a deletion is lost
     "timeout",     \* nginx gives up (504) while a deletion waits for its locks
     "refuse"}      \* the server refuses an upload or a deletion

ASSUME PageAssumption == NoDoc \notin Docs /\ Faults \subseteq FaultKinds

VARIABLES
    row,        \* documents.status on the server
    list,       \* the cache entry of ['documents']
    page,       \* what is on screen
    up,         \* up[d]: where the upload of d stands
    del,        \* del[d]: where the request that deletes d stands
    watched,    \* the upload and the deletion the mounted page observes
    unheard     \* history: documents with a change since the list was last read
                \* of which no refetch was due to tell the page

vars == <<row, list, page, up, del, watched, unheard>>

Server == INSTANCE DocumentLifecycle WITH status <- row

Shows == {"pending", "ready", "failed", "absent"}
Lists == [Docs -> Shows]

ASSUME NoDataAssumption == NoData \notin Lists

\* What list_documents answers.
Rows == [d \in Docs |-> IF row[d] \in Server!LiveStatus THEN row[d] ELSE "absent"]

\* "late": the browser has given up, the server has not.
Standing == {"none", "sent", "done", "late"}
Pages == {"away", "dashboard", "documents"}

Mounted == page # "away"
Shown(d) == IF Loaded(list) THEN list.data[d] ELSE "absent"

\* ACTIVE_STATUSES
Active(d) == Shown(d) = "pending"

Unwatched == [up |-> NoDoc, del |-> NoDoc]
\* isBusy, which only the delete buttons look at: useMutation observes its
\* latest call alone, until the answer, and a fresh mount observes none.
IsBusy == watched # Unwatched
UploadOver(d) == watched' = [watched EXCEPT !.up = IF @ = d THEN NoDoc ELSE @]

\* Mutant of RemoveOver: a deletion stays pending when its document was deleted.
RemoveOverUnlessGone(d) ==
    watched' = [watched EXCEPT !.del = IF @ = d /\ row[d] # "gone" THEN NoDoc ELSE @]

RemoveOver(d) == watched' = [watched EXCEPT !.del = IF @ = d THEN NoDoc ELSE @]

Init ==
    /\ Server!Init
    /\ list = Unloaded
    /\ page = "away"
    /\ up = [d \in Docs |-> "none"]
    /\ del = [d \in Docs |-> "none"]
    /\ watched = Unwatched
    /\ unheard = {}
-----------------------------------------------------------------------------
(* The query. *)

\* A page is opened; its useQuery mounts.
Open(p) ==
    /\ page # p
    /\ page' = p
    /\ watched' = Unwatched
    /\ \/ list' = Ask(list)
       \/ ~MustAsk(list) /\ UNCHANGED list
    /\ UNCHANGED <<row, up, del, unheard>>

OpenDocuments == Open("documents")

\* Of a user; it counts and lists what the query holds.
OpenDashboard == Open("dashboard")

Leave ==
    /\ Mounted
    /\ page' = "away"
    /\ watched' = Unwatched
    /\ UNCHANGED <<row, list, up, del, unheard>>

\* The window gets the focus, and the list is older than staleTime.
Refocus ==
    /\ Mounted
    /\ list' = Ask(list)
    /\ UNCHANGED <<row, page, up, del, watched, unheard>>

\* Mutant of PollDue: one settled document ends the polling.
PollDueAllActive == Loaded(list) /\ \A d \in Docs : Active(d)

\* refetchInterval is a number.
PollDue == Loaded(list) /\ \E d \in Docs : Active(d)

\* A tick of refetchInterval; the dashboard has none.
Poll ==
    /\ page = "documents"
    /\ PollDue
    /\ ~Fetching(list)
    /\ list' = Ask(list)
    /\ UNCHANGED <<row, page, up, del, watched, unheard>>

\* What the server reads now holds every change so far.
ListServed ==
    /\ list.fetch = "asked"
    /\ list' = Serve(list, Rows)
    /\ unheard' = {}
    /\ UNCHANGED <<row, page, up, del, watched>>

ListArrives ==
    /\ list.fetch = "served"
    /\ list' = Arrive(list)
    /\ UNCHANGED <<row, page, up, del, watched, unheard>>

ListFails ==
    /\ "fetch" \in Faults
    /\ Fetching(list)
    /\ list' = Fail(list)
    /\ UNCHANGED <<row, page, up, del, watched, unheard>>
-----------------------------------------------------------------------------
(* Uploads.  The drop zone is never disabled: uploads may overlap. *)

OnFiles(d) ==
    /\ page = "documents"
    /\ up[d] = "none" /\ row[d] = "none"
    /\ up' = [up EXCEPT ![d] = "sent"]
    /\ watched' = [watched EXCEPT !.up = d]
    /\ UNCHANGED <<row, list, page, del, unheard>>

UploadSaved(d) ==
    /\ up[d] = "sent"
    /\ Server!Upload(d)
    /\ up' = [up EXCEPT ![d] = "done"]
    /\ UNCHANGED <<list, page, del, watched, unheard>>

\* An invalidation that neither asks again nor leaves the mark to a later
\* answer: the fetch under way has read its rows and will clear the mark.
Overtaken == list.fetch = "served" /\ ~(Mounted /\ Loaded(list))

\* Mutant of UploadSucceeds: no invalidation.
UploadSucceedsSilently(d) ==
    /\ up[d] = "done"
    /\ up' = [up EXCEPT ![d] = "none"]
    /\ UploadOver(d)
    /\ UNCHANGED <<row, list, page, del, unheard>>

\* Mutant of UploadSucceeds: the answered record is put into the list.
UploadSucceedsInPlace(d) ==
    /\ up[d] = "done"
    /\ up' = [up EXCEPT ![d] = "none"]
    /\ list' = Write(list, [x \in Docs |-> IF x = d THEN "pending" ELSE Shown(x)])
    /\ unheard' = IF Overtaken THEN unheard \cup {d} ELSE unheard
    /\ UploadOver(d)
    /\ UNCHANGED <<row, page, del>>

\* onSuccess
UploadSucceeds(d) ==
    /\ up[d] = "done"
    /\ up' = [up EXCEPT ![d] = "none"]
    /\ list' = Invalidate(list, Mounted)
    /\ unheard' = IF Overtaken THEN unheard \cup {d} ELSE unheard
    /\ UploadOver(d)
    /\ UNCHANGED <<row, page, del>>

\* onError: a toast and nothing else, whatever became of the file.  A request
\* the server refuses changes nothing there, so that one step stands for both.
UploadErrors(d) ==
    /\ \/ /\ "refuse" \in Faults /\ up[d] = "sent"
          /\ up' = [up EXCEPT ![d] = "none"]
          /\ UNCHANGED unheard
       \/ /\ "lost" \in Faults /\ up[d] = "done"
          /\ up' = [up EXCEPT ![d] = "none"]
          /\ unheard' = unheard \cup {d}
    /\ UploadOver(d)
    /\ UNCHANGED <<row, list, page, del>>
-----------------------------------------------------------------------------
(* Deletions. *)

ClickDelete(d) ==
    /\ page = "documents"
    /\ Shown(d) # "absent"
    /\ ~IsBusy
    /\ del[d] = "none"
    /\ del' = [del EXCEPT ![d] = "sent"]
    /\ watched' = [watched EXCEPT !.del = d]
    /\ UNCHANGED <<row, list, page, up, unheard>>

DeleteCommitted(d) ==
    /\ del[d] \in {"sent", "late"}
    /\ Server!Remove({d})
    /\ IF del[d] = "late"
       THEN del' = [del EXCEPT ![d] = "none"] /\ unheard' = unheard \cup {d}
       ELSE del' = [del EXCEPT ![d] = "done"] /\ UNCHANGED unheard
    /\ UNCHANGED <<list, page, up, watched>>

\* onSettled, whether the answer arrives, is lost, or is a refusal (404 of a
\* document that is gone, 500 after the last attempt).  It invalidates
\* ['system'] too, which no page of this account observes.
DeleteSettles(d) ==
    /\ \/ del[d] = "done"
       \/ del[d] = "sent" /\ (row[d] = "gone" \/ "refuse" \in Faults)
    /\ del' = [del EXCEPT ![d] = "none"]
    /\ list' = Invalidate(list, Mounted)
    /\ unheard' = IF Overtaken THEN unheard \cup {d} ELSE unheard
    /\ RemoveOver(d)
    /\ UNCHANGED <<row, page, up>>

\* onSettled runs on the 504, before the server is done.
DeleteTimesOut(d) ==
    /\ "timeout" \in Faults
    /\ del[d] = "sent"
    /\ del' = [del EXCEPT ![d] = "late"]
    /\ list' = Invalidate(list, Mounted)
    /\ RemoveOver(d)
    /\ UNCHANGED <<row, page, up, unheard>>

\* After the 504 the server gives up after all.
ServerGivesUp(d) ==
    /\ "refuse" \in Faults \/ row[d] = "gone"
    /\ del[d] = "late"
    /\ del' = [del EXCEPT ![d] = "none"]
    /\ UNCHANGED <<row, list, page, up, watched, unheard>>

\* The worker finishes with a document.
WorkerSettles(d) ==
    /\ Server!Settle(d)
    /\ UNCHANGED <<list, page, up, del, watched, unheard>>
-----------------------------------------------------------------------------
PageNext ==
    \/ OpenDocuments \/ OpenDashboard \/ Leave \/ Refocus \/ Poll
    \/ \E d \in Docs : OnFiles(d) \/ ClickDelete(d)

AnswerNext ==
    \/ ListArrives \/ ListFails
    \/ \E d \in Docs : UploadSucceeds(d) \/ UploadErrors(d) \/ DeleteSettles(d)
                       \/ DeleteTimesOut(d)

ServerNext ==
    \/ ListServed
    \/ \E d \in Docs : UploadSaved(d) \/ DeleteCommitted(d) \/ ServerGivesUp(d)
                       \/ WorkerSettles(d)

Next == PageNext \/ AnswerNext \/ ServerNext

Spec == Init /\ [][Next]_vars

\* The interval ticks, the worker works, and of the list requests made not all
\* fail or are dropped for ever.  Nobody need click.
FairSpec ==
    /\ Spec
    /\ WF_vars(Poll) /\ SF_vars(ListServed) /\ SF_vars(ListArrives)
    /\ \A d \in Docs : WF_vars(WorkerSettles(d))
-----------------------------------------------------------------------------
\* What a button waits for is a request that has yet to be answered.
WatchedIsPending ==
    /\ watched.up # NoDoc => up[watched.up] \in {"sent", "done"}
    /\ watched.del # NoDoc => del[watched.del] \in {"sent", "done"}

\* Ranges of the variables, and no button stays disabled without a reason.
TypeOK ==
    /\ WatchedIsPending
    /\ row \in [Docs -> Server!Status]
    /\ list \in Entries(Lists)
    /\ page \in Pages
    /\ up \in [Docs -> Standing \ {"late"}]
    /\ del \in [Docs -> Standing]
    /\ watched \in [up : Docs \cup {NoDoc}, del : Docs \cup {NoDoc}]
    /\ unheard \subseteq Docs

\* Nothing is on its way that would change the list.
Quiet(d) ==
    /\ Loaded(list) /\ ~list.stale /\ ~Fetching(list)
    /\ up[d] = "none" /\ del[d] \in {"none", "late"}

\* Documents.tsx: when nothing is under way and a document is not shown as
\* still being ingested (so that nothing polls for it), what the list shows of
\* it is what the server has: no upload is missing and no deleted row stays,
\* however uploads, deletions, polls and refetches overlap.
QuietListIsTrue ==
    \A d \in Docs \ unheard : Quiet(d) /\ ~Active(d) => Shown(d) = Rows[d]

\* Documents.tsx 91: "a document may be deleted server-side even when the
\* request errors, and the stale list should never keep showing a deleted row".
DeletedIsHidden ==
    \A d \in Docs : Quiet(d) /\ ~Active(d) /\ row[d] = "gone" => Shown(d) = "absent"

\* Answers are never applied out of order: a document that was shown settled is
\* never shown as being ingested again, and one that left the list stays away.
Rank(d) ==
    CASE Shown(d) = "pending" -> 1
      [] Shown(d) \in {"ready", "failed"} -> 2
      [] OTHER -> 0
ShownNeverGoesBack ==
    [][\A d \in Docs :
          /\ Rank(d) = 2 => Rank(d)' # 1
          /\ Rank(d) = 0 /\ row[d] = "gone" => Rank(d)' = 0]_vars

\* "Poll while any document is still being ingested" (Documents.tsx 57): whatever
\* is shown as being ingested comes to be shown settled, or gone, in the end,
\* unless the user leaves; the polling neither misses a document nor goes on.
SettledIsShown ==
    page = "documents" /\ (\E d \in Docs : Active(d))
        ~> page # "documents" \/ \A d \in Docs : ~Active(d)
=============================================================================
