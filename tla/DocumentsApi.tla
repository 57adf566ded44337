--------------------------- MODULE DocumentsApi ---------------------------
(***************************************************************************)
(* The handlers of api/routers/documents.py that write: upload_document    *)
(* and delete_document.  A step is what happens between two effects that   *)
(* another process can see.                                                *)
(*                                                                         *)
(* An upload that fails validation or cannot reach the bucket changes      *)
(* nothing.  Each upload draws a fresh uuid, so a document has one upload, *)
(* and one of its deletions is followed at a time.                         *)
(***************************************************************************)
EXTENDS IngestionState

Vanish(d) == lost' = lost \cup {d}

\* storage.upload_bytes, after get_current_user found the account.
UploadBlob(d) ==
    /\ up[d] = "no"
    /\ userRow[Owner[d]]
    /\ up' = [up EXCEPT ![d] = "stored"]
    /\ blob' = blob \cup {d}
    /\ UNCHANGED <<tables, points, rels, del, tries, adm, worker, history>>

\* Mutant of UploadCommit: rows that do not reference the account.
UploadCommitUnchecked(d) ==
    /\ up[d] = "stored"
    /\ up' = [up EXCEPT ![d] = "done"]
    /\ docRow' = [docRow EXCEPT ![d] = "pending"]
    /\ job' = [job EXCEPT ![d] = "queued"]
    /\ jobId' = [jobId EXCEPT ![d] = nextId]
    /\ nextId' = nextId + 1
    /\ UNCHANGED <<userRow, stale, stores, del, tries, adm, worker, history>>

\* Both rows in one transaction.  The foreign key refuses them when the
\* account went meanwhile, and nothing takes the blob back.
UploadCommit(d) ==
    /\ up[d] = "stored"
    /\ up' = [up EXCEPT ![d] = "done"]
    /\ IF userRow[Owner[d]]
       THEN /\ docRow' = [docRow EXCEPT ![d] = "pending"]
            /\ job' = [job EXCEPT ![d] = "queued"]
            /\ jobId' = [jobId EXCEPT ![d] = nextId]
            /\ nextId' = nextId + 1
       ELSE UNCHANGED <<docRow, job, jobId, nextId>>
    /\ UNCHANGED <<userRow, stale, stores, del, tries, adm, worker, history>>

\* The server stops between the blob and the rows, or the commit fails: it
\* also writes last_used_at to the session of the request, and raises
\* StaleDataError when a logout, a password reset or a ban removed it.
UploadDies(d) ==
    /\ "crash" \in Faults \/ "logout" \in Faults
    /\ up[d] = "stored"
    /\ up' = [up EXCEPT ![d] = "done"]
    /\ Vanish(d)
    /\ UNCHANGED <<tables, stores, del, tries, adm, worker, outages>>

\* _get_owned_document found the row.
DeleteStart(d) ==
    /\ del[d] = "idle"
    /\ Live(d)
    /\ del' = [del EXCEPT ![d] = "rows"]
    /\ tries' = [tries EXCEPT ![d] = 0]
    /\ UNCHANGED <<tables, stores, up, adm, worker, history>>

\* The rows go first.  They are gone already only if the account is: then so is
\* the session of the request, whose update makes the first attempt raise, and
\* a later attempt raises when it reads the expired document.
DeleteRows(d) ==
    /\ del[d] = "rows"
    /\ del' = [del EXCEPT ![d] = IF Live(d) THEN "qdrant" ELSE "idle"]
    /\ DeleteRowsOf({d})
    /\ UNCHANGED <<userRow, jobId, nextId, stores, up, tries, adm, worker, history>>

\* Mutants of DeleteLocked: one attempt too many, and the cleanup that goes on
\* although the last attempt failed.
DeleteLockedOnceMore(d) ==
    /\ "lock" \in Faults
    /\ del[d] = "rows"
    /\ tries' = [tries EXCEPT ![d] = @ + 1]
    /\ del' = [del EXCEPT ![d] = IF tries'[d] > MaxDeleteAttempts THEN "idle" ELSE "rows"]
    /\ UNCHANGED <<tables, stores, up, adm, worker, history>>

DeleteLockedGoesOn(d) ==
    /\ "lock" \in Faults
    /\ del[d] = "rows"
    /\ tries' = [tries EXCEPT ![d] = @ + 1]
    /\ del' = [del EXCEPT ![d] = IF tries'[d] = MaxDeleteAttempts THEN "qdrant" ELSE "rows"]
    /\ UNCHANGED <<tables, stores, up, adm, worker, history>>

\* A lock wait or a deadlock rolls the attempt back; the last answers 409.
DeleteLocked(d) ==
    /\ "lock" \in Faults
    /\ del[d] = "rows"
    /\ Live(d)
    /\ tries' = [tries EXCEPT ![d] = @ + 1]
    /\ del' = [del EXCEPT ![d] = IF tries'[d] = MaxDeleteAttempts THEN "idle" ELSE "rows"]
    /\ UNCHANGED <<tables, stores, up, adm, worker, history>>

\* The session of the request is gone: the transaction is rolled back, and
\* StaleDataError is not retried.  After a rollback that update is not due any
\* more.
DeleteRefused(d) ==
    /\ "logout" \in Faults
    /\ del[d] = "rows" /\ tries[d] = 0
    /\ del' = [del EXCEPT ![d] = "idle"]
    /\ UNCHANGED <<tables, stores, up, tries, adm, worker, history>>

\* A store that cannot be reached is logged and skipped.
CleanupOutcome(d, done) ==
    \/ done /\ UNCHANGED lost
    \/ "cleanup" \in Faults /\ UNCHANGED stores /\ Vanish(d)

DeleteQdrant(d) ==
    /\ del[d] = "qdrant"
    /\ del' = [del EXCEPT ![d] = "neo4j"]
    /\ CleanupOutcome(d, points' = WithoutPoints(d) /\ UNCHANGED <<rels, blob>>)
    /\ UNCHANGED <<tables, up, tries, adm, worker, outages>>

DeleteNeo4j(d) ==
    /\ del[d] = "neo4j"
    /\ del' = [del EXCEPT ![d] = "blob"]
    /\ CleanupOutcome(d, rels' = WithoutRels(d) /\ UNCHANGED <<points, blob>>)
    /\ UNCHANGED <<tables, up, tries, adm, worker, outages>>

DeleteBlob(d) ==
    /\ del[d] = "blob"
    /\ del' = [del EXCEPT ![d] = "idle"]
    /\ CleanupOutcome(d, blob' = blob \ {d} /\ UNCHANGED <<points, rels>>)
    /\ UNCHANGED <<tables, up, tries, adm, worker, outages>>

\* The server stops between the rows and the last cleanup.
DeleteDies(d) ==
    /\ "crash" \in Faults
    /\ del[d] \in {"qdrant", "neo4j", "blob"}
    /\ del' = [del EXCEPT ![d] = "idle"]
    /\ Vanish(d)
    /\ UNCHANGED <<tables, stores, up, tries, adm, worker, outages>>

UploadStep(d) == UploadBlob(d) \/ UploadCommit(d) \/ UploadDies(d)

DeleteStep(d) ==
    \/ DeleteRows(d) \/ DeleteLocked(d) \/ DeleteRefused(d)
    \/ DeleteQdrant(d) \/ DeleteNeo4j(d) \/ DeleteBlob(d)
    \/ DeleteDies(d)

ApiNext == \E d \in Docs : UploadStep(d) \/ DeleteStart(d) \/ DeleteStep(d)
=============================================================================
