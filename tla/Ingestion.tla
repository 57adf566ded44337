----------------------------- MODULE Ingestion -----------------------------
(***************************************************************************)
(* The ingestion subsystem: upload and delete requests, account deletions  *)
(* and the worker, interleaved over the shared tables and stores.          *)
(***************************************************************************)
EXTENDS DocumentsApi, AdminDeletion, IngestionWorker

Next == ApiNext \/ AdminNext \/ WorkerNext

Spec == Init /\ [][Next]_vars

(***************************************************************************)
(* Fairness.  The worker loops for ever, an operator restarts it, and a    *)
(* request that was accepted runs to its end.  A job that is found running *)
(* again and again is at some point older than the cutoff: strong fairness *)
(* of GracePeriod.  Nobody has to upload or delete anything, and no        *)
(* failure has to happen.                                                  *)
(***************************************************************************)
Fairness ==
    /\ WF_vars(WorkerStep)
    /\ WF_vars(Restart)
    /\ \A d \in Docs :
          /\ SF_vars(GracePeriod(d))
          /\ WF_vars(UploadCommit(d))
          /\ WF_vars(DeleteRows(d))
          /\ WF_vars(DeleteQdrant(d) \/ DeleteNeo4j(d) \/ DeleteBlob(d))
    /\ \A u \in Users : WF_vars(AdminStep(u))

FairSpec == Spec /\ Fairness

-----------------------------------------------------------------------------
\* Every variable stays in the range the code and the schema give it.
TypeOK ==
    /\ userRow \in [Users -> BOOLEAN]
    /\ docRow \in [Docs -> LiveStatus \cup {"none", "gone"}]
    /\ job \in [Docs -> {"none", "queued", "running", "done", "failed"}]
    /\ jobId \in [Docs -> Nat]
    /\ nextId \in Nat \ {0}
    /\ stale \subseteq Docs
    /\ blob \subseteq Docs
    /\ points \in [Chunks -> Docs \cup {NoDoc}]
    /\ rels \in [Triples -> Docs \cup {NoDoc}]
    /\ up \in [Docs -> {"no", "stored", "done"}]
    /\ del \in [Docs -> {"idle", "rows", "qdrant", "neo4j", "blob"}]
    /\ tries \in [Docs -> 0..MaxDeleteAttempts]
    /\ \A d \in Docs : del[d] = "rows" => tries[d] < MaxDeleteAttempts
    /\ adm \in [Users -> [pc : {"idle", "qdrant"}, doc : {NoDoc}, todo : SUBSET Docs]
                    \cup [pc : {"neo4j", "blob"}, doc : Docs, todo : SUBSET Docs]]
    /\ wpc \in HoldsJob \cup {"idle", "pick", "down"}
    /\ IF wpc \in HoldsJob THEN wdoc \in Docs ELSE wdoc = NoDoc
    /\ view \in {"closed", "present", "absent"}
    /\ wchunks \subseteq Chunks
    /\ wtriples \subseteq Triples
    /\ wout \in {"ready", "failed", "missing"}
    /\ taken \in 0..MaxJobsPerCycle
    /\ wpc \in HoldsJob => taken < MaxJobsPerCycle
    /\ lost \subseteq Docs
    /\ outages \in 0..MaxOutages

\* The two tables never disagree about a document, whatever interrupts the
\* worker: a job is open exactly while its document is pending, its verdict is
\* the document's, and it has no row once the document has none.
JobDocAgree ==
    \A d \in Docs :
        /\ docRow[d] = "pending" <=> job[d] \in {"queued", "running"}
        /\ docRow[d] = "ready" <=> job[d] = "done"
        /\ docRow[d] = "failed" <=> job[d] = "failed"

\* No row outlives its account: an upload that races the deletion of the
\* account does not leave a document, or a job, nobody owns.
RowHasAccount == \A d \in Docs : Live(d) \/ job[d] # "none" => userRow[Owner[d]]

-----------------------------------------------------------------------------
\* The documents of accounts that are not deleted.  admin_delete_user cleans the
\* stores before it deletes the rows, so of its own documents, while it runs or
\* once it aborts, the promises below do not hold; of all others they do.
Spared == {d \in Docs : Owner[d] \notin AdminTargets}

TracesOf(d) == (\E c \in Chunks : points[c] = d) \/ (\E t \in Triples : rels[t] = d)

PointsOwed(d) ==
    \A c \in Chunks : points[c] = d =>
        del[d] = "qdrant" \/ (wdoc = d /\ wpc \in {"index", "recheck", "cleanQ"})
EdgesOwed(d) ==
    \A t \in Triples : rels[t] = d =>
        del[d] \in {"qdrant", "neo4j"} \/ (wdoc = d /\ wpc \in OwesRecheck)
BlobOwed(d) ==
    d \in blob => up[d] = "stored" \/ del[d] \in {"qdrant", "neo4j", "blob"}

\* A point, an edge or a blob of a document without a row is owed: some process
\* that is still running is about to remove it, or about to insert the row.  In
\* particular nothing is left when no process is at work on the document.
OrphansAreOwed ==
    \A d \in Spared : ~Live(d) /\ d \notin lost =>
        PointsOwed(d) /\ EdgesOwed(d) /\ BlobOwed(d)

\* A document the user sees as ready can be found: every chunk of it is a point
\* under its own id.
ReadyIsIndexed ==
    \A d \in Spared : docRow[d] = "ready" =>
        \A c \in ChunksOf[ContentOf[d]] : points[c] = d

\* The same for the relationships extracted from it.
ReadyIsInGraph ==
    \A d \in Spared : docRow[d] = "ready" =>
        \A t \in TriplesOf[ContentOf[d]] : rels[t] = d

\* While the row exists its file can be downloaded, so that a reclaimed job can
\* run again and the content endpoint can fall back on the file.
RowHasBlob == \A d \in Spared : Live(d) => d \in blob

\* The status column behaves as DocumentLifecycle promises: one upload, one
\* verdict that is never taken back, no return of a removed document.
Lifecycle == INSTANCE DocumentLifecycle WITH status <- docRow
ImplementsLifecycle == Lifecycle!Spec

-----------------------------------------------------------------------------
\* The promise about progress, through crashes, restarts and database errors:
\* no document is pending for ever.
ImplementsFairLifecycle == Lifecycle!FairSpec

\* Once a document is removed, its traces go from all three stores, and a run
\* of the worker that was under way does not bring them back.
RemovedLeavesNoTrace ==
    \A d \in Docs :
        docRow[d] = "gone" ~> [](d \in lost \/ (~TracesOf(d) /\ d \notin blob))

\* A job that can never be committed does not hold up the jobs behind it.
OthersSettle ==
    \A d \in Docs : ContentOf[d] \notin Oversized =>
        (docRow[d] = "pending" ~> docRow[d] # "pending")
=============================================================================
