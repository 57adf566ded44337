-------------------------- MODULE IngestionState --------------------------
(***************************************************************************)
(* The state that the HTTP handlers and the ingestion worker share:        *)
(*   MySQL   users, documents and ingestion_jobs rows;                     *)
(*   MinIO   one blob per document;                                        *)
(*   Qdrant  points, keyed by a hash of the chunk text;                    *)
(*   Neo4j   relationships, keyed by subject, relation and object;         *)
(* and where each process stands in its own code.                          *)
(*                                                                         *)
(* One upsert_documents batch of at most 64 points is one chunk.  The      *)
(* triples a file yields are fixed by its content, although an LLM         *)
(* extracts them: what a second extraction would add is not told apart.    *)
(***************************************************************************)
EXTENDS Naturals, FiniteSets

CONSTANTS
    Users, Docs, Contents, Chunks, Triples,
    NoDoc,              \* no document: an absent point, an idle worker
    Owner,              \* Owner[d]: the account that uploads d
    ContentOf,          \* ContentOf[d]: the bytes of the file
    ChunksOf,           \* ChunksOf[k]: the point keys content k is split into
    TriplesOf,          \* TriplesOf[k]: the graph edges extracted from k
    Oversized,          \* contents whose text overflows the TEXT column
    AdminTargets,       \* accounts an administrator may delete
    Faults,             \* the kinds of failure this instance explores
    MaxJobsPerCycle,    \* MAX_JOBS_PER_CYCLE
    MaxDeleteAttempts,  \* the attempts of delete_document
    MaxOutages          \* bound: worker crashes and database errors

FaultKinds == {"parse", "index", "cleanup", "lock", "logout", "crash", "db", "slow"}

ASSUME NoDocAssumption == NoDoc \notin Docs
ASSUME DataAssumption ==
    /\ Owner \in [Docs -> Users]
    /\ ContentOf \in [Docs -> Contents]
    /\ ChunksOf \in [Contents -> SUBSET Chunks]
    /\ TriplesOf \in [Contents -> SUBSET Triples]
    /\ Oversized \subseteq Contents
    /\ AdminTargets \subseteq Users
ASSUME BoundAssumption ==
    /\ Faults \subseteq FaultKinds
    /\ MaxJobsPerCycle \in Nat \ {0}
    /\ MaxDeleteAttempts \in Nat \ {0}
    /\ MaxOutages \in Nat

VARIABLES
    userRow,    \* userRow[u]: the users row exists
    docRow,     \* documents.status, "none" before and "gone" after the row
    job,        \* ingestion_jobs.status of the document's job, "none" if no row
    jobId,      \* ingestion_jobs.id, 0 before the insert
    nextId,     \* the AUTO_INCREMENT counter
    stale,      \* running jobs whose started_at is older than the cutoff
    blob,       \* documents whose object is in the bucket
    points,     \* points[c]: payload document_id of point c, or NoDoc
    rels,       \* rels[t]: r.document_id of edge t, or NoDoc
    up,         \* the upload request of each document
    del,        \* the delete request of each document
    tries,      \* failed attempts of that delete request
    adm,        \* the deletion of each account: place, document at hand, those left
    wpc,        \* where the worker is
    wdoc,       \* the document of the job it processes
    view,       \* what its open read snapshot shows of that document's row
    wchunks,    \* batches still to upsert
    wtriples,   \* edges still to merge
    wout,       \* the outcome it is about to commit
    taken,      \* jobs processed in this drain cycle
    lost,       \* history: documents whose cleanup an injected failure skipped
    outages     \* history: crashes and database errors so far

tables  == <<userRow, docRow, job, jobId, nextId, stale>>
stores  == <<blob, points, rels>>
api     == <<up, del, tries>>
worker  == <<wpc, wdoc, view, wchunks, wtriples, wout, taken>>
history == <<lost, outages>>
vars    == <<tables, stores, api, adm, worker, history>>

LiveStatus == {"pending", "ready", "failed"}
Live(d) == docRow[d] \in LiveStatus

\* QdrantIndexer.delete_by_document: drop the points tagged with d.
WithoutPoints(d) == [c \in Chunks |-> IF points[c] = d THEN NoDoc ELSE points[c]]

\* Neo4jIndexer.delete_by_document: drop the relationships tagged with d.
WithoutRels(d) == [t \in Triples |-> IF rels[t] = d THEN NoDoc ELSE rels[t]]

\* DELETE of the rows of the documents in D; the jobs go with them.
DeleteRowsOf(D) ==
    /\ docRow' = [d \in Docs |-> IF d \in D /\ Live(d) THEN "gone" ELSE docRow[d]]
    /\ job' = [d \in Docs |-> IF d \in D THEN "none" ELSE job[d]]
    /\ stale' = stale \ D

NoDeletion == [pc |-> "idle", doc |-> NoDoc, todo |-> {}]

Init ==
    /\ userRow = [u \in Users |-> TRUE]
    /\ docRow = [d \in Docs |-> "none"]
    /\ job = [d \in Docs |-> "none"]
    /\ jobId = [d \in Docs |-> 0]
    /\ nextId = 1
    /\ stale = {}
    /\ blob = {}
    /\ points = [c \in Chunks |-> NoDoc]
    /\ rels = [t \in Triples |-> NoDoc]
    /\ up = [d \in Docs |-> "no"]
    /\ del = [d \in Docs |-> "idle"]
    /\ tries = [d \in Docs |-> 0]
    /\ adm = [u \in Users |-> NoDeletion]
    /\ wpc = "idle" /\ wdoc = NoDoc /\ view = "closed"
    /\ wchunks = {} /\ wtriples = {} /\ wout = "failed" /\ taken = 0
    /\ lost = {} /\ outages = 0
=============================================================================
