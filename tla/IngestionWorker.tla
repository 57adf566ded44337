-------------------------- MODULE IngestionWorker --------------------------
(***************************************************************************)
(* worker.py: one process that polls ingestion_jobs, and process_job.      *)
(*                                                                         *)
(* MySQL reads a snapshot that the first statement of a transaction opens; *)
(* view is what it shows of the job's document, "closed" between           *)
(* transactions.  Writes act on the current rows, and an UPDATE that       *)
(* matches no row raises StaleDataError, which aborts the drain cycle.     *)
(***************************************************************************)
EXTENDS IngestionState

HoldsJob == {"load", "read", "index", "recheck", "cleanQ", "cleanN", "except", "commit"}
\* The places where what was written to the stores is still the worker's.
OwesRecheck == {"index", "recheck", "cleanQ", "cleanN"}

idleWorker ==
    /\ wpc' = "idle" /\ wdoc' = NoDoc /\ view' = "closed"
    /\ wchunks' = {} /\ wtriples' = {} /\ wout' = "failed" /\ taken' = 0

\* Mutant of DrainStart: nothing is reclaimed.
DrainStartReclaimsNone ==
    /\ wpc = "idle"
    /\ wpc' = "pick"
    /\ UNCHANGED <<tables, stores, api, adm,
                   wdoc, view, wchunks, wtriples, wout, taken, history>>

\* A new cycle opens with _reclaim_stale_jobs.
DrainStart ==
    /\ wpc = "idle"
    /\ wpc' = "pick"
    /\ job' = [d \in Docs |-> IF d \in stale THEN "queued" ELSE job[d]]
    /\ stale' = {}
    /\ UNCHANGED <<userRow, docRow, jobId, nextId, stores, api, adm,
                   wdoc, view, wchunks, wtriples, wout, taken, history>>

Oldest(d) ==
    /\ job[d] = "queued"
    /\ \A e \in Docs : job[e] = "queued" => jobId[d] <= jobId[e]

\* Claim the oldest queued job and commit, so that no lock is held.
Claim(d) ==
    /\ wpc = "pick"
    /\ taken < MaxJobsPerCycle
    /\ Oldest(d)
    /\ job' = [job EXCEPT ![d] = "running"]
    /\ wpc' = "load" /\ wdoc' = d
    /\ UNCHANGED <<userRow, docRow, jobId, nextId, stale, stores, api, adm,
                   view, wchunks, wtriples, wout, taken, history>>

\* No job left, or enough of them: the cycle ends.
DrainEnd ==
    /\ wpc = "pick"
    /\ taken = MaxJobsPerCycle \/ \A d \in Docs : job[d] # "queued"
    /\ idleWorker
    /\ UNCHANGED <<tables, stores, api, adm, history>>

\* db.get(Document) opens a snapshot that stays open while the file is read
\* and indexed.
Load ==
    /\ wpc = "load"
    /\ IF Live(wdoc)
       THEN wpc' = "read" /\ view' = "present" /\ UNCHANGED wout
       ELSE wpc' = "commit" /\ view' = "absent" /\ wout' = "missing"
    /\ UNCHANGED <<tables, stores, api, adm, wdoc, wchunks, wtriples, taken, history>>

\* Download, parse and rekey.  It raises when the blob is gone.
Read ==
    /\ wpc = "read"
    /\ wdoc \in blob
    /\ wpc' = "index"
    /\ wchunks' = ChunksOf[ContentOf[wdoc]]
    /\ wtriples' = TriplesOf[ContentOf[wdoc]]
    /\ UNCHANGED <<tables, stores, api, adm, wdoc, view, wout, taken, history>>

ReadRaises ==
    /\ wpc = "read"
    /\ wdoc \notin blob \/ "parse" \in Faults
    /\ wpc' = "except"
    /\ UNCHANGED <<tables, stores, api, adm,
                   wdoc, view, wchunks, wtriples, wout, taken, history>>

\* One batch of QdrantIndexer.upsert_documents: a point whose key another
\* document already wrote is overwritten.
UpsertChunk(c) ==
    /\ wpc = "index"
    /\ c \in wchunks
    /\ points' = [points EXCEPT ![c] = wdoc]
    /\ wchunks' = wchunks \ {c}
    /\ UNCHANGED <<tables, blob, rels, api, adm,
                   wpc, wdoc, view, wtriples, wout, taken, history>>

\* One MERGE of Neo4jIndexer.index_documents: it retags an edge that exists.
MergeTriple(t) ==
    /\ wpc = "index"
    /\ wchunks = {} /\ t \in wtriples
    /\ rels' = [rels EXCEPT ![t] = wdoc]
    /\ wtriples' = wtriples \ {t}
    /\ UNCHANGED <<tables, blob, points, api, adm,
                   wpc, wdoc, view, wchunks, wout, taken, history>>

\* Mutant of IndexRaises: the indexers swallow the failure.
IndexRaisesUnnoticed ==
    /\ wpc = "index"
    /\ wpc' = "recheck" /\ view' = "closed" /\ wchunks' = {} /\ wtriples' = {}
    /\ UNCHANGED <<tables, stores, api, adm, wdoc, wout, taken, history>>

\* The embedding model, Qdrant, the LLM or Neo4j fails part of the way, or the
\* database does while the try block is still open.
IndexRaises ==
    /\ "index" \in Faults
    /\ wpc \in {"index", "recheck"}
    /\ wpc' = "except" /\ wchunks' = {} /\ wtriples' = {}
    /\ UNCHANGED <<tables, stores, api, adm, wdoc, view, wout, taken, history>>

\* Mutant of EndSnapshot: no commit, so the snapshot of Load stays open.
EndSnapshotKeepsView ==
    /\ wpc = "index"
    /\ wchunks = {} /\ wtriples = {}
    /\ wpc' = "recheck"
    /\ UNCHANGED <<tables, stores, api, adm,
                   wdoc, view, wchunks, wtriples, wout, taken, history>>

\* The commit that writes nothing but ends the snapshot.
EndSnapshot ==
    /\ wpc = "index"
    /\ wchunks = {} /\ wtriples = {}
    /\ wpc' = "recheck" /\ view' = "closed"
    /\ UNCHANGED <<tables, stores, api, adm, wdoc, wchunks, wtriples, wout, taken, history>>

\* What a read of the document's row returns inside the open snapshot.
Sees(d) == IF view = "closed" THEN Live(d) ELSE view = "present"

\* Mutant of Recheck: a missing document is noticed but nothing is taken back.
RecheckOnly ==
    /\ wpc = "recheck"
    /\ view' = IF Sees(wdoc) THEN "present" ELSE "absent"
    /\ wpc' = "commit"
    /\ wout' = IF Sees(wdoc) THEN "ready" ELSE "missing"
    /\ UNCHANGED <<tables, stores, api, adm, wdoc, wchunks, wtriples, taken, history>>

Recheck ==
    /\ wpc = "recheck"
    /\ view' = IF Sees(wdoc) THEN "present" ELSE "absent"
    /\ IF Sees(wdoc)
       THEN wpc' = "commit" /\ wout' = "ready"
       ELSE wpc' = "cleanQ" /\ wout' = "missing"
    /\ UNCHANGED <<tables, stores, api, adm, wdoc, wchunks, wtriples, taken, history>>

\* The document went: take back what was written, best effort.
TakeBack(done) ==
    \/ done /\ UNCHANGED lost
    \/ "cleanup" \in Faults /\ UNCHANGED stores /\ lost' = lost \cup {wdoc}

CleanQdrant ==
    /\ wpc = "cleanQ"
    /\ wpc' = "cleanN"
    /\ TakeBack(points' = WithoutPoints(wdoc) /\ UNCHANGED <<rels, blob>>)
    /\ UNCHANGED <<tables, api, adm, wdoc, view, wchunks, wtriples, wout, taken, outages>>

CleanNeo4j ==
    /\ wpc = "cleanN"
    /\ wpc' = "commit"
    /\ TakeBack(rels' = WithoutRels(wdoc) /\ UNCHANGED <<points, blob>>)
    /\ UNCHANGED <<tables, api, adm, wdoc, view, wchunks, wtriples, wout, taken, outages>>

\* The except branch.  The rollback expired the objects, so job.id is read
\* from the table again, which raises when the row is gone.
Except ==
    /\ wpc = "except"
    /\ IF job[wdoc] = "none"
       THEN idleWorker
       ELSE /\ wpc' = "commit" /\ wout' = "failed" /\ view' = "present"
            /\ UNCHANGED <<wdoc, wchunks, wtriples, taken>>
    /\ UNCHANGED <<tables, stores, api, adm, history>>

\* Mutant of CommitRefused: a write that inserts the row it does not find.
CommitRefusedByTextOnly == wout = "ready" /\ ContentOf[wdoc] \in Oversized

\* What the flush of the final commit finds: a row gone, or a text that the
\* column refuses.
CommitRefused ==
    \/ job[wdoc] = "none"
    \/ wout \in {"ready", "failed"} /\ ~Live(wdoc)
    \/ wout = "ready" /\ ContentOf[wdoc] \in Oversized

\* Mutant of Commit: a failure is written to the job only.
CommitJobOnly ==
    /\ wpc = "commit"
    /\ ~CommitRefused
    /\ docRow' = [docRow EXCEPT ![wdoc] = IF wout = "ready" THEN wout ELSE @]
    /\ job' = [job EXCEPT ![wdoc] = IF wout = "ready" THEN "done" ELSE "failed"]
    /\ stale' = stale \ {wdoc}
    /\ wpc' = "pick" /\ wdoc' = NoDoc /\ view' = "closed" /\ wout' = "failed"
    /\ taken' = taken + 1
    /\ UNCHANGED <<userRow, jobId, nextId, stores, api, adm, wchunks, wtriples, history>>

\* Document and job are written by one transaction.
Commit ==
    /\ wpc = "commit"
    /\ ~CommitRefused
    /\ docRow' = [docRow EXCEPT ![wdoc] = IF wout = "missing" THEN @ ELSE wout]
    /\ job' = [job EXCEPT ![wdoc] = IF wout = "ready" THEN "done" ELSE "failed"]
    /\ stale' = stale \ {wdoc}
    /\ wpc' = "pick" /\ wdoc' = NoDoc /\ view' = "closed" /\ wout' = "failed"
    /\ taken' = taken + 1
    /\ UNCHANGED <<userRow, jobId, nextId, stores, api, adm, wchunks, wtriples, history>>

\* Mutant of CommitAborts: the job goes straight back to the queue.
CommitAbortsRequeues ==
    /\ wpc = "commit"
    /\ CommitRefused
    /\ idleWorker
    /\ job' = [job EXCEPT ![wdoc] = IF @ = "none" THEN @ ELSE "queued"]
    /\ stale' = stale \ {wdoc}
    /\ UNCHANGED <<userRow, docRow, jobId, nextId, stores, api, adm, history>>

\* The exception leaves drain: the job keeps the status running.
CommitAborts ==
    /\ wpc = "commit"
    /\ CommitRefused
    /\ idleWorker
    /\ UNCHANGED <<tables, stores, api, adm, history>>

\* The database refuses a statement outside the try block: a lost connection,
\* or a deadlock with a delete that locks the two rows in the other order.
DatabaseFails ==
    /\ "db" \in Faults
    /\ outages < MaxOutages /\ outages' = outages + 1
    /\ wpc \in {"load", "except", "commit"}
    /\ idleWorker
    /\ UNCHANGED <<tables, stores, api, adm, lost>>

\* The process stops.  Traces of a document that is already gone stay.
Crash ==
    /\ "crash" \in Faults
    /\ outages < MaxOutages /\ outages' = outages + 1
    /\ wpc # "down"
    /\ wpc' = "down" /\ wdoc' = NoDoc /\ view' = "closed"
    /\ wchunks' = {} /\ wtriples' = {} /\ wout' = "failed" /\ taken' = 0
    /\ lost' = IF wpc \in OwesRecheck /\ ~Live(wdoc) THEN lost \cup {wdoc} ELSE lost
    /\ UNCHANGED <<tables, stores, api, adm>>

Restart ==
    /\ wpc = "down"
    /\ wpc' = "idle"
    /\ UNCHANGED <<tables, stores, api, adm,
                   wdoc, view, wchunks, wtriples, wout, taken, history>>

\* A worker with nothing to claim polls every POLL_INTERVAL_SECONDS.
Polling == wpc \in {"idle", "pick"} /\ \A d \in Docs : job[d] # "queued"

\* STALE_RUNNING_MINUTES pass since the claim.  The worker leaves a queue that
\* has jobs for seconds only, so they pass while it is down or has nothing to
\* claim, and, if ingesting one file can take that long, while it holds a job.
GracePeriod(d) ==
    /\ job[d] = "running"
    /\ d \notin stale
    /\ wpc = "down" \/ Polling \/ ("slow" \in Faults /\ wpc \in HoldsJob)
    /\ stale' = stale \cup {d}
    /\ UNCHANGED <<userRow, docRow, job, jobId, nextId, stores, api, adm, worker, history>>

ProcessJob ==
    \/ Load \/ Read \/ ReadRaises
    \/ \E c \in Chunks : UpsertChunk(c)
    \/ \E t \in Triples : MergeTriple(t)
    \/ IndexRaises \/ EndSnapshot \/ Recheck \/ CleanQdrant \/ CleanNeo4j \/ Except

WorkerStep ==
    \/ DrainStart \/ DrainEnd \/ \E d \in Docs : Claim(d)
    \/ ProcessJob \/ Commit \/ CommitAborts

WorkerNext ==
    \/ WorkerStep
    \/ DatabaseFails \/ Crash \/ Restart
    \/ \E d \in Docs : GracePeriod(d)
=============================================================================
