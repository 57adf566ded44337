-------------------------- MODULE IngestionProofs --------------------------
(***************************************************************************)
(* Theorems about Ingestion that hold for every choice of its constants.   *)
(***************************************************************************)
EXTENDS Ingestion, TLAPS

-----------------------------------------------------------------------------
(* Type correctness.                                                       *)

LEMMA InitTypeOK == Init => TypeOK
BY NoDocAssumption, DataAssumption, BoundAssumption
   DEF Init, TypeOK, LiveStatus, HoldsJob, NoDeletion

LEMMA ApiTypeOK ==
    ASSUME TypeOK, ApiNext
    PROVE  TypeOK'
<1>0. PICK d \in Docs : UploadStep(d) \/ DeleteStart(d) \/ DeleteStep(d)
  BY DEF ApiNext
<1> USE <1>0, DataAssumption, BoundAssumption
    DEF TypeOK, LiveStatus, HoldsJob, tables, stores, api, worker, history, Vanish,
        CleanupOutcome, WithoutPoints, WithoutRels, DeleteRowsOf, Live
<1>1. CASE UploadBlob(d)
  BY <1>1 DEF UploadBlob
<1>2. CASE UploadCommit(d)
  <2>1. CASE userRow[Owner[d]]
    BY <1>2, <2>1, SMTT(60) DEF UploadCommit
  <2>2. CASE ~userRow[Owner[d]]
    BY <1>2, <2>2 DEF UploadCommit
  <2>. QED  BY <2>1, <2>2
<1>3. CASE UploadDies(d)
  BY <1>3 DEF UploadDies
<1>4. CASE DeleteStart(d)
  BY <1>4 DEF DeleteStart
<1>5. CASE DeleteRows(d)
  BY <1>5 DEF DeleteRows
<1>6. CASE DeleteLocked(d)
  <2>1. tries[d] \in 0..MaxDeleteAttempts /\ tries[d] < MaxDeleteAttempts
    BY <1>6 DEF DeleteLocked
  <2>2. CASE tries[d] + 1 = MaxDeleteAttempts
    BY <1>6, <2>1, <2>2 DEF DeleteLocked
  <2>3. CASE tries[d] + 1 # MaxDeleteAttempts
    BY <1>6, <2>1, <2>3 DEF DeleteLocked
  <2>. QED  BY <2>2, <2>3
<1>7. CASE DeleteQdrant(d)
  BY <1>7 DEF DeleteQdrant
<1>8. CASE DeleteNeo4j(d)
  BY <1>8 DEF DeleteNeo4j
<1>9. CASE DeleteBlob(d)
  BY <1>9 DEF DeleteBlob
<1>10. CASE DeleteDies(d)
  BY <1>10 DEF DeleteDies
<1>11. CASE DeleteRefused(d)
  BY <1>11 DEF DeleteRefused
<1>. QED  BY <1>1, <1>2, <1>3, <1>4, <1>5, <1>6, <1>7, <1>8, <1>9, <1>10, <1>11
          DEF UploadStep, DeleteStep

LEMMA AdminTypeOK ==
    ASSUME TypeOK, AdminNext
    PROVE  TypeOK'
<1>0. PICK u \in Users : AdminStart(u) \/ AdminStep(u)
  BY DEF AdminNext
<1> USE <1>0, DataAssumption, BoundAssumption
    DEF TypeOK, LiveStatus, HoldsJob, tables, stores, api, worker, history, Cleaned,
        WithoutPoints, WithoutRels, DeleteRowsOf, Live, OwnedBy, NoDeletion
<1>1. CASE AdminStart(u)
  BY <1>1 DEF AdminStart
<1>2. ASSUME NEW d \in Docs, AdminQdrant(u, d)
      PROVE  TypeOK'
  BY <1>2 DEF AdminQdrant
<1>3. CASE AdminNeo4j(u)
  BY <1>3 DEF AdminNeo4j
<1>4. CASE AdminBlob(u)
  BY <1>4 DEF AdminBlob
<1>5. CASE AdminRows(u)
  BY <1>5 DEF AdminRows
<1>6. CASE AdminAborts(u)
  BY <1>6 DEF AdminAborts
<1>. QED  BY <1>1, <1>2, <1>3, <1>4, <1>5, <1>6 DEF AdminStep

LEMMA WorkerTypeOK ==
    ASSUME TypeOK, WorkerNext
    PROVE  TypeOK'
<1> USE NoDocAssumption, DataAssumption, BoundAssumption
    DEF TypeOK, LiveStatus, HoldsJob, tables, stores, api, worker, history, WithoutPoints,
        WithoutRels, Live, Sees, TakeBack, idleWorker
<1>1. CASE DrainStart
  BY <1>1 DEF DrainStart
<1>2. ASSUME NEW d \in Docs, Claim(d)
      PROVE  TypeOK'
  BY <1>2 DEF Claim, Oldest
<1>3. CASE DrainEnd
  BY <1>3 DEF DrainEnd
<1>4. CASE Load
  BY <1>4 DEF Load
<1>5. CASE Read
  BY <1>5 DEF Read
<1>6. CASE ReadRaises
  BY <1>6 DEF ReadRaises
<1>7. ASSUME NEW c \in Chunks, UpsertChunk(c)
      PROVE  TypeOK'
  BY <1>7 DEF UpsertChunk
<1>8. ASSUME NEW t \in Triples, MergeTriple(t)
      PROVE  TypeOK'
  BY <1>8 DEF MergeTriple
<1>9. CASE IndexRaises
  BY <1>9 DEF IndexRaises
<1>10. CASE EndSnapshot
  BY <1>10 DEF EndSnapshot
<1>11. CASE Recheck
  BY <1>11 DEF Recheck
<1>12. CASE CleanQdrant
  BY <1>12 DEF CleanQdrant
<1>13. CASE CleanNeo4j
  BY <1>13 DEF CleanNeo4j
<1>14. CASE Except
  BY <1>14 DEF Except
<1>15. CASE Commit
  BY <1>15 DEF Commit
<1>16. CASE CommitAborts
  BY <1>16 DEF CommitAborts
<1>17. CASE DatabaseFails
  BY <1>17 DEF DatabaseFails
<1>18. CASE Crash
  BY <1>18 DEF Crash, OwesRecheck
<1>19. CASE Restart
  BY <1>19 DEF Restart
<1>20. ASSUME NEW d \in Docs, GracePeriod(d)
      PROVE  TypeOK'
  BY <1>20 DEF GracePeriod
<1>. QED  BY <1>1, <1>2, <1>3, <1>4, <1>5, <1>6, <1>7, <1>8, <1>9, <1>10,
             <1>11, <1>12, <1>13, <1>14, <1>15, <1>16, <1>17, <1>18, <1>19, <1>20
          DEF WorkerNext, WorkerStep, ProcessJob

\* Every variable keeps the range the code and the schema give it, for every
\* set of documents, files and failures and for every bound.
THEOREM TypeCorrect == Spec => []TypeOK
<1>1. TypeOK /\ [Next]_vars => TypeOK'
  <2>1. ASSUME TypeOK, UNCHANGED vars
        PROVE  TypeOK'
    BY <2>1 DEF TypeOK, vars, tables, stores, api, worker, history
  <2>. QED  BY <2>1, ApiTypeOK, AdminTypeOK, WorkerTypeOK DEF Next
<1>. QED  BY InitTypeOK, <1>1, PTL DEF Spec

-----------------------------------------------------------------------------
(* The tables.  JobDocAgree is not inductive: the final commit is right    *)
(* only because the job the worker holds is still the claimed one or gone, *)
(* and because a document found missing stays missing.                     *)

NothingBeforeUpload ==
    \A d \in Docs : up[d] # "done" => docRow[d] = "none" /\ job[d] = "none"

StaleIsRunning == \A d \in stale : job[d] = "running"

ClaimIsKept ==
    wpc \in HoldsJob => up[wdoc] = "done" /\ job[wdoc] \in {"running", "none"}

MissingIsMissing ==
    wpc \in {"cleanQ", "cleanN"} \/ (wpc = "commit" /\ wout = "missing") => ~Live(wdoc)

TableInv ==
    /\ TypeOK
    /\ JobDocAgree
    /\ RowHasAccount
    /\ NothingBeforeUpload
    /\ StaleIsRunning
    /\ ClaimIsKept
    /\ MissingIsMissing
    /\ wpc = "recheck" => view = "closed"

LEMMA InitTableInv == Init => TableInv
BY InitTypeOK
   DEF Init, TableInv, JobDocAgree, RowHasAccount, NothingBeforeUpload, StaleIsRunning,
       ClaimIsKept, MissingIsMissing, Live, LiveStatus, HoldsJob

LEMMA ApiTableInv ==
    ASSUME TableInv, ApiNext
    PROVE  TableInv'
<1>0. PICK d \in Docs : UploadStep(d) \/ DeleteStart(d) \/ DeleteStep(d)
  BY DEF ApiNext
<1>t. TypeOK'
  BY ApiTypeOK DEF TableInv
<1> USE <1>0, <1>t, DataAssumption
    DEF TableInv, TypeOK, LiveStatus, Live, HoldsJob, tables, worker, DeleteRowsOf,
        JobDocAgree, RowHasAccount, NothingBeforeUpload, StaleIsRunning, ClaimIsKept,
        MissingIsMissing
<1>1. CASE UploadBlob(d)
  BY <1>1 DEF UploadBlob
<1>2. CASE UploadCommit(d)
  BY <1>2 DEF UploadCommit
<1>3. CASE UploadDies(d)
  BY <1>3 DEF UploadDies
<1>4. CASE DeleteStart(d)
  BY <1>4 DEF DeleteStart
<1>5. CASE DeleteRows(d)
  BY <1>5 DEF DeleteRows
<1>6. CASE DeleteLocked(d)
  BY <1>6 DEF DeleteLocked
<1>7. CASE DeleteQdrant(d)
  BY <1>7 DEF DeleteQdrant
<1>8. CASE DeleteNeo4j(d)
  BY <1>8 DEF DeleteNeo4j
<1>9. CASE DeleteBlob(d)
  BY <1>9 DEF DeleteBlob
<1>10. CASE DeleteDies(d)
  BY <1>10 DEF DeleteDies
<1>11. CASE DeleteRefused(d)
  BY <1>11 DEF DeleteRefused
<1>. QED  BY <1>1, <1>2, <1>3, <1>4, <1>5, <1>6, <1>7, <1>8, <1>9, <1>10, <1>11
          DEF UploadStep, DeleteStep

LEMMA AdminTableInv ==
    ASSUME TableInv, AdminNext
    PROVE  TableInv'
<1>0. PICK u \in Users : AdminStart(u) \/ AdminStep(u)
  BY DEF AdminNext
<1>t. TypeOK'
  BY AdminTypeOK DEF TableInv
<1> USE <1>0, <1>t, DataAssumption
    DEF TableInv, TypeOK, LiveStatus, Live, HoldsJob, tables, api, worker, DeleteRowsOf,
        OwnedBy, JobDocAgree, RowHasAccount, NothingBeforeUpload, StaleIsRunning,
        ClaimIsKept, MissingIsMissing
<1>1. CASE AdminStart(u)
  BY <1>1 DEF AdminStart
<1>2. ASSUME NEW d \in Docs, AdminQdrant(u, d)
      PROVE  TableInv'
  BY <1>2 DEF AdminQdrant
<1>3. CASE AdminNeo4j(u)
  BY <1>3 DEF AdminNeo4j
<1>4. CASE AdminBlob(u)
  BY <1>4 DEF AdminBlob
<1>5. CASE AdminRows(u)
  BY <1>5 DEF AdminRows
<1>6. CASE AdminAborts(u)
  BY <1>6 DEF AdminAborts
<1>. QED  BY <1>1, <1>2, <1>3, <1>4, <1>5, <1>6
          DEF AdminStep

LEMMA WorkerTableInv ==
    ASSUME TableInv, WorkerNext
    PROVE  TableInv'
<1>t. TypeOK'
  BY WorkerTypeOK DEF TableInv
<1> USE <1>t
    DEF TableInv, TypeOK, LiveStatus, Live, HoldsJob, tables, api, worker, Sees, idleWorker,
        CommitRefused, JobDocAgree, RowHasAccount, NothingBeforeUpload, StaleIsRunning,
        ClaimIsKept, MissingIsMissing
<1>1. CASE DrainStart
  BY <1>1 DEF DrainStart
<1>2. ASSUME NEW d \in Docs, Claim(d)
      PROVE  TableInv'
  BY <1>2 DEF Claim, Oldest
<1>3. CASE DrainEnd
  BY <1>3 DEF DrainEnd
<1>4. CASE Load
  BY <1>4 DEF Load
<1>5. CASE Read
  BY <1>5 DEF Read
<1>6. CASE ReadRaises
  BY <1>6 DEF ReadRaises
<1>7. ASSUME NEW c \in Chunks, UpsertChunk(c)
      PROVE  TableInv'
  BY <1>7 DEF UpsertChunk
<1>8. ASSUME NEW t \in Triples, MergeTriple(t)
      PROVE  TableInv'
  BY <1>8 DEF MergeTriple
<1>9. CASE IndexRaises
  BY <1>9 DEF IndexRaises
<1>10. CASE EndSnapshot
  BY <1>10 DEF EndSnapshot
<1>11. CASE Recheck
  BY <1>11 DEF Recheck
<1>12. CASE CleanQdrant
  BY <1>12 DEF CleanQdrant
<1>13. CASE CleanNeo4j
  BY <1>13 DEF CleanNeo4j
<1>14. CASE Except
  BY <1>14 DEF Except
<1>15. CASE Commit
  BY <1>15 DEF Commit
<1>16. CASE CommitAborts
  BY <1>16 DEF CommitAborts
<1>17. CASE DatabaseFails
  BY <1>17 DEF DatabaseFails
<1>18. CASE Crash
  BY <1>18 DEF Crash, OwesRecheck
<1>19. CASE Restart
  BY <1>19 DEF Restart
<1>20. ASSUME NEW d \in Docs, GracePeriod(d)
      PROVE  TableInv'
  BY <1>20 DEF GracePeriod
<1>. QED  BY <1>1, <1>2, <1>3, <1>4, <1>5, <1>6, <1>7, <1>8, <1>9, <1>10,
             <1>11, <1>12, <1>13, <1>14, <1>15, <1>16, <1>17, <1>18, <1>19, <1>20
          DEF WorkerNext, WorkerStep, ProcessJob

LEMMA TableInvariant == Spec => []TableInv
<1>1. TableInv /\ [Next]_vars => TableInv'
  <2>1. ASSUME TableInv, UNCHANGED vars
        PROVE  TableInv'
    BY <2>1
       DEF TableInv, TypeOK, JobDocAgree, RowHasAccount, NothingBeforeUpload,
           StaleIsRunning, ClaimIsKept, MissingIsMissing, Live,
           vars, tables, stores, api, worker, history
  <2>. QED  BY <2>1, ApiTableInv, AdminTableInv, WorkerTableInv DEF Next
<1>. QED  BY InitTableInv, <1>1, PTL DEF Spec

\* Whatever interrupts the worker, the two tables never disagree about a
\* document.
THEOREM JobsAndDocumentsAgree == Spec => []JobDocAgree
BY TableInvariant, PTL DEF TableInv

\* No document and no job outlives its account, in spite of uploads that race
\* the deletion of the account.
THEOREM RowsHaveAccounts == Spec => []RowHasAccount
BY TableInvariant, PTL DEF TableInv

-----------------------------------------------------------------------------
(* Refinement of DocumentLifecycle.  UploadCommit, Commit, DeleteRows and  *)
(* AdminRows are the steps that are not stutters.                          *)

LEMMA RowsGone ==
    ASSUME NEW D \in SUBSET Docs, DeleteRowsOf(D),
           docRow \in [Docs -> LiveStatus \cup {"none", "gone"}]
    PROVE  [Lifecycle!Next]_docRow
<1> DEFINE R == {d \in D : Live(d)}
<1>1. docRow' = [d \in Docs |-> IF d \in R THEN "gone" ELSE docRow[d]]
  BY DEF DeleteRowsOf
<1>2. \A d \in R : docRow[d] \in Lifecycle!LiveStatus
  BY DEF Live, LiveStatus, Lifecycle!LiveStatus
<1>3. CASE R = {}
  BY <1>1, <1>3
<1>4. CASE R # {}
  <2>1. Lifecycle!Remove(R)
    BY <1>1, <1>2, <1>4 DEF Lifecycle!Remove
  <2>. QED  BY <2>1 DEF Lifecycle!Next
<1>. QED  BY <1>3, <1>4

LEMMA LifecycleStep ==
    ASSUME TableInv, [Next]_vars
    PROVE  [Lifecycle!Next]_docRow
<1> USE DEF tables, worker, TableInv, TypeOK
<1>1. CASE UNCHANGED vars
  BY <1>1 DEF vars
<1>2. CASE ApiNext
  <2>1. PICK d \in Docs : UploadStep(d) \/ DeleteStart(d) \/ DeleteStep(d)
    BY <1>2 DEF ApiNext
  <2>2. CASE UploadCommit(d)
    <3>1. Lifecycle!Upload(d) \/ UNCHANGED docRow
      BY <2>2 DEF UploadCommit, NothingBeforeUpload, Lifecycle!Upload
    <3>. QED  BY <3>1 DEF Lifecycle!Next
  <2>3. CASE DeleteRows(d)
    BY <2>3, RowsGone DEF DeleteRows
  <2>4. CASE ~UploadCommit(d) /\ ~DeleteRows(d)
    BY <2>1, <2>4
       DEF UploadStep, DeleteStep, UploadBlob, UploadDies, DeleteStart, DeleteLocked,
           DeleteRefused, DeleteQdrant, DeleteNeo4j, DeleteBlob, DeleteDies
  <2>. QED  BY <2>2, <2>3, <2>4
<1>3. CASE AdminNext
  <2>1. PICK u \in Users : AdminStart(u) \/ AdminStep(u)
    BY <1>3 DEF AdminNext
  <2>2. CASE AdminRows(u)
    BY <2>2, RowsGone DEF AdminRows, OwnedBy
  <2>3. CASE ~AdminRows(u)
    BY <2>1, <2>3
       DEF AdminStep, AdminStart, AdminQdrant, AdminNeo4j, AdminBlob, AdminAborts
  <2>. QED  BY <2>2, <2>3
<1>4. CASE WorkerNext
  <2>1. CASE Commit
    <3>1. wdoc \in Docs /\ docRow[wdoc] = "pending" /\ wout \in {"ready", "failed"}
      BY <2>1 DEF Commit, CommitRefused, HoldsJob, ClaimIsKept, MissingIsMissing,
                  JobDocAgree, Live, LiveStatus
    <3>2. Lifecycle!Settle(wdoc)
      BY <2>1, <3>1 DEF Commit, Lifecycle!Settle
    <3>. QED  BY <3>1, <3>2 DEF Lifecycle!Next
  <2>2. CASE ~Commit
    BY <1>4, <2>2
       DEF WorkerNext, WorkerStep, ProcessJob, DrainStart, DrainEnd, Claim, Load, Read,
           ReadRaises, UpsertChunk, MergeTriple, IndexRaises, EndSnapshot, Recheck,
           CleanQdrant, CleanNeo4j, Except, CommitAborts, DatabaseFails, Crash,
           Restart, GracePeriod
  <2>. QED  BY <2>1, <2>2
<1>. QED  BY <1>1, <1>2, <1>3, <1>4 DEF Next

\* The interleaving of uploads, deletions, account deletions, crashes and the
\* worker does to the status column only what DocumentLifecycle allows.
THEOREM LifecycleImplemented == Spec => ImplementsLifecycle
<1>1. Init => Lifecycle!Init
  BY DEF Init, Lifecycle!Init
<1>2. TableInv /\ [Next]_vars => [Lifecycle!Next]_docRow
  BY LifecycleStep
<1>. QED  BY <1>1, <1>2, TableInvariant, PTL DEF Spec, ImplementsLifecycle, Lifecycle!Spec

-----------------------------------------------------------------------------
(* The stores: what delete_document and the worker guarantee by their      *)
(* order of steps to the documents of accounts that are not deleted, while *)
(* other accounts are.                                                     *)

AccountsStay == \A u \in Users \ AdminTargets : userRow[u] /\ adm[u].pc = "idle"

\* The deletion of an account is at work on the documents of that account.
AdminHasOwn ==
    \A u \in Users : /\ adm[u].todo \subseteq OwnedBy(u)
                     /\ adm[u].pc \in {"neo4j", "blob"} => adm[u].doc \in OwnedBy(u)

\* A delete request cleans up only after the row is gone.
CleanupAfterRows ==
    \A d \in Docs :
        /\ del[d] = "rows" => docRow[d] # "none"
        /\ del[d] \in {"qdrant", "neo4j", "blob"} => docRow[d] = "gone"

StoredBlob == \A d \in Spared : up[d] = "stored" => d \in blob

BlobInv ==
    /\ TableInv
    /\ AccountsStay
    /\ AdminHasOwn
    /\ CleanupAfterRows
    /\ RowHasBlob
    /\ StoredBlob

\* The deletion of an account takes nothing from the documents of others.
SparesOthers ==
    /\ UNCHANGED <<api, worker>>
    /\ lost \subseteq lost'
    /\ \A d \in Docs : docRow'[d] = docRow[d] \/ (Live(d) /\ docRow'[d] = "gone")
    /\ \A d \in Spared :
          /\ docRow'[d] = docRow[d]
          /\ d \in blob' <=> d \in blob
          /\ \A c \in Chunks : points'[c] = d <=> points[c] = d
          /\ \A t \in Triples : rels'[t] = d <=> rels[t] = d

LEMMA AdminSpares ==
    ASSUME TypeOK, AccountsStay, AdminHasOwn, AdminNext
    PROVE  AccountsStay' /\ AdminHasOwn' /\ SparesOthers
<1>0. PICK u \in Users : AdminStart(u) \/ AdminStep(u)
  BY DEF AdminNext
<1>1. u \in AdminTargets
  BY <1>0 DEF AccountsStay, AdminStep, AdminStart, AdminQdrant, AdminNeo4j, AdminBlob, AdminRows,
              AdminAborts
<1>2. OwnedBy(u) \cap Spared = {}
  BY <1>1 DEF OwnedBy, Spared
<1> USE <1>1, <1>2, NoDocAssumption, DataAssumption
    DEF TypeOK, AccountsStay, AdminHasOwn, SparesOthers, Spared, OwnedBy, tables, stores, api,
        worker, history, Cleaned, WithoutPoints, WithoutRels, DeleteRowsOf, Live, LiveStatus,
        NoDeletion
<1>3. CASE AdminStart(u)
  BY <1>3 DEF AdminStart
<1>4. ASSUME NEW d \in Docs, AdminQdrant(u, d)
      PROVE  AccountsStay' /\ AdminHasOwn' /\ SparesOthers
  BY <1>4 DEF AdminQdrant
<1>5. CASE AdminNeo4j(u)
  BY <1>5 DEF AdminNeo4j
<1>6. CASE AdminBlob(u)
  BY <1>6 DEF AdminBlob
<1>7. CASE AdminRows(u)
  BY <1>7 DEF AdminRows
<1>8. CASE AdminAborts(u)
  BY <1>8 DEF AdminAborts
<1>. QED  BY <1>0, <1>3, <1>4, <1>5, <1>6, <1>7, <1>8 DEF AdminStep

LEMMA AdminBlobInv ==
    ASSUME BlobInv, AdminNext
    PROVE  BlobInv' /\ SparesOthers
<1>1. TableInv' /\ AccountsStay' /\ AdminHasOwn' /\ SparesOthers
  BY AdminTableInv, AdminSpares DEF BlobInv, TableInv
<1>2. CleanupAfterRows' /\ RowHasBlob' /\ StoredBlob'
  BY <1>1 DEF BlobInv, SparesOthers, CleanupAfterRows, RowHasBlob, StoredBlob, Spared, Live,
              LiveStatus, api
<1>. QED  BY <1>1, <1>2 DEF BlobInv

LEMMA ApiBlobInv ==
    ASSUME BlobInv, ApiNext
    PROVE  BlobInv'
<1>0. PICK d \in Docs : UploadStep(d) \/ DeleteStart(d) \/ DeleteStep(d)
  BY DEF ApiNext
<1>t. TableInv'
  BY ApiTableInv DEF BlobInv
<1> USE <1>0, <1>t, NoDocAssumption, DataAssumption
    DEF BlobInv, AccountsStay, AdminHasOwn, Spared, CleanupAfterRows, RowHasBlob, StoredBlob,
        NothingBeforeUpload, ClaimIsKept, tables, stores, worker, history, Vanish,
        CleanupOutcome, WithoutPoints, WithoutRels, DeleteRowsOf, TableInv, TypeOK,
        LiveStatus, Live, HoldsJob
<1>1. CASE UploadBlob(d)
  BY <1>1 DEF UploadBlob
<1>2. CASE UploadCommit(d)
  <2>1. docRow[d] = "none" /\ del[d] = "idle" /\ (d \in Spared => d \in blob)
    BY <1>2 DEF UploadCommit
  <2>2. /\ docRow' = [docRow EXCEPT ![d] = "pending"] \/ docRow' = docRow
        /\ up' = [up EXCEPT ![d] = "done"]
        /\ UNCHANGED <<userRow, blob, del, adm>>
    BY <1>2 DEF UploadCommit
  <2>3. \A x \in Docs : docRow'[x] = docRow[x] \/ (x = d /\ docRow'[x] = "pending")
    BY <2>2
  <2>4. AccountsStay' /\ AdminHasOwn' /\ StoredBlob'
    BY <2>2
  <2>5. RowHasBlob'
    BY <2>1, <2>2, <2>3
  <2>6. CleanupAfterRows'
    BY <2>1, <2>2, <2>3
  <2>. QED  BY <2>4, <2>5, <2>6
<1>3. CASE UploadDies(d)
  BY <1>3 DEF UploadDies
<1>4. CASE DeleteStart(d)
  BY <1>4 DEF DeleteStart
<1>5. CASE DeleteRows(d)
  BY <1>5 DEF DeleteRows
<1>6. CASE DeleteLocked(d)
  BY <1>6 DEF DeleteLocked
<1>7. CASE DeleteQdrant(d)
  BY <1>7 DEF DeleteQdrant
<1>8. CASE DeleteNeo4j(d)
  BY <1>8 DEF DeleteNeo4j
<1>9. CASE DeleteBlob(d)
  BY <1>9 DEF DeleteBlob
<1>10. CASE DeleteDies(d)
  BY <1>10 DEF DeleteDies
<1>11. CASE DeleteRefused(d)
  BY <1>11 DEF DeleteRefused
<1>. QED  BY <1>1, <1>2, <1>3, <1>4, <1>5, <1>6, <1>7, <1>8, <1>9, <1>10, <1>11
          DEF UploadStep, DeleteStep

LEMMA WorkerBlobInv ==
    ASSUME BlobInv, WorkerNext
    PROVE  BlobInv'
<1>t. TableInv'
  BY WorkerTableInv DEF BlobInv
<1> USE <1>t, NoDocAssumption, DataAssumption
    DEF BlobInv, AccountsStay, AdminHasOwn, Spared, CleanupAfterRows, RowHasBlob, StoredBlob,
        NothingBeforeUpload, ClaimIsKept, tables, stores, api, worker, history, TakeBack,
        Sees, idleWorker, CommitRefused, WithoutPoints, WithoutRels, TableInv, TypeOK,
        LiveStatus, Live, HoldsJob
<1>1. CASE DrainStart
  BY <1>1 DEF DrainStart
<1>2. ASSUME NEW d \in Docs, Claim(d)
      PROVE  BlobInv'
  BY <1>2 DEF Claim
<1>3. CASE DrainEnd
  BY <1>3 DEF DrainEnd
<1>4. CASE Load
  BY <1>4 DEF Load
<1>5. CASE Read
  BY <1>5 DEF Read
<1>6. CASE ReadRaises
  BY <1>6 DEF ReadRaises
<1>7. ASSUME NEW c \in Chunks, UpsertChunk(c)
      PROVE  BlobInv'
  BY <1>7 DEF UpsertChunk
<1>8. ASSUME NEW t \in Triples, MergeTriple(t)
      PROVE  BlobInv'
  BY <1>8 DEF MergeTriple
<1>9. CASE IndexRaises
  BY <1>9 DEF IndexRaises
<1>10. CASE EndSnapshot
  BY <1>10 DEF EndSnapshot
<1>11. CASE Recheck
  BY <1>11 DEF Recheck
<1>12. CASE CleanQdrant
  BY <1>12 DEF CleanQdrant
<1>13. CASE CleanNeo4j
  BY <1>13 DEF CleanNeo4j
<1>14. CASE Except
  BY <1>14 DEF Except
<1>15. CASE Commit
  BY <1>15 DEF Commit
<1>16. CASE CommitAborts
  BY <1>16 DEF CommitAborts
<1>17. CASE DatabaseFails
  BY <1>17 DEF DatabaseFails
<1>18. CASE Crash
  BY <1>18 DEF Crash
<1>19. CASE Restart
  BY <1>19 DEF Restart
<1>20. ASSUME NEW d \in Docs, GracePeriod(d)
      PROVE  BlobInv'
  BY <1>20 DEF GracePeriod
<1>. QED  BY <1>1, <1>2, <1>3, <1>4, <1>5, <1>6, <1>7, <1>8, <1>9, <1>10,
             <1>11, <1>12, <1>13, <1>14, <1>15, <1>16, <1>17, <1>18, <1>19, <1>20
          DEF WorkerNext, WorkerStep, ProcessJob

LEMMA BlobInvariant == Spec => []BlobInv
<1>1. Init => BlobInv
  BY InitTableInv
     DEF Init, BlobInv, AccountsStay, AdminHasOwn, CleanupAfterRows, RowHasBlob, StoredBlob,
         Spared, NoDeletion,
         Live, LiveStatus
<1>2. BlobInv /\ [Next]_vars => BlobInv'
  <2>1. ASSUME BlobInv, UNCHANGED vars
        PROVE  BlobInv'
    BY <2>1
       DEF BlobInv, AccountsStay, AdminHasOwn, Spared, CleanupAfterRows, RowHasBlob, StoredBlob, TableInv, TypeOK,
           JobDocAgree, RowHasAccount, NothingBeforeUpload, StaleIsRunning, ClaimIsKept,
           MissingIsMissing, Live, vars, tables, stores, api, worker, history
  <2>. QED  BY <2>1, ApiBlobInv, AdminBlobInv, WorkerBlobInv DEF Next
<1>. QED  BY <1>1, <1>2, PTL DEF Spec

\* A document that has a row has its file, so a reclaimed job can always run
\* again: delete_document removes the rows before the blob.
THEOREM RowsHaveBlobs == Spec => []RowHasBlob
BY BlobInvariant, PTL DEF BlobInv

-----------------------------------------------------------------------------
(* Orphans: no trace of a removed document is left behind, as long as      *)
(* nothing raises inside the try block of process_job once it has begun to *)
(* write (IndexRaises), because the except branch takes nothing back.      *)

LEMMA ApiOrphans ==
    ASSUME BlobInv, OrphansAreOwed, ApiNext, "index" \notin Faults
    PROVE  OrphansAreOwed'
<1>0. PICK d \in Docs : UploadStep(d) \/ DeleteStart(d) \/ DeleteStep(d)
  BY DEF ApiNext
<1>t. BlobInv'
  BY ApiBlobInv
<1>1. SUFFICES ASSUME NEW e \in Spared, ~Live(e)', e \notin lost'
               PROVE  PointsOwed(e)' /\ EdgesOwed(e)' /\ BlobOwed(e)'
  BY DEF OrphansAreOwed
<1> USE <1>0, <1>t, <1>1, NoDocAssumption, DataAssumption
    DEF Vanish, CleanupOutcome, DeleteRowsOf, OrphansAreOwed, PointsOwed, EdgesOwed,
        BlobOwed, BlobInv, AccountsStay, AdminHasOwn, Spared, CleanupAfterRows, NothingBeforeUpload, ClaimIsKept,
        MissingIsMissing, tables, stores, worker, history, WithoutPoints, WithoutRels,
        TableInv, TypeOK, LiveStatus, Live, HoldsJob
<1>2. CASE UploadBlob(d)
  BY <1>2 DEF UploadBlob
<1>3. CASE UploadCommit(d)
  BY <1>3 DEF UploadCommit
<1>4. CASE UploadDies(d)
  BY <1>4 DEF UploadDies
<1>5. CASE DeleteStart(d)
  BY <1>5 DEF DeleteStart
<1>6. CASE DeleteRows(d)
  BY <1>6 DEF DeleteRows
<1>7. CASE DeleteLocked(d)
  BY <1>7 DEF DeleteLocked
<1>8. CASE DeleteQdrant(d)
  BY <1>8 DEF DeleteQdrant
<1>9. CASE DeleteNeo4j(d)
  BY <1>9 DEF DeleteNeo4j
<1>10. CASE DeleteBlob(d)
  BY <1>10 DEF DeleteBlob
<1>11. CASE DeleteDies(d)
  BY <1>11 DEF DeleteDies
<1>12. CASE DeleteRefused(d)
  BY <1>12 DEF DeleteRefused
<1>. QED  BY <1>1, <1>2, <1>3, <1>4, <1>5, <1>6, <1>7, <1>8, <1>9, <1>10,
             <1>11, <1>12
          DEF UploadStep, DeleteStep

LEMMA AdminOrphans ==
    ASSUME BlobInv, OrphansAreOwed, AdminNext
    PROVE  OrphansAreOwed'
<1>1. SparesOthers
  BY AdminBlobInv
<1>. QED  BY <1>1 DEF SparesOthers, OrphansAreOwed, PointsOwed, EdgesOwed, BlobOwed, Spared, Live,
                      api, worker

\* The worker takes back all it has of its document, and nothing else.
LEMMA TakenBack ==
    ASSUME NEW e \in Docs, TakeBack(points' = WithoutPoints(wdoc) /\ UNCHANGED <<rels, blob>>),
           e \notin lost', NEW c \in Chunks, points'[c] = e
    PROVE  points[c] = e /\ e # wdoc
<1>1. CASE points' = WithoutPoints(wdoc)
  BY <1>1, NoDocAssumption DEF WithoutPoints
<1>2. CASE points' = points /\ lost' = lost \cup {wdoc}
  BY <1>2
<1>. QED  BY <1>1, <1>2 DEF TakeBack, stores

LEMMA TakenBackEdges ==
    ASSUME NEW e \in Docs, TakeBack(rels' = WithoutRels(wdoc) /\ UNCHANGED <<points, blob>>),
           e \notin lost', NEW t \in Triples, rels'[t] = e
    PROVE  rels[t] = e /\ e # wdoc
<1>1. CASE rels' = WithoutRels(wdoc)
  BY <1>1, NoDocAssumption DEF WithoutRels
<1>2. CASE rels' = rels /\ lost' = lost \cup {wdoc}
  BY <1>2
<1>. QED  BY <1>1, <1>2 DEF TakeBack, stores

LEMMA WorkerOrphans ==
    ASSUME BlobInv, OrphansAreOwed, WorkerNext, "index" \notin Faults
    PROVE  OrphansAreOwed'
<1>t. BlobInv'
  BY WorkerBlobInv
<1>1. SUFFICES ASSUME NEW e \in Spared, ~Live(e)', e \notin lost'
               PROVE  PointsOwed(e)' /\ EdgesOwed(e)' /\ BlobOwed(e)'
  BY DEF OrphansAreOwed
<1>q. CleanQdrant => \A c \in Chunks : points'[c] = e => points[c] = e /\ e # wdoc
  BY <1>1, TakenBack DEF CleanQdrant, Spared
<1>n. CleanNeo4j => \A t \in Triples : rels'[t] = e => rels[t] = e /\ e # wdoc
  BY <1>1, TakenBackEdges DEF CleanNeo4j, Spared
<1> USE <1>t, <1>1, NoDocAssumption, DataAssumption
    DEF api, TakeBack, Sees, idleWorker, CommitRefused, OwesRecheck, OrphansAreOwed,
        PointsOwed, EdgesOwed, BlobOwed, BlobInv, AccountsStay, CleanupAfterRows,
        NothingBeforeUpload, ClaimIsKept, MissingIsMissing, tables, stores, worker, history,
        WithoutPoints, WithoutRels, TableInv, TypeOK, LiveStatus, Live, HoldsJob
<1>2. CASE DrainStart
  BY <1>2 DEF DrainStart
<1>3. ASSUME NEW d \in Docs, Claim(d)
      PROVE  PointsOwed(e)' /\ EdgesOwed(e)' /\ BlobOwed(e)'
  BY <1>3 DEF Claim
<1>4. CASE DrainEnd
  BY <1>4 DEF DrainEnd
<1>5. CASE Load
  BY <1>5 DEF Load
<1>6. CASE Read
  BY <1>6 DEF Read
<1>7. CASE ReadRaises
  BY <1>7 DEF ReadRaises
<1>8. ASSUME NEW c \in Chunks, UpsertChunk(c)
      PROVE  PointsOwed(e)' /\ EdgesOwed(e)' /\ BlobOwed(e)'
  BY <1>8 DEF UpsertChunk
<1>9. ASSUME NEW t \in Triples, MergeTriple(t)
      PROVE  PointsOwed(e)' /\ EdgesOwed(e)' /\ BlobOwed(e)'
  BY <1>9 DEF MergeTriple
<1>10. CASE IndexRaises
  BY <1>10 DEF IndexRaises
<1>11. CASE EndSnapshot
  BY <1>11 DEF EndSnapshot
<1>12. CASE Recheck
  BY <1>12 DEF Recheck
<1>13. CASE CleanQdrant
  <2>1. PointsOwed(e)'
    <3>1. \A c \in Chunks : points'[c] = e => points[c] = e /\ e # wdoc
      BY <1>13, <1>q
    <3>2. ~Live(e) /\ e \notin lost /\ del'[e] = del[e] /\ wdoc' = wdoc
      BY <1>13 DEF CleanQdrant
    <3>. QED  BY <1>13, <3>1, <3>2
  <2>2. EdgesOwed(e)'
    BY <1>13 DEF CleanQdrant
  <2>3. BlobOwed(e)'
    BY <1>13 DEF CleanQdrant
  <2>. QED  BY <2>1, <2>2, <2>3
<1>14. CASE CleanNeo4j
  <2>1. PointsOwed(e)'
    BY <1>14 DEF CleanNeo4j
  <2>2. EdgesOwed(e)'
    <3>1. \A t \in Triples : rels'[t] = e => rels[t] = e /\ e # wdoc
      BY <1>14, <1>n
    <3>2. ~Live(e) /\ e \notin lost /\ del'[e] = del[e] /\ wdoc' = wdoc
      BY <1>14 DEF CleanNeo4j
    <3>. QED  BY <1>14, <3>1, <3>2
  <2>3. BlobOwed(e)'
    BY <1>14 DEF CleanNeo4j
  <2>. QED  BY <2>1, <2>2, <2>3
<1>15. CASE Except
  BY <1>15 DEF Except
<1>16. CASE Commit
  BY <1>16 DEF Commit
<1>17. CASE CommitAborts
  BY <1>17 DEF CommitAborts
<1>18. CASE DatabaseFails
  BY <1>18 DEF DatabaseFails
<1>19. CASE Crash
  BY <1>19 DEF Crash
<1>20. CASE Restart
  BY <1>20 DEF Restart
<1>21. ASSUME NEW d \in Docs, GracePeriod(d)
      PROVE  PointsOwed(e)' /\ EdgesOwed(e)' /\ BlobOwed(e)'
  BY <1>21 DEF GracePeriod
<1>. QED  BY <1>1, <1>2, <1>3, <1>4, <1>5, <1>6, <1>7, <1>8, <1>9, <1>10,
             <1>11, <1>12, <1>13, <1>14, <1>15, <1>16, <1>17, <1>18, <1>19, <1>20,
             <1>21
          DEF WorkerNext, WorkerStep, ProcessJob

\* Every point, edge and blob of a document without a row is owed by a process
\* that is about to remove it or to insert the row.
THEOREM OrphansOwed ==
    ASSUME "index" \notin Faults
    PROVE  Spec => []OrphansAreOwed
<1>1. Init => OrphansAreOwed
  BY NoDocAssumption DEF Init, OrphansAreOwed, Spared, PointsOwed, EdgesOwed, BlobOwed
<1>2. BlobInv /\ OrphansAreOwed /\ [Next]_vars => OrphansAreOwed'
  <2>1. ASSUME OrphansAreOwed, UNCHANGED vars
        PROVE  OrphansAreOwed'
    BY <2>1
       DEF OrphansAreOwed, PointsOwed, EdgesOwed, BlobOwed, Live, OwesRecheck,
           vars, tables, stores, api, worker, history
  <2>. QED  BY <2>1, ApiOrphans, AdminOrphans, WorkerOrphans DEF Next
<1>. QED  BY <1>1, <1>2, BlobInvariant, PTL DEF Spec

-----------------------------------------------------------------------------
(* What is ready can be found, when no other document has the same chunks  *)
(* or the same facts and no account is deleted.                            *)

\* Files whose chunks, and whose facts, no other document has.
OwnChunks ==
    \A d, e \in Docs : d # e => ChunksOf[ContentOf[d]] \cap ChunksOf[ContentOf[e]] = {}
OwnTriples ==
    \A d, e \in Docs : d # e => TriplesOf[ContentOf[d]] \cap TriplesOf[ContentOf[e]] = {}

\* What the worker has written of a document that still exists is still there.
ChunksWritten ==
    wpc \in HoldsJob /\ Live(wdoc) /\ wdoc \in Spared =>
        /\ wpc = "index" =>
              \A c \in ChunksOf[ContentOf[wdoc]] : c \in wchunks \/ points[c] = wdoc
        /\ wpc = "recheck" \/ (wpc = "commit" /\ wout = "ready") =>
              \A c \in ChunksOf[ContentOf[wdoc]] : points[c] = wdoc
TriplesWritten ==
    wpc \in HoldsJob /\ Live(wdoc) /\ wdoc \in Spared =>
        /\ wpc = "index" =>
              \A t \in TriplesOf[ContentOf[wdoc]] : t \in wtriples \/ rels[t] = wdoc
        /\ wpc = "recheck" \/ (wpc = "commit" /\ wout = "ready") =>
              \A t \in TriplesOf[ContentOf[wdoc]] : rels[t] = wdoc

\* The batches left are some of the file's.
LeftIsOwn ==
    wpc = "index" => /\ wchunks \subseteq ChunksOf[ContentOf[wdoc]]
                     /\ wtriples \subseteq TriplesOf[ContentOf[wdoc]]

LEMMA LeftIsOwnStep ==
    ASSUME LeftIsOwn, TypeOK, [Next]_vars
    PROVE  LeftIsOwn'
<1> USE DEF LeftIsOwn, worker
<1>1. CASE UNCHANGED vars
  BY <1>1 DEF vars
<1>2. CASE ApiNext
  BY <1>2 DEF ApiNext, UploadStep, DeleteStep, UploadBlob, UploadCommit, UploadDies, DeleteStart,
              DeleteRows, DeleteLocked, DeleteRefused, DeleteQdrant, DeleteNeo4j, DeleteBlob,
              DeleteDies
<1>3. CASE AdminNext
  BY <1>3 DEF AdminNext, AdminStep, AdminStart, AdminQdrant, AdminNeo4j, AdminBlob, AdminRows,
              AdminAborts
<1>4. CASE WorkerNext
  BY <1>4
     DEF WorkerNext, WorkerStep, ProcessJob, DrainStart, DrainEnd, Claim, Load, Read, ReadRaises,
         UpsertChunk, MergeTriple, IndexRaises, EndSnapshot, Recheck, CleanQdrant, CleanNeo4j,
         Except, Commit, CommitAborts, DatabaseFails, Crash, Restart, GracePeriod, idleWorker
<1>. QED  BY <1>1, <1>2, <1>3, <1>4 DEF Next

LEMMA ApiIndex ==
    ASSUME BlobInv, LeftIsOwn, ReadyIsIndexed, ChunksWritten, OwnChunks, ApiNext
    PROVE  ReadyIsIndexed' /\ ChunksWritten'
<1>0. PICK d \in Docs : UploadStep(d) \/ DeleteStart(d) \/ DeleteStep(d)
  BY DEF ApiNext
<1>t. BlobInv'
  BY ApiBlobInv
<1> USE <1>0, <1>t, NoDocAssumption, DataAssumption
    DEF Vanish, CleanupOutcome, DeleteRowsOf, ReadyIsIndexed, ChunksWritten, OwnChunks,
        LeftIsOwn, BlobInv, Spared, CleanupAfterRows, NothingBeforeUpload, ClaimIsKept,
        MissingIsMissing, JobDocAgree, tables, stores, worker, history, WithoutPoints,
        WithoutRels, TableInv, TypeOK, LiveStatus, Live, HoldsJob
<1>1. CASE UploadBlob(d)
  BY <1>1 DEF UploadBlob
<1>2. CASE UploadCommit(d)
  <2>1. docRow[d] = "none" /\ (wpc \in HoldsJob => wdoc # d)
    BY <1>2 DEF UploadCommit
  <2>2. /\ docRow' = [docRow EXCEPT ![d] = "pending"] \/ UNCHANGED docRow
        /\ UNCHANGED <<points, rels, wpc, wdoc, wout, wchunks, wtriples>>
    BY <1>2 DEF UploadCommit
  <2>3. (~Live(d) \/ docRow[d] = "pending") /\ \A e \in Docs : e # d => docRow'[e] = docRow[e]
    BY <2>1, <2>2
  <2>4. docRow'[d] # "ready"
    BY <2>1, <2>2
  <2>5. ReadyIsIndexed'
    BY <2>2, <2>3, <2>4
  <2>6. ChunksWritten'
    BY <2>1, <2>2, <2>3
  <2>. QED  BY <2>5, <2>6
<1>3. CASE UploadDies(d)
  BY <1>3 DEF UploadDies
<1>4. CASE DeleteStart(d)
  BY <1>4 DEF DeleteStart
<1>5. CASE DeleteRows(d)
  BY <1>5 DEF DeleteRows
<1>6. CASE DeleteLocked(d)
  BY <1>6 DEF DeleteLocked
<1>7. CASE DeleteQdrant(d)
  BY <1>7 DEF DeleteQdrant
<1>8. CASE DeleteNeo4j(d)
  BY <1>8 DEF DeleteNeo4j
<1>9. CASE DeleteBlob(d)
  BY <1>9 DEF DeleteBlob
<1>10. CASE DeleteDies(d)
  BY <1>10 DEF DeleteDies
<1>11. CASE DeleteRefused(d)
  BY <1>11 DEF DeleteRefused
<1>. QED  BY <1>1, <1>2, <1>3, <1>4, <1>5, <1>6, <1>7, <1>8, <1>9, <1>10, <1>11
          DEF UploadStep, DeleteStep

LEMMA AdminIndex ==
    ASSUME BlobInv, ReadyIsIndexed, ChunksWritten, AdminNext
    PROVE  ReadyIsIndexed' /\ ChunksWritten'
<1>1. SparesOthers
  BY AdminBlobInv
<1>. QED  BY <1>1, DataAssumption
          DEF SparesOthers, BlobInv, TableInv, TypeOK, ReadyIsIndexed, ChunksWritten, Spared, Live, LiveStatus, worker

LEMMA WorkerIndex ==
    ASSUME BlobInv, LeftIsOwn, ReadyIsIndexed, ChunksWritten, OwnChunks, WorkerNext
    PROVE  ReadyIsIndexed' /\ ChunksWritten'
<1>t. BlobInv'
  BY WorkerBlobInv
<1> USE <1>t, NoDocAssumption, DataAssumption
    DEF api, TakeBack, Sees, idleWorker, CommitRefused, ReadyIsIndexed, ChunksWritten,
        OwnChunks, LeftIsOwn, BlobInv, Spared, CleanupAfterRows, NothingBeforeUpload, ClaimIsKept,
        MissingIsMissing, JobDocAgree, tables, stores, worker, history, WithoutPoints,
        WithoutRels, TableInv, TypeOK, LiveStatus, Live, HoldsJob
<1>1. CASE DrainStart
  BY <1>1 DEF DrainStart
<1>2. ASSUME NEW d \in Docs, Claim(d)
      PROVE  ReadyIsIndexed' /\ ChunksWritten'
  BY <1>2 DEF Claim
<1>3. CASE DrainEnd
  BY <1>3 DEF DrainEnd
<1>4. CASE Load
  BY <1>4 DEF Load
<1>5. CASE Read
  BY <1>5 DEF Read
<1>6. CASE ReadRaises
  BY <1>6 DEF ReadRaises
<1>7. ASSUME NEW c \in Chunks, UpsertChunk(c)
      PROVE  ReadyIsIndexed' /\ ChunksWritten'
  BY <1>7 DEF UpsertChunk
<1>8. ASSUME NEW t \in Triples, MergeTriple(t)
      PROVE  ReadyIsIndexed' /\ ChunksWritten'
  BY <1>8 DEF MergeTriple
<1>9. CASE IndexRaises
  BY <1>9 DEF IndexRaises
<1>10. CASE EndSnapshot
  BY <1>10 DEF EndSnapshot
<1>11. CASE Recheck
  BY <1>11 DEF Recheck
<1>12. CASE CleanQdrant
  BY <1>12 DEF CleanQdrant
<1>13. CASE CleanNeo4j
  BY <1>13 DEF CleanNeo4j
<1>14. CASE Except
  BY <1>14 DEF Except
<1>15. CASE Commit
  BY <1>15 DEF Commit
<1>16. CASE CommitAborts
  BY <1>16 DEF CommitAborts
<1>17. CASE DatabaseFails
  BY <1>17 DEF DatabaseFails
<1>18. CASE Crash
  BY <1>18 DEF Crash
<1>19. CASE Restart
  BY <1>19 DEF Restart
<1>20. ASSUME NEW d \in Docs, GracePeriod(d)
      PROVE  ReadyIsIndexed' /\ ChunksWritten'
  BY <1>20 DEF GracePeriod
<1>. QED  BY <1>1, <1>2, <1>3, <1>4, <1>5, <1>6, <1>7, <1>8, <1>9, <1>10,
             <1>11, <1>12, <1>13, <1>14, <1>15, <1>16, <1>17, <1>18, <1>19, <1>20
          DEF WorkerNext, WorkerStep, ProcessJob

LEMMA ApiGraph ==
    ASSUME BlobInv, LeftIsOwn, ReadyIsInGraph, TriplesWritten, OwnTriples, ApiNext
    PROVE  ReadyIsInGraph' /\ TriplesWritten'
<1>0. PICK d \in Docs : UploadStep(d) \/ DeleteStart(d) \/ DeleteStep(d)
  BY DEF ApiNext
<1>t. BlobInv'
  BY ApiBlobInv
<1> USE <1>0, <1>t, NoDocAssumption, DataAssumption
    DEF Vanish, CleanupOutcome, DeleteRowsOf, ReadyIsInGraph, TriplesWritten, OwnTriples,
        LeftIsOwn, BlobInv, Spared, CleanupAfterRows, NothingBeforeUpload, ClaimIsKept,
        MissingIsMissing, JobDocAgree, tables, stores, worker, history, WithoutPoints,
        WithoutRels, TableInv, TypeOK, LiveStatus, Live, HoldsJob
<1>1. CASE UploadBlob(d)
  BY <1>1 DEF UploadBlob
<1>2. CASE UploadCommit(d)
  <2>1. docRow[d] = "none" /\ (wpc \in HoldsJob => wdoc # d)
    BY <1>2 DEF UploadCommit
  <2>2. /\ docRow' = [docRow EXCEPT ![d] = "pending"] \/ UNCHANGED docRow
        /\ UNCHANGED <<points, rels, wpc, wdoc, wout, wchunks, wtriples>>
    BY <1>2 DEF UploadCommit
  <2>3. (~Live(d) \/ docRow[d] = "pending") /\ \A e \in Docs : e # d => docRow'[e] = docRow[e]
    BY <2>1, <2>2
  <2>4. docRow'[d] # "ready"
    BY <2>1, <2>2
  <2>5. ReadyIsInGraph'
    BY <2>2, <2>3, <2>4
  <2>6. TriplesWritten'
    BY <2>1, <2>2, <2>3
  <2>. QED  BY <2>5, <2>6
<1>3. CASE UploadDies(d)
  BY <1>3 DEF UploadDies
<1>4. CASE DeleteStart(d)
  BY <1>4 DEF DeleteStart
<1>5. CASE DeleteRows(d)
  BY <1>5 DEF DeleteRows
<1>6. CASE DeleteLocked(d)
  BY <1>6 DEF DeleteLocked
<1>7. CASE DeleteQdrant(d)
  BY <1>7 DEF DeleteQdrant
<1>8. CASE DeleteNeo4j(d)
  BY <1>8 DEF DeleteNeo4j
<1>9. CASE DeleteBlob(d)
  BY <1>9 DEF DeleteBlob
<1>10. CASE DeleteDies(d)
  BY <1>10 DEF DeleteDies
<1>11. CASE DeleteRefused(d)
  BY <1>11 DEF DeleteRefused
<1>. QED  BY <1>1, <1>2, <1>3, <1>4, <1>5, <1>6, <1>7, <1>8, <1>9, <1>10, <1>11
          DEF UploadStep, DeleteStep

LEMMA AdminGraph ==
    ASSUME BlobInv, ReadyIsInGraph, TriplesWritten, AdminNext
    PROVE  ReadyIsInGraph' /\ TriplesWritten'
<1>1. SparesOthers
  BY AdminBlobInv
<1>. QED  BY <1>1, DataAssumption
          DEF SparesOthers, BlobInv, TableInv, TypeOK, ReadyIsInGraph, TriplesWritten, Spared, Live, LiveStatus, worker

LEMMA WorkerGraph ==
    ASSUME BlobInv, LeftIsOwn, ReadyIsInGraph, TriplesWritten, OwnTriples, WorkerNext
    PROVE  ReadyIsInGraph' /\ TriplesWritten'
<1>t. BlobInv'
  BY WorkerBlobInv
<1> USE <1>t, NoDocAssumption, DataAssumption
    DEF api, TakeBack, Sees, idleWorker, CommitRefused, ReadyIsInGraph, TriplesWritten,
        OwnTriples, LeftIsOwn, BlobInv, Spared, CleanupAfterRows, NothingBeforeUpload, ClaimIsKept,
        MissingIsMissing, JobDocAgree, tables, stores, worker, history, WithoutPoints,
        WithoutRels, TableInv, TypeOK, LiveStatus, Live, HoldsJob
<1>1. CASE DrainStart
  BY <1>1 DEF DrainStart
<1>2. ASSUME NEW d \in Docs, Claim(d)
      PROVE  ReadyIsInGraph' /\ TriplesWritten'
  BY <1>2 DEF Claim
<1>3. CASE DrainEnd
  BY <1>3 DEF DrainEnd
<1>4. CASE Load
  BY <1>4 DEF Load
<1>5. CASE Read
  BY <1>5 DEF Read
<1>6. CASE ReadRaises
  BY <1>6 DEF ReadRaises
<1>7. ASSUME NEW c \in Chunks, UpsertChunk(c)
      PROVE  ReadyIsInGraph' /\ TriplesWritten'
  BY <1>7 DEF UpsertChunk
<1>8. ASSUME NEW t \in Triples, MergeTriple(t)
      PROVE  ReadyIsInGraph' /\ TriplesWritten'
  BY <1>8 DEF MergeTriple
<1>9. CASE IndexRaises
  BY <1>9 DEF IndexRaises
<1>10. CASE EndSnapshot
  BY <1>10 DEF EndSnapshot
<1>11. CASE Recheck
  BY <1>11 DEF Recheck
<1>12. CASE CleanQdrant
  BY <1>12 DEF CleanQdrant
<1>13. CASE CleanNeo4j
  BY <1>13 DEF CleanNeo4j
<1>14. CASE Except
  BY <1>14 DEF Except
<1>15. CASE Commit
  BY <1>15 DEF Commit
<1>16. CASE CommitAborts
  BY <1>16 DEF CommitAborts
<1>17. CASE DatabaseFails
  BY <1>17 DEF DatabaseFails
<1>18. CASE Crash
  BY <1>18 DEF Crash
<1>19. CASE Restart
  BY <1>19 DEF Restart
<1>20. ASSUME NEW d \in Docs, GracePeriod(d)
      PROVE  ReadyIsInGraph' /\ TriplesWritten'
  BY <1>20 DEF GracePeriod
<1>. QED  BY <1>1, <1>2, <1>3, <1>4, <1>5, <1>6, <1>7, <1>8, <1>9, <1>10,
             <1>11, <1>12, <1>13, <1>14, <1>15, <1>16, <1>17, <1>18, <1>19, <1>20
          DEF WorkerNext, WorkerStep, ProcessJob

\* Every chunk of a ready document is a point under its own id, through crashes,
\* failed indexing, retries of reclaimed jobs and deletions of other documents.
THEOREM ReadyIndexed ==
    ASSUME OwnChunks
    PROVE  Spec => []ReadyIsIndexed
<1>1. Init => LeftIsOwn /\ ReadyIsIndexed /\ ChunksWritten
  BY DEF Init, LeftIsOwn, ReadyIsIndexed, ChunksWritten, Spared, HoldsJob
<1>2. BlobInv /\ LeftIsOwn /\ [Next]_vars => LeftIsOwn'
  BY LeftIsOwnStep DEF BlobInv, TableInv
<1>3. BlobInv /\ LeftIsOwn /\ ReadyIsIndexed /\ ChunksWritten /\ [Next]_vars
         => ReadyIsIndexed' /\ ChunksWritten'
  <2>1. ASSUME ReadyIsIndexed, ChunksWritten, UNCHANGED vars
        PROVE  ReadyIsIndexed' /\ ChunksWritten'
    BY <2>1 DEF ReadyIsIndexed, ChunksWritten, Live, vars, tables, stores, worker
  <2>. QED  BY <2>1, ApiIndex, AdminIndex, WorkerIndex DEF Next
<1>. QED  BY <1>1, <1>2, <1>3, BlobInvariant, PTL DEF Spec

\* Every fact of a ready document is an edge under its own id.
THEOREM ReadyInGraph ==
    ASSUME OwnTriples
    PROVE  Spec => []ReadyIsInGraph
<1>1. Init => LeftIsOwn /\ ReadyIsInGraph /\ TriplesWritten
  BY DEF Init, LeftIsOwn, ReadyIsInGraph, TriplesWritten, Spared, HoldsJob
<1>2. BlobInv /\ LeftIsOwn /\ [Next]_vars => LeftIsOwn'
  BY LeftIsOwnStep DEF BlobInv, TableInv
<1>3. BlobInv /\ LeftIsOwn /\ ReadyIsInGraph /\ TriplesWritten /\ [Next]_vars
         => ReadyIsInGraph' /\ TriplesWritten'
  <2>1. ASSUME ReadyIsInGraph, TriplesWritten, UNCHANGED vars
        PROVE  ReadyIsInGraph' /\ TriplesWritten'
    BY <2>1 DEF ReadyIsInGraph, TriplesWritten, Live, vars, tables, stores, worker
  <2>. QED  BY <2>1, ApiGraph, AdminGraph, WorkerGraph DEF Next
<1>. QED  BY <1>1, <1>2, <1>3, BlobInvariant, PTL DEF Spec
=============================================================================
