--------------------------- MODULE AdminDeletion ---------------------------
(***************************************************************************)
(* admin_delete_user: for each document the account had when the request   *)
(* began, clean the three stores; then delete every row in one             *)
(* transaction.  The order is the opposite of delete_document.             *)
(***************************************************************************)
EXTENDS IngestionState

OwnedBy(u) == {d \in Docs : Owner[d] = u}

\* The account is loaded and its documents are listed.
AdminStart(u) ==
    /\ u \in AdminTargets
    /\ adm[u].pc = "idle"
    /\ userRow[u]
    /\ adm' = [adm EXCEPT ![u] =
                  [pc |-> "qdrant", doc |-> NoDoc, todo |-> {d \in OwnedBy(u) : Live(d)}]]
    /\ UNCHANGED <<tables, stores, api, worker, history>>

\* A cleanup that raises is remembered for the 502 and skipped.
Cleaned(d, done) ==
    \/ done /\ UNCHANGED lost
    \/ "cleanup" \in Faults /\ UNCHANGED stores /\ lost' = lost \cup {d}

AdminQdrant(u, d) ==
    /\ adm[u].pc = "qdrant"
    /\ d \in adm[u].todo
    /\ adm' = [adm EXCEPT ![u] = [pc |-> "neo4j", doc |-> d, todo |-> adm[u].todo \ {d}]]
    /\ Cleaned(d, points' = WithoutPoints(d) /\ UNCHANGED <<rels, blob>>)
    /\ UNCHANGED <<tables, api, worker, outages>>

AdminNeo4j(u) ==
    /\ adm[u].pc = "neo4j"
    /\ adm' = [adm EXCEPT ![u] =
                  [pc |-> "blob", doc |-> adm[u].doc, todo |-> adm[u].todo]]
    /\ Cleaned(adm[u].doc, rels' = WithoutRels(adm[u].doc) /\ UNCHANGED <<points, blob>>)
    /\ UNCHANGED <<tables, api, worker, outages>>

AdminBlob(u) ==
    /\ adm[u].pc = "blob"
    /\ adm' = [adm EXCEPT ![u] =
                  [pc |-> "qdrant", doc |-> NoDoc, todo |-> adm[u].todo]]
    /\ Cleaned(adm[u].doc, blob' = blob \ {adm[u].doc} /\ UNCHANGED <<points, rels>>)
    /\ UNCHANGED <<tables, api, worker, outages>>

\* Every row of the account, those of documents uploaded since AdminStart too.
AdminRows(u) ==
    /\ adm[u].pc = "qdrant" /\ adm[u].todo = {}
    /\ adm' = [adm EXCEPT ![u] = NoDeletion]
    /\ userRow' = [userRow EXCEPT ![u] = FALSE]
    /\ DeleteRowsOf(OwnedBy(u))
    /\ UNCHANGED <<jobId, nextId, stores, api, worker, history>>

\* The row transaction is not retried: a lock wait, or a session of the
\* administrator that is gone, answers 500 and leaves the rows over stores that
\* are already clean.  A stop of the server does too, from wherever it was.
AdminAborts(u) ==
    /\ \/ /\ "lock" \in Faults \/ "logout" \in Faults
          /\ adm[u].pc = "qdrant" /\ adm[u].todo = {}
       \/ "crash" \in Faults /\ adm[u].pc # "idle"
    /\ adm' = [adm EXCEPT ![u] = NoDeletion]
    /\ UNCHANGED <<tables, stores, api, worker, history>>

AdminStep(u) ==
    \/ \E d \in Docs : AdminQdrant(u, d)
    \/ AdminNeo4j(u) \/ AdminBlob(u) \/ AdminRows(u) \/ AdminAborts(u)

AdminNext == \E u \in Users : AdminStart(u) \/ AdminStep(u)
=============================================================================
