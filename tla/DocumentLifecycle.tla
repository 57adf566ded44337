------------------------- MODULE DocumentLifecycle -------------------------
(***************************************************************************)
(* What the ingestion subsystem promises about one row of the documents    *)
(* table, with every store, queue and process left out.                    *)
(*                                                                         *)
(* A document is uploaded once, settles once as ready or failed, and may   *)
(* be removed at any time while its row exists.  A removed document never  *)
(* comes back, a settled one never changes its verdict, and under fairness *)
(* none stays pending for ever.                                            *)
(***************************************************************************)

CONSTANT Docs       \* document identifiers; each is used by one upload

VARIABLE status     \* the status column, "none" before and "gone" after the row

LiveStatus == {"pending", "ready", "failed"}
Status == LiveStatus \cup {"none", "gone"}

StatusOK == status \in [Docs -> Status]

Init == status = [d \in Docs |-> "none"]

Upload(d) ==
    /\ status[d] = "none"
    /\ status' = [status EXCEPT ![d] = "pending"]

Settle(d) ==
    /\ status[d] = "pending"
    /\ \E verdict \in {"ready", "failed"} :
          status' = [status EXCEPT ![d] = verdict]

\* One request removes one document, an account deletion a set of them.
Remove(D) ==
    /\ D # {}
    /\ \A d \in D : status[d] \in LiveStatus
    /\ status' = [d \in Docs |-> IF d \in D THEN "gone" ELSE status[d]]

Next ==
    \/ \E d \in Docs : Upload(d) \/ Settle(d)
    \/ \E D \in SUBSET Docs : Remove(D)

Spec == Init /\ [][Next]_status

\* Out of the pending status, by a verdict or by a deletion.
Resolve(d) == status[d] = "pending" /\ (Settle(d) \/ Remove({d}))

\* Whoever removes documents need not act: it is settling that is certain.
FairSpec == Spec /\ \A d \in Docs : WF_status(Resolve(d))
=============================================================================
