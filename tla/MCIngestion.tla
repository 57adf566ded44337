---------------------------- MODULE MCIngestion ----------------------------
(***************************************************************************)
(* Instances of Ingestion for TLC.  Each run picks the files it is about   *)
(* and the failures that may happen.                                       *)
(***************************************************************************)
EXTENDS Ingestion

CONSTANTS u1, u2, d1, d2, d3, k1, k2, c1, c2, c3, t1, t2

\* One account owns the first two documents.
OneOwner == [d \in Docs |-> u1]
TwoOwners == [d \in Docs |-> IF d = d2 THEN u2 ELSE u1]

SameFile == [d \in Docs |-> k1]
TwoFiles == [d \in Docs |-> IF d = d1 THEN k1 ELSE k2]

\* The first file is two batches long; the files have no text in common.
Split == [k \in Contents |-> IF k = k1 THEN {c1, c2} ELSE {c3}]
SplitOne == [k \in Contents |-> IF k = k1 THEN {c1} ELSE {c3}]

OwnFacts == [k \in Contents |-> IF k = k1 THEN {t1} ELSE {t2}]
NoFacts == [k \in Contents |-> {}]
SharedFact == [k \in Contents |-> {t1}]
=============================================================================
