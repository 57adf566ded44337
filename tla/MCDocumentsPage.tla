-------------------------- MODULE MCDocumentsPage --------------------------
(***************************************************************************)
(* Instances of DocumentsPage for TLC.                                     *)
(***************************************************************************)
EXTENDS DocumentsPage

CONSTANTS d1, d2
=============================================================================
