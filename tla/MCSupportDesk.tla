--------------------------- MODULE MCSupportDesk ---------------------------
(***************************************************************************)
(* Instances of SupportDesk for TLC.                                       *)
(***************************************************************************)
EXTENDS SupportDesk

CONSTANTS t1, r1, r2, u1, x1
=============================================================================
