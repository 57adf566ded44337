--------------------------- MODULE MCChatThreads ---------------------------
(***************************************************************************)
(* Instances of ChatThreads for TLC.                                       *)
(***************************************************************************)
EXTENDS ChatThreads

CONSTANTS c1, c2
=============================================================================
