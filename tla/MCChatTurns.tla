---------------------------- MODULE MCChatTurns ----------------------------
(***************************************************************************)
(* Instances of ChatTurns for TLC.                                         *)
(***************************************************************************)
EXTENDS ChatTurns

CONSTANTS c1, c2, q1, q2
=============================================================================
