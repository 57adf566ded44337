---------------------------- MODULE MCUsersPage ----------------------------
(***************************************************************************)
(* Instances of UsersPage for TLC.                                         *)
(***************************************************************************)
EXTENDS UsersPage

CONSTANTS p1, p2, s1, s2
=============================================================================
