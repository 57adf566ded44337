------------------------------ MODULE MCSignIn ------------------------------
(***************************************************************************)
(* Instances of SignIn for TLC.  Tabs, accounts and requests are told      *)
(* apart by nothing but their roles, and no property is a temporal one.    *)
(***************************************************************************)
EXTENDS SignIn, TLC

CONSTANTS t1, t2, a1, a2, r1, r2

Symmetric == Permutations(Tabs) \cup Permutations(Accounts) \cup Permutations(Requests)
=============================================================================
