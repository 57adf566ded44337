----------------------------- MODULE MCAccounts -----------------------------
(***************************************************************************)
(* Instances of Accounts for TLC.  Requests of one kind are               *)
(* interchangeable, and so are links and accounts.                         *)
(***************************************************************************)
EXTENDS Accounts, TLC

Symmetry ==
    Permutations(Users) \cup Permutations(Logins) \cup Permutations(Links)
        \cup Permutations(Resets) \cup Permutations(Changes)
=============================================================================
