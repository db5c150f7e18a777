----------------------------- MODULE MCAccounts -----------------------------
(***************************************************************************)
(* Values for TLC: profiles, passwords and clients are alike.              *)
(***************************************************************************)
EXTENDS Accounts, TLC

Symmetry == Permutations(Profiles) \cup Permutations(Secrets) \cup Permutations(Clients)
=============================================================================
