---------------------------- MODULE MCAccounts ----------------------------
(***************************************************************************)
(* Symmetry for model checking Accounts.                                   *)
(***************************************************************************)
EXTENDS Accounts, TLC

\* Requests, users and e-mails are interchangeable.
Symmetry == Permutations(Requests) \cup Permutations(Users) \cup Permutations(Emails)
=============================================================================
