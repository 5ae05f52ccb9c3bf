----------------------------- MODULE MCAccounts -----------------------------
(* One account, two overlapping requests and the revert job.               *)
EXTENDS Accounts, TLC

Requests == Permutations(Call)
=============================================================================
