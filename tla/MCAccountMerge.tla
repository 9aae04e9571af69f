---------------------------- MODULE MCAccountMerge ----------------------------
(* Instances of AccountMerge.                                                *)
EXTENDS AccountMerge, TLC

SwapAccounts == Permutations(Accounts) \cup Permutations(Cases)
===============================================================================
