-------------------------- MODULE MCWalletSessions --------------------------
(***************************************************************************)
(* Small instances of WalletSessions.                                      *)
(***************************************************************************)
EXTENDS WalletSessions, TLC

Symmetry == Permutations(Users) \cup Permutations(Chains) \cup Permutations(Calls)

=============================================================================
