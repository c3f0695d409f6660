------------------------------ MODULE MCWallet ------------------------------
(* Small instances of the wallet for TLC. *)
EXTENDS WalletProperties, TLC

\* Sessions differ in nothing but their names.
SessionSymmetry == Permutations(Sessions)

=============================================================================
