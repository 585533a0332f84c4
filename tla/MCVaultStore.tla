---------------------------- MODULE MCVaultStore ----------------------------
(***************************************************************************)
(* VaultStore with its symmetries: records and CLI processes are alike.    *)
(***************************************************************************)
EXTENDS VaultStore, TLC

Symmetry == Permutations(Record) \cup Permutations(Cli)

============================================================================
