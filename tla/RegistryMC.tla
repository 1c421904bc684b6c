----------------------------- MODULE RegistryMC -----------------------------
(* Instances of Registry for TLC. *)
EXTENDS Registry, TLC
WorkerSymmetry == Permutations(Worker)
=============================================================================
