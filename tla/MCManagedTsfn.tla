--------------------------- MODULE MCManagedTsfn ---------------------------
(* Small instances of ManagedTsfn for TLC. *)
EXTENDS ManagedTsfn, TLC

Interchangeable == Permutations(Threads)
=============================================================================
