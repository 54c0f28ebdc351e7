-------------------------- MODULE MCAsyncPromise --------------------------
(* Small instances of AsyncPromise for TLC. *)
EXTENDS AsyncPromise, TLC

\* Promises, WinRT threads and workers are interchangeable.
Interchangeable ==
    Permutations(Promises) \cup Permutations(Callers) \cup Permutations(Workers)
=============================================================================
