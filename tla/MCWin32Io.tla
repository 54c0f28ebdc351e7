----------------------------- MODULE MCWin32Io -----------------------------
(* Small instances of Win32Io for TLC. *)
EXTENDS Win32Io, TLC

CONSTANTS File, Odd
\* All operations are on one file; Odd may be the larger of them.
OneFile == [o \in Ops |-> File]
UnitSize == [o \in Ops |-> 1]
OddSize == [o \in Ops |-> IF o = Odd THEN 2 ELSE 1]

Interchangeable == Permutations(Ops) \cup Permutations(Workers) \cup Permutations(Addrs)
EqualSizes == Permutations(Ops \ {Odd})
=============================================================================
