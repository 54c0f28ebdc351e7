------------------------ MODULE MCPyImplementation ------------------------
EXTENDS PyImplementation, TLC

\* The threads are interchangeable; whoever creates an object owns it.
Interchangeable == Permutations(Threads)
===========================================================================
