------------------------------- MODULE IoSpec -------------------------------
(***************************************************************************)
(* What the native I/O engine promises to the owner of a file: a handle is *)
(* closed only while no operation on it still has its buffer, its lease or *)
(* a record that was not consumed, an operation given to Windows comes     *)
(* back as at most one record, and the number of operations that hold a    *)
(* buffer is bounded.                                                      *)
(***************************************************************************)
EXTENDS Naturals, FiniteSets

CONSTANTS Ops, Resources, Target, MaxOperations

VARIABLES owner,    \* owner[o]: who has the storage of the operation
          open      \* the resources whose native handle is open

vars == <<owner, open>>

\* "permit": only a capacity permit is held, before or after the buffer exists.
Owners == {"nobody", "permit", "caller", "windows", "receiver", "spent"}
Holding == {o \in Ops : owner[o] \in {"permit", "caller", "windows", "receiver"}}

Init == /\ owner = [o \in Ops |-> "nobody"]
        /\ open = Resources

Move(o, from, to) == /\ owner[o] = from
                     /\ owner' = [owner EXCEPT ![o] = to]
                     /\ UNCHANGED open

Reserve(o) == Cardinality(Holding) < MaxOperations /\ Move(o, "nobody", "permit")
Prepare(o) == Target[o] \in open /\ Move(o, "permit", "caller")
Submit(o)  == Move(o, "caller", "windows")
Record(o)  == Move(o, "windows", "receiver")
\* Dropped before submission, refused by Windows, or consumed by the receiver.
Retire(o)  == \E from \in {"caller", "windows", "receiver"} : Move(o, from, "permit")
Spend(o)   == Move(o, "permit", "spent")

Close(r) == /\ r \in open
            /\ \A o \in Ops : Target[o] = r =>
                   owner[o] \notin {"caller", "windows", "receiver"}
            /\ open' = open \ {r}
            /\ UNCHANGED owner

Next == \/ \E o \in Ops : \/ Reserve(o) \/ Prepare(o) \/ Submit(o)
                          \/ Record(o) \/ Retire(o) \/ Spend(o)
        \/ \E r \in Resources : Close(r)

Spec == Init /\ [][Next]_vars
=============================================================================
