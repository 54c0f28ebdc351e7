------------------------------ MODULE TsfnSpec ------------------------------
(***************************************************************************)
(* What a managed threadsafe function promises: a value that was accepted  *)
(* is delivered to the environment's thread or freed when the function is  *)
(* finalized, never both; nothing is accepted once the environment closed  *)
(* its gate; and the function is finalized at most once, after which it    *)
(* accepts and delivers nothing.                                           *)
(***************************************************************************)
EXTENDS Naturals

CONSTANT Handles

VARIABLES gate,      \* does the environment accept calls?
          phase,     \* of each function
          inbox,     \* values accepted and not delivered
          delivered  \* values delivered

vars == <<gate, phase, inbox, delivered>>

Phases == {"absent", "open", "closing", "final"}

Init == /\ gate = TRUE
        /\ phase = [h \in Handles |-> "absent"]
        /\ inbox = [h \in Handles |-> 0]
        /\ delivered = [h \in Handles |-> 0]

Open(h) == /\ gate /\ phase[h] = "absent"
           /\ phase' = [phase EXCEPT ![h] = "open"]
           /\ UNCHANGED <<gate, inbox, delivered>>

\* It cannot be made: it is finalized, or will be, without having been open.
Fail(h) == /\ gate /\ phase[h] = "absent"
           /\ \E to \in {"closing", "final"} : phase' = [phase EXCEPT ![h] = to]
           /\ UNCHANGED <<gate, inbox, delivered>>

Accept(h) == /\ gate /\ phase[h] = "open"
             /\ inbox' = [inbox EXCEPT ![h] = @ + 1]
             /\ UNCHANGED <<gate, phase, delivered>>

Deliver(h) == /\ phase[h] = "open" /\ inbox[h] > 0
              /\ inbox' = [inbox EXCEPT ![h] = @ - 1]
              /\ delivered' = [delivered EXCEPT ![h] = @ + 1]
              /\ UNCHANGED <<gate, phase>>

CloseFunction(h) == /\ phase[h] = "open"
                    /\ phase' = [phase EXCEPT ![h] = "closing"]
                    /\ UNCHANGED <<gate, inbox, delivered>>

Finalize(h) == /\ phase[h] = "closing"
               /\ phase' = [phase EXCEPT ![h] = "final"]
               /\ inbox' = [inbox EXCEPT ![h] = 0]
               /\ UNCHANGED <<gate, delivered>>

CloseGate == /\ gate
             /\ gate' = FALSE
             /\ UNCHANGED <<phase, inbox, delivered>>

Next == \/ \E h \in Handles : \/ Open(h) \/ Fail(h) \/ Accept(h) \/ Deliver(h)
                              \/ CloseFunction(h) \/ Finalize(h)
        \/ CloseGate

Spec == Init /\ [][Next]_vars
=============================================================================
