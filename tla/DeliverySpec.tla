---------------------------- MODULE DeliverySpec ----------------------------
(***************************************************************************)
(* What JavaScript is promised of an OVERLAPPED operation: start() either  *)
(* throws, and nothing is heard of the operation again, or the callback is *)
(* called once, unless the environment closes first; and the Buffer is     *)
(* kept for exactly as long as the operation runs.                         *)
(***************************************************************************)
CONSTANT Ops

VARIABLES state, held, closing

vars == <<state, held, closing>>

States == {"prepared", "starting", "running", "answered", "failed", "abandoned"}

Init == /\ state = [o \in Ops |-> "prepared"]
        /\ held = {}
        /\ closing = FALSE

Change(o, from, to) == state[o] = from /\ state' = [state EXCEPT ![o] = to]

Begin(o)   == Change(o, "prepared", "starting") /\ UNCHANGED <<held, closing>>
Hold(o)    == state[o] = "starting" /\ held' = held \cup {o} /\ UNCHANGED <<state, closing>>
Fail(o)    == /\ Change(o, "starting", "failed") \/ Change(o, "prepared", "failed")
              /\ held' = held \ {o}
              /\ UNCHANGED closing
Run(o)     == o \in held /\ Change(o, "starting", "running") /\ UNCHANGED <<held, closing>>
Answer(o)  == o \in held /\ Change(o, "running", "answered") /\ held' = held \ {o} /\ UNCHANGED closing
Abandon(o) == closing /\ Change(o, "running", "abandoned") /\ held' = held \ {o} /\ UNCHANGED closing
Close      == closing' = TRUE /\ UNCHANGED <<state, held>>

Next == \/ \E o \in Ops : Begin(o) \/ Hold(o) \/ Fail(o) \/ Run(o) \/ Answer(o) \/ Abandon(o)
        \/ Close

Spec == Init /\ [][Next]_vars
=============================================================================
