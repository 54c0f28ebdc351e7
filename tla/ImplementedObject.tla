------------------------- MODULE ImplementedObject -------------------------
(***************************************************************************)
(* What an implemented WinRT object promises about its language handler:   *)
(* calls are accepted while it is connected, an accepted call may run the  *)
(* handler unless the interpreter is stopping, and the handler is kept     *)
(* until the object is disconnected and its accepted calls have returned,  *)
(* or the interpreter stops.  It is never given up under a running call.   *)
(***************************************************************************)
EXTENDS Naturals

CONSTANT Objects

VARIABLES status,    \* absent, connected or disconnected
          accepted,  \* calls that each object accepted and that have not returned
          running,   \* of these, the ones in the handler
          held,      \* objects whose handler is kept
          stopping

vars == <<status, accepted, running, held, stopping>>

Init == /\ status = [o \in Objects |-> "absent"]
        /\ accepted = [o \in Objects |-> 0] /\ running = [o \in Objects |-> 0]
        /\ held = {} /\ stopping = FALSE

Idle == UNCHANGED <<status, accepted, running, stopping>>

\* The handler is taken, and then built into an object or given up.
Capture(o) == status[o] = "absent" /\ held' = held \cup {o} /\ Idle

Connect(o) == /\ status[o] = "absent" /\ o \in held
              /\ ~stopping
              /\ status' = [status EXCEPT ![o] = "connected"]
              /\ UNCHANGED <<accepted, running, held, stopping>>

Accept(o) == /\ status[o] = "connected"
             /\ accepted' = [accepted EXCEPT ![o] = @ + 1]
             /\ UNCHANGED <<status, running, held, stopping>>

Start(o) == /\ running[o] < accepted[o] /\ o \in held /\ ~stopping
            /\ running' = [running EXCEPT ![o] = @ + 1]
            /\ UNCHANGED <<status, accepted, held, stopping>>

GivenUp(o) == /\ running'[o] = 0
              /\ \/ stopping
                 \/ status[o] = "absent"
                 \/ status[o] = "disconnected" /\ accepted'[o] = 0

MayGiveUp(o) == \/ UNCHANGED held
                \/ GivenUp(o) /\ held' = held \ {o}

Finish(o) == /\ running' = [running EXCEPT ![o] = @ - 1]
             /\ running[o] > 0
             /\ MayGiveUp(o) /\ UNCHANGED <<status, accepted, stopping>>

Answer(o) == /\ running[o] < accepted[o]
             /\ accepted' = [accepted EXCEPT ![o] = @ - 1]
             /\ MayGiveUp(o) /\ UNCHANGED <<status, running, stopping>>

Disconnect(o) == /\ status[o] = "connected"
                 /\ status' = [status EXCEPT ![o] = "disconnected"]
                 /\ UNCHANGED <<accepted, running, held, stopping>>

GiveUp(o) == Idle /\ MayGiveUp(o)

Stop == stopping' = TRUE /\ UNCHANGED <<status, accepted, running, held>>

Next == \/ \E o \in Objects :
              \/ Capture(o) \/ Connect(o) \/ Accept(o) \/ Start(o) \/ Finish(o)
              \/ Answer(o) \/ Disconnect(o) \/ GiveUp(o)
        \/ Stop

Spec == Init /\ [][Next]_vars
=============================================================================
