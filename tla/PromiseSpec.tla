---------------------------- MODULE PromiseSpec ----------------------------
(***************************************************************************)
(* What `DynWinRtValue.toPromise()` promises to JavaScript, whatever       *)
(* thread completes the WinRT operation and however the settlement is      *)
(* routed: a promise that was created is settled at most once, only while  *)
(* its Node environment is open, and is dropped without being settled only *)
(* by the teardown of that environment (or when Node-API itself fails).    *)
(***************************************************************************)
CONSTANTS Promises,     \* the promises one environment may create
          NapiCanFail   \* may Node-API calls fail while the environment is open?

VARIABLES phase,        \* phase[p] \in Phases
          envOpen       \* has the environment's cleanup hook not started yet?

vars == <<phase, envOpen>>

Phases == {"new", "pending", "resolved", "rejected", "abandoned"}

Init == /\ phase = [p \in Promises |-> "new"]
        /\ envOpen = TRUE

Move(p, from, to) == /\ phase[p] = from
                     /\ phase' = [phase EXCEPT ![p] = to]

Create(p) == envOpen /\ Move(p, "new", "pending") /\ UNCHANGED envOpen

Fulfil(p) == /\ envOpen
             /\ Move(p, "pending", "resolved") \/ Move(p, "pending", "rejected")
             /\ UNCHANGED envOpen

Abandon(p) == /\ ~envOpen \/ NapiCanFail
              /\ Move(p, "pending", "abandoned")
              /\ UNCHANGED envOpen

Close == envOpen /\ envOpen' = FALSE /\ UNCHANGED phase

Next == \/ \E p \in Promises : Create(p) \/ Fulfil(p) \/ Abandon(p)
        \/ Close

Spec == Init /\ [][Next]_vars
=============================================================================
