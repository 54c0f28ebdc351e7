--------------------------- MODULE ActivationSpec ---------------------------
(***************************************************************************)
(* What `DynComAsync.activate*()' promises to JavaScript: a call throws,   *)
(* or returns a promise that is settled at most once, on the owner's       *)
(* thread; a promise is given up only together with every other promise    *)
(* that its owner still has running, when the owner is closed.             *)
(***************************************************************************)
CONSTANTS Tokens,
          SettleCanFail   \* may Node-API fail to settle a promise?

VARIABLES state,   \* of each activation
          open     \* does its Node environment run JavaScript?

vars == <<state, open>>

Init == /\ state = [t \in Tokens |-> "new"]
        /\ open = TRUE

Move(t, from, to) == open /\ state[t] = from /\ state' = [state EXCEPT ![t] = to]

Throw(t)  == Move(t, "new", "thrown") /\ UNCHANGED open
Return(t) == Move(t, "new", "running") /\ UNCHANGED open
\* The activation itself failed: the promise is returned rejected.
Fail(t)   == Move(t, "new", "rejected") /\ UNCHANGED open

Settle(t) == /\ \/ Move(t, "running", "resolved")
                \/ Move(t, "running", "rejected")
                \/ SettleCanFail /\ Move(t, "running", "lost")
             /\ UNCHANGED open

CloseOwner == /\ state' = [t \in Tokens |-> IF state[t] = "running" THEN "abandoned"
                                                                    ELSE state[t]]
              /\ UNCHANGED open

Stop == open /\ open' = FALSE /\ UNCHANGED state

Next == \/ \E t \in Tokens : Throw(t) \/ Return(t) \/ Fail(t) \/ Settle(t)
        \/ CloseOwner \/ Stop

Spec == Init /\ [][Next]_vars
=============================================================================
