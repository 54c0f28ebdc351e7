------------------------- MODULE AsyncFutureProofs -------------------------
(***************************************************************************)
(* Proofs about AsyncFuture, for any futures and any wakers.               *)
(***************************************************************************)
EXTENDS AsyncFuture, TLAPS

USE ConstantsAssumption

\* Initially no future was polled and nobody has the handler.
LEMMA InductiveInit == Init => Inductive
<1> SUFFICES ASSUME Init PROVE Inductive
  OBVIOUS
<1>1. TypeOK
  BY DEF Init, TypeOK, Terminal, Polling, Places, Outcomes
<1>2. WakersKnown /\ ParkedIsWoken
  BY DEF Init, WakersKnown, ParkedIsWoken, Parked, Polling
<1> QED
  BY <1>1, <1>2 DEF Inductive

\* A future that is ready has an outcome, and the operation is as it was.
LEMMA ReadyTypes ==
  ASSUME Inductive, NEW f \in Futures, NEW r \in Outcomes, NEW c \in BOOLEAN,
         Ready(f, r, c), UNCHANGED opVars
  PROVE  TypeOK'
BY DEF Inductive, TypeOK, Ready, Places, opVars, taskVars

LEMMA ObserveTypes ==
  ASSUME Inductive, NEW f \in Futures, Observe(f)
  PROVE  TypeOK'
<1>1. Results(f) \subseteq Outcomes
  BY DEF Results, Outcomes
<1>2. cancelOnDrop[f] \in BOOLEAN /\ "canceled" \in Outcomes /\ "failed" \in Outcomes
  BY DEF Inductive, TypeOK, Outcomes
<1>3. UNCHANGED opVars
  BY DEF Observe
<1>4. CASE Ready(f, "canceled", FALSE)
  BY <1>2, <1>3, <1>4, ReadyTypes
<1>5. CASE \E r \in Results(f) : Ready(f, r, FALSE)
  BY <1>1, <1>3, <1>5, ReadyTypes
<1>6. CASE Ready(f, "failed", cancelOnDrop[f])
  BY <1>2, <1>3, <1>6, ReadyTypes
<1> QED
  BY <1>4, <1>5, <1>6 DEF Observe

\* The state of every type is kept.
LEMMA TypeStep == Inductive /\ [Next]_vars => TypeOK'
<1> SUFFICES ASSUME Inductive, [Next]_vars PROVE TypeOK'
  OBVIOUS
<1> USE DEF Inductive, TypeOK, Terminal, Polling, Places, Outcomes,
            opVars, futureVars, taskVars
<1>1. ASSUME NEW f \in Futures, NEW w \in Wakers, BeginPoll(f, w) PROVE TypeOK'
  BY <1>1 DEF BeginPoll
<1>2. ASSUME NEW f \in Futures, ReadStatus(f) PROVE TypeOK'
  <2>1. CASE Observe(f)
    BY <2>1, ObserveTypes
  <2>2. CASE Goto(f, "register") \/ Goto(f, "update")
    BY <2>2 DEF Goto
  <2> QED
    BY <1>2, <2>1, <2>2 DEF ReadStatus
<1>3. ASSUME NEW f \in Futures, Register(f) PROVE TypeOK'
  BY <1>3, f \in Futures DEF Register, WakersKnown
<1>4. ASSUME NEW f \in Futures, Update(f) PROVE TypeOK'
  BY <1>4 DEF Update
<1>5. ASSUME NEW f \in Futures, Recheck(f) PROVE TypeOK'
  <2>1. CASE Observe(f)
    BY <2>1, ObserveTypes
  <2>2. CASE Goto(f, "idle")
    BY <2>2 DEF Goto
  <2> QED
    BY <1>5, <2>1, <2>2 DEF Recheck
<1>6. ASSUME NEW f \in Futures, Drop(f) PROVE TypeOK'
  BY <1>6 DEF Drop
<1>7. CASE OperationEnds
  BY <1>7 DEF OperationEnds
<1>8. CASE InvokeHandler
  BY <1>8 DEF InvokeHandler, WakersKnown
<1>9. CASE SetAsyncCompletedHandler \/ Cancel
  BY <1>9 DEF SetAsyncCompletedHandler, Cancel
<1>10. CASE UNCHANGED vars
  BY <1>10 DEF vars
<1> QED
  BY <1>1, <1>2, <1>3, <1>4, <1>5, <1>6, <1>7, <1>8, <1>9, <1>10 DEF Next, Poll

\* Who has the handler, and which waker it finds, is known after every step.
LEMMA WakersStep == Inductive /\ [Next]_vars => WakersKnown'
<1> SUFFICES ASSUME Inductive, [Next]_vars PROVE WakersKnown'
  OBVIOUS
<1> USE DEF Inductive, TypeOK, WakersKnown, Parked, Polling, Terminal,
            opVars, futureVars, taskVars
<1>1. ASSUME NEW f \in Futures, NEW w \in Wakers, BeginPoll(f, w) PROVE WakersKnown'
  BY <1>1 DEF BeginPoll
<1>2. ASSUME NEW f \in Futures, ReadStatus(f) PROVE WakersKnown'
  BY <1>2 DEF ReadStatus, Observe, Ready, Goto
<1>3. ASSUME NEW f \in Futures, Register(f) PROVE WakersKnown'
  BY <1>3 DEF Register
<1>4. ASSUME NEW f \in Futures, Update(f) PROVE WakersKnown'
  BY <1>4 DEF Update
<1>5. ASSUME NEW f \in Futures, Recheck(f) PROVE WakersKnown'
  BY <1>5 DEF Recheck, Observe, Ready, Goto
<1>6. ASSUME NEW f \in Futures, Drop(f) PROVE WakersKnown'
  BY <1>6 DEF Drop
<1>7. CASE OperationEnds
  BY <1>7 DEF OperationEnds
<1>8. CASE InvokeHandler
  BY <1>8 DEF InvokeHandler
<1>9. CASE SetAsyncCompletedHandler \/ Cancel
  BY <1>9 DEF SetAsyncCompletedHandler, Cancel
<1>10. CASE UNCHANGED vars
  BY <1>10 DEF vars
<1> QED
  BY <1>1, <1>2, <1>3, <1>4, <1>5, <1>6, <1>7, <1>8, <1>9, <1>10 DEF Next, Poll

\* The step that parks a future either comes before the handler runs, or reads a
\* status that has not changed, and then the handler has not run; and the step
\* that runs the handler wakes the waker of the last poll.
LEMMA ParkedStep == Inductive /\ [Next]_vars => ParkedIsWoken'
<1> SUFFICES ASSUME Inductive, [Next]_vars PROVE ParkedIsWoken'
  OBVIOUS
<1> USE DEF Inductive, TypeOK, WakersKnown, ParkedIsWoken, Parked, Polling, Terminal,
            opVars, futureVars, taskVars
<1>1. ASSUME NEW f \in Futures, NEW w \in Wakers, BeginPoll(f, w) PROVE ParkedIsWoken'
  BY <1>1 DEF BeginPoll
<1>2. ASSUME NEW f \in Futures, ReadStatus(f) PROVE ParkedIsWoken'
  BY <1>2 DEF ReadStatus, Observe, Ready, Goto
<1>3. ASSUME NEW f \in Futures, Register(f) PROVE ParkedIsWoken'
  BY <1>3 DEF Register
<1>4. ASSUME NEW f \in Futures, Update(f) PROVE ParkedIsWoken'
  BY <1>4 DEF Update
<1>5. ASSUME NEW f \in Futures, Recheck(f) PROVE ParkedIsWoken'
  BY <1>5 DEF Recheck, Observe, Ready, Goto
<1>6. ASSUME NEW f \in Futures, Drop(f) PROVE ParkedIsWoken'
  BY <1>6 DEF Drop
<1>7. CASE OperationEnds
  BY <1>7 DEF OperationEnds
<1>8. CASE InvokeHandler
  BY <1>8 DEF InvokeHandler
<1>9. CASE SetAsyncCompletedHandler \/ Cancel
  BY <1>9 DEF SetAsyncCompletedHandler, Cancel
<1>10. CASE UNCHANGED vars
  BY <1>10 DEF vars
<1> QED
  BY <1>1, <1>2, <1>3, <1>4, <1>5, <1>6, <1>7, <1>8, <1>9, <1>10 DEF Next, Poll

THEOREM InductiveInvariant == Spec => []Inductive
<1>1. Inductive /\ [Next]_vars => Inductive'
  BY TypeStep, WakersStep, ParkedStep DEF Inductive
<1> QED
  BY <1>1, InductiveInit, PTL DEF Spec

\* The wakers, the places and the outcomes of the futures keep their types, for
\* any number of futures of one operation.
THEOREM TypeCorrect == Spec => []TypeOK
<1>1. Inductive => TypeOK
  BY DEF Inductive
<1> QED
  BY <1>1, InductiveInvariant, PTL

\* No wakeup is lost, for any futures and wakers: poll leaves its waker where the
\* handler finds it and reads the status again before it answers Pending.
THEOREM NoWakeupLost == Spec => []ParkedIsWoken
<1>1. Inductive => ParkedIsWoken
  BY DEF Inductive
<1> QED
  BY <1>1, InductiveInvariant, PTL

-----------------------------------------------------------------------------
(* What a future answers, and what its drop does then *)

\* A future registers its handler once, and has an outcome only when its polls are
\* over; one that is still armed then has answered a failure, and not because the
\* operation had ended.
EndsKnown ==
    /\ OutcomesAreTrue
    /\ \A f \in Futures :
        /\ at[f] = "register" => handler # f
        /\ at[f] \notin {"ready", "dropped"} => outcome[f] = "none"
        /\ at[f] = "ready" /\ cancelOnDrop[f]
               => outcome[f] = "failed" /\ (CallsFail \/ handler \notin {NoHandler, f})

\* A reading of the status that ends a poll answers what the status is.
LEMMA ObserveEnds ==
  ASSUME Inductive, EndsKnown, NEW f \in Futures, at[f] \in Polling, Observe(f)
  PROVE  EndsKnown'
<1> USE DEF Inductive, TypeOK, EndsKnown, OutcomesAreTrue, Ready, Polling, Terminal,
            opVars, taskVars
<1>1. UNCHANGED opVars
  BY DEF Observe
<1>2. CASE status = "canceled" /\ Ready(f, "canceled", FALSE)
  BY <1>1, <1>2
<1>3. CASE /\ status \in {"completed", "error"}
           /\ \E r \in Results(f) : Ready(f, r, FALSE)
  <2>1. PICK r \in Results(f) : Ready(f, r, FALSE)
    BY <1>3
  <2>2. /\ r \in {"value", "failed"}
        /\ r = "value" => f \in Deferred \/ status = "completed"
        /\ r = "failed" => status = "error" \/ CallsFail
    BY DEF Results
  <2> QED
    BY <1>1, <1>3, <2>1, <2>2
<1>4. CASE CallsFail /\ Ready(f, "failed", cancelOnDrop[f])
  BY <1>1, <1>4
<1> QED
  BY <1>2, <1>3, <1>4 DEF Observe

LEMMA EndsStep == Inductive /\ EndsKnown /\ [Next]_vars => EndsKnown'
<1> SUFFICES ASSUME Inductive, EndsKnown, [Next]_vars PROVE EndsKnown'
  OBVIOUS
<1> USE DEF Inductive, TypeOK, WakersKnown, EndsKnown, OutcomesAreTrue, Polling, Terminal,
            opVars, futureVars, taskVars
<1>1. ASSUME NEW f \in Futures, NEW w \in Wakers, BeginPoll(f, w) PROVE EndsKnown'
  BY <1>1 DEF BeginPoll
<1>2. ASSUME NEW f \in Futures, ReadStatus(f) PROVE EndsKnown'
  <2>1. at[f] \in Polling
    BY <1>2 DEF ReadStatus
  <2>2. CASE Observe(f)
    BY <2>1, <2>2, ObserveEnds
  <2>3. CASE waker[f] = NoWaker /\ Goto(f, "register")
    BY <2>1, <2>3 DEF Goto
  <2>4. CASE Goto(f, "update")
    BY <2>1, <2>4 DEF Goto
  <2> QED
    BY <1>2, <2>2, <2>3, <2>4 DEF ReadStatus
<1>3. ASSUME NEW f \in Futures, Register(f) PROVE EndsKnown'
  <2>1. CASE handler = NoHandler /\ handler' = f /\ at' = [at EXCEPT ![f] = "idle"]
    BY <1>3, <2>1 DEF Register
  <2>2. CASE /\ handler # NoHandler \/ CallsFail
             /\ at' = [at EXCEPT ![f] = "ready"] /\ UNCHANGED opVars
    <3>1. handler # f
      BY <1>3 DEF Register
    <3> QED
      BY <1>3, <2>2, <3>1 DEF Register
  <2> QED
    BY <1>3, <2>1, <2>2 DEF Register
<1>4. ASSUME NEW f \in Futures, Update(f) PROVE EndsKnown'
  BY <1>4 DEF Update
<1>5. ASSUME NEW f \in Futures, Recheck(f) PROVE EndsKnown'
  <2>1. at[f] \in Polling
    BY <1>5 DEF Recheck
  <2>2. CASE Observe(f)
    BY <2>1, <2>2, ObserveEnds
  <2>3. CASE Goto(f, "idle")
    BY <2>1, <2>3 DEF Goto
  <2> QED
    BY <1>5, <2>2, <2>3 DEF Recheck
<1>6. ASSUME NEW f \in Futures, Drop(f) PROVE EndsKnown'
  BY <1>6 DEF Drop
<1>7. CASE OperationEnds
  BY <1>7 DEF OperationEnds
<1>8. CASE InvokeHandler
  BY <1>8 DEF InvokeHandler
<1>9. CASE SetAsyncCompletedHandler \/ Cancel
  BY <1>9 DEF SetAsyncCompletedHandler, Cancel
<1>10. CASE UNCHANGED vars
  BY <1>10 DEF vars
<1> QED
  BY <1>1, <1>2, <1>3, <1>4, <1>5, <1>6, <1>7, <1>8, <1>9, <1>10 DEF Next, Poll

LEMMA EndsHold == Spec => []EndsKnown
<1>1. Init => EndsKnown
  BY DEF Init, EndsKnown, OutcomesAreTrue
<1> QED
  BY <1>1, EndsStep, InductiveInvariant, PTL DEF Spec

\* What a future answers is true of its operation, whichever way polls, handler and
\* the end of the operation interleave.
THEOREM OutcomesHold == Spec => []OutcomesAreTrue
<1>1. EndsKnown => OutcomesAreTrue
  BY DEF EndsKnown
<1> QED
  BY <1>1, EndsHold, PTL

\* A future that was ready cancels the operation only after a failed call or a
\* refused handler: the drop of WinRTAsyncFuture, cancel_on_drop.
THEOREM LateCancelsAreFailures == Spec => OnlyFailuresCancelLate
<1>1. TypeOK /\ EndsKnown /\ [Next]_vars =>
        [\A f \in Futures :
          at[f] = "ready" /\ at'[f] = "dropped" /\ asked' # asked
              => /\ outcome[f] = "failed"
                 /\ CallsFail \/ handler \notin {NoHandler, f}]_vars
  <2> SUFFICES ASSUME TypeOK, EndsKnown, Next, NEW f \in Futures,
                      at[f] = "ready", at'[f] = "dropped", asked' # asked
               PROVE  outcome[f] = "failed" /\ (CallsFail \/ handler \notin {NoHandler, f})
    OBVIOUS
  <2>1. Drop(f)
    BY DEF Next, TypeOK, BeginPoll, Poll, ReadStatus, Register, Update, Recheck, Observe,
           Ready, Goto, Drop, OperationEnds, InvokeHandler, SetAsyncCompletedHandler, Cancel,
           opVars, futureVars, taskVars
  <2>2. cancelOnDrop[f]
    BY <2>1 DEF Drop, TypeOK
  <2> QED
    BY <2>2 DEF EndsKnown
<1> QED
  BY <1>1, EndsHold, TypeCorrect, PTL DEF Spec, OnlyFailuresCancelLate

=============================================================================
