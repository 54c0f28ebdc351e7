------------------------ MODULE AsyncPromiseProofs ------------------------
(***************************************************************************)
(* Proofs about the promise dispatcher of AsyncPromise, for any promises,  *)
(* WinRT threads and workers, with and without failing Node-API calls.     *)
(* The inductive invariant is Inductive of AsyncPromise: its parts are     *)
(* proved one by one, each from the ones before it.                        *)
(***************************************************************************)
EXTENDS AsyncPromise, TLAPS

-----------------------------------------------------------------------------
(* Types *)

\* Every step keeps the types.
LEMMA TypeStep == TypeOK /\ [Next]_vars => TypeOK'
<1> SUFFICES ASSUME TypeOK, [Next]_vars PROVE TypeOK'
  OBVIOUS
<1> USE ConstantsAssumption
    DEF Goto, TypeOK, Threads, Results, Returns, Loops, FlowPCs, JsPCs,
        vars, promiseVars, nodeVars, queueVars, poolVars, loopVars, threadVars, scopeVars
<1>1. ASSUME NEW t \in Threads, Complete(t) PROVE TypeOK'  BY <1>1 DEF Complete
<1>2. ASSUME NEW t \in Threads, Store(t) PROVE TypeOK'  BY <1>2 DEF Store, Return
<1>3. ASSUME NEW t \in Threads, Abandon(t) PROVE TypeOK'  BY <1>3 DEF Abandon, Return
<1>4. ASSUME NEW t \in Threads, Discard(t) PROVE TypeOK'  BY <1>4 DEF Discard, Return
<1>5. ASSUME NEW t \in Threads, Route(t) PROVE TypeOK'  BY <1>5 DEF Route
<1>6. ASSUME NEW t \in Threads, Insert(t) PROVE TypeOK'  BY <1>6 DEF Insert
<1>7. ASSUME NEW t \in Threads, TryEnqueue(t) PROVE TypeOK'  BY <1>7 DEF TryEnqueue, Return
<1>8. ASSUME NEW t \in Threads, RemovePending(t) PROVE TypeOK'  BY <1>8 DEF RemovePending
<1>9. ASSUME NEW t \in Threads, QueueFallback(t) PROVE TypeOK'  BY <1>9 DEF QueueFallback
<1>10. ASSUME NEW t \in Threads, SwapFallbackQueued(t) PROVE TypeOK'
  BY <1>10 DEF SwapFallbackQueued, Return
<1>11. ASSUME NEW t \in Threads, CallTsfn(t) PROVE TypeOK'  BY <1>11 DEF CallTsfn, Return
<1>12. ASSUME NEW p \in Promises, ToPromise(p) PROVE TypeOK'  BY <1>12 DEF ToPromise
<1>13. ASSUME NEW p \in Promises, HandlerOnJs(p) PROVE TypeOK'  BY <1>13 DEF HandlerOnJs, BeginComplete
<1>14. ASSUME NEW p \in Promises, TsfnCallback(p) PROVE TypeOK'  BY <1>14 DEF TsfnCallback
<1>15. ASSUME NEW p \in Promises, RunQueueCallback(p) PROVE TypeOK'
  BY <1>15 DEF RunQueueCallback, SettleQueueState
<1>16. ASSUME NEW p \in Promises, LateCallback(p) PROVE TypeOK'  BY <1>16 DEF LateCallback, AbandonOnJs
<1>17. ASSUME NEW t \in Threads, NEW p \in Promises, HandlerOnCaller(t, p) PROVE TypeOK'
  BY <1>17 DEF HandlerOnCaller, BeginComplete
<1>18. ASSUME NEW t \in Threads, NEW p \in Promises, WorkerRunsJob(t, p) PROVE TypeOK'
  BY <1>18 DEF WorkerRunsJob, BeginComplete
<1>19. CASE SettleOnJs  BY <1>19 DEF SettleOnJs, Return
<1>20. CASE Deliver
  <2>1. tsfnRef' \in BOOLEAN
    BY <1>20, Zenon DEF Deliver, Deregister
  <2>2. CASE finishing = NoPromise
    BY <2>1, <2>2, <1>20 DEF Deliver, Deregister
  <2>3. CASE finishing # NoPromise
    BY <2>1, <2>3, <1>20 DEF Deliver, Deregister
  <2>4. QED
    BY <2>2, <2>3
<1>21. CASE FinishPromise  BY <1>21 DEF FinishPromise, Deregister
<1>22. CASE SettleDrained  BY <1>22 DEF SettleDrained, SettleQueueState
<1>23. CASE DrainDone  BY <1>23 DEF DrainDone
<1>24. CASE TakeQueue
  <2>1. dqOwned' \in BOOLEAN
    BY <1>24, Zenon DEF TakeQueue, JsCode
  <2>2. QED
    BY <2>1, <1>24 DEF TakeQueue, JsCode
<1>25. CASE SettleStart  BY <1>25 DEF SettleStart
<1>26. CASE HandlerRegistered  BY <1>26 DEF HandlerRegistered, JsCode
<1>27. CASE HandlerRejected  BY <1>27 DEF HandlerRejected, JsCode, BeginComplete
<1>28. CASE CloseDrain  BY <1>28 DEF CloseDrain, DrainQueuePending
<1>29. CASE CloseQueue
  <2>1. dqOwned' \in BOOLEAN
    BY <1>29, Zenon DEF CloseQueue
  <2>2. QED
    BY <2>1, <1>29 DEF CloseQueue, AbandonOnJs
<1>30. CASE CloseTakeRegistry  BY <1>30 DEF CloseTakeRegistry
<1>31. CASE CloseRegistry  BY <1>31 DEF CloseRegistry, AbandonOnJs
<1>32. CASE JoinWorkers
  <2>1. tsfnRef' \in BOOLEAN
    BY <1>32, Zenon DEF JoinWorkers
  <2>2. QED
    BY <2>1, <1>32 DEF JoinWorkers
<1>33. CASE RegisterQueue
  <2>1. dqOwned' \in BOOLEAN
    BY <1>33, Zenon DEF RegisterQueue, CaptureQueue
  <2>2. QED
    BY <2>1, <1>33 DEF RegisterQueue, CaptureQueue
<1>34. CASE UnregisterQueue  BY <1>34 DEF UnregisterQueue, DrainQueuePending
<1>35. CASE ScheduleStart
  <2>1. dqOwned' \in BOOLEAN
    BY <1>35, Zenon DEF ScheduleStart, CaptureQueue
  <2>2. QED
    BY <2>1, <1>35 DEF ScheduleStart, CaptureQueue
<1>36. CASE RunScheduledStart  BY <1>36 DEF RunScheduledStart
<1>37. CASE ShutdownStarting  BY <1>37 DEF ShutdownStarting, DrainQueuePending
<1>38. CASE ShutdownCompleted  BY <1>38 DEF ShutdownCompleted
<1>39. CASE StartReturns  BY <1>39 DEF StartReturns, DrainQueuePending
<1>40. CASE CleanupEnv  BY <1>40 DEF CleanupEnv
<1>41. CASE UnregisterFromMicrotask  BY <1>41 DEF UnregisterFromMicrotask, DrainQueuePending
<1>42. CASE UNCHANGED vars  BY <1>42
<1>43. QED
  BY <1>1, <1>2, <1>3, <1>4, <1>5, <1>6, <1>7, <1>8, <1>9, <1>10, <1>11,
     <1>12, <1>13, <1>14, <1>15, <1>16, <1>17, <1>18, <1>19, <1>20, <1>21,
     <1>22, <1>23, <1>24, <1>25, <1>26, <1>27, <1>28, <1>29, <1>30, <1>31,
     <1>32, <1>33, <1>34, <1>35, <1>36, <1>37, <1>38, <1>39, <1>40, <1>41, <1>42
  DEF Next, CompletionStep, JsStep, Environment, PromiseStep

-----------------------------------------------------------------------------
(* Claims *)

\* A claim on a promise (the swap of `settled') stays exclusive.
LEMMA ClaimStep == TypeOK /\ ClaimInv /\ [Next]_vars => ClaimInv'
<1> SUFFICES ASSUME TypeOK, ClaimInv, [Next]_vars PROVE ClaimInv'
  OBVIOUS
<1> USE ConstantsAssumption
    DEF Goto, TypeOK, Threads, FlowPCs, JsPCs, Returns, Loops, ClaimInv, Claims,
        vars, promiseVars, nodeVars, queueVars, poolVars, loopVars, threadVars, scopeVars
<1>1. ASSUME NEW t \in Threads, Complete(t) PROVE ClaimInv'  BY <1>1 DEF Complete
<1>2. ASSUME NEW t \in Threads, Store(t) PROVE ClaimInv'  BY <1>2 DEF Store, Return
<1>3. ASSUME NEW t \in Threads, Abandon(t) PROVE ClaimInv'  BY <1>3 DEF Abandon, Return
<1>4. ASSUME NEW t \in Threads, Discard(t) PROVE ClaimInv'  BY <1>4 DEF Discard, Return
<1>5. ASSUME NEW t \in Threads, Route(t) PROVE ClaimInv'  BY <1>5 DEF Route
<1>6. ASSUME NEW t \in Threads, Insert(t) PROVE ClaimInv'  BY <1>6 DEF Insert
<1>7. ASSUME NEW t \in Threads, TryEnqueue(t) PROVE ClaimInv'  BY <1>7 DEF TryEnqueue, Return
<1>8. ASSUME NEW t \in Threads, RemovePending(t) PROVE ClaimInv'  BY <1>8 DEF RemovePending
<1>9. ASSUME NEW t \in Threads, QueueFallback(t) PROVE ClaimInv'  BY <1>9 DEF QueueFallback
<1>10. ASSUME NEW t \in Threads, SwapFallbackQueued(t) PROVE ClaimInv'
  BY <1>10 DEF SwapFallbackQueued, Return
<1>11. ASSUME NEW t \in Threads, CallTsfn(t) PROVE ClaimInv'  BY <1>11 DEF CallTsfn, Return
<1>12. ASSUME NEW p \in Promises, ToPromise(p) PROVE ClaimInv'  BY <1>12 DEF ToPromise
<1>13. ASSUME NEW p \in Promises, HandlerOnJs(p) PROVE ClaimInv'
  BY <1>13 DEF HandlerOnJs, BeginComplete
<1>14. ASSUME NEW p \in Promises, TsfnCallback(p) PROVE ClaimInv'  BY <1>14 DEF TsfnCallback
<1>15. ASSUME NEW p \in Promises, RunQueueCallback(p) PROVE ClaimInv'
  BY <1>15 DEF RunQueueCallback, SettleQueueState
<1>16. ASSUME NEW p \in Promises, LateCallback(p) PROVE ClaimInv'
  BY <1>16 DEF LateCallback, AbandonOnJs
<1>17. ASSUME NEW t \in Threads, NEW p \in Promises, HandlerOnCaller(t, p) PROVE ClaimInv'
  BY <1>17 DEF HandlerOnCaller, BeginComplete
<1>18. ASSUME NEW t \in Threads, NEW p \in Promises, WorkerRunsJob(t, p) PROVE ClaimInv'
  BY <1>18 DEF WorkerRunsJob, BeginComplete
<1>19. CASE SettleOnJs  BY <1>19 DEF SettleOnJs, Return
<1>20. CASE Deliver  BY <1>20 DEF Deliver, Deregister
<1>21. CASE FinishPromise  BY <1>21 DEF FinishPromise, Deregister
<1>22. CASE SettleDrained  BY <1>22 DEF SettleDrained, SettleQueueState
<1>23. CASE DrainDone  BY <1>23 DEF DrainDone
<1>24. CASE TakeQueue  BY <1>24 DEF TakeQueue, JsCode
<1>25. CASE SettleStart  BY <1>25 DEF SettleStart
<1>26. CASE HandlerRegistered  BY <1>26 DEF HandlerRegistered, JsCode
<1>27. CASE HandlerRejected  BY <1>27 DEF HandlerRejected, JsCode, BeginComplete
<1>28. CASE CloseDrain  BY <1>28 DEF CloseDrain, DrainQueuePending
<1>29. CASE CloseQueue  BY <1>29 DEF CloseQueue, AbandonOnJs
<1>30. CASE CloseTakeRegistry  BY <1>30 DEF CloseTakeRegistry
<1>31. CASE CloseRegistry  BY <1>31 DEF CloseRegistry, AbandonOnJs
<1>32. CASE JoinWorkers  BY <1>32 DEF JoinWorkers
<1>33. CASE RegisterQueue  BY <1>33 DEF RegisterQueue, CaptureQueue
<1>34. CASE UnregisterQueue  BY <1>34 DEF UnregisterQueue, DrainQueuePending
<1>35. CASE ScheduleStart  BY <1>35 DEF ScheduleStart, CaptureQueue
<1>36. CASE RunScheduledStart  BY <1>36 DEF RunScheduledStart
<1>37. CASE ShutdownStarting  BY <1>37 DEF ShutdownStarting, DrainQueuePending
<1>38. CASE ShutdownCompleted  BY <1>38 DEF ShutdownCompleted
<1>39. CASE StartReturns  BY <1>39 DEF StartReturns, DrainQueuePending
<1>40. CASE CleanupEnv  BY <1>40 DEF CleanupEnv
<1>41. CASE UnregisterFromMicrotask  BY <1>41 DEF UnregisterFromMicrotask, DrainQueuePending
<1>42. CASE UNCHANGED vars  BY <1>42
<1>43. QED
  BY <1>1, <1>2, <1>3, <1>4, <1>5, <1>6, <1>7, <1>8, <1>9, <1>10, <1>11,
     <1>12, <1>13, <1>14, <1>15, <1>16, <1>17, <1>18, <1>19, <1>20, <1>21,
     <1>22, <1>23, <1>24, <1>25, <1>26, <1>27, <1>28, <1>29, <1>30, <1>31,
     <1>32, <1>33, <1>34, <1>35, <1>36, <1>37, <1>38, <1>39, <1>40, <1>41, <1>42
  DEF Next, CompletionStep, JsStep, Environment, PromiseStep

-----------------------------------------------------------------------------
(* Teardown *)

\* The closing flag, the threadsafe function and the workers follow cleanup_env.
LEMMA CloseStep == TypeOK /\ CloseInv /\ [Next]_vars => CloseInv'
<1> SUFFICES ASSUME TypeOK, CloseInv, [Next]_vars PROVE CloseInv'
  OBVIOUS
<1> USE ConstantsAssumption
    DEF Goto, TypeOK, Threads, FlowPCs, JsPCs, Returns, Loops, CloseInv, Closing, Closed,
        vars, promiseVars, nodeVars, queueVars, poolVars, loopVars, threadVars, scopeVars
<1>1. ASSUME NEW t \in Threads, Complete(t) PROVE CloseInv'  BY <1>1 DEF Complete
<1>2. ASSUME NEW t \in Threads, Store(t) PROVE CloseInv'  BY <1>2 DEF Store, Return
<1>3. ASSUME NEW t \in Threads, Abandon(t) PROVE CloseInv'  BY <1>3 DEF Abandon, Return
<1>4. ASSUME NEW t \in Threads, Discard(t) PROVE CloseInv'  BY <1>4 DEF Discard, Return
<1>5. ASSUME NEW t \in Threads, Route(t) PROVE CloseInv'  BY <1>5 DEF Route
<1>6. ASSUME NEW t \in Threads, Insert(t) PROVE CloseInv'  BY <1>6 DEF Insert
<1>7. ASSUME NEW t \in Threads, TryEnqueue(t) PROVE CloseInv'  BY <1>7 DEF TryEnqueue, Return
<1>8. ASSUME NEW t \in Threads, RemovePending(t) PROVE CloseInv'  BY <1>8 DEF RemovePending
<1>9. ASSUME NEW t \in Threads, QueueFallback(t) PROVE CloseInv'  BY <1>9 DEF QueueFallback
<1>10. ASSUME NEW t \in Threads, SwapFallbackQueued(t) PROVE CloseInv'
  BY <1>10 DEF SwapFallbackQueued, Return
<1>11. ASSUME NEW t \in Threads, CallTsfn(t) PROVE CloseInv'  BY <1>11 DEF CallTsfn, Return
<1>12. ASSUME NEW p \in Promises, ToPromise(p) PROVE CloseInv'  BY <1>12 DEF ToPromise
<1>13. ASSUME NEW p \in Promises, HandlerOnJs(p) PROVE CloseInv'
  BY <1>13 DEF HandlerOnJs, BeginComplete
<1>14. ASSUME NEW p \in Promises, TsfnCallback(p) PROVE CloseInv'  BY <1>14 DEF TsfnCallback
<1>15. ASSUME NEW p \in Promises, RunQueueCallback(p) PROVE CloseInv'
  BY <1>15 DEF RunQueueCallback, SettleQueueState
<1>16. ASSUME NEW p \in Promises, LateCallback(p) PROVE CloseInv'
  BY <1>16 DEF LateCallback, AbandonOnJs
<1>17. ASSUME NEW t \in Threads, NEW p \in Promises, HandlerOnCaller(t, p) PROVE CloseInv'
  BY <1>17 DEF HandlerOnCaller, BeginComplete
<1>18. ASSUME NEW t \in Threads, NEW p \in Promises, WorkerRunsJob(t, p) PROVE CloseInv'
  BY <1>18 DEF WorkerRunsJob, BeginComplete
<1>19. CASE SettleOnJs  BY <1>19 DEF SettleOnJs, Return
<1>20. CASE Deliver  BY <1>20 DEF Deliver, Deregister
<1>21. CASE FinishPromise  BY <1>21 DEF FinishPromise, Deregister
<1>22. CASE SettleDrained  BY <1>22 DEF SettleDrained, SettleQueueState
<1>23. CASE DrainDone  BY <1>23 DEF DrainDone
<1>24. CASE TakeQueue  BY <1>24 DEF TakeQueue, JsCode
<1>25. CASE SettleStart  BY <1>25 DEF SettleStart
<1>26. CASE HandlerRegistered  BY <1>26 DEF HandlerRegistered, JsCode
<1>27. CASE HandlerRejected  BY <1>27 DEF HandlerRejected, JsCode, BeginComplete
<1>28. CASE CloseDrain  BY <1>28 DEF CloseDrain, DrainQueuePending
<1>29. CASE CloseQueue  BY <1>29 DEF CloseQueue, AbandonOnJs
<1>30. CASE CloseTakeRegistry  BY <1>30 DEF CloseTakeRegistry
<1>31. CASE CloseRegistry  BY <1>31 DEF CloseRegistry, AbandonOnJs
<1>32. CASE JoinWorkers  BY <1>32 DEF JoinWorkers
<1>33. CASE RegisterQueue  BY <1>33 DEF RegisterQueue, CaptureQueue
<1>34. CASE UnregisterQueue  BY <1>34 DEF UnregisterQueue, DrainQueuePending
<1>35. CASE ScheduleStart  BY <1>35 DEF ScheduleStart, CaptureQueue
<1>36. CASE RunScheduledStart  BY <1>36 DEF RunScheduledStart
<1>37. CASE ShutdownStarting  BY <1>37 DEF ShutdownStarting, DrainQueuePending
<1>38. CASE ShutdownCompleted  BY <1>38 DEF ShutdownCompleted
<1>39. CASE StartReturns  BY <1>39 DEF StartReturns, DrainQueuePending
<1>40. CASE CleanupEnv  BY <1>40 DEF CleanupEnv
<1>41. CASE UnregisterFromMicrotask  BY <1>41 DEF UnregisterFromMicrotask, DrainQueuePending
<1>42. CASE UNCHANGED vars  BY <1>42
<1>43. QED
  BY <1>1, <1>2, <1>3, <1>4, <1>5, <1>6, <1>7, <1>8, <1>9, <1>10, <1>11,
     <1>12, <1>13, <1>14, <1>15, <1>16, <1>17, <1>18, <1>19, <1>20, <1>21,
     <1>22, <1>23, <1>24, <1>25, <1>26, <1>27, <1>28, <1>29, <1>30, <1>31,
     <1>32, <1>33, <1>34, <1>35, <1>36, <1>37, <1>38, <1>39, <1>40, <1>41, <1>42
  DEF Next, CompletionStep, JsStep, Environment, PromiseStep

-----------------------------------------------------------------------------
(* Routes *)

\* A routed promise keeps its completion until it is claimed.
LEMMA RouteStep == TypeOK /\ ClaimInv /\ CloseInv /\ RouteInv /\ [Next]_vars => RouteInv'
<1> SUFFICES ASSUME TypeOK, ClaimInv, CloseInv, RouteInv, [Next]_vars PROVE RouteInv'
  OBVIOUS
<1> USE ConstantsAssumption
    DEF Goto, TypeOK, Threads, FlowPCs, JsPCs, Returns, Loops, ClaimInv, Claims,
        CloseInv, Closing, Closed, RouteInv, Routed, RoutingPCs,
        vars, promiseVars, nodeVars, queueVars, poolVars, loopVars, threadVars, scopeVars
<1>1. ASSUME NEW t \in Threads, Complete(t) PROVE RouteInv'  BY <1>1 DEF Complete
<1>2. ASSUME NEW t \in Threads, Store(t) PROVE RouteInv'  BY <1>2 DEF Store, Return
<1>3. ASSUME NEW t \in Threads, Abandon(t) PROVE RouteInv'  BY <1>3 DEF Abandon, Return
<1>4. ASSUME NEW t \in Threads, Discard(t) PROVE RouteInv'  BY <1>4 DEF Discard, Return
<1>5. ASSUME NEW t \in Threads, Route(t) PROVE RouteInv'  BY <1>5 DEF Route
<1>6. ASSUME NEW t \in Threads, Insert(t) PROVE RouteInv'  BY <1>6 DEF Insert
<1>7. ASSUME NEW t \in Threads, TryEnqueue(t) PROVE RouteInv'  BY <1>7 DEF TryEnqueue, Return
<1>8. ASSUME NEW t \in Threads, RemovePending(t) PROVE RouteInv'  BY <1>8 DEF RemovePending
<1>9. ASSUME NEW t \in Threads, QueueFallback(t) PROVE RouteInv'  BY <1>9 DEF QueueFallback
<1>10. ASSUME NEW t \in Threads, SwapFallbackQueued(t) PROVE RouteInv'
  BY <1>10 DEF SwapFallbackQueued, Return
<1>11. ASSUME NEW t \in Threads, CallTsfn(t) PROVE RouteInv'  BY <1>11 DEF CallTsfn, Return
<1>12. ASSUME NEW p \in Promises, ToPromise(p) PROVE RouteInv'  BY <1>12 DEF ToPromise
<1>13. ASSUME NEW p \in Promises, HandlerOnJs(p) PROVE RouteInv'
  BY <1>13 DEF HandlerOnJs, BeginComplete
<1>14. ASSUME NEW p \in Promises, TsfnCallback(p) PROVE RouteInv'  BY <1>14 DEF TsfnCallback
<1>15. ASSUME NEW p \in Promises, RunQueueCallback(p) PROVE RouteInv'
  BY <1>15 DEF RunQueueCallback, SettleQueueState
<1>16. ASSUME NEW p \in Promises, LateCallback(p) PROVE RouteInv'
  BY <1>16 DEF LateCallback, AbandonOnJs
<1>17. ASSUME NEW t \in Threads, NEW p \in Promises, HandlerOnCaller(t, p) PROVE RouteInv'
  BY <1>17 DEF HandlerOnCaller, BeginComplete
<1>18. ASSUME NEW t \in Threads, NEW p \in Promises, WorkerRunsJob(t, p) PROVE RouteInv'
  BY <1>18 DEF WorkerRunsJob, BeginComplete
<1>19. CASE SettleOnJs  BY <1>19 DEF SettleOnJs, Return
<1>20. CASE Deliver  BY <1>20 DEF Deliver, Deregister
<1>21. CASE FinishPromise  BY <1>21 DEF FinishPromise, Deregister
<1>22. CASE SettleDrained  BY <1>22 DEF SettleDrained, SettleQueueState
<1>23. CASE DrainDone  BY <1>23 DEF DrainDone
<1>24. CASE TakeQueue  BY <1>24 DEF TakeQueue, JsCode
<1>25. CASE SettleStart  BY <1>25 DEF SettleStart
<1>26. CASE HandlerRegistered  BY <1>26 DEF HandlerRegistered, JsCode
<1>27. CASE HandlerRejected  BY <1>27 DEF HandlerRejected, JsCode, BeginComplete
<1>28. CASE CloseDrain  BY <1>28 DEF CloseDrain, DrainQueuePending
<1>29. CASE CloseQueue  BY <1>29 DEF CloseQueue, AbandonOnJs
<1>30. CASE CloseTakeRegistry  BY <1>30 DEF CloseTakeRegistry
<1>31. CASE CloseRegistry  BY <1>31 DEF CloseRegistry, AbandonOnJs
<1>32. CASE JoinWorkers  BY <1>32 DEF JoinWorkers
<1>33. CASE RegisterQueue  BY <1>33 DEF RegisterQueue, CaptureQueue
<1>34. CASE UnregisterQueue  BY <1>34 DEF UnregisterQueue, DrainQueuePending
<1>35. CASE ScheduleStart  BY <1>35 DEF ScheduleStart, CaptureQueue
<1>36. CASE RunScheduledStart  BY <1>36 DEF RunScheduledStart
<1>37. CASE ShutdownStarting  BY <1>37 DEF ShutdownStarting, DrainQueuePending
<1>38. CASE ShutdownCompleted  BY <1>38 DEF ShutdownCompleted
<1>39. CASE StartReturns  BY <1>39 DEF StartReturns, DrainQueuePending
<1>40. CASE CleanupEnv  BY <1>40 DEF CleanupEnv
<1>41. CASE UnregisterFromMicrotask  BY <1>41 DEF UnregisterFromMicrotask, DrainQueuePending
<1>42. CASE UNCHANGED vars  BY <1>42
<1>43. QED
  BY <1>1, <1>2, <1>3, <1>4, <1>5, <1>6, <1>7, <1>8, <1>9, <1>10, <1>11,
     <1>12, <1>13, <1>14, <1>15, <1>16, <1>17, <1>18, <1>19, <1>20, <1>21,
     <1>22, <1>23, <1>24, <1>25, <1>26, <1>27, <1>28, <1>29, <1>30, <1>31,
     <1>32, <1>33, <1>34, <1>35, <1>36, <1>37, <1>38, <1>39, <1>40, <1>41, <1>42
  DEF Next, CompletionStep, JsStep, Environment, PromiseStep

-----------------------------------------------------------------------------
(* Created promises *)

\* Everything is about promises that were created.
LEMMA KnownStep == TypeOK /\ KnownInv /\ [Next]_vars => KnownInv'
<1> SUFFICES ASSUME TypeOK, KnownInv, [Next]_vars PROVE KnownInv'
  OBVIOUS
<1> USE ConstantsAssumption
    DEF Goto, TypeOK, Threads, FlowPCs, JsPCs, Returns, Loops, KnownInv,
        vars, promiseVars, nodeVars, queueVars, poolVars, loopVars, threadVars, scopeVars
<1>1. ASSUME NEW t \in Threads, Complete(t) PROVE KnownInv'  BY <1>1 DEF Complete
<1>2. ASSUME NEW t \in Threads, Store(t) PROVE KnownInv'  BY <1>2 DEF Store, Return
<1>3. ASSUME NEW t \in Threads, Abandon(t) PROVE KnownInv'  BY <1>3 DEF Abandon, Return
<1>4. ASSUME NEW t \in Threads, Discard(t) PROVE KnownInv'  BY <1>4 DEF Discard, Return
<1>5. ASSUME NEW t \in Threads, Route(t) PROVE KnownInv'  BY <1>5 DEF Route
<1>6. ASSUME NEW t \in Threads, Insert(t) PROVE KnownInv'  BY <1>6 DEF Insert
<1>7. ASSUME NEW t \in Threads, TryEnqueue(t) PROVE KnownInv'  BY <1>7 DEF TryEnqueue, Return
<1>8. ASSUME NEW t \in Threads, RemovePending(t) PROVE KnownInv'  BY <1>8 DEF RemovePending
<1>9. ASSUME NEW t \in Threads, QueueFallback(t) PROVE KnownInv'  BY <1>9 DEF QueueFallback
<1>10. ASSUME NEW t \in Threads, SwapFallbackQueued(t) PROVE KnownInv'
  BY <1>10 DEF SwapFallbackQueued, Return
<1>11. ASSUME NEW t \in Threads, CallTsfn(t) PROVE KnownInv'  BY <1>11 DEF CallTsfn, Return
<1>12. ASSUME NEW p \in Promises, ToPromise(p) PROVE KnownInv'  BY <1>12 DEF ToPromise
<1>13. ASSUME NEW p \in Promises, HandlerOnJs(p) PROVE KnownInv'
  BY <1>13 DEF HandlerOnJs, BeginComplete
<1>14. ASSUME NEW p \in Promises, TsfnCallback(p) PROVE KnownInv'  BY <1>14 DEF TsfnCallback
<1>15. ASSUME NEW p \in Promises, RunQueueCallback(p) PROVE KnownInv'
  BY <1>15 DEF RunQueueCallback, SettleQueueState
<1>16. ASSUME NEW p \in Promises, LateCallback(p) PROVE KnownInv'
  BY <1>16 DEF LateCallback, AbandonOnJs
<1>17. ASSUME NEW t \in Threads, NEW p \in Promises, HandlerOnCaller(t, p) PROVE KnownInv'
  BY <1>17 DEF HandlerOnCaller, BeginComplete
<1>18. ASSUME NEW t \in Threads, NEW p \in Promises, WorkerRunsJob(t, p) PROVE KnownInv'
  BY <1>18 DEF WorkerRunsJob, BeginComplete
<1>19. CASE SettleOnJs  BY <1>19 DEF SettleOnJs, Return
<1>20. CASE Deliver  BY <1>20 DEF Deliver, Deregister
<1>21. CASE FinishPromise  BY <1>21 DEF FinishPromise, Deregister
<1>22. CASE SettleDrained  BY <1>22 DEF SettleDrained, SettleQueueState
<1>23. CASE DrainDone  BY <1>23 DEF DrainDone
<1>24. CASE TakeQueue  BY <1>24 DEF TakeQueue, JsCode
<1>25. CASE SettleStart  BY <1>25 DEF SettleStart
<1>26. CASE HandlerRegistered  BY <1>26 DEF HandlerRegistered, JsCode
<1>27. CASE HandlerRejected  BY <1>27 DEF HandlerRejected, JsCode, BeginComplete
<1>28. CASE CloseDrain  BY <1>28 DEF CloseDrain, DrainQueuePending
<1>29. CASE CloseQueue  BY <1>29 DEF CloseQueue, AbandonOnJs
<1>30. CASE CloseTakeRegistry  BY <1>30 DEF CloseTakeRegistry
<1>31. CASE CloseRegistry  BY <1>31 DEF CloseRegistry, AbandonOnJs
<1>32. CASE JoinWorkers  BY <1>32 DEF JoinWorkers
<1>33. CASE RegisterQueue  BY <1>33 DEF RegisterQueue, CaptureQueue
<1>34. CASE UnregisterQueue  BY <1>34 DEF UnregisterQueue, DrainQueuePending
<1>35. CASE ScheduleStart  BY <1>35 DEF ScheduleStart, CaptureQueue
<1>36. CASE RunScheduledStart  BY <1>36 DEF RunScheduledStart
<1>37. CASE ShutdownStarting  BY <1>37 DEF ShutdownStarting, DrainQueuePending
<1>38. CASE ShutdownCompleted  BY <1>38 DEF ShutdownCompleted
<1>39. CASE StartReturns  BY <1>39 DEF StartReturns, DrainQueuePending
<1>40. CASE CleanupEnv  BY <1>40 DEF CleanupEnv
<1>41. CASE UnregisterFromMicrotask  BY <1>41 DEF UnregisterFromMicrotask, DrainQueuePending
<1>42. CASE UNCHANGED vars  BY <1>42
<1>43. QED
  BY <1>1, <1>2, <1>3, <1>4, <1>5, <1>6, <1>7, <1>8, <1>9, <1>10, <1>11,
     <1>12, <1>13, <1>14, <1>15, <1>16, <1>17, <1>18, <1>19, <1>20, <1>21,
     <1>22, <1>23, <1>24, <1>25, <1>26, <1>27, <1>28, <1>29, <1>30, <1>31,
     <1>32, <1>33, <1>34, <1>35, <1>36, <1>37, <1>38, <1>39, <1>40, <1>41, <1>42
  DEF Next, CompletionStep, JsStep, Environment, PromiseStep

-----------------------------------------------------------------------------
(* Callback scopes *)

\* Microtasks run inside one callback scope.
LEMMA ScopeStep == TypeOK /\ ScopeInv /\ [Next]_vars => ScopeInv'
<1> SUFFICES ASSUME TypeOK, ScopeInv, [Next]_vars PROVE ScopeInv'
  OBVIOUS
<1> USE ConstantsAssumption
    DEF Goto, TypeOK, Threads, FlowPCs, JsPCs, Returns, Loops, ScopeInv, Nested,
        vars, promiseVars, nodeVars, queueVars, poolVars, loopVars, threadVars, scopeVars
<1>1. ASSUME NEW t \in Threads, Complete(t) PROVE ScopeInv'  BY <1>1 DEF Complete
<1>2. ASSUME NEW t \in Threads, Store(t) PROVE ScopeInv'  BY <1>2 DEF Store, Return
<1>3. ASSUME NEW t \in Threads, Abandon(t) PROVE ScopeInv'  BY <1>3 DEF Abandon, Return
<1>4. ASSUME NEW t \in Threads, Discard(t) PROVE ScopeInv'  BY <1>4 DEF Discard, Return
<1>5. ASSUME NEW t \in Threads, Route(t) PROVE ScopeInv'  BY <1>5 DEF Route
<1>6. ASSUME NEW t \in Threads, Insert(t) PROVE ScopeInv'  BY <1>6 DEF Insert
<1>7. ASSUME NEW t \in Threads, TryEnqueue(t) PROVE ScopeInv'  BY <1>7 DEF TryEnqueue, Return
<1>8. ASSUME NEW t \in Threads, RemovePending(t) PROVE ScopeInv'  BY <1>8 DEF RemovePending
<1>9. ASSUME NEW t \in Threads, QueueFallback(t) PROVE ScopeInv'  BY <1>9 DEF QueueFallback
<1>10. ASSUME NEW t \in Threads, SwapFallbackQueued(t) PROVE ScopeInv'
  BY <1>10 DEF SwapFallbackQueued, Return
<1>11. ASSUME NEW t \in Threads, CallTsfn(t) PROVE ScopeInv'  BY <1>11 DEF CallTsfn, Return
<1>12. ASSUME NEW p \in Promises, ToPromise(p) PROVE ScopeInv'  BY <1>12 DEF ToPromise
<1>13. ASSUME NEW p \in Promises, HandlerOnJs(p) PROVE ScopeInv'
  BY <1>13 DEF HandlerOnJs, BeginComplete
<1>14. ASSUME NEW p \in Promises, TsfnCallback(p) PROVE ScopeInv'  BY <1>14 DEF TsfnCallback
<1>15. ASSUME NEW p \in Promises, RunQueueCallback(p) PROVE ScopeInv'
  BY <1>15 DEF RunQueueCallback, SettleQueueState
<1>16. ASSUME NEW p \in Promises, LateCallback(p) PROVE ScopeInv'
  BY <1>16 DEF LateCallback, AbandonOnJs
<1>17. ASSUME NEW t \in Threads, NEW p \in Promises, HandlerOnCaller(t, p) PROVE ScopeInv'
  BY <1>17 DEF HandlerOnCaller, BeginComplete
<1>18. ASSUME NEW t \in Threads, NEW p \in Promises, WorkerRunsJob(t, p) PROVE ScopeInv'
  BY <1>18 DEF WorkerRunsJob, BeginComplete
<1>19. CASE SettleOnJs  BY <1>19 DEF SettleOnJs, Return
<1>20. CASE Deliver
  <2>1. CASE finishing = NoPromise
    BY <2>1, <1>20 DEF Deliver
  <2>2. CASE finishing # NoPromise
    <3>1. pc[JS] = "deliver" /\ ret = "nested"
      BY <2>2, <1>20 DEF Deliver
    <3>2. /\ pc'[JS] = "nested" /\ finishing' = finishing
          /\ UNCHANGED <<after, ret, inner>>
      BY <2>2, <3>1, <1>20 DEF Deliver
    <3>3. QED
      BY <2>2, <3>2
  <2>3. QED
    BY <2>1, <2>2
<1>21. CASE FinishPromise  BY <1>21 DEF FinishPromise, Deregister
<1>22. CASE SettleDrained  BY <1>22 DEF SettleDrained, SettleQueueState
<1>23. CASE DrainDone  BY <1>23 DEF DrainDone
<1>24. CASE TakeQueue  BY <1>24 DEF TakeQueue, JsCode
<1>25. CASE SettleStart  BY <1>25 DEF SettleStart
<1>26. CASE HandlerRegistered  BY <1>26 DEF HandlerRegistered, JsCode
<1>27. CASE HandlerRejected  BY <1>27 DEF HandlerRejected, JsCode, BeginComplete
<1>28. CASE CloseDrain  BY <1>28 DEF CloseDrain, DrainQueuePending
<1>29. CASE CloseQueue  BY <1>29 DEF CloseQueue, AbandonOnJs
<1>30. CASE CloseTakeRegistry  BY <1>30 DEF CloseTakeRegistry
<1>31. CASE CloseRegistry  BY <1>31 DEF CloseRegistry, AbandonOnJs
<1>32. CASE JoinWorkers  BY <1>32 DEF JoinWorkers
<1>33. CASE RegisterQueue  BY <1>33 DEF RegisterQueue, CaptureQueue
<1>34. CASE UnregisterQueue  BY <1>34 DEF UnregisterQueue, DrainQueuePending
<1>35. CASE ScheduleStart  BY <1>35 DEF ScheduleStart, CaptureQueue
<1>36. CASE RunScheduledStart  BY <1>36 DEF RunScheduledStart
<1>37. CASE ShutdownStarting  BY <1>37 DEF ShutdownStarting, DrainQueuePending
<1>38. CASE ShutdownCompleted  BY <1>38 DEF ShutdownCompleted
<1>39. CASE StartReturns  BY <1>39 DEF StartReturns, DrainQueuePending
<1>40. CASE CleanupEnv  BY <1>40 DEF CleanupEnv
<1>41. CASE UnregisterFromMicrotask  BY <1>41 DEF UnregisterFromMicrotask, DrainQueuePending
<1>42. CASE UNCHANGED vars  BY <1>42
<1>43. QED
  BY <1>1, <1>2, <1>3, <1>4, <1>5, <1>6, <1>7, <1>8, <1>9, <1>10, <1>11,
     <1>12, <1>13, <1>14, <1>15, <1>16, <1>17, <1>18, <1>19, <1>20, <1>21,
     <1>22, <1>23, <1>24, <1>25, <1>26, <1>27, <1>28, <1>29, <1>30, <1>31,
     <1>32, <1>33, <1>34, <1>35, <1>36, <1>37, <1>38, <1>39, <1>40, <1>41, <1>42
  DEF Next, CompletionStep, JsStep, Environment, PromiseStep

-----------------------------------------------------------------------------
(* Abandonment *)

\* Promises are abandoned only when the environment closes or Node-API fails.
LEMMA AbandonStep == TypeOK /\ CloseInv /\ AbandonInv /\ [Next]_vars => AbandonInv'
<1> SUFFICES ASSUME TypeOK, CloseInv, AbandonInv, [Next]_vars PROVE AbandonInv'
  OBVIOUS
<1> USE ConstantsAssumption
    DEF Goto, TypeOK, Threads, FlowPCs, JsPCs, Returns, Loops, CloseInv, Closing, Closed, AbandonInv,
        vars, promiseVars, nodeVars, queueVars, poolVars, loopVars, threadVars, scopeVars
<1>1. ASSUME NEW t \in Threads, Complete(t) PROVE AbandonInv'  BY <1>1 DEF Complete
<1>2. ASSUME NEW t \in Threads, Store(t) PROVE AbandonInv'  BY <1>2 DEF Store, Return
<1>3. ASSUME NEW t \in Threads, Abandon(t) PROVE AbandonInv'  BY <1>3 DEF Abandon, Return
<1>4. ASSUME NEW t \in Threads, Discard(t) PROVE AbandonInv'  BY <1>4 DEF Discard, Return
<1>5. ASSUME NEW t \in Threads, Route(t) PROVE AbandonInv'  BY <1>5 DEF Route
<1>6. ASSUME NEW t \in Threads, Insert(t) PROVE AbandonInv'  BY <1>6 DEF Insert
<1>7. ASSUME NEW t \in Threads, TryEnqueue(t) PROVE AbandonInv'  BY <1>7 DEF TryEnqueue, Return
<1>8. ASSUME NEW t \in Threads, RemovePending(t) PROVE AbandonInv'  BY <1>8 DEF RemovePending
<1>9. ASSUME NEW t \in Threads, QueueFallback(t) PROVE AbandonInv'  BY <1>9 DEF QueueFallback
<1>10. ASSUME NEW t \in Threads, SwapFallbackQueued(t) PROVE AbandonInv'
  BY <1>10 DEF SwapFallbackQueued, Return
<1>11. ASSUME NEW t \in Threads, CallTsfn(t) PROVE AbandonInv'  BY <1>11 DEF CallTsfn, Return
<1>12. ASSUME NEW p \in Promises, ToPromise(p) PROVE AbandonInv'  BY <1>12 DEF ToPromise
<1>13. ASSUME NEW p \in Promises, HandlerOnJs(p) PROVE AbandonInv'
  BY <1>13 DEF HandlerOnJs, BeginComplete
<1>14. ASSUME NEW p \in Promises, TsfnCallback(p) PROVE AbandonInv'  BY <1>14 DEF TsfnCallback
<1>15. ASSUME NEW p \in Promises, RunQueueCallback(p) PROVE AbandonInv'
  BY <1>15 DEF RunQueueCallback, SettleQueueState
<1>16. ASSUME NEW p \in Promises, LateCallback(p) PROVE AbandonInv'
  BY <1>16 DEF LateCallback, AbandonOnJs
<1>17. ASSUME NEW t \in Threads, NEW p \in Promises, HandlerOnCaller(t, p) PROVE AbandonInv'
  BY <1>17 DEF HandlerOnCaller, BeginComplete
<1>18. ASSUME NEW t \in Threads, NEW p \in Promises, WorkerRunsJob(t, p) PROVE AbandonInv'
  BY <1>18 DEF WorkerRunsJob, BeginComplete
<1>19. CASE SettleOnJs  BY <1>19 DEF SettleOnJs, Return
<1>20. CASE Deliver  BY <1>20 DEF Deliver, Deregister
<1>21. CASE FinishPromise  BY <1>21 DEF FinishPromise, Deregister
<1>22. CASE SettleDrained  BY <1>22 DEF SettleDrained, SettleQueueState
<1>23. CASE DrainDone  BY <1>23 DEF DrainDone
<1>24. CASE TakeQueue  BY <1>24 DEF TakeQueue, JsCode
<1>25. CASE SettleStart  BY <1>25 DEF SettleStart
<1>26. CASE HandlerRegistered  BY <1>26 DEF HandlerRegistered, JsCode
<1>27. CASE HandlerRejected  BY <1>27 DEF HandlerRejected, JsCode, BeginComplete
<1>28. CASE CloseDrain  BY <1>28 DEF CloseDrain, DrainQueuePending
<1>29. CASE CloseQueue  BY <1>29 DEF CloseQueue, AbandonOnJs
<1>30. CASE CloseTakeRegistry  BY <1>30 DEF CloseTakeRegistry
<1>31. CASE CloseRegistry  BY <1>31 DEF CloseRegistry, AbandonOnJs
<1>32. CASE JoinWorkers  BY <1>32 DEF JoinWorkers
<1>33. CASE RegisterQueue  BY <1>33 DEF RegisterQueue, CaptureQueue
<1>34. CASE UnregisterQueue  BY <1>34 DEF UnregisterQueue, DrainQueuePending
<1>35. CASE ScheduleStart  BY <1>35 DEF ScheduleStart, CaptureQueue
<1>36. CASE RunScheduledStart  BY <1>36 DEF RunScheduledStart
<1>37. CASE ShutdownStarting  BY <1>37 DEF ShutdownStarting, DrainQueuePending
<1>38. CASE ShutdownCompleted  BY <1>38 DEF ShutdownCompleted
<1>39. CASE StartReturns  BY <1>39 DEF StartReturns, DrainQueuePending
<1>40. CASE CleanupEnv  BY <1>40 DEF CleanupEnv
<1>41. CASE UnregisterFromMicrotask  BY <1>41 DEF UnregisterFromMicrotask, DrainQueuePending
<1>42. CASE UNCHANGED vars  BY <1>42
<1>43. QED
  BY <1>1, <1>2, <1>3, <1>4, <1>5, <1>6, <1>7, <1>8, <1>9, <1>10, <1>11,
     <1>12, <1>13, <1>14, <1>15, <1>16, <1>17, <1>18, <1>19, <1>20, <1>21,
     <1>22, <1>23, <1>24, <1>25, <1>26, <1>27, <1>28, <1>29, <1>30, <1>31,
     <1>32, <1>33, <1>34, <1>35, <1>36, <1>37, <1>38, <1>39, <1>40, <1>41, <1>42
  DEF Next, CompletionStep, JsStep, Environment, PromiseStep

-----------------------------------------------------------------------------
(* Drained promises *)

\* Drained promises are held only inside the loop over them.
LEMMA TodoStep == TypeOK /\ ScopeInv /\ TodoInv /\ [Next]_vars => TodoInv'
<1> SUFFICES ASSUME TypeOK, ScopeInv, TodoInv, [Next]_vars PROVE TodoInv'
  OBVIOUS
<1> USE ConstantsAssumption
    DEF Goto, TypeOK, Threads, FlowPCs, JsPCs, Returns, Loops, ScopeInv, Nested, TodoInv, Outer, JsCode,
        vars, promiseVars, nodeVars, queueVars, poolVars, loopVars, threadVars, scopeVars
<1>1. ASSUME NEW t \in Threads, Complete(t) PROVE TodoInv'  BY <1>1 DEF Complete
<1>2. ASSUME NEW t \in Threads, Store(t) PROVE TodoInv'  BY <1>2 DEF Store, Return
<1>3. ASSUME NEW t \in Threads, Abandon(t) PROVE TodoInv'  BY <1>3 DEF Abandon, Return
<1>4. ASSUME NEW t \in Threads, Discard(t) PROVE TodoInv'  BY <1>4 DEF Discard, Return
<1>5. ASSUME NEW t \in Threads, Route(t) PROVE TodoInv'  BY <1>5 DEF Route
<1>6. ASSUME NEW t \in Threads, Insert(t) PROVE TodoInv'  BY <1>6 DEF Insert
<1>7. ASSUME NEW t \in Threads, TryEnqueue(t) PROVE TodoInv'  BY <1>7 DEF TryEnqueue, Return
<1>8. ASSUME NEW t \in Threads, RemovePending(t) PROVE TodoInv'  BY <1>8 DEF RemovePending
<1>9. ASSUME NEW t \in Threads, QueueFallback(t) PROVE TodoInv'  BY <1>9 DEF QueueFallback
<1>10. ASSUME NEW t \in Threads, SwapFallbackQueued(t) PROVE TodoInv'
  BY <1>10 DEF SwapFallbackQueued, Return
<1>11. ASSUME NEW t \in Threads, CallTsfn(t) PROVE TodoInv'  BY <1>11 DEF CallTsfn, Return
<1>12. ASSUME NEW p \in Promises, ToPromise(p) PROVE TodoInv'  BY <1>12 DEF ToPromise
<1>13. ASSUME NEW p \in Promises, HandlerOnJs(p) PROVE TodoInv'  BY <1>13 DEF HandlerOnJs, BeginComplete
<1>14. ASSUME NEW p \in Promises, TsfnCallback(p) PROVE TodoInv'  BY <1>14 DEF TsfnCallback
<1>15. ASSUME NEW p \in Promises, RunQueueCallback(p) PROVE TodoInv'
  BY <1>15 DEF RunQueueCallback, SettleQueueState
<1>16. ASSUME NEW p \in Promises, LateCallback(p) PROVE TodoInv'  BY <1>16 DEF LateCallback, AbandonOnJs
<1>17. ASSUME NEW t \in Threads, NEW p \in Promises, HandlerOnCaller(t, p) PROVE TodoInv'
  BY <1>17 DEF HandlerOnCaller, BeginComplete
<1>18. ASSUME NEW t \in Threads, NEW p \in Promises, WorkerRunsJob(t, p) PROVE TodoInv'
  BY <1>18 DEF WorkerRunsJob, BeginComplete
<1>19. CASE SettleOnJs  BY <1>19 DEF SettleOnJs, Return
<1>20. CASE Deliver  BY <1>20 DEF Deliver, Deregister
<1>21. CASE FinishPromise  BY <1>21 DEF FinishPromise, Deregister
<1>22. CASE SettleDrained  BY <1>22 DEF SettleDrained, SettleQueueState
<1>23. CASE DrainDone  BY <1>23 DEF DrainDone
<1>24. CASE TakeQueue  BY <1>24 DEF TakeQueue, JsCode
<1>25. CASE SettleStart  BY <1>25 DEF SettleStart
<1>26. CASE HandlerRegistered  BY <1>26 DEF HandlerRegistered, JsCode
<1>27. CASE HandlerRejected  BY <1>27 DEF HandlerRejected, JsCode, BeginComplete
<1>28. CASE CloseDrain  BY <1>28 DEF CloseDrain, DrainQueuePending
<1>29. CASE CloseQueue  BY <1>29 DEF CloseQueue, AbandonOnJs
<1>30. CASE CloseTakeRegistry  BY <1>30 DEF CloseTakeRegistry
<1>31. CASE CloseRegistry  BY <1>31 DEF CloseRegistry, AbandonOnJs
<1>32. CASE JoinWorkers  BY <1>32 DEF JoinWorkers
<1>33. CASE RegisterQueue  BY <1>33 DEF RegisterQueue, CaptureQueue
<1>34. CASE UnregisterQueue  BY <1>34 DEF UnregisterQueue, DrainQueuePending
<1>35. CASE ScheduleStart  BY <1>35 DEF ScheduleStart, CaptureQueue
<1>36. CASE RunScheduledStart  BY <1>36 DEF RunScheduledStart
<1>37. CASE ShutdownStarting  BY <1>37 DEF ShutdownStarting, DrainQueuePending
<1>38. CASE ShutdownCompleted  BY <1>38 DEF ShutdownCompleted
<1>39. CASE StartReturns  BY <1>39 DEF StartReturns, DrainQueuePending
<1>40. CASE CleanupEnv  BY <1>40 DEF CleanupEnv
<1>41. CASE UnregisterFromMicrotask  BY <1>41 DEF UnregisterFromMicrotask, DrainQueuePending
<1>42. CASE UNCHANGED vars  BY <1>42
<1>43. QED
  BY <1>1, <1>2, <1>3, <1>4, <1>5, <1>6, <1>7, <1>8, <1>9, <1>10, <1>11,
     <1>12, <1>13, <1>14, <1>15, <1>16, <1>17, <1>18, <1>19, <1>20, <1>21,
     <1>22, <1>23, <1>24, <1>25, <1>26, <1>27, <1>28, <1>29, <1>30, <1>31,
     <1>32, <1>33, <1>34, <1>35, <1>36, <1>37, <1>38, <1>39, <1>40, <1>41, <1>42
  DEF Next, CompletionStep, JsStep, Environment, PromiseStep

-----------------------------------------------------------------------------
(* Threadsafe calls *)

\* A promise whose threadsafe call was claimed is on its way.
LEMMA FallbackStep == TypeOK /\ CloseInv /\ FallbackInv /\ [Next]_vars => FallbackInv'
<1> SUFFICES ASSUME TypeOK, CloseInv, FallbackInv, [Next]_vars PROVE FallbackInv'
  OBVIOUS
<1> USE ConstantsAssumption
    DEF Goto, TypeOK, Threads, FlowPCs, JsPCs, Returns, Loops, CloseInv, Closing, Closed, FallbackInv,
        vars, promiseVars, nodeVars, queueVars, poolVars, loopVars, threadVars, scopeVars
<1>1. ASSUME NEW t \in Threads, Complete(t) PROVE FallbackInv'  BY <1>1 DEF Complete
<1>2. ASSUME NEW t \in Threads, Store(t) PROVE FallbackInv'  BY <1>2 DEF Store, Return
<1>3. ASSUME NEW t \in Threads, Abandon(t) PROVE FallbackInv'  BY <1>3 DEF Abandon, Return
<1>4. ASSUME NEW t \in Threads, Discard(t) PROVE FallbackInv'  BY <1>4 DEF Discard, Return
<1>5. ASSUME NEW t \in Threads, Route(t) PROVE FallbackInv'  BY <1>5 DEF Route
<1>6. ASSUME NEW t \in Threads, Insert(t) PROVE FallbackInv'  BY <1>6 DEF Insert
<1>7. ASSUME NEW t \in Threads, TryEnqueue(t) PROVE FallbackInv'  BY <1>7 DEF TryEnqueue, Return
<1>8. ASSUME NEW t \in Threads, RemovePending(t) PROVE FallbackInv'  BY <1>8 DEF RemovePending
<1>9. ASSUME NEW t \in Threads, QueueFallback(t) PROVE FallbackInv'  BY <1>9 DEF QueueFallback
<1>10. ASSUME NEW t \in Threads, SwapFallbackQueued(t) PROVE FallbackInv'
  BY <1>10 DEF SwapFallbackQueued, Return
<1>11. ASSUME NEW t \in Threads, CallTsfn(t) PROVE FallbackInv'  BY <1>11 DEF CallTsfn, Return
<1>12. ASSUME NEW p \in Promises, ToPromise(p) PROVE FallbackInv'  BY <1>12 DEF ToPromise
<1>13. ASSUME NEW p \in Promises, HandlerOnJs(p) PROVE FallbackInv'
  BY <1>13 DEF HandlerOnJs, BeginComplete
<1>14. ASSUME NEW p \in Promises, TsfnCallback(p) PROVE FallbackInv'  BY <1>14 DEF TsfnCallback
<1>15. ASSUME NEW p \in Promises, RunQueueCallback(p) PROVE FallbackInv'
  BY <1>15 DEF RunQueueCallback, SettleQueueState
<1>16. ASSUME NEW p \in Promises, LateCallback(p) PROVE FallbackInv'
  BY <1>16 DEF LateCallback, AbandonOnJs
<1>17. ASSUME NEW t \in Threads, NEW p \in Promises, HandlerOnCaller(t, p) PROVE FallbackInv'
  BY <1>17 DEF HandlerOnCaller, BeginComplete
<1>18. ASSUME NEW t \in Threads, NEW p \in Promises, WorkerRunsJob(t, p) PROVE FallbackInv'
  BY <1>18 DEF WorkerRunsJob, BeginComplete
<1>19. CASE SettleOnJs  BY <1>19 DEF SettleOnJs, Return
<1>20. CASE Deliver  BY <1>20 DEF Deliver, Deregister
<1>21. CASE FinishPromise  BY <1>21 DEF FinishPromise, Deregister
<1>22. CASE SettleDrained  BY <1>22 DEF SettleDrained, SettleQueueState
<1>23. CASE DrainDone  BY <1>23 DEF DrainDone
<1>24. CASE TakeQueue  BY <1>24 DEF TakeQueue, JsCode
<1>25. CASE SettleStart  BY <1>25 DEF SettleStart
<1>26. CASE HandlerRegistered  BY <1>26 DEF HandlerRegistered, JsCode
<1>27. CASE HandlerRejected  BY <1>27 DEF HandlerRejected, JsCode, BeginComplete
<1>28. CASE CloseDrain  BY <1>28 DEF CloseDrain, DrainQueuePending
<1>29. CASE CloseQueue  BY <1>29 DEF CloseQueue, AbandonOnJs
<1>30. CASE CloseTakeRegistry  BY <1>30 DEF CloseTakeRegistry
<1>31. CASE CloseRegistry  BY <1>31 DEF CloseRegistry, AbandonOnJs
<1>32. CASE JoinWorkers  BY <1>32 DEF JoinWorkers
<1>33. CASE RegisterQueue  BY <1>33 DEF RegisterQueue, CaptureQueue
<1>34. CASE UnregisterQueue  BY <1>34 DEF UnregisterQueue, DrainQueuePending
<1>35. CASE ScheduleStart  BY <1>35 DEF ScheduleStart, CaptureQueue
<1>36. CASE RunScheduledStart  BY <1>36 DEF RunScheduledStart
<1>37. CASE ShutdownStarting  BY <1>37 DEF ShutdownStarting, DrainQueuePending
<1>38. CASE ShutdownCompleted  BY <1>38 DEF ShutdownCompleted
<1>39. CASE StartReturns  BY <1>39 DEF StartReturns, DrainQueuePending
<1>40. CASE CleanupEnv  BY <1>40 DEF CleanupEnv
<1>41. CASE UnregisterFromMicrotask  BY <1>41 DEF UnregisterFromMicrotask, DrainQueuePending
<1>42. CASE UNCHANGED vars  BY <1>42
<1>43. QED
  BY <1>1, <1>2, <1>3, <1>4, <1>5, <1>6, <1>7, <1>8, <1>9, <1>10, <1>11,
     <1>12, <1>13, <1>14, <1>15, <1>16, <1>17, <1>18, <1>19, <1>20, <1>21,
     <1>22, <1>23, <1>24, <1>25, <1>26, <1>27, <1>28, <1>29, <1>30, <1>31,
     <1>32, <1>33, <1>34, <1>35, <1>36, <1>37, <1>38, <1>39, <1>40, <1>41, <1>42
  DEF Next, CompletionStep, JsStep, Environment, PromiseStep

-----------------------------------------------------------------------------
(* The registry *)

\* The registry holds the unsettled promises, and the event loop with it.
LEMMA RegistryStep == TypeOK /\ ClaimInv /\ CloseInv /\ KnownInv /\ ScopeInv /\ RegistryInv /\ [Next]_vars => RegistryInv'
<1> SUFFICES ASSUME TypeOK, ClaimInv, CloseInv, KnownInv, ScopeInv, RegistryInv, [Next]_vars PROVE RegistryInv'
  OBVIOUS
<1> USE ConstantsAssumption
    DEF Goto, TypeOK, Threads, FlowPCs, JsPCs, Returns, Loops, ClaimInv, Claims, CloseInv, Closing, Closed, KnownInv, ScopeInv, Nested, RegistryInv,
        vars, promiseVars, nodeVars, queueVars, poolVars, loopVars, threadVars, scopeVars
<1>1. ASSUME NEW t \in Threads, Complete(t) PROVE RegistryInv'  BY <1>1 DEF Complete
<1>2. ASSUME NEW t \in Threads, Store(t) PROVE RegistryInv'  BY <1>2 DEF Store, Return
<1>3. ASSUME NEW t \in Threads, Abandon(t) PROVE RegistryInv'  BY <1>3 DEF Abandon, Return
<1>4. ASSUME NEW t \in Threads, Discard(t) PROVE RegistryInv'  BY <1>4 DEF Discard, Return
<1>5. ASSUME NEW t \in Threads, Route(t) PROVE RegistryInv'  BY <1>5 DEF Route
<1>6. ASSUME NEW t \in Threads, Insert(t) PROVE RegistryInv'  BY <1>6 DEF Insert
<1>7. ASSUME NEW t \in Threads, TryEnqueue(t) PROVE RegistryInv'  BY <1>7 DEF TryEnqueue, Return
<1>8. ASSUME NEW t \in Threads, RemovePending(t) PROVE RegistryInv'  BY <1>8 DEF RemovePending
<1>9. ASSUME NEW t \in Threads, QueueFallback(t) PROVE RegistryInv'  BY <1>9 DEF QueueFallback
<1>10. ASSUME NEW t \in Threads, SwapFallbackQueued(t) PROVE RegistryInv'
  BY <1>10 DEF SwapFallbackQueued, Return
<1>11. ASSUME NEW t \in Threads, CallTsfn(t) PROVE RegistryInv'  BY <1>11 DEF CallTsfn, Return
<1>12. ASSUME NEW p \in Promises, ToPromise(p) PROVE RegistryInv'
  <2>1. /\ installed' = installed \cup {p} /\ registry' = registry \cup {p}
        /\ UNCHANGED <<outcome, closing, finishing>> /\ outcome[p] = "pending"
    BY <1>12 DEF ToPromise
  <2>2. ~closing => tsfnRef' = (registry' # {})
    BY <1>12 DEF ToPromise
  <2>3. QED
    BY <2>1, <2>2
<1>13. ASSUME NEW p \in Promises, HandlerOnJs(p) PROVE RegistryInv'
  BY <1>13 DEF HandlerOnJs, BeginComplete
<1>14. ASSUME NEW p \in Promises, TsfnCallback(p) PROVE RegistryInv'  BY <1>14 DEF TsfnCallback
<1>15. ASSUME NEW p \in Promises, RunQueueCallback(p) PROVE RegistryInv'
  BY <1>15 DEF RunQueueCallback, SettleQueueState
<1>16. ASSUME NEW p \in Promises, LateCallback(p) PROVE RegistryInv'
  BY <1>16 DEF LateCallback, AbandonOnJs
<1>17. ASSUME NEW t \in Threads, NEW p \in Promises, HandlerOnCaller(t, p) PROVE RegistryInv'
  BY <1>17 DEF HandlerOnCaller, BeginComplete
<1>18. ASSUME NEW t \in Threads, NEW p \in Promises, WorkerRunsJob(t, p) PROVE RegistryInv'
  BY <1>18 DEF WorkerRunsJob, BeginComplete
<1>19. CASE SettleOnJs  BY <1>19 DEF SettleOnJs, Return
<1>20. CASE Deliver
  <2>1. /\ closing' = closing /\ installed' = installed
        /\ cur[JS] \in installed /\ outcome[cur[JS]] = "pending"
    BY <1>20 DEF Deliver
  <2>2. ~NapiCanFail => outcome'[cur[JS]] # "pending"
    BY <1>20 DEF Deliver
  <2>3. \A p \in Promises \ {cur[JS]} : outcome'[p] = outcome[p]
    BY <1>20 DEF Deliver
  <2>4. CASE finishing = NoPromise
    <3>1. registry' = registry /\ tsfnRef' = tsfnRef /\ finishing' = cur[JS]
      BY <2>4, <1>20 DEF Deliver
    <3>2. QED
      BY <2>1, <2>2, <2>3, <2>4, <3>1
  <2>5. CASE finishing # NoPromise
    <3>1. /\ registry' = registry \ {cur[JS]} /\ finishing' = finishing
      BY <2>5, <1>20 DEF Deliver, Deregister
    <3>2. ~closing => (tsfnRef' = (registry' # {}))
      <4>1. CASE cur[JS] \in registry /\ registry' = {}
        BY <2>5, <1>20, <4>1 DEF Deliver, Deregister
      <4>2. CASE cur[JS] \notin registry
        BY <2>5, <1>20, <3>1, <4>2 DEF Deliver, Deregister
      <4>3. CASE cur[JS] \in registry /\ registry' # {}
        BY <2>5, <1>20, <4>3 DEF Deliver, Deregister
      <4>4. QED
        BY <4>1, <4>2, <4>3
    <3>3. ~closing /\ ~NapiCanFail => /\ outcome[finishing] # "pending" /\ finishing # cur[JS]
                                      /\ outcome'[finishing] # "pending"
      BY <2>1, <2>3, <2>5
    <3>4. ~closing /\ ~NapiCanFail =>
             registry' = {p \in installed' : outcome'[p] = "pending"} \cup ({finishing'} \ {NoPromise})
      BY <2>1, <2>2, <2>3, <3>1, <3>3
    <3>5. QED
      BY <2>1, <3>1, <3>2, <3>3, <3>4
  <2>6. QED
    BY <2>4, <2>5
<1>21. CASE FinishPromise
  <2>1. registry' = registry \ {finishing} /\ UNCHANGED <<installed, outcome, closing>>
    BY <1>21 DEF FinishPromise, Deregister
  <2>2. finishing # NoPromise /\ finishing' = NoPromise
    BY <1>21 DEF FinishPromise, Deregister
  <2>3. ~closing /\ ~NapiCanFail => outcome[finishing] # "pending"
    BY <1>21, <2>2 DEF FinishPromise, Deregister
  <2>4. ~closing => (tsfnRef' = (registry' # {}))
    <3>1. CASE finishing \in registry /\ registry' = {}
      BY <1>21, <3>1 DEF FinishPromise, Deregister
    <3>2. CASE finishing \notin registry
      BY <1>21, <2>1, <3>2 DEF FinishPromise, Deregister
    <3>3. CASE finishing \in registry /\ registry' # {}
      BY <1>21, <3>3 DEF FinishPromise, Deregister
    <3>4. QED
      BY <3>1, <3>2, <3>3
  <2>5. QED
    BY <2>1, <2>2, <2>3, <2>4
<1>22. CASE SettleDrained  BY <1>22 DEF SettleDrained, SettleQueueState
<1>23. CASE DrainDone  BY <1>23 DEF DrainDone
<1>24. CASE TakeQueue  BY <1>24 DEF TakeQueue, JsCode
<1>25. CASE SettleStart  BY <1>25 DEF SettleStart
<1>26. CASE HandlerRegistered  BY <1>26 DEF HandlerRegistered, JsCode
<1>27. CASE HandlerRejected  BY <1>27 DEF HandlerRejected, JsCode, BeginComplete
<1>28. CASE CloseDrain  BY <1>28 DEF CloseDrain, DrainQueuePending
<1>29. CASE CloseQueue  BY <1>29 DEF CloseQueue, AbandonOnJs
<1>30. CASE CloseTakeRegistry  BY <1>30 DEF CloseTakeRegistry
<1>31. CASE CloseRegistry  BY <1>31 DEF CloseRegistry, AbandonOnJs
<1>32. CASE JoinWorkers  BY <1>32 DEF JoinWorkers
<1>33. CASE RegisterQueue  BY <1>33 DEF RegisterQueue, CaptureQueue
<1>34. CASE UnregisterQueue  BY <1>34 DEF UnregisterQueue, DrainQueuePending
<1>35. CASE ScheduleStart  BY <1>35 DEF ScheduleStart, CaptureQueue
<1>36. CASE RunScheduledStart  BY <1>36 DEF RunScheduledStart
<1>37. CASE ShutdownStarting  BY <1>37 DEF ShutdownStarting, DrainQueuePending
<1>38. CASE ShutdownCompleted  BY <1>38 DEF ShutdownCompleted
<1>39. CASE StartReturns  BY <1>39 DEF StartReturns, DrainQueuePending
<1>40. CASE CleanupEnv  BY <1>40 DEF CleanupEnv
<1>41. CASE UnregisterFromMicrotask  BY <1>41 DEF UnregisterFromMicrotask, DrainQueuePending
<1>42. CASE UNCHANGED vars  BY <1>42
<1>43. QED
  BY <1>1, <1>2, <1>3, <1>4, <1>5, <1>6, <1>7, <1>8, <1>9, <1>10, <1>11,
     <1>12, <1>13, <1>14, <1>15, <1>16, <1>17, <1>18, <1>19, <1>20, <1>21,
     <1>22, <1>23, <1>24, <1>25, <1>26, <1>27, <1>28, <1>29, <1>30, <1>31,
     <1>32, <1>33, <1>34, <1>35, <1>36, <1>37, <1>38, <1>39, <1>40, <1>41, <1>42
  DEF Next, CompletionStep, JsStep, Environment, PromiseStep

-----------------------------------------------------------------------------
(* Emptied promises *)

\* A settled promise is emptied under its claim.
LEMMA EmptyStep == TypeOK /\ ClaimInv /\ CloseInv /\ KnownInv /\ EmptyInv /\ [Next]_vars => EmptyInv'
<1> SUFFICES ASSUME TypeOK, ClaimInv, CloseInv, KnownInv, EmptyInv, [Next]_vars PROVE EmptyInv'
  OBVIOUS
<1> USE ConstantsAssumption
    DEF Goto, TypeOK, Threads, FlowPCs, JsPCs, Returns, Loops, ClaimInv, Claims, CloseInv, Closing, Closed, KnownInv, Routed, RoutingPCs, EmptyInv,
        vars, promiseVars, nodeVars, queueVars, poolVars, loopVars, threadVars, scopeVars
<1>1. ASSUME NEW t \in Threads, Complete(t) PROVE EmptyInv'  BY <1>1 DEF Complete
<1>2. ASSUME NEW t \in Threads, Store(t) PROVE EmptyInv'  BY <1>2 DEF Store, Return
<1>3. ASSUME NEW t \in Threads, Abandon(t) PROVE EmptyInv'  BY <1>3 DEF Abandon, Return
<1>4. ASSUME NEW t \in Threads, Discard(t) PROVE EmptyInv'  BY <1>4 DEF Discard, Return
<1>5. ASSUME NEW t \in Threads, Route(t) PROVE EmptyInv'  BY <1>5 DEF Route
<1>6. ASSUME NEW t \in Threads, Insert(t) PROVE EmptyInv'  BY <1>6 DEF Insert
<1>7. ASSUME NEW t \in Threads, TryEnqueue(t) PROVE EmptyInv'  BY <1>7 DEF TryEnqueue, Return
<1>8. ASSUME NEW t \in Threads, RemovePending(t) PROVE EmptyInv'  BY <1>8 DEF RemovePending
<1>9. ASSUME NEW t \in Threads, QueueFallback(t) PROVE EmptyInv'  BY <1>9 DEF QueueFallback
<1>10. ASSUME NEW t \in Threads, SwapFallbackQueued(t) PROVE EmptyInv'
  BY <1>10 DEF SwapFallbackQueued, Return
<1>11. ASSUME NEW t \in Threads, CallTsfn(t) PROVE EmptyInv'  BY <1>11 DEF CallTsfn, Return
<1>12. ASSUME NEW p \in Promises, ToPromise(p) PROVE EmptyInv'  BY <1>12 DEF ToPromise
<1>13. ASSUME NEW p \in Promises, HandlerOnJs(p) PROVE EmptyInv'
  BY <1>13 DEF HandlerOnJs, BeginComplete
<1>14. ASSUME NEW p \in Promises, TsfnCallback(p) PROVE EmptyInv'  BY <1>14 DEF TsfnCallback
<1>15. ASSUME NEW p \in Promises, RunQueueCallback(p) PROVE EmptyInv'
  BY <1>15 DEF RunQueueCallback, SettleQueueState
<1>16. ASSUME NEW p \in Promises, LateCallback(p) PROVE EmptyInv'
  BY <1>16 DEF LateCallback, AbandonOnJs
<1>17. ASSUME NEW t \in Threads, NEW p \in Promises, HandlerOnCaller(t, p) PROVE EmptyInv'
  BY <1>17 DEF HandlerOnCaller, BeginComplete
<1>18. ASSUME NEW t \in Threads, NEW p \in Promises, WorkerRunsJob(t, p) PROVE EmptyInv'
  BY <1>18 DEF WorkerRunsJob, BeginComplete
<1>19. CASE SettleOnJs  BY <1>19 DEF SettleOnJs, Return
<1>20. CASE Deliver  BY <1>20 DEF Deliver, Deregister
<1>21. CASE FinishPromise  BY <1>21 DEF FinishPromise, Deregister
<1>22. CASE SettleDrained  BY <1>22 DEF SettleDrained, SettleQueueState
<1>23. CASE DrainDone  BY <1>23 DEF DrainDone
<1>24. CASE TakeQueue  BY <1>24 DEF TakeQueue, JsCode
<1>25. CASE SettleStart  BY <1>25 DEF SettleStart
<1>26. CASE HandlerRegistered  BY <1>26 DEF HandlerRegistered, JsCode
<1>27. CASE HandlerRejected  BY <1>27 DEF HandlerRejected, JsCode, BeginComplete
<1>28. CASE CloseDrain  BY <1>28 DEF CloseDrain, DrainQueuePending
<1>29. CASE CloseQueue  BY <1>29 DEF CloseQueue, AbandonOnJs
<1>30. CASE CloseTakeRegistry  BY <1>30 DEF CloseTakeRegistry
<1>31. CASE CloseRegistry  BY <1>31 DEF CloseRegistry, AbandonOnJs
<1>32. CASE JoinWorkers  BY <1>32 DEF JoinWorkers
<1>33. CASE RegisterQueue  BY <1>33 DEF RegisterQueue, CaptureQueue
<1>34. CASE UnregisterQueue  BY <1>34 DEF UnregisterQueue, DrainQueuePending
<1>35. CASE ScheduleStart  BY <1>35 DEF ScheduleStart, CaptureQueue
<1>36. CASE RunScheduledStart  BY <1>36 DEF RunScheduledStart
<1>37. CASE ShutdownStarting  BY <1>37 DEF ShutdownStarting, DrainQueuePending
<1>38. CASE ShutdownCompleted  BY <1>38 DEF ShutdownCompleted
<1>39. CASE StartReturns  BY <1>39 DEF StartReturns, DrainQueuePending
<1>40. CASE CleanupEnv  BY <1>40 DEF CleanupEnv
<1>41. CASE UnregisterFromMicrotask  BY <1>41 DEF UnregisterFromMicrotask, DrainQueuePending
<1>42. CASE UNCHANGED vars  BY <1>42
<1>43. QED
  BY <1>1, <1>2, <1>3, <1>4, <1>5, <1>6, <1>7, <1>8, <1>9, <1>10, <1>11,
     <1>12, <1>13, <1>14, <1>15, <1>16, <1>17, <1>18, <1>19, <1>20, <1>21,
     <1>22, <1>23, <1>24, <1>25, <1>26, <1>27, <1>28, <1>29, <1>30, <1>31,
     <1>32, <1>33, <1>34, <1>35, <1>36, <1>37, <1>38, <1>39, <1>40, <1>41, <1>42
  DEF Next, CompletionStep, JsStep, Environment, PromiseStep

-----------------------------------------------------------------------------
(* The teardown claims every promise *)

\* The teardown claims every promise that nobody else did.
LEMMA RetainStep == TypeOK /\ CloseInv /\ KnownInv /\ ClaimInv /\ ScopeInv /\ RetainInv /\ [Next]_vars => RetainInv'
<1> SUFFICES ASSUME TypeOK, CloseInv, KnownInv, ClaimInv, ScopeInv, RetainInv, [Next]_vars PROVE RetainInv'
  OBVIOUS
<1> USE ConstantsAssumption
    DEF Goto, TypeOK, Threads, FlowPCs, JsPCs, Returns, Loops, ClaimInv, Claims, CloseInv, Closing, Closed, TornDown, KnownInv, ScopeInv, Nested, Outer, RetainInv,
        vars, promiseVars, nodeVars, queueVars, poolVars, loopVars, threadVars, scopeVars
<1>1. ASSUME NEW t \in Threads, Complete(t) PROVE RetainInv'  BY <1>1 DEF Complete
<1>2. ASSUME NEW t \in Threads, Store(t) PROVE RetainInv'  BY <1>2 DEF Store, Return
<1>3. ASSUME NEW t \in Threads, Abandon(t) PROVE RetainInv'  BY <1>3 DEF Abandon, Return
<1>4. ASSUME NEW t \in Threads, Discard(t) PROVE RetainInv'  BY <1>4 DEF Discard, Return
<1>5. ASSUME NEW t \in Threads, Route(t) PROVE RetainInv'  BY <1>5 DEF Route
<1>6. ASSUME NEW t \in Threads, Insert(t) PROVE RetainInv'  BY <1>6 DEF Insert
<1>7. ASSUME NEW t \in Threads, TryEnqueue(t) PROVE RetainInv'  BY <1>7 DEF TryEnqueue, Return
<1>8. ASSUME NEW t \in Threads, RemovePending(t) PROVE RetainInv'  BY <1>8 DEF RemovePending
<1>9. ASSUME NEW t \in Threads, QueueFallback(t) PROVE RetainInv'  BY <1>9 DEF QueueFallback
<1>10. ASSUME NEW t \in Threads, SwapFallbackQueued(t) PROVE RetainInv'
  BY <1>10 DEF SwapFallbackQueued, Return
<1>11. ASSUME NEW t \in Threads, CallTsfn(t) PROVE RetainInv'  BY <1>11 DEF CallTsfn, Return
<1>12. ASSUME NEW p \in Promises, ToPromise(p) PROVE RetainInv'  BY <1>12 DEF ToPromise
<1>13. ASSUME NEW p \in Promises, HandlerOnJs(p) PROVE RetainInv'
  BY <1>13 DEF HandlerOnJs, BeginComplete
<1>14. ASSUME NEW p \in Promises, TsfnCallback(p) PROVE RetainInv'  BY <1>14 DEF TsfnCallback
<1>15. ASSUME NEW p \in Promises, RunQueueCallback(p) PROVE RetainInv'
  BY <1>15 DEF RunQueueCallback, SettleQueueState
<1>16. ASSUME NEW p \in Promises, LateCallback(p) PROVE RetainInv'
  BY <1>16 DEF LateCallback, AbandonOnJs
<1>17. ASSUME NEW t \in Threads, NEW p \in Promises, HandlerOnCaller(t, p) PROVE RetainInv'
  BY <1>17 DEF HandlerOnCaller, BeginComplete
<1>18. ASSUME NEW t \in Threads, NEW p \in Promises, WorkerRunsJob(t, p) PROVE RetainInv'
  BY <1>18 DEF WorkerRunsJob, BeginComplete
<1>19. CASE SettleOnJs  BY <1>19 DEF SettleOnJs, Return
<1>20. CASE Deliver  BY <1>20 DEF Deliver, Deregister
<1>21. CASE FinishPromise  BY <1>21 DEF FinishPromise, Deregister
<1>22. CASE SettleDrained  BY <1>22 DEF SettleDrained, SettleQueueState
<1>23. CASE DrainDone  BY <1>23 DEF DrainDone
<1>24. CASE TakeQueue  BY <1>24 DEF TakeQueue, JsCode
<1>25. CASE SettleStart  BY <1>25 DEF SettleStart
<1>26. CASE HandlerRegistered  BY <1>26 DEF HandlerRegistered, JsCode
<1>27. CASE HandlerRejected  BY <1>27 DEF HandlerRejected, JsCode, BeginComplete
<1>28. CASE CloseDrain  BY <1>28 DEF CloseDrain, DrainQueuePending
<1>29. CASE CloseQueue  BY <1>29 DEF CloseQueue, AbandonOnJs
<1>30. CASE CloseTakeRegistry  BY <1>30 DEF CloseTakeRegistry
<1>31. CASE CloseRegistry  BY <1>31 DEF CloseRegistry, AbandonOnJs
<1>32. CASE JoinWorkers  BY <1>32 DEF JoinWorkers
<1>33. CASE RegisterQueue  BY <1>33 DEF RegisterQueue, CaptureQueue
<1>34. CASE UnregisterQueue  BY <1>34 DEF UnregisterQueue, DrainQueuePending
<1>35. CASE ScheduleStart  BY <1>35 DEF ScheduleStart, CaptureQueue
<1>36. CASE RunScheduledStart  BY <1>36 DEF RunScheduledStart
<1>37. CASE ShutdownStarting  BY <1>37 DEF ShutdownStarting, DrainQueuePending
<1>38. CASE ShutdownCompleted  BY <1>38 DEF ShutdownCompleted
<1>39. CASE StartReturns  BY <1>39 DEF StartReturns, DrainQueuePending
<1>40. CASE CleanupEnv  BY <1>40 DEF CleanupEnv
<1>41. CASE UnregisterFromMicrotask  BY <1>41 DEF UnregisterFromMicrotask, DrainQueuePending
<1>42. CASE UNCHANGED vars  BY <1>42
<1>43. QED
  BY <1>1, <1>2, <1>3, <1>4, <1>5, <1>6, <1>7, <1>8, <1>9, <1>10, <1>11,
     <1>12, <1>13, <1>14, <1>15, <1>16, <1>17, <1>18, <1>19, <1>20, <1>21,
     <1>22, <1>23, <1>24, <1>25, <1>26, <1>27, <1>28, <1>29, <1>30, <1>31,
     <1>32, <1>33, <1>34, <1>35, <1>36, <1>37, <1>38, <1>39, <1>40, <1>41, <1>42
  DEF Next, CompletionStep, JsStep, Environment, PromiseStep

-----------------------------------------------------------------------------
(* No completion is lost *)

\* No stored completion is dropped between the routes.
LEMMA LostStep == TypeOK /\ CloseInv /\ ScopeInv /\ TodoInv /\ FallbackInv /\ NoLostCompletion /\ [Next]_vars => NoLostCompletion'
<1> SUFFICES ASSUME TypeOK, CloseInv, ScopeInv, TodoInv, FallbackInv, NoLostCompletion, [Next]_vars PROVE NoLostCompletion'
  OBVIOUS
<1> USE ConstantsAssumption
    DEF Goto, TypeOK, Threads, FlowPCs, JsPCs, Returns, Loops, CloseInv, Closing, Closed, ScopeInv, Nested, TodoInv, Outer, FallbackInv, RoutingPCs, Completed, NoLostCompletion,
        vars, promiseVars, nodeVars, queueVars, poolVars, loopVars, threadVars, scopeVars
<1>1. ASSUME NEW t \in Threads, Complete(t) PROVE NoLostCompletion'  BY <1>1 DEF Complete
<1>2. ASSUME NEW t \in Threads, Store(t) PROVE NoLostCompletion'  BY <1>2 DEF Store, Return
<1>3. ASSUME NEW t \in Threads, Abandon(t) PROVE NoLostCompletion'  BY <1>3 DEF Abandon, Return
<1>4. ASSUME NEW t \in Threads, Discard(t) PROVE NoLostCompletion'  BY <1>4 DEF Discard, Return
<1>5. ASSUME NEW t \in Threads, Route(t) PROVE NoLostCompletion'  BY <1>5 DEF Route
<1>6. ASSUME NEW t \in Threads, Insert(t) PROVE NoLostCompletion'  BY <1>6 DEF Insert
<1>7. ASSUME NEW t \in Threads, TryEnqueue(t) PROVE NoLostCompletion'  BY <1>7 DEF TryEnqueue, Return
<1>8. ASSUME NEW t \in Threads, RemovePending(t) PROVE NoLostCompletion'  BY <1>8 DEF RemovePending
<1>9. ASSUME NEW t \in Threads, QueueFallback(t) PROVE NoLostCompletion'  BY <1>9 DEF QueueFallback
<1>10. ASSUME NEW t \in Threads, SwapFallbackQueued(t) PROVE NoLostCompletion'
  BY <1>10 DEF SwapFallbackQueued, Return
<1>11. ASSUME NEW t \in Threads, CallTsfn(t) PROVE NoLostCompletion'  BY <1>11 DEF CallTsfn, Return
<1>12. ASSUME NEW p \in Promises, ToPromise(p) PROVE NoLostCompletion'  BY <1>12 DEF ToPromise
<1>13. ASSUME NEW p \in Promises, HandlerOnJs(p) PROVE NoLostCompletion'
  BY <1>13 DEF HandlerOnJs, BeginComplete
<1>14. ASSUME NEW p \in Promises, TsfnCallback(p) PROVE NoLostCompletion'  BY <1>14 DEF TsfnCallback
<1>15. ASSUME NEW p \in Promises, RunQueueCallback(p) PROVE NoLostCompletion'
  BY <1>15 DEF RunQueueCallback, SettleQueueState
<1>16. ASSUME NEW p \in Promises, LateCallback(p) PROVE NoLostCompletion'
  BY <1>16 DEF LateCallback, AbandonOnJs
<1>17. ASSUME NEW t \in Threads, NEW p \in Promises, HandlerOnCaller(t, p) PROVE NoLostCompletion'
  BY <1>17 DEF HandlerOnCaller, BeginComplete
<1>18. ASSUME NEW t \in Threads, NEW p \in Promises, WorkerRunsJob(t, p) PROVE NoLostCompletion'
  BY <1>18 DEF WorkerRunsJob, BeginComplete
<1>19. CASE SettleOnJs  BY <1>19 DEF SettleOnJs, Return
<1>20. CASE Deliver  BY <1>20 DEF Deliver, Deregister
<1>21. CASE FinishPromise  BY <1>21 DEF FinishPromise, Deregister
<1>22. CASE SettleDrained  BY <1>22 DEF SettleDrained, SettleQueueState
<1>23. CASE DrainDone  BY <1>23 DEF DrainDone
<1>24. CASE TakeQueue  BY <1>24 DEF TakeQueue, JsCode
<1>25. CASE SettleStart  BY <1>25 DEF SettleStart
<1>26. CASE HandlerRegistered  BY <1>26 DEF HandlerRegistered, JsCode
<1>27. CASE HandlerRejected  BY <1>27 DEF HandlerRejected, JsCode, BeginComplete
<1>28. CASE CloseDrain  BY <1>28 DEF CloseDrain, DrainQueuePending
<1>29. CASE CloseQueue  BY <1>29 DEF CloseQueue, AbandonOnJs
<1>30. CASE CloseTakeRegistry  BY <1>30 DEF CloseTakeRegistry
<1>31. CASE CloseRegistry  BY <1>31 DEF CloseRegistry, AbandonOnJs
<1>32. CASE JoinWorkers  BY <1>32 DEF JoinWorkers
<1>33. CASE RegisterQueue  BY <1>33 DEF RegisterQueue, CaptureQueue
<1>34. CASE UnregisterQueue  BY <1>34 DEF UnregisterQueue, DrainQueuePending
<1>35. CASE ScheduleStart  BY <1>35 DEF ScheduleStart, CaptureQueue
<1>36. CASE RunScheduledStart  BY <1>36 DEF RunScheduledStart
<1>37. CASE ShutdownStarting  BY <1>37 DEF ShutdownStarting, DrainQueuePending
<1>38. CASE ShutdownCompleted  BY <1>38 DEF ShutdownCompleted
<1>39. CASE StartReturns  BY <1>39 DEF StartReturns, DrainQueuePending
<1>40. CASE CleanupEnv  BY <1>40 DEF CleanupEnv
<1>41. CASE UnregisterFromMicrotask  BY <1>41 DEF UnregisterFromMicrotask, DrainQueuePending
<1>42. CASE UNCHANGED vars  BY <1>42
<1>43. QED
  BY <1>1, <1>2, <1>3, <1>4, <1>5, <1>6, <1>7, <1>8, <1>9, <1>10, <1>11,
     <1>12, <1>13, <1>14, <1>15, <1>16, <1>17, <1>18, <1>19, <1>20, <1>21,
     <1>22, <1>23, <1>24, <1>25, <1>26, <1>27, <1>28, <1>29, <1>30, <1>31,
     <1>32, <1>33, <1>34, <1>35, <1>36, <1>37, <1>38, <1>39, <1>40, <1>41, <1>42
  DEF Next, CompletionStep, JsStep, Environment, PromiseStep

-----------------------------------------------------------------------------
(* No operation is lost *)

\* An operation that was taken is completed by somebody.
LEMMA CarriedStep == TypeOK /\ ClaimInv /\ CloseInv /\ RouteInv /\ KnownInv /\ EmptyInv /\ OperationCarried /\ [Next]_vars => OperationCarried'
<1> SUFFICES ASSUME TypeOK, ClaimInv, CloseInv, RouteInv, KnownInv, EmptyInv, OperationCarried, [Next]_vars PROVE OperationCarried'
  OBVIOUS
<1> USE ConstantsAssumption
    DEF Goto, TypeOK, Threads, FlowPCs, JsPCs, Returns, Loops, ClaimInv, Claims, CloseInv, Closing, Closed,
        RouteInv, KnownInv, EmptyInv, OperationCarried,
        vars, promiseVars, nodeVars, queueVars, poolVars, loopVars, threadVars, scopeVars
<1>1. ASSUME NEW t \in Threads, Complete(t) PROVE OperationCarried'  BY <1>1 DEF Complete
<1>2. ASSUME NEW t \in Threads, Store(t) PROVE OperationCarried'  BY <1>2 DEF Store, Return
<1>3. ASSUME NEW t \in Threads, Abandon(t) PROVE OperationCarried'  BY <1>3 DEF Abandon, Return
<1>4. ASSUME NEW t \in Threads, Discard(t) PROVE OperationCarried'  BY <1>4 DEF Discard, Return
<1>5. ASSUME NEW t \in Threads, Route(t) PROVE OperationCarried'  BY <1>5 DEF Route
<1>6. ASSUME NEW t \in Threads, Insert(t) PROVE OperationCarried'  BY <1>6 DEF Insert
<1>7. ASSUME NEW t \in Threads, TryEnqueue(t) PROVE OperationCarried'  BY <1>7 DEF TryEnqueue, Return
<1>8. ASSUME NEW t \in Threads, RemovePending(t) PROVE OperationCarried'  BY <1>8 DEF RemovePending
<1>9. ASSUME NEW t \in Threads, QueueFallback(t) PROVE OperationCarried'  BY <1>9 DEF QueueFallback
<1>10. ASSUME NEW t \in Threads, SwapFallbackQueued(t) PROVE OperationCarried'
  BY <1>10 DEF SwapFallbackQueued, Return
<1>11. ASSUME NEW t \in Threads, CallTsfn(t) PROVE OperationCarried'  BY <1>11 DEF CallTsfn, Return
<1>12. ASSUME NEW p \in Promises, ToPromise(p) PROVE OperationCarried'  BY <1>12 DEF ToPromise
<1>13. ASSUME NEW p \in Promises, HandlerOnJs(p) PROVE OperationCarried'
  BY <1>13 DEF HandlerOnJs, BeginComplete
<1>14. ASSUME NEW p \in Promises, TsfnCallback(p) PROVE OperationCarried'  BY <1>14 DEF TsfnCallback
<1>15. ASSUME NEW p \in Promises, RunQueueCallback(p) PROVE OperationCarried'
  BY <1>15 DEF RunQueueCallback, SettleQueueState
<1>16. ASSUME NEW p \in Promises, LateCallback(p) PROVE OperationCarried'
  BY <1>16 DEF LateCallback, AbandonOnJs
<1>17. ASSUME NEW t \in Threads, NEW p \in Promises, HandlerOnCaller(t, p) PROVE OperationCarried'
  BY <1>17 DEF HandlerOnCaller, BeginComplete
<1>18. ASSUME NEW t \in Threads, NEW p \in Promises, WorkerRunsJob(t, p) PROVE OperationCarried'
  BY <1>18 DEF WorkerRunsJob, BeginComplete
<1>19. CASE SettleOnJs  BY <1>19 DEF SettleOnJs, Return
<1>20. CASE Deliver  BY <1>20 DEF Deliver, Deregister
<1>21. CASE FinishPromise  BY <1>21 DEF FinishPromise, Deregister
<1>22. CASE SettleDrained  BY <1>22 DEF SettleDrained, SettleQueueState
<1>23. CASE DrainDone  BY <1>23 DEF DrainDone
<1>24. CASE TakeQueue  BY <1>24 DEF TakeQueue, JsCode
<1>25. CASE SettleStart  BY <1>25 DEF SettleStart
<1>26. CASE HandlerRegistered  BY <1>26 DEF HandlerRegistered, JsCode
<1>27. CASE HandlerRejected  BY <1>27 DEF HandlerRejected, JsCode, BeginComplete
<1>28. CASE CloseDrain  BY <1>28 DEF CloseDrain, DrainQueuePending
<1>29. CASE CloseQueue  BY <1>29 DEF CloseQueue, AbandonOnJs
<1>30. CASE CloseTakeRegistry  BY <1>30 DEF CloseTakeRegistry
<1>31. CASE CloseRegistry  BY <1>31 DEF CloseRegistry, AbandonOnJs
<1>32. CASE JoinWorkers  BY <1>32 DEF JoinWorkers
<1>33. CASE RegisterQueue  BY <1>33 DEF RegisterQueue, CaptureQueue
<1>34. CASE UnregisterQueue  BY <1>34 DEF UnregisterQueue, DrainQueuePending
<1>35. CASE ScheduleStart  BY <1>35 DEF ScheduleStart, CaptureQueue
<1>36. CASE RunScheduledStart  BY <1>36 DEF RunScheduledStart
<1>37. CASE ShutdownStarting  BY <1>37 DEF ShutdownStarting, DrainQueuePending
<1>38. CASE ShutdownCompleted  BY <1>38 DEF ShutdownCompleted
<1>39. CASE StartReturns  BY <1>39 DEF StartReturns, DrainQueuePending
<1>40. CASE CleanupEnv  BY <1>40 DEF CleanupEnv
<1>41. CASE UnregisterFromMicrotask  BY <1>41 DEF UnregisterFromMicrotask, DrainQueuePending
<1>42. CASE UNCHANGED vars  BY <1>42
<1>43. QED
  BY <1>1, <1>2, <1>3, <1>4, <1>5, <1>6, <1>7, <1>8, <1>9, <1>10, <1>11,
     <1>12, <1>13, <1>14, <1>15, <1>16, <1>17, <1>18, <1>19, <1>20, <1>21,
     <1>22, <1>23, <1>24, <1>25, <1>26, <1>27, <1>28, <1>29, <1>30, <1>31,
     <1>32, <1>33, <1>34, <1>35, <1>36, <1>37, <1>38, <1>39, <1>40, <1>41, <1>42
  DEF Next, CompletionStep, JsStep, Environment, PromiseStep

-----------------------------------------------------------------------------
(* The inductive invariant *)

\* The initial states satisfy the inductive invariant.
LEMMA InductiveInit == Init => Inductive /\ NoLostCompletion /\ OperationCarried
<1> SUFFICES ASSUME Init PROVE Inductive /\ NoLostCompletion /\ OperationCarried
  OBVIOUS
<1> USE ConstantsAssumption DEF Init, Threads
<1>1. TypeOK
  <2>1. tsfnRef \in BOOLEAN /\ closing \in BOOLEAN /\ dqOwned \in BOOLEAN
    BY Zenon
  <2>2. QED
    BY <2>1 DEF TypeOK, Results, Returns, Loops, FlowPCs, JsPCs
<1>2. ClaimInv
  BY DEF ClaimInv, Claims
<1>3. Closing = FALSE /\ Closed = FALSE
  BY DEF Closing, Closed
<1>4. RouteInv /\ CloseInv /\ EmptyInv  BY <1>3 DEF RouteInv, CloseInv, EmptyInv, Routed, RoutingPCs
<1>5. KnownInv /\ ScopeInv /\ AbandonInv
  BY DEF KnownInv, ScopeInv, Nested, AbandonInv, FlowPCs
<1>6. TodoInv /\ FallbackInv /\ RegistryInv
  BY DEF TodoInv, FallbackInv, RegistryInv
<1>7. RetainInv /\ NoLostCompletion /\ OperationCarried
  BY DEF RetainInv, TornDown, Closed, NoLostCompletion, Completed, OperationCarried
<1>8. QED
  BY <1>1, <1>2, <1>4, <1>5, <1>6, <1>7 DEF Inductive

\* Every step preserves it.
LEMMA InductiveStep ==
    Inductive /\ NoLostCompletion /\ OperationCarried /\ [Next]_vars
       => Inductive' /\ NoLostCompletion' /\ OperationCarried'
  BY TypeStep, ClaimStep, CloseStep, RouteStep, KnownStep, ScopeStep, AbandonStep, TodoStep,
     FallbackStep, RegistryStep, EmptyStep, RetainStep, LostStep,
     CarriedStep
  DEF Inductive

\* It holds in every reachable state.
LEMMA InductiveInvariant == Spec => []Inductive /\ []NoLostCompletion /\ []OperationCarried
<1>1. Spec => [](Inductive /\ NoLostCompletion /\ OperationCarried)
  BY InductiveInit, InductiveStep, PTL DEF Spec
<1>2. QED
  BY <1>1, PTL

-----------------------------------------------------------------------------
(* The properties *)

\* Every variable keeps its type, every thread its place: only JS runs JavaScript
\* and settlement code, and promise code always has a promise.
THEOREM TypeCorrect == Spec => []TypeOK
<1>1. Inductive => TypeOK
  BY DEF Inductive
<1>2. QED
  BY <1>1, InductiveInvariant, PTL

\* A deferred is resolved or rejected at most once, however its settlement was
\* routed and whatever races with it.
THEOREM SettledOnce == Spec => []SettleOnce
<1>1. Inductive => SettleOnce
  BY DEF Inductive, ClaimInv, SettleOnce
<1>2. QED
  BY <1>1, InductiveInvariant, PTL

\* Whoever claims a promise on JS finds its completion.
THEOREM ResultIsThere == Spec => []DeliveredHasResult
<1>1. Inductive => DeliveredHasResult
  BY DEF Inductive, RouteInv, DeliveredHasResult
<1>2. QED
  BY <1>1, InductiveInvariant, PTL

\* A stored completion stays with a thread or with a queue until it is claimed.
THEOREM CompletionsKept == Spec => []NoLostCompletion
BY InductiveInvariant, PTL

\* An operation that was taken out of its promise is collected and completed, also when
\* no worker takes it: it is never dropped on the way to its completion.
THEOREM OperationsCarried == Spec => []OperationCarried
BY InductiveInvariant, PTL

\* The event loop is referenced exactly while a promise is unsettled.
THEOREM LoopKeptAlive == Spec => []LoopAliveWhilePending
<1>1. Inductive => LoopAliveWhilePending
  BY ConstantsAssumption DEF Inductive, TypeOK, RegistryInv, KnownInv, LoopAliveWhilePending
<1>2. QED
  BY <1>1, InductiveInvariant, PTL

\* A closed environment retains no operation and no result.
THEOREM NothingRetained == Spec => []ClosedRetainsNothing
<1>1. Inductive => ClosedRetainsNothing
  <2> SUFFICES ASSUME Inductive, pc[JS] = "closed", \A t \in Callers : pc[t] = "idle"
               PROVE  op = {} /\ (\A p \in Promises : result[p] = "none") /\ installed \subseteq settled
    BY DEF ClosedRetainsNothing
  <2> USE DEF Inductive
  <2>1. tsfn = "released" /\ Closed
    BY DEF CloseInv, Closed
  <2>2. \A t \in Threads : ~Claims(t)  BY <2>1 DEF CloseInv, Threads, Claims
  <2>3. installed \subseteq settled  BY <2>1 DEF RetainInv, TornDown, Outer, KnownInv, ScopeInv, Nested, FlowPCs
  <2>4. QED
    BY <2>2, <2>3 DEF EmptyInv, KnownInv, TypeOK
<1>2. QED
  BY <1>1, InductiveInvariant, PTL

-----------------------------------------------------------------------------
(* The abstract specification *)

\* One promise moves from one phase to another.
LEMMA AbstractMove ==
    ASSUME NEW p \in Promises, NEW from, NEW to,
           Phase(p) = from, Phase(p)' = to,
           \A q \in Promises \ {p} : Phase(q)' = Phase(q)
    PROVE  Promise!Move(p, from, to)
BY DEF Promise!Move

\* A promise that is created while the environment is open.
LEMMA AbstractCreate ==
    ASSUME NEW p \in Promises, ~closing, closing' = closing,
           Phase(p) = "new", Phase(p)' = "pending",
           \A q \in Promises \ {p} : Phase(q)' = Phase(q)
    PROVE  Promise!Next
<1>1. Promise!Move(p, "new", "pending")
  BY AbstractMove
<1>2. Promise!Create(p)
  BY <1>1 DEF Promise!Create
<1>3. QED
  BY <1>2 DEF Promise!Next

\* A promise that is settled while the environment is open.
LEMMA AbstractFulfil ==
    ASSUME NEW p \in Promises, ~closing, closing' = closing,
           Phase(p) = "pending", Phase(p)' \in {"resolved", "rejected"},
           \A q \in Promises \ {p} : Phase(q)' = Phase(q)
    PROVE  Promise!Next
<1>1. Promise!Move(p, "pending", "resolved") \/ Promise!Move(p, "pending", "rejected")
  BY AbstractMove
<1>2. Promise!Fulfil(p)
  BY <1>1 DEF Promise!Fulfil
<1>3. QED
  BY <1>2 DEF Promise!Next

\* A promise that is dropped by the teardown or a failing Node-API call.
LEMMA AbstractAbandon ==
    ASSUME NEW p \in Promises, closing \/ NapiCanFail, closing' = closing,
           Phase(p) = "pending", Phase(p)' = "abandoned",
           \A q \in Promises \ {p} : Phase(q)' = Phase(q)
    PROVE  Promise!Next
<1>1. Promise!Move(p, "pending", "abandoned")
  BY AbstractMove
<1>2. Promise!Abandon(p)
  BY <1>1 DEF Promise!Abandon
<1>3. QED
  BY <1>2 DEF Promise!Next

\* The dispatcher implements the promise lifecycle of PromiseSpec: a promise is settled
\* at most once and only while its environment is open, and is dropped only by the
\* teardown or a failing Node-API call.
THEOREM Refinement == Spec => ImplementsPromiseSpec
<1>1. Init => Promise!Init
  BY DEF Init, Promise!Init, Phase
<1>2. Inductive /\ [Next]_vars => [Promise!Next]_(Promise!vars)
  <2> SUFFICES ASSUME Inductive, [Next]_vars PROVE [Promise!Next]_(Promise!vars)
    OBVIOUS
  <2> USE ConstantsAssumption
      DEF Goto, Inductive, TypeOK, Threads, FlowPCs, JsPCs, ClaimInv, Claims, KnownInv,
          AbandonInv, CloseInv, Closing, Closed, Loops,
          vars, promiseVars, nodeVars, queueVars, poolVars, loopVars, threadVars, scopeVars
  <2>1. ASSUME NEW t \in Threads, Complete(t) PROVE [Promise!Next]_(Promise!vars)
    BY <2>1 DEF Phase, Promise!vars, Complete
  <2>2. ASSUME NEW t \in Threads, Store(t) PROVE [Promise!Next]_(Promise!vars)
    BY <2>2 DEF Phase, Promise!vars, Store, Return
  <2>3. ASSUME NEW t \in Threads, Abandon(t) PROVE [Promise!Next]_(Promise!vars)
    <3>1. CASE cur[t] \in settled
      BY <2>3, <3>1 DEF Abandon, Return, Phase, Promise!vars
    <3>2. CASE cur[t] \notin settled
      <4>1. PICK p \in Promises : p = cur[t]
        BY <2>3 DEF Abandon
      <4>2. /\ Phase(p) = "pending" /\ Phase(p)' = "abandoned"
            /\ \A q \in Promises \ {p} : Phase(q)' = Phase(q)
        BY <2>3, <3>2, <4>1 DEF Abandon, Phase
      <4>3. (closing \/ NapiCanFail) /\ closing' = closing
        BY <2>3 DEF Abandon
      <4>4. QED
        BY <4>2, <4>3, AbstractAbandon
    <3>3. QED
      BY <3>1, <3>2
  <2>4. ASSUME NEW t \in Threads, Discard(t) PROVE [Promise!Next]_(Promise!vars)
    BY <2>4 DEF Phase, Promise!vars, Discard, Return
  <2>5. ASSUME NEW t \in Threads, Route(t) PROVE [Promise!Next]_(Promise!vars)
    BY <2>5 DEF Phase, Promise!vars, Route
  <2>6. ASSUME NEW t \in Threads, Insert(t) PROVE [Promise!Next]_(Promise!vars)
    BY <2>6 DEF Phase, Promise!vars, Insert
  <2>7. ASSUME NEW t \in Threads, TryEnqueue(t) PROVE [Promise!Next]_(Promise!vars)
    BY <2>7 DEF Phase, Promise!vars, TryEnqueue, Return
  <2>8. ASSUME NEW t \in Threads, RemovePending(t) PROVE [Promise!Next]_(Promise!vars)
    BY <2>8 DEF Phase, Promise!vars, RemovePending
  <2>9. ASSUME NEW t \in Threads, QueueFallback(t) PROVE [Promise!Next]_(Promise!vars)
    BY <2>9 DEF Phase, Promise!vars, QueueFallback
  <2>10. ASSUME NEW t \in Threads, SwapFallbackQueued(t) PROVE [Promise!Next]_(Promise!vars)
    BY <2>10 DEF Phase, Promise!vars, SwapFallbackQueued, Return
  <2>11. ASSUME NEW t \in Threads, CallTsfn(t) PROVE [Promise!Next]_(Promise!vars)
    BY <2>11 DEF Phase, Promise!vars, CallTsfn, Return
  <2>12. ASSUME NEW p \in Promises, ToPromise(p) PROVE [Promise!Next]_(Promise!vars)
    <3>1. /\ Phase(p) = "new" /\ Phase(p)' = "pending"
          /\ \A q \in Promises \ {p} : Phase(q)' = Phase(q)
      BY <2>12 DEF ToPromise, Phase
    <3>2. ~closing /\ closing' = closing
      BY <2>12 DEF ToPromise
    <3>3. QED
      BY <3>1, <3>2, AbstractCreate
  <2>13. ASSUME NEW p \in Promises, HandlerOnJs(p) PROVE [Promise!Next]_(Promise!vars)
    BY <2>13 DEF Phase, Promise!vars, HandlerOnJs, BeginComplete
  <2>14. ASSUME NEW p \in Promises, TsfnCallback(p) PROVE [Promise!Next]_(Promise!vars)
    BY <2>14 DEF Phase, Promise!vars, TsfnCallback
  <2>15. ASSUME NEW p \in Promises, RunQueueCallback(p) PROVE [Promise!Next]_(Promise!vars)
    BY <2>15 DEF Phase, Promise!vars, RunQueueCallback, SettleQueueState
  <2>16. ASSUME NEW p \in Promises, LateCallback(p) PROVE [Promise!Next]_(Promise!vars)
    BY <2>16 DEF Phase, Promise!vars, LateCallback, AbandonOnJs
  <2>17. ASSUME NEW t \in Threads, NEW p \in Promises, HandlerOnCaller(t, p) PROVE [Promise!Next]_(Promise!vars)
    BY <2>17 DEF Phase, Promise!vars, HandlerOnCaller, BeginComplete
  <2>18. ASSUME NEW t \in Threads, NEW p \in Promises, WorkerRunsJob(t, p) PROVE [Promise!Next]_(Promise!vars)
    BY <2>18 DEF Phase, Promise!vars, WorkerRunsJob, BeginComplete
  <2>19. CASE SettleOnJs  BY <2>19 DEF Phase, Promise!vars, SettleOnJs, Return
  <2>20. CASE Deliver
    <3>1. PICK p \in Promises : p = cur[JS]
      BY <2>20 DEF Deliver, Deregister
    <3>2. /\ Phase(p) = "pending"
          /\ \A q \in Promises \ {p} : Phase(q)' = Phase(q)
      BY <2>20, <3>1 DEF Deliver, Deregister, Phase
    <3>3. /\ p \in installed' /\ p \in settled' /\ pc'[JS] # "deliver"
          /\ \/ outcome'[p] \in {"resolved", "rejected"}
             \/ NapiCanFail /\ outcome'[p] = "pending"
      BY <2>20, <3>1 DEF Deliver, Deregister
    <3>4. \/ Phase(p)' \in {"resolved", "rejected"}
          \/ NapiCanFail /\ Phase(p)' = "abandoned"
      BY <3>3 DEF Phase
    <3>5. ~closing /\ closing' = closing
      BY <2>20 DEF Deliver, Deregister
    <3>6. QED
      BY <3>2, <3>4, <3>5, AbstractFulfil, AbstractAbandon
  <2>21. CASE FinishPromise
    <3>1. \A q \in Promises : Phase(q)' = Phase(q)
      BY <2>21 DEF FinishPromise, Deregister, Phase
    <3>2. closing' = closing
      BY <2>21 DEF FinishPromise, Deregister
    <3>3. QED
      BY <3>1, <3>2 DEF Promise!vars
  <2>22. CASE SettleDrained  BY <2>22 DEF Phase, Promise!vars, SettleDrained, SettleQueueState
  <2>23. CASE DrainDone  BY <2>23 DEF Phase, Promise!vars, DrainDone
  <2>24. CASE TakeQueue  BY <2>24 DEF Phase, Promise!vars, TakeQueue, JsCode
  <2>25. CASE SettleStart  BY <2>25 DEF Phase, Promise!vars, SettleStart
  <2>26. CASE HandlerRegistered  BY <2>26 DEF Phase, Promise!vars, HandlerRegistered, JsCode
  <2>27. CASE HandlerRejected  BY <2>27 DEF Phase, Promise!vars, HandlerRejected, JsCode, BeginComplete
  <2>28. CASE CloseDrain  BY <2>28 DEF Phase, Promise!vars, CloseDrain, DrainQueuePending
  <2>29. CASE CloseQueue  BY <2>29 DEF Phase, Promise!vars, CloseQueue, AbandonOnJs
  <2>30. CASE CloseTakeRegistry  BY <2>30 DEF Phase, Promise!vars, CloseTakeRegistry
  <2>31. CASE CloseRegistry  BY <2>31 DEF Phase, Promise!vars, CloseRegistry, AbandonOnJs
  <2>32. CASE JoinWorkers  BY <2>32 DEF Phase, Promise!vars, JoinWorkers
  <2>33. CASE RegisterQueue  BY <2>33 DEF Phase, Promise!vars, RegisterQueue, CaptureQueue
  <2>34. CASE UnregisterQueue  BY <2>34 DEF Phase, Promise!vars, UnregisterQueue, DrainQueuePending
  <2>35. CASE ScheduleStart  BY <2>35 DEF Phase, Promise!vars, ScheduleStart, CaptureQueue
  <2>36. CASE RunScheduledStart  BY <2>36 DEF Phase, Promise!vars, RunScheduledStart
  <2>37. CASE ShutdownStarting  BY <2>37 DEF Phase, Promise!vars, ShutdownStarting, DrainQueuePending
  <2>38. CASE ShutdownCompleted  BY <2>38 DEF Phase, Promise!vars, ShutdownCompleted
  <2>39. CASE StartReturns  BY <2>39 DEF Phase, Promise!vars, StartReturns, DrainQueuePending
  <2>40. CASE CleanupEnv
    <3>1. \A q \in Promises : Phase(q)' = Phase(q)
      BY <2>40 DEF CleanupEnv, Phase
    <3>2. ~closing /\ closing'
      BY <2>40 DEF CleanupEnv
    <3>3. QED
      BY <3>1, <3>2 DEF Promise!Next, Promise!Close
  <2>41. CASE UnregisterFromMicrotask  BY <2>41 DEF Phase, Promise!vars, UnregisterFromMicrotask, DrainQueuePending
  <2>42. CASE UNCHANGED vars  BY <2>42 DEF Phase, Promise!vars
  <2>43. QED
    BY <2>1, <2>2, <2>3, <2>4, <2>5, <2>6, <2>7, <2>8, <2>9, <2>10, <2>11,
       <2>12, <2>13, <2>14, <2>15, <2>16, <2>17, <2>18, <2>19, <2>20, <2>21,
       <2>22, <2>23, <2>24, <2>25, <2>26, <2>27, <2>28, <2>29, <2>30, <2>31,
       <2>32, <2>33, <2>34, <2>35, <2>36, <2>37, <2>38, <2>39, <2>40, <2>41, <2>42
    DEF Phase, Promise!vars, Next, CompletionStep, JsStep, Environment, PromiseStep
<1>3. QED
  BY <1>1, <1>2, InductiveInvariant, PTL DEF Spec, ImplementsPromiseSpec, Promise!Spec

-----------------------------------------------------------------------------
(* The first completion *)

\* A stored completion is never overwritten, and none is stored for a claimed promise.
THEOREM FirstWins == Spec => FirstCompletionWins
<1> DEFINE Kept == \A p \in Promises :
                      /\ result[p] # "none" => result'[p] \in {result[p], "none"}
                      /\ result[p] = "none" /\ p \in settled => result'[p] = "none"
<1>1. TypeOK /\ [Next]_vars => [Kept]_vars
  <2> SUFFICES ASSUME TypeOK, [Next]_vars PROVE Kept
    OBVIOUS
  <2> USE ConstantsAssumption
      DEF TypeOK, Threads, FlowPCs, JsPCs,
          vars, promiseVars, nodeVars, queueVars, poolVars, loopVars, threadVars, scopeVars
  <2>1. ASSUME NEW t \in Threads, Complete(t) PROVE Kept  BY <2>1 DEF Complete
  <2>2. ASSUME NEW t \in Threads, Store(t) PROVE Kept  BY <2>2 DEF Store, Return
  <2>3. ASSUME NEW t \in Threads, Abandon(t) PROVE Kept  BY <2>3 DEF Abandon, Return
  <2>4. ASSUME NEW t \in Threads, Discard(t) PROVE Kept  BY <2>4 DEF Discard, Return
  <2>5. ASSUME NEW t \in Threads, Route(t) PROVE Kept  BY <2>5 DEF Route
  <2>6. ASSUME NEW t \in Threads, Insert(t) PROVE Kept  BY <2>6 DEF Insert
  <2>7. ASSUME NEW t \in Threads, TryEnqueue(t) PROVE Kept  BY <2>7 DEF TryEnqueue, Return
  <2>8. ASSUME NEW t \in Threads, RemovePending(t) PROVE Kept  BY <2>8 DEF RemovePending
  <2>9. ASSUME NEW t \in Threads, QueueFallback(t) PROVE Kept  BY <2>9 DEF QueueFallback
  <2>10. ASSUME NEW t \in Threads, SwapFallbackQueued(t) PROVE Kept
    BY <2>10 DEF SwapFallbackQueued, Return
  <2>11. ASSUME NEW t \in Threads, CallTsfn(t) PROVE Kept  BY <2>11 DEF CallTsfn, Return
  <2>12. ASSUME NEW p \in Promises, ToPromise(p) PROVE Kept  BY <2>12 DEF ToPromise
  <2>13. ASSUME NEW p \in Promises, HandlerOnJs(p) PROVE Kept  BY <2>13 DEF HandlerOnJs, BeginComplete
  <2>14. ASSUME NEW p \in Promises, TsfnCallback(p) PROVE Kept  BY <2>14 DEF TsfnCallback
  <2>15. ASSUME NEW p \in Promises, RunQueueCallback(p) PROVE Kept
    BY <2>15 DEF RunQueueCallback, SettleQueueState
  <2>16. ASSUME NEW p \in Promises, LateCallback(p) PROVE Kept  BY <2>16 DEF LateCallback, AbandonOnJs
  <2>17. ASSUME NEW t \in Threads, NEW p \in Promises, HandlerOnCaller(t, p) PROVE Kept
    BY <2>17 DEF HandlerOnCaller, BeginComplete
  <2>18. ASSUME NEW t \in Threads, NEW p \in Promises, WorkerRunsJob(t, p) PROVE Kept
    BY <2>18 DEF WorkerRunsJob, BeginComplete
  <2>19. CASE SettleOnJs  BY <2>19 DEF SettleOnJs, Return
  <2>20. CASE Deliver  BY <2>20 DEF Deliver, Deregister
  <2>21. CASE FinishPromise  BY <2>21 DEF FinishPromise, Deregister
  <2>22. CASE SettleDrained  BY <2>22 DEF SettleDrained, SettleQueueState
  <2>23. CASE DrainDone  BY <2>23 DEF DrainDone
  <2>24. CASE TakeQueue  BY <2>24 DEF TakeQueue, JsCode
  <2>25. CASE SettleStart  BY <2>25 DEF SettleStart
  <2>26. CASE HandlerRegistered  BY <2>26 DEF HandlerRegistered, JsCode
  <2>27. CASE HandlerRejected  BY <2>27 DEF HandlerRejected, JsCode, BeginComplete
  <2>28. CASE CloseDrain  BY <2>28 DEF CloseDrain, DrainQueuePending
  <2>29. CASE CloseQueue  BY <2>29 DEF CloseQueue, AbandonOnJs
  <2>30. CASE CloseTakeRegistry  BY <2>30 DEF CloseTakeRegistry
  <2>31. CASE CloseRegistry  BY <2>31 DEF CloseRegistry, AbandonOnJs
  <2>32. CASE JoinWorkers  BY <2>32 DEF JoinWorkers
  <2>33. CASE RegisterQueue  BY <2>33 DEF RegisterQueue, CaptureQueue
  <2>34. CASE UnregisterQueue  BY <2>34 DEF UnregisterQueue, DrainQueuePending
  <2>35. CASE ScheduleStart  BY <2>35 DEF ScheduleStart, CaptureQueue
  <2>36. CASE RunScheduledStart  BY <2>36 DEF RunScheduledStart
  <2>37. CASE ShutdownStarting  BY <2>37 DEF ShutdownStarting, DrainQueuePending
  <2>38. CASE ShutdownCompleted  BY <2>38 DEF ShutdownCompleted
  <2>39. CASE StartReturns  BY <2>39 DEF StartReturns, DrainQueuePending
  <2>40. CASE CleanupEnv  BY <2>40 DEF CleanupEnv
  <2>41. CASE UnregisterFromMicrotask  BY <2>41 DEF UnregisterFromMicrotask, DrainQueuePending
  <2>42. CASE UNCHANGED vars  BY <2>42
  <2>43. QED
    BY <2>1, <2>2, <2>3, <2>4, <2>5, <2>6, <2>7, <2>8, <2>9, <2>10, <2>11,
       <2>12, <2>13, <2>14, <2>15, <2>16, <2>17, <2>18, <2>19, <2>20, <2>21,
       <2>22, <2>23, <2>24, <2>25, <2>26, <2>27, <2>28, <2>29, <2>30, <2>31,
       <2>32, <2>33, <2>34, <2>35, <2>36, <2>37, <2>38, <2>39, <2>40, <2>41, <2>42
    DEF Next, CompletionStep, JsStep, Environment, PromiseStep
<1>2. QED
  BY <1>1, TypeCorrect, PTL DEF Spec, FirstCompletionWins
=============================================================================
