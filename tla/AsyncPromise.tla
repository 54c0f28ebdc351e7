--------------------------- MODULE AsyncPromise ---------------------------
(***************************************************************************)
(* The per-environment dispatcher that turns WinRT async operations into   *)
(* JavaScript promises (bindings/js/src/async_promise.rs), with the WinUI  *)
(* event loop of bindings/js/src/scheduled_start.rs that starves libuv     *)
(* while it runs.                                                          *)
(*                                                                         *)
(* Threads.  `Callers' are the WinRT threads that invoke completion        *)
(* handlers, `Workers' the threads of AsyncResultWorkerPool, `JS' the one  *)
(* thread of the Node environment.  A thread inside complete(),            *)
(* route_completion(), queue_fallback() or abandon() has its program       *)
(* counter at the next lock region or atomic access of that code; JS       *)
(* code between two such points is one step.                               *)
(***************************************************************************)
EXTENDS Naturals, FiniteSets

CONSTANTS Promises,       \* promise states (AsyncPromiseState) of one environment
          Callers,        \* WinRT threads that may run a completion handler
          Workers,        \* threads of the async result worker pool
          JS,             \* the JavaScript thread
          NoPromise,      \* no promise: the local of an idle thread
          PoolCapacity,   \* bound of the worker pool's channel (256 in the code)
          NapiCanFail     \* may a Node-API call fail in an open environment?

ASSUME ConstantsAssumption ==
    /\ NoPromise \notin Promises
    /\ JS \notin Callers \cup Workers
    /\ Callers \cap Workers = {}
    /\ PoolCapacity \in Nat
    /\ NapiCanFail \in BOOLEAN

Threads == Callers \cup Workers \cup {JS}

VARIABLES
    installed,      \* promises created: their completion handler was handed to WinRT
    op,             \* promises whose `operation' slot still holds the operation
    result,         \* the `result' slot: "none", or the stored completion
    settled,        \* promises whose `settled' flag is set
    fallbackQueued, \* promises whose `fallback_queued' flag is set
    outcome,        \* what JavaScript sees of the deferred
    settles,        \* number of napi_resolve/reject_deferred calls on it
    registry,       \* EnvAsyncDispatcher.registry
    tsfnRef,        \* tsfn_referenced, and with it the reference on the event loop
    closing,        \* EnvAsyncDispatcher.closing
    tsfn,           \* the shared threadsafe function: "open" or "released"
    tsfnCalls,      \* promises queued on it and not yet delivered
    queueReg,       \* EnvAsyncDispatcher.queue: "none", "accepting" or "stopped"
    pending,        \* QueueRegistration.pending
    dq,             \* the thread's system DispatcherQueue (external)
    dqOwned,        \* was it created by the current registration's owner?
    dqCalls,        \* callbacks TryEnqueue accepted and not yet run
    pool,           \* AsyncResultWorkerPool: "none", "open" or "shut"
    jobs,           \* jobs in its channel
    loop,           \* the loop JS is in: "node" (libuv) or "winui" (message pump)
    start,          \* scheduled Application.Start: "none", "scheduled", "running"
    pc, cur, val,   \* per thread: next step, promise handled, result carried
    ret,            \* where JS continues after a settlement or an abandonment
    todo,           \* promises JS drained and still has to settle or abandon
    finishing,      \* the promise whose callback scope is closing: microtasks run,
                    \* and finish_promise() has not been called yet
    after,          \* where JS continues after that finish_promise()
    inner           \* promises drained by an unregister_queue() of those microtasks

promiseVars == <<installed, op, result, settled, fallbackQueued, outcome, settles>>
nodeVars    == <<registry, tsfnRef, closing, tsfn, tsfnCalls>>
queueVars   == <<queueReg, pending, dq, dqOwned, dqCalls>>
poolVars    == <<pool, jobs>>
loopVars    == <<loop, start>>
scopeVars   == <<finishing, after, inner>>
threadVars  == <<pc, cur, val, ret, todo, scopeVars>>
vars == <<promiseVars, nodeVars, queueVars, poolVars, loopVars, threadVars>>

Results  == {"none", "ok", "err"}
\* Program counters of the code every thread may run...
FlowPCs  == {"complete", "store", "route", "insert", "tryEnqueue", "removePending",
             "fallback", "swap", "call", "abandon", "discard"}
\* ...and of the code that only JS runs.
JsPCs    == {"registering", "settle", "deliver", "micro", "observed", "undo",
             "unregister", "nested", "take", "settleStart",
             "closeDrain", "closeQueue", "closeTake", "closeRegistry", "join", "closed"}
\* Where JS may continue after a settlement, an abandonment or a completion.
Returns  == {"idle", "micro", "registering", "observed", "unregister", "nested",
             "closeQueue", "closeRegistry", "closed"}
\* Where it continues after a settlement: its event loop, or a loop over drained
\* promises.
Loops    == {"idle", "observed", "unregister", "nested"}

TypeOK ==
    /\ installed \subseteq Promises
    /\ op \subseteq Promises
    /\ result \in [Promises -> Results]
    /\ settled \subseteq Promises
    /\ fallbackQueued \subseteq Promises
    /\ outcome \in [Promises -> {"pending", "resolved", "rejected"}]
    /\ settles \in [Promises -> Nat]
    /\ registry \subseteq Promises
    /\ tsfnRef \in BOOLEAN
    /\ closing \in BOOLEAN
    /\ tsfn \in {"open", "released"}
    /\ tsfnCalls \subseteq Promises
    /\ queueReg \in {"none", "accepting", "stopped"}
    /\ pending \subseteq Promises
    /\ dq \in {"absent", "open", "shutting"}
    /\ dqOwned \in BOOLEAN
    /\ dqCalls \subseteq Promises
    /\ pool \in {"none", "open", "shut"}
    /\ jobs \subseteq Promises
    /\ loop \in {"node", "winui"}
    /\ start \in {"none", "scheduled", "running"}
    /\ pc \in [Threads -> {"idle"} \cup FlowPCs \cup JsPCs]
    /\ cur \in [Threads -> Promises \cup {NoPromise}]
    /\ val \in [Threads -> Results]
    /\ ret \in Returns /\ after \in Loops
    /\ todo \subseteq Promises /\ inner \subseteq Promises
    /\ finishing \in Promises \cup {NoPromise}
    \* Threads run promise code on a promise; only JS runs JS code.
    /\ \A t \in Threads : pc[t] \in FlowPCs \cup {"registering", "settle", "deliver"}
                            => cur[t] \in Promises
    /\ \A t \in Threads : pc[t] \in JsPCs => t = JS
    /\ ret = "registering" => pc[JS] \in FlowPCs \cup {"registering"}
    /\ pc[JS] \in {"settle", "deliver"} => ret \in Loops
    /\ pc[JS] \in FlowPCs \ {"abandon", "discard"} => ret \in {"idle", "micro", "registering"}

Init ==
    /\ installed = {} /\ op = {} /\ settled = {} /\ fallbackQueued = {}
    /\ result  = [p \in Promises |-> "none"]
    /\ outcome = [p \in Promises |-> "pending"]
    /\ settles = [p \in Promises |-> 0]
    /\ registry = {} /\ tsfnRef = FALSE /\ closing = FALSE
    /\ tsfn = "open" /\ tsfnCalls = {}
    /\ queueReg = "none" /\ pending = {}
    /\ dq \in {"absent", "open"} /\ dqOwned = FALSE /\ dqCalls = {}
    /\ pool = "none" /\ jobs = {}
    /\ loop = "node" /\ start = "none"
    /\ pc  = [t \in Threads |-> "idle"]
    /\ cur = [t \in Threads |-> NoPromise]
    /\ val = [t \in Threads |-> "none"]
    /\ ret = "idle" /\ todo = {} /\ finishing = NoPromise /\ after = "idle" /\ inner = {}

-----------------------------------------------------------------------------
(* Control helpers *)

Goto(t, label) == pc' = [pc EXCEPT ![t] = label]

\* The promise code of thread t is done: a native thread is idle again, JS
\* goes back to the code that called it.
Return(t) ==
    /\ Goto(t, IF t = JS THEN ret ELSE "idle")
    /\ cur' = [cur EXCEPT ![t] = IF t = JS /\ ret = "registering" THEN @ ELSE NoPromise]
    /\ val' = [val EXCEPT ![t] = "none"]

\* The JavaScript code JS runs: a callback of its loop, or the microtasks that
\* run while a settled promise's callback scope closes.
JsCode == IF finishing = NoPromise THEN "idle" ELSE "micro"

\* Thread t starts complete() for p with completion r.
BeginComplete(t, p, r) ==
    /\ Goto(t, "complete")
    /\ cur' = [cur EXCEPT ![t] = p]
    /\ val' = [val EXCEPT ![t] = r]

-----------------------------------------------------------------------------
(* AsyncPromiseState::complete, abandon *)

\* complete(): the dispatcher is gone or closing.  A failed Weak::upgrade and
\* a set `closing' flag take the same branch, and the dispatcher is dropped only
\* after `closing' was set, so the flag stands for both.
Complete(t) ==
    /\ pc[t] = "complete"
    /\ Goto(t, IF closing THEN "abandon" ELSE "store")
    /\ UNCHANGED <<promiseVars, nodeVars, queueVars, poolVars, loopVars, cur, val, ret, todo, scopeVars>>

\* Faulty variant: a completion that is already there is overwritten.
StoreOverwrites(t) ==
    /\ pc[t] = "store"
    /\ IF cur[t] \in settled
       THEN Return(t) /\ UNCHANGED result
       ELSE /\ result' = [result EXCEPT ![cur[t]] = val[t]]
            /\ val' = [val EXCEPT ![t] = "none"]
            /\ Goto(t, "route")
            /\ UNCHANGED cur
    /\ UNCHANGED <<installed, op, settled, fallbackQueued, outcome, settles,
                   nodeVars, queueVars, poolVars, loopVars, ret, todo, scopeVars>>

\* complete(): under the `result' lock, the first completion is stored.
Store(t) ==
    /\ pc[t] = "store"
    /\ LET p == cur[t] IN
       IF result[p] # "none" \/ p \in settled
       THEN Return(t) /\ UNCHANGED result
       ELSE /\ result' = [result EXCEPT ![p] = val[t]]
            /\ val' = [val EXCEPT ![t] = "none"]
            /\ Goto(t, "route")
            /\ UNCHANGED cur
    /\ UNCHANGED <<installed, op, settled, fallbackQueued, outcome, settles,
                   nodeVars, queueVars, poolVars, loopVars, ret, todo, scopeVars>>

\* abandon(): claim the promise...
Abandon(t) ==
    /\ pc[t] = "abandon"
    /\ IF cur[t] \in settled
       THEN Return(t) /\ UNCHANGED settled
       ELSE /\ settled' = settled \cup {cur[t]}
            /\ Goto(t, "discard")
            /\ UNCHANGED <<cur, val>>
    /\ UNCHANGED <<installed, op, result, fallbackQueued, outcome, settles,
                   nodeVars, queueVars, poolVars, loopVars, ret, todo, scopeVars>>

\* ...then drop what it still holds.
Discard(t) ==
    /\ pc[t] = "discard"
    /\ op' = op \ {cur[t]}
    /\ result' = [result EXCEPT ![cur[t]] = "none"]
    /\ Return(t)
    /\ UNCHANGED <<installed, settled, fallbackQueued, outcome, settles,
                   nodeVars, queueVars, poolVars, loopVars, ret, todo, scopeVars>>

-----------------------------------------------------------------------------
(* EnvAsyncDispatcher::route_completion, queue_fallback *)

\* Faulty variant: the state is moved out before it is inserted.
RouteMovesState(t) ==
    /\ pc[t] = "route"
    /\ Goto(t, IF closing THEN "abandon" ELSE "insert")
    /\ cur' = [cur EXCEPT ![t] = NoPromise]
    /\ UNCHANGED <<promiseVars, nodeVars, queueVars, poolVars, loopVars, val, ret, todo, scopeVars>>

Route(t) ==
    /\ pc[t] = "route"
    /\ Goto(t, IF closing THEN "abandon" ELSE "insert")
    /\ UNCHANGED <<promiseVars, nodeVars, queueVars, poolVars, loopVars, cur, val, ret, todo, scopeVars>>

\* Under the `queue' lock: remember the promise before it is enqueued.
Insert(t) ==
    /\ pc[t] = "insert"
    /\ IF queueReg = "accepting"
       THEN pending' = pending \cup {cur[t]} /\ Goto(t, "tryEnqueue")
       ELSE UNCHANGED pending /\ Goto(t, "fallback")
    /\ UNCHANGED <<promiseVars, nodeVars, queueReg, dq, dqOwned, dqCalls,
                   poolVars, loopVars, cur, val, ret, todo, scopeVars>>

\* DispatcherQueue.TryEnqueue on the cloned handle (external): a queue that is
\* not gone may accept; false or an error is possible at any time.
TryEnqueue(t) ==
    /\ pc[t] = "tryEnqueue"
    /\ \/ /\ dq # "absent"
          /\ dqCalls' = dqCalls \cup {cur[t]}
          /\ Return(t)
       \/ /\ Goto(t, "removePending")
          /\ UNCHANGED <<dqCalls, cur, val>>
    /\ UNCHANGED <<promiseVars, nodeVars, queueReg, pending, dq, dqOwned,
                   poolVars, loopVars, ret, todo, scopeVars>>

\* Faulty variant: a refused enqueue is not sent to the threadsafe function.
RemovePendingOnly(t) ==
    /\ pc[t] = "removePending"
    /\ pending' = pending \ {cur[t]}
    /\ Return(t)
    /\ UNCHANGED <<promiseVars, nodeVars, queueReg, dq, dqOwned, dqCalls,
                   poolVars, loopVars, ret, todo, scopeVars>>

RemovePending(t) ==
    /\ pc[t] = "removePending"
    /\ pending' = pending \ {cur[t]}
    /\ Goto(t, "fallback")
    /\ UNCHANGED <<promiseVars, nodeVars, queueReg, dq, dqOwned, dqCalls,
                   poolVars, loopVars, cur, val, ret, todo, scopeVars>>

QueueFallback(t) ==
    /\ pc[t] = "fallback"
    /\ Goto(t, IF closing THEN "abandon" ELSE "swap")
    /\ UNCHANGED <<promiseVars, nodeVars, queueVars, poolVars, loopVars, cur, val, ret, todo, scopeVars>>

SwapFallbackQueued(t) ==
    /\ pc[t] = "swap"
    /\ IF cur[t] \in fallbackQueued
       THEN Return(t)
       ELSE Goto(t, "call") /\ UNCHANGED <<cur, val>>
    /\ fallbackQueued' = fallbackQueued \cup {cur[t]}
    /\ UNCHANGED <<installed, op, result, settled, outcome, settles,
                   nodeVars, queueVars, poolVars, loopVars, ret, todo, scopeVars>>

\* napi_call_threadsafe_function: accepted, refused because the function was
\* released (napi_closing), or failed and only logged.
CallTsfn(t) ==
    /\ pc[t] = "call"
    /\ \/ /\ tsfn = "open"
          /\ tsfnCalls' = tsfnCalls \cup {cur[t]}
          /\ Return(t)
       \/ /\ tsfn = "released"
          /\ Goto(t, "abandon")
          /\ UNCHANGED <<tsfnCalls, cur, val>>
       \/ /\ NapiCanFail
          /\ Return(t)
          /\ UNCHANGED tsfnCalls
    /\ UNCHANGED <<promiseVars, registry, tsfnRef, closing, tsfn,
                   queueVars, poolVars, loopVars, ret, todo, scopeVars>>

-----------------------------------------------------------------------------
(* to_promise, the completion handler and the result workers *)

\* to_promise() up to the SetCompleted call: the promise is registered, the
\* event loop is kept alive from the first registered promise on, and from here
\* WinRT may run the handler at any time.
ToPromise(p) ==
    /\ pc[JS] \in {"idle", "micro"} /\ p \notin installed /\ ~closing
    /\ installed' = installed \cup {p}
    /\ op' = op \cup {p}
    /\ registry' = registry \cup {p}
    /\ tsfnRef' = (registry = {} \/ tsfnRef)
    /\ Goto(JS, "registering")
    /\ cur' = [cur EXCEPT ![JS] = p]
    /\ UNCHANGED <<result, settled, fallbackQueued, outcome, settles, closing, tsfn,
                   tsfnCalls, queueVars, poolVars, loopVars, val, ret, todo, scopeVars>>

\* SetCompleted returned success.
HandlerRegistered ==
    /\ pc[JS] = "registering"
    /\ Goto(JS, JsCode)
    /\ cur' = [cur EXCEPT ![JS] = NoPromise]
    /\ ret' = JsCode
    /\ UNCHANGED <<promiseVars, nodeVars, queueVars, poolVars, loopVars, val, todo, scopeVars>>

\* SetCompleted failed (its handler may have run all the same, for instance
\* when the answer of a remote call is lost): the error completes the promise.
HandlerRejected ==
    /\ pc[JS] = "registering"
    /\ op' = op \ {cur[JS]}
    /\ BeginComplete(JS, cur[JS], "err")
    /\ ret' = JsCode
    /\ UNCHANGED <<installed, result, settled, fallbackQueued, outcome, settles,
                   nodeVars, queueVars, poolVars, loopVars, todo, scopeVars>>

\* The handler runs on a WinRT thread: take_operation(), then GetResults there.
HandlerOnCaller(t, p) ==
    /\ t \in Callers /\ pc[t] = "idle"
    /\ p \in op
    /\ op' = op \ {p}
    /\ \E r \in {"ok", "err"} : BeginComplete(t, p, r)
    /\ UNCHANGED <<installed, result, settled, fallbackQueued, outcome, settles,
                   nodeVars, queueVars, poolVars, loopVars, ret, todo, scopeVars>>

\* Faulty variant: an operation the full channel did not take is dropped.
HandlerDropsRefusedJob(p) ==
    /\ pc[JS] = "idle" \/ (pc[JS] = "registering" /\ cur[JS] = p)
    /\ p \in op
    /\ op' = op \ {p}
    /\ pool' = "open"
    /\ jobs' = IF Cardinality(jobs) < PoolCapacity THEN jobs \cup {p} ELSE jobs
    /\ UNCHANGED <<installed, result, settled, fallbackQueued, outcome, settles,
                   nodeVars, queueVars, loopVars, threadVars>>

\* The handler runs on JS, from its loop or from inside SetCompleted, and hands
\* GetResults to the worker pool; a pool that cannot start, or whose channel is
\* full, completes the promise with an error.
HandlerOnJs(p) ==
    /\ pc[JS] = "idle" \/ (pc[JS] = "registering" /\ cur[JS] = p)
    /\ p \in op
    /\ op' = op \ {p}
    /\ \/ /\ Cardinality(jobs) < PoolCapacity
          /\ pool' = "open"
          /\ jobs' = jobs \cup {p}
          /\ UNCHANGED <<pc, cur, val, ret>>
       \/ /\ Cardinality(jobs) >= PoolCapacity \/ pool = "none"
          /\ BeginComplete(JS, p, "err")
          /\ ret' = pc[JS]
          /\ UNCHANGED poolVars
    /\ UNCHANGED <<installed, result, settled, fallbackQueued, outcome, settles,
                   nodeVars, queueVars, loopVars, todo, scopeVars>>

\* run_async_result_worker: a worker takes a job, also after the sender was
\* dropped, until the channel is empty.
WorkerRunsJob(t, p) ==
    /\ t \in Workers /\ pc[t] = "idle" /\ p \in jobs
    /\ jobs' = jobs \ {p}
    /\ \E r \in {"ok", "err"} : BeginComplete(t, p, r)
    /\ UNCHANGED <<promiseVars, nodeVars, queueVars, pool, loopVars, ret, todo, scopeVars>>

-----------------------------------------------------------------------------
(* Settlement on the JavaScript thread *)

\* shared_tsfn_callback: libuv delivers a queued call.
TsfnCallback(p) ==
    /\ pc[JS] = "idle" /\ loop = "node" /\ p \in tsfnCalls
    /\ tsfnCalls' = tsfnCalls \ {p}
    /\ Goto(JS, "settle")
    /\ cur' = [cur EXCEPT ![JS] = p]
    /\ ret' = "idle"
    /\ UNCHANGED <<promiseVars, registry, tsfnRef, closing, tsfn,
                   queueVars, poolVars, loopVars, val, todo, scopeVars>>

\* settle_queue_state_on_js: the handle scope may fail to open.
SettleQueueState(p, from) ==
    /\ \/ Goto(JS, "settle")
       \/ NapiCanFail /\ Goto(JS, "abandon")
    /\ cur' = [cur EXCEPT ![JS] = p]
    /\ ret' = from

\* run_queue_callback: the DispatcherQueue runs an accepted callback.
RunQueueCallback(p) ==
    /\ pc[JS] = "idle" /\ p \in dqCalls
    /\ dqCalls' = dqCalls \ {p}
    /\ pending' = pending \ {p}
    /\ SettleQueueState(p, "idle")
    /\ UNCHANGED <<promiseVars, nodeVars, queueReg, dq, dqOwned,
                   poolVars, loopVars, val, todo, scopeVars>>

\* Faulty variant: the promise is settled without testing the swapped flag.
SettleUnclaimed ==
    /\ pc[JS] = "settle"
    /\ settled' = settled \cup {cur[JS]}
    /\ Goto(JS, "deliver")
    /\ UNCHANGED <<installed, op, result, fallbackQueued, outcome, settles, nodeVars,
                   queueVars, poolVars, loopVars, cur, val, ret, todo, scopeVars>>

\* settle_on_js: claim the promise...
SettleOnJs ==
    /\ pc[JS] = "settle"
    /\ IF cur[JS] \in settled
       THEN Return(JS) /\ UNCHANGED settled
       ELSE /\ settled' = settled \cup {cur[JS]}
            /\ Goto(JS, "deliver")
            /\ UNCHANGED <<cur, val>>
    /\ UNCHANGED <<installed, op, result, fallbackQueued, outcome, settles,
                   nodeVars, queueVars, poolVars, loopVars, ret, todo, scopeVars>>

\* finish_promise(p): the last registered promise lets the event loop go.
Deregister(p) ==
    /\ registry' = registry \ {p}
    /\ tsfnRef' = (tsfnRef /\ ~(p \in registry /\ registry' = {}))

\* ...then take the result (a missing one is an error), settle the deferred and
\* close the callback scope, which runs microtasks; a scope closed inside another
\* one runs none (Node), and finish_promise() follows at once.  Resolving the value
\* for this thread, converting it or opening the scope may fail, which rejects; with
\* Node-API failing the deferred may not be settled at all.
Deliver ==
    /\ pc[JS] = "deliver"
    /\ LET p == cur[JS] IN
       /\ \/ /\ \/ /\ result[p] = "ok"
                   /\ outcome' = [outcome EXCEPT ![p] = "resolved"]
                \/ outcome' = [outcome EXCEPT ![p] = "rejected"]
             /\ settles' = [settles EXCEPT ![p] = @ + 1]
          \/ NapiCanFail /\ UNCHANGED <<outcome, settles>>
       /\ result' = [result EXCEPT ![p] = "none"]
       /\ IF finishing = NoPromise
          THEN /\ finishing' = p /\ after' = ret
               /\ Goto(JS, "micro")
               /\ UNCHANGED <<registry, tsfnRef>>
          ELSE /\ Deregister(p)
               /\ Goto(JS, ret)
               /\ UNCHANGED <<finishing, after>>
    /\ cur' = [cur EXCEPT ![JS] = NoPromise]
    /\ UNCHANGED <<installed, op, settled, fallbackQueued, closing, tsfn, tsfnCalls,
                   queueVars, poolVars, loopVars, val, ret, todo, inner>>

\* Faulty variant: whether this promise is the last one is not tested again after the
\* microtasks ran.
FinishUnrefs ==
    /\ pc[JS] = "micro"
    /\ registry' = registry \ {finishing}
    /\ tsfnRef' = FALSE
    /\ Goto(JS, after)
    /\ finishing' = NoPromise
    /\ ret' = "idle" /\ after' = "idle"
    /\ UNCHANGED <<promiseVars, closing, tsfn, tsfnCalls, queueVars, poolVars, loopVars,
                   cur, val, todo, inner>>

\* The microtasks are over: finish_promise() of the promise they ran for.
FinishPromise ==
    /\ pc[JS] = "micro"
    /\ Deregister(finishing)
    /\ Goto(JS, after)
    /\ finishing' = NoPromise
    /\ ret' = "idle" /\ after' = "idle"
    /\ UNCHANGED <<promiseVars, closing, tsfn, tsfnCalls, queueVars, poolVars, loopVars,
                   cur, val, todo, inner>>

-----------------------------------------------------------------------------
(* The DispatcherQueue registration and the WinUI loop *)

\* register_queue(): capture the thread's queue, creating one when it has none.
CaptureQueue ==
    IF queueReg # "none"
    THEN UNCHANGED <<queueReg, dq, dqOwned>>
    ELSE /\ queueReg' = "accepting"
         /\ dqOwned' = (dq = "absent")
         /\ dq' = IF dq = "absent" THEN "open" ELSE dq

\* register_queue() as JavaScript calls it; when the observers cannot be added, the
\* queue it may have created stays, without an owner.
RegisterQueue ==
    /\ pc[JS] \in {"idle", "micro"} /\ ~closing /\ queueReg = "none"
    /\ \/ CaptureQueue
       \/ dq = "absent" /\ dq' = "open" /\ UNCHANGED <<queueReg, dqOwned>>
    /\ UNCHANGED <<promiseVars, nodeVars, pending, dqCalls, poolVars, loopVars, threadVars>>

\* drain_queue_pending(): under the `queue' lock, stop accepting and take `pending'.
DrainQueuePending ==
    /\ queueReg' = IF queueReg = "none" THEN "none" ELSE "stopped"
    /\ pending' = {}

\* The queue raises ShutdownStarting to the registered observer, which
\* settles the pending promises on this thread: its host shuts it down, or the
\* shutdown an earlier registration requested reaches a later one.
ShutdownStarting ==
    /\ pc[JS] = "idle"
    /\ (dq = "open" /\ queueReg # "none") \/ (dq = "shutting" /\ queueReg = "accepting")
    /\ dq' = "shutting"
    /\ DrainQueuePending /\ todo' = pending
    /\ Goto(JS, "observed")
    /\ UNCHANGED <<promiseVars, nodeVars, dqOwned, dqCalls, poolVars, loopVars,
                   cur, val, ret, scopeVars>>

\* The queue has run every accepted callback and is gone (external).
ShutdownCompleted ==
    /\ dq = "shutting" /\ dqCalls = {}
    /\ dq' = "absent"
    /\ UNCHANGED <<promiseVars, nodeVars, queueReg, pending, dqOwned, dqCalls,
                   poolVars, loopVars, threadVars>>

\* Faulty variant: the drained promises go to the threadsafe function.
DrainToFallback ==
    /\ pc[JS] \in {"observed", "unregister"}
    /\ \E p \in todo : todo' = todo \ {p} /\ cur' = [cur EXCEPT ![JS] = p]
    /\ Goto(JS, "fallback")
    /\ ret' = pc[JS]
    /\ UNCHANGED <<promiseVars, nodeVars, queueVars, poolVars, loopVars, val, scopeVars>>

\* settle_queue_pending_on_ui(): the loop over the drained promises, run by the
\* ShutdownStarting observer or by unregister_queue(), which microtasks may call.
SettleDrained ==
    /\ \/ /\ pc[JS] \in {"observed", "unregister"}
          /\ \E p \in todo : todo' = todo \ {p} /\ SettleQueueState(p, pc[JS])
          /\ UNCHANGED inner
       \/ /\ pc[JS] = "nested"
          /\ \E p \in inner : inner' = inner \ {p} /\ SettleQueueState(p, "nested")
          /\ UNCHANGED todo
    /\ UNCHANGED <<promiseVars, nodeVars, queueVars, poolVars, loopVars, val,
                   finishing, after>>

\* The loop is done: the observer returns, unregister_queue() goes on.
DrainDone ==
    /\ \/ pc[JS] \in {"observed", "unregister"} /\ todo = {}
       \/ pc[JS] = "nested" /\ inner = {}
    /\ Goto(JS, IF pc[JS] = "observed" THEN "idle" ELSE "take")
    /\ ret' = "idle"
    /\ UNCHANGED <<promiseVars, nodeVars, queueVars, poolVars, loopVars, cur, val, todo, scopeVars>>

\* unregister_queue(), first part, called from JavaScript in either loop, or to undo
\* the registration of a start that could not be scheduled...
UnregisterQueue ==
    /\ \/ pc[JS] = "idle" /\ queueReg # "none"
       \/ pc[JS] = "undo"
    /\ DrainQueuePending /\ todo' = pending
    /\ Goto(JS, "unregister")
    /\ UNCHANGED <<promiseVars, nodeVars, dq, dqOwned, dqCalls, poolVars, loopVars,
                   cur, val, ret, scopeVars>>

\* ...or from the microtasks of a settlement, which a loop over other drained
\* promises may be waiting for.
UnregisterFromMicrotask ==
    /\ pc[JS] = "micro" /\ queueReg # "none"
    /\ DrainQueuePending /\ inner' = pending
    /\ Goto(JS, "nested")
    /\ UNCHANGED <<promiseVars, nodeVars, dq, dqOwned, dqCalls, poolVars, loopVars,
                   cur, val, ret, todo, finishing, after>>

\* unregister_queue(), second part: drop the registration, and shut a queue down
\* that this registration created; then back to the caller.
TakeQueue ==
    /\ pc[JS] = "take"
    /\ queueReg' = "none"
    /\ pending' = {}
    /\ dq' = IF queueReg # "none" /\ dqOwned /\ dq = "open" THEN "shutting" ELSE dq
    /\ dqOwned' = FALSE
    /\ Goto(JS, IF finishing = NoPromise /\ loop = "node" /\ start = "running"
                THEN "settleStart" ELSE JsCode)
    /\ UNCHANGED <<promiseVars, nodeVars, dqCalls, poolVars, loopVars,
                   cur, val, ret, todo, scopeVars>>

\* schedule(): register the queue and post the start to the libuv loop; when
\* the start's promise cannot be made or posting fails, the registration is undone.
ScheduleStart ==
    /\ pc[JS] = "idle" /\ loop = "node" /\ start = "none"
    /\ CaptureQueue
    /\ \/ start' = "scheduled" /\ UNCHANGED pc
       \/ Goto(JS, "undo") /\ UNCHANGED start
    /\ UNCHANGED <<promiseVars, nodeVars, pending, dqCalls, poolVars, loop,
                   cur, val, ret, todo, scopeVars>>

\* run_scheduled_start: libuv runs the posted start, which pumps messages.
RunScheduledStart ==
    /\ pc[JS] = "idle" /\ loop = "node" /\ start = "scheduled"
    /\ loop' = "winui" /\ start' = "running"
    /\ UNCHANGED <<promiseVars, nodeVars, queueVars, poolVars, threadVars>>

\* run_scheduled_start, once Application.Start returned: unregister the queue...
StartReturns ==
    /\ pc[JS] = "idle" /\ loop = "winui"
    /\ loop' = "node"
    /\ DrainQueuePending /\ todo' = pending
    /\ Goto(JS, "unregister")
    /\ UNCHANGED <<promiseVars, nodeVars, dq, dqOwned, dqCalls, poolVars, start,
                   cur, val, ret, scopeVars>>

\* ...then settle the start's own promise.
SettleStart ==
    /\ pc[JS] = "settleStart"
    /\ start' = "none"
    /\ Goto(JS, "idle")
    /\ UNCHANGED <<promiseVars, nodeVars, queueVars, poolVars, loop,
                   cur, val, ret, todo, scopeVars>>

-----------------------------------------------------------------------------
(* EnvAsyncDispatcher::cleanup_env *)

AbandonOnJs(p, from) ==
    /\ Goto(JS, "abandon")
    /\ cur' = [cur EXCEPT ![JS] = p]
    /\ ret' = from

CleanupEnv ==
    /\ pc[JS] = "idle" /\ loop = "node"
    /\ closing' = TRUE
    /\ Goto(JS, "closeDrain")
    /\ UNCHANGED <<promiseVars, registry, tsfnRef, tsfn, tsfnCalls, queueVars,
                   poolVars, loopVars, cur, val, ret, todo, scopeVars>>

CloseDrain ==
    /\ pc[JS] = "closeDrain"
    /\ DrainQueuePending /\ todo' = pending
    /\ Goto(JS, "closeQueue")
    /\ UNCHANGED <<promiseVars, nodeVars, dq, dqOwned, dqCalls, poolVars, loopVars,
                   cur, val, ret, scopeVars>>

\* Abandon what the queue held, then drop the registration.
CloseQueue ==
    /\ pc[JS] = "closeQueue"
    /\ \/ /\ \E p \in todo : todo' = todo \ {p} /\ AbandonOnJs(p, "closeQueue")
          /\ UNCHANGED <<queueReg, pending, dqOwned>>
       \/ /\ todo = {}
          /\ queueReg' = "none" /\ pending' = {} /\ dqOwned' = FALSE
          /\ Goto(JS, "closeTake")
          /\ UNCHANGED <<cur, ret, todo>>
    /\ UNCHANGED <<promiseVars, nodeVars, dq, dqCalls, poolVars, loopVars, val, scopeVars>>

\* Faulty variant: the registered promises are dropped without being abandoned.
CloseForgetsRegistry ==
    /\ pc[JS] = "closeTake"
    /\ registry' = {}
    /\ Goto(JS, "closeRegistry")
    /\ UNCHANGED <<promiseVars, tsfnRef, closing, tsfn, tsfnCalls, queueVars,
                   poolVars, loopVars, cur, val, ret, todo, scopeVars>>

CloseTakeRegistry ==
    /\ pc[JS] = "closeTake"
    /\ todo' = registry
    /\ registry' = {}
    /\ Goto(JS, "closeRegistry")
    /\ UNCHANGED <<promiseVars, tsfnRef, closing, tsfn, tsfnCalls,
                   queueVars, poolVars, loopVars, cur, val, ret, scopeVars>>

\* Abandon every registered promise, then drop the pool's sender.
CloseRegistry ==
    /\ pc[JS] = "closeRegistry"
    /\ \/ /\ \E p \in todo : todo' = todo \ {p} /\ AbandonOnJs(p, "closeRegistry")
          /\ UNCHANGED pool
       \/ /\ todo = {}
          /\ pool' = "shut"
          /\ Goto(JS, "join")
          /\ UNCHANGED <<cur, ret, todo>>
    /\ UNCHANGED <<promiseVars, nodeVars, queueVars, jobs, loopVars, val, scopeVars>>

\* Join the workers, then release the threadsafe function.
JoinWorkers ==
    /\ pc[JS] = "join"
    /\ jobs = {} /\ \A t \in Workers : pc[t] = "idle"
    /\ tsfn' = "released"
    /\ tsfnRef' = FALSE
    /\ Goto(JS, "closed")
    /\ UNCHANGED <<promiseVars, registry, closing, tsfnCalls, queueVars,
                   poolVars, loopVars, cur, val, ret, todo, scopeVars>>

\* Calls still queued when the environment is gone: Node runs the threadsafe
\* ones with a null environment, the DispatcherQueue its own; both abandon.
LateCallback(p) ==
    /\ pc[JS] = "closed"
    /\ \/ p \in tsfnCalls /\ tsfnCalls' = tsfnCalls \ {p} /\ UNCHANGED dqCalls
       \/ p \in dqCalls /\ dqCalls' = dqCalls \ {p} /\ UNCHANGED tsfnCalls
    /\ AbandonOnJs(p, "closed")
    /\ UNCHANGED <<promiseVars, registry, tsfnRef, closing, tsfn, queueReg, pending,
                   dq, dqOwned, poolVars, loopVars, val, todo, scopeVars>>

-----------------------------------------------------------------------------

CompletionStep(t) ==
    \/ Complete(t) \/ Store(t) \/ Abandon(t) \/ Discard(t)
    \/ Route(t) \/ Insert(t) \/ TryEnqueue(t) \/ RemovePending(t)
    \/ QueueFallback(t) \/ SwapFallbackQueued(t) \/ CallTsfn(t)

\* Steps JS takes on its own once it is inside a call.
JsStep ==
    \/ SettleOnJs \/ Deliver \/ FinishPromise
    \/ SettleDrained \/ DrainDone \/ TakeQueue \/ SettleStart
    \/ HandlerRegistered \/ HandlerRejected
    \/ CloseDrain \/ CloseQueue \/ CloseTakeRegistry \/ CloseRegistry \/ JoinWorkers

\* What the application, the host of the queue or Node may do at any time.
Environment ==
    \/ RegisterQueue \/ UnregisterQueue \/ UnregisterFromMicrotask
    \/ ScheduleStart \/ RunScheduledStart
    \/ ShutdownStarting \/ ShutdownCompleted \/ StartReturns \/ CleanupEnv

PromiseStep(p) ==
    \/ ToPromise(p) \/ HandlerOnJs(p) \/ TsfnCallback(p) \/ RunQueueCallback(p)
    \/ LateCallback(p)
    \/ \E t \in Threads : HandlerOnCaller(t, p) \/ WorkerRunsJob(t, p)

Next ==
    \/ \E t \in Threads : CompletionStep(t)
    \/ JsStep
    \/ Environment
    \/ \E p \in Promises : PromiseStep(p)

Spec == Init /\ [][Next]_vars

\* Every thread that is inside this code runs on; microtasks end, whatever they
\* call; the workers take jobs, WinRT completes started operations, libuv delivers threadsafe calls while
\* its loop runs, the DispatcherQueue its callbacks while the WinUI loop runs.
\* That the application ends a loop, or that the environment closes, is not assumed.
Fairness ==
    /\ \A t \in Threads : WF_vars(CompletionStep(t))
    /\ WF_vars(JsStep) /\ SF_vars(FinishPromise)
    /\ WF_vars(pc[JS] = "undo" /\ UnregisterQueue)
    /\ \A t \in Workers : WF_vars(\E p \in Promises : WorkerRunsJob(t, p))
    /\ \A p \in Promises : /\ SF_vars(TsfnCallback(p))
                           /\ SF_vars(loop = "winui" /\ RunQueueCallback(p))

FairSpec == Spec /\ Fairness

-----------------------------------------------------------------------------
(* The inductive invariant behind the safety properties *)

\* A thread that holds a promise whose completion it has stored.
RoutingPCs == {"route", "insert", "tryEnqueue", "removePending", "fallback", "swap", "call"}

\* The teardown is over, but for calls that were queued before.
Closed == pc[JS] = "closed" \/ (pc[JS] \in {"abandon", "discard"} /\ ret = "closed")

\* JS is in cleanup_env or past it.
Closing == \/ pc[JS] \in {"closeDrain", "closeQueue", "closeTake", "closeRegistry", "join"}
           \/ pc[JS] \in {"abandon", "discard"} /\ ret \in {"closeQueue", "closeRegistry"}
           \/ Closed

\* Thread t claimed its promise by the swap of `settled' and has not yet emptied
\* its `result'.
Claims(t) == pc[t] \in {"discard", "deliver"}

\* Promises JS may settle next: routed somewhere, or drained.
Routed == tsfnCalls \cup dqCalls \cup pending \cup inner
            \cup (IF Closing THEN {} ELSE todo)
            \cup {cur[t] : t \in {u \in Threads : pc[u] \in RoutingPCs}}
            \cup {cur[t] : t \in {u \in Threads : pc[u] = "settle"}}

\* A claim is held by one thread, and the deferred is settled only under it.
ClaimInv ==
    /\ \A t \in Threads : Claims(t) => cur[t] \in settled
    /\ \A t, u \in Threads : Claims(t) /\ Claims(u) /\ cur[t] = cur[u] => t = u
    /\ \A p \in Promises : settles[p] <= 1
    /\ \A p \in Promises : p \notin settled => settles[p] = 0 /\ outcome[p] = "pending"
    /\ pc[JS] = "deliver" => settles[cur[JS]] = 0 /\ outcome[cur[JS]] = "pending"
    /\ finishing \in settled \cup {NoPromise}

\* A routed promise keeps its completion until somebody claims it.
RouteInv ==
    /\ \A t \in Threads : pc[t] \in {"complete", "store"} => val[t] # "none"
    /\ \A p \in Routed : p \notin settled => result[p] # "none"
    /\ pc[JS] = "deliver" => result[cur[JS]] # "none"

\* Teardown: the flag, the threadsafe function and the workers.
CloseInv ==
    /\ closing <=> Closing
    /\ tsfn = "released" <=> Closed
    /\ tsfn = "released" => jobs = {} /\ \A t \in Workers : pc[t] = "idle"

\* Everything is about promises that were created.
KnownInv ==
    /\ op \cup settled \cup fallbackQueued \cup registry \cup tsfnCalls
          \cup dqCalls \cup pending \cup todo \cup inner \cup jobs \subseteq installed
    /\ \A t \in Threads : cur[t] \in installed \cup {NoPromise}
    /\ finishing \in installed \cup {NoPromise}
    /\ \A p \in Promises \ installed : result[p] = "none" /\ outcome[p] = "pending"

\* Microtasks run inside one callback scope, and JS leaves it through FinishPromise;
\* what their unregister_queue() drained is held only by its loop.
Nested == \/ pc[JS] = "nested"
          \/ pc[JS] \in FlowPCs \cup {"settle", "deliver"} /\ ret = "nested"

ScopeInv ==
    /\ finishing # NoPromise => \/ pc[JS] \in {"micro", "registering", "take"} \/ Nested
                                \/ pc[JS] \in FlowPCs /\ ret \in {"micro", "registering"}
    /\ pc[JS] = "micro" \/ Nested => finishing # NoPromise
    /\ pc[JS] \in FlowPCs /\ ret = "micro" => finishing # NoPromise
    /\ after # "nested" /\ (inner # {} => Nested)

\* Only a closing environment or a failing Node-API call abandons a promise.
AbandonInv == \A t \in Threads : pc[t] = "abandon" => closing \/ NapiCanFail

\* The code JS returns to when the settlement or microtasks it is in are over.
Outer == IF finishing # NoPromise THEN after
         ELSE IF pc[JS] \in FlowPCs \cup {"settle", "deliver"} THEN ret
         ELSE pc[JS]

\* JS holds drained promises only inside a loop over them.
TodoInv == todo # {} => Outer \in {"observed", "unregister", "closeQueue", "closeRegistry"}

\* A promise whose threadsafe call was claimed is on its way to JS.
FallbackInv ==
    ~NapiCanFail =>
      \A p \in fallbackQueued \ settled :
         p \in tsfnCalls \/ \E t \in Threads : cur[t] = p /\ pc[t] \in {"call", "abandon", "settle"}

\* The registered promises are those not settled, and the one being finished.
RegistryInv ==
    ~closing =>
      /\ tsfnRef = (registry # {})
      /\ ~NapiCanFail /\ finishing # NoPromise => outcome[finishing] # "pending"
      /\ ~NapiCanFail => registry = {p \in installed : outcome[p] = "pending"}
                                       \cup ({finishing} \ {NoPromise})

\* An operation is taken before it is completed, and what a settled promise holds is
\* dropped under its claim.
EmptyInv ==
    /\ (Routed \cup jobs) \cap op = {}
    /\ \A t \in Threads : pc[t] \in {"complete", "store", "deliver"} => cur[t] \notin op
    /\ \A p \in settled : \/ p \notin op /\ result[p] = "none"
                          \/ \E t \in Threads : Claims(t) /\ cur[t] = p

\* Until the teardown took the registry, an unclaimed promise is in it, and then
\* the teardown claims it.
TornDown == \/ pc[JS] \in {"closeRegistry", "join"}
            \/ pc[JS] \in {"abandon", "discard"} /\ ret = "closeRegistry"
            \/ Closed

RetainInv ==
    /\ TornDown => registry = {}
    /\ \A p \in installed \ settled :
          \/ p \in registry
          \/ Outer = "closeRegistry" /\ p \in todo
          \/ pc[JS] = "abandon" /\ cur[JS] = p

Inductive == /\ TypeOK /\ ClaimInv /\ RouteInv /\ CloseInv /\ KnownInv /\ ScopeInv
             /\ AbandonInv /\ TodoInv /\ FallbackInv /\ RegistryInv /\ EmptyInv /\ RetainInv

-----------------------------------------------------------------------------
(* Properties *)

\* Unsettled promises whose completion was stored.
Completed == {p \in Promises : result[p] # "none" /\ p \notin settled}

\* The deferred of a promise is resolved or rejected at most once, whichever of the
\* threadsafe function, the DispatcherQueue callback, the shutdown drain and the
\* teardown reach it (async_promise.rs, `settled.swap').
SettleOnce == \A p \in Promises : settles[p] <= 1

\* The code path "Async completion result was unavailable" is never taken: who
\* claims a promise on JS finds its completion in `result'.
DeliveredHasResult == pc[JS] = "deliver" => result[cur[JS]] # "none"

\* A completion that was stored and not yet settled is never dropped between the
\* routes: some thread carries it, or a queue that JS will drain holds it.
NoLostCompletion ==
    ~NapiCanFail =>
      \A p \in Completed :
         \/ p \in tsfnCalls \cup dqCalls \cup todo \cup inner
         \/ \E t \in Threads : cur[t] = p /\ pc[t] \in RoutingPCs \cup {"settle", "abandon"}

\* The event loop is kept alive exactly while a promise made by toPromise() is not
\* settled, also for promises made by the microtasks of a settlement: Node
\* neither exits under a pending promise nor hangs after the last one.
LoopAliveWhilePending ==
    ~closing /\ ~NapiCanFail /\ pc[JS] \in {"idle", "micro"} =>
      LET open == {p \in installed : outcome[p] = "pending"}
      IN  tsfnRef = (open # {} \/ finishing # NoPromise)

\* Once the environment is closed and every thread has left this code, no operation
\* and no result is retained, and every promise was claimed.
ClosedRetainsNothing ==
    pc[JS] = "closed" /\ (\A t \in Callers : pc[t] = "idle") =>
      /\ op = {} /\ \A p \in Promises : result[p] = "none"
      /\ installed \subseteq settled

\* An operation that was taken out of its promise is never dropped: it is in the
\* worker pool's channel, or a thread is completing the promise (with an error when
\* the channel was full, the pool could not start or SetCompleted failed), or its
\* completion is stored, until somebody claims the promise.
OperationCarried ==
    \A p \in installed \ (op \cup settled) :
       \/ result[p] # "none" \/ p \in jobs
       \/ \E t \in Threads : cur[t] = p /\ pc[t] \in {"complete", "store", "abandon"}

\* The first completion wins: a stored one is only ever taken, and nothing
\* is stored again for a promise that was claimed (AsyncPromiseState::complete).
FirstCompletionWins ==
    [][\A p \in Promises :
          /\ result[p] # "none" => result'[p] \in {result[p], "none"}
          /\ result[p] = "none" /\ p \in settled => result'[p] = "none"]_vars

\* Under the WinUI loop a completion the DispatcherQueue accepted, or that its shutdown
\* drained, reaches JavaScript without that loop having to end, although libuv is
\* starved.
SettledUnderWinUI ==
    \A p \in Promises :
       (p \in dqCalls \cup todo \cup inner /\ loop = "winui") ~> (p \in settled \/ loop = "node")

\* Teardown terminates, joins included, and leaves nothing behind.
CleanupTerminates ==
    closing ~> (pc[JS] = "closed" /\ op = {} /\ \A p \in Promises : result[p] = "none")

\* What JavaScript was promised (PromiseSpec): abandoned is claimed without
\* a settlement under way.
Phase(p) ==
    IF p \notin installed THEN "new"
    ELSE IF outcome[p] # "pending" THEN outcome[p]
    ELSE IF p \in settled /\ ~(pc[JS] = "deliver" /\ cur[JS] = p) THEN "abandoned"
    ELSE "pending"

Promise == INSTANCE PromiseSpec WITH phase   <- [p \in Promises |-> Phase(p)],
                                     envOpen <- ~closing

\* The dispatcher implements the abstract promise lifecycle.
ImplementsPromiseSpec == Promise!Spec
=============================================================================
