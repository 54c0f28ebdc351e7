---------------------------- MODULE ManagedTsfn ----------------------------
(***************************************************************************)
(* Threadsafe functions of bindings/js/src/managed_tsfn.rs: the lifecycle  *)
(* of one Node environment, its registered functions, calls from any       *)
(* thread, handles that are cloned and dropped, and teardown.              *)
(*                                                                         *)
(* Js is the environment's thread.  The Node-API object behind a function  *)
(* is external: `native' is its state, `count' its thread count (created   *)
(* with one), `queue' its queue.  Using it after it is closed is a use     *)
(* after free; releasing it twice, or never, is what NativeTsfn prevents.  *)
(***************************************************************************)
EXTENDS Naturals, FiniteSets

CONSTANTS Handles,   \* functions that may be created
          Threads,   \* producer threads of Rust and Windows
          Js,        \* the environment's thread
          NoHandle,
          Weak,      \* functions created weak, which are unreferenced
          MaxQueue,  \* max_queue_size
          MaxCalls   \* bound of the model: calls made of each function

ASSUME ConstantsAssumption ==
    /\ IsFiniteSet(Threads)
    /\ Js \notin Threads
    /\ NoHandle \notin Handles
    /\ Weak \subseteq Handles
    /\ MaxQueue \in Nat \ {0}
    /\ MaxCalls \in Nat

Actors == Threads \cup {Js}

VARIABLES
    open,      \* TsfnLifecycle.open, under its RwLock
    handles,   \* TsfnLifecycle.handles
    raw,       \* functions whose NativeTsfn.raw is not null
    holders,   \* who holds a clone of the ManagedTsfn
    finalized, \* how often the finalizer of the context ran
    native, count, queue,          \* the Node-API function
    made, dispatched, dropped,     \* payloads boxed, mapped to JS, and freed unused
    env,       \* the environment: running, its cleanup hooks, handles closed, gone
    at, cur    \* what each actor does, and with which function

lifeVars == <<open, handles>>
tsfnVars == <<raw, holders, finalized>>
nodeVars == <<native, count, queue>>
payVars  == <<made, dispatched, dropped>>
actVars  == <<at, cur>>
vars == <<lifeVars, tsfnVars, nodeVars, payVars, env, actVars>>

\* From "loading" to "clearing", and "dropping" to "releasing", the actor holds the
\* read lock of `open'; Js is "aborting" in close_and_abort.
Reading == {"loading", "calling", "clearing", "dropping", "releasing"}
Steps == Reading \cup {"idle", "aborting"}
Natives == {"none", "open", "closing", "closed"}

TypeOK ==
    /\ open \in BOOLEAN
    /\ handles \subseteq Handles /\ raw \subseteq Handles
    /\ holders \in [Handles -> SUBSET Actors]
    /\ finalized \in [Handles -> Nat]
    /\ native \in [Handles -> Natives]
    /\ count \in [Handles -> Nat]
    /\ queue \in [Handles -> Nat]
    /\ made \in [Handles -> Nat] /\ dispatched \in [Handles -> Nat]
    /\ dropped \in [Handles -> Nat]
    /\ env \in {"running", "hooks", "closing", "gone"}
    /\ at \in [Actors -> Steps]
    /\ cur \in [Actors -> Handles \cup {NoHandle}]
    /\ \A a \in Actors : at[a] \in Reading => cur[a] \in Handles
    /\ \A a \in Threads : at[a] # "aborting"

Init ==
    /\ open = TRUE
    /\ handles = {} /\ raw = {}
    /\ holders = [h \in Handles |-> {}]
    /\ finalized = [h \in Handles |-> 0]
    /\ native = [h \in Handles |-> "none"]
    /\ count = [h \in Handles |-> 0]
    /\ queue = [h \in Handles |-> 0]
    /\ made = [h \in Handles |-> 0]
    /\ dispatched = [h \in Handles |-> 0]
    /\ dropped = [h \in Handles |-> 0]
    /\ env = "running"
    /\ at = [a \in Actors |-> "idle"]
    /\ cur = [a \in Actors |-> NoHandle]

Goto(a, step, h) == at' = [at EXCEPT ![a] = step] /\ cur' = [cur EXCEPT ![a] = h]
Return(a) == Goto(a, "idle", NoHandle)
One(f, h) == [f EXCEPT ![h] = @ + 1]

\* The event loop turns: the environment's thread is in no Rust code.
JsIdle == at[Js] = "idle"
NoReader == \A a \in Actors : at[a] \notin Reading

-----------------------------------------------------------------------------
(* create_with_dispatch, under the read lock: on Js, so that no writer waits. *)

Fresh(h) == native[h] = "none" /\ finalized[h] = 0 /\ holders[h] = {}

Create(h) ==
    /\ JsIdle /\ env = "running" /\ open
    /\ Fresh(h)
    /\ native' = [native EXCEPT ![h] = "open"]
    /\ count' = [count EXCEPT ![h] = 1]
    /\ raw' = raw \cup {h}
    /\ handles' = handles \cup {h}
    /\ holders' = [holders EXCEPT ![h] = {Js}]
    /\ UNCHANGED <<open, finalized, queue, payVars, env, actVars>>

\* The Node-API object cannot be made: the context is dropped and runs its finalizer.
CreateFails(h) ==
    /\ JsIdle /\ env = "running" /\ open
    /\ Fresh(h)
    /\ finalized' = One(finalized, h)
    /\ UNCHANGED <<lifeVars, raw, holders, nodeVars, payVars, env, actVars>>

\* A weak function that cannot be unreferenced is aborted before it is registered.
UnrefFails(h) ==
    /\ JsIdle /\ env = "running" /\ open
    /\ Fresh(h) /\ h \in Weak
    /\ native' = [native EXCEPT ![h] = "closing"]
    /\ UNCHANGED <<lifeVars, tsfnVars, count, queue, payVars, env, actVars>>

\* ManagedTsfn::clone, moved to another thread.
Share(h, a) ==
    /\ holders[h] # {} /\ a \notin holders[h]
    /\ holders' = [holders EXCEPT ![h] = @ \cup {a}]
    /\ UNCHANGED <<lifeVars, raw, finalized, nodeVars, payVars, env, actVars>>

\* A ManagedTsfn is Send: it is handed over, with no clone made.
Move(h, a, b) ==
    /\ at[a] = "idle" /\ a \in holders[h] /\ b \notin holders[h]
    /\ holders' = [holders EXCEPT ![h] = (@ \ {a}) \cup {b}]
    /\ UNCHANGED <<lifeVars, raw, finalized, nodeVars, payVars, env, actVars>>

-----------------------------------------------------------------------------
(* ManagedTsfn::call *)

\* Faulty variant: the state of the lifecycle is not looked at.
BeginCallAlways(a, h) ==
    /\ at[a] = "idle" /\ a \in holders[h]
    /\ a = Js => env # "gone"
    /\ made[h] < MaxCalls
    /\ made' = One(made, h)
    /\ Goto(a, "loading", h)
    /\ UNCHANGED <<lifeVars, tsfnVars, nodeVars, dispatched, dropped, env>>

\* with_open: a closed lifecycle gives the value back to be dropped.
BeginCall(a, h) ==
    /\ at[a] = "idle" /\ a \in holders[h]
    /\ a = Js => env # "gone"
    /\ made[h] < MaxCalls
    /\ made' = One(made, h)
    /\ IF open THEN Goto(a, "loading", h) /\ UNCHANGED dropped
               ELSE dropped' = One(dropped, h) /\ UNCHANGED actVars
    /\ UNCHANGED <<lifeVars, tsfnVars, nodeVars, dispatched, env>>

LoadRaw(a) ==
    /\ at[a] = "loading"
    /\ IF cur[a] \in raw THEN Goto(a, "calling", cur[a]) /\ UNCHANGED dropped
                         ELSE Return(a) /\ dropped' = One(dropped, cur[a])
    /\ UNCHANGED <<lifeVars, tsfnVars, nodeVars, made, dispatched, env>>

\* Faulty variants: a call that is refused is made again, or its payload stays boxed.
NativeCallRetries(a) ==
    LET h == cur[a]
        accepted == native[h] = "open" /\ queue[h] < MaxQueue IN
    /\ at[a] = "calling" /\ accepted
    /\ queue' = One(queue, h)
    /\ Return(a)
    /\ UNCHANGED <<lifeVars, tsfnVars, native, count, payVars, env>>
NativeCallLeaks(a) ==
    LET h == cur[a]
        closing == native[h] # "open" /\ count[h] > 0 IN
    /\ at[a] = "calling"
    /\ queue' = IF native[h] = "open" /\ queue[h] < MaxQueue THEN One(queue, h) ELSE queue
    /\ count' = IF closing THEN [count EXCEPT ![h] = @ - 1] ELSE count
    /\ IF closing THEN Goto(a, "clearing", h) ELSE Return(a)
    /\ UNCHANGED <<lifeVars, tsfnVars, native, made, dispatched, dropped, env>>

\* napi_call_threadsafe_function, nonblocking: a closing function takes one from its
\* thread count and answers napi_closing, or napi_invalid_arg when none is left.
NativeCall(a) ==
    LET h == cur[a]
        accepted == native[h] = "open" /\ queue[h] < MaxQueue
        closing == native[h] # "open" /\ count[h] > 0 IN
    /\ at[a] = "calling"
    /\ queue' = IF accepted THEN One(queue, h) ELSE queue
    /\ dropped' = IF accepted THEN dropped ELSE One(dropped, h)
    /\ count' = IF closing THEN [count EXCEPT ![h] = @ - 1] ELSE count
    /\ IF closing THEN Goto(a, "clearing", h) ELSE Return(a)
    /\ UNCHANGED <<lifeVars, tsfnVars, native, made, dispatched, env>>

\* Faulty variant: the pointer is kept, to be released again.
KeepRaw(a) ==
    /\ at[a] = "clearing"
    /\ Return(a)
    /\ UNCHANGED <<lifeVars, tsfnVars, nodeVars, payVars, env>>

\* After napi_closing the function no longer has a reference to release.
ClearRaw(a) ==
    /\ at[a] = "clearing"
    /\ raw' = raw \ {cur[a]}
    /\ Return(a)
    /\ UNCHANGED <<lifeVars, holders, finalized, nodeVars, payVars, env>>

-----------------------------------------------------------------------------
(* TsfnHandle::drop *)

\* The last clone goes: in a closed lifecycle teardown owns the function.
DropClone(a, h) ==
    /\ at[a] = "idle" /\ a \in holders[h]
    /\ holders' = [holders EXCEPT ![h] = @ \ {a}]
    /\ IF holders[h] = {a} /\ open THEN Goto(a, "dropping", h) ELSE UNCHANGED actVars
    /\ UNCHANGED <<lifeVars, raw, finalized, nodeVars, payVars, env>>

\* unregister, then NativeTsfn::release swaps the pointer.
Unregister(a) ==
    LET h == cur[a] IN
    /\ at[a] = "dropping"
    /\ handles' = handles \ {h}
    /\ raw' = IF h \in handles THEN raw \ {h} ELSE raw
    /\ IF h \in handles \cap raw THEN Goto(a, "releasing", h) ELSE Return(a)
    /\ UNCHANGED <<open, holders, finalized, nodeVars, payVars, env>>

\* napi_release_threadsafe_function(release).
NativeRelease(a) ==
    /\ at[a] = "releasing"
    /\ count' = [count EXCEPT ![cur[a]] = @ - 1]
    /\ Return(a)
    /\ UNCHANGED <<lifeVars, tsfnVars, native, queue, payVars, env>>

-----------------------------------------------------------------------------
(* The environment's thread: dispatch, finalization and teardown. *)

\* call_js takes the payload out of its box and maps it.
Dispatch(h) ==
    /\ JsIdle /\ env = "running"
    /\ native[h] = "open" /\ queue[h] > 0
    /\ queue' = [queue EXCEPT ![h] = @ - 1]
    /\ dispatched' = One(dispatched, h)
    /\ UNCHANGED <<lifeVars, tsfnVars, native, count, made, dropped, env, actVars>>

\* Node closes a function that no thread refers to, after its queue.
NodeCloses(h) ==
    /\ JsIdle /\ env = "running"
    /\ native[h] = "open" /\ queue[h] = 0 /\ count[h] = 0
    /\ native' = [native EXCEPT ![h] = "closing"]
    /\ UNCHANGED <<lifeVars, tsfnVars, count, queue, payVars, env, actVars>>

\* finalize_tsfn: the weak reference clears the pointer if a clone, the registry or
\* a running call still has the NativeTsfn; what is queued is freed with a null env.
FinalizeTsfn(h) ==
    /\ JsIdle /\ env \in {"running", "closing"}
    /\ native[h] = "closing"
    /\ native' = [native EXCEPT ![h] = "closed"]
    /\ raw' = raw \ {h}
    /\ finalized' = One(finalized, h)
    /\ dropped' = [dropped EXCEPT ![h] = @ + queue[h]]
    /\ queue' = [queue EXCEPT ![h] = 0]
    /\ UNCHANGED <<lifeVars, holders, count, made, dispatched, env, actVars>>

EnvCleanup ==
    /\ JsIdle /\ env = "running"
    /\ env' = "hooks"
    /\ UNCHANGED <<lifeVars, tsfnVars, nodeVars, payVars, actVars>>

\* Node's own hook of each function.
NodeHook(h) ==
    /\ JsIdle /\ env = "hooks"
    /\ native[h] = "open"
    /\ native' = [native EXCEPT ![h] = "closing"]
    /\ UNCHANGED <<lifeVars, tsfnVars, count, queue, payVars, env, actVars>>

\* Faulty variant: teardown does not wait for calls and drops under way.
CloseAtOnce ==
    /\ JsIdle /\ env = "hooks" /\ open
    /\ open' = FALSE
    /\ Goto(Js, "aborting", NoHandle)
    /\ UNCHANGED <<handles, tsfnVars, nodeVars, payVars, env>>

\* close_and_abort: the write lock waits for every call and drop under way.
CloseLifecycle ==
    /\ JsIdle /\ env = "hooks" /\ open
    /\ NoReader
    /\ open' = FALSE
    /\ Goto(Js, "aborting", NoHandle)
    /\ UNCHANGED <<handles, tsfnVars, nodeVars, payVars, env>>

\* Faulty variant: the pointer is not swapped, so a function a call cleared is
\* released a second time.
AbortUnchecked(h) ==
    /\ at[Js] = "aborting" /\ h \in handles
    /\ handles' = handles \ {h}
    /\ raw' = raw \ {h}
    /\ count' = [count EXCEPT ![h] = @ - 1]
    /\ native' = IF native[h] = "open" THEN [native EXCEPT ![h] = "closing"] ELSE native
    /\ UNCHANGED <<open, holders, finalized, queue, payVars, env, actVars>>

\* Every drained function is released with abort.
AbortHandle(h) ==
    /\ at[Js] = "aborting" /\ h \in handles
    /\ handles' = handles \ {h}
    /\ raw' = raw \ {h}
    /\ count' = IF h \in raw THEN [count EXCEPT ![h] = @ - 1] ELSE count
    /\ native' = IF h \in raw /\ native[h] = "open" THEN [native EXCEPT ![h] = "closing"]
                                                   ELSE native
    /\ UNCHANGED <<open, holders, finalized, queue, payVars, env, actVars>>

AbortDone ==
    /\ at[Js] = "aborting" /\ handles = {}
    /\ Return(Js)
    /\ UNCHANGED <<lifeVars, tsfnVars, nodeVars, payVars, env>>

HooksDone ==
    /\ JsIdle /\ env = "hooks" /\ ~open
    /\ \A h \in Handles : native[h] # "open"
    /\ env' = "closing"
    /\ UNCHANGED <<lifeVars, tsfnVars, nodeVars, payVars, actVars>>

LoopCloses ==
    /\ JsIdle /\ env = "closing"
    /\ \A h \in Handles : native[h] \in {"none", "closed"}
    /\ env' = "gone"
    /\ UNCHANGED <<lifeVars, tsfnVars, nodeVars, payVars, actVars>>

-----------------------------------------------------------------------------
Calling(a)  == LoadRaw(a) \/ NativeCall(a) \/ ClearRaw(a)
Dropping(a) == Unregister(a) \/ NativeRelease(a)
Teardown == CloseLifecycle \/ AbortDone \/ HooksDone \/ LoopCloses

Next ==
    \/ \E h \in Handles : \/ Create(h) \/ CreateFails(h) \/ UnrefFails(h) \/ Dispatch(h)
                          \/ NodeCloses(h) \/ FinalizeTsfn(h) \/ NodeHook(h) \/ AbortHandle(h)
    \/ \E h \in Handles, a \in Actors : Share(h, a) \/ BeginCall(a, h) \/ DropClone(a, h)
    \/ \E h \in Handles, a \in Actors, b \in Actors : Move(h, a, b)
    \/ \E a \in Actors : Calling(a) \/ Dropping(a)
    \/ EnvCleanup \/ Teardown

Spec == Init /\ [][Next]_vars

-----------------------------------------------------------------------------
(* The inductive invariant. *)

InCall(h) == {a \in Actors : at[a] \in {"loading", "calling"} /\ cur[a] = h}
Clearing(h) == {a \in Actors : at[a] = "clearing" /\ cur[a] = h}
Releasing(h) == {a \in Actors : at[a] = "releasing" /\ cur[a] = h}
Using(h) == \E a \in Actors : at[a] \in Reading /\ cur[a] = h
DroppedBy(a, h) == at[a] \in {"dropping", "releasing"} /\ cur[a] = h

\* What the state of the lifecycle says of the environment.
Lifecycle ==
    /\ ~open => NoReader
    /\ env = "running" => open
    /\ at[Js] = "aborting" => env = "hooks" /\ ~open
    /\ env \in {"closing", "gone"} => ~open /\ \A h \in Handles : native[h] # "open"
    /\ ~open /\ at[Js] # "aborting" => handles = {}
    /\ env = "gone" => \A h \in Handles : native[h] \in {"none", "closed"}

\* A caller holds its handle; the last handle is dropped by one actor.
Handling ==
    /\ \A a \in Actors : at[a] \in {"loading", "calling", "clearing"} => a \in holders[cur[a]]
    /\ \A a \in Actors, h \in Handles : DroppedBy(a, h) =>
           holders[h] = {} /\ \A b \in Actors : DroppedBy(b, h) => b = a

\* While the lifecycle is open a function is registered exactly as long as someone
\* has a handle of it, or is about to unregister it.
Registered ==
    /\ raw \subseteq handles
    /\ \A h \in Handles : native[h] = "none" => h \notin handles /\ holders[h] = {} /\ ~Using(h)
    /\ \A a \in Actors : at[a] = "releasing" => cur[a] \notin handles
    /\ \A a \in Actors : at[a] \in Reading \ {"releasing"} => cur[a] \in handles
    /\ \A h \in Handles : open /\ holders[h] # {} => h \in handles
    /\ \A h \in handles : open /\ holders[h] = {} => \E a \in Actors : at[a] = "dropping" /\ cur[a] = h
    /\ env = "running" => \A h \in handles : h \in raw /\ native[h] = "open" /\ Clearing(h) = {}

\* Nobody uses a function once it is closed, nor before teardown once it closes.
Quiet ==
    \A h \in Handles : native[h] = "closed" \/ (native[h] = "closing" /\ env = "running")
                       => h \notin handles /\ ~Using(h)

\* The one reference of a function is given back once: by the last handle, by
\* teardown, or by a call that was told it is closing.
OneReference ==
    \A h \in Handles :
        count[h] = IF (h \in raw /\ Clearing(h) = {}) \/ Releasing(h) # {} THEN 1 ELSE 0

Finality ==
    \A h \in Handles : /\ native[h] \in {"open", "closing"} => finalized[h] = 0
                       /\ native[h] = "closed" => finalized[h] = 1
                       /\ finalized[h] \in {0, 1}

Inductive == TypeOK /\ Lifecycle /\ Handling /\ Registered /\ Quiet /\ OneReference /\ Finality

-----------------------------------------------------------------------------
(* Properties. *)

\* No thread is inside Node-API with a function that was closed and freed, and no
\* pointer to such a function is left to be loaded, though a function is finalized
\* on its environment's thread without taking the lock that calls hold.
NoUseAfterFree ==
    /\ \A h \in raw : native[h] \in {"open", "closing"}
    /\ \A a \in Actors : at[a] \in {"calling", "clearing", "releasing"}
                           => native[cur[a]] \in {"open", "closing"}

\* A function whose last handle is gone does not keep the event loop alive.
DroppedIsReleased ==
    \A h \in Handles :
        open /\ holders[h] = {} /\ (\A a \in Actors : cur[a] # h) => count[h] = 0

\* Every boxed payload is freed once: by its call, by dispatch, or with the queue.
PayloadsFreedOnce ==
    \A h \in Handles :
        made[h] = queue[h] + dispatched[h] + dropped[h] + Cardinality(InCall(h))

\* A context is finalized at most once, and always before the environment is gone.
FinalizedOnce ==
    \A h \in Handles : /\ finalized[h] <= 1
                       /\ env = "gone" /\ native[h] # "none" => finalized[h] = 1

\* Calls implement the abstract channel: nothing is accepted behind a closed gate.
Phase(h) == CASE native[h] = "none" -> IF finalized[h] = 0 THEN "absent" ELSE "final"
              [] native[h] = "closed" -> "final"
              [] OTHER -> native[h]
Channel == INSTANCE TsfnSpec WITH gate <- open, phase <- [h \in Handles |-> Phase(h)],
                                  inbox <- queue, delivered <- dispatched
ImplementsTsfnSpec == Channel!Spec
=============================================================================
