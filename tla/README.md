# Verification of dynwinrt

TLA+ models of the concurrent core of dynwinrt, the TLC configurations that
model-check them, and TLAPS proofs about them. dynwinrt lets JavaScript and Python
call Windows Runtime (WinRT), COM and flat Win32 APIs from metadata. Most of it is
data: types, layouts, conversions. What a test hardly reaches is the rest: native
threads that complete work while a language runtime, an event loop and a teardown
go on. That is what is modelled here.

Paths are relative to the repository (`crates/...`, `bindings/...`). `PROJECT.json`
maps every definition to its lines.

## 1. Inventory

### The parts and how they interact

| Part | State | Operations | Interacts with |
| --- | --- | --- | --- |
| Node promise dispatcher, `bindings/js/src/async_promise.rs` | per promise: operation, result, `settled`, `fallback_queued`, deferred; per environment: registry, event-loop reference, dispatcher queue registration, worker pool, shared threadsafe function, `closing` | toPromise, completion handler, route, queue and threadsafe callbacks, settle, abandon, environment cleanup | WinRT threads, result workers, `DispatcherQueue`, scheduled starts, Node-API |
| Scheduled start, `bindings/js/src/scheduled_start.rs` | the start that is scheduled or running, its queue registration | schedule, run `Application.Start`, return, shutdown events of the queue | blocks the node loop: completions must take the queue |
| Rust futures, `crates/dynwinrt/src/dasync.rs` | waker, `cancel_on_drop`, `defer_get_results` | poll, completion handler, drop, `set_async_completed_handler` | the operation's one completion handler; used by the Node promises, the Python runtime and Rust |
| Native OVERLAPPED I/O, `crates/dynwinrt/src/win32_io.rs` | registry of boxed operations, cancellations, capacity, completion channel | prepare, submit, cancel, completion worker, record | Windows' completion port; resources |
| Win32 resources, `crates/dynwinrt/src/win32_resource.rs` | handle, retained leases, active calls | lease, call (borrow, consume, mutate), close | Win32 calls; the I/O engine |
| Threadsafe functions, `bindings/js/src/managed_tsfn.rs` | the gate `open` of an environment, its handles, the raw function of each | create, call, clone, drop, finalize, teardown | Node-API, all code that calls JavaScript from a native thread |
| OVERLAPPED delivery, `bindings/js/src/win32_io.rs` | registrations, retained Buffers, relay thread | start, cancel, relay, callback, finalizer | composes the I/O engine with a threadsafe function per operation |
| COM completions, `crates/dynwinrt/src/com_completion.rs`, `bindings/js/src/com_completion.rs` | publication and notification of a one-shot activation | start, publish, complete, dispatch, finalize, close | threadsafe functions; apartments |
| Python async runtime, `bindings/py/src/async_runtime.rs` | coroutine state, execution state, progress dispatcher | send, throw, close, await, wait, progress, stop, cancel | asyncio, Tokio, Rust futures |
| Python callback gate, `bindings/py/src/runtime.rs` | callbacks in flight, closed flag, owner threads | enter, leave, shutdown, drop on a foreign thread | every Python callback, the interpreter's end |
| WinRT implementations, `crates/dynwinrt/src/winrt_implementation/` | per object: Arc count, weak references, the callback in its Control | query, release, dispatch, disconnect, weak resolve | native consumers on any thread |
| their Python owners, `bindings/py/src/implementation.rs` | the controller in its lease, the cell that holds the handler, the registry of cells, `stopping` | create, to_value, release, disconnect, dispose, collect, invoke, shutdown | the object, the callback gate, the interpreter's lock and finalizers |
| Win32 calls, `crates/dynwinrt/src/win32.rs`, `win32_aggregate.rs`, `win32_result_cleanup.rs` | locks of the resources of a call, owned results | lock, call, hand over, clean up and retry | resources |
| Win32 subsystems, `bindings/js/src/win32_subsystem.rs` | counted leases, pending rollback | open, call under a lease, close | Winsock, GDI+, Media Foundation, MAPI |
| Collections, `crates/dynwinrt/src/vector.rs`, `map.rs` | elements, change handlers, iterators | mutators, iteration, events that re-enter | native consumers |
| Delegates and callbacks | a reference count, the language callback | Invoke | threadsafe functions, or directly on the owner's thread |
| Metadata table, values, native calls, classic COM, contracts, XAML and composition, code generator, language runtimes, module glue | tables that only grow, or none | conversion and marshalling | not modelled, see 7 |

Everything that JavaScript hears from a native thread goes through one of three
channels: a promise of the dispatcher, a managed threadsafe function of its own
(OVERLAPPED delivery, COM completions, delegates), or, while a WinUI loop blocks
libuv, a callback of the thread's `DispatcherQueue`. Each of them is torn down by
the environment's cleanup hooks while native threads may still be using it.

### What is hard, and what makes each part correct

- **Promises.** Two completions of one promise, four routes to JavaScript and a
  teardown reach for one deferred from four kinds of thread. It must be settled at
  most once, with the first completion; a stored completion must always be on its
  way; the event loop must stay alive exactly while a promise is not settled; a
  closed environment retains nothing. An operation that was taken from its promise to be
  completed elsewhere must end it, one way or the other.
- **Futures.** Windows takes one handler for an operation and may run it between any
  two steps of a poll. No wakeup may be lost, also when the future moves.
- **I/O.** Windows writes into a buffer that Rust owns. The buffer, the file and the
  registration must outlive the operation; a cancellation names an address that may
  have been reused; it races submission; the accounts of a bounded capacity are kept
  on a dozen of paths.
- **Threadsafe functions.** A use of the function after Node closed it is a use after
  free, releasing it twice corrupts the thread count, never releasing it keeps the
  loop alive. Payloads belong to exactly one side.
- **Delivery.** The record may overtake the return of the call that submitted it;
  a start may fail after its registration; the environment may close meanwhile.
- **COM completions.** The native completion may come before the activation is
  published, twice, or while the apartment pumps inside the activation, where JavaScript
  starts another one or the environment closes. Exactly one notification is due, after
  publication, and only while the record is there.
- **Implemented objects.** A native call runs Python code through an object that another
  thread, its own handler, the collector or shutdown may be disconnecting. Dropping a
  handler runs a finalizer, which may enter the owner again. The handler must outlive
  the calls that were accepted, and nothing else; the count must return to zero once.
- **The callback gate.** A native thread looks at a flag, takes a permit and attaches to
  an interpreter that may be ending. After shutdown has said so, nobody may be inside.
- **Planned parts.** See 6.

PROJECT.json, "hazards", lists each of these at its line with the properties that
cover it; those without a property name the part of the plan they wait for.

## 2. The modules

| Module | Models | Lines of code |
| --- | --- | --- |
| `AsyncPromise` | promise dispatcher, result workers, DispatcherQueue route, scheduled start, teardown | `bindings/js/src/async_promise.rs`, `scheduled_start.rs` |
| `Win32Io` | OVERLAPPED engine, cancellations, capacity, resource leases, calls, close | `crates/dynwinrt/src/win32_io.rs`, `win32_resource.rs` |
| `ManagedTsfn` | managed threadsafe functions and their teardown | `bindings/js/src/managed_tsfn.rs` |
| `OverlappedDelivery` | start, relay, callback, finalizer; composes `ManagedTsfn` | `bindings/js/src/win32_io.rs` |
| `AsyncFuture` | Rust futures over one operation | `crates/dynwinrt/src/dasync.rs` |
| `ComCompletion` | one-shot COM activations: reservation, signal, dispatch, closing; composes `ManagedTsfn` | `com_completion.rs` of `crates/dynwinrt/src` and of `bindings/js/src` |
| `CallbackGate` | callbacks in flight against shutdown | `bindings/py/src/runtime.rs` |
| `WinRtObject` | an implemented object: references, weak references, dispatch, disconnection | `crates/dynwinrt/src/winrt_implementation/mod.rs`, `identity.rs` |
| `PyImplementation` | its Python owner, handler, collector and shutdown; extends `WinRtObject` and composes `CallbackGate` | `bindings/py/src/implementation.rs` |
| `PromiseSpec`, `IoSpec`, `TsfnSpec`, `DeliverySpec`, `ActivationSpec`, `ImplementedObject` | what each promises, without threads | |
| `MC...` | symmetry and small functions for TLC | |
| `...Proofs` | the theorems of each component (those of `CallbackGate`, few, are at its end) | |

`OverlappedDelivery` has an `INSTANCE` of `ManagedTsfn` with one function per
operation; every step of it that touches a function is a step of that instance.
The I/O engine appears in it through what `Win32Io` shows (an accepted submission
publishes at most one record, and a cancelled one comes back), the futures of
`AsyncFuture` in `AsyncPromise` through `set_async_completed_handler`.

Definitions called `Faulty` in a comment (`StoreOverwrites`, `SendForgets`, ...) are
plausible mistakes in the action that follows them. Each property is run against one:
replacing the action by its faulty form must break the property. They are never
part of `Next`.

### AsyncPromise

The actors are the WinRT threads that run completion handlers, the result workers
and `JS`, the environment's thread. Each has a program counter `pc` at the next lock
region or atomic access of `complete()`, `route_completion()`, `queue_fallback()` or
`abandon()`, so that the check-then-act windows of the code are steps: the queue's
`accepting` flag is read and the state inserted under the lock (`Insert`),
`TryEnqueue` is called after it is released (`TryEnqueue`), and a refused state is
removed under the lock again (`RemovePending`). `settled` and `fallback_queued` are
the atomics `swap`ped in the code: who reads false has the claim.

`JS` runs one thing at a time. While it settles a promise, JavaScript microtasks
may run (`pc = "micro"`, inside the callback scope): they may create promises,
capture a queue or unregister one before `finish_promise()` looks at the registry.
Unregistering drains the queue's promises then and there, so that settlements run inside the
settlement (`pc = "nested"`, the drained promises in `inner`), while a drain further out may
wait with `todo`. A callback scope closed inside another one runs no microtasks (Node runs
them when the outermost scope closes), so the inner settlements deregister at once
(`Deregister`) and there are no deeper levels. JavaScript may unregister the queue from the
libuv loop, from the WinUI loop and from microtasks (`UnregisterQueue`,
`UnregisterFromMicrotask`).
`loop` says whether JS is in libuv or in a WinUI message pump, where threadsafe
functions are not dispatched and DispatcherQueue callbacks are.

External and therefore nondeterministic: `TryEnqueue` may refuse at any time; a queue
that shuts down runs the callbacks it accepted before `ShutdownCompleted`; Node calls
the environment's cleanup hook only from its own loop; with `NapiCanFail` any Node-API
call may fail. The model has one scheduled start outstanding at a time.

### Win32Io

`pc[o]` follows the storage of an operation through `prepare`, `submit` and the
completion worker. The registry's mutex is held from registration to the outcome of the
native call, as in `submit()`; `box` is the heap address of the boxed operation, taken
from a small pool (`Addrs`), so that an address is reused as soon as it is free.
`CancelNative` passes the address in `NativeControl` to `CancelIoEx`, which aborts
whatever Windows performs at this address (`ptr`): that it is never another operation is
a property, not an assumption. Windows completes an operation at once, later, or not at
all, posts a packet unless the file skips packets on success (`skip`, which a mutating
call changes; a submission reads it in `Register`, Windows in `StartIo`), and packets
are taken by any worker while the submitter may not have returned.

### ManagedTsfn

An actor that calls holds the read lock of `open` from `BeginCall` to its return; the
raw pointer is loaded, used and perhaps cleared inside it. Node's side is external:
`native`, the thread `count` and the `queue`. Cleanup hooks run in an order the code
does not control: Node's own hook on a function, and the lifecycle's, in any order;
functions are finalized from then on. A drop takes the lock and unregisters once the
last `Arc` is gone; `Move` hands a handle to another thread, `Share` clones it.

### OverlappedDelivery

The environment's thread is at one `step` of `start()` or of a retirement, for one
`op`; the relay thread is at one record (`relaying`). The map of registrations is a
passive actor, `Registry`, that holds one handle of every registered function. Between
the steps of `start()` the record may arrive, a cancellation may be asked for and the
relay may call, but not the environment's own callbacks, which need its thread.

### AsyncFuture

`Futures` are all futures of one operation. A poll is `ReadStatus`, then either
`Register` (the first time) or `Update` and `Recheck`; Windows may end the operation
and run the handler in between. A value may be awaited several times and
`set_async_completed_handler` competes for the handler, which Windows gives once.
A future may be polled with another waker each time (it moved to another task).

### ComCompletion

`stack` holds the activations inside `start_with_plan()`, innermost first: while the
native call of the first one pumps the apartment, JavaScript and the event loop run, and
may start another. `phase` is where each one is. The closure in a signal owns the handle of
the threadsafe function; it is the passive actor `Closure`, and the thread that takes
`notify` out of the signal moves the handle to itself (`doing`, `hand`) before it calls
or drops it, as `advance()` does after it released the lock. A second completion finds
the signal completed. `Dispatch`, `Finalize` and `CloseOwner` are the three ways a record
leaves `OWNERS`; `toClose` are the signals that closing has still to close outside the
borrow of the map. A call that Node refuses although
the function is open (`EnqueueFails`) is the one step that `ManagedTsfn` does not have.

### CallbackGate, WinRtObject, PyImplementation

`WinRtObject` gives each thread a stack of calls, since here one thing runs inside
another: the last `Release` destroys the `Host`, which disconnects, which drops the
callback, whose finalizer may call the object. `strong` is the `Arc` count, `refs` what
native code of each thread owns of it, `slot` the objects whose `Control` still has a
callback. `Dispatch` pins the `Host`, `Accept` is `Control::callback()` with its check of the
thread, `Unpin` the end of the block; `Resolve` upgrades a weak reference and may find no
interface. Weak references are agile and are kept as long as anybody likes, so
`weakRequested` stands for the flag and for their existence.

`PyImplementation` puts the Python owner on top. `gil` is the thread that has the
interpreter's lock, which may change hands wherever Python code runs and nowhere else
(`InPython`). An operation of the owner is a frame: it upgrades its weak reference to the
cell (`root`), leases the controller out of its Mutex, disconnects or releases, puts the
controller back and only then drops the root. `Held` says whether anybody keeps the
handler: a cell that is full and reachable, a call that cloned it, or the creation.
When it becomes false, the finalizer is due at once if the thread has the interpreter's
lock (no other step of that thread comes first), and goes into PyO3's pool otherwise.
A finalizer is Python code and may do what Python code does, dispose the owner included.
Each pass through `with_python_callback` is a call of the `CallbackGate` instance, named by
thread and stack depth. `StopRuntime` and `ClearCell` are the two halves of
`InterpreterState::shutdown`, run by `shutdown_python_callbacks` after the gate is shut or by
`atexit` in either order with the gate's own hook.

A new value is tracked by a Python function (`_dynwinrt_track_native`), during which the
lock may change hands and finalizers run. `to_value` calls it with the controller leased:
the frame `to_value` keeps the lease until `ToValueEnds`, so a `dispose` or `release` by
whoever runs meanwhile is refused ("an active native operation"), and a refused operation
changes nothing. `create` does it after the object was built and registered, holding its
`Arc` of the cell and the owner that it is going to return (the frame `created`). When tracking
fails `to_value` releases the value, and `create` drops the owner: that may happen
as the next step of anybody who holds them.

## 3. Runs

| Run | Instance | Distinct states | Shows |
| --- | --- | --- | --- |
| `promise_safety` | 2 promises, 1 WinRT thread, 1 worker, channel of 1 | 3.21 M | one settlement per promise, no completion and no operation lost, the loop referenced while a promise is pending |
| `promise_liveness` | 1 promise, Node-API may fail, fairness | 71 k | `PromiseSpec` is implemented, the first completion wins, WinUI does not starve a queued promise, teardown ends |
| `io_safety` | 2 operations on a file, 2 addresses, 2 workers, 1 caller | 126 k | Windows never works on freed storage or a closed file; a cancellation hits its own operation, and hits it; no operation waits for a packet that its file skips |
| `io_capacity` | 3 operations, one larger, limits of 2 and 2, 1 address | 737 k | the accounts of operations and bytes are exact on every path |
| `io_liveness` | 2 operations, 1 worker, fairness | 151 k | `IoSpec` is implemented; a cancelled operation comes back |
| `tsfn_safety` | 2 functions (one weak), 2 threads, 2 calls, queue of 1 | 195 k | no use after free, one reference, payloads freed once, `TsfnSpec` is implemented |
| `delivery` | 2 operations, fairness | 17.7 k | the loop alive until the callback, teardown releases, `DeliverySpec` is implemented, a cancelled operation answers |
| `future` | 2 futures, one deferred, 2 wakers, fairness | 69 k | no wakeup is lost, an await ends, only a future that answered a failure cancels late |
| `future_cancel` | 2 futures, 1 waker | violated | see 5 |
| `completion` | 2 activations, 2 Windows threads, fairness | 87 k | one notification, after publication and with its record there; `ActivationSpec` is implemented; what completed is settled; teardown ends, that of the threadsafe functions included |
| `implementation` | 1 object, 2 threads, stacks of 2, 1 reference for each thread | 465 k | references balance, Python finds an owner busy only while `to_value` tracks a value, a shut gate stays shut, shutdown disarms every cell, the collector is wrong about objects with a weak reference only, `ImplementedObject` is implemented; no deadlock |
| `implementation_gc` | the same | violated | see 5 |

Why the bounds are enough for what they are for:

- Two promises are needed for the registry and the drained sets to hold one while
  another is settled; with a third nothing new can relate, since the code relates
  promises only through those sets. One WinRT thread and one worker with `JS` make
  three actors that can be inside the routing code at once; the channel of one is
  full with one job (the code has 256).
- Two operations and two addresses let an address be reused while a late cancellation
  still holds it; one address in `io_capacity` forces reuse. Three operations against
  limits of two reach the limit with one waiting.
- `MaxCalls` = 2 per function lets one call be queued (`MaxQueue` = 1) and another be
  refused; in `OverlappedDelivery` 2 is one more than the relay should ever make.
- Two wakers let a handler wake the wrong one.
- Two activations let one start inside the other; two Windows threads complete one twice.
- One object is enough in `PyImplementation`: objects share only the gate, the registry
  and the interpreter's lock, and nothing compares two. A stack of 2, plus a
  disconnection on top (which needs no room), is a handler that disposes its own owner, a
  creation inside a handler, or an operation whose disconnection runs a finalizer. A
  finalizer that finds no room does nothing. Each thread owns at most one reference
  beside its pins; two threads with one each, the owner and the pins reach five.

Deadlock checking is on in `implementation`. It is off in the other runs: an environment
that closed, or a set of operations that were all consumed, is a final state of the
system. That nothing stops early is what the liveness runs say.
Symmetry is used only in runs without liveness; `ManagedTsfn_safety` checks a
refinement without fairness, and permutes the threads only.

### Fairness

- A native thread or a worker inside a routine goes on (weak fairness on its steps). A
  lock is held for finitely many steps, so a step that needs one is strongly fair
  where others may take it again and again.
- Microtasks end, whatever they call: `FinishPromise` is strongly fair, since a microtask
  may unregister the queue, and capture it again, any finite number of times.
- An event loop that is asked again and again runs a callback that is ready again and
  again (strong fairness on `TsfnCallback`, `Dispatch`, finalizers, hooks): the loop may
  be busy with other callbacks in between. `RunQueueCallback` is fair while WinUI pumps.
- Windows completes an operation that is being aborted, and runs the handler of an
  operation that ended. It need not complete anything else, and callers need not
  cancel, close or await anything.
- Nobody need end the application's loop: `SettledUnderWinUI` holds without it.
- A task polls again when the waker of its last poll was woken, and not otherwise.

## 4. Proofs

Every theorem is of the form `Spec => []Inv`, `Spec => [][A]_vars` or
`Spec => Abstract!Spec`, for any values of the constants that satisfy the module's
`ConstantsAssumption` (finiteness of the sets that are counted, distinct model values,
natural limits): nothing else is assumed. The argument is always an inductive
invariant, `Inductive`, first checked by TLC and then proved step by step, one lemma per
part of the invariant with a step per action. The properties follow from it. `PROJECT.json`, "theorems", lists
what each establishes.

- **AsyncPromise.** `SettleOnce` is not inductive. What makes it so is who holds the
  claim: `ClaimInv` says that a thread about to discard or deliver a promise is the
  only one, and that an unclaimed promise is pending. `RouteInv`: what is in a queue
  still has its completion. `FallbackInv`, `RegistryInv` and `ScopeInv`: a threadsafe call
  that was claimed is under way, the registry is the set of pending promises plus the
  one whose callback scope is closing, and that scope is left only through
  `finish_promise()` -- the part that re-entrant JavaScript makes necessary.
  `CloseInv`, `TodoInv`, `EmptyInv` and `RetainInv` follow teardown. `OperationCarried` is inductive
  with those about claims, routes and closing: each step that takes an operation, a job or a
  result leaves something in its place (`CarriedStep`). Proved: types, one
  settlement, no lost completion, no lost operation, the loop kept alive, nothing retained,
  first completion wins, and the refinement of `PromiseSpec`.
- **Win32Io.** Counters equal the number of operations in certain places (`Counted`; the
  proof counts finite sets), boxes are distinct and registered exactly from `Register`
  to the removal (`Boxes`, `Registry`), a call that changes a resource excludes
  leases (`Calls`), what Windows has is one submitted operation at the address it was
  given (`Windows`), what `submit()` left to Windows is still there or its packet is
  under way (`Expected`: this needs that a lease keeps the skip mode from changing between
  the look and the call), and a flagged cancellation either is about to act or has acted
  (`Cancellation`). Proved: types, storage, late cancellations, cancellations not
  lost, exact permits and bytes, one outcome, and the refinement of `IoSpec`. The bytes in
  use are counted as a set, that of the bytes of every buffer whose operation has a
  permit (`HeldBytes`): a buffer of n bytes adds or removes a block of n, and the
  theorems about finite sets do the sum.
- **ManagedTsfn.** A closed gate has no reader; an open one registers exactly the
  functions somebody holds; a function that closes is used by nobody; its thread count
  is one exactly while the raw pointer is there or its taker is about to release it.
  `PayloadsFreedOnce` counts payloads against the callers that carry them (the lemma
  `CallsMove`). Proved: types, no use after free, one reference, payloads, finalization,
  and the refinement of `TsfnSpec`.
- **OverlappedDelivery.** `UsesTsfn` proves `Spec => Tsfn!Spec`, so the theorems of
  `ManagedTsfn` hold in the composition and are cited. Its own invariant relates the two
  sides: who has a handle of each function (`HoldersKnown`), where its record is
  (`RecordsKnown`) and why its Buffer is retained (`PendingKnown`). Proved: types, one
  callback, failed starts, the loop kept alive, teardown, and the refinement of
  `DeliverySpec`.
- **ComCompletion.** Its steps are those of `ManagedTsfn`, whose invariant is taken over,
  and `EnqueueFails`, which is shown to keep it (`RefusedStep`). `StackKnown`: the
  activations inside `start_with_plan()` are those of the stack, and all but the innermost
  are inside their native call, so whatever the event loop runs there finds no other
  half-way. `RecordKnown`: a promise runs exactly as long as its record is there.
  `HandKnown` and `CallKnown`: the closure is in one place and its payload too, hence
  there is one call. `FlightKnown` makes `NotificationFindsRecord` inductive: not only
  a queued notification has a record to find, but every call under way, every closure
  taken to be called, and every published signal that still has one. Proved: types, no
  use after free, both safety properties, and the refinement of `ActivationSpec`.
- **CallbackGate.** The number in flight is the number of permits (`PermitsCounted`); a
  shut gate has its flag set and no permit out, and whoever holds a permit took it before.
  Proved: the gate, and the count, for any finite set of calls.
- **PyImplementation.** Its steps are first reduced to what they do to the stack of
  their thread: push a frame, replace the top, pop, or replace the top and push a
  disconnection; the invariants are preserved by these four shapes. `Base` bounds
  the stacks. `UsesGate` proves `Spec => Gate!Spec`: a call of the gate is named by thread
  and depth, so it has to be shown that no two frames share a name while one is in the gate;
  the theorems of `CallbackGate` then hold here. `LeaseInv`: the frame of an operation that disconnects or
  releases is at the top of its stack or just below its own disconnection, its thread has the
  interpreter's lock, no finalizer is due, and its root keeps the cell alive, or nothing
  does; it is the root that makes the invariant inductive, since without it
  the disconnection would drop the last reference to the handler and its finalizer
  would find the lease. `TrackInv` is the other kind of lease: while `to_value` tracks a
  value, its owner has its native reference and no other operation of that owner is under
  way. `DisarmInv`: a full cell that is alive is in the registry or on the
  list of a shutdown. `BalanceInv`: the count of each `Host` against the set of its
  users, each counted at its place (a pin at thread and depth, a reference at thread and
  number), with the calls that are creating an object distinct (`CreateInv`), so
  that a count starts once. `SoleInv`: from the moment a collector has seen the flag of an
  object its owner is leased, so the owner's reference stays; a count of one then has no
  room for another user (`SoleOwner`), and as every user but the resolution of a weak
  reference is made by one who has a reference, it stays one until the disconnection.
  Proved: types, the gate, when an owner is busy, disarmed cells, the balance of references and
  `SoleUnlessWeak`, for any number of objects, threads and nested calls.
- **The refinement of ImplementedObject** (the last part of `PyImplementationProofs`).
  `Spec => ImplementsObject`, step by step. The counts of the
  abstract object are cardinalities of the places of its calls (`Number`), so a step that
  touches one place of one stack moves them by at most one. A step is `Calm` when it
  leaves both counts alone and gives up at most one handler; that is proved from the four
  shapes, and `SeenSteps` shows that every step is calm but nine, which map to `Capture`,
  `Connect`, `Accept`, `Start`, `Finish`, `Answer`, `Disconnect`, `Stop` and `GiveUp`. What is
  left is why a handler may be given up when it is: `SeenInv` says that a cell lacks its
  handler only before its object is created or once the interpreter is stopping, so
  whenever nobody keeps the handler (`NotHeld`) either that is so, or the object is
  disconnected and has no call.
- **AsyncFuture.** `WakersKnown`: a future that got beyond its registration has the
  handler, only a handler that is there was run, and between polls the waker the
  handler finds is that of the last poll. `EndsKnown`: a future that is ready answered
  what its last reading of the status saw, which no later step undoes, and is still
  armed only if that was a failure. Proved: types, no lost wakeup, `OutcomesAreTrue` and
  `OnlyFailuresCancelLate`.

Only model-checked: everything under fairness (`CleanupTerminates`, `SettledUnderWinUI`,
`CancelledComesBack`, `CancelledAnswers`, `AwaitEnds`, `CompletedSettles`), because the
prover has no rules for liveness here. Every invariant and every action property of a
passing run, and every refinement, is a theorem. The types of `AsyncFuture`, `ManagedTsfn`,
`OverlappedDelivery` and `PyImplementation` are proved only: they say nothing that a run
of a small instance would add to. `OutcomesAreTrue` is proved only as well.

Two conditions are worth knowing. `NoLostCompletion` and `LoopAliveWhilePending` hold
when Node-API calls succeed in an open environment; when one fails the code logs it
and gives the promise up, which `promise_liveness` allows. `OutcomeIsOne` gives an
accepted operation one record only while the receiver of the channel exists.

## 5. Findings

`future_cancel`. `cancel_on_drop` is documented as "Cancel the underlying WinRT operation
if this future is dropped while pending." (`crates/dynwinrt/src/dasync.rs:152`). Every
end of a poll that follows an end of the operation disarms it. A poll whose registration of the
completion handler fails (line 328) answers `Ready(Err)` and leaves it armed: the
drop of a future that is no longer pending cancels an operation that goes on and that
another future may be awaiting. The run TLC finds needs one
future: it reads that the operation goes on, somebody else gives the operation its
completion handler (`set_async_completed_handler`), the registration is refused, and the
future, which answered an error, is dropped and asks the operation to cancel. A reading of the status that
fails (lines 295, 318) leaves it armed as well. The Python runtime, which arms its
futures, makes one per operation object and shares it between awaits. This is all there is
of it: `OnlyFailuresCancelLate` says that of the futures that were ready only one that
answered a failure cancels, because a call failed or its handler was refused.

`implementation_gc`. `has_unique_native_reference()` is documented as "Conservative GC hint:
false when any other native owner may exist." (`crates/dynwinrt/src/winrt_implementation/mod.rs:200`).
It loads `weak_requested` and then the count. A native thread that owns a view may ask
for a weak reference and release the view between the two loads: both look clean, and the
weak reference resolves to an owner afterwards. `__clear__` then disconnects the object
under that owner. It takes a native alias that appears after `__traverse__`
(the case the comment at `bindings/py/src/implementation.rs:453` is about: a finalizer that
retains one). With the two loads in the other order, the count first, the property
holds on the same instance: a weak reference is then asked for before the flag is read,
or never by anybody but the owner. `SoleUnlessWeak` is the extent of it: about an
object whose weak reference nobody asked for the hint is never wrong, whatever native
code does between the loads.

## 6. Plan

Done in this order: `AsyncPromise`, the hardest part; `Win32Io`; `ManagedTsfn`, on which
the other channels rest; `OverlappedDelivery`, which composes the two;
`AsyncFuture`; `ComCompletion`, the last of the channels to JavaScript; `CallbackGate`, `WinRtObject` and
`PyImplementation`, the way from native code into Python. Next:

1. `PyAsync`: the coroutine driver (New, Suspended, Executing, Finished, Closed) with the
   lock that `begin_call` releases between reading New and storing Executing, `stop` and
   `cancel`, the execution state (Idle, Future, Blocking), the progress dispatcher's
   deactivation against native progress calls, composed with `CallbackGate`.
2. `Win32Call`: the locks of several resources in one order, owned results handed over or
   cleaned up, with the leases of the subsystems. To check: no deadlock for two calls with
   the same resources in either order, and a cleanup that can be retried.
3. Collections: versions seen by iterators, and handlers that remove themselves during
   a notification.

## 7. Not modelled

The data paths: metadata table (append-only, one lock per table, nothing called under
it), signatures, ABI layout and libffi calls, value conversions, classic COM
marshalling and its plans, contract crates, and the validation of implementation plans: they are
sequential and a model would restate their tables. XAML applications, composition and
module leases run on one UI thread and are mostly calls into Windows. The code
generator is a batch program from metadata to text. The language runtimes, samples,
benchmarks and scripts keep no state that matters here.

Apartment marshalling is not modelled: `AsyncPromise` lets a worker's GetResults end at
any time, so a GetResults that needs the JavaScript thread while teardown joins
workers is outside it.

Of the modelled parts: `PyImplementation` leaves out the record of the last error, the
quarantine of an owner that is dropped without a usable interpreter (`Drop` of
`DynWinRTImplementation`), and the JavaScript owner of the same crate objects. The end of
the interpreter itself is only the point from which `try_attach` may fail.
`ComCompletion` takes the descriptor, the call and the collection of its result as
succeeding or failing.

The share of the lines of the repository that the models stand for is small and will stay
so: the long files (classic COM in `crates/dynwinrt/src/com.rs` and its bindings, the
code generator, the Python wrappers of metadata and values in `runtime.rs`) are
descriptions, validation and marshalling without state between calls. What is
concurrent is in the files above.
