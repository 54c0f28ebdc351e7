-------------------------- MODULE PyImplementation --------------------------
(***************************************************************************)
(* WinRT objects implemented in Python, bindings/py/src/implementation.rs, *)
(* over WinRtObject and the CallbackGate: the owner that Python holds and  *)
(* leases to one operation at a time, the CallbackCell that shares one     *)
(* Python handler between the native callback and the collector, the       *)
(* registry that disarms every cell at shutdown, and the interpreter's     *)
(* lock, which changes hands wherever Python code runs.                    *)
(*                                                                         *)
(* A handler that loses its last reference is finalized: at once, before   *)
(* the thread goes on, if that thread holds the interpreter's lock, and    *)
(* otherwise (PyO3 keeps it in a pool) when a thread next attaches.        *)
(***************************************************************************)
EXTENDS WinRtObject

VARIABLES
    gil,        \* the thread that holds the interpreter's lock
    wrapper,    \* objects whose Python owner exists
    identity,   \* objects whose owner has its native reference
    cell,       \* CallbackCell.callback: absent, full or cleared
    final,      \* the finalizer of the handler: not due, "pool", "due", done
    registry,   \* InterpreterState.callbacks
    stopping,   \* InterpreterState.stopping
    shuttingDown, inFlight, shut, call   \* the gate

ownVars  == <<wrapper, identity>>
interpVars == <<registry, stopping>>
gateVars == <<shuttingDown, inFlight, shut, call>>
vars == <<objectVars, gil, ownVars, cell, final, interpVars, gateVars>>

\* A call of the gate is named by the frame that makes it.
Calls == Threads \X (1..MaxDepth)
Gate == INSTANCE CallbackGate
Self(t) == <<t, Len(stack[t])>>

\* The frames of this module; `root' tells whether the operation upgraded its Weak
\* reference to the cell, and `att' whether the callback had to take the lock.
OwnerOps == {"dispose", "disconnect_all", "release", "clear"}
IsOwnerOp(f) == f.op \in OwnerOps
ValueFrame(f) == f.op = "to_value"
LeaseFrame(f) == IsOwnerOp(f) \/ ValueFrame(f)
KeepsOwner(f) == LeaseFrame(f) \/ f.op = "created"
RootFrame(f) == (IsOwnerOp(f) /\ f.root) \/ f.op = "created"
HandlerFrame(f) == f.op = "dispatch" /\ f.pc = "handler"
CreateFrame(f) == f.op = "create"

Leased(o) == InFrame(o, LeaseFrame)
CellAlive(o) == CallbackAlive(o) \/ InFrame(o, RootFrame)
Held(o) == \/ cell[o] = "full" /\ CellAlive(o)
           \/ InFrame(o, HandlerFrame) \/ InFrame(o, CreateFrame)
Created(o) == owner[o] # NoThread

Due == {o \in Objects : final[o] = "due"}

\* Python code runs on top of these frames, or of none.
PyFrame(t) == \/ Idle(t)
              \/ At(t, "dispatch", "handler") /\ call[Self(t)] = "inside"
              \/ At(t, "create", "wrap") \/ At(t, "shutdown", "calling")
              \/ At(t, "created", "track") \/ At(t, "to_value", "track")
              \/ At(t, "finalizer", "python")
InPython(t) == gil = t /\ Due = {} /\ PyFrame(t)

\* Native code that a thread may run: its own, or called from Python.
InNative(t) == PyFrame(t) /\ (gil = t => Due = {})

Init ==
    /\ InitObject /\ Gate!Init
    /\ gil = NoThread
    /\ wrapper = {} /\ identity = {}
    /\ cell = [o \in Objects |-> "absent"]
    /\ final = [o \in Objects |-> "no"]
    /\ registry = {} /\ stopping = FALSE

-----------------------------------------------------------------------------
\* The interpreter's lock.

TakeGil(t) == /\ gil = NoThread /\ PyFrame(t)
              /\ gil' = t
              /\ UNCHANGED <<objectVars, ownVars, cell, interpVars, gateVars>>

YieldGil(t) == /\ InPython(t)
               /\ gil' = NoThread
               /\ UNCHANGED <<objectVars, ownVars, cell, interpVars, gateVars>>

\* The finalizer is Python code: it may dispose the owner it can still reach.
RunFinalizer(t, o) ==
    /\ gil = t /\ o \in Due
    /\ final' = [final EXCEPT ![o] = "done"]
    /\ IF Len(stack[t]) < MaxDepth THEN Push(t, Frame("finalizer", o, "python"))
                                   ELSE UNCHANGED stack
    /\ UNCHANGED <<hostVars, slot, owner, gil, ownVars, cell, interpVars, gateVars>>

FinalizerEnds(t) ==
    /\ InPython(t) /\ At(t, "finalizer", "python")
    /\ Return(t)
    /\ UNCHANGED <<hostVars, slot, owner, gil, ownVars, cell, interpVars, gateVars>>

-----------------------------------------------------------------------------
\* Creation.  Wrapping the callback runs Python; then the object is built and
\* registered without another switch of the lock, and its owner is tracked, by a
\* function in Python again, while `create' still has its Arc of the cell.

BeginCreate(t, o) ==
    /\ InPython(t) /\ ~Created(o) /\ ~InFrame(o, CreateFrame) /\ final[o] = "no"
    /\ ~shuttingDown /\ ~stopping
    /\ Push(t, Frame("create", o, "wrap"))
    /\ UNCHANGED <<hostVars, slot, owner, gil, ownVars, cell, interpVars, gateVars>>

\* Faulty: an object is registered with a runtime that has stopped.
CreateLate(t, o) ==
    /\ InPython(t) /\ At(t, "create", "wrap") /\ Top(t).obj = o
    /\ ~shuttingDown
    /\ strong' = [strong EXCEPT ![o] = 1]
    /\ slot' = slot \cup {o}
    /\ owner' = [owner EXCEPT ![o] = t]
    /\ cell' = [cell EXCEPT ![o] = "full"]
    /\ wrapper' = wrapper \cup {o} /\ identity' = identity \cup {o}
    /\ registry' = registry \cup {o}
    /\ stack' = [stack EXCEPT ![t] = Append(Below(t), Frame("created", o, "track"))]
    /\ UNCHANGED <<refs, weakRequested, gil, stopping, gateVars>>

Create(t, o) ==
    /\ InPython(t) /\ At(t, "create", "wrap") /\ Top(t).obj = o
    /\ ~stopping /\ ~shuttingDown
    /\ strong' = [strong EXCEPT ![o] = 1]
    /\ slot' = slot \cup {o}
    /\ owner' = [owner EXCEPT ![o] = t]
    /\ cell' = [cell EXCEPT ![o] = "full"]
    /\ wrapper' = wrapper \cup {o} /\ identity' = identity \cup {o}
    /\ registry' = {p \in registry : CellAlive(p)} \cup {o}
    /\ stack' = [stack EXCEPT ![t] = Append(Below(t), Frame("created", o, "track"))]
    /\ UNCHANGED <<refs, weakRequested, gil, stopping, gateVars>>

\* `register', or the second look at the gate, fails: everything built is dropped.
CreateFails(t) ==
    /\ InPython(t) /\ At(t, "create", "wrap")
    /\ stopping \/ shuttingDown
    /\ Return(t)
    /\ UNCHANGED <<hostVars, slot, owner, gil, ownVars, cell, interpVars, gateVars>>

\* The owner goes to the caller; if it could not be tracked, the next step drops it.
CreateEnds(t) ==
    /\ InPython(t) /\ At(t, "created", "track")
    /\ Return(t)
    /\ UNCHANGED <<hostVars, slot, owner, gil, ownVars, cell, interpVars, gateVars>>

-----------------------------------------------------------------------------
\* The operations of the owner lease the controller from its Mutex.  One that finds it
\* leased fails with "an active native operation" and changes nothing.

FirstPc(op) == CASE op = "clear" -> "flag" [] op = "release" -> "release"
                 [] OTHER -> "disconnect"

\* Faulty: the operation does not keep the cell until the lease is restored.
OwnerOpRootless(t, o, op) ==
    /\ InPython(t) /\ o \in wrapper /\ ~Leased(o)
    /\ Push(t, [op |-> op, obj |-> o, pc |-> FirstPc(op), root |-> FALSE])
    /\ UNCHANGED <<hostVars, slot, owner, gil, ownVars, cell, interpVars, gateVars>>

OwnerOp(t, o, op) ==
    /\ InPython(t) /\ o \in wrapper /\ ~Leased(o)
    /\ Push(t, [op |-> op, obj |-> o, pc |-> FirstPc(op), root |-> CellAlive(o)])
    /\ UNCHANGED <<hostVars, slot, owner, gil, ownVars, cell, interpVars, gateVars>>

\* No other step of this thread comes between while a finalizer is due.
Working(t, pc) == gil = t /\ Due = {} /\ ~Idle(t) /\ IsOwnerOp(Top(t)) /\ Top(t).pc = pc

\* has_unique_native_reference: the flag, and then the count.
LookAtFlag(t, o) ==
    /\ Working(t, "flag") /\ Top(t).obj = o
    /\ Goto(t, IF o \in identity /\ o \notin weakRequested THEN "count" ELSE "restore")
    /\ UNCHANGED <<hostVars, slot, owner, gil, ownVars, cell, interpVars, gateVars>>

\* Faulty: a reference of the owner is enough.
LookAtOwner(t, o) ==
    /\ Working(t, "count") /\ Top(t).obj = o
    /\ Goto(t, IF strong[o] > 0 THEN "disconnect" ELSE "restore")
    /\ UNCHANGED <<hostVars, slot, owner, gil, ownVars, cell, interpVars, gateVars>>

LookAtCount(t, o) ==
    /\ Working(t, "count") /\ Top(t).obj = o
    /\ Goto(t, IF strong[o] = 1 THEN "disconnect" ELSE "restore")
    /\ UNCHANGED <<hostVars, slot, owner, gil, ownVars, cell, interpVars, gateVars>>

Disconnect(t, o) ==
    /\ Working(t, "disconnect") /\ Top(t).obj = o
    /\ stack' = [stack EXCEPT ![t] =
           Append(Stepped(t, IF Top(t).op = "disconnect_all" THEN "restore" ELSE "release"),
                  Frame("disconnect", o, "take"))]
    /\ UNCHANGED <<hostVars, slot, owner, gil, ownVars, cell, interpVars, gateVars>>

ReleaseIdentity(t, o) ==
    /\ Working(t, "release") /\ Top(t).obj = o
    /\ identity' = identity \ {o}
    /\ IF o \in identity THEN DropStrong(t, o, Stepped(t, "restore"))
                         ELSE Goto(t, "restore") /\ UNCHANGED strong
    /\ UNCHANGED <<refs, weakRequested, slot, owner, gil, wrapper, cell,
                   interpVars, gateVars>>

\* The controller is put back, and then the root of the cell is dropped.
Restore(t) ==
    /\ Working(t, "restore")
    /\ Return(t)
    /\ UNCHANGED <<hostVars, slot, owner, gil, ownVars, cell, interpVars, gateVars>>

\* The new value is tracked, by a function in Python, while the owner is leased.
ToValue(t, o) ==
    /\ InPython(t) /\ o \in wrapper /\ ~Leased(o)
    /\ t = owner[o] /\ o \in identity /\ refs[t][o] < MaxRefs
    /\ refs' = [refs EXCEPT ![t][o] = @ + 1]
    /\ strong' = [strong EXCEPT ![o] = @ + 1]
    /\ Push(t, Frame("to_value", o, "track"))
    /\ UNCHANGED <<weakRequested, slot, owner, gil, ownVars, cell, interpVars, gateVars>>

\* A value that could not be tracked is released before the lease ends.
ToValueEnds(t) ==
    /\ InPython(t) /\ At(t, "to_value", "track")
    /\ Return(t)
    /\ UNCHANGED <<hostVars, slot, owner, gil, ownVars, cell, interpVars, gateVars>>

\* Python drops the owner; a call of one of its operations holds a reference to it.
DropOwner(t, o) ==
    /\ InPython(t) /\ o \in wrapper /\ ~InFrame(o, KeepsOwner)
    /\ Len(stack[t]) < MaxDepth
    /\ wrapper' = wrapper \ {o} /\ identity' = identity \ {o}
    /\ IF o \in identity THEN DropStrong(t, o, stack[t]) ELSE UNCHANGED <<strong, stack>>
    /\ UNCHANGED <<refs, weakRequested, slot, owner, gil, cell, interpVars, gateVars>>

-----------------------------------------------------------------------------
\* CallbackCell::invoke, from the accepted call to its answer.

Invoking(t, pc) == At(t, "dispatch", pc) /\ (gil = t => Due = {})
Elsewhere == UNCHANGED <<hostVars, slot, owner, ownVars, cell, interpVars>>

\* Stopping, or the first look at the gate, ends the call.
Closed(t) ==
    /\ Invoking(t, "accepted")
    /\ stopping \/ shuttingDown
    /\ Goto(t, "answered")
    /\ UNCHANGED <<gil, gateVars>> /\ Elsewhere

Knock(t) ==
    /\ Invoking(t, "accepted") /\ ~stopping
    /\ Gate!Check(Self(t))
    /\ Goto(t, "gate")
    /\ UNCHANGED gil /\ Elsewhere

TakePermit(t) ==
    /\ Invoking(t, "gate") /\ Gate!Grant(Self(t))
    /\ UNCHANGED <<gil, stack>> /\ Elsewhere

NoPermit(t) ==
    /\ Invoking(t, "gate") /\ Gate!Refuse(Self(t))
    /\ Goto(t, "answered")
    /\ UNCHANGED gil /\ Elsewhere

\* Attached, the call looks again whether the interpreter is stopping, and clones the
\* handler; without one it leaves at once.
Enter(t, o) ==
    /\ Invoking(t, "gate") /\ Top(t).obj = o
    /\ gil \in {t, NoThread}
    /\ Gate!Attach(Self(t))
    /\ gil' = t
    /\ stack' = [stack EXCEPT ![t] = Append(Below(t),
           [op |-> "dispatch", obj |-> o, att |-> gil # t,
            pc |-> IF ~stopping /\ cell[o] = "full" THEN "handler" ELSE "gate"])]
    /\ Elsewhere

CannotEnter(t) ==
    /\ Invoking(t, "gate") /\ Gate!CannotAttach(Self(t))
    /\ UNCHANGED <<gil, stack>> /\ Elsewhere

\* The handler answers; its clone is dropped under the interpreter's lock.
Answer(t) ==
    /\ InPython(t) /\ At(t, "dispatch", "handler")
    /\ Goto(t, "gate")
    /\ UNCHANGED <<gil, gateVars>> /\ Elsewhere

Detach(t) ==
    /\ Invoking(t, "gate") /\ gil = t
    /\ Gate!Detach(Self(t))
    /\ gil' = IF Top(t).att THEN NoThread ELSE t
    /\ UNCHANGED stack /\ Elsewhere

LeaveGate(t) ==
    /\ Invoking(t, "gate") /\ Gate!Leave(Self(t))
    /\ Goto(t, "answered")
    /\ UNCHANGED gil /\ Elsewhere

-----------------------------------------------------------------------------
\* Shutdown: of the gate and the runtime by Python's caller, of each by atexit.

ShutdownFrame == [op |-> "shutdown", pc |-> "calling", todo |-> {}, obj |-> NoThread]

ShutdownCallbacks(t) ==
    /\ InPython(t) /\ Push(t, ShutdownFrame)
    /\ Gate!CloseGate
    /\ UNCHANGED <<hostVars, slot, owner, gil, ownVars, cell, interpVars>>

AtExitRuntime(t) ==
    /\ InPython(t) /\ Idle(t) /\ Push(t, ShutdownFrame)
    /\ UNCHANGED <<hostVars, slot, owner, gil, ownVars, cell, interpVars, gateVars>>

AtExitGate(t) ==
    /\ InPython(t) /\ Idle(t)
    /\ Gate!CloseAtExit
    /\ UNCHANGED <<objectVars, gil, ownVars, cell, interpVars>>

StopRuntime(t) ==
    /\ InPython(t) /\ At(t, "shutdown", "calling")
    /\ stopping' = TRUE /\ registry' = {}
    /\ stack' = [stack EXCEPT ![t] =
           Append(Below(t), [Top(t) EXCEPT !.pc = "clear", !.todo = registry])]
    /\ UNCHANGED <<hostVars, slot, owner, gil, ownVars, cell, gateVars>>

\* A cell that is still alive loses its handler.
ClearCell(t, o) ==
    /\ gil = t /\ Due = {} /\ At(t, "shutdown", "clear") /\ o \in Top(t).todo
    /\ cell' = IF CellAlive(o) THEN [cell EXCEPT ![o] = "cleared"] ELSE cell
    /\ stack' = [stack EXCEPT ![t] = Append(Below(t), [Top(t) EXCEPT !.todo = @ \ {o}])]
    /\ UNCHANGED <<hostVars, slot, owner, gil, ownVars, interpVars, gateVars>>

ShutdownEnds(t) ==
    /\ gil = t /\ Due = {} /\ At(t, "shutdown", "clear") /\ Top(t).todo = {}
    /\ Return(t)
    /\ UNCHANGED <<hostVars, slot, owner, gil, ownVars, cell, interpVars, gateVars>>

-----------------------------------------------------------------------------
Outside == UNCHANGED <<gil, ownVars, cell, interpVars, gateVars>>

ObjectStep(t) == /\ (InNative(t) /\ NativeStep(t)) \/ ((gil = t => Due = {}) /\ Running(t))
                 /\ Outside

OwnerStep(t) ==
    \/ \E o \in Objects :
           \/ BeginCreate(t, o) \/ Create(t, o)
           \/ \E op \in OwnerOps : OwnerOp(t, o, op)
           \/ LookAtFlag(t, o) \/ LookAtCount(t, o) \/ Disconnect(t, o)
           \/ ReleaseIdentity(t, o) \/ ToValue(t, o) \/ DropOwner(t, o)
    \/ CreateFails(t) \/ CreateEnds(t) \/ Restore(t) \/ ToValueEnds(t)

InvokeStep(t) ==
    \/ Closed(t) \/ Knock(t) \/ TakePermit(t) \/ NoPermit(t) \/ CannotEnter(t)
    \/ (\E o \in Objects : Enter(t, o))
    \/ Answer(t) \/ Detach(t) \/ LeaveGate(t)

ShutdownStep(t) ==
    \/ ShutdownCallbacks(t) \/ AtExitRuntime(t) \/ AtExitGate(t)
    \/ StopRuntime(t) \/ (\E o \in Objects : ClearCell(t, o)) \/ ShutdownEnds(t)

\* What a step does to the handlers that lost their last reference, and a thread that
\* attaches to those in the pool.
Finalizers(t) ==
    final' = [o \in Objects |->
        IF Held(o) /\ ~Held(o)' THEN IF gil' = t THEN "due" ELSE "pool"
        ELSE IF final[o] = "pool" /\ gil # t /\ gil' = t THEN "due"
        ELSE final[o]]

Next == \E t \in Threads :
            \/ /\ \/ TakeGil(t) \/ YieldGil(t) \/ FinalizerEnds(t)
                  \/ ObjectStep(t) \/ OwnerStep(t) \/ InvokeStep(t) \/ ShutdownStep(t)
               /\ Finalizers(t)
            \/ \E o \in Objects : RunFinalizer(t, o)

Spec == Init /\ [][Next]_vars

-----------------------------------------------------------------------------
Frames ==
    [op : {"dispatch"}, obj : Objects,
     pc : {"pinned", "accepted", "gate", "answered", "unpin"}]
    \cup [op : {"dispatch"}, obj : Objects, att : BOOLEAN,
          pc : {"gate", "handler", "answered", "unpin"}]
    \cup [op : {"resolve"}, obj : Objects, pc : {"pinned"}]
    \cup [op : {"disconnect"}, obj : Objects, pc : {"take", "drop"}]
    \cup [op : {"create"}, obj : Objects, pc : {"wrap"}]
    \cup [op : {"created", "to_value"}, obj : Objects, pc : {"track"}]
    \cup [op : {"finalizer"}, obj : Objects, pc : {"python"}]
    \cup [op : OwnerOps, obj : Objects, root : BOOLEAN,
          pc : {"flag", "count", "disconnect", "release", "restore"}]
    \cup [op : {"shutdown"}, obj : {NoThread}, todo : SUBSET Objects, pc : {"calling", "clear"}]

TypeOK ==
    /\ strong \in [Objects -> Nat]
    /\ refs \in [Threads -> [Objects -> Nat]]
    /\ weakRequested \subseteq Objects /\ slot \subseteq Objects
    /\ owner \in [Objects -> Threads \cup {NoThread}]
    /\ gil \in Threads \cup {NoThread}
    /\ wrapper \subseteq Objects /\ identity \subseteq wrapper
    /\ cell \in [Objects -> {"absent", "full", "cleared"}]
    /\ final \in [Objects -> {"no", "pool", "due", "done"}]
    /\ registry \subseteq Objects /\ stopping \in BOOLEAN
    /\ Gate!TypeOK
    /\ stack \in [Threads -> Seq(Frames)]
    /\ \A t \in Threads : Len(stack[t]) <= MaxDepth + 1

\* The frames of an object that satisfy Is, as pairs of thread and depth.
Calling(o, Is(_)) ==
    {c \in Calls : LET s == stack[c[1]] IN
                      c[2] <= Len(s) /\ s[c[2]].obj = o /\ Is(s[c[2]])}

(* The COM count of a Host is the number of its users: the owner, native   *)
(* code, and the calls and resolutions that pin it.  So nobody uses a Host *)
(* that was destroyed, none is kept for ever, and a weak reference never   *)
(* brings one back (identity.rs:26-46, 184-200, mod.rs:474-504).           *)
ReferencesBalance ==
    \A o \in Objects :
        strong[o] = (IF o \in identity THEN 1 ELSE 0)
                    + Cardinality({r \in Threads \X (1..MaxRefs) : r[2] <= refs[r[1]][o]})
                    + Cardinality(Calling(o, PinningFrame))

(* Python code, a finalizer included, finds an owner with "an active       *)
(* native operation" only while `to_value' tracks the value it made, and   *)
(* that owner keeps its native reference meanwhile.  An operation that     *)
(* disconnects or releases never runs Python under its lease, so that the  *)
(* finalizer of the handler it drops may use the owner, and dispose it     *)
(* (implementation.rs:267-308, 375-393).                                   *)
BusyOnlyTracking ==
    \A t \in Threads : InPython(t) =>
        \A u \in Threads : \A i \in DOMAIN stack[u] :
            LeaseFrame(stack[u][i])
                => ValueFrame(stack[u][i]) /\ stack[u][i].obj \in identity

(* Once the runtime has shut down no cell that a native call could reach   *)
(* has a handler, though objects are created, called and disconnected      *)
(* while it shuts down (implementation.rs:128-157, 318-373).               *)
ShutdownDisarms ==
    stopping /\ ~(\E t \in Threads : \E i \in DOMAIN stack[t] : stack[t][i].op = "shutdown")
        => \A o \in Objects : cell[o] = "full" => ~CellAlive(o)

(* A gate that `shutdown_python_callbacks' shut stays shut (runtime.rs:    *)
(* 79-101, 122-146).                                                       *)
GateShut == Gate!GateShut

\* The object as its users see it: whether it is connected, the calls it accepted, those
\* of them that run the handler, and whether the handler is kept.
Status(o) == IF o \in slot THEN "connected"
             ELSE IF Created(o) THEN "disconnected" ELSE "absent"
Abstract == INSTANCE ImplementedObject WITH
    status   <- [o \in Objects |-> Status(o)],
    accepted <- [o \in Objects |-> Cardinality(Calling(o, AcceptedFrame))],
    running  <- [o \in Objects |-> Cardinality(Calling(o, HandlerFrame))],
    held     <- {o \in Objects : Held(o)}

(* Every call the object accepts keeps its handler until it returns, and   *)
(* the handler is given up once, when the object is disconnected and no    *)
(* call is left, or when the interpreter stops (mod.rs:95-107, 117-121,    *)
(* implementation.rs:177-228).                                             *)
ImplementsObject == Abstract!Spec

(* When the collector has found that the owner's is the only native        *)
(* reference, and is about to disconnect the object, no native code owns   *)
(* another: "Conservative GC hint: false when any other native owner may   *)
(* exist" (mod.rs:200-207).                                                *)
UniqueMeansSole ==
    \A t \in Threads, o \in Objects :
        At(t, "clear", "disconnect") /\ Top(t).obj = o
            => \A u \in Threads : refs[u][o] = 0

(* How far the hint may be wrong: only an object whose weak reference was   *)
(* asked for has another owner, or a call, when the collector is about to   *)
(* disconnect it.  Whatever else native code does between the two loads,    *)
(* the second sees it (mod.rs:200-207).                                     *)
SoleUnlessWeak ==
    \A t \in Threads, o \in Objects :
        At(t, "clear", "disconnect") /\ Top(t).obj = o /\ o \notin weakRequested
            => /\ \A u \in Threads : refs[u][o] = 0
               /\ ~InFrame(o, PinningFrame)
=============================================================================
