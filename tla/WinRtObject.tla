---------------------------- MODULE WinRtObject ----------------------------
(***************************************************************************)
(* One implemented WinRT object, crates/dynwinrt/src/winrt_implementation: *)
(* the Host, whose Arc count is its COM reference count, its weak          *)
(* references, and the Control through which native calls reach the        *)
(* callback of the language until the object is disconnected.              *)
(*                                                                         *)
(* Every thread runs a stack of calls, because dropping a reference or a   *)
(* callback runs further code: the last Release disconnects, a callback    *)
(* that is called or destroyed may enter the object again.  The language   *)
(* binding extends this module; the frames it adds are its own.            *)
(***************************************************************************)
EXTENDS Naturals, FiniteSets, SequencesExt

CONSTANTS Threads, Objects,
          NoThread,
          MaxRefs,    \* bound of the model: references one thread may hold of an object
          MaxDepth    \* bound of the model: calls on the stack of a thread

ASSUME ConstantsAssumption ==
    /\ IsFiniteSet(Threads) /\ NoThread \notin Threads
    /\ MaxRefs \in Nat /\ MaxDepth \in Nat

VARIABLES
    strong,         \* the Arc<Host> count of each object; 0 is not created, or destroyed
    refs,           \* of these, the ones that native code of each thread owns
    weakRequested,  \* objects whose weak reference source was asked for
    slot,           \* objects whose Control still has its callback
    owner,          \* Control.owner_thread
    stack           \* the calls each thread is in, the innermost last

hostVars == <<strong, refs, weakRequested>>
objectVars == <<hostVars, slot, owner, stack>>

Frame(op, o, pc) == [op |-> op, obj |-> o, pc |-> pc]

Idle(t) == stack[t] = <<>>
Top(t) == Last(stack[t])
At(t, op, pc) == ~Idle(t) /\ Top(t).op = op /\ Top(t).pc = pc
Below(t) == Front(stack[t])
Stepped(t, pc) == Append(Below(t), [Top(t) EXCEPT !.pc = pc])

Goto(t, pc) == stack' = [stack EXCEPT ![t] = Stepped(t, pc)]
Push(t, f) == Len(stack[t]) < MaxDepth /\ stack' = [stack EXCEPT ![t] = Append(@, f)]
Return(t) == stack' = [stack EXCEPT ![t] = Below(t)]

InFrame(o, Is(_)) ==
    \E t \in Threads : \E i \in DOMAIN stack[t] : stack[t][i].obj = o /\ Is(stack[t][i])

InitObject ==
    /\ strong = [o \in Objects |-> 0]
    /\ refs = [t \in Threads |-> [o \in Objects |-> 0]]
    /\ weakRequested = {}
    /\ slot = {}
    /\ owner = [o \in Objects |-> NoThread]
    /\ stack = [t \in Threads |-> <<>>]

-----------------------------------------------------------------------------
\* References.  Losing the last one destroys the Host, and Drop disconnects it.

Destruction(o) == IF strong[o] = 1 THEN <<Frame("disconnect", o, "take")>> ELSE <<>>

DropStrong(t, o, rest) ==
    /\ strong' = [strong EXCEPT ![o] = @ - 1]
    /\ stack' = [stack EXCEPT ![t] = rest \o Destruction(o)]

\* QueryInterface for a view, or AddRef: any owner of a reference may make another,
\* for itself or for code on another thread.
AddRef(t, u, o) ==
    /\ refs[t][o] > 0 /\ refs[u][o] < MaxRefs
    /\ refs' = [refs EXCEPT ![u][o] = @ + 1]
    /\ strong' = [strong EXCEPT ![o] = @ + 1]
    /\ UNCHANGED <<weakRequested, slot, owner, stack>>

Release(t, o) ==
    /\ refs[t][o] > 0
    /\ Len(stack[t]) < MaxDepth
    /\ refs' = [refs EXCEPT ![t][o] = @ - 1]
    /\ DropStrong(t, o, stack[t])
    /\ UNCHANGED <<weakRequested, slot, owner>>

\* QueryInterface for the weak reference source, and GetWeakReference on it.  The weak
\* reference is agile: from now on any thread may have it.
GetWeakReference(t, o) ==
    /\ refs[t][o] > 0
    /\ weakRequested' = weakRequested \cup {o}
    /\ UNCHANGED <<strong, refs, slot, owner, stack>>

\* Resolve upgrades, and pins the Host while it asks for the interface.
Resolve(t, o) ==
    /\ o \in weakRequested
    /\ strong[o] > 0
    /\ strong' = [strong EXCEPT ![o] = @ + 1]
    /\ Push(t, Frame("resolve", o, "pinned"))
    /\ UNCHANGED <<refs, weakRequested, slot, owner>>

Resolved(t, o) ==
    /\ At(t, "resolve", "pinned") /\ Top(t).obj = o /\ refs[t][o] < MaxRefs
    /\ refs' = [refs EXCEPT ![t][o] = @ + 1]
    /\ Return(t)
    /\ UNCHANGED <<strong, weakRequested, slot, owner>>

\* E_NOINTERFACE: the pin may have become the last reference.
NoInterface(t, o) ==
    /\ At(t, "resolve", "pinned") /\ Top(t).obj = o
    /\ DropStrong(t, o, Below(t))
    /\ UNCHANGED <<refs, weakRequested, slot, owner>>

-----------------------------------------------------------------------------
\* Dispatch pins the Host, takes a clone of the callback, and runs it.

\* Faulty: the Host is not pinned, and its caller's reference may go while it runs.
DispatchUnpinned(t, o) ==
    /\ refs[t][o] > 0
    /\ Push(t, Frame("dispatch", o, "pinned"))
    /\ UNCHANGED <<hostVars, slot, owner>>

Dispatch(t, o) ==
    /\ refs[t][o] > 0
    /\ strong' = [strong EXCEPT ![o] = @ + 1]
    /\ Push(t, Frame("dispatch", o, "pinned"))
    /\ UNCHANGED <<refs, weakRequested, slot, owner>>

\* Faulty: the callback was looked up before the call was let in.
AcceptDisconnected(t, o) ==
    /\ At(t, "dispatch", "pinned") /\ Top(t).obj = o
    /\ Goto(t, IF t = owner[o] THEN "accepted" ELSE "unpin")
    /\ UNCHANGED <<hostVars, slot, owner>>

Accept(t, o) ==
    /\ At(t, "dispatch", "pinned") /\ Top(t).obj = o
    /\ Goto(t, IF t = owner[o] /\ o \in slot THEN "accepted" ELSE "unpin")
    /\ UNCHANGED <<hostVars, slot, owner>>

\* The clone of the callback is dropped before the pin.
DropClone(t) ==
    /\ At(t, "dispatch", "answered")
    /\ Goto(t, "unpin")
    /\ UNCHANGED <<hostVars, slot, owner>>

Unpin(t, o) ==
    /\ At(t, "dispatch", "unpin") /\ Top(t).obj = o
    /\ DropStrong(t, o, Below(t))
    /\ UNCHANGED <<refs, weakRequested, slot, owner>>

\* Control::disconnect takes the callback under the lock and drops it outside.
TakeCallback(t, o) ==
    /\ At(t, "disconnect", "take") /\ Top(t).obj = o
    /\ slot' = slot \ {o}
    /\ IF o \in slot THEN Goto(t, "drop") ELSE Return(t)
    /\ UNCHANGED <<hostVars, owner>>

DropCallback(t) ==
    /\ At(t, "disconnect", "drop")
    /\ Return(t)
    /\ UNCHANGED <<hostVars, slot, owner>>

\* From the clone of the callback to its drop.
Accepted == {"accepted", "gate", "handler", "answered"}
AcceptedFrame(f) == f.op = "dispatch" /\ f.pc \in Accepted
PinningFrame(f) == \/ f.op = "dispatch"
                   \/ f.op = "resolve"
TakenFrame(f) == f.op = "disconnect" /\ f.pc = "drop"

\* The Arc of the callback is shared by the Control, the calls and a disconnection.
CallbackAlive(o) == o \in slot \/ InFrame(o, AcceptedFrame) \/ InFrame(o, TakenFrame)

NativeStep(t) ==
    \E o \in Objects :
        \/ Release(t, o) \/ GetWeakReference(t, o)
        \/ Resolve(t, o) \/ Dispatch(t, o)
        \/ \E u \in Threads : AddRef(t, u, o)

Running(t) ==
    \/ \E o \in Objects :
           \/ Resolved(t, o) \/ NoInterface(t, o)
           \/ Accept(t, o) \/ Unpin(t, o) \/ TakeCallback(t, o)
    \/ DropClone(t) \/ DropCallback(t)
=============================================================================
