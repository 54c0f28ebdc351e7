----------------------- MODULE PyImplementationProofs -----------------------
(***************************************************************************)
(* Proofs about PyImplementation, for every set of threads and objects and *)
(* every bound:                                                            *)
(*   Base        the stacks of calls keep their form, and their depth      *)
(*   GateHolds   every step uses the gate as CallbackGate says             *)
(*   LeaseInv    an operation that disconnects or releases is at the top   *)
(*               of its thread's stack, or just below its disconnection    *)
(*   TrackInv    while `to_value' tracks the value it made its owner keeps *)
(*               the native reference, and no other operation has it       *)
(*   DisarmInv   a full cell that is alive is known to the registry, or on *)
(*               the list of a shutdown                                    *)
(*   BalanceInv  the count of a Host is the number of its users            *)
(*   SoleInv     the owner whose references a collector looks at keeps its *)
(*               own, and is alone if one was found                        *)
(*   SeenInv     a cell without its handler belongs to an object that is   *)
(*               not created yet, or the interpreter is stopping           *)
(* A step is first reduced to what it does to the stack of its thread      *)
(* (Pushes, Replaces, Pops, Grows), and the invariants are preserved by    *)
(* these shapes rather than by the actions one by one.  The last part      *)
(* shows that PyImplementation implements ImplementedObject.               *)
(***************************************************************************)
EXTENDS PyImplementation, FiniteSetTheorems, TLAPS

Stacks == stack \in [Threads -> Seq(Frames)]

Others(t) == \A u \in Threads \ {t} : stack'[u] = stack[u]
Pushes(t, f) ==
    /\ Stacks' /\ Others(t) /\ Len(stack'[t]) = Len(stack[t]) + 1
    /\ \A i \in 1..Len(stack[t]) : stack'[t][i] = stack[t][i]
    /\ stack'[t][Len(stack[t]) + 1] = f
Replaces(t, f) ==
    /\ Stacks' /\ Others(t) /\ Len(stack'[t]) = Len(stack[t]) /\ Len(stack[t]) > 0
    /\ \A i \in 1..(Len(stack[t]) - 1) : stack'[t][i] = stack[t][i]
    /\ stack'[t][Len(stack[t])] = f
Pops(t) ==
    /\ Stacks' /\ Others(t) /\ Len(stack'[t]) = Len(stack[t]) - 1 /\ Len(stack[t]) > 0
    /\ \A i \in 1..(Len(stack[t]) - 1) : stack'[t][i] = stack[t][i]
Grows(t, f, g) ==
    /\ Stacks' /\ Others(t) /\ Len(stack'[t]) = Len(stack[t]) + 1 /\ Len(stack[t]) > 0
    /\ \A i \in 1..(Len(stack[t]) - 1) : stack'[t][i] = stack[t][i]
    /\ stack'[t][Len(stack[t])] = f
    /\ stack'[t][Len(stack[t]) + 1] = g

LEMMA TopIs ==
    ASSUME Stacks, NEW t \in Threads, ~Idle(t)
    PROVE  /\ Top(t) = stack[t][Len(stack[t])] /\ Top(t) \in Frames
           /\ Len(stack[t]) \in Nat \ {0} /\ Below(t) \in Seq(Frames)
           /\ Len(Below(t)) = Len(stack[t]) - 1
           /\ \A i \in 1..(Len(stack[t]) - 1) : Below(t)[i] = stack[t][i]
<1>1. stack[t] \in Seq(Frames) /\ stack[t] # <<>>
  BY DEF Stacks, Idle
<1>2. Len(stack[t]) \in Nat \ {0}
  BY <1>1
<1>3. Top(t) = stack[t][Len(stack[t])] /\ Top(t) \in Frames
  BY <1>1, <1>2 DEF Top, Last
<1>4. /\ Below(t) \in Seq(Frames)
      /\ Len(Below(t)) = Len(stack[t]) - 1
      /\ \A i \in 1..(Len(stack[t]) - 1) : Below(t)[i] = stack[t][i]
  BY <1>1, <1>2 DEF Below, Front
<1> QED
  BY <1>2, <1>3, <1>4

LEMMA PushShape ==
    ASSUME Stacks, NEW t \in Threads, NEW f \in Frames,
           stack' = [stack EXCEPT ![t] = Append(@, f)]
    PROVE  Pushes(t, f)
  BY DEF Stacks, Pushes, Others

LEMMA ReplaceShape ==
    ASSUME Stacks, NEW t \in Threads, NEW f \in Frames, ~Idle(t),
           stack' = [stack EXCEPT ![t] = Append(Below(t), f)]
    PROVE  Replaces(t, f)
<1>1. /\ Len(stack[t]) \in Nat \ {0} /\ Below(t) \in Seq(Frames)
      /\ Len(Below(t)) = Len(stack[t]) - 1
      /\ \A i \in 1..(Len(stack[t]) - 1) : Below(t)[i] = stack[t][i]
  BY TopIs
<1> QED
  BY <1>1 DEF Stacks, Replaces, Others

LEMMA PopShape ==
    ASSUME Stacks, NEW t \in Threads, ~Idle(t),
           stack' = [stack EXCEPT ![t] = Below(t)]
    PROVE  Pops(t)
<1>1. /\ Len(stack[t]) \in Nat \ {0} /\ Below(t) \in Seq(Frames)
      /\ Len(Below(t)) = Len(stack[t]) - 1
      /\ \A i \in 1..(Len(stack[t]) - 1) : Below(t)[i] = stack[t][i]
  BY TopIs
<1> QED
  BY <1>1 DEF Stacks, Pops, Others

LEMMA GrowShape ==
    ASSUME Stacks, NEW t \in Threads, NEW f \in Frames, NEW g \in Frames, ~Idle(t),
           stack' = [stack EXCEPT ![t] = Append(Append(Below(t), f), g)]
    PROVE  Grows(t, f, g)
<1>1. /\ Len(stack[t]) \in Nat \ {0} /\ Below(t) \in Seq(Frames)
      /\ Len(Below(t)) = Len(stack[t]) - 1
      /\ \A i \in 1..(Len(stack[t]) - 1) : Below(t)[i] = stack[t][i]
  BY TopIs
<1> QED
  BY <1>1 DEF Stacks, Grows, Others

-----------------------------------------------------------------------------
LEMMA DispatchFrames ==
    ASSUME NEW f \in Frames, f.op = "dispatch", NEW p,
           \/ f.pc = "pinned" /\ p \in {"accepted", "unpin"}
           \/ f.pc = "accepted" /\ p \in {"gate", "answered"}
           \/ f.pc = "gate" /\ p = "answered"
           \/ f.pc = "handler" /\ p = "gate"
           \/ f.pc = "answered" /\ p = "unpin"
    PROVE  /\ [f EXCEPT !.pc = p] \in Frames
           /\ [f EXCEPT !.pc = p].op = "dispatch"
           /\ [f EXCEPT !.pc = p].obj = f.obj /\ f.obj \in Objects
           /\ [f EXCEPT !.pc = p].pc = p
  BY DEF Frames, OwnerOps

LEMMA OwnerFrames ==
    ASSUME NEW f \in Frames, IsOwnerOp(f),
           NEW p \in {"flag", "count", "disconnect", "release", "restore"}
    PROVE  /\ [f EXCEPT !.pc = p] \in Frames
           /\ [f EXCEPT !.pc = p].op = f.op /\ f.op \in OwnerOps
           /\ [f EXCEPT !.pc = p].obj = f.obj /\ f.obj \in Objects
           /\ [f EXCEPT !.pc = p].root = f.root /\ f.root \in BOOLEAN
           /\ [f EXCEPT !.pc = p].pc = p
  BY DEF Frames, OwnerOps, IsOwnerOp

LEMMA StoppingFrames ==
    ASSUME NEW f, f \in Frames, f.op = "shutdown", NEW todo, todo \in SUBSET Objects
    PROVE  /\ [f EXCEPT !.pc = "clear", !.todo = todo] \in Frames
           /\ [f EXCEPT !.pc = "clear", !.todo = todo].op = "shutdown"
           /\ [f EXCEPT !.pc = "clear", !.todo = todo].todo = todo
           /\ [f EXCEPT !.pc = "clear", !.todo = todo].pc = "clear"
  BY DEF Frames, OwnerOps

LEMMA ShutdownFrames ==
    ASSUME NEW f \in Frames, f.op = "shutdown", NEW todo \in SUBSET Objects
    PROVE  /\ [f EXCEPT !.todo = todo] \in Frames
           /\ [f EXCEPT !.todo = todo].op = "shutdown"
           /\ [f EXCEPT !.todo = todo].todo = todo
           /\ [f EXCEPT !.todo = todo].pc = f.pc
           /\ f.todo \in SUBSET Objects
  BY DEF Frames, OwnerOps

LEMMA DisconnectFrames ==
    ASSUME NEW f \in Frames, f.op = "disconnect"
    PROVE  /\ [f EXCEPT !.pc = "drop"] \in Frames
           /\ [f EXCEPT !.pc = "drop"].op = "disconnect"
           /\ [f EXCEPT !.pc = "drop"].obj = f.obj /\ f.obj \in Objects
           /\ [f EXCEPT !.pc = "drop"].pc = "drop"
  BY DEF Frames, OwnerOps

LEMMA NewFrames ==
    ASSUME NEW o \in Objects
    PROVE  /\ Frame("dispatch", o, "pinned") \in Frames
           /\ Frame("resolve", o, "pinned") \in Frames
           /\ Frame("disconnect", o, "take") \in Frames
           /\ Frame("create", o, "wrap") \in Frames
           /\ Frame("created", o, "track") \in Frames
           /\ Frame("to_value", o, "track") \in Frames
           /\ Frame("finalizer", o, "python") \in Frames
           /\ \A op \in OwnerOps, r \in BOOLEAN :
                 [op |-> op, obj |-> o, pc |-> FirstPc(op), root |-> r] \in Frames
           /\ \A a \in BOOLEAN, p \in {"handler", "gate"} :
                 [op |-> "dispatch", obj |-> o, att |-> a, pc |-> p] \in Frames
<1>1. \A op \in OwnerOps : FirstPc(op) \in {"flag", "release", "disconnect"}
  BY DEF FirstPc, OwnerOps
<1>2. \A op \in OwnerOps, r \in BOOLEAN :
        [op |-> op, obj |-> o, pc |-> FirstPc(op), root |-> r] \in Frames
  BY <1>1 DEF Frames
<1> QED
  BY <1>2 DEF Frames, Frame

LEMMA NewShutdown == ShutdownFrame \in Frames
  BY DEF Frames, ShutdownFrame

-----------------------------------------------------------------------------
(* What each step does to the stack of its thread *)

Same == stack' = stack
Fresh(t, f) == Len(stack[t]) < MaxDepth /\ Pushes(t, f)
Disconnection(o) == Frame("disconnect", o, "take")
TopFrame(t) == stack[t][Len(stack[t])]
Turns(t, pc) == \E f \in Frames : /\ Replaces(t, f) /\ f.pc = pc
                                 /\ f.op = TopFrame(t).op /\ f.obj = TopFrame(t).obj
Topped(t, op, pc) == /\ Len(stack[t]) \in Nat \ {0} /\ TopFrame(t) \in Frames
                     /\ TopFrame(t).op = op /\ TopFrame(t).pc = pc

LEMMA AtTop ==
    ASSUME Stacks, NEW t \in Threads, NEW op, NEW pc, At(t, op, pc)
    PROVE  Topped(t, op, pc) /\ ~Idle(t) /\ TopFrame(t) = Top(t)
  BY TopIs DEF At, Topped, TopFrame

LEMMA DropStack ==
    ASSUME Stacks, NEW t \in Threads, NEW o \in Objects
    PROVE  /\ stack' = [stack EXCEPT ![t] = stack[t] \o Destruction(o)]
                 => IF strong[o] = 1 THEN Pushes(t, Disconnection(o)) ELSE Same
           /\ ~Idle(t) /\ stack' = [stack EXCEPT ![t] = Below(t) \o Destruction(o)]
                 => IF strong[o] = 1 THEN Replaces(t, Disconnection(o)) ELSE Pops(t)
<1>1. stack[t] \in Seq(Frames) /\ Disconnection(o) \in Frames
  BY NewFrames DEF Stacks, Disconnection
<1>2. Destruction(o) = IF strong[o] = 1 THEN <<Disconnection(o)>> ELSE <<>>
  BY DEF Destruction, Disconnection
<1>3. ASSUME stack' = [stack EXCEPT ![t] = stack[t] \o Destruction(o)]
      PROVE  IF strong[o] = 1 THEN Pushes(t, Disconnection(o)) ELSE Same
  <2>1. CASE strong[o] = 1
    <3>1. stack[t] \o <<Disconnection(o)>> = Append(stack[t], Disconnection(o))
      BY <1>1
    <3> QED
      BY <1>1, <1>2, <1>3, <2>1, <3>1, PushShape
  <2>2. CASE strong[o] # 1
    <3>1. stack[t] \o <<>> = stack[t]
      BY <1>1
    <3> QED
      BY <1>2, <1>3, <2>2, <3>1 DEF Same, Stacks
  <2> QED
    BY <2>1, <2>2
<1>4. ASSUME ~Idle(t), stack' = [stack EXCEPT ![t] = Below(t) \o Destruction(o)]
      PROVE  IF strong[o] = 1 THEN Replaces(t, Disconnection(o)) ELSE Pops(t)
  <2> DEFINE b == Below(t)
  <2>0. b \in Seq(Frames)
    BY <1>4, TopIs
  <2>1. CASE strong[o] = 1
    <3>1. b \o <<Disconnection(o)>> = Append(b, Disconnection(o))
      BY <2>0, <1>1
    <3> QED
      BY <1>1, <1>2, <1>4, <2>1, <3>1, ReplaceShape
  <2>2. CASE strong[o] # 1
    <3>1. b \o <<>> = b
      BY <2>0
    <3> QED
      BY <1>2, <1>4, <2>2, <3>1, PopShape
  <2> QED
    BY <2>1, <2>2
<1> QED
  BY <1>3, <1>4

LEMMA ReleaseStack ==
    ASSUME Stacks, NEW t \in Threads, NEW o \in Objects, Release(t, o)
    PROVE  IF strong[o] = 1 THEN Fresh(t, Disconnection(o)) ELSE Same
  BY DropStack DEF Release, DropStrong, Fresh

LEMMA ResolveStack ==
    ASSUME Stacks, NEW t \in Threads, NEW o \in Objects, Resolve(t, o)
    PROVE  Fresh(t, Frame("resolve", o, "pinned"))
  BY NewFrames, PushShape DEF Resolve, Push, Fresh

LEMMA ResolvedStack ==
    ASSUME Stacks, NEW t \in Threads, NEW o \in Objects, Resolved(t, o)
    PROVE  Topped(t, "resolve", "pinned") /\ TopFrame(t).obj = o /\ Pops(t)
  BY AtTop, PopShape DEF Resolved, Return

LEMMA NoInterfaceStack ==
    ASSUME Stacks, NEW t \in Threads, NEW o \in Objects, NoInterface(t, o)
    PROVE  /\ Topped(t, "resolve", "pinned") /\ TopFrame(t).obj = o
           /\ IF strong[o] = 1 THEN Replaces(t, Disconnection(o)) ELSE Pops(t)
  BY AtTop, DropStack DEF NoInterface, DropStrong

LEMMA DispatchStack ==
    ASSUME Stacks, NEW t \in Threads, NEW o \in Objects, Dispatch(t, o)
    PROVE  Fresh(t, Frame("dispatch", o, "pinned"))
  BY NewFrames, PushShape DEF Dispatch, Push, Fresh

LEMMA TurnDispatch ==
    ASSUME Stacks, NEW t \in Threads, NEW from, NEW to, At(t, "dispatch", from), Goto(t, to),
           \/ from = "pinned" /\ to \in {"accepted", "unpin"}
           \/ from = "accepted" /\ to \in {"gate", "answered"}
           \/ from = "gate" /\ to = "answered"
           \/ from = "handler" /\ to = "gate"
           \/ from = "answered" /\ to = "unpin"
    PROVE  Topped(t, "dispatch", from) /\ TopFrame(t).obj \in Objects /\ Turns(t, to)
<1>1. Topped(t, "dispatch", from) /\ ~Idle(t) /\ TopFrame(t) = Top(t)
  BY AtTop
<1>2. /\ [Top(t) EXCEPT !.pc = to] \in Frames
      /\ [Top(t) EXCEPT !.pc = to].op = "dispatch"
      /\ [Top(t) EXCEPT !.pc = to].obj = Top(t).obj /\ Top(t).obj \in Objects
      /\ [Top(t) EXCEPT !.pc = to].pc = to
  <2>1. PICK f \in Frames : f = Top(t) /\ f.op = "dispatch" /\ f.pc = from
    BY <1>1 DEF Topped
  <2>2. /\ [f EXCEPT !.pc = to] \in Frames
        /\ [f EXCEPT !.pc = to].op = "dispatch"
        /\ [f EXCEPT !.pc = to].obj = f.obj /\ f.obj \in Objects
        /\ [f EXCEPT !.pc = to].pc = to
    BY <2>1, DispatchFrames
  <2> QED
    BY <2>1, <2>2
<1>3. Replaces(t, [Top(t) EXCEPT !.pc = to])
  BY <1>1, <1>2, ReplaceShape DEF Goto, Stepped
<1> QED
  BY <1>1, <1>2, <1>3 DEF Turns, Topped

LEMMA AcceptStack ==
    ASSUME Stacks, NEW t \in Threads, NEW o \in Objects, Accept(t, o)
    PROVE  /\ Topped(t, "dispatch", "pinned") /\ TopFrame(t).obj = o
           /\ Turns(t, IF t = owner[o] /\ o \in slot THEN "accepted" ELSE "unpin")
  BY TurnDispatch, AtTop DEF Accept

LEMMA DropCloneStack ==
    ASSUME Stacks, NEW t \in Threads, DropClone(t)
    PROVE  /\ Topped(t, "dispatch", "answered") /\ TopFrame(t).obj \in Objects
           /\ Turns(t, "unpin")
  BY TurnDispatch DEF DropClone

LEMMA UnpinStack ==
    ASSUME Stacks, NEW t \in Threads, NEW o \in Objects, Unpin(t, o)
    PROVE  /\ Topped(t, "dispatch", "unpin") /\ TopFrame(t).obj = o
           /\ IF strong[o] = 1 THEN Replaces(t, Disconnection(o)) ELSE Pops(t)
  BY AtTop, DropStack DEF Unpin, DropStrong

LEMMA TakeCallbackStack ==
    ASSUME Stacks, NEW t \in Threads, NEW o \in Objects, TakeCallback(t, o)
    PROVE  /\ Topped(t, "disconnect", "take") /\ TopFrame(t).obj = o
           /\ IF o \in slot THEN Turns(t, "drop") ELSE Pops(t)
<1>1. Topped(t, "disconnect", "take") /\ ~Idle(t) /\ TopFrame(t) = Top(t) /\ Top(t).obj = o
  BY AtTop DEF TakeCallback
<1>2. CASE o \in slot
  <2>1. /\ [Top(t) EXCEPT !.pc = "drop"] \in Frames
        /\ [Top(t) EXCEPT !.pc = "drop"].op = "disconnect"
        /\ [Top(t) EXCEPT !.pc = "drop"].obj = Top(t).obj
        /\ [Top(t) EXCEPT !.pc = "drop"].pc = "drop"
    BY <1>1, DisconnectFrames DEF Topped
  <2>2. Replaces(t, [Top(t) EXCEPT !.pc = "drop"])
    BY <1>1, <1>2, <2>1, ReplaceShape DEF TakeCallback, Goto, Stepped
  <2> QED
    BY <1>1, <1>2, <2>1, <2>2 DEF Turns, Topped
<1>3. CASE o \notin slot
  BY <1>1, <1>3, PopShape DEF TakeCallback, Return
<1> QED
  BY <1>1, <1>2, <1>3

LEMMA DropCallbackStack ==
    ASSUME Stacks, NEW t \in Threads, DropCallback(t)
    PROVE  Topped(t, "disconnect", "drop") /\ Pops(t)
  BY AtTop, PopShape DEF DropCallback, Return

LEMMA RunFinalizerStack ==
    ASSUME Stacks, NEW t \in Threads, NEW o \in Objects, RunFinalizer(t, o)
    PROVE  Same \/ Fresh(t, Frame("finalizer", o, "python"))
  BY NewFrames, PushShape DEF RunFinalizer, Push, Fresh, Same

LEMMA FinalizerEndsStack ==
    ASSUME Stacks, NEW t \in Threads, FinalizerEnds(t)
    PROVE  Topped(t, "finalizer", "python") /\ Pops(t)
  BY AtTop, PopShape DEF FinalizerEnds, Return

LEMMA BeginCreateStack ==
    ASSUME Stacks, NEW t \in Threads, NEW o \in Objects, BeginCreate(t, o)
    PROVE  Fresh(t, Frame("create", o, "wrap"))
  BY NewFrames, PushShape DEF BeginCreate, Push, Fresh

LEMMA CreateStack ==
    ASSUME Stacks, NEW t \in Threads, NEW o \in Objects, Create(t, o)
    PROVE  /\ Topped(t, "create", "wrap") /\ TopFrame(t).obj = o
           /\ Replaces(t, Frame("created", o, "track"))
  BY AtTop, NewFrames, ReplaceShape DEF Create

LEMMA CreateEndsStack ==
    ASSUME Stacks, NEW t \in Threads, CreateEnds(t)
    PROVE  Topped(t, "created", "track") /\ Pops(t)
  BY AtTop, PopShape DEF CreateEnds, Return

LEMMA CreateFailsStack ==
    ASSUME Stacks, NEW t \in Threads, CreateFails(t)
    PROVE  Topped(t, "create", "wrap") /\ Pops(t)
  BY AtTop, PopShape DEF CreateFails, Return

OwnerFrame(o, op) == [op |-> op, obj |-> o, pc |-> FirstPc(op), root |-> CellAlive(o)]

LEMMA CellAliveType == ASSUME NEW o \in Objects PROVE CellAlive(o) \in BOOLEAN
  BY DEF CellAlive, CallbackAlive, InFrame

LEMMA OwnerOpStack ==
    ASSUME Stacks, NEW t \in Threads, NEW o \in Objects, NEW op \in OwnerOps,
           OwnerOp(t, o, op)
    PROVE  Fresh(t, OwnerFrame(o, op)) /\ OwnerFrame(o, op) \in Frames
<1>1. OwnerFrame(o, op) \in Frames
  BY CellAliveType, NewFrames DEF OwnerFrame
<1> QED
  BY <1>1, PushShape DEF OwnerOp, Push, Fresh, OwnerFrame

\* An operation of the owner is at the top, and goes on.
OwnerTop(t) == /\ Len(stack[t]) \in Nat \ {0} /\ TopFrame(t) \in Frames
               /\ TopFrame(t).op \in OwnerOps /\ TopFrame(t).obj \in Objects
               /\ TopFrame(t).root \in BOOLEAN
Works(f, t) == /\ f \in Frames /\ f.op = TopFrame(t).op
               /\ f.obj = TopFrame(t).obj /\ f.root = TopFrame(t).root

LEMMA WorkingTop ==
    ASSUME Stacks, NEW t \in Threads, NEW pc, Working(t, pc)
    PROVE  /\ OwnerTop(t) /\ TopFrame(t) = Top(t) /\ ~Idle(t)
           /\ \A p \in {"flag", "count", "disconnect", "release", "restore"} :
                 Works([Top(t) EXCEPT !.pc = p], t) /\ [Top(t) EXCEPT !.pc = p].pc = p
<1>1. /\ Top(t) \in Frames /\ Top(t) = TopFrame(t) /\ ~Idle(t)
      /\ Len(stack[t]) \in Nat \ {0} /\ IsOwnerOp(Top(t))
  BY TopIs DEF Working, TopFrame
<1>2. Top(t).op \in OwnerOps /\ Top(t).obj \in Objects /\ Top(t).root \in BOOLEAN
  BY <1>1, OwnerFrames
<1>3. ASSUME NEW p \in {"flag", "count", "disconnect", "release", "restore"}
      PROVE  Works([Top(t) EXCEPT !.pc = p], t) /\ [Top(t) EXCEPT !.pc = p].pc = p
  <2>1. PICK f : f = Top(t)
    OBVIOUS
  <2>2. f \in Frames /\ IsOwnerOp(f) /\ f = TopFrame(t)
    BY <1>1, <2>1
  <2>3. /\ [f EXCEPT !.pc = p] \in Frames /\ [f EXCEPT !.pc = p].op = f.op
        /\ [f EXCEPT !.pc = p].obj = f.obj /\ [f EXCEPT !.pc = p].root = f.root
        /\ [f EXCEPT !.pc = p].pc = p
    BY <2>2 DEF Frames, OwnerOps, IsOwnerOp
  <2> QED
    BY <2>1, <2>2, <2>3 DEF Works
<1> QED
  BY <1>1, <1>2, <1>3 DEF OwnerTop

LEMMA LookStack ==
    ASSUME Stacks, NEW t \in Threads, NEW o \in Objects, LookAtFlag(t, o) \/ LookAtCount(t, o)
    PROVE  OwnerTop(t) /\ \E f \in Frames : Works(f, t) /\ Replaces(t, f)
<1>1. PICK pc \in {"flag", "count"}, p \in {"count", "disconnect", "restore"} :
        Working(t, pc) /\ Goto(t, p)
  BY DEF LookAtFlag, LookAtCount
<1>2. OwnerTop(t) /\ ~Idle(t) /\ Works([Top(t) EXCEPT !.pc = p], t)
  BY <1>1, WorkingTop
<1>3. Replaces(t, [Top(t) EXCEPT !.pc = p])
  BY <1>1, <1>2, ReplaceShape DEF Goto, Stepped, Works
<1> QED
  BY <1>2, <1>3 DEF Works

LEMMA DisconnectStack ==
    ASSUME Stacks, NEW t \in Threads, NEW o \in Objects, Disconnect(t, o)
    PROVE  /\ OwnerTop(t) /\ TopFrame(t).obj = o
           /\ \E f \in Frames : /\ Works(f, t) /\ Grows(t, f, Disconnection(o))
                               /\ f.pc \in {"restore", "release"}
<1>1. PICK p \in {"restore", "release"} :
        stack' = [stack EXCEPT ![t] = Append(Stepped(t, p), Disconnection(o))]
  BY DEF Disconnect, Disconnection
<1>2. /\ OwnerTop(t) /\ ~Idle(t) /\ TopFrame(t) = Top(t)
      /\ Works([Top(t) EXCEPT !.pc = p], t) /\ [Top(t) EXCEPT !.pc = p].pc = p
  BY <1>1, WorkingTop DEF Disconnect
<1>3. Disconnection(o) \in Frames
  BY NewFrames DEF Disconnection
<1>4. Grows(t, [Top(t) EXCEPT !.pc = p], Disconnection(o))
  BY <1>1, <1>2, <1>3, GrowShape DEF Stepped, Works
<1> QED
  BY <1>2, <1>4 DEF Works, Disconnect

LEMMA ReleaseIdentityStack ==
    ASSUME Stacks, NEW t \in Threads, NEW o \in Objects, ReleaseIdentity(t, o)
    PROVE  /\ OwnerTop(t) /\ TopFrame(t).obj = o
           /\ \E f \in Frames :
                 /\ Works(f, t) /\ f.pc = "restore"
                 /\ IF o \in identity /\ strong[o] = 1 THEN Grows(t, f, Disconnection(o))
                                                      ELSE Replaces(t, f)
<1> DEFINE f == [Top(t) EXCEPT !.pc = "restore"]
<1>1. /\ OwnerTop(t) /\ ~Idle(t) /\ TopFrame(t) = Top(t)
      /\ Works(f, t) /\ f.pc = "restore" /\ f \in Frames
  BY WorkingTop DEF ReleaseIdentity, Works
<1>2. Disconnection(o) \in Frames /\ Below(t) \in Seq(Frames) /\ Append(Below(t), f) \in Seq(Frames)
  BY <1>1, NewFrames, TopIs DEF Disconnection
<1>3. Stepped(t, "restore") = Append(Below(t), f)
  BY DEF Stepped
<1>4. CASE o \in identity /\ strong[o] = 1
  <2>1. stack' = [stack EXCEPT ![t] = Append(Below(t), f) \o <<Disconnection(o)>>]
    BY <1>3, <1>4 DEF ReleaseIdentity, DropStrong, Destruction, Disconnection
  <2>2. Append(Below(t), f) \o <<Disconnection(o)>> = Append(Append(Below(t), f), Disconnection(o))
    BY <1>2
  <2>3. Grows(t, f, Disconnection(o))
    BY <1>1, <1>2, <2>1, <2>2, GrowShape
  <2> QED
    BY <1>1, <1>4, <2>3 DEF ReleaseIdentity
<1>5. CASE ~(o \in identity /\ strong[o] = 1)
  <2>1. stack' = [stack EXCEPT ![t] = Append(Below(t), f)]
    <3>1. CASE o \in identity
      <4>1. stack' = [stack EXCEPT ![t] = Append(Below(t), f) \o <<>>]
        BY <1>3, <1>5, <3>1 DEF ReleaseIdentity, DropStrong, Destruction
      <4>2. Append(Below(t), f) \o <<>> = Append(Below(t), f)
        BY <1>2
      <4> QED
        BY <4>1, <4>2
    <3>2. CASE o \notin identity
      BY <1>3, <3>2 DEF ReleaseIdentity, Goto
    <3> QED
      BY <3>1, <3>2
  <2>2. Replaces(t, f)
    BY <1>1, <2>1, ReplaceShape
  <2> QED
    BY <1>1, <1>5, <2>2 DEF ReleaseIdentity
<1> QED
  BY <1>4, <1>5

LEMMA RestoreStack ==
    ASSUME Stacks, NEW t \in Threads, Restore(t)
    PROVE  OwnerTop(t) /\ Pops(t)
  BY WorkingTop, PopShape DEF Restore, Return

LEMMA ToValueStack ==
    ASSUME Stacks, NEW t \in Threads, NEW o \in Objects, ToValue(t, o)
    PROVE  Fresh(t, Frame("to_value", o, "track"))
  BY NewFrames, PushShape DEF ToValue, Push, Fresh

LEMMA ToValueEndsStack ==
    ASSUME Stacks, NEW t \in Threads, ToValueEnds(t)
    PROVE  Topped(t, "to_value", "track") /\ Pops(t)
  BY AtTop, PopShape DEF ToValueEnds, Return

LEMMA DropOwnerStack ==
    ASSUME Stacks, NEW t \in Threads, NEW o \in Objects, DropOwner(t, o)
    PROVE  IF o \in identity /\ strong[o] = 1 THEN Fresh(t, Disconnection(o)) ELSE Same
  BY DropStack DEF DropOwner, DropStrong, Fresh, Same

LEMMA InvokeStack ==
    ASSUME Stacks, NEW t \in Threads
    PROVE  /\ Closed(t) => /\ Topped(t, "dispatch", "accepted") /\ Turns(t, "answered")
                           /\ TopFrame(t).obj \in Objects
           /\ Knock(t) => /\ Topped(t, "dispatch", "accepted") /\ Turns(t, "gate")
                          /\ TopFrame(t).obj \in Objects
           /\ NoPermit(t) => /\ Topped(t, "dispatch", "gate") /\ Turns(t, "answered")
                             /\ TopFrame(t).obj \in Objects
           /\ LeaveGate(t) => /\ Topped(t, "dispatch", "gate") /\ Turns(t, "answered")
                              /\ TopFrame(t).obj \in Objects
           /\ Answer(t) => /\ Topped(t, "dispatch", "handler") /\ Turns(t, "gate")
                           /\ TopFrame(t).obj \in Objects
<1>1. Closed(t) => Topped(t, "dispatch", "accepted") /\ Turns(t, "answered") /\ TopFrame(t).obj \in Objects
  BY TurnDispatch DEF Closed, Invoking
<1>2. Knock(t) => Topped(t, "dispatch", "accepted") /\ Turns(t, "gate") /\ TopFrame(t).obj \in Objects
  BY TurnDispatch DEF Knock, Invoking
<1>3. NoPermit(t) => Topped(t, "dispatch", "gate") /\ Turns(t, "answered") /\ TopFrame(t).obj \in Objects
  BY TurnDispatch DEF NoPermit, Invoking
<1>4. LeaveGate(t) => Topped(t, "dispatch", "gate") /\ Turns(t, "answered") /\ TopFrame(t).obj \in Objects
  BY TurnDispatch DEF LeaveGate, Invoking
<1>5. Answer(t) => Topped(t, "dispatch", "handler") /\ Turns(t, "gate") /\ TopFrame(t).obj \in Objects
  BY TurnDispatch DEF Answer
<1> QED
  BY <1>1, <1>2, <1>3, <1>4, <1>5

LEMMA EnterStack ==
    ASSUME Stacks, NEW t \in Threads, NEW o \in Objects, Enter(t, o)
    PROVE  /\ Topped(t, "dispatch", "gate") /\ TopFrame(t).obj = o
           /\ Turns(t, IF ~stopping /\ cell[o] = "full" THEN "handler" ELSE "gate")
<1> DEFINE f == [op |-> "dispatch", obj |-> o, att |-> gil # t,
                pc |-> IF ~stopping /\ cell[o] = "full" THEN "handler" ELSE "gate"]
<1>1. Topped(t, "dispatch", "gate") /\ ~Idle(t) /\ TopFrame(t) = Top(t) /\ Top(t).obj = o
  BY AtTop DEF Enter, Invoking
<1>2. f \in Frames
  BY NewFrames
<1>3. Replaces(t, f)
  BY <1>1, <1>2, ReplaceShape DEF Enter
<1> QED
  BY <1>1, <1>2, <1>3 DEF Turns, Topped

LEMMA ShutdownStack ==
    ASSUME Stacks, NEW t \in Threads, ShutdownCallbacks(t) \/ AtExitRuntime(t)
    PROVE  Fresh(t, ShutdownFrame)
  BY NewShutdown, PushShape DEF ShutdownCallbacks, AtExitRuntime, Push, Fresh

LEMMA StopRuntimeStack ==
    ASSUME Stacks, NEW t \in Threads, StopRuntime(t), registry \subseteq Objects
    PROVE  /\ Topped(t, "shutdown", "calling")
           /\ \E f \in Frames : /\ Replaces(t, f) /\ f.op = "shutdown"
                               /\ f.pc = "clear" /\ f.todo = registry
<1> DEFINE f == [Top(t) EXCEPT !.pc = "clear", !.todo = registry]
<1>1. Topped(t, "shutdown", "calling") /\ ~Idle(t) /\ TopFrame(t) = Top(t)
  BY AtTop DEF StopRuntime
<1>2. f \in Frames /\ f.op = "shutdown" /\ f.pc = "clear" /\ f.todo = registry
  <2>1. PICK g : g = Top(t)
    OBVIOUS
  <2>2. g \in Frames /\ g.op = "shutdown" /\ registry \in SUBSET Objects
    BY <1>1, <2>1 DEF Topped
  <2>3. /\ [g EXCEPT !.pc = "clear", !.todo = registry] \in Frames
        /\ [g EXCEPT !.pc = "clear", !.todo = registry].op = "shutdown"
        /\ [g EXCEPT !.pc = "clear", !.todo = registry].todo = registry
        /\ [g EXCEPT !.pc = "clear", !.todo = registry].pc = "clear"
    BY <2>2, StoppingFrames, Zenon
  <2> QED
    BY <2>1, <2>3
<1>3. Replaces(t, f)
  BY <1>1, <1>2, ReplaceShape DEF StopRuntime
<1> QED
  BY <1>1, <1>2, <1>3

LEMMA ClearCellStack ==
    ASSUME Stacks, NEW t \in Threads, NEW o \in Objects, ClearCell(t, o)
    PROVE  /\ Topped(t, "shutdown", "clear") /\ o \in TopFrame(t).todo
           /\ \E f \in Frames : /\ Replaces(t, f) /\ f.op = "shutdown"
                               /\ f.pc = "clear" /\ f.todo = TopFrame(t).todo \ {o}
<1> DEFINE f == [Top(t) EXCEPT !.todo = Top(t).todo \ {o}]
<1>1. Topped(t, "shutdown", "clear") /\ ~Idle(t) /\ TopFrame(t) = Top(t)
  BY AtTop DEF ClearCell
<1>2. Top(t).todo \ {o} \in SUBSET Objects
  BY <1>1, ShutdownFrames DEF Topped
<1>3. f \in Frames /\ f.op = "shutdown" /\ f.pc = "clear" /\ f.todo = Top(t).todo \ {o}
  <2>1. /\ Top(t) \in Frames /\ Top(t).op = "shutdown" /\ Top(t).pc = "clear"
        /\ Top(t).todo \ {o} \in SUBSET Objects
    BY <1>1, <1>2 DEF Topped
  <2> QED
    BY <2>1, ShutdownFrames
<1>4. Replaces(t, f)
  BY <1>1, <1>3, ReplaceShape DEF ClearCell
<1> QED
  BY <1>1, <1>3, <1>4 DEF ClearCell

LEMMA ShutdownEndsStack ==
    ASSUME Stacks, NEW t \in Threads, ShutdownEnds(t)
    PROVE  Topped(t, "shutdown", "clear") /\ TopFrame(t).todo = {} /\ Pops(t)
  BY AtTop, PopShape DEF ShutdownEnds, Return

-----------------------------------------------------------------------------
(* The frames on the stacks, whatever their place *)

OnStack == {f \in Frames : \E t \in Threads : \E i \in 1..Len(stack[t]) : stack[t][i] = f}

\* Of the frames on the stacks a step adds the new ones, and takes at most those gone.
Changes(gone, new) == /\ OnStack' \subseteq OnStack \cup new
                      /\ OnStack \subseteq OnStack' \cup gone
                      /\ new \subseteq OnStack'

LEMMA FramesOnStack ==
    ASSUME Stacks, NEW t \in Threads, NEW i \in 1..Len(stack[t])
    PROVE  stack[t][i] \in Frames /\ stack[t][i] \in OnStack
  BY DEF Stacks, OnStack

LEMMA SameChange == ASSUME Same PROVE Changes({}, {})
  BY DEF Same, Changes, OnStack

LEMMA PushChange ==
    ASSUME Stacks, NEW t \in Threads, NEW f \in Frames, Pushes(t, f)
    PROVE  Changes({}, {f})
<1>1. Len(stack[t]) \in Nat
  BY DEF Stacks
<1>2. OnStack' \subseteq OnStack \cup {f}
  BY <1>1 DEF Pushes, Others, OnStack
<1>3. OnStack \subseteq OnStack'
  <2> SUFFICES ASSUME NEW u \in Threads, NEW i \in 1..Len(stack[u])
               PROVE  i \in 1..Len(stack'[u]) /\ stack'[u][i] = stack[u][i]
    BY DEF OnStack
  <2> QED
    BY <1>1 DEF Pushes, Others
<1>4. f \in OnStack'
  BY <1>1 DEF Pushes, OnStack
<1> QED
  BY <1>2, <1>3, <1>4 DEF Changes

LEMMA ReplaceChange ==
    ASSUME Stacks, NEW t \in Threads, NEW f \in Frames, Replaces(t, f)
    PROVE  Changes({TopFrame(t)}, {f})
<1>1. Len(stack[t]) \in Nat \ {0}
  BY DEF Stacks, Replaces
<1>2. OnStack' \subseteq OnStack \cup {f}
  BY <1>1 DEF Replaces, Others, OnStack
<1>3. OnStack \subseteq OnStack' \cup {TopFrame(t)}
  <2> SUFFICES ASSUME NEW u \in Threads, NEW i \in 1..Len(stack[u]), stack[u][i] # TopFrame(t)
               PROVE  i \in 1..Len(stack'[u]) /\ stack'[u][i] = stack[u][i]
    BY DEF OnStack
  <2> QED
    BY <1>1 DEF Replaces, Others, TopFrame
<1>4. f \in OnStack'
  BY <1>1 DEF Replaces, OnStack
<1> QED
  BY <1>2, <1>3, <1>4 DEF Changes

LEMMA PopChange ==
    ASSUME Stacks, NEW t \in Threads, Pops(t)
    PROVE  Changes({TopFrame(t)}, {})
<1>1. Len(stack[t]) \in Nat \ {0}
  BY DEF Stacks, Pops
<1>2. OnStack' \subseteq OnStack
  BY <1>1 DEF Pops, Others, OnStack
<1>3. OnStack \subseteq OnStack' \cup {TopFrame(t)}
  <2> SUFFICES ASSUME NEW u \in Threads, NEW i \in 1..Len(stack[u]), stack[u][i] # TopFrame(t)
               PROVE  i \in 1..Len(stack'[u]) /\ stack'[u][i] = stack[u][i]
    BY DEF OnStack
  <2> QED
    BY <1>1 DEF Pops, Others, TopFrame
<1> QED
  BY <1>2, <1>3 DEF Changes

LEMMA GrowChange ==
    ASSUME Stacks, NEW t \in Threads, NEW f \in Frames, NEW g \in Frames, Grows(t, f, g)
    PROVE  Changes({TopFrame(t)}, {f, g})
<1>1. Len(stack[t]) \in Nat \ {0}
  BY DEF Stacks, Grows
<1>2. OnStack' \subseteq OnStack \cup {f, g}
  <2> SUFFICES ASSUME NEW u \in Threads, NEW i \in 1..Len(stack'[u])
               PROVE  \/ stack'[u][i] \in {f, g}
                      \/ i \in 1..Len(stack[u]) /\ stack'[u][i] = stack[u][i]
    BY DEF OnStack
  <2>1. CASE u # t
    BY <2>1 DEF Grows, Others
  <2>2. CASE u = t
    BY <1>1, <2>2 DEF Grows
  <2> QED
    BY <2>1, <2>2
<1>3. OnStack \subseteq OnStack' \cup {TopFrame(t)}
  <2> SUFFICES ASSUME NEW u \in Threads, NEW i \in 1..Len(stack[u]), stack[u][i] # TopFrame(t)
               PROVE  i \in 1..Len(stack'[u]) /\ stack'[u][i] = stack[u][i]
    BY DEF OnStack
  <2> QED
    BY <1>1 DEF Grows, Others, TopFrame
<1>4. f \in OnStack' /\ g \in OnStack'
  BY <1>1 DEF Grows, OnStack
<1> QED
  BY <1>2, <1>3, <1>4 DEF Changes

-----------------------------------------------------------------------------
(* A cell is alive while its object has the callback, or a frame keeps it. *)
(* One that is not alive never is again, but by the creation of its object *)

Counts(f) == AcceptedFrame(f) \/ TakenFrame(f) \/ RootFrame(f)

LEMMA AliveIs ==
    ASSUME Stacks, NEW o
    PROVE  CellAlive(o) <=> o \in slot \/ \E f \in OnStack : f.obj = o /\ Counts(f)
<1>1. \A t \in Threads : DOMAIN stack[t] = 1..Len(stack[t])
  BY DEF Stacks
<1>2. \A t \in Threads : \A i \in 1..Len(stack[t]) : stack[t][i] \in OnStack
  BY FramesOnStack
<1> QED
  BY <1>1, <1>2 DEF CellAlive, CallbackAlive, InFrame, Counts, OnStack

LEMMA AliveIsNext ==
    ASSUME NEW o
    PROVE  Stacks' => (CellAlive(o)' <=> o \in slot' \/ \E f \in OnStack' : f.obj = o /\ Counts(f))
<1>1. Stacks => (CellAlive(o) <=> o \in slot \/ \E f \in OnStack : f.obj = o /\ Counts(f))
  BY AliveIs
<1>2. (Stacks => (CellAlive(o) <=> o \in slot \/ \E f \in OnStack : f.obj = o /\ Counts(f)))'
  BY <1>1, PTL
<1> QED
  BY <1>2

LEMMA TopAlive ==
    ASSUME Stacks, NEW t \in Threads, Len(stack[t]) \in Nat \ {0}, Counts(TopFrame(t))
    PROVE  CellAlive(TopFrame(t).obj)
<1>1. TopFrame(t) \in OnStack
  BY FramesOnStack DEF TopFrame
<1> QED
  BY <1>1, AliveIs

LEMMA NotRevived ==
    ASSUME Stacks, Stacks', NEW gone, NEW new, Changes(gone, new), NEW O,
           slot' \subseteq slot \cup O,
           \A f \in new : Counts(f) => f.obj \in O \/ CellAlive(f.obj)
    PROVE  \A o : o \notin O /\ CellAlive(o)' => CellAlive(o)
<1> SUFFICES ASSUME NEW o, o \notin O, CellAlive(o)' PROVE CellAlive(o)
  OBVIOUS
<1>1. CASE o \in slot'
  BY <1>1, AliveIs
<1>2. CASE \E f \in OnStack' : f.obj = o /\ Counts(f)
  <2>1. PICK f \in OnStack' : f.obj = o /\ Counts(f)
    BY <1>2
  <2>2. f \in OnStack \/ f \in new
    BY <2>1 DEF Changes
  <2> QED
    BY <2>1, <2>2, AliveIs
<1> QED
  BY <1>1, <1>2, AliveIsNext

LEMMA NoneRevived ==
    ASSUME Stacks, Stacks', NEW gone, NEW new, Changes(gone, new), slot' \subseteq slot,
           \A f \in new : Counts(f) => CellAlive(f.obj)
    PROVE  \A o : CellAlive(o)' => CellAlive(o)
<1>1. PICK O : O = {}
  OBVIOUS
<1>2. slot' \subseteq slot \cup O /\ \A f \in new : Counts(f) => f.obj \in O \/ CellAlive(f.obj)
  BY <1>1
<1>3. \A o : o \notin O /\ CellAlive(o)' => CellAlive(o)
  BY <1>2, NotRevived
<1> QED
  BY <1>1, <1>3

-----------------------------------------------------------------------------
(* What every step does: no call but a disconnection goes deeper than       *)
(* MaxDepth, only a new object is created, no cell revives but one of O,    *)
(* no value is made of an owner that is leased, and the frames that shut    *)
(* down stay unless the step is theirs                                      *)

NewObject(o) == /\ o \in Objects /\ ~Created(o)
                /\ \A f \in OnStack : f.op = "create" => f.obj # o
Deep(t) ==
    \/ Same \/ Pops(t)
    \/ \E f \in Frames : Fresh(t, f) /\ (f.op = "create" => NewObject(f.obj))
    \/ \E f \in Frames :
           /\ Replaces(t, f) /\ f.op # "create"
           /\ TopFrame(t).op = "disconnect" => f.op = "disconnect"
    \/ \E f \in Frames, g \in Frames :
           /\ Grows(t, f, g) /\ g.op = "disconnect"
           /\ f.op = TopFrame(t).op /\ f.op \notin {"disconnect", "create"}

\* An operation may work on an object whose value is not being made.
MayWork(o) == \/ \A f \in OnStack : ValueFrame(f) => f.obj # o
              \/ \E f \in OnStack : IsOwnerOp(f) /\ f.obj = o
NewValue(o) == /\ o \in identity /\ identity' = identity
               /\ \A f \in OnStack : LeaseFrame(f) => f.obj # o
Leases == \/ \A f \in OnStack' : /\ ValueFrame(f) => f \in OnStack
                                 /\ IsOwnerOp(f) => f \in OnStack \/ MayWork(f.obj)
          \/ \E o : /\ NewValue(o)
                    /\ \A f \in OnStack' : LeaseFrame(f) =>
                           f \in OnStack \/ (ValueFrame(f) /\ f.obj = o)

Step(t, O) == /\ Stacks' /\ Deep(t) /\ Leases
              /\ \A p : p \notin O /\ CellAlive(p)' => CellAlive(p)
StaysShut == \A f \in OnStack : f.op = "shutdown" => f \in OnStack'
Harmless(f) == /\ f.op # "create" /\ ~ValueFrame(f)
               /\ IsOwnerOp(f) => MayWork(f.obj)
               /\ Counts(f) => CellAlive(f.obj)

LEMMA HarmlessLeases ==
    ASSUME NEW gone, NEW new, Changes(gone, new),
           \A f \in new : ~ValueFrame(f) /\ (IsOwnerOp(f) => MayWork(f.obj))
    PROVE  Leases
  BY DEF Leases, Changes

LEMMA SameMove ==
    ASSUME Stacks, NEW t \in Threads, NEW O, slot' \subseteq slot \cup O, Same
    PROVE  Step(t, O) /\ StaysShut
<1>1. Stacks' /\ Changes({}, {})
  BY SameChange DEF Same, Stacks
<1>2. \A p : p \notin O /\ CellAlive(p)' => CellAlive(p)
  BY <1>1, NotRevived
<1>3. Leases
  BY <1>1, HarmlessLeases
<1> QED
  BY <1>1, <1>2, <1>3 DEF Step, Deep, StaysShut, Changes

LEMMA FreshMove ==
    ASSUME Stacks, NEW t \in Threads, NEW O, slot' \subseteq slot \cup O,
           NEW f \in Frames, Fresh(t, f), Harmless(f)
    PROVE  Step(t, O) /\ StaysShut
<1>1. Stacks' /\ Changes({}, {f})
  BY PushChange DEF Fresh, Pushes
<1>2. \A p : p \notin O /\ CellAlive(p)' => CellAlive(p)
  BY <1>1, NotRevived DEF Harmless
<1>3. Leases
  BY <1>1, HarmlessLeases DEF Harmless
<1> QED
  BY <1>1, <1>2, <1>3 DEF Step, Harmless, Deep, StaysShut, Changes

LEMMA BeginMove ==
    ASSUME Stacks, NEW t \in Threads, NEW o \in Objects, BeginCreate(t, o)
    PROVE  Step(t, {}) /\ StaysShut
<1> DEFINE f == Frame("create", o, "wrap")
<1>1. f \in Frames /\ Fresh(t, f) /\ f.op = "create" /\ f.obj = o
  BY NewFrames, BeginCreateStack DEF Frame
<1>2. Stacks' /\ Changes({}, {f}) /\ slot' = slot
  BY <1>1, PushChange DEF Fresh, Pushes, BeginCreate
<1>3. ~Counts(f)
  BY <1>1 DEF Counts, AcceptedFrame, TakenFrame, RootFrame, IsOwnerOp, OwnerOps
<1>4. \A p : CellAlive(p)' => CellAlive(p)
  BY <1>2, <1>3, NoneRevived
<1>5. NewObject(o)
  BY DEF NewObject, BeginCreate, InFrame, CreateFrame, OnStack, Stacks
<1>6. Leases
  BY <1>1, <1>2, HarmlessLeases DEF ValueFrame, IsOwnerOp, OwnerOps
<1> QED
  BY <1>1, <1>2, <1>4, <1>5, <1>6 DEF Step, Deep, StaysShut, Changes

LEMMA ValueMove ==
    ASSUME Stacks, NEW t \in Threads, NEW o \in Objects, ToValue(t, o)
    PROVE  Step(t, {}) /\ StaysShut
<1> DEFINE f == Frame("to_value", o, "track")
<1>1. f \in Frames /\ Fresh(t, f) /\ f.op = "to_value" /\ f.obj = o
  BY NewFrames, ToValueStack DEF Frame
<1>2. Stacks' /\ Changes({}, {f}) /\ slot' = slot
  BY <1>1, PushChange DEF Fresh, Pushes, ToValue
<1>3. ~Counts(f)
  BY <1>1 DEF Counts, AcceptedFrame, TakenFrame, RootFrame, IsOwnerOp, OwnerOps
<1>4. \A p : CellAlive(p)' => CellAlive(p)
  BY <1>2, <1>3, NoneRevived
<1>5. NewValue(o)
  BY DEF NewValue, ToValue, Leased, InFrame, OnStack, Stacks, ownVars
<1>6. ValueFrame(f)
  BY <1>1 DEF ValueFrame
<1>7. Leases
  BY <1>1, <1>2, <1>5, <1>6 DEF Leases, Changes
<1> QED
  BY <1>1, <1>2, <1>4, <1>7 DEF Step, Deep, StaysShut, Changes

LEMMA PopMove ==
    ASSUME Stacks, NEW t \in Threads, NEW O, slot' \subseteq slot \cup O, Pops(t)
    PROVE  Step(t, O) /\ (TopFrame(t).op # "shutdown" => StaysShut)
<1>1. Stacks' /\ Changes({TopFrame(t)}, {})
  BY PopChange DEF Pops
<1>2. \A p : p \notin O /\ CellAlive(p)' => CellAlive(p)
  BY <1>1, NotRevived
<1>3. Leases
  BY <1>1, HarmlessLeases
<1> QED
  BY <1>1, <1>2, <1>3 DEF Step, Deep, StaysShut, Changes

LEMMA ReplaceMove ==
    ASSUME Stacks, NEW t \in Threads, NEW O, slot' \subseteq slot \cup O,
           NEW f \in Frames, Replaces(t, f), Harmless(f),
           f.op \in {TopFrame(t).op, "disconnect"}
    PROVE  Step(t, O) /\ (TopFrame(t).op # "shutdown" => StaysShut)
<1>1. Stacks' /\ Changes({TopFrame(t)}, {f})
  BY ReplaceChange DEF Replaces
<1>2. \A p : p \notin O /\ CellAlive(p)' => CellAlive(p)
  BY <1>1, NotRevived DEF Harmless
<1>3. Leases
  BY <1>1, HarmlessLeases DEF Harmless
<1> QED
  BY <1>1, <1>2, <1>3 DEF Step, Harmless, Deep, StaysShut, Changes

LEMMA GrowMove ==
    ASSUME Stacks, NEW t \in Threads, NEW O, slot' \subseteq slot \cup O,
           NEW f \in Frames, NEW g \in Frames, Grows(t, f, g), Harmless(f), Harmless(g),
           f.op = TopFrame(t).op, f.op # "disconnect", g.op = "disconnect"
    PROVE  Step(t, O) /\ (TopFrame(t).op # "shutdown" => StaysShut)
<1>1. Stacks' /\ Changes({TopFrame(t)}, {f, g})
  BY GrowChange DEF Grows
<1>2. \A p : p \notin O /\ CellAlive(p)' => CellAlive(p)
  BY <1>1, NotRevived DEF Harmless
<1>3. Leases
  BY <1>1, HarmlessLeases DEF Harmless
<1> QED
  BY <1>1, <1>2, <1>3 DEF Step, Harmless, Deep, StaysShut, Changes

LEMMA TurnMove ==
    ASSUME Stacks, NEW t \in Threads, slot' \subseteq slot, NEW pc, Turns(t, pc),
           NEW from, Topped(t, "dispatch", from), from \in Accepted \/ pc \notin Accepted
    PROVE  Step(t, {}) /\ StaysShut
<1>1. PICK f \in Frames : /\ Replaces(t, f) /\ f.pc = pc
                         /\ f.op = TopFrame(t).op /\ f.obj = TopFrame(t).obj
  BY DEF Turns
<1>2. f.op = "dispatch"
  BY <1>1 DEF Topped
<1>3. Harmless(f)
  <2> SUFFICES ASSUME Counts(f) PROVE CellAlive(f.obj)
    BY <1>2 DEF Harmless, ValueFrame, IsOwnerOp, OwnerOps
  <2>1. AcceptedFrame(TopFrame(t))
    BY <1>1, <1>2 DEF Counts, AcceptedFrame, TakenFrame, RootFrame, IsOwnerOp, OwnerOps, Topped
  <2> QED
    BY <1>1, <2>1, TopAlive DEF Counts, Topped
<1> QED
  BY <1>1, <1>2, <1>3, ReplaceMove DEF Topped

LEMMA HarmlessFrames ==
    ASSUME Stacks, NEW o \in Objects
    PROVE  /\ Disconnection(o) \in Frames /\ Harmless(Disconnection(o))
           /\ Frame("resolve", o, "pinned") \in Frames /\ Harmless(Frame("resolve", o, "pinned"))
           /\ Frame("dispatch", o, "pinned") \in Frames /\ Harmless(Frame("dispatch", o, "pinned"))
           /\ Frame("finalizer", o, "python") \in Frames /\ Harmless(Frame("finalizer", o, "python"))
           /\ Disconnection(o).op = "disconnect"
<1>1. \A op, pc : /\ op \notin {"disconnect", "create", "created", "to_value"} \cup OwnerOps
                  /\ pc \notin Accepted
        => Harmless(Frame(op, o, pc))
  BY DEF Harmless, Counts, AcceptedFrame, TakenFrame, RootFrame, ValueFrame, IsOwnerOp, Frame
<1>2. Harmless(Disconnection(o)) /\ Disconnection(o).op = "disconnect"
  BY DEF Harmless, Counts, AcceptedFrame, TakenFrame, RootFrame, ValueFrame, IsOwnerOp,
         OwnerOps, Disconnection, Frame
<1> QED
  BY <1>1, <1>2, NewFrames DEF OwnerOps, Accepted, Disconnection

LEMMA HostMoves ==
    ASSUME Stacks, NEW t \in Threads, NEW o \in Objects,
           \/ Release(t, o) \/ GetWeakReference(t, o) \/ Resolve(t, o) \/ Dispatch(t, o)
           \/ \E u \in Threads : AddRef(t, u, o)
           \/ Resolved(t, o) \/ NoInterface(t, o) \/ Accept(t, o) \/ Unpin(t, o)
           \/ TakeCallback(t, o) \/ DropClone(t) \/ DropCallback(t)
    PROVE  Step(t, {}) /\ StaysShut
<1>1. CASE Release(t, o)
  <2>1. slot' \subseteq slot
    BY <1>1 DEF Release
  <2> QED
    BY <1>1, <2>1, ReleaseStack, HarmlessFrames, FreshMove, SameMove
<1>2. CASE GetWeakReference(t, o) \/ \E u \in Threads : AddRef(t, u, o)
  BY <1>2, SameMove DEF GetWeakReference, AddRef, Same
<1>3. CASE Resolve(t, o) \/ Dispatch(t, o)
  <2>1. slot' \subseteq slot
    BY <1>3 DEF Resolve, Dispatch
  <2> QED
    BY <1>3, <2>1, ResolveStack, DispatchStack, HarmlessFrames, FreshMove
<1>4. CASE Resolved(t, o)
  <2>1. slot' \subseteq slot
    BY <1>4 DEF Resolved
  <2> QED
    BY <1>4, <2>1, ResolvedStack, PopMove DEF Topped
<1>5. CASE NoInterface(t, o)
  <2>1. slot' \subseteq slot
    BY <1>5 DEF NoInterface
  <2> QED
    BY <1>5, <2>1, NoInterfaceStack, HarmlessFrames, PopMove, ReplaceMove DEF Topped
<1>6. CASE Accept(t, o)
  <2>1. slot' \subseteq slot
    BY <1>6 DEF Accept
  <2>2. CASE t = owner[o] /\ o \in slot
    <3>1. PICK f \in Frames : /\ Replaces(t, f) /\ f.pc = "accepted"
                             /\ f.op = TopFrame(t).op /\ f.obj = o
      BY <1>6, <2>2, AcceptStack DEF Turns
    <3>2. Harmless(f)
      BY <1>6, <2>2, <3>1, AcceptStack
         DEF Harmless, ValueFrame, IsOwnerOp, OwnerOps, CellAlive, CallbackAlive, Topped
    <3> QED
      BY <1>6, <2>1, <3>1, <3>2, AcceptStack, ReplaceMove DEF Topped
  <2>3. CASE ~(t = owner[o] /\ o \in slot)
    BY <1>6, <2>1, <2>3, AcceptStack, TurnMove DEF Accepted
  <2> QED
    BY <2>2, <2>3
<1>7. CASE Unpin(t, o)
  <2>1. slot' \subseteq slot
    BY <1>7 DEF Unpin
  <2> QED
    BY <1>7, <2>1, UnpinStack, HarmlessFrames, PopMove, ReplaceMove DEF Topped
<1>8. CASE TakeCallback(t, o)
  <2>1. slot' \subseteq slot
    BY <1>8 DEF TakeCallback
  <2>2. CASE o \in slot
    <3>1. PICK f \in Frames : /\ Replaces(t, f) /\ f.op = TopFrame(t).op /\ f.obj = o
      BY <1>8, <2>2, TakeCallbackStack DEF Turns
    <3>2. Harmless(f)
      BY <1>8, <2>2, <3>1, TakeCallbackStack
         DEF Harmless, ValueFrame, IsOwnerOp, OwnerOps, CellAlive, CallbackAlive, Topped
    <3> QED
      BY <1>8, <2>1, <3>1, <3>2, TakeCallbackStack, ReplaceMove DEF Topped
  <2>3. CASE o \notin slot
    BY <1>8, <2>1, <2>3, TakeCallbackStack, PopMove DEF Topped
  <2> QED
    BY <2>2, <2>3
<1>9. CASE DropClone(t)
  BY <1>9, DropCloneStack, TurnMove DEF DropClone, Accepted
<1>10. CASE DropCallback(t)
  BY <1>10, DropCallbackStack, PopMove DEF DropCallback, Topped
<1> QED
  BY <1>1, <1>2, <1>3, <1>4, <1>5, <1>6, <1>7, <1>8, <1>9, <1>10

LEMMA WorksHarmless ==
    ASSUME Stacks, NEW t \in Threads, OwnerTop(t), NEW f \in Frames, Works(f, t)
    PROVE  Harmless(f) /\ f.op = TopFrame(t).op /\ f.op # "disconnect" /\ f.op # "shutdown"
<1>1. f.op \in OwnerOps /\ f.op = TopFrame(t).op /\ f.obj = TopFrame(t).obj
      /\ f.root = TopFrame(t).root /\ Len(stack[t]) \in Nat \ {0}
  BY DEF OwnerTop, Works
<1>2. ASSUME Counts(f) PROVE CellAlive(f.obj)
  <2>1. RootFrame(TopFrame(t))
    BY <1>1, <1>2 DEF Counts, AcceptedFrame, TakenFrame, RootFrame, IsOwnerOp, OwnerOps
  <2> QED
    BY <1>1, <2>1, TopAlive DEF Counts
<1>3. MayWork(f.obj)
  <2>1. TopFrame(t) \in OnStack /\ IsOwnerOp(TopFrame(t))
    BY <1>1, FramesOnStack DEF TopFrame, IsOwnerOp
  <2> QED
    BY <1>1, <2>1 DEF MayWork
<1> QED
  BY <1>1, <1>2, <1>3 DEF Harmless, ValueFrame, OwnerOps

LEMMA OwnerMoves ==
    ASSUME Stacks, NEW t \in Threads, NEW o \in Objects,
           \/ \E op \in OwnerOps : OwnerOp(t, o, op)
           \/ LookAtFlag(t, o) \/ LookAtCount(t, o) \/ Disconnect(t, o)
           \/ ReleaseIdentity(t, o) \/ Restore(t) \/ ToValue(t, o) \/ DropOwner(t, o)
    PROVE  Step(t, {}) /\ StaysShut
<1>1. ASSUME NEW op \in OwnerOps, OwnerOp(t, o, op) PROVE Step(t, {}) /\ StaysShut
  <2>1. MayWork(o)
    BY <1>1 DEF OwnerOp, Leased, InFrame, LeaseFrame, MayWork, OnStack, Stacks
  <2>2. Harmless(OwnerFrame(o, op))
    BY <2>1 DEF Harmless, Counts, AcceptedFrame, TakenFrame, RootFrame, ValueFrame, IsOwnerOp,
                OwnerOps, OwnerFrame
  <2> QED
    BY <1>1, <2>2, OwnerOpStack, FreshMove DEF OwnerOp
<1>2. CASE LookAtFlag(t, o) \/ LookAtCount(t, o)
  <2>1. slot' \subseteq slot
    BY <1>2 DEF LookAtFlag, LookAtCount
  <2> QED
    BY <1>2, <2>1, LookStack, WorksHarmless, ReplaceMove
<1>3. CASE Disconnect(t, o)
  <2>1. slot' \subseteq slot
    BY <1>3 DEF Disconnect
  <2> QED
    BY <1>3, <2>1, DisconnectStack, WorksHarmless, HarmlessFrames, GrowMove
<1>4. CASE ReleaseIdentity(t, o)
  <2>1. slot' \subseteq slot
    BY <1>4 DEF ReleaseIdentity
  <2> QED
    BY <1>4, <2>1, ReleaseIdentityStack, WorksHarmless, HarmlessFrames, GrowMove, ReplaceMove
<1>5. CASE Restore(t)
  BY <1>5, RestoreStack, PopMove DEF Restore, OwnerTop, OwnerOps
<1>6. CASE ToValue(t, o)
  BY <1>6, ValueMove
<1>7. CASE DropOwner(t, o)
  <2>1. slot' \subseteq slot
    BY <1>7 DEF DropOwner
  <2> QED
    BY <1>7, <2>1, DropOwnerStack, HarmlessFrames, FreshMove, SameMove
<1> QED
  BY <1>1, <1>2, <1>3, <1>4, <1>5, <1>6, <1>7

\* A function in Python that tracks an owner or a value returns.
Ends(t) == CreateEnds(t) \/ ToValueEnds(t)

LEMMA PythonMoves ==
    ASSUME Stacks, NEW t \in Threads, NEW o \in Objects,
           BeginCreate(t, o) \/ CreateFails(t) \/ RunFinalizer(t, o) \/ Ends(t)
    PROVE  Step(t, {}) /\ StaysShut
<1>1. CASE BeginCreate(t, o)
  BY <1>1, BeginMove
<1>2. CASE CreateFails(t)
  BY <1>2, CreateFailsStack, PopMove DEF CreateFails, Topped
<1>3. CASE RunFinalizer(t, o)
  BY <1>3, RunFinalizerStack, HarmlessFrames, FreshMove, SameMove DEF RunFinalizer
<1>4. CASE Ends(t)
  BY <1>4, CreateEndsStack, ToValueEndsStack, PopMove DEF Ends, CreateEnds, ToValueEnds, Topped
<1> QED
  BY <1>1, <1>2, <1>3, <1>4

LEMMA CreateMoves ==
    ASSUME Stacks, NEW t \in Threads, NEW o \in Objects, Create(t, o)
    PROVE  Step(t, {o}) /\ StaysShut
<1> DEFINE f == Frame("created", o, "track")
<1>1. /\ f \in Frames /\ Replaces(t, f) /\ f.op = "created" /\ f.obj = o
      /\ TopFrame(t).op = "create"
  BY NewFrames, CreateStack DEF Frame, Topped
<1>2. Stacks' /\ Changes({TopFrame(t)}, {f}) /\ slot' = slot \cup {o}
  BY <1>1, ReplaceChange DEF Replaces, Create
<1>3. \A p : p \notin {o} /\ CellAlive(p)' => CellAlive(p)
  <2>1. PICK new : new = {f}
    OBVIOUS
  <2>2. \A g \in new : Counts(g) => g.obj \in {o} \/ CellAlive(g.obj)
    BY <1>1, <2>1
  <2>3. Changes({TopFrame(t)}, new) /\ slot' \subseteq slot \cup {o}
    BY <1>2, <2>1
  <2> QED
    BY <1>2, <2>2, <2>3, NotRevived
<1>4. Leases
  BY <1>1, <1>2, HarmlessLeases DEF ValueFrame, IsOwnerOp, OwnerOps
<1> QED
  BY <1>1, <1>2, <1>3, <1>4 DEF Step, Deep, StaysShut, Changes

LEMMA InvokeMoves ==
    ASSUME Stacks, NEW t \in Threads, InvokeStep(t)
    PROVE  Step(t, {}) /\ StaysShut
<1>0. slot' \subseteq slot
  BY DEF InvokeStep, Closed, Knock, TakePermit, NoPermit, CannotEnter, Enter, Answer, Detach,
         LeaveGate, Elsewhere
<1>1. CASE Closed(t) \/ Knock(t) \/ NoPermit(t) \/ LeaveGate(t) \/ Answer(t)
  BY <1>0, <1>1, InvokeStack, TurnMove DEF Accepted
<1>2. CASE TakePermit(t) \/ CannotEnter(t) \/ Detach(t)
  BY <1>0, <1>2, SameMove DEF TakePermit, CannotEnter, Detach, Same
<1>3. ASSUME NEW o \in Objects, Enter(t, o) PROVE Step(t, {}) /\ StaysShut
  BY <1>0, <1>3, EnterStack, TurnMove DEF Accepted
<1> QED
  BY <1>1, <1>2, <1>3 DEF InvokeStep

LEMMA StopHarmless == \A f : f.op = "shutdown" => Harmless(f)
  BY DEF Harmless, Counts, AcceptedFrame, TakenFrame, RootFrame, ValueFrame, IsOwnerOp, OwnerOps

LEMMA ThreadMoves ==
    ASSUME Stacks, registry \subseteq Objects, NEW t \in Threads,
           \/ TakeGil(t) \/ YieldGil(t) \/ FinalizerEnds(t)
           \/ ShutdownCallbacks(t) \/ AtExitRuntime(t) \/ AtExitGate(t)
           \/ StopRuntime(t) \/ ShutdownEnds(t)
    PROVE  Step(t, {}) /\ (StopRuntime(t) \/ ShutdownEnds(t) \/ StaysShut)
<1>1. CASE TakeGil(t) \/ YieldGil(t) \/ AtExitGate(t)
  BY <1>1, SameMove DEF TakeGil, YieldGil, AtExitGate, Same, objectVars
<1>2. CASE FinalizerEnds(t)
  BY <1>2, FinalizerEndsStack, PopMove DEF FinalizerEnds, Topped
<1>3. CASE StopRuntime(t)
  <2>1. PICK f \in Frames : Replaces(t, f) /\ f.op = "shutdown" /\ TopFrame(t).op = "shutdown"
    BY <1>3, StopRuntimeStack DEF Topped
  <2>2. slot' \subseteq slot \cup {}
    BY <1>3 DEF StopRuntime
  <2> QED
    BY <1>3, <2>1, <2>2, ReplaceMove, StopHarmless
<1>4. CASE ShutdownEnds(t)
  BY <1>4, ShutdownEndsStack, PopMove DEF ShutdownEnds
<1>5. CASE ShutdownCallbacks(t) \/ AtExitRuntime(t)
  BY <1>5, ShutdownStack, NewShutdown, StopHarmless, FreshMove
     DEF ShutdownCallbacks, AtExitRuntime, ShutdownFrame
<1> QED
  BY <1>1, <1>2, <1>3, <1>4, <1>5

LEMMA StopMoves ==
    ASSUME Stacks, NEW t \in Threads, NEW o \in Objects, ClearCell(t, o)
    PROVE  Step(t, {})
  BY StopHarmless, ClearCellStack, ReplaceMove DEF ClearCell, Topped

-----------------------------------------------------------------------------
(* The stacks are well formed, and bounded *)

Depths == \A t \in Threads :
              /\ Len(stack[t]) <= MaxDepth + 1
              /\ \A i \in 1..Len(stack[t]) : stack[t][i].op # "disconnect" => i <= MaxDepth
Base == Stacks /\ registry \subseteq Objects /\ Depths

LEMMA StepTaken ==
    ASSUME Stacks, registry \subseteq Objects, Next
    PROVE  \E t \in Threads, O \in SUBSET Objects : Step(t, O)
<1>1. ASSUME NEW t \in Threads, NEW o \in Objects, RunFinalizer(t, o) PROVE Step(t, {})
  BY <1>1, PythonMoves
<1>2. ASSUME NEW t \in Threads, TakeGil(t) \/ YieldGil(t) \/ FinalizerEnds(t) PROVE Step(t, {})
  BY <1>2, ThreadMoves
<1>3. ASSUME NEW t \in Threads, ObjectStep(t) PROVE Step(t, {})
  <2>1. CASE NativeStep(t)
    BY <2>1, HostMoves DEF NativeStep
  <2>2. CASE DropClone(t)
    BY <2>2, DropCloneStack, TurnMove DEF DropClone, Accepted
  <2>3. CASE DropCallback(t)
    BY <2>3, DropCallbackStack, PopMove DEF DropCallback
  <2> QED
    BY <1>3, <2>1, <2>2, <2>3, HostMoves DEF ObjectStep, Running
<1>4. ASSUME NEW t \in Threads, OwnerStep(t)
      PROVE  \E O \in SUBSET Objects : Step(t, O)
  <2>1. CASE CreateFails(t) \/ Ends(t)
    BY <2>1, CreateFailsStack, CreateEndsStack, ToValueEndsStack, PopMove
       DEF CreateFails, Ends, CreateEnds, ToValueEnds
  <2>2. CASE Restore(t)
    BY <2>2, RestoreStack, PopMove DEF Restore
  <2>3. ASSUME NEW o \in Objects, Create(t, o) PROVE Step(t, {o})
    BY <2>3, CreateMoves
  <2>4. ASSUME NEW o \in Objects, BeginCreate(t, o) PROVE Step(t, {})
    BY <2>4, PythonMoves
  <2> QED
    BY <1>4, <2>1, <2>2, <2>3, <2>4, OwnerMoves DEF OwnerStep, Ends
<1>5. ASSUME NEW t \in Threads, InvokeStep(t) PROVE Step(t, {})
  BY <1>5, InvokeMoves
<1>6. ASSUME NEW t \in Threads, ShutdownStep(t) PROVE Step(t, {})
  BY <1>6, ThreadMoves, StopMoves DEF ShutdownStep
<1> QED
  BY <1>1, <1>2, <1>3, <1>4, <1>5, <1>6 DEF Next

LEMMA DeepPreserved ==
    ASSUME Stacks, Depths, NEW t \in Threads, Deep(t), Stacks'
    PROVE  Depths'
<1>1. Len(stack[t]) \in Nat /\ MaxDepth \in Nat /\ \A u \in Threads : Len(stack[u]) \in Nat
  BY ConstantsAssumption DEF Stacks
<1>2. CASE Same
  BY <1>2 DEF Depths, Same
<1>3. CASE Pops(t)
  BY <1>1, <1>3 DEF Depths, Pops, Others
<1>4. ASSUME NEW f \in Frames, Fresh(t, f) PROVE Depths'
  BY <1>1, <1>4 DEF Depths, Fresh, Pushes, Others
<1>5. ASSUME NEW f \in Frames, Replaces(t, f),
             TopFrame(t).op = "disconnect" => f.op = "disconnect"
      PROVE  Depths'
  BY <1>1, <1>5 DEF Depths, Replaces, Others, TopFrame
<1>6. ASSUME NEW f \in Frames, NEW g \in Frames, Grows(t, f, g), g.op = "disconnect",
             f.op = TopFrame(t).op, f.op # "disconnect"
      PROVE  Depths'
  <2>1. Len(stack[t]) \in 1..Len(stack[t]) /\ Len(stack[t]) <= MaxDepth
    BY <1>1, <1>6 DEF Depths, Grows, TopFrame
  <2> QED
    BY <1>1, <1>6, <2>1 DEF Depths, Grows, Others, TopFrame
<1>8. CASE \E f \in Frames : Fresh(t, f) /\ (f.op = "create" => NewObject(f.obj))
  BY <1>4, <1>8
<1>9. CASE \E f \in Frames :
              /\ Replaces(t, f) /\ f.op # "create"
              /\ TopFrame(t).op = "disconnect" => f.op = "disconnect"
  BY <1>5, <1>9
<1>10. CASE \E f \in Frames, g \in Frames :
              /\ Grows(t, f, g) /\ g.op = "disconnect"
              /\ f.op = TopFrame(t).op /\ f.op \notin {"disconnect", "create"}
  BY <1>6, <1>10
<1> QED
  BY <1>2, <1>3, <1>8, <1>9, <1>10 DEF Deep

\* The cells and the registry change only at a creation and at shutdown.
Quiet == UNCHANGED <<cell, registry, stopping>>

LEMMA OwnerQuiet ==
    ASSUME NEW t \in Threads, OwnerStep(t)
    PROVE  Quiet \/ \E o \in Objects : Create(t, o)
<1>1. ASSUME NEW o \in Objects, BeginCreate(t, o) PROVE Quiet
  BY <1>1 DEF BeginCreate, Quiet, interpVars
<1>2. ASSUME NEW o \in Objects, NEW op \in OwnerOps, OwnerOp(t, o, op) PROVE Quiet
  BY <1>2 DEF OwnerOp, Quiet, interpVars
<1>3. ASSUME NEW o \in Objects, LookAtFlag(t, o) \/ LookAtCount(t, o) \/ Disconnect(t, o)
      PROVE  Quiet
  BY <1>3 DEF LookAtFlag, LookAtCount, Disconnect, Quiet, interpVars
<1>4. ASSUME NEW o \in Objects, ReleaseIdentity(t, o) \/ ToValue(t, o) \/ DropOwner(t, o)
      PROVE  Quiet
  BY <1>4 DEF ReleaseIdentity, ToValue, DropOwner, Quiet, interpVars
<1>5. ASSUME CreateFails(t) \/ Restore(t) \/ Ends(t) PROVE Quiet
  BY <1>5 DEF CreateFails, Restore, Ends, CreateEnds, ToValueEnds, Quiet, interpVars
<1> QED
  BY <1>1, <1>2, <1>3, <1>4, <1>5 DEF OwnerStep, Ends

LEMMA InvokeQuiet ==
    ASSUME NEW t \in Threads, InvokeStep(t)
    PROVE  Quiet
<1>1. Elsewhere
  BY DEF InvokeStep, Closed, Knock, TakePermit, NoPermit, CannotEnter, Enter, Answer, Detach,
         LeaveGate
<1> QED
  BY <1>1 DEF Elsewhere, Quiet, interpVars

LEMMA ShutdownQuiet ==
    ASSUME NEW t \in Threads, ShutdownStep(t)
    PROVE  Quiet \/ StopRuntime(t) \/ \E o \in Objects : ClearCell(t, o)
  BY DEF ShutdownStep, ShutdownCallbacks, AtExitRuntime, AtExitGate, ShutdownEnds, Quiet, interpVars

LEMMA RegistryStep ==
    ASSUME registry \subseteq Objects, Next
    PROVE  registry' \subseteq Objects
<1> SUFFICES ASSUME ~Quiet PROVE registry' \subseteq Objects
  BY DEF Quiet
<1>1. PICK t \in Threads :
        StopRuntime(t) \/ \E o \in Objects : Create(t, o) \/ ClearCell(t, o)
  <2>1. ASSUME NEW t \in Threads, TakeGil(t) \/ YieldGil(t) \/ FinalizerEnds(t) \/ ObjectStep(t)
        PROVE  Quiet
    BY <2>1 DEF TakeGil, YieldGil, FinalizerEnds, ObjectStep, Outside, Quiet, interpVars
  <2>2. ASSUME NEW t \in Threads, NEW o \in Objects, RunFinalizer(t, o) PROVE Quiet
    BY <2>2 DEF RunFinalizer, Quiet, interpVars
  <2> QED
    BY <2>1, <2>2, OwnerQuiet, InvokeQuiet, ShutdownQuiet DEF Next
<1>2. registry' = registry \/ registry' = {}
      \/ \E o \in Objects : registry' = {p \in registry : CellAlive(p)} \cup {o}
  BY <1>1 DEF StopRuntime, Create, ClearCell, interpVars
<1> QED
  BY <1>2

(* The stacks of calls keep their form: a call nests only MaxDepth deep, but *)
(* for the disconnection that the last Release runs (identity.rs:39-46,      *)
(* mod.rs:239-247), and the registry names objects.                          *)
THEOREM BaseHolds == Spec => []Base
<1>1. Init => Base
  BY ConstantsAssumption DEF Init, InitObject, Base, Stacks, Depths
<1>2. Base /\ [Next]_vars => Base'
  <2>1. ASSUME Base, Next PROVE Base'
    <3>1. PICK t \in Threads, O \in SUBSET Objects : Step(t, O)
      BY <2>1, StepTaken DEF Base
    <3>2. Stacks' /\ Depths'
      BY <2>1, <3>1, DeepPreserved DEF Base, Step
    <3> QED
      BY <2>1, <3>2, RegistryStep DEF Base
  <2>2. ASSUME Base, UNCHANGED vars PROVE Base'
    BY <2>2 DEF Base, Stacks, Depths, vars, objectVars, interpVars
  <2> QED
    BY <2>1, <2>2
<1> QED
  BY <1>1, <1>2, PTL DEF Spec

-----------------------------------------------------------------------------
(* Every step is a step of the gate, or leaves it alone; what is proved of  *)
(* the gate by itself therefore holds here                                  *)

LEMMA CallsFinite == IsFiniteSet(Calls)
<1>1. IsFiniteSet(1..MaxDepth)
  BY ConstantsAssumption, FS_Interval
<1> QED
  BY <1>1, ConstantsAssumption, FS_Product DEF Calls

LEMMA SelfIsCall ==
    ASSUME Base, NEW t \in Threads, NEW pc, Invoking(t, pc)
    PROVE  Self(t) \in Calls
<1>1. Topped(t, "dispatch", pc)
  BY AtTop DEF Base, Invoking
<1>2. Len(stack[t]) \in 1..MaxDepth
  BY <1>1, ConstantsAssumption DEF Base, Depths, Topped, TopFrame
<1> QED
  BY <1>2 DEF Self, Calls

GateStep == Gate!Next \/ UNCHANGED gateVars

LEMMA InvokeGate ==
    ASSUME Base, NEW t \in Threads, InvokeStep(t)
    PROVE  GateStep
<1>1. CASE Closed(t) \/ Answer(t)
  BY <1>1 DEF Closed, Answer, GateStep
<1>2. ASSUME NEW c \in Calls,
             \/ Gate!Check(c) \/ Gate!Grant(c) \/ Gate!Refuse(c) \/ Gate!Attach(c)
             \/ Gate!CannotAttach(c) \/ Gate!Detach(c) \/ Gate!Leave(c)
      PROVE  GateStep
  BY <1>2 DEF Gate!Pass, Gate!Next, GateStep
<1>3. CASE Knock(t) \/ TakePermit(t) \/ NoPermit(t) \/ CannotEnter(t) \/ Detach(t) \/ LeaveGate(t)
  BY <1>2, <1>3, SelfIsCall DEF Knock, TakePermit, NoPermit, CannotEnter, Detach, LeaveGate
<1>4. ASSUME NEW o \in Objects, Enter(t, o) PROVE GateStep
  BY <1>2, <1>4, SelfIsCall DEF Enter
<1> QED
  BY <1>1, <1>3, <1>4 DEF InvokeStep

LEMMA OwnerGate ==
    ASSUME NEW t \in Threads, OwnerStep(t)
    PROVE  UNCHANGED gateVars
<1>1. ASSUME NEW o \in Objects, BeginCreate(t, o) \/ Create(t, o) PROVE UNCHANGED gateVars
  BY <1>1 DEF BeginCreate, Create
<1>2. ASSUME NEW o \in Objects, NEW op \in OwnerOps, OwnerOp(t, o, op) PROVE UNCHANGED gateVars
  BY <1>2 DEF OwnerOp
<1>3. ASSUME NEW o \in Objects, LookAtFlag(t, o) \/ LookAtCount(t, o) \/ Disconnect(t, o)
      PROVE  UNCHANGED gateVars
  BY <1>3 DEF LookAtFlag, LookAtCount, Disconnect
<1>4. ASSUME NEW o \in Objects, ReleaseIdentity(t, o) \/ ToValue(t, o) \/ DropOwner(t, o)
      PROVE  UNCHANGED gateVars
  BY <1>4 DEF ReleaseIdentity, ToValue, DropOwner
<1>5. ASSUME CreateFails(t) \/ Restore(t) \/ Ends(t) PROVE UNCHANGED gateVars
  BY <1>5 DEF CreateFails, Restore, Ends, CreateEnds, ToValueEnds
<1> QED
  BY <1>1, <1>2, <1>3, <1>4, <1>5 DEF OwnerStep, Ends

LEMMA GateSteps == Base /\ [Next]_vars => GateStep
<1> SUFFICES ASSUME Base, [Next]_vars PROVE GateStep
  OBVIOUS
<1>1. CASE UNCHANGED vars
  BY <1>1 DEF vars, GateStep
<1>2. ASSUME NEW t \in Threads, TakeGil(t) \/ YieldGil(t) \/ FinalizerEnds(t) \/ ObjectStep(t)
      PROVE  GateStep
  BY <1>2 DEF TakeGil, YieldGil, FinalizerEnds, ObjectStep, Outside, GateStep
<1>3. ASSUME NEW t \in Threads, NEW o \in Objects, RunFinalizer(t, o) PROVE GateStep
  BY <1>3 DEF RunFinalizer, GateStep
<1>4. ASSUME NEW t \in Threads, ShutdownStep(t) PROVE GateStep
  <2>1. CASE ShutdownCallbacks(t)
    BY <2>1 DEF ShutdownCallbacks, Gate!Next, GateStep
  <2>2. CASE AtExitGate(t)
    BY <2>2 DEF AtExitGate, Gate!Next, GateStep
  <2>3. CASE AtExitRuntime(t) \/ StopRuntime(t) \/ ShutdownEnds(t)
    BY <2>3 DEF AtExitRuntime, StopRuntime, ShutdownEnds, GateStep
  <2>4. ASSUME NEW o \in Objects, ClearCell(t, o) PROVE GateStep
    BY <2>4 DEF ClearCell, GateStep
  <2> QED
    BY <1>4, <2>1, <2>2, <2>3, <2>4 DEF ShutdownStep
<1>5. ASSUME NEW t \in Threads, OwnerStep(t) PROVE GateStep
  BY <1>5, OwnerGate DEF GateStep
<1> QED
  BY <1>1, <1>2, <1>3, <1>4, <1>5, InvokeGate DEF Next

(* The callbacks use the gate as its own specification says, although       *)
(* calls nest on a thread, the interpreter's lock changes hands under them  *)
(* and a call that finds no handler leaves at once (implementation.rs:      *)
(* 159-228, runtime.rs:40-101).                                             *)
THEOREM UsesGate == Spec => Gate!Spec
<1>1. Init => Gate!Init
  BY DEF Init
<1>2. Base /\ [Next]_vars => [Gate!Next]_(Gate!gateVars)
  BY GateSteps DEF GateStep, gateVars, Gate!gateVars
<1> QED
  BY <1>1, <1>2, BaseHolds, PTL DEF Spec, Gate!Spec

LEMMA GateHolds == Spec => []Gate!Inductive
<1>1. Gate!Spec => []Gate!Inductive
  <2>1. Gate!IsFiniteSet(Calls)
    BY CallsFinite DEF IsFiniteSet, Gate!IsFiniteSet
  <2> QED
    BY <2>1, Gate!InductiveHolds
<1> QED
  BY <1>1, UsesGate, PTL

LEMMA GateTyped == Spec => []Gate!TypeOK
<1>1. Gate!Inductive => Gate!TypeOK
  BY DEF Gate!Inductive
<1> QED
  BY <1>1, GateHolds, PTL

(* A gate that shutdown shut stays shut, whatever callbacks, owners and     *)
(* finalizers do (runtime.rs:79-101, 122-146).                              *)
THEOREM GateShutHolds == Spec => []GateShut
<1>1. Gate!Inductive => GateShut
  BY DEF Gate!Inductive, GateShut
<1> QED
  BY <1>1, GateHolds, PTL

-----------------------------------------------------------------------------
(* Leases.  An operation of an owner is at the top of its stack, or just    *)
(* below the disconnection it runs; its thread holds the interpreter's      *)
(* lock, and no finalizer is due: nothing it does ends the cell's life      *)

Lease(t) == \E i \in 1..Len(stack[t]) : IsOwnerOp(stack[t][i])
Placed(t, i) == \/ i = Len(stack[t])
                \/ /\ i = Len(stack[t]) - 1
                   /\ TopFrame(t).op = "disconnect" /\ TopFrame(t).obj = stack[t][i].obj
Rooted(f) == f.root \/ ~CellAlive(f.obj)
LeaseInv ==
    \A t \in Threads : \A i \in 1..Len(stack[t]) :
        IsOwnerOp(stack[t][i]) => /\ gil = t /\ Due = {}
                                  /\ Placed(t, i) /\ Rooted(stack[t][i])

\* A step that adds no frame of an owner, one taken where no owner is leased, and one
\* that takes the interpreter's lock from no other thread.
Plain(t) ==
    /\ Stacks' /\ Others(t)
    /\ \A i \in 1..Len(stack'[t]) :
           IsOwnerOp(stack'[t][i]) => i \in 1..Len(stack[t]) /\ stack'[t][i] = stack[t][i]
Free(t) == Idle(t) \/ Top(t).op \notin OwnerOps \cup {"disconnect"}
GilMoves(t) == gil' = gil \/ gil \in {t, NoThread}

LEMMA PlainShapes ==
    ASSUME Stacks, NEW t \in Threads
    PROVE  /\ Same => Plain(t)
           /\ Pops(t) => Plain(t)
           /\ \A f \in Frames : Fresh(t, f) /\ ~IsOwnerOp(f) => Plain(t)
           /\ \A f \in Frames : Replaces(t, f) /\ ~IsOwnerOp(f) => Plain(t)
<1>1. Len(stack[t]) \in Nat
  BY DEF Stacks
<1>2. Same => Plain(t)
  BY DEF Same, Plain, Others, Stacks
<1>3. Pops(t) => Plain(t)
  BY <1>1 DEF Pops, Plain
<1>4. ASSUME NEW f \in Frames, Fresh(t, f), ~IsOwnerOp(f) PROVE Plain(t)
  BY <1>1, <1>4 DEF Fresh, Pushes, Plain
<1>5. ASSUME NEW f \in Frames, Replaces(t, f), ~IsOwnerOp(f) PROVE Plain(t)
  BY <1>1, <1>5 DEF Replaces, Plain
<1> QED
  BY <1>2, <1>3, <1>4, <1>5

LEMMA NotOwners ==
    ASSUME NEW o \in Objects
    PROVE  /\ ~IsOwnerOp(Disconnection(o)) /\ ~IsOwnerOp(Frame("resolve", o, "pinned"))
           /\ ~IsOwnerOp(Frame("dispatch", o, "pinned")) /\ ~IsOwnerOp(Frame("create", o, "wrap"))
           /\ ~IsOwnerOp(Frame("finalizer", o, "python"))
           /\ ~IsOwnerOp(Frame("created", o, "track")) /\ ~IsOwnerOp(Frame("to_value", o, "track"))
  BY DEF IsOwnerOp, OwnerOps, Disconnection, Frame

LEMMA PyFree ==
    ASSUME Stacks, NEW t \in Threads
    PROVE  /\ PyFrame(t) => Free(t)
           /\ \A op, pc : At(t, op, pc) /\ op \notin OwnerOps \cup {"disconnect"} => Free(t)
  BY DEF PyFrame, At, Free, OwnerOps

LEMMA TurnPlain ==
    ASSUME Stacks, NEW t \in Threads, NEW pc, Turns(t, pc), NEW op, NEW from,
           Topped(t, op, from), op \notin OwnerOps
    PROVE  Plain(t)
<1>1. PICK f \in Frames : Replaces(t, f) /\ f.op = op
  BY DEF Turns, Topped
<1> QED
  BY <1>1, PlainShapes DEF IsOwnerOp

LEMMA HostFree ==
    ASSUME Stacks, NEW t \in Threads, NEW o \in Objects,
           \/ /\ PyFrame(t)
              /\ \/ Release(t, o) \/ GetWeakReference(t, o) \/ Resolve(t, o) \/ Dispatch(t, o)
                 \/ \E u \in Threads : AddRef(t, u, o)
           \/ Resolved(t, o) \/ NoInterface(t, o) \/ Accept(t, o) \/ Unpin(t, o)
           \/ DropClone(t)
    PROVE  Plain(t) /\ Free(t)
<1>1. CASE PyFrame(t) /\ Release(t, o)
  BY <1>1, ReleaseStack, NotOwners, HarmlessFrames, PlainShapes, PyFree
<1>2. CASE PyFrame(t) /\ (GetWeakReference(t, o) \/ \E u \in Threads : AddRef(t, u, o))
  BY <1>2, PlainShapes, PyFree DEF GetWeakReference, AddRef, Same
<1>3. CASE PyFrame(t) /\ (Resolve(t, o) \/ Dispatch(t, o))
  BY <1>3, ResolveStack, DispatchStack, NotOwners, NewFrames, PlainShapes, PyFree
<1>4. CASE Resolved(t, o)
  BY <1>4, ResolvedStack, PlainShapes, PyFree DEF Resolved, OwnerOps
<1>5. CASE NoInterface(t, o)
  BY <1>5, NoInterfaceStack, NotOwners, HarmlessFrames, PlainShapes, PyFree
     DEF NoInterface, OwnerOps
<1>6. CASE Accept(t, o)
  BY <1>6, AcceptStack, TurnPlain, PyFree DEF Accept, OwnerOps
<1>7. CASE Unpin(t, o)
  BY <1>7, UnpinStack, NotOwners, HarmlessFrames, PlainShapes, PyFree DEF Unpin, OwnerOps
<1>8. CASE DropClone(t)
  BY <1>8, DropCloneStack, TurnPlain, PyFree DEF DropClone, OwnerOps
<1> QED
  BY <1>1, <1>2, <1>3, <1>4, <1>5, <1>6, <1>7, <1>8

LEMMA InvokeFree ==
    ASSUME Stacks, NEW t \in Threads, InvokeStep(t)
    PROVE  Plain(t) /\ Free(t) /\ GilMoves(t)
<1>1. Free(t)
  BY PyFree DEF InvokeStep, Closed, Knock, TakePermit, NoPermit, CannotEnter, Enter, Answer,
                Detach, LeaveGate, Invoking, OwnerOps
<1>2. GilMoves(t)
  BY DEF InvokeStep, Closed, Knock, TakePermit, NoPermit, CannotEnter, Enter, Answer, Detach,
         LeaveGate, GilMoves
<1>3. CASE Closed(t) \/ Knock(t) \/ NoPermit(t) \/ LeaveGate(t) \/ Answer(t)
  <2>1. "dispatch" \notin OwnerOps
    BY DEF OwnerOps
  <2> QED
    BY <1>1, <1>2, <1>3, <2>1, InvokeStack, TurnPlain
<1>4. CASE TakePermit(t) \/ CannotEnter(t) \/ Detach(t)
  BY <1>1, <1>2, <1>4, PlainShapes DEF TakePermit, CannotEnter, Detach, Same
<1>5. ASSUME NEW o \in Objects, Enter(t, o) PROVE Plain(t)
  BY <1>5, EnterStack, TurnPlain DEF OwnerOps
<1> QED
  BY <1>1, <1>2, <1>3, <1>4, <1>5 DEF InvokeStep

LEMMA PythonFree ==
    ASSUME Stacks, NEW t \in Threads, NEW o \in Objects,
           \/ BeginCreate(t, o) \/ Create(t, o) \/ ToValue(t, o) \/ DropOwner(t, o)
           \/ ClearCell(t, o)
    PROVE  Plain(t) /\ Free(t) /\ GilMoves(t)
<1>1. GilMoves(t)
  BY DEF BeginCreate, Create, ToValue, DropOwner, ClearCell, GilMoves
<1>2. Free(t)
  BY PyFree DEF BeginCreate, Create, ToValue, DropOwner, ClearCell, InPython, OwnerOps
<1>3. CASE ToValue(t, o)
  BY <1>1, <1>2, <1>3, ToValueStack, NewFrames, NotOwners, PlainShapes
<1>4. CASE Create(t, o)
  BY <1>1, <1>2, <1>4, CreateStack, NewFrames, NotOwners, PlainShapes
<1>5. CASE BeginCreate(t, o)
  BY <1>1, <1>2, <1>5, BeginCreateStack, NewFrames, NotOwners, PlainShapes
<1>6. CASE DropOwner(t, o)
  BY <1>1, <1>2, <1>6, DropOwnerStack, HarmlessFrames, NotOwners, PlainShapes
<1>7. CASE ClearCell(t, o)
  <2>1. PICK f \in Frames : Replaces(t, f) /\ f.op = "shutdown"
    BY <1>7, ClearCellStack
  <2>2. ~IsOwnerOp(f)
    BY <2>1 DEF IsOwnerOp, OwnerOps
  <2> QED
    BY <1>1, <1>2, <2>1, <2>2, PlainShapes
<1> QED
  BY <1>3, <1>4, <1>5, <1>6, <1>7

LEMMA ThreadFree ==
    ASSUME Stacks, registry \subseteq Objects, NEW t \in Threads,
           \/ TakeGil(t) \/ YieldGil(t) \/ FinalizerEnds(t) \/ CreateFails(t) \/ Ends(t)
           \/ ShutdownCallbacks(t) \/ AtExitRuntime(t) \/ AtExitGate(t)
           \/ StopRuntime(t) \/ ShutdownEnds(t)
    PROVE  Plain(t) /\ Free(t) /\ GilMoves(t)
<1>1. GilMoves(t)
  BY DEF TakeGil, YieldGil, FinalizerEnds, CreateFails, Ends, CreateEnds, ToValueEnds,
         ShutdownCallbacks, AtExitRuntime, AtExitGate, StopRuntime, ShutdownEnds, GilMoves, InPython
<1>2. Free(t)
  BY PyFree DEF TakeGil, YieldGil, FinalizerEnds, CreateFails, Ends, CreateEnds, ToValueEnds,
         ShutdownCallbacks, AtExitRuntime, AtExitGate, StopRuntime, ShutdownEnds, InPython, OwnerOps
<1>3. CASE TakeGil(t) \/ YieldGil(t) \/ AtExitGate(t)
  BY <1>1, <1>2, <1>3, PlainShapes DEF TakeGil, YieldGil, AtExitGate, Same, objectVars
<1>4. CASE FinalizerEnds(t) \/ CreateFails(t) \/ ShutdownEnds(t) \/ Ends(t)
  BY <1>1, <1>2, <1>4, FinalizerEndsStack, CreateFailsStack, ShutdownEndsStack,
     CreateEndsStack, ToValueEndsStack, PlainShapes DEF Ends
<1>5. CASE ShutdownCallbacks(t) \/ AtExitRuntime(t)
  <2>1. ~IsOwnerOp(ShutdownFrame)
    BY DEF IsOwnerOp, OwnerOps, ShutdownFrame
  <2> QED
    BY <1>1, <1>2, <1>5, <2>1, ShutdownStack, NewShutdown, PlainShapes
<1>6. CASE StopRuntime(t)
  <2>1. PICK f \in Frames : Replaces(t, f) /\ f.op = "shutdown"
    BY <1>6, StopRuntimeStack
  <2>2. ~IsOwnerOp(f)
    BY <2>1 DEF IsOwnerOp, OwnerOps
  <2> QED
    BY <1>1, <1>2, <2>1, <2>2, PlainShapes
<1> QED
  BY <1>3, <1>4, <1>5, <1>6

(* While no owner is leased such a step leaves none leased; and while       *)
(* another thread has the lease it touches nothing that thread relies on    *)

LEMMA LeaseTop ==
    ASSUME Base, LeaseInv, NEW t \in Threads, Lease(t)
    PROVE  ~Free(t) /\ gil = t /\ Due = {}
<1>1. PICK i \in 1..Len(stack[t]) : IsOwnerOp(stack[t][i]) /\ Placed(t, i)
  BY DEF Lease, LeaseInv
<1>2. ~Idle(t)
  BY <1>1 DEF Base, Stacks, Idle
<1>3. Top(t) = TopFrame(t)
  BY <1>2, TopIs DEF Base, TopFrame
<1> QED
  BY <1>1, <1>2, <1>3 DEF Free, Placed, IsOwnerOp, TopFrame, LeaseInv

LEMMA NoNewLease ==
    ASSUME Base, NEW t \in Threads, Plain(t)
    PROVE  \A u \in Threads : Lease(u)' => Lease(u)
  BY DEF Plain, Others, Lease

LEMMA FreeKeepsLease ==
    ASSUME Base, LeaseInv, NEW t \in Threads, Plain(t), ~Lease(t), GilMoves(t),
           NEW O, Step(t, O), O = {} \/ gil = t, Finalizers(t)
    PROVE  LeaseInv'
<1> SUFFICES ASSUME NEW u \in Threads, NEW i \in 1..Len(stack'[u]), IsOwnerOp(stack'[u][i])
             PROVE  /\ gil' = u /\ Due' = {}
                    /\ Placed(u, i)' /\ Rooted(stack[u][i])'
  BY DEF LeaseInv
<1>1. u # t /\ stack'[u] = stack[u]
  BY DEF Plain, Others, Lease
<1>2. gil = u /\ Due = {} /\ Placed(u, i) /\ Rooted(stack[u][i])
  BY <1>1 DEF LeaseInv
<1>3. gil' = gil /\ gil # t
  BY <1>1, <1>2, ConstantsAssumption DEF GilMoves
<1>4. Due' = {}
  BY <1>1, <1>2, <1>3 DEF Due, Finalizers
<1>5. Placed(u, i)'
  BY <1>1, <1>2 DEF Placed, TopFrame
<1>6. Rooted(stack[u][i])'
  BY <1>1, <1>2, <1>3 DEF Step, Rooted
<1> QED
  BY <1>2, <1>3, <1>4, <1>5, <1>6

LEMMA NoLeaseKept ==
    ASSUME Base, NEW t \in Threads, Plain(t), \A u \in Threads : ~Lease(u)
    PROVE  LeaseInv'
<1>1. \A u \in Threads : ~Lease(u)'
  BY NoNewLease
<1> QED
  BY <1>1 DEF LeaseInv, Lease

LEMMA OneLease ==
    ASSUME LeaseInv, NEW t \in Threads, gil = t
    PROVE  \A u \in Threads \ {t} : ~Lease(u)
  BY DEF LeaseInv, Lease

(* A handler is kept through a step that takes away no call of it, and no   *)
(* frame but those whose cell stays alive; and then no finalizer is due     *)

LEMMA AliveKept ==
    ASSUME Stacks, Stacks', NEW gone, NEW new, Changes(gone, new),
           \A o \in slot \ slot' : CellAlive(o)',
           \A f \in gone : Counts(f) => CellAlive(f.obj)'
    PROVE  \A o : CellAlive(o) => CellAlive(o)'
<1> SUFFICES ASSUME NEW o, CellAlive(o) PROVE CellAlive(o)'
  OBVIOUS
<1>1. CASE o \in slot
  BY <1>1, AliveIsNext
<1>2. CASE \E f \in OnStack : f.obj = o /\ Counts(f)
  BY <1>2, AliveIsNext DEF Changes
<1> QED
  BY <1>1, <1>2, AliveIs

HeldFrame(f) == HandlerFrame(f) \/ CreateFrame(f)

LEMMA HeldIs ==
    ASSUME Stacks, NEW o
    PROVE  Held(o) <=> \/ cell[o] = "full" /\ CellAlive(o)
                       \/ \E f \in OnStack : f.obj = o /\ HeldFrame(f)
<1>1. \A t \in Threads : DOMAIN stack[t] = 1..Len(stack[t])
  BY DEF Stacks
<1>2. \A t \in Threads : \A i \in 1..Len(stack[t]) : stack[t][i] \in OnStack
  BY FramesOnStack
<1> QED
  BY <1>1, <1>2 DEF Held, InFrame, HeldFrame, OnStack

LEMMA HeldIsNext ==
    ASSUME NEW o
    PROVE  Stacks' => (Held(o)' <=> \/ cell'[o] = "full" /\ CellAlive(o)'
                                    \/ \E f \in OnStack' : f.obj = o /\ HeldFrame(f))
<1>1. Stacks => (Held(o) <=> \/ cell[o] = "full" /\ CellAlive(o)
                             \/ \E f \in OnStack : f.obj = o /\ HeldFrame(f))
  BY HeldIs
<1>2. (Stacks => (Held(o) <=> \/ cell[o] = "full" /\ CellAlive(o)
                              \/ \E f \in OnStack : f.obj = o /\ HeldFrame(f)))'
  BY <1>1, PTL
<1> QED
  BY <1>2

LEMMA NothingDue ==
    ASSUME Stacks, Stacks', NEW gone, NEW new, Changes(gone, new), cell' = cell,
           \A f \in gone : ~HeldFrame(f),
           \A o : CellAlive(o) => CellAlive(o)',
           NEW t \in Threads, gil = t, gil' = t, Finalizers(t), Due = {}
    PROVE  Due' = {}
<1>1. ASSUME NEW o \in Objects, Held(o) PROVE Held(o)'
  BY <1>1, HeldIs, HeldIsNext DEF Changes
<1> QED
  BY <1>1 DEF Finalizers, Due

LEMMA OwnerOpLease ==
    ASSUME Base, LeaseInv, NEW t \in Threads, NEW o \in Objects, NEW op \in OwnerOps,
           OwnerOp(t, o, op), Finalizers(t)
    PROVE  LeaseInv'
<1>0. PICK f : f = OwnerFrame(o, op)
  OBVIOUS
<1>1. /\ gil = t /\ gil' = t /\ Due = {} /\ cell' = cell /\ slot' = slot /\ PyFrame(t)
  BY DEF OwnerOp, InPython
<1>2. /\ f \in Frames /\ Pushes(t, f) /\ Changes({}, {f}) /\ Stacks' /\ Step(t, {})
      /\ f.obj = o /\ f.root = CellAlive(o)
  BY <1>0, OwnerOpStack, PushChange, OwnerMoves DEF Base, Fresh, Pushes, OwnerFrame
<1>3. ~Lease(t) /\ \A u \in Threads \ {t} : ~Lease(u)
  BY <1>1, LeaseTop, PyFree, OneLease DEF Base
<1>4. \A p : CellAlive(p) => CellAlive(p)'
  BY <1>1, <1>2, AliveKept DEF Base
<1>5. Due' = {}
  BY <1>1, <1>2, <1>4, NothingDue DEF Base
<1>6. Rooted(f)'
  BY <1>2 DEF Rooted, Step
<1> SUFFICES ASSUME NEW u \in Threads, NEW i \in 1..Len(stack'[u]), IsOwnerOp(stack'[u][i])
             PROVE  gil' = u /\ Due' = {} /\ Placed(u, i)' /\ Rooted(stack[u][i])'
  BY DEF LeaseInv
<1>7. u = t /\ i = Len(stack[t]) + 1
  BY <1>2, <1>3 DEF Pushes, Others, Lease, Base, Stacks
<1>8. stack'[u][i] = f /\ i = Len(stack'[u])
  BY <1>2, <1>7 DEF Pushes
<1>9. Placed(u, i)'
  BY <1>8 DEF Placed
<1> QED
  BY <1>1, <1>5, <1>6, <1>7, <1>8, <1>9 DEF Rooted

LEMMA BelowOwner ==
    ASSUME Base, LeaseInv, NEW t \in Threads, OwnerTop(t)
    PROVE  /\ gil = t /\ Due = {} /\ Rooted(TopFrame(t)) /\ IsOwnerOp(TopFrame(t))
           /\ \A i \in 1..(Len(stack[t]) - 1) : ~IsOwnerOp(stack[t][i])
           /\ \A u \in Threads \ {t} : ~Lease(u)
<1>1. Len(stack[t]) \in 1..Len(stack[t]) /\ IsOwnerOp(TopFrame(t)) /\ TopFrame(t).op # "disconnect"
  BY DEF OwnerTop, IsOwnerOp, OwnerOps
<1>2. gil = t /\ Due = {} /\ Rooted(TopFrame(t))
  BY <1>1 DEF LeaseInv, TopFrame
<1>3. \A i \in 1..(Len(stack[t]) - 1) : ~IsOwnerOp(stack[t][i])
  <2> SUFFICES ASSUME NEW i \in 1..(Len(stack[t]) - 1), IsOwnerOp(stack[t][i]) PROVE FALSE
    OBVIOUS
  <2>1. i \in 1..Len(stack[t]) /\ i # Len(stack[t])
    BY <1>1
  <2> QED
    BY <1>1, <2>1 DEF LeaseInv, Placed
<1> QED
  BY <1>1, <1>2, <1>3, OneLease

\* The operation goes on, with or without a disconnection above it.
LEMMA WorkKeepsLease ==
    ASSUME Base, LeaseInv, NEW t \in Threads, OwnerTop(t), NEW f \in Frames, Works(f, t),
           NEW g \in Frames, g.op = "disconnect", g.obj = TopFrame(t).obj,
           Replaces(t, f) \/ Grows(t, f, g),
           Step(t, {}), gil' = gil, cell' = cell, slot' = slot, Finalizers(t)
    PROVE  LeaseInv'
<1>0. PICK h : h = TopFrame(t)
  OBVIOUS
<1>1. /\ gil = t /\ Due = {} /\ Rooted(h) /\ IsOwnerOp(h) /\ h.obj = f.obj /\ h.root = f.root
      /\ \A i \in 1..(Len(stack[t]) - 1) : ~IsOwnerOp(stack[t][i])
      /\ \A u \in Threads \ {t} : ~Lease(u)
      /\ IsOwnerOp(f) /\ Stacks' /\ Len(stack[t]) \in Nat \ {0}
  BY <1>0, BelowOwner DEF Works, IsOwnerOp, OwnerTop, Step
<1>2. PICK new : Changes({h}, new) /\ f \in new
  <2>1. Replaces(t, f) => Changes({h}, {f}) /\ f \in {f}
    BY <1>0, ReplaceChange DEF Base
  <2>2. Grows(t, f, g) => Changes({h}, {f, g}) /\ f \in {f, g}
    BY <1>0, GrowChange DEF Base
  <2> QED
    BY <2>1, <2>2
<1>3. ~HeldFrame(h)
  BY <1>1 DEF HeldFrame, HandlerFrame, CreateFrame, IsOwnerOp, OwnerOps
<1>4. Counts(h) => CellAlive(h.obj)'
  <2>1. Counts(h) => RootFrame(f)
    BY <1>0, <1>1 DEF Counts, AcceptedFrame, TakenFrame, RootFrame, IsOwnerOp, OwnerOps
  <2> QED
    BY <1>1, <1>2, <2>1, AliveIsNext DEF Counts, Changes
<1>5. \A p : CellAlive(p) => CellAlive(p)'
  BY <1>1, <1>2, <1>4, AliveKept DEF Base
<1>6. Due' = {}
  BY <1>1, <1>2, <1>3, <1>5, NothingDue DEF Base
<1>7. Rooted(f)'
  BY <1>1 DEF Rooted, Step
<1>8. ASSUME NEW u \in Threads, NEW i \in 1..Len(stack'[u]), IsOwnerOp(stack'[u][i])
      PROVE  u = t /\ i = Len(stack[t])
  <2>1. u = t
    BY <1>1, <1>8 DEF Replaces, Grows, Others, Lease
  <2>2. CASE Replaces(t, f)
    BY <1>1, <1>8, <2>1, <2>2 DEF Replaces
  <2>3. CASE Grows(t, f, g)
    BY <1>1, <1>8, <2>1, <2>3 DEF Grows, IsOwnerOp, OwnerOps
  <2> QED
    BY <2>1, <2>2, <2>3
<1>9. /\ stack'[t][Len(stack[t])] = f
      /\ \/ Len(stack'[t]) = Len(stack[t])
         \/ /\ Len(stack'[t]) = Len(stack[t]) + 1
            /\ stack'[t][Len(stack'[t])].op = "disconnect"
            /\ stack'[t][Len(stack'[t])].obj = f.obj
  <2>1. CASE Replaces(t, f)
    BY <1>1, <2>1 DEF Replaces
  <2>2. CASE Grows(t, f, g)
    BY <1>0, <1>1, <2>2 DEF Grows
  <2> QED
    BY <2>1, <2>2
<1> SUFFICES ASSUME NEW u \in Threads, NEW i \in 1..Len(stack'[u]), IsOwnerOp(stack'[u][i])
             PROVE  gil' = u /\ Due' = {} /\ Placed(u, i)' /\ Rooted(stack[u][i])'
  BY DEF LeaseInv
<1>10. u = t /\ i = Len(stack[t])
  BY <1>8
<1>11. Rooted(stack[u][i])'
  BY <1>7, <1>9, <1>10 DEF Rooted
<1>12. Placed(u, i)'
  BY <1>1, <1>9, <1>10 DEF Placed, TopFrame
<1> QED
  BY <1>1, <1>6, <1>10, <1>11, <1>12

LEMMA WorkLease ==
    ASSUME Base, LeaseInv, NEW t \in Threads, NEW o \in Objects,
           \/ LookAtFlag(t, o) \/ LookAtCount(t, o) \/ Disconnect(t, o) \/ ReleaseIdentity(t, o),
           Finalizers(t)
    PROVE  LeaseInv'
<1>1. Step(t, {})
  BY OwnerMoves DEF Base
<1>2. gil' = gil /\ cell' = cell /\ slot' = slot
  BY DEF LookAtFlag, LookAtCount, Disconnect, ReleaseIdentity
<1>3. Disconnection(o) \in Frames /\ Disconnection(o).op = "disconnect" /\ Disconnection(o).obj = o
  BY HarmlessFrames DEF Base, Disconnection, Frame
<1>4. OwnerTop(t) /\ TopFrame(t).obj = o
  <2>1. CASE LookAtFlag(t, o) \/ LookAtCount(t, o)
    BY <2>1, LookStack, WorkingTop DEF Base, LookAtFlag, LookAtCount
  <2>2. CASE Disconnect(t, o) \/ ReleaseIdentity(t, o)
    BY <2>2, DisconnectStack, ReleaseIdentityStack DEF Base
  <2> QED
    BY <2>1, <2>2
<1>5. \E f \in Frames : Works(f, t) /\ (Replaces(t, f) \/ Grows(t, f, Disconnection(o)))
  BY LookStack, DisconnectStack, ReleaseIdentityStack DEF Base
<1> QED
  BY <1>1, <1>2, <1>3, <1>4, <1>5, WorkKeepsLease

LEMMA RestoreLease ==
    ASSUME Base, LeaseInv, NEW t \in Threads, Restore(t)
    PROVE  LeaseInv'
<1>1. OwnerTop(t) /\ Pops(t) /\ Stacks'
  BY RestoreStack DEF Base, Pops
<1>2. /\ \A i \in 1..(Len(stack[t]) - 1) : ~IsOwnerOp(stack[t][i])
      /\ \A u \in Threads \ {t} : ~Lease(u)
  BY <1>1, BelowOwner
<1>3. \A u \in Threads : ~Lease(u)'
  BY <1>1, <1>2 DEF Lease, Pops, Others, OwnerTop
<1> QED
  BY <1>3 DEF LeaseInv, Lease

\* A disconnection that an operation of the owner started.
LEMMA DisconnectionLease ==
    ASSUME Base, LeaseInv, NEW t \in Threads, NEW o \in Objects,
           TakeCallback(t, o) \/ (DropCallback(t) /\ TopFrame(t).obj = o), Outside, Finalizers(t)
    PROVE  LeaseInv'
<1>1. /\ Step(t, {}) /\ Stacks' /\ gil' = gil /\ cell' = cell
      /\ Topped(t, "disconnect", TopFrame(t).pc) /\ TopFrame(t).obj = o
  BY HostMoves, TakeCallbackStack, DropCallbackStack DEF Base, Outside, Topped, Step
<1>2. Pops(t) \/ Turns(t, "drop")
  BY TakeCallbackStack, DropCallbackStack DEF Base
<1>3. Plain(t)
  BY <1>1, <1>2, PlainShapes, TurnPlain DEF Base, OwnerOps
<1>4. CASE ~Lease(t)
  BY <1>1, <1>3, <1>4, FreeKeepsLease DEF GilMoves
<1>5. CASE Lease(t)
  <2>1. PICK i \in 1..Len(stack[t]) : IsOwnerOp(stack[t][i])
    BY <1>5 DEF Lease
  <2>2. /\ gil = t /\ Due = {} /\ i = Len(stack[t]) - 1 /\ stack[t][i].obj = o
        /\ Rooted(stack[t][i]) /\ \A u \in Threads \ {t} : ~Lease(u)
    BY <1>1, <2>1, OneLease DEF LeaseInv, Placed, Topped, TopFrame, IsOwnerOp, OwnerOps
  <2>3. PICK f : f = stack[t][i]
    OBVIOUS
  <2>4. PICK new : Changes({TopFrame(t)}, new)
    BY <1>2, PopChange, ReplaceChange DEF Base, Turns
  <2>5. f \in OnStack' /\ IsOwnerOp(f) /\ Rooted(f) /\ f.obj = o
    BY <1>1, <2>1, <2>2, <2>3, <2>4, FramesOnStack
       DEF Base, Changes, Topped, IsOwnerOp, OwnerOps
  <2>6. CellAlive(o) => CellAlive(o)'
    BY <1>1, <2>5, AliveIsNext DEF Rooted, Counts, RootFrame
  <2>7. \A p : CellAlive(p) => CellAlive(p)'
    <3>1. \A p \in slot \ slot' : CellAlive(p)'
      BY <2>6 DEF TakeCallback, DropCallback, CellAlive, CallbackAlive
    <3>2. PICK h : h = TopFrame(t)
      OBVIOUS
    <3>3. Counts(h) => CellAlive(o)'
      BY <1>1, <2>6, <3>2, TopAlive DEF Base, Topped
    <3>4. Counts(h) => CellAlive(h.obj)'
      BY <1>1, <3>2, <3>3
    <3>5. Changes({h}, new)
      BY <2>4, <3>2
    <3> QED
      BY <1>1, <3>1, <3>4, <3>5, AliveKept DEF Base
  <2>8. Due' = {}
    <3>1. ~HeldFrame(TopFrame(t))
      BY <1>1 DEF Topped, HeldFrame, HandlerFrame, CreateFrame
    <3> QED
      BY <1>1, <2>2, <2>4, <2>7, <3>1, NothingDue DEF Base
  <2> SUFFICES ASSUME NEW u \in Threads, NEW j \in 1..Len(stack'[u]), IsOwnerOp(stack'[u][j])
               PROVE  gil' = u /\ Due' = {} /\ Placed(u, j)' /\ Rooted(stack[u][j])'
    BY DEF LeaseInv
  <2>9. u = t /\ j = i /\ stack'[u][j] = f
    <3>1. u = t
      BY <2>2, <1>3 DEF Plain, Others, Lease
    <3>2. j \in 1..Len(stack[t]) /\ stack'[t][j] = stack[t][j] /\ IsOwnerOp(stack[t][j])
      BY <1>3, <3>1 DEF Plain
    <3>3. j = Len(stack[t]) - 1
      BY <1>1, <3>2 DEF LeaseInv, Placed, Topped, TopFrame, IsOwnerOp, OwnerOps
    <3> QED
      BY <2>2, <2>3, <3>1, <3>2, <3>3
  <2>10. Placed(u, j)'
    <3>1. CASE Pops(t)
      BY <2>2, <2>9, <3>1 DEF Pops, Placed
    <3>2. CASE Turns(t, "drop")
      <4>1. /\ Len(stack'[t]) = Len(stack[t])
            /\ stack'[t][Len(stack[t])].op = "disconnect" /\ stack'[t][Len(stack[t])].obj = o
        BY <1>1, <3>2 DEF Turns, Replaces, Topped
      <4> QED
        BY <2>2, <2>5, <2>9, <4>1 DEF Placed, TopFrame
    <3> QED
      BY <1>2, <3>1, <3>2
  <2>11. Rooted(stack[u][j])'
    BY <1>1, <2>5, <2>9 DEF Rooted, Step
  <2> QED
    BY <1>1, <2>2, <2>8, <2>9, <2>10, <2>11
<1> QED
  BY <1>4, <1>5

LEMMA OutOfLease ==
    ASSUME Base, LeaseInv, NEW t \in Threads, Free(t), Plain(t), GilMoves(t),
           NEW O, Step(t, O), O = {} \/ gil = t, Finalizers(t)
    PROVE  LeaseInv'
  BY LeaseTop, FreeKeepsLease

LEMMA LeaseStep == Base /\ LeaseInv /\ Next => LeaseInv'
<1> SUFFICES ASSUME Base, LeaseInv, Next PROVE LeaseInv'
  OBVIOUS
<1> USE DEF Base
<1>1. ASSUME NEW t \in Threads, NEW o \in Objects, RunFinalizer(t, o) PROVE LeaseInv'
  <2>1. \A u \in Threads : ~Lease(u)
    BY <1>1, LeaseTop DEF RunFinalizer
  <2>2. Plain(t)
    BY <1>1, RunFinalizerStack, NewFrames, NotOwners, PlainShapes
  <2> QED
    BY <2>1, <2>2, NoLeaseKept
<1>2. ASSUME NEW t \in Threads, Finalizers(t), ObjectStep(t) PROVE LeaseInv'
  <2>0. Outside /\ GilMoves(t)
    BY <1>2 DEF ObjectStep, Outside, GilMoves
  <2>1. ASSUME NEW o \in Objects,
               \/ /\ PyFrame(t)
                  /\ \/ Release(t, o) \/ GetWeakReference(t, o) \/ Resolve(t, o) \/ Dispatch(t, o)
                     \/ \E u \in Threads : AddRef(t, u, o)
               \/ Resolved(t, o) \/ NoInterface(t, o) \/ Accept(t, o) \/ Unpin(t, o)
        PROVE  LeaseInv'
    BY <1>2, <2>0, <2>1, HostFree, HostMoves, OutOfLease
  <2>2. CASE DropClone(t)
    <3>1. PICK o \in Objects : o = TopFrame(t).obj
      BY <2>2, DropCloneStack
    <3> QED
      BY <1>2, <2>0, <2>2, <3>1, HostFree, HostMoves, OutOfLease
  <2>3. ASSUME NEW o \in Objects, TakeCallback(t, o) PROVE LeaseInv'
    BY <1>2, <2>0, <2>3, DisconnectionLease
  <2>4. CASE DropCallback(t)
    <3>1. PICK o \in Objects : o = TopFrame(t).obj
      BY <2>4, AtTop, DisconnectFrames DEF DropCallback, Topped
    <3> QED
      BY <1>2, <2>0, <2>4, <3>1, DisconnectionLease
  <2> QED
    BY <1>2, <2>1, <2>2, <2>3, <2>4 DEF ObjectStep, NativeStep, Running, InNative
<1>3. ASSUME NEW t \in Threads, Finalizers(t), OwnerStep(t) PROVE LeaseInv'
  <2>1. ASSUME NEW o \in Objects, BeginCreate(t, o) \/ ToValue(t, o) \/ DropOwner(t, o)
        PROVE  LeaseInv'
    BY <1>3, <2>1, PythonFree, PythonMoves, OwnerMoves, OutOfLease
  <2>2. ASSUME NEW o \in Objects, Create(t, o) PROVE LeaseInv'
    <3>1. gil = t
      BY <2>2 DEF Create, InPython
    <3> QED
      BY <1>3, <2>2, <3>1, PythonFree, CreateMoves, OutOfLease
  <2>3. CASE CreateFails(t) \/ Ends(t)
    <3>1. PICK o \in Objects : o = TopFrame(t).obj
      BY <2>3, CreateFailsStack, CreateEndsStack, ToValueEndsStack
         DEF Ends, Topped, Frames, OwnerOps
    <3> QED
      BY <1>3, <2>3, <3>1, ThreadFree, PythonMoves, OutOfLease
  <2>4. ASSUME NEW o \in Objects, NEW op \in OwnerOps, OwnerOp(t, o, op) PROVE LeaseInv'
    BY <1>3, <2>4, OwnerOpLease
  <2>5. ASSUME NEW o \in Objects,
               LookAtFlag(t, o) \/ LookAtCount(t, o) \/ Disconnect(t, o) \/ ReleaseIdentity(t, o)
        PROVE  LeaseInv'
    BY <1>3, <2>5, WorkLease
  <2> QED
    BY <1>3, <2>1, <2>2, <2>3, <2>4, <2>5, RestoreLease DEF OwnerStep, Ends
<1>4. ASSUME NEW t \in Threads, Finalizers(t), InvokeStep(t) PROVE LeaseInv'
  BY <1>4, InvokeFree, InvokeMoves, OutOfLease
<1>5. ASSUME NEW t \in Threads, Finalizers(t),
             TakeGil(t) \/ YieldGil(t) \/ FinalizerEnds(t) \/ ShutdownStep(t)
      PROVE  LeaseInv'
  <2>1. ASSUME NEW o \in Objects, ClearCell(t, o) PROVE LeaseInv'
    BY <1>5, <2>1, PythonFree, StopMoves, OutOfLease
  <2>2. CASE ~(\E o \in Objects : ClearCell(t, o))
    BY <1>5, <2>2, ThreadFree, ThreadMoves, OutOfLease DEF ShutdownStep
  <2> QED
    BY <2>1, <2>2
<1> QED
  BY <1>1, <1>2, <1>3, <1>4, <1>5 DEF Next

LEMMA LeaseStutter == LeaseInv /\ UNCHANGED vars => LeaseInv'
  BY DEF vars, objectVars, hostVars, LeaseInv, Placed, Rooted, TopFrame, Due,
         CellAlive, CallbackAlive, InFrame

(* An operation that disconnects or releases is at the top of the stack of   *)
(* its thread, or just below the disconnection it makes itself; that thread  *)
(* has the interpreter's lock and no finalizer is due, so that it runs to    *)
(* its end without letting Python in (implementation.rs:267-308, 384-393).   *)
THEOREM LeaseHolds == Spec => []LeaseInv
<1>1. Init => LeaseInv
  BY DEF Init, InitObject, LeaseInv
<1> QED
  BY <1>1, LeaseStep, LeaseStutter, BaseHolds, PTL DEF Spec

(* Values.  While `to_value' tracks the value it made, in Python, no other  *)
(* operation works on that owner, which keeps its native reference          *)

TrackInv ==
    \A g \in OnStack : ValueFrame(g) =>
        /\ g.obj \in identity
        /\ \A f \in OnStack : IsOwnerOp(f) => f.obj # g.obj

\* A step that takes the native reference of no owner whose value is being made.
IdentityKept == \A g \in OnStack : ValueFrame(g) /\ g.obj \in identity => g.obj \in identity'

LEMMA LeasesTracked ==
    ASSUME Leases, TrackInv, IdentityKept
    PROVE  TrackInv'
<1>1. ASSUME \A f \in OnStack' : /\ ValueFrame(f) => f \in OnStack
                                 /\ IsOwnerOp(f) => f \in OnStack \/ MayWork(f.obj)
      PROVE  TrackInv'
  <2> SUFFICES ASSUME NEW g \in OnStack', ValueFrame(g)
               PROVE  /\ g.obj \in identity'
                      /\ \A f \in OnStack' : IsOwnerOp(f) => f.obj # g.obj
    BY DEF TrackInv
  <2>1. g \in OnStack
    BY <1>1
  <2> QED
    BY <1>1, <2>1 DEF TrackInv, IdentityKept, MayWork
<1>2. ASSUME NEW o, NewValue(o),
             \A f \in OnStack' : LeaseFrame(f) =>
                 f \in OnStack \/ (ValueFrame(f) /\ f.obj = o)
      PROVE  TrackInv'
  <2> SUFFICES ASSUME NEW g \in OnStack', ValueFrame(g)
               PROVE  /\ g.obj \in identity'
                      /\ \A f \in OnStack' : IsOwnerOp(f) => f.obj # g.obj
    BY DEF TrackInv
  <2>1. \A f \in OnStack' : IsOwnerOp(f) => f \in OnStack
    BY <1>2 DEF LeaseFrame, ValueFrame, IsOwnerOp, OwnerOps
  <2> QED
    BY <1>2, <2>1 DEF TrackInv, NewValue, LeaseFrame
<1> QED
  BY <1>1, <1>2 DEF Leases

LEMMA OwnersKept ==
    ASSUME Stacks, TrackInv, NEW t \in Threads, OwnerStep(t)
    PROVE  IdentityKept
<1>1. ASSUME NEW o \in Objects, ReleaseIdentity(t, o) PROVE IdentityKept
  <2>1. TopFrame(t) \in OnStack /\ IsOwnerOp(TopFrame(t)) /\ TopFrame(t).obj = o
    BY <1>1, ReleaseIdentityStack, FramesOnStack DEF OwnerTop, IsOwnerOp, TopFrame
  <2> QED
    BY <1>1, <2>1 DEF ReleaseIdentity, TrackInv, IdentityKept
<1>2. ASSUME NEW o \in Objects, DropOwner(t, o) PROVE IdentityKept
  <2>1. \A f \in OnStack : ValueFrame(f) => f.obj # o
    BY <1>2 DEF DropOwner, InFrame, KeepsOwner, LeaseFrame, OnStack, Stacks
  <2> QED
    BY <1>2, <2>1 DEF DropOwner, IdentityKept
<1>3. ASSUME NEW o \in Objects, BeginCreate(t, o) \/ Create(t, o) \/ ToValue(t, o)
      PROVE  IdentityKept
  BY <1>3 DEF BeginCreate, Create, ToValue, IdentityKept, ownVars
<1>4. ASSUME NEW o \in Objects, NEW op \in OwnerOps, OwnerOp(t, o, op) PROVE IdentityKept
  BY <1>4 DEF OwnerOp, IdentityKept, ownVars
<1>5. ASSUME NEW o \in Objects, LookAtFlag(t, o) \/ LookAtCount(t, o) \/ Disconnect(t, o)
      PROVE  IdentityKept
  BY <1>5 DEF LookAtFlag, LookAtCount, Disconnect, IdentityKept, ownVars
<1>6. ASSUME CreateFails(t) \/ Restore(t) \/ Ends(t) PROVE IdentityKept
  BY <1>6 DEF CreateFails, Restore, Ends, CreateEnds, ToValueEnds, IdentityKept, ownVars
<1> QED
  BY <1>1, <1>2, <1>3, <1>4, <1>5, <1>6 DEF OwnerStep, Ends

LEMMA TrackStep == Base /\ TrackInv /\ Next => TrackInv'
<1> SUFFICES ASSUME Base, TrackInv, Next PROVE TrackInv'
  OBVIOUS
<1>1. Leases
  BY StepTaken DEF Base, Step
<1>2. ASSUME NEW t \in Threads, NEW o \in Objects, RunFinalizer(t, o) PROVE IdentityKept
  BY <1>2 DEF RunFinalizer, IdentityKept, ownVars
<1>3. ASSUME NEW t \in Threads, TakeGil(t) \/ YieldGil(t) \/ FinalizerEnds(t) PROVE IdentityKept
  BY <1>3 DEF TakeGil, YieldGil, FinalizerEnds, IdentityKept, ownVars
<1>4. ASSUME NEW t \in Threads, ObjectStep(t) PROVE IdentityKept
  BY <1>4 DEF ObjectStep, Outside, IdentityKept, ownVars
<1>5. ASSUME NEW t \in Threads, OwnerStep(t) PROVE IdentityKept
  BY <1>5, OwnersKept DEF Base
<1>6. ASSUME NEW t \in Threads, InvokeStep(t) PROVE IdentityKept
  <2>1. Elsewhere
    BY <1>6 DEF InvokeStep, Closed, Knock, TakePermit, NoPermit, CannotEnter, Enter, Answer,
                Detach, LeaveGate
  <2> QED
    BY <2>1 DEF Elsewhere, IdentityKept, ownVars
<1>7. ASSUME NEW t \in Threads, ShutdownStep(t) PROVE IdentityKept
  BY <1>7 DEF ShutdownStep, ShutdownCallbacks, AtExitRuntime, AtExitGate, StopRuntime, ClearCell,
              ShutdownEnds, IdentityKept, ownVars
<1>8. IdentityKept
  BY <1>2, <1>3, <1>4, <1>5, <1>6, <1>7 DEF Next
<1> QED
  BY <1>1, <1>8, LeasesTracked

(* While the value that `to_value' made is tracked, no operation of that     *)
(* owner goes on anywhere, and nobody takes its native reference             *)
(* (implementation.rs:375-382, runtime.rs:1962-1974).                        *)
THEOREM TrackHolds == Spec => []TrackInv
<1>1. Init => TrackInv
  BY DEF Init, InitObject, TrackInv, OnStack
<1>2. TrackInv /\ UNCHANGED vars => TrackInv'
  BY DEF vars, objectVars, ownVars, TrackInv, OnStack
<1> QED
  BY <1>1, <1>2, TrackStep, BaseHolds, PTL DEF Spec

(* Python code finds an owner leased only while `to_value' tracks the value *)
(* it made.  An operation that disconnects or releases gives up the         *)
(* interpreter's lock nowhere between the lease and its restoration, and no *)
(* finalizer runs there, because the root of the cell outlives the          *)
(* disconnection (implementation.rs:267-308, 375-393).                      *)
THEOREM BusyOnlyTrackingHolds == Spec => []BusyOnlyTracking
<1>1. Base /\ LeaseInv /\ TrackInv => BusyOnlyTracking
  <2> SUFFICES ASSUME Base, LeaseInv, TrackInv, NEW t \in Threads, InPython(t),
                      NEW u \in Threads, NEW i \in DOMAIN stack[u], LeaseFrame(stack[u][i])
               PROVE  ValueFrame(stack[u][i]) /\ stack[u][i].obj \in identity
    BY DEF BusyOnlyTracking
  <2>1. i \in 1..Len(stack[u]) /\ stack[u][i] \in OnStack
    BY FramesOnStack DEF Base, Stacks
  <2>2. ~IsOwnerOp(stack[u][i])
    <3> SUFFICES ASSUME IsOwnerOp(stack[u][i]) PROVE FALSE
      OBVIOUS
    <3>1. u = t /\ ~Free(t)
      BY <2>1, LeaseTop DEF Lease, InPython
    <3> QED
      BY <3>1, PyFree DEF InPython, Base
  <2> QED
    BY <2>1, <2>2 DEF LeaseFrame, TrackInv
<1> QED
  BY <1>1, BaseHolds, LeaseHolds, TrackHolds, PTL

-----------------------------------------------------------------------------
(* Shutdown.  A handler that a native call could still reach is in the      *)
(* registry, or on the list of a shutdown that is clearing the cells        *)

Clearing(f, o) == f.op = "shutdown" /\ f.pc = "clear" /\ o \in f.todo
DisarmInv ==
    /\ cell \in [Objects -> {"absent", "full", "cleared"}]
    /\ stopping => registry = {}
    /\ \A o \in Objects : cell[o] = "full" /\ CellAlive(o)
           => o \in registry \/ \E f \in OnStack : Clearing(f, o)

\* The runtime's registry, and its list while it shuts down, are as they were.
Undisturbed(t) == Quiet /\ Step(t, {}) /\ StaysShut

LEMMA KindsOfStep ==
    ASSUME Base, Next
    PROVE  \E t \in Threads : \/ Undisturbed(t)
                              \/ StopRuntime(t) \/ ShutdownEnds(t)
                              \/ \E o \in Objects : Create(t, o) \/ ClearCell(t, o)
<1> USE DEF Base
<1>1. ASSUME NEW t \in Threads, NEW o \in Objects, RunFinalizer(t, o) PROVE Undisturbed(t)
  BY <1>1, PythonMoves DEF Undisturbed, RunFinalizer, Quiet, interpVars
<1>2. ASSUME NEW t \in Threads, TakeGil(t) \/ YieldGil(t) \/ FinalizerEnds(t)
      PROVE  Undisturbed(t)
  <2>1. Quiet
    BY <1>2 DEF TakeGil, YieldGil, FinalizerEnds, Quiet, interpVars
  <2>3. Step(t, {}) /\ StaysShut
    <3>1. CASE TakeGil(t) \/ YieldGil(t)
      BY <3>1, SameMove DEF TakeGil, YieldGil, Same, objectVars
    <3>2. CASE FinalizerEnds(t)
      BY <3>2, FinalizerEndsStack, PopMove DEF FinalizerEnds, Topped
    <3> QED
      BY <1>2, <3>1, <3>2
  <2> QED
    BY <2>1, <2>3 DEF Undisturbed
<1>3. ASSUME NEW t \in Threads, ObjectStep(t) PROVE Undisturbed(t)
  <2>1. Quiet
    BY <1>3 DEF ObjectStep, Outside, Quiet, interpVars
  <2>2. CASE DropClone(t)
    BY <2>1, <2>2, DropCloneStack, TurnMove DEF DropClone, Accepted, Undisturbed
  <2>3. CASE DropCallback(t)
    BY <2>1, <2>3, DropCallbackStack, PopMove DEF DropCallback, Undisturbed, Topped
  <2> QED
    BY <1>3, <2>1, <2>2, <2>3, HostMoves DEF ObjectStep, NativeStep, Running, Undisturbed
<1>4. ASSUME NEW t \in Threads, OwnerStep(t), \A o \in Objects : ~Create(t, o)
      PROVE  Undisturbed(t)
  <2>1. Quiet
    BY <1>4, OwnerQuiet
  <2>2. CASE CreateFails(t)
    BY <2>1, <2>2, CreateFailsStack, PopMove DEF CreateFails, Topped, Undisturbed
  <2>3. CASE Restore(t)
    BY <2>1, <2>3, RestoreStack, PopMove DEF Restore, OwnerTop, OwnerOps, Undisturbed
  <2>4. CASE Ends(t)
    BY <2>1, <2>4, CreateEndsStack, ToValueEndsStack, PopMove
       DEF Ends, CreateEnds, ToValueEnds, Topped, Undisturbed
  <2> QED
    BY <1>4, <2>1, <2>2, <2>3, <2>4, OwnerMoves, PythonMoves DEF OwnerStep, Ends, Undisturbed
<1>5. ASSUME NEW t \in Threads, InvokeStep(t) PROVE Undisturbed(t)
  BY <1>5, InvokeMoves, InvokeQuiet DEF Undisturbed
<1>6. ASSUME NEW t \in Threads, ShutdownCallbacks(t) \/ AtExitRuntime(t) \/ AtExitGate(t)
      PROVE  Undisturbed(t)
  <2>1. Quiet
    BY <1>6 DEF ShutdownCallbacks, AtExitRuntime, AtExitGate, Quiet, interpVars
  <2>2. CASE AtExitGate(t)
    BY <2>1, <2>2, SameMove DEF AtExitGate, Same, objectVars, Undisturbed
  <2>3. CASE ShutdownCallbacks(t) \/ AtExitRuntime(t)
    BY <2>1, <2>3, ShutdownStack, NewShutdown, StopHarmless, FreshMove
       DEF ShutdownCallbacks, AtExitRuntime, ShutdownFrame, Undisturbed
  <2> QED
    BY <1>6, <2>2, <2>3
<1> QED
  BY <1>1, <1>2, <1>3, <1>4, <1>5, <1>6 DEF Next, ShutdownStep

LEMMA DisarmStep ==
    ASSUME Base, DisarmInv, Next
    PROVE  DisarmInv'
<1> USE DEF Base
<1>1. ASSUME NEW t \in Threads, Undisturbed(t) PROVE DisarmInv'
  BY <1>1 DEF Undisturbed, Quiet, Step, StaysShut, DisarmInv, Clearing
<1>2. ASSUME NEW t \in Threads, NEW o \in Objects, Create(t, o) PROVE DisarmInv'
  <2>1. Step(t, {o}) /\ StaysShut
    BY <1>2, CreateMoves
  <2>2. /\ cell' = [cell EXCEPT ![o] = "full"] /\ ~stopping'
        /\ registry' = {p \in registry : CellAlive(p)} \cup {o}
    BY <1>2 DEF Create
  <2>3. ASSUME NEW p \in Objects, p # o, cell'[p] = "full", CellAlive(p)'
        PROVE  p \in registry' \/ \E f \in OnStack' : Clearing(f, p)
    <3>1. cell[p] = "full" /\ CellAlive(p)
      BY <2>1, <2>2, <2>3 DEF Step, DisarmInv
    <3>2. CASE p \in registry
      BY <2>2, <3>1, <3>2
    <3>3. CASE \E f \in OnStack : Clearing(f, p)
      BY <2>1, <3>3 DEF StaysShut, Clearing
    <3> QED
      BY <3>1, <3>2, <3>3 DEF DisarmInv
  <2> QED
    BY <2>2, <2>3 DEF DisarmInv
<1>3. ASSUME NEW t \in Threads, StopRuntime(t) PROVE DisarmInv'
  <2>1. PICK f \in Frames : /\ Replaces(t, f) /\ f.op = "shutdown"
                           /\ f.pc = "clear" /\ f.todo = registry
    BY <1>3, StopRuntimeStack
  <2>2. Changes({TopFrame(t)}, {f}) /\ TopFrame(t).pc = "calling" /\ Step(t, {})
    BY <1>3, <2>1, StopRuntimeStack, ReplaceChange, ThreadMoves DEF Topped
  <2>3. cell' = cell /\ registry' = {}
    BY <1>3 DEF StopRuntime
  <2>4. ASSUME NEW p \in Objects, cell[p] = "full", CellAlive(p)'
        PROVE  \E g \in OnStack' : Clearing(g, p)
    <3>1. CellAlive(p)
      BY <2>2, <2>4 DEF Step
    <3>2. CASE p \in registry
      BY <2>1, <2>2, <3>2 DEF Changes, Clearing
    <3>3. CASE \E g \in OnStack : Clearing(g, p)
      BY <2>2, <3>3 DEF Changes, Clearing
    <3> QED
      BY <2>4, <3>1, <3>2, <3>3 DEF DisarmInv
  <2> QED
    BY <2>3, <2>4 DEF DisarmInv
<1>4. ASSUME NEW t \in Threads, NEW o \in Objects, ClearCell(t, o) PROVE DisarmInv'
  <2>1. PICK f \in Frames : /\ Replaces(t, f) /\ f.op = "shutdown"
                           /\ f.pc = "clear" /\ f.todo = TopFrame(t).todo \ {o}
    BY <1>4, ClearCellStack
  <2>2. Changes({TopFrame(t)}, {f}) /\ Step(t, {})
    BY <1>4, <2>1, ReplaceChange, StopMoves
  <2>3. /\ cell' = IF CellAlive(o) THEN [cell EXCEPT ![o] = "cleared"] ELSE cell
        /\ registry' = registry /\ stopping' = stopping
    BY <1>4 DEF ClearCell, interpVars
  <2>4. cell' \in [Objects -> {"absent", "full", "cleared"}]
    BY <2>3 DEF DisarmInv
  <2>5. ASSUME NEW p \in Objects, cell'[p] = "full", CellAlive(p)'
        PROVE  p \in registry' \/ \E g \in OnStack' : Clearing(g, p)
    <3>1. CellAlive(p)
      BY <2>2, <2>5 DEF Step
    <3>2. p # o /\ cell[p] = "full"
      BY <2>3, <2>5, <3>1 DEF DisarmInv
    <3>3. CASE p \in registry
      BY <2>3, <3>3
    <3>4. ASSUME NEW g \in OnStack, Clearing(g, p) PROVE \E h \in OnStack' : Clearing(h, p)
      <4>1. CASE g = TopFrame(t)
        BY <2>1, <2>2, <3>2, <3>4, <4>1 DEF Changes, Clearing
      <4>2. CASE g # TopFrame(t)
        BY <2>2, <3>4, <4>2 DEF Changes
      <4> QED
        BY <4>1, <4>2
    <3> QED
      BY <3>1, <3>2, <3>3, <3>4 DEF DisarmInv
  <2> QED
    BY <2>3, <2>4, <2>5 DEF DisarmInv
<1>5. ASSUME NEW t \in Threads, ShutdownEnds(t) PROVE DisarmInv'
  <2>1. Changes({TopFrame(t)}, {}) /\ TopFrame(t).todo = {} /\ Step(t, {})
    BY <1>5, ShutdownEndsStack, PopChange, ThreadMoves
  <2>2. cell' = cell /\ registry' = registry /\ stopping' = stopping
    BY <1>5 DEF ShutdownEnds, interpVars
  <2> QED
    BY <2>1, <2>2 DEF DisarmInv, Step, Changes, Clearing
<1> QED
  BY <1>1, <1>2, <1>3, <1>4, <1>5, KindsOfStep

(* A cell that a native call can reach and that has its handler is in the    *)
(* registry, or on the list of a shutdown that has still to clear it         *)
(* (implementation.rs:128-157, 177-186).                                     *)
THEOREM DisarmHolds == Spec => []DisarmInv
<1>1. Init => DisarmInv
  BY DEF Init, DisarmInv
<1>2. DisarmInv /\ UNCHANGED vars => DisarmInv'
  BY DEF vars, objectVars, interpVars, DisarmInv, OnStack, CellAlive, CallbackAlive, InFrame
<1>3. Base /\ DisarmInv /\ Next => DisarmInv'
  BY DisarmStep
<1> QED
  BY <1>1, <1>2, <1>3, BaseHolds, PTL DEF Spec

(* Once a shutdown has ended, no cell that a native call could reach has a  *)
(* handler, though objects were created, called and disconnected meanwhile  *)
(* (implementation.rs:128-157, 318-373).                                    *)
THEOREM ShutdownDisarmsHolds == Spec => []ShutdownDisarms
<1>1. Base /\ DisarmInv => ShutdownDisarms
  <2> SUFFICES ASSUME Base, DisarmInv, stopping,
                      \A t \in Threads : \A i \in DOMAIN stack[t] : stack[t][i].op # "shutdown"
               PROVE  \A o \in Objects : cell[o] = "full" => ~CellAlive(o)
    BY DEF ShutdownDisarms
  <2>1. \A f \in OnStack : f.op # "shutdown"
    BY DEF OnStack, Base, Stacks
  <2> QED
    BY <2>1 DEF DisarmInv, Clearing
<1> QED
  BY <1>1, DisarmHolds, BaseHolds, PTL

-----------------------------------------------------------------------------
(* The users of a Host: the calls that pin it, and the references that      *)
(* native code owns, as sets of their places                                *)

PinsAt(c, o) == /\ c[2] <= Len(stack[c[1]])
                /\ stack[c[1]][c[2]].obj = o /\ PinningFrame(stack[c[1]][c[2]])
Pins(o) == {c \in Calls : PinsAt(c, o)}
Refs(o) == {r \in Threads \X (1..MaxRefs) : r[2] <= refs[r[1]][o]}

LEMMA PinsAreCalls == \A o : Calling(o, PinningFrame) = Pins(o)
  BY DEF Calling, Pins, PinsAt

LEMMA UsersFinite ==
    ASSUME NEW o
    PROVE  /\ IsFiniteSet(Pins(o)) /\ Cardinality(Pins(o)) \in Nat
           /\ IsFiniteSet(Refs(o)) /\ Cardinality(Refs(o)) \in Nat
<1>0. IsFiniteSet(1..MaxRefs)
  BY ConstantsAssumption, FS_Interval
<1>1. IsFiniteSet(Threads \X (1..MaxRefs))
  BY <1>0, ConstantsAssumption, FS_Product
<1>2. Pins(o) \subseteq Calls /\ Refs(o) \subseteq Threads \X (1..MaxRefs)
  BY DEF Pins, Refs
<1>3. IsFiniteSet(Pins(o))
  BY <1>2, CallsFinite, FS_Subset
<1>4. IsFiniteSet(Refs(o))
  BY <1>1, <1>2, FS_Subset
<1> QED
  BY <1>3, <1>4, FS_CardinalityType

LEMMA UsersFiniteNext ==
    \A p : Cardinality(Refs(p))' \in Nat /\ Cardinality(Pins(p))' \in Nat
<1>1. \A p : Cardinality(Refs(p)) \in Nat /\ Cardinality(Pins(p)) \in Nat
  BY UsersFinite
<1>2. (\A p : Cardinality(Refs(p)) \in Nat /\ Cardinality(Pins(p)) \in Nat)'
  BY <1>1, PTL
<1> QED
  BY <1>2

\* The pins are those they were; or one of o was added, or taken away.
PinsSame == \A p \in Objects : Pins(p)' = Pins(p)
PinsAdd(o) == /\ \A p \in Objects \ {o} : Pins(p)' = Pins(p)
              /\ \E c \in Calls : c \notin Pins(o) /\ Pins(o)' = Pins(o) \cup {c}
PinsLose(o) == /\ \A p \in Objects \ {o} : Pins(p)' = Pins(p)
               /\ \E c \in Pins(o) : Pins(o)' = Pins(o) \ {c}

LEMMA SamePins ==
    ASSUME NEW p, \A c \in Calls : PinsAt(c, p)' <=> PinsAt(c, p)
    PROVE  Pins(p)' = Pins(p)
  BY DEF Pins

LEMMA CallParts ==
    ASSUME NEW c \in Calls
    PROVE  c = <<c[1], c[2]>> /\ c[1] \in Threads /\ c[2] \in 1..MaxDepth
  BY DEF Calls

LEMMA PinsUnderSame == ASSUME Same PROVE PinsSame
  BY DEF Same, PinsSame, Pins, PinsAt

LEMMA PinsUnderPush ==
    ASSUME Base, NEW t \in Threads, NEW f \in Frames, Fresh(t, f)
    PROVE  IF PinningFrame(f) THEN f.obj \in Objects => PinsAdd(f.obj) ELSE PinsSame
<1>0. PICK d : d = <<t, Len(stack[t]) + 1>>
  OBVIOUS
<1>1. Len(stack[t]) \in Nat /\ d \in Calls
  BY <1>0, ConstantsAssumption DEF Base, Stacks, Fresh, Calls
<1>2. ASSUME NEW p, NEW c \in Calls, c # d PROVE PinsAt(c, p)' <=> PinsAt(c, p)
  <2>1. CASE c[1] # t
    BY <2>1, CallParts DEF Fresh, Pushes, Others, PinsAt
  <2>2. CASE c[1] = t
    <3>1. c[2] # Len(stack[t]) + 1 /\ c[2] \in Nat
      BY <1>0, <1>2, <2>2, CallParts
    <3> QED
      BY <1>1, <2>2, <3>1, CallParts DEF Fresh, Pushes, PinsAt
  <2> QED
    BY <2>1, <2>2
<1>3. \A p : /\ ~PinsAt(d, p)
             /\ PinsAt(d, p)' <=> f.obj = p /\ PinningFrame(f)
  BY <1>0, <1>1 DEF PinsAt, Fresh, Pushes
<1> QED
  BY <1>1, <1>2, <1>3 DEF PinsAdd, PinsSame, Pins

LEMMA PinsUnderReplace ==
    ASSUME Base, NEW t \in Threads, NEW f \in Frames, Replaces(t, f)
    PROVE  /\ f.obj = TopFrame(t).obj /\ (PinningFrame(f) <=> PinningFrame(TopFrame(t)))
                => PinsSame
           /\ ~PinningFrame(f) /\ ~PinningFrame(TopFrame(t)) => PinsSame
           /\ ~PinningFrame(f) /\ PinningFrame(TopFrame(t)) /\ Len(stack[t]) <= MaxDepth
                => \A o : TopFrame(t).obj = o => PinsLose(o)
<1>0. PICK d : d = <<t, Len(stack[t])>>
  OBVIOUS
<1>1. Len(stack[t]) \in Nat \ {0}
  BY DEF Base, Stacks, Replaces
<1>2. ASSUME NEW p, NEW c \in Calls, c # d PROVE PinsAt(c, p)' <=> PinsAt(c, p)
  <2>1. CASE c[1] # t
    BY <2>1, CallParts DEF Replaces, Others, PinsAt
  <2>2. CASE c[1] = t
    <3>1. c[2] # Len(stack[t]) /\ c[2] \in Nat
      BY <1>0, <1>2, <2>2, CallParts
    <3> QED
      BY <1>1, <2>2, <3>1, CallParts DEF Replaces, PinsAt
  <2> QED
    BY <2>1, <2>2
<1>3. \A p : /\ PinsAt(d, p) <=> TopFrame(t).obj = p /\ PinningFrame(TopFrame(t))
             /\ PinsAt(d, p)' <=> f.obj = p /\ PinningFrame(f)
  BY <1>0, <1>1 DEF PinsAt, Replaces, TopFrame
<1>4. Len(stack[t]) <= MaxDepth => d \in Calls
  BY <1>0, <1>1, ConstantsAssumption DEF Calls
<1> QED
  BY <1>2, <1>3, <1>4 DEF PinsLose, PinsSame, Pins

LEMMA PinsUnderPop ==
    ASSUME Base, NEW t \in Threads, Pops(t)
    PROVE  /\ ~PinningFrame(TopFrame(t)) => PinsSame
           /\ PinningFrame(TopFrame(t)) /\ Len(stack[t]) <= MaxDepth
                => \A o : TopFrame(t).obj = o => PinsLose(o)
<1>0. PICK d : d = <<t, Len(stack[t])>>
  OBVIOUS
<1>1. Len(stack[t]) \in Nat \ {0}
  BY DEF Base, Stacks, Pops
<1>2. ASSUME NEW p, NEW c \in Calls, c # d PROVE PinsAt(c, p)' <=> PinsAt(c, p)
  <2>1. CASE c[1] # t
    BY <2>1, CallParts DEF Pops, Others, PinsAt
  <2>2. CASE c[1] = t
    <3>1. c[2] # Len(stack[t]) /\ c[2] \in Nat
      BY <1>0, <1>2, <2>2, CallParts
    <3> QED
      BY <1>1, <2>2, <3>1, CallParts DEF Pops, PinsAt
  <2> QED
    BY <2>1, <2>2
<1>3. \A p : /\ PinsAt(d, p) <=> TopFrame(t).obj = p /\ PinningFrame(TopFrame(t))
             /\ ~PinsAt(d, p)'
  BY <1>0, <1>1 DEF PinsAt, Pops, TopFrame
<1>4. Len(stack[t]) <= MaxDepth => d \in Calls
  BY <1>0, <1>1, ConstantsAssumption DEF Calls
<1> QED
  BY <1>2, <1>3, <1>4 DEF PinsLose, PinsSame, Pins

LEMMA PinsUnderGrow ==
    ASSUME Base, NEW t \in Threads, NEW f \in Frames, NEW g \in Frames, Grows(t, f, g),
           ~PinningFrame(f), ~PinningFrame(g), ~PinningFrame(TopFrame(t))
    PROVE  PinsSame
<1>1. Len(stack[t]) \in Nat \ {0}
  BY DEF Base, Stacks, Grows
<1>2. ASSUME NEW p, NEW c \in Calls PROVE PinsAt(c, p)' <=> PinsAt(c, p)
  <2>1. CASE c[1] # t
    BY <2>1, CallParts DEF Grows, Others, PinsAt
  <2>2. CASE c[1] = t
    BY <1>1, <2>2, CallParts DEF Grows, PinsAt, TopFrame
  <2> QED
    BY <2>1, <2>2
<1> QED
  BY <1>2 DEF PinsSame, Pins

-----------------------------------------------------------------------------
(* By how much a step changes the numbers of users of the object o *)

PinsBy(o, d) == \A p \in Objects :
    Cardinality(Pins(p))' = Cardinality(Pins(p)) + (IF p = o THEN d ELSE 0)
RefsBy(o, d) == \A p \in Objects :
    Cardinality(Refs(p))' = Cardinality(Refs(p)) + (IF p = o THEN d ELSE 0)

LEMMA PinsCount ==
    ASSUME NEW o
    PROVE  /\ PinsSame => PinsBy(o, 0)
           /\ PinsAdd(o) => PinsBy(o, 1)
           /\ PinsLose(o) => PinsBy(o, 0 - 1)
<1>1. \A p : IsFiniteSet(Pins(p)) /\ Cardinality(Pins(p)) \in Nat
  BY UsersFinite
<1>2. ASSUME PinsSame PROVE PinsBy(o, 0)
  BY <1>1, <1>2 DEF PinsSame, PinsBy
<1>3. ASSUME PinsAdd(o) PROVE PinsBy(o, 1)
  <2>1. PICK c : c \notin Pins(o) /\ Pins(o)' = Pins(o) \cup {c}
    BY <1>3 DEF PinsAdd
  <2>2. Cardinality(Pins(o))' = Cardinality(Pins(o)) + 1
    BY <1>1, <2>1, FS_AddElement
  <2>3. \A p \in Objects \ {o} : Pins(p)' = Pins(p)
    BY <1>3 DEF PinsAdd
  <2> QED
    BY <1>1, <2>2, <2>3 DEF PinsBy
<1>4. ASSUME PinsLose(o) PROVE PinsBy(o, 0 - 1)
  <2>1. PICK c : c \in Pins(o) /\ Pins(o)' = Pins(o) \ {c}
    BY <1>4 DEF PinsLose
  <2>2. Cardinality(Pins(o))' = Cardinality(Pins(o)) - 1
    BY <1>1, <2>1, FS_RemoveElement
  <2>3. \A p \in Objects \ {o} : Pins(p)' = Pins(p)
    BY <1>4 DEF PinsLose
  <2> QED
    BY <1>1, <2>2, <2>3 DEF PinsBy
<1> QED
  BY <1>2, <1>3, <1>4

RefsType == refs \in [Threads -> [Objects -> 0..MaxRefs]]

LEMMA RefsUnchanged ==
    ASSUME NEW o, refs' = refs
    PROVE  RefsBy(o, 0)
<1>1. \A p : Cardinality(Refs(p)) \in Nat
  BY UsersFinite
<1> QED
  BY <1>1 DEF RefsBy, Refs

LEMMA RefsGain ==
    ASSUME RefsType, NEW u \in Threads, NEW o \in Objects, refs[u][o] < MaxRefs,
           refs' = [refs EXCEPT ![u][o] = @ + 1]
    PROVE  RefsBy(o, 1) /\ RefsType'
<1>1. MaxRefs \in Nat /\ refs[u][o] \in 0..MaxRefs
  BY ConstantsAssumption DEF RefsType
<1>2. RefsType'
  BY <1>1 DEF RefsType
<1>0. PICK d : d = <<u, refs[u][o] + 1>>
  OBVIOUS
<1>3. d \in Threads \X (1..MaxRefs) /\ d \notin Refs(o)
  BY <1>0, <1>1 DEF Refs
<1>4. Refs(o)' = Refs(o) \cup {d}
  <2> SUFFICES ASSUME NEW r \in Threads \X (1..MaxRefs)
               PROVE  r[2] <= refs'[r[1]][o] <=> r[2] <= refs[r[1]][o] \/ r = d
    BY <1>3 DEF Refs
  <2>1. r = <<r[1], r[2]>> /\ r[1] \in Threads /\ r[2] \in 1..MaxRefs
    OBVIOUS
  <2>2. CASE r[1] = u
    <3>1. refs'[u][o] = refs[u][o] + 1
      BY <1>1 DEF RefsType
    <3>2. r = d <=> r[2] = refs[u][o] + 1
      BY <1>0, <2>1, <2>2
    <3> QED
      BY <1>1, <2>1, <2>2, <3>1, <3>2
  <2>3. CASE r[1] # u
    <3>1. d[1] = u /\ refs'[r[1]] = refs[r[1]]
      BY <1>0, <2>1, <2>3 DEF RefsType
    <3> QED
      BY <2>3, <3>1
  <2> QED
    BY <2>2, <2>3
<1>5. \A p \in Objects \ {o} : Refs(p)' = Refs(p)
  BY DEF Refs, RefsType
<1>6. \A p : IsFiniteSet(Refs(p)) /\ Cardinality(Refs(p)) \in Nat
  BY UsersFinite
<1>7. Cardinality(Refs(o))' = Cardinality(Refs(o)) + 1
  BY <1>3, <1>4, <1>6, FS_AddElement
<1> QED
  BY <1>2, <1>5, <1>6, <1>7 DEF RefsBy

LEMMA RefsDrop ==
    ASSUME RefsType, NEW u \in Threads, NEW o \in Objects, refs[u][o] > 0,
           refs' = [refs EXCEPT ![u][o] = @ - 1]
    PROVE  RefsBy(o, 0 - 1) /\ RefsType'
<1>1. MaxRefs \in Nat /\ refs[u][o] \in 1..MaxRefs
  BY ConstantsAssumption DEF RefsType
<1>2. RefsType'
  BY <1>1 DEF RefsType
<1>0. PICK d : d = <<u, refs[u][o]>>
  OBVIOUS
<1>3. d \in Refs(o)
  BY <1>0, <1>1 DEF Refs
<1>4. Refs(o)' = Refs(o) \ {d}
  <2> SUFFICES ASSUME NEW r \in Threads \X (1..MaxRefs)
               PROVE  r[2] <= refs'[r[1]][o] <=> r[2] <= refs[r[1]][o] /\ r # d
    BY <1>3 DEF Refs
  <2>1. r = <<r[1], r[2]>> /\ r[1] \in Threads /\ r[2] \in 1..MaxRefs
    OBVIOUS
  <2>2. CASE r[1] = u
    <3>1. refs'[u][o] = refs[u][o] - 1
      BY <1>1 DEF RefsType
    <3>2. r = d <=> r[2] = refs[u][o]
      BY <1>0, <2>1, <2>2
    <3> QED
      BY <1>1, <2>1, <2>2, <3>1, <3>2
  <2>3. CASE r[1] # u
    <3>1. d[1] = u /\ refs'[r[1]] = refs[r[1]]
      BY <1>0, <2>1, <2>3 DEF RefsType
    <3> QED
      BY <2>3, <3>1
  <2> QED
    BY <2>2, <2>3
<1>5. \A p \in Objects \ {o} : Refs(p)' = Refs(p)
  BY DEF Refs, RefsType
<1>6. \A p : IsFiniteSet(Refs(p)) /\ Cardinality(Refs(p)) \in Nat
  BY UsersFinite
<1>7. Cardinality(Refs(o))' = Cardinality(Refs(o)) - 1
  BY <1>3, <1>4, <1>6, FS_RemoveElement
<1> QED
  BY <1>2, <1>5, <1>6, <1>7 DEF RefsBy

IdCount(o) == IF o \in identity THEN 1 ELSE 0
IdBy(o, d) == \A p \in Objects : IdCount(p)' = IdCount(p) + (IF p = o THEN d ELSE 0)
StrongBy(o, d) ==
    /\ strong' \in [Objects -> Int]
    /\ \A p \in Objects : strong'[p] = strong[p] + (IF p = o THEN d ELSE 0)

Balance ==
    /\ RefsType /\ strong \in [Objects -> Nat]
    /\ \A o \in Objects :
           strong[o] = IdCount(o) + Cardinality(Refs(o)) + Cardinality(Pins(o))

\* The count of o goes with its users; and only one in use gets another.
Tallies(o, a, b, c) ==
    PinsBy(o, a) /\ RefsBy(o, b) /\ RefsType' /\ IdBy(o, c) /\ StrongBy(o, a + b + c)
Shift(o, a, b, c) == Tallies(o, a, b, c) /\ (a + b + c > 0 => strong[o] > 0)
Ones == {0 - 1, 0, 1}
Balanced == \E o, a, b, c : a \in Ones /\ b \in Ones /\ c \in Ones /\ Shift(o, a, b, c)

LEMMA StrongMoves ==
    ASSUME Balance, NEW o \in Objects
    PROVE  /\ strong' = strong => StrongBy(o, 0)
           /\ strong' = [strong EXCEPT ![o] = @ + 1] => StrongBy(o, 1)
           /\ strong' = [strong EXCEPT ![o] = @ - 1] => StrongBy(o, 0 - 1)
  BY DEF Balance, StrongBy

LEMMA IdUnchanged == ASSUME NEW o, identity' = identity PROVE IdBy(o, 0)
  BY DEF IdBy, IdCount

LEMMA InUse ==
    ASSUME Balance, NEW o \in Objects
    PROVE  /\ o \in identity => strong[o] > 0
           /\ \A t \in Threads : refs[t][o] > 0 => strong[o] > 0
<1>1. Cardinality(Refs(o)) \in Nat /\ Cardinality(Pins(o)) \in Nat /\ IsFiniteSet(Refs(o))
  BY UsersFinite
<1>2. ASSUME NEW t \in Threads, refs[t][o] > 0 PROVE Cardinality(Refs(o)) # 0
  <2>1. refs[t][o] \in 1..MaxRefs
    BY <1>2, ConstantsAssumption DEF Balance, RefsType
  <2>2. <<t, refs[t][o]>> \in Refs(o)
    BY <2>1 DEF Refs
  <2> QED
    BY <1>1, <2>2, FS_EmptySet
<1> QED
  BY <1>1, <1>2 DEF Balance, IdCount

LEMMA TallyStep ==
    ASSUME Balance, NEW o, NEW a \in Ones, NEW b \in Ones, NEW c \in Ones, Tallies(o, a, b, c)
    PROVE  Balance'
<1>2. \A p : /\ Cardinality(Refs(p)) \in Nat /\ Cardinality(Pins(p)) \in Nat
             /\ Cardinality(Refs(p))' \in Nat /\ Cardinality(Pins(p))' \in Nat
  BY UsersFinite, UsersFiniteNext
<1>3. \A p \in Objects : IdCount(p) \in Nat /\ IdCount(p)' \in Nat
  BY DEF IdCount
<1>4. \A p \in Objects :
        strong'[p] = IdCount(p)' + Cardinality(Refs(p))' + Cardinality(Pins(p))'
  BY <1>2, <1>3 DEF Balance, Tallies, PinsBy, RefsBy, IdBy, StrongBy, Ones
<1>5. strong' \in [Objects -> Nat]
  <2>1. \A p \in Objects : strong'[p] \in Nat
    BY <1>2, <1>3, <1>4
  <2> QED
    BY <2>1 DEF Tallies, StrongBy
<1> QED
  BY <1>4, <1>5 DEF Balance, Tallies

LEMMA BalanceStep ==
    ASSUME Balance, Balanced
    PROVE  Balance' /\ \A p \in Objects : strong[p] = 0 => strong'[p] = 0
<1>1. PICK o, a, b, c : a \in Ones /\ b \in Ones /\ c \in Ones /\ Shift(o, a, b, c)
  BY DEF Balanced
<1>2. Balance'
  BY <1>1, TallyStep DEF Shift
<1>3. ASSUME NEW p \in Objects, strong[p] = 0 PROVE strong'[p] = 0
  <2>1. strong'[p] \in Nat
    BY <1>2 DEF Balance
  <2> QED
    BY <1>1, <1>3, <2>1 DEF Shift, Tallies, StrongBy, Ones
<1> QED
  BY <1>2, <1>3

LEMMA Even ==
    ASSUME Balance, PinsSame, UNCHANGED <<refs, strong, identity>>
    PROVE  Balanced
<1>1. \A o : PinsBy(o, 0) /\ RefsBy(o, 0) /\ IdBy(o, 0)
  BY PinsCount, RefsUnchanged, IdUnchanged
<1>2. \A o : StrongBy(o, 0)
  BY DEF StrongBy, Balance
<1>3. RefsType'
  BY DEF Balance, RefsType
<1>4. \A o : Shift(o, 0, 0, 0)
  BY <1>1, <1>2, <1>3 DEF Shift, Tallies
<1> QED
  BY <1>4 DEF Balanced, Ones

LEMMA PinDepth ==
    ASSUME Base, NEW t \in Threads, NEW op, NEW pc, Topped(t, op, pc), op # "disconnect"
    PROVE  Len(stack[t]) <= MaxDepth
  BY DEF Base, Depths, Topped, TopFrame

LEMMA TurnPins ==
    ASSUME Base, NEW t \in Threads, NEW pc, Turns(t, pc)
    PROVE  PinsSame
<1>1. PICK f \in Frames : Replaces(t, f) /\ f.op = TopFrame(t).op /\ f.obj = TopFrame(t).obj
  BY DEF Turns
<1> QED
  BY <1>1, PinsUnderReplace DEF PinningFrame

LEMMA Unpinned ==
    ASSUME Base, NEW t \in Threads, NEW o \in Objects, NEW op \in {"dispatch", "resolve"},
           NEW pc, Topped(t, op, pc), TopFrame(t).obj = o,
           Pops(t) \/ Replaces(t, Disconnection(o))
    PROVE  PinsLose(o)
<1>1. PinningFrame(TopFrame(t)) /\ Len(stack[t]) <= MaxDepth
  BY PinDepth DEF Topped, PinningFrame
<1>2. Disconnection(o) \in Frames /\ ~PinningFrame(Disconnection(o))
  BY HarmlessFrames DEF Base, PinningFrame
<1> QED
  BY <1>1, <1>2, PinsUnderPop, PinsUnderReplace

LEMMA PlainPins ==
    ASSUME Base, NEW t \in Threads, NEW o \in Objects
    PROVE  /\ Fresh(t, Disconnection(o)) => PinsSame
           /\ Same => PinsSame
           /\ \A f \in Frames : Fresh(t, f) /\ ~PinningFrame(f) => PinsSame
           /\ \A op, pc : Topped(t, op, pc) /\ op \notin {"dispatch", "resolve"} /\ Pops(t)
                => PinsSame
<1>1. Disconnection(o) \in Frames /\ ~PinningFrame(Disconnection(o))
  BY HarmlessFrames DEF Base, PinningFrame
<1> QED
  BY <1>1, PinsUnderPush, PinsUnderSame, PinsUnderPop DEF Topped, PinningFrame

LEMMA HostBalance ==
    ASSUME Base, Balance, NEW t \in Threads, NEW o \in Objects, identity' = identity,
           \/ Release(t, o) \/ GetWeakReference(t, o) \/ Resolve(t, o) \/ Dispatch(t, o)
           \/ \E u \in Threads : AddRef(t, u, o)
           \/ Resolved(t, o) \/ NoInterface(t, o) \/ Accept(t, o) \/ Unpin(t, o)
           \/ TakeCallback(t, o) \/ DropClone(t) \/ DropCallback(t)
    PROVE  Balanced
<1> USE DEF Base
<1>0. IdBy(o, 0) /\ RefsType
  BY IdUnchanged DEF Balance
<1>1. CASE Release(t, o)
  <2>1. PinsBy(o, 0)
    BY <1>1, ReleaseStack, PlainPins, PinsCount
  <2>2. RefsBy(o, 0 - 1) /\ RefsType'
    BY <1>0, <1>1, RefsDrop DEF Release
  <2>3. StrongBy(o, 0 - 1)
    BY <1>1, StrongMoves DEF Release, DropStrong
  <2>4. Shift(o, 0, 0 - 1, 0)
    BY <1>0, <2>1, <2>2, <2>3 DEF Shift, Tallies
  <2> QED
    BY <2>4 DEF Balanced, Ones
<1>2. CASE GetWeakReference(t, o)
  BY <1>2, Even, PlainPins DEF GetWeakReference, Same
<1>3. ASSUME NEW u \in Threads, AddRef(t, u, o) PROVE Balanced
  <2>1. PinsBy(o, 0)
    BY <1>3, PlainPins, PinsCount DEF AddRef, Same
  <2>2. RefsBy(o, 1) /\ RefsType' /\ strong[o] > 0
    BY <1>0, <1>3, RefsGain, InUse DEF AddRef
  <2>3. StrongBy(o, 1)
    BY <1>3, StrongMoves DEF AddRef
  <2>4. Shift(o, 0, 1, 0)
    BY <1>0, <2>1, <2>2, <2>3 DEF Shift, Tallies
  <2> QED
    BY <2>4 DEF Balanced, Ones
<1>4. CASE Resolve(t, o) \/ Dispatch(t, o)
  <2>1. PinsAdd(o)
    <3>1. \A op \in {"resolve", "dispatch"} : /\ PinningFrame(Frame(op, o, "pinned"))
                                              /\ Frame(op, o, "pinned").obj = o
      BY DEF PinningFrame, Frame
    <3> QED
      BY <1>4, <3>1, ResolveStack, DispatchStack, NewFrames, PinsUnderPush
  <2>2. PinsBy(o, 1) /\ RefsBy(o, 0) /\ RefsType'
    BY <1>0, <1>4, <2>1, PinsCount, RefsUnchanged DEF Resolve, Dispatch, RefsType
  <2>3. StrongBy(o, 1) /\ strong[o] > 0
    BY <1>4, StrongMoves, InUse DEF Resolve, Dispatch
  <2>4. Shift(o, 1, 0, 0)
    BY <1>0, <2>2, <2>3 DEF Shift, Tallies
  <2> QED
    BY <2>4 DEF Balanced, Ones
<1>5. CASE Resolved(t, o)
  <2>1. PinsBy(o, 0 - 1)
    BY <1>5, ResolvedStack, Unpinned, PinsCount
  <2>2. RefsBy(o, 1) /\ RefsType'
    BY <1>0, <1>5, RefsGain DEF Resolved
  <2>3. StrongBy(o, 0)
    BY <1>5, StrongMoves DEF Resolved
  <2>4. Shift(o, 0 - 1, 1, 0)
    BY <1>0, <2>1, <2>2, <2>3 DEF Shift, Tallies
  <2> QED
    BY <2>4 DEF Balanced, Ones
<1>6. CASE NoInterface(t, o) \/ Unpin(t, o)
  <2>1. PinsBy(o, 0 - 1)
    BY <1>6, NoInterfaceStack, UnpinStack, Unpinned, PinsCount
  <2>2. RefsBy(o, 0) /\ RefsType'
    BY <1>0, <1>6, RefsUnchanged DEF NoInterface, Unpin, RefsType
  <2>3. StrongBy(o, 0 - 1)
    BY <1>6, StrongMoves DEF NoInterface, Unpin, DropStrong
  <2>4. Shift(o, 0 - 1, 0, 0)
    BY <1>0, <2>1, <2>2, <2>3 DEF Shift, Tallies
  <2> QED
    BY <2>4 DEF Balanced, Ones
<1>7. CASE Accept(t, o)
  BY <1>7, AcceptStack, TurnPins, Even DEF Accept, hostVars
<1>8. CASE TakeCallback(t, o)
  BY <1>8, TakeCallbackStack, TurnPins, PlainPins, Even DEF TakeCallback, hostVars
<1>9. CASE DropClone(t)
  BY <1>9, DropCloneStack, TurnPins, Even DEF DropClone, hostVars
<1>10. CASE DropCallback(t)
  BY <1>10, DropCallbackStack, PlainPins, Even DEF DropCallback, hostVars
<1> QED
  BY <1>1, <1>2, <1>3, <1>4, <1>5, <1>6, <1>7, <1>8, <1>9, <1>10

LEMMA OwnerPins ==
    ASSUME Base, NEW t \in Threads, NEW f \in Frames, OwnerTop(t), Works(f, t), NEW o \in Objects
    PROVE  /\ Replaces(t, f) => PinsSame
           /\ Grows(t, f, Disconnection(o)) => PinsSame
<1>1. ~PinningFrame(f) /\ ~PinningFrame(TopFrame(t))
  BY DEF OwnerTop, Works, PinningFrame, OwnerOps
<1>2. Disconnection(o) \in Frames /\ ~PinningFrame(Disconnection(o))
  BY HarmlessFrames DEF Base, PinningFrame
<1> QED
  BY <1>1, <1>2, PinsUnderReplace, PinsUnderGrow

LEMMA OwnerBalance ==
    ASSUME Base, Balance, NEW t \in Threads, NEW o \in Objects,
           \/ \E op \in OwnerOps : OwnerOp(t, o, op)
           \/ LookAtFlag(t, o) \/ LookAtCount(t, o) \/ Disconnect(t, o)
           \/ ReleaseIdentity(t, o) \/ ToValue(t, o) \/ DropOwner(t, o)
    PROVE  Balanced
<1> USE DEF Base
<1>1. ASSUME NEW op \in OwnerOps, OwnerOp(t, o, op) PROVE Balanced
  <2>1. OwnerFrame(o, op) \in Frames /\ ~PinningFrame(OwnerFrame(o, op))
    BY <1>1, OwnerOpStack DEF PinningFrame, OwnerFrame, OwnerOps
  <2> QED
    BY <1>1, <2>1, OwnerOpStack, PlainPins, Even DEF OwnerOp, hostVars, ownVars
<1>2. CASE LookAtFlag(t, o) \/ LookAtCount(t, o)
  BY <1>2, LookStack, OwnerPins, Even DEF LookAtFlag, LookAtCount, hostVars, ownVars
<1>3. CASE Disconnect(t, o)
  BY <1>3, DisconnectStack, OwnerPins, Even DEF Disconnect, hostVars, ownVars
<1>4. CASE ReleaseIdentity(t, o) \/ DropOwner(t, o)
  <2>1. PinsSame
    BY <1>4, ReleaseIdentityStack, DropOwnerStack, OwnerPins, PlainPins
  <2>2. refs' = refs /\ identity' = identity \ {o}
    BY <1>4 DEF ReleaseIdentity, DropOwner
  <2>3. CASE o \notin identity
    <3>1. identity' = identity /\ strong' = strong
      BY <1>4, <2>2, <2>3 DEF ReleaseIdentity, DropOwner
    <3> QED
      BY <2>1, <2>2, <3>1, Even
  <2>4. CASE o \in identity
    <3>1. PinsBy(o, 0) /\ RefsBy(o, 0) /\ RefsType'
      BY <2>1, <2>2, PinsCount, RefsUnchanged DEF Balance, RefsType
    <3>2. StrongBy(o, 0 - 1)
      BY <1>4, <2>4, StrongMoves DEF ReleaseIdentity, DropOwner, DropStrong
    <3>3. IdBy(o, 0 - 1)
      BY <2>2, <2>4 DEF IdBy, IdCount
    <3>4. Shift(o, 0, 0, 0 - 1)
      BY <3>1, <3>2, <3>3 DEF Shift, Tallies
    <3> QED
      BY <3>4 DEF Balanced, Ones
  <2> QED
    BY <2>3, <2>4
<1>5. CASE ToValue(t, o)
  <2>0. ~PinningFrame(Frame("to_value", o, "track"))
    BY DEF PinningFrame, Frame
  <2>1. PinsBy(o, 0) /\ IdBy(o, 0)
    BY <1>5, <2>0, ToValueStack, NewFrames, PlainPins, PinsCount, IdUnchanged DEF ToValue, ownVars
  <2>2. RefsBy(o, 1) /\ RefsType' /\ strong[o] > 0
    BY <1>5, RefsGain, InUse DEF ToValue, Balance
  <2>3. StrongBy(o, 1)
    BY <1>5, StrongMoves DEF ToValue
  <2>4. Shift(o, 0, 1, 0)
    BY <2>1, <2>2, <2>3 DEF Shift, Tallies
  <2> QED
    BY <2>4 DEF Balanced, Ones
<1> QED
  BY <1>1, <1>2, <1>3, <1>4, <1>5

LEMMA InvokeBalance ==
    ASSUME Base, Balance, NEW t \in Threads, InvokeStep(t)
    PROVE  Balanced
<1> USE DEF Base
<1>1. UNCHANGED <<refs, strong, identity>>
  BY DEF InvokeStep, Closed, Knock, TakePermit, NoPermit, CannotEnter, Enter, Answer, Detach,
         LeaveGate, Elsewhere, hostVars, ownVars
<1>2. PinsSame
  <2>1. CASE Closed(t) \/ Knock(t) \/ NoPermit(t) \/ LeaveGate(t) \/ Answer(t)
    BY <2>1, InvokeStack, TurnPins
  <2>2. CASE TakePermit(t) \/ CannotEnter(t) \/ Detach(t)
    BY <2>2, PinsUnderSame DEF TakePermit, CannotEnter, Detach, Same
  <2>3. ASSUME NEW o \in Objects, Enter(t, o) PROVE PinsSame
    BY <2>3, EnterStack, TurnPins
  <2> QED
    BY <2>1, <2>2, <2>3 DEF InvokeStep
<1> QED
  BY <1>1, <1>2, Even

LEMMA ThreadBalance ==
    ASSUME Base, Balance, NEW t \in Threads,
           \/ TakeGil(t) \/ YieldGil(t) \/ FinalizerEnds(t) \/ CreateFails(t) \/ Restore(t)
           \/ Ends(t) \/ \E o \in Objects : RunFinalizer(t, o) \/ BeginCreate(t, o)
           \/ ShutdownStep(t)
    PROVE  Balanced
<1> USE DEF Base
<1>1. UNCHANGED <<refs, strong, identity>>
  <2>1. CASE TakeGil(t) \/ YieldGil(t) \/ FinalizerEnds(t) \/ CreateFails(t) \/ Restore(t)
    BY <2>1 DEF TakeGil, YieldGil, FinalizerEnds, CreateFails, Restore, objectVars, hostVars, ownVars
  <2>2. CASE \E o \in Objects : RunFinalizer(t, o) \/ BeginCreate(t, o)
    BY <2>2 DEF RunFinalizer, BeginCreate, hostVars, ownVars
  <2>3. CASE ShutdownStep(t)
    BY <2>3 DEF ShutdownStep, ShutdownCallbacks, AtExitRuntime, AtExitGate, StopRuntime,
                ClearCell, ShutdownEnds, objectVars, hostVars, ownVars
  <2>4. CASE Ends(t)
    BY <2>4 DEF Ends, CreateEnds, ToValueEnds, hostVars, ownVars
  <2> QED
    BY <2>1, <2>2, <2>3, <2>4
<1>2. PinsSame
  <2>1. CASE TakeGil(t) \/ YieldGil(t) \/ AtExitGate(t)
    BY <2>1, PinsUnderSame DEF TakeGil, YieldGil, AtExitGate, Same, objectVars
  <2>2. CASE FinalizerEnds(t) \/ CreateFails(t) \/ ShutdownEnds(t) \/ Ends(t)
    BY <2>2, FinalizerEndsStack, CreateFailsStack, ShutdownEndsStack, CreateEndsStack,
       ToValueEndsStack, PinsUnderPop DEF Topped, PinningFrame, Ends
  <2>3. CASE Restore(t)
    BY <2>3, RestoreStack, PinsUnderPop DEF OwnerTop, OwnerOps, PinningFrame
  <2>4. ASSUME NEW o \in Objects, RunFinalizer(t, o) \/ BeginCreate(t, o) PROVE PinsSame
    BY <2>4, RunFinalizerStack, BeginCreateStack, NewFrames, PlainPins DEF PinningFrame, Frame
  <2>5. CASE ShutdownCallbacks(t) \/ AtExitRuntime(t)
    <3>1. ~PinningFrame(ShutdownFrame)
      BY DEF PinningFrame, ShutdownFrame
    <3> QED
      BY <2>5, <3>1, ShutdownStack, NewShutdown, PinsUnderPush
  <2>6. CASE StopRuntime(t)
    BY <2>6, StopRuntimeStack, PinsUnderReplace DEF Topped, PinningFrame
  <2>7. ASSUME NEW o \in Objects, ClearCell(t, o) PROVE PinsSame
    BY <2>7, ClearCellStack, PinsUnderReplace DEF Topped, PinningFrame
  <2> QED
    BY <2>1, <2>2, <2>3, <2>4, <2>5, <2>6, <2>7 DEF ShutdownStep
<1> QED
  BY <1>1, <1>2, Even
-----------------------------------------------------------------------------
(* An object is created once: by the one call that wraps its callback *)

Creating(t, i) == i \in 1..Len(stack[t]) /\ stack[t][i].op = "create"
CreateInv ==
    /\ \A t \in Threads : \A i \in Nat : Creating(t, i) => ~Created(stack[t][i].obj)
    /\ \A t \in Threads, u \in Threads : \A i \in Nat, j \in Nat :
           Creating(t, i) /\ Creating(u, j) /\ stack[t][i].obj = stack[u][j].obj
               => t = u /\ i = j
Unborn == \A o \in Objects : owner[o] = NoThread => strong[o] = 0
BirthInv == CreateInv /\ Unborn

\* What a step that takes no object for created does to the calls that create one.
LEMMA CreatingUnder ==
    ASSUME Stacks, NEW t \in Threads,
           \/ Same \/ Pops(t)
           \/ \E f \in Frames : Fresh(t, f) /\ f.op # "create"
           \/ \E f \in Frames : Replaces(t, f) /\ f.op # "create"
           \/ \E f \in Frames, g \in Frames :
                  Grows(t, f, g) /\ f.op # "create" /\ g.op # "create"
    PROVE  \A u \in Threads : \A i \in Nat :
               Creating(u, i)' => Creating(u, i) /\ stack'[u][i] = stack[u][i]
<1>1. \A u \in Threads : Len(stack[u]) \in Nat
  BY DEF Stacks
<1> SUFFICES ASSUME NEW u \in Threads, NEW i \in Nat, Creating(u, i)'
             PROVE  Creating(u, i) /\ stack'[u][i] = stack[u][i]
  OBVIOUS
<1>2. CASE Same
  BY <1>2 DEF Same, Creating
<1>3. CASE u # t
  BY <1>3 DEF Creating, Same, Pops, Fresh, Pushes, Replaces, Grows, Others
<1>4. CASE u = t /\ Pops(t)
  BY <1>1, <1>4 DEF Pops, Creating
<1>5. ASSUME u = t, NEW f \in Frames, Fresh(t, f), f.op # "create"
      PROVE  Creating(u, i) /\ stack'[u][i] = stack[u][i]
  BY <1>1, <1>5 DEF Fresh, Pushes, Creating
<1>6. ASSUME u = t, NEW f \in Frames, Replaces(t, f), f.op # "create"
      PROVE  Creating(u, i) /\ stack'[u][i] = stack[u][i]
  BY <1>1, <1>6 DEF Replaces, Creating
<1>7. ASSUME u = t, NEW f \in Frames, NEW g \in Frames, Grows(t, f, g),
             f.op # "create", g.op # "create"
      PROVE  Creating(u, i) /\ stack'[u][i] = stack[u][i]
  BY <1>1, <1>7 DEF Grows, Creating
<1> QED
  BY <1>2, <1>3, <1>4, <1>5, <1>6, <1>7

LEMMA CreateInvStep ==
    ASSUME Stacks, CreateInv, NEW t \in Threads, Deep(t), owner' = owner
    PROVE  CreateInv'
<1>1. CASE \E f \in Frames : Fresh(t, f) /\ f.op = "create"
  <2>1. PICK f \in Frames : Fresh(t, f) /\ f.op = "create"
    BY <1>1
  <2>2. Len(stack[t]) \in Nat /\ \A u \in Threads : Len(stack[u]) \in Nat
    BY DEF Stacks
  <2>3. NewObject(f.obj)
    <3>1. Len(stack'[t]) = Len(stack[t]) + 1 /\ stack'[t][Len(stack[t]) + 1] = f
      BY <2>1 DEF Fresh, Pushes
    <3>2. ~Same /\ ~Pops(t) /\ \A g \in Frames : ~Replaces(t, g)
      BY <2>2, <3>1 DEF Same, Pops, Replaces
    <3>3. \A g \in Frames, h \in Frames : Grows(t, g, h) => h = f
      BY <2>2, <3>1 DEF Grows
    <3>4. \A g \in Frames : Fresh(t, g) => g = f
      BY <2>2, <3>1 DEF Fresh, Pushes
    <3> QED
      BY <2>1, <3>2, <3>3, <3>4 DEF Deep
  <2>4. \A u \in Threads : \A i \in Nat :
          Creating(u, i)' => \/ u = t /\ i = Len(stack[t]) + 1 /\ stack'[u][i] = f
                             \/ Creating(u, i) /\ stack'[u][i] = stack[u][i]
    BY <2>1, <2>2 DEF Fresh, Pushes, Others, Creating
  <2>5. \A u \in Threads : \A i \in Nat : Creating(u, i) => stack[u][i].obj # f.obj
    BY <2>3, FramesOnStack DEF NewObject, Creating
  <2>7. \A u \in Threads : \A i \in Nat :
          Creating(u, i)' => owner'[stack'[u][i].obj] = NoThread
    BY <2>3, <2>4 DEF CreateInv, NewObject, Created
  <2>8. \A u \in Threads, v \in Threads : \A i \in Nat, j \in Nat :
          Creating(u, i)' /\ Creating(v, j)' /\ stack'[u][i].obj = stack'[v][j].obj
              => u = v /\ i = j
    BY <2>4, <2>5 DEF CreateInv
  <2> QED
    BY <2>7, <2>8 DEF CreateInv, Created
<1>2. CASE ~\E f \in Frames : Fresh(t, f) /\ f.op = "create"
  <2>1. \A u \in Threads : \A i \in Nat :
          Creating(u, i)' => Creating(u, i) /\ stack'[u][i] = stack[u][i]
    <3>1. ASSUME NEW f \in Frames, NEW g \in Frames, Grows(t, f, g), g.op = "disconnect",
                 f.op \notin {"disconnect", "create"}
          PROVE  \E a \in Frames, b \in Frames :
                     Grows(t, a, b) /\ a.op # "create" /\ b.op # "create"
      BY <3>1
    <3> QED
      BY <1>2, <3>1, CreatingUnder DEF Deep
  <2> QED
    BY <2>1 DEF CreateInv, Created
<1> QED
  BY <1>1, <1>2

LEMMA OwnerKept ==
    ASSUME Next
    PROVE  owner' = owner \/ \E t \in Threads, o \in Objects : Create(t, o)
<1>1. ASSUME NEW t \in Threads, NEW o \in Objects, RunFinalizer(t, o) PROVE owner' = owner
  BY <1>1 DEF RunFinalizer
<1>2. ASSUME NEW t \in Threads, TakeGil(t) \/ YieldGil(t) \/ FinalizerEnds(t)
      PROVE  owner' = owner
  BY <1>2 DEF TakeGil, YieldGil, FinalizerEnds, objectVars
<1>3. ASSUME NEW t \in Threads, ObjectStep(t) PROVE owner' = owner
  BY <1>3 DEF ObjectStep, NativeStep, Running, Release, GetWeakReference, Resolve, Dispatch,
         AddRef, Resolved, NoInterface, Accept, Unpin, TakeCallback, DropClone, DropCallback
<1>4. ASSUME NEW t \in Threads, OwnerStep(t)
      PROVE  owner' = owner \/ \E o \in Objects : Create(t, o)
  BY <1>4 DEF OwnerStep, BeginCreate, OwnerOp, LookAtFlag, LookAtCount, Disconnect,
         ReleaseIdentity, ToValue, DropOwner, CreateFails, CreateEnds, Restore, ToValueEnds
<1>5. ASSUME NEW t \in Threads, InvokeStep(t) PROVE owner' = owner
  BY <1>5 DEF InvokeStep, Closed, Knock, TakePermit, NoPermit, CannotEnter, Enter, Answer,
         Detach, LeaveGate, Elsewhere
<1>6. ASSUME NEW t \in Threads, ShutdownStep(t) PROVE owner' = owner
  BY <1>6 DEF ShutdownStep, ShutdownCallbacks, AtExitRuntime, AtExitGate, StopRuntime,
         ClearCell, ShutdownEnds, objectVars
<1> QED
  BY <1>1, <1>2, <1>3, <1>4, <1>5, <1>6 DEF Next

LEMMA CreateBirth ==
    ASSUME Base, Balance, BirthInv, owner \in [Objects -> Threads \cup {NoThread}],
           NEW t \in Threads, NEW o \in Objects, Create(t, o)
    PROVE  Balance' /\ BirthInv'
<1> USE DEF Base
<1>1. /\ Topped(t, "create", "wrap") /\ TopFrame(t).obj = o
      /\ Replaces(t, Frame("created", o, "track"))
  BY CreateStack
<1>0. PICK f \in Frames : f = Frame("created", o, "track") /\ f.op = "created"
  BY NewFrames DEF Frame
<1>2. Len(stack[t]) \in Nat \ {0} /\ Creating(t, Len(stack[t]))
  BY <1>1 DEF Topped, TopFrame, Creating
<1>3. owner[o] = NoThread /\ strong[o] = 0
  BY <1>1, <1>2 DEF BirthInv, CreateInv, Unborn, Created, TopFrame
<1>4. o \notin identity
  BY <1>3, InUse
<1>5. PinsBy(o, 0) /\ RefsBy(o, 0) /\ RefsType'
  <2>1. ~PinningFrame(f) /\ ~PinningFrame(TopFrame(t)) /\ Replaces(t, f)
    BY <1>0, <1>1 DEF Topped, PinningFrame
  <2> QED
    BY <2>1, PinsUnderReplace, PinsCount, RefsUnchanged DEF Balance, RefsType, Create
<1>6. IdBy(o, 1)
  BY <1>4 DEF Create, IdBy, IdCount
<1>7. StrongBy(o, 1)
  BY <1>3 DEF Create, StrongBy, Balance
<1>8. Tallies(o, 0, 0, 1)
  BY <1>5, <1>6, <1>7 DEF Tallies
<1>9. Balance'
  BY <1>8, TallyStep DEF Ones
<1>10. /\ owner' = [owner EXCEPT ![o] = t] /\ t # NoThread
       /\ \A p \in Objects \ {o} : owner'[p] = owner[p] /\ strong'[p] = strong[p]
  BY ConstantsAssumption DEF Create, Balance
<1>11. Unborn'
  BY <1>10 DEF Unborn, BirthInv
<1>12. \A u \in Threads : \A i \in Nat :
          Creating(u, i)' => Creating(u, i) /\ stack'[u][i] = stack[u][i]
  BY <1>0, <1>1, CreatingUnder
<1>13. \A u \in Threads : \A i \in Nat : Creating(u, i)' => stack[u][i].obj # o
  <2> SUFFICES ASSUME NEW u \in Threads, NEW i \in Nat, Creating(u, i)', stack[u][i].obj = o
               PROVE  FALSE
    OBVIOUS
  <2>1. u = t /\ i = Len(stack[t])
    BY <1>1, <1>2, <1>12 DEF BirthInv, CreateInv, TopFrame
  <2> QED
    BY <1>0, <1>1, <1>2, <2>1 DEF Replaces, Creating
<1>14. \A u \in Threads : \A i \in Nat : Creating(u, i) => stack[u][i].obj \in Objects
  BY DEF Stacks, Creating, Frames, OwnerOps
<1>15. CreateInv'
  BY <1>10, <1>12, <1>13, <1>14 DEF CreateInv, BirthInv, Created
<1> QED
  BY <1>9, <1>11, <1>15 DEF BirthInv

LEMMA StepBalances ==
    ASSUME Base, Balance, Next
    PROVE  Balanced \/ \E t \in Threads, o \in Objects : Create(t, o)
<1>1. ASSUME NEW t \in Threads, NEW o \in Objects, RunFinalizer(t, o) PROVE Balanced
  BY <1>1, ThreadBalance
<1>2. ASSUME NEW t \in Threads, TakeGil(t) \/ YieldGil(t) \/ FinalizerEnds(t) PROVE Balanced
  BY <1>2, ThreadBalance
<1>3. ASSUME NEW t \in Threads, ObjectStep(t) PROVE Balanced
  <2>1. identity' = identity
    BY <1>3 DEF ObjectStep, Outside, ownVars
  <2>2. ASSUME NEW o \in Objects,
               \/ Release(t, o) \/ GetWeakReference(t, o) \/ Resolve(t, o) \/ Dispatch(t, o)
               \/ \E u \in Threads : AddRef(t, u, o)
               \/ Resolved(t, o) \/ NoInterface(t, o) \/ Accept(t, o) \/ Unpin(t, o)
               \/ TakeCallback(t, o)
        PROVE  Balanced
    BY <2>1, <2>2, HostBalance
  <2>3. CASE DropClone(t) \/ DropCallback(t)
    <3>1. ASSUME DropClone(t) PROVE Balanced
      BY <2>1, <3>1, DropCloneStack, TurnPins, Even DEF DropClone, hostVars, Base
    <3>2. ASSUME DropCallback(t) PROVE Balanced
      BY <2>1, <3>2, DropCallbackStack, PinsUnderPop, Even
         DEF DropCallback, hostVars, Base, Topped, PinningFrame
    <3> QED
      BY <2>3, <3>1, <3>2
  <2> QED
    BY <1>3, <2>2, <2>3 DEF ObjectStep, NativeStep, Running
<1>4. ASSUME NEW t \in Threads, OwnerStep(t), ~\E o \in Objects : Create(t, o) PROVE Balanced
  BY <1>4, ThreadBalance, OwnerBalance DEF OwnerStep, Ends
<1>5. ASSUME NEW t \in Threads, InvokeStep(t) PROVE Balanced
  BY <1>5, InvokeBalance
<1>6. ASSUME NEW t \in Threads, ShutdownStep(t) PROVE Balanced
  BY <1>6, ThreadBalance
<1> QED
  BY <1>1, <1>2, <1>3, <1>4, <1>5, <1>6 DEF Next

LEMMA BirthKept ==
    ASSUME Base, Balance, BirthInv, owner' = owner, Balanced, Next
    PROVE  Balance' /\ BirthInv'
<1>1. Balance' /\ \A p \in Objects : strong[p] = 0 => strong'[p] = 0
  BY BalanceStep
<1>2. Unborn'
  BY <1>1 DEF BirthInv, Unborn
<1>3. PICK t \in Threads, O \in SUBSET Objects : Step(t, O)
  BY StepTaken DEF Base
<1>4. CreateInv'
  BY <1>3, CreateInvStep DEF Step, Base, BirthInv
<1> QED
  BY <1>1, <1>2, <1>4 DEF BirthInv

BalanceInv == Balance /\ BirthInv /\ owner \in [Objects -> Threads \cup {NoThread}]

LEMMA BalanceInit == Init => BalanceInv
<1> SUFFICES ASSUME Init PROVE BalanceInv
  OBVIOUS
<1>1. \A t \in Threads : stack[t] = <<>>
  BY DEF Init, InitObject
<1>2. BirthInv
  BY <1>1 DEF Init, InitObject, BirthInv, CreateInv, Unborn, Creating
<1>3. RefsType /\ strong \in [Objects -> Nat]
  BY ConstantsAssumption DEF Init, InitObject, RefsType
<1>4. ASSUME NEW o \in Objects PROVE Refs(o) = {} /\ Pins(o) = {}
  <2>1. Refs(o) = {}
    BY <1>4, ConstantsAssumption DEF Init, InitObject, Refs
  <2>2. Pins(o) = {}
    BY <1>1, CallParts DEF Pins, PinsAt
  <2> QED
    BY <2>1, <2>2
<1>5. ASSUME NEW o \in Objects
      PROVE  strong[o] = IdCount(o) + Cardinality(Refs(o)) + Cardinality(Pins(o))
  <2>1. strong[o] = 0 /\ IdCount(o) = 0
    BY DEF IdCount, Init, InitObject
  <2>2. Cardinality({}) = 0
    BY FS_EmptySet
  <2> QED
    BY <1>4, <2>1, <2>2
<1>6. Balance
  BY <1>3, <1>5 DEF Balance
<1> QED
  BY <1>2, <1>6 DEF BalanceInv, Init, InitObject

LEMMA BalanceStutter == BalanceInv /\ UNCHANGED vars => BalanceInv'
<1> SUFFICES ASSUME BalanceInv, UNCHANGED vars PROVE BalanceInv'
  OBVIOUS
<1>1. UNCHANGED <<strong, refs, owner, stack, identity>>
  BY DEF vars, objectVars, hostVars, ownVars
<1>2. \A o : Refs(o)' = Refs(o) /\ Pins(o)' = Pins(o) /\ IdCount(o)' = IdCount(o)
  BY <1>1 DEF Refs, Pins, PinsAt, IdCount
<1>3. Balance'
  BY <1>1, <1>2 DEF BalanceInv, Balance, RefsType
<1>4. BirthInv'
  BY <1>1 DEF BalanceInv, BirthInv, CreateInv, Unborn, Creating, Created
<1> QED
  BY <1>1, <1>3, <1>4 DEF BalanceInv

(* The COM count is exact, an object is created by one call, and none has a  *)
(* count before it is created (identity.rs:26-46, mod.rs:145-159).           *)
THEOREM BalanceHolds == Spec => []BalanceInv
<1>1. Base /\ BalanceInv /\ Next => BalanceInv'
  <2> SUFFICES ASSUME Base, BalanceInv, Next PROVE BalanceInv'
    OBVIOUS
  <2>1. CASE \E t \in Threads, o \in Objects : Create(t, o)
    <3>1. PICK t \in Threads, o \in Objects : Create(t, o)
      BY <2>1
    <3>2. Balance' /\ BirthInv'
      BY <3>1, CreateBirth DEF BalanceInv
    <3>3. owner' \in [Objects -> Threads \cup {NoThread}]
      BY <3>1 DEF Create, BalanceInv
    <3> QED
      BY <3>2, <3>3 DEF BalanceInv
  <2>2. CASE ~\E t \in Threads, o \in Objects : Create(t, o)
    <3>1. owner' = owner
      BY <2>2, OwnerKept
    <3>2. Balanced
      BY <2>2, StepBalances DEF BalanceInv
    <3> QED
      BY <3>1, <3>2, BirthKept DEF BalanceInv
  <2> QED
    BY <2>1, <2>2
<1> QED
  BY <1>1, BaseHolds, BalanceInit, BalanceStutter, PTL DEF Spec

(* The count of a Host is the number of its users: the owner, native code,   *)
(* and the calls and resolutions that pin it, for any number of objects and  *)
(* threads (identity.rs:26-46, 184-200, mod.rs:474-504).                     *)
THEOREM ReferencesBalanceHolds == Spec => []ReferencesBalance
<1>1. BalanceInv => ReferencesBalance
  BY PinsAreCalls DEF BalanceInv, Balance, ReferencesBalance, Refs, IdCount
<1> QED
  BY <1>1, BalanceHolds, PTL

-----------------------------------------------------------------------------
(* What the collector found.  From the flag to the disconnection the owner   *)
(* is leased, so its reference stays; with it alone a count of one has no    *)
(* room for another user, and nobody makes one but by a weak reference       *)

Looking(f) == f.op = "clear" /\ f.pc \in {"count", "disconnect"}
Sole(f) == /\ f.obj \in identity
           /\ f.pc = "disconnect" /\ f.obj \notin weakRequested => strong[f.obj] = 1
SoleInv == \A f \in OnStack : Looking(f) => Sole(f)

LEMMA SoleOwner ==
    ASSUME Base, Balance, NEW o \in Objects, o \in identity, strong[o] = 1
    PROVE  (\A t \in Threads : refs[t][o] = 0) /\ ~InFrame(o, PinningFrame)
<1>1. /\ Cardinality(Refs(o)) \in Nat /\ Cardinality(Pins(o)) \in Nat
      /\ IsFiniteSet(Refs(o)) /\ IsFiniteSet(Pins(o))
  BY UsersFinite
<1>2. Cardinality(Refs(o)) = 0 /\ Cardinality(Pins(o)) = 0
  BY <1>1 DEF Balance, IdCount
<1>3. Refs(o) = {} /\ Pins(o) = {}
  BY <1>1, <1>2, FS_EmptySet
<1>4. ASSUME NEW t \in Threads, refs[t][o] # 0 PROVE FALSE
  <2>1. refs[t][o] \in 1..MaxRefs
    BY <1>4, ConstantsAssumption DEF Balance, RefsType
  <2>2. <<t, refs[t][o]>> \in Refs(o)
    BY <2>1 DEF Refs
  <2> QED
    BY <1>3, <2>2
<1>5. ASSUME NEW t \in Threads, NEW i \in DOMAIN stack[t],
             stack[t][i].obj = o, PinningFrame(stack[t][i])
      PROVE  FALSE
  <2>1. i \in 1..Len(stack[t])
    BY DEF Base, Stacks
  <2>2. i \in 1..MaxDepth /\ i <= Len(stack[t])
    BY <1>5, <2>1, ConstantsAssumption DEF Base, Stacks, Depths, PinningFrame
  <2>3. <<t, i>> \in Pins(o)
    BY <1>5, <2>2 DEF Pins, PinsAt, Calls
  <2> QED
    BY <1>3, <2>3
<1> QED
  BY <1>4, <1>5 DEF InFrame

\* The owner of o keeps its reference, and stays alone unless o has a weak reference.
Looked(o) == \E f \in OnStack : Looking(f) /\ f.obj = o
Keeps(o) == /\ o \in identity'
            /\ weakRequested \subseteq weakRequested'
            /\ strong[o] = 1 /\ o \notin weakRequested' => strong'[o] = 1

LEMMA SoleKept ==
    ASSUME SoleInv, \A o \in Objects : o \in identity /\ Looked(o) => Keeps(o),
           \A f \in OnStack' : Looking(f) => f \in OnStack
    PROVE  SoleInv'
<1> SUFFICES ASSUME NEW f, f \in OnStack', Looking(f)
             PROVE  Sole(f)'
  BY DEF SoleInv, Looking
<1>1. f \in OnStack /\ Sole(f)
  BY DEF SoleInv
<1>2. f.obj \in Objects
  BY <1>1 DEF OnStack, Frames, Looking, OwnerOps
<1>3. Keeps(f.obj)
  BY <1>1, <1>2 DEF Looked, Sole
<1> QED
  BY <1>1, <1>3 DEF Sole, Keeps

LEMMA PlainLooks ==
    ASSUME Base, NEW t \in Threads, Plain(t)
    PROVE  \A f \in OnStack' : Looking(f) => f \in OnStack
<1> SUFFICES ASSUME NEW u \in Threads, NEW i \in 1..Len(stack'[u]), Looking(stack'[u][i]),
                    stack'[u][i] \in Frames
             PROVE  i \in 1..Len(stack[u]) /\ stack'[u][i] = stack[u][i]
  BY DEF OnStack
<1>1. IsOwnerOp(stack'[u][i])
  BY DEF Looking, IsOwnerOp, OwnerOps
<1> QED
  BY <1>1 DEF Plain, Others

\* Native code that may use an object has a reference, or pins it.
LEMMA HostKeeps ==
    ASSUME Base, Balance, NEW t \in Threads, NEW p \in Objects, identity' = identity,
           \/ Release(t, p) \/ GetWeakReference(t, p) \/ Resolve(t, p) \/ Dispatch(t, p)
           \/ \E u \in Threads : AddRef(t, u, p)
           \/ Resolved(t, p) \/ NoInterface(t, p) \/ Accept(t, p) \/ Unpin(t, p)
           \/ TakeCallback(t, p) \/ DropClone(t) \/ DropCallback(t),
           NEW o \in Objects, o \in identity
    PROVE  Keeps(o)
<1>0. strong \in [Objects -> Nat]
  BY DEF Balance
<1>1. weakRequested \subseteq weakRequested'
  BY DEF Release, GetWeakReference, Resolve, Dispatch, AddRef, Resolved, NoInterface, Accept,
         Unpin, TakeCallback, DropClone, DropCallback, hostVars
<1> SUFFICES ASSUME strong[o] = 1, o \notin weakRequested' PROVE strong'[o] = 1
  BY <1>1 DEF Keeps
<1>2. (\A u \in Threads : refs[u][o] = 0) /\ ~InFrame(o, PinningFrame)
  BY SoleOwner
<1>3. ASSUME At(t, "resolve", "pinned") \/ At(t, "dispatch", "unpin"), Top(t).obj = o
      PROVE  FALSE
  <2>1. Len(stack[t]) \in DOMAIN stack[t] /\ Top(t) = stack[t][Len(stack[t])]
    BY <1>3, TopIs DEF At, Base, Stacks
  <2> QED
    BY <1>2, <1>3, <2>1 DEF InFrame, PinningFrame, At
<1>4. CASE GetWeakReference(t, p) \/ Resolved(t, p) \/ Accept(t, p) \/ TakeCallback(t, p)
           \/ DropClone(t) \/ DropCallback(t)
  BY <1>4 DEF GetWeakReference, Resolved, Accept, TakeCallback, DropClone, DropCallback, hostVars
<1>5. CASE Release(t, p) \/ Dispatch(t, p) \/ (\E u \in Threads : AddRef(t, u, p))
  BY <1>0, <1>2, <1>5 DEF Release, Dispatch, AddRef, DropStrong
<1>6. CASE Resolve(t, p)
  BY <1>0, <1>6 DEF Resolve
<1>7. CASE NoInterface(t, p) \/ Unpin(t, p)
  BY <1>0, <1>3, <1>7 DEF NoInterface, Unpin, DropStrong
<1> QED
  BY <1>4, <1>5, <1>6, <1>7

LEMMA LookedLeased ==
    ASSUME Base, NEW o, Looked(o)
    PROVE  InFrame(o, LeaseFrame) /\ InFrame(o, KeepsOwner)
<1>1. PICK u \in Threads :
        \E i \in 1..Len(stack[u]) : Looking(stack[u][i]) /\ stack[u][i].obj = o
  BY DEF Looked, OnStack
<1>2. PICK i \in 1..Len(stack[u]) : Looking(stack[u][i]) /\ stack[u][i].obj = o
  BY <1>1
<1>3. i \in DOMAIN stack[u]
  BY DEF Base, Stacks
<1> QED
  BY <1>2, <1>3 DEF InFrame, Looking, LeaseFrame, KeepsOwner, IsOwnerOp, OwnerOps

\* Python reaches an object by its owner, which is leased, or creates it.
LEMMA PythonKeeps ==
    ASSUME Base, Balance, NEW t \in Threads, NEW p \in Objects,
           \/ BeginCreate(t, p) \/ Create(t, p) \/ ToValue(t, p) \/ DropOwner(t, p)
           \/ CreateFails(t) \/ Restore(t),
           NEW o \in Objects, o \in identity, Looked(o)
    PROVE  Keeps(o)
<1>0. strong \in [Objects -> Nat] /\ InFrame(o, LeaseFrame) /\ InFrame(o, KeepsOwner)
  BY LookedLeased DEF Balance
<1>1. CASE BeginCreate(t, p) \/ CreateFails(t) \/ Restore(t)
  BY <1>1 DEF BeginCreate, CreateFails, Restore, Keeps, hostVars, ownVars
<1>2. CASE Create(t, p)
  BY <1>0, <1>2 DEF Create, Keeps
<1>3. CASE ToValue(t, p)
  BY <1>0, <1>3 DEF ToValue, Leased, Keeps, ownVars
<1>4. CASE DropOwner(t, p)
  BY <1>0, <1>4 DEF DropOwner, DropStrong, Keeps
<1> QED
  BY <1>1, <1>2, <1>3, <1>4

LEMMA OthersKeep ==
    ASSUME UNCHANGED <<strong, weakRequested, identity>>
    PROVE  \A o \in Objects : o \in identity => Keeps(o)
  BY DEF Keeps

\* The frames of a collector that goes on know what it has seen.
LEMMA LookKeeps ==
    ASSUME Base, SoleInv, NEW t \in Threads, NEW o \in Objects,
           LookAtFlag(t, o) \/ LookAtCount(t, o)
    PROVE  SoleInv'
<1>1. PICK p \in {"count", "disconnect", "restore"} :
        /\ Goto(t, p)
        /\ \/ Working(t, "flag") /\ (p = "count" => o \in identity) /\ p # "disconnect"
           \/ Working(t, "count") /\ (p = "disconnect" => strong[o] = 1) /\ p # "count"
  BY DEF LookAtFlag, LookAtCount
<1>2. PICK f : f = [Top(t) EXCEPT !.pc = p]
  OBVIOUS
<1>3. /\ OwnerTop(t) /\ ~Idle(t) /\ TopFrame(t) = Top(t) /\ Works(f, t) /\ f.pc = p
      /\ TopFrame(t).obj = o
  BY <1>1, <1>2, WorkingTop DEF Base, LookAtFlag, LookAtCount
<1>4. f \in Frames /\ f.obj = o /\ f.op = TopFrame(t).op
  BY <1>3 DEF Works
<1>5. Changes({TopFrame(t)}, {f})
  BY <1>1, <1>2, <1>3, <1>4, ReplaceShape, ReplaceChange DEF Base, Goto, Stepped
<1>6. UNCHANGED <<strong, weakRequested, identity>>
  BY DEF LookAtFlag, LookAtCount, hostVars, ownVars
<1>7. ASSUME Looking(f) PROVE Sole(f)
  <2>1. CASE p = "count"
    BY <1>1, <1>3, <1>4, <2>1 DEF Sole
  <2>2. CASE p = "disconnect"
    <3>1. Working(t, "count") /\ strong[o] = 1
      BY <1>1, <2>2
    <3>2. TopFrame(t) \in OnStack
      BY <1>3, FramesOnStack DEF Base, OwnerTop, TopFrame
    <3>3. Looking(TopFrame(t))
      BY <1>3, <1>4, <1>7, <3>1 DEF Working, Looking
    <3> QED
      BY <1>3, <1>4, <3>1, <3>2, <3>3 DEF SoleInv, Sole
  <2> QED
    BY <1>3, <1>7, <2>1, <2>2 DEF Looking
<1>8. \A g \in OnStack' : g \in OnStack \/ g = f
  BY <1>5 DEF Changes
<1> QED
  BY <1>6, <1>7, <1>8 DEF SoleInv, Looking, Sole

LEMMA OwnerOpKeeps ==
    ASSUME Base, SoleInv, NEW t \in Threads, NEW o \in Objects, NEW op \in OwnerOps,
           OwnerOp(t, o, op)
    PROVE  SoleInv'
<1>1. Changes({}, {OwnerFrame(o, op)})
  BY OwnerOpStack, PushChange DEF Base, Fresh
<1>2. ~Looking(OwnerFrame(o, op))
  BY DEF Looking, OwnerFrame, FirstPc
<1>3. \A f \in OnStack' : Looking(f) => f \in OnStack
  BY <1>1, <1>2 DEF Changes
<1>4. UNCHANGED <<strong, weakRequested, identity>>
  BY DEF OwnerOp, hostVars, ownVars
<1> QED
  BY <1>3, <1>4, SoleKept, OthersKeep

\* An operation gives up the owner's reference on its own lease only.
LEMMA EndKeeps ==
    ASSUME Base, LeaseInv, SoleInv, NEW t \in Threads, NEW o \in Objects,
           Disconnect(t, o) \/ ReleaseIdentity(t, o)
    PROVE  SoleInv'
<1>1. Disconnection(o) \in Frames /\ ~Looking(Disconnection(o))
  BY HarmlessFrames DEF Base, Looking, Disconnection, Frame
<1>2. /\ OwnerTop(t) /\ TopFrame(t).obj = o
      /\ \E f \in Frames : /\ f.pc \in {"restore", "release"}
                           /\ Replaces(t, f) \/ Grows(t, f, Disconnection(o))
  BY DisconnectStack, ReleaseIdentityStack DEF Base
<1>3. PICK f \in Frames : /\ f.pc \in {"restore", "release"}
                          /\ Replaces(t, f) \/ Grows(t, f, Disconnection(o))
  BY <1>2
<1>4. \A g \in OnStack' : g \in OnStack \/ g \in {f, Disconnection(o)}
  BY <1>1, <1>3, ReplaceChange, GrowChange DEF Base, Changes
<1>5. \A g \in OnStack' : Looking(g) => g \in OnStack
  BY <1>1, <1>3, <1>4 DEF Looking
<1>6. CASE Disconnect(t, o)
  BY <1>5, <1>6, SoleKept, OthersKeep DEF Disconnect, hostVars, ownVars
<1>7. ASSUME ReleaseIdentity(t, o), NEW p \in Objects, p \in identity, Looked(p) PROVE Keeps(p)
  <2>1. PICK u \in Threads :
          \E i \in 1..Len(stack[u]) : Looking(stack[u][i]) /\ stack[u][i].obj = p
    BY <1>7 DEF Looked, OnStack
  <2>2. PICK i \in 1..Len(stack[u]) : Looking(stack[u][i]) /\ stack[u][i].obj = p
    BY <2>1
  <2>3. IsOwnerOp(stack[u][i])
    BY <2>2 DEF Looking, IsOwnerOp, OwnerOps
  <2>4. u = t /\ i = Len(stack[t])
    BY <1>2, <2>3, BelowOwner DEF Lease, OwnerTop
  <2>5. TopFrame(t).pc = "release"
    BY <1>7, WorkingTop DEF Base, ReleaseIdentity, Working
  <2> QED
    BY <2>2, <2>4, <2>5 DEF TopFrame, Looking
<1>8. CASE ReleaseIdentity(t, o)
  BY <1>5, <1>7, <1>8, SoleKept
<1> QED
  BY <1>6, <1>8

LEMMA SoleStep ==
    ASSUME Base, LeaseInv, Balance, SoleInv, Next
    PROVE  SoleInv'
<1> USE DEF Base
<1>1. ASSUME NEW t \in Threads, NEW o \in Objects, RunFinalizer(t, o) PROVE SoleInv'
  <2>1. Plain(t)
    BY <1>1, RunFinalizerStack, NewFrames, NotOwners, PlainShapes
  <2> QED
    BY <1>1, <2>1, PlainLooks, SoleKept, OthersKeep DEF RunFinalizer, hostVars, ownVars
<1>2. ASSUME NEW t \in Threads, ObjectStep(t) PROVE SoleInv'
  <2>0. identity' = identity
    BY <1>2 DEF ObjectStep, Outside, ownVars
  <2>1. ASSUME NEW o \in Objects,
               \/ /\ PyFrame(t)
                  /\ \/ Release(t, o) \/ GetWeakReference(t, o) \/ Resolve(t, o) \/ Dispatch(t, o)
                     \/ \E u \in Threads : AddRef(t, u, o)
               \/ Resolved(t, o) \/ NoInterface(t, o) \/ Accept(t, o) \/ Unpin(t, o)
        PROVE  SoleInv'
    BY <2>0, <2>1, HostFree, HostKeeps, PlainLooks, SoleKept
  <2>2. CASE DropClone(t)
    <3>1. PICK o \in Objects : o = TopFrame(t).obj
      BY <2>2, DropCloneStack
    <3> QED
      BY <2>0, <2>2, <3>1, HostFree, HostKeeps, PlainLooks, SoleKept
  <2>3. ASSUME NEW o \in Objects, TakeCallback(t, o) PROVE SoleInv'
    <3>1. Plain(t)
      BY <2>3, TakeCallbackStack, TurnPlain, PlainShapes DEF OwnerOps
    <3> QED
      BY <2>0, <2>3, <3>1, HostKeeps, PlainLooks, SoleKept
  <2>4. CASE DropCallback(t)
    <3>1. PICK o \in Objects : o = TopFrame(t).obj
      BY <2>4, AtTop, DisconnectFrames DEF DropCallback, Topped
    <3>2. Plain(t)
      BY <2>4, DropCallbackStack, PlainShapes
    <3> QED
      BY <2>0, <2>4, <3>1, <3>2, HostKeeps, PlainLooks, SoleKept
  <2> QED
    BY <1>2, <2>1, <2>2, <2>3, <2>4 DEF ObjectStep, NativeStep, Running, InNative
<1>3. ASSUME NEW t \in Threads, OwnerStep(t) PROVE SoleInv'
  <2>1. ASSUME NEW o \in Objects,
               \/ BeginCreate(t, o) \/ Create(t, o) \/ ToValue(t, o) \/ DropOwner(t, o)
        PROVE  SoleInv'
    BY <2>1, PythonFree, PythonKeeps, PlainLooks, SoleKept
  <2>2. CASE CreateFails(t) \/ Restore(t) \/ Ends(t)
    <3>1. Plain(t)
      BY <2>2, CreateFailsStack, RestoreStack, CreateEndsStack, ToValueEndsStack, PlainShapes
         DEF Ends
    <3> QED
      BY <2>2, <3>1, PlainLooks, SoleKept, OthersKeep
         DEF CreateFails, Restore, Ends, CreateEnds, ToValueEnds, hostVars, ownVars
  <2>3. ASSUME NEW o \in Objects, NEW op \in OwnerOps, OwnerOp(t, o, op) PROVE SoleInv'
    BY <2>3, OwnerOpKeeps
  <2>4. ASSUME NEW o \in Objects,
               LookAtFlag(t, o) \/ LookAtCount(t, o) \/ Disconnect(t, o) \/ ReleaseIdentity(t, o)
        PROVE  SoleInv'
    BY <2>4, LookKeeps, EndKeeps
  <2> QED
    BY <1>3, <2>1, <2>2, <2>3, <2>4 DEF OwnerStep, Ends
<1>4. ASSUME NEW t \in Threads, InvokeStep(t) PROVE SoleInv'
  <2>1. UNCHANGED <<strong, weakRequested, identity>>
    BY <1>4 DEF InvokeStep, Closed, Knock, TakePermit, NoPermit, CannotEnter, Enter, Answer,
                Detach, LeaveGate, Elsewhere, hostVars, ownVars
  <2> QED
    BY <1>4, <2>1, InvokeFree, PlainLooks, SoleKept, OthersKeep
<1>5. ASSUME NEW t \in Threads,
             TakeGil(t) \/ YieldGil(t) \/ FinalizerEnds(t) \/ ShutdownStep(t)
      PROVE  SoleInv'
  <2>1. UNCHANGED <<strong, weakRequested, identity>>
    BY <1>5 DEF TakeGil, YieldGil, FinalizerEnds, ShutdownStep, ShutdownCallbacks, AtExitRuntime,
                AtExitGate, StopRuntime, ClearCell, ShutdownEnds, objectVars, hostVars, ownVars
  <2>2. Plain(t)
    BY <1>5, PythonFree, ThreadFree DEF ShutdownStep
  <2> QED
    BY <2>1, <2>2, PlainLooks, SoleKept, OthersKeep
<1> QED
  BY <1>1, <1>2, <1>3, <1>4, <1>5 DEF Next

LEMMA SoleStutter == SoleInv /\ UNCHANGED vars => SoleInv'
  BY DEF vars, objectVars, hostVars, ownVars, SoleInv, OnStack, Looking, Sole

(* A collector about to disconnect an object whose weak reference nobody    *)
(* asked for holds the only reference, and no call is in the object: the    *)
(* hint is wrong about objects with a weak reference, and no others         *)
(* (mod.rs:200-207).                                                        *)
THEOREM SoleHolds == Spec => []SoleUnlessWeak
<1>1. Init => SoleInv
  BY DEF Init, InitObject, SoleInv, OnStack
<1>2. Spec => []SoleInv
  BY <1>1, SoleStep, SoleStutter, BaseHolds, LeaseHolds, BalanceHolds, PTL DEF Spec, BalanceInv
<1>3. Base /\ BalanceInv /\ SoleInv => SoleUnlessWeak
  <2> SUFFICES ASSUME Base, Balance, SoleInv, NEW t \in Threads, NEW o \in Objects,
                      At(t, "clear", "disconnect"), Top(t).obj = o, o \notin weakRequested
               PROVE  (\A u \in Threads : refs[u][o] = 0) /\ ~InFrame(o, PinningFrame)
    BY DEF SoleUnlessWeak, BalanceInv
  <2>1. TopFrame(t) = Top(t) /\ TopFrame(t) \in OnStack /\ Looking(TopFrame(t))
    BY TopIs, AtTop, FramesOnStack DEF Base, At, TopFrame, Topped, Looking
  <2>2. o \in identity /\ strong[o] = 1
    BY <2>1 DEF SoleInv, Sole, At
  <2> QED
    BY <2>2, SoleOwner
<1> QED
  BY <1>2, <1>3, BaseHolds, BalanceHolds, PTL

-----------------------------------------------------------------------------
(* The type invariant: what is left of it *)

Types == /\ weakRequested \subseteq Objects /\ slot \subseteq Objects
         /\ gil \in Threads \cup {NoThread}
         /\ wrapper \subseteq Objects /\ identity \subseteq wrapper
         /\ stopping \in BOOLEAN
FinalType == final \in [Objects -> {"no", "pool", "due", "done"}]

LEMMA TypesStep == Types /\ Next => Types'
<1> SUFFICES ASSUME Types, Next PROVE Types'
  OBVIOUS
<1> USE DEF Types
<1>1. ASSUME NEW t \in Threads, NEW o \in Objects, RunFinalizer(t, o) PROVE Types'
  BY <1>1 DEF RunFinalizer, hostVars, ownVars, interpVars
<1>2. ASSUME NEW t \in Threads, TakeGil(t) \/ YieldGil(t) \/ FinalizerEnds(t) PROVE Types'
  BY <1>2 DEF TakeGil, YieldGil, FinalizerEnds, objectVars, hostVars, ownVars, interpVars
<1>3. ASSUME NEW t \in Threads, ObjectStep(t) PROVE Types'
  <2>1. Outside
    BY <1>3 DEF ObjectStep
  <2>2. weakRequested' \subseteq Objects /\ slot' \subseteq Objects
    BY <1>3 DEF ObjectStep, NativeStep, Running, Release, GetWeakReference, Resolve, Dispatch,
           AddRef, Resolved, NoInterface, Accept, Unpin, TakeCallback, DropClone, DropCallback,
           hostVars
  <2> QED
    BY <2>1, <2>2 DEF Outside, ownVars, interpVars
<1>4. ASSUME NEW t \in Threads, OwnerStep(t) PROVE Types'
  <2>1. ASSUME NEW o \in Objects, BeginCreate(t, o) PROVE Types'
    BY <2>1 DEF BeginCreate, hostVars, ownVars, interpVars
  <2>2. ASSUME NEW o \in Objects, Create(t, o) PROVE Types'
    BY <2>2 DEF Create, InPython
  <2>3. ASSUME NEW o \in Objects, NEW op \in OwnerOps, OwnerOp(t, o, op) PROVE Types'
    BY <2>3 DEF OwnerOp, hostVars, ownVars, interpVars
  <2>4. ASSUME NEW o \in Objects, LookAtFlag(t, o) \/ LookAtCount(t, o) \/ Disconnect(t, o)
        PROVE  Types'
    BY <2>4 DEF LookAtFlag, LookAtCount, Disconnect, hostVars, ownVars, interpVars
  <2>5. ASSUME NEW o \in Objects, ReleaseIdentity(t, o) \/ ToValue(t, o) \/ DropOwner(t, o)
        PROVE  Types'
    BY <2>5 DEF ReleaseIdentity, ToValue, DropOwner, ownVars, interpVars
  <2>6. CASE CreateFails(t) \/ Restore(t) \/ Ends(t)
    BY <2>6 DEF CreateFails, Restore, Ends, CreateEnds, ToValueEnds, hostVars, ownVars, interpVars
  <2> QED
    BY <1>4, <2>1, <2>2, <2>3, <2>4, <2>5, <2>6 DEF OwnerStep, Ends
<1>5. ASSUME NEW t \in Threads, InvokeStep(t) PROVE Types'
  <2>1. Elsewhere /\ gil' \in {gil, t, NoThread}
    BY <1>5 DEF InvokeStep, Closed, Knock, TakePermit, NoPermit, CannotEnter, Enter, Answer,
           Detach, LeaveGate
  <2> QED
    BY <2>1 DEF Elsewhere, hostVars, ownVars, interpVars
<1>6. ASSUME NEW t \in Threads, ShutdownStep(t) PROVE Types'
  BY <1>6 DEF ShutdownStep, ShutdownCallbacks, AtExitRuntime, AtExitGate, StopRuntime,
         ClearCell, ShutdownEnds, objectVars, hostVars, ownVars, interpVars
<1> QED
  BY <1>1, <1>2, <1>3, <1>4, <1>5, <1>6 DEF Next

LEMMA FinalStep == FinalType /\ Next => FinalType'
  BY DEF FinalType, Next, Finalizers, RunFinalizer

(* Every variable keeps its type: no count goes below zero, an owner that is *)
(* gone has no native reference, and no stack outgrows its bound.            *)
THEOREM TypeOKHolds == Spec => []TypeOK
<1>1. Init => Types /\ FinalType
  BY DEF Init, InitObject, Types, FinalType
<1>2. Types /\ FinalType /\ [Next]_vars => Types' /\ FinalType'
  <2>1. UNCHANGED vars /\ Types /\ FinalType => Types' /\ FinalType'
    BY DEF vars, Types, FinalType, objectVars, hostVars, ownVars, interpVars
  <2> QED
    BY <2>1, TypesStep, FinalStep
<1>3. Base /\ DisarmInv /\ BalanceInv /\ Types /\ FinalType /\ Gate!TypeOK => TypeOK
  <2>1. RefsType => refs \in [Threads -> [Objects -> Nat]]
    BY ConstantsAssumption DEF RefsType
  <2> QED
    BY <2>1 DEF Base, Stacks, Depths, DisarmInv, BalanceInv, Balance, Types, FinalType, TypeOK
<1> QED
  BY <1>1, <1>2, <1>3, BaseHolds, DisarmHolds, BalanceHolds, GateTyped, PTL DEF Spec

-----------------------------------------------------------------------------
(* The refinement of ImplementedObject.  The abstract object sees three       *)
(* things: its status, how many calls it accepted and how many of them run    *)
(* the handler, and whether the handler is kept.  Most steps change at most   *)
(* the last, and give up at most one handler: they are calm.  A step is shown *)
(* to be calm from the shape of what it does to its thread's stack, and the   *)
(* few that are not calm are taken one by one.                                *)

(* The object as its users see it.  First the places of the calls whose     *)
(* frames are of a kind S, and how many they are                            *)

MarkedAt(c, o, S) == /\ c[2] <= Len(stack[c[1]])
                     /\ stack[c[1]][c[2]].obj = o /\ stack[c[1]][c[2]] \in S
Marked(o, S) == {c \in Calls : MarkedAt(c, o, S)}
Number(o, S) == Cardinality(Marked(o, S))
NumberSame(S) == \A p \in Objects : Number(p, S)' = Number(p, S)
NumberBy(S, o, d) == \A p \in Objects :
    Number(p, S)' = Number(p, S) + (IF p = o THEN d ELSE 0)

AcceptedFrames == {f \in Frames : AcceptedFrame(f)}
HandlerFrames == {f \in Frames : HandlerFrame(f)}

LEMMA MarkedFinite ==
    ASSUME NEW o, NEW S
    PROVE  IsFiniteSet(Marked(o, S)) /\ Number(o, S) \in Nat
<1>1. Marked(o, S) \subseteq Calls
  BY DEF Marked
<1> QED
  BY <1>1, CallsFinite, FS_Subset, FS_CardinalityType DEF Number

LEMMA NumberUnderSame == ASSUME NEW S, Same PROVE NumberSame(S)
  BY DEF Same, NumberSame, Number, Marked, MarkedAt

LEMMA NumberMoves ==
    ASSUME NEW S, NEW o, NEW d, Number(o, S)' = Number(o, S) + d,
           \A p : p # o => Number(p, S)' = Number(p, S)
    PROVE  NumberBy(S, o, d)
<1>1. \A p : Number(p, S) \in Nat
  BY MarkedFinite
<1> QED
  BY <1>1 DEF NumberBy

\* Only the place that a step pushes, replaces or pops may change its mark.
LEMMA MarksElsewhere ==
    ASSUME Stacks, NEW t \in Threads, NEW S, NEW d,
           \/ \E f \in Frames : Pushes(t, f) /\ d = Len(stack[t]) + 1
           \/ \E f \in Frames : Replaces(t, f) /\ d = Len(stack[t])
           \/ Pops(t) /\ d = Len(stack[t])
    PROVE  \A p : \A c \in Calls : c # <<t, d>> => (MarkedAt(c, p, S)' <=> MarkedAt(c, p, S))
<1> SUFFICES ASSUME NEW p, NEW c \in Calls, c # <<t, d>>
             PROVE  MarkedAt(c, p, S)' <=> MarkedAt(c, p, S)
  OBVIOUS
<1>1. Len(stack[t]) \in Nat /\ stack'[t] \in Seq(Frames)
  BY DEF Stacks, Pushes, Replaces, Pops
<1>2. CASE c[1] # t
  BY <1>2, CallParts DEF Pushes, Replaces, Pops, Others, MarkedAt
<1>3. CASE c[1] = t
  <2>1. c[2] # d /\ c[2] \in Nat \ {0}
    BY <1>3, CallParts
  <2>2. CASE \E f \in Frames : Pushes(t, f) /\ d = Len(stack[t]) + 1
    BY <1>1, <1>3, <2>1, <2>2 DEF Pushes, MarkedAt
  <2>3. CASE \E f \in Frames : Replaces(t, f) /\ d = Len(stack[t])
    BY <1>1, <1>3, <2>1, <2>3 DEF Replaces, MarkedAt
  <2>4. CASE Pops(t) /\ d = Len(stack[t])
    BY <1>1, <1>3, <2>1, <2>4 DEF Pops, MarkedAt
  <2> QED
    BY <2>2, <2>3, <2>4
<1> QED
  BY <1>2, <1>3

LEMMA NumberUnderPush ==
    ASSUME Stacks, NEW t \in Threads, NEW f \in Frames, NEW S, Pushes(t, f), f \notin S
    PROVE  NumberSame(S)
<1>0. PICK d : d = <<t, Len(stack[t]) + 1>>
  OBVIOUS
<1>1. \A p : \A c \in Calls : c # d => (MarkedAt(c, p, S)' <=> MarkedAt(c, p, S))
  BY <1>0, MarksElsewhere
<1>2. Len(stack[t]) \in Nat
  BY DEF Stacks
<1>3. \A p : ~MarkedAt(d, p, S) /\ ~MarkedAt(d, p, S)'
  BY <1>0, <1>2 DEF Pushes, MarkedAt
<1>4. \A p : Marked(p, S)' = Marked(p, S)
  BY <1>1, <1>3 DEF Marked
<1> QED
  BY <1>4 DEF NumberSame, Number

LEMMA NumberUnderPop ==
    ASSUME Stacks, NEW t \in Threads, NEW S, Pops(t), TopFrame(t) \notin S
    PROVE  NumberSame(S)
<1>0. PICK d : d = <<t, Len(stack[t])>>
  OBVIOUS
<1>1. \A p : \A c \in Calls : c # d => (MarkedAt(c, p, S)' <=> MarkedAt(c, p, S))
  BY <1>0, MarksElsewhere
<1>2. Len(stack[t]) \in Nat \ {0}
  BY DEF Stacks, Pops
<1>3. \A p : ~MarkedAt(d, p, S) /\ ~MarkedAt(d, p, S)'
  BY <1>0, <1>2 DEF Pops, MarkedAt, TopFrame
<1>4. \A p : Marked(p, S)' = Marked(p, S)
  BY <1>1, <1>3 DEF Marked
<1> QED
  BY <1>4 DEF NumberSame, Number

LEMMA NumberUnderReplace ==
    ASSUME Stacks, NEW t \in Threads, NEW f \in Frames, NEW S, Replaces(t, f),
           f.obj = TopFrame(t).obj
    PROVE  /\ (f \in S <=> TopFrame(t) \in S) => NumberSame(S)
           /\ f \in S /\ TopFrame(t) \notin S /\ Len(stack[t]) <= MaxDepth
                => NumberBy(S, f.obj, 1)
           /\ f \notin S /\ TopFrame(t) \in S /\ Len(stack[t]) <= MaxDepth
                => NumberBy(S, f.obj, 0 - 1)
<1>0. PICK d : d = <<t, Len(stack[t])>>
  OBVIOUS
<1>1. \A p : \A c \in Calls : c # d => (MarkedAt(c, p, S)' <=> MarkedAt(c, p, S))
  BY <1>0, MarksElsewhere
<1>2. Len(stack[t]) \in Nat \ {0}
  BY DEF Stacks, Replaces
<1>3. \A p : /\ MarkedAt(d, p, S) <=> f.obj = p /\ TopFrame(t) \in S
             /\ MarkedAt(d, p, S)' <=> f.obj = p /\ f \in S
  BY <1>0, <1>2 DEF Replaces, MarkedAt, TopFrame
<1>4. \A p : p # f.obj \/ (f \in S <=> TopFrame(t) \in S) => Number(p, S)' = Number(p, S)
  BY <1>1, <1>3 DEF Marked, Number
<1>5. IsFiniteSet(Marked(f.obj, S))
  BY MarkedFinite
<1>6. ASSUME Len(stack[t]) <= MaxDepth PROVE d \in Calls
  BY <1>0, <1>2, <1>6, ConstantsAssumption DEF Calls
<1>7. ASSUME f \in S, TopFrame(t) \notin S, Len(stack[t]) <= MaxDepth
      PROVE  NumberBy(S, f.obj, 1)
  <2>1. d \notin Marked(f.obj, S) /\ Marked(f.obj, S)' = Marked(f.obj, S) \cup {d}
    BY <1>1, <1>3, <1>6, <1>7 DEF Marked
  <2>2. Number(f.obj, S)' = Number(f.obj, S) + 1
    BY <1>5, <2>1, FS_AddElement DEF Number
  <2>3. \A p : p # f.obj => Number(p, S)' = Number(p, S)
    BY <1>4
  <2> QED
    BY <2>2, <2>3, NumberMoves
<1>8. ASSUME f \notin S, TopFrame(t) \in S, Len(stack[t]) <= MaxDepth
      PROVE  NumberBy(S, f.obj, 0 - 1)
  <2>1. d \in Marked(f.obj, S) /\ Marked(f.obj, S)' = Marked(f.obj, S) \ {d}
    BY <1>1, <1>3, <1>6, <1>8 DEF Marked
  <2>2. Number(f.obj, S)' = Number(f.obj, S) + (0 - 1)
    <3>1. Number(f.obj, S) \in Nat /\ Number(f.obj, S)' = Number(f.obj, S) - 1
      BY <1>5, <2>1, FS_RemoveElement, FS_CardinalityType DEF Number
    <3> QED
      BY <3>1
  <2>3. \A p : p # f.obj => Number(p, S)' = Number(p, S)
    BY <1>4
  <2> QED
    BY <2>2, <2>3, NumberMoves
<1> QED
  BY <1>4, <1>7, <1>8 DEF NumberSame

LEMMA NumberUnderGrow ==
    ASSUME Stacks, NEW t \in Threads, NEW f \in Frames, NEW g \in Frames, NEW S,
           Grows(t, f, g), f \notin S, g \notin S, TopFrame(t) \notin S
    PROVE  NumberSame(S)
<1>1. Len(stack[t]) \in Nat \ {0}
  BY DEF Stacks, Grows
<1>2. ASSUME NEW p, NEW c \in Calls PROVE MarkedAt(c, p, S)' <=> MarkedAt(c, p, S)
  <2>1. CASE c[1] # t
    BY <2>1, CallParts DEF Grows, Others, MarkedAt
  <2>2. CASE c[1] = t
    <3>1. c[2] \in Nat \ {0} /\ Len(stack'[t]) = Len(stack[t]) + 1
      BY CallParts DEF Grows
    <3>2. CASE c[2] < Len(stack[t])
      BY <1>1, <2>2, <3>1, <3>2 DEF Grows, MarkedAt
    <3>3. CASE c[2] = Len(stack[t]) \/ c[2] = Len(stack[t]) + 1
      BY <1>1, <2>2, <3>1, <3>3 DEF Grows, MarkedAt, TopFrame
    <3>4. CASE c[2] > Len(stack[t]) + 1
      BY <1>1, <2>2, <3>1, <3>4 DEF MarkedAt
    <3> QED
      BY <1>1, <3>1, <3>2, <3>3, <3>4
  <2> QED
    BY <2>1, <2>2
<1>3. \A p : Marked(p, S)' = Marked(p, S)
  BY <1>2 DEF Marked
<1> QED
  BY <1>3 DEF NumberSame, Number

-----------------------------------------------------------------------------
(* A step of a calm kind changes no number, and of the handlers that are    *)
(* kept it may give up only that of the object o                            *)

HeldKept(o) == /\ \A p \in Objects : p # o => (Held(p)' <=> Held(p))
               /\ o \in Objects /\ Held(o)' => Held(o)
Clears(f) == f.op = "shutdown" /\ f.pc = "clear"
NoClears == \A f \in OnStack' : Clears(f) => f \in OnStack
Calm(o) == /\ HeldKept(o) /\ NoClears
           /\ NumberSame(AcceptedFrames) /\ NumberSame(HandlerFrames)
Fixed == slot' = slot /\ cell' = cell

LEMMA HeldElsewhere ==
    ASSUME Stacks, Stacks', NEW gone, NEW new, Changes(gone, new), NEW o,
           \A f \in gone \cup new : f.obj = o,
           \A p \in Objects : p # o => (p \in slot' <=> p \in slot) /\ cell'[p] = cell[p]
    PROVE  \A p \in Objects : p # o => (Held(p)' <=> Held(p))
<1> SUFFICES ASSUME NEW p \in Objects, p # o PROVE Held(p)' <=> Held(p)
  OBVIOUS
<1>1. \A f : f.obj = p => (f \in OnStack' <=> f \in OnStack)
  BY DEF Changes
<1>2. CellAlive(p)' <=> CellAlive(p)
  BY <1>1, AliveIs, AliveIsNext
<1> QED
  BY <1>1, <1>2, HeldIs, HeldIsNext

LEMMA HeldMove ==
    ASSUME Stacks, Stacks', NEW gone, NEW new, Changes(gone, new), NEW o,
           \A f \in gone \cup new : f.obj = o,
           o \in Objects => \A f \in new : HeldFrame(f) => Held(o),
           \A p : CellAlive(p)' => CellAlive(p),
           \A p \in Objects : p # o => (p \in slot' <=> p \in slot) /\ cell'[p] = cell[p],
           o \in Objects /\ cell'[o] = "full" => cell[o] = "full"
    PROVE  HeldKept(o)
<1>1. \A p \in Objects : p # o => (Held(p)' <=> Held(p))
  BY HeldElsewhere
<1>2. ASSUME o \in Objects, Held(o)' PROVE Held(o)
  <2>1. CASE cell'[o] = "full" /\ CellAlive(o)'
    BY <1>2, <2>1, HeldIs
  <2>2. CASE \E f \in OnStack' : f.obj = o /\ HeldFrame(f)
    BY <1>2, <2>2, HeldIs DEF Changes
  <2> QED
    BY <1>2, <2>1, <2>2, HeldIsNext
<1> QED
  BY <1>1, <1>2 DEF HeldKept

LEMMA Kinds ==
    ASSUME NEW f
    PROVE  /\ HandlerFrame(f) => AcceptedFrame(f)
           /\ f.op # "create" /\ ~AcceptedFrame(f) => ~HeldFrame(f)
           /\ ~AcceptedFrame(f) => f \notin AcceptedFrames /\ f \notin HandlerFrames
           /\ f.op # "dispatch" => ~AcceptedFrame(f)
           /\ f.op # "create" => ~CreateFrame(f)
  BY DEF HandlerFrame, AcceptedFrame, Accepted, HeldFrame, CreateFrame, AcceptedFrames, HandlerFrames

\* A frame that keeps no cell alive that was not.
Tame(f) == f.op # "create" /\ (Counts(f) => CellAlive(f.obj))

LEMMA HarmlessTame == \A f : Harmless(f) => Tame(f)
  BY DEF Harmless, Tame

LEMMA CalmSame ==
    ASSUME Stacks, NEW o, Same, Fixed
    PROVE  Calm(o)
<1>1. \A p : Held(p)' <=> Held(p)
  BY DEF Same, Fixed, Held, CellAlive, CallbackAlive, InFrame
<1>2. NumberSame(AcceptedFrames) /\ NumberSame(HandlerFrames)
  BY NumberUnderSame
<1>3. NoClears
  BY DEF NoClears, Same, OnStack
<1> QED
  BY <1>1, <1>2, <1>3 DEF Calm, HeldKept

LEMMA CalmPush ==
    ASSUME Stacks, NEW t \in Threads, NEW f \in Frames, Fresh(t, f), Tame(f),
           ~AcceptedFrame(f), ~Clears(f), Fixed
    PROVE  Calm(f.obj)
<1>1. Stacks' /\ Changes({}, {f})
  BY PushChange DEF Fresh, Pushes
<1>2. \A p : CellAlive(p)' => CellAlive(p)
  BY <1>1, NoneRevived DEF Fixed, Tame
<1>3. HeldKept(f.obj)
  BY <1>1, <1>2, Kinds, HeldMove DEF Tame, Fixed
<1>4. NumberSame(AcceptedFrames) /\ NumberSame(HandlerFrames)
  BY Kinds, NumberUnderPush DEF Fresh
<1>5. NoClears
  BY <1>1 DEF NoClears, Changes
<1> QED
  BY <1>3, <1>4, <1>5 DEF Calm

LEMMA CalmPop ==
    ASSUME Stacks, NEW t \in Threads, Pops(t), ~AcceptedFrame(TopFrame(t)), Fixed
    PROVE  Calm(TopFrame(t).obj)
<1>1. Stacks' /\ Changes({TopFrame(t)}, {})
  BY PopChange DEF Pops
<1>2. \A p : CellAlive(p)' => CellAlive(p)
  BY <1>1, NoneRevived DEF Fixed
<1>3. HeldKept(TopFrame(t).obj)
  BY <1>1, <1>2, HeldMove DEF Fixed
<1>4. NumberSame(AcceptedFrames) /\ NumberSame(HandlerFrames)
  BY Kinds, NumberUnderPop
<1>5. NoClears
  BY <1>1 DEF NoClears, Changes
<1> QED
  BY <1>3, <1>4, <1>5 DEF Calm

LEMMA CalmReplace ==
    ASSUME Stacks, NEW t \in Threads, NEW f \in Frames, Replaces(t, f),
           f.obj = TopFrame(t).obj, f.op \in {TopFrame(t).op, "disconnect"},
           TopFrame(t) \in Frames, Tame(f), ~Clears(f), ~HandlerFrame(f),
           AcceptedFrame(f) <=> AcceptedFrame(TopFrame(t)), ~HandlerFrame(TopFrame(t)), Fixed
    PROVE  Calm(f.obj)
<1>1. Stacks' /\ Changes({TopFrame(t)}, {f})
  BY ReplaceChange DEF Replaces
<1>2. \A p : CellAlive(p)' => CellAlive(p)
  BY <1>1, NoneRevived DEF Fixed, Tame
<1>3. ~HeldFrame(f)
  BY DEF Tame, HeldFrame, CreateFrame
<1>4. HeldKept(f.obj)
  BY <1>1, <1>2, <1>3, HeldMove DEF Fixed
<1>5. /\ f \in AcceptedFrames <=> TopFrame(t) \in AcceptedFrames
      /\ f \in HandlerFrames <=> TopFrame(t) \in HandlerFrames
  BY DEF AcceptedFrames, HandlerFrames
<1>6. NumberSame(AcceptedFrames) /\ NumberSame(HandlerFrames)
  BY <1>5, NumberUnderReplace
<1>7. NoClears
  BY <1>1 DEF NoClears, Changes
<1> QED
  BY <1>4, <1>6, <1>7 DEF Calm

LEMMA CalmTurn ==
    ASSUME Stacks, NEW t \in Threads, NEW from, NEW pc, Topped(t, "dispatch", from), Turns(t, pc),
           from # "handler", pc # "handler", from \in Accepted <=> pc \in Accepted, Fixed
    PROVE  Calm(TopFrame(t).obj)
<1>1. PICK f \in Frames : /\ Replaces(t, f) /\ f.pc = pc
                         /\ f.op = TopFrame(t).op /\ f.obj = TopFrame(t).obj
  BY DEF Turns
<1>2. /\ f.op = "dispatch" /\ Len(stack[t]) \in Nat \ {0}
      /\ AcceptedFrame(f) <=> AcceptedFrame(TopFrame(t))
      /\ ~HandlerFrame(f) /\ ~HandlerFrame(TopFrame(t)) /\ TopFrame(t) \in Frames
  BY <1>1 DEF Topped, AcceptedFrame, HandlerFrame
<1>3. Counts(f) => Counts(TopFrame(t))
  BY <1>2 DEF Counts, TakenFrame, RootFrame, IsOwnerOp, OwnerOps
<1>4. Tame(f) /\ ~Clears(f)
  BY <1>1, <1>2, <1>3, TopAlive DEF Tame, Clears
<1> QED
  BY <1>1, <1>2, <1>4, CalmReplace

LEMMA CalmGrow ==
    ASSUME Stacks, NEW t \in Threads, NEW f \in Frames, OwnerTop(t), Works(f, t),
           Grows(t, f, Disconnection(TopFrame(t).obj)), Fixed
    PROVE  Calm(TopFrame(t).obj)
<1> DEFINE g == Disconnection(TopFrame(t).obj)
<1>1. /\ g \in Frames /\ Tame(g) /\ g.op = "disconnect" /\ g.obj = TopFrame(t).obj
      /\ ~Clears(g)
  BY HarmlessFrames, HarmlessTame DEF OwnerTop, Disconnection, Frame, Clears
<1>2. /\ Tame(f) /\ f.op = TopFrame(t).op /\ f.obj = TopFrame(t).obj
      /\ f.op # "disconnect" /\ f.op # "dispatch" /\ ~Clears(f)
  BY WorksHarmless, HarmlessTame DEF OwnerTop, Works, Clears, OwnerOps
<1>3. Stacks' /\ Changes({TopFrame(t)}, {f, g})
  BY <1>1, GrowChange DEF Grows
<1>4. \A p : CellAlive(p)' => CellAlive(p)
  BY <1>1, <1>2, <1>3, NoneRevived DEF Fixed, Tame
<1>5. ~HeldFrame(f) /\ ~HeldFrame(g)
  BY <1>1, <1>2, Kinds DEF Tame
<1>6. HeldKept(TopFrame(t).obj)
  BY <1>1, <1>2, <1>3, <1>4, <1>5, HeldMove DEF Fixed
<1>7. NumberSame(AcceptedFrames) /\ NumberSame(HandlerFrames)
  BY <1>1, <1>2, Kinds, NumberUnderGrow
<1>8. NoClears
  BY <1>1, <1>2, <1>3 DEF NoClears, Changes
<1> QED
  BY <1>6, <1>7, <1>8 DEF Calm

CalmStep == UNCHANGED <<slot, cell, owner, stopping>> /\ \E o : Calm(o)

LEMMA CalmFrames ==
    ASSUME Stacks, NEW o \in Objects
    PROVE  /\ \A f \in {Disconnection(o), Frame("resolve", o, "pinned"),
                        Frame("dispatch", o, "pinned"), Frame("finalizer", o, "python")} :
                  f \in Frames /\ Tame(f) /\ ~AcceptedFrame(f) /\ ~Clears(f) /\ f.obj = o
           /\ Disconnection(o).op = "disconnect"
<1>1. \A op, pc : op # "shutdown" /\ pc \notin Accepted
        => /\ ~AcceptedFrame(Frame(op, o, pc)) /\ ~Clears(Frame(op, o, pc))
           /\ Frame(op, o, pc).obj = o
  BY DEF AcceptedFrame, Clears, Frame
<1> QED
  BY <1>1, HarmlessFrames, HarmlessTame DEF Accepted, Disconnection

LEMMA HostCalm ==
    ASSUME Stacks, NEW t \in Threads, NEW o \in Objects, UNCHANGED <<cell, stopping>>,
           \/ Release(t, o) \/ GetWeakReference(t, o) \/ Resolve(t, o) \/ Dispatch(t, o)
           \/ \E u \in Threads : AddRef(t, u, o)
           \/ Resolved(t, o) \/ NoInterface(t, o) \/ Unpin(t, o) \/ DropCallback(t)
           \/ Accept(t, o) /\ ~(t = owner[o] /\ o \in slot)
           \/ TakeCallback(t, o) /\ o \notin slot
    PROVE  CalmStep
<1>1. Fixed /\ owner' = owner
  BY DEF Fixed, Release, GetWeakReference, Resolve, Dispatch, AddRef, Resolved, NoInterface,
         Unpin, DropCallback, Accept, TakeCallback
<1>2. \E p : Calm(p)
  <2>1. CASE Release(t, o)
    BY <1>1, <2>1, ReleaseStack, CalmFrames, CalmPush, CalmSame
  <2>2. CASE GetWeakReference(t, o) \/ \E u \in Threads : AddRef(t, u, o)
    BY <1>1, <2>2, CalmSame DEF GetWeakReference, AddRef, Same
  <2>3. CASE Resolve(t, o) \/ Dispatch(t, o)
    BY <1>1, <2>3, ResolveStack, DispatchStack, CalmFrames, CalmPush
  <2>4. CASE Resolved(t, o) \/ DropCallback(t)
    BY <1>1, <2>4, ResolvedStack, DropCallbackStack, Kinds, CalmPop DEF Topped
  <2>5. CASE NoInterface(t, o) \/ Unpin(t, o)
    <3>1. /\ TopFrame(t).obj = o /\ TopFrame(t) \in Frames /\ ~AcceptedFrame(TopFrame(t))
          /\ Replaces(t, Disconnection(o)) \/ Pops(t)
      BY <2>5, NoInterfaceStack, UnpinStack DEF Topped, AcceptedFrame, Accepted
    <3>2. CASE Replaces(t, Disconnection(o))
      <4>1. ~HandlerFrame(TopFrame(t)) /\ ~HandlerFrame(Disconnection(o))
        BY <3>1, CalmFrames, Kinds
      <4> QED
        BY <1>1, <3>1, <3>2, <4>1, CalmFrames, CalmReplace
    <3> QED
      BY <1>1, <3>1, <3>2, CalmPop
  <2>6. CASE Accept(t, o) /\ ~(t = owner[o] /\ o \in slot)
    BY <1>1, <2>6, AcceptStack, CalmTurn DEF Accepted
  <2>7. CASE TakeCallback(t, o) /\ o \notin slot
    BY <1>1, <2>7, TakeCallbackStack, Kinds, CalmPop DEF Topped
  <2> QED
    BY <2>1, <2>2, <2>3, <2>4, <2>5, <2>6, <2>7
<1> QED
  BY <1>1, <1>2 DEF CalmStep, Fixed

LEMMA OwnerCalm ==
    ASSUME Stacks, NEW t \in Threads, NEW o \in Objects,
           \/ \E op \in OwnerOps : OwnerOp(t, o, op)
           \/ LookAtFlag(t, o) \/ LookAtCount(t, o) \/ Disconnect(t, o)
           \/ ReleaseIdentity(t, o) \/ ToValue(t, o) \/ DropOwner(t, o)
           \/ CreateFails(t) \/ Restore(t) \/ Ends(t)
    PROVE  CalmStep
<1>1. Fixed /\ owner' = owner /\ stopping' = stopping
  <2>1. CASE \E op \in OwnerOps : OwnerOp(t, o, op)
    BY <2>1 DEF Fixed, OwnerOp, interpVars
  <2>2. CASE LookAtFlag(t, o) \/ LookAtCount(t, o) \/ Disconnect(t, o)
    BY <2>2 DEF Fixed, LookAtFlag, LookAtCount, Disconnect, interpVars
  <2>3. CASE ReleaseIdentity(t, o) \/ ToValue(t, o) \/ DropOwner(t, o)
    BY <2>3 DEF Fixed, ReleaseIdentity, ToValue, DropOwner, interpVars
  <2>4. CASE CreateFails(t) \/ Restore(t) \/ Ends(t)
    BY <2>4 DEF Fixed, CreateFails, Restore, Ends, CreateEnds, ToValueEnds, interpVars
  <2> QED
    BY <2>1, <2>2, <2>3, <2>4
<1>2. ASSUME NEW f \in Frames, OwnerTop(t), Works(f, t)
      PROVE  /\ Replaces(t, f) => \E p : Calm(p)
             /\ TopFrame(t).obj = o /\ Grows(t, f, Disconnection(o)) => \E p : Calm(p)
  <2>1. /\ Tame(f) /\ f.op = TopFrame(t).op /\ f.obj = TopFrame(t).obj
        /\ f.op \notin {"dispatch", "shutdown", "create"} /\ TopFrame(t) \in Frames
    BY <1>2, WorksHarmless, HarmlessTame DEF OwnerTop, Works, OwnerOps
  <2>2. /\ ~Clears(f) /\ ~AcceptedFrame(f) /\ ~AcceptedFrame(TopFrame(t))
        /\ ~HandlerFrame(f) /\ ~HandlerFrame(TopFrame(t))
    BY <2>1, Kinds DEF Clears
  <2> QED
    BY <1>1, <1>2, <2>1, <2>2, CalmReplace, CalmGrow
<1>3. \E p : Calm(p)
  <2>1. ASSUME NEW op \in OwnerOps, OwnerOp(t, o, op) PROVE \E p : Calm(p)
    <3>1. Tame(OwnerFrame(o, op)) /\ ~AcceptedFrame(OwnerFrame(o, op)) /\ ~Clears(OwnerFrame(o, op))
      BY DEF Tame, Counts, AcceptedFrame, TakenFrame, RootFrame, IsOwnerOp, OwnerOps,
             OwnerFrame, Clears
    <3> QED
      BY <1>1, <2>1, <3>1, OwnerOpStack, CalmPush
  <2>2. CASE LookAtFlag(t, o) \/ LookAtCount(t, o)
    BY <1>2, <2>2, LookStack
  <2>3. CASE Disconnect(t, o)
    BY <1>2, <2>3, DisconnectStack
  <2>4. CASE ReleaseIdentity(t, o)
    BY <1>2, <2>4, ReleaseIdentityStack
  <2>5. CASE ToValue(t, o)
    <3>1. PICK f \in Frames : f = Frame("to_value", o, "track")
      BY NewFrames
    <3>2. Tame(f) /\ ~AcceptedFrame(f) /\ ~Clears(f)
      BY <3>1 DEF Tame, Counts, AcceptedFrame, TakenFrame, RootFrame, IsOwnerOp, OwnerOps,
                  Frame, Clears
    <3> QED
      BY <1>1, <2>5, <3>1, <3>2, ToValueStack, CalmPush
  <2>6. CASE DropOwner(t, o)
    BY <1>1, <2>6, DropOwnerStack, CalmFrames, CalmPush, CalmSame
  <2>7. CASE CreateFails(t)
    BY <1>1, <2>7, CreateFailsStack, Kinds, CalmPop DEF Topped
  <2>8. CASE Restore(t)
    <3>1. ~AcceptedFrame(TopFrame(t)) /\ Pops(t)
      BY <2>8, RestoreStack, Kinds DEF OwnerTop, OwnerOps
    <3> QED
      BY <1>1, <3>1, CalmPop
  <2>9. CASE Ends(t)
    BY <1>1, <2>9, CreateEndsStack, ToValueEndsStack, Kinds, CalmPop DEF Ends, Topped
  <2> QED
    BY <2>1, <2>2, <2>3, <2>4, <2>5, <2>6, <2>7, <2>8, <2>9
<1> QED
  BY <1>1, <1>3 DEF CalmStep, Fixed

LEMMA InvokeCalm ==
    ASSUME Stacks, NEW t \in Threads, InvokeStep(t)
    PROVE  \/ CalmStep \/ Answer(t)
           \/ \E o \in Objects : Enter(t, o) /\ ~stopping /\ cell[o] = "full"
<1>1. Fixed /\ owner' = owner /\ stopping' = stopping
  <2>1. Elsewhere
    BY DEF InvokeStep, Closed, Knock, TakePermit, NoPermit, CannotEnter, Enter, Answer, Detach,
           LeaveGate
  <2> QED
    BY <2>1 DEF Elsewhere, Fixed, interpVars
<1>2. CASE Closed(t) \/ Knock(t) \/ NoPermit(t) \/ LeaveGate(t)
  BY <1>1, <1>2, InvokeStack, CalmTurn DEF Accepted, CalmStep, Fixed
<1>3. CASE TakePermit(t) \/ CannotEnter(t) \/ Detach(t)
  BY <1>1, <1>3, CalmSame DEF TakePermit, CannotEnter, Detach, Same, CalmStep, Fixed
<1>4. ASSUME NEW o \in Objects, Enter(t, o), ~(~stopping /\ cell[o] = "full")
      PROVE  CalmStep
  BY <1>1, <1>4, EnterStack, CalmTurn DEF Accepted, CalmStep, Fixed
<1> QED
  BY <1>2, <1>3, <1>4 DEF InvokeStep

LEMMA ThreadCalm ==
    ASSUME Stacks, NEW t \in Threads,
           \/ TakeGil(t) \/ YieldGil(t) \/ FinalizerEnds(t)
           \/ \E o \in Objects : RunFinalizer(t, o)
           \/ ShutdownCallbacks(t) \/ AtExitRuntime(t) \/ AtExitGate(t) \/ ShutdownEnds(t)
    PROVE  CalmStep
<1>1. Fixed /\ owner' = owner /\ stopping' = stopping
  BY DEF TakeGil, YieldGil, FinalizerEnds, RunFinalizer, ShutdownCallbacks, AtExitRuntime,
         AtExitGate, ShutdownEnds, Fixed, objectVars, interpVars
<1>2. \E p : Calm(p)
  <2>1. CASE TakeGil(t) \/ YieldGil(t) \/ AtExitGate(t)
    BY <1>1, <2>1, CalmSame DEF TakeGil, YieldGil, AtExitGate, Same, objectVars
  <2>2. CASE FinalizerEnds(t) \/ ShutdownEnds(t)
    BY <1>1, <2>2, FinalizerEndsStack, ShutdownEndsStack, Kinds, CalmPop DEF Topped
  <2>3. ASSUME NEW o \in Objects, RunFinalizer(t, o) PROVE \E p : Calm(p)
    BY <1>1, <2>3, RunFinalizerStack, CalmFrames, CalmPush, CalmSame
  <2>4. CASE ShutdownCallbacks(t) \/ AtExitRuntime(t)
    <3>1. Tame(ShutdownFrame) /\ ~AcceptedFrame(ShutdownFrame) /\ ~Clears(ShutdownFrame)
      BY StopHarmless, HarmlessTame, Kinds DEF ShutdownFrame, Clears
    <3> QED
      BY <1>1, <2>4, <3>1, ShutdownStack, NewShutdown, CalmPush
  <2> QED
    BY <2>1, <2>2, <2>3, <2>4
<1> QED
  BY <1>1, <1>2 DEF CalmStep, Fixed

-----------------------------------------------------------------------------
(* The steps that the users see                                             *)

HeldSame == \A p \in Objects : Held(p)' <=> Held(p)
NumbersSame == NumberSame(AcceptedFrames) /\ NumberSame(HandlerFrames)

LEMMA TurnChange ==
    ASSUME Stacks, NEW t \in Threads, NEW from, Topped(t, "dispatch", from),
           NEW f \in Frames, Replaces(t, f), f.op = TopFrame(t).op
    PROVE  f.op = "dispatch" /\ Stacks' /\ NoClears /\ Changes({TopFrame(t)}, {f})
<1>1. f.op = "dispatch"
  BY DEF Topped
<1>2. Changes({TopFrame(t)}, {f}) /\ Stacks'
  BY ReplaceChange DEF Replaces
<1>3. NoClears
  BY <1>1, <1>2 DEF NoClears, Changes, Clears
<1> QED
  BY <1>1, <1>2, <1>3

LEMMA TurnNumbers ==
    ASSUME Base, NEW t \in Threads, NEW from, NEW pc, Topped(t, "dispatch", from), Turns(t, pc),
           NEW o, TopFrame(t).obj = o
    PROVE  /\ (from \in Accepted <=> pc \in Accepted) => NumberSame(AcceptedFrames)
           /\ from \notin Accepted /\ pc \in Accepted => NumberBy(AcceptedFrames, o, 1)
           /\ from \in Accepted /\ pc \notin Accepted => NumberBy(AcceptedFrames, o, 0 - 1)
           /\ from # "handler" /\ pc # "handler" => NumberSame(HandlerFrames)
           /\ from # "handler" /\ pc = "handler" => NumberBy(HandlerFrames, o, 1)
           /\ from = "handler" /\ pc # "handler" => NumberBy(HandlerFrames, o, 0 - 1)
<1>1. PICK f \in Frames : /\ Replaces(t, f) /\ f.pc = pc
                         /\ f.op = TopFrame(t).op /\ f.obj = o
  BY DEF Turns
<1>2. f.op = "dispatch" /\ Len(stack[t]) <= MaxDepth /\ TopFrame(t) \in Frames
  BY <1>1, PinDepth DEF Topped
<1>3. /\ f \in AcceptedFrames <=> pc \in Accepted
      /\ TopFrame(t) \in AcceptedFrames <=> from \in Accepted
      /\ f \in HandlerFrames <=> pc = "handler"
      /\ TopFrame(t) \in HandlerFrames <=> from = "handler"
  BY <1>1, <1>2 DEF AcceptedFrames, HandlerFrames, AcceptedFrame, HandlerFrame, Topped
<1> QED
  BY <1>1, <1>2, <1>3, NumberUnderReplace DEF Base

LEMMA AcceptSeen ==
    ASSUME Base, NEW t \in Threads, NEW o \in Objects, Accept(t, o), o \in slot, t = owner[o],
           cell' = cell
    PROVE  /\ NumberBy(AcceptedFrames, o, 1) /\ NumberSame(HandlerFrames)
           /\ HeldSame /\ NoClears /\ UNCHANGED <<slot, owner>>
<1> USE DEF Base
<1>1. Topped(t, "dispatch", "pinned") /\ TopFrame(t).obj = o /\ Turns(t, "accepted")
  BY AcceptStack
<1>0. PICK f \in Frames : /\ Replaces(t, f) /\ f.pc = "accepted"
                         /\ f.op = TopFrame(t).op /\ f.obj = o
  BY <1>1 DEF Turns
<1>2. /\ f.op = "dispatch" /\ f.pc = "accepted" /\ f.obj = o
      /\ Stacks' /\ NoClears /\ Changes({TopFrame(t)}, {f})
  BY <1>0, <1>1, TurnChange
<1>3. NumberBy(AcceptedFrames, o, 1) /\ NumberSame(HandlerFrames)
  BY <1>1, TurnNumbers DEF Accepted
<1>4. slot' = slot /\ owner' = owner
  BY DEF Accept
<1>5. ~HeldFrame(f) /\ ~HeldFrame(TopFrame(t))
  BY <1>1, <1>2 DEF HeldFrame, HandlerFrame, CreateFrame, Topped
<1>6. CellAlive(o) /\ CellAlive(o)'
  BY <1>2, <1>4, AliveIs, AliveIsNext
<1>7. \A p \in Objects : p # o => (Held(p)' <=> Held(p))
  BY <1>1, <1>2, <1>4, HeldElsewhere
<1>8. Held(o)' <=> Held(o)
  <2>1. \A g : HeldFrame(g) => (g \in OnStack' <=> g \in OnStack)
    BY <1>2, <1>5 DEF Changes
  <2> QED
    BY <1>2, <1>6, <2>1, HeldIs, HeldIsNext
<1> QED
  BY <1>2, <1>3, <1>4, <1>7, <1>8 DEF HeldSame

LEMMA FinishSeen ==
    ASSUME Base, NEW t \in Threads, NEW from, NEW pc, Topped(t, "dispatch", from), Turns(t, pc),
           from \in Accepted, pc # "handler", Fixed
    PROVE  HeldKept(TopFrame(t).obj) /\ NoClears
<1>0. PICK f \in Frames : /\ Replaces(t, f) /\ f.pc = pc
                         /\ f.op = TopFrame(t).op /\ f.obj = TopFrame(t).obj
  BY DEF Turns
<1>1. /\ f.op = "dispatch" /\ f.pc = pc /\ f.obj = TopFrame(t).obj
      /\ Stacks' /\ NoClears /\ Changes({TopFrame(t)}, {f})
  BY <1>0, TurnChange DEF Base
<1>2. Step(t, {})
  BY TurnMove DEF Base, Fixed
<1>3. ~HeldFrame(f)
  BY <1>1 DEF HeldFrame, HandlerFrame, CreateFrame
<1>4. \A p : CellAlive(p)' => CellAlive(p)
  BY <1>2 DEF Step
<1> QED
  BY <1>1, <1>3, <1>4, HeldMove DEF Base, Fixed

LEMMA AnswerSeen ==
    ASSUME Base, NEW t \in Threads, Answer(t)
    PROVE  /\ NumberBy(HandlerFrames, TopFrame(t).obj, 0 - 1) /\ NumberSame(AcceptedFrames)
           /\ HeldKept(TopFrame(t).obj) /\ NoClears /\ UNCHANGED <<slot, owner, cell, stopping>>
           /\ Topped(t, "dispatch", "handler") /\ TopFrame(t).obj \in Objects
<1>1. /\ Topped(t, "dispatch", "handler") /\ Turns(t, "gate") /\ TopFrame(t).obj \in Objects
  BY InvokeStack DEF Base
<1>2. UNCHANGED <<slot, owner, cell, stopping>>
  BY DEF Answer, Elsewhere, interpVars
<1>3. HeldKept(TopFrame(t).obj) /\ NoClears
  BY <1>1, <1>2, FinishSeen DEF Accepted, Fixed
<1> QED
  BY <1>1, <1>2, <1>3, TurnNumbers DEF Accepted

LEMMA DropCloneSeen ==
    ASSUME Base, NEW t \in Threads, DropClone(t), cell' = cell
    PROVE  /\ NumberBy(AcceptedFrames, TopFrame(t).obj, 0 - 1) /\ NumberSame(HandlerFrames)
           /\ HeldKept(TopFrame(t).obj) /\ NoClears /\ UNCHANGED <<slot, owner>>
           /\ Topped(t, "dispatch", "answered") /\ TopFrame(t).obj \in Objects
<1>1. /\ Topped(t, "dispatch", "answered") /\ Turns(t, "unpin") /\ TopFrame(t).obj \in Objects
  BY DropCloneStack DEF Base
<1>2. UNCHANGED <<slot, owner>>
  BY DEF DropClone
<1>3. HeldKept(TopFrame(t).obj) /\ NoClears
  BY <1>1, <1>2, FinishSeen DEF Accepted, Fixed
<1> QED
  BY <1>1, <1>2, <1>3, TurnNumbers DEF Accepted

LEMMA EnterSeen ==
    ASSUME Base, NEW t \in Threads, NEW o \in Objects, Enter(t, o), ~stopping, cell[o] = "full"
    PROVE  /\ NumberBy(HandlerFrames, o, 1) /\ NumberSame(AcceptedFrames)
           /\ Held(o) /\ HeldSame /\ NoClears /\ UNCHANGED <<slot, owner, cell, stopping>>
           /\ Topped(t, "dispatch", "gate") /\ TopFrame(t).obj = o
<1> USE DEF Base
<1>1. Topped(t, "dispatch", "gate") /\ TopFrame(t).obj = o /\ Turns(t, "handler")
  BY EnterStack
<1>0. PICK f \in Frames : /\ Replaces(t, f) /\ f.pc = "handler"
                         /\ f.op = TopFrame(t).op /\ f.obj = o
  BY <1>1 DEF Turns
<1>2. /\ f.op = "dispatch" /\ f.pc = "handler" /\ f.obj = o
      /\ Stacks' /\ NoClears /\ Changes({TopFrame(t)}, {f})
  BY <1>0, <1>1, TurnChange
<1>3. UNCHANGED <<slot, owner, cell, stopping>>
  BY DEF Enter, Elsewhere, interpVars
<1>4. CellAlive(o)
  BY <1>1, TopAlive DEF Topped, Counts, AcceptedFrame, Accepted
<1>5. Held(o)
  BY <1>4, HeldIs
<1>6. Held(o)'
  BY <1>2, HeldIsNext DEF Changes, HeldFrame, HandlerFrame
<1>7. \A p \in Objects : p # o => (Held(p)' <=> Held(p))
  BY <1>1, <1>2, <1>3, HeldElsewhere
<1>8. NumberBy(HandlerFrames, o, 1) /\ NumberSame(AcceptedFrames)
  BY <1>1, TurnNumbers DEF Accepted
<1> QED
  BY <1>1, <1>2, <1>3, <1>5, <1>6, <1>7, <1>8 DEF HeldSame

LEMMA BeginCreateSeen ==
    ASSUME Base, NEW t \in Threads, NEW o \in Objects, BeginCreate(t, o)
    PROVE  /\ NumbersSame /\ NoClears /\ Held(o)'
           /\ \A p \in Objects : p # o => (Held(p)' <=> Held(p))
           /\ UNCHANGED <<slot, owner, cell, stopping>> /\ ~Created(o)
<1> USE DEF Base
<1> DEFINE f == Frame("create", o, "wrap")
<1>1. f \in Frames /\ Fresh(t, f) /\ f.op = "create" /\ f.obj = o
  BY NewFrames, BeginCreateStack DEF Frame
<1>2. Stacks' /\ Changes({}, {f})
  BY <1>1, PushChange DEF Fresh, Pushes
<1>3. UNCHANGED <<slot, owner, cell, stopping>> /\ ~Created(o)
  BY DEF BeginCreate, interpVars
<1>4. \A p \in Objects : p # o => (Held(p)' <=> Held(p))
  BY <1>1, <1>2, <1>3, HeldElsewhere
<1>5. Held(o)'
  BY <1>1, <1>2, HeldIsNext DEF Changes, HeldFrame, CreateFrame
<1>6. NumbersSame
  BY <1>1, Kinds, NumberUnderPush DEF NumbersSame, Fresh
<1>7. NoClears
  BY <1>1, <1>2 DEF NoClears, Changes, Clears
<1> QED
  BY <1>3, <1>4, <1>5, <1>6, <1>7

LEMMA CreateSeen ==
    ASSUME Base, NEW t \in Threads, NEW o \in Objects, Create(t, o),
           cell \in [Objects -> {"absent", "full", "cleared"}]
    PROVE  NumbersSame /\ NoClears /\ Held(o) /\ HeldSame
<1> USE DEF Base
<1>0. PICK f \in Frames : f = Frame("created", o, "track") /\ f.op = "created" /\ f.obj = o
  BY NewFrames DEF Frame
<1>1. Topped(t, "create", "wrap") /\ TopFrame(t).obj = o /\ Replaces(t, f)
  BY <1>0, CreateStack
<1>2. Stacks' /\ Changes({TopFrame(t)}, {f})
  BY <1>1, ReplaceChange DEF Replaces
<1>3. /\ slot' = slot \cup {o} /\ cell'[o] = "full"
      /\ \A p \in Objects : p # o => cell'[p] = cell[p]
  BY DEF Create
<1>4. \A p \in Objects : p # o => (Held(p)' <=> Held(p))
  BY <1>0, <1>1, <1>2, <1>3, HeldElsewhere
<1>5. Held(o)'
  BY <1>2, <1>3, AliveIsNext, HeldIsNext
<1>6. Held(o)
  <2>1. TopFrame(t) \in OnStack /\ HeldFrame(TopFrame(t))
    BY <1>1, FramesOnStack DEF Topped, TopFrame, HeldFrame, CreateFrame
  <2> QED
    BY <1>1, <2>1, HeldIs
<1>7. NumbersSame
  BY <1>0, <1>1, Kinds, NumberUnderReplace DEF NumbersSame, Topped
<1>8. NoClears
  BY <1>0, <1>2 DEF NoClears, Changes, Clears
<1> QED
  BY <1>4, <1>5, <1>6, <1>7, <1>8 DEF HeldSame

LEMMA TakeCallbackSeen ==
    ASSUME Base, NEW t \in Threads, NEW o \in Objects, TakeCallback(t, o), o \in slot, cell' = cell
    PROVE  NumbersSame /\ NoClears /\ HeldSame /\ owner' = owner /\ slot' = slot \ {o}
<1> USE DEF Base
<1>1. Topped(t, "disconnect", "take") /\ TopFrame(t).obj = o /\ Turns(t, "drop")
  BY TakeCallbackStack
<1>2. PICK f \in Frames : Replaces(t, f) /\ f.pc = "drop" /\ f.op = "disconnect" /\ f.obj = o
  BY <1>1 DEF Turns, Topped
<1>3. Changes({TopFrame(t)}, {f}) /\ Stacks'
  BY <1>2, ReplaceChange DEF Replaces
<1>4. slot' = slot \ {o} /\ owner' = owner
  BY DEF TakeCallback
<1>5. CellAlive(o) /\ CellAlive(o)'
  BY <1>2, <1>3, AliveIs, AliveIsNext DEF Changes, Counts, TakenFrame
<1>6. /\ ~AcceptedFrame(f) /\ ~AcceptedFrame(TopFrame(t)) /\ ~Clears(f)
      /\ ~HeldFrame(f) /\ ~HeldFrame(TopFrame(t))
  BY <1>1, <1>2, Kinds DEF Topped, Clears
<1>7. \A p \in Objects : p # o => (Held(p)' <=> Held(p))
  BY <1>1, <1>2, <1>3, <1>4, HeldElsewhere
<1>8. Held(o)' <=> Held(o)
  <2>1. \A g : HeldFrame(g) => (g \in OnStack' <=> g \in OnStack)
    BY <1>3, <1>6 DEF Changes
  <2> QED
    BY <1>3, <1>5, <2>1, HeldIs, HeldIsNext
<1>9. NumbersSame
  BY <1>1, <1>2, <1>6, Kinds, NumberUnderReplace DEF NumbersSame
<1>10. NoClears
  BY <1>3, <1>6 DEF NoClears, Changes
<1> QED
  BY <1>4, <1>7, <1>8, <1>9, <1>10 DEF HeldSame

LEMMA ShutdownSeen ==
    ASSUME Base, NEW t \in Threads, NEW f \in Frames, Replaces(t, f), f.op = "shutdown",
           TopFrame(t).op = "shutdown", TopFrame(t) \in Frames, slot' = slot
    PROVE  /\ NumbersSame /\ \A p : CellAlive(p)' <=> CellAlive(p)
           /\ \A p : cell'[p] = cell[p] => (Held(p)' <=> Held(p))
           /\ \A p : cell'[p] # "full" /\ Held(p)' => Held(p)
<1> USE DEF Base
<1>1. Stacks' /\ Changes({TopFrame(t)}, {f})
  BY ReplaceChange DEF Replaces
<1>2. /\ ~AcceptedFrame(f) /\ ~AcceptedFrame(TopFrame(t))
      /\ ~HeldFrame(f) /\ ~HeldFrame(TopFrame(t)) /\ ~Counts(f) /\ ~Counts(TopFrame(t))
  BY Kinds DEF Counts, TakenFrame, RootFrame, IsOwnerOp, OwnerOps
<1>3. \A g : HeldFrame(g) \/ Counts(g) => (g \in OnStack' <=> g \in OnStack)
  BY <1>1, <1>2 DEF Changes
<1>4. f.obj = TopFrame(t).obj
  BY DEF Frames, OwnerOps
<1>5. NumbersSame
  BY <1>2, <1>4, Kinds, NumberUnderReplace DEF NumbersSame
<1>6. \A p : CellAlive(p)' <=> CellAlive(p)
  BY <1>1, <1>3, AliveIs, AliveIsNext
<1> QED
  BY <1>1, <1>3, <1>5, <1>6, HeldIs, HeldIsNext

-----------------------------------------------------------------------------
(* Every step is calm, or one of those that the users see                   *)

Aside == UNCHANGED <<cell, stopping>>
SeenOf(t, o) ==
    \/ Accept(t, o) /\ t = owner[o] /\ o \in slot /\ Aside
    \/ TakeCallback(t, o) /\ o \in slot /\ Aside
    \/ Enter(t, o) /\ ~stopping /\ cell[o] = "full"
    \/ BeginCreate(t, o) \/ Create(t, o) \/ ClearCell(t, o)
SeenBy(t) == \/ Answer(t) \/ (DropClone(t) /\ Aside) \/ StopRuntime(t)
             \/ \E o \in Objects : SeenOf(t, o)

LEMMA SeenSteps ==
    ASSUME Base, Next
    PROVE  CalmStep \/ \E t \in Threads : SeenBy(t)
<1> USE DEF Base
<1>1. ASSUME NEW t \in Threads, NEW o \in Objects, RunFinalizer(t, o) PROVE CalmStep
  BY <1>1, ThreadCalm
<1>2. ASSUME NEW t \in Threads, TakeGil(t) \/ YieldGil(t) \/ FinalizerEnds(t) PROVE CalmStep
  BY <1>2, ThreadCalm
<1>3. ASSUME NEW t \in Threads, ObjectStep(t) PROVE CalmStep \/ SeenBy(t)
  <2>1. Aside
    BY <1>3 DEF ObjectStep, Outside, interpVars, Aside
  <2>2. CASE NativeStep(t)
    BY <2>1, <2>2, HostCalm DEF NativeStep, Aside
  <2>3. CASE Running(t)
    <3>1. ASSUME NEW o \in Objects,
                 \/ Resolved(t, o) \/ NoInterface(t, o)
                 \/ Accept(t, o) \/ Unpin(t, o) \/ TakeCallback(t, o)
          PROVE  CalmStep \/ SeenBy(t)
      BY <2>1, <3>1, HostCalm DEF Aside, SeenOf, SeenBy
    <3>2. CASE DropCallback(t)
      <4>1. ASSUME NEW o \in Objects PROVE CalmStep
        BY <2>1, <3>2, HostCalm DEF Aside
      <4>2. TopFrame(t).obj \in Objects
        BY <3>2, DropCallbackStack DEF Topped, Frames, OwnerOps
      <4> QED
        BY <4>1, <4>2
    <3> QED
      BY <2>1, <2>3, <3>1, <3>2 DEF Running, SeenBy
  <2> QED
    BY <1>3, <2>2, <2>3 DEF ObjectStep
<1>4. ASSUME NEW t \in Threads, OwnerStep(t) PROVE CalmStep \/ SeenBy(t)
  <2>1. CASE CreateFails(t)
    <3>1. TopFrame(t).obj \in Objects
      BY <2>1, CreateFailsStack DEF Topped, Frames, OwnerOps
    <3> QED
      BY <2>1, <3>1, OwnerCalm
  <2>2. CASE Restore(t)
    <3>1. TopFrame(t).obj \in Objects
      BY <2>2, RestoreStack DEF OwnerTop
    <3> QED
      BY <2>2, <3>1, OwnerCalm
  <2>3. CASE Ends(t)
    <3>1. TopFrame(t).obj \in Objects
      BY <2>3, CreateEndsStack, ToValueEndsStack DEF Ends, Topped, Frames, OwnerOps
    <3> QED
      BY <2>3, <3>1, OwnerCalm
  <2> QED
    BY <1>4, <2>1, <2>2, <2>3, OwnerCalm DEF OwnerStep, Ends, SeenBy, SeenOf
<1>5. ASSUME NEW t \in Threads, InvokeStep(t) PROVE CalmStep \/ SeenBy(t)
  BY <1>5, InvokeCalm DEF SeenBy, SeenOf
<1>6. ASSUME NEW t \in Threads, ShutdownStep(t) PROVE CalmStep \/ SeenBy(t)
  BY <1>6, ThreadCalm DEF ShutdownStep, SeenBy, SeenOf
<1> QED
  BY <1>1, <1>2, <1>3, <1>4, <1>5, <1>6 DEF Next

-----------------------------------------------------------------------------
(* A cell without a handler belongs to an object that is not created yet, or *)
(* the interpreter is stopping                                               *)

SeenInv ==
    /\ \A o \in Objects : /\ cell[o] = "absent" <=> ~Created(o)
                          /\ cell[o] = "cleared" => stopping
                          /\ CellAlive(o) => Created(o)
    /\ \A f \in OnStack : Clears(f) => stopping

LEMMA RevivedByCreate ==
    ASSUME Base, Next, \A t \in Threads, o \in Objects : ~Create(t, o)
    PROVE  owner' = owner /\ \A p : CellAlive(p)' => CellAlive(p)
<1> USE DEF Base
<1>1. owner' = owner
  BY OwnerKept
<1>2. PICK t \in Threads : \/ Undisturbed(t) \/ StopRuntime(t) \/ ShutdownEnds(t)
                           \/ \E o \in Objects : ClearCell(t, o)
  BY KindsOfStep
<1>3. Step(t, {})
  BY <1>2, ThreadMoves, StopMoves DEF Undisturbed
<1> QED
  BY <1>1, <1>3 DEF Step

LEMMA ClearCellSeen ==
    ASSUME Base, NEW t \in Threads, NEW o \in Objects, ClearCell(t, o),
           cell \in [Objects -> {"absent", "full", "cleared"}], SeenInv
    PROVE  /\ NumbersSame /\ HeldKept(o) /\ stopping /\ stopping' = stopping
           /\ UNCHANGED <<slot, owner>>
           /\ \A p \in Objects : cell'[p] = cell[p] \/ (cell'[p] = "cleared" /\ CellAlive(p))
<1> USE DEF Base
<1>1. PICK f \in Frames : /\ Replaces(t, f) /\ f.op = "shutdown"
                         /\ f.pc = "clear" /\ f.todo = TopFrame(t).todo \ {o}
  BY ClearCellStack
<1>2. Topped(t, "shutdown", "clear")
  BY ClearCellStack
<1>3. stopping
  BY <1>2, FramesOnStack DEF Topped, TopFrame, SeenInv, Clears
<1>4. /\ cell' = IF CellAlive(o) THEN [cell EXCEPT ![o] = "cleared"] ELSE cell
      /\ UNCHANGED <<slot, owner, stopping>>
  BY DEF ClearCell, interpVars
<1>5. \A p \in Objects : cell'[p] = cell[p] \/ (p = o /\ cell'[p] = "cleared" /\ CellAlive(p))
  BY <1>4
<1>6. /\ NumbersSame
      /\ \A p : cell'[p] = cell[p] => (Held(p)' <=> Held(p))
      /\ \A p : cell'[p] # "full" /\ Held(p)' => Held(p)
  BY <1>1, <1>2, <1>4, ShutdownSeen DEF Topped
<1>7. HeldKept(o)
  BY <1>5, <1>6 DEF HeldKept
<1> QED
  BY <1>3, <1>4, <1>5, <1>6, <1>7

LEMMA StopRuntimeSeen ==
    ASSUME Base, NEW t \in Threads, StopRuntime(t)
    PROVE  NumbersSame /\ HeldSame /\ stopping' = TRUE /\ UNCHANGED <<slot, owner, cell>>
<1> USE DEF Base
<1>1. PICK f \in Frames : /\ Replaces(t, f) /\ f.op = "shutdown"
                         /\ f.pc = "clear" /\ f.todo = registry
  BY StopRuntimeStack
<1>2. Topped(t, "shutdown", "calling")
  BY StopRuntimeStack
<1>3. stopping' = TRUE /\ UNCHANGED <<slot, owner, cell>>
  BY DEF StopRuntime
<1>4. NumbersSame /\ \A p : cell'[p] = cell[p] => (Held(p)' <=> Held(p))
  BY <1>1, <1>2, <1>3, ShutdownSeen DEF Topped
<1> QED
  BY <1>3, <1>4 DEF HeldSame

\* The steps that leave the cells alone, and clear none.
LEMMA SeenQuiet ==
    ASSUME Base, NEW t \in Threads, SeenBy(t), ~StopRuntime(t),
           \A o \in Objects : ~Create(t, o) /\ ~ClearCell(t, o)
    PROVE  NoClears /\ UNCHANGED <<cell, stopping>>
<1>1. CASE Answer(t)
  BY <1>1, AnswerSeen
<1>2. CASE DropClone(t) /\ Aside
  BY <1>2, DropCloneSeen DEF Aside
<1>3. ASSUME NEW o \in Objects, SeenOf(t, o) PROVE NoClears /\ UNCHANGED <<cell, stopping>>
  BY <1>3, AcceptSeen, TakeCallbackSeen, EnterSeen, BeginCreateSeen DEF SeenOf, Aside
<1> QED
  BY <1>1, <1>2, <1>3 DEF SeenBy

LEMMA SeenStep ==
    ASSUME Base, DisarmInv, BalanceInv, SeenInv, Next
    PROVE  SeenInv'
<1>1. ASSUME NEW t \in Threads, NEW o \in Objects, Create(t, o) PROVE SeenInv'
  <2>1. NoClears
    BY <1>1, CreateSeen DEF DisarmInv
  <2>2. Step(t, {o})
    BY <1>1, CreateMoves DEF Base
  <2>3. /\ owner' = [owner EXCEPT ![o] = t] /\ cell' = [cell EXCEPT ![o] = "full"]
        /\ stopping' = stopping /\ t # NoThread
    BY <1>1, ConstantsAssumption DEF Create
  <2>4. ASSUME NEW p \in Objects
        PROVE  /\ cell'[p] = "absent" <=> ~Created(p)'
               /\ cell'[p] = "cleared" => stopping'
               /\ CellAlive(p)' => Created(p)'
    <3>1. CASE p = o
      BY <2>3, <3>1 DEF DisarmInv, BalanceInv, Created
    <3>2. CASE p # o
      <4>1. CellAlive(p)' => CellAlive(p)
        BY <2>2, <3>2 DEF Step
      <4> QED
        BY <2>3, <3>2, <4>1 DEF DisarmInv, BalanceInv, Created, SeenInv
    <3> QED
      BY <3>1, <3>2
  <2> QED
    BY <2>1, <2>3, <2>4 DEF SeenInv, NoClears
<1>2. ASSUME \A t \in Threads, o \in Objects : ~Create(t, o) PROVE SeenInv'
  <2>1. owner' = owner /\ \A p : CellAlive(p)' => CellAlive(p)
    BY <1>2, RevivedByCreate
  <2>2. CASE NoClears /\ UNCHANGED <<cell, stopping>>
    BY <2>1, <2>2 DEF SeenInv, NoClears, Created
  <2>3. ASSUME NEW t \in Threads, StopRuntime(t) PROVE SeenInv'
    BY <2>1, <2>3, StopRuntimeSeen DEF SeenInv, Created
  <2>4. ASSUME NEW t \in Threads, NEW o \in Objects, ClearCell(t, o) PROVE SeenInv'
    <3>1. /\ stopping /\ stopping' = stopping
          /\ \A p \in Objects : cell'[p] = cell[p] \/ (cell'[p] = "cleared" /\ CellAlive(p))
      BY <2>4, ClearCellSeen DEF DisarmInv
    <3> QED
      BY <2>1, <3>1 DEF SeenInv, Created
  <2>5. CASE CalmStep
    BY <2>2, <2>5 DEF CalmStep, Calm
  <2> QED
    BY <1>2, <2>2, <2>3, <2>4, <2>5, SeenSteps, SeenQuiet
<1> QED
  BY <1>1, <1>2

(* Every cell of an object has its handler until the interpreter stops, and  *)
(* an object that native code can call was created (implementation.rs:       *)
(* 128-157, 177-186, mod.rs:145-159).                                        *)
THEOREM SeenHolds == Spec => []SeenInv
<1>1. Init => SeenInv
  <2> SUFFICES ASSUME Init PROVE SeenInv
    OBVIOUS
  <2>1. Stacks /\ OnStack = {}
    BY DEF Init, InitObject, Stacks, OnStack
  <2>2. slot = {} /\ \A o \in Objects : owner[o] = NoThread /\ cell[o] = "absent"
    BY DEF Init, InitObject
  <2>3. \A o : ~CellAlive(o)
    BY <2>1, <2>2, AliveIs
  <2> QED
    BY <2>1, <2>2, <2>3 DEF SeenInv, Created
<1>2. SeenInv /\ UNCHANGED vars => SeenInv'
  BY DEF vars, objectVars, interpVars, SeenInv, OnStack, CellAlive, CallbackAlive, InFrame,
         Created
<1>3. Base /\ DisarmInv /\ BalanceInv /\ SeenInv /\ Next => SeenInv'
  BY SeenStep
<1> QED
  BY <1>1, <1>2, <1>3, BaseHolds, DisarmHolds, BalanceHolds, PTL DEF Spec

-----------------------------------------------------------------------------
(* The variables of the abstract object, and what a step does to each       *)

StatusOf == [o \in Objects |-> Status(o)]
AcceptedOf == [o \in Objects |-> Cardinality(Calling(o, AcceptedFrame))]
RunningOf == [o \in Objects |-> Cardinality(Calling(o, HandlerFrame))]
HeldObjects == {o \in Objects : Held(o)}

LEMMA NumbersOf ==
    ASSUME Stacks
    PROVE  /\ AcceptedOf = [o \in Objects |-> Number(o, AcceptedFrames)]
           /\ RunningOf = [o \in Objects |-> Number(o, HandlerFrames)]
<1>1. ASSUME NEW c \in Calls, c[2] <= Len(stack[c[1]]) PROVE stack[c[1]][c[2]] \in Frames
  BY <1>1, CallParts DEF Stacks
<1>2. \A o : /\ Calling(o, AcceptedFrame) = Marked(o, AcceptedFrames)
             /\ Calling(o, HandlerFrame) = Marked(o, HandlerFrames)
  BY <1>1 DEF Calling, Marked, MarkedAt, AcceptedFrames, HandlerFrames
<1> QED
  BY <1>2 DEF AcceptedOf, RunningOf, Number

LEMMA NumbersOfNext ==
    Stacks' => /\ AcceptedOf' = [o \in Objects |-> Number(o, AcceptedFrames)']
               /\ RunningOf' = [o \in Objects |-> Number(o, HandlerFrames)']
<1>1. Stacks => /\ AcceptedOf = [o \in Objects |-> Number(o, AcceptedFrames)]
                /\ RunningOf = [o \in Objects |-> Number(o, HandlerFrames)]
  BY NumbersOf
<1>2. (Stacks => /\ AcceptedOf = [o \in Objects |-> Number(o, AcceptedFrames)]
                 /\ RunningOf = [o \in Objects |-> Number(o, HandlerFrames)])'
  BY <1>1, PTL
<1> QED
  BY <1>2

LEMMA NumbersMove ==
    ASSUME Stacks, Stacks', NEW o \in Objects
    PROVE  /\ NumberSame(AcceptedFrames) => AcceptedOf' = AcceptedOf
           /\ NumberSame(HandlerFrames) => RunningOf' = RunningOf
           /\ NumberBy(AcceptedFrames, o, 1)
                => AcceptedOf' = [AcceptedOf EXCEPT ![o] = @ + 1]
           /\ NumberBy(HandlerFrames, o, 1)
                => RunningOf' = [RunningOf EXCEPT ![o] = @ + 1]
           /\ NumberBy(AcceptedFrames, o, 0 - 1)
                => AcceptedOf' = [AcceptedOf EXCEPT ![o] = @ - 1]
           /\ NumberBy(HandlerFrames, o, 0 - 1)
                => RunningOf' = [RunningOf EXCEPT ![o] = @ - 1]
<1>1. \A p, S : Number(p, S) \in Nat
  BY MarkedFinite
<1>2. /\ AcceptedOf = [p \in Objects |-> Number(p, AcceptedFrames)]
      /\ RunningOf = [p \in Objects |-> Number(p, HandlerFrames)]
      /\ AcceptedOf' = [p \in Objects |-> Number(p, AcceptedFrames)']
      /\ RunningOf' = [p \in Objects |-> Number(p, HandlerFrames)']
  BY NumbersOf, NumbersOfNext
<1>3. /\ NumberSame(AcceptedFrames) => AcceptedOf' = AcceptedOf
      /\ NumberSame(HandlerFrames) => RunningOf' = RunningOf
  BY <1>2 DEF NumberSame
<1>4. ASSUME NEW S, NEW d \in Int, NumberBy(S, o, d)
      PROVE  /\ Number(o, S)' = Number(o, S) + d
             /\ \A p \in Objects \ {o} : Number(p, S)' = Number(p, S)
  BY <1>1, <1>4 DEF NumberBy
<1>5. ASSUME NumberBy(AcceptedFrames, o, 1)
      PROVE  AcceptedOf' = [AcceptedOf EXCEPT ![o] = @ + 1]
  BY <1>2, <1>4, <1>5
<1>6. ASSUME NumberBy(AcceptedFrames, o, 0 - 1)
      PROVE  AcceptedOf' = [AcceptedOf EXCEPT ![o] = @ - 1]
  BY <1>1, <1>2, <1>4, <1>6
<1>7. ASSUME NumberBy(HandlerFrames, o, 1)
      PROVE  RunningOf' = [RunningOf EXCEPT ![o] = @ + 1]
  BY <1>2, <1>4, <1>7
<1>8. ASSUME NumberBy(HandlerFrames, o, 0 - 1)
      PROVE  RunningOf' = [RunningOf EXCEPT ![o] = @ - 1]
  BY <1>1, <1>2, <1>4, <1>8
<1> QED
  BY <1>3, <1>5, <1>6, <1>7, <1>8

LEMMA HeldMoves ==
    /\ HeldSame => HeldObjects' = HeldObjects
    /\ \A o : HeldKept(o) => \/ HeldObjects' = HeldObjects
                             \/ /\ o \in Objects /\ Held(o) /\ ~Held(o)'
                                /\ HeldObjects' = HeldObjects \ {o}
  BY DEF HeldSame, HeldKept, HeldObjects

LEMMA StatusSame ==
    ASSUME UNCHANGED <<slot, owner>>
    PROVE  StatusOf' = StatusOf
  BY DEF StatusOf, Status, Created

\* What the object does is seen in its status, its numbers and the handlers kept.
LEMMA SeenAbstract ==
    ASSUME NEW o \in Objects
    PROVE  /\ (/\ StatusOf[o] = "absent" /\ HeldObjects' = HeldObjects \cup {o}
               /\ UNCHANGED <<StatusOf, AcceptedOf, RunningOf, stopping>>) => Abstract!Capture(o)
           /\ (/\ StatusOf[o] = "absent" /\ o \in HeldObjects /\ ~stopping
               /\ StatusOf' = [StatusOf EXCEPT ![o] = "connected"]
               /\ UNCHANGED <<AcceptedOf, RunningOf, HeldObjects, stopping>>) => Abstract!Connect(o)
           /\ (/\ StatusOf[o] = "connected" /\ AcceptedOf' = [AcceptedOf EXCEPT ![o] = @ + 1]
               /\ UNCHANGED <<StatusOf, RunningOf, HeldObjects, stopping>>) => Abstract!Accept(o)
           /\ (/\ RunningOf[o] < AcceptedOf[o] /\ o \in HeldObjects /\ ~stopping
               /\ RunningOf' = [RunningOf EXCEPT ![o] = @ + 1]
               /\ UNCHANGED <<StatusOf, AcceptedOf, HeldObjects, stopping>>) => Abstract!Start(o)
           /\ (/\ StatusOf[o] = "connected"
               /\ StatusOf' = [StatusOf EXCEPT ![o] = "disconnected"]
               /\ UNCHANGED <<AcceptedOf, RunningOf, HeldObjects, stopping>>)
                  => Abstract!Disconnect(o)
<1> USE DEF StatusOf, AcceptedOf, RunningOf, HeldObjects
<1>1. (/\ StatusOf[o] = "absent" /\ HeldObjects' = HeldObjects \cup {o}
       /\ UNCHANGED <<StatusOf, AcceptedOf, RunningOf, stopping>>) => Abstract!Capture(o)
  BY DEF Abstract!Capture, Abstract!Idle
<1>2. (/\ StatusOf[o] = "absent" /\ o \in HeldObjects /\ ~stopping
       /\ StatusOf' = [StatusOf EXCEPT ![o] = "connected"]
       /\ UNCHANGED <<AcceptedOf, RunningOf, HeldObjects, stopping>>) => Abstract!Connect(o)
  BY DEF Abstract!Connect
<1>3. (/\ StatusOf[o] = "connected" /\ AcceptedOf' = [AcceptedOf EXCEPT ![o] = @ + 1]
       /\ UNCHANGED <<StatusOf, RunningOf, HeldObjects, stopping>>) => Abstract!Accept(o)
  BY DEF Abstract!Accept
<1>4. (/\ RunningOf[o] < AcceptedOf[o] /\ o \in HeldObjects /\ ~stopping
       /\ RunningOf' = [RunningOf EXCEPT ![o] = @ + 1]
       /\ UNCHANGED <<StatusOf, AcceptedOf, HeldObjects, stopping>>) => Abstract!Start(o)
  BY DEF Abstract!Start
<1>5. (/\ StatusOf[o] = "connected" /\ StatusOf' = [StatusOf EXCEPT ![o] = "disconnected"]
       /\ UNCHANGED <<AcceptedOf, RunningOf, HeldObjects, stopping>>) => Abstract!Disconnect(o)
  BY DEF Abstract!Disconnect
<1> QED
  BY <1>1, <1>2, <1>3, <1>4, <1>5

\* A handler may be given up by a step that ends a call, or by one of no other effect.
GivesUp(o) == \/ HeldObjects' = HeldObjects
              \/ /\ HeldObjects' = HeldObjects \ {o} /\ RunningOf'[o] = 0
                 /\ \/ stopping \/ StatusOf[o] = "absent"
                    \/ StatusOf[o] = "disconnected" /\ AcceptedOf'[o] = 0

LEMMA GivesUpAbstract ==
    ASSUME NEW o \in Objects, GivesUp(o), UNCHANGED <<StatusOf, stopping>>
    PROVE  /\ UNCHANGED <<AcceptedOf, RunningOf>> => Abstract!GiveUp(o)
           /\ (/\ RunningOf[o] > 0 /\ RunningOf' = [RunningOf EXCEPT ![o] = @ - 1]
               /\ AcceptedOf' = AcceptedOf) => Abstract!Finish(o)
           /\ (/\ RunningOf[o] < AcceptedOf[o] /\ AcceptedOf' = [AcceptedOf EXCEPT ![o] = @ - 1]
               /\ RunningOf' = RunningOf) => Abstract!Answer(o)
<1> USE DEF StatusOf, AcceptedOf, RunningOf, HeldObjects
<1>1. Abstract!MayGiveUp(o)
  BY DEF GivesUp, Abstract!MayGiveUp, Abstract!GivenUp
<1>2. UNCHANGED <<AcceptedOf, RunningOf>> => Abstract!GiveUp(o)
  BY <1>1 DEF Abstract!GiveUp, Abstract!Idle
<1>3. (/\ RunningOf[o] > 0 /\ RunningOf' = [RunningOf EXCEPT ![o] = @ - 1]
       /\ AcceptedOf' = AcceptedOf) => Abstract!Finish(o)
  BY <1>1 DEF Abstract!Finish
<1>4. (/\ RunningOf[o] < AcceptedOf[o] /\ AcceptedOf' = [AcceptedOf EXCEPT ![o] = @ - 1]
       /\ RunningOf' = RunningOf) => Abstract!Answer(o)
  BY <1>1 DEF Abstract!Answer
<1> QED
  BY <1>2, <1>3, <1>4

-----------------------------------------------------------------------------
(* When a handler is not kept no call runs it, and its object is of no use   *)

LEMMA NotHeld ==
    ASSUME Stacks, DisarmInv, SeenInv, NEW o \in Objects, ~Held(o)
    PROVE  /\ Number(o, HandlerFrames) = 0
           /\ \/ stopping \/ Status(o) = "absent"
              \/ Status(o) = "disconnected" /\ Number(o, AcceptedFrames) = 0
<1>1. \A S : (\A f \in OnStack : f.obj = o => f \notin S) => Number(o, S) = 0
  <2> SUFFICES ASSUME NEW S, \A f \in OnStack : f.obj = o => f \notin S
               PROVE  Number(o, S) = 0
    OBVIOUS
  <2>1. ASSUME NEW c \in Calls PROVE ~MarkedAt(c, o, S)
    <3>1. c[1] \in Threads /\ c[2] \in Nat \ {0} /\ Len(stack[c[1]]) \in Nat
      BY CallParts DEF Stacks
    <3>2. c[2] <= Len(stack[c[1]]) => stack[c[1]][c[2]] \in OnStack
      BY <3>1, FramesOnStack
    <3> QED
      BY <3>2 DEF MarkedAt
  <2>2. Marked(o, S) = {}
    BY <2>1 DEF Marked
  <2> QED
    BY <2>2, FS_EmptySet DEF Number
<1>2. \A f \in OnStack : f.obj = o => ~HandlerFrame(f)
  BY HeldIs DEF HeldFrame
<1>3. Number(o, HandlerFrames) = 0
  BY <1>1, <1>2 DEF HandlerFrames
<1>4. cell[o] = "full" => ~CellAlive(o)
  BY HeldIs
<1>5. CASE ~CellAlive(o)
  <2>1. o \notin slot /\ \A f \in OnStack : f.obj = o => ~AcceptedFrame(f)
    BY <1>5, AliveIs DEF Counts
  <2>2. Number(o, AcceptedFrames) = 0
    BY <1>1, <2>1 DEF AcceptedFrames
  <2> QED
    BY <1>3, <2>1, <2>2 DEF Status
<1>6. CASE CellAlive(o)
  BY <1>3, <1>4, <1>6 DEF DisarmInv, SeenInv
<1> QED
  BY <1>5, <1>6

LEMMA NotHeldNext ==
    ASSUME NEW o \in Objects
    PROVE  Stacks' /\ DisarmInv' /\ SeenInv' /\ ~Held(o)'
             => /\ Number(o, HandlerFrames)' = 0
                /\ \/ stopping' \/ Status(o)' = "absent"
                   \/ Status(o)' = "disconnected" /\ Number(o, AcceptedFrames)' = 0
<1>1. Stacks /\ DisarmInv /\ SeenInv /\ ~Held(o)
        => /\ Number(o, HandlerFrames) = 0
           /\ \/ stopping \/ Status(o) = "absent"
              \/ Status(o) = "disconnected" /\ Number(o, AcceptedFrames) = 0
  BY NotHeld
<1>2. (Stacks /\ DisarmInv /\ SeenInv /\ ~Held(o)
         => /\ Number(o, HandlerFrames) = 0
            /\ \/ stopping \/ Status(o) = "absent"
               \/ Status(o) = "disconnected" /\ Number(o, AcceptedFrames) = 0)'
  BY <1>1, PTL
<1> QED
  BY <1>2

LEMMA GivesUpHeld ==
    ASSUME Stacks', DisarmInv', SeenInv', NEW o \in Objects, HeldKept(o),
           UNCHANGED <<slot, owner, stopping>>
    PROVE  GivesUp(o)
<1>1. CASE HeldObjects' = HeldObjects
  BY <1>1 DEF GivesUp
<1>2. CASE HeldObjects' # HeldObjects
  <2>1. ~Held(o)' /\ HeldObjects' = HeldObjects \ {o}
    BY <1>2, HeldMoves
  <2>2. /\ Number(o, HandlerFrames)' = 0
        /\ \/ stopping' \/ Status(o)' = "absent"
           \/ Status(o)' = "disconnected" /\ Number(o, AcceptedFrames)' = 0
    BY <2>1, NotHeldNext
  <2>3. StatusOf[o] = Status(o)'
    BY DEF StatusOf, Status, Created
  <2>4. RunningOf'[o] = Number(o, HandlerFrames)' /\ AcceptedOf'[o] = Number(o, AcceptedFrames)'
    BY NumbersOfNext
  <2> QED
    BY <2>1, <2>2, <2>3, <2>4 DEF GivesUp
<1> QED
  BY <1>1, <1>2

-----------------------------------------------------------------------------
(* Every step is a step of the abstract object, or it leaves it alone        *)

\* Of the calls an object accepted, one that is not in its handler.
LEMMA CallsBeside ==
    ASSUME Base, NEW t \in Threads, NEW o \in Objects, NEW pc \in Accepted,
           Topped(t, "dispatch", pc), TopFrame(t).obj = o
    PROVE  /\ pc = "handler" => RunningOf[o] > 0
           /\ pc # "handler" => RunningOf[o] < AcceptedOf[o]
<1> USE DEF Base
<1>0. PICK c : c = <<t, Len(stack[t])>>
  OBVIOUS
<1>1. c \in Calls
  BY <1>0, PinDepth, ConstantsAssumption DEF Calls, Topped
<1>2. /\ c \in Marked(o, AcceptedFrames)
      /\ c \in Marked(o, HandlerFrames) <=> pc = "handler"
  BY <1>0, <1>1 DEF Marked, MarkedAt, Topped, TopFrame, AcceptedFrames, HandlerFrames,
         AcceptedFrame, HandlerFrame
<1>3. /\ IsFiniteSet(Marked(o, AcceptedFrames)) /\ IsFiniteSet(Marked(o, HandlerFrames))
      /\ Number(o, AcceptedFrames) \in Nat /\ Number(o, HandlerFrames) \in Nat
  BY MarkedFinite
<1>4. RunningOf[o] = Number(o, HandlerFrames) /\ AcceptedOf[o] = Number(o, AcceptedFrames)
  BY NumbersOf
<1>5. CASE pc = "handler"
  <2>1. Number(o, HandlerFrames) # 0
    BY <1>2, <1>3, <1>5, FS_EmptySet DEF Number
  <2> QED
    BY <1>3, <1>4, <1>5, <2>1
<1>6. CASE pc # "handler"
  <2> DEFINE rest == Marked(o, AcceptedFrames) \ {c}
  <2>1. Marked(o, HandlerFrames) \subseteq rest
    BY <1>2, <1>6, Kinds DEF Marked, MarkedAt, HandlerFrames, AcceptedFrames
  <2>2. IsFiniteSet(rest) /\ Cardinality(rest) = Number(o, AcceptedFrames) - 1
    BY <1>2, <1>3, FS_RemoveElement DEF Number
  <2>3. Number(o, HandlerFrames) <= Cardinality(rest)
    BY <2>1, <2>2, FS_Subset DEF Number
  <2> QED
    BY <1>3, <1>4, <1>6, <2>2, <2>3
<1> QED
  BY <1>5, <1>6

AbstractStep == Abstract!Next \/ UNCHANGED Abstract!vars
Before == Base /\ DisarmInv /\ BalanceInv /\ SeenInv
After == Stacks' /\ DisarmInv' /\ SeenInv'

LEMMA StutterAbstract ==
    ASSUME UNCHANGED <<StatusOf, AcceptedOf, RunningOf, HeldObjects, stopping>>
    PROVE  AbstractStep
  BY DEF AbstractStep, Abstract!vars, StatusOf, AcceptedOf, RunningOf, HeldObjects

LEMMA CalmAbstract ==
    ASSUME Before, After, CalmStep
    PROVE  AbstractStep
<1>1. PICK o : Calm(o)
  BY DEF CalmStep
<1>2. UNCHANGED <<slot, cell, owner, stopping>> /\ StatusOf' = StatusOf
  BY StatusSame DEF CalmStep
<1>3. AcceptedOf' = AcceptedOf /\ RunningOf' = RunningOf
  <2>1. NumberSame(AcceptedFrames) /\ NumberSame(HandlerFrames)
    BY <1>1 DEF Calm
  <2> QED
    BY <2>1, NumbersOf, NumbersOfNext DEF NumberSame, Before, Base, After
<1>4. CASE HeldObjects' = HeldObjects
  BY <1>2, <1>3, <1>4, StutterAbstract
<1>5. CASE HeldObjects' # HeldObjects
  <2>1. o \in Objects /\ HeldKept(o)
    BY <1>1, <1>5, HeldMoves DEF Calm
  <2>2. GivesUp(o)
    BY <1>2, <2>1, GivesUpHeld DEF After
  <2>3. Abstract!GiveUp(o)
    BY <1>2, <1>3, <2>1, <2>2, GivesUpAbstract
  <2> QED
    BY <2>1, <2>3 DEF AbstractStep, Abstract!Next
<1> QED
  BY <1>4, <1>5

LEMMA EndsAbstract ==
    ASSUME Before, After, NEW t \in Threads, Answer(t) \/ (DropClone(t) /\ Aside)
    PROVE  AbstractStep
<1> USE DEF Before, After, Base
<1>1. CASE Answer(t)
  <2>1. PICK o \in Objects : TopFrame(t).obj = o
    BY <1>1, AnswerSeen
  <2>2. /\ NumberBy(HandlerFrames, o, 0 - 1) /\ NumberSame(AcceptedFrames) /\ HeldKept(o)
        /\ UNCHANGED <<slot, owner, stopping>> /\ Topped(t, "dispatch", "handler")
    BY <1>1, <2>1, AnswerSeen
  <2>3. RunningOf[o] > 0
    BY <2>1, <2>2, CallsBeside DEF Accepted
  <2>4. RunningOf' = [RunningOf EXCEPT ![o] = @ - 1] /\ AcceptedOf' = AcceptedOf
    BY <2>2, NumbersMove
  <2>5. GivesUp(o) /\ StatusOf' = StatusOf
    BY <2>2, GivesUpHeld, StatusSame
  <2>6. Abstract!Finish(o)
    BY <2>2, <2>3, <2>4, <2>5, GivesUpAbstract
  <2> QED
    BY <2>6 DEF AbstractStep, Abstract!Next
<1>2. CASE DropClone(t) /\ Aside
  <2>1. PICK o \in Objects : TopFrame(t).obj = o
    BY <1>2, DropCloneSeen DEF Aside
  <2>2. /\ NumberBy(AcceptedFrames, o, 0 - 1) /\ NumberSame(HandlerFrames) /\ HeldKept(o)
        /\ UNCHANGED <<slot, owner, stopping>> /\ Topped(t, "dispatch", "answered")
    BY <1>2, <2>1, DropCloneSeen DEF Aside
  <2>3. RunningOf[o] < AcceptedOf[o]
    BY <2>1, <2>2, CallsBeside DEF Accepted
  <2>4. AcceptedOf' = [AcceptedOf EXCEPT ![o] = @ - 1] /\ RunningOf' = RunningOf
    BY <2>2, NumbersMove
  <2>5. GivesUp(o) /\ StatusOf' = StatusOf
    BY <2>2, GivesUpHeld, StatusSame
  <2>6. Abstract!Answer(o)
    BY <2>2, <2>3, <2>4, <2>5, GivesUpAbstract
  <2> QED
    BY <2>6 DEF AbstractStep, Abstract!Next
<1> QED
  BY <1>1, <1>2

LEMMA StopAbstract ==
    ASSUME Before, After, NEW t \in Threads, StopRuntime(t)
    PROVE  AbstractStep
<1>1. NumbersSame /\ HeldSame /\ stopping' = TRUE /\ UNCHANGED <<slot, owner>>
  BY StopRuntimeSeen DEF Before
<1>2. AcceptedOf' = AcceptedOf /\ RunningOf' = RunningOf
  BY <1>1, NumbersOf, NumbersOfNext DEF NumberSame, NumbersSame, Before, Base, After
<1>3. StatusOf' = StatusOf /\ HeldObjects' = HeldObjects
  BY <1>1, StatusSame, HeldMoves
<1>4. Abstract!Stop
  BY <1>1, <1>2, <1>3 DEF Abstract!Stop, StatusOf, AcceptedOf, RunningOf, HeldObjects
<1> QED
  BY <1>4 DEF AbstractStep, Abstract!Next

\* The object whose creation is at the top of a stack is not created yet.
LEMMA Uncreated ==
    ASSUME Before, NEW t \in Threads, NEW o \in Objects, Create(t, o)
    PROVE  ~Created(o) /\ o \notin slot
<1>1. Topped(t, "create", "wrap") /\ TopFrame(t).obj = o
  BY CreateStack DEF Before, Base
<1>2. Creating(t, Len(stack[t])) /\ Len(stack[t]) \in Nat
  BY <1>1 DEF Creating, Topped, TopFrame
<1>3. ~Created(o)
  BY <1>1, <1>2 DEF Before, BalanceInv, BirthInv, CreateInv, TopFrame
<1> QED
  BY <1>3 DEF Before, SeenInv, CellAlive, CallbackAlive

LEMMA CreateAbstract ==
    ASSUME Before, After, NEW t \in Threads, NEW o \in Objects, Create(t, o)
    PROVE  AbstractStep
<1> USE DEF Before, After, Base
<1>1. NumbersSame /\ Held(o) /\ HeldSame
  BY CreateSeen DEF DisarmInv
<1>2. /\ slot' = slot \cup {o} /\ owner' = [owner EXCEPT ![o] = t]
      /\ stopping' = stopping /\ ~stopping
  BY DEF Create
<1>3. ~Created(o) /\ o \notin slot
  BY Uncreated
<1>4. StatusOf[o] = "absent" /\ StatusOf' = [StatusOf EXCEPT ![o] = "connected"]
  BY <1>2, <1>3 DEF StatusOf, Status, Created, BalanceInv
<1>5. AcceptedOf' = AcceptedOf /\ RunningOf' = RunningOf
  BY <1>1, NumbersMove DEF NumbersSame
<1>6. HeldObjects' = HeldObjects /\ o \in HeldObjects
  BY <1>1, HeldMoves DEF HeldObjects
<1>7. Abstract!Connect(o)
  BY <1>2, <1>4, <1>5, <1>6, SeenAbstract
<1> QED
  BY <1>7 DEF AbstractStep, Abstract!Next

LEMMA BeginCreateAbstract ==
    ASSUME Before, After, NEW t \in Threads, NEW o \in Objects, BeginCreate(t, o)
    PROVE  AbstractStep
<1> USE DEF Before, After, Base
<1>1. /\ NumbersSame /\ Held(o)' /\ \A p \in Objects : p # o => (Held(p)' <=> Held(p))
      /\ UNCHANGED <<slot, owner, stopping>> /\ ~Created(o)
  BY BeginCreateSeen
<1>2. StatusOf[o] = "absent" /\ StatusOf' = StatusOf
  BY <1>1, StatusSame DEF StatusOf, Status, SeenInv, CellAlive, CallbackAlive
<1>3. AcceptedOf' = AcceptedOf /\ RunningOf' = RunningOf
  BY <1>1, NumbersMove DEF NumbersSame
<1>4. HeldObjects' = HeldObjects \cup {o}
  BY <1>1 DEF HeldObjects
<1>5. Abstract!Capture(o)
  BY <1>1, <1>2, <1>3, <1>4, SeenAbstract
<1> QED
  BY <1>5 DEF AbstractStep, Abstract!Next

LEMMA ClearCellAbstract ==
    ASSUME Before, After, NEW t \in Threads, NEW o \in Objects, ClearCell(t, o)
    PROVE  AbstractStep
<1> USE DEF Before, After, Base
<1>1. /\ NumbersSame /\ HeldKept(o) /\ UNCHANGED <<slot, owner, stopping>>
  BY ClearCellSeen DEF DisarmInv
<1>2. AcceptedOf' = AcceptedOf /\ RunningOf' = RunningOf
  BY <1>1, NumbersMove DEF NumbersSame
<1>3. GivesUp(o) /\ StatusOf' = StatusOf
  BY <1>1, GivesUpHeld, StatusSame
<1>4. Abstract!GiveUp(o)
  BY <1>1, <1>2, <1>3, GivesUpAbstract
<1> QED
  BY <1>4 DEF AbstractStep, Abstract!Next

LEMMA CallAbstract ==
    ASSUME Before, After, NEW t \in Threads, NEW o \in Objects,
           \/ Accept(t, o) /\ t = owner[o] /\ o \in slot /\ Aside
           \/ Enter(t, o) /\ ~stopping /\ cell[o] = "full"
    PROVE  AbstractStep
<1> USE DEF Before, After, Base
<1>1. CASE Accept(t, o) /\ t = owner[o] /\ o \in slot /\ Aside
  <2>1. /\ NumberBy(AcceptedFrames, o, 1) /\ NumberSame(HandlerFrames) /\ HeldSame
        /\ UNCHANGED <<slot, owner, stopping>>
    BY <1>1, AcceptSeen DEF Aside
  <2>2. AcceptedOf' = [AcceptedOf EXCEPT ![o] = @ + 1] /\ RunningOf' = RunningOf
    BY <2>1, NumbersMove
  <2>3. StatusOf[o] = "connected" /\ StatusOf' = StatusOf /\ HeldObjects' = HeldObjects
    BY <1>1, <2>1, StatusSame, HeldMoves DEF StatusOf, Status
  <2>4. Abstract!Accept(o)
    BY <2>1, <2>2, <2>3, SeenAbstract
  <2> QED
    BY <2>4 DEF AbstractStep, Abstract!Next
<1>2. CASE Enter(t, o) /\ ~stopping /\ cell[o] = "full"
  <2>1. /\ NumberBy(HandlerFrames, o, 1) /\ NumberSame(AcceptedFrames) /\ HeldSame /\ Held(o)
        /\ UNCHANGED <<slot, owner, stopping>>
        /\ Topped(t, "dispatch", "gate") /\ TopFrame(t).obj = o
    BY <1>2, EnterSeen
  <2>2. RunningOf' = [RunningOf EXCEPT ![o] = @ + 1] /\ AcceptedOf' = AcceptedOf
    BY <2>1, NumbersMove
  <2>3. StatusOf' = StatusOf /\ HeldObjects' = HeldObjects /\ o \in HeldObjects
    BY <2>1, StatusSame, HeldMoves DEF HeldObjects
  <2>4. RunningOf[o] < AcceptedOf[o]
    BY <2>1, CallsBeside DEF Accepted
  <2>5. Abstract!Start(o)
    BY <1>2, <2>1, <2>2, <2>3, <2>4, SeenAbstract
  <2> QED
    BY <2>5 DEF AbstractStep, Abstract!Next
<1> QED
  BY <1>1, <1>2

LEMMA TakeCallbackAbstract ==
    ASSUME Before, After, NEW t \in Threads, NEW o \in Objects, TakeCallback(t, o), o \in slot,
           Aside
    PROVE  AbstractStep
<1> USE DEF Before, After, Base
<1>1. /\ NumbersSame /\ HeldSame /\ owner' = owner /\ slot' = slot \ {o}
      /\ stopping' = stopping
  BY TakeCallbackSeen DEF Aside
<1>2. Created(o)
  BY DEF SeenInv, CellAlive, CallbackAlive
<1>3. /\ StatusOf[o] = "connected" /\ StatusOf' = [StatusOf EXCEPT ![o] = "disconnected"]
  BY <1>1, <1>2 DEF StatusOf, Status, Created
<1>4. AcceptedOf' = AcceptedOf /\ RunningOf' = RunningOf /\ HeldObjects' = HeldObjects
  BY <1>1, NumbersMove, HeldMoves DEF NumbersSame
<1>5. Abstract!Disconnect(o)
  BY <1>1, <1>3, <1>4, SeenAbstract
<1> QED
  BY <1>5 DEF AbstractStep, Abstract!Next

LEMMA StepAbstract ==
    ASSUME Before, After, Next
    PROVE  AbstractStep
<1>1. ASSUME NEW t \in Threads, SeenBy(t) PROVE AbstractStep
  <2>1. ASSUME NEW o \in Objects, SeenOf(t, o) PROVE AbstractStep
    BY <2>1, CreateAbstract, BeginCreateAbstract, ClearCellAbstract, CallAbstract,
       TakeCallbackAbstract DEF SeenOf
  <2> QED
    BY <1>1, <2>1, EndsAbstract, StopAbstract DEF SeenBy
<1> QED
  BY <1>1, SeenSteps, CalmAbstract DEF Before

LEMMA InitAbstract == Init => Abstract!Init
<1> SUFFICES ASSUME Init PROVE Abstract!Init
  OBVIOUS
<1>1. Stacks /\ OnStack = {} /\ slot = {} /\ stopping = FALSE
  BY DEF Init, InitObject, Stacks, OnStack
<1>2. \A o \in Objects : Status(o) = "absent" /\ ~Held(o)
  <2>1. \A o \in Objects : owner[o] = NoThread /\ cell[o] = "absent"
    BY DEF Init, InitObject
  <2> QED
    BY <1>1, <2>1, HeldIs DEF Status, Created
<1>3. \A o, S : Marked(o, S) = {} /\ Number(o, S) = 0
  <2>1. \A o, S : Marked(o, S) = {}
    BY CallParts DEF Init, InitObject, Marked, MarkedAt
  <2> QED
    BY <2>1, FS_EmptySet DEF Number
<1>4. /\ StatusOf = [o \in Objects |-> "absent"] /\ HeldObjects = {}
      /\ AcceptedOf = [o \in Objects |-> 0] /\ RunningOf = [o \in Objects |-> 0]
  BY <1>1, <1>2, <1>3, NumbersOf DEF StatusOf, HeldObjects
<1> QED
  BY <1>1, <1>4 DEF Abstract!Init, StatusOf, AcceptedOf, RunningOf, HeldObjects

(* The implementation keeps the promise of ImplementedObject: a call that   *)
(* the object accepted keeps its handler until it returns, none starts in   *)
(* the handler once the interpreter stops, and the handler is given up only *)
(* when the object is disconnected and its calls are over, or at shutdown   *)
(* (mod.rs:95-107, 117-121, implementation.rs:177-228).                     *)
THEOREM ImplementsObjectHolds == Spec => ImplementsObject
<1>1. Before /\ After /\ Next => AbstractStep
  BY StepAbstract
<1>2. UNCHANGED vars => UNCHANGED Abstract!vars
  BY DEF vars, objectVars, interpVars, Abstract!vars, Status, Created, Calling, Held, CellAlive,
         CallbackAlive, InFrame
<1>3. Before /\ After /\ [Next]_vars => [Abstract!Next]_(Abstract!vars)
  BY <1>1, <1>2 DEF AbstractStep
<1>4. Spec => []Before
  BY BaseHolds, DisarmHolds, BalanceHolds, SeenHolds, PTL DEF Before
<1>5. Before' => After
  BY DEF Before, After, Base
<1> QED
  BY <1>3, <1>4, <1>5, InitAbstract, PTL DEF Spec, ImplementsObject, Abstract!Spec
=============================================================================
