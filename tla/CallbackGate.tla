---------------------------- MODULE CallbackGate ----------------------------
(***************************************************************************)
(* The gate of bindings/py/src/runtime.rs between native callbacks and     *)
(* Python.  A call of `with_python_callback' looks at the flag, takes a    *)
(* permit under the lock of CALLBACKS_IN_FLIGHT if the flag is still       *)
(* clear, attaches to Python, runs, detaches and drops the permit.         *)
(* `shutdown_python_callbacks' shuts the gate only while no permit is out; *)
(* the hook of `atexit' sets the flag whatever is in flight.               *)
(*                                                                         *)
(* The lock is held for one look at the flag and one addition, so each     *)
(* critical section is one step; a `try_lock' that finds it busy changes   *)
(* nothing.                                                                *)
(***************************************************************************)
EXTENDS Naturals, FiniteSets, FiniteSetTheorems, TLAPS

CONSTANT Calls   \* calls of with_python_callback that may be under way

VARIABLES shuttingDown,   \* PYTHON_SHUTTING_DOWN
          inFlight,       \* CALLBACKS_IN_FLIGHT
          shut,           \* did close_native_callback_gate succeed?
          call            \* where each call is

gateVars == <<shuttingDown, inFlight, shut, call>>

Places == {"out", "checked", "granted", "inside", "left"}

TypeOK == /\ shuttingDown \in BOOLEAN /\ shut \in BOOLEAN
          /\ inFlight \in Nat
          /\ call \in [Calls -> Places]

Init == /\ shuttingDown = FALSE
        /\ inFlight = 0
        /\ shut = FALSE
        /\ call = [c \in Calls |-> "out"]

Move(c, from, to) == call[c] = from /\ call' = [call EXCEPT ![c] = to]

\* The first look, without the lock.
Check(c) == /\ ~shuttingDown
            /\ Move(c, "out", "checked")
            /\ UNCHANGED <<shuttingDown, inFlight, shut>>

\* Faulty: the flag is not looked at again under the lock.
GrantUnseen(c) == /\ Move(c, "checked", "granted")
                  /\ inFlight' = inFlight + 1
                  /\ UNCHANGED <<shuttingDown, shut>>

\* The second look and the addition, under the lock.
Grant(c) == /\ ~shuttingDown
            /\ Move(c, "checked", "granted")
            /\ inFlight' = inFlight + 1
            /\ UNCHANGED <<shuttingDown, shut>>

Refuse(c) == /\ shuttingDown
             /\ Move(c, "checked", "out")
             /\ UNCHANGED <<shuttingDown, inFlight, shut>>

Attach(c) == Move(c, "granted", "inside") /\ UNCHANGED <<shuttingDown, inFlight, shut>>

\* Python::try_attach gives nothing once the interpreter ends, after its atexit hooks.
CannotAttach(c) == /\ shuttingDown
                   /\ Move(c, "granted", "left")
                   /\ UNCHANGED <<shuttingDown, inFlight, shut>>

Detach(c) == Move(c, "inside", "left") /\ UNCHANGED <<shuttingDown, inFlight, shut>>

\* NativeCallbackPermit::drop; a counter that is already zero shuts the gate.
Leave(c) == /\ Move(c, "left", "out")
            /\ inFlight' = IF inFlight > 0 THEN inFlight - 1 ELSE inFlight
            /\ shuttingDown' = (shuttingDown \/ inFlight = 0)
            /\ UNCHANGED shut

CloseGate == /\ inFlight = 0
             /\ shuttingDown' = TRUE /\ shut' = TRUE
             /\ UNCHANGED <<inFlight, call>>

CloseAtExit == shuttingDown' = TRUE /\ UNCHANGED <<inFlight, shut, call>>

Pass(c) == \/ Check(c) \/ Grant(c) \/ Refuse(c) \/ Attach(c)
           \/ CannotAttach(c) \/ Detach(c) \/ Leave(c)

Next == (\E c \in Calls : Pass(c)) \/ CloseGate \/ CloseAtExit

Spec == Init /\ [][Next]_gateVars

-----------------------------------------------------------------------------
Permits == {"granted", "inside", "left"}

Holders == {c \in Calls : call[c] \in Permits}

(* Every permit is counted, so that shutdown waits for it and none is      *)
(* given back twice (runtime.rs:45-55, 83-101).                            *)
PermitsCounted == inFlight = Cardinality(Holders)

(* Once `shutdown_python_callbacks' has shut the gate no callback is in    *)
(* Python or on its way there, ever, though callbacks look at the flag     *)
(* before they take the lock (README.md:1250-1262 of bindings/py,          *)
(* runtime.rs:79-101, 122-136).                                            *)
GateShut == shut => shuttingDown /\ Holders = {}

-----------------------------------------------------------------------------
(* Proofs, for every finite set of calls.  The invariant that carries them *)
(* is PermitsCounted: the counter that shutdown reads is the number of     *)
(* calls that hold a permit, so that zero means that nobody does.          *)

Inductive == /\ TypeOK /\ PermitsCounted
             /\ GateShut

LEMMA HoldersFinite ==
    ASSUME IsFiniteSet(Calls)
    PROVE  IsFiniteSet(Holders) /\ Cardinality(Holders) \in Nat
  BY FS_Subset, FS_CardinalityType DEF Holders

LEMMA InitInductive == Init => Inductive
<1> SUFFICES ASSUME Init PROVE Inductive
  OBVIOUS
<1>1. TypeOK
  BY DEF Init, TypeOK, Places
<1>2. Holders = {}
  BY DEF Init, Holders, Permits
<1>3. PermitsCounted
  BY <1>2, FS_EmptySet DEF Init, PermitsCounted
<1> QED
  BY <1>1, <1>2, <1>3 DEF Inductive, GateShut, Init

\* A call that stays on its side of the counter leaves the permits as they are.
LEMMA SameHolders ==
    ASSUME NEW c \in Calls, NEW from, NEW to, TypeOK, Move(c, from, to),
           from \in Permits <=> to \in Permits
    PROVE  Holders' = Holders
  BY DEF Holders, Move, TypeOK

LEMMA OneMore ==
    ASSUME NEW c \in Calls, TypeOK, Move(c, "checked", "granted")
    PROVE  Holders' = Holders \cup {c} /\ c \notin Holders
  BY DEF Holders, Move, TypeOK, Permits

LEMMA OneLess ==
    ASSUME NEW c \in Calls, TypeOK, Move(c, "left", "out")
    PROVE  Holders' = Holders \ {c} /\ c \in Holders
  BY DEF Holders, Move, TypeOK, Permits

LEMMA StepInductive ==
    ASSUME IsFiniteSet(Calls)
    PROVE  Inductive /\ [Next]_gateVars => Inductive'
<1> SUFFICES ASSUME Inductive, [Next]_gateVars PROVE Inductive'
  OBVIOUS
<1> USE DEF Inductive
<1>1. ASSUME NEW c \in Calls, Check(c) \/ Refuse(c) \/ Attach(c) \/ CannotAttach(c) \/ Detach(c)
      PROVE  Inductive'
  <2>1. Holders' = Holders
    <3>1. CASE Check(c)
      BY <3>1, SameHolders DEF Check, Permits
    <3>2. CASE Refuse(c)
      BY <3>2, SameHolders DEF Refuse, Permits
    <3>3. CASE Attach(c)
      BY <3>3, SameHolders DEF Attach, Permits
    <3>4. CASE CannotAttach(c)
      BY <3>4, SameHolders DEF CannotAttach, Permits
    <3>5. CASE Detach(c)
      BY <3>5, SameHolders DEF Detach, Permits
    <3> QED BY <1>1, <3>1, <3>2, <3>3, <3>4, <3>5
  <2>2. UNCHANGED <<shuttingDown, inFlight, shut>>
    BY <1>1 DEF Check, Refuse, Attach, CannotAttach, Detach
  <2>3. call' \in [Calls -> Places]
    BY <1>1 DEF Check, Refuse, Attach, CannotAttach, Detach, Move, TypeOK, Places
  <2> QED BY <2>1, <2>2, <2>3 DEF TypeOK, PermitsCounted, GateShut
<1>2. ASSUME NEW c \in Calls, Grant(c) PROVE Inductive'
  <2>1. Holders' = Holders \cup {c} /\ c \notin Holders
    BY <1>2, OneMore DEF Grant
  <2>2. Cardinality(Holders') = Cardinality(Holders) + 1
    BY <2>1, HoldersFinite, FS_AddElement
  <2>3. ~shut
    BY <1>2 DEF Grant, GateShut
  <2>4. TypeOK'
    BY <1>2 DEF Grant, Move, TypeOK, Places
  <2> QED BY <1>2, <2>2, <2>3, <2>4 DEF Grant, PermitsCounted, GateShut
<1>3. ASSUME NEW c \in Calls, Leave(c) PROVE Inductive'
  <2>1. Holders' = Holders \ {c} /\ c \in Holders
    BY <1>3, OneLess DEF Leave
  <2>2. Cardinality(Holders') = Cardinality(Holders) - 1
    BY <2>1, HoldersFinite, FS_RemoveElement
  <2>3. inFlight > 0
    BY <2>1, HoldersFinite, FS_EmptySet DEF PermitsCounted, TypeOK
  <2>4. TypeOK'
    BY <1>3 DEF Leave, Move, TypeOK, Places
  <2>5. PermitsCounted'
    BY <1>3, <2>2, <2>3 DEF Leave, PermitsCounted, TypeOK
  <2>6. GateShut'
    BY <1>3, <2>1 DEF Leave, GateShut
  <2> QED BY <2>4, <2>5, <2>6
<1>4. CASE CloseGate
  <2>1. Holders' = Holders
    BY <1>4 DEF CloseGate, Holders
  <2>2. Holders = {}
    BY <1>4, HoldersFinite, FS_EmptySet DEF CloseGate, PermitsCounted
  <2> QED BY <1>4, <2>1, <2>2 DEF CloseGate, TypeOK, PermitsCounted, GateShut
<1>5. CASE CloseAtExit
  <2>1. Holders' = Holders
    BY <1>5 DEF CloseAtExit, Holders
  <2> QED BY <1>5, <2>1 DEF CloseAtExit, TypeOK, PermitsCounted, GateShut
<1>6. CASE UNCHANGED gateVars
  BY <1>6 DEF gateVars, TypeOK, PermitsCounted, GateShut, Holders
<1> QED BY <1>1, <1>2, <1>3, <1>4, <1>5, <1>6 DEF Next, Pass

THEOREM InductiveHolds ==
    ASSUME IsFiniteSet(Calls)
    PROVE  Spec => []Inductive
  BY InitInductive, StepInductive, PTL DEF Spec

(* The counter of callbacks in flight is the number of permits that are    *)
(* out, however many callbacks come and go (runtime.rs:40-50, 84-101).     *)
THEOREM PermitsCountedHolds ==
    ASSUME IsFiniteSet(Calls)
    PROVE  Spec => []PermitsCounted
<1>1. Inductive => PermitsCounted
  BY DEF Inductive
<1> QED BY <1>1, InductiveHolds, PTL

(* After a successful shutdown no callback is in Python or on its way      *)
(* there (runtime.rs:79-101, 118-142).                                     *)
THEOREM GateShutHolds ==
    ASSUME IsFiniteSet(Calls)
    PROVE  Spec => []GateShut
<1>1. Inductive => GateShut
  BY DEF Inductive
<1> QED BY <1>1, InductiveHolds, PTL
=============================================================================
