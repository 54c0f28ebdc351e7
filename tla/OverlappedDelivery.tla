------------------------- MODULE OverlappedDelivery -------------------------
(***************************************************************************)
(* Delivery of OVERLAPPED completions to Node: bindings/js/src/win32_io.rs *)
(* composed with the threadsafe functions of ManagedTsfn (Tsfn!...), one   *)
(* for each operation.                                                     *)
(*                                                                         *)
(* The engine of Win32Io appears through what it guarantees: a submission  *)
(* that is accepted publishes one record, sooner or later, and one that is *)
(* refused publishes none.                                                 *)
(*                                                                         *)
(* The map of registrations holds one handle of each registered function:  *)
(* it is the actor Registry, which only has handles put in and taken out.  *)
(***************************************************************************)
EXTENDS Naturals, FiniteSets

CONSTANTS Ops, Js, Relay, Registry, NoOp,
          MaxCalls     \* bound of Tsfn: more calls than the relay should make

ASSUME ConstantsAssumption ==
    /\ Js \notin {Relay, Registry} /\ Relay # Registry
    /\ NoOp \notin Ops
    /\ MaxCalls \in Nat

VARIABLES open, handles, raw, holders, finalized, native, count, queue,
          made, dispatched, dropped, env, at, cur,   \* of Tsfn
          phase,     \* of start(), for each operation
          step, op,  \* what the environment's thread does outside Tsfn, and to what
          pending,   \* PENDING: operations whose Buffer is retained
          record,    \* where the native operation or its record is
          relaying,  \* the record the relay thread is at
          answers,   \* callbacks made with the outcome of the operation
          strays,    \* callbacks made without its delivery state
          cancelled  \* operations whose IoCancellation was used

tsfnVars == <<open, handles, raw, holders, finalized, native, count, queue,
              made, dispatched, dropped, env, at, cur>>
startVars == <<phase, step, op>>
doneVars  == <<answers, strays>>
vars == <<tsfnVars, startVars, pending, record, relaying, doneVars, cancelled>>

Tsfn == INSTANCE ManagedTsfn WITH Handles <- Ops, NoHandle <- NoOp, Weak <- {}, MaxQueue <- 1,
                                  Threads <- {Relay, Registry}

Phases  == {"prepared", "starting", "started", "failing", "failed"}
Starting == {"create", "retain", "register", "submit", "submitted"}
Retiring == {"unregister", "drop", "cleanup"}
Steps   == {"idle"} \cup Starting \cup Retiring
Records == {"prepared", "engine", "channel", "relay", "removed", "calling", "queued", "retired"}

TypeOK ==
    /\ Tsfn!TypeOK
    /\ phase \in [Ops -> Phases]
    /\ step \in Steps /\ op \in Ops \cup {NoOp}
    /\ pending \subseteq Ops /\ cancelled \subseteq Ops
    /\ record \in [Ops -> Records]
    /\ relaying \in Ops \cup {NoOp}
    /\ answers \in [Ops -> Nat] /\ strays \in [Ops -> Nat]

Init ==
    /\ Tsfn!Init
    /\ phase = [o \in Ops |-> "prepared"]
    /\ step = "idle" /\ op = NoOp
    /\ pending = {} /\ cancelled = {}
    /\ record = [o \in Ops |-> "prepared"]
    /\ relaying = NoOp
    /\ answers = [o \in Ops |-> 0] /\ strays = [o \in Ops |-> 0]

Registered(o) == Registry \in holders[o]
Put(o, place) == record' = [record EXCEPT ![o] = place]
Turn(o, to)   == phase' = [phase EXCEPT ![o] = to]
Do(o, next)   == step' = next /\ op' = o
Done          == Do(NoOp, "idle")

\* The environment's thread is in its loop, with no function of this module active.
JsIdle == step = "idle" /\ Tsfn!JsIdle

-----------------------------------------------------------------------------
(* start(), on the environment's thread *)

\* The task is taken: a second start finds none.
Start(o) ==
    /\ JsIdle /\ env = "running"
    /\ phase[o] = "prepared"
    /\ Turn(o, "starting") /\ Do(o, "create")
    /\ UNCHANGED <<tsfnVars, pending, record, relaying, doneVars, cancelled>>

\* Another environment's Buffer, no relay, or no identifier: the task is dropped.
StartRefused(o) ==
    /\ JsIdle /\ env = "running"
    /\ phase[o] = "prepared"
    /\ Turn(o, "failed") /\ Put(o, "retired")
    /\ UNCHANGED <<tsfnVars, step, op, pending, relaying, doneVars, cancelled>>

\* What every failure inside start() does with the task.
Throw == Turn(op, "failed") /\ Put(op, "retired")

CreateFunction ==
    /\ step = "create"
    /\ Tsfn!Create(op)
    /\ Do(op, "retain")
    /\ UNCHANGED <<phase, pending, record, relaying, doneVars, cancelled>>

\* The finalizer runs with nothing to unregister.
CannotCreate ==
    /\ step = "create"
    /\ Tsfn!CreateFails(op)
    /\ Throw /\ Done
    /\ cancelled' = cancelled \cup {op}
    /\ UNCHANGED <<pending, relaying, doneVars>>

\* Faulty variant: the Buffer is not retained.
RetainForgets ==
    /\ step = "retain"
    /\ Do(op, "register")
    /\ UNCHANGED <<tsfnVars, phase, pending, record, relaying, doneVars, cancelled>>

Retain ==
    /\ step = "retain"
    /\ pending' = pending \cup {op}
    /\ Do(op, "register")
    /\ UNCHANGED <<tsfnVars, phase, record, relaying, doneVars, cancelled>>

CannotRetain ==
    /\ step = "retain"
    /\ Tsfn!DropClone(Js, op)
    /\ Throw /\ Done
    /\ UNCHANGED <<pending, relaying, doneVars, cancelled>>

\* Faulty variant: the function is dropped instead of being registered.
RegisterDrops ==
    /\ step = "register"
    /\ Tsfn!DropClone(Js, op)
    /\ Do(op, "submit")
    /\ UNCHANGED <<phase, pending, record, relaying, doneVars, cancelled>>

Register ==
    /\ step = "register"
    /\ Tsfn!Move(op, Js, Registry)
    /\ Do(op, "submit")
    /\ UNCHANGED <<phase, pending, record, relaying, doneVars, cancelled>>

CannotRegister ==
    /\ step = "register"
    /\ Tsfn!DropClone(Js, op)
    /\ Throw /\ Done
    /\ pending' = pending \ {op}
    /\ UNCHANGED <<relaying, doneVars, cancelled>>

\* submit() accepts, and may publish the record before it returns.
Submit ==
    /\ step = "submit" /\ Tsfn!JsIdle
    /\ op \notin cancelled
    /\ Put(op, "engine") /\ Do(op, "submitted")
    /\ UNCHANGED <<tsfnVars, phase, pending, relaying, doneVars, cancelled>>

SubmitFails ==
    /\ step = "submit" /\ Tsfn!JsIdle
    /\ Turn(op, "failing") /\ Put(op, "retired") /\ Do(op, "unregister")
    /\ UNCHANGED <<tsfnVars, pending, relaying, doneVars, cancelled>>

SubmitReturns ==
    /\ step = "submitted"
    /\ Turn(op, "started") /\ Done
    /\ UNCHANGED <<tsfnVars, pending, record, relaying, doneVars, cancelled>>

-----------------------------------------------------------------------------
(* What a failed submission and the finalizer do: unregister, drop, take_pending. *)

Unregister ==
    /\ step = "unregister"
    /\ IF Registered(op) THEN Tsfn!Move(op, Registry, Js) /\ Do(op, "drop")
                         ELSE UNCHANGED tsfnVars /\ Do(op, "cleanup")
    /\ UNCHANGED <<phase, pending, record, relaying, doneVars, cancelled>>

DropHandle ==
    /\ step = "drop"
    /\ Tsfn!DropClone(Js, op)
    /\ Do(op, "cleanup")
    /\ UNCHANGED <<phase, pending, record, relaying, doneVars, cancelled>>

\* Faulty variants: the native operation is left to itself, or the Buffer is kept.
CleanupOnly ==
    /\ step = "cleanup" /\ Tsfn!JsIdle
    /\ pending' = pending \ {op}
    /\ Done
    /\ Turn(op, IF phase[op] = "failing" THEN "failed" ELSE phase[op])
    /\ UNCHANGED <<tsfnVars, record, relaying, doneVars, cancelled>>
CancelOnly ==
    /\ step = "cleanup" /\ Tsfn!JsIdle
    /\ cancelled' = IF finalized[op] > 0 THEN cancelled \cup {op} ELSE cancelled
    /\ Done
    /\ Turn(op, IF phase[op] = "failing" THEN "failed" ELSE phase[op])
    /\ UNCHANGED <<tsfnVars, pending, record, relaying, doneVars>>

\* The finalizer also cancels what the system still owns.
Cleanup ==
    /\ step = "cleanup" /\ Tsfn!JsIdle
    /\ pending' = pending \ {op}
    /\ cancelled' = IF finalized[op] > 0 THEN cancelled \cup {op} ELSE cancelled
    /\ Done
    /\ Turn(op, IF phase[op] = "failing" THEN "failed" ELSE phase[op])
    /\ UNCHANGED <<tsfnVars, record, relaying, doneVars>>

Cancel(o) ==
    /\ JsIdle /\ env = "running"
    /\ o \notin cancelled
    /\ cancelled' = cancelled \cup {o}
    /\ UNCHANGED <<tsfnVars, startVars, pending, record, relaying, doneVars>>

-----------------------------------------------------------------------------
(* The engine and the relay thread *)

EngineDelivers(o) ==
    /\ record[o] = "engine"
    /\ Put(o, "channel")
    /\ UNCHANGED <<tsfnVars, startVars, pending, relaying, doneVars, cancelled>>

Receive(o) ==
    /\ relaying = NoOp /\ at[Relay] = "idle"
    /\ record[o] = "channel"
    /\ Put(o, "relay") /\ relaying' = o
    /\ UNCHANGED <<tsfnVars, startVars, pending, doneVars, cancelled>>

\* The registration is taken under its lock; a record without one is dropped.
RemoveRegistration ==
    /\ relaying # NoOp /\ record[relaying] = "relay"
    /\ IF Registered(relaying)
          THEN /\ Tsfn!Move(relaying, Registry, Relay)
               /\ Put(relaying, "removed") /\ UNCHANGED relaying
          ELSE /\ UNCHANGED tsfnVars
               /\ Put(relaying, "retired") /\ relaying' = NoOp
    /\ UNCHANGED <<startVars, pending, doneVars, cancelled>>

\* ManagedTsfn::call takes the record and drops it when it is not accepted.
Notify ==
    /\ relaying # NoOp /\ record[relaying] = "removed"
    /\ Tsfn!BeginCall(Relay, relaying)
    /\ Put(relaying, IF open THEN "calling" ELSE "retired")
    /\ UNCHANGED <<startVars, pending, relaying, doneVars, cancelled>>

NotifyLoads ==
    /\ Tsfn!LoadRaw(Relay)
    /\ Put(relaying, IF relaying \in raw THEN "calling" ELSE "retired")
    /\ UNCHANGED <<startVars, pending, relaying, doneVars, cancelled>>

NotifyCalls ==
    /\ Tsfn!NativeCall(Relay)
    /\ Put(relaying, IF dropped' = dropped THEN "queued" ELSE "retired")
    /\ UNCHANGED <<startVars, pending, relaying, doneVars, cancelled>>

NotifyClears ==
    /\ Tsfn!ClearRaw(Relay)
    /\ UNCHANGED <<startVars, pending, record, relaying, doneVars, cancelled>>

\* The handle goes at the end of the loop's body.
ReleaseHandle ==
    /\ relaying # NoOp /\ record[relaying] \in {"queued", "retired"}
    /\ Tsfn!DropClone(Relay, relaying)
    /\ relaying' = NoOp
    /\ UNCHANGED <<startVars, pending, record, doneVars, cancelled>>

Dropping(a) ==
    /\ Tsfn!Dropping(a)
    /\ UNCHANGED <<startVars, pending, record, relaying, doneVars, cancelled>>

-----------------------------------------------------------------------------
(* Back on the environment's thread *)

\* completion_arguments takes the delivery state; the callback hears of it or of its lack.
Dispatch(o) ==
    /\ step = "idle"
    /\ Tsfn!Dispatch(o)
    /\ IF o \in pending
          THEN answers' = [answers EXCEPT ![o] = @ + 1] /\ UNCHANGED strays
          ELSE strays' = [strays EXCEPT ![o] = @ + 1] /\ UNCHANGED answers
    /\ pending' = pending \ {o}
    /\ Put(o, "retired")
    /\ UNCHANGED <<startVars, relaying, cancelled>>

\* What is queued is freed before the context's finalizer runs.
Finalize(o) ==
    /\ step = "idle"
    /\ Tsfn!FinalizeTsfn(o)
    /\ Do(o, "unregister")
    /\ IF queue[o] > 0 THEN Put(o, "retired") ELSE UNCHANGED record
    /\ UNCHANGED <<phase, pending, relaying, doneVars, cancelled>>

NodeStep(o) ==
    /\ step = "idle"
    /\ Tsfn!NodeCloses(o) \/ Tsfn!NodeHook(o) \/ Tsfn!AbortHandle(o)
    /\ UNCHANGED <<startVars, pending, record, relaying, doneVars, cancelled>>

EnvStep ==
    /\ step = "idle"
    /\ Tsfn!EnvCleanup \/ Tsfn!Teardown
    /\ UNCHANGED <<startVars, pending, record, relaying, doneVars, cancelled>>

-----------------------------------------------------------------------------
StartSteps == \/ CreateFunction \/ CannotCreate \/ Retain \/ CannotRetain \/ Register
              \/ CannotRegister \/ Submit \/ SubmitFails \/ SubmitReturns
RetireSteps == Unregister \/ DropHandle \/ Cleanup
RelaySteps == \/ \E o \in Ops : Receive(o)
              \/ RemoveRegistration \/ Notify \/ NotifyLoads \/ NotifyCalls \/ NotifyClears
              \/ ReleaseHandle
JsSteps(o) == Dispatch(o) \/ Finalize(o) \/ NodeStep(o)

Next ==
    \/ \E o \in Ops : Start(o) \/ StartRefused(o) \/ Cancel(o) \/ EngineDelivers(o) \/ JsSteps(o)
    \/ StartSteps \/ RetireSteps \/ RelaySteps
    \/ \E a \in {Js, Relay} : Dropping(a)
    \/ EnvStep

Spec == Init /\ [][Next]_vars

\* The relay thread runs on; the environment's thread finishes what it started, turns
\* its loop, and once it closes goes on closing; Windows completes an operation that
\* was cancelled (CancelledComesBack of Win32Io).
Fairness ==
    /\ WF_vars(RelaySteps) /\ WF_vars(StartSteps) /\ WF_vars(RetireSteps)
    /\ \A a \in {Js, Relay} : WF_vars(Dropping(a))
    /\ \A o \in Ops : /\ SF_vars(Dispatch(o)) /\ SF_vars(Finalize(o)) /\ SF_vars(NodeStep(o))
                      /\ WF_vars(o \in cancelled /\ EngineDelivers(o))
    /\ SF_vars(step = "idle" /\ Tsfn!Teardown /\ EnvStep)
FairSpec == Spec /\ Fairness

-----------------------------------------------------------------------------
(* The inductive invariant, beside that of Tsfn. *)

\* The environment's thread does one thing at a time, and starts only while it runs.
OneThing ==
    /\ step = "idle" <=> op = NoOp
    /\ \A o \in Ops : /\ phase[o] = "starting" <=> op = o /\ step \in Starting
                      /\ phase[o] = "failing" => op = o /\ step \in Retiring
                      /\ phase[o] \in {"starting", "failing"} => env = "running"
    /\ step \in Retiring => phase[op] = "failing" \/ finalized[op] = 1
    /\ step \notin {"idle", "cleanup"} => at[Js] = "idle"
    /\ at[Js] \in {"idle", "dropping", "releasing", "aborting"} /\ at[Registry] = "idle"

\* Who has a handle of an operation's function: the environment's thread while it starts
\* or retires it, the map of registrations, or the relay thread while it notifies.
JsHas(o) == op = o /\ step \in {"retain", "register", "drop"}
RegistryHas(o) ==
    \/ op = o /\ step = "submit"
    \/ phase[o] = "failing" /\ step = "unregister"
    \/ /\ record[o] \in {"engine", "channel", "relay"}
       /\ finalized[o] = 0 \/ (op = o /\ step = "unregister")
RelayHas(o) == relaying = o /\ record[o] # "relay"
HoldersKnown ==
    \A o \in Ops : /\ Js \in holders[o] <=> JsHas(o)
                   /\ Registry \in holders[o] <=> RegistryHas(o)
                   /\ Relay \in holders[o] <=> RelayHas(o)

\* A function is made after its start() began, and outlives it.
FreshKnown ==
    \A o \in Ops : /\ phase[o] = "prepared" \/ (op = o /\ step = "create")
                        => native[o] = "none" /\ finalized[o] = 0
                   /\ op = o /\ step \in Starting \ {"create"}
                        => native[o] # "none" /\ finalized[o] = 0

\* The record follows the submission, the relay thread and the queue of the function.
RecordsKnown ==
    \A o \in Ops :
        /\ record[o] = "prepared" <=>
               phase[o] = "prepared" \/ (phase[o] = "starting" /\ step # "submitted")
        /\ phase[o] \in {"failing", "failed"} => record[o] = "retired"
        /\ record[o] \in {"relay", "removed", "calling"} => relaying = o
        /\ relaying = o => record[o] \in {"relay", "removed", "calling", "queued", "retired"}
        /\ relaying = o => phase[o] = "started" \/ (op = o /\ step = "submitted")
        /\ queue[o] = IF record[o] = "queued" THEN 1 ELSE 0
        /\ record[o] = "calling" <=> at[Relay] \in {"loading", "calling"} /\ cur[Relay] = o
        /\ at[Relay] = "clearing" /\ cur[Relay] = o => relaying = o /\ record[o] = "retired"
        /\ record[o] = "queued" => native[o] \in {"open", "closing"}
        /\ record[o] \in {"engine", "channel", "relay"} /\ finalized[o] > 0 => env # "running"
        /\ record[o] = "queued" /\ env = "running" => native[o] = "open"

\* The Buffer is retained until the outcome, or until the finalizer, takes it.
PendingKnown ==
    \A o \in Ops :
        /\ o \in pending <=>
               \/ op = o /\ step \in {"register", "submit", "submitted"}
               \/ phase[o] = "failing"
               \/ phase[o] = "started" /\ answers[o] = 0 /\ (finalized[o] = 0 \/ op = o)
        /\ answers[o] = 0 \/ (answers[o] = 1 /\ phase[o] = "started" /\ record[o] = "retired")
        /\ strays[o] = 0
        /\ (phase[o] = "started" \/ (op = o /\ step = "submitted")) /\ record[o] = "retired"
              /\ answers[o] = 0 => env # "running"
        /\ finalized[o] = 1 /\ op # o /\ record[o] = "engine" => o \in cancelled

Inductive == /\ TypeOK /\ Tsfn!Inductive
             /\ OneThing /\ FreshKnown /\ HoldersKnown /\ RecordsKnown /\ PendingKnown

-----------------------------------------------------------------------------
(* Properties *)

\* A started operation calls back at most once, with its own outcome, and one whose
\* start() threw never does.
OneCallback ==
    \A o \in Ops : /\ answers[o] <= 1 /\ strays[o] = 0
                   /\ answers[o] = 1 => phase[o] = "started"

\* A start() that threw leaves no Buffer, no registration and no native operation.
FailedStartLeavesNothing ==
    \A o \in Ops : phase[o] = "failed" =>
        /\ record[o] = "retired" /\ answers[o] = 0
        /\ o \notin pending /\ ~Registered(o)

\* The event loop does not run dry while the application waits for a callback: the
\* function keeps its reference, or the call is queued.
LoopAliveUntilCallback ==
    \A o \in Ops : phase[o] = "started" /\ answers[o] = 0 /\ env = "running"
        => native[o] = "open" /\ (count[o] = 1 \/ queue[o] = 1)

\* What teardown finalized holds no Buffer, is not registered, and is not left running.
TeardownReleases ==
    \A o \in Ops : finalized[o] = 1 /\ op # o
        => /\ o \notin pending /\ ~Registered(o)
           /\ record[o] = "engine" => o \in cancelled

State(o) == IF phase[o] = "failing" THEN "starting"
            ELSE IF phase[o] # "started" THEN phase[o]
            ELSE IF answers[o] > 0 THEN "answered"
            ELSE IF finalized[o] > 0 /\ op # o THEN "abandoned" ELSE "running"
Abstract == INSTANCE DeliverySpec WITH state <- [o \in Ops |-> State(o)], held <- pending,
                                       closing <- env # "running"
\* Registration, relay and teardown keep what JavaScript is promised.
ImplementsDeliverySpec == Abstract!Spec

\* A cancelled operation calls back, unless its environment closes.
CancelledAnswers ==
    \A o \in Ops : phase[o] = "started" /\ o \in cancelled
                     ~> answers[o] = 1 \/ env # "running"
=============================================================================
