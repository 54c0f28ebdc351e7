---------------------- MODULE OverlappedDeliveryProofs ----------------------
(***************************************************************************)
(* Proofs about the delivery of OVERLAPPED completions, for any number of  *)
(* operations.  What ManagedTsfnProofs proves of threadsafe functions is   *)
(* taken over: every step here is a step of Tsfn or leaves it alone.       *)
(***************************************************************************)
EXTENDS OverlappedDelivery, FiniteSetTheorems, TLAPS

TsfnProofs == INSTANCE ManagedTsfnProofs WITH Handles <- Ops, NoHandle <- NoOp, Weak <- {}, MaxQueue <- 1,
                                  Threads <- {Relay, Registry}

-----------------------------------------------------------------------------
(* The composition *)

\* Tsfn and the module the proofs are about are the same instance.
LEMMA Same == /\ Tsfn!Init <=> TsfnProofs!Init
              /\ [Tsfn!Next]_Tsfn!vars <=> [TsfnProofs!Next]_TsfnProofs!vars
              /\ Tsfn!Inductive <=> TsfnProofs!Inductive
              /\ Tsfn!NoUseAfterFree <=> TsfnProofs!NoUseAfterFree
  BY Zenon DEF Tsfn!Actors, TsfnProofs!Actors, Tsfn!lifeVars, TsfnProofs!lifeVars,
      Tsfn!tsfnVars,
     TsfnProofs!tsfnVars, Tsfn!nodeVars, TsfnProofs!nodeVars, Tsfn!payVars, TsfnProofs!payVars,
     Tsfn!actVars, TsfnProofs!actVars, Tsfn!vars, TsfnProofs!vars, Tsfn!Reading,
     TsfnProofs!Reading, Tsfn!Steps, TsfnProofs!Steps, Tsfn!Natives, TsfnProofs!Natives,
     Tsfn!TypeOK, TsfnProofs!TypeOK, Tsfn!Init, TsfnProofs!Init, Tsfn!Goto, TsfnProofs!Goto,
     Tsfn!Return, TsfnProofs!Return, Tsfn!One, TsfnProofs!One, Tsfn!JsIdle, TsfnProofs!JsIdle,
     Tsfn!NoReader, TsfnProofs!NoReader, Tsfn!Fresh, TsfnProofs!Fresh, Tsfn!Create,
     TsfnProofs!Create, Tsfn!CreateFails, TsfnProofs!CreateFails, Tsfn!UnrefFails,
     TsfnProofs!UnrefFails, Tsfn!Share, TsfnProofs!Share, Tsfn!Move, TsfnProofs!Move,
     Tsfn!BeginCall, TsfnProofs!BeginCall, Tsfn!LoadRaw, TsfnProofs!LoadRaw, Tsfn!NativeCall,
     TsfnProofs!NativeCall, Tsfn!ClearRaw, TsfnProofs!ClearRaw, Tsfn!DropClone,
     TsfnProofs!DropClone, Tsfn!Unregister, TsfnProofs!Unregister, Tsfn!NativeRelease,
     TsfnProofs!NativeRelease, Tsfn!Dispatch, TsfnProofs!Dispatch, Tsfn!NodeCloses,
     TsfnProofs!NodeCloses, Tsfn!FinalizeTsfn, TsfnProofs!FinalizeTsfn, Tsfn!EnvCleanup,
     TsfnProofs!EnvCleanup, Tsfn!NodeHook, TsfnProofs!NodeHook, Tsfn!CloseLifecycle,
     TsfnProofs!CloseLifecycle, Tsfn!AbortHandle, TsfnProofs!AbortHandle, Tsfn!AbortDone,
     TsfnProofs!AbortDone, Tsfn!HooksDone, TsfnProofs!HooksDone, Tsfn!LoopCloses,
     TsfnProofs!LoopCloses, Tsfn!Calling, TsfnProofs!Calling, Tsfn!Dropping,
     TsfnProofs!Dropping, Tsfn!Teardown, TsfnProofs!Teardown, Tsfn!Next, TsfnProofs!Next,
     Tsfn!InCall, TsfnProofs!InCall, Tsfn!Clearing, TsfnProofs!Clearing, Tsfn!Releasing,
     TsfnProofs!Releasing, Tsfn!Using, TsfnProofs!Using, Tsfn!DroppedBy, TsfnProofs!DroppedBy,
     Tsfn!Lifecycle, TsfnProofs!Lifecycle, Tsfn!Handling, TsfnProofs!Handling, Tsfn!Registered,
     TsfnProofs!Registered, Tsfn!Quiet, TsfnProofs!Quiet, Tsfn!OneReference,
     TsfnProofs!OneReference, Tsfn!Finality, TsfnProofs!Finality, Tsfn!Inductive,
     TsfnProofs!Inductive, Tsfn!NoUseAfterFree, TsfnProofs!NoUseAfterFree,
     Tsfn!DroppedIsReleased, TsfnProofs!DroppedIsReleased, Tsfn!PayloadsFreedOnce,
     TsfnProofs!PayloadsFreedOnce, Tsfn!FinalizedOnce, TsfnProofs!FinalizedOnce

\* The relay thread and the map of registrations are the threads of Tsfn.
LEMMA TsfnAssumption == TsfnProofs!ConstantsAssumption
<1>1. IsFiniteSet({Relay}) /\ IsFiniteSet({Relay} \cup {Registry})
  BY FS_Singleton, FS_AddElement
<1>2. IsFiniteSet({Relay, Registry})
  <2>1. {Relay, Registry} = {Relay} \cup {Registry}
    OBVIOUS
  <2>2. QED
    BY <1>1, <2>1
<1>3. TsfnProofs!IsFiniteSet({Relay, Registry})
  BY <1>2, Zenon DEF IsFiniteSet, TsfnProofs!IsFiniteSet
<1>4. QED
  BY <1>3, ConstantsAssumption DEF TsfnProofs!ConstantsAssumption

LEMMA ActorsOf == Tsfn!Actors = {Js, Relay, Registry}
  BY DEF Tsfn!Actors

\* Every step is a step of the threadsafe functions or leaves them alone.
LEMMA StepOfTsfn ==
    ConstantsAssumption /\ op \in Ops \cup {NoOp} /\ (step # "idle" => op \in Ops)
                      /\ relaying \in Ops \cup {NoOp} /\ [Next]_vars => [Tsfn!Next]_Tsfn!vars
<1> SUFFICES ASSUME op \in Ops \cup {NoOp}, step # "idle" => op \in Ops,
                    relaying \in Ops \cup {NoOp}, [Next]_vars
             PROVE  [Tsfn!Next]_Tsfn!vars
  BY DEF Next
<1> USE ConstantsAssumption, ActorsOf DEF Do, Done
<1>1. ASSUME NEW o \in Ops, Start(o) PROVE [Tsfn!Next]_Tsfn!vars
  BY <1>1 DEF Start, Tsfn!vars, tsfnVars, Tsfn!lifeVars, Tsfn!tsfnVars, Tsfn!nodeVars,
      Tsfn!payVars, Tsfn!actVars
<1>2. ASSUME NEW o \in Ops, StartRefused(o) PROVE [Tsfn!Next]_Tsfn!vars
  BY <1>2 DEF StartRefused, Tsfn!vars, tsfnVars, Tsfn!lifeVars, Tsfn!tsfnVars, Tsfn!nodeVars,
      Tsfn!payVars, Tsfn!actVars
<1>3. ASSUME NEW o \in Ops, Cancel(o) PROVE [Tsfn!Next]_Tsfn!vars
  BY <1>3 DEF Cancel, Tsfn!vars, tsfnVars, Tsfn!lifeVars, Tsfn!tsfnVars, Tsfn!nodeVars,
      Tsfn!payVars, Tsfn!actVars
<1>4. ASSUME NEW o \in Ops, EngineDelivers(o) PROVE [Tsfn!Next]_Tsfn!vars
  BY <1>4 DEF EngineDelivers, Tsfn!vars, tsfnVars, Tsfn!lifeVars, Tsfn!tsfnVars,
      Tsfn!nodeVars, Tsfn!payVars, Tsfn!actVars
<1>5. ASSUME NEW o \in Ops, Dispatch(o) PROVE [Tsfn!Next]_Tsfn!vars
  BY <1>5 DEF Dispatch, Tsfn!Next, Tsfn!Calling
<1>6. ASSUME NEW o \in Ops, Finalize(o) PROVE [Tsfn!Next]_Tsfn!vars
  BY <1>6 DEF Finalize, Tsfn!Next, Tsfn!Calling
<1>7. ASSUME NEW o \in Ops, NodeStep(o) PROVE [Tsfn!Next]_Tsfn!vars
  BY <1>7 DEF NodeStep, Tsfn!Next
<1>8. ASSUME NEW o \in Ops, Receive(o) PROVE [Tsfn!Next]_Tsfn!vars
  BY <1>8 DEF Receive, Tsfn!vars, tsfnVars, Tsfn!lifeVars, Tsfn!tsfnVars, Tsfn!nodeVars,
      Tsfn!payVars, Tsfn!actVars
<1>9. CASE CreateFunction
  BY <1>9 DEF CreateFunction, Tsfn!Next, Tsfn!Calling
<1>10. CASE CannotCreate
  BY <1>10 DEF CannotCreate, Tsfn!Next, Tsfn!Calling
<1>11. CASE Retain
  BY <1>11 DEF Retain, Tsfn!vars, tsfnVars, Tsfn!lifeVars, Tsfn!tsfnVars, Tsfn!nodeVars,
      Tsfn!payVars, Tsfn!actVars
<1>12. CASE CannotRetain
  BY <1>12 DEF CannotRetain, Tsfn!Next, Tsfn!Calling
<1>13. CASE Register
  BY <1>13 DEF Register, Tsfn!Next, Tsfn!Calling
<1>14. CASE CannotRegister
  BY <1>14 DEF CannotRegister, Tsfn!Next, Tsfn!Calling
<1>15. CASE Submit
  BY <1>15 DEF Submit, Tsfn!vars, tsfnVars, Tsfn!lifeVars, Tsfn!tsfnVars, Tsfn!nodeVars,
      Tsfn!payVars, Tsfn!actVars
<1>16. CASE SubmitFails
  BY <1>16 DEF SubmitFails, Tsfn!vars, tsfnVars, Tsfn!lifeVars, Tsfn!tsfnVars, Tsfn!nodeVars,
      Tsfn!payVars, Tsfn!actVars
<1>17. CASE SubmitReturns
  BY <1>17 DEF SubmitReturns, Tsfn!vars, tsfnVars, Tsfn!lifeVars, Tsfn!tsfnVars,
      Tsfn!nodeVars, Tsfn!payVars, Tsfn!actVars
<1>18. CASE Unregister
  BY <1>18 DEF Unregister, Tsfn!Next, Starting, Retiring, Tsfn!vars, tsfnVars, Tsfn!lifeVars,
      Tsfn!tsfnVars, Tsfn!nodeVars, Tsfn!payVars, Tsfn!actVars
<1>19. CASE DropHandle
  BY <1>19 DEF DropHandle, Tsfn!Next, Tsfn!Calling
<1>20. CASE Cleanup
  BY <1>20 DEF Cleanup, Tsfn!vars, tsfnVars, Tsfn!lifeVars, Tsfn!tsfnVars, Tsfn!nodeVars,
      Tsfn!payVars, Tsfn!actVars
<1>21. CASE RemoveRegistration
  BY <1>21 DEF RemoveRegistration, Tsfn!Next, Starting, Retiring, Tsfn!vars, tsfnVars,
      Tsfn!lifeVars, Tsfn!tsfnVars, Tsfn!nodeVars, Tsfn!payVars, Tsfn!actVars
<1>22. CASE Notify
  BY <1>22 DEF Notify, Tsfn!Next, Tsfn!Calling
<1>23. CASE NotifyLoads
  BY <1>23 DEF NotifyLoads, Tsfn!Next, Tsfn!Calling
<1>24. CASE NotifyCalls
  BY <1>24 DEF NotifyCalls, Tsfn!Next, Tsfn!Calling
<1>25. CASE NotifyClears
  BY <1>25 DEF NotifyClears, Tsfn!Next, Tsfn!Calling
<1>26. CASE ReleaseHandle
  BY <1>26 DEF ReleaseHandle, Tsfn!Next, Tsfn!Calling
<1>27. ASSUME NEW a \in {Js, Relay}, Dropping(a) PROVE [Tsfn!Next]_Tsfn!vars
  BY <1>27 DEF Dropping, Tsfn!Next
<1>28. CASE EnvStep
  BY <1>28 DEF EnvStep, Tsfn!Next
<1>29. CASE UNCHANGED vars
  BY <1>29 DEF vars, Tsfn!vars, tsfnVars, Tsfn!lifeVars, Tsfn!tsfnVars, Tsfn!nodeVars,
      Tsfn!payVars, Tsfn!actVars
<1>30. QED
  BY <1>1, <1>2, <1>3, <1>4, <1>5, <1>6, <1>7, <1>8, <1>9, <1>10, <1>11, <1>12, <1>13, <1>14,
      <1>15, <1>16, <1>17, <1>18, <1>19, <1>20, <1>21, <1>22, <1>23, <1>24, <1>25, <1>26, <1>27, <1>28, <1>29
  DEF Next, StartSteps, RetireSteps, RelaySteps, JsSteps

\* What is proved of threadsafe functions holds here.
LEMMA TsfnInit == Tsfn!Init => Tsfn!Inductive
  BY TsfnAssumption, TsfnProofs!InductiveInit, Same DEF TsfnProofs!ConstantsAssumption

LEMMA TsfnStep == Tsfn!Inductive /\ [Tsfn!Next]_Tsfn!vars => Tsfn!Inductive'
<1>1. TsfnProofs!Inductive /\ [TsfnProofs!Next]_TsfnProofs!vars => TsfnProofs!Inductive'
  BY TsfnAssumption, TsfnProofs!InductiveStep DEF TsfnProofs!ConstantsAssumption
<1>2. Tsfn!Inductive' <=> TsfnProofs!Inductive'
  BY Same, PTL
<1>3. QED
  BY <1>1, <1>2, Same

\* What this module needs to know of the functions.
TsfnFacts ==
    /\ env \in {"running", "hooks", "closing", "gone"}
    /\ env = "running" => open
    /\ raw \subseteq Ops /\ handles \subseteq Ops
    /\ holders \in [Ops -> SUBSET {Js, Relay, Registry}]
    /\ finalized \in [Ops -> {0, 1}]
    /\ native \in [Ops -> {"none", "open", "closing", "closed"}]
    /\ count \in [Ops -> Nat] /\ queue \in [Ops -> Nat] /\ dropped \in [Ops -> Nat]
    /\ at \in [{Js, Relay, Registry} -> Tsfn!Steps]
    /\ cur \in [{Js, Relay, Registry} -> Ops \cup {NoOp}]
    /\ \A o \in Ops :
         /\ native[o] \in {"open", "closing"} => finalized[o] = 0
         /\ env = "running" /\ holders[o] # {} => o \in handles
         /\ env = "running" /\ o \in handles => o \in raw /\ native[o] = "open"
    /\ at[Js] = "aborting" => env = "hooks"
    /\ at[Relay] \in Tsfn!Reading => cur[Relay] \in Ops

LEMMA TsfnFactsHold == Tsfn!Inductive => TsfnFacts
<1> SUFFICES ASSUME Tsfn!Inductive PROVE TsfnFacts
  OBVIOUS
<1>1. Tsfn!TypeOK /\ Tsfn!Lifecycle /\ Tsfn!Registered /\ Tsfn!Finality
  BY DEF Tsfn!Inductive
<1>2. finalized \in [Ops -> {0, 1}]
  BY <1>1 DEF Tsfn!TypeOK, Tsfn!Finality
<1>3. QED
  BY <1>1, <1>2, ActorsOf DEF TsfnFacts, Tsfn!TypeOK, Tsfn!Natives, Tsfn!Lifecycle,
     Tsfn!Registered, Tsfn!Finality

-----------------------------------------------------------------------------
(* The invariant of this module, a part at a time. *)

Own ==
    /\ phase \in [Ops -> Phases]
    /\ step \in Steps /\ op \in Ops \cup {NoOp}
    /\ pending \subseteq Ops /\ cancelled \subseteq Ops
    /\ record \in [Ops -> Records]
    /\ relaying \in Ops \cup {NoOp}
    /\ answers \in [Ops -> Nat] /\ strays \in [Ops -> Nat]

\* The variables of this module keep their types.
LEMMA OwnStep ==
    Own /\ OneThing /\ TsfnFacts /\ [Next]_vars
        => Own'
<1> SUFFICES ASSUME Own, OneThing, TsfnFacts, [Next]_vars
             PROVE  Own'
  OBVIOUS
<1> USE ConstantsAssumption
    DEF Put, Turn, Do, Done, Registered, Starting, Retiring, Tsfn!Goto, Tsfn!Return,
        Tsfn!One, Own, OneThing, TsfnFacts, Phases, Steps, Records,
        vars, tsfnVars, startVars, doneVars, Tsfn!lifeVars, Tsfn!tsfnVars, Tsfn!nodeVars,
            Tsfn!payVars, Tsfn!actVars
<1>1. ASSUME NEW o \in Ops, Start(o) PROVE Own'  BY <1>1 DEF Start, JsIdle, Tsfn!JsIdle
<1>2. ASSUME NEW o \in Ops, StartRefused(o) PROVE Own'
  BY <1>2 DEF StartRefused, JsIdle, Tsfn!JsIdle
<1>3. ASSUME NEW o \in Ops, Cancel(o) PROVE Own'  BY <1>3 DEF Cancel, JsIdle, Tsfn!JsIdle
<1>4. ASSUME NEW o \in Ops, EngineDelivers(o) PROVE Own'  BY <1>4 DEF EngineDelivers
<1>5. ASSUME NEW o \in Ops, Dispatch(o) PROVE Own'
  BY <1>5 DEF Dispatch, Tsfn!Dispatch, Tsfn!JsIdle
<1>6. ASSUME NEW o \in Ops, Finalize(o) PROVE Own'
  BY <1>6 DEF Finalize, Tsfn!FinalizeTsfn, Tsfn!JsIdle
<1>7. ASSUME NEW o \in Ops, NodeStep(o) PROVE Own'
  BY <1>7 DEF NodeStep, Tsfn!NodeCloses, Tsfn!NodeHook, Tsfn!AbortHandle, Tsfn!JsIdle
<1>8. ASSUME NEW o \in Ops, Receive(o) PROVE Own'  BY <1>8 DEF Receive
<1>9. CASE CreateFunction  BY <1>9 DEF CreateFunction, Tsfn!Create, Tsfn!Fresh, Tsfn!JsIdle
<1>10. CASE CannotCreate
  BY <1>10 DEF CannotCreate, Throw, Tsfn!CreateFails, Tsfn!Fresh, Tsfn!JsIdle
<1>11. CASE Retain  BY <1>11 DEF Retain
<1>12. CASE CannotRetain  BY <1>12 DEF CannotRetain, Throw, Tsfn!DropClone
<1>13. CASE Register  BY <1>13 DEF Register, Tsfn!Move
<1>14. CASE CannotRegister  BY <1>14 DEF CannotRegister, Throw, Tsfn!DropClone
<1>15. CASE Submit  BY <1>15 DEF Submit, Tsfn!JsIdle
<1>16. CASE SubmitFails  BY <1>16 DEF SubmitFails, Tsfn!JsIdle
<1>17. CASE SubmitReturns  BY <1>17 DEF SubmitReturns
<1>18. CASE Unregister  BY <1>18 DEF Unregister, Tsfn!Move
<1>19. CASE DropHandle  BY <1>19 DEF DropHandle, Tsfn!DropClone
<1>20. CASE Cleanup  BY <1>20 DEF Cleanup, Tsfn!JsIdle
<1>21. CASE RemoveRegistration  BY <1>21 DEF RemoveRegistration, Tsfn!Move
<1>22. CASE Notify  BY <1>22 DEF Notify, Tsfn!BeginCall
<1>23. CASE NotifyLoads  BY <1>23 DEF NotifyLoads, Tsfn!LoadRaw
<1>24. CASE NotifyCalls  BY <1>24 DEF NotifyCalls, Tsfn!NativeCall
<1>25. CASE NotifyClears  BY <1>25 DEF NotifyClears, Tsfn!ClearRaw
<1>26. CASE ReleaseHandle  BY <1>26 DEF ReleaseHandle, Tsfn!DropClone
<1>27. ASSUME NEW a \in {Js, Relay}, Dropping(a) PROVE Own'
  BY <1>27 DEF Dropping, Tsfn!Dropping, Tsfn!Unregister, Tsfn!NativeRelease
<1>28. CASE EnvStep
  BY <1>28 DEF EnvStep, Tsfn!EnvCleanup, Tsfn!Teardown, Tsfn!CloseLifecycle, Tsfn!AbortDone,
      Tsfn!HooksDone, Tsfn!LoopCloses, Tsfn!JsIdle
<1>29. CASE UNCHANGED vars  BY <1>29
<1> HIDE DEF Own
<1>30. QED
  BY <1>1, <1>2, <1>3, <1>4, <1>5, <1>6, <1>7, <1>8, <1>9, <1>10, <1>11, <1>12, <1>13,
     <1>14, <1>15, <1>16, <1>17, <1>18, <1>19, <1>20, <1>21, <1>22, <1>23, <1>24, <1>25,
     <1>26, <1>27, <1>28, <1>29
  DEF Next, StartSteps, RetireSteps, RelaySteps, JsSteps

\* The environment's thread does one thing at a time.
LEMMA OneThingStep ==
    Own /\ OneThing /\ TsfnFacts /\ [Next]_vars
        => OneThing'
<1> SUFFICES ASSUME Own, OneThing, TsfnFacts, [Next]_vars
             PROVE  OneThing'
  OBVIOUS
<1> USE ConstantsAssumption
    DEF Put, Turn, Do, Done, Registered, Starting, Retiring, Tsfn!Goto, Tsfn!Return,
        Tsfn!One, Own, OneThing, TsfnFacts, Phases, Steps, Records, Tsfn!Steps, Tsfn!Reading,
        vars, tsfnVars, startVars, doneVars, Tsfn!lifeVars, Tsfn!tsfnVars, Tsfn!nodeVars,
            Tsfn!payVars, Tsfn!actVars
<1>1. ASSUME NEW o \in Ops, Start(o) PROVE OneThing'  BY <1>1 DEF Start, JsIdle, Tsfn!JsIdle
<1>2. ASSUME NEW o \in Ops, StartRefused(o) PROVE OneThing'
  BY <1>2 DEF StartRefused, JsIdle, Tsfn!JsIdle
<1>3. ASSUME NEW o \in Ops, Cancel(o) PROVE OneThing'  BY <1>3 DEF Cancel, JsIdle, Tsfn!JsIdle
<1>4. ASSUME NEW o \in Ops, EngineDelivers(o) PROVE OneThing'  BY <1>4 DEF EngineDelivers
<1>5. ASSUME NEW o \in Ops, Dispatch(o) PROVE OneThing'
  BY <1>5 DEF Dispatch, Tsfn!Dispatch, Tsfn!JsIdle
<1>6. ASSUME NEW o \in Ops, Finalize(o) PROVE OneThing'
  BY <1>6 DEF Finalize, Tsfn!FinalizeTsfn, Tsfn!JsIdle
<1>7. ASSUME NEW o \in Ops, NodeStep(o) PROVE OneThing'
  BY <1>7 DEF NodeStep, Tsfn!NodeCloses, Tsfn!NodeHook, Tsfn!AbortHandle, Tsfn!JsIdle
<1>8. ASSUME NEW o \in Ops, Receive(o) PROVE OneThing'  BY <1>8 DEF Receive
<1>9. CASE CreateFunction  BY <1>9 DEF CreateFunction, Tsfn!Create, Tsfn!Fresh, Tsfn!JsIdle
<1>10. CASE CannotCreate
  BY <1>10 DEF CannotCreate, Throw, Tsfn!CreateFails, Tsfn!Fresh, Tsfn!JsIdle
<1>11. CASE Retain  BY <1>11 DEF Retain
<1>12. CASE CannotRetain  BY <1>12 DEF CannotRetain, Throw, Tsfn!DropClone
<1>13. CASE Register  BY <1>13 DEF Register, Tsfn!Move
<1>14. CASE CannotRegister  BY <1>14 DEF CannotRegister, Throw, Tsfn!DropClone
<1>15. CASE Submit  BY <1>15 DEF Submit, Tsfn!JsIdle
<1>16. CASE SubmitFails  BY <1>16 DEF SubmitFails, Tsfn!JsIdle
<1>17. CASE SubmitReturns  BY <1>17 DEF SubmitReturns
<1>18. CASE Unregister  BY <1>18 DEF Unregister, Tsfn!Move
<1>19. CASE DropHandle  BY <1>19 DEF DropHandle, Tsfn!DropClone
<1>20. CASE Cleanup  BY <1>20 DEF Cleanup, Tsfn!JsIdle
<1>21. CASE RemoveRegistration  BY <1>21 DEF RemoveRegistration, Tsfn!Move
<1>22. CASE Notify  BY <1>22 DEF Notify, Tsfn!BeginCall
<1>23. CASE NotifyLoads  BY <1>23 DEF NotifyLoads, Tsfn!LoadRaw
<1>24. CASE NotifyCalls  BY <1>24 DEF NotifyCalls, Tsfn!NativeCall
<1>25. CASE NotifyClears  BY <1>25 DEF NotifyClears, Tsfn!ClearRaw
<1>26. CASE ReleaseHandle  BY <1>26 DEF ReleaseHandle, Tsfn!DropClone
<1>27. ASSUME NEW a \in {Js, Relay}, Dropping(a) PROVE OneThing'
  BY <1>27 DEF Dropping, Tsfn!Dropping, Tsfn!Unregister, Tsfn!NativeRelease
<1>28. CASE EnvStep
  BY <1>28 DEF EnvStep, Tsfn!EnvCleanup, Tsfn!Teardown, Tsfn!CloseLifecycle, Tsfn!AbortDone,
      Tsfn!HooksDone, Tsfn!LoopCloses, Tsfn!JsIdle
<1>29. CASE UNCHANGED vars  BY <1>29
<1> HIDE DEF OneThing
<1>30. QED
  BY <1>1, <1>2, <1>3, <1>4, <1>5, <1>6, <1>7, <1>8, <1>9, <1>10, <1>11, <1>12, <1>13,
     <1>14, <1>15, <1>16, <1>17, <1>18, <1>19, <1>20, <1>21, <1>22, <1>23, <1>24, <1>25,
     <1>26, <1>27, <1>28, <1>29
  DEF Next, StartSteps, RetireSteps, RelaySteps, JsSteps

\* A function is made after start() began, and outlives it.
LEMMA FreshStep ==
    Own /\ OneThing /\ TsfnFacts /\ FreshKnown /\ [Next]_vars
        => FreshKnown'
<1> SUFFICES ASSUME Own, OneThing, TsfnFacts, FreshKnown, [Next]_vars
             PROVE  FreshKnown'
  OBVIOUS
<1> USE ConstantsAssumption
    DEF Put, Turn, Do, Done, Registered, Starting, Retiring, Tsfn!Goto, Tsfn!Return,
        Tsfn!One, Own, OneThing, TsfnFacts, Phases, Steps, FreshKnown,
        vars, tsfnVars, startVars, doneVars, Tsfn!lifeVars, Tsfn!tsfnVars, Tsfn!nodeVars,
            Tsfn!payVars, Tsfn!actVars
<1>1. ASSUME NEW o \in Ops, Start(o) PROVE FreshKnown'  BY <1>1 DEF Start, JsIdle, Tsfn!JsIdle
<1>2. ASSUME NEW o \in Ops, StartRefused(o) PROVE FreshKnown'
  BY <1>2 DEF StartRefused, JsIdle, Tsfn!JsIdle
<1>3. ASSUME NEW o \in Ops, Cancel(o) PROVE FreshKnown'
  BY <1>3 DEF Cancel, JsIdle, Tsfn!JsIdle
<1>4. ASSUME NEW o \in Ops, EngineDelivers(o) PROVE FreshKnown'  BY <1>4 DEF EngineDelivers
<1>5. ASSUME NEW o \in Ops, Dispatch(o) PROVE FreshKnown'
  BY <1>5 DEF Dispatch, Tsfn!Dispatch, Tsfn!JsIdle
<1>6. ASSUME NEW o \in Ops, Finalize(o) PROVE FreshKnown'
  BY <1>6 DEF Finalize, Tsfn!FinalizeTsfn, Tsfn!JsIdle
<1>7. ASSUME NEW o \in Ops, NodeStep(o) PROVE FreshKnown'
  BY <1>7 DEF NodeStep, Tsfn!NodeCloses, Tsfn!NodeHook, Tsfn!AbortHandle, Tsfn!JsIdle
<1>8. ASSUME NEW o \in Ops, Receive(o) PROVE FreshKnown'  BY <1>8 DEF Receive
<1>9. CASE CreateFunction  BY <1>9 DEF CreateFunction, Tsfn!Create, Tsfn!Fresh, Tsfn!JsIdle
<1>10. CASE CannotCreate
  BY <1>10 DEF CannotCreate, Throw, Tsfn!CreateFails, Tsfn!Fresh, Tsfn!JsIdle
<1>11. CASE Retain  BY <1>11 DEF Retain
<1>12. CASE CannotRetain  BY <1>12 DEF CannotRetain, Throw, Tsfn!DropClone
<1>13. CASE Register  BY <1>13 DEF Register, Tsfn!Move
<1>14. CASE CannotRegister  BY <1>14 DEF CannotRegister, Throw, Tsfn!DropClone
<1>15. CASE Submit  BY <1>15 DEF Submit, Tsfn!JsIdle
<1>16. CASE SubmitFails  BY <1>16 DEF SubmitFails, Tsfn!JsIdle
<1>17. CASE SubmitReturns  BY <1>17 DEF SubmitReturns
<1>18. CASE Unregister  BY <1>18 DEF Unregister, Tsfn!Move
<1>19. CASE DropHandle  BY <1>19 DEF DropHandle, Tsfn!DropClone
<1>20. CASE Cleanup  BY <1>20 DEF Cleanup, Tsfn!JsIdle
<1>21. CASE RemoveRegistration  BY <1>21 DEF RemoveRegistration, Tsfn!Move
<1>22. CASE Notify  BY <1>22 DEF Notify, Tsfn!BeginCall
<1>23. CASE NotifyLoads  BY <1>23 DEF NotifyLoads, Tsfn!LoadRaw
<1>24. CASE NotifyCalls  BY <1>24 DEF NotifyCalls, Tsfn!NativeCall
<1>25. CASE NotifyClears  BY <1>25 DEF NotifyClears, Tsfn!ClearRaw
<1>26. CASE ReleaseHandle  BY <1>26 DEF ReleaseHandle, Tsfn!DropClone
<1>27. ASSUME NEW a \in {Js, Relay}, Dropping(a) PROVE FreshKnown'
  BY <1>27 DEF Dropping, Tsfn!Dropping, Tsfn!Unregister, Tsfn!NativeRelease
<1>28. CASE EnvStep
  BY <1>28 DEF EnvStep, Tsfn!EnvCleanup, Tsfn!Teardown, Tsfn!CloseLifecycle, Tsfn!AbortDone,
      Tsfn!HooksDone, Tsfn!LoopCloses, Tsfn!JsIdle
<1>29. CASE UNCHANGED vars  BY <1>29
<1> HIDE DEF FreshKnown
<1>30. QED
  BY <1>1, <1>2, <1>3, <1>4, <1>5, <1>6, <1>7, <1>8, <1>9, <1>10, <1>11, <1>12, <1>13,
     <1>14, <1>15, <1>16, <1>17, <1>18, <1>19, <1>20, <1>21, <1>22, <1>23, <1>24, <1>25,
     <1>26, <1>27, <1>28, <1>29
  DEF Next, StartSteps, RetireSteps, RelaySteps, JsSteps

\* Each operation's function has the holders its phase tells.
LEMMA HoldersStep ==
    Own /\ OneThing /\ TsfnFacts /\ FreshKnown /\ HoldersKnown /\ RecordsKnown /\ [Next]_vars
        => HoldersKnown'
<1> SUFFICES ASSUME Own, OneThing, TsfnFacts, FreshKnown, HoldersKnown, RecordsKnown,
    [Next]_vars
             PROVE  HoldersKnown'
  OBVIOUS
<1> USE ConstantsAssumption
    DEF Put, Turn, Do, Done, Registered, Starting, Retiring, Tsfn!Goto, Tsfn!Return,
        Tsfn!One, Own, OneThing, TsfnFacts, Phases, Steps, Records, HoldersKnown, JsHas, RegistryHas, RelayHas, FreshKnown, RecordsKnown, Tsfn!Steps, Tsfn!Reading,
        vars, tsfnVars, startVars, doneVars, Tsfn!lifeVars, Tsfn!tsfnVars, Tsfn!nodeVars,
            Tsfn!payVars, Tsfn!actVars
<1>1. ASSUME NEW o \in Ops, Start(o) PROVE HoldersKnown'
  BY <1>1 DEF Start, JsIdle, Tsfn!JsIdle
<1>2. ASSUME NEW o \in Ops, StartRefused(o) PROVE HoldersKnown'
  BY <1>2 DEF StartRefused, JsIdle, Tsfn!JsIdle
<1>3. ASSUME NEW o \in Ops, Cancel(o) PROVE HoldersKnown'
  BY <1>3 DEF Cancel, JsIdle, Tsfn!JsIdle
<1>4. ASSUME NEW o \in Ops, EngineDelivers(o) PROVE HoldersKnown'  BY <1>4 DEF EngineDelivers
<1>5. ASSUME NEW o \in Ops, Dispatch(o) PROVE HoldersKnown'
  BY <1>5 DEF Dispatch, Tsfn!Dispatch, Tsfn!JsIdle
<1>6. ASSUME NEW o \in Ops, Finalize(o) PROVE HoldersKnown'
  BY <1>6 DEF Finalize, Tsfn!FinalizeTsfn, Tsfn!JsIdle
<1>7. ASSUME NEW o \in Ops, NodeStep(o) PROVE HoldersKnown'
  BY <1>7 DEF NodeStep, Tsfn!NodeCloses, Tsfn!NodeHook, Tsfn!AbortHandle, Tsfn!JsIdle
<1>8. ASSUME NEW o \in Ops, Receive(o) PROVE HoldersKnown'  BY <1>8 DEF Receive
<1>9. CASE CreateFunction  BY <1>9 DEF CreateFunction, Tsfn!Create, Tsfn!Fresh, Tsfn!JsIdle
<1>10. CASE CannotCreate
  BY <1>10 DEF CannotCreate, Throw, Tsfn!CreateFails, Tsfn!Fresh, Tsfn!JsIdle
<1>11. CASE Retain  BY <1>11 DEF Retain
<1>12. CASE CannotRetain  BY <1>12 DEF CannotRetain, Throw, Tsfn!DropClone
<1>13. CASE Register  BY <1>13 DEF Register, Tsfn!Move
<1>14. CASE CannotRegister  BY <1>14 DEF CannotRegister, Throw, Tsfn!DropClone
<1>15. CASE Submit  BY <1>15 DEF Submit, Tsfn!JsIdle
<1>16. CASE SubmitFails  BY <1>16 DEF SubmitFails, Tsfn!JsIdle
<1>17. CASE SubmitReturns  BY <1>17 DEF SubmitReturns
<1>18. CASE Unregister  BY <1>18 DEF Unregister, Tsfn!Move
<1>19. CASE DropHandle  BY <1>19 DEF DropHandle, Tsfn!DropClone
<1>20. CASE Cleanup  BY <1>20 DEF Cleanup, Tsfn!JsIdle
<1>21. CASE RemoveRegistration  BY <1>21 DEF RemoveRegistration, Tsfn!Move
<1>22. CASE Notify
  <2>1. CASE open
    BY <1>22, <2>1, SMTT(30) DEF Notify, Tsfn!BeginCall
  <2>2. CASE ~open
    BY <1>22, <2>2, SMTT(30) DEF Notify, Tsfn!BeginCall
  <2>3. QED
    BY <2>1, <2>2
<1>23. CASE NotifyLoads
  <2>1. cur[Relay] = relaying /\ relaying \in Ops
    BY <1>23 DEF NotifyLoads, Tsfn!LoadRaw
  <2>2. CASE relaying \in raw
    BY <1>23, <2>1, <2>2, SMTT(30) DEF NotifyLoads, Tsfn!LoadRaw
  <2>3. CASE relaying \notin raw
    BY <1>23, <2>1, <2>3, SMTT(30) DEF NotifyLoads, Tsfn!LoadRaw
  <2>4. QED
    BY <2>2, <2>3
<1>24. CASE NotifyCalls  BY <1>24 DEF NotifyCalls, Tsfn!NativeCall
<1>25. CASE NotifyClears  BY <1>25 DEF NotifyClears, Tsfn!ClearRaw
<1>26. CASE ReleaseHandle  BY <1>26 DEF ReleaseHandle, Tsfn!DropClone
<1>27. ASSUME NEW a \in {Js, Relay}, Dropping(a) PROVE HoldersKnown'
  BY <1>27 DEF Dropping, Tsfn!Dropping, Tsfn!Unregister, Tsfn!NativeRelease
<1>28. CASE EnvStep
  BY <1>28 DEF EnvStep, Tsfn!EnvCleanup, Tsfn!Teardown, Tsfn!CloseLifecycle, Tsfn!AbortDone,
      Tsfn!HooksDone, Tsfn!LoopCloses, Tsfn!JsIdle
<1>29. CASE UNCHANGED vars  BY <1>29
<1> HIDE DEF HoldersKnown
<1>30. QED
  BY <1>1, <1>2, <1>3, <1>4, <1>5, <1>6, <1>7, <1>8, <1>9, <1>10, <1>11, <1>12, <1>13,
     <1>14, <1>15, <1>16, <1>17, <1>18, <1>19, <1>20, <1>21, <1>22, <1>23, <1>24, <1>25,
     <1>26, <1>27, <1>28, <1>29
  DEF Next, StartSteps, RetireSteps, RelaySteps, JsSteps

\* Each record is where its submission, the relay thread and the queue put it.
LEMMA RecordsStep ==
    Own /\ OneThing /\ TsfnFacts /\ FreshKnown /\ HoldersKnown /\ RecordsKnown /\ [Next]_vars
        => RecordsKnown'
<1> SUFFICES ASSUME Own, OneThing, TsfnFacts, FreshKnown, HoldersKnown, RecordsKnown,
    [Next]_vars
             PROVE  RecordsKnown'
  OBVIOUS
<1> USE ConstantsAssumption
    DEF Put, Turn, Do, Done, Registered, Starting, Retiring, Tsfn!Goto, Tsfn!Return,
        Tsfn!One, Own, OneThing, TsfnFacts, Phases, Steps, Records, HoldersKnown, JsHas, RegistryHas, RelayHas, FreshKnown, RecordsKnown, Tsfn!Steps, Tsfn!Reading,
        vars, tsfnVars, startVars, doneVars, Tsfn!lifeVars, Tsfn!tsfnVars, Tsfn!nodeVars,
            Tsfn!payVars, Tsfn!actVars
<1>1. ASSUME NEW o \in Ops, Start(o) PROVE RecordsKnown'
  BY <1>1 DEF Start, JsIdle, Tsfn!JsIdle
<1>2. ASSUME NEW o \in Ops, StartRefused(o) PROVE RecordsKnown'
  BY <1>2 DEF StartRefused, JsIdle, Tsfn!JsIdle
<1>3. ASSUME NEW o \in Ops, Cancel(o) PROVE RecordsKnown'
  BY <1>3 DEF Cancel, JsIdle, Tsfn!JsIdle
<1>4. ASSUME NEW o \in Ops, EngineDelivers(o) PROVE RecordsKnown'  BY <1>4 DEF EngineDelivers
<1>5. ASSUME NEW o \in Ops, Dispatch(o) PROVE RecordsKnown'
  BY <1>5 DEF Dispatch, Tsfn!Dispatch, Tsfn!JsIdle
<1>6. ASSUME NEW o \in Ops, Finalize(o) PROVE RecordsKnown'
  BY <1>6 DEF Finalize, Tsfn!FinalizeTsfn, Tsfn!JsIdle
<1>7. ASSUME NEW o \in Ops, NodeStep(o) PROVE RecordsKnown'
  BY <1>7 DEF NodeStep, Tsfn!NodeCloses, Tsfn!NodeHook, Tsfn!AbortHandle, Tsfn!JsIdle
<1>8. ASSUME NEW o \in Ops, Receive(o) PROVE RecordsKnown'  BY <1>8 DEF Receive
<1>9. CASE CreateFunction  BY <1>9 DEF CreateFunction, Tsfn!Create, Tsfn!Fresh, Tsfn!JsIdle
<1>10. CASE CannotCreate
  BY <1>10 DEF CannotCreate, Throw, Tsfn!CreateFails, Tsfn!Fresh, Tsfn!JsIdle
<1>11. CASE Retain  BY <1>11 DEF Retain
<1>12. CASE CannotRetain  BY <1>12 DEF CannotRetain, Throw, Tsfn!DropClone
<1>13. CASE Register  BY <1>13 DEF Register, Tsfn!Move
<1>14. CASE CannotRegister  BY <1>14 DEF CannotRegister, Throw, Tsfn!DropClone
<1>15. CASE Submit  BY <1>15 DEF Submit, Tsfn!JsIdle
<1>16. CASE SubmitFails  BY <1>16 DEF SubmitFails, Tsfn!JsIdle
<1>17. CASE SubmitReturns  BY <1>17 DEF SubmitReturns
<1>18. CASE Unregister  BY <1>18 DEF Unregister, Tsfn!Move
<1>19. CASE DropHandle  BY <1>19 DEF DropHandle, Tsfn!DropClone
<1>20. CASE Cleanup  BY <1>20 DEF Cleanup, Tsfn!JsIdle
<1>21. CASE RemoveRegistration  BY <1>21 DEF RemoveRegistration, Tsfn!Move
<1>22. CASE Notify
  <2>1. CASE open
    BY <1>22, <2>1, SMTT(30) DEF Notify, Tsfn!BeginCall
  <2>2. CASE ~open
    BY <1>22, <2>2, SMTT(30) DEF Notify, Tsfn!BeginCall
  <2>3. QED
    BY <2>1, <2>2
<1>23. CASE NotifyLoads
  <2>1. cur[Relay] = relaying /\ relaying \in Ops
    BY <1>23 DEF NotifyLoads, Tsfn!LoadRaw
  <2>2. CASE relaying \in raw
    BY <1>23, <2>1, <2>2, SMTT(30) DEF NotifyLoads, Tsfn!LoadRaw
  <2>3. CASE relaying \notin raw
    BY <1>23, <2>1, <2>3, SMTT(30) DEF NotifyLoads, Tsfn!LoadRaw
  <2>4. QED
    BY <2>2, <2>3
<1>24. CASE NotifyCalls  BY <1>24 DEF NotifyCalls, Tsfn!NativeCall
<1>25. CASE NotifyClears  BY <1>25 DEF NotifyClears, Tsfn!ClearRaw
<1>26. CASE ReleaseHandle  BY <1>26 DEF ReleaseHandle, Tsfn!DropClone
<1>27. ASSUME NEW a \in {Js, Relay}, Dropping(a) PROVE RecordsKnown'
  BY <1>27 DEF Dropping, Tsfn!Dropping, Tsfn!Unregister, Tsfn!NativeRelease
<1>28. CASE EnvStep
  BY <1>28 DEF EnvStep, Tsfn!EnvCleanup, Tsfn!Teardown, Tsfn!CloseLifecycle, Tsfn!AbortDone,
      Tsfn!HooksDone, Tsfn!LoopCloses, Tsfn!JsIdle
<1>29. CASE UNCHANGED vars  BY <1>29
<1> HIDE DEF RecordsKnown
<1>30. QED
  BY <1>1, <1>2, <1>3, <1>4, <1>5, <1>6, <1>7, <1>8, <1>9, <1>10, <1>11, <1>12, <1>13,
     <1>14, <1>15, <1>16, <1>17, <1>18, <1>19, <1>20, <1>21, <1>22, <1>23, <1>24, <1>25,
     <1>26, <1>27, <1>28, <1>29
  DEF Next, StartSteps, RetireSteps, RelaySteps, JsSteps

\* A Buffer is retained from retain() to the callback, the failure or the finalizer.
LEMMA PendingStep ==
    Own /\ OneThing /\ TsfnFacts /\ FreshKnown /\ HoldersKnown /\ RecordsKnown /\ PendingKnown /\ [Next]_vars
        => PendingKnown'
<1> SUFFICES ASSUME Own, OneThing, TsfnFacts, FreshKnown, HoldersKnown, RecordsKnown,
    PendingKnown, [Next]_vars
             PROVE  PendingKnown'
  OBVIOUS
<1> USE ConstantsAssumption
    DEF Put, Turn, Do, Done, Registered, Starting, Retiring, Tsfn!Goto, Tsfn!Return,
        Tsfn!One, Own, OneThing, TsfnFacts, Phases, Steps, Records, HoldersKnown, JsHas, RegistryHas, RelayHas, RecordsKnown, PendingKnown, FreshKnown, Tsfn!Steps, Tsfn!Reading,
        vars, tsfnVars, startVars, doneVars, Tsfn!lifeVars, Tsfn!tsfnVars, Tsfn!nodeVars,
            Tsfn!payVars, Tsfn!actVars
<1>1. ASSUME NEW o \in Ops, Start(o) PROVE PendingKnown'
  BY <1>1 DEF Start, JsIdle, Tsfn!JsIdle
<1>2. ASSUME NEW o \in Ops, StartRefused(o) PROVE PendingKnown'
  BY <1>2 DEF StartRefused, JsIdle, Tsfn!JsIdle
<1>3. ASSUME NEW o \in Ops, Cancel(o) PROVE PendingKnown'
  BY <1>3 DEF Cancel, JsIdle, Tsfn!JsIdle
<1>4. ASSUME NEW o \in Ops, EngineDelivers(o) PROVE PendingKnown'  BY <1>4 DEF EngineDelivers
<1>5. ASSUME NEW o \in Ops, Dispatch(o) PROVE PendingKnown'
  BY <1>5 DEF Dispatch, Tsfn!Dispatch, Tsfn!JsIdle
<1>6. ASSUME NEW o \in Ops, Finalize(o) PROVE PendingKnown'
  BY <1>6 DEF Finalize, Tsfn!FinalizeTsfn, Tsfn!JsIdle
<1>7. ASSUME NEW o \in Ops, NodeStep(o) PROVE PendingKnown'
  BY <1>7 DEF NodeStep, Tsfn!NodeCloses, Tsfn!NodeHook, Tsfn!AbortHandle, Tsfn!JsIdle
<1>8. ASSUME NEW o \in Ops, Receive(o) PROVE PendingKnown'  BY <1>8 DEF Receive
<1>9. CASE CreateFunction  BY <1>9 DEF CreateFunction, Tsfn!Create, Tsfn!Fresh, Tsfn!JsIdle
<1>10. CASE CannotCreate
  BY <1>10 DEF CannotCreate, Throw, Tsfn!CreateFails, Tsfn!Fresh, Tsfn!JsIdle
<1>11. CASE Retain  BY <1>11 DEF Retain
<1>12. CASE CannotRetain  BY <1>12 DEF CannotRetain, Throw, Tsfn!DropClone
<1>13. CASE Register  BY <1>13 DEF Register, Tsfn!Move
<1>14. CASE CannotRegister  BY <1>14 DEF CannotRegister, Throw, Tsfn!DropClone
<1>15. CASE Submit  BY <1>15 DEF Submit, Tsfn!JsIdle
<1>16. CASE SubmitFails  BY <1>16 DEF SubmitFails, Tsfn!JsIdle
<1>17. CASE SubmitReturns  BY <1>17 DEF SubmitReturns
<1>18. CASE Unregister  BY <1>18 DEF Unregister, Tsfn!Move
<1>19. CASE DropHandle  BY <1>19 DEF DropHandle, Tsfn!DropClone
<1>20. CASE Cleanup  BY <1>20 DEF Cleanup, Tsfn!JsIdle
<1>21. CASE RemoveRegistration  BY <1>21 DEF RemoveRegistration, Tsfn!Move
<1>22. CASE Notify
  <2>1. CASE open
    BY <1>22, <2>1, SMTT(30) DEF Notify, Tsfn!BeginCall
  <2>2. CASE ~open
    BY <1>22, <2>2, SMTT(30) DEF Notify, Tsfn!BeginCall
  <2>3. QED
    BY <2>1, <2>2
<1>23. CASE NotifyLoads
  <2>1. cur[Relay] = relaying /\ relaying \in Ops
    BY <1>23 DEF NotifyLoads, Tsfn!LoadRaw
  <2>2. CASE relaying \in raw
    BY <1>23, <2>1, <2>2, SMTT(30) DEF NotifyLoads, Tsfn!LoadRaw
  <2>3. CASE relaying \notin raw
    BY <1>23, <2>1, <2>3, SMTT(30) DEF NotifyLoads, Tsfn!LoadRaw
  <2>4. QED
    BY <2>2, <2>3
<1>24. CASE NotifyCalls  BY <1>24 DEF NotifyCalls, Tsfn!NativeCall
<1>25. CASE NotifyClears  BY <1>25 DEF NotifyClears, Tsfn!ClearRaw
<1>26. CASE ReleaseHandle  BY <1>26 DEF ReleaseHandle, Tsfn!DropClone
<1>27. ASSUME NEW a \in {Js, Relay}, Dropping(a) PROVE PendingKnown'
  BY <1>27 DEF Dropping, Tsfn!Dropping, Tsfn!Unregister, Tsfn!NativeRelease
<1>28. CASE EnvStep
  BY <1>28 DEF EnvStep, Tsfn!EnvCleanup, Tsfn!Teardown, Tsfn!CloseLifecycle, Tsfn!AbortDone,
      Tsfn!HooksDone, Tsfn!LoopCloses, Tsfn!JsIdle
<1>29. CASE UNCHANGED vars  BY <1>29
<1> HIDE DEF PendingKnown
<1>30. QED
  BY <1>1, <1>2, <1>3, <1>4, <1>5, <1>6, <1>7, <1>8, <1>9, <1>10, <1>11, <1>12, <1>13,
     <1>14, <1>15, <1>16, <1>17, <1>18, <1>19, <1>20, <1>21, <1>22, <1>23, <1>24, <1>25,
     <1>26, <1>27, <1>28, <1>29
  DEF Next, StartSteps, RetireSteps, RelaySteps, JsSteps

LEMMA OwnOfType == TypeOK <=> Tsfn!TypeOK /\ Own
  BY DEF TypeOK, Own

-----------------------------------------------------------------------------
(* The theorems *)

\* The invariant holds before the first start().
LEMMA InductiveInit == Init => Inductive
<1> SUFFICES ASSUME Init PROVE Inductive
  OBVIOUS
<1>1. Tsfn!Init
  BY DEF Init
<1>2. Tsfn!Inductive
  BY <1>1, TsfnInit
<1>3. Tsfn!TypeOK /\ TsfnFacts
  BY <1>2, TsfnFactsHold DEF Tsfn!Inductive
<1>4. Own
  BY DEF Init, Own, Phases, Steps, Records
<1>5. /\ at = [a \in {Js, Relay, Registry} |-> "idle"]
      /\ holders = [o \in Ops |-> {}] /\ queue = [o \in Ops |-> 0]
      /\ native = [o \in Ops |-> "none"] /\ finalized = [o \in Ops |-> 0]
  BY <1>1, ActorsOf DEF Tsfn!Init
<1>6. OneThing
  BY <1>5, ConstantsAssumption DEF Init, OneThing, Starting, Retiring
<1>7. FreshKnown
  BY <1>5, ConstantsAssumption DEF Init, FreshKnown, Starting
<1>8. HoldersKnown
  BY <1>5, ConstantsAssumption DEF Init, HoldersKnown, JsHas, RegistryHas, RelayHas
<1>9. RecordsKnown
  BY <1>5, ConstantsAssumption DEF Init, RecordsKnown
<1>10. PendingKnown
  BY <1>5, ConstantsAssumption DEF Init, PendingKnown
<1>11. QED
  BY <1>2, <1>3, <1>4, <1>6, <1>7, <1>8, <1>9, <1>10, OwnOfType DEF Inductive

\* The parts of the invariant keep each other, and those of the threadsafe functions.
LEMMA InductiveStep == Inductive /\ [Next]_vars => Inductive'
<1> SUFFICES ASSUME Inductive, [Next]_vars PROVE Inductive'
  OBVIOUS
<1>1. /\ Tsfn!Inductive /\ OneThing /\ FreshKnown /\ HoldersKnown
      /\ RecordsKnown /\ PendingKnown /\ Own
  BY OwnOfType DEF Inductive
<1>2. TsfnFacts
  BY <1>1, TsfnFactsHold
<1>3. Own' /\ OneThing' /\ FreshKnown'
  BY <1>1, <1>2, OwnStep, OneThingStep, FreshStep
<1>4. HoldersKnown' /\ RecordsKnown' /\ PendingKnown'
  BY <1>1, <1>2, HoldersStep, RecordsStep, PendingStep
<1>5. [Tsfn!Next]_Tsfn!vars
  <2>1. op \in Ops \cup {NoOp} /\ (step # "idle" => op \in Ops) /\ relaying \in Ops \cup {NoOp}
    BY <1>1 DEF Own, OneThing
  <2>2. QED
    BY <1>1, <2>1, StepOfTsfn, ConstantsAssumption
<1>6. Tsfn!Inductive'
  BY <1>1, <1>5, TsfnStep
<1>7. Tsfn!TypeOK'
  BY <1>6 DEF Tsfn!Inductive
<1>8. TypeOK'
  BY <1>3, <1>7 DEF TypeOK, Own
<1>9. QED
  BY <1>3, <1>4, <1>6, <1>8 DEF Inductive

\* For any number of operations, whatever the order of start(), completion,
\* cancellation and teardown.
THEOREM InductiveInvariant == Spec => []Inductive
  BY InductiveInit, InductiveStep, PTL DEF Spec

\* Every variable of the composition keeps its type.
THEOREM TypeCorrect == Spec => []TypeOK
<1>1. Inductive => TypeOK
  BY DEF Inductive
<1>2. QED
  BY <1>1, InductiveInvariant, PTL

\* The environment's thread, the relay thread and teardown use the functions only as
\* ManagedTsfn lets them, so what is proved of it holds of them.
THEOREM UsesTsfn == Spec => Tsfn!Spec
<1>1. Init => Tsfn!Init
  BY DEF Init
<1>2. Inductive /\ [Next]_vars => [Tsfn!Next]_Tsfn!vars
  <2> SUFFICES ASSUME Inductive, [Next]_vars PROVE [Tsfn!Next]_Tsfn!vars
    OBVIOUS
  <2>1. op \in Ops \cup {NoOp} /\ (step # "idle" => op \in Ops) /\ relaying \in Ops \cup {NoOp}
    BY DEF Inductive, TypeOK, OneThing
  <2>2. QED
    BY <2>1, StepOfTsfn, ConstantsAssumption
<1>3. QED
  BY <1>1, <1>2, InductiveInvariant, PTL DEF Spec, Tsfn!Spec

\* No relay or teardown touches a function of Node that was closed and freed.
THEOREM NoUseAfterFreeHolds == Spec => []Tsfn!NoUseAfterFree
<1>1. TsfnProofs!Spec => []TsfnProofs!NoUseAfterFree
  BY TsfnAssumption, TsfnProofs!NoUseAfterFreeHolds DEF TsfnProofs!ConstantsAssumption
<1>2. Tsfn!Spec => []Tsfn!NoUseAfterFree
  BY <1>1, Same, PTL DEF Tsfn!Spec, TsfnProofs!Spec
<1>3. QED
  BY <1>2, UsesTsfn, PTL

\* However the record, the submission and teardown race, a started operation calls
\* back at most once, with its own outcome, and one whose start() threw never does.
THEOREM OneCallbackHolds == Spec => []OneCallback
<1>1. Inductive => OneCallback
  BY DEF Inductive, TypeOK, PendingKnown, OneCallback
<1>2. QED
  BY <1>1, InductiveInvariant, PTL

\* A start() that threw leaves no Buffer, no registration and no native operation.
THEOREM FailedStartLeavesNothingHolds == Spec => []FailedStartLeavesNothing
<1>1. Inductive => FailedStartLeavesNothing
  BY DEF Inductive, TypeOK, OneThing, HoldersKnown, RegistryHas, RecordsKnown, PendingKnown,
     Registered, Starting, Retiring, FailedStartLeavesNothing
<1>2. QED
  BY <1>1, InductiveInvariant, PTL

\* The event loop does not run dry while the application waits for a callback.
THEOREM LoopAliveHolds == Spec => []LoopAliveUntilCallback
<1>1. Inductive => LoopAliveUntilCallback
  <2> SUFFICES ASSUME Inductive, NEW o \in Ops,
                      phase[o] = "started", answers[o] = 0, env = "running"
               PROVE  native[o] = "open" /\ (count[o] = 1 \/ queue[o] = 1)
    BY DEF LoopAliveUntilCallback
  <2>1. Tsfn!Inductive /\ TsfnFacts /\ OneThing /\ HoldersKnown /\ RecordsKnown /\ PendingKnown /\ Own
    BY TsfnFactsHold, OwnOfType DEF Inductive
  <2>2. record[o] \in {"engine", "channel", "relay", "removed", "calling", "queued"}
    BY <2>1 DEF Own, Records, RecordsKnown, PendingKnown
  <2>3. CASE record[o] = "queued"
    BY <2>1, <2>3 DEF RecordsKnown
  <2>4. CASE record[o] # "queued"
    <3>1. holders[o] # {}
      <4>1. CASE record[o] \in {"engine", "channel", "relay"}
        BY <2>1, <4>1 DEF TsfnFacts, RecordsKnown, HoldersKnown, RegistryHas
      <4>2. CASE record[o] \in {"removed", "calling"}
        BY <2>1, <4>2 DEF RecordsKnown, HoldersKnown, RelayHas
      <4>3. QED
        BY <2>2, <2>4, <4>1, <4>2
    <3>2. o \in raw /\ o \in handles /\ native[o] = "open"
      BY <2>1, <3>1 DEF TsfnFacts
    <3>3. Tsfn!Clearing(o) = {}
      BY <2>1, <3>2 DEF Tsfn!Inductive, Tsfn!Registered
    <3>4. count[o] = 1
      BY <2>1, <3>2, <3>3 DEF Tsfn!Inductive, Tsfn!OneReference
    <3>5. QED
      BY <3>2, <3>4
  <2>5. QED
    BY <2>3, <2>4
<1>2. QED
  BY <1>1, InductiveInvariant, PTL

\* What teardown finalized holds no Buffer, is not registered, and is not left running.
THEOREM TeardownReleasesHolds == Spec => []TeardownReleases
<1>1. Inductive => TeardownReleases
  BY DEF Inductive, TypeOK, OneThing, HoldersKnown, RegistryHas, PendingKnown, Registered,
     Retiring, TeardownReleases
<1>2. QED
  BY <1>1, InductiveInvariant, PTL

-----------------------------------------------------------------------------
(* Refinement *)

\* A step changes what JavaScript sees of one operation as one action of the promise.
LEMMA StatesChange ==
    ASSUME NEW q \in Ops, NEW to, State(q)' = to,
           \A o \in Ops \ {q} : State(o)' = State(o)
    PROVE  [o \in Ops |-> State(o)]' = [[o \in Ops |-> State(o)] EXCEPT ![q] = to]
  OBVIOUS

LEMMA StatesStay ==
    ASSUME \A o \in Ops : State(o)' = State(o)
    PROVE  [o \in Ops |-> State(o)]' = [o \in Ops |-> State(o)]
  OBVIOUS

LEMMA FailedIsFailed ==
    ASSUME NEW q \in Ops, phase'[q] = "failed"
    PROVE  State(q)' = "failed"
  BY DEF State

\* The environment, as the promise sees it.
LEMMA Closes == /\ env' = env => (env # "running")' = (env # "running")
                /\ env # "running" /\ env' # "running" => (env # "running")' = (env # "running")
  OBVIOUS

LEMMA Unseen ==
    ASSUME \A o \in Ops : State(o)' = State(o), pending' = pending, env' = env
    PROVE  [Abstract!Next]_Abstract!vars
  BY StatesStay, Closes DEF Abstract!vars

LEMMA SeenHold ==
    ASSUME NEW q \in Ops, State(q) = "starting", \A o \in Ops : State(o)' = State(o),
           pending' = pending \cup {q}, env' = env
    PROVE  [Abstract!Next]_Abstract!vars
<1>1. Abstract!Hold(q)
  BY StatesStay, Closes DEF Abstract!Hold
<1>2. QED
  BY <1>1 DEF Abstract!Next

LEMMA SeenClose ==
    ASSUME \A o \in Ops : State(o)' = State(o), pending' = pending, env' # "running"
    PROVE  [Abstract!Next]_Abstract!vars
<1>1. (env # "running")' = TRUE
  OBVIOUS
<1>2. Abstract!Close
  BY <1>1, StatesStay DEF Abstract!Close
<1>3. QED
  BY <1>2 DEF Abstract!Next

LEMMA SeenBegin ==
    ASSUME NEW q \in Ops, State(q) = "prepared", State(q)' = "starting",
           \A o \in Ops \ {q} : State(o)' = State(o), pending' = pending, env' = env
    PROVE  [Abstract!Next]_Abstract!vars
<1>1. [o \in Ops |-> State(o)]' = [[o \in Ops |-> State(o)] EXCEPT ![q] = "starting"]
  BY StatesChange
<1>2. Abstract!Begin(q)
  BY <1>1, Closes DEF Abstract!Begin, Abstract!Change
<1>3. QED
  BY <1>2 DEF Abstract!Next

LEMMA SeenFail ==
    ASSUME NEW q \in Ops, State(q) \in {"prepared", "starting"}, State(q)' = "failed",
           \A o \in Ops \ {q} : State(o)' = State(o), pending' = pending \ {q}, env' = env
    PROVE  [Abstract!Next]_Abstract!vars
<1>1. [o \in Ops |-> State(o)]' = [[o \in Ops |-> State(o)] EXCEPT ![q] = "failed"]
  BY StatesChange
<1>2. Abstract!Fail(q)
  BY <1>1, Closes DEF Abstract!Fail, Abstract!Change
<1>3. QED
  BY <1>2 DEF Abstract!Next

LEMMA SeenRun ==
    ASSUME NEW q \in Ops, State(q) = "starting", State(q)' = "running",
           \A o \in Ops \ {q} : State(o)' = State(o), pending' = pending, env' = env, q \in pending
    PROVE  [Abstract!Next]_Abstract!vars
<1>1. [o \in Ops |-> State(o)]' = [[o \in Ops |-> State(o)] EXCEPT ![q] = "running"]
  BY StatesChange
<1>2. Abstract!Run(q)
  BY <1>1, Closes DEF Abstract!Run, Abstract!Change
<1>3. QED
  BY <1>2 DEF Abstract!Next

LEMMA SeenAnswer ==
    ASSUME NEW q \in Ops, State(q) = "running", State(q)' = "answered",
           \A o \in Ops \ {q} : State(o)' = State(o), pending' = pending \ {q}, env' = env, q \in pending
    PROVE  [Abstract!Next]_Abstract!vars
<1>1. [o \in Ops |-> State(o)]' = [[o \in Ops |-> State(o)] EXCEPT ![q] = "answered"]
  BY StatesChange
<1>2. Abstract!Answer(q)
  BY <1>1, Closes DEF Abstract!Answer, Abstract!Change
<1>3. QED
  BY <1>2 DEF Abstract!Next

LEMMA SeenAbandon ==
    ASSUME NEW q \in Ops, State(q) = "running", State(q)' = "abandoned",
           \A o \in Ops \ {q} : State(o)' = State(o), pending' = pending \ {q}, env' = env, q \in pending,
           env # "running"
    PROVE  [Abstract!Next]_Abstract!vars
<1>1. [o \in Ops |-> State(o)]' = [[o \in Ops |-> State(o)] EXCEPT ![q] = "abandoned"]
  BY StatesChange
<1>2. Abstract!Abandon(q)
  BY <1>1, Closes DEF Abstract!Abandon, Abstract!Change
<1>3. QED
  BY <1>2 DEF Abstract!Next

\* Every step is one action of the promise, or is not seen.
LEMMA StepOfPromise == Inductive /\ [Next]_vars => [Abstract!Next]_Abstract!vars
<1> SUFFICES ASSUME Inductive, [Next]_vars PROVE [Abstract!Next]_Abstract!vars
  OBVIOUS
<1>0. /\ Own /\ TsfnFacts /\ OneThing /\ FreshKnown /\ HoldersKnown /\ RecordsKnown
      /\ PendingKnown
  BY OwnOfType, TsfnFactsHold DEF Inductive
<1> USE <1>0, ConstantsAssumption
    DEF Put, Turn, Do, Done, Registered, Starting, Retiring, Tsfn!Goto, Tsfn!Return,
        Tsfn!One, State,
        Own, TsfnFacts, Phases, Steps, Records, OneThing, FreshKnown, HoldersKnown, JsHas,
            RegistryHas, RelayHas, RecordsKnown, PendingKnown,
        vars, tsfnVars, startVars, doneVars, Tsfn!lifeVars, Tsfn!tsfnVars, Tsfn!nodeVars,
            Tsfn!payVars, Tsfn!actVars
<1>1. ASSUME NEW o \in Ops, Start(o)
      PROVE  [Abstract!Next]_Abstract!vars
  <2>1. State(o) \in {"prepared"} /\ o \in Ops
    BY <1>1 DEF Start, JsIdle, Tsfn!JsIdle
  <2>2. State(o)' = "starting" /\ \A o1 \in Ops \ {o} : State(o1)' = State(o1)
    BY <1>1 DEF Start, JsIdle, Tsfn!JsIdle
  <2>3. pending' = pending /\ env' = env
    BY <1>1 DEF Start, JsIdle, Tsfn!JsIdle
  <2>4. QED
    BY <2>1, <2>2, <2>3, SeenBegin
<1>2. ASSUME NEW o \in Ops, StartRefused(o)
      PROVE  [Abstract!Next]_Abstract!vars
  <2>1. State(o) \in {"prepared"} /\ o \in Ops
    BY <1>2 DEF StartRefused, JsIdle, Tsfn!JsIdle
  <2>2. State(o)' = "failed" /\ \A o1 \in Ops \ {o} : State(o1)' = State(o1)
    BY <1>2 DEF StartRefused, JsIdle, Tsfn!JsIdle
  <2>3. pending' = pending \ {o} /\ env' = env
    BY <1>2 DEF StartRefused, JsIdle, Tsfn!JsIdle
  <2>4. QED
    BY <2>1, <2>2, <2>3, SeenFail
<1>3. ASSUME NEW o \in Ops, Cancel(o)
      PROVE  [Abstract!Next]_Abstract!vars
  <2>1. \A o1 \in Ops : State(o1)' = State(o1)
    BY <1>3 DEF Cancel, JsIdle, Tsfn!JsIdle
  <2>2. pending' = pending /\ env' = env
    BY <1>3 DEF Cancel, JsIdle, Tsfn!JsIdle
  <2>3. QED
    BY <2>1, <2>2, Unseen
<1>4. ASSUME NEW o \in Ops, EngineDelivers(o)
      PROVE  [Abstract!Next]_Abstract!vars
  <2>1. \A o1 \in Ops : State(o1)' = State(o1)
    BY <1>4 DEF EngineDelivers
  <2>2. pending' = pending /\ env' = env
    BY <1>4 DEF EngineDelivers
  <2>3. QED
    BY <2>1, <2>2, Unseen
<1>5. ASSUME NEW o \in Ops, Dispatch(o)
      PROVE  [Abstract!Next]_Abstract!vars
  <2>1. State(o) \in {"running"} /\ o \in Ops
    BY <1>5 DEF Dispatch, Tsfn!Dispatch, Tsfn!JsIdle
  <2>2. State(o)' = "answered" /\ \A o1 \in Ops \ {o} : State(o1)' = State(o1)
    BY <1>5 DEF Dispatch, Tsfn!Dispatch, Tsfn!JsIdle
  <2>3. pending' = pending \ {o} /\ env' = env /\ o \in pending
    BY <1>5 DEF Dispatch, Tsfn!Dispatch, Tsfn!JsIdle
  <2>4. QED
    BY <2>1, <2>2, <2>3, SeenAnswer
<1>6. ASSUME NEW o \in Ops, Finalize(o)
      PROVE  [Abstract!Next]_Abstract!vars
  <2>1. \A o1 \in Ops : State(o1)' = State(o1)
    BY <1>6 DEF Finalize, Tsfn!FinalizeTsfn, Tsfn!JsIdle
  <2>2. pending' = pending /\ env' = env
    BY <1>6 DEF Finalize, Tsfn!FinalizeTsfn, Tsfn!JsIdle
  <2>3. QED
    BY <2>1, <2>2, Unseen
<1>7. ASSUME NEW o \in Ops, NodeStep(o)
      PROVE  [Abstract!Next]_Abstract!vars
  <2>1. \A o1 \in Ops : State(o1)' = State(o1)
    BY <1>7 DEF NodeStep, Tsfn!NodeCloses, Tsfn!NodeHook, Tsfn!AbortHandle, Tsfn!JsIdle
  <2>2. pending' = pending /\ env' = env
    BY <1>7 DEF NodeStep, Tsfn!NodeCloses, Tsfn!NodeHook, Tsfn!AbortHandle, Tsfn!JsIdle
  <2>3. QED
    BY <2>1, <2>2, Unseen
<1>8. ASSUME NEW o \in Ops, Receive(o)
      PROVE  [Abstract!Next]_Abstract!vars
  <2>1. \A o1 \in Ops : State(o1)' = State(o1)
    BY <1>8 DEF Receive
  <2>2. pending' = pending /\ env' = env
    BY <1>8 DEF Receive
  <2>3. QED
    BY <2>1, <2>2, Unseen
<1>9. CASE CreateFunction
  <2>1. \A o1 \in Ops : State(o1)' = State(o1)
    BY <1>9 DEF CreateFunction, Tsfn!Create, Tsfn!Fresh, Tsfn!JsIdle
  <2>2. pending' = pending /\ env' = env
    BY <1>9 DEF CreateFunction, Tsfn!Create, Tsfn!Fresh, Tsfn!JsIdle
  <2>3. QED
    BY <2>1, <2>2, Unseen
<1>10. CASE CannotCreate
  <2>0. PICK q \in Ops : q = op
    BY <1>10 DEF CannotCreate, Throw, Tsfn!CreateFails, Tsfn!Fresh, Tsfn!JsIdle
  <2>1. State(q) \in {"starting"}
    BY <1>10, <2>0 DEF CannotCreate, Throw, Tsfn!CreateFails, Tsfn!Fresh, Tsfn!JsIdle
  <2>2. phase'[q] = "failed" /\ \A o1 \in Ops \ {q} : phase'[o1] = phase[o1]
    BY <1>10, <2>0 DEF CannotCreate, Throw, Tsfn!CreateFails, Tsfn!Fresh, Tsfn!JsIdle
  <2>3. answers' = answers /\ op' = NoOp /\ \A o1 \in Ops \ {q} : finalized'[o1] = finalized[o1]
    BY <1>10, <2>0 DEF CannotCreate, Throw, Tsfn!CreateFails, Tsfn!Fresh, Tsfn!JsIdle
  <2>4. State(q)' = "failed"
    BY <2>2, FailedIsFailed
  <2>5. \A o1 \in Ops \ {q} : State(o1)' = State(o1)
    BY <2>0, <2>2, <2>3
  <2>6. pending' = pending \ {q} /\ env' = env
    BY <1>10, <2>0 DEF CannotCreate, Throw, Tsfn!CreateFails, Tsfn!Fresh, Tsfn!JsIdle
  <2>7. QED
    BY <2>1, <2>4, <2>5, <2>6, SeenFail
<1>11. CASE Retain
  <2>1. \A o1 \in Ops : State(o1)' = State(o1)
    BY <1>11 DEF Retain
  <2>2. pending' = pending \cup {op} /\ env' = env /\ State(op) = "starting" /\ op \in Ops
    BY <1>11 DEF Retain
  <2>3. QED
    BY <2>1, <2>2, SeenHold
<1>12. CASE CannotRetain
  <2>0. PICK q \in Ops : q = op
    BY <1>12 DEF CannotRetain, Throw, Tsfn!DropClone
  <2>1. State(q) \in {"starting"} /\ q \in Ops
    BY <1>12, <2>0 DEF CannotRetain, Throw, Tsfn!DropClone
  <2>2. State(q)' = "failed" /\ \A o1 \in Ops \ {q} : State(o1)' = State(o1)
    BY <1>12, <2>0 DEF CannotRetain, Throw, Tsfn!DropClone
  <2>3. pending' = pending \ {q} /\ env' = env
    BY <1>12, <2>0 DEF CannotRetain, Throw, Tsfn!DropClone
  <2>4. QED
    BY <2>1, <2>2, <2>3, SeenFail
<1>13. CASE Register
  <2>1. \A o1 \in Ops : State(o1)' = State(o1)
    BY <1>13 DEF Register, Tsfn!Move
  <2>2. pending' = pending /\ env' = env
    BY <1>13 DEF Register, Tsfn!Move
  <2>3. QED
    BY <2>1, <2>2, Unseen
<1>14. CASE CannotRegister
  <2>0. PICK q \in Ops : q = op
    BY <1>14 DEF CannotRegister, Throw, Tsfn!DropClone
  <2>1. State(q) \in {"starting"} /\ q \in Ops
    BY <1>14, <2>0 DEF CannotRegister, Throw, Tsfn!DropClone
  <2>2. State(q)' = "failed" /\ \A o1 \in Ops \ {q} : State(o1)' = State(o1)
    BY <1>14, <2>0 DEF CannotRegister, Throw, Tsfn!DropClone
  <2>3. pending' = pending \ {q} /\ env' = env
    BY <1>14, <2>0 DEF CannotRegister, Throw, Tsfn!DropClone
  <2>4. QED
    BY <2>1, <2>2, <2>3, SeenFail
<1>15. CASE Submit
  <2>1. \A o1 \in Ops : State(o1)' = State(o1)
    BY <1>15 DEF Submit, Tsfn!JsIdle
  <2>2. pending' = pending /\ env' = env
    BY <1>15 DEF Submit, Tsfn!JsIdle
  <2>3. QED
    BY <2>1, <2>2, Unseen
<1>16. CASE SubmitFails
  <2>1. \A o1 \in Ops : State(o1)' = State(o1)
    BY <1>16 DEF SubmitFails, Tsfn!JsIdle
  <2>2. pending' = pending /\ env' = env
    BY <1>16 DEF SubmitFails, Tsfn!JsIdle
  <2>3. QED
    BY <2>1, <2>2, Unseen
<1>17. CASE SubmitReturns
  <2>0. PICK q \in Ops : q = op
    BY <1>17 DEF SubmitReturns
  <2>1. State(q) \in {"starting"} /\ q \in Ops
    BY <1>17, <2>0 DEF SubmitReturns
  <2>2. State(q)' = "running" /\ \A o1 \in Ops \ {q} : State(o1)' = State(o1)
    BY <1>17, <2>0 DEF SubmitReturns
  <2>3. pending' = pending /\ env' = env /\ q \in pending
    BY <1>17, <2>0 DEF SubmitReturns
  <2>4. QED
    BY <2>1, <2>2, <2>3, SeenRun
<1>18. CASE Unregister
  <2>1. \A o1 \in Ops : State(o1)' = State(o1)
    BY <1>18 DEF Unregister, Tsfn!Move
  <2>2. pending' = pending /\ env' = env
    BY <1>18 DEF Unregister, Tsfn!Move
  <2>3. QED
    BY <2>1, <2>2, Unseen
<1>19. CASE DropHandle
  <2>1. \A o1 \in Ops : State(o1)' = State(o1)
    BY <1>19 DEF DropHandle, Tsfn!DropClone
  <2>2. pending' = pending /\ env' = env
    BY <1>19 DEF DropHandle, Tsfn!DropClone
  <2>3. QED
    BY <2>1, <2>2, Unseen
<1>20. CASE Cleanup
  <2>0. PICK q \in Ops : q = op
    BY <1>20 DEF Cleanup, Tsfn!JsIdle
  <2>1. pending' = pending \ {q} /\ env' = env
    BY <1>20, <2>0 DEF Cleanup, Tsfn!JsIdle
  <2>2. \A o1 \in Ops \ {q} : State(o1)' = State(o1)
    BY <1>20, <2>0 DEF Cleanup, Tsfn!JsIdle
  <2>3. CASE phase[q] = "failing"
    <3>1. State(q) = "starting"
      BY <2>3
    <3>2. phase'[q] = "failed"
      BY <1>20, <2>0, <2>3 DEF Cleanup, Tsfn!JsIdle
    <3>3. State(q)' = "failed"
      BY <3>2, FailedIsFailed
    <3>4. QED
      BY <2>1, <2>2, <3>1, <3>3, SeenFail
  <2>4. CASE phase[q] = "started" /\ answers[q] = 0
    <3>1. State(q) = "running" /\ State(q)' = "abandoned"
      BY <1>20, <2>0, <2>4 DEF Cleanup, Tsfn!JsIdle
    <3>2. env # "running" /\ q \in pending
      BY <1>20, <2>0, <2>4 DEF Cleanup, Tsfn!JsIdle
    <3>3. QED
      BY <2>1, <2>2, <3>1, <3>2, SeenAbandon
  <2>5. CASE ~(phase[q] = "failing" \/ (phase[q] = "started" /\ answers[q] = 0))
    <3>1. q \notin pending
      BY <1>20, <2>0, <2>5 DEF Cleanup, Tsfn!JsIdle
    <3>2. phase'[q] = phase[q] /\ answers' = answers /\ finalized' = finalized
      BY <1>20, <2>0, <2>5 DEF Cleanup, Tsfn!JsIdle
    <3>3. phase[q] = "failed" \/ (phase[q] = "started" /\ answers[q] > 0)
      BY <1>20, <2>0, <2>5 DEF Cleanup, Tsfn!JsIdle
    <3>4. State(q)' = State(q)
      BY <3>2, <3>3
    <3>5. QED
      BY <2>1, <2>2, <3>1, <3>4, Unseen
  <2>6. QED
    BY <2>3, <2>4, <2>5
<1>21. CASE RemoveRegistration
  <2>1. \A o1 \in Ops : State(o1)' = State(o1)
    BY <1>21 DEF RemoveRegistration, Tsfn!Move
  <2>2. pending' = pending /\ env' = env
    BY <1>21 DEF RemoveRegistration, Tsfn!Move
  <2>3. QED
    BY <2>1, <2>2, Unseen
<1>22. CASE Notify
  <2>1. \A o1 \in Ops : State(o1)' = State(o1)
    BY <1>22 DEF Notify, Tsfn!BeginCall
  <2>2. pending' = pending /\ env' = env
    BY <1>22 DEF Notify, Tsfn!BeginCall
  <2>3. QED
    BY <2>1, <2>2, Unseen
<1>23. CASE NotifyLoads
  <2>1. \A o1 \in Ops : State(o1)' = State(o1)
    BY <1>23 DEF NotifyLoads, Tsfn!LoadRaw
  <2>2. pending' = pending /\ env' = env
    BY <1>23 DEF NotifyLoads, Tsfn!LoadRaw
  <2>3. QED
    BY <2>1, <2>2, Unseen
<1>24. CASE NotifyCalls
  <2>1. \A o1 \in Ops : State(o1)' = State(o1)
    BY <1>24 DEF NotifyCalls, Tsfn!NativeCall
  <2>2. pending' = pending /\ env' = env
    BY <1>24 DEF NotifyCalls, Tsfn!NativeCall
  <2>3. QED
    BY <2>1, <2>2, Unseen
<1>25. CASE NotifyClears
  <2>1. \A o1 \in Ops : State(o1)' = State(o1)
    BY <1>25 DEF NotifyClears, Tsfn!ClearRaw
  <2>2. pending' = pending /\ env' = env
    BY <1>25 DEF NotifyClears, Tsfn!ClearRaw
  <2>3. QED
    BY <2>1, <2>2, Unseen
<1>26. CASE ReleaseHandle
  <2>1. \A o1 \in Ops : State(o1)' = State(o1)
    BY <1>26 DEF ReleaseHandle, Tsfn!DropClone
  <2>2. pending' = pending /\ env' = env
    BY <1>26 DEF ReleaseHandle, Tsfn!DropClone
  <2>3. QED
    BY <2>1, <2>2, Unseen
<1>27. ASSUME NEW a \in {Js, Relay}, Dropping(a)
      PROVE  [Abstract!Next]_Abstract!vars
  <2>1. \A o1 \in Ops : State(o1)' = State(o1)
    BY <1>27 DEF Dropping, Tsfn!Dropping, Tsfn!Unregister, Tsfn!NativeRelease
  <2>2. pending' = pending /\ env' = env
    BY <1>27 DEF Dropping, Tsfn!Dropping, Tsfn!Unregister, Tsfn!NativeRelease
  <2>3. QED
    BY <2>1, <2>2, Unseen
<1>28. CASE EnvStep
  <2>1. \A o1 \in Ops : State(o1)' = State(o1)
    BY <1>28 DEF EnvStep, Tsfn!EnvCleanup, Tsfn!Teardown, Tsfn!CloseLifecycle,
        Tsfn!AbortDone, Tsfn!HooksDone, Tsfn!LoopCloses, Tsfn!JsIdle
  <2>2. pending' = pending
    BY <1>28 DEF EnvStep, Tsfn!EnvCleanup, Tsfn!Teardown, Tsfn!CloseLifecycle,
        Tsfn!AbortDone, Tsfn!HooksDone, Tsfn!LoopCloses, Tsfn!JsIdle
  <2>3. CASE Tsfn!EnvCleanup
    BY <2>1, <2>2, <2>3, SeenClose DEF Tsfn!EnvCleanup
  <2>4. CASE Tsfn!Teardown
    <3>1. env # "running" /\ env' # "running"
      BY <2>4 DEF Tsfn!Teardown, Tsfn!CloseLifecycle, Tsfn!AbortDone, Tsfn!HooksDone,
          Tsfn!LoopCloses
    <3>2. QED
      BY <2>1, <2>2, <3>1, StatesStay, Closes DEF Abstract!vars
  <2>5. QED
    BY <1>28, <2>3, <2>4 DEF EnvStep
<1>29. CASE UNCHANGED vars
  <2>1. \A o1 \in Ops : State(o1)' = State(o1)
    BY <1>29
  <2>2. pending' = pending /\ env' = env
    BY <1>29
  <2>3. QED
    BY <2>1, <2>2, Unseen
<1> HIDE DEF State
<1>30. QED
  BY <1>1, <1>2, <1>3, <1>4, <1>5, <1>6, <1>7, <1>8, <1>9, <1>10, <1>11, <1>12, <1>13,
     <1>14, <1>15, <1>16, <1>17, <1>18, <1>19, <1>20, <1>21, <1>22, <1>23, <1>24, <1>25,
     <1>26, <1>27, <1>28, <1>29
  DEF Next, StartSteps, RetireSteps, RelaySteps, JsSteps

\* Registration, relay, callback and teardown keep what JavaScript is promised, for any
\* number of operations.
THEOREM Refinement == Spec => ImplementsDeliverySpec
<1>1. Init => Abstract!Init
  <2> SUFFICES ASSUME Init PROVE Abstract!Init
    OBVIOUS
  <2>1. env = "running" /\ finalized = [o \in Ops |-> 0]
    BY DEF Init, Tsfn!Init
  <2>2. \A o \in Ops : State(o) = "prepared"
    BY <2>1 DEF Init, State
  <2>3. [o \in Ops |-> State(o)] = [o \in Ops |-> "prepared"]
    BY <2>2
  <2>4. (env # "running") = FALSE
    BY <2>1
  <2>5. QED
    BY <2>3, <2>4 DEF Abstract!Init, Init
<1>2. QED
  BY <1>1, StepOfPromise, InductiveInvariant, PTL DEF Spec, ImplementsDeliverySpec,
      Abstract!Spec

=============================================================================
