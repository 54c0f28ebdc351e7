----------------------- MODULE ComCompletionProofs -----------------------
(***************************************************************************)
(* Proofs about one-shot COM activations, for any number of activations    *)
(* and of threads.  What ManagedTsfnProofs proves of threadsafe functions  *)
(* is taken over: every step is a step of Tsfn, leaves it alone, or is a   *)
(* call that Node refuses, which keeps its invariant too.                  *)
(***************************************************************************)
EXTENDS ComCompletion, FiniteSetTheorems, TLAPS

TsfnProofs == INSTANCE ManagedTsfnProofs WITH
                  Handles <- Tokens, NoHandle <- NoToken, Weak <- {}, MaxQueue <- 1,
                  Threads <- NativeThreads \cup {Closure}

-----------------------------------------------------------------------------
(* The composition *)

\* Tsfn and the module the proofs are about are the same instance.
LEMMA Same == /\ Tsfn!Init <=> TsfnProofs!Init
              /\ [Tsfn!Next]_Tsfn!vars <=> [TsfnProofs!Next]_TsfnProofs!vars
              /\ Tsfn!Inductive <=> TsfnProofs!Inductive
              /\ Tsfn!NoUseAfterFree <=> TsfnProofs!NoUseAfterFree
  BY Zenon DEF Tsfn!Actors, TsfnProofs!Actors, Tsfn!lifeVars, TsfnProofs!lifeVars,
      Tsfn!tsfnVars,
     TsfnProofs!tsfnVars, Tsfn!nodeVars, TsfnProofs!nodeVars, Tsfn!payVars, TsfnProofs!payVars,
     Tsfn!actVars, TsfnProofs!actVars, Tsfn!vars, TsfnProofs!vars, Tsfn!Reading,
     TsfnProofs!Reading, Tsfn!Steps, TsfnProofs!Steps, Tsfn!Natives, TsfnProofs!Natives,
     Tsfn!TypeOK, TsfnProofs!TypeOK, Tsfn!Init, TsfnProofs!Init, Tsfn!Goto, TsfnProofs!Goto,
     Tsfn!Return, TsfnProofs!Return, Tsfn!One, TsfnProofs!One, Tsfn!JsIdle, TsfnProofs!JsIdle,
     Tsfn!NoReader, TsfnProofs!NoReader, Tsfn!Fresh, TsfnProofs!Fresh, Tsfn!Create,
     TsfnProofs!Create, Tsfn!CreateFails, TsfnProofs!CreateFails, Tsfn!UnrefFails,
     TsfnProofs!UnrefFails, Tsfn!Share, TsfnProofs!Share, Tsfn!Move, TsfnProofs!Move,
     Tsfn!BeginCall, TsfnProofs!BeginCall, Tsfn!LoadRaw, TsfnProofs!LoadRaw, Tsfn!NativeCall,
     TsfnProofs!NativeCall, Tsfn!ClearRaw, TsfnProofs!ClearRaw, Tsfn!DropClone,
     TsfnProofs!DropClone, Tsfn!Unregister, TsfnProofs!Unregister, Tsfn!NativeRelease,
     TsfnProofs!NativeRelease, Tsfn!Dispatch, TsfnProofs!Dispatch, Tsfn!NodeCloses,
     TsfnProofs!NodeCloses, Tsfn!FinalizeTsfn, TsfnProofs!FinalizeTsfn, Tsfn!EnvCleanup,
     TsfnProofs!EnvCleanup, Tsfn!NodeHook, TsfnProofs!NodeHook, Tsfn!CloseLifecycle,
     TsfnProofs!CloseLifecycle, Tsfn!AbortHandle, TsfnProofs!AbortHandle, Tsfn!AbortDone,
     TsfnProofs!AbortDone, Tsfn!HooksDone, TsfnProofs!HooksDone, Tsfn!LoopCloses,
     TsfnProofs!LoopCloses, Tsfn!Calling, TsfnProofs!Calling, Tsfn!Dropping,
     TsfnProofs!Dropping, Tsfn!Teardown, TsfnProofs!Teardown, Tsfn!Next, TsfnProofs!Next,
     Tsfn!InCall, TsfnProofs!InCall, Tsfn!Clearing, TsfnProofs!Clearing, Tsfn!Releasing,
     TsfnProofs!Releasing, Tsfn!Using, TsfnProofs!Using, Tsfn!DroppedBy, TsfnProofs!DroppedBy,
     Tsfn!Lifecycle, TsfnProofs!Lifecycle, Tsfn!Handling, TsfnProofs!Handling, Tsfn!Registered,
     TsfnProofs!Registered, Tsfn!Quiet, TsfnProofs!Quiet, Tsfn!OneReference,
     TsfnProofs!OneReference, Tsfn!Finality, TsfnProofs!Finality, Tsfn!Inductive,
     TsfnProofs!Inductive, Tsfn!NoUseAfterFree, TsfnProofs!NoUseAfterFree,
     Tsfn!DroppedIsReleased, TsfnProofs!DroppedIsReleased, Tsfn!PayloadsFreedOnce,
     TsfnProofs!PayloadsFreedOnce, Tsfn!FinalizedOnce, TsfnProofs!FinalizedOnce

\* The native threads and the closure are the threads of Tsfn.
LEMMA TsfnAssumption == TsfnProofs!ConstantsAssumption
<1>1. IsFiniteSet(NativeThreads \cup {Closure})
  BY ConstantsAssumption, FS_AddElement
<1>2. TsfnProofs!IsFiniteSet(NativeThreads \cup {Closure})
  BY <1>1, Zenon DEF IsFiniteSet, TsfnProofs!IsFiniteSet
<1>3. QED
  BY <1>2, ConstantsAssumption DEF TsfnProofs!ConstantsAssumption

LEMMA ActorsOf == /\ Tsfn!Actors = NativeThreads \cup {Closure, Js}
                  /\ Actors = NativeThreads \cup {Js}
  BY DEF Tsfn!Actors, Actors

-----------------------------------------------------------------------------
(* The threadsafe functions *)

Own ==
    /\ owned \in BOOLEAN
    /\ record \in [Tokens -> {"none", "starting", "pending"}]
    /\ phase \in [Tokens -> Phases]
    /\ stack \in Seq(Tokens)
    /\ outcome \in [Tokens -> {"pending", "resolved", "rejected", "lost", "abandoned"}]
    /\ published \subseteq Tokens /\ completed \subseteq Tokens /\ closed \subseteq Tokens
    /\ doing \in [Actors -> {"idle", "notify", "drop"}]
    /\ hand \in [Actors -> Tokens \cup {NoToken}]
    /\ \A a \in Actors : hand[a] = NoToken <=> doing[a] = "idle"
    /\ toClose \subseteq Tokens

LEMMA OwnOfType == TypeOK <=> Tsfn!TypeOK /\ Own
  BY DEF TypeOK, Own

\* Every step is a step of the functions, leaves them alone, or is a refused call.
LEMMA StepOfTsfn ==
    Own /\ [Next]_vars => [Tsfn!Next]_Tsfn!vars \/ \E a \in Actors : EnqueueFails(a)
<1> SUFFICES ASSUME Own, [Next]_vars
             PROVE  [Tsfn!Next]_Tsfn!vars \/ \E a \in Actors : EnqueueFails(a)
  OBVIOUS
<1> DEFINE Uses == [Tsfn!Next]_Tsfn!vars
<1> USE ConstantsAssumption, ActorsOf DEF Own
<1>1. ASSUME NEW t \in Tokens, Reserve(t) PROVE Uses
  BY <1>1 DEF Reserve, tsfnVars, Tsfn!vars, Tsfn!lifeVars, Tsfn!tsfnVars, Tsfn!nodeVars,
      Tsfn!payVars, Tsfn!actVars
<1>2. ASSUME NEW t \in Tokens, Refuse(t) PROVE Uses
  BY <1>2 DEF Refuse, tsfnVars, Tsfn!vars, Tsfn!lifeVars, Tsfn!tsfnVars, Tsfn!nodeVars,
      Tsfn!payVars, Tsfn!actVars
<1>3. ASSUME NEW t \in Tokens, CreateFunction(t) PROVE Uses
  BY <1>3 DEF CreateFunction, Tsfn!Next
<1>4. ASSUME NEW t \in Tokens, CannotCreate(t) PROVE Uses
  BY <1>4 DEF CannotCreate, Tsfn!Next
<1>5. ASSUME NEW t \in Tokens, MakeSignal(t) PROVE Uses
  BY <1>5 DEF MakeSignal, Tsfn!Next
<1>6. ASSUME NEW t \in Tokens, StartReturns(t) PROVE Uses
  BY <1>6 DEF StartReturns, tsfnVars, Tsfn!vars, Tsfn!lifeVars, Tsfn!tsfnVars,
      Tsfn!nodeVars, Tsfn!payVars, Tsfn!actVars
<1>7. ASSUME NEW t \in Tokens, PublishRecord(t) PROVE Uses
  BY <1>7 DEF PublishRecord, tsfnVars, Tsfn!vars, Tsfn!lifeVars, Tsfn!tsfnVars,
      Tsfn!nodeVars, Tsfn!payVars, Tsfn!actVars
<1>8. ASSUME NEW t \in Tokens, SignalPublish(t) PROVE Uses
  BY <1>8 DEF SignalPublish, Tsfn!Next, tsfnVars, Tsfn!vars, Tsfn!lifeVars, Tsfn!tsfnVars,
      Tsfn!nodeVars, Tsfn!payVars, Tsfn!actVars
<1>9. ASSUME NEW t \in Tokens, RejectStart(t) PROVE Uses
  BY <1>9 DEF RejectStart, CloseSignal, Tsfn!Next, tsfnVars, Tsfn!vars, Tsfn!lifeVars,
      Tsfn!tsfnVars, Tsfn!nodeVars, Tsfn!payVars, Tsfn!actVars
<1>10. ASSUME NEW t \in Tokens, AbandonStart(t) PROVE Uses
  BY <1>10 DEF AbandonStart, CloseSignal, Tsfn!Next, tsfnVars, Tsfn!vars, Tsfn!lifeVars,
      Tsfn!tsfnVars, Tsfn!nodeVars, Tsfn!payVars, Tsfn!actVars
<1>11. ASSUME NEW a \in Actors, NEW t \in Tokens, Complete(a, t) PROVE Uses
  BY <1>11 DEF Complete, Tsfn!Next, tsfnVars, Tsfn!vars, Tsfn!lifeVars, Tsfn!tsfnVars,
      Tsfn!nodeVars, Tsfn!payVars, Tsfn!actVars
<1>12. ASSUME NEW a \in Actors, Notify(a) PROVE Uses
  BY <1>12 DEF Notify, Tsfn!Next
<1>13. ASSUME NEW a \in Actors, Calling(a) PROVE Uses
  BY <1>13 DEF Calling, Tsfn!Next
<1>14. ASSUME NEW a \in Actors, DropClosure(a) PROVE Uses
  BY <1>14 DEF DropClosure, Tsfn!Next
<1>15. ASSUME NEW a \in Actors, Dropping(a) PROVE Uses
  BY <1>15 DEF Dropping, Tsfn!Next
<1>16. ASSUME NEW t \in Tokens, Dispatch(t) PROVE Uses
  BY <1>16 DEF Dispatch, Tsfn!Next
<1>17. ASSUME NEW t \in Tokens, Finalize(t) PROVE Uses
  BY <1>17 DEF Finalize, Tsfn!Next
<1>18. CASE CloseOwner
  BY <1>18 DEF CloseOwner, tsfnVars, Tsfn!vars, Tsfn!lifeVars, Tsfn!tsfnVars,
      Tsfn!nodeVars, Tsfn!payVars, Tsfn!actVars
<1>19. ASSUME NEW t \in Tokens, CloseNext(t) PROVE Uses
  BY <1>19 DEF CloseNext, CloseSignal, Tsfn!Next, tsfnVars, Tsfn!vars, Tsfn!lifeVars,
      Tsfn!tsfnVars, Tsfn!nodeVars, Tsfn!payVars, Tsfn!actVars
<1>20. ASSUME NEW t \in Tokens, NodeStep(t) PROVE Uses
  BY <1>20 DEF NodeStep, Tsfn!Next
<1>21. CASE EnvCleanup
  BY <1>21 DEF EnvCleanup, Tsfn!Next
<1>22. CASE CloseLifecycle
  BY <1>22 DEF CloseLifecycle, Tsfn!Next, Tsfn!Teardown
<1>23. CASE TeardownGoesOn
  BY <1>23 DEF TeardownGoesOn, Tsfn!Next, Tsfn!Teardown
<1>24. CASE UNCHANGED vars
  BY <1>24 DEF vars, tsfnVars, Tsfn!vars, Tsfn!lifeVars, Tsfn!tsfnVars, Tsfn!nodeVars,
      Tsfn!payVars, Tsfn!actVars
<1>25. QED
  BY <1>1, <1>2, <1>3, <1>4, <1>5, <1>6, <1>7, <1>8, <1>9, <1>10, <1>11, <1>12, <1>13,
      <1>14, <1>15, <1>16, <1>17, <1>18, <1>19, <1>20, <1>21, <1>22, <1>23, <1>24 DEF
      Next, StartSteps, ClosureSteps

\* What is proved of threadsafe functions holds here.
LEMMA TsfnInit == Tsfn!Init => Tsfn!Inductive
  BY TsfnAssumption, TsfnProofs!InductiveInit, Same DEF TsfnProofs!ConstantsAssumption

LEMMA TsfnStep == Tsfn!Inductive /\ [Tsfn!Next]_Tsfn!vars => Tsfn!Inductive'
<1>1. TsfnProofs!Inductive /\ [TsfnProofs!Next]_TsfnProofs!vars => TsfnProofs!Inductive'
  BY TsfnAssumption, TsfnProofs!InductiveStep DEF TsfnProofs!ConstantsAssumption
<1>2. Tsfn!Inductive' <=> TsfnProofs!Inductive'
  BY Same, PTL
<1>3. QED
  BY <1>1, <1>2, Same

\* A call that Node refuses, though the function is open, returns as any other does.
LEMMA RefusedStep ==
    ASSUME Tsfn!Inductive, NEW a \in Actors, EnqueueFails(a)
    PROVE  Tsfn!Inductive'
<1>1. /\ Tsfn!TypeOK /\ Tsfn!Lifecycle /\ Tsfn!Handling /\ Tsfn!Registered
      /\ Tsfn!Quiet /\ Tsfn!OneReference /\ Tsfn!Finality
  BY DEF Tsfn!Inductive
<1>2. /\ at' = [at EXCEPT ![a] = "idle"] /\ cur' = [cur EXCEPT ![a] = NoToken]
      /\ at[a] = "calling" /\ cur[a] \in Tokens
      /\ dropped' = [dropped EXCEPT ![cur[a]] = @ + 1]
      /\ UNCHANGED <<open, handles, raw, holders, finalized, native, count, queue,
                      made, dispatched, env>>
  BY <1>1, ActorsOf DEF EnqueueFails, Tsfn!Return, Tsfn!Goto, Tsfn!One, Tsfn!TypeOK,
      Tsfn!Reading
<1> USE <1>1, <1>2, ActorsOf, ConstantsAssumption
<1>3. Tsfn!TypeOK'
  BY DEF Tsfn!TypeOK, Tsfn!Steps, Tsfn!Reading, Tsfn!Natives
<1>4. \A b \in Tsfn!Actors : b # a => at'[b] = at[b] /\ cur'[b] = cur[b]
  BY DEF Tsfn!TypeOK
<1>5. at'[a] = "idle"
  BY DEF Tsfn!TypeOK
<1>6. \A t \in Tokens : /\ Tsfn!Clearing(t)' = Tsfn!Clearing(t)
                        /\ Tsfn!Releasing(t)' = Tsfn!Releasing(t)
                        /\ Tsfn!Using(t)' => Tsfn!Using(t)
  BY <1>4, <1>5 DEF Tsfn!Clearing, Tsfn!Releasing, Tsfn!Using, Tsfn!Reading
<1>7. Tsfn!Lifecycle'
  BY <1>4, <1>5 DEF Tsfn!Lifecycle, Tsfn!NoReader, Tsfn!Reading
<1>8. Tsfn!Handling'
  BY <1>4, <1>5 DEF Tsfn!Handling, Tsfn!DroppedBy
<1>9. Tsfn!Registered'
  <2>1. handles \subseteq Tokens
    BY DEF Tsfn!TypeOK
  <2>2. QED
    BY <1>4, <1>5, <1>6, <2>1 DEF Tsfn!Registered, Tsfn!Reading
<1>10. Tsfn!Quiet' /\ Tsfn!OneReference' /\ Tsfn!Finality'
  BY <1>6 DEF Tsfn!Quiet, Tsfn!OneReference, Tsfn!Finality
<1>11. QED
  BY <1>3, <1>7, <1>8, <1>9, <1>10 DEF Tsfn!Inductive

\* What this module needs to know of the functions.
TsfnFacts ==
    /\ env \in {"running", "hooks", "closing", "gone"}
    /\ env = "running" => open
    /\ holders \in [Tokens -> SUBSET Tsfn!Actors]
    /\ native \in [Tokens -> {"none", "open", "closing", "closed"}]
    /\ queue \in [Tokens -> Nat] /\ made \in [Tokens -> Nat]
    /\ at \in [Tsfn!Actors -> Tsfn!Steps]
    /\ cur \in [Tsfn!Actors -> Tokens \cup {NoToken}]
    /\ \A t \in Tokens : env = "running" /\ native[t] = "closing" =>
           holders[t] = {} /\ \A a \in Tsfn!Actors : at[a] \in Tsfn!Reading => cur[a] # t
    /\ at[Js] = "aborting" => env = "hooks"
    /\ \A a \in Tsfn!Actors : at[a] \in Tsfn!Reading => cur[a] \in Tokens

LEMMA TsfnFactsHold == Tsfn!Inductive => TsfnFacts
<1> SUFFICES ASSUME Tsfn!Inductive PROVE TsfnFacts
  OBVIOUS
<1>1. Tsfn!TypeOK /\ Tsfn!Lifecycle /\ Tsfn!Registered /\ Tsfn!Quiet
  BY DEF Tsfn!Inductive
<1>2. ASSUME NEW t \in Tokens, env = "running", native[t] = "closing"
      PROVE  holders[t] = {} /\ \A a \in Tsfn!Actors : at[a] \in Tsfn!Reading => cur[a] # t
  BY <1>1, <1>2 DEF Tsfn!Lifecycle, Tsfn!Registered, Tsfn!Quiet, Tsfn!Using
<1>3. QED
  BY <1>1, <1>2 DEF TsfnFacts, Tsfn!TypeOK, Tsfn!Natives, Tsfn!Lifecycle

-----------------------------------------------------------------------------
(* The invariant of this module, a part at a time. *)

Callers == {"loading", "calling"}
Entered == {"create", "signal", "activating", "publish", "failing", "signalling", "unpublished"}
Reserved == {"create", "signal", "activating", "publish", "failing"}

\* The activations inside start_with_plan are those of the stack; all but the innermost
\* are inside their native call, and the environment runs.
StackKnown ==
    /\ \A t \in Tokens : phase[t] \in Entered => \E i \in 1..Len(stack) : stack[i] = t
    /\ \A i \in 1..Len(stack) : phase[stack[i]] \in Entered
    /\ \A i \in 2..Len(stack) : phase[stack[i]] = "activating"
    /\ \A i, j \in 1..Len(stack) : stack[i] = stack[j] => i = j
    /\ stack # <<>> => env = "running"

\* What the owner's map has for an activation, and when its promise is settled.
RecordKnown ==
    /\ \A t \in Tokens :
         /\ record[t] = "starting" => phase[t] \in Reserved
         /\ record[t] = "pending" =>
                phase[t] \in {"signalling", "returned"} /\ outcome[t] = "pending"
         /\ phase[t] = "signalling" => record[t] = "pending"
         /\ phase[t] = "returned" /\ outcome[t] = "pending" => record[t] = "pending"
         /\ outcome[t] # "pending" => phase[t] \in {"returned", "threw"}
         /\ phase[t] = "threw" => outcome[t] \in {"pending", "lost"}
         /\ record[t] # "none" => owned
         /\ t \in toClose => outcome[t] = "abandoned"
    /\ owned => env \in {"running", "hooks"}

\* The handle of a function has one place: the closure, or the thread that took it, which
\* calls it at most once.
HandKnown ==
    /\ \A a \in Actors, t \in Tokens : hand[a] = t =>
         /\ a \in holders[t] /\ Closure \notin holders[t]
         /\ phase[t] \notin {"new", "create", "signal"}
         /\ doing[a] = "notify" => made[t] = 0
    /\ \A a, b \in Actors : hand[a] # NoToken /\ hand[a] = hand[b] => a = b
    /\ \A t \in Tokens :
         /\ Closure \in holders[t] =>
                made[t] = 0 /\ phase[t] \notin {"new", "create", "signal", "threw"}
         /\ Closure \in holders[t] /\ outcome[t] = "abandoned" => t \in toClose
         /\ phase[t] \in {"new", "create", "signal"} => made[t] = 0

\* A function is called once: its payload is in the call, or then in the queue.
CallKnown ==
    /\ at[Closure] = "idle"
    /\ \A a \in Actors : at[a] \in Callers \cup {"clearing"} =>
           doing[a] = "drop" /\ hand[a] = cur[a]
    /\ \A t \in Tokens :
         /\ made[t] \in {0, 1} /\ queue[t] \in {0, 1}
         /\ queue[t] = 1 => made[t] = 1
         /\ \A a \in Actors : at[a] \in Callers /\ cur[a] = t => made[t] = 1 /\ queue[t] = 0

\* A notification has a record to find, as soon as a completion may send one.
Sends(a, t) == \/ doing[a] = "notify" /\ hand[a] = t
               \/ at[a] \in Callers /\ cur[a] = t
Flies(t) == \/ queue[t] > 0
            \/ t \in published /\ Closure \in holders[t]
            \/ \E a \in Actors : Sends(a, t)
FlightKnown ==
    \A t \in Tokens : /\ t \in published => phase[t] = "returned"
                      /\ Flies(t) => record[t] = "pending" \/ outcome[t] = "abandoned"

Inductive ==
    /\ TypeOK /\ Tsfn!Inductive
    /\ StackKnown /\ RecordKnown /\ HandKnown /\ CallKnown /\ FlightKnown

\* What the other parts need to know of the stack.
Situation ==
    /\ Pumping => \A t \in Tokens : phase[t] \in Entered => phase[t] = "activating"
    /\ \A t \in Tokens : phase[t] \in Entered => env = "running"

LEMMA SituationHolds == Own /\ StackKnown => Situation
<1> SUFFICES ASSUME Own, StackKnown, NEW t \in Tokens, phase[t] \in Entered
             PROVE  /\ Pumping => phase[t] = "activating"
                    /\ env = "running"
  BY DEF Situation
<1>1. PICK i \in 1..Len(stack) : stack[i] = t
  BY DEF StackKnown
<1>2. Len(stack) \in Nat /\ stack # <<>>
  BY <1>1 DEF Own
<1>3. env = "running"
  BY <1>2 DEF StackKnown
<1>4. Pumping => phase[t] = "activating"
  <2>1. CASE i = 1
    BY <1>1, <1>2, <2>1 DEF Pumping, Own
  <2>2. CASE i # 1
    <3>1. i \in 2..Len(stack)
      BY <1>2, <2>2
    <3>2. QED
      BY <1>1, <3>1 DEF StackKnown
  <2>3. QED
    BY <2>1, <2>2
<1>5. QED
  BY <1>3, <1>4

\* What publication and closing do with the closure, and the event loop with a record.
LEMMA SignalPublishDoes ==
    ASSUME NEW t \in Tokens, SignalPublish(t)
    PROVE  \/ /\ t \in completed /\ Closure \in holders[t]
              /\ Tsfn!Move(t, Closure, Js)
              /\ doing' = [doing EXCEPT ![Js] = "notify"]
              /\ hand' = [hand EXCEPT ![Js] = t]
           \/ /\ ~(t \in completed /\ Closure \in holders[t])
              /\ UNCHANGED <<tsfnVars, doing, hand>>
<1>1. CASE t \in completed /\ Closure \in holders[t]
  BY <1>1 DEF SignalPublish, Take
<1>2. CASE ~(t \in completed /\ Closure \in holders[t])
  BY <1>2 DEF SignalPublish, handVars
<1>3. QED
  BY <1>1, <1>2

LEMMA CloseSignalDoes ==
    ASSUME NEW t \in Tokens, CloseSignal(t)
    PROVE  \/ /\ Closure \in holders[t]
              /\ Tsfn!Move(t, Closure, Js)
              /\ doing' = [doing EXCEPT ![Js] = "drop"]
              /\ hand' = [hand EXCEPT ![Js] = t]
           \/ /\ ~(Closure \in holders[t])
              /\ UNCHANGED <<tsfnVars, doing, hand>>
<1>1. CASE Closure \in holders[t]
  BY <1>1 DEF CloseSignal, Take
<1>2. CASE ~(Closure \in holders[t])
  BY <1>2 DEF CloseSignal, handVars
<1>3. QED
  BY <1>1, <1>2

LEMMA DispatchDoes ==
    ASSUME NEW t \in Tokens, Dispatch(t)
    PROVE  \/ /\ record[t] = "pending"
              /\ record' = [record EXCEPT ![t] = "none"]
              /\ \E how \in {"resolved", "rejected", "lost"} :
                    (how = "lost" => SettleCanFail) /\ outcome' = [outcome EXCEPT ![t] = how]
           \/ /\ ~(record[t] = "pending")
              /\ record' = [record EXCEPT ![t] = "none"]
              /\ outcome' = outcome
<1>1. CASE record[t] = "pending"
  BY <1>1 DEF Dispatch, Record, Settle, Settled
<1>2. CASE ~(record[t] = "pending")
  BY <1>2 DEF Dispatch, Record
<1>3. QED
  BY <1>1, <1>2

LEMMA FinalizeDoes ==
    ASSUME NEW t \in Tokens, Finalize(t)
    PROVE  \/ /\ record[t] = "pending"
              /\ record' = [record EXCEPT ![t] = "none"]
              /\ \E how \in {"rejected", "lost"} :
                    (how = "lost" => SettleCanFail) /\ outcome' = [outcome EXCEPT ![t] = how]
           \/ /\ ~(record[t] = "pending")
              /\ record' = [record EXCEPT ![t] = "none"]
              /\ outcome' = outcome
<1>1. CASE record[t] = "pending"
  BY <1>1 DEF Finalize, Record, Settle, Settled
<1>2. CASE ~(record[t] = "pending")
  BY <1>2 DEF Finalize, Record
<1>3. QED
  BY <1>1, <1>2

\* The two outcomes of a publication, and of a completion.
LEMMA PublishRecordDoes ==
    ASSUME NEW t \in Tokens, PublishRecord(t)
    PROVE  \/ /\ record[t] = "starting"
              /\ record' = [record EXCEPT ![t] = "pending"]
              /\ phase' = [phase EXCEPT ![t] = "signalling"]
           \/ /\ record[t] # "starting"
              /\ record' = record
              /\ phase' = [phase EXCEPT ![t] = "unpublished"]
<1>1. CASE record[t] = "starting"
  BY <1>1 DEF PublishRecord, Record, Turn
<1>2. CASE record[t] # "starting"
  BY <1>2 DEF PublishRecord, Turn
<1>3. QED
  BY <1>1, <1>2

LEMMA CompleteDoes ==
    ASSUME NEW a \in Actors, NEW t \in Tokens, Complete(a, t)
    PROVE  \/ /\ t \in published /\ Closure \in holders[t]
              /\ Tsfn!Move(t, Closure, a)
              /\ doing' = [doing EXCEPT ![a] = "notify"]
              /\ hand' = [hand EXCEPT ![a] = t]
           \/ /\ ~(t \in published /\ Closure \in holders[t])
              /\ UNCHANGED <<tsfnVars, doing, hand>>
<1>1. CASE t \in published /\ Closure \in holders[t]
  BY <1>1 DEF Complete, Take
<1>2. CASE ~(t \in published /\ Closure \in holders[t])
  BY <1>2 DEF Complete, handVars
<1>3. QED
  BY <1>1, <1>2

LEMMA PublishTypes ==
    ASSUME Own, NEW t \in Tokens, PublishRecord(t)
    PROVE  Own'
<1>1. /\ phase \in [Tokens -> Phases]
      /\ record \in [Tokens -> {"none", "starting", "pending"}]
  BY DEF Own
<1>2. phase' \in [Tokens -> Phases]
  BY <1>1, PublishRecordDoes DEF Phases
<1>3. record' \in [Tokens -> {"none", "starting", "pending"}]
  BY <1>1, PublishRecordDoes
<1>4. UNCHANGED <<stack, owned, outcome, toClose, signalVars, handVars>>
  BY DEF PublishRecord
<1>5. QED
  BY <1>2, <1>3, <1>4 DEF Own, signalVars, handVars

LEMMA CompleteTypes ==
    ASSUME Own, NEW a \in Actors, NEW t \in Tokens, Complete(a, t)
    PROVE  Own'
<1>1. /\ doing \in [Actors -> {"idle", "notify", "drop"}]
      /\ hand \in [Actors -> Tokens \cup {NoToken}]
      /\ \A b \in Actors : hand[b] = NoToken <=> doing[b] = "idle"
  BY DEF Own
<1>2. /\ doing' \in [Actors -> {"idle", "notify", "drop"}]
      /\ hand' \in [Actors -> Tokens \cup {NoToken}]
      /\ \A b \in Actors : hand'[b] = NoToken <=> doing'[b] = "idle"
  BY <1>1, CompleteDoes, ConstantsAssumption
<1>3. /\ UNCHANGED <<startVars, published, closed, ownerVars>>
      /\ completed' = completed \cup {t}
  BY DEF Complete
<1>4. QED
  BY <1>2, <1>3 DEF Own, startVars, ownerVars

LEMMA DispatchTypes ==
    ASSUME Own, NEW t \in Tokens, Dispatch(t)
    PROVE  Own'
<1>1. /\ outcome \in [Tokens -> {"pending", "resolved", "rejected", "lost", "abandoned"}]
      /\ record \in [Tokens -> {"none", "starting", "pending"}]
  BY DEF Own
<1>2. record' = [record EXCEPT ![t] = "none"]
  BY DispatchDoes
<1>3. record' \in [Tokens -> {"none", "starting", "pending"}]
  BY <1>1, <1>2
<1>4. outcome' \in [Tokens -> {"pending", "resolved", "rejected", "lost", "abandoned"}]
  <2>1. CASE record[t] = "pending"
    <3>1. PICK how \in {"resolved", "rejected", "lost"} : outcome' = [outcome EXCEPT ![t] = how]
      BY <2>1, DispatchDoes
    <3>2. QED
      BY <1>1, <3>1
  <2>2. CASE record[t] # "pending"
    BY <1>1, <2>2, DispatchDoes
  <2>3. QED
    BY <2>1, <2>2
<1>5. /\ UNCHANGED <<owned, toClose, startVars, published, completed, handVars>>
      /\ closed' = closed \/ closed' = closed \cup {t}
  BY DEF Dispatch
<1>6. QED
  BY <1>3, <1>4, <1>5 DEF Own, startVars, handVars

LEMMA FinalizeTypes ==
    ASSUME Own, NEW t \in Tokens, Finalize(t)
    PROVE  Own'
<1>1. /\ outcome \in [Tokens -> {"pending", "resolved", "rejected", "lost", "abandoned"}]
      /\ record \in [Tokens -> {"none", "starting", "pending"}]
  BY DEF Own
<1>2. record' = [record EXCEPT ![t] = "none"]
  BY FinalizeDoes
<1>3. record' \in [Tokens -> {"none", "starting", "pending"}]
  BY <1>1, <1>2
<1>4. outcome' \in [Tokens -> {"pending", "resolved", "rejected", "lost", "abandoned"}]
  <2>1. CASE record[t] = "pending"
    <3>1. PICK how \in {"resolved", "rejected", "lost"} : outcome' = [outcome EXCEPT ![t] = how]
      BY <2>1, FinalizeDoes
    <3>2. QED
      BY <1>1, <3>1
  <2>2. CASE record[t] # "pending"
    BY <1>1, <2>2, FinalizeDoes
  <2>3. QED
    BY <2>1, <2>2
<1>5. /\ UNCHANGED <<owned, toClose, startVars, published, completed, handVars>>
      /\ closed' = closed \/ closed' = closed \cup {t}
  BY DEF Finalize
<1>6. QED
  BY <1>3, <1>4, <1>5 DEF Own, startVars, handVars

\* The variables of this module keep their types.
LEMMA OwnStep ==
    Own /\ TsfnFacts /\ [Next]_vars
        => Own'
<1> SUFFICES ASSUME Own, TsfnFacts, [Next]_vars
             PROVE  Own'
  OBVIOUS
<1> USE ConstantsAssumption, ActorsOf
    DEF Turn, Take, Record, Settle, Own, TsfnFacts, Phases, JsFree, InStart, Pumping,
        vars, tsfnVars, startVars, signalVars, handVars, ownerVars, Tsfn!lifeVars,
        Tsfn!tsfnVars, Tsfn!nodeVars, Tsfn!payVars, Tsfn!actVars
<1>1. ASSUME NEW t \in Tokens, Reserve(t) PROVE Own'
  BY <1>1 DEF Reserve
<1>2. ASSUME NEW t \in Tokens, Refuse(t) PROVE Own'
  BY <1>2 DEF Refuse
<1>3. ASSUME NEW t \in Tokens, CreateFunction(t) PROVE Own'
  BY <1>3 DEF CreateFunction, Tsfn!Create, Tsfn!Fresh
<1>4. ASSUME NEW t \in Tokens, CannotCreate(t) PROVE Own'
  BY <1>4 DEF CannotCreate, Leave, Tsfn!CreateFails, Tsfn!Fresh
<1>5. ASSUME NEW t \in Tokens, MakeSignal(t) PROVE Own'
  BY <1>5 DEF MakeSignal, Tsfn!Move
<1>6. ASSUME NEW t \in Tokens, StartReturns(t) PROVE Own'
  <2>1. /\ phase' \in [Tokens -> Phases]
        /\ record' \in [Tokens -> {"none", "starting", "pending"}]
        /\ outcome' \in [Tokens -> {"pending", "resolved", "rejected", "lost", "abandoned"}]
    <3>1. phase' \in [Tokens -> Phases]
      BY <1>6 DEF StartReturns
    <3>2. record' \in [Tokens -> {"none", "starting", "pending"}]
      BY <1>6 DEF StartReturns
    <3>3. outcome' \in [Tokens -> {"pending", "resolved", "rejected", "lost", "abandoned"}]
      BY <1>6 DEF StartReturns
    <3>4. QED
      BY <3>1, <3>2, <3>3
  <2>2. stack' \in Seq(Tokens) /\ owned' \in BOOLEAN
    BY <1>6 DEF StartReturns
  <2>3. /\ published' \subseteq Tokens /\ completed' \subseteq Tokens /\ closed' \subseteq Tokens
        /\ toClose' \subseteq Tokens
    BY <1>6 DEF StartReturns
  <2>4. /\ doing' \in [Actors -> {"idle", "notify", "drop"}]
        /\ hand' \in [Actors -> Tokens \cup {NoToken}]
        /\ \A b \in Actors : hand'[b] = NoToken <=> doing'[b] = "idle"
    BY <1>6 DEF StartReturns
  <2>5. QED
    BY <2>1, <2>2, <2>3, <2>4
<1>7. ASSUME NEW t \in Tokens, PublishRecord(t) PROVE Own'
  BY <1>7, PublishTypes
<1>8. ASSUME NEW t \in Tokens, SignalPublish(t) PROVE Own'
  BY <1>8 DEF SignalPublish, Leave, Tsfn!Move
<1>9. ASSUME NEW t \in Tokens, RejectStart(t) PROVE Own'
  BY <1>9 DEF RejectStart, CloseSignal, Leave, Settled, Tsfn!Move
<1>10. ASSUME NEW t \in Tokens, AbandonStart(t) PROVE Own'
  BY <1>10 DEF AbandonStart, CloseSignal, Leave, Tsfn!Move
<1>11. ASSUME NEW a \in Actors, NEW t \in Tokens, Complete(a, t) PROVE Own'
  BY <1>11, CompleteTypes
<1>12. ASSUME NEW a \in Actors, Notify(a) PROVE Own'
  BY <1>12 DEF Notify, Tsfn!BeginCall
<1>13. ASSUME NEW a \in Actors, Calling(a) /\ Tsfn!LoadRaw(a) PROVE Own'
  BY <1>13 DEF Calling, Tsfn!LoadRaw
<1>14. ASSUME NEW a \in Actors, Calling(a) /\ Tsfn!NativeCall(a) PROVE Own'
  BY <1>14 DEF Calling, Tsfn!NativeCall
<1>15. ASSUME NEW a \in Actors, Calling(a) /\ Tsfn!ClearRaw(a) PROVE Own'
  BY <1>15 DEF Calling, Tsfn!ClearRaw
<1>16. ASSUME NEW a \in Actors, EnqueueFails(a) PROVE Own'
  BY <1>16 DEF EnqueueFails
<1>17. ASSUME NEW a \in Actors, DropClosure(a) PROVE Own'
  BY <1>17 DEF DropClosure, Tsfn!DropClone
<1>18. ASSUME NEW a \in Actors, Dropping(a) PROVE Own'
  BY <1>18 DEF Dropping, Tsfn!Dropping, Tsfn!Unregister, Tsfn!NativeRelease
<1>19. ASSUME NEW t \in Tokens, Dispatch(t) PROVE Own'
  BY <1>19, DispatchTypes
<1>20. ASSUME NEW t \in Tokens, Finalize(t) PROVE Own'
  BY <1>20, FinalizeTypes
<1>21. CASE CloseOwner
  BY <1>21 DEF CloseOwner
<1>22. ASSUME NEW t \in Tokens, CloseNext(t) PROVE Own'
  BY <1>22 DEF CloseNext, CloseSignal, Tsfn!Move
<1>23. ASSUME NEW t \in Tokens, NodeStep(t) PROVE Own'
  BY <1>23 DEF NodeStep, Tsfn!NodeCloses, Tsfn!NodeHook
<1>24. CASE EnvCleanup
  BY <1>24 DEF EnvCleanup, Tsfn!EnvCleanup
<1>25. CASE CloseLifecycle
  BY <1>25 DEF CloseLifecycle, Tsfn!CloseLifecycle
<1>26. CASE TeardownGoesOn
  BY <1>26 DEF TeardownGoesOn, Tsfn!AbortHandle, Tsfn!AbortDone, Tsfn!HooksDone,
      Tsfn!LoopCloses
<1>27. CASE UNCHANGED vars
  BY <1>27
<1> HIDE DEF Own
<1>28. QED
  BY <1>1, <1>2, <1>3, <1>4, <1>5, <1>6, <1>7, <1>8, <1>9, <1>10, <1>11, <1>12, <1>13,
      <1>14, <1>15, <1>16, <1>17, <1>18, <1>19, <1>20, <1>21, <1>22, <1>23, <1>24, <1>25,
      <1>26, <1>27
  DEF Next, StartSteps, ClosureSteps, Calling, Tsfn!Calling

\* The innermost activation goes on.
LEMMA StackTurns ==
    ASSUME Own, StackKnown, NEW t \in Tokens, NEW from, InStart(t, from), NEW to \in Entered,
           Turn(t, to), stack' = stack, env' = env
    PROVE  StackKnown'
<1>1. /\ Len(stack) \in Nat /\ Len(stack) > 0 /\ stack[1] = t
      /\ \A i \in 1..Len(stack) : stack[i] \in Tokens
  BY DEF InStart, Own
<1>2. /\ phase'[t] = to
      /\ \A s \in Tokens : s # t => phase'[s] = phase[s]
  BY DEF Turn, Own
<1>3. \A i \in 2..Len(stack) : stack[i] # t
  BY <1>1 DEF StackKnown
<1>4. \A s \in Tokens : phase'[s] \in Entered => \E i \in 1..Len(stack) : stack[i] = s
  BY <1>1, <1>2 DEF StackKnown
<1>5. \A i \in 1..Len(stack) : phase'[stack[i]] \in Entered
  BY <1>1, <1>2 DEF StackKnown
<1>6. \A i \in 2..Len(stack) : phase'[stack[i]] = "activating"
  BY <1>1, <1>2, <1>3 DEF StackKnown
<1>7. QED
  BY <1>4, <1>5, <1>6 DEF StackKnown

\* The innermost activation leaves, or there is another one inside its native call.
LEMMA StackPops ==
    ASSUME Own, StackKnown, NEW t \in Tokens, NEW from, InStart(t, from), NEW to,
           to \notin Entered,
           Leave(t, to), env' = env
    PROVE  StackKnown'
<1>1. /\ Len(stack) \in Nat /\ Len(stack) > 0 /\ stack[1] = t
      /\ \A i \in 1..Len(stack) : stack[i] \in Tokens
  BY DEF InStart, Own
<1>2. /\ phase'[t] = to
      /\ \A s \in Tokens : s # t => phase'[s] = phase[s]
  BY DEF Leave, Turn, Own
<1>3. /\ stack' \in Seq(Tokens) /\ Len(stack') = Len(stack) - 1
      /\ \A i \in 1..Len(stack') : stack'[i] = stack[i + 1]
  BY <1>1 DEF Leave, Own
<1>4. \A i \in 2..Len(stack) : stack[i] # t
  BY <1>1 DEF StackKnown
<1>5. ASSUME NEW s \in Tokens, phase'[s] \in Entered
      PROVE  \E i \in 1..Len(stack') : stack'[i] = s
  <2>1. s # t /\ phase[s] \in Entered
    BY <1>2, <1>5
  <2>2. PICK i \in 1..Len(stack) : stack[i] = s
    BY <2>1 DEF StackKnown
  <2>3. i - 1 \in 1..Len(stack') /\ stack'[i - 1] = s
    BY <1>1, <1>3, <2>1, <2>2
  <2>4. QED
    BY <2>3
<1>6. ASSUME NEW i \in 1..Len(stack')
      PROVE  phase'[stack'[i]] = "activating"
  <2>1. i + 1 \in 2..Len(stack) /\ stack'[i] = stack[i + 1]
    BY <1>1, <1>3
  <2>2. QED
    BY <1>1, <1>2, <1>4, <2>1 DEF StackKnown
<1>7. \A i, j \in 1..Len(stack') : stack'[i] = stack'[j] => i = j
  BY <1>1, <1>3 DEF StackKnown
<1>8. stack' # <<>> => env' = "running"
  BY <1>1 DEF StackKnown
<1>9. QED
  BY <1>3, <1>5, <1>6, <1>7, <1>8 DEF StackKnown, Entered

\* An activation is begun by JavaScript, outside any other or inside a native call.
LEMMA StackPushes ==
    ASSUME Own, StackKnown, NEW t \in Tokens, Reserve(t)
    PROVE  StackKnown'
<1>1. /\ Len(stack) \in Nat /\ \A i \in 1..Len(stack) : stack[i] \in Tokens
  BY DEF Own
<1>2. /\ phase[t] = "new" /\ phase'[t] = "create" /\ env' = "running"
      /\ \A s \in Tokens : s # t => phase'[s] = phase[s]
  BY DEF Reserve, Turn, Own, tsfnVars
<1>3. /\ stack' \in Seq(Tokens) /\ Len(stack') = Len(stack) + 1 /\ stack'[1] = t
      /\ \A i \in 1..Len(stack) : stack'[i + 1] = stack[i]
  <2>1. stack' = <<t>> \o stack
    BY DEF Reserve
  <2>2. QED
    BY <2>1 DEF Own
<1>4. \A i \in 2..Len(stack') : i - 1 \in 1..Len(stack) /\ stack'[i] = stack[i - 1]
  BY <1>1, <1>3
<1>5. \A i \in 1..Len(stack) : stack[i] # t
  BY <1>2 DEF StackKnown, Entered
<1>6. \A i \in 1..Len(stack) : phase[stack[i]] = "activating"
  <2> SUFFICES ASSUME NEW i \in 1..Len(stack) PROVE phase[stack[i]] = "activating"
    OBVIOUS
  <2>1. Situation /\ Pumping
    BY SituationHolds DEF Reserve
  <2>2. stack[i] \in Tokens /\ phase[stack[i]] \in Entered
    BY <1>1 DEF StackKnown
  <2>3. QED
    BY <2>1, <2>2 DEF Situation
<1>7. ASSUME NEW s \in Tokens, phase'[s] \in Entered
      PROVE  \E i \in 1..Len(stack') : stack'[i] = s
  <2>1. CASE s = t
    BY <1>1, <1>3, <2>1
  <2>2. CASE s # t
    <3>1. PICK i \in 1..Len(stack) : stack[i] = s
      BY <1>2, <1>7, <2>2 DEF StackKnown
    <3>2. i + 1 \in 1..Len(stack') /\ stack'[i + 1] = s
      BY <1>1, <1>3, <3>1
    <3>3. QED
      BY <3>2
  <2>3. QED
    BY <2>1, <2>2
<1>8. \A i \in 2..Len(stack') : phase'[stack'[i]] = "activating"
  BY <1>1, <1>2, <1>4, <1>5, <1>6
<1>9. \A i \in 1..Len(stack') : i = 1 \/ i \in 2..Len(stack')
  BY <1>1, <1>3
<1>10. \A i \in 1..Len(stack') : phase'[stack'[i]] \in Entered
  BY <1>2, <1>3, <1>8, <1>9 DEF Entered
<1>11. \A i, j \in 1..Len(stack') : stack'[i] = stack'[j] => i = j
  <2> SUFFICES ASSUME NEW i \in 1..Len(stack'), NEW j \in 1..Len(stack'), stack'[i] = stack'[j]
               PROVE  i = j
    OBVIOUS
  <2>1. CASE i = 1 \/ j = 1
    BY <1>3, <1>4, <1>5, <1>9, <2>1
  <2>2. CASE i # 1 /\ j # 1
    <3>1. /\ i - 1 \in 1..Len(stack) /\ stack'[i] = stack[i - 1]
          /\ j - 1 \in 1..Len(stack) /\ stack'[j] = stack[j - 1]
      BY <1>4, <1>9, <2>2
    <3>2. \A k, l \in 1..Len(stack) : stack[k] = stack[l] => k = l
      BY DEF StackKnown
    <3>3. stack[i - 1] = stack[j - 1]
      BY <3>1
    <3>4. i - 1 = j - 1
      BY <3>1, <3>2, <3>3
    <3>5. QED
      BY <1>1, <1>3, <3>4
  <2>3. QED
    BY <2>1, <2>2
<1>12. QED
  BY <1>2, <1>7, <1>8, <1>10, <1>11 DEF StackKnown

\* Activations are nested.
LEMMA StackStep ==
    Own /\ TsfnFacts /\ StackKnown /\ [Next]_vars => StackKnown'
<1> SUFFICES ASSUME Own, TsfnFacts, StackKnown, [Next]_vars PROVE StackKnown'
  OBVIOUS
<1> USE DEF tsfnVars
<1>0. ASSUME phase' = phase, stack' = stack, stack # <<>> => env' = env PROVE StackKnown'
  BY <1>0 DEF StackKnown
<1>1. ASSUME NEW t \in Tokens, Reserve(t) PROVE StackKnown'
  BY <1>1, StackPushes
<1>2. ASSUME NEW t \in Tokens, Refuse(t) PROVE StackKnown'
  <2>1. /\ phase[t] = "new" /\ phase'[t] = "threw" /\ stack' = stack /\ env' = env
        /\ \A s \in Tokens : s # t => phase'[s] = phase[s]
    BY <1>2 DEF Refuse, Turn, Own
  <2>2. \A i \in 1..Len(stack) : stack[i] \in Tokens /\ stack[i] # t
    BY <2>1 DEF Own, StackKnown, Entered
  <2>3. \A i \in 1..Len(stack) : phase'[stack[i]] = phase[stack[i]]
    BY <2>1, <2>2
  <2>4. \A s \in Tokens : phase'[s] \in Entered => phase[s] \in Entered
    BY <2>1 DEF Entered
  <2>5. \A i \in 2..Len(stack) : i \in 1..Len(stack)
    BY DEF Own
  <2>6. QED
    BY <2>1, <2>3, <2>4, <2>5 DEF StackKnown
<1>3. ASSUME NEW t \in Tokens, CreateFunction(t) PROVE StackKnown'
  <2>1. InStart(t, "create") /\ stack' = stack /\ env' = env
        /\ (Turn(t, "signal"))
    BY <1>3 DEF CreateFunction, Tsfn!Create, startVars
  <2>2. QED
    BY <2>1, StackTurns DEF Entered
<1>4. ASSUME NEW t \in Tokens, CannotCreate(t) PROVE StackKnown'
  <2>1. InStart(t, "create") /\ env' = env
    BY <1>4 DEF CannotCreate, Tsfn!CreateFails
  <2>2. Leave(t, "threw")
    BY <1>4 DEF CannotCreate
  <2>3. QED
    BY <2>1, <2>2, StackPops DEF Entered
<1>5. ASSUME NEW t \in Tokens, MakeSignal(t) PROVE StackKnown'
  <2>1. InStart(t, "signal") /\ stack' = stack /\ env' = env
        /\ (Turn(t, "activating"))
    BY <1>5 DEF MakeSignal, Tsfn!Move, startVars
  <2>2. QED
    BY <2>1, StackTurns DEF Entered
<1>6. ASSUME NEW t \in Tokens, StartReturns(t) PROVE StackKnown'
  <2>1. /\ InStart(t, "activating") /\ stack' = stack /\ env' = env
        /\ (Turn(t, "publish") \/ Turn(t, "failing"))
    BY <1>6 DEF StartReturns, startVars
  <2>2. QED
    BY <2>1, StackTurns DEF Entered
<1>7. ASSUME NEW t \in Tokens, PublishRecord(t) PROVE StackKnown'
  <2>1. /\ InStart(t, "publish") /\ stack' = stack /\ env' = env
        /\ (Turn(t, "signalling") \/ Turn(t, "unpublished"))
    BY <1>7 DEF PublishRecord, startVars
  <2>2. QED
    BY <2>1, StackTurns DEF Entered
<1>8. ASSUME NEW t \in Tokens, SignalPublish(t) PROVE StackKnown'
  <2>1. InStart(t, "signalling") /\ env' = env
    BY <1>8 DEF SignalPublish, Tsfn!Move
  <2>2. Leave(t, "returned")
    BY <1>8 DEF SignalPublish
  <2>3. QED
    BY <2>1, <2>2, StackPops DEF Entered
<1>9. ASSUME NEW t \in Tokens, RejectStart(t) PROVE StackKnown'
  <2>1. InStart(t, "failing") /\ env' = env
    BY <1>9 DEF RejectStart, CloseSignal, Tsfn!Move
  <2>2. Leave(t, "threw") \/ Leave(t, "returned")
    BY <1>9 DEF RejectStart
  <2>3. QED
    BY <2>1, <2>2, StackPops DEF Entered
<1>10. ASSUME NEW t \in Tokens, AbandonStart(t) PROVE StackKnown'
  <2>1. InStart(t, "unpublished") /\ env' = env
    BY <1>10 DEF AbandonStart, CloseSignal, Tsfn!Move
  <2>2. Leave(t, "threw")
    BY <1>10 DEF AbandonStart
  <2>3. QED
    BY <2>1, <2>2, StackPops DEF Entered
<1>11. ASSUME NEW a \in Actors, NEW t \in Tokens, Complete(a, t) PROVE StackKnown'
  BY <1>11, <1>0 DEF Complete, Tsfn!Move, startVars
<1>12. ASSUME NEW a \in Actors, Notify(a) PROVE StackKnown'
  BY <1>12, <1>0 DEF Notify, Tsfn!BeginCall, startVars
<1>13. ASSUME NEW a \in Actors, Calling(a) /\ Tsfn!LoadRaw(a) PROVE StackKnown'
  BY <1>13, <1>0 DEF Calling, Tsfn!LoadRaw, startVars
<1>14. ASSUME NEW a \in Actors, Calling(a) /\ Tsfn!NativeCall(a) PROVE StackKnown'
  BY <1>14, <1>0 DEF Calling, Tsfn!NativeCall, startVars
<1>15. ASSUME NEW a \in Actors, Calling(a) /\ Tsfn!ClearRaw(a) PROVE StackKnown'
  BY <1>15, <1>0 DEF Calling, Tsfn!ClearRaw, startVars
<1>16. ASSUME NEW a \in Actors, EnqueueFails(a) PROVE StackKnown'
  BY <1>16, <1>0 DEF EnqueueFails, startVars
<1>17. ASSUME NEW a \in Actors, DropClosure(a) PROVE StackKnown'
  BY <1>17, <1>0 DEF DropClosure, Tsfn!DropClone, startVars
<1>18. ASSUME NEW a \in Actors, Dropping(a) PROVE StackKnown'
  BY <1>18, <1>0 DEF Dropping, Tsfn!Dropping, Tsfn!Unregister, Tsfn!NativeRelease,
      startVars
<1>19. ASSUME NEW t \in Tokens, Dispatch(t) PROVE StackKnown'
  BY <1>19, <1>0 DEF Dispatch, Tsfn!Dispatch, startVars
<1>20. ASSUME NEW t \in Tokens, Finalize(t) PROVE StackKnown'
  BY <1>20, <1>0 DEF Finalize, Tsfn!FinalizeTsfn, startVars
<1>21. CASE CloseOwner
  BY <1>21, <1>0 DEF CloseOwner, startVars
<1>22. ASSUME NEW t \in Tokens, CloseNext(t) PROVE StackKnown'
  BY <1>22, <1>0 DEF CloseNext, CloseSignal, Tsfn!Move, startVars
<1>23. ASSUME NEW t \in Tokens, NodeStep(t) PROVE StackKnown'
  BY <1>23, <1>0 DEF NodeStep, Tsfn!NodeCloses, Tsfn!NodeHook, startVars
<1>24. CASE EnvCleanup
  BY <1>24, <1>0 DEF EnvCleanup, Tsfn!EnvCleanup, startVars
<1>25. CASE CloseLifecycle
  BY <1>25, <1>0 DEF CloseLifecycle, Tsfn!CloseLifecycle, startVars
<1>26. CASE TeardownGoesOn
  <2>1. phase' = phase /\ stack' = stack
    BY <1>26 DEF TeardownGoesOn, startVars
  <2>2. env = "running" => env' = env
    BY <1>26 DEF TeardownGoesOn, Tsfn!AbortHandle, Tsfn!AbortDone, Tsfn!HooksDone,
        Tsfn!LoopCloses
  <2>3. stack # <<>> => env = "running"
    BY DEF StackKnown
  <2>4. QED
    BY <1>0, <2>1, <2>2, <2>3
<1>27. CASE UNCHANGED vars
  BY <1>27, <1>0 DEF vars, startVars
<1>28. QED
  BY <1>1, <1>2, <1>3, <1>4, <1>5, <1>6, <1>7, <1>8, <1>9, <1>10, <1>11, <1>12, <1>13,
      <1>14, <1>15, <1>16, <1>17, <1>18, <1>19, <1>20, <1>21, <1>22, <1>23, <1>24, <1>25,
      <1>26, <1>27 DEF Next, StartSteps, ClosureSteps, Calling, Tsfn!Calling

LEMMA RefuseRecord ==
    ASSUME Own, RecordKnown, NEW t \in Tokens, Refuse(t)
    PROVE  RecordKnown'
<1>1. owned => owned'
  <2>1. owned' \in {owned, TRUE}
    BY DEF Refuse
  <2>2. QED
    BY <2>1, Zenon
<1>2. env' = "running" /\ record' = record /\ outcome' = outcome /\ toClose' = toClose
  BY DEF Refuse, tsfnVars
<1>3. /\ phase[t] = "new" /\ phase'[t] = "threw"
      /\ \A s \in Tokens : s # t => phase'[s] = phase[s]
  BY DEF Refuse, Turn, Own
<1>4. record[t] = "none" /\ outcome[t] = "pending" /\ t \notin toClose
  BY <1>3 DEF RecordKnown, Reserved, Own
<1>5. ASSUME NEW s \in Tokens
      PROVE  /\ record[s] = "starting" => phase'[s] \in Reserved
             /\ record[s] = "pending" =>
                    phase'[s] \in {"signalling", "returned"} /\ outcome[s] = "pending"
             /\ phase'[s] = "signalling" => record[s] = "pending"
             /\ phase'[s] = "returned" /\ outcome[s] = "pending" => record[s] = "pending"
             /\ outcome[s] # "pending" => phase'[s] \in {"returned", "threw"}
             /\ phase'[s] = "threw" => outcome[s] \in {"pending", "lost"}
             /\ s \in toClose => outcome[s] = "abandoned"
  BY <1>3, <1>4 DEF RecordKnown
<1>6. \A s \in Tokens : record[s] # "none" => owned'
  BY <1>1, Zenon DEF RecordKnown
<1>7. QED
  BY <1>2, <1>5, <1>6 DEF RecordKnown

\* A promise runs exactly as long as the owner has its record.
LEMMA RecordStep ==
    Own /\ TsfnFacts /\ Situation /\ RecordKnown /\ [Next]_vars
        => RecordKnown'
<1> SUFFICES ASSUME Own, TsfnFacts, Situation, RecordKnown, [Next]_vars
             PROVE  RecordKnown'
  OBVIOUS
<1> USE ConstantsAssumption, ActorsOf
    DEF Turn, Take, Record, Settle, Own, TsfnFacts, Phases, JsFree, InStart, Pumping,
        Situation, Entered, Reserved, RecordKnown, vars, tsfnVars, startVars,
        signalVars, handVars, ownerVars, Tsfn!lifeVars, Tsfn!tsfnVars, Tsfn!nodeVars,
        Tsfn!payVars, Tsfn!actVars
<1>1. ASSUME NEW t \in Tokens, Reserve(t) PROVE RecordKnown'
  BY <1>1 DEF Reserve
<1>2. ASSUME NEW t \in Tokens, Refuse(t) PROVE RecordKnown'
  BY <1>2, RefuseRecord
<1>3. ASSUME NEW t \in Tokens, CreateFunction(t) PROVE RecordKnown'
  BY <1>3 DEF CreateFunction, Tsfn!Create, Tsfn!Fresh
<1>4. ASSUME NEW t \in Tokens, CannotCreate(t) PROVE RecordKnown'
  BY <1>4 DEF CannotCreate, Leave, Tsfn!CreateFails, Tsfn!Fresh
<1>5. ASSUME NEW t \in Tokens, MakeSignal(t) PROVE RecordKnown'
  BY <1>5 DEF MakeSignal, Tsfn!Move
<1>6. ASSUME NEW t \in Tokens, StartReturns(t) PROVE RecordKnown'
  BY <1>6 DEF StartReturns
<1>7. ASSUME NEW t \in Tokens, PublishRecord(t) PROVE RecordKnown'
  BY <1>7 DEF PublishRecord
<1>8. ASSUME NEW t \in Tokens, SignalPublish(t) PROVE RecordKnown'
  BY <1>8 DEF SignalPublish, Leave, Tsfn!Move
<1>9. ASSUME NEW t \in Tokens, RejectStart(t) PROVE RecordKnown'
  BY <1>9 DEF RejectStart, CloseSignal, Leave, Settled, Tsfn!Move
<1>10. ASSUME NEW t \in Tokens, AbandonStart(t) PROVE RecordKnown'
  BY <1>10 DEF AbandonStart, CloseSignal, Leave, Tsfn!Move
<1>11. ASSUME NEW a \in Actors, NEW t \in Tokens, Complete(a, t) PROVE RecordKnown'
  BY <1>11 DEF Complete, Tsfn!Move
<1>12. ASSUME NEW a \in Actors, Notify(a) PROVE RecordKnown'
  BY <1>12 DEF Notify, Tsfn!BeginCall
<1>13. ASSUME NEW a \in Actors, Calling(a) /\ Tsfn!LoadRaw(a) PROVE RecordKnown'
  BY <1>13 DEF Calling, Tsfn!LoadRaw
<1>14. ASSUME NEW a \in Actors, Calling(a) /\ Tsfn!NativeCall(a) PROVE RecordKnown'
  BY <1>14 DEF Calling, Tsfn!NativeCall
<1>15. ASSUME NEW a \in Actors, Calling(a) /\ Tsfn!ClearRaw(a) PROVE RecordKnown'
  BY <1>15 DEF Calling, Tsfn!ClearRaw
<1>16. ASSUME NEW a \in Actors, EnqueueFails(a) PROVE RecordKnown'
  BY <1>16 DEF EnqueueFails
<1>17. ASSUME NEW a \in Actors, DropClosure(a) PROVE RecordKnown'
  BY <1>17 DEF DropClosure, Tsfn!DropClone
<1>18. ASSUME NEW a \in Actors, Dropping(a) PROVE RecordKnown'
  BY <1>18 DEF Dropping, Tsfn!Dropping, Tsfn!Unregister, Tsfn!NativeRelease
<1>19. ASSUME NEW t \in Tokens, Dispatch(t) PROVE RecordKnown'
  BY <1>19 DEF Dispatch, Settled, Tsfn!Dispatch
<1>20. ASSUME NEW t \in Tokens, Finalize(t) PROVE RecordKnown'
  BY <1>20 DEF Finalize, Settled, Tsfn!FinalizeTsfn
<1>21. CASE CloseOwner
  BY <1>21 DEF CloseOwner
<1>22. ASSUME NEW t \in Tokens, CloseNext(t) PROVE RecordKnown'
  BY <1>22 DEF CloseNext, CloseSignal, Tsfn!Move
<1>23. ASSUME NEW t \in Tokens, NodeStep(t) PROVE RecordKnown'
  BY <1>23 DEF NodeStep, Tsfn!NodeCloses, Tsfn!NodeHook
<1>24. CASE EnvCleanup
  BY <1>24 DEF EnvCleanup, Tsfn!EnvCleanup
<1>25. CASE CloseLifecycle
  BY <1>25 DEF CloseLifecycle, Tsfn!CloseLifecycle
<1>26. CASE TeardownGoesOn
  BY <1>26 DEF TeardownGoesOn, Tsfn!AbortHandle, Tsfn!AbortDone, Tsfn!HooksDone,
      Tsfn!LoopCloses
<1>27. CASE UNCHANGED vars
  BY <1>27
<1> HIDE DEF RecordKnown
<1>28. QED
  BY <1>1, <1>2, <1>3, <1>4, <1>5, <1>6, <1>7, <1>8, <1>9, <1>10, <1>11, <1>12, <1>13,
      <1>14, <1>15, <1>16, <1>17, <1>18, <1>19, <1>20, <1>21, <1>22, <1>23, <1>24, <1>25,
      <1>26, <1>27
  DEF Next, StartSteps, ClosureSteps, Calling, Tsfn!Calling

\* A thread takes the closure of t, or there is none to take.
Early == {"new", "create", "signal"}
HandFrame(t) ==
    /\ phase[t] \notin Early /\ phase'[t] \notin Early
    /\ \A s \in Tokens : s # t => phase'[s] = phase[s]
    /\ \A s \in Tokens : outcome'[s] = "abandoned" => outcome[s] = "abandoned"
    /\ \A s \in toClose : s = t \/ s \in toClose'

LEMMA HandTaken ==
    ASSUME Own, TsfnFacts, HandKnown, NEW a \in Actors, NEW t \in Tokens, HandFrame(t),
           doing[a] = "idle", Closure \in holders[t], Tsfn!Move(t, Closure, a),
           NEW what \in {"notify", "drop"}, doing' = [doing EXCEPT ![a] = what],
           hand' = [hand EXCEPT ![a] = t]
    PROVE  HandKnown'
<1> USE ConstantsAssumption, ActorsOf
<1>1. /\ made' = made /\ made[t] = 0
      /\ holders'[t] = (holders[t] \ {Closure}) \cup {a}
      /\ \A s \in Tokens : s # t => holders'[s] = holders[s]
  BY DEF Tsfn!Move, Tsfn!payVars, TsfnFacts, HandKnown
<1>2. /\ hand'[a] = t /\ doing'[a] = what
      /\ \A b \in Actors : b # a => hand'[b] = hand[b] /\ doing'[b] = doing[b]
  BY DEF Own
<1>3. \A b \in Actors : hand[b] # t
  BY DEF HandKnown
<1>4. a # Closure
  OBVIOUS
<1>5. Closure \notin holders'[t] /\ a \in holders'[t]
  BY <1>1, <1>4
<1>6. ASSUME NEW b \in Actors, NEW s \in Tokens, hand'[b] = s
      PROVE  /\ b \in holders'[s] /\ Closure \notin holders'[s]
             /\ phase'[s] \notin Early
             /\ doing'[b] = "notify" => made'[s] = 0
  <2>1. CASE b = a
    BY <1>1, <1>2, <1>5, <1>6, <2>1 DEF HandFrame
  <2>2. CASE b # a
    <3>1. hand[b] = s /\ s # t
      BY <1>2, <1>3, <1>6, <2>2
    <3>2. QED
      BY <1>1, <1>2, <2>2, <3>1 DEF HandKnown, HandFrame, Early
  <2>3. QED
    BY <2>1, <2>2
<1>7. ASSUME NEW b \in Actors, NEW c \in Actors, hand'[b] # NoToken, hand'[b] = hand'[c]
      PROVE  b = c
  BY <1>2, <1>3, <1>7 DEF HandKnown
<1>8. ASSUME NEW s \in Tokens
      PROVE  /\ Closure \in holders'[s] => made'[s] = 0 /\ phase'[s] \notin Early \cup {"threw"}
             /\ Closure \in holders'[s] /\ outcome'[s] = "abandoned" => s \in toClose'
             /\ phase'[s] \in Early => made'[s] = 0
  <2>1. CASE s = t
    BY <1>1, <1>5, <2>1 DEF HandFrame
  <2>2. CASE s # t
    BY <1>1, <2>2 DEF HandKnown, HandFrame, Early
  <2>3. QED
    BY <2>1, <2>2
<1>9. QED
  BY <1>6, <1>7, <1>8 DEF HandKnown, Early

LEMMA HandKept ==
    ASSUME Own, TsfnFacts, HandKnown, NEW t \in Tokens, HandFrame(t),
           Closure \notin holders[t] \/ (phase'[t] # "threw" /\ toClose \subseteq toClose'),
           UNCHANGED <<tsfnVars, doing, hand>>
    PROVE  HandKnown'
<1>1. holders' = holders /\ made' = made /\ doing' = doing /\ hand' = hand
  BY DEF tsfnVars
<1>2. ASSUME NEW b \in Actors, NEW s \in Tokens, hand[b] = s
      PROVE  /\ b \in holders[s] /\ Closure \notin holders[s]
             /\ phase'[s] \notin Early
             /\ doing[b] = "notify" => made[s] = 0
  BY <1>2 DEF HandKnown, HandFrame, Early
<1>3. ASSUME NEW s \in Tokens
      PROVE  /\ Closure \in holders[s] => made[s] = 0 /\ phase'[s] \notin Early \cup {"threw"}
             /\ Closure \in holders[s] /\ outcome'[s] = "abandoned" => s \in toClose'
             /\ phase'[s] \in Early => made[s] = 0
  BY DEF HandKnown, HandFrame, Early
<1>4. QED
  BY <1>1, <1>2, <1>3 DEF HandKnown, Early

LEMMA SignalPublishHand ==
    ASSUME Own, TsfnFacts, HandKnown, NEW t \in Tokens, SignalPublish(t)
    PROVE  HandKnown'
<1>1. HandFrame(t)
  BY DEF SignalPublish, InStart, JsFree, Leave, Turn, ownerVars, HandFrame, Early, Own
<1>2. doing[Js] = "idle" /\ Js \in Actors
  BY DEF SignalPublish, InStart, JsFree, Actors
<1>3. CASE t \in completed /\ Closure \in holders[t]
  <2>1. /\ Tsfn!Move(t, Closure, Js)
        /\ doing' = [doing EXCEPT ![Js] = "notify"]
        /\ hand' = [hand EXCEPT ![Js] = t]
    BY <1>3, SignalPublishDoes
  <2>2. QED
    BY <1>1, <1>2, <1>3, <2>1, HandTaken
<1>4. CASE ~(t \in completed /\ Closure \in holders[t])
  <2>1. UNCHANGED <<tsfnVars, doing, hand>>
    BY <1>4, SignalPublishDoes
  <2>2. phase'[t] # "threw" /\ toClose \subseteq toClose'
    BY DEF SignalPublish, Leave, Turn, Own, ownerVars
  <2>3. QED
    BY <1>1, <2>1, <2>2, HandKept
<1>5. QED
  BY <1>3, <1>4

LEMMA RejectStartHand ==
    ASSUME Own, TsfnFacts, HandKnown, NEW t \in Tokens, RejectStart(t)
    PROVE  HandKnown'
<1>0. CloseSignal(t)
  BY DEF RejectStart
<1>1. HandFrame(t)
  BY DEF RejectStart, InStart, JsFree, Leave, Turn, Settle, Settled, HandFrame, Early, Own
<1>2. doing[Js] = "idle" /\ Js \in Actors
  BY DEF RejectStart, InStart, JsFree, Actors
<1>3. CASE Closure \in holders[t]
  <2>1. /\ Tsfn!Move(t, Closure, Js)
        /\ doing' = [doing EXCEPT ![Js] = "drop"]
        /\ hand' = [hand EXCEPT ![Js] = t]
    BY <1>3, <1>0, CloseSignalDoes
  <2>2. QED
    BY <1>1, <1>2, <1>3, <2>1, HandTaken
<1>4. CASE ~(Closure \in holders[t])
  <2>1. UNCHANGED <<tsfnVars, doing, hand>>
    BY <1>4, <1>0, CloseSignalDoes
  <2>2. Closure \notin holders[t]
    BY <1>4
  <2>3. QED
    BY <1>1, <2>1, <2>2, HandKept
<1>5. QED
  BY <1>3, <1>4

LEMMA AbandonStartHand ==
    ASSUME Own, TsfnFacts, HandKnown, NEW t \in Tokens, AbandonStart(t)
    PROVE  HandKnown'
<1>0. CloseSignal(t)
  BY DEF AbandonStart
<1>1. HandFrame(t)
  BY DEF AbandonStart, InStart, JsFree, Leave, Turn, ownerVars, HandFrame, Early, Own
<1>2. doing[Js] = "idle" /\ Js \in Actors
  BY DEF AbandonStart, InStart, JsFree, Actors
<1>3. CASE Closure \in holders[t]
  <2>1. /\ Tsfn!Move(t, Closure, Js)
        /\ doing' = [doing EXCEPT ![Js] = "drop"]
        /\ hand' = [hand EXCEPT ![Js] = t]
    BY <1>3, <1>0, CloseSignalDoes
  <2>2. QED
    BY <1>1, <1>2, <1>3, <2>1, HandTaken
<1>4. CASE ~(Closure \in holders[t])
  <2>1. UNCHANGED <<tsfnVars, doing, hand>>
    BY <1>4, <1>0, CloseSignalDoes
  <2>2. Closure \notin holders[t]
    BY <1>4
  <2>3. QED
    BY <1>1, <2>1, <2>2, HandKept
<1>5. QED
  BY <1>3, <1>4

LEMMA CompleteHand ==
    ASSUME Own, TsfnFacts, HandKnown, NEW a \in Actors, NEW t \in Tokens, Complete(a, t)
    PROVE  HandKnown'
<1>1. HandFrame(t)
  BY DEF Complete, startVars, ownerVars, HandFrame, Early, Own
<1>2. doing[a] = "idle" /\ a \in Actors
  BY DEF Complete, InStart, JsFree, Actors
<1>3. CASE t \in published /\ Closure \in holders[t]
  <2>1. /\ Tsfn!Move(t, Closure, a)
        /\ doing' = [doing EXCEPT ![a] = "notify"]
        /\ hand' = [hand EXCEPT ![a] = t]
    BY <1>3, CompleteDoes
  <2>2. QED
    BY <1>1, <1>2, <1>3, <2>1, HandTaken
<1>4. CASE ~(t \in published /\ Closure \in holders[t])
  <2>1. UNCHANGED <<tsfnVars, doing, hand>>
    BY <1>4, CompleteDoes
  <2>2. phase'[t] # "threw" \/ Closure \notin holders[t]
    BY DEF Complete, startVars, HandKnown
  <2>4. toClose \subseteq toClose'
    BY DEF Complete, ownerVars
  <2>3. QED
    BY <1>1, <2>1, <2>2, <2>4, HandKept
<1>5. QED
  BY <1>3, <1>4

LEMMA CloseNextHand ==
    ASSUME Own, TsfnFacts, RecordKnown, HandKnown, NEW t \in Tokens, CloseNext(t)
    PROVE  HandKnown'
<1>0. CloseSignal(t)
  BY DEF CloseNext
<1>1. HandFrame(t)
  BY DEF CloseNext, startVars, HandFrame, Early, Own, RecordKnown
<1>2. doing[Js] = "idle" /\ Js \in Actors
  BY DEF CloseNext, InStart, JsFree, Actors
<1>3. CASE Closure \in holders[t]
  <2>1. /\ Tsfn!Move(t, Closure, Js)
        /\ doing' = [doing EXCEPT ![Js] = "drop"]
        /\ hand' = [hand EXCEPT ![Js] = t]
    BY <1>3, <1>0, CloseSignalDoes
  <2>2. QED
    BY <1>1, <1>2, <1>3, <2>1, HandTaken
<1>4. CASE ~(Closure \in holders[t])
  <2>1. UNCHANGED <<tsfnVars, doing, hand>>
    BY <1>4, <1>0, CloseSignalDoes
  <2>2. Closure \notin holders[t]
    BY <1>4
  <2>3. QED
    BY <1>1, <2>1, <2>2, HandKept
<1>5. QED
  BY <1>3, <1>4

LEMMA MakeSignalHand ==
    ASSUME Own, TsfnFacts, RecordKnown, HandKnown, NEW t \in Tokens, MakeSignal(t)
    PROVE  HandKnown'
<1> USE ConstantsAssumption, ActorsOf
<1>1. /\ made' = made /\ hand' = hand /\ doing' = doing /\ outcome' = outcome
      /\ toClose' = toClose
  BY DEF MakeSignal, Tsfn!Move, Tsfn!payVars, handVars, ownerVars
<1>2. /\ phase[t] = "signal" /\ phase'[t] = "activating"
      /\ \A s \in Tokens : s # t => phase'[s] = phase[s]
  BY DEF MakeSignal, InStart, Turn, Own
<1>3. \A s \in Tokens : s # t => holders'[s] = holders[s]
  BY DEF MakeSignal, Tsfn!Move, TsfnFacts
<1>4. \A b \in Actors : hand[b] # t
  BY <1>2 DEF HandKnown
<1>5. made[t] = 0 /\ outcome[t] = "pending"
  BY <1>2 DEF HandKnown, RecordKnown
<1>6. ASSUME NEW b \in Actors, NEW s \in Tokens, hand[b] = s
      PROVE  /\ b \in holders'[s] /\ Closure \notin holders'[s]
             /\ phase'[s] \notin Early
             /\ doing[b] = "notify" => made[s] = 0
  BY <1>2, <1>3, <1>4, <1>6 DEF HandKnown, Early
<1>7. ASSUME NEW s \in Tokens
      PROVE  /\ Closure \in holders'[s] => made[s] = 0 /\ phase'[s] \notin Early \cup {"threw"}
             /\ Closure \in holders'[s] /\ outcome[s] = "abandoned" => s \in toClose
             /\ phase'[s] \in Early => made[s] = 0
  <2>1. CASE s = t
    BY <1>2, <1>5, <2>1 DEF Early
  <2>2. CASE s # t
    BY <1>2, <1>3, <2>2 DEF HandKnown, Early
  <2>3. QED
    BY <2>1, <2>2
<1>8. QED
  BY <1>1, <1>6, <1>7 DEF HandKnown, Early

\* What the one call of a function does with its payload.
LEMMA NotifyCall ==
    ASSUME Own, TsfnFacts, HandKnown, CallKnown, NEW a \in Actors, Notify(a)
    PROVE  CallKnown'
<1> USE ConstantsAssumption, ActorsOf
<1> DEFINE t == hand[a]
<1>1. t \in Tokens /\ doing[a] = "notify" /\ made[t] = 0
  BY DEF Notify, Own, HandKnown
<1>2. /\ at[a] = "idle" /\ queue' = queue
      /\ made' = [made EXCEPT ![t] = @ + 1]
      /\ doing' = [doing EXCEPT ![a] = "drop"] /\ hand' = [hand EXCEPT ![a] = t]
  BY DEF Notify, Take, Tsfn!BeginCall, Tsfn!One, Tsfn!nodeVars
<1>3. \/ at' = at /\ cur' = cur
      \/ at' = [at EXCEPT ![a] = "loading"] /\ cur' = [cur EXCEPT ![a] = t]
  <2>1. CASE open
    BY <2>1 DEF Notify, Tsfn!BeginCall, Tsfn!Goto
  <2>2. CASE ~open
    BY <2>2 DEF Notify, Tsfn!BeginCall, Tsfn!actVars
  <2>3. QED
    BY <2>1, <2>2
<1>4. /\ at \in [Tsfn!Actors -> Tsfn!Steps] /\ cur \in [Tsfn!Actors -> Tokens \cup {NoToken}]
      /\ a \in Tsfn!Actors /\ Actors \subseteq Tsfn!Actors /\ Closure \in Tsfn!Actors /\ a # Closure
  BY DEF TsfnFacts
<1>5. /\ doing'[a] = "drop" /\ hand'[a] = t
      /\ \A b \in Actors : b # a => doing'[b] = doing[b] /\ hand'[b] = hand[b]
  BY <1>2 DEF Own
<1>6. /\ at'[a] \in {"idle", "loading"} /\ (at'[a] = "loading" => cur'[a] = t)
      /\ \A b \in Tsfn!Actors : b # a => at'[b] = at[b] /\ cur'[b] = cur[b]
  BY <1>2, <1>3, <1>4
<1>7. made'[t] = 1 /\ \A s \in Tokens : s # t => made'[s] = made[s]
  BY <1>1, <1>2 DEF TsfnFacts
<1>8. queue[t] = 0 /\ \A b \in Actors : ~(at[b] \in Callers /\ cur[b] = t)
  BY <1>1 DEF CallKnown
<1> HIDE DEF t
<1>9. at'[Closure] = "idle"
  BY <1>4, <1>6 DEF CallKnown
<1>10. \A b \in Actors : at'[b] \in Callers \cup {"clearing"} =>
            doing'[b] = "drop" /\ hand'[b] = cur'[b]
  BY <1>4, <1>5, <1>6 DEF CallKnown, Callers
<1>11. ASSUME NEW s \in Tokens
       PROVE  /\ made'[s] \in {0, 1} /\ queue'[s] \in {0, 1}
              /\ queue'[s] = 1 => made'[s] = 1
              /\ \A b \in Actors : at'[b] \in Callers /\ cur'[b] = s =>
                     made'[s] = 1 /\ queue'[s] = 0
  <2>1. CASE s = t
    BY <1>2, <1>7, <1>8, <2>1
  <2>2. CASE s # t
    <3>1. made'[s] = made[s] /\ queue'[s] = queue[s]
      BY <1>2, <1>7, <2>2
    <3>2. \A b \in Actors : at'[b] \in Callers /\ cur'[b] = s => at[b] \in Callers /\ cur[b] = s
      BY <1>4, <1>6, <2>2 DEF Callers
    <3>3. QED
      BY <3>1, <3>2 DEF CallKnown
  <2>3. QED
    BY <2>1, <2>2
<1>12. QED
  BY <1>9, <1>10, <1>11 DEF CallKnown

LEMMA NativeCallCall ==
    ASSUME Own, TsfnFacts, HandKnown, CallKnown, NEW a \in Actors, Calling(a), Tsfn!NativeCall(a)
    PROVE  CallKnown'
<1> USE ConstantsAssumption, ActorsOf
<1> DEFINE t == cur[a]
<1>1. at[a] = "calling" /\ t \in Tokens
  BY DEF Tsfn!NativeCall, TsfnFacts, Tsfn!Reading
<1>2. doing[a] = "drop" /\ hand[a] = t /\ made[t] = 1 /\ queue[t] = 0
  BY <1>1 DEF CallKnown, Callers
<1>3. \A b \in Actors : b # a => ~(at[b] \in Callers /\ cur[b] = t)
  BY <1>1, <1>2 DEF CallKnown, HandKnown
<1>4. made' = made /\ doing' = doing /\ hand' = hand
  BY DEF Calling, handVars, Tsfn!NativeCall
<1>5. queue' = queue \/ queue' = [queue EXCEPT ![t] = @ + 1]
  BY DEF Tsfn!NativeCall, Tsfn!One
<1>6. \/ at' = [at EXCEPT ![a] = "clearing"] /\ cur' = [cur EXCEPT ![a] = t]
      \/ at' = [at EXCEPT ![a] = "idle"] /\ cur' = [cur EXCEPT ![a] = NoToken]
  BY DEF Tsfn!NativeCall, Tsfn!Return, Tsfn!Goto
<1>7. /\ at \in [Tsfn!Actors -> Tsfn!Steps] /\ cur \in [Tsfn!Actors -> Tokens \cup {NoToken}]
      /\ a \in Tsfn!Actors /\ Actors \subseteq Tsfn!Actors /\ Closure \in Tsfn!Actors /\ a # Closure
  BY DEF TsfnFacts
<1>8. /\ at'[a] \in {"idle", "clearing"} /\ (at'[a] = "clearing" => cur'[a] = t)
      /\ \A b \in Tsfn!Actors : b # a => at'[b] = at[b] /\ cur'[b] = cur[b]
  BY <1>6, <1>7
<1>9. queue'[t] \in {0, 1} /\ \A s \in Tokens : s # t => queue'[s] = queue[s]
  BY <1>2, <1>5 DEF TsfnFacts
<1> HIDE DEF t
<1>10. at'[Closure] = "idle"
  BY <1>7, <1>8 DEF CallKnown
<1>11. \A b \in Actors : at'[b] \in Callers \cup {"clearing"} =>
            doing'[b] = "drop" /\ hand'[b] = cur'[b]
  BY <1>2, <1>4, <1>7, <1>8 DEF CallKnown, Callers
<1>12. ASSUME NEW s \in Tokens
       PROVE  /\ made'[s] \in {0, 1} /\ queue'[s] \in {0, 1}
              /\ queue'[s] = 1 => made'[s] = 1
              /\ \A b \in Actors : at'[b] \in Callers /\ cur'[b] = s =>
                     made'[s] = 1 /\ queue'[s] = 0
  <2>1. \A b \in Actors : at'[b] \in Callers /\ cur'[b] = s =>
            s # t /\ at[b] \in Callers /\ cur[b] = s
    BY <1>3, <1>7, <1>8 DEF Callers
  <2>2. CASE s = t
    BY <1>2, <1>4, <1>9, <2>1, <2>2
  <2>3. CASE s # t
    BY <1>4, <1>9, <2>1, <2>3 DEF CallKnown
  <2>4. QED
    BY <2>2, <2>3
<1>13. QED
  BY <1>10, <1>11, <1>12 DEF CallKnown

LEMMA DroppingCall ==
    ASSUME Own, TsfnFacts, CallKnown, NEW a \in Actors, Dropping(a)
    PROVE  CallKnown'
<1> USE ConstantsAssumption, ActorsOf
<1>1. at[a] \in {"dropping", "releasing"}
  BY DEF Dropping, Tsfn!Dropping, Tsfn!Unregister, Tsfn!NativeRelease
<1>2. made' = made /\ queue' = queue /\ doing' = doing /\ hand' = hand
  BY DEF Dropping, handVars, Tsfn!Dropping, Tsfn!Unregister, Tsfn!NativeRelease,
      Tsfn!payVars, Tsfn!nodeVars
<1>3. \E step \in {"releasing", "idle"}, s \in Tokens \cup {NoToken} :
          at' = [at EXCEPT ![a] = step] /\ cur' = [cur EXCEPT ![a] = s]
  <2>1. cur[a] \in Tokens
    BY <1>1 DEF TsfnFacts, Tsfn!Reading
  <2>2. QED
    BY <2>1 DEF Dropping, Tsfn!Dropping, Tsfn!Unregister, Tsfn!NativeRelease, Tsfn!Return,
        Tsfn!Goto
<1>4. /\ at \in [Tsfn!Actors -> Tsfn!Steps] /\ cur \in [Tsfn!Actors -> Tokens \cup {NoToken}]
      /\ a \in Tsfn!Actors /\ Actors \subseteq Tsfn!Actors /\ Closure \in Tsfn!Actors /\ a # Closure
  BY DEF TsfnFacts
<1>5. /\ at'[a] \in {"releasing", "idle"}
      /\ \A b \in Tsfn!Actors : b # a => at'[b] = at[b] /\ cur'[b] = cur[b]
  BY <1>3, <1>4
<1>6. at'[Closure] = "idle"
  BY <1>4, <1>5 DEF CallKnown
<1>7. \A b \in Actors : at'[b] \in Callers \cup {"clearing"} =>
          b # a /\ at'[b] = at[b] /\ cur'[b] = cur[b]
  BY <1>4, <1>5 DEF Callers
<1>8. QED
  BY <1>2, <1>6, <1>7 DEF CallKnown, Callers

\* A closure is taken once, and calls its function once.
LEMMA HandStep ==
    Own /\ TsfnFacts /\ Situation /\ RecordKnown /\ HandKnown /\ [Next]_vars
        => HandKnown'
<1> SUFFICES ASSUME Own, TsfnFacts, Situation, RecordKnown, HandKnown, [Next]_vars
             PROVE  HandKnown'
  OBVIOUS
<1> USE ConstantsAssumption, ActorsOf
    DEF Turn, Take, Record, Settle, Own, TsfnFacts, Phases, JsFree, InStart, Pumping,
        HandKnown, Situation, Entered, Tsfn!One, Tsfn!Goto, Tsfn!Return, vars, tsfnVars,
        startVars, signalVars, handVars, ownerVars, Tsfn!lifeVars, Tsfn!tsfnVars,
        Tsfn!nodeVars, Tsfn!payVars, Tsfn!actVars
<1>1. ASSUME NEW t \in Tokens, Reserve(t) PROVE HandKnown'
  BY <1>1 DEF Reserve
<1>2. ASSUME NEW t \in Tokens, Refuse(t) PROVE HandKnown'
  BY <1>2 DEF Refuse
<1>3. ASSUME NEW t \in Tokens, CreateFunction(t) PROVE HandKnown'
  BY <1>3 DEF CreateFunction, Tsfn!Create, Tsfn!Fresh
<1>4. ASSUME NEW t \in Tokens, CannotCreate(t) PROVE HandKnown'
  BY <1>4 DEF CannotCreate, Leave, Tsfn!CreateFails, Tsfn!Fresh
<1>5. ASSUME NEW t \in Tokens, MakeSignal(t) PROVE HandKnown'
  BY <1>5, MakeSignalHand
<1>6. ASSUME NEW t \in Tokens, StartReturns(t) PROVE HandKnown'
  BY <1>6 DEF StartReturns
<1>7. ASSUME NEW t \in Tokens, PublishRecord(t) PROVE HandKnown'
  BY <1>7 DEF PublishRecord
<1>8. ASSUME NEW t \in Tokens, SignalPublish(t) PROVE HandKnown'
  BY <1>8, SignalPublishHand
<1>9. ASSUME NEW t \in Tokens, RejectStart(t) PROVE HandKnown'
  BY <1>9, RejectStartHand
<1>10. ASSUME NEW t \in Tokens, AbandonStart(t) PROVE HandKnown'
  BY <1>10, AbandonStartHand
<1>11. ASSUME NEW a \in Actors, NEW t \in Tokens, Complete(a, t) PROVE HandKnown'
  BY <1>11, CompleteHand
<1>12. ASSUME NEW a \in Actors, Notify(a) PROVE HandKnown'
  BY <1>12 DEF Notify, Tsfn!BeginCall
<1>13. ASSUME NEW a \in Actors, Calling(a) /\ Tsfn!LoadRaw(a) PROVE HandKnown'
  BY <1>13 DEF Calling, Tsfn!LoadRaw
<1>14. ASSUME NEW a \in Actors, Calling(a) /\ Tsfn!NativeCall(a) PROVE HandKnown'
  BY <1>14 DEF Calling, Tsfn!NativeCall
<1>15. ASSUME NEW a \in Actors, Calling(a) /\ Tsfn!ClearRaw(a) PROVE HandKnown'
  BY <1>15 DEF Calling, Tsfn!ClearRaw
<1>16. ASSUME NEW a \in Actors, EnqueueFails(a) PROVE HandKnown'
  BY <1>16 DEF EnqueueFails
<1>17. ASSUME NEW a \in Actors, DropClosure(a) PROVE HandKnown'
  BY <1>17 DEF DropClosure, Tsfn!DropClone
<1>18. ASSUME NEW a \in Actors, Dropping(a) PROVE HandKnown'
  BY <1>18 DEF Dropping, Tsfn!Dropping, Tsfn!Unregister, Tsfn!NativeRelease
<1>19. ASSUME NEW t \in Tokens, Dispatch(t) PROVE HandKnown'
  BY <1>19 DEF Dispatch, Settled, Tsfn!Dispatch
<1>20. ASSUME NEW t \in Tokens, Finalize(t) PROVE HandKnown'
  BY <1>20 DEF Finalize, Settled, Tsfn!FinalizeTsfn
<1>21. CASE CloseOwner
  BY <1>21 DEF CloseOwner
<1>22. ASSUME NEW t \in Tokens, CloseNext(t) PROVE HandKnown'
  BY <1>22, CloseNextHand
<1>23. ASSUME NEW t \in Tokens, NodeStep(t) PROVE HandKnown'
  BY <1>23 DEF NodeStep, Tsfn!NodeCloses, Tsfn!NodeHook
<1>24. CASE EnvCleanup
  BY <1>24 DEF EnvCleanup, Tsfn!EnvCleanup
<1>25. CASE CloseLifecycle
  BY <1>25 DEF CloseLifecycle, Tsfn!CloseLifecycle
<1>26. CASE TeardownGoesOn
  BY <1>26 DEF TeardownGoesOn, Tsfn!AbortHandle, Tsfn!AbortDone, Tsfn!HooksDone,
      Tsfn!LoopCloses
<1>27. CASE UNCHANGED vars
  BY <1>27
<1> HIDE DEF HandKnown
<1>28. QED
  BY <1>1, <1>2, <1>3, <1>4, <1>5, <1>6, <1>7, <1>8, <1>9, <1>10, <1>11, <1>12, <1>13,
      <1>14, <1>15, <1>16, <1>17, <1>18, <1>19, <1>20, <1>21, <1>22, <1>23, <1>24, <1>25,
      <1>26, <1>27
  DEF Next, StartSteps, ClosureSteps, Calling, Tsfn!Calling

\* The payload of the one call is in the call or in the queue.
LEMMA CallStep ==
    Own /\ TsfnFacts /\ HandKnown /\ CallKnown /\ [Next]_vars
        => CallKnown'
<1> SUFFICES ASSUME Own, TsfnFacts, HandKnown, CallKnown, [Next]_vars
             PROVE  CallKnown'
  OBVIOUS
<1> USE ConstantsAssumption, ActorsOf
    DEF Turn, Take, Record, Settle, Own, TsfnFacts, Phases, JsFree, InStart, Pumping,
        HandKnown, CallKnown, Callers, Tsfn!One, Tsfn!Goto, Tsfn!Return, Tsfn!Steps,
        Tsfn!Reading, vars, tsfnVars, startVars, signalVars, handVars, ownerVars,
        Tsfn!lifeVars, Tsfn!tsfnVars, Tsfn!nodeVars, Tsfn!payVars, Tsfn!actVars
<1>1. ASSUME NEW t \in Tokens, Reserve(t) PROVE CallKnown'
  BY <1>1 DEF Reserve
<1>2. ASSUME NEW t \in Tokens, Refuse(t) PROVE CallKnown'
  BY <1>2 DEF Refuse
<1>3. ASSUME NEW t \in Tokens, CreateFunction(t) PROVE CallKnown'
  BY <1>3 DEF CreateFunction, Tsfn!Create, Tsfn!Fresh
<1>4. ASSUME NEW t \in Tokens, CannotCreate(t) PROVE CallKnown'
  BY <1>4 DEF CannotCreate, Leave, Tsfn!CreateFails, Tsfn!Fresh
<1>5. ASSUME NEW t \in Tokens, MakeSignal(t) PROVE CallKnown'
  BY <1>5 DEF MakeSignal, Tsfn!Move
<1>6. ASSUME NEW t \in Tokens, StartReturns(t) PROVE CallKnown'
  BY <1>6 DEF StartReturns
<1>7. ASSUME NEW t \in Tokens, PublishRecord(t) PROVE CallKnown'
  BY <1>7 DEF PublishRecord
<1>8. ASSUME NEW t \in Tokens, SignalPublish(t) PROVE CallKnown'
  BY <1>8 DEF SignalPublish, Leave, Tsfn!Move
<1>9. ASSUME NEW t \in Tokens, RejectStart(t) PROVE CallKnown'
  BY <1>9 DEF RejectStart, CloseSignal, Leave, Settled, Tsfn!Move
<1>10. ASSUME NEW t \in Tokens, AbandonStart(t) PROVE CallKnown'
  BY <1>10 DEF AbandonStart, CloseSignal, Leave, Tsfn!Move
<1>11. ASSUME NEW a \in Actors, NEW t \in Tokens, Complete(a, t) PROVE CallKnown'
  BY <1>11 DEF Complete, Tsfn!Move
<1>12. ASSUME NEW a \in Actors, Notify(a) PROVE CallKnown'
  BY <1>12, NotifyCall
<1>13. ASSUME NEW a \in Actors, Calling(a) /\ Tsfn!LoadRaw(a) PROVE CallKnown'
  BY <1>13 DEF Calling, Tsfn!LoadRaw
<1>14. ASSUME NEW a \in Actors, Calling(a) /\ Tsfn!NativeCall(a) PROVE CallKnown'
  BY <1>14, NativeCallCall
<1>15. ASSUME NEW a \in Actors, Calling(a) /\ Tsfn!ClearRaw(a) PROVE CallKnown'
  BY <1>15 DEF Calling, Tsfn!ClearRaw
<1>16. ASSUME NEW a \in Actors, EnqueueFails(a) PROVE CallKnown'
  BY <1>16 DEF EnqueueFails
<1>17. ASSUME NEW a \in Actors, DropClosure(a) PROVE CallKnown'
  BY <1>17 DEF DropClosure, Tsfn!DropClone
<1>18. ASSUME NEW a \in Actors, Dropping(a) PROVE CallKnown'
  BY <1>18, DroppingCall
<1>19. ASSUME NEW t \in Tokens, Dispatch(t) PROVE CallKnown'
  BY <1>19 DEF Dispatch, Settled, Tsfn!Dispatch
<1>20. ASSUME NEW t \in Tokens, Finalize(t) PROVE CallKnown'
  BY <1>20 DEF Finalize, Settled, Tsfn!FinalizeTsfn
<1>21. CASE CloseOwner
  BY <1>21 DEF CloseOwner
<1>22. ASSUME NEW t \in Tokens, CloseNext(t) PROVE CallKnown'
  BY <1>22 DEF CloseNext, CloseSignal, Tsfn!Move
<1>23. ASSUME NEW t \in Tokens, NodeStep(t) PROVE CallKnown'
  BY <1>23 DEF NodeStep, Tsfn!NodeCloses, Tsfn!NodeHook
<1>24. CASE EnvCleanup
  BY <1>24 DEF EnvCleanup, Tsfn!EnvCleanup
<1>25. CASE CloseLifecycle
  BY <1>25 DEF CloseLifecycle, Tsfn!CloseLifecycle
<1>26. CASE TeardownGoesOn
  BY <1>26 DEF TeardownGoesOn, Tsfn!AbortHandle, Tsfn!AbortDone, Tsfn!HooksDone,
      Tsfn!LoopCloses
<1>27. CASE UNCHANGED vars
  BY <1>27
<1> HIDE DEF CallKnown
<1>28. QED
  BY <1>1, <1>2, <1>3, <1>4, <1>5, <1>6, <1>7, <1>8, <1>9, <1>10, <1>11, <1>12, <1>13,
      <1>14, <1>15, <1>16, <1>17, <1>18, <1>19, <1>20, <1>21, <1>22, <1>23, <1>24, <1>25,
      <1>26, <1>27
  DEF Next, StartSteps, ClosureSteps, Calling, Tsfn!Calling

\* A completion, or closing, only moves what already flies; what is dispatched has landed.
LEMMA CompleteFlight ==
    ASSUME Own, TsfnFacts, FlightKnown, NEW a \in Actors, NEW t \in Tokens, Complete(a, t)
    PROVE  FlightKnown'
<1> USE ConstantsAssumption, ActorsOf
<1>1. UNCHANGED <<phase, published, record, outcome>> /\ at[a] = "idle"
  BY DEF Complete, startVars, ownerVars
<1>2. UNCHANGED <<queue, at, cur>>
  BY CompleteDoes DEF tsfnVars, Tsfn!Move, Tsfn!nodeVars, Tsfn!actVars
<1>3. ASSUME NEW s \in Tokens, Flies(s)'
      PROVE  Flies(s)
  <2>1. CASE t \in published /\ Closure \in holders[t]
    <3>1. Flies(t)
      BY <2>1 DEF Flies
    <3>2. ASSUME s # t
          PROVE  Flies(s)
      <4>1. holders'[s] = holders[s]
        BY <2>1, <3>2, CompleteDoes DEF Tsfn!Move, TsfnFacts
      <4>2. \A b \in Actors : Sends(b, s)' => Sends(b, s)
        BY <1>2, <2>1, <3>2, CompleteDoes DEF Sends, Own
      <4>3. QED
        BY <1>1, <1>2, <1>3, <4>1, <4>2 DEF Flies
    <3>3. QED
      BY <3>1, <3>2
  <2>2. CASE ~(t \in published /\ Closure \in holders[t])
    BY <1>1, <1>3, <2>2, CompleteDoes DEF Flies, Sends, tsfnVars
  <2>3. QED
    BY <2>1, <2>2
<1>4. QED
  BY <1>1, <1>3 DEF FlightKnown

LEMMA CloseSignalLands ==
    ASSUME Own, TsfnFacts, NEW t \in Tokens, CloseSignal(t), NEW s \in Tokens, Flies(s)'
    PROVE  Flies(s)
<1> USE ConstantsAssumption, ActorsOf
<1>1. published' = published
  BY DEF CloseSignal
<1>2. UNCHANGED <<queue, at, cur>>
  BY CloseSignalDoes DEF tsfnVars, Tsfn!Move, Tsfn!nodeVars, Tsfn!actVars
<1>3. CASE Closure \in holders[t]
  <2>1. Closure \in holders'[s] => Closure \in holders[s]
    BY <1>3, CloseSignalDoes DEF Tsfn!Move, TsfnFacts
  <2>2. \A b \in Actors : Sends(b, s)' => Sends(b, s)
    <3>1. /\ doing' = [doing EXCEPT ![Js] = "drop"]
          /\ hand' = [hand EXCEPT ![Js] = t]
      BY <1>3, CloseSignalDoes
    <3>2. QED
      BY <1>2, <3>1 DEF Sends, Own
  <2>3. QED
    BY <1>1, <1>2, <2>1, <2>2 DEF Flies
<1>4. CASE Closure \notin holders[t]
  BY <1>1, <1>4, CloseSignalDoes DEF Flies, Sends, tsfnVars
<1>5. QED
  BY <1>3, <1>4

LEMMA CloseNextFlight ==
    ASSUME Own, TsfnFacts, FlightKnown, NEW t \in Tokens, CloseNext(t)
    PROVE  FlightKnown'
<1>1. UNCHANGED <<phase, published, record, outcome>> /\ CloseSignal(t)
  BY DEF CloseNext, CloseSignal, startVars
<1>2. \A s \in Tokens : Flies(s)' => Flies(s)
  BY <1>1, CloseSignalLands
<1>3. QED
  BY <1>1, <1>2 DEF FlightKnown

LEMMA AbandonStartFlight ==
    ASSUME Own, TsfnFacts, FlightKnown, NEW t \in Tokens, AbandonStart(t)
    PROVE  FlightKnown'
<1>1. /\ UNCHANGED <<published, record, outcome>> /\ CloseSignal(t)
      /\ phase[t] = "unpublished" /\ \A s \in Tokens : s # t => phase'[s] = phase[s]
  BY DEF AbandonStart, CloseSignal, InStart, Leave, Turn, ownerVars, Own
<1>2. \A s \in Tokens : Flies(s)' => Flies(s)
  BY <1>1, CloseSignalLands
<1>3. QED
  BY <1>1, <1>2 DEF FlightKnown

\* An activation that failed has sent nothing: it was not published.
LEMMA RejectStartFlight ==
    ASSUME Own, TsfnFacts, RecordKnown, FlightKnown, NEW t \in Tokens, RejectStart(t)
    PROVE  FlightKnown'
<1>1. published' = published /\ CloseSignal(t) /\ phase[t] = "failing"
  BY DEF RejectStart, CloseSignal, InStart
<1>2. \A s \in Tokens : s # t =>
          phase'[s] = phase[s] /\ record'[s] = record[s] /\ outcome'[s] = outcome[s]
  BY DEF RejectStart, Leave, Turn, Record, Settle, Own
<1>3. \A s \in Tokens : Flies(s)' => Flies(s)
  BY <1>1, CloseSignalLands
<1>4. record[t] # "pending" /\ outcome[t] = "pending" /\ t \notin published
  BY <1>1 DEF RecordKnown, FlightKnown, Own
<1>5. ~Flies(t)
  BY <1>4 DEF FlightKnown
<1>6. QED
  BY <1>1, <1>2, <1>3, <1>4, <1>5 DEF FlightKnown

LEMMA DispatchFlight ==
    ASSUME Own, TsfnFacts, HandKnown, CallKnown, FlightKnown, NEW t \in Tokens, Dispatch(t)
    PROVE  FlightKnown'
<1> USE ConstantsAssumption, ActorsOf
<1>1. /\ UNCHANGED <<phase, published, holders, at, cur, doing, hand>>
      /\ queue[t] > 0 /\ queue' = [queue EXCEPT ![t] = @ - 1]
  BY DEF Dispatch, startVars, handVars, Tsfn!Dispatch, Tsfn!tsfnVars, Tsfn!actVars
<1>2. queue[t] = 1 /\ queue'[t] = 0 /\ made[t] = 1
  BY <1>1 DEF CallKnown, TsfnFacts
<1>3. ~Flies(t)'
  BY <1>1, <1>2 DEF Flies, Sends, HandKnown, CallKnown
<1>4. \A s \in Tokens : s # t => (Flies(s)' <=> Flies(s))
  BY <1>1 DEF Flies, Sends, TsfnFacts
<1>5. \A s \in Tokens : s # t => record'[s] = record[s] /\ outcome'[s] = outcome[s]
  BY DispatchDoes DEF Own
<1>6. QED
  BY <1>1, <1>3, <1>4, <1>5 DEF FlightKnown

\* No notification flies without a record to find, unless the owner was closed.
LEMMA FlightStep ==
    Own /\ TsfnFacts /\ Situation /\ RecordKnown /\ HandKnown /\ CallKnown
        /\ FlightKnown /\ [Next]_vars
        => FlightKnown'
<1> SUFFICES ASSUME Own, TsfnFacts, Situation, RecordKnown, HandKnown, CallKnown,
                    FlightKnown, [Next]_vars
             PROVE  FlightKnown'
  OBVIOUS
<1> USE ConstantsAssumption, ActorsOf
    DEF Turn, Take, Record, Settle, Own, TsfnFacts, Phases, JsFree, InStart, Pumping,
        Situation, Entered, HandKnown, CallKnown, RecordKnown, Reserved, FlightKnown,
        Flies, Sends, Callers, Tsfn!One, Tsfn!Goto, Tsfn!Return, Tsfn!Steps,
        Tsfn!Reading, vars, tsfnVars, startVars, signalVars, handVars, ownerVars,
        Tsfn!lifeVars, Tsfn!tsfnVars, Tsfn!nodeVars, Tsfn!payVars, Tsfn!actVars
<1>1. ASSUME NEW t \in Tokens, Reserve(t) PROVE FlightKnown'
  BY <1>1 DEF Reserve
<1>2. ASSUME NEW t \in Tokens, Refuse(t) PROVE FlightKnown'
  BY <1>2 DEF Refuse
<1>3. ASSUME NEW t \in Tokens, CreateFunction(t) PROVE FlightKnown'
  BY <1>3 DEF CreateFunction, Tsfn!Create, Tsfn!Fresh
<1>4. ASSUME NEW t \in Tokens, CannotCreate(t) PROVE FlightKnown'
  BY <1>4 DEF CannotCreate, Leave, Tsfn!CreateFails, Tsfn!Fresh
<1>5. ASSUME NEW t \in Tokens, MakeSignal(t) PROVE FlightKnown'
  BY <1>5 DEF MakeSignal, Tsfn!Move
<1>6. ASSUME NEW t \in Tokens, StartReturns(t) PROVE FlightKnown'
  BY <1>6 DEF StartReturns
<1>7. ASSUME NEW t \in Tokens, PublishRecord(t) PROVE FlightKnown'
  BY <1>7 DEF PublishRecord
<1>8. ASSUME NEW t \in Tokens, SignalPublish(t) PROVE FlightKnown'
  BY <1>8 DEF SignalPublish, Leave, Tsfn!Move
<1>9. ASSUME NEW t \in Tokens, RejectStart(t) PROVE FlightKnown'
  BY <1>9, RejectStartFlight
<1>10. ASSUME NEW t \in Tokens, AbandonStart(t) PROVE FlightKnown'
  BY <1>10, AbandonStartFlight
<1>11. ASSUME NEW a \in Actors, NEW t \in Tokens, Complete(a, t) PROVE FlightKnown'
  BY <1>11, CompleteFlight
<1>12. ASSUME NEW a \in Actors, Notify(a) PROVE FlightKnown'
  BY <1>12 DEF Notify, Tsfn!BeginCall
<1>13. ASSUME NEW a \in Actors, Calling(a) /\ Tsfn!LoadRaw(a) PROVE FlightKnown'
  BY <1>13 DEF Calling, Tsfn!LoadRaw
<1>14. ASSUME NEW a \in Actors, Calling(a) /\ Tsfn!NativeCall(a) PROVE FlightKnown'
  BY <1>14 DEF Calling, Tsfn!NativeCall
<1>15. ASSUME NEW a \in Actors, Calling(a) /\ Tsfn!ClearRaw(a) PROVE FlightKnown'
  BY <1>15 DEF Calling, Tsfn!ClearRaw
<1>16. ASSUME NEW a \in Actors, EnqueueFails(a) PROVE FlightKnown'
  BY <1>16 DEF EnqueueFails
<1>17. ASSUME NEW a \in Actors, DropClosure(a) PROVE FlightKnown'
  BY <1>17 DEF DropClosure, Tsfn!DropClone
<1>18. ASSUME NEW a \in Actors, Dropping(a) PROVE FlightKnown'
  BY <1>18 DEF Dropping, Tsfn!Dropping, Tsfn!Unregister, Tsfn!NativeRelease
<1>19. ASSUME NEW t \in Tokens, Dispatch(t) PROVE FlightKnown'
  BY <1>19, DispatchFlight
<1>20. ASSUME NEW t \in Tokens, Finalize(t) PROVE FlightKnown'
  BY <1>20 DEF Finalize, Settled, Tsfn!FinalizeTsfn
<1>21. CASE CloseOwner
  BY <1>21 DEF CloseOwner
<1>22. ASSUME NEW t \in Tokens, CloseNext(t) PROVE FlightKnown'
  BY <1>22, CloseNextFlight
<1>23. ASSUME NEW t \in Tokens, NodeStep(t) PROVE FlightKnown'
  BY <1>23 DEF NodeStep, Tsfn!NodeCloses, Tsfn!NodeHook
<1>24. CASE EnvCleanup
  BY <1>24 DEF EnvCleanup, Tsfn!EnvCleanup
<1>25. CASE CloseLifecycle
  BY <1>25 DEF CloseLifecycle, Tsfn!CloseLifecycle
<1>26. CASE TeardownGoesOn
  BY <1>26 DEF TeardownGoesOn, Tsfn!AbortHandle, Tsfn!AbortDone, Tsfn!HooksDone,
      Tsfn!LoopCloses
<1>27. CASE UNCHANGED vars
  BY <1>27
<1> HIDE DEF FlightKnown
<1>28. QED
  BY <1>1, <1>2, <1>3, <1>4, <1>5, <1>6, <1>7, <1>8, <1>9, <1>10, <1>11, <1>12, <1>13,
      <1>14, <1>15, <1>16, <1>17, <1>18, <1>19, <1>20, <1>21, <1>22, <1>23, <1>24, <1>25,
      <1>26, <1>27
  DEF Next, StartSteps, ClosureSteps, Calling, Tsfn!Calling

-----------------------------------------------------------------------------
(* The theorems *)

\* The invariant holds before the first activation.
LEMMA InductiveInit == Init => Inductive
<1> SUFFICES ASSUME Init PROVE Inductive
  OBVIOUS
<1> USE ConstantsAssumption, ActorsOf
<1>1. Tsfn!Init
  BY DEF Init
<1>2. Tsfn!Inductive
  BY <1>1, TsfnInit
<1>3. Tsfn!TypeOK
  BY <1>2 DEF Tsfn!Inductive
<1>4. Own
  <2>1. <<>> \in Seq(Tokens)
    OBVIOUS
  <2>2. \A a \in Actors : hand[a] = NoToken <=> doing[a] = "idle"
    BY DEF Init
  <2>3. QED
    BY <2>1, <2>2 DEF Init, Own, Phases
<1>5. /\ at = [a \in Tsfn!Actors |-> "idle"] /\ env = "running"
      /\ holders = [t \in Tokens |-> {}]
      /\ queue = [t \in Tokens |-> 0] /\ made = [t \in Tokens |-> 0]
  BY <1>1 DEF Tsfn!Init
<1>6. StackKnown
  BY DEF Init, StackKnown, Entered
<1>7. RecordKnown
  BY <1>5 DEF Init, RecordKnown, Reserved
<1>8. HandKnown
  BY <1>5 DEF Init, HandKnown
<1>9. CallKnown
  BY <1>5 DEF CallKnown, Callers
<1>10. FlightKnown
  BY <1>5 DEF Init, FlightKnown, Flies, Sends, Callers
<1>11. QED
  BY <1>2, <1>3, <1>4, <1>6, <1>7, <1>8, <1>9, <1>10, OwnOfType DEF Inductive

\* The parts of the invariant keep each other, and those of the threadsafe functions.
LEMMA InductiveStep == Inductive /\ [Next]_vars => Inductive'
<1> SUFFICES ASSUME Inductive, [Next]_vars PROVE Inductive'
  OBVIOUS
<1>1. /\ Tsfn!Inductive /\ Own /\ StackKnown /\ RecordKnown /\ HandKnown /\ CallKnown
      /\ FlightKnown
  BY OwnOfType DEF Inductive
<1>2. TsfnFacts /\ Situation
  BY <1>1, TsfnFactsHold, SituationHolds
<1>3. Own' /\ StackKnown' /\ RecordKnown'
  BY <1>1, <1>2, OwnStep, StackStep, RecordStep
<1>4. HandKnown' /\ CallKnown' /\ FlightKnown'
  BY <1>1, <1>2, HandStep, CallStep, FlightStep
<1>5. Tsfn!Inductive'
  BY <1>1, StepOfTsfn, TsfnStep, RefusedStep
<1>6. Tsfn!TypeOK'
  BY <1>5 DEF Tsfn!Inductive
<1>7. TypeOK'
  BY <1>3, <1>6 DEF TypeOK, Own
<1>8. QED
  BY <1>3, <1>4, <1>5, <1>7 DEF Inductive

\* For any number of activations and threads, whatever the order of starts, completions,
\* turns of the event loop and closing.
THEOREM InductiveInvariant == Spec => []Inductive
  BY InductiveInit, InductiveStep, PTL DEF Spec

\* Every variable of the composition keeps its type.
THEOREM TypeCorrect == Spec => []TypeOK
<1>1. Inductive => TypeOK
  BY DEF Inductive
<1>2. QED
  BY <1>1, InductiveInvariant, PTL

\* No closure calls or releases a function of Node that was closed and freed, though
\* Node may refuse calls and the handler may keep its closure beyond teardown.
THEOREM NoUseAfterFreeHolds == Spec => []Tsfn!NoUseAfterFree
<1>1. Inductive => Tsfn!NoUseAfterFree
  <2> SUFFICES ASSUME Inductive PROVE Tsfn!NoUseAfterFree
    OBVIOUS
  <2>1. Tsfn!TypeOK /\ Tsfn!Registered /\ Tsfn!Quiet
    BY DEF Inductive, Tsfn!Inductive
  <2>2. \A t \in raw : native[t] \in {"open", "closing"}
    BY <2>1 DEF Tsfn!TypeOK, Tsfn!Natives, Tsfn!Registered, Tsfn!Quiet
  <2>3. ASSUME NEW a \in Tsfn!Actors, at[a] \in {"calling", "clearing", "releasing"}
        PROVE  native[cur[a]] \in {"open", "closing"}
    <3>1. cur[a] \in Tokens /\ Tsfn!Using(cur[a])
      BY <2>1, <2>3 DEF Tsfn!TypeOK, Tsfn!Reading, Tsfn!Using
    <3>2. QED
      BY <2>1, <3>1 DEF Tsfn!TypeOK, Tsfn!Natives, Tsfn!Registered, Tsfn!Quiet
  <2>4. QED
    BY <2>2, <2>3 DEF Tsfn!NoUseAfterFree
<1>2. QED
  BY <1>1, InductiveInvariant, PTL

\* However early Windows completes an activation, its notification finds the record, or
\* the owner was closed.
THEOREM NotificationFindsRecordHolds == Spec => []NotificationFindsRecord
<1>1. Inductive => NotificationFindsRecord
  BY DEF Inductive, FlightKnown, Flies, NotificationFindsRecord
<1>2. QED
  BY <1>1, InductiveInvariant, PTL

\* An activation that threw or was abandoned leaves no function to Windows.
THEOREM GivenUpHoldsNothingHolds == Spec => []GivenUpHoldsNothing
<1>1. Inductive => GivenUpHoldsNothing
  <2> SUFFICES ASSUME Inductive, NEW t \in Tokens, State(t) \in {"thrown", "abandoned"},
                      t \notin toClose
               PROVE  Closure \notin holders[t]
    BY DEF GivenUpHoldsNothing
  <2>1. phase[t] = "threw" \/ outcome[t] = "abandoned"
    BY OwnOfType DEF State, Inductive, Own
  <2>2. QED
    BY <2>1 DEF Inductive, HandKnown
<1>2. QED
  BY <1>1, InductiveInvariant, PTL

-----------------------------------------------------------------------------
(* Refinement *)

\* A step changes what JavaScript sees of one activation, or of none.
LEMMA StatesChange ==
    ASSUME NEW q \in Tokens, NEW to, State(q)' = to,
           \A t \in Tokens \ {q} : State(t)' = State(t)
    PROVE  [t \in Tokens |-> State(t)]' = [[t \in Tokens |-> State(t)] EXCEPT ![q] = to]
  OBVIOUS

LEMMA StatesStay ==
    ASSUME \A t \in Tokens : State(t)' = State(t)
    PROVE  [t \in Tokens |-> State(t)]' = [t \in Tokens |-> State(t)]
  OBVIOUS

\* The environment, as a promise sees it.
LEMMA Opens ==
    /\ env' = env => (env = "running")' = (env = "running")
    /\ env # "running" /\ env' # "running" => (env = "running")' = (env = "running")
  OBVIOUS

LEMMA Unseen ==
    ASSUME \A t \in Tokens : State(t)' = State(t),
           env' = env \/ (env # "running" /\ env' # "running")
    PROVE  [Abstract!Next]_Abstract!vars
  BY StatesStay, Opens DEF Abstract!vars

LEMMA SeenThrow ==
    ASSUME NEW q \in Tokens, State(q) = "new", State(q)' = "thrown",
           \A t \in Tokens \ {q} : State(t)' = State(t), env = "running", env' = env
    PROVE  [Abstract!Next]_Abstract!vars
<1>1. Abstract!Throw(q)
  BY StatesChange, Opens DEF Abstract!Throw, Abstract!Move
<1>2. QED
  BY <1>1 DEF Abstract!Next

LEMMA SeenReturn ==
    ASSUME NEW q \in Tokens, State(q) = "new", State(q)' = "running",
           \A t \in Tokens \ {q} : State(t)' = State(t), env = "running", env' = env
    PROVE  [Abstract!Next]_Abstract!vars
<1>1. Abstract!Return(q)
  BY StatesChange, Opens DEF Abstract!Return, Abstract!Move
<1>2. QED
  BY <1>1 DEF Abstract!Next

LEMMA SeenFail ==
    ASSUME NEW q \in Tokens, State(q) = "new", State(q)' = "rejected",
           \A t \in Tokens \ {q} : State(t)' = State(t), env = "running", env' = env
    PROVE  [Abstract!Next]_Abstract!vars
<1>1. Abstract!Fail(q)
  BY StatesChange, Opens DEF Abstract!Fail, Abstract!Move
<1>2. QED
  BY <1>1 DEF Abstract!Next

LEMMA SeenSettle ==
    ASSUME NEW q \in Tokens, State(q) = "running", NEW how \in {"resolved", "rejected", "lost"},
           State(q)' = how, how = "lost" => SettleCanFail,
           \A t \in Tokens \ {q} : State(t)' = State(t), env = "running", env' = env
    PROVE  [Abstract!Next]_Abstract!vars
<1>1. Abstract!Move(q, "running", how)
  BY StatesChange DEF Abstract!Move
<1>2. Abstract!Settle(q)
  BY <1>1, Opens DEF Abstract!Settle
<1>3. QED
  BY <1>2 DEF Abstract!Next

LEMMA SeenCloseOwner ==
    ASSUME \A t \in Tokens : State(t)' = IF State(t) = "running" THEN "abandoned" ELSE State(t),
           env' = env
    PROVE  [Abstract!Next]_Abstract!vars
<1>1. [t \in Tokens |-> State(t)]' =
          [t \in Tokens |-> IF [s \in Tokens |-> State(s)][t] = "running" THEN "abandoned"
                            ELSE [s \in Tokens |-> State(s)][t]]
  OBVIOUS
<1>2. Abstract!CloseOwner
  BY <1>1, Opens DEF Abstract!CloseOwner
<1>3. QED
  BY <1>2 DEF Abstract!Next

LEMMA SeenStop ==
    ASSUME \A t \in Tokens : State(t)' = State(t), env = "running", env' # "running"
    PROVE  [Abstract!Next]_Abstract!vars
<1>1. (env = "running")' = FALSE
  OBVIOUS
<1>2. Abstract!Stop
  BY <1>1, StatesStay DEF Abstract!Stop
<1>3. QED
  BY <1>2 DEF Abstract!Next

\* What JavaScript sees of an activation follows from its phase and its outcome.
LEMMA StateOf ==
    ASSUME NEW t \in Tokens
    PROVE  /\ phase'[t] = phase[t] /\ outcome'[t] = outcome[t] => State(t)' = State(t)
           /\ phase[t] \notin {"returned", "threw"} => State(t) = "new"
           /\ phase'[t] \notin {"returned", "threw"} => State(t)' = "new"
           /\ phase'[t] = "threw" => State(t)' = "thrown"
           /\ phase[t] = "returned" /\ outcome[t] = "pending" => State(t) = "running"
           /\ phase'[t] = "returned" /\ outcome'[t] = "pending" => State(t)' = "running"
           /\ phase'[t] = "returned" /\ outcome'[t] # "pending" => State(t)' = outcome'[t]
  BY DEF State

\* Every step is one action of the promise, or is not seen.
LEMMA StepOfPromise == Inductive /\ [Next]_vars => [Abstract!Next]_Abstract!vars
<1> SUFFICES ASSUME Inductive, [Next]_vars
      PROVE  [Abstract!Next]_Abstract!vars
  OBVIOUS
<1>0. Own /\ TsfnFacts /\ Situation /\ RecordKnown
  BY OwnOfType, TsfnFactsHold, SituationHolds DEF Inductive
<1>a. /\ phase \in [Tokens -> Phases]
      /\ outcome \in [Tokens -> {"pending", "resolved", "rejected", "lost", "abandoned"}]
  BY <1>0 DEF Own
<1> USE <1>0, <1>a
<1>1. ASSUME NEW t \in Tokens, Reserve(t)
      PROVE  [Abstract!Next]_Abstract!vars
  <2>1. /\ phase[t] = "new" /\ phase'[t] \in Entered
        /\ \A s \in Tokens \ {t} : phase'[s] = phase[s]
    BY <1>1 DEF Reserve, InStart, Turn, tsfnVars, startVars, ownerVars, Entered
  <2>2. outcome' = outcome /\ env' = env
    BY <1>1 DEF Reserve, InStart, Turn, tsfnVars, startVars, ownerVars
  <2>3. State(t) = "new" /\ State(t)' = "new"
    BY <2>1, StateOf DEF Entered
  <2>4. QED
    BY <2>1, <2>2, <2>3, StateOf, Unseen
<1>2. ASSUME NEW t \in Tokens, Refuse(t)
      PROVE  [Abstract!Next]_Abstract!vars
  <2>1. /\ phase[t] = "new" /\ phase'[t] = "threw"
        /\ \A s \in Tokens \ {t} : phase'[s] = phase[s]
    BY <1>2 DEF Refuse, Leave, InStart, Turn
  <2>2. outcome' = outcome /\ env' = env
    BY <1>2 DEF Refuse, Leave, InStart, Turn, tsfnVars, startVars, ownerVars
  <2>3. env = "running"
    BY <1>2 DEF Refuse
  <2>4. State(t) = "new" /\ State(t)' = "thrown"
    BY <2>1, StateOf
  <2>5. QED
    BY <2>1, <2>2, <2>3, <2>4, StateOf, SeenThrow
<1>3. ASSUME NEW t \in Tokens, CreateFunction(t)
      PROVE  [Abstract!Next]_Abstract!vars
  <2>1. /\ phase[t] = "create" /\ phase'[t] \in Entered
        /\ \A s \in Tokens \ {t} : phase'[s] = phase[s]
    BY <1>3 DEF CreateFunction, Tsfn!Create, InStart, Turn, tsfnVars, startVars,
        ownerVars, Entered
  <2>2. outcome' = outcome /\ env' = env
    BY <1>3 DEF CreateFunction, Tsfn!Create, InStart, Turn, tsfnVars, startVars,
        ownerVars
  <2>3. State(t) = "new" /\ State(t)' = "new"
    BY <2>1, StateOf DEF Entered
  <2>4. QED
    BY <2>1, <2>2, <2>3, StateOf, Unseen
<1>4. ASSUME NEW t \in Tokens, CannotCreate(t)
      PROVE  [Abstract!Next]_Abstract!vars
  <2>1. /\ phase[t] = "create" /\ phase'[t] = "threw"
        /\ \A s \in Tokens \ {t} : phase'[s] = phase[s]
    BY <1>4 DEF CannotCreate, Tsfn!CreateFails, Leave, InStart, Turn
  <2>2. outcome' = outcome /\ env' = env
    BY <1>4 DEF CannotCreate, Tsfn!CreateFails, Leave, InStart, Turn, tsfnVars,
        startVars, ownerVars
  <2>3. env = "running"
    BY <2>1 DEF Situation, Entered
  <2>4. State(t) = "new" /\ State(t)' = "thrown"
    BY <2>1, StateOf
  <2>5. QED
    BY <2>1, <2>2, <2>3, <2>4, StateOf, SeenThrow
<1>5. ASSUME NEW t \in Tokens, MakeSignal(t)
      PROVE  [Abstract!Next]_Abstract!vars
  <2>1. /\ phase[t] = "signal" /\ phase'[t] \in Entered
        /\ \A s \in Tokens \ {t} : phase'[s] = phase[s]
    BY <1>5 DEF MakeSignal, Tsfn!Move, InStart, Turn, tsfnVars, startVars, ownerVars,
        Entered
  <2>2. outcome' = outcome /\ env' = env
    BY <1>5 DEF MakeSignal, Tsfn!Move, InStart, Turn, tsfnVars, startVars, ownerVars
  <2>3. State(t) = "new" /\ State(t)' = "new"
    BY <2>1, StateOf DEF Entered
  <2>4. QED
    BY <2>1, <2>2, <2>3, StateOf, Unseen
<1>6. ASSUME NEW t \in Tokens, StartReturns(t)
      PROVE  [Abstract!Next]_Abstract!vars
  <2>1. /\ phase[t] = "activating" /\ phase'[t] \in Entered
        /\ \A s \in Tokens \ {t} : phase'[s] = phase[s]
    BY <1>6 DEF StartReturns, InStart, Turn, tsfnVars, startVars, ownerVars, Entered
  <2>2. outcome' = outcome /\ env' = env
    BY <1>6 DEF StartReturns, InStart, Turn, tsfnVars, startVars, ownerVars
  <2>3. State(t) = "new" /\ State(t)' = "new"
    BY <2>1, StateOf DEF Entered
  <2>4. QED
    BY <2>1, <2>2, <2>3, StateOf, Unseen
<1>7. ASSUME NEW t \in Tokens, PublishRecord(t)
      PROVE  [Abstract!Next]_Abstract!vars
  <2>1. /\ phase[t] = "publish" /\ phase'[t] \in Entered
        /\ \A s \in Tokens \ {t} : phase'[s] = phase[s]
    BY <1>7, PublishRecordDoes DEF PublishRecord, InStart, Entered
  <2>2. outcome' = outcome /\ env' = env
    BY <1>7 DEF PublishRecord, InStart, Turn, tsfnVars, startVars, ownerVars
  <2>3. State(t) = "new" /\ State(t)' = "new"
    BY <2>1, StateOf DEF Entered
  <2>4. QED
    BY <2>1, <2>2, <2>3, StateOf, Unseen
<1>8. ASSUME NEW t \in Tokens, SignalPublish(t)
      PROVE  [Abstract!Next]_Abstract!vars
  <2>1. /\ phase[t] = "signalling" /\ phase'[t] = "returned"
        /\ \A s \in Tokens \ {t} : phase'[s] = phase[s]
    BY <1>8 DEF SignalPublish, InStart, Leave, Turn
  <2>2. outcome' = outcome /\ env' = env
    BY <1>8 DEF SignalPublish, Tsfn!Move, tsfnVars, ownerVars
  <2>3. env = "running" /\ outcome[t] = "pending"
    BY <2>1 DEF Situation, Entered, RecordKnown
  <2>4. State(t) = "new" /\ State(t)' = "running"
    BY <2>1, <2>2, <2>3, StateOf
  <2>5. QED
    BY <2>1, <2>2, <2>3, <2>4, StateOf, SeenReturn
<1>9. ASSUME NEW t \in Tokens, RejectStart(t)
      PROVE  [Abstract!Next]_Abstract!vars
  <2>1. phase[t] = "failing" /\ env' = env
    BY <1>9 DEF RejectStart, InStart, CloseSignal, Tsfn!Move, tsfnVars
  <2>2. PICK how \in {"rejected", "lost"} :
            /\ outcome' = [outcome EXCEPT ![t] = how]
            /\ phase' = [phase EXCEPT ![t] = IF how = "lost" THEN "threw" ELSE "returned"]
    BY <1>9 DEF RejectStart, Settled, Settle, Leave, Turn
  <2>3. /\ phase'[t] = (IF how = "lost" THEN "threw" ELSE "returned") /\ outcome'[t] = how
        /\ \A s \in Tokens \ {t} : phase'[s] = phase[s] /\ outcome'[s] = outcome[s]
    BY <2>2
  <2>4. env = "running" /\ State(t) = "new"
    BY <2>1, StateOf DEF Situation, Entered
  <2>5. CASE how = "lost"
    <3>1. State(t)' = "thrown"
      BY <2>3, <2>5, StateOf
    <3>2. QED
      BY <2>1, <2>3, <2>4, <3>1, StateOf, SeenThrow
  <2>6. CASE how = "rejected"
    <3>1. State(t)' = "rejected"
      BY <2>3, <2>6, StateOf
    <3>2. QED
      BY <2>1, <2>3, <2>4, <3>1, StateOf, SeenFail
  <2>7. QED
    BY <2>5, <2>6
<1>10. ASSUME NEW t \in Tokens, AbandonStart(t)
      PROVE  [Abstract!Next]_Abstract!vars
  <2>1. /\ phase[t] = "unpublished" /\ phase'[t] = "threw"
        /\ \A s \in Tokens \ {t} : phase'[s] = phase[s]
    BY <1>10 DEF AbandonStart, CloseSignal, Tsfn!Move, Leave, InStart, Turn
  <2>2. outcome' = outcome /\ env' = env
    BY <1>10 DEF AbandonStart, CloseSignal, Tsfn!Move, Leave, InStart, Turn, tsfnVars,
        startVars, ownerVars
  <2>3. env = "running"
    BY <2>1 DEF Situation, Entered
  <2>4. State(t) = "new" /\ State(t)' = "thrown"
    BY <2>1, StateOf
  <2>5. QED
    BY <2>1, <2>2, <2>3, <2>4, StateOf, SeenThrow
<1>11. ASSUME NEW a \in Actors, NEW t \in Tokens, Complete(a, t)
      PROVE  [Abstract!Next]_Abstract!vars
  <2>1. phase' = phase /\ outcome' = outcome
    BY <1>11 DEF Complete, startVars, ownerVars
  <2>2. env' = env
    BY <1>11 DEF Complete, Tsfn!Move, tsfnVars
  <2>3. QED
    BY <2>1, <2>2, StateOf, Unseen
<1>12. ASSUME NEW a \in Actors, Notify(a)
      PROVE  [Abstract!Next]_Abstract!vars
  <2>1. phase' = phase /\ outcome' = outcome
    BY <1>12 DEF Notify, startVars, ownerVars
  <2>2. env' = env
    BY <1>12 DEF Notify, Tsfn!BeginCall, tsfnVars
  <2>3. QED
    BY <2>1, <2>2, StateOf, Unseen
<1>13. ASSUME NEW a \in Actors, Calling(a) /\ Tsfn!LoadRaw(a)
      PROVE  [Abstract!Next]_Abstract!vars
  <2>1. phase' = phase /\ outcome' = outcome
    BY <1>13 DEF Calling, startVars, ownerVars
  <2>2. env' = env
    BY <1>13 DEF Calling, Tsfn!LoadRaw, tsfnVars
  <2>3. QED
    BY <2>1, <2>2, StateOf, Unseen
<1>14. ASSUME NEW a \in Actors, Calling(a) /\ Tsfn!NativeCall(a)
      PROVE  [Abstract!Next]_Abstract!vars
  <2>1. phase' = phase /\ outcome' = outcome
    BY <1>14 DEF Calling, startVars, ownerVars
  <2>2. env' = env
    BY <1>14 DEF Calling, Tsfn!NativeCall, tsfnVars
  <2>3. QED
    BY <2>1, <2>2, StateOf, Unseen
<1>15. ASSUME NEW a \in Actors, Calling(a) /\ Tsfn!ClearRaw(a)
      PROVE  [Abstract!Next]_Abstract!vars
  <2>1. phase' = phase /\ outcome' = outcome
    BY <1>15 DEF Calling, startVars, ownerVars
  <2>2. env' = env
    BY <1>15 DEF Calling, Tsfn!ClearRaw, tsfnVars
  <2>3. QED
    BY <2>1, <2>2, StateOf, Unseen
<1>16. ASSUME NEW a \in Actors, EnqueueFails(a)
      PROVE  [Abstract!Next]_Abstract!vars
  <2>1. phase' = phase /\ outcome' = outcome
    BY <1>16 DEF EnqueueFails, startVars, ownerVars
  <2>2. env' = env
    BY <1>16 DEF EnqueueFails, tsfnVars
  <2>3. QED
    BY <2>1, <2>2, StateOf, Unseen
<1>17. ASSUME NEW a \in Actors, DropClosure(a)
      PROVE  [Abstract!Next]_Abstract!vars
  <2>1. phase' = phase /\ outcome' = outcome
    BY <1>17 DEF DropClosure, startVars, ownerVars
  <2>2. env' = env
    BY <1>17 DEF DropClosure, Tsfn!DropClone, tsfnVars
  <2>3. QED
    BY <2>1, <2>2, StateOf, Unseen
<1>18. ASSUME NEW a \in Actors, Dropping(a)
      PROVE  [Abstract!Next]_Abstract!vars
  <2>1. phase' = phase /\ outcome' = outcome
    BY <1>18 DEF Dropping, startVars, ownerVars
  <2>2. env' = env
    BY <1>18 DEF Dropping, Tsfn!Dropping, Tsfn!Unregister, Tsfn!NativeRelease, tsfnVars
  <2>3. QED
    BY <2>1, <2>2, StateOf, Unseen
<1>19. ASSUME NEW t \in Tokens, Dispatch(t)
      PROVE  [Abstract!Next]_Abstract!vars
  <2>1. phase' = phase /\ env' = env
    BY <1>19 DEF Dispatch, startVars, Tsfn!Dispatch
  <2>2. CASE record[t] # "pending"
    <3>1. outcome' = outcome
      BY <1>19, <2>2, DispatchDoes
    <3>2. QED
      BY <2>1, <3>1, StateOf, Unseen
  <2>3. CASE record[t] = "pending"
    <3>1. PICK how \in {"resolved", "rejected", "lost"} :
              (how = "lost" => SettleCanFail) /\ outcome' = [outcome EXCEPT ![t] = how]
      BY <1>19, <2>3, DispatchDoes
    <3>2. outcome'[t] = how /\ \A s \in Tokens \ {t} : outcome'[s] = outcome[s]
      BY <3>1
    <3>3. phase[t] = "returned" /\ outcome[t] = "pending"
      BY <1>19, <2>3 DEF Dispatch, Situation, Entered, RecordKnown
    <3>4. env = "running"
      BY <1>19 DEF Dispatch, Tsfn!Dispatch
    <3>5. State(t) = "running" /\ State(t)' = how
      BY <2>1, <3>2, <3>3, StateOf
    <3>6. QED
      BY <2>1, <3>1, <3>2, <3>4, <3>5, StateOf, SeenSettle
  <2>4. QED
    BY <2>2, <2>3
<1>20. ASSUME NEW t \in Tokens, Finalize(t)
      PROVE  [Abstract!Next]_Abstract!vars
  <2>1. phase' = phase /\ env' = env
    BY <1>20 DEF Finalize, startVars, Tsfn!FinalizeTsfn
  <2>2. CASE record[t] # "pending"
    <3>1. outcome' = outcome
      BY <1>20, <2>2, FinalizeDoes
    <3>2. QED
      BY <2>1, <3>1, StateOf, Unseen
  <2>3. CASE record[t] = "pending"
    <3>1. PICK how \in {"resolved", "rejected", "lost"} :
              (how = "lost" => SettleCanFail) /\ outcome' = [outcome EXCEPT ![t] = how]
      BY <1>20, <2>3, FinalizeDoes
    <3>2. outcome'[t] = how /\ \A s \in Tokens \ {t} : outcome'[s] = outcome[s]
      BY <3>1
    <3>3. phase[t] = "returned" /\ outcome[t] = "pending"
      BY <1>20, <2>3 DEF Finalize, Situation, Entered, RecordKnown
    <3>4. env = "running"
      <4>1. env \in {"running", "closing"}
        BY <1>20 DEF Finalize, Tsfn!FinalizeTsfn
      <4>2. env \in {"running", "hooks"}
        BY <2>3 DEF RecordKnown
      <4>3. QED
        BY <4>1, <4>2
    <3>5. State(t) = "running" /\ State(t)' = how
      BY <2>1, <3>2, <3>3, StateOf
    <3>6. QED
      BY <2>1, <3>1, <3>2, <3>4, <3>5, StateOf, SeenSettle
  <2>4. QED
    BY <2>2, <2>3
<1>21. CASE CloseOwner
  <2>1. /\ phase' = phase /\ env' = env
        /\ outcome' = [t \in Tokens |-> IF record[t] = "pending" THEN "abandoned"
                                                              ELSE outcome[t]]
    BY <1>21 DEF CloseOwner, tsfnVars, startVars
  <2>2. ASSUME NEW t \in Tokens
        PROVE  State(t)' = IF State(t) = "running" THEN "abandoned" ELSE State(t)
    <3>1. CASE record[t] = "pending"
      <4>1. phase[t] = "returned" /\ outcome[t] = "pending"
        BY <1>21, <3>1 DEF CloseOwner, Situation, Entered, RecordKnown
      <4>2. State(t) = "running" /\ State(t)' = "abandoned"
        BY <2>1, <3>1, <4>1, StateOf
      <4>3. QED
        BY <4>2
    <3>2. CASE record[t] # "pending"
      <4>1. ~(phase[t] = "returned" /\ outcome[t] = "pending")
        BY <3>2 DEF RecordKnown
      <4>2. State(t) # "running"
        BY <4>1 DEF State, Own
      <4>3. State(t)' = State(t)
        BY <2>1, <3>2, StateOf
      <4>4. QED
        BY <4>2, <4>3
    <3>3. QED
      BY <3>1, <3>2
  <2>3. QED
    BY <2>1, <2>2, SeenCloseOwner
<1>22. ASSUME NEW t \in Tokens, CloseNext(t)
      PROVE  [Abstract!Next]_Abstract!vars
  <2>1. phase' = phase /\ outcome' = outcome
    BY <1>22 DEF CloseNext, startVars, ownerVars
  <2>2. env' = env
    BY <1>22 DEF CloseNext, CloseSignal, Tsfn!Move, tsfnVars
  <2>3. QED
    BY <2>1, <2>2, StateOf, Unseen
<1>23. ASSUME NEW t \in Tokens, NodeStep(t)
      PROVE  [Abstract!Next]_Abstract!vars
  <2>1. phase' = phase /\ outcome' = outcome
    BY <1>23 DEF NodeStep, startVars, ownerVars
  <2>2. env' = env
    BY <1>23 DEF NodeStep, Tsfn!NodeCloses, Tsfn!NodeHook, tsfnVars
  <2>3. QED
    BY <2>1, <2>2, StateOf, Unseen
<1>24. CASE EnvCleanup
  <2>1. phase' = phase /\ outcome' = outcome /\ env = "running" /\ env' = "hooks"
    BY <1>24 DEF EnvCleanup, Tsfn!EnvCleanup, startVars, ownerVars
  <2>2. QED
    BY <2>1, StateOf, SeenStop
<1>25. CASE CloseLifecycle
  <2>1. phase' = phase /\ outcome' = outcome
    BY <1>25 DEF CloseLifecycle, startVars, ownerVars
  <2>2. env' = env
    BY <1>25 DEF CloseLifecycle, Tsfn!CloseLifecycle, tsfnVars
  <2>3. QED
    BY <2>1, <2>2, StateOf, Unseen
<1>26. CASE TeardownGoesOn
  <2>1. phase' = phase /\ outcome' = outcome
    BY <1>26 DEF TeardownGoesOn, startVars, ownerVars
  <2>2. (env' = env \/ (env # "running" /\ env' # "running"))
    BY <1>26 DEF TeardownGoesOn, Tsfn!AbortHandle, Tsfn!AbortDone, Tsfn!HooksDone,
        Tsfn!LoopCloses, tsfnVars
  <2>3. QED
    BY <2>1, <2>2, StateOf, Unseen
<1>27. CASE UNCHANGED vars
  <2>1. phase' = phase /\ outcome' = outcome /\ env' = env
    BY <1>27 DEF vars, tsfnVars, startVars, ownerVars
  <2>2. QED
    BY <2>1, StateOf, Unseen
<1>28. QED
  BY <1>1, <1>2, <1>3, <1>4, <1>5, <1>6, <1>7, <1>8, <1>9, <1>10, <1>11, <1>12, <1>13,
      <1>14, <1>15, <1>16, <1>17, <1>18, <1>19, <1>20, <1>21, <1>22, <1>23, <1>24, <1>25,
      <1>26, <1>27 DEF Next, StartSteps, ClosureSteps, Calling, Tsfn!Calling

\* Reentrancy, early and repeated completions, refused calls and closing keep what
\* JavaScript is promised, for any number of activations and threads.
THEOREM Refinement == Spec => ImplementsActivationSpec
<1>1. Init => Abstract!Init
  <2> SUFFICES ASSUME Init PROVE Abstract!Init
    OBVIOUS
  <2>1. env = "running"
    BY DEF Init, Tsfn!Init
  <2>2. \A t \in Tokens : State(t) = "new"
    BY DEF Init, State
  <2>3. [t \in Tokens |-> State(t)] = [t \in Tokens |-> "new"]
    BY <2>2
  <2>4. (env = "running") = TRUE
    BY <2>1
  <2>5. QED
    BY <2>3, <2>4 DEF Abstract!Init
<1>2. QED
  BY <1>1, StepOfPromise, InductiveInvariant, PTL DEF Spec, ImplementsActivationSpec,
      Abstract!Spec

=============================================================================
