------------------------- MODULE ManagedTsfnProofs -------------------------
(***************************************************************************)
(* Proofs about the threadsafe functions of ManagedTsfn, for any functions,*)
(* threads and queue sizes.  The inductive invariant is Inductive of       *)
(* ManagedTsfn; PayloadsFreedOnce counts calls under way and is added to   *)
(* it on its own.                                                          *)
(***************************************************************************)
EXTENDS ManagedTsfn, FiniteSetTheorems, TLAPS

\* The environment's thread is one more actor.
LEMMA JsIsAnActor == Js \in Actors /\ \A a \in Threads : a \in Actors /\ a # Js
  BY ConstantsAssumption DEF Actors

-----------------------------------------------------------------------------
(* The parts of the inductive invariant *)

\* A reference is only given back where there is one.
LEMMA TypeStep == TypeOK /\ Lifecycle /\ Registered /\ OneReference /\ [Next]_vars => TypeOK'
<1> SUFFICES ASSUME TypeOK, Lifecycle, Registered, OneReference, [Next]_vars PROVE TypeOK'
  OBVIOUS
<1> USE ConstantsAssumption, JsIsAnActor
    DEF Goto, Return, One, TypeOK, Natives, Reading, Steps,
        vars, lifeVars, tsfnVars, nodeVars, payVars, actVars
<1>1. ASSUME NEW h \in Handles, Create(h) PROVE TypeOK'  BY <1>1 DEF Create, JsIdle, Fresh
<1>2. ASSUME NEW h \in Handles, CreateFails(h) PROVE TypeOK'
  BY <1>2 DEF CreateFails, JsIdle, Fresh
<1>3. ASSUME NEW h \in Handles, UnrefFails(h) PROVE TypeOK'
  BY <1>3 DEF UnrefFails, JsIdle, Fresh
<1>4. ASSUME NEW h \in Handles, Dispatch(h) PROVE TypeOK'  BY <1>4 DEF Dispatch, JsIdle
<1>5. ASSUME NEW h \in Handles, NodeCloses(h) PROVE TypeOK'  BY <1>5 DEF NodeCloses, JsIdle
<1>6. ASSUME NEW h \in Handles, FinalizeTsfn(h) PROVE TypeOK'  BY <1>6 DEF FinalizeTsfn, JsIdle
<1>7. ASSUME NEW h \in Handles, NodeHook(h) PROVE TypeOK'  BY <1>7 DEF NodeHook, JsIdle
<1>8. ASSUME NEW h \in Handles, AbortHandle(h) PROVE TypeOK'
  <2>1. Clearing(h) = {}
    BY <1>8 DEF AbortHandle, Lifecycle, NoReader, Clearing
  <2>2. h \in raw => count[h] = 1
    BY <2>1 DEF OneReference
  <2>3. count' \in [Handles -> Nat]
    BY <2>2, <1>8 DEF AbortHandle
  <2>4. native' \in [Handles -> Natives]
    BY <1>8 DEF AbortHandle
  <2>5. QED
    BY <2>3, <2>4, <1>8 DEF AbortHandle
<1>9. ASSUME NEW h \in Handles, NEW a \in Actors, Share(h, a) PROVE TypeOK'  BY <1>9 DEF Share
<1>10. ASSUME NEW h \in Handles, NEW a \in Actors, BeginCall(a, h) PROVE TypeOK'
  BY <1>10 DEF BeginCall
<1>11. ASSUME NEW h \in Handles, NEW a \in Actors, DropClone(a, h) PROVE TypeOK'
  BY <1>11 DEF DropClone
<1>12. ASSUME NEW h \in Handles, NEW a \in Actors, NEW b \in Actors, Move(h, a, b) PROVE TypeOK'
  BY <1>12 DEF Move
<1>13. ASSUME NEW a \in Actors, LoadRaw(a) PROVE TypeOK'  BY <1>13 DEF LoadRaw
<1>14. ASSUME NEW a \in Actors, NativeCall(a) PROVE TypeOK'  BY <1>14 DEF NativeCall
<1>15. ASSUME NEW a \in Actors, ClearRaw(a) PROVE TypeOK'  BY <1>15 DEF ClearRaw
<1>16. ASSUME NEW a \in Actors, Unregister(a) PROVE TypeOK'  BY <1>16 DEF Unregister
<1>17. ASSUME NEW a \in Actors, NativeRelease(a) PROVE TypeOK'
  <2>1. cur[a] \in Handles /\ a \in Releasing(cur[a])
    BY <1>17 DEF NativeRelease, Releasing
  <2>2. count[cur[a]] = 1
    BY <2>1 DEF OneReference
  <2>3. count' \in [Handles -> Nat]
    BY <2>1, <2>2, <1>17 DEF NativeRelease
  <2>4. QED
    BY <2>3, <1>17 DEF NativeRelease
<1>18. CASE EnvCleanup  BY <1>18 DEF EnvCleanup, JsIdle
<1>19. CASE CloseLifecycle  BY <1>19 DEF CloseLifecycle, JsIdle, NoReader
<1>20. CASE AbortDone  BY <1>20 DEF AbortDone
<1>21. CASE HooksDone  BY <1>21 DEF HooksDone, JsIdle
<1>22. CASE LoopCloses  BY <1>22 DEF LoopCloses, JsIdle
<1>23. CASE UNCHANGED vars  BY <1>23
<1> HIDE DEF TypeOK
<1>24. QED
  BY <1>1, <1>2, <1>3, <1>4, <1>5, <1>6, <1>7, <1>8, <1>9, <1>10, <1>11, <1>12, <1>13,
     <1>14, <1>15, <1>16, <1>17, <1>18, <1>19, <1>20, <1>21, <1>22, <1>23
  DEF Next, Calling, Dropping, Teardown

\* The lifecycle closes behind every reader, and only then is anything aborted.
LEMMA LifecycleStep == TypeOK /\ Lifecycle /\ [Next]_vars => Lifecycle'
<1> SUFFICES ASSUME TypeOK, Lifecycle, [Next]_vars PROVE Lifecycle'
  OBVIOUS
<1> USE ConstantsAssumption, JsIsAnActor
    DEF Goto, Return, One, TypeOK, Natives, Reading, Steps, Lifecycle, NoReader,
        vars, lifeVars, tsfnVars, nodeVars, payVars, actVars
<1>1. ASSUME NEW h \in Handles, Create(h) PROVE Lifecycle'  BY <1>1 DEF Create, JsIdle, Fresh
<1>2. ASSUME NEW h \in Handles, CreateFails(h) PROVE Lifecycle'
  BY <1>2 DEF CreateFails, JsIdle, Fresh
<1>3. ASSUME NEW h \in Handles, UnrefFails(h) PROVE Lifecycle'
  BY <1>3 DEF UnrefFails, JsIdle, Fresh
<1>4. ASSUME NEW h \in Handles, Dispatch(h) PROVE Lifecycle'  BY <1>4 DEF Dispatch, JsIdle
<1>5. ASSUME NEW h \in Handles, NodeCloses(h) PROVE Lifecycle'  BY <1>5 DEF NodeCloses, JsIdle
<1>6. ASSUME NEW h \in Handles, FinalizeTsfn(h) PROVE Lifecycle'
  BY <1>6 DEF FinalizeTsfn, JsIdle
<1>7. ASSUME NEW h \in Handles, NodeHook(h) PROVE Lifecycle'  BY <1>7 DEF NodeHook, JsIdle
<1>8. ASSUME NEW h \in Handles, AbortHandle(h) PROVE Lifecycle'  BY <1>8 DEF AbortHandle
<1>9. ASSUME NEW h \in Handles, NEW a \in Actors, Share(h, a) PROVE Lifecycle'
  BY <1>9 DEF Share
<1>10. ASSUME NEW h \in Handles, NEW a \in Actors, BeginCall(a, h) PROVE Lifecycle'
  BY <1>10 DEF BeginCall
<1>11. ASSUME NEW h \in Handles, NEW a \in Actors, DropClone(a, h) PROVE Lifecycle'
  BY <1>11 DEF DropClone
<1>12. ASSUME NEW h \in Handles, NEW a \in Actors, NEW b \in Actors, Move(h, a, b) PROVE Lifecycle'
  BY <1>12 DEF Move
<1>13. ASSUME NEW a \in Actors, LoadRaw(a) PROVE Lifecycle'  BY <1>13 DEF LoadRaw
<1>14. ASSUME NEW a \in Actors, NativeCall(a) PROVE Lifecycle'  BY <1>14 DEF NativeCall
<1>15. ASSUME NEW a \in Actors, ClearRaw(a) PROVE Lifecycle'  BY <1>15 DEF ClearRaw
<1>16. ASSUME NEW a \in Actors, Unregister(a) PROVE Lifecycle'  BY <1>16 DEF Unregister
<1>17. ASSUME NEW a \in Actors, NativeRelease(a) PROVE Lifecycle'  BY <1>17 DEF NativeRelease
<1>18. CASE EnvCleanup  BY <1>18 DEF EnvCleanup, JsIdle
<1>19. CASE CloseLifecycle  BY <1>19 DEF CloseLifecycle, JsIdle, NoReader
<1>20. CASE AbortDone  BY <1>20 DEF AbortDone
<1>21. CASE HooksDone  BY <1>21 DEF HooksDone, JsIdle
<1>22. CASE LoopCloses  BY <1>22 DEF LoopCloses, JsIdle
<1>23. CASE UNCHANGED vars  BY <1>23
<1> HIDE DEF Lifecycle
<1>24. QED
  BY <1>1, <1>2, <1>3, <1>4, <1>5, <1>6, <1>7, <1>8, <1>9, <1>10, <1>11, <1>12, <1>13,
     <1>14, <1>15, <1>16, <1>17, <1>18, <1>19, <1>20, <1>21, <1>22, <1>23
  DEF Next, Calling, Dropping, Teardown

\* Only the last handle is dropped, and only by its holder.
LEMMA HandlingStep == TypeOK /\ Handling /\ Registered /\ [Next]_vars => Handling'
<1> SUFFICES ASSUME TypeOK, Handling, Registered, [Next]_vars PROVE Handling'
  OBVIOUS
<1> USE ConstantsAssumption, JsIsAnActor
    DEF Goto, Return, One, TypeOK, Natives, Reading, Steps, Handling, DroppedBy, Registered,
        Using,
        vars, lifeVars, tsfnVars, nodeVars, payVars, actVars
<1>1. ASSUME NEW h \in Handles, Create(h) PROVE Handling'  BY <1>1 DEF Create, JsIdle, Fresh
<1>2. ASSUME NEW h \in Handles, CreateFails(h) PROVE Handling'
  BY <1>2 DEF CreateFails, JsIdle, Fresh
<1>3. ASSUME NEW h \in Handles, UnrefFails(h) PROVE Handling'
  BY <1>3 DEF UnrefFails, JsIdle, Fresh
<1>4. ASSUME NEW h \in Handles, Dispatch(h) PROVE Handling'  BY <1>4 DEF Dispatch, JsIdle
<1>5. ASSUME NEW h \in Handles, NodeCloses(h) PROVE Handling'  BY <1>5 DEF NodeCloses, JsIdle
<1>6. ASSUME NEW h \in Handles, FinalizeTsfn(h) PROVE Handling'
  BY <1>6 DEF FinalizeTsfn, JsIdle
<1>7. ASSUME NEW h \in Handles, NodeHook(h) PROVE Handling'  BY <1>7 DEF NodeHook, JsIdle
<1>8. ASSUME NEW h \in Handles, AbortHandle(h) PROVE Handling'  BY <1>8 DEF AbortHandle
<1>9. ASSUME NEW h \in Handles, NEW a \in Actors, Share(h, a) PROVE Handling'
  BY <1>9 DEF Share
<1>10. ASSUME NEW h \in Handles, NEW a \in Actors, BeginCall(a, h) PROVE Handling'
  BY <1>10 DEF BeginCall
<1>11. ASSUME NEW h \in Handles, NEW a \in Actors, DropClone(a, h) PROVE Handling'
  BY <1>11 DEF DropClone
<1>12. ASSUME NEW h \in Handles, NEW a \in Actors, NEW b \in Actors, Move(h, a, b) PROVE Handling'
  BY <1>12 DEF Move
<1>13. ASSUME NEW a \in Actors, LoadRaw(a) PROVE Handling'  BY <1>13 DEF LoadRaw
<1>14. ASSUME NEW a \in Actors, NativeCall(a) PROVE Handling'  BY <1>14 DEF NativeCall
<1>15. ASSUME NEW a \in Actors, ClearRaw(a) PROVE Handling'  BY <1>15 DEF ClearRaw
<1>16. ASSUME NEW a \in Actors, Unregister(a) PROVE Handling'  BY <1>16 DEF Unregister
<1>17. ASSUME NEW a \in Actors, NativeRelease(a) PROVE Handling'  BY <1>17 DEF NativeRelease
<1>18. CASE EnvCleanup  BY <1>18 DEF EnvCleanup, JsIdle
<1>19. CASE CloseLifecycle  BY <1>19 DEF CloseLifecycle, JsIdle, NoReader
<1>20. CASE AbortDone  BY <1>20 DEF AbortDone
<1>21. CASE HooksDone  BY <1>21 DEF HooksDone, JsIdle
<1>22. CASE LoopCloses  BY <1>22 DEF LoopCloses, JsIdle
<1>23. CASE UNCHANGED vars  BY <1>23
<1> HIDE DEF Handling
<1>24. QED
  BY <1>1, <1>2, <1>3, <1>4, <1>5, <1>6, <1>7, <1>8, <1>9, <1>10, <1>11, <1>12, <1>13,
     <1>14, <1>15, <1>16, <1>17, <1>18, <1>19, <1>20, <1>21, <1>22, <1>23
  DEF Next, Calling, Dropping, Teardown

\* A function stays registered until its last handle is dropped.
LEMMA RegisteredStep ==
    TypeOK /\ Lifecycle /\ Handling /\ Registered /\ OneReference /\ Quiet /\ [Next]_vars
        => Registered'
<1> SUFFICES ASSUME TypeOK, Lifecycle, Handling, Registered, OneReference, Quiet,
    [Next]_vars PROVE Registered'
  OBVIOUS
<1> USE ConstantsAssumption, JsIsAnActor
    DEF Goto, Return, One, TypeOK, Natives, Reading, Steps, Registered, Lifecycle, NoReader,
        Handling, DroppedBy, Using, Clearing, OneReference, Releasing, Quiet,
        vars, lifeVars, tsfnVars, nodeVars, payVars, actVars
<1>1. ASSUME NEW h \in Handles, Create(h) PROVE Registered'
  <2>1. h \notin handles /\ holders[h] = {} /\ open /\ ~(\E a \in Actors : at[a] \in Reading /\ cur[a] = h)
    BY <1>1 DEF Create, Fresh
  <2>2. /\ raw' = raw \cup {h} /\ handles' = handles \cup {h}
        /\ native' = [native EXCEPT ![h] = "open"] /\ holders' = [holders EXCEPT ![h] = {Js}]
        /\ UNCHANGED <<open, env, at, cur>>
    BY <1>1 DEF Create
  <2>3. /\ raw' \subseteq handles'
        /\ \A g \in Handles : native'[g] = "none" => g \notin handles' /\ holders'[g] = {}
    BY <2>1, <2>2
  <2>4. \A g \in Handles : (\E a \in Actors : at'[a] \in Reading /\ cur'[a] = g)
                             => g # h /\ native'[g] # "none"
    BY <2>1, <2>2
  <2>5. \A a \in Actors : /\ at'[a] = "releasing" => cur'[a] \notin handles'
                          /\ at'[a] \in Reading \ {"releasing"} => cur'[a] \in handles'
    BY <2>1, <2>2
  <2>6. \A g \in Handles : open' /\ holders'[g] # {} => g \in handles'
    BY <2>1, <2>2
  <2>7. ASSUME NEW g \in handles', open', holders'[g] = {}
         PROVE  \E a \in Actors : at'[a] = "dropping" /\ cur'[a] = g
    <3>0. g # h
      BY <2>2, <2>7
    <3>1. g \in handles /\ holders[g] = {}
      BY <2>2, <2>7, <3>0
    <3>2. PICK a \in Actors : at[a] = "dropping" /\ cur[a] = g
      BY <3>1, <2>1
    <3>3. QED
      BY <2>2, <3>2
  <2>8. \A g \in handles' : env' = "running" =>
            g \in raw' /\ native'[g] = "open" /\ {a \in Actors : at'[a] = "clearing" /\ cur'[a] = g} = {}
    BY <2>1, <2>2
  <2>9. QED
    BY <2>3, <2>4, <2>5, <2>6, <2>7, <2>8
<1>2. ASSUME NEW h \in Handles, CreateFails(h) PROVE Registered'
  BY <1>2 DEF CreateFails, JsIdle, Fresh
<1>3. ASSUME NEW h \in Handles, UnrefFails(h) PROVE Registered'
  BY <1>3 DEF UnrefFails, JsIdle, Fresh
<1>4. ASSUME NEW h \in Handles, Dispatch(h) PROVE Registered'  BY <1>4 DEF Dispatch, JsIdle
<1>5. ASSUME NEW h \in Handles, NodeCloses(h) PROVE Registered'  BY <1>5 DEF NodeCloses, JsIdle
<1>6. ASSUME NEW h \in Handles, FinalizeTsfn(h) PROVE Registered'
  <2>1. /\ raw' = raw \ {h} /\ native' = [native EXCEPT ![h] = "closed"]
        /\ native[h] = "closing" /\ UNCHANGED <<open, env, handles, holders, at, cur>>
    BY <1>6 DEF FinalizeTsfn
  <2>2. env = "running" => h \notin handles
    BY <2>1
  <2>3. QED
    BY <2>1, <2>2
<1>7. ASSUME NEW h \in Handles, NodeHook(h) PROVE Registered'  BY <1>7 DEF NodeHook, JsIdle
<1>8. ASSUME NEW h \in Handles, AbortHandle(h) PROVE Registered'  BY <1>8 DEF AbortHandle
<1>9. ASSUME NEW h \in Handles, NEW a \in Actors, Share(h, a) PROVE Registered'
  BY <1>9 DEF Share
<1>10. ASSUME NEW h \in Handles, NEW a \in Actors, BeginCall(a, h) PROVE Registered'
  BY <1>10 DEF BeginCall
<1>11. ASSUME NEW h \in Handles, NEW a \in Actors, DropClone(a, h) PROVE Registered'
  BY <1>11 DEF DropClone
<1>12. ASSUME NEW h \in Handles, NEW a \in Actors, NEW b \in Actors, Move(h, a, b) PROVE Registered'
  BY <1>12 DEF Move
<1>13. ASSUME NEW a \in Actors, LoadRaw(a) PROVE Registered'  BY <1>13 DEF LoadRaw
<1>14. ASSUME NEW a \in Actors, NativeCall(a) PROVE Registered'  BY <1>14 DEF NativeCall
<1>15. ASSUME NEW a \in Actors, ClearRaw(a) PROVE Registered'  BY <1>15 DEF ClearRaw
<1>16. ASSUME NEW a \in Actors, Unregister(a) PROVE Registered'  BY <1>16 DEF Unregister
<1>17. ASSUME NEW a \in Actors, NativeRelease(a) PROVE Registered'  BY <1>17 DEF NativeRelease
<1>18. CASE EnvCleanup  BY <1>18 DEF EnvCleanup, JsIdle
<1>19. CASE CloseLifecycle  BY <1>19 DEF CloseLifecycle, JsIdle, NoReader
<1>20. CASE AbortDone  BY <1>20 DEF AbortDone
<1>21. CASE HooksDone  BY <1>21 DEF HooksDone, JsIdle
<1>22. CASE LoopCloses  BY <1>22 DEF LoopCloses, JsIdle
<1>23. CASE UNCHANGED vars  BY <1>23
<1> HIDE DEF Registered
<1>24. QED
  BY <1>1, <1>2, <1>3, <1>4, <1>5, <1>6, <1>7, <1>8, <1>9, <1>10, <1>11, <1>12, <1>13,
     <1>14, <1>15, <1>16, <1>17, <1>18, <1>19, <1>20, <1>21, <1>22, <1>23
  DEF Next, Calling, Dropping, Teardown

\* A function closes only when nobody uses it, or when nobody can.
LEMMA QuietStep ==
    TypeOK /\ Lifecycle /\ Registered /\ OneReference /\ Quiet /\ [Next]_vars => Quiet'
<1> SUFFICES ASSUME TypeOK, Lifecycle, Registered, OneReference, Quiet, [Next]_vars PROVE Quiet'
  OBVIOUS
<1> USE ConstantsAssumption, JsIsAnActor
    DEF Goto, Return, One, TypeOK, Natives, Reading, Steps, Quiet, Lifecycle, NoReader,
        Registered, Using, Clearing, Releasing, OneReference,
        vars, lifeVars, tsfnVars, nodeVars, payVars, actVars
<1>1. ASSUME NEW h \in Handles, Create(h) PROVE Quiet'  BY <1>1 DEF Create, JsIdle, Fresh
<1>2. ASSUME NEW h \in Handles, CreateFails(h) PROVE Quiet'
  BY <1>2 DEF CreateFails, JsIdle, Fresh
<1>3. ASSUME NEW h \in Handles, UnrefFails(h) PROVE Quiet'
  BY <1>3 DEF UnrefFails, JsIdle, Fresh
<1>4. ASSUME NEW h \in Handles, Dispatch(h) PROVE Quiet'  BY <1>4 DEF Dispatch, JsIdle
<1>5. ASSUME NEW h \in Handles, NodeCloses(h) PROVE Quiet'  BY <1>5 DEF NodeCloses, JsIdle
<1>6. ASSUME NEW h \in Handles, FinalizeTsfn(h) PROVE Quiet'  BY <1>6 DEF FinalizeTsfn, JsIdle
<1>7. ASSUME NEW h \in Handles, NodeHook(h) PROVE Quiet'  BY <1>7 DEF NodeHook, JsIdle
<1>8. ASSUME NEW h \in Handles, AbortHandle(h) PROVE Quiet'  BY <1>8 DEF AbortHandle
<1>9. ASSUME NEW h \in Handles, NEW a \in Actors, Share(h, a) PROVE Quiet'  BY <1>9 DEF Share
<1>10. ASSUME NEW h \in Handles, NEW a \in Actors, BeginCall(a, h) PROVE Quiet'
  BY <1>10 DEF BeginCall
<1>11. ASSUME NEW h \in Handles, NEW a \in Actors, DropClone(a, h) PROVE Quiet'
  BY <1>11 DEF DropClone
<1>12. ASSUME NEW h \in Handles, NEW a \in Actors, NEW b \in Actors, Move(h, a, b) PROVE Quiet'
  BY <1>12 DEF Move
<1>13. ASSUME NEW a \in Actors, LoadRaw(a) PROVE Quiet'  BY <1>13 DEF LoadRaw
<1>14. ASSUME NEW a \in Actors, NativeCall(a) PROVE Quiet'  BY <1>14 DEF NativeCall
<1>15. ASSUME NEW a \in Actors, ClearRaw(a) PROVE Quiet'  BY <1>15 DEF ClearRaw
<1>16. ASSUME NEW a \in Actors, Unregister(a) PROVE Quiet'  BY <1>16 DEF Unregister
<1>17. ASSUME NEW a \in Actors, NativeRelease(a) PROVE Quiet'  BY <1>17 DEF NativeRelease
<1>18. CASE EnvCleanup  BY <1>18 DEF EnvCleanup, JsIdle
<1>19. CASE CloseLifecycle  BY <1>19 DEF CloseLifecycle, JsIdle, NoReader
<1>20. CASE AbortDone  BY <1>20 DEF AbortDone
<1>21. CASE HooksDone  BY <1>21 DEF HooksDone, JsIdle
<1>22. CASE LoopCloses  BY <1>22 DEF LoopCloses, JsIdle
<1>23. CASE UNCHANGED vars  BY <1>23
<1> HIDE DEF Quiet
<1>24. QED
  BY <1>1, <1>2, <1>3, <1>4, <1>5, <1>6, <1>7, <1>8, <1>9, <1>10, <1>11, <1>12, <1>13,
     <1>14, <1>15, <1>16, <1>17, <1>18, <1>19, <1>20, <1>21, <1>22, <1>23
  DEF Next, Calling, Dropping, Teardown

\* The reference is given back exactly once.
LEMMA ReferenceStep ==
    TypeOK /\ Lifecycle /\ Handling /\ Registered /\ Quiet /\ OneReference /\ [Next]_vars
        => OneReference'
<1> SUFFICES ASSUME TypeOK, Lifecycle, Handling, Registered, Quiet, OneReference,
    [Next]_vars PROVE OneReference'
  OBVIOUS
<1> USE ConstantsAssumption, JsIsAnActor
    DEF Goto, Return, One, TypeOK, Natives, Reading, Steps, OneReference, Clearing,
        Releasing, Registered, Lifecycle, NoReader, Handling, DroppedBy, Using, Quiet,
        vars, lifeVars, tsfnVars, nodeVars, payVars, actVars
<1>1. ASSUME NEW h \in Handles, Create(h) PROVE OneReference'
  BY <1>1 DEF Create, JsIdle, Fresh
<1>2. ASSUME NEW h \in Handles, CreateFails(h) PROVE OneReference'
  BY <1>2 DEF CreateFails, JsIdle, Fresh
<1>3. ASSUME NEW h \in Handles, UnrefFails(h) PROVE OneReference'
  BY <1>3 DEF UnrefFails, JsIdle, Fresh
<1>4. ASSUME NEW h \in Handles, Dispatch(h) PROVE OneReference'  BY <1>4 DEF Dispatch, JsIdle
<1>5. ASSUME NEW h \in Handles, NodeCloses(h) PROVE OneReference'
  BY <1>5 DEF NodeCloses, JsIdle
<1>6. ASSUME NEW h \in Handles, FinalizeTsfn(h) PROVE OneReference'
  BY <1>6 DEF FinalizeTsfn, JsIdle
<1>7. ASSUME NEW h \in Handles, NodeHook(h) PROVE OneReference'  BY <1>7 DEF NodeHook, JsIdle
<1>8. ASSUME NEW h \in Handles, AbortHandle(h) PROVE OneReference'  BY <1>8 DEF AbortHandle
<1>9. ASSUME NEW h \in Handles, NEW a \in Actors, Share(h, a) PROVE OneReference'
  BY <1>9 DEF Share
<1>10. ASSUME NEW h \in Handles, NEW a \in Actors, BeginCall(a, h) PROVE OneReference'
  BY <1>10 DEF BeginCall
<1>11. ASSUME NEW h \in Handles, NEW a \in Actors, DropClone(a, h) PROVE OneReference'
  BY <1>11 DEF DropClone
<1>12. ASSUME NEW h \in Handles, NEW a \in Actors, NEW b \in Actors, Move(h, a, b) PROVE OneReference'
  BY <1>12 DEF Move
<1>13. ASSUME NEW a \in Actors, LoadRaw(a) PROVE OneReference'  BY <1>13 DEF LoadRaw
<1>14. ASSUME NEW a \in Actors, NativeCall(a) PROVE OneReference'  BY <1>14 DEF NativeCall
<1>15. ASSUME NEW a \in Actors, ClearRaw(a) PROVE OneReference'  BY <1>15 DEF ClearRaw
<1>16. ASSUME NEW a \in Actors, Unregister(a) PROVE OneReference'  BY <1>16 DEF Unregister
<1>17. ASSUME NEW a \in Actors, NativeRelease(a) PROVE OneReference'
  BY <1>17 DEF NativeRelease
<1>18. CASE EnvCleanup  BY <1>18 DEF EnvCleanup, JsIdle
<1>19. CASE CloseLifecycle  BY <1>19 DEF CloseLifecycle, JsIdle, NoReader
<1>20. CASE AbortDone  BY <1>20 DEF AbortDone
<1>21. CASE HooksDone  BY <1>21 DEF HooksDone, JsIdle
<1>22. CASE LoopCloses  BY <1>22 DEF LoopCloses, JsIdle
<1>23. CASE UNCHANGED vars  BY <1>23
<1> HIDE DEF OneReference
<1>24. QED
  BY <1>1, <1>2, <1>3, <1>4, <1>5, <1>6, <1>7, <1>8, <1>9, <1>10, <1>11, <1>12, <1>13,
     <1>14, <1>15, <1>16, <1>17, <1>18, <1>19, <1>20, <1>21, <1>22, <1>23
  DEF Next, Calling, Dropping, Teardown

\* A context is finalized once.
LEMMA FinalityStep == TypeOK /\ Finality /\ [Next]_vars => Finality'
<1> SUFFICES ASSUME TypeOK, Finality, [Next]_vars PROVE Finality'
  OBVIOUS
<1> USE ConstantsAssumption, JsIsAnActor
    DEF Goto, Return, One, TypeOK, Natives, Reading, Steps, Finality,
        vars, lifeVars, tsfnVars, nodeVars, payVars, actVars
<1>1. ASSUME NEW h \in Handles, Create(h) PROVE Finality'  BY <1>1 DEF Create, JsIdle, Fresh
<1>2. ASSUME NEW h \in Handles, CreateFails(h) PROVE Finality'
  BY <1>2 DEF CreateFails, JsIdle, Fresh
<1>3. ASSUME NEW h \in Handles, UnrefFails(h) PROVE Finality'
  BY <1>3 DEF UnrefFails, JsIdle, Fresh
<1>4. ASSUME NEW h \in Handles, Dispatch(h) PROVE Finality'  BY <1>4 DEF Dispatch, JsIdle
<1>5. ASSUME NEW h \in Handles, NodeCloses(h) PROVE Finality'  BY <1>5 DEF NodeCloses, JsIdle
<1>6. ASSUME NEW h \in Handles, FinalizeTsfn(h) PROVE Finality'
  BY <1>6 DEF FinalizeTsfn, JsIdle
<1>7. ASSUME NEW h \in Handles, NodeHook(h) PROVE Finality'  BY <1>7 DEF NodeHook, JsIdle
<1>8. ASSUME NEW h \in Handles, AbortHandle(h) PROVE Finality'  BY <1>8 DEF AbortHandle
<1>9. ASSUME NEW h \in Handles, NEW a \in Actors, Share(h, a) PROVE Finality'
  BY <1>9 DEF Share
<1>10. ASSUME NEW h \in Handles, NEW a \in Actors, BeginCall(a, h) PROVE Finality'
  BY <1>10 DEF BeginCall
<1>11. ASSUME NEW h \in Handles, NEW a \in Actors, DropClone(a, h) PROVE Finality'
  BY <1>11 DEF DropClone
<1>12. ASSUME NEW h \in Handles, NEW a \in Actors, NEW b \in Actors, Move(h, a, b) PROVE Finality'
  BY <1>12 DEF Move
<1>13. ASSUME NEW a \in Actors, LoadRaw(a) PROVE Finality'  BY <1>13 DEF LoadRaw
<1>14. ASSUME NEW a \in Actors, NativeCall(a) PROVE Finality'  BY <1>14 DEF NativeCall
<1>15. ASSUME NEW a \in Actors, ClearRaw(a) PROVE Finality'  BY <1>15 DEF ClearRaw
<1>16. ASSUME NEW a \in Actors, Unregister(a) PROVE Finality'  BY <1>16 DEF Unregister
<1>17. ASSUME NEW a \in Actors, NativeRelease(a) PROVE Finality'  BY <1>17 DEF NativeRelease
<1>18. CASE EnvCleanup  BY <1>18 DEF EnvCleanup, JsIdle
<1>19. CASE CloseLifecycle  BY <1>19 DEF CloseLifecycle, JsIdle, NoReader
<1>20. CASE AbortDone  BY <1>20 DEF AbortDone
<1>21. CASE HooksDone  BY <1>21 DEF HooksDone, JsIdle
<1>22. CASE LoopCloses  BY <1>22 DEF LoopCloses, JsIdle
<1>23. CASE UNCHANGED vars  BY <1>23
<1> HIDE DEF Finality
<1>24. QED
  BY <1>1, <1>2, <1>3, <1>4, <1>5, <1>6, <1>7, <1>8, <1>9, <1>10, <1>11, <1>12, <1>13,
     <1>14, <1>15, <1>16, <1>17, <1>18, <1>19, <1>20, <1>21, <1>22, <1>23
  DEF Next, Calling, Dropping, Teardown

-----------------------------------------------------------------------------
(* Counting the calls under way *)

\* What one actor at one step, with one function, adds to the calls of a function.
Calls(step, g, h) == IF step \in {"loading", "calling"} /\ g = h THEN 1 ELSE 0

\* The number of calls of a function follows the actor that moves.
LEMMA CallsMove ==
    ASSUME TypeOK, NEW a \in Actors, NEW step, NEW g, Goto(a, step, g), NEW h \in Handles
    PROVE  /\ Cardinality(InCall(h)) \in Nat
           /\ Cardinality(InCall(h)') =
                  Cardinality(InCall(h)) + Calls(step, g, h) - Calls(at[a], cur[a], h)
<1>1. IsFiniteSet(Actors)
  BY ConstantsAssumption, FS_AddElement DEF Actors
<1>2. IsFiniteSet(InCall(h)) /\ IsFiniteSet(InCall(h) \ {a})
  <2>1. InCall(h) \subseteq Actors /\ InCall(h) \ {a} \subseteq Actors
    BY DEF InCall
  <2>2. QED
    BY <1>1, <2>1, FS_Subset
<1>3. Cardinality(InCall(h)) \in Nat /\ Cardinality(InCall(h) \ {a}) \in Nat
  BY <1>2, FS_CardinalityType
<1>4. Cardinality(InCall(h)) = Cardinality(InCall(h) \ {a}) + Calls(at[a], cur[a], h)
  <2>1. CASE a \in InCall(h)
    <3>1. Cardinality(InCall(h) \ {a}) = Cardinality(InCall(h)) - 1
      BY <1>2, <2>1, FS_RemoveElement
    <3>2. Calls(at[a], cur[a], h) = 1
      BY <2>1 DEF InCall, Calls
    <3>3. QED
      BY <1>3, <3>1, <3>2
  <2>2. CASE a \notin InCall(h)
    <3>1. InCall(h) \ {a} = InCall(h)
      BY <2>2
    <3>2. Calls(at[a], cur[a], h) = 0
      BY <2>2 DEF InCall, Calls
    <3>3. QED
      BY <1>3, <3>1, <3>2
  <2>3. QED
    BY <2>1, <2>2
<1>5. InCall(h)' = IF Calls(step, g, h) = 1 THEN (InCall(h) \ {a}) \cup {a} ELSE InCall(h) \ {a}
  BY DEF InCall, Calls, Goto, TypeOK
<1>6. Cardinality(InCall(h)') = Cardinality(InCall(h) \ {a}) + Calls(step, g, h)
  <2>1. Cardinality((InCall(h) \ {a}) \cup {a}) = Cardinality(InCall(h) \ {a}) + 1
    BY <1>2, FS_AddElement
  <2>2. QED
    BY <1>3, <1>5, <2>1 DEF Calls
<1>7. QED
  BY <1>3, <1>4, <1>6 DEF Calls

\* Nobody enters or leaves a call while no actor moves.
LEMMA CallsStay ==
    ASSUME TypeOK, UNCHANGED actVars, NEW h \in Handles
    PROVE  /\ Cardinality(InCall(h)) \in Nat
           /\ Cardinality(InCall(h)') = Cardinality(InCall(h))
<1>1. IsFiniteSet(Actors)
  BY ConstantsAssumption, FS_AddElement DEF Actors
<1>2. Cardinality(InCall(h)) \in Nat
  BY <1>1, FS_Subset, FS_CardinalityType DEF InCall
<1>3. InCall(h)' = InCall(h)
  BY DEF InCall, actVars
<1>4. QED
  BY <1>2, <1>3

\* Every step keeps the account of payloads.
LEMMA PayloadsStep == TypeOK /\ PayloadsFreedOnce /\ [Next]_vars => PayloadsFreedOnce'
<1> SUFFICES ASSUME TypeOK, PayloadsFreedOnce, [Next]_vars, NEW k \in Handles
             PROVE  (made[k] = queue[k] + dispatched[k] + dropped[k] + Cardinality(InCall(k)))'
  BY DEF PayloadsFreedOnce
<1> DEFINE Exact == made[k] = queue[k] + dispatched[k] + dropped[k] + Cardinality(InCall(k))
<1> SUFFICES Exact'
  OBVIOUS
<1>0. /\ TypeOK
      /\ Exact
      /\ made \in [Handles -> Nat] /\ queue \in [Handles -> Nat]
      /\ dispatched \in [Handles -> Nat] /\ dropped \in [Handles -> Nat]
  BY DEF PayloadsFreedOnce, TypeOK
<1> USE <1>0, ConstantsAssumption, JsIsAnActor
    DEF One, Natives, Reading, Steps, lifeVars, tsfnVars, nodeVars, payVars
<1>1. ASSUME NEW h \in Handles, Create(h) PROVE Exact'
  <2>1. UNCHANGED actVars
    BY <1>1 DEF Create, actVars
  <2>2. QED
    BY <2>1, <1>1, CallsStay DEF Create
<1>2. ASSUME NEW h \in Handles, CreateFails(h) PROVE Exact'
  <2>1. UNCHANGED actVars
    BY <1>2 DEF CreateFails, actVars
  <2>2. QED
    BY <2>1, <1>2, CallsStay DEF CreateFails
<1>3. ASSUME NEW h \in Handles, UnrefFails(h) PROVE Exact'
  <2>1. UNCHANGED actVars
    BY <1>3 DEF UnrefFails, actVars
  <2>2. QED
    BY <2>1, <1>3, CallsStay DEF UnrefFails
<1>4. ASSUME NEW h \in Handles, Dispatch(h) PROVE Exact'
  <2>1. /\ UNCHANGED <<actVars, made, dropped>> /\ queue[h] > 0
        /\ queue' = [queue EXCEPT ![h] = @ - 1] /\ dispatched' = One(dispatched, h)
    BY <1>4 DEF Dispatch
  <2>2. QED
    BY <2>1, CallsStay
<1>5. ASSUME NEW h \in Handles, NodeCloses(h) PROVE Exact'
  <2>1. UNCHANGED actVars
    BY <1>5 DEF NodeCloses, actVars
  <2>2. QED
    BY <2>1, <1>5, CallsStay DEF NodeCloses
<1>6. ASSUME NEW h \in Handles, FinalizeTsfn(h) PROVE Exact'
  <2>1. /\ UNCHANGED <<actVars, made, dispatched>>
        /\ dropped' = [dropped EXCEPT ![h] = @ + queue[h]] /\ queue' = [queue EXCEPT ![h] = 0]
    BY <1>6 DEF FinalizeTsfn
  <2>2. QED
    BY <2>1, CallsStay
<1>7. ASSUME NEW h \in Handles, NodeHook(h) PROVE Exact'
  <2>1. UNCHANGED actVars
    BY <1>7 DEF NodeHook, actVars
  <2>2. QED
    BY <2>1, <1>7, CallsStay DEF NodeHook
<1>8. ASSUME NEW h \in Handles, AbortHandle(h) PROVE Exact'
  <2>1. UNCHANGED actVars
    BY <1>8 DEF AbortHandle, actVars
  <2>2. QED
    BY <2>1, <1>8, CallsStay DEF AbortHandle
<1>9. ASSUME NEW h \in Handles, NEW a \in Actors, Share(h, a) PROVE Exact'
  <2>1. UNCHANGED actVars
    BY <1>9 DEF Share, actVars
  <2>2. QED
    BY <2>1, <1>9, CallsStay DEF Share
<1>10. ASSUME NEW h \in Handles, NEW a \in Actors, BeginCall(a, h) PROVE Exact'
  <2>1. CASE open
    <3>1. Goto(a, "loading", h) /\ dropped' = dropped
      BY <2>1, <1>10 DEF BeginCall
    <3>2. at[a] = "idle" /\ made' = One(made, h) /\ UNCHANGED <<queue, dispatched>>
      BY <1>10 DEF BeginCall
    <3>3. QED
      BY <3>1, <3>2, CallsMove DEF Calls
  <2>2. CASE ~open
    <3>1. UNCHANGED actVars /\ dropped' = One(dropped, h)
      BY <2>2, <1>10 DEF BeginCall
    <3>2. made' = One(made, h) /\ UNCHANGED <<queue, dispatched>>
      BY <1>10 DEF BeginCall
    <3>3. QED
      BY <3>1, <3>2, CallsStay
  <2>3. QED
    BY <2>1, <2>2
<1>11. ASSUME NEW h \in Handles, NEW a \in Actors, DropClone(a, h) PROVE Exact'
  <2>1. at[a] = "idle" /\ UNCHANGED <<payVars, queue>>
    BY <1>11 DEF DropClone
  <2>2. UNCHANGED actVars \/ Goto(a, "dropping", h)
    BY <1>11 DEF DropClone
  <2>3. QED
    BY <2>1, <2>2, CallsMove, CallsStay DEF Calls
<1>12. ASSUME NEW h \in Handles, NEW a \in Actors, NEW b \in Actors, Move(h, a, b) PROVE Exact'
  <2>1. UNCHANGED actVars
    BY <1>12 DEF Move, actVars
  <2>2. QED
    BY <2>1, <1>12, CallsStay DEF Move
<1>13. ASSUME NEW a \in Actors, LoadRaw(a) PROVE Exact'
  <2>1. at[a] = "loading" /\ cur[a] \in Handles /\ UNCHANGED <<made, queue, dispatched>>
    BY <1>13 DEF LoadRaw, TypeOK
  <2>2. CASE cur[a] \in raw
    <3>1. Goto(a, "calling", cur[a]) /\ dropped' = dropped
      BY <2>2, <1>13 DEF LoadRaw
    <3>2. QED
      BY <2>1, <3>1, CallsMove DEF Calls
  <2>3. CASE cur[a] \notin raw
    <3>1. Goto(a, "idle", NoHandle) /\ dropped' = One(dropped, cur[a])
      BY <2>3, <1>13 DEF LoadRaw, Return
    <3>2. QED
      BY <2>1, <3>1, CallsMove DEF Calls
  <2>4. QED
    BY <2>2, <2>3
<1>14. ASSUME NEW a \in Actors, NativeCall(a) PROVE Exact'
  <2>1. at[a] = "calling" /\ cur[a] \in Handles /\ UNCHANGED <<made, dispatched>>
    BY <1>14 DEF NativeCall, TypeOK
  <2>2. \/ queue' = One(queue, cur[a]) /\ dropped' = dropped
        \/ queue' = queue /\ dropped' = One(dropped, cur[a])
    BY <1>14 DEF NativeCall
  <2>3. Goto(a, "clearing", cur[a]) \/ Goto(a, "idle", NoHandle)
    BY <1>14 DEF NativeCall, Return
  <2>4. /\ Cardinality(InCall(k)) \in Nat
        /\ Cardinality(InCall(k)') = Cardinality(InCall(k)) - (IF cur[a] = k THEN 1 ELSE 0)
    <3>1. /\ Calls("clearing", cur[a], k) = 0 /\ Calls("idle", NoHandle, k) = 0
          /\ Calls(at[a], cur[a], k) = IF cur[a] = k THEN 1 ELSE 0
      BY <2>1 DEF Calls
    <3>2. CASE Goto(a, "clearing", cur[a])
      BY <3>1, <3>2, CallsMove
    <3>3. CASE Goto(a, "idle", NoHandle)
      BY <3>1, <3>3, CallsMove
    <3>4. QED
      BY <2>3, <3>2, <3>3
  <2>5. QED
    BY <2>1, <2>2, <2>4
<1>15. ASSUME NEW a \in Actors, ClearRaw(a) PROVE Exact'
  <2>1. Goto(a, "idle", NoHandle)
    BY <1>15 DEF ClearRaw, Return
  <2>2. QED
    BY <2>1, <1>15, CallsMove, JsIsAnActor DEF ClearRaw, Calls
<1>16. ASSUME NEW a \in Actors, Unregister(a) PROVE Exact'
  <2>1. at[a] = "dropping" /\ UNCHANGED <<payVars, queue>>
    BY <1>16 DEF Unregister
  <2>2. Goto(a, "releasing", cur[a]) \/ Goto(a, "idle", NoHandle)
    BY <1>16 DEF Unregister, Return
  <2>3. QED
    BY <2>1, <2>2, CallsMove DEF Calls
<1>17. ASSUME NEW a \in Actors, NativeRelease(a) PROVE Exact'
  <2>1. Goto(a, "idle", NoHandle)
    BY <1>17 DEF NativeRelease, Return
  <2>2. QED
    BY <2>1, <1>17, CallsMove, JsIsAnActor DEF NativeRelease, Calls
<1>18. CASE EnvCleanup
  <2>1. UNCHANGED actVars
    BY <1>18 DEF EnvCleanup, actVars
  <2>2. QED
    BY <2>1, <1>18, CallsStay DEF EnvCleanup
<1>19. CASE CloseLifecycle
  <2>1. Goto(Js, "aborting", NoHandle) /\ at[Js] = "idle" /\ UNCHANGED payVars /\ UNCHANGED queue
    BY <1>19 DEF CloseLifecycle, JsIdle, nodeVars
  <2>2. QED
    BY <2>1, CallsMove DEF Calls, payVars
<1>20. CASE AbortDone
  <2>1. Goto(Js, "idle", NoHandle)
    BY <1>20 DEF AbortDone, Return
  <2>2. QED
    BY <2>1, <1>20, CallsMove, JsIsAnActor DEF AbortDone, Calls
<1>21. CASE HooksDone
  <2>1. UNCHANGED actVars
    BY <1>21 DEF HooksDone, actVars
  <2>2. QED
    BY <2>1, <1>21, CallsStay DEF HooksDone
<1>22. CASE LoopCloses
  <2>1. UNCHANGED actVars
    BY <1>22 DEF LoopCloses, actVars
  <2>2. QED
    BY <2>1, <1>22, CallsStay DEF LoopCloses
<1>23. CASE UNCHANGED vars
  <2>1. UNCHANGED <<actVars, made, queue, dispatched, dropped>>
    BY <1>23 DEF vars
  <2>2. QED
    BY <2>1, CallsStay
<1> HIDE DEF Exact
<1>24. QED
  BY <1>1, <1>2, <1>3, <1>4, <1>5, <1>6, <1>7, <1>8, <1>9, <1>10, <1>11, <1>12, <1>13,
     <1>14, <1>15, <1>16, <1>17, <1>18, <1>19, <1>20, <1>21, <1>22, <1>23
  DEF Next, Calling, Dropping, Teardown

-----------------------------------------------------------------------------
(* The theorems *)

\* The invariant holds before the first function is made.
LEMMA InductiveInit == Init => Inductive
<1> SUFFICES ASSUME Init PROVE Inductive
  OBVIOUS
<1> USE ConstantsAssumption, JsIsAnActor DEF Init
<1>1. TypeOK
  BY DEF TypeOK, Reading, Steps, Natives
<1>2. Lifecycle
  BY DEF Lifecycle
<1>3. Handling
  BY DEF Handling, DroppedBy
<1>4. Registered
  BY DEF Registered, Using, Reading
<1>5. Quiet
  BY DEF Quiet
<1>6. OneReference
  BY DEF OneReference, Releasing
<1>7. Finality
  BY DEF Finality
<1>8. QED
  BY <1>1, <1>2, <1>3, <1>4, <1>5, <1>6, <1>7 DEF Inductive

\* The conjuncts of the inductive invariant keep each other.
LEMMA InductiveStep == Inductive /\ [Next]_vars => Inductive'
  BY TypeStep, LifecycleStep, HandlingStep, RegisteredStep, QuietStep, ReferenceStep,
     FinalityStep DEF Inductive

\* The parts keep each other.
THEOREM InductiveInvariant == Spec => []Inductive
  BY InductiveInit, InductiveStep, PTL DEF Spec

\* Every variable keeps its type; the thread count of a function, which Node-API
\* decrements at every release, never goes below zero.
THEOREM TypeCorrect == Spec => []TypeOK
<1>1. Inductive => TypeOK
  BY DEF Inductive
<1>2. QED
  BY <1>1, InductiveInvariant, PTL

\* No thread is inside Node-API with a function that was closed, and no pointer to
\* one is left to be loaded: for any number of functions and threads.
THEOREM NoUseAfterFreeHolds == Spec => []NoUseAfterFree
<1>1. Inductive => NoUseAfterFree
  <2> SUFFICES ASSUME Inductive PROVE NoUseAfterFree
    OBVIOUS
  <2>1. TypeOK /\ Registered /\ Quiet
    BY DEF Inductive
  <2>2. \A h \in raw : native[h] \in {"open", "closing"}
    BY <2>1 DEF TypeOK, Natives, Registered, Quiet
  <2>3. ASSUME NEW a \in Actors, at[a] \in {"calling", "clearing", "releasing"}
        PROVE  native[cur[a]] \in {"open", "closing"}
    <3>1. cur[a] \in Handles /\ Using(cur[a])
      BY <2>1, <2>3 DEF TypeOK, Using, Reading
    <3>2. native[cur[a]] \notin {"none", "closed"}
      BY <2>1, <3>1 DEF Registered, Quiet
    <3>3. QED
      BY <2>1, <3>1, <3>2 DEF TypeOK, Natives
  <2>4. QED
    BY <2>2, <2>3 DEF NoUseAfterFree
<1>2. QED
  BY <1>1, InductiveInvariant, PTL

\* The one reference of a function is given back exactly once, by whoever is first.
THEOREM OneReferenceHolds == Spec => []OneReference
<1>1. Inductive => OneReference
  BY DEF Inductive
<1>2. QED
  BY <1>1, InductiveInvariant, PTL

\* A function whose last handle is gone holds no reference.
THEOREM DroppedIsReleasedHolds == Spec => []DroppedIsReleased
<1>1. Inductive => DroppedIsReleased
  <2> SUFFICES ASSUME Inductive, NEW h \in Handles, open, holders[h] = {},
                      \A a \in Actors : cur[a] # h
               PROVE  count[h] = 0
    BY DEF DroppedIsReleased
  <2>1. h \notin raw
    BY DEF Inductive, Registered
  <2>2. Releasing(h) = {}
    BY DEF Releasing
  <2>3. QED
    BY <2>1, <2>2 DEF Inductive, OneReference
<1>2. QED
  BY <1>1, InductiveInvariant, PTL

\* A context is finalized at most once, and before the environment is gone.
THEOREM FinalizedOnceHolds == Spec => []FinalizedOnce
<1>1. Inductive => FinalizedOnce
  BY DEF Inductive, TypeOK, Natives, Finality, Lifecycle, FinalizedOnce
<1>2. QED
  BY <1>1, InductiveInvariant, PTL

\* Every boxed payload is freed exactly once, whatever calls race with teardown.
THEOREM PayloadsFreedOnceHolds == Spec => []PayloadsFreedOnce
<1>1. Init => PayloadsFreedOnce
  <2> SUFFICES ASSUME Init, NEW h \in Handles
               PROVE  made[h] = queue[h] + dispatched[h] + dropped[h] + Cardinality(InCall(h))
    BY DEF PayloadsFreedOnce
  <2>1. Cardinality(InCall(h)) = 0
    BY FS_EmptySet DEF Init, InCall
  <2>2. QED
    BY <2>1 DEF Init
<1>2. Inductive /\ PayloadsFreedOnce /\ [Next]_vars => PayloadsFreedOnce'
  BY PayloadsStep DEF Inductive
<1>3. QED
  BY <1>1, <1>2, InductiveInvariant, PTL DEF Spec

-----------------------------------------------------------------------------
(* Refinement of TsfnSpec *)

PhaseOf == [h \in Handles |-> Phase(h)]

\* The phase of one function moves.
LEMMA PhaseMoves ==
    ASSUME TypeOK, NEW h \in Handles,
           \A g \in Handles : g # h => native'[g] = native[g] /\ finalized'[g] = finalized[g]
    PROVE  PhaseOf' = [PhaseOf EXCEPT ![h] = Phase(h)']
<1>1. \A g \in Handles : g # h => Phase(g)' = Phase(g)
  BY DEF Phase
<1>2. QED
  BY <1>1 DEF PhaseOf

\* The steps that change nothing of what the channel shows.
LEMMA ChannelStays ==
    ASSUME TypeOK, UNCHANGED <<open, native, finalized, queue, dispatched>>
    PROVE  UNCHANGED Channel!vars
<1>1. \A g \in Handles : Phase(g)' = Phase(g)
  BY DEF Phase
<1>2. QED
  BY <1>1 DEF Channel!vars

\* Calls, finalization and teardown keep what TsfnSpec promises.
THEOREM Refinement == Spec => ImplementsTsfnSpec
<1>1. Init => Channel!Init
  BY DEF Init, Channel!Init, Phase
<1>2. Inductive /\ [Next]_vars => [Channel!Next]_Channel!vars
  <2> SUFFICES ASSUME Inductive, [Next]_vars PROVE [Channel!Next]_Channel!vars
    OBVIOUS
  <2> USE JsIsAnActor DEF One, lifeVars, tsfnVars, nodeVars, payVars
  <2>0. /\ TypeOK /\ Lifecycle /\ Finality
    BY DEF Inductive
  <2> HIDE DEF Inductive
  <2>1. ASSUME NEW h \in Handles, Create(h) PROVE Channel!Open(h)
    <3>1. PhaseOf' = [PhaseOf EXCEPT ![h] = Phase(h)']
      BY <2>0, <2>1, PhaseMoves DEF Create, TypeOK
    <3>2. Phase(h) = "absent" /\ Phase(h)' = "open"
      BY <2>0, <2>1 DEF Create, Fresh, Phase, TypeOK
    <3>3. QED
      BY <2>1, <3>1, <3>2 DEF Create, PhaseOf, Channel!Open
  <2>2. ASSUME NEW h \in Handles, CreateFails(h) PROVE Channel!Fail(h)
    <3>1. PhaseOf' = [PhaseOf EXCEPT ![h] = Phase(h)']
      BY <2>0, <2>2, PhaseMoves DEF CreateFails, TypeOK
    <3>2. Phase(h) = "absent" /\ Phase(h)' = "final"
      BY <2>0, <2>2 DEF CreateFails, Fresh, Phase, TypeOK
    <3>3. QED
      BY <2>2, <3>1, <3>2 DEF CreateFails, PhaseOf, Channel!Fail
  <2>3. ASSUME NEW h \in Handles, UnrefFails(h) PROVE Channel!Fail(h)
    <3>1. PhaseOf' = [PhaseOf EXCEPT ![h] = Phase(h)']
      BY <2>0, <2>3, PhaseMoves DEF UnrefFails, TypeOK
    <3>2. Phase(h) = "absent" /\ Phase(h)' = "closing"
      BY <2>0, <2>3 DEF UnrefFails, Fresh, Phase, TypeOK
    <3>3. QED
      BY <2>3, <3>1, <3>2 DEF UnrefFails, PhaseOf, Channel!Fail
  <2>4. ASSUME NEW h \in Handles, Dispatch(h) PROVE Channel!Deliver(h)
    <3>1. Phase(h) = "open" /\ \A g \in Handles : Phase(g)' = Phase(g)
      BY <2>4 DEF Dispatch, Phase
    <3>2. QED
      BY <2>4, <3>1 DEF Dispatch, Channel!Deliver
  <2>5. ASSUME NEW h \in Handles, NodeCloses(h) PROVE Channel!CloseFunction(h)
    <3>1. PhaseOf' = [PhaseOf EXCEPT ![h] = Phase(h)']
      BY <2>0, <2>5, PhaseMoves DEF NodeCloses, TypeOK
    <3>2. Phase(h) = "open" /\ Phase(h)' = "closing"
      BY <2>0, <2>5 DEF NodeCloses, Phase, TypeOK
    <3>3. QED
      BY <2>5, <3>1, <3>2 DEF NodeCloses, PhaseOf, Channel!CloseFunction
  <2>6. ASSUME NEW h \in Handles, FinalizeTsfn(h) PROVE Channel!Finalize(h)
    <3>1. PhaseOf' = [PhaseOf EXCEPT ![h] = Phase(h)']
      BY <2>0, <2>6, PhaseMoves DEF FinalizeTsfn, TypeOK
    <3>2. Phase(h) = "closing" /\ Phase(h)' = "final"
      BY <2>0, <2>6 DEF FinalizeTsfn, Phase, TypeOK
    <3>3. QED
      BY <2>6, <3>1, <3>2 DEF FinalizeTsfn, PhaseOf, Channel!Finalize
  <2>7. ASSUME NEW h \in Handles, NodeHook(h) PROVE Channel!CloseFunction(h)
    <3>1. PhaseOf' = [PhaseOf EXCEPT ![h] = Phase(h)']
      BY <2>0, <2>7, PhaseMoves DEF NodeHook, TypeOK
    <3>2. Phase(h) = "open" /\ Phase(h)' = "closing"
      BY <2>0, <2>7 DEF NodeHook, Phase, TypeOK
    <3>3. QED
      BY <2>7, <3>1, <3>2 DEF NodeHook, PhaseOf, Channel!CloseFunction
  <2>8. ASSUME NEW h \in Handles, AbortHandle(h) PROVE [Channel!Next]_Channel!vars
    <3>1. CASE h \in raw /\ native[h] = "open"
      <4>1. /\ native' = [native EXCEPT ![h] = "closing"]
            /\ UNCHANGED <<open, finalized, queue, dispatched>>
        BY <2>8, <3>1 DEF AbortHandle
      <4>2. PhaseOf' = [PhaseOf EXCEPT ![h] = Phase(h)']
        BY <2>0, <4>1, PhaseMoves DEF TypeOK
      <4>3. Phase(h) = "open" /\ Phase(h)' = "closing"
        BY <2>0, <3>1, <4>1 DEF Phase, TypeOK
      <4>4. Channel!CloseFunction(h)
        BY <4>1, <4>2, <4>3 DEF PhaseOf, Channel!CloseFunction
      <4>5. QED
        BY <4>4 DEF Channel!Next
    <3>2. CASE ~(h \in raw /\ native[h] = "open")
      <4>1. UNCHANGED <<open, native, finalized, queue, dispatched>>
        BY <2>8, <3>2 DEF AbortHandle
      <4>2. QED
        BY <2>0, <4>1, ChannelStays
    <3>3. QED
      BY <3>1, <3>2
  <2>9. ASSUME NEW a \in Actors, NativeCall(a) PROVE [Channel!Next]_Channel!vars
    <3>1. CASE native[cur[a]] = "open" /\ queue[cur[a]] < MaxQueue
      <4>1. /\ cur[a] \in Handles /\ open
        BY <2>0, <2>9 DEF NativeCall, TypeOK, Lifecycle, NoReader, Reading
      <4>2. /\ queue' = [queue EXCEPT ![cur[a]] = @ + 1]
            /\ UNCHANGED <<open, native, finalized, dispatched>>
        BY <2>9, <3>1 DEF NativeCall
      <4>3. Phase(cur[a]) = "open" /\ \A g \in Handles : Phase(g)' = Phase(g)
        BY <3>1, <4>2 DEF Phase
      <4>4. Channel!Accept(cur[a])
        BY <4>1, <4>2, <4>3 DEF Channel!Accept
      <4>5. QED
        BY <4>1, <4>4 DEF Channel!Next
    <3>2. CASE ~(native[cur[a]] = "open" /\ queue[cur[a]] < MaxQueue)
      <4>1. UNCHANGED <<open, native, finalized, queue, dispatched>>
        BY <2>9, <3>2 DEF NativeCall
      <4>2. QED
        BY <2>0, <4>1, ChannelStays
    <3>3. QED
      BY <3>1, <3>2
  <2>10. CASE CloseLifecycle
    <3>1. \A g \in Handles : Phase(g)' = Phase(g)
      BY <2>10 DEF CloseLifecycle, Phase
    <3>2. Channel!CloseGate
      BY <2>10, <3>1 DEF CloseLifecycle, Channel!CloseGate
    <3>3. QED
      BY <3>2 DEF Channel!Next
  <2>11. ASSUME NEW h \in Handles, NEW a \in Actors,
                Share(h, a) \/ BeginCall(a, h) \/ DropClone(a, h)
         PROVE  UNCHANGED Channel!vars
    BY <2>0, <2>11, ChannelStays DEF Share, BeginCall, DropClone
  <2>12. ASSUME NEW a \in Actors,
                LoadRaw(a) \/ ClearRaw(a) \/ Unregister(a) \/ NativeRelease(a)
         PROVE  UNCHANGED Channel!vars
    BY <2>0, <2>12, ChannelStays DEF LoadRaw, ClearRaw, Unregister, NativeRelease
  <2>13. ASSUME EnvCleanup \/ AbortDone \/ HooksDone \/ LoopCloses
         PROVE  UNCHANGED Channel!vars
    BY <2>0, <2>13, ChannelStays DEF EnvCleanup, AbortDone, HooksDone, LoopCloses
  <2>14. ASSUME NEW h \in Handles, NEW a \in Actors, NEW b \in Actors, Move(h, a, b)
         PROVE  UNCHANGED Channel!vars
    BY <2>0, <2>14, ChannelStays DEF Move
  <2>15. CASE UNCHANGED vars
    BY <2>0, <2>15, ChannelStays DEF vars
  <2>16. QED
    BY <2>1, <2>2, <2>3, <2>4, <2>5, <2>6, <2>7, <2>8, <2>9, <2>10, <2>11, <2>12, <2>13,
       <2>14, <2>15 DEF Next, Calling, Dropping, Teardown, Channel!Next
<1>3. QED
  BY <1>1, <1>2, InductiveInvariant, PTL DEF Spec, ImplementsTsfnSpec, Channel!Spec
=============================================================================
