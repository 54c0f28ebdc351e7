--------------------------- MODULE ComCompletion ---------------------------
(***************************************************************************)
(* One-shot COM activations for Node: CompletionSignal of                  *)
(* crates/dynwinrt/src/com_completion.rs and its owner in                  *)
(* bindings/js/src/com_completion.rs, composed with the threadsafe         *)
(* functions of ManagedTsfn (Tsfn!...), one for each activation.           *)
(*                                                                         *)
(* The closure in a signal owns the handle of the function: it is the      *)
(* passive actor Closure, from which the thread that takes `notify' moves  *)
(* the handle.  `stack' holds the activations inside start_with_plan: the  *)
(* native call may pump the apartment, and then JavaScript and the event   *)
(* loop run inside it.                                                     *)
(***************************************************************************)
EXTENDS Naturals, FiniteSets, Sequences

CONSTANTS Tokens,        \* activations, by their process-unique token
          NativeThreads,       \* threads on which Windows calls a completion handler
          Js,            \* the owner's thread
          Closure, NoToken,
          MaxPending,    \* MAX_PENDING
          SettleCanFail, \* may Node-API fail to settle a promise?
          MaxCalls       \* bound of Tsfn: more calls than a signal should make

ASSUME ConstantsAssumption ==
    /\ IsFiniteSet(NativeThreads) /\ IsFiniteSet(Tokens)
    /\ Js \notin NativeThreads /\ Closure \notin NativeThreads \cup {Js}
    /\ NoToken \notin Tokens
    /\ MaxPending \in Nat \ {0} /\ MaxCalls \in Nat
    /\ SettleCanFail \in BOOLEAN

VARIABLES open, handles, raw, holders, finalized, native, count, queue,
          made, dispatched, dropped, env, at, cur,   \* of Tsfn
          owned,     \* does OWNERS have a map for the environment?
          record,    \* what that map has for each token
          phase,     \* of start_with_plan, for each activation
          stack,     \* the activations inside it, innermost first
          outcome,   \* of the deferred
          published, completed, closed,  \* SignalState, with the closure in `notify'
                                         \* as long as Closure has the handle
          doing, hand,  \* what each thread does with a closure it took, and whose
          toClose    \* signals that close_owner_environment has still to close

tsfnVars == <<open, handles, raw, holders, finalized, native, count, queue,
              made, dispatched, dropped, env, at, cur>>
startVars  == <<phase, stack>>
signalVars == <<published, completed, closed>>
handVars   == <<doing, hand>>
ownerVars  == <<owned, record, outcome, toClose>>
vars == <<tsfnVars, startVars, signalVars, handVars, ownerVars>>

Tsfn == INSTANCE ManagedTsfn WITH Handles <- Tokens, NoHandle <- NoToken, Weak <- {},
                                  MaxQueue <- 1, Threads <- NativeThreads \cup {Closure}

Actors == NativeThreads \cup {Js}
Phases == {"new", "create", "signal", "activating", "publish", "failing", "signalling",
           "unpublished", "returned", "threw"}

TypeOK ==
    /\ Tsfn!TypeOK
    /\ owned \in BOOLEAN
    /\ record \in [Tokens -> {"none", "starting", "pending"}]
    /\ phase \in [Tokens -> Phases]
    /\ stack \in Seq(Tokens)
    /\ outcome \in [Tokens -> {"pending", "resolved", "rejected", "lost", "abandoned"}]
    /\ published \subseteq Tokens /\ completed \subseteq Tokens /\ closed \subseteq Tokens
    /\ doing \in [Actors -> {"idle", "notify", "drop"}]
    /\ hand \in [Actors -> Tokens \cup {NoToken}]
    /\ \A a \in Actors : hand[a] = NoToken <=> doing[a] = "idle"
    /\ toClose \subseteq Tokens

Init ==
    /\ Tsfn!Init
    /\ owned = FALSE
    /\ record = [t \in Tokens |-> "none"]
    /\ phase = [t \in Tokens |-> "new"]
    /\ stack = <<>>
    /\ outcome = [t \in Tokens |-> "pending"]
    /\ published = {} /\ completed = {} /\ closed = {}
    /\ doing = [a \in Actors |-> "idle"]
    /\ hand = [a \in Actors |-> NoToken]
    /\ toClose = {}

Turn(t, to) == phase' = [phase EXCEPT ![t] = to]
Take(a, t, what) == doing' = [doing EXCEPT ![a] = what] /\ hand' = [hand EXCEPT ![a] = t]
Record(t, what) == record' = [record EXCEPT ![t] = what]
Settle(t, how) == outcome' = [outcome EXCEPT ![t] = how]
Settled(how) == {how} \cup (IF SettleCanFail THEN {"lost"} ELSE {})

\* The owner's thread is in none of this code but the native calls of `stack'.
JsFree == doing[Js] = "idle" /\ at[Js] = "idle" /\ toClose = {}
\* It is in start_with_plan for t...
InStart(t, where) == JsFree /\ stack # <<>> /\ Head(stack) = t /\ phase[t] = where
\* ...or runs JavaScript and its event loop.
Pumping == JsFree /\ (stack # <<>> => phase[Head(stack)] = "activating")
Leave(t, how) == stack' = Tail(stack) /\ Turn(t, how)

-----------------------------------------------------------------------------
(* start_with_plan *)

HasRoom == Cardinality({t \in Tokens : record[t] # "none"}) < MaxPending

\* The owner's map is made if there is none; the reservation precedes everything else.
Reserve(t) ==
    /\ Pumping /\ env = "running"
    /\ phase[t] = "new" /\ HasRoom
    /\ owned' = TRUE
    /\ Record(t, "starting")
    /\ stack' = <<t>> \o stack /\ Turn(t, "create")
    /\ UNCHANGED <<tsfnVars, outcome, signalVars, handVars, toClose>>

\* No cleanup hook, no room, or Node makes no promise and the reservation is dropped.
Refuse(t) ==
    /\ Pumping /\ env = "running"
    /\ phase[t] = "new"
    /\ owned' \in {owned, TRUE}
    /\ Turn(t, "threw")
    /\ UNCHANGED <<tsfnVars, record, outcome, stack, signalVars, handVars, toClose>>

CreateFunction(t) ==
    /\ InStart(t, "create")
    /\ Tsfn!Create(t)
    /\ Turn(t, "signal")
    /\ UNCHANGED <<stack, signalVars, handVars, ownerVars>>

\* The finalizer runs and finds a reservation, which it removes; the promise is lost.
CannotCreate(t) ==
    /\ InStart(t, "create")
    /\ Tsfn!CreateFails(t)
    /\ Leave(t, "threw") /\ Record(t, "none")
    /\ UNCHANGED <<owned, outcome, toClose, signalVars, handVars>>

\* CompletionSignal::new, create_signal_sink and the entry of plan.start.
MakeSignal(t) ==
    /\ InStart(t, "signal")
    /\ Tsfn!Move(t, Js, Closure)
    /\ Turn(t, "activating")
    /\ UNCHANGED <<stack, signalVars, handVars, ownerVars>>

StartReturns(t) ==
    /\ InStart(t, "activating")
    /\ Turn(t, "publish") \/ Turn(t, "failing")
    /\ UNCHANGED <<tsfnVars, stack, signalVars, handVars, ownerVars>>

\* Faulty variant: the record is put without looking for the reservation.
PublishAnyway(t) ==
    /\ InStart(t, "publish")
    /\ Record(t, "pending") /\ Turn(t, "signalling")
    /\ UNCHANGED <<tsfnVars, stack, owned, outcome, toClose, signalVars, handVars>>

\* StartReservation::publish: the owner may have been closed meanwhile.
PublishRecord(t) ==
    /\ InStart(t, "publish")
    /\ IF record[t] = "starting" THEN Record(t, "pending") /\ Turn(t, "signalling")
                                 ELSE Turn(t, "unpublished") /\ UNCHANGED record
    /\ UNCHANGED <<tsfnVars, stack, owned, outcome, toClose, signalVars, handVars>>

\* Faulty variant: a completion that came first is forgotten.
SignalForgets(t) ==
    /\ InStart(t, "signalling")
    /\ published' = published \cup {t}
    /\ Leave(t, "returned")
    /\ UNCHANGED <<tsfnVars, handVars, completed, closed, ownerVars>>

\* CompletionSignal::publish, then the promise is returned.
SignalPublish(t) ==
    /\ InStart(t, "signalling")
    /\ published' = published \cup {t}
    /\ IF t \in completed /\ Closure \in holders[t]
          THEN Tsfn!Move(t, Closure, Js) /\ Take(Js, t, "notify")
          ELSE UNCHANGED <<tsfnVars, handVars>>
    /\ Leave(t, "returned")
    /\ UNCHANGED <<completed, closed, ownerVars>>

\* CompletionSignal::close.
CloseSignal(t) ==
    /\ closed' = closed \cup {t}
    /\ IF Closure \in holders[t]
          THEN Tsfn!Move(t, Closure, Js) /\ Take(Js, t, "drop")
          ELSE UNCHANGED <<tsfnVars, handVars>>
    /\ UNCHANGED <<published, completed>>

\* Nothing was started: the promise is returned rejected, the reservation dropped.
RejectStart(t) ==
    /\ InStart(t, "failing")
    /\ CloseSignal(t)
    /\ Record(t, "none")
    /\ \E how \in Settled("rejected") :
           Settle(t, how) /\ Leave(t, IF how = "lost" THEN "threw" ELSE "returned")
    /\ UNCHANGED <<owned, toClose>>

\* Faulty variant: what could not be published is forgotten with its signal open.
AbandonSilently(t) ==
    /\ InStart(t, "unpublished")
    /\ Leave(t, "threw")
    /\ UNCHANGED <<tsfnVars, signalVars, handVars, ownerVars>>

\* The pending completion that found no reservation is dropped.
AbandonStart(t) ==
    /\ InStart(t, "unpublished")
    /\ CloseSignal(t)
    /\ Leave(t, "threw")
    /\ UNCHANGED ownerVars

-----------------------------------------------------------------------------
(* Any thread *)

\* Faulty variant: the completion notifies before there is a record to be found.
CompleteAtOnce(a, t) ==
    /\ doing[a] = "idle" /\ at[a] = "idle" /\ (a = Js => Pumping)
    /\ phase[t] \notin {"new", "create", "signal"} /\ Closure \in holders[t]
    /\ t \notin closed
    /\ completed' = completed \cup {t}
    /\ Tsfn!Move(t, Closure, a) /\ Take(a, t, "notify")
    /\ UNCHANGED <<startVars, published, closed, ownerVars>>

\* Windows calls the handler, more than once perhaps, and perhaps before the activation
\* has returned: CompletionSignal::complete.
Complete(a, t) ==
    /\ doing[a] = "idle" /\ at[a] = "idle" /\ (a = Js => Pumping)
    /\ phase[t] \notin {"new", "create", "signal"} /\ t \notin closed
    /\ completed' = completed \cup {t}
    /\ IF t \in published /\ Closure \in holders[t]
          THEN Tsfn!Move(t, Closure, a) /\ Take(a, t, "notify")
          ELSE UNCHANGED <<tsfnVars, handVars>>
    /\ UNCHANGED <<startVars, published, closed, ownerVars>>

\* The closure calls the function once, and drops its handle whatever came of it.
Notify(a) ==
    /\ doing[a] = "notify"
    /\ Tsfn!BeginCall(a, hand[a])
    /\ Take(a, hand[a], "drop")
    /\ UNCHANGED <<startVars, signalVars, ownerVars>>

Calling(a) ==
    /\ Tsfn!Calling(a)
    /\ UNCHANGED <<startVars, signalVars, handVars, ownerVars>>

\* Node refuses the call, though the function is open: the payload is dropped.
EnqueueFails(a) ==
    /\ at[a] = "calling"
    /\ native[cur[a]] = "open"
    /\ dropped' = Tsfn!One(dropped, cur[a])
    /\ Tsfn!Return(a)
    /\ UNCHANGED <<open, handles, raw, holders, finalized, native, count, queue,
                   made, dispatched, env, startVars, signalVars, handVars, ownerVars>>

\* Faulty variant: the closure is leaked, and the function with it.
KeepClosure(a) ==
    /\ doing[a] = "drop" /\ at[a] = "idle"
    /\ Take(a, NoToken, "idle")
    /\ UNCHANGED <<tsfnVars, startVars, signalVars, ownerVars>>

DropClosure(a) ==
    /\ doing[a] = "drop"
    /\ Tsfn!DropClone(a, hand[a])
    /\ Take(a, NoToken, "idle")
    /\ UNCHANGED <<startVars, signalVars, ownerVars>>

Dropping(a) ==
    /\ Tsfn!Dropping(a)
    /\ UNCHANGED <<startVars, signalVars, handVars, ownerVars>>

-----------------------------------------------------------------------------
(* The event loop of the owner's thread, also inside a native call *)

\* Faulty variant: the record is looked up, and left for the finalizer to find.
DispatchKeepsRecord(t) ==
    /\ Pumping
    /\ Tsfn!Dispatch(t)
    /\ IF record[t] = "pending"
          THEN /\ closed' = closed \cup {t}
               /\ \E how \in Settled("resolved") \cup Settled("rejected") : Settle(t, how)
          ELSE UNCHANGED <<closed, outcome>>
    /\ UNCHANGED <<record, owned, toClose, startVars, published, completed, handVars>>

\* dispatch: the record is taken, its signal is closed (the closure is gone: it made
\* this call) and the result collected.
Dispatch(t) ==
    /\ Pumping
    /\ Tsfn!Dispatch(t)
    /\ Record(t, "none")
    /\ IF record[t] = "pending"
          THEN /\ closed' = closed \cup {t}
               /\ \E how \in Settled("resolved") \cup Settled("rejected") : Settle(t, how)
          ELSE UNCHANGED <<closed, outcome>>
    /\ UNCHANGED <<owned, toClose, startVars, published, completed, handVars>>

\* Faulty variant: the finalizer leaves the record.
FinalizeOnly(t) ==
    /\ Pumping
    /\ Tsfn!FinalizeTsfn(t)
    /\ UNCHANGED <<ownerVars, startVars, signalVars, handVars>>

\* The function goes without having been called: the promise is rejected.
Finalize(t) ==
    /\ Pumping
    /\ Tsfn!FinalizeTsfn(t)
    /\ Record(t, "none")
    /\ IF record[t] = "pending"
          THEN /\ closed' = closed \cup {t}
               /\ \E how \in Settled("rejected") : Settle(t, how)
          ELSE UNCHANGED <<closed, outcome>>
    /\ UNCHANGED <<owned, toClose, startVars, published, completed, handVars>>

\* Faulty variant: the deferreds go, but the signals stay open.
CloseOwnerOnly ==
    /\ Pumping /\ owned /\ env \in {"running", "hooks"}
    /\ owned' = FALSE
    /\ outcome' = [t \in Tokens |-> IF record[t] = "pending" THEN "abandoned" ELSE outcome[t]]
    /\ record' = [t \in Tokens |-> "none"]
    /\ UNCHANGED <<toClose, tsfnVars, startVars, signalVars, handVars>>

\* close_owner_environment, by the cleanup hook or by JavaScript
\* (com_completion_test_close_owner): the map goes at once, and its signals are
\* closed before anything else runs on this thread.
CloseOwner ==
    /\ Pumping /\ owned /\ env \in {"running", "hooks"}
    /\ owned' = FALSE
    /\ toClose' = {t \in Tokens : record[t] = "pending"}
    /\ outcome' = [t \in Tokens |-> IF record[t] = "pending" THEN "abandoned" ELSE outcome[t]]
    /\ record' = [t \in Tokens |-> "none"]
    /\ UNCHANGED <<tsfnVars, startVars, signalVars, handVars>>

CloseNext(t) ==
    /\ t \in toClose
    /\ doing[Js] = "idle" /\ at[Js] = "idle"
    /\ toClose' = toClose \ {t}
    /\ CloseSignal(t)
    /\ UNCHANGED <<owned, record, outcome, startVars>>

NodeStep(t) ==
    /\ Pumping
    /\ Tsfn!NodeCloses(t) \/ Tsfn!NodeHook(t)
    /\ UNCHANGED <<startVars, signalVars, handVars, ownerVars>>

\* The environment is cleaned up from its own loop, and each hook runs once.
EnvCleanup ==
    /\ Pumping /\ stack = <<>>
    /\ Tsfn!EnvCleanup
    /\ UNCHANGED <<startVars, signalVars, handVars, ownerVars>>
CloseLifecycle ==
    /\ Pumping
    /\ Tsfn!CloseLifecycle
    /\ UNCHANGED <<startVars, signalVars, handVars, ownerVars>>
TeardownGoesOn ==
    /\ doing[Js] = "idle" /\ toClose = {}
    /\ \/ \E t \in Tokens : Tsfn!AbortHandle(t)
       \/ Tsfn!AbortDone \/ (~owned /\ Tsfn!HooksDone) \/ Tsfn!LoopCloses
    /\ UNCHANGED <<startVars, signalVars, handVars, ownerVars>>

-----------------------------------------------------------------------------
StartSteps(t) == \/ CreateFunction(t) \/ CannotCreate(t) \/ MakeSignal(t) \/ PublishRecord(t)
                 \/ SignalPublish(t) \/ RejectStart(t) \/ AbandonStart(t)
ClosureSteps(a) == Notify(a) \/ Calling(a) \/ EnqueueFails(a) \/ DropClosure(a) \/ Dropping(a)

Next ==
    \/ \E t \in Tokens : \/ Reserve(t) \/ Refuse(t) \/ StartSteps(t) \/ StartReturns(t)
                         \/ Dispatch(t) \/ Finalize(t) \/ CloseNext(t) \/ NodeStep(t)
    \/ \E a \in Actors : ClosureSteps(a)
    \/ \E a \in Actors, t \in Tokens : Complete(a, t)
    \/ CloseOwner \/ EnvCleanup \/ CloseLifecycle \/ TeardownGoesOn

Spec == Init /\ [][Next]_vars

\* The owner's thread goes on as long as it has something to do but to start activations:
\* native calls return, the event loop turns and hooks are called.  So does every thread
\* that took a closure.  Windows need not complete an activation.
OwnerRuns ==
    \/ \E t \in Tokens : \/ StartSteps(t) \/ StartReturns(t) \/ CloseNext(t)
                         \/ Dispatch(t) \/ Finalize(t) \/ NodeStep(t)
    \/ (env = "hooks" /\ CloseOwner) \/ CloseLifecycle \/ TeardownGoesOn
Fairness == WF_vars(OwnerRuns) /\ \A a \in Actors : WF_vars(ClosureSteps(a))
FairSpec == Spec /\ Fairness

-----------------------------------------------------------------------------
(* Properties *)

State(t) == IF phase[t] = "threw" THEN "thrown"
            ELSE IF phase[t] # "returned" THEN "new"
            ELSE IF outcome[t] = "pending" THEN "running" ELSE outcome[t]

\* A notification that is on its way to the owner's thread finds the record of its
\* activation, unless the owner was closed: it is not sent before the reservation was
\* replaced, though Windows may complete the activation before that, and the event loop
\* may turn inside the native call.
NotificationFindsRecord ==
    \A t \in Tokens : queue[t] > 0 => record[t] = "pending" \/ outcome[t] = "abandoned"

\* An activation that is given up, because it threw or its owner was closed, leaves no
\* threadsafe function to the handler that Windows may keep for ever.
GivenUpHoldsNothing ==
    \A t \in Tokens :
        State(t) \in {"thrown", "abandoned"} /\ t \notin toClose => Closure \notin holders[t]

\* Reentrancy, early and repeated completions, refused calls and closing keep what
\* JavaScript is promised.
Abstract == INSTANCE ActivationSpec WITH state <- [t \in Tokens |-> State(t)],
                                         open <- env = "running"
ImplementsActivationSpec == Abstract!Spec

\* An activation that Windows completed settles its promise, or was given up.
CompletedSettles ==
    \A t \in Tokens : t \in completed ~> State(t) \notin {"new", "running"}

\* Teardown terminates, whatever threads are inside a call, a drop or a completion.
CleanupTerminates == env = "hooks" ~> env = "gone"
=============================================================================
