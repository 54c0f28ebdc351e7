---------------------------- MODULE AsyncFuture ----------------------------
(***************************************************************************)
(* WinRTAsyncFuture (crates/dynwinrt/src/dasync.rs): the Rust futures over *)
(* one WinRT asynchronous operation.  `Futures' are all the futures that   *)
(* are made from one value: a value can be awaited several times, and      *)
(* set_async_completed_handler (which toPromise() uses) competes with them *)
(* for the one completion handler that Windows lets an operation have.     *)
(*                                                                         *)
(* A poll is three steps, between which Windows may complete the operation *)
(* and run the handler on a thread of its own: the status is read, the     *)
(* waker is left where the handler finds it, and the status is read again  *)
(* (or, the first time, the handler is registered).                        *)
(***************************************************************************)
EXTENDS Naturals

CONSTANTS Futures,    \* futures of the operation
          Wakers,     \* wakers of the tasks that may hold them
          NoWaker,    \* not polled yet
          NoHandler,  \* nobody registered a completion handler
          Outside,    \* it is that of set_async_completed_handler
          Deferred,   \* futures made with defer_get_results()
          CallsFail   \* may a call to the operation fail?

ASSUME ConstantsAssumption ==
    /\ NoWaker \notin Wakers
    /\ NoHandler \notin Futures /\ Outside \notin Futures /\ NoHandler # Outside
    /\ Deferred \subseteq Futures
    /\ CallsFail \in BOOLEAN

VARIABLES
    status,       \* IAsyncInfo.Status
    asked,        \* was Cancel called?
    handler,      \* whose completion handler the operation has
    invoked,      \* has Windows run it?
    waker,        \* the future's `waker', shared with its handler
    cancelOnDrop, \* the future's `cancel_on_drop'
    at,           \* where the future is: between polls, in one, ready or dropped
    context,      \* the waker given to the last poll
    woken,        \* wakers woken since that poll began
    outcome       \* what poll returned when it was ready

opVars     == <<status, asked, handler, invoked>>
futureVars == <<waker, cancelOnDrop, at, outcome>>
taskVars   == <<context, woken>>
vars       == <<opVars, futureVars, taskVars>>

Terminal == {"completed", "error", "canceled"}
Polling  == {"status", "register", "update", "recheck"}
Places   == {"idle", "ready", "dropped"} \cup Polling
Outcomes == {"none", "value", "failed", "canceled"}

TypeOK ==
    /\ status \in {"started"} \cup Terminal
    /\ asked \in BOOLEAN /\ invoked \in BOOLEAN
    /\ handler \in Futures \cup {NoHandler, Outside}
    /\ waker \in [Futures -> Wakers \cup {NoWaker}]
    /\ cancelOnDrop \in [Futures -> BOOLEAN]
    /\ at \in [Futures -> Places]
    /\ context \in [Futures -> Wakers \cup {NoWaker}]
    /\ woken \in [Futures -> SUBSET Wakers]
    /\ outcome \in [Futures -> Outcomes]

\* from_value and from_async_info, then cancel_on_drop() on some of them.  The
\* operation may have ended before it was returned to the program.
Init ==
    /\ status \in {"started"} \cup Terminal
    /\ asked = FALSE
    /\ handler = NoHandler
    /\ invoked = FALSE
    /\ waker = [f \in Futures |-> NoWaker]
    /\ cancelOnDrop \in [Futures -> BOOLEAN]
    /\ at = [f \in Futures |-> "idle"]
    /\ context = [f \in Futures |-> NoWaker]
    /\ woken = [f \in Futures |-> {}]
    /\ outcome = [f \in Futures |-> "none"]

-----------------------------------------------------------------------------
(* A future *)

\* A task polls a future that it owns, because it was woken or for reasons of
\* its own; a future may have moved to another task, with another waker.
BeginPoll(f, w) ==
    /\ at[f] = "idle"
    /\ at' = [at EXCEPT ![f] = "status"]
    /\ context' = [context EXCEPT ![f] = w]
    /\ woken' = [woken EXCEPT ![f] = {}]
    /\ UNCHANGED <<opVars, waker, cancelOnDrop, outcome>>

Goto(f, place) ==
    /\ at' = [at EXCEPT ![f] = place]
    /\ UNCHANGED <<opVars, waker, cancelOnDrop, outcome, taskVars>>

\* Faulty: a future that is ready stays armed.
ReadyArmed(f, result, cancels) ==
    /\ at' = [at EXCEPT ![f] = "ready"]
    /\ outcome' = [outcome EXCEPT ![f] = result]
    /\ UNCHANGED <<waker, cancelOnDrop, taskVars>>

Ready(f, result, cancels) ==
    /\ at' = [at EXCEPT ![f] = "ready"]
    /\ outcome' = [outcome EXCEPT ![f] = result]
    /\ cancelOnDrop' = [cancelOnDrop EXCEPT ![f] = cancels]
    /\ UNCHANGED <<waker, taskVars>>

\* completed_value(): the handle itself, or what GetResults answers.
Results(f) == IF f \in Deferred THEN {"value"}
              ELSE {r \in {"value", "failed"} : /\ r = "value" => status = "completed"
                                                /\ r = "failed" => status = "error" \/ CallsFail}

\* A reading of the status that ends the poll: an end of the operation disarms
\* cancel_on_drop, a reading that fails leaves it as it is.
Observe(f) ==
    /\ \/ status = "canceled" /\ Ready(f, "canceled", FALSE)
       \/ /\ status \in {"completed", "error"}
          /\ \E r \in Results(f) : Ready(f, r, FALSE)
       \/ CallsFail /\ Ready(f, "failed", cancelOnDrop[f])
    /\ UNCHANGED opVars

ReadStatus(f) ==
    /\ at[f] = "status"
    /\ \/ Observe(f)
       \/ /\ status = "started"
          /\ Goto(f, IF waker[f] = NoWaker THEN "register" ELSE "update")

\* register_completed: Windows takes one handler for an operation, and refuses
\* every other.  The poll returns Pending once the handler is there.
Register(f) ==
    /\ at[f] = "register"
    /\ waker' = [waker EXCEPT ![f] = context[f]]
    /\ \/ /\ handler = NoHandler
          /\ handler' = f
          /\ at' = [at EXCEPT ![f] = "idle"]
          /\ UNCHANGED <<status, asked, invoked, cancelOnDrop, outcome, taskVars>>
       \/ /\ handler # NoHandler \/ CallsFail
          /\ at' = [at EXCEPT ![f] = "ready"]
          /\ outcome' = [outcome EXCEPT ![f] = "failed"]
          /\ UNCHANGED <<opVars, cancelOnDrop, taskVars>>

\* Faulty: the task polls with another waker, and the handler keeps the first.
UpdateForgets(f) == at[f] = "update" /\ Goto(f, "recheck")

\* The handler's waker becomes that of this poll.
Update(f) ==
    /\ at[f] = "update"
    /\ waker' = [waker EXCEPT ![f] = context[f]]
    /\ at' = [at EXCEPT ![f] = "recheck"]
    /\ UNCHANGED <<opVars, cancelOnDrop, outcome, taskVars>>

\* Faulty: pending without another look at the status.
RecheckNothing(f) == at[f] = "recheck" /\ Goto(f, "idle")

\* The handler may have run, with the former waker, since the status was read.
Recheck(f) ==
    /\ at[f] = "recheck"
    /\ \/ Observe(f)
       \/ status = "started" /\ Goto(f, "idle")

Poll(f) == ReadStatus(f) \/ Register(f) \/ Update(f) \/ Recheck(f)

\* drop: an armed future cancels, whatever Cancel answers.
Drop(f) ==
    /\ at[f] \in {"idle", "ready"}
    /\ at' = [at EXCEPT ![f] = "dropped"]
    /\ \/ asked' = (asked \/ cancelOnDrop[f])
       \/ CallsFail /\ UNCHANGED asked
    /\ UNCHANGED <<status, handler, invoked, waker, cancelOnDrop, outcome, taskVars>>

-----------------------------------------------------------------------------
(* The operation and the program *)

\* Cancel is a request: the operation may end otherwise.
OperationEnds ==
    /\ status = "started"
    /\ \E s \in Terminal : (s = "canceled" => asked) /\ status' = s
    /\ UNCHANGED <<asked, handler, invoked, futureVars, taskVars>>

\* Windows runs the handler when the operation ends, or when it is registered
\* on one that ended.  The waker outlives the future that was dropped.
InvokeHandler ==
    /\ status # "started" /\ handler # NoHandler /\ ~invoked
    /\ invoked' = TRUE
    /\ woken' = IF handler = Outside THEN woken
                ELSE [woken EXCEPT ![handler] = @ \cup {waker[handler]}]
    /\ UNCHANGED <<status, asked, handler, futureVars, context>>

SetAsyncCompletedHandler ==
    /\ handler = NoHandler
    /\ handler' = Outside
    /\ UNCHANGED <<status, asked, invoked, futureVars, taskVars>>

\* AsyncInfo::cancel
Cancel ==
    /\ ~asked
    /\ asked' = TRUE
    /\ UNCHANGED <<status, handler, invoked, futureVars, taskVars>>

Next ==
    \/ \E f \in Futures : \/ \E w \in Wakers : BeginPoll(f, w)
                          \/ Poll(f) \/ Drop(f)
    \/ OperationEnds \/ InvokeHandler \/ SetAsyncCompletedHandler \/ Cancel

Spec == Init /\ [][Next]_vars

\* Windows runs the handler of an operation that ended; a poll runs to its end; a
\* task polls again when the waker of its last poll was woken.  A task that is not
\* woken need not poll, and an operation need not end.
Fairness ==
    /\ WF_vars(InvokeHandler)
    /\ \A f \in Futures :
        /\ WF_vars(Poll(f))
        /\ WF_vars(\E w \in Wakers : context[f] \in woken[f] /\ BeginPoll(f, w))

FairSpec == Spec /\ Fairness

-----------------------------------------------------------------------------
(* Properties *)

\* A future that answered Pending.
Parked(f) == at[f] = "idle" /\ waker[f] # NoWaker

\* No wakeup is lost: once Windows has run the handler, a future that answered
\* Pending has had the waker of its last poll woken, although the handler can run
\* between any two steps of that poll (the waker's lock and the second reading of
\* the status in WinRTAsyncFuture::poll).
ParkedIsWoken ==
    \A f \in Futures :
        Parked(f) /\ invoked => handler = f /\ context[f] \in woken[f]

\* What ParkedIsWoken rests on: only a handler that is there was run, a future that
\* got beyond its registration is the one that has the handler, and between polls
\* the waker that a handler finds is that of the last poll.
WakersKnown ==
    /\ invoked => status # "started" /\ handler # NoHandler
    /\ \A f \in Futures :
        /\ handler = f => waker[f] \in Wakers
        /\ Parked(f) \/ at[f] \in {"update", "recheck"} => handler = f
        /\ Parked(f) \/ at[f] = "recheck" => waker[f] = context[f]
        /\ at[f] \in Polling => context[f] \in Wakers
        /\ at[f] = "status" /\ waker[f] # NoWaker => handler = f

Inductive == TypeOK /\ WakersKnown /\ ParkedIsWoken

\* A future that a task awaits is ready in the end, once the operation ended:
\* neither a move to another task nor a poll that races the handler strands it.
AwaitEnds ==
    \A f \in Futures :
        (Parked(f) /\ status # "started") ~> at[f] \in {"ready", "dropped"}

\* "Cancel the underlying WinRT operation if this future is dropped while pending"
\* (the comment on cancel_on_drop): a future that was ready does not cancel.
DropCancelsPending ==
    [][\A f \in Futures : at[f] = "ready" /\ at'[f] = "dropped" => asked' = asked]_vars

\* poll() answers what became of the operation: canceled when it was, a value when
\* it completed (a deferred future answers the handle at any end), and a failure
\* when it failed, when a call did, or when Windows refused this future's handler.
OutcomesAreTrue ==
    \A f \in Futures :
        /\ outcome[f] = "canceled" => status = "canceled"
        /\ outcome[f] = "value" => /\ status # "started"
                                   /\ f \in Deferred \/ status = "completed"
        /\ outcome[f] = "failed" => \/ status = "error"
                                    \/ CallsFail \/ handler \notin {NoHandler, f}

\* How far DropCancelsPending fails: of the futures that were ready, only one that
\* answered a failure cancels, because a call failed or because its handler was
\* refused; an end of the operation that a poll has seen always disarms it.
OnlyFailuresCancelLate ==
    [][\A f \in Futures :
          at[f] = "ready" /\ at'[f] = "dropped" /\ asked' # asked
              => /\ outcome[f] = "failed"
                 /\ CallsFail \/ handler \notin {NoHandler, f}]_vars

=============================================================================
