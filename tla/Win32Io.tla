------------------------------ MODULE Win32Io ------------------------------
(***************************************************************************)
(* Overlapped file I/O of crates/dynwinrt: IocpRuntime, IoCancellation and *)
(* CapacityPermit of win32_io.rs, and the resource leases, calls and close *)
(* of win32_resource.rs they depend on.                                    *)
(*                                                                         *)
(* An operation is submitted by a thread of its own, cancelled at any time *)
(* by any other thread, and completed by one of the IOCP workers.  Windows *)
(* is external: it completes an operation it accepted, posts a packet      *)
(* unless the file skips packets on success, and aborts what CancelIoEx    *)
(* names by the ADDRESS of its OVERLAPPED, which is reused once the box is *)
(* freed.  pc[o] follows the storage of the operation through the code.    *)
(***************************************************************************)
EXTENDS Integers, FiniteSets

CONSTANTS Ops,            \* operations that may be prepared
          Resources,      \* owned file resources
          Target,         \* Target[o]: the resource an operation is prepared on
          Size,           \* Size[o]: bytes of its private buffer
          Addrs,          \* heap addresses of boxed NativeOperations
          Workers,        \* completion workers
          Callers,        \* threads that make synchronous calls with resources
          NoOp, NoAddr, NoResource,
          MaxOperations,  \* MAX_PENDING_OPERATIONS
          MaxBytes        \* MAX_PENDING_BUFFER_BYTES

ASSUME ConstantsAssumption ==
    /\ IsFiniteSet(Ops)
    /\ Target \in [Ops -> Resources]
    /\ Size \in [Ops -> Nat]
    /\ NoOp \notin Ops
    /\ NoAddr \notin Addrs
    /\ NoResource \notin Resources
    /\ MaxOperations \in Nat
    /\ MaxBytes \in Nat

VARIABLES
    pc,         \* where the storage of each operation is
    box,        \* address of its NativeOperation, NoAddr when it has none
    registry,   \* IocpRuntime.registry: the operation boxed at an address
    regLock,    \* the operation whose submission holds the registry lock
    skipSeen,   \* completion_modes read by the submission: skip on success?
    error,      \* what ReadFile or WriteFile returned
    returned,   \* what submit() returned to its caller
    delivered,  \* number of records sent for the operation
    control,    \* NativeControl: its OVERLAPPED address while active
    cancelled,  \* operations whose `cancelled' flag is set
    cancelling, \* operations some cancel() has flagged and not yet acted on
    usedOps, usedBytes,             \* CapacityUsage
    handle, retained, active,       \* ResourceControl of each resource
    skip,       \* does the file skip packets on success (Windows' own state)?
    calls,      \* resource each caller holds locked for a call, and why
    io,         \* operations Windows is performing
    packets,    \* operations with a packet in the completion port
    ptr,        \* the OVERLAPPED address Windows was given for them
    aborting,   \* operations CancelIoEx named while Windows performed them
    at, taken,  \* per worker: its next step, and the packet or operation it has
    receiver    \* does the receiver of the completion channel still exist?

opVars      == <<pc, box, skipSeen, error, returned, delivered>>
regVars     == <<registry, regLock>>
cancelVars  == <<control, cancelled, cancelling>>
capVars     == <<usedOps, usedBytes>>
resVars     == <<handle, retained, active>>
callVars    == <<skip, calls>>
osVars      == <<io, packets, ptr, aborting>>
workerVars  == <<at, taken>>
vars == <<opVars, regVars, cancelVars, capVars, resVars, callVars, osVars,
          workerVars, receiver>>

\* "new", then prepare(): "reserved" (permit), "prepared" (lease and buffer);
\* submit(): "boxed", "registered" and "started" (registry locked), "failing";
\* "native": submit() has returned; deliver(): "delivering", "sending";
\* "record": in the channel; "returning": lease dropped; "spent": permit dropped.
PCs == {"new", "reserved", "prepared", "boxed", "registered", "started", "failing",
        "native", "delivering", "sending", "record", "returning", "spent"}
Access == {"borrow", "consume", "mutate"}

TypeOK ==
    /\ pc \in [Ops -> PCs]
    /\ box \in [Ops -> Addrs \cup {NoAddr}]
    /\ registry \in [Addrs -> Ops \cup {NoOp}]
    /\ regLock \in Ops \cup {NoOp}
    /\ skipSeen \in [Ops -> BOOLEAN]
    /\ error \in [Ops -> {"none", "pending", "eof", "fatal"}]
    /\ returned \in [Ops -> {"none", "accepted", "refused"}]
    /\ delivered \in [Ops -> Nat]
    /\ control \in [Ops -> Addrs \cup {NoAddr}]
    /\ cancelled \subseteq Ops
    /\ cancelling \subseteq Ops
    /\ usedOps \in Nat /\ usedBytes \in Int
    /\ handle \in [Resources -> {"open", "closed"}]
    /\ retained \in [Resources -> Nat] /\ active \in [Resources -> Nat]
    /\ skip \in [Resources -> BOOLEAN]
    /\ calls \in [Callers -> [resource : Resources \cup {NoResource}, access : Access]]
    /\ io \subseteq Ops /\ packets \subseteq Ops /\ aborting \subseteq Ops
    /\ ptr \in [Ops -> Addrs \cup {NoAddr}]
    /\ at \in [Workers -> {"waiting", "dequeued", "delivering"}]
    /\ taken \in [Workers -> Ops \cup {NoOp}]
    /\ receiver \in BOOLEAN

NotCalling == [resource |-> NoResource, access |-> "borrow"]

Init ==
    /\ pc = [o \in Ops |-> "new"]
    /\ box = [o \in Ops |-> NoAddr]
    /\ registry = [a \in Addrs |-> NoOp]
    /\ regLock = NoOp
    /\ skipSeen = [o \in Ops |-> FALSE]
    /\ error = [o \in Ops |-> "none"]
    /\ returned = [o \in Ops |-> "none"]
    /\ delivered = [o \in Ops |-> 0]
    /\ control = [o \in Ops |-> NoAddr]
    /\ cancelled = {} /\ cancelling = {}
    /\ usedOps = 0 /\ usedBytes = 0
    /\ handle = [r \in Resources |-> "open"]
    /\ retained = [r \in Resources |-> 0] /\ active = [r \in Resources |-> 0]
    /\ skip \in [Resources -> BOOLEAN]
    /\ calls = [c \in Callers |-> NotCalling]
    /\ io = {} /\ packets = {} /\ aborting = {}
    /\ ptr = [o \in Ops |-> NoAddr]
    /\ at = [w \in Workers |-> "waiting"]
    /\ taken = [w \in Workers |-> NoOp]
    /\ receiver = TRUE

Goto(o, step) == pc' = [pc EXCEPT ![o] = step]

-----------------------------------------------------------------------------
(* Resources: the value lock, leases and close. *)

Unlocked(r) == \A c \in Callers : calls[c].resource # r

\* Faulty variant: leases are not looked at.
AllowsAny(r, access) == TRUE

\* Faulty variant: only consuming calls are kept out.
AllowsMutation(r, access) == access = "consume" => retained[r] = 0

\* ResourceControl::lock: only a borrow is compatible with asynchronous leases.
Allows(r, access) == access = "borrow" \/ retained[r] = 0

\* OwnedResourceAsyncLease::drop, after the operation was deactivated.
DropLease(o) == retained' = [retained EXCEPT ![Target[o]] = @ - 1]

\* A synchronous native call locks its resource for as long as it runs.
BeginCall(c, r, access) ==
    /\ calls[c] = NotCalling
    /\ Unlocked(r)
    /\ handle[r] = "open"
    /\ Allows(r, access)
    /\ calls' = [calls EXCEPT ![c] = [resource |-> r, access |-> access]]
    /\ UNCHANGED <<opVars, regVars, cancelVars, capVars, resVars, skip, osVars,
                   workerVars, receiver>>

\* The call returns: it consumed the handle, added the skip-on-success mode (a
\* file never loses a mode), or neither, and the lock is released.
EndCall(c) ==
    LET call == calls[c] IN
    /\ call.resource # NoResource
    /\ handle' = IF call.access = "consume"
                 THEN [handle EXCEPT ![call.resource] = "closed"] ELSE handle
    /\ skip' = IF call.access = "mutate"
               THEN [skip EXCEPT ![call.resource] = TRUE] ELSE skip
    /\ calls' = [calls EXCEPT ![c] = NotCalling]
    /\ UNCHANGED <<opVars, regVars, cancelVars, capVars, retained, active, osVars,
                   workerVars, receiver>>

\* Faulty variant: only active I/O, not a retained lease, stops close().
CloseUnlessActive(r) ==
    /\ Unlocked(r)
    /\ handle[r] = "open"
    /\ active[r] = 0
    /\ handle' = [handle EXCEPT ![r] = "closed"]
    /\ UNCHANGED <<opVars, regVars, cancelVars, capVars, retained, active, callVars,
                   osVars, workerVars, receiver>>

\* OwnedResource::close: refused while any lease is retained.
Close(r) ==
    /\ Unlocked(r)
    /\ handle[r] = "open"
    /\ retained[r] = 0
    /\ handle' = [handle EXCEPT ![r] = "closed"]
    /\ UNCHANGED <<opVars, regVars, cancelVars, capVars, retained, active, callVars,
                   osVars, workerVars, receiver>>

-----------------------------------------------------------------------------
(* Preparing: a capacity permit, then a lease, then the private buffer. *)

\* Faulty variant: the size of the request is left out of the byte limit.
AcquireUnsized(o) ==
    /\ pc[o] = "new"
    /\ usedOps < MaxOperations
    /\ usedBytes < MaxBytes
    /\ usedOps' = usedOps + 1
    /\ usedBytes' = usedBytes + Size[o]
    /\ Goto(o, "reserved")
    /\ UNCHANGED <<box, skipSeen, error, returned, delivered, regVars, cancelVars,
                   resVars, callVars, osVars, workerVars, receiver>>

\* CapacityPermit::acquire; a refused prepare changes nothing.
Acquire(o) ==
    /\ pc[o] = "new"
    /\ usedOps < MaxOperations
    /\ usedBytes + Size[o] <= MaxBytes
    /\ usedOps' = usedOps + 1
    /\ usedBytes' = usedBytes + Size[o]
    /\ Goto(o, "reserved")
    /\ UNCHANGED <<box, skipSeen, error, returned, delivered, regVars, cancelVars,
                   resVars, callVars, osVars, workerVars, receiver>>

\* OwnedResource::async_lease; without a lease the permit is dropped again.
Lease(o) ==
    /\ pc[o] = "reserved"
    /\ Unlocked(Target[o])
    /\ \/ /\ handle[Target[o]] = "open"
          /\ retained' = [retained EXCEPT ![Target[o]] = @ + 1]
          /\ Goto(o, "prepared")
       \/ /\ handle[Target[o]] = "closed"
          /\ Goto(o, "returning")
          /\ UNCHANGED retained
    /\ UNCHANGED <<box, skipSeen, error, returned, delivered, regVars, cancelVars,
                   capVars, handle, active, callVars, osVars, workerVars, receiver>>

\* The PreparedIo is dropped, or its buffer could not be allocated.
DropPrepared(o) ==
    /\ pc[o] = "prepared"
    /\ DropLease(o)
    /\ Goto(o, "returning")
    /\ UNCHANGED <<box, skipSeen, error, returned, delivered, regVars, cancelVars,
                   capVars, handle, active, callVars, osVars, workerVars, receiver>>

-----------------------------------------------------------------------------
(* Submitting: everything from "registered" to "started" holds the registry. *)

Free(a) == \A o \in Ops : box[o] # a

\* CancelIoEx(handle, overlapped): Windows knows operations by their address.
CancelIoEx(o) ==
    aborting' = IF control[o] = NoAddr THEN aborting
                ELSE aborting \cup {x \in io : ptr[x] = control[o]}

Refuse(o) == returned' = [returned EXCEPT ![o] = "refused"]
Accept(o) == returned' = [returned EXCEPT ![o] = "accepted"]
FreeBox(o) == box' = [box EXCEPT ![o] = NoAddr]
Unregister(o) == /\ registry' = [registry EXCEPT ![box[o]] = NoOp]
                 /\ regLock' = NoOp

BeginSubmit(o) ==
    /\ pc[o] = "prepared"
    /\ \/ /\ o \in cancelled
          /\ Refuse(o)
          /\ DropLease(o)
          /\ Goto(o, "returning")
          /\ UNCHANGED box
       \/ /\ o \notin cancelled
          /\ \E a \in Addrs : Free(a) /\ box' = [box EXCEPT ![o] = a]
          /\ Goto(o, "boxed")
          /\ UNCHANGED <<returned, retained>>
    /\ UNCHANGED <<skipSeen, error, delivered, regVars, cancelVars, capVars, handle,
                   active, callVars, osVars, workerVars, receiver>>

\* The port association and the completion modes are asked of Windows under the
\* lock; then the operation is activated and registered at its address.
Register(o) ==
    /\ pc[o] = "boxed"
    /\ regLock = NoOp
    /\ registry[box[o]] = NoOp
    /\ skipSeen' = [skipSeen EXCEPT ![o] = skip[Target[o]]]
    /\ control' = [control EXCEPT ![o] = box[o]]
    /\ active' = [active EXCEPT ![Target[o]] = @ + 1]
    /\ registry' = [registry EXCEPT ![box[o]] = o]
    /\ regLock' = o
    /\ Goto(o, "registered")
    /\ UNCHANGED <<box, error, returned, delivered, cancelled, cancelling, capVars,
                   handle, retained, callVars, osVars, workerVars, receiver>>

\* Association or query failed, or the address is registered: nothing was
\* submitted, and the box is dropped with its lease.
CannotRegister(o) ==
    /\ pc[o] = "boxed"
    /\ regLock = NoOp
    /\ Refuse(o)
    /\ FreeBox(o)
    /\ DropLease(o)
    /\ Goto(o, "returning")
    /\ UNCHANGED <<skipSeen, error, delivered, regVars, cancelVars, capVars, handle,
                   active, callVars, osVars, workerVars, receiver>>

\* ReadFile or WriteFile.  A success that is not pending posts a packet unless
\* the file skips it.
StartIo(o) ==
    /\ pc[o] = "registered"
    /\ Goto(o, "started")
    /\ \E e \in {"none", "pending", "eof", "fatal"} :
          /\ error' = [error EXCEPT ![o] = e]
          /\ ptr' = IF e \in {"none", "pending"}
                    THEN [ptr EXCEPT ![o] = box[o]] ELSE ptr
          /\ io' = IF e = "pending" THEN io \cup {o} ELSE io
          /\ packets' = IF e = "none" /\ ~skip[Target[o]]
                        THEN packets \cup {o} ELSE packets
    /\ UNCHANGED <<box, skipSeen, returned, delivered, regVars, cancelVars, capVars,
                   resVars, callVars, aborting, workerVars, receiver>>

\* End of file is an inline result of zero bytes; any other error refuses.
FailedSync(o) ==
    /\ pc[o] = "started"
    /\ error[o] \in {"eof", "fatal"}
    /\ Unregister(o)
    /\ IF error[o] = "eof" THEN Goto(o, "delivering") /\ Accept(o)
                           ELSE Goto(o, "failing") /\ UNCHANGED returned
    /\ UNCHANGED <<box, skipSeen, error, delivered, cancelVars, capVars, resVars,
                   callVars, osVars, workerVars, receiver>>

\* deactivate(), then the error return drops the operation and its lease.
RefusedByWindows(o) ==
    /\ pc[o] = "failing"
    /\ control' = [control EXCEPT ![o] = NoAddr]
    /\ active' = [active EXCEPT ![Target[o]] = @ - 1]
    /\ Refuse(o)
    /\ FreeBox(o)
    /\ DropLease(o)
    /\ Goto(o, "returning")
    /\ UNCHANGED <<skipSeen, error, delivered, regVars, cancelled, cancelling, capVars,
                   handle, callVars, osVars, workerVars, receiver>>

\* A synchronous success on a file that skips packets: the submitter delivers.
CompleteInline(o) ==
    /\ pc[o] = "started"
    /\ error[o] = "none" /\ skipSeen[o]
    /\ Unregister(o)
    /\ Accept(o)
    /\ Goto(o, "delivering")
    /\ UNCHANGED <<box, skipSeen, error, delivered, cancelVars, capVars, resVars,
                   callVars, osVars, workerVars, receiver>>

\* Faulty variant: the request that raced the activation is not repeated.
SubmitReturnsAtOnce(o) ==
    /\ pc[o] = "started"
    /\ error[o] = "pending" \/ (error[o] = "none" /\ ~skipSeen[o])
    /\ regLock' = NoOp
    /\ Accept(o)
    /\ Goto(o, "native")
    /\ UNCHANGED <<box, skipSeen, error, delivered, registry, cancelVars, capVars,
                   resVars, callVars, osVars, workerVars, receiver>>

\* A packet will come.  A cancellation that raced the activation is repeated
\* before the registry is unlocked.
SubmitReturns(o) ==
    /\ pc[o] = "started"
    /\ error[o] = "pending" \/ (error[o] = "none" /\ ~skipSeen[o])
    /\ IF o \in cancelled THEN CancelIoEx(o) ELSE UNCHANGED aborting
    /\ regLock' = NoOp
    /\ Accept(o)
    /\ Goto(o, "native")
    /\ UNCHANGED <<box, skipSeen, error, delivered, registry, cancelVars, capVars,
                   resVars, callVars, io, packets, ptr, workerVars, receiver>>

-----------------------------------------------------------------------------
(* IoCancellation::cancel: the flag, then CancelIoEx under the control lock. *)

RequestCancel(o) ==
    /\ pc[o] \notin {"new", "reserved"}
    /\ cancelled' = cancelled \cup {o}
    /\ cancelling' = cancelling \cup {o}
    /\ UNCHANGED <<opVars, regVars, control, capVars, resVars, callVars, osVars,
                   workerVars, receiver>>

CancelNative(o) ==
    /\ o \in cancelling
    /\ CancelIoEx(o)
    /\ cancelling' = cancelling \ {o}
    /\ UNCHANGED <<opVars, regVars, control, cancelled, capVars, resVars, callVars,
                   io, packets, ptr, workerVars, receiver>>

-----------------------------------------------------------------------------
(* Completion: Windows posts a packet, a worker removes and delivers. *)

WindowsCompletes(o) ==
    /\ o \in io
    /\ io' = io \ {o}
    /\ packets' = packets \cup {o}
    /\ aborting' = aborting \ {o}
    /\ UNCHANGED <<opVars, regVars, cancelVars, capVars, resVars, callVars, ptr,
                   workerVars, receiver>>

\* GetQueuedCompletionStatus.
Dequeue(w) ==
    /\ at[w] = "waiting"
    /\ \E o \in packets : /\ packets' = packets \ {o}
                          /\ taken' = [taken EXCEPT ![w] = o]
    /\ at' = [at EXCEPT ![w] = "dequeued"]
    /\ UNCHANGED <<opVars, regVars, cancelVars, capVars, resVars, callVars, io, ptr,
                   aborting, receiver>>

\* The packet names an address: whatever is registered there is delivered, and a
\* packet for an unknown address is only logged.
Remove(w) ==
    LET a == ptr[taken[w]]
        o == registry[a] IN
    /\ at[w] = "dequeued"
    /\ regLock = NoOp
    /\ registry' = [registry EXCEPT ![a] = NoOp]
    /\ pc' = IF o = NoOp THEN pc ELSE [pc EXCEPT ![o] = "delivering"]
    /\ taken' = [taken EXCEPT ![w] = o]
    /\ at' = [at EXCEPT ![w] = IF o = NoOp THEN "waiting" ELSE "delivering"]
    /\ UNCHANGED <<box, skipSeen, error, returned, delivered, regLock, cancelVars,
                   capVars, resVars, callVars, osVars, receiver>>

\* Faulty variant: the lease is dropped with the activity, and again with the record.
DeactivateDropsLease(o) ==
    /\ pc[o] = "delivering"
    /\ control' = [control EXCEPT ![o] = NoAddr]
    /\ active' = [active EXCEPT ![Target[o]] = @ - 1]
    /\ DropLease(o)
    /\ Goto(o, "sending")
    /\ UNCHANGED <<box, skipSeen, error, returned, delivered, regVars, cancelled,
                   cancelling, capVars, handle, callVars, osVars, workerVars, receiver>>

\* Faulty variant: the cancellation object keeps the address.
DeactivateLeaseOnly(o) ==
    /\ pc[o] = "delivering"
    /\ active' = [active EXCEPT ![Target[o]] = @ - 1]
    /\ Goto(o, "sending")
    /\ UNCHANGED <<box, skipSeen, error, returned, delivered, regVars, cancelVars,
                   capVars, handle, retained, callVars, osVars, workerVars, receiver>>

\* NativeOperation::deactivate: no cancel() names the address from here on.
Deactivate(o) ==
    /\ pc[o] = "delivering"
    /\ control' = [control EXCEPT ![o] = NoAddr]
    /\ active' = [active EXCEPT ![Target[o]] = @ - 1]
    /\ Goto(o, "sending")
    /\ UNCHANGED <<box, skipSeen, error, returned, delivered, regVars, cancelled,
                   cancelling, capVars, handle, retained, callVars, osVars,
                   workerVars, receiver>>

\* Faulty variant: a record that could not be sent is forgotten with its lease.
SendForgets(o) ==
    /\ pc[o] = "sending"
    /\ FreeBox(o)
    /\ delivered' = IF receiver THEN [delivered EXCEPT ![o] = @ + 1] ELSE delivered
    /\ Goto(o, IF receiver THEN "record" ELSE "spent")
    /\ LET done == {w \in Workers : at[w] = "delivering" /\ taken[w] = o} IN
          /\ at' = [w \in Workers |-> IF w \in done THEN "waiting" ELSE at[w]]
          /\ taken' = [w \in Workers |-> IF w \in done THEN NoOp ELSE taken[w]]
    /\ UNCHANGED <<skipSeen, error, returned, regVars, cancelVars, capVars, handle,
                   retained, active, callVars, osVars, receiver>>

\* The record takes the buffer, lease and permit along; a closed channel gives
\* it back and drops it.  The box is freed, and its worker waits again.
Send(o) ==
    /\ pc[o] = "sending"
    /\ FreeBox(o)
    /\ \/ /\ receiver
          /\ delivered' = [delivered EXCEPT ![o] = @ + 1]
          /\ Goto(o, "record")
          /\ UNCHANGED retained
       \/ /\ ~receiver
          /\ DropLease(o)
          /\ Goto(o, "returning")
          /\ UNCHANGED delivered
    /\ LET done == {w \in Workers : at[w] = "delivering" /\ taken[w] = o} IN
          /\ at' = [w \in Workers |-> IF w \in done THEN "waiting" ELSE at[w]]
          /\ taken' = [w \in Workers |-> IF w \in done THEN NoOp ELSE taken[w]]
    /\ UNCHANGED <<skipSeen, error, returned, regVars, cancelVars, capVars, handle,
                   active, callVars, osVars, receiver>>

\* The receiver has used the record, or drops it: the lease goes first.
Consume(o) ==
    /\ pc[o] = "record"
    /\ DropLease(o)
    /\ Goto(o, "returning")
    /\ UNCHANGED <<box, skipSeen, error, returned, delivered, regVars, cancelVars,
                   capVars, handle, active, callVars, osVars, workerVars, receiver>>

\* Faulty variant: the bytes are not given back.
DropPermitOnly(o) ==
    /\ pc[o] = "returning"
    /\ usedOps' = usedOps - 1
    /\ Goto(o, "spent")
    /\ UNCHANGED <<box, skipSeen, error, returned, delivered, usedBytes, regVars,
                   cancelVars, resVars, callVars, osVars, workerVars, receiver>>

\* CapacityPermit::drop.
DropPermit(o) ==
    /\ pc[o] = "returning"
    /\ usedOps' = usedOps - 1
    /\ usedBytes' = usedBytes - Size[o]
    /\ Goto(o, "spent")
    /\ UNCHANGED <<box, skipSeen, error, returned, delivered, regVars, cancelVars,
                   resVars, callVars, osVars, workerVars, receiver>>

DropReceiver ==
    /\ receiver
    /\ receiver' = FALSE
    /\ UNCHANGED <<opVars, regVars, cancelVars, capVars, resVars, callVars, osVars,
                   workerVars>>

-----------------------------------------------------------------------------
Submitting(o) == \/ Register(o) \/ CannotRegister(o) \/ StartIo(o) \/ FailedSync(o)
                 \/ RefusedByWindows(o) \/ CompleteInline(o) \/ SubmitReturns(o)
Delivering(o) == Deactivate(o) \/ Send(o)

Next ==
    \/ \E o \in Ops : \/ Acquire(o) \/ Lease(o) \/ DropPrepared(o) \/ BeginSubmit(o)
                      \/ Submitting(o) \/ RequestCancel(o) \/ CancelNative(o)
                      \/ WindowsCompletes(o) \/ Delivering(o)
                      \/ Consume(o) \/ DropPermit(o)
    \/ \E w \in Workers : Dequeue(w) \/ Remove(w)
    \/ \E c \in Callers, r \in Resources, access \in Access : BeginCall(c, r, access)
    \/ \E c \in Callers : EndCall(c)
    \/ \E r \in Resources : Close(r)
    \/ DropReceiver

Spec == Init /\ [][Next]_vars

\* Threads that have work run on.  Windows need not complete an operation of its
\* own accord, but completes one it was asked to abort; a receiver may keep its
\* records.  Locks are held for finitely many steps, so none needs more.
Fairness ==
    /\ \A o \in Ops : /\ WF_vars(Submitting(o))
                      /\ WF_vars(CancelNative(o))
                      /\ WF_vars(Delivering(o))
                      /\ WF_vars(DropPermit(o))
                      /\ WF_vars(o \in aborting /\ WindowsCompletes(o))
    /\ \A w \in Workers : WF_vars(Dequeue(w)) /\ WF_vars(Remove(w))
FairSpec == Spec /\ Fairness

-----------------------------------------------------------------------------
(* The inductive invariant: what is true of an operation at each place of its *)
(* storage, and what every operation holds is counted where it is held.       *)

HeldPCs       == PCs \ {"new", "spent"}
LeasedPCs     == HeldPCs \ {"reserved", "returning"}
BoxedPCs      == LeasedPCs \ {"prepared", "record"}
ActivePCs     == BoxedPCs \ {"boxed", "sending"}
RegisteredPCs == {"registered", "started", "native"}

Count(steps) == Cardinality({o \in Ops : pc[o] \in steps})
CountOn(r, steps) == Cardinality({o \in Ops : Target[o] = r /\ pc[o] \in steps})

Counted == /\ usedOps = Count(HeldPCs) /\ usedOps <= MaxOperations
           /\ \A r \in Resources : /\ retained[r] = CountOn(r, LeasedPCs)
                                   /\ active[r] = CountOn(r, ActivePCs)

Boxes == /\ \A o \in Ops : box[o] = NoAddr <=> pc[o] \notin BoxedPCs
         /\ \A o, p \in Ops : box[o] = box[p] /\ box[o] # NoAddr => o = p
         /\ \A o \in Ops : control[o] = IF pc[o] \in ActivePCs THEN box[o] ELSE NoAddr

Registry == /\ \A o \in Ops, a \in Addrs :
                   registry[a] = o <=> box[o] = a /\ pc[o] \in RegisteredPCs
            /\ \A o \in Ops : regLock = o <=> pc[o] \in {"registered", "started"}

\* A call that consumes or changes its resource excludes leases, and so keeps the
\* completion mode a submission has read.
Calls ==
    /\ \A o \in Ops : pc[o] \in LeasedPCs => handle[Target[o]] = "open"
    /\ \A c \in Callers : calls[c].resource # NoResource =>
           /\ calls[c].access # "borrow" =>
                  \A o \in Ops : Target[o] = calls[c].resource => pc[o] \notin LeasedPCs
           /\ \A d \in Callers : calls[d].resource = calls[c].resource => c = d
    /\ \A o \in Ops : pc[o] \in {"registered", "started"} => skipSeen[o] = skip[Target[o]]

Dequeued == {o \in Ops : \E w \in Workers : at[w] = "dequeued" /\ taken[w] = o}
InFlight == io \cup packets \cup Dequeued

\* What Windows performs, has posted, or gave to a worker is one operation that
\* was submitted, at the address Windows was given.
Windows ==
    /\ io \cap packets = {}
    /\ \A w \in Workers : at[w] = "dequeued" =>
           /\ taken[w] \in Ops \ (io \cup packets)
           /\ \A v \in Workers : at[v] = "dequeued" /\ taken[v] = taken[w] => v = w
    /\ \A o \in Ops :
           o \in io \cup packets \/ (\E w \in Workers : at[w] = "dequeued" /\ taken[w] = o)
           => /\ pc[o] \in {"started", "native"}
              /\ ptr[o] = box[o]
              /\ pc[o] = "started" => \/ error[o] = "pending"
                                      \/ error[o] = "none" /\ ~skipSeen[o]

\* An operation submit() leaves to Windows is performed, or its packet is posted
\* or taken.
LeftToWindows(o) ==
    \/ pc[o] = "native"
    \/ pc[o] = "started" /\ (error[o] = "pending" \/ (error[o] = "none" /\ ~skipSeen[o]))
Expected == \A o \in Ops : LeftToWindows(o) => o \in InFlight

Cancellation == /\ cancelling \subseteq cancelled
                /\ aborting \subseteq io \cap cancelled
                /\ \A o \in io \cap cancelled :
                       pc[o] = "native" /\ o \notin cancelling => o \in aborting

Outcomes ==
    \A o \in Ops :
        /\ pc[o] \in {"new", "reserved", "prepared", "boxed", "registered", "started", "failing"}
              => returned[o] = "none"
        /\ pc[o] \in {"native", "delivering", "sending", "record"} => returned[o] = "accepted"
        /\ pc[o] \notin {"record", "returning", "spent"} => delivered[o] = 0
        /\ pc[o] = "record" => delivered[o] = 1
        /\ delivered[o] \in {0, 1}
        /\ delivered[o] = 1 => returned[o] = "accepted"
        /\ pc[o] \in {"returning", "spent"} /\ returned[o] = "accepted"
              => delivered[o] = 1 \/ ~receiver

Inductive == /\ TypeOK /\ Counted /\ Boxes /\ Registry /\ Calls
             /\ Windows /\ Expected /\ Cancellation /\ Outcomes

-----------------------------------------------------------------------------
(* Properties. *)

\* While Windows may touch an OVERLAPPED and its buffer, or a packet that names
\* it is under way, its box is allocated and registered at that very address and
\* the file is open and reported as having active I/O: no completion is stray and
\* no memory or handle is reused under Windows (registry, leases and close).
WindowsOwnsStorage ==
    \A o \in InFlight : /\ ptr[o] # NoAddr
                        /\ box[o] = ptr[o]
                        /\ registry[ptr[o]] = o
                        /\ handle[Target[o]] = "open"
                        /\ active[Target[o]] > 0

\* Windows is asked to abort only operations that were cancelled: a cancel() that
\* comes late never names an address that now belongs to another operation.
OnlyCancelledIsAborted == aborting \subseteq cancelled

\* A cancellation is not lost between the flag, the activation and the native
\* call: once submit() has returned and no cancel() is half done, Windows was
\* asked to abort the cancelled operation, or its packet is already on its way.
\* None waits for a packet that Windows, in the mode of its file, never posts.
CancellationReachesWindows ==
    \A o \in cancelled :
        pc[o] = "native" /\ o \notin cancelling => o \in aborting \cup packets \cup Dequeued

\* submit() finds its operation registered after the native call, as its
\* `expect's say: no worker removes it before the registry is unlocked.
SubmissionStaysRegistered ==
    \A o \in Ops : regLock = o => /\ pc[o] \in {"registered", "started"}
                                  /\ registry[box[o]] = o

\* An operation ends in exactly one way: refused with no record, or accepted and
\* turned into one record (dropped unsent only if there is no receiver).
OneOutcome ==
    \A o \in Ops :
        /\ delivered[o] <= 1
        /\ delivered[o] = 1 => returned[o] = "accepted"
        /\ pc[o] \in {"returning", "spent"} /\ returned[o] = "accepted"
              => delivered[o] = 1 \/ ~receiver

\* The capacity accounts are exact, whatever path an operation took: every
\* operation with a permit is counted once, and the limits hold.
Holding == {o \in Ops : pc[o] \notin {"new", "spent"}}
OperationsCounted == usedOps = Cardinality(Holding) /\ usedOps <= MaxOperations

\* The bytes are counted too: those that are used are the bytes of the private
\* buffers of the operations with a permit, and the limit on them holds.
BytesOf(o) == {o} \X (1..Size[o])
HeldBytes == UNION {BytesOf(o) : o \in Holding}
BytesCounted == usedBytes = Cardinality(HeldBytes) /\ usedBytes <= MaxBytes

\* The engine implements IoSpec: a file is closed, by close() or by a consuming
\* call, only when no operation, prepared or unconsumed, still leases it.
Owner(o) == CASE pc[o] = "new" -> "nobody"
              [] pc[o] \in {"reserved", "returning"} -> "permit"
              [] pc[o] \in {"prepared", "boxed"} -> "caller"
              [] pc[o] = "record" -> "receiver"
              [] pc[o] = "spent" -> "spent"
              [] OTHER -> "windows"
Abstract == INSTANCE IoSpec WITH owner <- [o \in Ops |-> Owner(o)],
                                 open <- {r \in Resources : handle[r] = "open"}
ImplementsIoSpec == Abstract!Spec

\* A cancelled operation that was submitted comes back: its record is queued or
\* its storage released, however the cancellation raced the submission.
CancelledComesBack ==
    \A o \in Ops :
        (o \in cancelled /\ pc[o] \in {"boxed", "registered", "started", "native"})
            ~> pc[o] \in {"record", "returning", "spent"}
=============================================================================
