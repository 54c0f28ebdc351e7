--------------------------- MODULE Win32IoProofs ---------------------------
(***************************************************************************)
(* Proofs about the I/O engine of Win32Io, for any operations, files,      *)
(* addresses, workers, callers and limits.  The inductive invariant is     *)
(* Inductive of Win32Io.                                                   *)
(***************************************************************************)
EXTENDS Win32Io, FiniteSetTheorems, TLAPS

-----------------------------------------------------------------------------
(* Counting *)

\* What one step of one operation adds to the number of operations in a set of steps.
Delta(from, to, steps) == IF from \in steps <=> to \in steps THEN 0
                          ELSE IF to \in steps THEN 1 ELSE -1

\* A set of operations is finite, and gains or loses one element at a time.
LEMMA OneMore ==
    ASSUME NEW S \in SUBSET Ops, NEW o \in Ops
    PROVE  /\ Cardinality(S) \in Nat
           /\ o \notin S => Cardinality(S \cup {o}) = Cardinality(S) + 1
           /\ o \in S => Cardinality(S \ {o}) = Cardinality(S) - 1 /\ Cardinality(S) > 0
<1>1. IsFiniteSet(S)
  BY ConstantsAssumption, FS_Subset
<1>2. Cardinality(S) \in Nat
  BY <1>1, FS_CardinalityType
<1>3. o \notin S => Cardinality(S \cup {o}) = Cardinality(S) + 1
  BY <1>1, FS_AddElement
<1>4. IsFiniteSet(S \ {o}) /\ (o \in S => Cardinality(S \ {o}) = Cardinality(S) - 1)
  BY <1>1, FS_RemoveElement
<1>5. Cardinality(S \ {o}) \in Nat
  BY <1>4, FS_CardinalityType
<1>6. QED
  BY <1>2, <1>3, <1>4, <1>5

\* The counts follow the operation that moves.
LEMMA CountMoves ==
    ASSUME pc \in [Ops -> PCs], NEW o \in Ops, pc' = [pc EXCEPT ![o] = pc'[o]],
           NEW steps
    PROVE  /\ Count(steps) \in Nat
           /\ pc[o] \in steps => Count(steps) > 0
           /\ Count(steps)' = Count(steps) + Delta(pc[o], pc'[o], steps)
<1> DEFINE S == {x \in Ops : pc[x] \in steps}
<1> DEFINE T == {x \in Ops : pc'[x] \in steps}
<1>1. S \in SUBSET Ops /\ T \in SUBSET Ops
  OBVIOUS
<1>2. (o \in S <=> pc[o] \in steps) /\ (o \in T <=> pc'[o] \in steps)
  OBVIOUS
<1>3. T = IF pc[o] \in steps <=> pc'[o] \in steps THEN S
          ELSE IF pc'[o] \in steps THEN S \cup {o} ELSE S \ {o}
  OBVIOUS
<1>4. Count(steps) = Cardinality(S) /\ Count(steps)' = Cardinality(T)
  BY DEF Count
<1> HIDE DEF S, T
<1>5. Cardinality(T) = Cardinality(S) + Delta(pc[o], pc'[o], steps)
  <2>1. Cardinality(S) \in Nat
    BY <1>1, OneMore
  <2>2. CASE pc[o] \in steps <=> pc'[o] \in steps
    BY <2>1, <2>2, <1>3 DEF Delta
  <2>3. CASE pc[o] \notin steps /\ pc'[o] \in steps
    <3>1. T = S \cup {o} /\ o \notin S /\ Delta(pc[o], pc'[o], steps) = 1
      BY <2>3, <1>2, <1>3 DEF Delta
    <3>2. QED
      BY <3>1, <1>1, OneMore
  <2>4. CASE pc[o] \in steps /\ pc'[o] \notin steps
    <3>1. T = S \ {o} /\ o \in S /\ Delta(pc[o], pc'[o], steps) = -1
      BY <2>4, <1>2, <1>3 DEF Delta
    <3>2. QED
      BY <3>1, <2>1, <1>1, OneMore
  <2>5. QED
    BY <2>2, <2>3, <2>4
<1>6. QED
  BY <1>1, <1>2, <1>4, <1>5, OneMore

\* So do the counts of a file, for the operations that use it.
LEMMA CountOnMoves ==
    ASSUME pc \in [Ops -> PCs], NEW o \in Ops, pc' = [pc EXCEPT ![o] = pc'[o]],
           NEW steps, NEW r \in Resources
    PROVE  /\ CountOn(r, steps) \in Nat
           /\ r # Target[o] => CountOn(r, steps)' = CountOn(r, steps)
           /\ r = Target[o] =>
                CountOn(r, steps)' = CountOn(r, steps) + Delta(pc[o], pc'[o], steps)
<1> DEFINE S == {x \in Ops : Target[x] = r /\ pc[x] \in steps}
<1> DEFINE T == {x \in Ops : Target[x] = r /\ pc'[x] \in steps}
<1>1. S \in SUBSET Ops /\ T \in SUBSET Ops
  OBVIOUS
<1>2. r = Target[o] => (o \in S <=> pc[o] \in steps) /\ (o \in T <=> pc'[o] \in steps)
  OBVIOUS
<1>3. T = IF r # Target[o] \/ (pc[o] \in steps <=> pc'[o] \in steps) THEN S
          ELSE IF pc'[o] \in steps THEN S \cup {o} ELSE S \ {o}
  OBVIOUS
<1>4. CountOn(r, steps) = Cardinality(S) /\ CountOn(r, steps)' = Cardinality(T)
  BY DEF CountOn
<1> HIDE DEF S, T
<1>5. r # Target[o] => Cardinality(T) = Cardinality(S)
  BY <1>3
<1>6. ASSUME r = Target[o]
      PROVE  Cardinality(T) = Cardinality(S) + Delta(pc[o], pc'[o], steps)
  <2>1. Cardinality(S) \in Nat
    BY <1>1, OneMore
  <2>2. CASE pc[o] \in steps <=> pc'[o] \in steps
    BY <2>1, <2>2, <1>3 DEF Delta
  <2>3. CASE pc[o] \notin steps /\ pc'[o] \in steps
    <3>1. T = S \cup {o} /\ o \notin S /\ Delta(pc[o], pc'[o], steps) = 1
      BY <2>3, <1>2, <1>3, <1>6 DEF Delta
    <3>2. QED
      BY <3>1, <1>1, OneMore
  <2>4. CASE pc[o] \in steps /\ pc'[o] \notin steps
    <3>1. T = S \ {o} /\ o \in S /\ Delta(pc[o], pc'[o], steps) = -1
      BY <2>4, <1>2, <1>3, <1>6 DEF Delta
    <3>2. QED
      BY <3>1, <2>1, <1>1, OneMore
  <2>5. QED
    BY <2>2, <2>3, <2>4
<1>7. QED
  BY <1>1, <1>4, <1>5, <1>6, OneMore

\* An operation that leases a file, or has it active, is counted there.
LEMMA CountOnPositive ==
    ASSUME NEW o \in Ops, NEW steps, NEW r \in Resources
    PROVE  /\ CountOn(r, steps) \in Nat
           /\ r = Target[o] /\ pc[o] \in steps => CountOn(r, steps) > 0
<1> DEFINE S == {x \in Ops : Target[x] = r /\ pc[x] \in steps}
<1>1. S \in SUBSET Ops /\ (r = Target[o] /\ pc[o] \in steps => o \in S)
  OBVIOUS
<1>2. CountOn(r, steps) = Cardinality(S)
  BY DEF CountOn
<1> HIDE DEF S
<1>3. QED
  BY <1>1, <1>2, OneMore

\* The permits and leases are counted exactly when a step of one operation changes
\* the accounts by what it changes for that operation.
LEMMA AccountsFollow ==
    ASSUME TypeOK, Counted, NEW o \in Ops, pc' = [pc EXCEPT ![o] = pc'[o]],
           usedOps' = usedOps + Delta(pc[o], pc'[o], HeldPCs), usedOps' <= MaxOperations,
           \A r \in Resources :
              /\ retained'[r] = IF r = Target[o]
                   THEN retained[r] + Delta(pc[o], pc'[o], LeasedPCs) ELSE retained[r]
              /\ active'[r] = IF r = Target[o]
                   THEN active[r] + Delta(pc[o], pc'[o], ActivePCs) ELSE active[r]
    PROVE  Counted'
<1>1. pc \in [Ops -> PCs] /\ retained \in [Resources -> Nat] /\ active \in [Resources -> Nat]
  BY DEF TypeOK
<1>2. usedOps' = Count(HeldPCs)'
  BY <1>1, CountMoves DEF Counted
<1>3. ASSUME NEW r \in Resources
      PROVE  retained'[r] = CountOn(r, LeasedPCs)' /\ active'[r] = CountOn(r, ActivePCs)'
  <2>1. retained[r] = CountOn(r, LeasedPCs) /\ active[r] = CountOn(r, ActivePCs)
    BY DEF Counted
  <2>2. CASE r = Target[o]
    BY <2>1, <2>2, <1>1, CountOnMoves
  <2>3. CASE r # Target[o]
    BY <2>1, <2>3, <1>1, CountOnMoves
  <2>4. QED
    BY <2>2, <2>3
<1>4. QED
  BY <1>2, <1>3 DEF Counted

\* Nothing is counted anew when no operation moves and no account changes.
LEMMA AccountsStay ==
    ASSUME Counted, UNCHANGED <<pc, usedOps, retained, active>>
    PROVE  Counted'
BY DEF Counted, Count, CountOn

-----------------------------------------------------------------------------
(* The parts of the inductive invariant *)

\* A worker finds the operation of its packet registered, and nothing else.
LEMMA RemoveFinds ==
    ASSUME TypeOK, Boxes, Registry, Windows, NEW w \in Workers, Remove(w)
    PROVE  \E o \in Ops :
              /\ o = taken[w] /\ pc[o] = "native" /\ ptr[o] = box[o] /\ box[o] \in Addrs
              /\ registry[ptr[o]] = o /\ regLock = NoOp
              /\ pc' = [pc EXCEPT ![o] = "delivering"]
              /\ registry' = [registry EXCEPT ![box[o]] = NoOp]
              /\ taken' = taken
              /\ at' = [at EXCEPT ![w] = "delivering"]
<1> DEFINE o == taken[w]
<1>1. o \in Ops /\ at[w] = "dequeued" /\ regLock = NoOp
  BY DEF Remove, Windows
<1>2. pc[o] \in {"started", "native"} /\ ptr[o] = box[o]
  BY <1>1 DEF Windows
<1>3. pc[o] = "native"
  BY <1>1, <1>2, ConstantsAssumption DEF Registry
<1>4. box[o] \in Addrs
  BY <1>1, <1>3 DEF Boxes, TypeOK, BoxedPCs, LeasedPCs, HeldPCs, PCs
<1>5. registry[box[o]] = o
  BY <1>1, <1>3, <1>4 DEF Registry, RegisteredPCs
<1> HIDE DEF o
<1>6. registry[ptr[taken[w]]] = o
  BY <1>2, <1>5 DEF o
<1>7. o # NoOp
  BY <1>1, ConstantsAssumption
<1>8. /\ pc' = [pc EXCEPT ![o] = "delivering"]
      /\ registry' = [registry EXCEPT ![box[o]] = NoOp]
      /\ taken' = [taken EXCEPT ![w] = o]
      /\ at' = [at EXCEPT ![w] = "delivering"]
  BY <1>2, <1>6, <1>7 DEF Remove, Goto, o
<1>9. taken' = taken
  BY <1>8 DEF TypeOK, o
<1>10. QED
  BY <1>1, <1>2, <1>3, <1>4, <1>5, <1>8, <1>9 DEF o

\* Every account is exact: one permit for each operation between prepare() and its
\* end, one lease while its buffer exists, one activity while Windows has it.
LEMMA CountedStep ==
    TypeOK /\ Counted /\ Boxes /\ Registry /\ Windows /\ [Next]_vars => Counted'
<1> SUFFICES ASSUME TypeOK, Counted, Boxes, Registry, Windows, [Next]_vars
             PROVE  Counted'
  OBVIOUS
<1> USE ConstantsAssumption
    DEF Goto, TypeOK, vars, opVars, regVars, cancelVars, capVars, resVars, callVars, osVars, workerVars
<1>1. ASSUME NEW o \in Ops, Acquire(o) PROVE Counted'
  <2>1. pc' = [pc EXCEPT ![o] = pc'[o]]
    BY <1>1 DEF Acquire
  <2>2. usedOps' = usedOps + Delta(pc[o], pc'[o], HeldPCs) /\ usedOps' <= MaxOperations
    BY <1>1 DEF Counted, Delta, PCs, HeldPCs, Acquire
  <2>3. \A r \in Resources :
           /\ retained'[r] = IF r = Target[o]
                THEN retained[r] + Delta(pc[o], pc'[o], LeasedPCs) ELSE retained[r]
           /\ active'[r] = IF r = Target[o]
                THEN active[r] + Delta(pc[o], pc'[o], ActivePCs) ELSE active[r]
    BY <1>1 DEF Delta, PCs, HeldPCs, LeasedPCs, BoxedPCs, ActivePCs, Acquire
  <2>4. QED
    BY <2>1, <2>2, <2>3, AccountsFollow
<1>2. ASSUME NEW o \in Ops, Lease(o) PROVE Counted'
  <2>1. pc' = [pc EXCEPT ![o] = pc'[o]]
    BY <1>2 DEF Lease, Unlocked
  <2>2. usedOps' = usedOps + Delta(pc[o], pc'[o], HeldPCs) /\ usedOps' <= MaxOperations
    BY <1>2 DEF Counted, Delta, PCs, HeldPCs, Lease, Unlocked
  <2>3. \A r \in Resources :
           /\ retained'[r] = IF r = Target[o]
                THEN retained[r] + Delta(pc[o], pc'[o], LeasedPCs) ELSE retained[r]
           /\ active'[r] = IF r = Target[o]
                THEN active[r] + Delta(pc[o], pc'[o], ActivePCs) ELSE active[r]
    BY <1>2 DEF Delta, PCs, HeldPCs, LeasedPCs, BoxedPCs, ActivePCs, Lease, Unlocked
  <2>4. QED
    BY <2>1, <2>2, <2>3, AccountsFollow
<1>3. ASSUME NEW o \in Ops, DropPrepared(o) PROVE Counted'
  <2>1. pc' = [pc EXCEPT ![o] = pc'[o]]
    BY <1>3 DEF DropPrepared, DropLease
  <2>2. usedOps' = usedOps + Delta(pc[o], pc'[o], HeldPCs) /\ usedOps' <= MaxOperations
    BY <1>3 DEF Counted, Delta, PCs, HeldPCs, DropPrepared, DropLease
  <2>3. \A r \in Resources :
           /\ retained'[r] = IF r = Target[o]
                THEN retained[r] + Delta(pc[o], pc'[o], LeasedPCs) ELSE retained[r]
           /\ active'[r] = IF r = Target[o]
                THEN active[r] + Delta(pc[o], pc'[o], ActivePCs) ELSE active[r]
    BY <1>3 DEF Delta, PCs, HeldPCs, LeasedPCs, BoxedPCs, ActivePCs, DropPrepared, DropLease
  <2>4. QED
    BY <2>1, <2>2, <2>3, AccountsFollow
<1>4. ASSUME NEW o \in Ops, BeginSubmit(o) PROVE Counted'
  <2>1. pc' = [pc EXCEPT ![o] = pc'[o]]
    BY <1>4 DEF BeginSubmit, DropLease, Refuse, Free
  <2>2. usedOps' = usedOps + Delta(pc[o], pc'[o], HeldPCs) /\ usedOps' <= MaxOperations
    BY <1>4 DEF Counted, Delta, PCs, HeldPCs, BeginSubmit, DropLease, Refuse, Free
  <2>3. \A r \in Resources :
           /\ retained'[r] = IF r = Target[o]
                THEN retained[r] + Delta(pc[o], pc'[o], LeasedPCs) ELSE retained[r]
           /\ active'[r] = IF r = Target[o]
                THEN active[r] + Delta(pc[o], pc'[o], ActivePCs) ELSE active[r]
    BY <1>4 DEF Delta, PCs, HeldPCs, LeasedPCs, BoxedPCs, ActivePCs, BeginSubmit, DropLease, Refuse, Free
  <2>4. QED
    BY <2>1, <2>2, <2>3, AccountsFollow
<1>5. ASSUME NEW o \in Ops, Register(o) PROVE Counted'
  <2>1. pc' = [pc EXCEPT ![o] = pc'[o]]
    BY <1>5 DEF Register
  <2>2. usedOps' = usedOps + Delta(pc[o], pc'[o], HeldPCs) /\ usedOps' <= MaxOperations
    BY <1>5 DEF Counted, Delta, PCs, HeldPCs, Register
  <2>3. \A r \in Resources :
           /\ retained'[r] = IF r = Target[o]
                THEN retained[r] + Delta(pc[o], pc'[o], LeasedPCs) ELSE retained[r]
           /\ active'[r] = IF r = Target[o]
                THEN active[r] + Delta(pc[o], pc'[o], ActivePCs) ELSE active[r]
    BY <1>5 DEF Delta, PCs, HeldPCs, LeasedPCs, BoxedPCs, ActivePCs, Register
  <2>4. QED
    BY <2>1, <2>2, <2>3, AccountsFollow
<1>6. ASSUME NEW o \in Ops, CannotRegister(o) PROVE Counted'
  <2>1. pc' = [pc EXCEPT ![o] = pc'[o]]
    BY <1>6 DEF CannotRegister, DropLease, Refuse, FreeBox
  <2>2. usedOps' = usedOps + Delta(pc[o], pc'[o], HeldPCs) /\ usedOps' <= MaxOperations
    BY <1>6 DEF Counted, Delta, PCs, HeldPCs, CannotRegister, DropLease, Refuse, FreeBox
  <2>3. \A r \in Resources :
           /\ retained'[r] = IF r = Target[o]
                THEN retained[r] + Delta(pc[o], pc'[o], LeasedPCs) ELSE retained[r]
           /\ active'[r] = IF r = Target[o]
                THEN active[r] + Delta(pc[o], pc'[o], ActivePCs) ELSE active[r]
    BY <1>6 DEF Delta, PCs, HeldPCs, LeasedPCs, BoxedPCs, ActivePCs, CannotRegister, DropLease, Refuse, FreeBox
  <2>4. QED
    BY <2>1, <2>2, <2>3, AccountsFollow
<1>7. ASSUME NEW o \in Ops, StartIo(o) PROVE Counted'
  <2>1. pc' = [pc EXCEPT ![o] = pc'[o]]
    BY <1>7 DEF StartIo
  <2>2. usedOps' = usedOps + Delta(pc[o], pc'[o], HeldPCs) /\ usedOps' <= MaxOperations
    BY <1>7 DEF Counted, Delta, PCs, HeldPCs, StartIo
  <2>3. \A r \in Resources :
           /\ retained'[r] = IF r = Target[o]
                THEN retained[r] + Delta(pc[o], pc'[o], LeasedPCs) ELSE retained[r]
           /\ active'[r] = IF r = Target[o]
                THEN active[r] + Delta(pc[o], pc'[o], ActivePCs) ELSE active[r]
    BY <1>7 DEF Delta, PCs, HeldPCs, LeasedPCs, BoxedPCs, ActivePCs, StartIo
  <2>4. QED
    BY <2>1, <2>2, <2>3, AccountsFollow
<1>8. ASSUME NEW o \in Ops, FailedSync(o) PROVE Counted'
  <2>1. pc' = [pc EXCEPT ![o] = pc'[o]]
    BY <1>8 DEF FailedSync, Accept, Unregister
  <2>2. usedOps' = usedOps + Delta(pc[o], pc'[o], HeldPCs) /\ usedOps' <= MaxOperations
    BY <1>8 DEF Counted, Delta, PCs, HeldPCs, FailedSync, Accept, Unregister
  <2>3. \A r \in Resources :
           /\ retained'[r] = IF r = Target[o]
                THEN retained[r] + Delta(pc[o], pc'[o], LeasedPCs) ELSE retained[r]
           /\ active'[r] = IF r = Target[o]
                THEN active[r] + Delta(pc[o], pc'[o], ActivePCs) ELSE active[r]
    BY <1>8 DEF Delta, PCs, HeldPCs, LeasedPCs, BoxedPCs, ActivePCs, FailedSync, Accept, Unregister
  <2>4. QED
    BY <2>1, <2>2, <2>3, AccountsFollow
<1>9. ASSUME NEW o \in Ops, RefusedByWindows(o) PROVE Counted'
  <2>1. pc' = [pc EXCEPT ![o] = pc'[o]]
    BY <1>9 DEF RefusedByWindows, DropLease, Refuse, FreeBox
  <2>2. usedOps' = usedOps + Delta(pc[o], pc'[o], HeldPCs) /\ usedOps' <= MaxOperations
    BY <1>9 DEF Counted, Delta, PCs, HeldPCs, RefusedByWindows, DropLease, Refuse, FreeBox
  <2>3. \A r \in Resources :
           /\ retained'[r] = IF r = Target[o]
                THEN retained[r] + Delta(pc[o], pc'[o], LeasedPCs) ELSE retained[r]
           /\ active'[r] = IF r = Target[o]
                THEN active[r] + Delta(pc[o], pc'[o], ActivePCs) ELSE active[r]
    BY <1>9 DEF Delta, PCs, HeldPCs, LeasedPCs, BoxedPCs, ActivePCs, RefusedByWindows, DropLease, Refuse, FreeBox
  <2>4. QED
    BY <2>1, <2>2, <2>3, AccountsFollow
<1>10. ASSUME NEW o \in Ops, CompleteInline(o) PROVE Counted'
  <2>1. pc' = [pc EXCEPT ![o] = pc'[o]]
    BY <1>10 DEF CompleteInline, Accept, Unregister
  <2>2. usedOps' = usedOps + Delta(pc[o], pc'[o], HeldPCs) /\ usedOps' <= MaxOperations
    BY <1>10 DEF Counted, Delta, PCs, HeldPCs, CompleteInline, Accept, Unregister
  <2>3. \A r \in Resources :
           /\ retained'[r] = IF r = Target[o]
                THEN retained[r] + Delta(pc[o], pc'[o], LeasedPCs) ELSE retained[r]
           /\ active'[r] = IF r = Target[o]
                THEN active[r] + Delta(pc[o], pc'[o], ActivePCs) ELSE active[r]
    BY <1>10 DEF Delta, PCs, HeldPCs, LeasedPCs, BoxedPCs, ActivePCs, CompleteInline, Accept, Unregister
  <2>4. QED
    BY <2>1, <2>2, <2>3, AccountsFollow
<1>11. ASSUME NEW o \in Ops, SubmitReturns(o) PROVE Counted'
  <2>1. pc' = [pc EXCEPT ![o] = pc'[o]]
    BY <1>11 DEF SubmitReturns, Accept, CancelIoEx
  <2>2. usedOps' = usedOps + Delta(pc[o], pc'[o], HeldPCs) /\ usedOps' <= MaxOperations
    BY <1>11 DEF Counted, Delta, PCs, HeldPCs, SubmitReturns, Accept, CancelIoEx
  <2>3. \A r \in Resources :
           /\ retained'[r] = IF r = Target[o]
                THEN retained[r] + Delta(pc[o], pc'[o], LeasedPCs) ELSE retained[r]
           /\ active'[r] = IF r = Target[o]
                THEN active[r] + Delta(pc[o], pc'[o], ActivePCs) ELSE active[r]
    BY <1>11 DEF Delta, PCs, HeldPCs, LeasedPCs, BoxedPCs, ActivePCs, SubmitReturns, Accept, CancelIoEx
  <2>4. QED
    BY <2>1, <2>2, <2>3, AccountsFollow
<1>12. ASSUME NEW o \in Ops, RequestCancel(o) PROVE Counted'
  BY <1>12, AccountsStay DEF RequestCancel
<1>13. ASSUME NEW o \in Ops, CancelNative(o) PROVE Counted'
  BY <1>13, AccountsStay DEF CancelNative, CancelIoEx
<1>14. ASSUME NEW o \in Ops, WindowsCompletes(o) PROVE Counted'
  BY <1>14, AccountsStay DEF WindowsCompletes
<1>15. ASSUME NEW o \in Ops, Deactivate(o) PROVE Counted'
  <2>1. pc' = [pc EXCEPT ![o] = pc'[o]]
    BY <1>15 DEF Deactivate
  <2>2. usedOps' = usedOps + Delta(pc[o], pc'[o], HeldPCs) /\ usedOps' <= MaxOperations
    BY <1>15 DEF Counted, Delta, PCs, HeldPCs, Deactivate
  <2>3. \A r \in Resources :
           /\ retained'[r] = IF r = Target[o]
                THEN retained[r] + Delta(pc[o], pc'[o], LeasedPCs) ELSE retained[r]
           /\ active'[r] = IF r = Target[o]
                THEN active[r] + Delta(pc[o], pc'[o], ActivePCs) ELSE active[r]
    BY <1>15 DEF Delta, PCs, HeldPCs, LeasedPCs, BoxedPCs, ActivePCs, Deactivate
  <2>4. QED
    BY <2>1, <2>2, <2>3, AccountsFollow
<1>16. ASSUME NEW o \in Ops, Send(o) PROVE Counted'
  <2>1. pc' = [pc EXCEPT ![o] = pc'[o]]
    BY <1>16 DEF Send, DropLease, FreeBox
  <2>2. usedOps' = usedOps + Delta(pc[o], pc'[o], HeldPCs) /\ usedOps' <= MaxOperations
    BY <1>16 DEF Counted, Delta, PCs, HeldPCs, Send, DropLease, FreeBox
  <2>3. \A r \in Resources :
           /\ retained'[r] = IF r = Target[o]
                THEN retained[r] + Delta(pc[o], pc'[o], LeasedPCs) ELSE retained[r]
           /\ active'[r] = IF r = Target[o]
                THEN active[r] + Delta(pc[o], pc'[o], ActivePCs) ELSE active[r]
    BY <1>16 DEF Delta, PCs, HeldPCs, LeasedPCs, BoxedPCs, ActivePCs, Send, DropLease, FreeBox
  <2>4. QED
    BY <2>1, <2>2, <2>3, AccountsFollow
<1>17. ASSUME NEW o \in Ops, Consume(o) PROVE Counted'
  <2>1. pc' = [pc EXCEPT ![o] = pc'[o]]
    BY <1>17 DEF Consume, DropLease
  <2>2. usedOps' = usedOps + Delta(pc[o], pc'[o], HeldPCs) /\ usedOps' <= MaxOperations
    BY <1>17 DEF Counted, Delta, PCs, HeldPCs, Consume, DropLease
  <2>3. \A r \in Resources :
           /\ retained'[r] = IF r = Target[o]
                THEN retained[r] + Delta(pc[o], pc'[o], LeasedPCs) ELSE retained[r]
           /\ active'[r] = IF r = Target[o]
                THEN active[r] + Delta(pc[o], pc'[o], ActivePCs) ELSE active[r]
    BY <1>17 DEF Delta, PCs, HeldPCs, LeasedPCs, BoxedPCs, ActivePCs, Consume, DropLease
  <2>4. QED
    BY <2>1, <2>2, <2>3, AccountsFollow
<1>18. ASSUME NEW o \in Ops, DropPermit(o) PROVE Counted'
  <2>1. pc' = [pc EXCEPT ![o] = pc'[o]]
    BY <1>18 DEF DropPermit
  <2>2. usedOps' = usedOps + Delta(pc[o], pc'[o], HeldPCs) /\ usedOps' <= MaxOperations
    BY <1>18 DEF Counted, Delta, PCs, HeldPCs, DropPermit
  <2>3. \A r \in Resources :
           /\ retained'[r] = IF r = Target[o]
                THEN retained[r] + Delta(pc[o], pc'[o], LeasedPCs) ELSE retained[r]
           /\ active'[r] = IF r = Target[o]
                THEN active[r] + Delta(pc[o], pc'[o], ActivePCs) ELSE active[r]
    BY <1>18 DEF Delta, PCs, HeldPCs, LeasedPCs, BoxedPCs, ActivePCs, DropPermit
  <2>4. QED
    BY <2>1, <2>2, <2>3, AccountsFollow
<1>19. ASSUME NEW w \in Workers, Dequeue(w) PROVE Counted'
  BY <1>19, AccountsStay DEF Dequeue
<1>20. ASSUME NEW w \in Workers, Remove(w) PROVE Counted'
  <2>1. PICK o \in Ops : pc[o] = "native" /\ pc' = [pc EXCEPT ![o] = "delivering"]
    BY <1>20, RemoveFinds
  <2>2. UNCHANGED <<usedOps, retained, active>>
    BY <1>20 DEF Remove
  <2>3. pc' = [pc EXCEPT ![o] = pc'[o]] /\ pc'[o] = "delivering"
    BY <2>1
  <2>4. /\ Delta(pc[o], pc'[o], HeldPCs) = 0 /\ Delta(pc[o], pc'[o], LeasedPCs) = 0
        /\ Delta(pc[o], pc'[o], ActivePCs) = 0
    BY <2>1, <2>3 DEF Delta, PCs, HeldPCs, LeasedPCs, BoxedPCs, ActivePCs, RegisteredPCs
  <2>5. QED
    BY <2>2, <2>3, <2>4, AccountsFollow DEF Counted
<1>21. ASSUME NEW c \in Callers, NEW r \in Resources, NEW access \in Access,
            BeginCall(c, r, access) PROVE Counted'
  BY <1>21, AccountsStay DEF BeginCall, Allows, Unlocked
<1>22. ASSUME NEW c \in Callers, EndCall(c) PROVE Counted'
  BY <1>22, AccountsStay DEF EndCall
<1>23. ASSUME NEW r \in Resources, Close(r) PROVE Counted'
  BY <1>23, AccountsStay DEF Close, Unlocked
<1>24. CASE DropReceiver
  BY <1>24, AccountsStay DEF DropReceiver
<1>25. CASE UNCHANGED vars
  BY <1>25, AccountsStay
<1>26. QED
  BY <1>1, <1>2, <1>3, <1>4, <1>5, <1>6, <1>7, <1>8, <1>9, <1>10, <1>11, <1>12, <1>13,
     <1>14, <1>15, <1>16, <1>17, <1>18, <1>19, <1>20, <1>21, <1>22, <1>23, <1>24, <1>25
  DEF Next, Submitting, Delivering

\* An operation that is going to give something back is still counted.
LEMMA PermitAndLease ==
    ASSUME TypeOK, Counted, NEW o \in Ops
    PROVE  /\ pc[o] \in LeasedPCs => retained[Target[o]] > 0
           /\ pc[o] \in ActivePCs => active[Target[o]] > 0
           /\ pc[o] \in HeldPCs => usedOps > 0
<1>1. Target[o] \in Resources
  BY ConstantsAssumption
<1>2. pc[o] \in HeldPCs => Count(HeldPCs) > 0
  <2> DEFINE S == {x \in Ops : pc[x] \in HeldPCs}
  <2>1. S \in SUBSET Ops /\ (pc[o] \in HeldPCs => o \in S) /\ Count(HeldPCs) = Cardinality(S)
    BY DEF Count
  <2> HIDE DEF S
  <2>2. QED
    BY <2>1, OneMore
<1>3. QED
  BY <1>1, <1>2, CountOnPositive DEF Counted

\* A file that is not retained has no operation with a lease.
LEMMA NotRetained ==
    ASSUME TypeOK, Counted, NEW r \in Resources, retained[r] = 0, NEW o \in Ops, Target[o] = r
    PROVE  pc[o] \notin LeasedPCs
BY PermitAndLease DEF TypeOK

\* Every variable keeps its type; no account becomes negative.
LEMMA TypeStep == TypeOK /\ Counted /\ Boxes /\ Registry /\ Windows /\ [Next]_vars => TypeOK'
<1> SUFFICES ASSUME TypeOK, Counted, Boxes, Registry, Windows, [Next]_vars PROVE TypeOK'
  OBVIOUS
<1> USE ConstantsAssumption
    DEF Goto, TypeOK, Access, NotCalling, PCs, HeldPCs, LeasedPCs, BoxedPCs, ActivePCs,
        RegisteredPCs,
        vars, opVars, regVars, cancelVars, capVars, resVars, callVars, osVars, workerVars
<1>1. ASSUME NEW o \in Ops, Acquire(o) PROVE TypeOK'  BY <1>1 DEF Acquire
<1>2. ASSUME NEW o \in Ops, Lease(o) PROVE TypeOK'  BY <1>2 DEF Lease, Unlocked
<1>3. ASSUME NEW o \in Ops, DropPrepared(o) PROVE TypeOK'
  <2>1. pc[o] \in LeasedPCs /\ retained[Target[o]] > 0
    BY <1>3, PermitAndLease DEF DropPrepared
  <2>2. retained' \in [Resources -> Nat]
    BY <2>1, <1>3 DEF DropPrepared, DropLease
  <2>3. QED
    BY <2>2, <1>3 DEF DropPrepared, DropLease
<1>4. ASSUME NEW o \in Ops, BeginSubmit(o) PROVE TypeOK'
  <2>1. CASE o \in cancelled
    <3>1. pc[o] \in LeasedPCs /\ retained[Target[o]] > 0
      BY <1>4, PermitAndLease DEF BeginSubmit
    <3>2. retained' \in [Resources -> Nat]
      BY <2>1, <3>1, <1>4 DEF BeginSubmit, DropLease
    <3>3. /\ pc' = [pc EXCEPT ![o] = "returning"]
          /\ returned' = [returned EXCEPT ![o] = "refused"]
          /\ UNCHANGED box
      BY <2>1, <1>4 DEF BeginSubmit, Refuse
    <3>4. UNCHANGED <<skipSeen, error, delivered, regVars, cancelVars, capVars, handle,
                      active, callVars, osVars, workerVars, receiver>>
      BY <1>4 DEF BeginSubmit
    <3>5. QED
      BY <3>2, <3>3, <3>4
  <2>2. CASE o \notin cancelled
    BY <2>2, <1>4 DEF BeginSubmit
  <2>3. QED
    BY <2>1, <2>2
<1>5. ASSUME NEW o \in Ops, Register(o) PROVE TypeOK'
  <2>1. active' \in [Resources -> Nat] /\ skipSeen' \in [Ops -> BOOLEAN]
    BY <1>5 DEF Register
  <2>2. /\ pc' \in [Ops -> PCs] /\ control' \in [Ops -> Addrs \cup {NoAddr}]
        /\ registry' \in [Addrs -> Ops \cup {NoOp}]
    BY <1>5 DEF Register
  <2>3. QED
    BY <2>1, <2>2, <1>5 DEF Register
<1>6. ASSUME NEW o \in Ops, CannotRegister(o) PROVE TypeOK'
  <2>1. pc[o] \in LeasedPCs /\ retained[Target[o]] > 0
    BY <1>6, PermitAndLease DEF CannotRegister
  <2>2. retained' \in [Resources -> Nat]
    BY <2>1, <1>6 DEF CannotRegister, DropLease, Refuse, FreeBox
  <2>3. QED
    BY <2>2, <1>6 DEF CannotRegister, DropLease, Refuse, FreeBox
<1>7. ASSUME NEW o \in Ops, StartIo(o) PROVE TypeOK'  BY <1>7 DEF StartIo
<1>8. ASSUME NEW o \in Ops, FailedSync(o) PROVE TypeOK'
  BY <1>8 DEF FailedSync, Accept, Unregister
<1>9. ASSUME NEW o \in Ops, RefusedByWindows(o) PROVE TypeOK'
  <2>1. pc[o] \in ActivePCs /\ pc[o] \in LeasedPCs
    BY <1>9 DEF RefusedByWindows
  <2>2. active[Target[o]] > 0 /\ retained[Target[o]] > 0
    BY <2>1, PermitAndLease
  <2>3. active' \in [Resources -> Nat] /\ retained' \in [Resources -> Nat]
    BY <2>2, <1>9 DEF RefusedByWindows, DropLease, Refuse, FreeBox
  <2>4. QED
    BY <2>3, <1>9 DEF RefusedByWindows, DropLease, Refuse, FreeBox
<1>10. ASSUME NEW o \in Ops, CompleteInline(o) PROVE TypeOK'
  BY <1>10 DEF CompleteInline, Accept, Unregister
<1>11. ASSUME NEW o \in Ops, SubmitReturns(o) PROVE TypeOK'
  BY <1>11 DEF SubmitReturns, Accept, CancelIoEx
<1>12. ASSUME NEW o \in Ops, RequestCancel(o) PROVE TypeOK'  BY <1>12 DEF RequestCancel
<1>13. ASSUME NEW o \in Ops, CancelNative(o) PROVE TypeOK'
  BY <1>13 DEF CancelNative, CancelIoEx
<1>14. ASSUME NEW o \in Ops, WindowsCompletes(o) PROVE TypeOK'  BY <1>14 DEF WindowsCompletes
<1>15. ASSUME NEW o \in Ops, Deactivate(o) PROVE TypeOK'
  <2>1. pc[o] \in ActivePCs /\ pc[o] \in LeasedPCs
    BY <1>15 DEF Deactivate
  <2>2. active[Target[o]] > 0 /\ retained[Target[o]] > 0
    BY <2>1, PermitAndLease
  <2>3. active' \in [Resources -> Nat] /\ retained' \in [Resources -> Nat]
    BY <2>2, <1>15 DEF Deactivate
  <2>4. QED
    BY <2>3, <1>15 DEF Deactivate
<1>16. ASSUME NEW o \in Ops, Send(o) PROVE TypeOK'
  <2>1. pc[o] \in LeasedPCs /\ retained[Target[o]] > 0
    BY <1>16, PermitAndLease DEF Send
  <2>2. retained' \in [Resources -> Nat]
    BY <2>1, <1>16 DEF Send, DropLease
  <2>3. /\ \E step \in {"record", "returning"} : pc' = [pc EXCEPT ![o] = step]
        /\ box' = [box EXCEPT ![o] = NoAddr]
        /\ delivered' \in {delivered, [delivered EXCEPT ![o] = @ + 1]}
    BY <1>16 DEF Send, FreeBox
  <2>4. /\ at' \in [Workers -> {"waiting", "dequeued", "delivering"}]
        /\ taken' \in [Workers -> Ops \cup {NoOp}]
    BY <1>16 DEF Send
  <2>5. QED
    BY <2>2, <2>3, <2>4, <1>16 DEF Send
<1>17. ASSUME NEW o \in Ops, Consume(o) PROVE TypeOK'
  <2>1. pc[o] \in LeasedPCs /\ retained[Target[o]] > 0
    BY <1>17, PermitAndLease DEF Consume
  <2>2. retained' \in [Resources -> Nat]
    BY <2>1, <1>17 DEF Consume, DropLease
  <2>3. QED
    BY <2>2, <1>17 DEF Consume, DropLease
<1>18. ASSUME NEW o \in Ops, DropPermit(o) PROVE TypeOK'
  BY <1>18, PermitAndLease DEF DropPermit
<1>19. ASSUME NEW w \in Workers, Dequeue(w) PROVE TypeOK'  BY <1>19 DEF Dequeue
<1>20. ASSUME NEW w \in Workers, Remove(w) PROVE TypeOK'
  <2>1. taken[w] \in Ops \cup {NoOp} /\ at[w] = "dequeued"
    BY <1>20 DEF Remove
  <2>2. pc' \in [Ops -> PCs] /\ registry' \in [Addrs -> Ops \cup {NoOp}]
    BY <1>20, RemoveFinds, SMTT(30)
  <2>3. at' \in [Workers -> {"waiting", "dequeued", "delivering"}] /\ taken' = taken
    BY <1>20, RemoveFinds
  <2>4. QED
    BY <2>2, <2>3, <1>20 DEF Remove
<1>21. ASSUME NEW c \in Callers, NEW r \in Resources, NEW access \in Access,
            BeginCall(c, r, access) PROVE TypeOK'
  BY <1>21 DEF BeginCall, Allows, Unlocked
<1>22. ASSUME NEW c \in Callers, EndCall(c) PROVE TypeOK'  BY <1>22 DEF EndCall
<1>23. ASSUME NEW r \in Resources, Close(r) PROVE TypeOK'  BY <1>23 DEF Close, Unlocked
<1>24. CASE DropReceiver  BY <1>24 DEF DropReceiver
<1>25. CASE UNCHANGED vars  BY <1>25
<1> HIDE DEF TypeOK
<1>26. QED
  BY <1>1, <1>2, <1>3, <1>4, <1>5, <1>6, <1>7, <1>8, <1>9, <1>10, <1>11, <1>12, <1>13,
     <1>14, <1>15, <1>16, <1>17, <1>18, <1>19, <1>20, <1>21, <1>22, <1>23, <1>24, <1>25
  DEF Next, Submitting, Delivering

\* A box has one owner, and cancellation knows its address exactly while it is active.
LEMMA BoxesStep == TypeOK /\ Boxes /\ Registry /\ Windows /\ [Next]_vars => Boxes'
<1> SUFFICES ASSUME TypeOK, Boxes, Registry, Windows, [Next]_vars PROVE Boxes'
  OBVIOUS
<1> USE ConstantsAssumption
    DEF Goto, TypeOK, Access, NotCalling, PCs, HeldPCs, LeasedPCs, BoxedPCs, ActivePCs,
        RegisteredPCs, Boxes, Registry, Windows,
        vars, opVars, regVars, cancelVars, capVars, resVars, callVars, osVars, workerVars
<1>1. ASSUME NEW o \in Ops, Acquire(o) PROVE Boxes'  BY <1>1 DEF Acquire
<1>2. ASSUME NEW o \in Ops, Lease(o) PROVE Boxes'  BY <1>2, SMTT(30) DEF Lease, Unlocked
<1>3. ASSUME NEW o \in Ops, DropPrepared(o) PROVE Boxes'  BY <1>3 DEF DropPrepared, DropLease
<1>4. ASSUME NEW o \in Ops, BeginSubmit(o) PROVE Boxes'
  <2>1. CASE o \in cancelled
    <3>1. /\ pc[o] = "prepared" /\ pc' = [pc EXCEPT ![o] = "returning"]
          /\ UNCHANGED <<box, control, registry, regLock>>
      BY <2>1, <1>4 DEF BeginSubmit
    <3>2. QED
      BY <3>1
  <2>2. CASE o \notin cancelled
    <3>1. PICK a \in Addrs : Free(a) /\ box' = [box EXCEPT ![o] = a]
      BY <2>2, <1>4 DEF BeginSubmit
    <3>2. QED
      BY <2>2, <3>1, <1>4 DEF BeginSubmit, Free
  <2>3. QED
    BY <2>1, <2>2
<1>5. ASSUME NEW o \in Ops, Register(o) PROVE Boxes'  BY <1>5 DEF Register
<1>6. ASSUME NEW o \in Ops, CannotRegister(o) PROVE Boxes'
  BY <1>6 DEF CannotRegister, DropLease, Refuse, FreeBox
<1>7. ASSUME NEW o \in Ops, StartIo(o) PROVE Boxes'  BY <1>7 DEF StartIo
<1>8. ASSUME NEW o \in Ops, FailedSync(o) PROVE Boxes'
  <2>1. \E step \in {"delivering", "failing"} : pc' = [pc EXCEPT ![o] = step]
    BY <1>8 DEF FailedSync
  <2>2. /\ pc[o] = "started" /\ UNCHANGED <<box, control>> /\ regLock' = NoOp
        /\ registry' = [registry EXCEPT ![box[o]] = NoOp]
    BY <1>8 DEF FailedSync, Unregister
  <2>3. QED
    BY <2>1, <2>2
<1>9. ASSUME NEW o \in Ops, RefusedByWindows(o) PROVE Boxes'
  BY <1>9 DEF RefusedByWindows, DropLease, Refuse, FreeBox
<1>10. ASSUME NEW o \in Ops, CompleteInline(o) PROVE Boxes'
  BY <1>10 DEF CompleteInline, Accept, Unregister
<1>11. ASSUME NEW o \in Ops, SubmitReturns(o) PROVE Boxes'
  BY <1>11 DEF SubmitReturns, Accept, CancelIoEx
<1>12. ASSUME NEW o \in Ops, RequestCancel(o) PROVE Boxes'  BY <1>12 DEF RequestCancel
<1>13. ASSUME NEW o \in Ops, CancelNative(o) PROVE Boxes'
  BY <1>13 DEF CancelNative, CancelIoEx
<1>14. ASSUME NEW o \in Ops, WindowsCompletes(o) PROVE Boxes'  BY <1>14 DEF WindowsCompletes
<1>15. ASSUME NEW o \in Ops, Deactivate(o) PROVE Boxes'  BY <1>15 DEF Deactivate
<1>16. ASSUME NEW o \in Ops, Send(o) PROVE Boxes'  BY <1>16 DEF Send, DropLease, FreeBox
<1>17. ASSUME NEW o \in Ops, Consume(o) PROVE Boxes'  BY <1>17 DEF Consume, DropLease
<1>18. ASSUME NEW o \in Ops, DropPermit(o) PROVE Boxes'  BY <1>18 DEF DropPermit
<1>19. ASSUME NEW w \in Workers, Dequeue(w) PROVE Boxes'  BY <1>19, SMTT(30) DEF Dequeue
<1>20. ASSUME NEW w \in Workers, Remove(w) PROVE Boxes'
  <2>1. PICK o \in Ops :
             /\ o = taken[w] /\ pc[o] = "native" /\ box[o] \in Addrs /\ regLock = NoOp
             /\ pc' = [pc EXCEPT ![o] = "delivering"]
             /\ registry' = [registry EXCEPT ![box[o]] = NoOp]
             /\ taken' = taken /\ at' = [at EXCEPT ![w] = "delivering"]
    BY <1>20, RemoveFinds
  <2>2. QED
    BY <2>1, <1>20 DEF Remove
<1>21. ASSUME NEW c \in Callers, NEW r \in Resources, NEW access \in Access,
            BeginCall(c, r, access) PROVE Boxes'
  BY <1>21 DEF BeginCall, Allows, Unlocked
<1>22. ASSUME NEW c \in Callers, EndCall(c) PROVE Boxes'  BY <1>22 DEF EndCall
<1>23. ASSUME NEW r \in Resources, Close(r) PROVE Boxes'  BY <1>23 DEF Close, Unlocked
<1>24. CASE DropReceiver  BY <1>24 DEF DropReceiver
<1>25. CASE UNCHANGED vars  BY <1>25
<1>26. QED
  BY <1>1, <1>2, <1>3, <1>4, <1>5, <1>6, <1>7, <1>8, <1>9, <1>10, <1>11, <1>12, <1>13,
     <1>14, <1>15, <1>16, <1>17, <1>18, <1>19, <1>20, <1>21, <1>22, <1>23, <1>24, <1>25
  DEF Next, Submitting, Delivering

\* The registry holds exactly the operations Windows may complete.
LEMMA RegistryStep == TypeOK /\ Boxes /\ Registry /\ Windows /\ [Next]_vars => Registry'
<1> SUFFICES ASSUME TypeOK, Boxes, Registry, Windows, [Next]_vars PROVE Registry'
  OBVIOUS
<1> USE ConstantsAssumption
    DEF Goto, TypeOK, Access, NotCalling, PCs, HeldPCs, LeasedPCs, BoxedPCs, ActivePCs,
        RegisteredPCs, Boxes, Registry, Windows,
        vars, opVars, regVars, cancelVars, capVars, resVars, callVars, osVars, workerVars
<1>1. ASSUME NEW o \in Ops, Acquire(o) PROVE Registry'  BY <1>1 DEF Acquire
<1>2. ASSUME NEW o \in Ops, Lease(o) PROVE Registry'  BY <1>2, SMTT(30) DEF Lease, Unlocked
<1>3. ASSUME NEW o \in Ops, DropPrepared(o) PROVE Registry'
  BY <1>3 DEF DropPrepared, DropLease
<1>4. ASSUME NEW o \in Ops, BeginSubmit(o) PROVE Registry'
  <2>1. CASE o \in cancelled
    <3>1. /\ pc[o] = "prepared" /\ pc' = [pc EXCEPT ![o] = "returning"]
          /\ UNCHANGED <<box, control, registry, regLock>>
      BY <2>1, <1>4 DEF BeginSubmit
    <3>2. QED
      BY <3>1
  <2>2. CASE o \notin cancelled
    <3>1. PICK a \in Addrs : Free(a) /\ box' = [box EXCEPT ![o] = a]
      BY <2>2, <1>4 DEF BeginSubmit
    <3>2. QED
      BY <2>2, <3>1, <1>4 DEF BeginSubmit, Free
  <2>3. QED
    BY <2>1, <2>2
<1>5. ASSUME NEW o \in Ops, Register(o) PROVE Registry'  BY <1>5 DEF Register
<1>6. ASSUME NEW o \in Ops, CannotRegister(o) PROVE Registry'
  BY <1>6 DEF CannotRegister, DropLease, Refuse, FreeBox
<1>7. ASSUME NEW o \in Ops, StartIo(o) PROVE Registry'  BY <1>7 DEF StartIo
<1>8. ASSUME NEW o \in Ops, FailedSync(o) PROVE Registry'
  <2>1. \E step \in {"delivering", "failing"} : pc' = [pc EXCEPT ![o] = step]
    BY <1>8 DEF FailedSync
  <2>2. /\ pc[o] = "started" /\ UNCHANGED <<box, control>> /\ regLock' = NoOp
        /\ registry' = [registry EXCEPT ![box[o]] = NoOp]
    BY <1>8 DEF FailedSync, Unregister
  <2>3. QED
    BY <2>1, <2>2
<1>9. ASSUME NEW o \in Ops, RefusedByWindows(o) PROVE Registry'
  BY <1>9 DEF RefusedByWindows, DropLease, Refuse, FreeBox
<1>10. ASSUME NEW o \in Ops, CompleteInline(o) PROVE Registry'
  BY <1>10 DEF CompleteInline, Accept, Unregister
<1>11. ASSUME NEW o \in Ops, SubmitReturns(o) PROVE Registry'
  BY <1>11 DEF SubmitReturns, Accept, CancelIoEx
<1>12. ASSUME NEW o \in Ops, RequestCancel(o) PROVE Registry'  BY <1>12 DEF RequestCancel
<1>13. ASSUME NEW o \in Ops, CancelNative(o) PROVE Registry'
  BY <1>13 DEF CancelNative, CancelIoEx
<1>14. ASSUME NEW o \in Ops, WindowsCompletes(o) PROVE Registry'  BY <1>14 DEF WindowsCompletes
<1>15. ASSUME NEW o \in Ops, Deactivate(o) PROVE Registry'  BY <1>15 DEF Deactivate
<1>16. ASSUME NEW o \in Ops, Send(o) PROVE Registry'  BY <1>16 DEF Send, DropLease, FreeBox
<1>17. ASSUME NEW o \in Ops, Consume(o) PROVE Registry'  BY <1>17 DEF Consume, DropLease
<1>18. ASSUME NEW o \in Ops, DropPermit(o) PROVE Registry'  BY <1>18 DEF DropPermit
<1>19. ASSUME NEW w \in Workers, Dequeue(w) PROVE Registry'  BY <1>19 DEF Dequeue
<1>20. ASSUME NEW w \in Workers, Remove(w) PROVE Registry'
  <2>1. PICK o \in Ops :
             /\ o = taken[w] /\ pc[o] = "native" /\ box[o] \in Addrs /\ regLock = NoOp
             /\ pc' = [pc EXCEPT ![o] = "delivering"]
             /\ registry' = [registry EXCEPT ![box[o]] = NoOp]
             /\ taken' = taken /\ at' = [at EXCEPT ![w] = "delivering"]
    BY <1>20, RemoveFinds
  <2>2. QED
    BY <2>1, <1>20 DEF Remove
<1>21. ASSUME NEW c \in Callers, NEW r \in Resources, NEW access \in Access,
            BeginCall(c, r, access) PROVE Registry'
  BY <1>21 DEF BeginCall, Allows, Unlocked
<1>22. ASSUME NEW c \in Callers, EndCall(c) PROVE Registry'  BY <1>22 DEF EndCall
<1>23. ASSUME NEW r \in Resources, Close(r) PROVE Registry'  BY <1>23 DEF Close, Unlocked
<1>24. CASE DropReceiver  BY <1>24 DEF DropReceiver
<1>25. CASE UNCHANGED vars  BY <1>25, SMTT(30)
<1>26. QED
  BY <1>1, <1>2, <1>3, <1>4, <1>5, <1>6, <1>7, <1>8, <1>9, <1>10, <1>11, <1>12, <1>13,
     <1>14, <1>15, <1>16, <1>17, <1>18, <1>19, <1>20, <1>21, <1>22, <1>23, <1>24, <1>25
  DEF Next, Submitting, Delivering

\* A leased file stays open, and keeps its mode during a submission.
LEMMA CallsStep == TypeOK /\ Counted /\ Boxes /\ Registry /\ Calls /\ Windows /\ [Next]_vars => Calls'
<1> SUFFICES ASSUME TypeOK, Counted, Boxes, Registry, Calls, Windows, [Next]_vars PROVE Calls'
  OBVIOUS
<1> USE ConstantsAssumption
    DEF Goto, TypeOK, Access, NotCalling, PCs, HeldPCs, LeasedPCs, BoxedPCs, ActivePCs,
        RegisteredPCs, Calls,
        vars, opVars, regVars, cancelVars, capVars, resVars, callVars, osVars, workerVars
<1>1. ASSUME NEW o \in Ops, Acquire(o) PROVE Calls'  BY <1>1 DEF Acquire
<1>2. ASSUME NEW o \in Ops, Lease(o) PROVE Calls'  BY <1>2 DEF Lease, Unlocked
<1>3. ASSUME NEW o \in Ops, DropPrepared(o) PROVE Calls'  BY <1>3 DEF DropPrepared, DropLease
<1>4. ASSUME NEW o \in Ops, BeginSubmit(o) PROVE Calls'
  BY <1>4 DEF BeginSubmit, DropLease, Refuse, Free
<1>5. ASSUME NEW o \in Ops, Register(o) PROVE Calls'  BY <1>5 DEF Register
<1>6. ASSUME NEW o \in Ops, CannotRegister(o) PROVE Calls'
  BY <1>6 DEF CannotRegister, DropLease, Refuse, FreeBox
<1>7. ASSUME NEW o \in Ops, StartIo(o) PROVE Calls'  BY <1>7 DEF StartIo
<1>8. ASSUME NEW o \in Ops, FailedSync(o) PROVE Calls'
  BY <1>8, SMTT(30) DEF FailedSync, Accept, Unregister
<1>9. ASSUME NEW o \in Ops, RefusedByWindows(o) PROVE Calls'
  BY <1>9 DEF RefusedByWindows, DropLease, Refuse, FreeBox
<1>10. ASSUME NEW o \in Ops, CompleteInline(o) PROVE Calls'
  BY <1>10 DEF CompleteInline, Accept, Unregister
<1>11. ASSUME NEW o \in Ops, SubmitReturns(o) PROVE Calls'
  BY <1>11 DEF SubmitReturns, Accept, CancelIoEx
<1>12. ASSUME NEW o \in Ops, RequestCancel(o) PROVE Calls'  BY <1>12 DEF RequestCancel
<1>13. ASSUME NEW o \in Ops, CancelNative(o) PROVE Calls'
  BY <1>13 DEF CancelNative, CancelIoEx
<1>14. ASSUME NEW o \in Ops, WindowsCompletes(o) PROVE Calls'  BY <1>14 DEF WindowsCompletes
<1>15. ASSUME NEW o \in Ops, Deactivate(o) PROVE Calls'  BY <1>15 DEF Deactivate
<1>16. ASSUME NEW o \in Ops, Send(o) PROVE Calls'  BY <1>16 DEF Send, DropLease, FreeBox
<1>17. ASSUME NEW o \in Ops, Consume(o) PROVE Calls'  BY <1>17 DEF Consume, DropLease
<1>18. ASSUME NEW o \in Ops, DropPermit(o) PROVE Calls'  BY <1>18 DEF DropPermit
<1>19. ASSUME NEW w \in Workers, Dequeue(w) PROVE Calls'  BY <1>19 DEF Dequeue
<1>20. ASSUME NEW w \in Workers, Remove(w) PROVE Calls'
  <2>1. PICK o \in Ops : pc[o] = "native" /\ pc' = [pc EXCEPT ![o] = "delivering"]
    BY <1>20, RemoveFinds
  <2>2. QED
    BY <2>1, <1>20 DEF Remove
<1>21. ASSUME NEW c \in Callers, NEW r \in Resources, NEW access \in Access,
            BeginCall(c, r, access) PROVE Calls'
  <2>1. access # "borrow" => \A o \in Ops : Target[o] = r => pc[o] \notin LeasedPCs
    BY <1>21, NotRetained DEF BeginCall, Allows
  <2>2. \A d \in Callers : calls[d].resource # r
    BY <1>21 DEF BeginCall, Unlocked
  <2>3. /\ calls' = [calls EXCEPT ![c] = [resource |-> r, access |-> access]]
        /\ UNCHANGED <<pc, handle, skip, skipSeen>>
    BY <1>21 DEF BeginCall
  <2> HIDE DEF LeasedPCs
  <2>4. QED
    BY <2>1, <2>2, <2>3
<1>22. ASSUME NEW c \in Callers, EndCall(c) PROVE Calls'
  <2>1. calls[c].resource \in Resources /\ calls[c].access \in {"borrow", "consume", "mutate"}
    BY <1>22 DEF EndCall
  <2>2. calls[c].access # "borrow" =>
           \A o \in Ops : Target[o] = calls[c].resource => pc[o] \notin LeasedPCs
    BY <2>1
  <2>3. \A o \in Ops : pc[o] \in LeasedPCs => handle'[Target[o]] = "open"
    BY <2>1, <2>2, <1>22 DEF EndCall
  <2>4. \A o \in Ops : pc[o] \in LeasedPCs => skip'[Target[o]] = skip[Target[o]]
    BY <2>1, <2>2, <1>22 DEF EndCall
  <2>5. \A d \in Callers : calls'[d].resource # NoResource => d # c /\ calls'[d] = calls[d]
    BY <1>22 DEF EndCall
  <2>6. UNCHANGED <<pc, skipSeen>>
    BY <1>22 DEF EndCall
  <2>7. \A o \in Ops : pc[o] \in {"registered", "started"} => pc[o] \in LeasedPCs
    OBVIOUS
  <2> HIDE DEF LeasedPCs
  <2>8. QED
    BY <2>3, <2>4, <2>5, <2>6, <2>7
<1>23. ASSUME NEW r \in Resources, Close(r) PROVE Calls'
  <2>1. \A o \in Ops : Target[o] = r => pc[o] \notin LeasedPCs
    BY <1>23, NotRetained DEF Close
  <2>2. handle' = [handle EXCEPT ![r] = "closed"] /\ UNCHANGED <<pc, skipSeen, skip, calls>>
    BY <1>23 DEF Close
  <2> HIDE DEF LeasedPCs
  <2>3. QED
    BY <2>1, <2>2
<1>24. CASE DropReceiver  BY <1>24 DEF DropReceiver
<1>25. CASE UNCHANGED vars  BY <1>25
<1>26. QED
  BY <1>1, <1>2, <1>3, <1>4, <1>5, <1>6, <1>7, <1>8, <1>9, <1>10, <1>11, <1>12, <1>13,
     <1>14, <1>15, <1>16, <1>17, <1>18, <1>19, <1>20, <1>21, <1>22, <1>23, <1>24, <1>25
  DEF Next, Submitting, Delivering

\* Windows works on operations that were submitted, each at its own address.
LEMMA WindowsStep == TypeOK /\ Boxes /\ Registry /\ Calls /\ Windows /\ [Next]_vars => Windows'
<1> SUFFICES ASSUME TypeOK, Boxes, Registry, Calls, Windows, [Next]_vars PROVE Windows'
  OBVIOUS
<1> USE ConstantsAssumption
    DEF Goto, TypeOK, Access, NotCalling, PCs, HeldPCs, LeasedPCs, BoxedPCs, ActivePCs,
        RegisteredPCs, Boxes, Registry, Calls, Windows,
        vars, opVars, regVars, cancelVars, capVars, resVars, callVars, osVars, workerVars
<1>1. ASSUME NEW o \in Ops, Acquire(o) PROVE Windows'  BY <1>1 DEF Acquire
<1>2. ASSUME NEW o \in Ops, Lease(o) PROVE Windows'  BY <1>2 DEF Lease, Unlocked
<1>3. ASSUME NEW o \in Ops, DropPrepared(o) PROVE Windows'  BY <1>3 DEF DropPrepared, DropLease
<1>4. ASSUME NEW o \in Ops, BeginSubmit(o) PROVE Windows'
  BY <1>4 DEF BeginSubmit, DropLease, Refuse, Free
<1>5. ASSUME NEW o \in Ops, Register(o) PROVE Windows'  BY <1>5 DEF Register
<1>6. ASSUME NEW o \in Ops, CannotRegister(o) PROVE Windows'
  BY <1>6 DEF CannotRegister, DropLease, Refuse, FreeBox
<1>7. ASSUME NEW o \in Ops, StartIo(o) PROVE Windows'  BY <1>7 DEF StartIo
<1>8. ASSUME NEW o \in Ops, FailedSync(o) PROVE Windows'
  BY <1>8 DEF FailedSync, Accept, Unregister
<1>9. ASSUME NEW o \in Ops, RefusedByWindows(o) PROVE Windows'
  BY <1>9 DEF RefusedByWindows, DropLease, Refuse, FreeBox
<1>10. ASSUME NEW o \in Ops, CompleteInline(o) PROVE Windows'
  BY <1>10 DEF CompleteInline, Accept, Unregister
<1>11. ASSUME NEW o \in Ops, SubmitReturns(o) PROVE Windows'
  BY <1>11 DEF SubmitReturns, Accept, CancelIoEx
<1>12. ASSUME NEW o \in Ops, RequestCancel(o) PROVE Windows'  BY <1>12 DEF RequestCancel
<1>13. ASSUME NEW o \in Ops, CancelNative(o) PROVE Windows'
  BY <1>13 DEF CancelNative, CancelIoEx
<1>14. ASSUME NEW o \in Ops, WindowsCompletes(o) PROVE Windows'  BY <1>14 DEF WindowsCompletes
<1>15. ASSUME NEW o \in Ops, Deactivate(o) PROVE Windows'  BY <1>15 DEF Deactivate
<1>16. ASSUME NEW o \in Ops, Send(o) PROVE Windows'  BY <1>16 DEF Send, DropLease, FreeBox
<1>17. ASSUME NEW o \in Ops, Consume(o) PROVE Windows'  BY <1>17 DEF Consume, DropLease
<1>18. ASSUME NEW o \in Ops, DropPermit(o) PROVE Windows'  BY <1>18 DEF DropPermit
<1>19. ASSUME NEW w \in Workers, Dequeue(w) PROVE Windows'  BY <1>19 DEF Dequeue
<1>20. ASSUME NEW w \in Workers, Remove(w) PROVE Windows'  BY <1>20 DEF Remove
<1>21. ASSUME NEW c \in Callers, NEW r \in Resources, NEW access \in Access,
            BeginCall(c, r, access) PROVE Windows'
  BY <1>21 DEF BeginCall, Allows, Unlocked
<1>22. ASSUME NEW c \in Callers, EndCall(c) PROVE Windows'  BY <1>22 DEF EndCall
<1>23. ASSUME NEW r \in Resources, Close(r) PROVE Windows'  BY <1>23 DEF Close, Unlocked
<1>24. CASE DropReceiver  BY <1>24 DEF DropReceiver
<1>25. CASE UNCHANGED vars  BY <1>25
<1>26. QED
  BY <1>1, <1>2, <1>3, <1>4, <1>5, <1>6, <1>7, <1>8, <1>9, <1>10, <1>11, <1>12, <1>13,
     <1>14, <1>15, <1>16, <1>17, <1>18, <1>19, <1>20, <1>21, <1>22, <1>23, <1>24, <1>25
  DEF Next, Submitting, Delivering

\* An operation left to Windows stays in its hands until a worker removes it.
LEMMA ExpectedStep == TypeOK /\ Boxes /\ Registry /\ Calls /\ Windows /\ Expected /\ [Next]_vars => Expected'
<1> SUFFICES ASSUME TypeOK, Boxes, Registry, Calls, Windows, Expected, [Next]_vars PROVE Expected'
  OBVIOUS
<1> USE ConstantsAssumption
    DEF Goto, TypeOK, Access, NotCalling, PCs, HeldPCs, LeasedPCs, BoxedPCs, ActivePCs,
        RegisteredPCs, Boxes, Registry, Calls, Windows, Expected, LeftToWindows,
        InFlight, Dequeued,
        vars, opVars, regVars, cancelVars, capVars, resVars, callVars, osVars, workerVars
<1>1. ASSUME NEW o \in Ops, Acquire(o) PROVE Expected'  BY <1>1 DEF Acquire
<1>2. ASSUME NEW o \in Ops, Lease(o) PROVE Expected'  BY <1>2 DEF Lease, Unlocked
<1>3. ASSUME NEW o \in Ops, DropPrepared(o) PROVE Expected'
  BY <1>3 DEF DropPrepared, DropLease
<1>4. ASSUME NEW o \in Ops, BeginSubmit(o) PROVE Expected'
  BY <1>4 DEF BeginSubmit, DropLease, Refuse, Free
<1>5. ASSUME NEW o \in Ops, Register(o) PROVE Expected'  BY <1>5 DEF Register
<1>6. ASSUME NEW o \in Ops, CannotRegister(o) PROVE Expected'
  BY <1>6 DEF CannotRegister, DropLease, Refuse, FreeBox
<1>7. ASSUME NEW o \in Ops, StartIo(o) PROVE Expected'  BY <1>7 DEF StartIo
<1>8. ASSUME NEW o \in Ops, FailedSync(o) PROVE Expected'
  BY <1>8 DEF FailedSync, Accept, Unregister
<1>9. ASSUME NEW o \in Ops, RefusedByWindows(o) PROVE Expected'
  BY <1>9 DEF RefusedByWindows, DropLease, Refuse, FreeBox
<1>10. ASSUME NEW o \in Ops, CompleteInline(o) PROVE Expected'
  BY <1>10 DEF CompleteInline, Accept, Unregister
<1>11. ASSUME NEW o \in Ops, SubmitReturns(o) PROVE Expected'
  BY <1>11 DEF SubmitReturns, Accept, CancelIoEx
<1>12. ASSUME NEW o \in Ops, RequestCancel(o) PROVE Expected'  BY <1>12 DEF RequestCancel
<1>13. ASSUME NEW o \in Ops, CancelNative(o) PROVE Expected'
  BY <1>13, SMTT(30) DEF CancelNative, CancelIoEx
<1>14. ASSUME NEW o \in Ops, WindowsCompletes(o) PROVE Expected'
  BY <1>14 DEF WindowsCompletes
<1>15. ASSUME NEW o \in Ops, Deactivate(o) PROVE Expected'  BY <1>15 DEF Deactivate
<1>16. ASSUME NEW o \in Ops, Send(o) PROVE Expected'  BY <1>16 DEF Send, DropLease, FreeBox
<1>17. ASSUME NEW o \in Ops, Consume(o) PROVE Expected'  BY <1>17 DEF Consume, DropLease
<1>18. ASSUME NEW o \in Ops, DropPermit(o) PROVE Expected'  BY <1>18 DEF DropPermit
<1>19. ASSUME NEW w \in Workers, Dequeue(w) PROVE Expected'  BY <1>19 DEF Dequeue
<1>20. ASSUME NEW w \in Workers, Remove(w) PROVE Expected'
  <2>1. PICK o \in Ops :
            /\ o = taken[w] /\ pc' = [pc EXCEPT ![o] = "delivering"]
            /\ taken' = taken /\ at' = [at EXCEPT ![w] = "delivering"]
    BY <1>20, RemoveFinds
  <2>2. UNCHANGED <<io, packets, error, skipSeen>>
    BY <1>20 DEF Remove
  <2>3. QED
    BY <2>1, <2>2
<1>21. ASSUME NEW c \in Callers, NEW r \in Resources, NEW access \in Access,
            BeginCall(c, r, access) PROVE Expected'
  BY <1>21 DEF BeginCall, Allows, Unlocked
<1>22. ASSUME NEW c \in Callers, EndCall(c) PROVE Expected'  BY <1>22 DEF EndCall
<1>23. ASSUME NEW r \in Resources, Close(r) PROVE Expected'  BY <1>23 DEF Close, Unlocked
<1>24. CASE DropReceiver  BY <1>24 DEF DropReceiver
<1>25. CASE UNCHANGED vars  BY <1>25, SMTT(30)
<1>26. QED
  BY <1>1, <1>2, <1>3, <1>4, <1>5, <1>6, <1>7, <1>8, <1>9, <1>10, <1>11, <1>12, <1>13,
     <1>14, <1>15, <1>16, <1>17, <1>18, <1>19, <1>20, <1>21, <1>22, <1>23, <1>24, <1>25
  DEF Next, Submitting, Delivering

\* Windows is asked to abort cancelled operations, and is asked for all of them.
LEMMA CancellationStep == TypeOK /\ Boxes /\ Registry /\ Windows /\ Cancellation /\ [Next]_vars => Cancellation'
<1> SUFFICES ASSUME TypeOK, Boxes, Registry, Windows, Cancellation, [Next]_vars PROVE Cancellation'
  OBVIOUS
<1> USE ConstantsAssumption
    DEF Goto, TypeOK, Access, NotCalling, PCs, HeldPCs, LeasedPCs, BoxedPCs, ActivePCs,
        RegisteredPCs, Boxes, Registry, Windows, Cancellation,
        vars, opVars, regVars, cancelVars, capVars, resVars, callVars, osVars, workerVars
<1>1. ASSUME NEW o \in Ops, Acquire(o) PROVE Cancellation'  BY <1>1 DEF Acquire
<1>2. ASSUME NEW o \in Ops, Lease(o) PROVE Cancellation'  BY <1>2 DEF Lease, Unlocked
<1>3. ASSUME NEW o \in Ops, DropPrepared(o) PROVE Cancellation'
  BY <1>3 DEF DropPrepared, DropLease
<1>4. ASSUME NEW o \in Ops, BeginSubmit(o) PROVE Cancellation'
  BY <1>4 DEF BeginSubmit, DropLease, Refuse, Free
<1>5. ASSUME NEW o \in Ops, Register(o) PROVE Cancellation'  BY <1>5 DEF Register
<1>6. ASSUME NEW o \in Ops, CannotRegister(o) PROVE Cancellation'
  BY <1>6 DEF CannotRegister, DropLease, Refuse, FreeBox
<1>7. ASSUME NEW o \in Ops, StartIo(o) PROVE Cancellation'  BY <1>7 DEF StartIo
<1>8. ASSUME NEW o \in Ops, FailedSync(o) PROVE Cancellation'
  BY <1>8 DEF FailedSync, Accept, Unregister
<1>9. ASSUME NEW o \in Ops, RefusedByWindows(o) PROVE Cancellation'
  BY <1>9 DEF RefusedByWindows, DropLease, Refuse, FreeBox
<1>10. ASSUME NEW o \in Ops, CompleteInline(o) PROVE Cancellation'
  BY <1>10 DEF CompleteInline, Accept, Unregister
<1>11. ASSUME NEW o \in Ops, SubmitReturns(o) PROVE Cancellation'
  BY <1>11 DEF SubmitReturns, Accept, CancelIoEx
<1>12. ASSUME NEW o \in Ops, RequestCancel(o) PROVE Cancellation'  BY <1>12 DEF RequestCancel
<1>13. ASSUME NEW o \in Ops, CancelNative(o) PROVE Cancellation'
  BY <1>13, SMTT(30) DEF CancelNative, CancelIoEx
<1>14. ASSUME NEW o \in Ops, WindowsCompletes(o) PROVE Cancellation'
  BY <1>14 DEF WindowsCompletes
<1>15. ASSUME NEW o \in Ops, Deactivate(o) PROVE Cancellation'  BY <1>15 DEF Deactivate
<1>16. ASSUME NEW o \in Ops, Send(o) PROVE Cancellation'  BY <1>16 DEF Send, DropLease, FreeBox
<1>17. ASSUME NEW o \in Ops, Consume(o) PROVE Cancellation'  BY <1>17 DEF Consume, DropLease
<1>18. ASSUME NEW o \in Ops, DropPermit(o) PROVE Cancellation'  BY <1>18 DEF DropPermit
<1>19. ASSUME NEW w \in Workers, Dequeue(w) PROVE Cancellation'  BY <1>19 DEF Dequeue
<1>20. ASSUME NEW w \in Workers, Remove(w) PROVE Cancellation'  BY <1>20 DEF Remove
<1>21. ASSUME NEW c \in Callers, NEW r \in Resources, NEW access \in Access,
            BeginCall(c, r, access) PROVE Cancellation'
  BY <1>21 DEF BeginCall, Allows, Unlocked
<1>22. ASSUME NEW c \in Callers, EndCall(c) PROVE Cancellation'  BY <1>22 DEF EndCall
<1>23. ASSUME NEW r \in Resources, Close(r) PROVE Cancellation'  BY <1>23 DEF Close, Unlocked
<1>24. CASE DropReceiver  BY <1>24 DEF DropReceiver
<1>25. CASE UNCHANGED vars  BY <1>25, SMTT(30)
<1>26. QED
  BY <1>1, <1>2, <1>3, <1>4, <1>5, <1>6, <1>7, <1>8, <1>9, <1>10, <1>11, <1>12, <1>13,
     <1>14, <1>15, <1>16, <1>17, <1>18, <1>19, <1>20, <1>21, <1>22, <1>23, <1>24, <1>25
  DEF Next, Submitting, Delivering

\* An operation is refused, or accepted and delivered once.
LEMMA OutcomesStep == TypeOK /\ Boxes /\ Registry /\ Windows /\ Outcomes /\ [Next]_vars => Outcomes'
<1> SUFFICES ASSUME TypeOK, Boxes, Registry, Windows, Outcomes, [Next]_vars PROVE Outcomes'
  OBVIOUS
<1> USE ConstantsAssumption
    DEF Goto, TypeOK, Access, NotCalling, PCs, HeldPCs, LeasedPCs, BoxedPCs, ActivePCs,
        RegisteredPCs, Outcomes,
        vars, opVars, regVars, cancelVars, capVars, resVars, callVars, osVars, workerVars
<1>1. ASSUME NEW o \in Ops, Acquire(o) PROVE Outcomes'  BY <1>1 DEF Acquire
<1>2. ASSUME NEW o \in Ops, Lease(o) PROVE Outcomes'  BY <1>2 DEF Lease, Unlocked
<1>3. ASSUME NEW o \in Ops, DropPrepared(o) PROVE Outcomes'
  BY <1>3 DEF DropPrepared, DropLease
<1>4. ASSUME NEW o \in Ops, BeginSubmit(o) PROVE Outcomes'
  BY <1>4 DEF BeginSubmit, DropLease, Refuse, Free
<1>5. ASSUME NEW o \in Ops, Register(o) PROVE Outcomes'  BY <1>5 DEF Register
<1>6. ASSUME NEW o \in Ops, CannotRegister(o) PROVE Outcomes'
  BY <1>6 DEF CannotRegister, DropLease, Refuse, FreeBox
<1>7. ASSUME NEW o \in Ops, StartIo(o) PROVE Outcomes'  BY <1>7 DEF StartIo
<1>8. ASSUME NEW o \in Ops, FailedSync(o) PROVE Outcomes'
  BY <1>8 DEF FailedSync, Accept, Unregister
<1>9. ASSUME NEW o \in Ops, RefusedByWindows(o) PROVE Outcomes'
  BY <1>9 DEF RefusedByWindows, DropLease, Refuse, FreeBox
<1>10. ASSUME NEW o \in Ops, CompleteInline(o) PROVE Outcomes'
  BY <1>10 DEF CompleteInline, Accept, Unregister
<1>11. ASSUME NEW o \in Ops, SubmitReturns(o) PROVE Outcomes'
  BY <1>11 DEF SubmitReturns, Accept, CancelIoEx
<1>12. ASSUME NEW o \in Ops, RequestCancel(o) PROVE Outcomes'  BY <1>12 DEF RequestCancel
<1>13. ASSUME NEW o \in Ops, CancelNative(o) PROVE Outcomes'
  BY <1>13 DEF CancelNative, CancelIoEx
<1>14. ASSUME NEW o \in Ops, WindowsCompletes(o) PROVE Outcomes'  BY <1>14 DEF WindowsCompletes
<1>15. ASSUME NEW o \in Ops, Deactivate(o) PROVE Outcomes'  BY <1>15 DEF Deactivate
<1>16. ASSUME NEW o \in Ops, Send(o) PROVE Outcomes'  BY <1>16 DEF Send, DropLease, FreeBox
<1>17. ASSUME NEW o \in Ops, Consume(o) PROVE Outcomes'  BY <1>17 DEF Consume, DropLease
<1>18. ASSUME NEW o \in Ops, DropPermit(o) PROVE Outcomes'  BY <1>18 DEF DropPermit
<1>19. ASSUME NEW w \in Workers, Dequeue(w) PROVE Outcomes'  BY <1>19 DEF Dequeue
<1>20. ASSUME NEW w \in Workers, Remove(w) PROVE Outcomes'
  <2>1. PICK o \in Ops : pc[o] = "native" /\ pc' = [pc EXCEPT ![o] = "delivering"]
    BY <1>20, RemoveFinds
  <2>2. QED
    BY <2>1, <1>20 DEF Remove
<1>21. ASSUME NEW c \in Callers, NEW r \in Resources, NEW access \in Access,
            BeginCall(c, r, access) PROVE Outcomes'
  BY <1>21 DEF BeginCall, Allows, Unlocked
<1>22. ASSUME NEW c \in Callers, EndCall(c) PROVE Outcomes'  BY <1>22 DEF EndCall
<1>23. ASSUME NEW r \in Resources, Close(r) PROVE Outcomes'  BY <1>23 DEF Close, Unlocked
<1>24. CASE DropReceiver  BY <1>24 DEF DropReceiver
<1>25. CASE UNCHANGED vars  BY <1>25
<1>26. QED
  BY <1>1, <1>2, <1>3, <1>4, <1>5, <1>6, <1>7, <1>8, <1>9, <1>10, <1>11, <1>12, <1>13,
     <1>14, <1>15, <1>16, <1>17, <1>18, <1>19, <1>20, <1>21, <1>22, <1>23, <1>24, <1>25
  DEF Next, Submitting, Delivering

-----------------------------------------------------------------------------
(* The theorems *)

\* The invariant holds before the first operation is prepared.
LEMMA InductiveInit == Init => Inductive
<1> SUFFICES ASSUME Init PROVE Inductive
  OBVIOUS
<1> USE ConstantsAssumption
<1>1. TypeOK
  BY DEF Init, TypeOK, PCs, Access, NotCalling
<1>2. \A steps : "new" \notin steps =>
          Count(steps) = 0 /\ \A r \in Resources : CountOn(r, steps) = 0
  BY FS_EmptySet DEF Init, Count, CountOn
<1>3. "new" \notin HeldPCs /\ "new" \notin LeasedPCs /\ "new" \notin ActivePCs
  BY DEF PCs, HeldPCs, LeasedPCs, BoxedPCs, ActivePCs
<1>4. Counted
  BY <1>2, <1>3 DEF Init, Counted
<1>5. Boxes /\ Registry
  BY DEF Init, Boxes, Registry, RegisteredPCs, PCs, HeldPCs, LeasedPCs, BoxedPCs, ActivePCs
<1>6. Calls
  BY DEF Init, Calls, NotCalling, PCs, HeldPCs, LeasedPCs
<1>7. Windows /\ Expected /\ Cancellation /\ Outcomes
  BY DEF Init, Windows, Expected, LeftToWindows, Cancellation, Outcomes
<1>8. QED
  BY <1>1, <1>4, <1>5, <1>6, <1>7 DEF Inductive

\* The parts keep each other: every reachable state of the engine is accounted for.
THEOREM InductiveInvariant == Spec => []Inductive
<1>1. Inductive /\ [Next]_vars => Inductive'
  BY TypeStep, CountedStep, BoxesStep, RegistryStep, CallsStep, WindowsStep,
     ExpectedStep, CancellationStep, OutcomesStep DEF Inductive
<1>2. QED
  BY InductiveInit, <1>1, PTL DEF Spec

\* Every variable keeps its type; the counters of leases and permits that the code
\* decrements unchecked, or with an `expect', never go below zero.
THEOREM TypeCorrect == Spec => []TypeOK
<1>1. Inductive => TypeOK
  BY DEF Inductive
<1>2. QED
  BY <1>1, InductiveInvariant, PTL

\* Windows never works on freed memory, on an unregistered address or on a closed
\* file: for any number of operations, files, workers and callers.
THEOREM StorageIsOwned == Spec => []WindowsOwnsStorage
<1>1. Inductive => WindowsOwnsStorage
  <2> SUFFICES ASSUME Inductive, NEW o \in InFlight
               PROVE  /\ ptr[o] # NoAddr /\ box[o] = ptr[o] /\ registry[ptr[o]] = o
                      /\ handle[Target[o]] = "open" /\ active[Target[o]] > 0
    BY DEF WindowsOwnsStorage
  <2>1. TypeOK /\ Counted /\ Boxes /\ Registry /\ Calls /\ Windows
    BY DEF Inductive
  <2>2. /\ o \in Ops
        /\ o \in io \cup packets \/ (\E w \in Workers : at[w] = "dequeued" /\ taken[w] = o)
    BY <2>1 DEF InFlight, Dequeued, TypeOK
  <2>3. pc[o] \in {"started", "native"} /\ ptr[o] = box[o]
    BY <2>1, <2>2 DEF Windows
  <2>4. /\ pc[o] \in BoxedPCs /\ pc[o] \in ActivePCs /\ pc[o] \in LeasedPCs
        /\ pc[o] \in RegisteredPCs
    BY <2>3 DEF PCs, HeldPCs, LeasedPCs, BoxedPCs, ActivePCs, RegisteredPCs
  <2>5. box[o] # NoAddr /\ box[o] \in Addrs
    BY <2>1, <2>2, <2>4 DEF Boxes, TypeOK
  <2>6. registry[box[o]] = o
    BY <2>1, <2>2, <2>4, <2>5 DEF Registry
  <2>7. handle[Target[o]] = "open"
    BY <2>1, <2>2, <2>4 DEF Calls
  <2>8. active[Target[o]] > 0
    BY <2>1, <2>2, <2>4, PermitAndLease
  <2>9. QED
    BY <2>3, <2>5, <2>6, <2>7, <2>8
<1>2. QED
  BY <1>1, InductiveInvariant, PTL

\* A late cancel() never aborts another operation that reuses the address.
THEOREM AbortsAreCancellations == Spec => []OnlyCancelledIsAborted
<1>1. Inductive => OnlyCancelledIsAborted
  BY DEF Inductive, Cancellation, OnlyCancelledIsAborted
<1>2. QED
  BY <1>1, InductiveInvariant, PTL

\* A cancellation that raced its submission is not lost.
THEOREM CancellationNotLost == Spec => []CancellationReachesWindows
<1>1. Inductive => CancellationReachesWindows
  <2>1. SUFFICES ASSUME Inductive, NEW o \in cancelled, pc[o] = "native", o \notin cancelling
                 PROVE  o \in aborting \cup packets \cup Dequeued
    BY DEF CancellationReachesWindows
  <2>2. o \in io \cup packets \cup Dequeued
    BY <2>1 DEF Inductive, TypeOK, Expected, LeftToWindows, InFlight
  <2>3. o \in io => o \in aborting
    BY <2>1 DEF Inductive, Cancellation
  <2>4. QED
    BY <2>2, <2>3
<1>2. QED
  BY <1>1, InductiveInvariant, PTL

\* The `expect's of submit() hold: its operation is registered while it has the lock.
THEOREM SubmissionIsRegistered == Spec => []SubmissionStaysRegistered
<1>1. Inductive => SubmissionStaysRegistered
  <2> SUFFICES ASSUME Inductive, NEW o \in Ops, regLock = o
               PROVE  pc[o] \in {"registered", "started"} /\ registry[box[o]] = o
    BY DEF SubmissionStaysRegistered
  <2>1. TypeOK /\ Boxes /\ Registry
    BY DEF Inductive
  <2>2. pc[o] \in {"registered", "started"}
    BY <2>1 DEF Registry
  <2>3. box[o] \in Addrs
    BY <2>1, <2>2 DEF Boxes, TypeOK, PCs, HeldPCs, LeasedPCs, BoxedPCs
  <2>4. registry[box[o]] = o
    BY <2>1, <2>2, <2>3 DEF Registry, RegisteredPCs
  <2>5. QED
    BY <2>2, <2>4
<1>2. QED
  BY <1>1, InductiveInvariant, PTL

\* One outcome for every operation: an error, or one record.
THEOREM OutcomeIsOne == Spec => []OneOutcome
<1>1. Inductive => OneOutcome
  BY DEF Inductive, Outcomes, OneOutcome
<1>2. QED
  BY <1>1, InductiveInvariant, PTL

\* The number of permits is exact and limited.
THEOREM PermitsAreCounted == Spec => []OperationsCounted
<1>1. Inductive => OperationsCounted
  <2> SUFFICES ASSUME Inductive PROVE OperationsCounted
    OBVIOUS
  <2>1. TypeOK /\ Counted
    BY DEF Inductive
  <2>2. Holding = {o \in Ops : pc[o] \in HeldPCs}
    BY <2>1 DEF Holding, HeldPCs, TypeOK
  <2>3. QED
    BY <2>1, <2>2 DEF Counted, Count, OperationsCounted
<1>2. QED
  BY <1>1, InductiveInvariant, PTL

-----------------------------------------------------------------------------
(* Bytes *)

\* The bytes of one buffer are as many as its size.
LEMMA BufferSize ==
    ASSUME NEW o \in Ops
    PROVE  IsFiniteSet(BytesOf(o)) /\ Cardinality(BytesOf(o)) = Size[o]
<1>1. Size[o] \in Nat
  BY ConstantsAssumption
<1>2. IsFiniteSet(1..Size[o]) /\ Cardinality(1..Size[o]) = Size[o]
  BY <1>1, FS_Interval
<1>3. IsFiniteSet({o}) /\ Cardinality({o}) = 1
  BY FS_Singleton
<1>4. IsFiniteSet({o} \X (1..Size[o])) /\ Cardinality({o} \X (1..Size[o])) = 1 * Size[o]
  <2> DEFINE S == {o}
             T == 1..Size[o]
  <2>1. IsFiniteSet(S) /\ Cardinality(S) = 1 /\ IsFiniteSet(T) /\ Cardinality(T) = Size[o]
    BY <1>2, <1>3
  <2> HIDE DEF S, T
  <2>2. IsFiniteSet(S \X T) /\ Cardinality(S \X T) = 1 * Size[o]
    BY <2>1, FS_Product
  <2>3. QED
    BY <2>2 DEF S, T
<1>5. QED
  BY <1>1, <1>4 DEF BytesOf

\* The bytes of two operations are different bytes.
LEMMA BuffersAreApart ==
    ASSUME NEW o \in Ops, NEW p \in Ops, o # p
    PROVE  \A x \in BytesOf(o) : x \notin BytesOf(p)
<1> SUFFICES ASSUME NEW x \in BytesOf(o), x \in BytesOf(p) PROVE FALSE
  OBVIOUS
<1>1. x[1] = o /\ x[1] = p
  BY DEF BytesOf
<1>2. QED
  BY <1>1

\* A byte is held by the operation whose buffer it is in.
LEMMA HeldByte ==
    ASSUME NEW x
    PROVE  /\ x \in HeldBytes <=> \E o \in Holding : x \in BytesOf(o)
           /\ x \in HeldBytes' <=> \E o \in Holding' : x \in BytesOf(o)
<1>1. x \in HeldBytes <=> \E o \in Holding : x \in BytesOf(o)
  BY DEF HeldBytes
<1>2. HeldBytes' = UNION {BytesOf(o) : o \in Holding'}
  BY DEF HeldBytes, BytesOf
<1>3. x \in HeldBytes' <=> \E o \in Holding' : x \in BytesOf(o)
  BY <1>2
<1>4. QED
  BY <1>1, <1>3

\* Only acquire() and the drop of a permit change what is used or who has a permit.
LEMMA PermitsStay ==
    ASSUME TypeOK, Boxes, Registry, Windows, [Next]_vars,
           \A o \in Ops : ~Acquire(o) /\ ~DropPermit(o)
    PROVE  usedBytes' = usedBytes /\ Holding' = Holding
<1> USE ConstantsAssumption
    DEF Goto, TypeOK, vars, opVars, regVars, cancelVars, capVars, resVars, callVars,
        osVars, workerVars
<1> DEFINE Same == usedBytes' = usedBytes /\ Holding' = Holding
<1>1. ASSUME NEW o \in Ops, Lease(o) PROVE Same
  BY <1>1 DEF Holding, Lease, Unlocked
<1>2. ASSUME NEW o \in Ops, DropPrepared(o) PROVE Same
  BY <1>2 DEF Holding, DropPrepared, DropLease
<1>3. ASSUME NEW o \in Ops, BeginSubmit(o) PROVE Same
  BY <1>3 DEF Holding, BeginSubmit, DropLease, Refuse, Free
<1>4. ASSUME NEW o \in Ops, Register(o) PROVE Same
  BY <1>4 DEF Holding, Register
<1>5. ASSUME NEW o \in Ops, CannotRegister(o) PROVE Same
  BY <1>5 DEF Holding, CannotRegister, DropLease, Refuse, FreeBox
<1>6. ASSUME NEW o \in Ops, StartIo(o) PROVE Same
  BY <1>6 DEF Holding, StartIo
<1>7. ASSUME NEW o \in Ops, FailedSync(o) PROVE Same
  BY <1>7 DEF Holding, FailedSync, Accept, Unregister
<1>8. ASSUME NEW o \in Ops, RefusedByWindows(o) PROVE Same
  BY <1>8 DEF Holding, RefusedByWindows, DropLease, Refuse, FreeBox
<1>9. ASSUME NEW o \in Ops, CompleteInline(o) PROVE Same
  BY <1>9 DEF Holding, CompleteInline, Accept, Unregister
<1>10. ASSUME NEW o \in Ops, SubmitReturns(o) PROVE Same
  BY <1>10 DEF Holding, SubmitReturns, Accept, CancelIoEx
<1>11. ASSUME NEW o \in Ops, RequestCancel(o) PROVE Same
  BY <1>11 DEF Holding, RequestCancel
<1>12. ASSUME NEW o \in Ops, CancelNative(o) PROVE Same
  BY <1>12 DEF Holding, CancelNative, CancelIoEx
<1>13. ASSUME NEW o \in Ops, WindowsCompletes(o) PROVE Same
  BY <1>13 DEF Holding, WindowsCompletes
<1>14. ASSUME NEW o \in Ops, Deactivate(o) PROVE Same
  BY <1>14 DEF Holding, Deactivate
<1>15. ASSUME NEW o \in Ops, Send(o) PROVE Same
  BY <1>15 DEF Holding, Send, DropLease, FreeBox
<1>16. ASSUME NEW o \in Ops, Consume(o) PROVE Same
  BY <1>16 DEF Holding, Consume, DropLease
<1>17. ASSUME NEW w \in Workers, Dequeue(w) PROVE Same
  BY <1>17 DEF Holding, Dequeue
<1>18. ASSUME NEW w \in Workers, Remove(w) PROVE Same
  <2>1. PICK o \in Ops : pc[o] = "native" /\ pc' = [pc EXCEPT ![o] = "delivering"]
    BY <1>18, RemoveFinds
  <2>2. usedBytes' = usedBytes
    BY <1>18 DEF Remove
  <2>3. QED
    BY <2>1, <2>2 DEF Holding
<1>19. ASSUME NEW c \in Callers, NEW r \in Resources, NEW access \in Access,
            BeginCall(c, r, access) PROVE Same
  BY <1>19 DEF Holding, BeginCall
<1>20. ASSUME NEW c \in Callers, EndCall(c) PROVE Same
  BY <1>20 DEF Holding, EndCall
<1>21. ASSUME NEW r \in Resources, Close(r) PROVE Same
  BY <1>21 DEF Holding, Close
<1>22. CASE DropReceiver
  BY <1>22 DEF Holding, DropReceiver
<1>23. CASE UNCHANGED vars
  BY <1>23 DEF Holding
<1>24. Same
  BY <1>1, <1>2, <1>3, <1>4, <1>5, <1>6, <1>7, <1>8, <1>9, <1>10, <1>11, <1>12, <1>13,
     <1>14, <1>15, <1>16, <1>17, <1>18, <1>19, <1>20, <1>21, <1>22, <1>23
  DEF Next, Submitting, Delivering
<1>25. QED
  BY <1>24 DEF Same

\* What is used is exactly the bytes that are held.
BytesInductive == IsFiniteSet(HeldBytes) /\ BytesCounted

LEMMA BytesStep == Inductive /\ BytesInductive /\ [Next]_vars => BytesInductive'
<1> SUFFICES ASSUME Inductive, BytesInductive, [Next]_vars PROVE BytesInductive'
  OBVIOUS
<1>1. TypeOK /\ Boxes /\ Registry /\ Windows
  BY DEF Inductive
<1>2. IsFiniteSet(HeldBytes) /\ Cardinality(HeldBytes) \in Nat
      /\ usedBytes = Cardinality(HeldBytes) /\ usedBytes <= MaxBytes /\ MaxBytes \in Nat
  BY FS_CardinalityType, ConstantsAssumption DEF BytesInductive, BytesCounted
<1>3. ASSUME NEW o \in Ops, Acquire(o) PROVE BytesInductive'
  <2>1. /\ Holding' = Holding \cup {o} /\ o \notin Holding
        /\ usedBytes' = usedBytes + Size[o] /\ usedBytes + Size[o] <= MaxBytes
    BY <1>1, <1>3 DEF Acquire, Goto, Holding, TypeOK
  <2>2. HeldBytes' = HeldBytes \cup BytesOf(o)
    BY <2>1, HeldByte
  <2>3. HeldBytes \cap BytesOf(o) = {}
    <3>1. ASSUME NEW x \in HeldBytes PROVE x \notin BytesOf(o)
      <4>1. PICK p \in Holding : x \in BytesOf(p)
        BY <3>1, HeldByte
      <4>2. p \in Ops /\ p # o
        BY <2>1, <4>1 DEF Holding
      <4>3. QED
        BY <4>1, <4>2, BuffersAreApart
    <3>2. QED
      BY <3>1
  <2>4. IsFiniteSet(BytesOf(o)) /\ Cardinality(BytesOf(o)) = Size[o] /\ Size[o] \in Nat
    BY BufferSize, ConstantsAssumption
  <2>5. /\ IsFiniteSet(HeldBytes \cup BytesOf(o))
        /\ Cardinality(HeldBytes \cup BytesOf(o)) = Cardinality(HeldBytes)
              + Cardinality(BytesOf(o)) - Cardinality(HeldBytes \cap BytesOf(o))
    BY <1>2, <2>4, FS_Union
  <2>6. Cardinality(HeldBytes \cap BytesOf(o)) = 0
    BY <2>3, FS_EmptySet
  <2>7. IsFiniteSet(HeldBytes') /\ Cardinality(HeldBytes') = Cardinality(HeldBytes) + Size[o]
    BY <1>2, <2>2, <2>4, <2>5, <2>6
  <2>8. QED
    BY <1>2, <2>1, <2>4, <2>7 DEF BytesInductive, BytesCounted
<1>4. ASSUME NEW o \in Ops, DropPermit(o) PROVE BytesInductive'
  <2>1. /\ Holding' = Holding \ {o} /\ o \in Holding
        /\ usedBytes' = usedBytes - Size[o]
    BY <1>1, <1>4 DEF DropPermit, Goto, Holding, TypeOK
  <2>2. ASSUME NEW x PROVE x \in HeldBytes' <=> x \in HeldBytes \ BytesOf(o)
    <3>1. ASSUME x \in HeldBytes' PROVE x \in HeldBytes \ BytesOf(o)
      <4>1. PICK p \in Holding' : x \in BytesOf(p)
        BY <3>1, HeldByte
      <4>2. p \in Ops /\ p # o /\ p \in Holding
        BY <2>1, <4>1 DEF Holding
      <4>3. x \in HeldBytes
        BY <4>1, <4>2, HeldByte
      <4>4. QED
        BY <4>1, <4>2, <4>3, BuffersAreApart
    <3>2. ASSUME x \in HeldBytes \ BytesOf(o) PROVE x \in HeldBytes'
      <4>1. PICK p \in Holding : x \in BytesOf(p)
        BY <3>2, HeldByte
      <4>2. p \in Holding'
        BY <2>1, <3>2, <4>1
      <4>3. QED
        BY <4>1, <4>2, HeldByte
    <3>3. QED
      BY <3>1, <3>2
  <2>3. HeldBytes' = HeldBytes \ BytesOf(o) /\ HeldBytes \cap BytesOf(o) = BytesOf(o)
    <3>1. \A x \in BytesOf(o) : x \in HeldBytes
      BY <2>1, HeldByte
    <3>2. QED
      BY <2>2, <3>1
  <2>4. Cardinality(BytesOf(o)) = Size[o] /\ Size[o] \in Nat
    BY BufferSize, ConstantsAssumption
  <2>5. /\ IsFiniteSet(HeldBytes \ BytesOf(o))
        /\ Cardinality(HeldBytes \ BytesOf(o))
              = Cardinality(HeldBytes) - Cardinality(HeldBytes \cap BytesOf(o))
    BY <1>2, FS_Difference
  <2>6. IsFiniteSet(HeldBytes') /\ Cardinality(HeldBytes') = Cardinality(HeldBytes) - Size[o]
    BY <2>3, <2>4, <2>5
  <2>7. QED
    BY <1>2, <2>1, <2>4, <2>6 DEF BytesInductive, BytesCounted
<1>5. CASE \A o \in Ops : ~Acquire(o) /\ ~DropPermit(o)
  <2>1. usedBytes' = usedBytes /\ Holding' = Holding
    BY <1>1, <1>5, PermitsStay
  <2>2. HeldBytes' = HeldBytes
    BY <2>1, HeldByte
  <2>3. QED
    BY <1>2, <2>1, <2>2 DEF BytesInductive, BytesCounted
<1>6. QED
  BY <1>3, <1>4, <1>5

\* The bytes that are used are those of the operations with a permit, and limited.
THEOREM BytesAreCounted == Spec => []BytesCounted
<1>1. Init => BytesInductive
  <2> SUFFICES ASSUME Init PROVE BytesInductive
    OBVIOUS
  <2>1. Holding = {} /\ usedBytes = 0
    BY DEF Init, Holding
  <2>2. HeldBytes = {}
    BY <2>1, HeldByte
  <2>3. QED
    BY <2>1, <2>2, FS_EmptySet, ConstantsAssumption DEF BytesInductive, BytesCounted
<1>2. BytesInductive => BytesCounted
  BY DEF BytesInductive
<1>3. QED
  BY <1>1, <1>2, BytesStep, InductiveInvariant, PTL DEF Spec

-----------------------------------------------------------------------------
(* Refinement *)

\* The owner in IoSpec moves with the operation that moves.
LEMMA OwnerMoves ==
    ASSUME TypeOK, NEW o \in Ops, pc' = [pc EXCEPT ![o] = pc'[o]], handle' = handle,
           NEW from, NEW to, Owner(o) = from, Owner(o)' = to
    PROVE  Abstract!Move(o, from, to)
<1> DEFINE before == [x \in Ops |-> Owner(x)]
<1> DEFINE after == [x \in Ops |-> Owner(x)']
<1>1. \A x \in Ops \ {o} : Owner(x)' = Owner(x)
  BY DEF Owner, TypeOK
<1>2. after = [before EXCEPT ![o] = to]
  BY <1>1
<1>3. before[o] = from
  OBVIOUS
<1>4. QED
  BY <1>2, <1>3 DEF Abstract!Move

\* A step that leaves every operation with its owner and every handle alone.
LEMMA OwnerStays ==
    ASSUME TypeOK, NEW o \in Ops, pc' = [pc EXCEPT ![o] = pc'[o]], handle' = handle,
           Owner(o)' = Owner(o)
    PROVE  [Abstract!Next]_(Abstract!vars)
<1>1. \A x \in Ops : Owner(x)' = Owner(x)
  BY DEF Owner, TypeOK
<1>2. QED
  BY <1>1 DEF Abstract!vars

\* IoSpec counts with its own instance of FiniteSets.
LEMMA SameCardinality == \A S : Abstract!Cardinality(S) = Cardinality(S)
BY Zenon DEF Cardinality, Abstract!Cardinality

\* A step that moves no operation and closes no handle is a stutter of IoSpec.
LEMMA NobodyMoves ==
    ASSUME UNCHANGED <<pc, handle>>
    PROVE  [Abstract!Next]_(Abstract!vars)
BY DEF Abstract!vars, Owner

\* close() and a consuming call close a handle no operation leases.
LEMMA HandleCloses ==
    ASSUME Inductive, NEW r \in Resources, pc' = pc,
           handle' = [handle EXCEPT ![r] = "closed"],
           \A o \in Ops : Target[o] = r => pc[o] \notin LeasedPCs
    PROVE  [Abstract!Next]_(Abstract!vars)
<1> DEFINE before == {x \in Resources : handle[x] = "open"}
<1> DEFINE after == {x \in Resources : handle'[x] = "open"}
<1>1. TypeOK /\ \A o \in Ops : Owner(o)' = Owner(o)
  BY DEF Owner, Inductive
<1>2. \A o \in Ops : Target[o] = r => Owner(o) \notin {"caller", "windows", "receiver"}
  BY <1>1 DEF Owner, TypeOK, PCs, HeldPCs, LeasedPCs
<1>3. after = before \ {r}
  BY <1>1 DEF TypeOK
<1>4. CASE r \in before
  <2>1. Abstract!Close(r)
    BY <1>1, <1>2, <1>3, <1>4 DEF Abstract!Close
  <2>2. QED
    BY <2>1 DEF Abstract!Next
<1>5. CASE r \notin before
  BY <1>1, <1>3, <1>5 DEF Abstract!vars
<1>6. QED
  BY <1>4, <1>5

\* The engine implements the ownership protocol of IoSpec, with the accounting the
\* invariant gives: a permit exists for every operation that is not new or spent.
THEOREM Refinement == Spec => ImplementsIoSpec
<1>1. Init => Abstract!Init
  BY DEF Init, Abstract!Init, Owner
<1>2. Inductive /\ [Next]_vars => [Abstract!Next]_(Abstract!vars)
  <2> SUFFICES ASSUME Inductive, [Next]_vars PROVE [Abstract!Next]_(Abstract!vars)
    OBVIOUS
  <2>0. TypeOK /\ Counted
    BY DEF Inductive
  <2> USE ConstantsAssumption
      DEF Goto, vars, opVars, regVars, cancelVars, capVars, resVars, callVars, osVars, workerVars
  <2>1. ASSUME NEW o \in Ops, Acquire(o)
        PROVE  [Abstract!Next]_(Abstract!vars)
    <3>1. Owner(o) = "nobody" /\ Owner(o)' = "permit" /\ handle' = handle /\ pc' = [pc EXCEPT ![o] = pc'[o]]
      BY <2>0, <2>1 DEF Acquire, Owner, TypeOK
    <3>2. Abstract!Move(o, "nobody", "permit")
      BY <2>0, <3>1, OwnerMoves
    <3>3. Abstract!Holding = {x \in Ops : pc[x] \in HeldPCs}
      BY <2>0 DEF Abstract!Holding, Owner, TypeOK, PCs, HeldPCs
    <3>4. Cardinality(Abstract!Holding) < MaxOperations
      BY <2>0, <3>3, <2>1 DEF Acquire, Counted, Count
    <3>5. Abstract!Reserve(o)
      BY <3>2, <3>4, SameCardinality DEF Abstract!Reserve
    <3>6. QED
      BY <3>5 DEF Abstract!Next
  <2>2. ASSUME NEW o \in Ops, Lease(o)
        PROVE  [Abstract!Next]_(Abstract!vars)
    <3>1. CASE pc'[o] = "prepared"
      <4>1. Owner(o) = "permit" /\ Owner(o)' = "caller" /\ handle' = handle /\ pc' = [pc EXCEPT ![o] = pc'[o]]
        BY <2>0, <2>2, <3>1 DEF Lease, Owner, TypeOK
      <4>2. Abstract!Move(o, "permit", "caller")
        BY <2>0, <4>1, OwnerMoves
      <4>3. handle[Target[o]] = "open"
        BY <2>0, <2>2, <3>1 DEF Lease, TypeOK
      <4>4. Abstract!Prepare(o)
        BY <4>2, <4>3 DEF Abstract!Prepare
      <4>5. QED
        BY <4>4 DEF Abstract!Next
    <3>2. CASE pc'[o] # "prepared"
      <4>1. Owner(o)' = Owner(o) /\ handle' = handle /\ pc' = [pc EXCEPT ![o] = pc'[o]]
        BY <2>0, <2>2, <3>2 DEF Lease, Owner, TypeOK
      <4>2. QED
        BY <2>0, <4>1, OwnerStays
    <3>3. QED
      BY <3>1, <3>2
  <2>3. ASSUME NEW o \in Ops, DropPrepared(o)
        PROVE  [Abstract!Next]_(Abstract!vars)
    <3>1. Owner(o) = "caller" /\ Owner(o)' = "permit" /\ handle' = handle /\ pc' = [pc EXCEPT ![o] = pc'[o]]
      BY <2>0, <2>3 DEF DropPrepared, Owner, TypeOK
    <3>2. Abstract!Move(o, "caller", "permit")
      BY <2>0, <3>1, OwnerMoves
    <3>3. Abstract!Retire(o)
      BY <3>2 DEF Abstract!Retire
    <3>4. QED
      BY <3>3 DEF Abstract!Next
  <2>4. ASSUME NEW o \in Ops, BeginSubmit(o)
        PROVE  [Abstract!Next]_(Abstract!vars)
    <3>1. CASE o \in cancelled
      <4>1. Owner(o) = "caller" /\ Owner(o)' = "permit" /\ handle' = handle /\ pc' = [pc EXCEPT ![o] = pc'[o]]
        BY <2>0, <2>4, <3>1 DEF BeginSubmit, Owner, TypeOK
      <4>2. Abstract!Move(o, "caller", "permit")
        BY <2>0, <4>1, OwnerMoves
      <4>3. Abstract!Retire(o)
        BY <4>2 DEF Abstract!Retire
      <4>4. QED
        BY <4>3 DEF Abstract!Next
    <3>2. CASE o \notin cancelled
      <4>1. Owner(o)' = Owner(o) /\ handle' = handle /\ pc' = [pc EXCEPT ![o] = pc'[o]]
        BY <2>0, <2>4, <3>2 DEF BeginSubmit, Owner, TypeOK
      <4>2. QED
        BY <2>0, <4>1, OwnerStays
    <3>3. QED
      BY <3>1, <3>2
  <2>5. ASSUME NEW o \in Ops, Register(o)
        PROVE  [Abstract!Next]_(Abstract!vars)
    <3>1. Owner(o) = "caller" /\ Owner(o)' = "windows" /\ handle' = handle /\ pc' = [pc EXCEPT ![o] = pc'[o]]
      BY <2>0, <2>5 DEF Register, Owner, TypeOK
    <3>2. Abstract!Move(o, "caller", "windows")
      BY <2>0, <3>1, OwnerMoves
    <3>3. Abstract!Submit(o)
      BY <3>2 DEF Abstract!Submit
    <3>4. QED
      BY <3>3 DEF Abstract!Next
  <2>6. ASSUME NEW o \in Ops, CannotRegister(o)
        PROVE  [Abstract!Next]_(Abstract!vars)
    <3>1. Owner(o) = "caller" /\ Owner(o)' = "permit" /\ handle' = handle /\ pc' = [pc EXCEPT ![o] = pc'[o]]
      BY <2>0, <2>6 DEF CannotRegister, Owner, TypeOK
    <3>2. Abstract!Move(o, "caller", "permit")
      BY <2>0, <3>1, OwnerMoves
    <3>3. Abstract!Retire(o)
      BY <3>2 DEF Abstract!Retire
    <3>4. QED
      BY <3>3 DEF Abstract!Next
  <2>7. ASSUME NEW o \in Ops, StartIo(o)
        PROVE  [Abstract!Next]_(Abstract!vars)
    <3>1. Owner(o)' = Owner(o) /\ handle' = handle /\ pc' = [pc EXCEPT ![o] = pc'[o]]
      BY <2>0, <2>7 DEF StartIo, Owner, TypeOK
    <3>2. QED
      BY <2>0, <3>1, OwnerStays
  <2>8. ASSUME NEW o \in Ops, FailedSync(o)
        PROVE  [Abstract!Next]_(Abstract!vars)
    <3>1. Owner(o)' = Owner(o) /\ handle' = handle /\ pc' = [pc EXCEPT ![o] = pc'[o]]
      BY <2>0, <2>8 DEF FailedSync, Owner, TypeOK
    <3>2. QED
      BY <2>0, <3>1, OwnerStays
  <2>9. ASSUME NEW o \in Ops, RefusedByWindows(o)
        PROVE  [Abstract!Next]_(Abstract!vars)
    <3>1. Owner(o) = "windows" /\ Owner(o)' = "permit" /\ handle' = handle /\ pc' = [pc EXCEPT ![o] = pc'[o]]
      BY <2>0, <2>9 DEF RefusedByWindows, Owner, TypeOK
    <3>2. Abstract!Move(o, "windows", "permit")
      BY <2>0, <3>1, OwnerMoves
    <3>3. Abstract!Retire(o)
      BY <3>2 DEF Abstract!Retire
    <3>4. QED
      BY <3>3 DEF Abstract!Next
  <2>10. ASSUME NEW o \in Ops, CompleteInline(o)
        PROVE  [Abstract!Next]_(Abstract!vars)
    <3>1. Owner(o)' = Owner(o) /\ handle' = handle /\ pc' = [pc EXCEPT ![o] = pc'[o]]
      BY <2>0, <2>10 DEF CompleteInline, Owner, TypeOK
    <3>2. QED
      BY <2>0, <3>1, OwnerStays
  <2>11. ASSUME NEW o \in Ops, SubmitReturns(o)
        PROVE  [Abstract!Next]_(Abstract!vars)
    <3>1. Owner(o)' = Owner(o) /\ handle' = handle /\ pc' = [pc EXCEPT ![o] = pc'[o]]
      BY <2>0, <2>11 DEF SubmitReturns, Owner, TypeOK
    <3>2. QED
      BY <2>0, <3>1, OwnerStays
  <2>12. ASSUME NEW o \in Ops, RequestCancel(o)
        PROVE  [Abstract!Next]_(Abstract!vars)
    BY <2>12, NobodyMoves DEF RequestCancel
  <2>13. ASSUME NEW o \in Ops, CancelNative(o)
        PROVE  [Abstract!Next]_(Abstract!vars)
    BY <2>13, NobodyMoves DEF CancelNative
  <2>14. ASSUME NEW o \in Ops, WindowsCompletes(o)
        PROVE  [Abstract!Next]_(Abstract!vars)
    BY <2>14, NobodyMoves DEF WindowsCompletes
  <2>15. ASSUME NEW o \in Ops, Deactivate(o)
        PROVE  [Abstract!Next]_(Abstract!vars)
    <3>1. Owner(o)' = Owner(o) /\ handle' = handle /\ pc' = [pc EXCEPT ![o] = pc'[o]]
      BY <2>0, <2>15 DEF Deactivate, Owner, TypeOK
    <3>2. QED
      BY <2>0, <3>1, OwnerStays
  <2>16. ASSUME NEW o \in Ops, Send(o)
        PROVE  [Abstract!Next]_(Abstract!vars)
    <3>1. CASE receiver
      <4>1. Owner(o) = "windows" /\ Owner(o)' = "receiver" /\ handle' = handle /\ pc' = [pc EXCEPT ![o] = pc'[o]]
        BY <2>0, <2>16, <3>1 DEF Send, Owner, TypeOK
      <4>2. Abstract!Move(o, "windows", "receiver")
        BY <2>0, <4>1, OwnerMoves
      <4>3. Abstract!Record(o)
        BY <4>2 DEF Abstract!Record
      <4>4. QED
        BY <4>3 DEF Abstract!Next
    <3>2. CASE ~receiver
      <4>1. Owner(o) = "windows" /\ Owner(o)' = "permit" /\ handle' = handle /\ pc' = [pc EXCEPT ![o] = pc'[o]]
        BY <2>0, <2>16, <3>2 DEF Send, Owner, TypeOK
      <4>2. Abstract!Move(o, "windows", "permit")
        BY <2>0, <4>1, OwnerMoves
      <4>3. Abstract!Retire(o)
        BY <4>2 DEF Abstract!Retire
      <4>4. QED
        BY <4>3 DEF Abstract!Next
    <3>3. QED
      BY <3>1, <3>2
  <2>17. ASSUME NEW o \in Ops, Consume(o)
        PROVE  [Abstract!Next]_(Abstract!vars)
    <3>1. Owner(o) = "receiver" /\ Owner(o)' = "permit" /\ handle' = handle /\ pc' = [pc EXCEPT ![o] = pc'[o]]
      BY <2>0, <2>17 DEF Consume, Owner, TypeOK
    <3>2. Abstract!Move(o, "receiver", "permit")
      BY <2>0, <3>1, OwnerMoves
    <3>3. Abstract!Retire(o)
      BY <3>2 DEF Abstract!Retire
    <3>4. QED
      BY <3>3 DEF Abstract!Next
  <2>18. ASSUME NEW o \in Ops, DropPermit(o)
        PROVE  [Abstract!Next]_(Abstract!vars)
    <3>1. Owner(o) = "permit" /\ Owner(o)' = "spent" /\ handle' = handle /\ pc' = [pc EXCEPT ![o] = pc'[o]]
      BY <2>0, <2>18 DEF DropPermit, Owner, TypeOK
    <3>2. Abstract!Move(o, "permit", "spent")
      BY <2>0, <3>1, OwnerMoves
    <3>3. Abstract!Spend(o)
      BY <3>2 DEF Abstract!Spend
    <3>4. QED
      BY <3>3 DEF Abstract!Next
  <2>19. ASSUME NEW w \in Workers, Dequeue(w)
        PROVE  [Abstract!Next]_(Abstract!vars)
    BY <2>19, NobodyMoves DEF Dequeue
  <2>20. ASSUME NEW w \in Workers, Remove(w)
        PROVE  [Abstract!Next]_(Abstract!vars)
    <3>1. PICK o \in Ops : pc[o] = "native" /\ pc' = [pc EXCEPT ![o] = "delivering"]
      BY <2>20, RemoveFinds DEF Inductive
    <3>2. pc[o] = "native" /\ pc'[o] = "delivering" /\ pc' = [pc EXCEPT ![o] = pc'[o]]
      BY <2>0, <3>1 DEF TypeOK
    <3>3. Owner(o)' = Owner(o)
      BY <3>2 DEF Owner
    <3>4. handle' = handle
      BY <2>20 DEF Remove, resVars
    <3>5. QED
      BY <2>0, <3>2, <3>3, <3>4, OwnerStays
  <2>21. ASSUME NEW c \in Callers, NEW r \in Resources, NEW access \in Access,
            BeginCall(c, r, access)
        PROVE  [Abstract!Next]_(Abstract!vars)
    BY <2>21, NobodyMoves DEF BeginCall
  <2>22. ASSUME NEW c \in Callers, EndCall(c)
        PROVE  [Abstract!Next]_(Abstract!vars)
    <3>1. CASE calls[c].access = "consume"
      <4>1. /\ calls[c].resource \in Resources
            /\ \A o \in Ops : Target[o] = calls[c].resource => pc[o] \notin LeasedPCs
        BY <2>0, <2>22, <3>1 DEF EndCall, Inductive, Calls, TypeOK
      <4>2. pc' = pc /\ handle' = [handle EXCEPT ![calls[c].resource] = "closed"]
        BY <2>22, <3>1 DEF EndCall
      <4>3. QED
        BY <4>1, <4>2, HandleCloses
    <3>2. CASE calls[c].access # "consume"
      BY <2>22, <3>2, NobodyMoves DEF EndCall
    <3>3. QED
      BY <3>1, <3>2
  <2>23. ASSUME NEW r \in Resources, Close(r)
        PROVE  [Abstract!Next]_(Abstract!vars)
    <3>1. /\ pc' = pc /\ handle' = [handle EXCEPT ![r] = "closed"]
          /\ \A o \in Ops : Target[o] = r => pc[o] \notin LeasedPCs
      BY <2>0, <2>23, NotRetained DEF Close
    <3>2. QED
      BY <3>1, HandleCloses
  <2>24. CASE DropReceiver
    BY <2>24, NobodyMoves DEF DropReceiver
  <2>25. ASSUME UNCHANGED vars
        PROVE  [Abstract!Next]_(Abstract!vars)
    BY <2>25, NobodyMoves
  <2>26. QED
    BY <2>1, <2>2, <2>3, <2>4, <2>5, <2>6, <2>7, <2>8, <2>9, <2>10, <2>11, <2>12, <2>13,
       <2>14, <2>15, <2>16, <2>17, <2>18, <2>19, <2>20, <2>21, <2>22, <2>23, <2>24, <2>25
    DEF Next, Submitting, Delivering
<1>3. QED
  BY <1>1, <1>2, InductiveInvariant, PTL DEF Spec, ImplementsIoSpec, Abstract!Spec
=============================================================================
