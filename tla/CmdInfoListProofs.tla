------------------------- MODULE CmdInfoListProofs -------------------------
(***************************************************************************)
(* Proofs about CmdInfoList for every number of threads and slots: type    *)
(* correctness, no slot lost or handed out twice, the meaning of nrAct,    *)
(* and that the list implements the pool of module CmdPool.                *)
(***************************************************************************)
EXTENDS CmdInfoList, FiniteSetTheorems, TLAPS

-----------------------------------------------------------------------------
(* Composite words: their two halves, and the empty one.                    *)
LEMMA CompositeType ==
  /\ EmptyPending \in Composite
  /\ \A v \in Composite : v.cmdOffset \in Offsets /\ v.freeListLength \in Nat
  /\ \A c \in Offsets, n \in Nat :
       [cmdOffset |-> c, freeListLength |-> n] \in Composite
BY IdCountAssumption DEF EmptyPending, Composite, Offsets

(* The variables of CmdInfoList keep their types.                          *)
THEOREM TypeCorrect == Spec => []TypeOK
<1> USE IdCountAssumption, CompositeType DEF TypeOK, CmdIds, Offsets
<1>1. Init => TypeOK
  BY DEF Init, Steps
<1>2. TypeOK /\ [Next]_vars => TypeOK'
  <2> SUFFICES ASSUME TypeOK, [Next]_vars PROVE TypeOK'
    OBVIOUS
  <2> USE DEF Steps, Goto, Forget
  <2>1. ASSUME NEW t \in Threads, LockCmdList(t) PROVE TypeOK'
    BY <2>1 DEF LockCmdList
  <2>2. ASSUME NEW t \in Threads, PopFree(t) PROVE TypeOK'
    BY <2>2 DEF PopFree
  <2>3. ASSUME NEW t \in Threads, ReadPending(t) PROVE TypeOK'
    <3>1. CASE pending.cmdOffset = 0
      BY <2>3, <3>1 DEF ReadPending
    <3>2. CASE pending.cmdOffset # 0
      BY <2>3, <3>2 DEF ReadPending
    <3>3. QED
      BY <3>1, <3>2
  <2>4. ASSUME NEW t \in Threads, FlushCas(t) PROVE TypeOK'
    <3>1. CASE pending = oldValue[t]
      BY <2>4, <3>1 DEF FlushCas, Flush
    <3>2. CASE pending # oldValue[t]
      BY <2>4, <3>2 DEF FlushCas, Flush
    <3>3. QED
      BY <3>1, <3>2
  <2>5. ASSUME NEW t \in Threads, GetReturnsNull(t) PROVE TypeOK'
    BY <2>5 DEF GetReturnsNull
  <2>6. ASSUME NEW t \in Threads, PutFree(t) PROVE TypeOK'
    BY <2>6 DEF PutFree, Active
  <2>7. ASSUME NEW t \in Threads, PutDec(t) PROVE TypeOK'
    BY <2>7 DEF PutDec
  <2>8. ASSUME NEW t \in Threads, PushRead(t) PROVE TypeOK'
    BY <2>8 DEF PushRead
  <2>9. ASSUME NEW t \in Threads, PushCas(t) PROVE TypeOK'
    <3>1. NewPending(t) \in Composite
      BY DEF NewPending
    <3>2. CASE pending = oldValue[t]
      <4>1. /\ pending' = NewPending(t)
            /\ cmd' = [cmd EXCEPT ![t] = 0]
            /\ pc' = [pc EXCEPT ![t] = "idle"]
            /\ oldValue' = [oldValue EXCEPT ![t] = EmptyPending]
            /\ UNCHANGED <<cmdLock, freeCmdList, freeLink, atomicStatus, nrAct>>
        BY <2>9, <3>2 DEF PushCas, Push
      <4>2. QED
        BY <3>1, <4>1
    <3>3. CASE pending # oldValue[t]
      BY <2>9, <3>3 DEF PushCas, Push
    <3>4. QED
      BY <3>2, <3>3
  <2>10. CASE UNCHANGED vars
    BY <2>10 DEF vars
  <2>11. QED
    BY <2>1, <2>2, <2>3, <2>4, <2>5, <2>6, <2>7, <2>8, <2>9, <2>10
       DEF Next, Get, Put
<1>3. QED
  BY <1>1, <1>2, PTL DEF Spec

-----------------------------------------------------------------------------
(* Lemmas about linked lists of slots.                                     *)
LEMMA ListTop ==
  ASSUME NEW link, NEW n \in Nat, NEW q, NEW top, IsList(link, q, n, top)
  PROVE  /\ n = 0 => top = 0 /\ Slots(q) = {}
         /\ n # 0 => top # 0 /\ top \in Slots(q)
         /\ Slots(q) \subseteq CmdIds
BY IdCountAssumption DEF IsList, Slots, CmdIds

(* Popping the top slot leaves the rest, whose head is the top's link.     *)
LEMMA ListPop ==
  ASSUME NEW link, NEW n \in Nat \ {0}, NEW q, NEW top, IsList(link, q, n, top)
  PROVE  \E r \in [1..(n - 1) -> CmdIds] :
            /\ IsList(link, r, n - 1, link[top])
            /\ Slots(r) = Slots(q) \ {top}
<1> DEFINE r == [i \in 1..(n - 1) |-> q[i]]
<1>1. r \in [1..(n - 1) -> CmdIds]
  BY DEF IsList
<1>2. link[top] = IF n - 1 = 0 THEN 0 ELSE r[n - 1]
  BY DEF IsList
<1>3. \A i \in 1..(n - 1) : link[r[i]] = IF i = 1 THEN 0 ELSE r[i - 1]
  BY DEF IsList
<1>4. \A i, j \in 1..(n - 1) : r[i] = r[j] => i = j
  BY DEF IsList
<1>5. Slots(r) = Slots(q) \ {top}
  BY DEF IsList, Slots
<1>6. QED
  BY <1>1, <1>2, <1>3, <1>4, <1>5 DEF IsList

(* Pushing a slot that is not on the list and links to its head.           *)
LEMMA ListPush ==
  ASSUME NEW link, NEW n \in Nat, NEW q, NEW top, IsList(link, q, n, top),
         NEW c \in CmdIds, c \notin Slots(q), link[c] = top
  PROVE  \E r \in [1..(n + 1) -> CmdIds] :
            /\ IsList(link, r, n + 1, c)
            /\ Slots(r) = Slots(q) \cup {c}
<1> DEFINE r == [i \in 1..(n + 1) |-> IF i = n + 1 THEN c ELSE q[i]]
<1>1. r \in [1..(n + 1) -> CmdIds]
  BY DEF IsList
<1>2. \A i \in 1..(n + 1) : link[r[i]] = IF i = 1 THEN 0 ELSE r[i - 1]
  BY DEF IsList
<1>3. \A i, j \in 1..(n + 1) : r[i] = r[j] => i = j
  BY DEF IsList, Slots
<1>4. Slots(r) = Slots(q) \cup {c}
  BY DEF IsList, Slots
<1>5. c = r[n + 1]
  OBVIOUS
<1> HIDE DEF r
<1>6. IsList(link, r, n + 1, c)
  BY <1>1, <1>2, <1>3, <1>5 DEF IsList
<1>7. QED
  BY <1>1, <1>4, <1>6

(* A change of the link of a slot that is not on the list is not seen.     *)
LEMMA ListRelink ==
  ASSUME NEW link \in [CmdIds -> Offsets], NEW n \in Nat, NEW q, NEW top,
         IsList(link, q, n, top), NEW c, c \notin Slots(q), NEW v
  PROVE  IsList([link EXCEPT ![c] = v], q, n, top)
BY DEF IsList, Slots

(* A list has at most IdCount slots.                                       *)
LEMMA ListLength ==
  ASSUME NEW link, NEW n \in Nat, NEW q, NEW top, IsList(link, q, n, top)
  PROVE  n \in Offsets
<1>1. q \in Injection(1..n, CmdIds)
  BY DEF IsList, Injection, IsInjective
<1>2. IsFiniteSet(CmdIds) /\ Cardinality(CmdIds) = IdCount
  BY IdCountAssumption, FS_Interval DEF CmdIds
<1>3. IsFiniteSet(1..n) /\ Cardinality(1..n) = n
  BY FS_Interval
<1>4. Cardinality(1..n) <= Cardinality(CmdIds)
  BY <1>1, <1>2, FS_Injection
<1>5. QED
  BY <1>2, <1>3, <1>4, IdCountAssumption DEF Offsets

-----------------------------------------------------------------------------
(* The inductive invariant.  The lock is held exactly by the thread that   *)
(* pops; a thread that is about to empty the pending list found the locked *)
(* list empty; a slot about to be pushed links to the head that the push   *)
(* compares with, so when the comparison succeeds it extends the list, no  *)
(* matter what happened to the list in between.                            *)
LockHeld ==
  \A t \in Threads : pc[t] \in {"get", "flush"} <=> cmdLock = t
FlushSees ==
  \A t \in Threads : pc[t] = "flush" => freeCmdList = 0
LinkReady ==
  \A t \in Threads : pc[t] = "cas" => freeLink[cmd[t]] = oldValue[t].cmdOffset
ListsPlaced ==
  \E n, m \in Nat :
    \E fq \in [1..n -> CmdIds], pq \in [1..m -> CmdIds] : Placed(n, m, fq, pq)

IInv ==
  TypeOK /\ LockHeld /\ FlushSees /\ LinkReady /\ OnePutter /\ ListsPlaced

(* How a step changes who owns which slot.                                 *)
LEMMA FreeUnchanged ==
  ASSUME UNCHANGED <<atomicStatus, cmd>>, 
         \A t \in Threads : Putting(t)' <=> Putting(t)
  PROVE  Active' = Active /\ InTransit' = InTransit /\ Free' = Free
BY DEF Active, InTransit, Free

(* A slot that is popped becomes active: it is free no more.                *)
LEMMA FreePop ==
  ASSUME TypeOK, NEW t \in Threads, PopFree(t)
  PROVE  /\ Active' = Active \cup {freeCmdList}
         /\ InTransit' = InTransit
         /\ Free' = Free \ {freeCmdList}
<1>1. Active' = Active \cup {freeCmdList}
  BY DEF Active, PopFree, TypeOK, CmdIds, Offsets
<1>2. InTransit' = InTransit
  BY DEF InTransit, Putting, PopFree, Goto, TypeOK
<1>3. QED
  BY <1>1, <1>2 DEF Free

(* A slot that is being put back is in transit, not active.                 *)
LEMMA FreePut ==
  ASSUME TypeOK, NEW t \in Threads, PutFree(t)
  PROVE  /\ cmd'[t] \in Active
         /\ Active' = Active \ {cmd'[t]}
         /\ InTransit' = InTransit \cup {cmd'[t]}
<1>1. PICK c \in Active :
        /\ atomicStatus' = [atomicStatus EXCEPT ![c] = "FREE"]
        /\ cmd' = [cmd EXCEPT ![t] = c]
  BY DEF PutFree
<1>2. cmd'[t] = c
  BY <1>1 DEF TypeOK
<1>3. Active' = Active \ {c}
  BY <1>1 DEF Active, TypeOK
<1>4. InTransit' = InTransit \cup {c}
  BY <1>1, <1>2 DEF InTransit, Putting, PutFree, Goto, TypeOK
<1>5. QED
  BY <1>1, <1>2, <1>3, <1>4

(* A slot in transit that is pushed becomes free.                           *)
LEMMA FreePush ==
  ASSUME TypeOK, OnePutter, NEW t \in Threads, PushCas(t), pending = oldValue[t]
  PROVE  /\ Active' = Active
         /\ cmd[t] \in CmdIds \ (Active \cup Free)
         /\ Free' = Free \cup {cmd[t]}
<1>1. /\ pc[t] = "cas"
      /\ cmd' = [cmd EXCEPT ![t] = 0]
      /\ pc' = [pc EXCEPT ![t] = "idle"]
      /\ atomicStatus' = atomicStatus
  BY DEF PushCas, Push, Goto
<1>2. Active' = Active
  BY <1>1 DEF Active
<1>3. cmd[t] \in CmdIds \ Active /\ cmd[t] \in InTransit
  BY <1>1 DEF OnePutter, Putting, InTransit
<1>4. InTransit' = InTransit \ {cmd[t]}
  BY <1>1 DEF InTransit, Putting, OnePutter, TypeOK
<1>5. QED
  BY <1>2, <1>3, <1>4 DEF Free

(* The list NVMEPCIEInitQueue builds satisfies the invariant.               *)
LEMMA InitIInv == Init => IInv
<1> SUFFICES ASSUME Init PROVE IInv
  OBVIOUS
<1> USE IdCountAssumption, ThreadsAssumption
<1>1. TypeOK
  BY DEF Init, TypeOK, CmdIds, Offsets, Composite, EmptyPending, Steps
<1>2. LockHeld /\ FlushSees /\ LinkReady /\ OnePutter
  BY DEF Init, LockHeld, FlushSees, LinkReady, OnePutter, Putting
<1>3. ListsPlaced
  <2> DEFINE fq == [i \in 1..IdCount |-> i]
             pq == [i \in 1..0 |-> 1]
  <2>1. fq \in [1..IdCount -> CmdIds] /\ pq \in [1..0 -> CmdIds]
    BY DEF CmdIds
  <2>2. IsList(freeLink, fq, IdCount, freeCmdList)
    BY <2>1 DEF Init, IsList, CmdIds
  <2>3. IsList(freeLink, pq, 0, pending.cmdOffset) /\ pending.freeListLength = 0
    BY <2>1 DEF Init, IsList, CmdIds, EmptyPending
  <2>4. Slots(fq) = CmdIds /\ Slots(pq) = {}
    BY DEF Slots, CmdIds
  <2>5. Free = CmdIds
    BY DEF Init, Free, Active, InTransit, Putting
  <2>6. Placed(IdCount, 0, fq, pq)
    BY <2>2, <2>3, <2>4, <2>5 DEF Placed
  <2>7. QED
    BY <2>1, <2>6 DEF ListsPlaced
<1>4. QED
  BY <1>1, <1>2, <1>3 DEF IInv

(* The parts about single threads are preserved.                           *)
LEMMA StepThreads ==
  ASSUME IInv, TypeOK', [Next]_vars
  PROVE  LockHeld' /\ FlushSees' /\ OnePutter'
<1> USE ThreadsAssumption DEF IInv, TypeOK, LockHeld, FlushSees, OnePutter, Putting, Goto
<1>1. ASSUME NEW t \in Threads, LockCmdList(t)
      PROVE  LockHeld' /\ FlushSees' /\ OnePutter'
  BY <1>1 DEF LockCmdList, Active
<1>2. ASSUME NEW t \in Threads, PopFree(t)
      PROVE  LockHeld' /\ FlushSees' /\ OnePutter'
  <2>1. LockHeld' /\ FlushSees'
    BY <1>2 DEF PopFree
  <2>2. freeCmdList \in Free
    <3>1. PICK n \in Nat, m \in Nat :
            \E fq \in [1..n -> CmdIds], pq \in [1..m -> CmdIds] : Placed(n, m, fq, pq)
      BY DEF ListsPlaced
    <3>2. PICK fq \in [1..n -> CmdIds], pq \in [1..m -> CmdIds] : Placed(n, m, fq, pq)
      BY <3>1
    <3>3. freeCmdList \in Slots(fq)
      BY <1>2, <3>2, ListTop DEF Placed, PopFree
    <3>4. QED
      BY <3>2, <3>3 DEF Placed
  <2>3. \A u \in Threads : Putting(u) => cmd[u] # freeCmdList
    BY <2>2 DEF Free, InTransit
  <2>4. OnePutter'
    BY ZenonT(40), <1>2, <2>3, FreePop DEF PopFree
  <2>5. QED
    BY <2>1, <2>4
<1>3. ASSUME NEW t \in Threads, ReadPending(t)
      PROVE  LockHeld' /\ FlushSees' /\ OnePutter'
  <2>1. CASE pending.cmdOffset = 0
    BY <1>3, <2>1 DEF ReadPending, Active
  <2>2. CASE pending.cmdOffset # 0
    BY <1>3, <2>2 DEF ReadPending, Active
  <2>3. QED
    BY <2>1, <2>2
<1>4. ASSUME NEW t \in Threads, FlushCas(t)
      PROVE  LockHeld' /\ FlushSees' /\ OnePutter'
  <2>1. CASE pending = oldValue[t]
    BY <1>4, <2>1 DEF FlushCas, Flush, Active
  <2>2. CASE pending # oldValue[t]
    BY <1>4, <2>2 DEF FlushCas, Flush, Active
  <2>3. QED
    BY <2>1, <2>2
<1>5. ASSUME NEW t \in Threads, GetReturnsNull(t)
      PROVE  LockHeld' /\ FlushSees' /\ OnePutter'
  BY <1>5 DEF GetReturnsNull, Active
<1>6. ASSUME NEW t \in Threads, PutFree(t)
      PROVE  LockHeld' /\ FlushSees' /\ OnePutter'
  <2>1. LockHeld' /\ FlushSees'
    BY <1>6 DEF PutFree
  <2>2. cmd'[t] \in Active /\ Active' = Active \ {cmd'[t]}
    BY <1>6, FreePut
  <2>3. \A u \in Threads : u # t => cmd'[u] = cmd[u] /\ pc'[u] = pc[u]
    BY <1>6 DEF PutFree
  <2>4. OnePutter'
    BY <2>2, <2>3 DEF Active
  <2>5. QED
    BY <2>1, <2>4
<1>7. ASSUME NEW t \in Threads, PutDec(t)
      PROVE  LockHeld' /\ FlushSees' /\ OnePutter'
  BY <1>7 DEF PutDec, Active
<1>8. ASSUME NEW t \in Threads, PushRead(t)
      PROVE  LockHeld' /\ FlushSees' /\ OnePutter'
  BY <1>8 DEF PushRead, Active
<1>9. ASSUME NEW t \in Threads, PushCas(t)
      PROVE  LockHeld' /\ FlushSees' /\ OnePutter'
  <2>1. CASE pending = oldValue[t]
    BY <1>9, <2>1 DEF PushCas, Push, Active
  <2>2. CASE pending # oldValue[t]
    BY <1>9, <2>2 DEF PushCas, Push, Active
  <2>3. QED
    BY <2>1, <2>2
<1>10. CASE UNCHANGED vars
  BY <1>10 DEF vars, Active
<1>11. QED
  BY <1>1, <1>2, <1>3, <1>4, <1>5, <1>6, <1>7, <1>8, <1>9, <1>10
     DEF Next, Get, Put

(* The link of a slot being pushed stays right until its swap.              *)
LEMMA StepLinkReady ==
  ASSUME IInv, [Next]_vars
  PROVE  LinkReady'
<1> USE DEF IInv, TypeOK, LinkReady, Goto, Forget
<1>1. ASSUME NEW t \in Threads,
             LockCmdList(t) \/ PopFree(t) \/ ReadPending(t) \/ GetReturnsNull(t)
      PROVE  LinkReady'
  BY <1>1 DEF LockCmdList, PopFree, ReadPending, GetReturnsNull
<1>2. ASSUME NEW t \in Threads, FlushCas(t) PROVE LinkReady'
  <2>1. CASE pending = oldValue[t]
    BY <1>2, <2>1 DEF FlushCas, Flush
  <2>2. CASE pending # oldValue[t]
    BY <1>2, <2>2 DEF FlushCas, Flush
  <2>3. QED
    BY <2>1, <2>2
<1>3. ASSUME NEW t \in Threads, PutFree(t) \/ PutDec(t) PROVE LinkReady'
  BY <1>3 DEF PutFree, PutDec
<1>4. ASSUME NEW t \in Threads, PushRead(t) PROVE LinkReady'
  <2>1. cmd[t] \in CmdIds /\ \A u \in Threads : u # t /\ pc[u] = "cas" => cmd[u] # cmd[t]
    BY <1>4 DEF OnePutter, Putting, PushRead
  <2>2. \A u \in Threads : u # t /\ pc[u] = "cas" => cmd[u] \in CmdIds
    BY DEF OnePutter, Putting
  <2>3. QED
    BY <1>4, <2>1, <2>2 DEF PushRead
<1>5. ASSUME NEW t \in Threads, PushCas(t) PROVE LinkReady'
  <2>1. CASE pending = oldValue[t]
    BY <1>5, <2>1 DEF PushCas, Push
  <2>2. CASE pending # oldValue[t]
    BY <1>5, <2>2 DEF PushCas, Push
  <2>3. QED
    BY <2>1, <2>2
<1>6. CASE UNCHANGED vars
  BY <1>6 DEF vars
<1>7. QED
  BY <1>1, <1>2, <1>3, <1>4, <1>5, <1>6 DEF Next, Get, Put

(* A step that moves no slot and no link keeps the lists.                  *)
LEMMA ListsKept ==
  ASSUME ListsPlaced, Free' = Free, UNCHANGED <<freeCmdList, freeLink, pending>>
  PROVE  ListsPlaced'
BY DEF ListsPlaced, Placed

(* Every step keeps the free slots on exactly one of two lists.             *)
LEMMA StepLists ==
  ASSUME IInv, TypeOK', [Next]_vars
  PROVE  ListsPlaced'
<1> USE IdCountAssumption DEF IInv
<1>1. PICK n \in Nat, m \in Nat :
        \E fq \in [1..n -> CmdIds], pq \in [1..m -> CmdIds] : Placed(n, m, fq, pq)
  BY DEF ListsPlaced
<1>2. PICK fq \in [1..n -> CmdIds], pq \in [1..m -> CmdIds] : Placed(n, m, fq, pq)
  BY <1>1
<1>3. ASSUME NEW t \in Threads,
             LockCmdList(t) \/ ReadPending(t) \/ GetReturnsNull(t) \/ PutDec(t)
      PROVE  ListsPlaced'
  <2>1. UNCHANGED <<freeCmdList, freeLink, pending, atomicStatus, cmd>>
    BY <1>3 DEF LockCmdList, ReadPending, GetReturnsNull, PutDec
  <2>2. \A u \in Threads : Putting(u)' <=> Putting(u)
    BY <1>3 DEF LockCmdList, ReadPending, GetReturnsNull, PutDec, Putting, Goto, TypeOK
  <2>3. QED
    BY <2>1, <2>2, FreeUnchanged, ListsKept
<1>4. ASSUME NEW t \in Threads, PopFree(t) PROVE ListsPlaced'
  <2>1. n # 0 /\ freeCmdList \in Slots(fq) /\ freeCmdList \in CmdIds
    BY <1>2, <1>4, ListTop DEF Placed, PopFree
  <2>2. PICK r \in [1..(n - 1) -> CmdIds] :
          /\ IsList(freeLink, r, n - 1, freeLink[freeCmdList])
          /\ Slots(r) = Slots(fq) \ {freeCmdList}
    <3>1. n \in Nat \ {0} /\ IsList(freeLink, fq, n, freeCmdList)
      BY <1>2, <2>1 DEF Placed
    <3>2. QED
      BY <3>1, ListPop
  <2>3. freeLink' = freeLink /\ pending' = pending
        /\ freeCmdList' = freeLink[freeCmdList]
    BY <1>4 DEF PopFree
  <2>4. Free' = Free \ {freeCmdList}
    BY <1>4, FreePop
  <2>5. Placed(n - 1, m, r, pq)'
    BY <1>2, <2>1, <2>2, <2>3, <2>4 DEF Placed
  <2>6. QED
    BY <2>1, <2>5 DEF ListsPlaced
<1>5. ASSUME NEW t \in Threads, FlushCas(t) PROVE ListsPlaced'
  <2>1. UNCHANGED <<freeLink, atomicStatus, cmd>>
    BY <1>5 DEF FlushCas, Flush
  <2>2. \A u \in Threads : Putting(u)' <=> Putting(u)
    <3>1. pc[t] = "flush" /\ pc' = [pc EXCEPT ![t] = "get"]
      BY <1>5 DEF FlushCas, Flush, Goto
    <3>2. QED
      BY <3>1 DEF Putting, TypeOK
  <2>3. Free' = Free
    BY <2>1, <2>2, FreeUnchanged
  <2>4. CASE pending = oldValue[t]
    <3>1. freeCmdList = 0
      BY <1>5 DEF FlushCas, Flush, FlushSees
    <3>2. n = 0 /\ Slots(fq) = {}
      BY <1>2, <3>1, ListTop DEF Placed
    <3>3. pending' = EmptyPending /\ freeCmdList' = pending.cmdOffset
      BY <1>5, <2>4 DEF FlushCas, Flush
    <3>4. IsList(freeLink', fq, 0, 0)
      BY <1>2, <3>1, <3>2, <2>1 DEF Placed
    <3>5. Placed(m, 0, pq, fq)'
      BY <1>2, <2>1, <2>3, <3>2, <3>3, <3>4 DEF Placed, EmptyPending
    <3>6. QED
      BY <3>2, <3>5 DEF ListsPlaced
  <2>5. CASE pending # oldValue[t]
    <3>1. UNCHANGED <<freeCmdList, pending>>
      BY <1>5, <2>5 DEF FlushCas, Flush
    <3>2. QED
      BY <2>1, <2>3, <3>1, ListsKept
  <2>6. QED
    BY <2>4, <2>5
<1>6. ASSUME NEW t \in Threads, PutFree(t) PROVE ListsPlaced'
  <2>1. Free' = Free
    BY <1>6, FreePut DEF Free, Active
  <2>2. UNCHANGED <<freeCmdList, freeLink, pending>>
    BY <1>6 DEF PutFree
  <2>3. QED
    BY <2>1, <2>2, ListsKept
<1>7. ASSUME NEW t \in Threads, PushRead(t) PROVE ListsPlaced'
  <2>1. UNCHANGED <<freeCmdList, pending, atomicStatus, cmd>>
    BY <1>7 DEF PushRead
  <2>2. \A u \in Threads : Putting(u)' <=> Putting(u)
    BY <1>7 DEF PushRead, Putting, Goto, TypeOK
  <2>3. Free' = Free
    BY <2>1, <2>2, FreeUnchanged
  <2>4. cmd[t] \in InTransit
    BY <1>7 DEF PushRead, InTransit, Putting
  <2>5. cmd[t] \notin Slots(fq) /\ cmd[t] \notin Slots(pq)
    BY <1>2, <2>4 DEF Placed, Free
  <2>6. freeLink' = [freeLink EXCEPT ![cmd[t]] = pending.cmdOffset]
    BY <1>7 DEF PushRead
  <2>7. /\ IsList(freeLink', fq, n, freeCmdList)
        /\ IsList(freeLink', pq, m, pending.cmdOffset)
    BY <1>2, <2>5, <2>6, ListRelink DEF Placed, TypeOK
  <2>8. Placed(n, m, fq, pq)'
    BY <1>2, <2>1, <2>3, <2>7 DEF Placed
  <2>9. QED
    BY <2>8 DEF ListsPlaced
<1>8. ASSUME NEW t \in Threads, PushCas(t) PROVE ListsPlaced'
  <2>1. UNCHANGED <<freeCmdList, freeLink, atomicStatus>>
    BY <1>8 DEF PushCas, Push
  <2>2. CASE pending = oldValue[t]
    <3>1. /\ cmd[t] \in CmdIds \ (Active \cup Free)
          /\ Free' = Free \cup {cmd[t]}
      BY <1>8, <2>2, FreePush
    <3>2. cmd[t] \notin Slots(fq) /\ cmd[t] \notin Slots(pq)
      BY <1>2, <3>1 DEF Placed
    <3>3. freeLink[cmd[t]] = pending.cmdOffset
      BY <1>8, <2>2 DEF LinkReady, PushCas, Push
    <3>4. PICK r \in [1..(m + 1) -> CmdIds] :
            /\ IsList(freeLink, r, m + 1, cmd[t])
            /\ Slots(r) = Slots(pq) \cup {cmd[t]}
      BY <1>2, <3>1, <3>2, <3>3, ListPush DEF Placed
    <3>5. pending' = NewPending(t)
      BY <1>8, <2>2 DEF PushCas, Push
    <3>6. pending'.cmdOffset = cmd[t] /\ pending'.freeListLength = m + 1
      BY <1>2, <2>2, <3>5 DEF NewPending, Placed
    <3>7. Placed(n, m + 1, fq, r)'
      BY <1>2, <2>1, <3>1, <3>2, <3>4, <3>6 DEF Placed
    <3>8. QED
      BY <3>7 DEF ListsPlaced
  <2>3. CASE pending # oldValue[t]
    <3>1. UNCHANGED <<cmd, pending>> /\ pc[t] = "cas" /\ pc' = [pc EXCEPT ![t] = "push"]
      BY <1>8, <2>3 DEF PushCas, Push, Goto
    <3>2. \A u \in Threads : Putting(u)' <=> Putting(u)
      BY <3>1 DEF Putting, TypeOK
    <3>3. QED
      BY <2>1, <3>1, <3>2, FreeUnchanged, ListsKept
  <2>4. QED
    BY <2>2, <2>3
<1>9. CASE UNCHANGED vars
  <2>1. Free' = Free
    BY <1>9 DEF vars, Free, Active, InTransit, Putting
  <2>2. QED
    BY <1>9, <2>1, ListsKept DEF vars
<1>10. QED
  BY <1>3, <1>4, <1>5, <1>6, <1>7, <1>8, <1>9 DEF Next, Get, Put

(* The inductive invariant, on which the theorems below rest.               *)
THEOREM IInvInvariant == Spec => []IInv
<1>1. Init => IInv
  BY InitIInv
<1>2. IInv /\ TypeOK' /\ [Next]_vars => IInv'
  BY StepThreads, StepLinkReady, StepLists DEF IInv
<1>3. QED
  BY <1>1, <1>2, TypeCorrect, PTL DEF Spec

(* No command slot is lost or handed out twice, and the length half of the *)
(* pending word is right: property EverySlotInOnePlace.                    *)
THEOREM SlotsConserved == Spec => []EverySlotInOnePlace
<1>1. IInv => EverySlotInOnePlace
  <2> SUFFICES ASSUME IInv PROVE EverySlotInOnePlace
    OBVIOUS
  <2>1. PICK n \in Nat, m \in Nat :
          \E fq \in [1..n -> CmdIds], pq \in [1..m -> CmdIds] : Placed(n, m, fq, pq)
    BY DEF IInv, ListsPlaced
  <2>2. PICK fq \in [1..n -> CmdIds], pq \in [1..m -> CmdIds] : Placed(n, m, fq, pq)
    BY <2>1
  <2>3. n \in Offsets /\ m \in Offsets
    BY <2>2, ListLength DEF Placed
  <2>4. QED
    BY <2>2, <2>3 DEF EverySlotInOnePlace, IInv
<1>2. QED
  BY <1>1, IInvInvariant, PTL

-----------------------------------------------------------------------------
(* nrAct.                                                                  *)
(* The sets that nrAct counts are finite.                                   *)
LEMMA ActiveFinite ==
  /\ IsFiniteSet(Active) /\ Cardinality(Active) \in Nat
  /\ IsFiniteSet(Uncounted) /\ Cardinality(Uncounted) \in Nat
<1>1. IsFiniteSet(CmdIds)
  BY IdCountAssumption, FS_Interval DEF CmdIds
<1>2. Active \subseteq CmdIds /\ Uncounted \subseteq Threads
  BY DEF Active, Uncounted
<1>3. QED
  BY <1>1, <1>2, ThreadsAssumption, FS_Subset, FS_CardinalityType

(* nrAct is the number of outstanding commands plus the number of threads  *)
(* between freeing a slot and counting it: property NrActCounts.           *)
THEOREM NrActCorrect == Spec => []NrActCounts
<1>1. Init => NrActCounts
  <2> SUFFICES ASSUME Init PROVE NrActCounts
    OBVIOUS
  <2>1. Active = {} /\ Uncounted = {}
    BY DEF Init, Active, Uncounted
  <2>2. QED
    BY <2>1, FS_EmptySet DEF Init, NrActCounts
<1>2. IInv /\ NrActCounts /\ [Next]_vars => NrActCounts'
  <2> SUFFICES ASSUME IInv, NrActCounts, [Next]_vars PROVE NrActCounts'
    OBVIOUS
  <2> USE ActiveFinite DEF NrActCounts
  <2> USE DEF IInv, TypeOK, Goto
  <2>1. ASSUME UNCHANGED <<atomicStatus, nrAct>>,
               \A u \in Threads : (pc[u] = "dec")' <=> pc[u] = "dec"
        PROVE  NrActCounts'
    <3>1. Active' = Active /\ Uncounted' = Uncounted
      BY <2>1 DEF Active, Uncounted
    <3>2. QED
      BY <2>1, <3>1
  <2>2. ASSUME NEW t \in Threads,
               LockCmdList(t) \/ ReadPending(t) \/ GetReturnsNull(t) \/ PushRead(t)
        PROVE  NrActCounts'
    BY <2>1, <2>2 DEF LockCmdList, ReadPending, GetReturnsNull, PushRead
  <2>3. ASSUME NEW t \in Threads, FlushCas(t) \/ PushCas(t) PROVE NrActCounts'
    <3>1. CASE pending = oldValue[t]
      BY <2>1, <2>3, <3>1 DEF FlushCas, Flush, PushCas, Push
    <3>2. CASE pending # oldValue[t]
      BY <2>1, <2>3, <3>2 DEF FlushCas, Flush, PushCas, Push
    <3>3. QED
      BY <3>1, <3>2
  <2>4. ASSUME NEW t \in Threads, PopFree(t) PROVE NrActCounts'
    <3>1. freeCmdList \notin Active
      <4>1. PICK n \in Nat, m \in Nat :
              \E fq \in [1..n -> CmdIds], pq \in [1..m -> CmdIds] : Placed(n, m, fq, pq)
        BY DEF ListsPlaced
      <4>2. PICK fq \in [1..n -> CmdIds], pq \in [1..m -> CmdIds] : Placed(n, m, fq, pq)
        BY <4>1
      <4>3. freeCmdList \in Slots(fq)
        BY <2>4, <4>2, ListTop DEF Placed, PopFree
      <4>4. QED
        BY <4>2, <4>3 DEF Placed, Free
    <3>2. Active' = Active \cup {freeCmdList}
      BY <2>4, FreePop
    <3>3. Cardinality(Active') = Cardinality(Active) + 1
      BY <3>1, <3>2, FS_AddElement
    <3>4. Uncounted' = Uncounted
      BY <2>4 DEF PopFree, Uncounted
    <3>5. nrAct' = nrAct + 1
      BY <2>4 DEF PopFree
    <3>6. QED
      BY <3>3, <3>4, <3>5
  <2>5. ASSUME NEW t \in Threads, PutFree(t) PROVE NrActCounts'
    <3>1. cmd'[t] \in Active /\ Active' = Active \ {cmd'[t]}
      BY <2>5, FreePut
    <3>2. Cardinality(Active') = Cardinality(Active) - 1
      BY <3>1, FS_RemoveElement
    <3>3. t \notin Uncounted /\ Uncounted' = Uncounted \cup {t}
      BY <2>5 DEF PutFree, Uncounted
    <3>4. Cardinality(Uncounted') = Cardinality(Uncounted) + 1
      BY <3>3, FS_AddElement
    <3>5. nrAct' = nrAct
      BY <2>5 DEF PutFree
    <3>6. QED
      BY <3>2, <3>4, <3>5
  <2>6. ASSUME NEW t \in Threads, PutDec(t) PROVE NrActCounts'
    <3>1. t \in Uncounted /\ Uncounted' = Uncounted \ {t}
      BY <2>6 DEF PutDec, Uncounted
    <3>2. Cardinality(Uncounted') = Cardinality(Uncounted) - 1
      BY <3>1, FS_RemoveElement
    <3>3. Active' = Active /\ nrAct' = nrAct - 1
      BY <2>6 DEF PutDec, Active
    <3>4. QED
      BY <3>2, <3>3
  <2>7. CASE UNCHANGED vars
    BY <2>1, <2>7 DEF vars
  <2>8. QED
    BY <2>2, <2>3, <2>4, <2>5, <2>6, <2>7 DEF Next, Get, Put
<1>3. QED
  BY <1>1, <1>2, IInvInvariant, PTL DEF Spec

-----------------------------------------------------------------------------
(* Refinement: the two linked lists are the free slots of the pool.        *)
MapCall(t) == IF pc[t] \in {"get", "flush"} THEN "asked"
              ELSE IF pc[t] = "null" THEN "refused" ELSE "none"
MapBack(t) == IF Putting(t) THEN cmd[t] ELSE 0

(* A step that moves no slot is a stutter of the pool.                      *)
LEMMA PoolStutter ==
  ASSUME Free' = Free, Active' = Active,
         \A t \in Threads : MapCall(t)' = MapCall(t) /\ MapBack(t)' = MapBack(t)
  PROVE  UNCHANGED Pool!poolVars
BY DEF Pool!poolVars, MapCall, MapBack

(* Every behaviour of the list is a behaviour of the pool: Get returns     *)
(* NULL only when no slot is free.                                         *)
THEOREM ImplementsPool == Spec => PoolSpec
<1>1. Init => Pool!PoolInit
  <2> SUFFICES ASSUME Init PROVE Pool!PoolInit
    OBVIOUS
  <2>1. Active = {} /\ InTransit = {}
    BY DEF Init, Active, InTransit, Putting
  <2>2. QED
    BY <2>1 DEF Init, Pool!PoolInit, Free, Putting
<1>2. IInv /\ IInv' /\ [Next]_vars => [Pool!PoolNext]_(Pool!poolVars)
  <2> SUFFICES ASSUME IInv, IInv', [Next]_vars
               PROVE  Pool!PoolNext \/ UNCHANGED Pool!poolVars
    OBVIOUS
  <2> USE DEF IInv, TypeOK, Goto
  <2>1. ASSUME NEW t \in Threads, LockCmdList(t) PROVE Pool!Request(t)
    <3>1. Free' = Free /\ Active' = Active
      BY <2>1 DEF LockCmdList, Free, Active, InTransit, Putting
    <3>2. QED
      BY <2>1, <3>1 DEF LockCmdList, Pool!Request, Putting
  <2>2. ASSUME NEW t \in Threads, PopFree(t) PROVE Pool!Grant(t)
    <3>1. /\ freeCmdList \in Free
          /\ Free' = Free \ {freeCmdList}
          /\ Active' = Active \cup {freeCmdList}
      <4>1. PICK n \in Nat, m \in Nat :
              \E fq \in [1..n -> CmdIds], pq \in [1..m -> CmdIds] : Placed(n, m, fq, pq)
        BY DEF ListsPlaced
      <4>2. PICK fq \in [1..n -> CmdIds], pq \in [1..m -> CmdIds] : Placed(n, m, fq, pq)
        BY <4>1
      <4>3. freeCmdList \in Slots(fq)
        BY <2>2, <4>2, ListTop DEF Placed, PopFree
      <4>4. QED
        BY <2>2, <4>2, <4>3, FreePop DEF Placed
    <3>2. QED
      BY <2>2, <3>1 DEF PopFree, Pool!Grant, Putting
  <2>3. ASSUME NEW t \in Threads, ReadPending(t), pending.cmdOffset = 0
        PROVE  Pool!Refuse(t)
    <3>1. Free' = Free /\ Active' = Active
      BY <2>3 DEF ReadPending, Free, Active, InTransit, Putting
    <3>2. Free = {}
      <4>1. PICK n \in Nat, m \in Nat :
              \E fq \in [1..n -> CmdIds], pq \in [1..m -> CmdIds] : Placed(n, m, fq, pq)
        BY DEF ListsPlaced
      <4>2. PICK fq \in [1..n -> CmdIds], pq \in [1..m -> CmdIds] : Placed(n, m, fq, pq)
        BY <4>1
      <4>3. freeCmdList = 0
        BY <2>3 DEF ReadPending
      <4>4. Slots(fq) = {} /\ Slots(pq) = {}
        BY <2>3, <4>2, <4>3, ListTop DEF Placed
      <4>5. QED
        BY <4>2, <4>4 DEF Placed
    <3>3. QED
      BY <2>3, <3>1, <3>2 DEF ReadPending, Pool!Refuse, Putting
  <2>4. ASSUME NEW t \in Threads, ReadPending(t), pending.cmdOffset # 0
        PROVE  UNCHANGED Pool!poolVars
    <3>1. Free' = Free /\ Active' = Active
      BY <2>4 DEF ReadPending, Free, Active, InTransit, Putting
    <3>2. QED
      BY <2>4, <3>1, PoolStutter DEF ReadPending, MapCall, MapBack, Putting
  <2>5. ASSUME NEW t \in Threads, FlushCas(t)
        PROVE  UNCHANGED Pool!poolVars
    <3>1. /\ UNCHANGED <<atomicStatus, cmd>>
          /\ pc[t] = "flush" /\ pc' = [pc EXCEPT ![t] = "get"]
      BY <2>5 DEF FlushCas, Flush
    <3>2. Free' = Free /\ Active' = Active
      BY <3>1, FreeUnchanged DEF Putting
    <3>3. QED
      BY <3>1, <3>2, PoolStutter DEF MapCall, MapBack, Putting
  <2>6. ASSUME NEW t \in Threads, GetReturnsNull(t) PROVE Pool!Refused(t)
    <3>1. Free' = Free /\ Active' = Active
      BY <2>6 DEF GetReturnsNull, Free, Active, InTransit, Putting
    <3>2. QED
      BY <2>6, <3>1 DEF GetReturnsNull, Pool!Refused, Putting
  <2>7. ASSUME NEW t \in Threads, PutFree(t) PROVE Pool!StartReturn(t)
    <3>1. /\ cmd'[t] \in Active /\ Active' = Active \ {cmd'[t]}
          /\ InTransit' = InTransit \cup {cmd'[t]}
      BY <2>7, FreePut
    <3>2. Free' = Free
      BY <3>1 DEF Free, Active
    <3>3. cmd' = [cmd EXCEPT ![t] = cmd'[t]]
      BY <2>7 DEF PutFree
    <3>4. cmd'[t] # 0
      BY <3>1 DEF Active, CmdIds
    <3>5. QED
      BY ZenonT(40), <2>7, <3>1, <3>2, <3>3 DEF PutFree, Pool!StartReturn, Putting
  <2>8. ASSUME NEW t \in Threads, PutDec(t) \/ PushRead(t)
        PROVE  UNCHANGED Pool!poolVars
    <3>1. Free' = Free /\ Active' = Active
      BY <2>8 DEF PutDec, PushRead, Free, Active, InTransit, Putting
    <3>2. QED
      BY <2>8, <3>1, PoolStutter DEF PutDec, PushRead, MapCall, MapBack, Putting
  <2>9. ASSUME NEW t \in Threads, PushCas(t), pending = oldValue[t]
        PROVE  Pool!FinishReturn(t)
    <3>1. /\ Active' = Active
          /\ cmd[t] \in CmdIds
          /\ Free' = Free \cup {cmd[t]}
      BY <2>9, FreePush
    <3>2. /\ pc[t] = "cas" /\ pc' = [pc EXCEPT ![t] = "idle"]
          /\ cmd' = [cmd EXCEPT ![t] = 0]
      BY <2>9 DEF PushCas, Push
    <3>3. cmd[t] # 0
      BY <3>1 DEF CmdIds
    <3>4. QED
      BY <3>1, <3>2, <3>3 DEF Pool!FinishReturn, Putting
  <2>10. ASSUME NEW t \in Threads, PushCas(t), pending # oldValue[t]
         PROVE  UNCHANGED Pool!poolVars
    <3>1. /\ UNCHANGED <<atomicStatus, cmd>>
          /\ pc[t] = "cas" /\ pc' = [pc EXCEPT ![t] = "push"]
      BY <2>10 DEF PushCas, Push
    <3>2. Free' = Free /\ Active' = Active
      BY <3>1, FreeUnchanged DEF Putting
    <3>3. QED
      BY <3>1, <3>2, PoolStutter DEF MapCall, MapBack, Putting
  <2>11. CASE UNCHANGED vars
    <3>1. Free' = Free /\ Active' = Active
      BY <2>11 DEF vars, Free, Active, InTransit, Putting
    <3>2. QED
      BY <2>11, <3>1, PoolStutter DEF vars, MapCall, MapBack, Putting
  <2>12. QED
    BY <2>1, <2>2, <2>3, <2>4, <2>5, <2>6, <2>7, <2>8, <2>9, <2>10, <2>11
       DEF Next, Get, Put, Pool!PoolNext
<1>3. QED
  BY <1>1, <1>2, IInvInvariant, PTL DEF Spec, PoolSpec, Pool!PoolSpec
=============================================================================
