---------------------------- MODULE CmdInfoList ----------------------------
(***************************************************************************)
(* The command slots of one queue when the driver hands out command ids    *)
(* itself (abortEnabled = FALSE): NVMEPCIEGetCmdInfoLegacy,                *)
(* NVMEPCIEFlushFreeCmdInfo, NVMEPCIEPutCmdInfo and NVMEPCIEPushCmdInfo    *)
(* of nvme_pcie.c, run by any number of worlds and interrupt handlers.     *)
(*                                                                         *)
(* A slot is named by its cmdId, 1..IdCount; 0 ends a list.  There are two *)
(* lists threaded through freeLink.  freeCmdList is popped under the       *)
(* command-list lock.  pendingFreeCmdList is a lock-free stack: its head   *)
(* and its length are one 64-bit word, pushed and emptied by               *)
(* compare-and-swap.  A pop that finds freeCmdList empty takes the whole   *)
(* pending stack.                                                          *)
(*                                                                         *)
(* One action is one access to shared memory, except that the accesses     *)
(* made under the lock to what only the lock holder touches are one        *)
(* action.  Atomics are sequentially consistent, as vmk_Atomic* are.       *)
(***************************************************************************)
EXTENDS Integers, FiniteSets

CONSTANTS Threads,   (* worlds and interrupt handlers                      *)
          IdCount,   (* cmdList->idCount                                   *)
          NoThread

ASSUME IdCountAssumption == IdCount \in Nat \ {0}
ASSUME ThreadsAssumption == IsFiniteSet(Threads) /\ NoThread \notin Threads

VARIABLES
  cmdLock,       (* holder of cmdList->lock                                *)
  freeCmdList,   (* head of the locked list                                *)
  freeLink,      (* list[i].freeLink                                       *)
  pending,       (* pendingFreeCmdList, the composite word                 *)
  atomicStatus,  (* list[i].atomicStatus                                   *)
  nrAct,         (* active commands                                        *)
  pc,            (* where a thread is in Get or Put                        *)
  cmd,           (* the slot a thread is putting back                      *)
  oldValue       (* the composite a thread read last                       *)

vars == <<cmdLock, freeCmdList, freeLink, pending, atomicStatus, nrAct,
          pc, cmd, oldValue>>

CmdIds == 1..IdCount
Offsets == 0..IdCount
Composite == [cmdOffset : Offsets, freeListLength : Nat]
EmptyPending == [cmdOffset |-> 0, freeListLength |-> 0]

(* "get", "flush": in Get with the lock held.  "null": Get returned NULL.  *)
(* "dec", "push", "cas": in Put.                                           *)
Steps == {"idle", "get", "flush", "null", "dec", "push", "cas"}

(* Slots that belong to a command, and slots a thread is putting back.     *)
Active == {c \in CmdIds : atomicStatus[c] = "ACTIVE"}
Putting(t) == pc[t] \in {"dec", "push", "cas"}
InTransit == {cmd[t] : t \in {u \in Threads : Putting(u)}}
Free == CmdIds \ (Active \cup InTransit)

Goto(t, step) == pc' = [pc EXCEPT ![t] = step]

(* A local that is dead keeps no value.                                    *)
Forget(t) == oldValue' = [oldValue EXCEPT ![t] = EmptyPending]

-----------------------------------------------------------------------------
(* NVMEPCIEInitQueue links every slot into freeCmdList, the last one first.*)
Init ==
  /\ cmdLock = NoThread
  /\ freeCmdList = IdCount
  /\ freeLink = [c \in CmdIds |-> c - 1]
  /\ pending = EmptyPending
  /\ atomicStatus = [c \in CmdIds |-> "FREE"]
  /\ nrAct = 0
  /\ pc = [t \in Threads |-> "idle"]
  /\ cmd = [t \in Threads |-> 0]
  /\ oldValue = [t \in Threads |-> EmptyPending]

(* NVMEPCIEGetCmdInfoLegacy: take the command-list lock.                   *)
LockCmdList(t) ==
  /\ pc[t] = "idle"
  /\ cmdLock = NoThread
  /\ cmdLock' = t
  /\ Goto(t, "get")
  /\ UNCHANGED <<freeCmdList, freeLink, pending, atomicStatus, nrAct, cmd,
                 oldValue>>

(* ... pop freeCmdList, count and activate the slot, and unlock.           *)
PopFree(t) ==
  /\ pc[t] = "get"
  /\ freeCmdList # 0
  /\ freeCmdList' = freeLink[freeCmdList]
  /\ nrAct' = nrAct + 1
  /\ atomicStatus' = [atomicStatus EXCEPT ![freeCmdList] = "ACTIVE"]
  /\ cmdLock' = NoThread
  /\ Goto(t, "idle")
  /\ UNCHANGED <<freeLink, pending, cmd, oldValue>>

(* NVMEPCIEFlushFreeCmdInfo reads the composite; an empty one makes Get    *)
(* unlock and return NULL.                                                 *)
ReadPending(t) ==
  /\ pc[t] = "get"
  /\ freeCmdList = 0
  /\ IF pending.cmdOffset = 0
     THEN /\ cmdLock' = NoThread
          /\ Goto(t, "null")
          /\ UNCHANGED oldValue
     ELSE /\ oldValue' = [oldValue EXCEPT ![t] = pending]
          /\ Goto(t, "flush")
          /\ UNCHANGED cmdLock
  /\ UNCHANGED <<freeCmdList, freeLink, pending, atomicStatus, nrAct, cmd>>

(* ... and, if swap, replaces it by the empty one and takes its list.      *)
Flush(t, swap, again) ==
  /\ pc[t] = "flush"
  /\ IF swap
     THEN /\ pending' = EmptyPending
          /\ freeCmdList' = oldValue[t].cmdOffset
          /\ Forget(t)
          /\ Goto(t, "get")
     ELSE /\ Goto(t, again)
          /\ IF again = "get" THEN Forget(t) ELSE UNCHANGED oldValue
          /\ UNCHANGED <<pending, freeCmdList>>
  /\ UNCHANGED <<cmdLock, freeLink, atomicStatus, nrAct, cmd>>

(* Mutations: emptied by a plain write; the read is not in the loop.       *)
FlushWithoutCas(t) == Flush(t, TRUE, "get")
FlushWithoutReread(t) == Flush(t, pending = oldValue[t], "flush")

(* The swap is a compare-and-swap; if it fails the composite is read again.*)
FlushCas(t) == Flush(t, pending = oldValue[t], "get")

(* The caller of Get handles the NULL (QUEUE_FULL).                        *)
GetReturnsNull(t) ==
  /\ pc[t] = "null"
  /\ Goto(t, "idle")
  /\ UNCHANGED <<cmdLock, freeCmdList, freeLink, pending, atomicStatus, nrAct,
                 cmd, oldValue>>

(* NVMEPCIEPutCmdInfo of an outstanding command's slot.  Each command is   *)
(* put by one thread: the callers' side of that is in AdminQueue.          *)
PutFree(t) ==
  /\ pc[t] = "idle"
  /\ \E c \in Active :
       /\ atomicStatus' = [atomicStatus EXCEPT ![c] = "FREE"]
       /\ cmd' = [cmd EXCEPT ![t] = c]
  /\ Goto(t, "dec")
  /\ UNCHANGED <<cmdLock, freeCmdList, freeLink, pending, nrAct, oldValue>>

PutDec(t) ==
  /\ pc[t] = "dec"
  /\ nrAct' = nrAct - 1
  /\ Goto(t, "push")
  /\ UNCHANGED <<cmdLock, freeCmdList, freeLink, pending, atomicStatus, cmd,
                 oldValue>>

(* NVMEPCIEPushCmdInfo: read the composite, link the slot before its head, *)
(* which no other thread can see yet, ...                                  *)
PushRead(t) ==
  /\ pc[t] = "push"
  /\ oldValue' = [oldValue EXCEPT ![t] = pending]
  /\ freeLink' = [freeLink EXCEPT ![cmd[t]] = pending.cmdOffset]
  /\ Goto(t, "cas")
  /\ UNCHANGED <<cmdLock, freeCmdList, pending, atomicStatus, nrAct, cmd>>

NewPending(t) == [cmdOffset |-> cmd[t],
                  freeListLength |-> oldValue[t].freeListLength + 1]

(* ... and, if swap, make it the head.                                     *)
Push(t, swap, again) ==
  /\ pc[t] = "cas"
  /\ IF swap
     THEN /\ pending' = NewPending(t)
          /\ cmd' = [cmd EXCEPT ![t] = 0]
          /\ Goto(t, "idle")
     ELSE Goto(t, again) /\ UNCHANGED <<pending, cmd>>
  /\ Forget(t)
  /\ UNCHANGED <<cmdLock, freeCmdList, freeLink, atomicStatus, nrAct>>

(* Mutations: only the length is compared; the retry counts again.         *)
PushComparesLength(t) ==
  Push(t, pending.freeListLength = oldValue[t].freeListLength, "push")
PushRetriesPut(t) == Push(t, pending = oldValue[t], "dec")

PushCas(t) == Push(t, pending = oldValue[t], "push")

Get(t) ==
  LockCmdList(t) \/ PopFree(t) \/ ReadPending(t) \/ FlushCas(t)
    \/ GetReturnsNull(t)
Put(t) == PutFree(t) \/ PutDec(t) \/ PushRead(t) \/ PushCas(t)

Next == \E t \in Threads : Get(t) \/ Put(t)

(* A world that holds the lock, or an interrupt handler, keeps running.    *)
InsideGet(t) == PopFree(t) \/ ReadPending(t) \/ FlushCas(t)

Spec == Init /\ [][Next]_vars
FairSpec == Spec /\ \A t \in Threads : WF_vars(InsideGet(t))

-----------------------------------------------------------------------------
(* Type correctness: in particular every link, head and id is a slot or 0. *)
TypeOK ==
  /\ cmdLock \in Threads \cup {NoThread}
  /\ freeCmdList \in Offsets
  /\ freeLink \in [CmdIds -> Offsets]
  /\ pending \in Composite
  /\ atomicStatus \in [CmdIds -> {"FREE", "ACTIVE"}]
  /\ nrAct \in Int
  /\ pc \in [Threads -> Steps]
  /\ cmd \in [Threads -> Offsets]
  /\ oldValue \in [Threads -> Composite]

(* q, of length n and bottom first, is the list that starts at top when    *)
(* the links are link: each slot leads to the one below it, the bottom     *)
(* slot to 0, and no slot occurs twice.                                    *)
IsList(link, q, n, top) ==
  /\ q \in [1..n -> CmdIds]
  /\ top = IF n = 0 THEN 0 ELSE q[n]
  /\ \A i \in 1..n : link[q[i]] = IF i = 1 THEN 0 ELSE q[i - 1]
  /\ \A i, j \in 1..n : q[i] = q[j] => i = j

Slots(q) == {q[i] : i \in DOMAIN q}

(* The lists of the free slots are fq (n slots) and pq (m slots).          *)
Placed(n, m, fq, pq) ==
  /\ IsList(freeLink, fq, n, freeCmdList)
  /\ IsList(freeLink, pq, m, pending.cmdOffset)
  /\ pending.freeListLength = m
  /\ Slots(fq) \cap Slots(pq) = {}
  /\ Slots(fq) \cup Slots(pq) = Free

OnePutter ==
  /\ \A t \in Threads : Putting(t) => cmd[t] \in CmdIds \ Active
  /\ \A t, u \in Threads : Putting(t) /\ Putting(u) /\ cmd[t] = cmd[u] => t = u

(* Every slot is in exactly one place: on one of the two lists, owned by   *)
(* one command, or in the hands of one thread that puts it back.  So no    *)
(* slot is handed out twice and none is lost, whatever the pushes, the     *)
(* pops and the emptying of the pending list do to each other, and the     *)
(* length half of the composite word is the length of the pending list     *)
(* (NVMEPCIEPushCmdInfo, NVMEPCIEFlushFreeCmdInfo).                        *)
EverySlotInOnePlace ==
  /\ \E n, m \in Offsets :
       \E fq \in [1..n -> CmdIds], pq \in [1..m -> CmdIds] : Placed(n, m, fq, pq)
  /\ OnePutter

(* nrAct, which the poll switch and the log read without a lock, counts    *)
(* the commands that own a slot and the threads that have freed one but    *)
(* not counted it yet: it is never below the number of outstanding         *)
(* commands, never negative and never above the number of slots            *)
(* (NVMEPCIEGetCmdInfoLegacy, NVMEPCIEPutCmdInfo).                         *)
Uncounted == {t \in Threads : pc[t] = "dec"}
NrActCounts ==
  nrAct = Cardinality(Active) + Cardinality(Uncounted)

(* A thread that holds the command-list lock leaves                        *)
(* NVMEPCIEGetCmdInfoLegacy, although other threads may make its           *)
(* compare-and-swap fail: while it holds the lock no slot is handed out,   *)
(* so only so many can be pushed.                                          *)
GetReturns == \A t \in Threads : cmdLock = t ~> cmdLock # t

(* The command list is a pool (module CmdPool): Get hands out a free slot  *)
(* and returns NULL only at an instant at which no slot is free, and a     *)
(* slot is free again when its push succeeds.                              *)
Pool == INSTANCE CmdPool WITH
  NoCmd <- 0,
  free <- Free,
  out  <- Active,
  call <- [t \in Threads |-> IF pc[t] \in {"get", "flush"} THEN "asked"
                             ELSE IF pc[t] = "null" THEN "refused" ELSE "none"],
  back <- [t \in Threads |-> IF Putting(t) THEN cmd[t] ELSE 0]

PoolSpec == Pool!PoolSpec
=============================================================================
