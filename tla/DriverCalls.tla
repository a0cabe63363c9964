---------------------------- MODULE DriverCalls -----------------------------
(***************************************************************************)
(* What the calls of the driver take and give back, as sequences of steps: *)
(* the module's initialisation, the attachment of a device down to the     *)
(* memory and the interrupt of its admin queue, the adapter, the           *)
(* controller and the IO queues.  Controller.tla executes the sequences.   *)
(*                                                                         *)
(* A resource is a pair of a name and a queue, 0 for the admin queue and   *)
(* for what belongs to no queue.  The labels that a function jumps to when *)
(* a step fails are the sequence "undo" of the step: its function's own,   *)
(* then those of its callers.                                              *)
(***************************************************************************)
EXTENDS Integers, SequencesExt

At(q, names) == [i \in DOMAIN names |-> <<names[i], q>>]
Of(names) == At(0, names)

(* "get" takes a resource or fails the call; "ask" takes nothing and may   *)
(* fail; "add" cannot fail; the failure of "try" is ignored, and it is     *)
(* left out while a resource of "if" is missing; "put" gives back; "drop"  *)
(* gives back what is held.  "cookies", "grant", "refuse" and "gate" are   *)
(* steps of Controller.                                                    *)
Step(do, t) == [do |-> do, token |-> t, undo |-> <<>>, if |-> {}, want |-> 0]
Each(do, ts) == [i \in DOMAIN ts |-> Step(do, ts[i])]
AskOnce == Each("ask", Of(<<"none">>))

(* A function whose labels give back what it took, last first.             *)
Chain(ts) ==
  [i \in DOMAIN ts |-> [Step("get", ts[i]) EXCEPT
                          !.undo = Each("put", Reverse(SubSeq(ts, 1, i - 1)))]]

(* The steps of a callee, whose failure the caller answers with "undo".    *)
Within(steps, undo) == [i \in DOMAIN steps |-> [steps[i] EXCEPT !.undo = @ \o undo]]

-----------------------------------------------------------------------------
(* nvme_pcie_os.c: DMA memory and interrupts.                              *)

DmaParts == [cq |-> <<"cqPages", "cqVa", "cqSgIn", "cqSgOut">>,
             sq |-> <<"sqPages", "sqVa", "sqSgIn", "sqSgOut">>]
DmaAlloc(part, q) == Chain(At(q, DmaParts[part]))
DmaFree(part, q) == Each("put", Reverse(At(q, DmaParts[part])))

(* The cookies stay when the handler of MSI cannot be registered, and no   *)
(* call unregisters that handler.                                          *)
IntrAlloc(msi, numDesired) ==
  Chain(Of(<<"intrArray">>))
  \o <<[Step("cookies", <<"cookies", 0>>) EXCEPT
          !.undo = Each("put", Of(<<"intrArray">>)), !.want = numDesired]>>
  \o (IF msi THEN Chain(Of(<<"msiHandler">>)) ELSE <<>>)
IntrFree == Each("put", Of(<<"cookies", "intrArray">>))

-----------------------------------------------------------------------------
(* nvme_pcie.c: the parts of a queue.  "vectored": its index is that of a  *)
(* vector; "msix": osRes.intrType is MSIX, now.                            *)

LockedStruct(q, struct, lock) == Chain(At(q, <<struct, lock>>))

CompQueueConstruct(q, vectored) ==
  LET freeLock == Each("put", At(q, <<"cqLock", "cqInfo">>))
  IN LockedStruct(q, "cqInfo", "cqLock") \o Within(DmaAlloc("cq", q), freeLock)
     \o IF vectored THEN Within(Chain(At(q, <<"vector">>)), DmaFree("cq", q) \o freeLock)
        ELSE <<>>
(* A mutation of CompQueueDestroy: the type of the interrupts is ignored.  *)
CompQueueDestroyUnchecked(q, msix) ==
  Each("put", At(q, <<"vector">>)) \o DmaFree("cq", q)
  \o Each("put", At(q, <<"cqLock", "cqInfo">>))
CompQueueDestroy(q, msix) ==
  (IF msix THEN Each("put", At(q, <<"vector">>)) ELSE <<>>)
  \o DmaFree("cq", q) \o Each("put", At(q, <<"cqLock", "cqInfo">>))

SubQueueConstruct(q) ==
  LockedStruct(q, "sqInfo", "sqLock")
  \o Within(DmaAlloc("sq", q), Each("put", At(q, <<"sqLock", "sqInfo">>)))
SubQueueDestroy(q) == DmaFree("sq", q) \o Each("put", At(q, <<"sqLock", "sqInfo">>))

CmdInfoListConstruct(q) == Chain(At(q, <<"cmdList", "cmdLock", "cmdArray">>))
CmdInfoListDestroy(q) == Each("put", At(q, <<"cmdArray", "cmdLock", "cmdList">>))

QueueStatsConstruct(q) == Chain(At(q, <<"stats">>))
QueueStatsDestroy(q) == Each("put", At(q, <<"stats">>))

StoragePollCreate(q) ==
  <<[Step("try", <<"pollHandler", q>>) EXCEPT !.if = {<<"exists", q>>, <<"adapter", 0>>}]>>
(* A failure destroys the handler.                                         *)
StoragePollEnable(q) ==
  <<[Step("try", <<"pollEnabled", q>>) EXCEPT
       !.if = {<<"pollHandler", q>>}, !.undo = Each("put", At(q, <<"pollHandler">>))]>>
StoragePollDestroy(q) == Each("drop", At(q, <<"pollHandler">>))

(* QueueConstruct.  "exists" is a state that is not NON_EXIST; the failure *)
(* of the completion queue leaves it (IoQueue, CreatedIsComplete).  A      *)
(* mutation: the command list's failure forgets the submission queue.      *)
QueueConstructLosingSq(q, vectored, msix) ==
  LET destroyCq == CompQueueDestroy(q, msix) \o Each("put", At(q, <<"exists">>))
  IN Each("add", At(q, <<"exists">>)) \o CompQueueConstruct(q, vectored)
     \o Within(SubQueueConstruct(q), destroyCq)
     \o Within(CmdInfoListConstruct(q), destroyCq)
     \o Within(QueueStatsConstruct(q), CmdInfoListDestroy(q) \o SubQueueDestroy(q) \o destroyCq)
     \o IF q > 0 THEN StoragePollCreate(q) ELSE <<>>
QueueConstruct(q, vectored, msix) ==
  LET destroyCq == CompQueueDestroy(q, msix) \o Each("put", At(q, <<"exists">>))
      destroySq == SubQueueDestroy(q) \o destroyCq
      destroyCmdInfoList == CmdInfoListDestroy(q) \o destroySq
  IN Each("add", At(q, <<"exists">>)) \o CompQueueConstruct(q, vectored)
     \o Within(SubQueueConstruct(q), destroyCq)
     \o Within(CmdInfoListConstruct(q), destroySq)
     \o Within(QueueStatsConstruct(q), destroyCmdInfoList)
     \o IF q > 0 THEN StoragePollCreate(q) ELSE <<>>

QueueDestroy(q, msix) ==
  Each("put", At(q, <<"exists">>)) \o QueueStatsDestroy(q) \o StoragePollDestroy(q)
  \o CmdInfoListDestroy(q) \o SubQueueDestroy(q) \o CompQueueDestroy(q, msix)

SuspendQueue(q) == Each("drop", At(q, <<"active", "pollEnabled", "isIntrEnabled">>))

(* NVMEPCIEResumeQueue; EnableIntr does nothing without MSIX.              *)
ResumeQueue(q, msix) ==
  Each("add", At(q, <<"active">>)) \o StoragePollEnable(q)
  \o IF msix THEN Each("add", At(q, <<"isIntrEnabled">>)) ELSE <<>>

(* NVMEPCIEQueueCreate.  For an IO queue the device is asked twice         *)
(* (IoQueue has its side); a refusal destroys the queue.                   *)
QueueCreate(q, vectored, msix) ==
  QueueConstruct(q, vectored, msix)
  \o (IF q > 0 THEN Within(AskOnce \o AskOnce, QueueDestroy(q, msix)) ELSE <<>>)
  \o ResumeQueue(q, msix)
  \o IF q > 0 THEN Each("add", At(q, <<"counted">>)) ELSE <<>>

(* NVMEPCIEQueueDestroy.                                                   *)
QueueStopAndDestroy(q, msix) ==
  SuspendQueue(q) \o QueueDestroy(q, msix) \o Each("drop", At(q, <<"counted">>))

-----------------------------------------------------------------------------
(* nvme_pcie_driver.c: attachDevice and detachDevice.                      *)

(* PciInit.  It asks for the device, its identifier, its address and its   *)
(* resources, maps the register space and makes the device a bus master,   *)
(* whose failure leaves the register space mapped.                         *)
PciInit == AskOnce \o Chain(Of(<<"bar">>)) \o AskOnce
PciCleanup == Each("put", Of(<<"bar">>))

DmaInit == Chain(Of(<<"dmaEngine", "sgHandle">>))
DmaCleanup == Each("put", Of(<<"sgHandle", "dmaEngine">>))

SetupAdminQueue(msi) ==
  IntrAlloc(msi, 1) \o Within(QueueCreate(0, ~msi, ~msi), IntrFree)
(* "exists" and "msix": as they are when the device is detached.           *)
DestroyAdminQueue(exists, msix, allocated) ==
  (IF exists THEN SuspendQueue(0) \o QueueDestroy(0, msix) ELSE <<>>)
  \o IF allocated THEN IntrFree ELSE <<>>

(* A mutation of AttachDevice: its labels release the queue list first.    *)
AttachDeviceListFirst(msi) ==
  LET freeCtrlr == Each("put", Of(<<"ctrlr">>))
      cleanupPci == PciCleanup \o freeCtrlr
      cleanupDma == DmaCleanup \o cleanupPci
      cleanupLockDomain == Each("put", Of(<<"lockDomain">>)) \o cleanupDma
      freeQueueList == Each("put", Of(<<"queueList">>)) \o cleanupLockDomain
      destroyAdminq == Each("put", Of(<<"queueList">>))
                       \o DestroyAdminQueue(TRUE, ~msi, TRUE) \o cleanupLockDomain
  IN Chain(Of(<<"ctrlr">>)) \o Within(PciInit, freeCtrlr) \o Within(DmaInit, cleanupPci)
     \o Within(Chain(Of(<<"lockDomain">>)), cleanupDma)
     \o Within(Chain(Of(<<"queueList">>)), cleanupLockDomain)
     \o Within(SetupAdminQueue(msi), freeQueueList)
     \o Within(AskOnce, destroyAdminq) \o Each("add", Of(<<"listed">>))
AttachDevice(msi) ==
  LET freeCtrlr == Each("put", Of(<<"ctrlr">>))
      cleanupPci == PciCleanup \o freeCtrlr
      cleanupDma == DmaCleanup \o cleanupPci
      cleanupLockDomain == Each("put", Of(<<"lockDomain">>)) \o cleanupDma
      freeQueueList == Each("put", Of(<<"queueList">>)) \o cleanupLockDomain
      destroyAdminq == DestroyAdminQueue(TRUE, ~msi, TRUE) \o freeQueueList
  IN Chain(Of(<<"ctrlr">>)) \o Within(PciInit, freeCtrlr) \o Within(DmaInit, cleanupPci)
     \o Within(Chain(Of(<<"lockDomain">>)), cleanupDma)
     \o Within(Chain(Of(<<"queueList">>)), cleanupLockDomain)
     \o Within(SetupAdminQueue(msi), freeQueueList)
     \o Within(AskOnce, destroyAdminq) \o Each("add", Of(<<"listed">>))

DetachDevice(exists, msix, allocated) ==
  Each("put", Of(<<"listed">>)) \o DestroyAdminQueue(exists, msix, allocated)
  \o Each("put", Of(<<"queueList", "lockDomain">>)) \o DmaCleanup \o PciCleanup
  \o Each("put", Of(<<"ctrlr">>))

-----------------------------------------------------------------------------
(* The adapter and the controller: scanDevice and removeDevice             *)
(* (nvme_pcie_driver.c), startAdapter and stopAdapter (nvme_pcie_adapter.c)*)

(* The allocation, then the two capabilities.                              *)
AdapterInit ==
  Chain(Of(<<"IODmaEngine", "adapter">>))
  \o Within(AskOnce \o AskOnce, Each("put", Of(<<"adapter", "IODmaEngine">>)))
AdapterDestroy == Each("put", Of(<<"adapter", "IODmaEngine">>))

(* The address on the logical bus, then the registration.                  *)
ScanDevice ==
  AdapterInit \o Within(AskOnce \o Chain(Of(<<"device">>)), AdapterDestroy)
RemoveDevice == Each("put", Of(<<"device">>)) \o AdapterDestroy

(* NVMEPCIEControllerInit.  The timer of the IOPS statistics is optional.  *)
ControllerInit ==
  Chain(Of(<<"controller", "registered">>))
  \o Each("try", Of(<<"timerQueue">>))
  \o <<[Step("try", <<"timer", 0>>) EXCEPT !.if = {<<"timerQueue", 0>>}]>>

ControllerDestroy ==
  Each("drop", Of(<<"kvMgmt", "timer", "timerQueue">>))
  \o Each("put", Of(<<"registered", "controller">>))

(* NVMEPCIEKeyValInit, whose result is ignored: a handle is kept although  *)
(* a key could not be added.                                               *)
KeyValInit(exists) == IF exists THEN <<>> ELSE Each("try", Of(<<"kvMgmt">>))

(* NVMEPCIEStoragePollSetup of the counted queues, in order.               *)
StoragePollSetup(last) ==
  FlattenSeq([q \in 1..last |-> StoragePollCreate(q) \o StoragePollEnable(q)])

-----------------------------------------------------------------------------
(* nvme_pcie_module.c, and the key-value interface of the module, whose    *)
(* handle stays when a key cannot be added.                                *)

GlobalKeyValInit == Chain(Of(<<"mgmt">>)) \o AskOnce

InitModule ==
  LET base == Of(<<"heap", "log", "memPool", "lock">>)
      destroyLock == Each("put", Reverse(base))
  IN Chain(base) \o Within(GlobalKeyValInit, destroyLock)
     \o Within(Chain(Of(<<"driver">>)), Each("put", Of(<<"mgmt">>)) \o destroyLock)

CleanupModule ==
  Each("put", Of(<<"driver", "mgmt", "lock", "memPool", "log", "heap">>))
=============================================================================
