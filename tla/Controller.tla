----------------------------- MODULE Controller -----------------------------
(***************************************************************************)
(* The life of the driver and of one controller: the module is loaded, the *)
(* device attached and scanned, the controller started, its interrupts     *)
(* allocated anew for the number of IO queues that vmknvme asks for, IO    *)
(* queues created and deleted, the admin queue reset; and the way back.    *)
(* Any allocation may fail, and the device may be pulled at any moment.    *)
(*                                                                         *)
(* "held" is what the driver holds.  A call is a sequence of steps of      *)
(* DriverCalls, fixed when the call looks at the controller's fields;      *)
(* osRes.intrType is not NONE while the cookies are held, the state of a   *)
(* queue not NON_EXIST while "exists" is, ACTIVE while "active" is.        *)
(* Commands in flight, and the threads that race with a deletion, are in   *)
(* IoQueue, AdminQueue and StoragePoll.                                    *)
(***************************************************************************)
EXTENDS DriverCalls, FiniteSets

CONSTANTS MaxIoQueues,   (* NVME_PCIE_MAX_IO_QUEUES                        *)
          MaxDesired,    (* bound on what vmknvme and the device count to  *)
          EBSDevice      (* NVMEPCIEIsEBSCustomDevice                      *)

ASSUME MaxIoQueuesAssumption == MaxIoQueues \in Nat \ {0}
ASSUME MaxDesiredAssumption == MaxDesired \in Nat /\ MaxDesired > MaxIoQueues
ASSUME EBSDeviceAssumption == EBSDevice \in BOOLEAN

VARIABLES
  held,          (* the resources that the driver holds                    *)
  call,          (* the call under way and its steps; "none"               *)
  pos,           (* the step the call is at                                *)
  back,          (* the step of its "undo", or 0                           *)
  msi,           (* nvmePCIEMsiEnbaled                                     *)
  numIntrs,      (* osRes.numIntrs                                         *)
  maxIoQueues,   (* ctrlr->maxIoQueues                                     *)
  isRemoved      (* ctrlr->isRemoved                                       *)

vars == <<held, call, pos, back, msi, numIntrs, maxIoQueues, isRemoved>>

Holds(name) == <<name, 0>> \in held
Msix == ~msi /\ Holds("cookies")
IoQueues == 1..MaxIoQueues
Exists(q) == <<"exists", q>> \in held
Counted == {q \in IoQueues : <<"counted", q>> \in held}

-----------------------------------------------------------------------------
(* The calls, as vmkernel and vmknvme make them: one at a time, each when  *)
(* the ones before it have prepared it.                                    *)

Idle == call.name = "none"
Begin(name, steps) ==
  /\ Idle
  /\ call' = [name |-> name, steps |-> steps]
  /\ pos' = 1 /\ back' = 0

LoadModule ==
  /\ ~Holds("heap")
  /\ Begin("init_module", InitModule)
  /\ UNCHANGED <<held, msi, numIntrs, maxIoQueues, isRemoved>>

UnloadModule ==
  /\ Holds("driver") /\ ~Holds("ctrlr")
  /\ Begin("cleanup_module", CleanupModule)
  /\ UNCHANGED <<held, msi, numIntrs, maxIoQueues, isRemoved>>

Attach ==
  /\ Holds("driver") /\ ~Holds("ctrlr") /\ ~Holds("cookies")
  /\ Begin("attachDevice", AttachDevice(msi))
  /\ isRemoved' = FALSE /\ maxIoQueues' = 0 /\ numIntrs' = 0
  /\ UNCHANGED <<held, msi>>

Scan ==
  /\ Holds("listed") /\ ~Holds("device") /\ ~isRemoved
  /\ Begin("scanDevice", ScanDevice)
  /\ UNCHANGED <<held, msi, numIntrs, maxIoQueues, isRemoved>>

RemoveScanned ==
  /\ Holds("device") /\ ~Holds("controller")
  /\ Begin("removeDevice", RemoveDevice)
  /\ UNCHANGED <<held, msi, numIntrs, maxIoQueues, isRemoved>>

Detach ==
  /\ Holds("listed") /\ ~Holds("device")
  /\ Begin("detachDevice", DetachDevice(Exists(0), Msix, Holds("cookies")))
  /\ UNCHANGED <<held, msi, numIntrs, maxIoQueues, isRemoved>>

(* The hot plug, at any moment.                                            *)
ForgetDevice ==
  /\ Holds("listed") /\ ~isRemoved
  /\ isRemoved' = TRUE
  /\ UNCHANGED <<held, call, pos, back, msi, numIntrs, maxIoQueues>>

StartAdapter ==
  /\ Holds("device") /\ ~Holds("controller") /\ ~isRemoved
  /\ Begin("startAdapter", ControllerInit)
  /\ UNCHANGED <<held, msi, numIntrs, maxIoQueues, isRemoved>>

(* External: vmknvme has deleted the queues it was told exist.             *)
StopAdapter ==
  /\ Holds("registered") /\ Counted = {}
  /\ Begin("stopAdapter", ControllerDestroy)
  /\ UNCHANGED <<held, msi, numIntrs, maxIoQueues, isRemoved>>

ResetAdminQueue ==
  /\ Holds("registered") /\ Counted = {}
  /\ Begin("resetAdminQueue", SuspendQueue(0) \o Each("gate", Of(<<"none">>))
                              \o ResumeQueue(0, Msix))
  /\ UNCHANGED <<held, msi, numIntrs, maxIoQueues, isRemoved>>

(* QuiesceDevice of a pulled device, as far as it changes what is held.    *)
QuiesceDevice ==
  /\ Holds("listed") /\ isRemoved
  /\ Begin("quiesceDevice",
           FlattenSeq([i \in 1..MaxIoQueues + 1 |-> SuspendQueue(1 + MaxIoQueues - i)]))
  /\ UNCHANGED <<held, msi, numIntrs, maxIoQueues, isRemoved>>

(* ReallocIntr: the admin queue is suspended and its vector given back.    *)
ReallocIntr(intrNum) ==
  IF ~Msix THEN Each("refuse", Of(<<"none">>))
  ELSE SuspendQueue(0) \o Each("put", Of(<<"vector">>)) \o IntrFree
       \o IntrAlloc(FALSE, intrNum)
       \o Within(Chain(Of(<<"vector">>)), IntrFree)
       \o ResumeQueue(0, TRUE)

WantedQueues(desired) ==
  IF EBSDevice THEN 1 ELSE IF desired > MaxIoQueues THEN MaxIoQueues ELSE desired

(* A mutation of SetNumberIOQueues: maxIoQueues is not cleared first.      *)
SetNumberIOQueuesKeepingMax(desired) ==
  LET n == WantedQueues(desired)
      realloc == ~msi /\ (numIntrs = 1 \/ numIntrs # 1 + n)
  IN /\ Holds("registered") /\ Counted = {}
     /\ Begin("setNumberIOQueues",
              (IF realloc THEN ReallocIntr(1 + n) ELSE <<>>) \o Each("grant", Of(<<"none">>)))
     /\ UNCHANGED <<held, msi, numIntrs, maxIoQueues, isRemoved>>
SetNumberIOQueues(desired) ==
  LET n == WantedQueues(desired)
      realloc == ~msi /\ (numIntrs = 1 \/ numIntrs # 1 + n)
  IN /\ Holds("registered") /\ Counted = {}
     /\ Begin("setNumberIOQueues",
              (IF realloc THEN ReallocIntr(1 + n) ELSE <<>>) \o Each("grant", Of(<<"none">>)))
     /\ maxIoQueues' = 0
     /\ UNCHANGED <<held, msi, numIntrs, isRemoved>>

(* NVMEPCIEQueueCreate, whether or not setNumberIOQueues has succeeded.  A *)
(* queue that seems to exist is left alone.                                *)
CreateIOQueue(q) ==
  /\ Holds("registered")
  /\ Begin("createIOQueue",
           IF q > maxIoQueues \/ Exists(q) THEN <<>>
           ELSE QueueCreate(q, Msix /\ q < numIntrs, Msix))
  /\ UNCHANGED <<held, msi, numIntrs, maxIoQueues, isRemoved>>

(* External: a queue that was created.                                     *)
DeleteIOQueue(q) ==
  /\ Holds("registered") /\ q \in Counted
  /\ Begin("deleteIOQueue", QueueStopAndDestroy(q, Msix))
  /\ UNCHANGED <<held, msi, numIntrs, maxIoQueues, isRemoved>>

(* External: of a controller that is there, and none of whose queues is    *)
(* the one that only seems to exist (of which vmknvme is not told, run     *)
(* IoQueueCreate).                                                         *)
NotifyAdapterIOAllowed ==
  /\ Holds("registered") /\ ~isRemoved
  /\ \A q \in IoQueues : Exists(q) => q \in Counted
  /\ Begin("notifyIOAllowed",
           StoragePollSetup(Cardinality(Counted)) \o KeyValInit(Holds("kvMgmt")))
  /\ UNCHANGED <<held, msi, numIntrs, maxIoQueues, isRemoved>>

BeginCall ==
  \/ LoadModule \/ UnloadModule \/ Attach \/ Scan \/ RemoveScanned \/ Detach
  \/ StartAdapter \/ StopAdapter \/ ResetAdminQueue \/ QuiesceDevice
  \/ \E n \in 0..MaxDesired : SetNumberIOQueues(n)
  \/ \E q \in IoQueues : CreateIOQueue(q) \/ DeleteIOQueue(q)
  \/ NotifyAdapterIOAllowed

-----------------------------------------------------------------------------
(* The steps.                                                              *)

NoCall == [name |-> "none", steps |-> <<>>]
Running == ~Idle /\ pos <= Len(call.steps)
NextStep == IF back = 0 THEN call.steps[pos] ELSE call.steps[pos].undo[back]
StepIs(do) == Running /\ NextStep.do = do

(* The queue list takes the states of its queues with it.                  *)
Contents(t) ==
  {t} \cup IF t = <<"queueList", 0>>
           THEN {u \in held : u[1] = "exists"} ELSE {}

(* After a step, and after a failure: the labels, then the end of the call *)
(* or, for a step whose failure is ignored, the next one.                  *)
Forward ==
  IF back = 0 THEN pos' = pos + 1 /\ back' = 0
  ELSE IF back < Len(call.steps[pos].undo) THEN pos' = pos /\ back' = back + 1
  ELSE back' = 0 /\ pos' = IF call.steps[pos].do = "try" THEN pos + 1
                           ELSE Len(call.steps) + 1
FailStep ==
  IF NextStep.undo # <<>> THEN pos' = pos /\ back' = 1
  ELSE back' = 0 /\ pos' = IF NextStep.do = "try" THEN pos + 1
                           ELSE Len(call.steps) + 1

(* What may be missing, or is there already, is not tried.                 *)
Skipped == NextStep.token \in held \/ ~(NextStep.if \subseteq held)

Take ==
  /\ StepIs("get") \/ StepIs("add") \/ (StepIs("try") /\ ~Skipped)
  /\ held' = held \cup {NextStep.token}
  /\ Forward
  /\ UNCHANGED <<call, msi, numIntrs, maxIoQueues, isRemoved>>

Refuse ==
  /\ \/ \E do \in {"get", "ask", "refuse", "cookies"} : StepIs(do)
     \/ StepIs("try") /\ ~Skipped
  /\ FailStep
  /\ UNCHANGED <<held, call, msi, numIntrs, maxIoQueues, isRemoved>>

Answer ==
  /\ StepIs("ask") \/ (StepIs("gate") /\ ~isRemoved) \/ (StepIs("try") /\ Skipped)
  /\ Forward
  /\ UNCHANGED <<held, call, msi, numIntrs, maxIoQueues, isRemoved>>

(* ResetAdminQueue does not start the queue of a pulled device.            *)
Gate ==
  /\ StepIs("gate") /\ isRemoved
  /\ FailStep
  /\ UNCHANGED <<held, call, msi, numIntrs, maxIoQueues, isRemoved>>

(* vmk_PCIAllocIntrCookie grants one cookie at least.                      *)
TakeCookies(n) ==
  /\ StepIs("cookies") /\ n <= NextStep.want
  /\ held' = held \cup {NextStep.token}
  /\ numIntrs' = n
  /\ Forward
  /\ UNCHANGED <<call, msi, maxIoQueues, isRemoved>>

GiveBack ==
  /\ StepIs("put") \/ StepIs("drop")
  /\ held' = held \ Contents(NextStep.token)
  /\ numIntrs' = IF NextStep.token = <<"cookies", 0>> THEN 0 ELSE numIntrs
  /\ Forward
  /\ UNCHANGED <<call, msi, maxIoQueues, isRemoved>>

(* The end of SetNumberIOQueues: the queues that there are interrupts for, *)
(* and RequestIoQueues, in which the device grants no more than asked.     *)
OfferedQueues == IF msi THEN 1 ELSE numIntrs - 1
GrantMore(n) ==
  /\ StepIs("grant") /\ ~isRemoved
  /\ OfferedQueues >= 1 /\ n \in 1..MaxIoQueues
  /\ maxIoQueues' = n
  /\ Forward
  /\ UNCHANGED <<held, call, msi, numIntrs, isRemoved>>
Grant(n) ==
  /\ StepIs("grant") /\ ~isRemoved
  /\ OfferedQueues >= 1 /\ n \in 1..OfferedQueues
  /\ maxIoQueues' = n
  /\ Forward
  /\ UNCHANGED <<held, call, msi, numIntrs, isRemoved>>
GrantNothing ==
  /\ StepIs("grant")
  /\ FailStep
  /\ UNCHANGED <<held, call, msi, numIntrs, maxIoQueues, isRemoved>>

Return ==
  /\ ~Idle /\ pos > Len(call.steps)
  /\ call' = NoCall /\ pos' = 0 /\ back' = 0
  /\ UNCHANGED <<held, msi, numIntrs, maxIoQueues, isRemoved>>

StepCall ==
  \/ Take \/ Refuse \/ Answer \/ Gate \/ GiveBack \/ GrantNothing \/ Return
  \/ \E n \in 1..(MaxDesired + 1) : TakeCookies(n) \/ Grant(n)

Init ==
  /\ held = {} /\ call = NoCall /\ pos = 0 /\ back = 0
  /\ msi \in BOOLEAN /\ numIntrs = 0 /\ maxIoQueues = 0 /\ isRemoved = FALSE

Next == BeginCall \/ ForgetDevice \/ StepCall

Spec == Init /\ [][Next]_vars

-----------------------------------------------------------------------------
(* Properties.                                                             *)

Bodies(q) ==
  {<<n, q>> : n \in {"cqInfo", "cqLock", "sqInfo", "sqLock", "cmdList", "cmdLock",
                     "cmdArray", "stats"}}
  \cup {DmaAlloc(part, q)[i].token : part \in {"cq", "sq"}, i \in 1..4}
ModuleLevel == {<<n, 0>> : n \in {"heap", "log", "memPool", "lock", "driver"}}
DeviceLevel ==
  {<<n, 0>> : n \in {"ctrlr", "dmaEngine", "sgHandle", "lockDomain", "queueList", "listed"}}
  \cup Bodies(0)
AdapterLevel == {<<n, 0>> : n \in {"IODmaEngine", "adapter", "device"}}
ControllerLevel == {<<n, 0>> : n \in {"controller", "registered"}}

(* What the driver leaves behind: the register space of a device that      *)
(* could not be made bus master, the module's key-value handle when a key  *)
(* could not be added, and under MSI the handler, which nothing            *)
(* unregisters, and the cookies when the handler could not be registered.  *)
LeftBehind ==
  {<<"bar", 0>>, <<"mgmt", 0>>}
  \cup IF msi THEN {<<"msiHandler", 0>>, <<"cookies", 0>>, <<"intrArray", 0>>} ELSE {}

(* What a resource is made from, or what the thread that it lets in reads: *)
(* an interrupt or a poll can come while its vector is enabled or its      *)
(* handler is, a timer tick or a key while they are registered.            *)
MadeFrom(t) ==
  LET q == t[2]
      Own(names) == {<<n, q>> : n \in names}
      Common(names) == {<<n, 0>> : n \in names}
  IN CASE t[1] \in {"log", "memPool", "lock", "mgmt", "ctrlr"} -> Common({"heap"})
       [] t[1] = "driver" -> Common({"heap", "log", "memPool", "lock", "mgmt"})
       [] t[1] \in {"dmaEngine", "lockDomain", "queueList", "intrArray"} -> Common({"ctrlr"})
       [] t[1] = "sgHandle" -> Common({"dmaEngine"})
       [] t[1] = "cookies" -> Common({"intrArray"})
       [] t[1] = "listed" -> Common({"ctrlr", "bar", "queueList"})
       [] t[1] \in {"cqLock", "sqLock", "cmdLock"} -> Common({"lockDomain"})
       [] t[1] \in {"cqPages", "sqPages"} -> Common({"memPool"})
       [] t[1] \in {"cqSgIn", "sqSgIn"} -> Common({"sgHandle"})
       [] t[1] \in {"cqSgOut", "sqSgOut"} -> Common({"dmaEngine", "sgHandle"})
       [] t[1] = "exists" -> Common({"queueList"})
       [] t[1] = "vector" -> Own({"cqInfo"}) \cup Common({"cookies"})
       [] t[1] = "isIntrEnabled" -> Own({"vector"}) \cup Bodies(q)
       [] t[1] = "pollEnabled" -> Own({"pollHandler"}) \cup Bodies(q)
       [] t[1] = "pollHandler" -> Own({"cqInfo", "sqInfo", "cmdList"}) \cup Common({"adapter"})
       [] t[1] = "active" -> Own({"exists"}) \cup Bodies(q) \cup Common({"bar"})
       [] t[1] = "adapter" -> Common({"IODmaEngine", "ctrlr"})
       [] t[1] = "device" -> Common({"adapter", "listed"})
       [] t[1] = "controller" -> Common({"adapter"})
       [] t[1] = "registered" -> Common({"controller"})
       [] t[1] = "timer" -> Common({"timerQueue", "controller", "queueList"})
       [] t[1] = "kvMgmt" -> Common({"ctrlr", "controller", "adapter"})
       [] OTHER -> {}

(* Whatever fails, and in the middle of every call: nothing that the       *)
(* driver still holds, or that can still call it, refers to what it has    *)
(* given back.                                                             *)
NothingDangles == \A t \in held \ LeftBehind : MadeFrom(t) \subseteq held

(* No label and no destruction gives back what is not held: after a        *)
(* failure of ReallocIntr the vector and the cookies are gone when the     *)
(* device is detached.                                                     *)
GivesBackHeld == StepIs("put") => NextStep.token \in held

(* A call that returns has taken everything or nothing: what it held when  *)
(* a step failed has been given back.                                      *)
AllOrNothing ==
  Idle => /\ \A level \in {ModuleLevel, DeviceLevel, AdapterLevel, ControllerLevel}
                           \cup {Bodies(q) : q \in IoQueues} :
                level \subseteq held \/ level \cap held = {}
          /\ Holds("driver") => Holds("mgmt")
          /\ Holds("listed") => Holds("bar")
          /\ \A q \in IoQueues : q \in Counted <=> Bodies(q) \subseteq held

(* A queue that accepts commands under MSIX has a vector of its own and    *)
(* the vector is enabled, whatever number of interrupts the kernel and of  *)
(* queues the device has granted.  Only the admin queue of a controller    *)
(* that has lost its interrupts may have none.                             *)
VectorPerQueue ==
  Idle /\ ~msi => \A q \in 0..MaxIoQueues :
    <<"active", q>> \in held =>
      \/ {<<"vector", q>>, <<"isIntrEnabled", q>>} \subseteq held
      \/ q = 0 /\ ~Holds("cookies")

(* A controller whose interrupts could not be allocated again (ReallocIntr)*)
(* serves no IO queue, also when vmknvme goes on to create some.           *)
DeafServesNothing ==
  Idle /\ Holds("listed") /\ ~Holds("cookies") => Counted = {} /\ maxIoQueues = 0
=============================================================================
