---------------------------- MODULE StoragePoll -----------------------------
(***************************************************************************)
(* Who looks at the completion queue: NVMEPCIEQueueIntrHandler,            *)
(* NVMEPCIEStoragePollCB and the switching between them                    *)
(* (NVMEPCIEEnableIntr, NVMEPCIEDisableIntr, NVMEPCIEStoragePollSetup,     *)
(* Enable, Disable), while the queue is suspended, flushed and resumed.    *)
(* The vector may be the queue's own (MSIX), or the one MSI the whole      *)
(* controller has, whose handler is NVMEPCIECtrlMsiHandler.                *)
(*                                                                         *)
(* Interrupts are edge triggered: one that arrives while the vector is     *)
(* masked is lost, and a completion entry nobody is told of stays where it *)
(* is (the driver calls it a dead CQE).                                    *)
(*                                                                         *)
(* NVMEPCIEProcessCq takes all entries there are (module QueuePair) and is *)
(* one action here.  vmkernel's StoragePoll is external: Activate makes a  *)
(* call of the callback due, also while a call is running; the callback is *)
(* called again as long as it asks for it by its return value; Disable     *)
(* waits for a running call.                                               *)
(***************************************************************************)
EXTENDS Naturals

CONSTANTS MaxOut,        (* bound on the commands outstanding              *)
          Vectors,       (* the kinds of queue and vector there may be     *)
          InitialPoll,   (* where the poll handler may be at first         *)
          MaxSetups,     (* bound on NVMEPCIEStoragePollSetup              *)
          MaxSuspends    (* bound on the calls of NVMEPCIESuspendQueue     *)

Kinds == {"msix", "msiAdmin", "msiIo"}
ASSUME VectorsAssumption == Vectors \subseteq Kinds
ASSUME InitialPollAssumption == InitialPoll \subseteq {"none", "idle"}
ASSUME BoundsAssumption ==
  MaxOut \in Nat /\ MaxSetups \in Nat /\ MaxSuspends \in Nat

VARIABLES
  vector,         (* ctrlr->osRes.intrType; for MSI also which queue it is *)
  state,          (* qinfo->state                                          *)
  executing,      (* commands the device works on                          *)
  cqes,           (* completion entries not processed                      *)
  irq, masked,    (* the interrupt vector: raised; masked                  *)
  isIntrEnabled,  (* qinfo->isIntrEnabled                                  *)
  poll,           (* qinfo->pollHandler: "none" (NULL), "disabled", "idle",*)
                  (* or "active": a call of the callback is due            *)
  isPollHdlrEnabled,
  handler,        (* pc of the interrupt handler                           *)
  callback,       (* pc and needPoll of NVMEPCIEStoragePollCB              *)
  control,        (* pc of the thread that suspends, flushes and resumes   *)
  suspends, setups (* calls of NVMEPCIESuspendQueue and of Setup so far     *)

hwVars == <<executing, cqes, irq, masked>>
aside == <<vector, suspends, setups>>
pollVars == <<poll, isPollHdlrEnabled>>
vars == <<state, hwVars, isIntrEnabled, pollVars, handler, callback, control,
          aside>>

Msix == vector = "msix"

-----------------------------------------------------------------------------
(* The device and its vector (external).                                   *)

Submit ==
  /\ state = "ACTIVE"
  /\ executing + cqes < MaxOut
  /\ executing' = executing + 1
  /\ UNCHANGED <<state, cqes, irq, masked, isIntrEnabled, pollVars, handler,
                 callback, control, aside>>

Post ==
  /\ executing > 0
  /\ executing' = executing - 1
  /\ cqes' = cqes + 1
  /\ irq' = (irq \/ ~masked)
  /\ UNCHANGED <<state, masked, isIntrEnabled, pollVars, handler, callback,
                 control, aside>>

Mask == masked' = TRUE /\ irq' = FALSE
ProcessCq == cqes' = 0

-----------------------------------------------------------------------------
(* The interrupt handler of the queue, NVMEPCIEQueueIntrHandler, or        *)
(* NVMEPCIECtrlMsiHandler, which calls it for the admin queue and takes    *)
(* the IO queues to NVMEPCIEProcessCq itself.                              *)

Interrupt ==
  /\ handler = "idle" /\ irq
  /\ irq' = FALSE
  /\ handler' = "entered"
  /\ UNCHANGED <<state, executing, cqes, masked, isIntrEnabled, pollVars,
                 callback, control, aside>>

(* NVMEPCIECtrlMsiHandler looks neither at isIntrEnabled nor at the state. *)
MsiHandlerEntersIoQueue ==
  /\ handler = "entered" /\ vector = "msiIo"
  /\ handler' = "process"
  /\ UNCHANGED <<state, hwVars, isIntrEnabled, pollVars, callback, control,
                 aside>>

HandlerReturns ==
  /\ handler = "entered" /\ vector # "msiIo" /\ ~isIntrEnabled
  /\ handler' = "idle"
  /\ UNCHANGED <<state, hwVars, isIntrEnabled, pollVars, callback, control,
                 aside>>

(* NVMEPCIEStoragePollSwitch: never without a poll handler; with one it    *)
(* depends on the load (nrAct, iopsLastSec) and on the run-time settings.  *)
HandlerDecides(switch) ==
  /\ handler = "entered" /\ vector # "msiIo" /\ isIntrEnabled
  /\ switch => poll # "none"
  /\ handler' = IF switch THEN "switch" ELSE "process"
  /\ UNCHANGED <<state, hwVars, isIntrEnabled, pollVars, callback, control,
                 aside>>

HandlerProcesses ==
  /\ handler = "process"
  /\ ProcessCq
  /\ handler' = "idle"
  /\ UNCHANGED <<state, executing, irq, masked, isIntrEnabled, pollVars,
                 callback, control, aside>>

(* vmk_StoragePollCheckState: a disabled handler is not activated, and     *)
(* nothing else is done.  Here and at the activation qinfo->pollHandler is *)
(* read again, and may have been destroyed since by an enabling that       *)
(* failed: the code is undefined then, and doing nothing stands for it.    *)
HandlerChecksPoll ==
  /\ handler = "switch"
  /\ handler' = IF poll \in {"none", "disabled"} THEN "idle" ELSE "disable"
  /\ UNCHANGED <<state, hwVars, isIntrEnabled, pollVars, callback, control,
                 aside>>

(* NVMEPCIEDisableIntr(qinfo, VMK_FALSE).                                  *)
HandlerDisables ==
  /\ handler = "disable"
  /\ isIntrEnabled' = IF Msix THEN FALSE ELSE isIntrEnabled
  /\ handler' = IF Msix /\ isIntrEnabled THEN "mask" ELSE "activate"
  /\ UNCHANGED <<state, hwVars, pollVars, callback, control, aside>>

HandlerMasks ==
  /\ handler = "mask"
  /\ Mask
  /\ handler' = "activate"
  /\ UNCHANGED <<state, executing, cqes, isIntrEnabled, pollVars, callback,
                 control, aside>>

(* vmk_StoragePollActivate.                                                *)
HandlerActivates ==
  /\ handler = "activate"
  /\ poll' = IF poll = "idle" THEN "active" ELSE poll
  /\ handler' = "idle"
  /\ UNCHANGED <<state, hwVars, isIntrEnabled, isPollHdlrEnabled, callback,
                 control, aside>>

Handler ==
  \/ MsiHandlerEntersIoQueue
  \/ HandlerReturns \/ \E switch \in BOOLEAN : HandlerDecides(switch)
  \/ HandlerProcesses \/ HandlerChecksPoll \/ HandlerDisables \/ HandlerMasks
  \/ HandlerActivates

-----------------------------------------------------------------------------
(* NVMEPCIEStoragePollCB.                                                  *)

(* With no budget nothing is processed.                                    *)
CallbackWithoutBudget ==
  /\ callback.pc = "idle" /\ poll = "active"
  /\ poll' = "idle"
  /\ callback' = [pc |-> "check", need |-> FALSE]
  /\ UNCHANGED <<state, hwVars, isIntrEnabled, isPollHdlrEnabled, handler,
                 control, aside>>

(* Otherwise needPoll says whether the number of entries processed is at   *)
(* least leastPoll (which is not 0) and at most budget.                    *)
CallbackProcesses(need) ==
  /\ callback.pc = "idle" /\ poll = "active"
  /\ need => cqes > 0
  /\ poll' = "idle"
  /\ ProcessCq
  /\ callback' = [pc |-> "check", need |-> need]
  /\ UNCHANGED <<state, executing, irq, masked, isIntrEnabled,
                 isPollHdlrEnabled, handler, control, aside>>

CallbackContinues ==
  /\ callback.pc = "check" /\ poll # "disabled" /\ callback.need
  /\ poll' = "active"
  /\ callback' = [callback EXCEPT !.pc = "idle"]
  /\ UNCHANGED <<state, hwVars, isIntrEnabled, isPollHdlrEnabled, handler,
                 control, aside>>

CallbackFindsDisabled ==
  /\ callback.pc = "check" /\ poll = "disabled"
  /\ isPollHdlrEnabled' = FALSE
  /\ callback' = [callback EXCEPT !.pc = "idle"]
  /\ UNCHANGED <<state, hwVars, isIntrEnabled, poll, handler, control, aside>>

(* A mutation of CallbackStops: the return value asks for another call.    *)
CallbackStopsAndContinues ==
  /\ callback.pc = "check" /\ poll # "disabled" /\ ~callback.need
  /\ poll' = "active"
  /\ callback' = [callback EXCEPT !.pc = "enable"]
  /\ UNCHANGED <<state, hwVars, isIntrEnabled, isPollHdlrEnabled, handler,
                 control, aside>>
(* Polling is over: interrupts are enabled again.                          *)
CallbackStops ==
  /\ callback.pc = "check" /\ poll # "disabled" /\ ~callback.need
  /\ callback' = [callback EXCEPT !.pc = "enable"]
  /\ UNCHANGED <<state, hwVars, isIntrEnabled, pollVars, handler, control,
                 aside>>

(* NVMEPCIEEnableIntr: the flag, then the vector.                          *)
CallbackEnables ==
  /\ callback.pc = "enable"
  /\ isIntrEnabled' = (Msix \/ isIntrEnabled)
  /\ callback' = [callback EXCEPT !.pc = IF Msix /\ ~isIntrEnabled
                                         THEN "unmask" ELSE "again"]
  /\ UNCHANGED <<state, hwVars, pollVars, handler, control, aside>>

(* A mutation of CallbackUnmasks: the queue is not processed once more.    *)
CallbackUnmasksOnly ==
  /\ callback.pc = "unmask"
  /\ masked' = FALSE
  /\ callback' = [callback EXCEPT !.pc = "idle"]
  /\ UNCHANGED <<state, executing, cqes, irq, isIntrEnabled, pollVars, handler,
                 control, aside>>
CallbackUnmasks ==
  /\ callback.pc = "unmask"
  /\ masked' = FALSE
  /\ callback' = [callback EXCEPT !.pc = "again"]
  /\ UNCHANGED <<state, executing, cqes, irq, isIntrEnabled, pollVars, handler,
                 control, aside>>

(* Avoid dead CQEs: process the queue once more.                           *)
CallbackProcessesAgain ==
  /\ callback.pc = "again"
  /\ ProcessCq
  /\ callback' = [callback EXCEPT !.pc = "idle"]
  /\ UNCHANGED <<state, executing, irq, masked, isIntrEnabled, pollVars,
                 handler, control, aside>>

CallbackStart == CallbackWithoutBudget \/ \E need \in BOOLEAN : CallbackProcesses(need)
Callback ==
  \/ CallbackContinues \/ CallbackFindsDisabled \/ CallbackStops
  \/ CallbackEnables \/ CallbackUnmasks \/ CallbackProcessesAgain

-----------------------------------------------------------------------------
(* NVMEPCIESuspendQueue.                                                   *)

Suspend ==
  /\ control = "idle" /\ state = "ACTIVE" /\ suspends < MaxSuspends
  /\ suspends' = suspends + 1
  /\ state' = "SUSPENDED"
  /\ control' = "pollFlag"
  /\ UNCHANGED <<hwVars, isIntrEnabled, pollVars, handler, callback, vector,
                 setups>>

(* NVMEPCIEStoragePollDisable: the flag, then vmk_StoragePollDisable, ...  *)
ClearPollFlag ==
  /\ control = "pollFlag"
  /\ control' = IF poll # "none" /\ isPollHdlrEnabled THEN "pollDisable" ELSE "intrFlag"
  /\ isPollHdlrEnabled' = IF poll # "none" THEN FALSE ELSE isPollHdlrEnabled
  /\ UNCHANGED <<state, hwVars, isIntrEnabled, poll, handler, callback, aside>>

DisablePoll ==
  /\ control = "pollDisable"
  /\ poll' = "disabled"
  /\ control' = "pollWait"
  /\ UNCHANGED <<state, hwVars, isIntrEnabled, isPollHdlrEnabled, handler,
                 callback, aside>>

(* ... which waits for the callback.                                       *)
AwaitCallback ==
  /\ control = "pollWait" /\ callback.pc = "idle"
  /\ control' = "intrFlag"
  /\ UNCHANGED <<state, hwVars, isIntrEnabled, pollVars, handler, callback,
                 aside>>

(* A mutation of ClearIntrFlag: the interrupt is not synchronised.         *)
ClearIntrFlagNoSync ==
  /\ control = "intrFlag"
  /\ isIntrEnabled' = IF Msix THEN FALSE ELSE isIntrEnabled
  /\ control' = IF Msix /\ isIntrEnabled THEN "mask" ELSE "flush"
  /\ UNCHANGED <<state, hwVars, pollVars, handler, callback, aside>>
(* NVMEPCIEDisableIntr(qinfo, VMK_TRUE): the flag, vmk_IntrSync and        *)
(* vmk_IntrDisable - or nothing, if the flag was cleared before.           *)
ClearIntrFlag ==
  /\ control = "intrFlag"
  /\ isIntrEnabled' = IF Msix THEN FALSE ELSE isIntrEnabled
  /\ control' = IF Msix /\ isIntrEnabled THEN "sync" ELSE "flush"
  /\ UNCHANGED <<state, hwVars, pollVars, handler, callback, aside>>

SyncIntr ==
  /\ control = "sync" /\ handler = "idle"
  /\ control' = "mask"
  /\ UNCHANGED <<state, hwVars, isIntrEnabled, pollVars, handler, callback,
                 aside>>

MaskIntr ==
  /\ control = "mask"
  /\ Mask
  /\ control' = "flush"
  /\ UNCHANGED <<state, executing, cqes, isIntrEnabled, pollVars, handler,
                 callback, aside>>

(* The rest of NVMEPCIEStopQueue, and NVMEPCIEInitQueue: the device's      *)
(* queues are deleted, all commands are completed, the rings are reset.    *)
FlushAndInit ==
  /\ control = "flush"
  /\ executing' = 0 /\ cqes' = 0
  /\ control' = "resume"
  /\ UNCHANGED <<state, irq, masked, isIntrEnabled, pollVars, handler, callback,
                 aside>>

(* NVMEPCIEResumeQueue: the state, ...                                     *)
Resume ==
  /\ control = "resume"
  /\ state' = "ACTIVE"
  /\ control' = "enablePoll"
  /\ UNCHANGED <<hwVars, isIntrEnabled, pollVars, handler, callback, aside>>

(* ... NVMEPCIEStoragePollEnable, ...                                      *)
SetPollFlag ==
  /\ control \in {"enablePoll", "setup"}
  /\ isPollHdlrEnabled' = (isPollHdlrEnabled \/ poll # "none")
  /\ control' = CASE poll # "none" /\ ~isPollHdlrEnabled ->
                       IF control = "setup" THEN "setupPoll" ELSE "resumePoll"
                  [] control = "setup" -> "idle"
                  [] OTHER -> "enableIntr"
  /\ UNCHANGED <<state, hwVars, isIntrEnabled, poll, handler, callback, aside>>

(* A mutation of EnablePoll: the flag stays set when the enabling fails.   *)
EnablePollKeepFlag(ok) ==
  /\ control \in {"setupPoll", "resumePoll"}
  /\ poll' = IF ok THEN "idle" ELSE "none"
  /\ control' = IF control = "setupPoll" THEN "idle" ELSE "enableIntr"
  /\ UNCHANGED <<state, hwVars, isIntrEnabled, isPollHdlrEnabled, handler,
                 callback, aside>>
(* ... where vmk_StoragePollEnable may fail: the handler is destroyed and  *)
(* forgotten, ...                                                          *)
EnablePoll(ok) ==
  /\ control \in {"setupPoll", "resumePoll"}
  /\ poll' = IF ok THEN "idle" ELSE "none"
  /\ control' = IF control = "setupPoll"
                THEN IF ok THEN "idle" ELSE "setupFailed"
                ELSE IF ok THEN "enableIntr" ELSE "resumeFailed"
  /\ UNCHANGED <<state, hwVars, isIntrEnabled, isPollHdlrEnabled, handler,
                 callback, aside>>

(* ... then the flag is cleared ...                                        *)
ForgetPoll ==
  /\ control \in {"setupFailed", "resumeFailed"}
  /\ isPollHdlrEnabled' = FALSE
  /\ control' = IF control = "setupFailed" THEN "idle" ELSE "enableIntr"
  /\ UNCHANGED <<state, hwVars, isIntrEnabled, poll, handler, callback, aside>>

(* ... and NVMEPCIEEnableIntr.                                             *)
SetIntrFlag ==
  /\ control = "enableIntr"
  /\ isIntrEnabled' = (Msix \/ isIntrEnabled)
  /\ control' = IF Msix /\ ~isIntrEnabled THEN "unmask" ELSE "idle"
  /\ UNCHANGED <<state, hwVars, pollVars, handler, callback, aside>>

UnmaskIntr ==
  /\ control = "unmask"
  /\ masked' = FALSE
  /\ control' = "idle"
  /\ UNCHANGED <<state, executing, cqes, irq, isIntrEnabled, pollVars, handler,
                 callback, aside>>

(* NVMEPCIEStoragePollSetup for a queue in use: the handler is created,    *)
(* and then enabled as in NVMEPCIEResumeQueue.                             *)
CreatePoll ==
  /\ control = "idle" /\ poll = "none" /\ setups < MaxSetups
  /\ setups' = setups + 1
  /\ poll' = "disabled"
  /\ control' = "setup"
  /\ UNCHANGED <<state, hwVars, isIntrEnabled, isPollHdlrEnabled, handler,
                 callback, vector, suspends>>

Control ==
  \/ ClearPollFlag \/ DisablePoll \/ AwaitCallback
  \/ ClearIntrFlag \/ SyncIntr \/ MaskIntr
  \/ FlushAndInit \/ Resume
  \/ SetPollFlag \/ \E ok \in BOOLEAN : EnablePoll(ok)
  \/ ForgetPoll \/ SetIntrFlag \/ UnmaskIntr

-----------------------------------------------------------------------------
(* The queue was created and resumed: NVMEPCIEEnableIntr did its part, for *)
(* MSIX only; the vector of an MSI is never masked.                        *)
Init ==
  /\ vector \in Vectors
  /\ state = "ACTIVE"
  /\ executing = 0 /\ cqes = 0
  /\ irq = FALSE /\ masked = FALSE
  /\ isIntrEnabled = Msix
  /\ poll \in InitialPoll
  /\ isPollHdlrEnabled = (poll # "none")
  /\ handler = "idle"
  /\ callback = [pc |-> "idle", need |-> FALSE]
  /\ control = "idle"
  /\ suspends = 0 /\ setups = 0

Next ==
  \/ Submit \/ Post
  \/ Interrupt \/ Handler
  \/ CallbackStart \/ Callback
  \/ Suspend \/ Control \/ CreatePoll

Spec == Init /\ [][Next]_vars

(* A raised interrupt is delivered, a due callback is called, and threads  *)
(* go on.  Nothing is assumed of the device, nor of the submitters.        *)
FairSpec ==
  /\ Spec
  /\ WF_vars(Interrupt) /\ WF_vars(Handler)
  /\ WF_vars(CallbackStart) /\ WF_vars(Callback)
  /\ WF_vars(Control)

-----------------------------------------------------------------------------
(* Type correctness; a masked vector holds no interrupt, and only a poll   *)
(* handler that exists is noted as enabled, but for the moment in which    *)
(* NVMEPCIEStoragePollEnable has destroyed it.                             *)
TypeOK ==
  /\ vector \in Vectors
  /\ state \in {"ACTIVE", "SUSPENDED"}
  /\ executing \in Nat /\ cqes \in Nat /\ executing + cqes <= MaxOut
  /\ irq \in BOOLEAN /\ masked \in BOOLEAN /\ (masked => ~irq)
  /\ isIntrEnabled \in BOOLEAN
  /\ poll \in {"none", "disabled", "idle", "active"}
  /\ isPollHdlrEnabled \in BOOLEAN
  /\ isPollHdlrEnabled /\ poll = "none" => control \in {"setupFailed", "resumeFailed"}
  /\ handler \in {"idle", "entered", "process", "switch", "disable", "mask",
                  "activate"}
  /\ callback \in [pc : {"idle", "check", "enable", "unmask", "again"},
                   need : BOOLEAN]
  /\ control \in {"idle", "pollFlag", "pollDisable", "pollWait", "intrFlag",
                  "sync", "mask", "flush", "resume", "enablePoll", "resumePoll",
                  "resumeFailed", "setup", "setupPoll", "setupFailed",
                  "enableIntr", "unmask"}
  /\ suspends \in 0..MaxSuspends /\ setups \in 0..MaxSetups

(* With MSIX, SuspendQueue returns with the queue left alone: neither the  *)
(* interrupt handler nor the poll callback is, or gets, into               *)
(* NVMEPCIEProcessCq until the queue is resumed, although the handler is   *)
(* not waited for when it has cleared isIntrEnabled itself.  The handler   *)
(* of an MSI processes a suspended IO queue as any other.                  *)
SuspendedAlone ==
  Msix /\ control \in {"flush", "resume"} => handler # "process" /\ callback.pc = "idle"

(* With MSIX, isIntrEnabled keeps vmk_IntrEnable and vmk_IntrDisable in    *)
(* pairs: but for a thread between its access to the flag and the call,    *)
(* the flag is the state of the vector.  That is so until the first        *)
(* suspension, which may overtake a handler that is about to mask the      *)
(* vector.                                                                 *)
FlagIsVector ==
  Msix /\ suspends = 0 /\ handler # "mask" /\ callback.pc # "unmask"
    /\ control \notin {"sync", "mask", "unmask"}
  => isIntrEnabled = ~masked

(* No dead CQE: an entry that the device posted is processed.  This holds  *)
(* while the queue is neither suspended nor given a poll handler late: the *)
(* first may leave the vector masked, the second makes the interrupt       *)
(* handler leave an entry to a poll handler that is not enabled yet.       *)
CqesProcessed == cqes > 0 ~> cqes = 0 \/ suspends > 0 \/ setups > 0
=============================================================================
