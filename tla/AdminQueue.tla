---------------------------- MODULE AdminQueue ------------------------------
(***************************************************************************)
(* Synchronous commands on the admin queue while it is reset and while the *)
(* device is pulled: NVMEPCIESubmitSyncCommand, NVMEPCIECompleteSyncCommand *)
(* and NVMEPCIEGetCmdInfo/PutCmdInfo with abort enabled,                   *)
(* NVMEPCIESuspendQueue, FlushQueue, InitQueue and ResumeQueue of          *)
(* nvme_pcie.c, ResetAdminQueue of nvme_pcie_adapter.c and QuiesceDevice   *)
(* of nvme_pcie_driver.c.                                                  *)
(*                                                                         *)
(* A slot's status decides who frees a command: the waiter, if it finds    *)
(* DONE, or the completer, if the waiter gave up and left                  *)
(* FREE_ON_COMPLETE.  refCount keeps the flushers of the queue away from   *)
(* the slots while a submission is in progress.                            *)
(*                                                                         *)
(* The rings are those of QueuePair, here only the sets of commands that   *)
(* the device executes and has answered.  One action holds at most one     *)
(* access to what other threads change.                                    *)
(***************************************************************************)
EXTENDS Integers, FiniteSets

CONSTANTS Cmds,       (* calls of NVMEPCIESubmitSyncCommand                *)
          NumSlots,   (* NVME_PCIE_SYNC_CMD_NUM                            *)
          MaxResets,  (* bound on the calls of ResetAdminQueue             *)
          None

ASSUME NumSlotsAssumption == NumSlots \in Nat /\ NumSlots > 0

VARIABLES
  state,          (* qinfo->state                                          *)
  refCount,       (* qinfo->refCount                                       *)
  isIntrEnabled,  (* qinfo->isIntrEnabled                                  *)
  isRemoved,      (* ctrlr->isRemoved                                      *)
  status,         (* atomicStatus of each slot                             *)
  vmkCmd,         (* vmkCmd of each slot                                   *)
  nrAct,          (* cmdList->nrAct                                        *)
  executing,      (* slots (cids) of the commands the device works on      *)
  posted,         (* cids in the completion ring not processed yet         *)
  cqLock,         (* the agent that holds cqInfo->lock                     *)
  listLock,       (* the agent that holds cmdList->lock                    *)
  sub,            (* the submitting threads                                *)
  agent,          (* the threads that complete commands                    *)
  held,           (* 1 while a command's DMA buffer and vmkCmd are in use  *)
  resets          (* calls of ResetAdminQueue so far                       *)

queueVars == <<state, refCount, isIntrEnabled, isRemoved>>
slotVars == <<status, vmkCmd, nrAct>>
hwVars == <<executing, posted>>
lockVars == <<cqLock, listLock>>
vars == <<queueVars, slotVars, hwVars, lockVars, sub, agent, held, resets>>

Slots == 1..NumSlots
Flushers == {"reset", "quiesce"}
Agents == Flushers \cup {"intr"}
ASSUME NoneAssumption == None \notin Cmds \cup Agents \cup {"OK", "FAILURE", "TIMEOUT"}

Outstanding == {"ACTIVE", "FREE_ON_COMPLETE"}

-----------------------------------------------------------------------------
(* NVMEPCIESubmitSyncCommand.                                              *)

SubGoes(c, pc) == sub' = [sub EXCEPT ![c].pc = pc]
SubReturns(c, result) ==
  sub' = [sub EXCEPT ![c].pc = "returned", ![c].result = result]

SubmitEnter(c) ==
  /\ sub[c].pc = "idle"
  /\ refCount' = refCount + 1
  /\ SubGoes(c, "entered")
  /\ UNCHANGED <<state, isIntrEnabled, isRemoved, slotVars, hwVars, lockVars,
                 agent, held, resets>>

(* The queue is not active: IN_RESET.                                      *)
SubmitRefused(c) ==
  /\ sub[c].pc = "entered"
  /\ state # "ACTIVE"
  /\ SubGoes(c, "leave")
  /\ UNCHANGED <<queueVars, slotVars, hwVars, lockVars, agent, held, resets>>

SubmitAllowed(c) ==
  /\ sub[c].pc = "entered"
  /\ state = "ACTIVE"
  /\ sub' = [sub EXCEPT ![c].pc = "scan", ![c].slot = NumSlots]
  /\ UNCHANGED <<queueVars, slotVars, hwVars, lockVars, agent, held, resets>>

(* A mutation of GetSlot: a slot that is not active is taken for free.     *)
GetInactiveSlot(c) ==
  LET s == sub[c].slot
  IN /\ sub[c].pc = "scan" /\ s > 0
     /\ status[s] # "ACTIVE"
     /\ status' = [status EXCEPT ![s] = "ACTIVE"]
     /\ SubGoes(c, "count")
     /\ UNCHANGED <<queueVars, vmkCmd, nrAct, hwVars, lockVars, agent, held,
                    resets>>
(* NVMEPCIEGetCmdInfo: the compare-and-swap on one slot succeeds ...       *)
GetSlot(c) ==
  LET s == sub[c].slot
  IN /\ sub[c].pc = "scan" /\ s > 0
     /\ status[s] = "FREE"
     /\ status' = [status EXCEPT ![s] = "ACTIVE"]
     /\ SubGoes(c, "count")
     /\ UNCHANGED <<queueVars, vmkCmd, nrAct, hwVars, lockVars, agent, held,
                    resets>>

(* ... or fails, and the scan goes on ...                                  *)
NextSlot(c) ==
  /\ sub[c].pc = "scan" /\ sub[c].slot > 0
  /\ status[sub[c].slot] # "FREE"
  /\ sub' = [sub EXCEPT ![c].slot = @ - 1]
  /\ UNCHANGED <<queueVars, slotVars, hwVars, lockVars, agent, held, resets>>

(* ... until no slot is left: QUEUE_FULL.                                  *)
NoSlot(c) ==
  /\ sub[c].pc = "scan" /\ sub[c].slot = 0
  /\ SubGoes(c, "leave")
  /\ UNCHANGED <<queueVars, slotVars, hwVars, lockVars, agent, held, resets>>

CountSlot(c) ==
  /\ sub[c].pc = "count"
  /\ nrAct' = nrAct + 1
  /\ SubGoes(c, "prepare")
  /\ UNCHANGED <<queueVars, status, vmkCmd, hwVars, lockVars, agent, held,
                 resets>>

(* PrepareDmaEntry, and the command is attached to the slot.               *)
Prepare(c) ==
  /\ sub[c].pc = "prepare"
  /\ held' = [held EXCEPT ![c] = @ + 1]
  /\ vmkCmd' = [vmkCmd EXCEPT ![sub[c].slot] = c]
  /\ SubGoes(c, "issue")
  /\ UNCHANGED <<queueVars, status, nrAct, hwVars, lockVars, agent, resets>>

(* PrepareDmaEntry fails: NO_MEMORY.                                       *)
PrepareFails(c) ==
  /\ sub[c].pc = "prepare"
  /\ SubGoes(c, "giveBack")
  /\ UNCHANGED <<queueVars, slotVars, hwVars, lockVars, agent, held, resets>>

(* A failed submission puts its slot back (NVMEPCIEPutCmdInfo), ...        *)
GiveBack(c) ==
  /\ sub[c].pc = "giveBack"
  /\ status' = [status EXCEPT ![sub[c].slot] = "FREE"]
  /\ SubGoes(c, "uncount")
  /\ UNCHANGED <<queueVars, vmkCmd, nrAct, hwVars, lockVars, agent, held,
                 resets>>

Uncount(c) ==
  /\ sub[c].pc = "uncount"
  /\ nrAct' = nrAct - 1
  /\ SubGoes(c, "leave")
  /\ UNCHANGED <<queueVars, status, vmkCmd, hwVars, lockVars, agent, held,
                 resets>>

(* A mutation of Leave: the reference is not dropped.                      *)
LeaveKeepingReference(c) ==
  /\ sub[c].pc = "leave"
  /\ SubReturns(c, "FAILURE")
  /\ UNCHANGED <<queueVars, slotVars, hwVars, lockVars, agent, held, resets>>
(* ... and drops the reference.                                            *)
Leave(c) ==
  /\ sub[c].pc = "leave"
  /\ refCount' = refCount - 1
  /\ SubReturns(c, "FAILURE")
  /\ UNCHANGED <<state, isIntrEnabled, isRemoved, slotVars, hwVars, lockVars,
                 agent, held, resets>>

(* A mutation of MayIssue: a removed device is not noticed.                *)
MayIssueRemoved == state # "SUSPENDED"
(* The checks of NVMEPCIEIssueCommandToHw under the submission-queue lock. *)
MayIssue == state # "SUSPENDED" /\ ~isRemoved

(* Nothing is executed while vmknvme resets the controller.                *)
DeviceOn == agent["reset"].pc = "idle" /\ ~isRemoved

Issue(c) ==
  /\ sub[c].pc = "issue"
  /\ MayIssue
  /\ executing' = executing \cup (IF DeviceOn THEN {sub[c].slot} ELSE {})
  /\ SubGoes(c, "wait")
  /\ UNCHANGED <<queueVars, slotVars, posted, lockVars, agent, held, resets>>

(* Refused by the same checks, or because the ring is full: that is a free *)
(* choice, as it holds the asynchronous commands of vmknvme as well.       *)
IssueRefused(c) ==
  /\ sub[c].pc = "issue"
  /\ held' = [held EXCEPT ![c] = @ - 1]
  /\ SubGoes(c, "giveBack")
  /\ UNCHANGED <<queueVars, slotVars, hwVars, lockVars, agent, resets>>

(* vmk_WorldWait ends because the command is no longer active ...          *)
WakeUp(c) ==
  /\ sub[c].pc = "wait"
  /\ status[sub[c].slot] # "ACTIVE"
  /\ SubGoes(c, "decide")
  /\ UNCHANGED <<queueVars, slotVars, hwVars, lockVars, agent, held, resets>>

(* A mutation of TimeOut: the wait has no end.                             *)
TimeOutNever(c) == c \notin Cmds /\ UNCHANGED vars
(* ... or because the time is up.                                          *)
TimeOut(c) ==
  /\ sub[c].pc = "wait"
  /\ SubGoes(c, "decide")
  /\ UNCHANGED <<queueVars, slotVars, hwVars, lockVars, agent, held, resets>>

(* The status is DONE: the reference is dropped, then the waiter frees.    *)
Done(c) ==
  /\ sub[c].pc = "decide"
  /\ status[sub[c].slot] = "DONE"
  /\ refCount' = refCount - 1
  /\ SubGoes(c, "put")
  /\ UNCHANGED <<state, isIntrEnabled, isRemoved, slotVars, hwVars, lockVars,
                 agent, held, resets>>

NotDone(c) ==
  /\ sub[c].pc = "decide"
  /\ status[sub[c].slot] # "DONE"
  /\ sub' = [sub EXCEPT ![c].pc = "swap", ![c].old = status[sub[c].slot]]
  /\ UNCHANGED <<queueVars, slotVars, hwVars, lockVars, agent, held, resets>>

(* A mutation of GiveUp: a plain write instead of the compare-and-swap.    *)
GiveUpBlindly(c) ==
  /\ sub[c].pc = "swap"
  /\ status' = [status EXCEPT ![sub[c].slot] = "FREE_ON_COMPLETE"]
  /\ SubGoes(c, "timedOut")
  /\ UNCHANGED <<queueVars, vmkCmd, nrAct, hwVars, lockVars, agent, held, resets>>
(* The compare-and-swap that hands the command over to its completer.      *)
GiveUp(c) ==
  /\ sub[c].pc = "swap"
  /\ status[sub[c].slot] = sub[c].old
  /\ status' = [status EXCEPT ![sub[c].slot] = "FREE_ON_COMPLETE"]
  /\ SubGoes(c, "timedOut")
  /\ UNCHANGED <<queueVars, vmkCmd, nrAct, hwVars, lockVars, agent, held, resets>>

SwapFails(c) ==
  /\ sub[c].pc = "swap"
  /\ status[sub[c].slot] # sub[c].old
  /\ SubGoes(c, "decide")
  /\ UNCHANGED <<queueVars, slotVars, hwVars, lockVars, agent, held, resets>>

(* A mutation of TimedOut: the caller frees the command after VMK_TIMEOUT. *)
TimedOutFreeing(c) ==
  /\ sub[c].pc = "timedOut"
  /\ refCount' = refCount - 1
  /\ held' = [held EXCEPT ![c] = @ - 1]
  /\ SubReturns(c, "TIMEOUT")
  /\ UNCHANGED <<state, isIntrEnabled, isRemoved, slotVars, hwVars, lockVars,
                 agent, resets>>
TimedOut(c) ==
  /\ sub[c].pc = "timedOut"
  /\ refCount' = refCount - 1
  /\ SubReturns(c, "TIMEOUT")
  /\ UNCHANGED <<state, isIntrEnabled, isRemoved, slotVars, hwVars, lockVars,
                 agent, held, resets>>

(* The waiter frees the DMA entry and puts the slot (NVMEPCIEPutCmdInfo).  *)
PutFree(c) ==
  /\ sub[c].pc = "put"
  /\ held' = [held EXCEPT ![c] = @ - 1]
  /\ status' = [status EXCEPT ![sub[c].slot] = "FREE"]
  /\ SubGoes(c, "putDec")
  /\ UNCHANGED <<queueVars, vmkCmd, nrAct, hwVars, lockVars, agent, resets>>

PutDec(c) ==
  /\ sub[c].pc = "putDec"
  /\ nrAct' = nrAct - 1
  /\ SubReturns(c, "OK")
  /\ UNCHANGED <<queueVars, status, vmkCmd, hwVars, lockVars, agent, held, resets>>

SubmitStep(c) ==
  \/ SubmitRefused(c) \/ SubmitAllowed(c)
  \/ GetSlot(c) \/ NextSlot(c) \/ NoSlot(c) \/ CountSlot(c)
  \/ Prepare(c) \/ PrepareFails(c) \/ Issue(c) \/ IssueRefused(c)
  \/ GiveBack(c) \/ Uncount(c) \/ Leave(c)
  \/ WakeUp(c) \/ TimeOut(c)
  \/ Done(c) \/ NotDone(c) \/ GiveUp(c) \/ SwapFails(c) \/ TimedOut(c)
  \/ PutFree(c) \/ PutDec(c)

-----------------------------------------------------------------------------
(* NVMEPCIEProcessCq and NVMEPCIECompleteSyncCommand, run by the interrupt *)
(* handler and by the flushers.                                            *)

AgentGoes(a, pc) == agent' = [agent EXCEPT ![a].pc = pc]

(* NVMEPCIEQueueIntrHandler.                                               *)
Interrupt ==
  /\ agent["intr"].pc = "idle"
  /\ isIntrEnabled
  /\ posted # {}
  /\ AgentGoes("intr", "lockCq")
  /\ UNCHANGED <<queueVars, slotVars, hwVars, lockVars, sub, held, resets>>

LockCq(a) ==
  /\ agent[a].pc = "lockCq"
  /\ cqLock = None
  /\ cqLock' = a
  /\ AgentGoes(a, "cq")
  /\ UNCHANGED <<queueVars, slotVars, hwVars, listLock, sub, held, resets>>

(* The next entry is for an outstanding command: complete it.              *)
TakeEntry(a, s) ==
  /\ agent[a].pc = "cq"
  /\ s \in posted
  /\ posted' = posted \ {s}
  /\ status[s] \in Outstanding
  /\ agent' = [agent EXCEPT ![a].pc = "read", ![a].slot = s]
  /\ UNCHANGED <<queueVars, slotVars, executing, lockVars, sub, held, resets>>

(* It is not: the entry is skipped.                                        *)
SkipEntry(a, s) ==
  /\ agent[a].pc = "cq"
  /\ s \in posted
  /\ posted' = posted \ {s}
  /\ status[s] \notin Outstanding
  /\ UNCHANGED <<queueVars, slotVars, executing, lockVars, sub, agent, held, resets>>

UnlockCq(a) ==
  /\ agent[a].pc = "cq"
  /\ posted = {}
  /\ cqLock' = None
  /\ AgentGoes(a, IF a = "intr" THEN "idle" ELSE "lockList")
  /\ UNCHANGED <<queueVars, slotVars, hwVars, listLock, sub, held, resets>>

(* NVMEPCIECompleteSyncCommand, on behalf of NVMEPCIEProcessCq, which goes *)
(* on with the next entry, or of the loop of NVMEPCIEFlushQueue, which goes*)
(* on with the next slot.                                                  *)
CompletionEnds(a) ==
  agent' = [agent EXCEPT ![a] =
              IF cqLock = a THEN [pc |-> "cq", slot |-> None, old |-> None]
              ELSE [pc |-> "loop", slot |-> @.slot + 1, old |-> None]]

ReadStatus(a) ==
  LET old == status[agent[a].slot]
  IN /\ agent[a].pc = "read"
     /\ agent' = [agent EXCEPT
          ![a].pc = IF old = "FREE_ON_COMPLETE" THEN "free" ELSE "swap",
          ![a].old = old]
     /\ UNCHANGED <<queueVars, slotVars, hwVars, lockVars, sub, held, resets>>

(* The waiter gave up: everything is freed here, ...                       *)
FreeAbandoned(a) ==
  LET s == agent[a].slot
  IN /\ agent[a].pc = "free"
     /\ held' = [held EXCEPT ![vmkCmd[s]] = @ - 1]
     /\ status' = [status EXCEPT ![s] = "FREE"]
     /\ AgentGoes(a, "uncount")
     /\ UNCHANGED <<queueVars, vmkCmd, nrAct, hwVars, lockVars, sub, resets>>

(* A mutation of UncountAbandoned: nrAct is forgotten.                     *)
UncountAbandonedNot(a) ==
  /\ agent[a].pc = "uncount"
  /\ CompletionEnds(a)
  /\ UNCHANGED <<queueVars, slotVars, hwVars, lockVars, sub, held, resets>>
(* ... and then nrAct.                                                     *)
UncountAbandoned(a) ==
  /\ agent[a].pc = "uncount"
  /\ nrAct' = nrAct - 1
  /\ CompletionEnds(a)
  /\ UNCHANGED <<queueVars, status, vmkCmd, hwVars, lockVars, sub, held, resets>>

(* The waiter is told; if the status changed meanwhile, try again.         *)
SwapDone(a) ==
  LET s == agent[a].slot
  IN /\ agent[a].pc = "swap"
     /\ status[s] = agent[a].old
     /\ status' = [status EXCEPT ![s] = "DONE"]
     /\ CompletionEnds(a)
     /\ UNCHANGED <<queueVars, vmkCmd, nrAct, hwVars, lockVars, sub, held, resets>>

SwapDoneFails(a) ==
  /\ agent[a].pc = "swap"
  /\ status[agent[a].slot] # agent[a].old
  /\ AgentGoes(a, "read")
  /\ UNCHANGED <<queueVars, slotVars, hwVars, lockVars, sub, held, resets>>

CompleteStep(a) ==
  \/ LockCq(a)
  \/ \E s \in Slots : TakeEntry(a, s) \/ SkipEntry(a, s)
  \/ UnlockCq(a)
  \/ ReadStatus(a) \/ FreeAbandoned(a) \/ UncountAbandoned(a)
  \/ SwapDone(a) \/ SwapDoneFails(a)

-----------------------------------------------------------------------------
(* NVMEPCIESuspendQueue and NVMEPCIEFlushQueue, run by ResetAdminQueue and *)
(* by QuiesceDevice.                                                       *)

(* NVMEPCIESuspendQueue, up to its compare-and-swap on the state.  Its own *)
(* reference is dropped before it returns.                                 *)
Suspend(f) ==
  /\ agent[f].pc = "suspend"
  /\ state' = "SUSPENDED"
  /\ AgentGoes(f, IF state = "ACTIVE" THEN "disable" ELSE "await")
  /\ refCount' = IF state = "ACTIVE" THEN refCount + 1 ELSE refCount
  /\ UNCHANGED <<isIntrEnabled, isRemoved, slotVars, hwVars, lockVars, sub,
                 held, resets>>

(* NVMEPCIEDisableIntr: the flag first, then the handler is waited for.    *)
DisableIntr(f) ==
  /\ agent[f].pc = "disable"
  /\ isIntrEnabled' = FALSE
  /\ AgentGoes(f, "sync")
  /\ UNCHANGED <<state, refCount, isRemoved, slotVars, hwVars, lockVars, sub,
                 held, resets>>

SyncIntr(f) ==
  /\ agent[f].pc = "sync"
  /\ agent["intr"].pc = "idle"
  /\ refCount' = refCount - 1
  /\ AgentGoes(f, "await")
  /\ UNCHANGED <<state, isIntrEnabled, isRemoved, slotVars, hwVars, lockVars,
                 sub, held, resets>>

(* A mutation of AwaitNoSubmission: the count is not waited for.           *)
AwaitNothing(f) ==
  /\ agent[f].pc = "await"
  /\ AgentGoes(f, "enter")
  /\ UNCHANGED <<queueVars, slotVars, hwVars, lockVars, sub, held, resets>>
(* NVMEPCIEFlushQueue waits for the reference count to be zero, and only   *)
(* then takes a reference: a second flusher may do the same.               *)
AwaitNoSubmission(f) ==
  /\ agent[f].pc = "await"
  /\ refCount = 0
  /\ AgentGoes(f, "enter")
  /\ UNCHANGED <<queueVars, slotVars, hwVars, lockVars, sub, held, resets>>

FlushEnter(f) ==
  /\ agent[f].pc = "enter"
  /\ refCount' = refCount + 1
  /\ AgentGoes(f, "lockCq")
  /\ UNCHANGED <<state, isIntrEnabled, isRemoved, slotVars, hwVars, lockVars,
                 sub, held, resets>>

LockList(f) ==
  /\ agent[f].pc = "lockList"
  /\ listLock = None
  /\ listLock' = f
  /\ agent' = [agent EXCEPT ![f].pc = "loop", ![f].slot = 1]
  /\ UNCHANGED <<queueVars, slotVars, hwVars, cqLock, sub, held, resets>>

FlushSlot(f) ==
  /\ agent[f].pc = "loop" /\ agent[f].slot <= NumSlots
  /\ agent' = IF status[agent[f].slot] \in Outstanding
              THEN [agent EXCEPT ![f].pc = "read"]
              ELSE [agent EXCEPT ![f].slot = @ + 1]
  /\ UNCHANGED <<queueVars, slotVars, hwVars, lockVars, sub, held, resets>>

UnlockList(f) ==
  /\ agent[f].pc = "loop" /\ agent[f].slot > NumSlots
  /\ listLock' = None
  /\ agent' = [agent EXCEPT ![f].pc = "leave", ![f].slot = None]
  /\ UNCHANGED <<queueVars, slotVars, hwVars, cqLock, sub, held, resets>>

(* QuiesceDevice ends here.  ResetAdminQueue starts the queue again,       *)
(* unless the device was removed.                                          *)
FlushLeave(f) ==
  /\ agent[f].pc = "leave"
  /\ refCount' = refCount - 1
  /\ AgentGoes(f, IF f = "quiesce" THEN "done"
                  ELSE IF isRemoved THEN "idle" ELSE "init")
  /\ UNCHANGED <<state, isIntrEnabled, isRemoved, slotVars, hwVars, lockVars,
                 sub, held, resets>>

FlushStep(f) ==
  \/ Suspend(f) \/ DisableIntr(f) \/ SyncIntr(f)
  \/ AwaitNoSubmission(f) \/ FlushEnter(f)
  \/ LockList(f) \/ FlushSlot(f) \/ UnlockList(f) \/ FlushLeave(f)

-----------------------------------------------------------------------------
(* ResetAdminQueue, called by vmknvme after it disabled the controller: a  *)
(* disabled controller answers nothing any more.                           *)
ResetStart ==
  /\ agent["reset"].pc = "idle"
  /\ resets < MaxResets
  /\ resets' = resets + 1
  /\ executing' = {}
  /\ AgentGoes("reset", "suspend")
  /\ UNCHANGED <<queueVars, slotVars, posted, lockVars, sub, held>>

(* NVMEPCIEInitQueue (BUSY unless the queue is suspended).                 *)
InitQueue ==
  /\ agent["reset"].pc = "init"
  /\ IF state # "SUSPENDED"
     THEN /\ AgentGoes("reset", "idle")
          /\ UNCHANGED <<posted, nrAct, status>>
     ELSE /\ posted' = {}
          /\ nrAct' = 0
          /\ status' = [s \in Slots |-> "FREE"]
          /\ AgentGoes("reset", "resume")
  /\ UNCHANGED <<queueVars, vmkCmd, executing, lockVars, sub, held, resets>>

(* NVMEPCIEResumeQueue; the flag of the interrupt is set last.             *)
ResumeQueue ==
  /\ agent["reset"].pc = "resume"
  /\ state' = "ACTIVE"
  /\ AgentGoes("reset", "enable")
  /\ UNCHANGED <<refCount, isIntrEnabled, isRemoved, slotVars, hwVars,
                 lockVars, sub, held, resets>>

EnableIntr ==
  /\ agent["reset"].pc = "enable"
  /\ isIntrEnabled' = TRUE
  /\ AgentGoes("reset", "idle")
  /\ UNCHANGED <<state, refCount, isRemoved, slotVars, hwVars, lockVars, sub,
                 held, resets>>

(* ForgetDevice: the device was pulled, it answers nothing any more.       *)
ForgetDevice ==
  /\ ~isRemoved
  /\ isRemoved' = TRUE
  /\ executing' = {}
  /\ UNCHANGED <<state, refCount, isIntrEnabled, slotVars, posted, lockVars,
                 sub, agent, held, resets>>

(* QuiesceDevice after a removal.                                          *)
QuiesceStart ==
  /\ agent["quiesce"].pc = "idle"
  /\ isRemoved
  /\ AgentGoes("quiesce", "suspend")
  /\ UNCHANGED <<queueVars, slotVars, hwVars, lockVars, sub, held, resets>>

(* The device answers a command.                                           *)
DeviceCompletes(s) ==
  /\ s \in executing
  /\ executing' = executing \ {s}
  /\ posted' = posted \cup {s}
  /\ UNCHANGED <<queueVars, slotVars, lockVars, sub, agent, held, resets>>

-----------------------------------------------------------------------------
Init ==
  /\ state = "ACTIVE" /\ refCount = 0
  /\ isIntrEnabled = TRUE /\ isRemoved = FALSE
  /\ status = [s \in Slots |-> "FREE"]
  /\ vmkCmd = [s \in Slots |-> None]
  /\ nrAct = 0
  /\ executing = {} /\ posted = {}
  /\ cqLock = None /\ listLock = None
  /\ sub = [c \in Cmds |-> [pc |-> "idle", slot |-> 0, old |-> None,
                            result |-> None]]
  /\ agent = [a \in Agents |-> [pc |-> "idle", slot |-> None, old |-> None]]
  /\ held = [c \in Cmds |-> 0]
  /\ resets = 0

Next ==
  \/ \E c \in Cmds : SubmitEnter(c) \/ SubmitStep(c)
  \/ Interrupt
  \/ \E a \in Agents : CompleteStep(a)
  \/ \E f \in Flushers : FlushStep(f)
  \/ ResetStart \/ InitQueue \/ ResumeQueue \/ EnableIntr
  \/ ForgetDevice \/ QuiesceStart
  \/ \E s \in Slots : DeviceCompletes(s)

Spec == Init /\ [][Next]_vars

(* Threads that were started go on, vmk_WorldWait ends when its time is up *)
(* and interrupts are delivered.  Nothing is assumed of the device, of     *)
(* vmknvme or of the one who pulls the device.                             *)
FairSpec ==
  /\ Spec
  /\ \A c \in Cmds : WF_vars(SubmitStep(c))
  /\ WF_vars(Interrupt)
  /\ \A a \in Agents : WF_vars(CompleteStep(a))
  /\ \A f \in Flushers : WF_vars(FlushStep(f))
  /\ WF_vars(InitQueue) /\ WF_vars(ResumeQueue) /\ WF_vars(EnableIntr)

-----------------------------------------------------------------------------
(* c gave up waiting, and what it left behind is still in use.             *)
Abandoned(c) ==
  (sub[c].pc = "timedOut" \/ sub[c].result = "TIMEOUT") /\ held[c] = 1
OwnsSlot(c) ==
  \/ sub[c].pc \in {"count", "prepare", "issue", "giveBack", "wait", "decide",
                   "swap", "put"}
  \/ Abandoned(c)

(* A slot serves one command at a time, also while the waiter gives up on  *)
(* it and the completer takes it over.                                     *)
SlotServesOne ==
  \A c, d \in Cmds :
    c # d /\ OwnsSlot(c) /\ OwnsSlot(d) => sub[c].slot # sub[d].slot

(* The DMA buffer and the command are freed once: by the waiter, or by the *)
(* completer when the waiter gave up, never by both and never by two       *)
(* completers; and never before the submission returned without them.      *)
ReleasedOnce ==
  \A c \in Cmds :
    /\ held[c] \in {0, 1}
    /\ sub[c].pc \in {"issue", "wait", "decide", "put"} => held[c] = 1
    /\ sub[c].result \in {"OK", "FAILURE"} => held[c] = 0

(* A command that was given up has a completer: the device owes an answer  *)
(* for it, or the answer is there, or it is being completed; so it does    *)
(* not lie there until a flush.  (Until the queue is torn down, when the   *)
(* flush takes the device's part.)                                         *)
AbandonedIsOwed ==
  ~isRemoved /\ resets = 0 =>
    \A s \in Slots : status[s] = "FREE_ON_COMPLETE" =>
      s \in executing \cup posted \cup {agent[a].slot : a \in Agents}

(* cmdList->nrAct, which StoragePoll decides by, counts the slots in use   *)
(* and those freed but not yet counted as free; a slot just taken may not  *)
(* be counted yet.                                                         *)
NrActCounts ==
  nrAct = Cardinality({c \in Cmds : \/ OwnsSlot(c) /\ sub[c].pc # "count"
                                    \/ sub[c].pc \in {"putDec", "uncount"}})
          + Cardinality({a \in Agents : agent[a].pc = "uncount"})

(* Once QuiesceDevice has returned, nobody waits for the device and no     *)
(* slot waits for a completion, and that stays so: whatever a reset that   *)
(* overlapped the removal does to the queue's state.                       *)
QuiescedIdle ==
  agent["quiesce"].pc = "done" =>
    /\ \A c \in Cmds : sub[c].pc \notin {"wait", "decide", "swap"}
    /\ \A s \in Slots : status[s] # "FREE_ON_COMPLETE"

(* The comment of NVMEPCIEFlushQueue: by waiting for the reference count,  *)
(* a reset does not touch the command list while a submission uses it.     *)
(* The waiter of a completed command drops its reference first and puts    *)
(* its slot afterwards.                                                    *)
ResetExcludesSubmission ==
  agent["reset"].pc = "init" =>
    \A c \in Cmds : sub[c].pc \notin {"scan", "count", "prepare", "issue", "giveBack",
                        "uncount", "put", "putDec"}

(* What the wait for the reference count does achieve: from the moment a   *)
(* reset saw it at zero until the queue is resumed, no submission looks    *)
(* for a slot, fills one, issues or waits for a command; only slots of     *)
(* commands that are complete, or abandoned, are still used.  A removal    *)
(* may flush the queue at the same time.                                   *)
FlushExcludesSubmission ==
  agent["reset"].pc \in {"enter", "lockCq", "cq", "lockList", "loop", "read",
                         "swap", "free", "uncount", "leave", "init", "resume"} =>
    \A c \in Cmds : sub[c].pc \notin {"scan", "count", "prepare", "issue", "giveBack",
                        "uncount", "wait", "decide", "swap", "timedOut"}

(* NVMEPCIESubmitSyncCommand returns, whatever the device does.            *)
SubmitReturns == \A c \in Cmds : sub[c].pc = "entered" ~> sub[c].pc = "returned"

(* ResetAdminQueue and QuiesceDevice return: the waiters they wait for do  *)
(* not wait for them, although interrupts are off and only the flusher     *)
(* could complete their commands.                                          *)
FlushersReturn ==
  \A f \in Flushers : agent[f].pc = "suspend" ~> agent[f].pc \in {"idle", "done"}
=============================================================================
