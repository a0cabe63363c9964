------------------------------ MODULE IoQueue -------------------------------
(***************************************************************************)
(* The life of the IO queues of a controller: NVMEPCIEQueueCreate and      *)
(* NVMEPCIEQueueDestroy with all they call (QueueConstruct,                *)
(* NVMEPCIEStartQueue, NVMEPCIEStopQueue, QueueDestroy), while commands    *)
(* are submitted by NVMEPCIESubmitAsyncCommand and completed, and while    *)
(* the device is pulled and QuiesceDevice flushes the queues.              *)
(*                                                                         *)
(* A queue's memory is freed while other threads still hold its address.   *)
(* What keeps them off is the queue's state, which each of them reads      *)
(* after it has incremented refCount, and the order in which the           *)
(* destruction suspends, flushes, marks and waits.                         *)
(*                                                                         *)
(* The command list is CmdInfoList's, here only the set of outstanding     *)
(* commands; the rings are QueuePair's, here only the sets of commands     *)
(* that the device executes and has answered; the vector's mask and        *)
(* isIntrEnabled are one, StoragePoll has them apart.  Commands have the   *)
(* slot of their number (abortEnabled).                                    *)
(***************************************************************************)
EXTENDS Integers, FiniteSets

CONSTANTS NumQueues,   (* NVME_PCIE_MAX_IO_QUEUES                          *)
          NumCmds,     (* calls of NVMEPCIESubmitAsyncCommand              *)
          MaxCycles,   (* bound on how often vmknvme brings the queues up  *)
          CqMayFail,   (* CompQueueConstruct may fail                      *)
          Overlap      (* numIoQueues may change during QuiesceDevice      *)

ASSUME NumQueuesAssumption == NumQueues \in Nat \ {0}
ASSUME NumCmdsAssumption == NumCmds \in Nat
ASSUME SwitchesAssumption == CqMayFail \in BOOLEAN /\ Overlap \in BOOLEAN

VARIABLES
  state,          (* state of each queue                                   *)
  refCount,       (* refCount of each queue                                *)
  parts,          (* cqInfo, sqInfo and cmdList of each queue that exist   *)
  isIntrEnabled,  (* isIntrEnabled of each queue                           *)
  numIoQueues,    (* ctrlr->numIoQueues                                    *)
  maxIoQueues,    (* ctrlr->maxIoQueues                                    *)
  isRemoved,      (* ctrlr->isRemoved                                      *)
  enabled,        (* CSTS.RDY and not CSTS.CFS                             *)
  hw,             (* the queues that the device has                        *)
  lost,           (* queues whose device side the driver is wrong about    *)
  executing,      (* commands the device works on                          *)
  posted,         (* commands whose completion entry is not processed      *)
  outstanding,    (* commands whose slot is active                         *)
  completed,      (* calls of the done function of each command            *)
  cqLock,         (* the agent that holds the completion lock of a queue   *)
  listLock,       (* the agent that holds the command list lock of a queue *)
  sub,            (* the submitting threads                                *)
  agent,          (* the other threads                                     *)
  qid,            (* the loop variable of QuiesceDevice                    *)
  known,          (* the queues that vmknvme was told exist                *)
  cycles          (* how often the queues were brought up                  *)

queueVars == <<state, refCount, parts, isIntrEnabled>>
ctrlrVars == <<numIoQueues, maxIoQueues, isRemoved, enabled>>
hwVars == <<hw, lost, executing, posted>>
cmdVars == <<outstanding, completed>>
lockVars == <<cqLock, listLock>>
callVars == <<qid, known, cycles>>
vars == <<queueVars, ctrlrVars, hwVars, cmdVars, lockVars, sub, agent, callVars>>

Queues == 1..NumQueues
Cmds == 1..NumCmds
Parts == {"cq", "sq", "cmds"}

(* The threads: an interrupt handler per queue, named by the queue, the    *)
(* thread of vmknvme that creates and deletes queues, the hot plug.        *)
Control == 0
Quiesce == -1
Flushers == {Control, Quiesce}
Agents == Queues \cup Flushers
None == -2

On(q) == {c \in Cmds : sub[c].q = q}
Goes(a, pc) == agent' = [agent EXCEPT ![a].pc = pc]

-----------------------------------------------------------------------------
(* NVMEPCIESubmitAsyncCommand.                                             *)

SubGoes(c, pc) == sub' = [sub EXCEPT ![c].pc = pc]

(* vmknvme submits to queues that it was told exist.                       *)
SubmitEnter(c, q) ==
  /\ sub[c].pc = "idle" /\ q \in known
  /\ refCount' = [refCount EXCEPT ![q] = @ + 1]
  /\ sub' = [sub EXCEPT ![c].pc = "entered", ![c].q = q]
  /\ UNCHANGED <<state, parts, isIntrEnabled, ctrlrVars, hwVars, cmdVars,
                 lockVars, agent, callVars>>

SubmitChecks(c) ==
  /\ sub[c].pc = "entered"
  /\ SubGoes(c, IF state[sub[c].q] = "ACTIVE" THEN "get" ELSE "leave")
  /\ UNCHANGED <<queueVars, ctrlrVars, hwVars, cmdVars, lockVars, agent, callVars>>

(* NVMEPCIEGetCmdInfo, and the command is attached; QUEUE_FULL if the slot *)
(* is taken.                                                               *)
GetSlot(c, free) ==
  /\ sub[c].pc = "get"
  /\ outstanding' = outstanding \cup (IF free THEN {c} ELSE {})
  /\ SubGoes(c, IF free THEN "issue" ELSE "leave")
  /\ UNCHANGED <<queueVars, ctrlrVars, hwVars, completed, lockVars, agent, callVars>>

(* NVMEPCIEIssueCommandToHw: its checks under the submission lock (the     *)
(* ring may be full as far as the driver knows), ...                       *)
Issue(c, full) ==
  /\ sub[c].pc = "issue"
  /\ SubGoes(c, IF full \/ state[sub[c].q] = "SUSPENDED" \/ isRemoved THEN "put"
                ELSE "ring")
  /\ UNCHANGED <<queueVars, ctrlrVars, hwVars, cmdVars, lockVars, agent, callVars>>

(* ... the doorbell, which a queue that the device does not have ignores,  *)
Ring(c) ==
  /\ sub[c].pc = "ring"
  /\ executing' = executing \cup (IF "sq" \in hw[sub[c].q] THEN {c} ELSE {})
  /\ sub' = [sub EXCEPT ![c].pc = "leave", ![c].ok = TRUE]
  /\ UNCHANGED <<queueVars, ctrlrVars, hw, lost, posted, cmdVars, lockVars,
                 agent, callVars>>

(* ... or the slot is put back.                                            *)
PutSlot(c) ==
  /\ sub[c].pc = "put"
  /\ outstanding' = outstanding \ {c}
  /\ SubGoes(c, "leave")
  /\ UNCHANGED <<queueVars, ctrlrVars, hwVars, completed, lockVars, agent, callVars>>

(* A mutation of SubmitLeave: an accepted command keeps the reference      *)
(* until it completes, which nobody takes over.                            *)
SubmitLeaveHolding(c) ==
  /\ sub[c].pc = "leave"
  /\ refCount' = IF sub[c].ok THEN refCount
                 ELSE [refCount EXCEPT ![sub[c].q] = @ - 1]
  /\ SubGoes(c, "returned")
  /\ UNCHANGED <<state, parts, isIntrEnabled, ctrlrVars, hwVars, cmdVars,
                 lockVars, agent, callVars>>
SubmitLeave(c) ==
  /\ sub[c].pc = "leave"
  /\ refCount' = [refCount EXCEPT ![sub[c].q] = @ - 1]
  /\ SubGoes(c, "returned")
  /\ UNCHANGED <<state, parts, isIntrEnabled, ctrlrVars, hwVars, cmdVars,
                 lockVars, agent, callVars>>

SubmitStep(c) ==
  \/ SubmitChecks(c) \/ Ring(c) \/ PutSlot(c) \/ SubmitLeave(c)
  \/ \E yes \in BOOLEAN : GetSlot(c, yes) \/ Issue(c, yes)

-----------------------------------------------------------------------------
(* The thread of vmknvme.  External: it brings the controller up, learns   *)
(* how many queues there are (setNumberIOQueues), creates them in order    *)
(* until one cannot be created, and deletes those it was told exist.  It   *)
(* does not create a queue while a call that submits to it is under way.   *)

ctl == agent[Control]
ControlAt(pc) == ctl.pc = pc
ControlNext(pc, q) == agent' = [agent EXCEPT ![Control].pc = pc, ![Control].q = q]

BringUp(n) ==
  /\ ControlAt("idle") /\ ~isRemoved
  /\ cycles < MaxCycles
  /\ cycles' = cycles + 1
  /\ maxIoQueues' = n
  /\ enabled' = TRUE
  /\ ControlNext("create", 1)
  /\ UNCHANGED <<queueVars, numIoQueues, isRemoved, hwVars, cmdVars, lockVars,
                 sub, qid, known>>

(* NVMEPCIEQueueCreate up to QueueConstruct.  A queue that exists is taken *)
(* for created.                                                            *)
Create ==
  LET q == ctl.q
      fresh == q <= maxIoQueues /\ state[q] = "NON_EXIST"
  IN /\ ControlAt("create")
     /\ fresh => \A c \in On(q) : sub[c].pc = "returned"
     /\ state' = IF fresh THEN [state EXCEPT ![q] = "SUSPENDED"] ELSE state
     /\ refCount' = IF fresh THEN [refCount EXCEPT ![q] = 0] ELSE refCount
     /\ known' = IF q <= maxIoQueues /\ ~fresh THEN known \cup {q} ELSE known
     /\ CASE q > maxIoQueues -> ControlNext("up", q)
          [] fresh -> ControlNext("buildCq", q)
          [] OTHER -> ControlNext("create", q + 1)
     /\ UNCHANGED <<parts, isIntrEnabled, ctrlrVars, hwVars, cmdVars, lockVars,
                    sub, qid, cycles>>

(* CompQueueConstruct; its failure is returned at once.                    *)
ConstructCq(ok) ==
  /\ ControlAt("buildCq")
  /\ ok \/ CqMayFail
  /\ parts' = IF ok THEN [parts EXCEPT ![ctl.q] = {"cq"}] ELSE parts
  /\ Goes(Control, IF ok THEN "buildSq" ELSE "up")
  /\ UNCHANGED <<state, refCount, isIntrEnabled, ctrlrVars, hwVars, cmdVars,
                 lockVars, sub, callVars>>

(* SubQueueConstruct and CmdInfoListConstruct; a failure destroys what was *)
(* built.                                                                  *)
Construct(part, pc, next, ok) ==
  /\ ControlAt(pc)
  /\ parts' = [parts EXCEPT ![ctl.q] = IF ok THEN @ \cup {part} ELSE {}]
  /\ Goes(Control, IF ok THEN next ELSE "unwound")
  /\ UNCHANGED <<state, refCount, isIntrEnabled, ctrlrVars, hwVars, cmdVars,
                 lockVars, sub, callVars>>

(* A mutation of Unwound: the state is not set back.                       *)
UnwoundHalf ==
  /\ ControlAt("unwound")
  /\ Goes(Control, "up")
  /\ UNCHANGED <<queueVars, ctrlrVars, hwVars, cmdVars, lockVars, sub, callVars>>
Unwound ==
  /\ ControlAt("unwound")
  /\ state' = [state EXCEPT ![ctl.q] = "NON_EXIST"]
  /\ Goes(Control, "up")
  /\ UNCHANGED <<refCount, parts, isIntrEnabled, ctrlrVars, hwVars, cmdVars,
                 lockVars, sub, callVars>>

(* NVMEPCIEInitQueue.                                                      *)
InitQueue ==
  LET ready == state[ctl.q] = "SUSPENDED"
      stale == IF ready THEN On(ctl.q) ELSE {}
  IN /\ ControlAt("init")
     /\ posted' = posted \ stale
     /\ outstanding' = outstanding \ stale
     /\ Goes(Control, IF ready THEN "createCq" ELSE "destroy")
     /\ UNCHANGED <<queueVars, ctrlrVars, hw, lost, executing, completed,
                    lockVars, sub, callVars>>

(* An admin command that leaves the device with "new" of queue q, when the *)
(* driver will believe "believed": it succeeds, is refused, or is executed *)
(* although the driver takes it for failed (VMK_TIMEOUT).                  *)
Outcomes == {"success", "error", "timeout"}
AdminCommand(q, new, believed, outcome) ==
  /\ outcome # "error" => enabled /\ ~isRemoved
  /\ hw' = [hw EXCEPT ![q] = IF outcome = "error" THEN @ ELSE new]
  /\ lost' = IF hw'[q] \subseteq believed THEN lost ELSE lost \cup {q}

CreateCq(outcome) ==
  /\ ControlAt("createCq")
  /\ AdminCommand(ctl.q, {"cq"}, IF outcome = "success" THEN {"cq"} ELSE {}, outcome)
  /\ Goes(Control, IF outcome = "success" THEN "createSq" ELSE "destroy")
  /\ UNCHANGED <<queueVars, ctrlrVars, executing, posted, cmdVars, lockVars,
                 sub, callVars>>

(* A mutation of CreateSq: its failure leaves the completion queue.        *)
CreateSqKeepingCq(outcome) ==
  /\ ControlAt("createSq")
  /\ AdminCommand(ctl.q, {"cq", "sq"},
                  IF outcome = "success" THEN {"cq", "sq"} ELSE {"cq"}, outcome)
  /\ Goes(Control, IF outcome = "success" THEN "resume" ELSE "destroy")
  /\ UNCHANGED <<queueVars, ctrlrVars, executing, posted, cmdVars, lockVars,
                 sub, callVars>>
CreateSq(outcome) ==
  /\ ControlAt("createSq")
  /\ AdminCommand(ctl.q, {"cq", "sq"},
                  IF outcome = "success" THEN {"cq", "sq"} ELSE {"cq"}, outcome)
  /\ Goes(Control, IF outcome = "success" THEN "resume" ELSE "dropCq")
  /\ UNCHANGED <<queueVars, ctrlrVars, executing, posted, cmdVars, lockVars,
                 sub, callVars>>

(* DeleteCq, which the device refuses while the submission queue is there. *)
(* Its result is ignored.                                                  *)
DeleteCq(outcome) ==
  /\ ControlAt("dropCq") \/ ControlAt("deleteCq")
  /\ outcome # "error" => "sq" \notin hw[ctl.q]
  /\ AdminCommand(ctl.q, {}, {}, outcome)
  /\ Goes(Control, IF ControlAt("dropCq") THEN "destroy" ELSE "await")
  /\ UNCHANGED <<queueVars, ctrlrVars, executing, posted, cmdVars, lockVars,
                 sub, callVars>>

(* NVMEPCIEResumeQueue.                                                    *)
Resume ==
  /\ ControlAt("resume")
  /\ state' = [state EXCEPT ![ctl.q] = "ACTIVE"]
  /\ Goes(Control, "enable")
  /\ UNCHANGED <<refCount, parts, isIntrEnabled, ctrlrVars, hwVars, cmdVars,
                 lockVars, sub, callVars>>

EnableIntr ==
  /\ ControlAt("enable")
  /\ isIntrEnabled' = [isIntrEnabled EXCEPT ![ctl.q] = TRUE]
  /\ Goes(Control, "count")
  /\ UNCHANGED <<state, refCount, parts, ctrlrVars, hwVars, cmdVars, lockVars,
                 sub, callVars>>

(* With Overlap FALSE, numIoQueues does not change while QuiesceDevice is  *)
(* in its loop.                                                            *)
MayCount == Overlap \/ agent[Quiesce].pc \in {"idle", "done"}

(* The queue is counted, and vmknvme is told that it exists.               *)
Count ==
  /\ ControlAt("count") /\ MayCount
  /\ numIoQueues' = numIoQueues + 1
  /\ known' = known \cup {ctl.q}
  /\ ControlNext("create", ctl.q + 1)
  /\ UNCHANGED <<queueVars, maxIoQueues, isRemoved, enabled, hwVars, cmdVars,
                 lockVars, sub, qid, cycles>>

CreateStep ==
  \/ Create
  \/ \E ok \in BOOLEAN :
        \/ ConstructCq(ok)
        \/ Construct("sq", "buildSq", "buildCmds", ok)
        \/ Construct("cmds", "buildCmds", "init", ok)
  \/ Unwound \/ InitQueue
  \/ \E outcome \in Outcomes : CreateCq(outcome) \/ CreateSq(outcome) \/ DeleteCq(outcome)
  \/ Resume \/ EnableIntr \/ Count

-----------------------------------------------------------------------------
(* NVMEPCIEProcessCq and NVMEPCIECompleteAsyncCommand, run by the          *)
(* interrupt handlers and by the flushers.                                 *)

(* NVMEPCIEQueueIntrHandler.                                               *)
Interrupt(q) ==
  /\ agent[q].pc = "idle"
  /\ isIntrEnabled[q] /\ On(q) \cap posted # {}
  /\ Goes(q, "lockCq")
  /\ UNCHANGED <<queueVars, ctrlrVars, hwVars, cmdVars, lockVars, sub, callVars>>

LockCq(a) ==
  /\ agent[a].pc = "lockCq"
  /\ cqLock[agent[a].q] = None
  /\ cqLock' = [cqLock EXCEPT ![agent[a].q] = a]
  /\ Goes(a, "cq")
  /\ UNCHANGED <<queueVars, ctrlrVars, hwVars, cmdVars, listLock, sub, callVars>>

(* The next entry; it is skipped if its command is not outstanding.        *)
TakeEntry(a, c) ==
  /\ agent[a].pc = "cq"
  /\ c \in posted \cap On(agent[a].q)
  /\ posted' = posted \ {c}
  /\ agent' = IF c \in outstanding
              THEN [agent EXCEPT ![a].pc = "complete", ![a].cmd = c] ELSE agent
  /\ UNCHANGED <<queueVars, ctrlrVars, hw, lost, executing, cmdVars, lockVars,
                 sub, callVars>>

UnlockCq(a) ==
  /\ agent[a].pc = "cq"
  /\ posted \cap On(agent[a].q) = {}
  /\ cqLock' = [cqLock EXCEPT ![agent[a].q] = None]
  /\ Goes(a, IF a \in Flushers THEN "lockList" ELSE "idle")
  /\ UNCHANGED <<queueVars, ctrlrVars, hwVars, cmdVars, listLock, sub, callVars>>

(* NVMEPCIECompleteAsyncCommand: the slot is put back whatever its status  *)
(* has become, and the done function of the command is called.             *)
Complete(a) ==
  LET c == agent[a].cmd
      inFlush == listLock[agent[a].q] = a
  IN /\ agent[a].pc = "complete"
     /\ outstanding' = outstanding \ {c}
     /\ completed' = [completed EXCEPT ![c] = @ + 1]
     /\ agent' = [agent EXCEPT ![a].pc = IF inFlush THEN "loop" ELSE "cq",
                               ![a].cmd = IF inFlush THEN c + 1 ELSE 0]
     /\ UNCHANGED <<queueVars, ctrlrVars, hwVars, lockVars, sub, callVars>>

CompleteStep(a) ==
  LockCq(a) \/ (\E c \in Cmds : TakeEntry(a, c)) \/ UnlockCq(a) \/ Complete(a)

-----------------------------------------------------------------------------
(* NVMEPCIESuspendQueue and NVMEPCIEFlushQueue, run by                     *)
(* NVMEPCIEQueueDestroy and by QuiesceDevice.                              *)

AfterSuspend(f) == IF f = Control THEN "deleteSq" ELSE "await"

Suspend(f) ==
  LET q == agent[f].q
      active == state[q] = "ACTIVE"
  IN /\ agent[f].pc = "suspend"
     /\ state' = IF active THEN [state EXCEPT ![q] = "SUSPENDED"] ELSE state
     /\ refCount' = IF active THEN [refCount EXCEPT ![q] = @ + 1] ELSE refCount
     /\ Goes(f, IF active THEN "disable" ELSE AfterSuspend(f))
     /\ UNCHANGED <<parts, isIntrEnabled, ctrlrVars, hwVars, cmdVars, lockVars,
                    sub, callVars>>

(* NVMEPCIEDisableIntr: the flag; if it was set, the handler is waited     *)
(* for; and the suspension drops its reference.                            *)
DisableIntr(f) ==
  LET q == agent[f].q
      set == isIntrEnabled[q]
  IN /\ agent[f].pc = "disable"
     /\ isIntrEnabled' = [isIntrEnabled EXCEPT ![q] = FALSE]
     /\ refCount' = IF set THEN refCount ELSE [refCount EXCEPT ![q] = @ - 1]
     /\ Goes(f, IF set THEN "sync" ELSE AfterSuspend(f))
     /\ UNCHANGED <<state, parts, ctrlrVars, hwVars, cmdVars, lockVars, sub,
                    callVars>>

(* A mutation of SyncIntr: the handler is not waited for.                  *)
SyncIntrNot(f) ==
  /\ agent[f].pc = "sync"
  /\ refCount' = [refCount EXCEPT ![agent[f].q] = @ - 1]
  /\ Goes(f, AfterSuspend(f))
  /\ UNCHANGED <<state, parts, isIntrEnabled, ctrlrVars, hwVars, cmdVars,
                 lockVars, sub, callVars>>
SyncIntr(f) ==
  /\ agent[f].pc = "sync"
  /\ agent[agent[f].q].pc = "idle"
  /\ refCount' = [refCount EXCEPT ![agent[f].q] = @ - 1]
  /\ Goes(f, AfterSuspend(f))
  /\ UNCHANGED <<state, parts, isIntrEnabled, ctrlrVars, hwVars, cmdVars,
                 lockVars, sub, callVars>>

(* A mutation of AwaitNoSubmission: submissions are not waited for.        *)
AwaitNothing(f) ==
  /\ agent[f].pc = "await"
  /\ Goes(f, "enter")
  /\ UNCHANGED <<queueVars, ctrlrVars, hwVars, cmdVars, lockVars, sub, callVars>>
AwaitNoSubmission(f) ==
  /\ agent[f].pc = "await"
  /\ refCount[agent[f].q] = 0
  /\ Goes(f, "enter")
  /\ UNCHANGED <<queueVars, ctrlrVars, hwVars, cmdVars, lockVars, sub, callVars>>

FlushEnter(f) ==
  /\ agent[f].pc = "enter"
  /\ refCount' = [refCount EXCEPT ![agent[f].q] = @ + 1]
  /\ Goes(f, "entered")
  /\ UNCHANGED <<state, parts, isIntrEnabled, ctrlrVars, hwVars, cmdVars,
                 lockVars, sub, callVars>>

FlushChecks(f) ==
  /\ agent[f].pc = "entered"
  /\ Goes(f, IF state[agent[f].q] = "NON_EXIST" THEN "leave" ELSE "lockCq")
  /\ UNCHANGED <<queueVars, ctrlrVars, hwVars, cmdVars, lockVars, sub, callVars>>

LockList(f) ==
  /\ agent[f].pc = "lockList"
  /\ listLock[agent[f].q] = None
  /\ listLock' = [listLock EXCEPT ![agent[f].q] = f]
  /\ agent' = [agent EXCEPT ![f].pc = "loop", ![f].cmd = 1]
  /\ UNCHANGED <<queueVars, ctrlrVars, hwVars, cmdVars, cqLock, sub, callVars>>

FlushSlot(f) ==
  LET c == agent[f].cmd
  IN /\ agent[f].pc = "loop" /\ c <= NumCmds
     /\ agent' = IF c \in outstanding \cap On(agent[f].q)
                 THEN [agent EXCEPT ![f].pc = "complete"]
                 ELSE [agent EXCEPT ![f].cmd = c + 1]
     /\ UNCHANGED <<queueVars, ctrlrVars, hwVars, cmdVars, lockVars, sub, callVars>>

UnlockList(f) ==
  /\ agent[f].pc = "loop" /\ agent[f].cmd > NumCmds
  /\ listLock' = [listLock EXCEPT ![agent[f].q] = None]
  /\ agent' = [agent EXCEPT ![f].pc = "leave", ![f].cmd = 0]
  /\ UNCHANGED <<queueVars, ctrlrVars, hwVars, cmdVars, cqLock, sub, callVars>>

(* NVMEPCIEQueueDestroy goes on, QuiesceDevice takes the next queue.       *)
FlushLeave(f) ==
  /\ agent[f].pc = "leave"
  /\ refCount' = [refCount EXCEPT ![agent[f].q] = @ - 1]
  /\ Goes(f, IF f = Control THEN "destroy" ELSE "next")
  /\ UNCHANGED <<state, parts, isIntrEnabled, ctrlrVars, hwVars, cmdVars,
                 lockVars, sub, callVars>>

FlushStep(f) ==
  \/ Suspend(f) \/ DisableIntr(f) \/ SyncIntr(f)
  \/ AwaitNoSubmission(f) \/ FlushEnter(f) \/ FlushChecks(f)
  \/ LockList(f) \/ FlushSlot(f) \/ UnlockList(f) \/ FlushLeave(f)

-----------------------------------------------------------------------------
(* NVMEPCIEQueueDestroy, for every queue that vmknvme knows.               *)

(* A controller that is reset was disabled first and has no queue any more;*)
(* one that is shut down still works.                                      *)
TakeDown(disabled) ==
  /\ ControlAt("up")
  /\ IF disabled
     THEN /\ enabled' = FALSE
          /\ hw' = [q \in Queues |-> {}] /\ lost' = {} /\ executing' = {}
     ELSE UNCHANGED <<enabled, hw, lost, executing>>
  /\ Goes(Control, "delete")
  /\ UNCHANGED <<queueVars, numIoQueues, maxIoQueues, isRemoved, posted,
                 cmdVars, lockVars, sub, callVars>>

Delete(q) ==
  /\ ControlAt("delete") /\ q \in known
  /\ IF state[q] = "NON_EXIST"
     THEN known' = known \ {q} /\ UNCHANGED agent
     ELSE ControlNext("suspend", q) /\ UNCHANGED known
  /\ UNCHANGED <<queueVars, ctrlrVars, hwVars, cmdVars, lockVars, sub, qid, cycles>>

Deleted ==
  /\ ControlAt("delete") /\ known = {}
  /\ ControlNext("idle", 0)
  /\ UNCHANGED <<queueVars, ctrlrVars, hwVars, cmdVars, lockVars, sub, callVars>>

(* NVMEPCIEStopQueue after the suspension: DeleteSq and DeleteCq, unless   *)
(* the device is gone or disabled.  The results are ignored.               *)
DeleteSq(outcome) ==
  LET q == ctl.q
      needed == ~isRemoved /\ enabled
  IN /\ ControlAt("deleteSq")
     /\ IF needed
        THEN AdminCommand(q, hw[q] \ {"sq"}, {"cq"}, outcome)
        ELSE outcome = "error" /\ UNCHANGED <<hw, lost>>
     /\ executing' = IF outcome = "error" THEN executing ELSE executing \ On(q)
     /\ Goes(Control, IF needed THEN "deleteCq" ELSE "await")
     /\ UNCHANGED <<queueVars, ctrlrVars, posted, cmdVars, lockVars, sub, callVars>>

(* QueueDestroy: the state, then a wait, ...                               *)
MarkNonExist ==
  /\ ControlAt("destroy")
  /\ state' = [state EXCEPT ![ctl.q] = "NON_EXIST"]
  /\ Goes(Control, "drain")
  /\ UNCHANGED <<refCount, parts, isIntrEnabled, ctrlrVars, hwVars, cmdVars,
                 lockVars, sub, callVars>>

(* A mutation of Drain: nobody is waited for.                              *)
DrainNot ==
  /\ ControlAt("drain")
  /\ Goes(Control, "freeCmds")
  /\ UNCHANGED <<queueVars, ctrlrVars, hwVars, cmdVars, lockVars, sub, callVars>>
Drain ==
  /\ ControlAt("drain")
  /\ refCount[ctl.q] = 0
  /\ Goes(Control, "freeCmds")
  /\ UNCHANGED <<queueVars, ctrlrVars, hwVars, cmdVars, lockVars, sub, callVars>>

(* ... CmdInfoListDestroy, SubQueueDestroy, ...                            *)
Free(part, pc, next) ==
  /\ ControlAt(pc)
  /\ parts' = [parts EXCEPT ![ctl.q] = @ \ {part}]
  /\ Goes(Control, next)
  /\ UNCHANGED <<state, refCount, isIntrEnabled, ctrlrVars, hwVars, cmdVars,
                 lockVars, sub, callVars>>

(* ... and CompQueueDestroy.                                               *)
FreeCq ==
  /\ ControlAt("freeCq")
  /\ parts' = [parts EXCEPT ![ctl.q] = {}]
  /\ posted' = posted \ On(ctl.q)
  /\ Goes(Control, IF ctl.q \in known THEN "uncount" ELSE "up")
  /\ UNCHANGED <<state, refCount, isIntrEnabled, ctrlrVars, hw, lost, executing,
                 cmdVars, lockVars, sub, callVars>>

Uncount ==
  /\ ControlAt("uncount") /\ MayCount
  /\ numIoQueues' = numIoQueues - 1
  /\ known' = known \ {ctl.q}
  /\ Goes(Control, "delete")
  /\ UNCHANGED <<queueVars, maxIoQueues, isRemoved, enabled, hwVars, cmdVars,
                 lockVars, sub, qid, cycles>>

DeleteStep ==
  \/ \E q \in Queues : Delete(q)
  \/ Deleted
  \/ \E outcome \in Outcomes : DeleteSq(outcome)
  \/ MarkNonExist \/ Drain
  \/ Free("cmds", "freeCmds", "freeSq") \/ Free("sq", "freeSq", "freeCq") \/ FreeCq
  \/ Uncount

-----------------------------------------------------------------------------
(* ForgetDevice and QuiesceDevice.                                         *)

(* The device was pulled; it answers nothing any more.                     *)
ForgetDevice ==
  /\ ~isRemoved
  /\ isRemoved' = TRUE
  /\ hw' = [q \in Queues |-> {}] /\ executing' = {}
  /\ UNCHANGED <<queueVars, numIoQueues, maxIoQueues, enabled, lost, posted,
                 cmdVars, lockVars, sub, agent, callVars>>

QuiesceStart ==
  /\ agent[Quiesce].pc = "idle" /\ isRemoved
  /\ qid' = 0
  /\ Goes(Quiesce, "test")
  /\ UNCHANGED <<queueVars, ctrlrVars, hwVars, cmdVars, lockVars, sub, known, cycles>>

(* numIoQueues is read for the bound ...                                   *)
QuiesceTest ==
  /\ agent[Quiesce].pc = "test"
  /\ Goes(Quiesce, IF qid <= numIoQueues THEN "index" ELSE "done")
  /\ UNCHANGED <<queueVars, ctrlrVars, hwVars, cmdVars, lockVars, sub, callVars>>

(* ... and again for the index.  Index 0 is the admin queue, which is      *)
(* AdminQueue's; there is nothing at a negative index.                     *)
QuiesceIndex ==
  LET q == numIoQueues - qid
  IN /\ agent[Quiesce].pc = "index"
     /\ agent' = [agent EXCEPT
          ![Quiesce].pc = IF q > 0 THEN "suspend" ELSE IF q = 0 THEN "next" ELSE "astray",
          ![Quiesce].q = q]
     /\ UNCHANGED <<queueVars, ctrlrVars, hwVars, cmdVars, lockVars, sub, callVars>>

QuiesceNext ==
  /\ agent[Quiesce].pc = "next"
  /\ qid' = qid + 1
  /\ Goes(Quiesce, "test")
  /\ UNCHANGED <<queueVars, ctrlrVars, hwVars, cmdVars, lockVars, sub, known, cycles>>

QuiesceStep == QuiesceTest \/ QuiesceIndex \/ QuiesceNext

(* The device (external) completes what it executes.                       *)
DeviceCompletes(c) ==
  /\ c \in executing /\ "cq" \in hw[sub[c].q]
  /\ executing' = executing \ {c}
  /\ posted' = posted \cup {c}
  /\ UNCHANGED <<queueVars, ctrlrVars, hw, lost, cmdVars, lockVars, sub, agent,
                 callVars>>

-----------------------------------------------------------------------------
Init ==
  /\ state = [q \in Queues |-> "NON_EXIST"]
  /\ refCount = [q \in Queues |-> 0]
  /\ parts = [q \in Queues |-> {}]
  /\ isIntrEnabled = [q \in Queues |-> FALSE]
  /\ numIoQueues = 0 /\ maxIoQueues = 0
  /\ isRemoved = FALSE /\ enabled = FALSE
  /\ hw = [q \in Queues |-> {}] /\ lost = {}
  /\ executing = {} /\ posted = {} /\ outstanding = {}
  /\ completed = [c \in Cmds |-> 0]
  /\ cqLock = [q \in Queues |-> None] /\ listLock = [q \in Queues |-> None]
  /\ sub = [c \in Cmds |-> [pc |-> "idle", q |-> 0, ok |-> FALSE]]
  /\ agent = [a \in Agents |-> [pc |-> "idle", q |-> IF a \in Queues THEN a ELSE 0,
                                cmd |-> 0]]
  /\ qid = 0 /\ known = {} /\ cycles = 0

Next ==
  \/ \E c \in Cmds : (\E q \in Queues : SubmitEnter(c, q)) \/ SubmitStep(c) \/ DeviceCompletes(c)
  \/ \E q \in Queues : Interrupt(q)
  \/ \E a \in Agents : CompleteStep(a)
  \/ \E f \in Flushers : FlushStep(f)
  \/ (\E n \in Queues : BringUp(n)) \/ CreateStep
  \/ (\E disabled \in BOOLEAN : TakeDown(disabled)) \/ DeleteStep
  \/ ForgetDevice \/ QuiesceStart \/ QuiesceStep

Spec == Init /\ [][Next]_vars

(* The threads as a whole go on as long as one of them can.  Nothing is    *)
(* assumed of the device, of vmknvme between its calls, nor that commands  *)
(* are submitted.                                                          *)
Threads ==
  \/ \E c \in Cmds : SubmitStep(c)
  \/ \E a \in Agents : CompleteStep(a)
  \/ \E f \in Flushers : FlushStep(f)
  \/ CreateStep \/ DeleteStep \/ QuiesceStep

FairSpec == Spec /\ WF_vars(Threads)

-----------------------------------------------------------------------------
(* What a thread dereferences next is still there: a submitter the command *)
(* list and the submission queue, an interrupt handler or a flusher the    *)
(* rings and the command list, a suspension the completion queue.          *)
NoUseAfterFree ==
  /\ \A c \in Cmds :
       /\ sub[c].pc \in {"get", "put"} => "cmds" \in parts[sub[c].q]
       /\ sub[c].pc \in {"issue", "ring"} => {"sq", "cmds"} \subseteq parts[sub[c].q]
  /\ \A a \in Agents :
       /\ agent[a].pc \in {"lockCq", "cq", "complete", "lockList", "loop"} =>
            parts[agent[a].q] = Parts
       /\ agent[a].pc \in {"disable", "sync"} => "cq" \in parts[agent[a].q]

(* Every command that was accepted is completed once, and no other: the    *)
(* completion writes DONE without looking at the slot, so nothing but the  *)
(* exclusion of handler and flushers keeps two of them apart.              *)
CompletedOnce ==
  \A c \in Cmds :
    /\ completed[c] <= (IF sub[c].pc \in {"leave", "returned"} /\ ~sub[c].ok
                        THEN 0 ELSE 1)
    /\ sub[c].ok /\ c \notin outstanding => completed[c] = 1
         \/ \E a \in Agents : agent[a].pc = "complete" /\ agent[a].cmd = c

(* A queue that was deleted leaves no command behind: the caller of every  *)
(* accepted command has been told.                                         *)
DeletedAnswered ==
  \A c \in Cmds :
    sub[c].ok /\ state[sub[c].q] = "NON_EXIST" => c \notin outstanding

(* The device's queues have their memory: it is freed only after the       *)
(* device deleted them, was disabled or was pulled, except where a command *)
(* to the device had another outcome than the driver assumes.              *)
DeviceQueuesBacked ==
  \A q \in Queues : hw[q] \subseteq parts[q] \/ q \in lost

(* Between calls numIoQueues is the number of queues that exist, and       *)
(* vmknvme knows exactly these.  (DetachDevice asserts that there is none.)*)
CountMatches ==
  ctl.pc \in {"idle", "up"} =>
    /\ numIoQueues = Cardinality(known)
    /\ known = {q \in Queues : state[q] # "NON_EXIST"}

(* The comment of NVMEPCIEQueueCreate: "VMK_OK on success".  A queue that  *)
(* it reported created can be used.                                        *)
CreatedIsComplete ==
  \A q \in known : ctl.pc = "up" => parts[q] = Parts

(* The comment of QuiesceDevice: "there is not outgoing PSA command before *)
(* PSA gets detachDevice call ... so it needs to flush IO queue".  When it *)
(* has returned, every command that was accepted is completed.             *)
QuiesceFlushesAll ==
  agent[Quiesce].pc = "done" =>
    \A c \in Cmds : sub[c].ok => c \notin outstanding

(* The creation and the deletion of the queues return, although deletion   *)
(* waits for submitters, handlers and the other flusher.                   *)
CallsReturn == ctl.pc \in {"create", "delete"} ~> ctl.pc \in {"idle", "up"}
=============================================================================
