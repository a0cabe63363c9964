----------------------------- MODULE QueuePair -----------------------------
(***************************************************************************)
(* A submission queue and its completion queue: NVMEPCIEIssueCommandToHw,  *)
(* NVMEPCIEUpdateSubQueueHead, NVMEPCIEProcessCq and NVMEPCIEInitQueue of  *)
(* nvme_pcie.c, and the NVMe device at the other end of the two rings.     *)
(*                                                                         *)
(* The driver learns how far the device has read the submission ring only  *)
(* from the sqhd field of completions: NVMEPCIEProcessCq, under the        *)
(* completion-queue lock, leaves it in pendingHead, and a submitter, under *)
(* the submission-queue lock, swaps it out when the ring looks full.  New  *)
(* completion entries are recognised by their phase bit alone.             *)
(*                                                                         *)
(* A submission is one action: it runs under the submission-queue lock and *)
(* shares only pendingHead (one atomic swap) with the completion side.     *)
(* NVMEPCIEProcessCq is one action per entry, so that submissions and the  *)
(* device run between two entries.                                         *)
(***************************************************************************)
EXTENDS Integers, FiniteSets, Sequences

CONSTANTS Cmds,     (* command slots of the queue's command list           *)
          QSize,    (* sqInfo->qsize = cqInfo->qsize                       *)
          NoCmd,    (* the cid of a zeroed entry                           *)
          Watched   (* the commands whose liveness is looked at            *)

ASSUME QSizeAssumption == QSize \in Nat /\ QSize > 1
ASSUME NoCmdAssumption == NoCmd \notin Cmds
ASSUME WatchedAssumption == Watched \subseteq Cmds

VARIABLES
  active,        (* slots whose status is ACTIVE                           *)
  sq,            (* sqInfo: head, tail, pendingHead, doorbell              *)
  subq,          (* the submission ring                                    *)
  cq,            (* cqInfo: head, phase, doorbell                          *)
  compq,         (* the completion ring                                    *)
  proc,          (* NVMEPCIEProcessCq's locals while it holds the lock     *)
  dev            (* the device: next entry to fetch, commands executing,   *)
                 (* next completion entry to write and its phase           *)

vars == <<active, sq, subq, cq, compq, proc, dev>>

Slot == 0..(QSize - 1)
INVALID_SQ_HEAD == -1
(* The index after i in either ring.                                       *)
Next1(i) == IF i + 1 >= QSize THEN 0 ELSE i + 1

Zeroed == [cid |-> NoCmd, sqhd |-> 0, p |-> 0]
NotRunning == [running |-> FALSE, head |-> 0, phase |-> 1]

-----------------------------------------------------------------------------
(* The device (outside the driver): the queues as NVMe defines them.       *)

(* The doorbell shows an entry that was not fetched: fetch it.             *)
DevFetch ==
  /\ dev.sqHead # sq.doorbell
  /\ dev' = [dev EXCEPT !.sqHead = Next1(@),
                        !.executing = @ \cup {subq[dev.sqHead]}]
  /\ UNCHANGED <<active, sq, subq, cq, compq, proc>>

(* Complete any fetched command, unless the completion ring is full.       *)
DevComplete(c) ==
  /\ c \in dev.executing
  /\ Next1(dev.cqTail) # cq.doorbell
  /\ compq' = [compq EXCEPT ![dev.cqTail] =
                 [cid |-> c, sqhd |-> dev.sqHead, p |-> dev.phase]]
  /\ dev' = [dev EXCEPT !.executing = @ \ {c},
                        !.cqTail = Next1(@),
                        !.phase = IF Next1(dev.cqTail) = 0 THEN 1 - @ ELSE @]
  /\ UNCHANGED <<active, sq, subq, cq, proc>>

-----------------------------------------------------------------------------
(* NVMEPCIEIssueCommandToHw.                                               *)

(* A mutation of Full: the wrapped case is forgotten.                      *)
FullUnwrapped(head, tail) == head = tail + 1
Full(head, tail) == head = tail + 1 \/ (head = 0 /\ tail = QSize - 1)

(* A mutation: the pending head is swapped out but not stored.             *)
RefreshForgotten == sq.head
(* NVMEPCIEUpdateSubQueueHead, called when the ring looks full.            *)
Refreshed ==
  IF ~Full(sq.head, sq.tail) \/ sq.pendingHead = INVALID_SQ_HEAD
  THEN sq.head ELSE sq.pendingHead
PendingAfter ==
  IF Full(sq.head, sq.tail) THEN INVALID_SQ_HEAD ELSE sq.pendingHead

(* The command goes into the ring; the doorbell is not rung for the first  *)
(* of two fused commands.                                                  *)
Issue(c, fusedFirst) ==
  /\ c \in Cmds \ active
  /\ ~Full(Refreshed, sq.tail)
  /\ active' = active \cup {c}
  /\ subq' = [subq EXCEPT ![sq.tail] = c]
  /\ sq' = [head |-> Refreshed, tail |-> Next1(sq.tail),
            pendingHead |-> PendingAfter,
            doorbell |-> IF fusedFirst THEN sq.doorbell ELSE Next1(sq.tail)]
  /\ UNCHANGED <<cq, compq, proc, dev>>

(* QUEUE_FULL: the slot goes back to the pool, the refreshed head stays.   *)
IssueQueueFull ==
  /\ active # Cmds
  /\ Full(Refreshed, sq.tail)
  /\ sq' = [sq EXCEPT !.head = Refreshed, !.pendingHead = PendingAfter]
  /\ UNCHANGED <<active, subq, cq, compq, proc, dev>>

-----------------------------------------------------------------------------
(* NVMEPCIEProcessCq.                                                      *)

ProcessCqEnter ==
  /\ ~proc.running
  /\ proc' = [running |-> TRUE, head |-> cq.head, phase |-> cq.phase]
  /\ UNCHANGED <<active, sq, subq, cq, compq, dev>>

NewEntry == compq[proc.head].p = proc.phase

(* A mutation: the phase is kept when the head wraps.                      *)
TakeEntryKeepPhase ==
  /\ proc.running
  /\ NewEntry
  /\ sq' = [sq EXCEPT !.pendingHead = compq[proc.head].sqhd]
  /\ active' = active \ {compq[proc.head].cid}
  /\ proc' = [proc EXCEPT !.head = Next1(@)]
  /\ UNCHANGED <<subq, cq, compq, dev>>

(* One iteration: note the device's submission head, complete the command. *)
ProcessCqEntry ==
  /\ proc.running
  /\ NewEntry
  /\ sq' = [sq EXCEPT !.pendingHead = compq[proc.head].sqhd]
  /\ active' = active \ {compq[proc.head].cid}
  /\ proc' = [proc EXCEPT !.head = Next1(@),
                          !.phase = IF Next1(proc.head) = 0 THEN 1 - @ ELSE @]
  /\ UNCHANGED <<subq, cq, compq, dev>>

(* A mutation: the completion doorbell is forgotten.                       *)
LeaveWithoutDoorbell ==
  /\ proc.running
  /\ ~NewEntry
  /\ cq' = [cq EXCEPT !.head = proc.head, !.phase = proc.phase]
  /\ proc' = NotRunning
  /\ UNCHANGED <<active, sq, subq, compq, dev>>

(* A mutation: an interrupt that finds no entry waits for one.             *)
LeaveAfterWork ==
  /\ proc.running
  /\ ~NewEntry
  /\ proc.head # cq.head
  /\ cq' = [head |-> proc.head, phase |-> proc.phase, doorbell |-> proc.head]
  /\ proc' = NotRunning
  /\ UNCHANGED <<active, sq, subq, compq, dev>>

(* No new entry: the new head and phase are stored and the doorbell rung.  *)
ProcessCqLeave ==
  /\ proc.running
  /\ ~NewEntry
  /\ cq' = [head |-> proc.head, phase |-> proc.phase, doorbell |-> proc.head]
  /\ proc' = NotRunning
  /\ UNCHANGED <<active, sq, subq, compq, dev>>

-----------------------------------------------------------------------------
FreshSq == [head |-> 0, tail |-> 0, pendingHead |-> INVALID_SQ_HEAD,
            doorbell |-> 0]
FreshCq == [head |-> 0, phase |-> 1, doorbell |-> 0]
FreshDev == [sqHead |-> 0, executing |-> {}, cqTail |-> 0, phase |-> 1]

Init ==
  /\ active = {}
  /\ sq = FreshSq
  /\ subq = [i \in Slot |-> NoCmd]
  /\ cq = FreshCq
  /\ compq = [i \in Slot |-> Zeroed]
  /\ proc = NotRunning
  /\ dev = FreshDev

(* The queue is stopped (its outstanding commands are flushed and the      *)
(* device's queues deleted), NVMEPCIEInitQueue resets both rings, and the  *)
(* device's queues are created anew.  Who may still be running meanwhile   *)
(* is the subject of AdminQueue.                                           *)
StopAndStart ==
  /\ ~proc.running
  /\ active' = {}
  /\ sq' = FreshSq
  /\ subq' = [i \in Slot |-> NoCmd]
  /\ cq' = FreshCq
  /\ compq' = [i \in Slot |-> Zeroed]
  /\ dev' = FreshDev
  /\ UNCHANGED proc

ProcessCq == ProcessCqEnter \/ ProcessCqEntry \/ ProcessCqLeave
Device == DevFetch \/ \E c \in Cmds : DevComplete(c)

Next ==
  \/ \E c \in Cmds, fusedFirst \in BOOLEAN : Issue(c, fusedFirst)
  \/ IssueQueueFull
  \/ ProcessCq
  \/ DevFetch
  \/ \E c \in Cmds : DevComplete(c)
  \/ StopAndStart

Spec == Init /\ [][Next]_vars

(* The device executes what it fetched, and completions raise interrupts   *)
(* whose handler runs NVMEPCIEProcessCq.                                   *)
FairSpec ==
  /\ Spec
  /\ WF_vars(ProcessCqEnter) /\ WF_vars(ProcessCqEntry \/ ProcessCqLeave)
  /\ WF_vars(DevFetch)
  /\ \A c \in Watched : SF_vars(DevComplete(c))

-----------------------------------------------------------------------------
(* Type correctness: in particular every index is inside its ring and the  *)
(* device never fetches an entry nobody wrote.                             *)
TypeOK ==
  /\ active \subseteq Cmds
  /\ sq \in [head : Slot, tail : Slot, pendingHead : Slot \cup {INVALID_SQ_HEAD},
             doorbell : Slot]
  /\ subq \in [Slot -> Cmds \cup {NoCmd}]
  /\ cq \in [head : Slot, phase : {0, 1}, doorbell : Slot]
  /\ compq \in [Slot -> [cid : Cmds \cup {NoCmd}, sqhd : Slot, p : {0, 1}]]
  /\ proc \in [running : BOOLEAN, head : Slot, phase : {0, 1}]
  /\ dev \in [sqHead : Slot, executing : SUBSET Cmds,
              cqTail : Slot, phase : {0, 1}]

(* Entries of a ring from index a to, not including, index b.              *)
Dist(a, b) == IF a <= b THEN b - a ELSE b - a + QSize
At(a, k) == IF a + k >= QSize THEN a + k - QSize ELSE a + k

(* Where the driver will look for the next completion.                     *)
CqPosition == IF proc.running THEN proc.head ELSE cq.head

(* Every entry NVMEPCIEProcessCq takes is the answer to a command that is  *)
(* active: with a device that keeps to the protocol none of the "invalid   *)
(* cid", "NULL vmkCmd", "invalid sqhd" and "inactive command" branches of  *)
(* NVMEPCIEProcessCq is taken, however slots are reused and wherever the   *)
(* rings wrap.                                                             *)
EntriesAnswerActive ==
  proc.running /\ NewEntry =>
    /\ compq[proc.head].cid \in active
    /\ \A c \in dev.executing : c # compq[proc.head].cid

(* No submission entry is lost: once every submitted command was fetched   *)
(* and every completion taken, the driver's idea of the device's head (the *)
(* pending one, if there is one) is right, so that the whole ring can be   *)
(* used again (NVMEPCIEUpdateSubQueueHead).                                *)
NoCreditLost ==
  (active = {}) =>
    dev.sqHead = IF sq.pendingHead = INVALID_SQ_HEAD THEN sq.head
                 ELSE sq.pendingHead

(* NVMEPCIEProcessCq returns: the doorbell is written after the loop, so   *)
(* the device can add only so many entries while the loop runs.            *)
ProcessCqReturns == proc.running ~> ~proc.running

(* A command whose doorbell was rung is completed.                         *)
Rung(c) == \E k \in 0..(QSize - 1) :
             k < Dist(dev.sqHead, sq.doorbell) /\ subq[At(dev.sqHead, k)] = c
RungCompletes == \A c \in Watched : Rung(c) ~> c \notin active

(* The two rings are the queues of module CommandQueue: the device sees    *)
(* the commands in the order of submission and never one twice, no entry   *)
(* is overwritten before it was read, and the phase bit tells new entries  *)
(* from old ones.                                                          *)
Queue == INSTANCE CommandQueue WITH
  Capacity  <- QSize - 1,
  waiting   <- [i \in 1..Dist(dev.sqHead, sq.tail) |-> subq[At(dev.sqHead, i - 1)]],
  rung      <- Dist(dev.sqHead, sq.doorbell),
  executing <- dev.executing,
  answered  <- [i \in 1..Dist(CqPosition, dev.cqTail) |->
                  compq[At(CqPosition, i - 1)].cid]
QueueSpec == Queue!QSpec
=============================================================================
