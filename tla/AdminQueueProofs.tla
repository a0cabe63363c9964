--------------------------- MODULE AdminQueueProofs ---------------------------
(***************************************************************************)
(* Proofs about the synchronous commands of the admin queue, for any       *)
(* number of commands and slots.                                           *)
(*                                                                         *)
(* RefInv holds for any number of resets: refCount counts the threads that *)
(* are inside the queue, so that a flusher which saw it at zero is alone   *)
(* with the completed and the abandoned commands.                          *)
(*                                                                         *)
(* OwnInv holds while the queue is not reset (ResetExcludesSubmission and  *)
(* its run show why not beyond): the status of a slot tells whose it is,   *)
(* and an entry that is executed, posted or processed is for a command     *)
(* that is outstanding.                                                    *)
(***************************************************************************)
EXTENDS AdminQueue, FiniteSetTheorems, TLAPS

-----------------------------------------------------------------------------
(* Where the threads are.                                                  *)

Statuses == {"FREE", "ACTIVE", "FREE_ON_COMPLETE", "DONE"}

Preparing == {"count", "prepare", "issue", "giveBack"}
Waiting == {"wait", "decide", "swap"}
Working == Preparing \cup Waiting \cup {"scan", "uncount", "timedOut"}
Inside == Working \cup {"entered", "leave"}
SubPcs == Inside \cup {"idle", "put", "putDec", "returned"}
SlotPcs == Preparing \cup Waiting \cup {"uncount", "timedOut", "put", "putDec"}
HeldPcs == Waiting \cup {"issue", "put"}

Completing == {"read", "swap", "free"}
Draining == Completing \cup {"cq", "uncount"}
Flushing == Draining \cup {"lockCq", "lockList", "loop", "leave"}
AgentInside == Flushing \cup {"disable", "sync"}
Alone == Flushing \cup {"enter"}
IntrPcs == Draining \cup {"idle", "lockCq"}
QuiescePcs == Alone \cup {"idle", "suspend", "disable", "sync", "await", "done"}
ResetPcs == (QuiescePcs \ {"done"}) \cup {"init", "resume", "enable"}
AgentPcs == QuiescePcs \cup ResetPcs

CmdRefs == {c \in Cmds : sub[c].pc \in Inside}
AgentRefs == {f \in Flushers : agent[f].pc \in AgentInside}

-----------------------------------------------------------------------------
(* The invariant with any number of resets.                                *)

Submitter == [pc : SubPcs, slot : Slots \cup {0}, old : Statuses \cup {None},
              result : {None, "OK", "FAILURE", "TIMEOUT"}]
LoopSlots == Slots \cup {NumSlots + 1}
Agent == [pc : AgentPcs, slot : LoopSlots \cup {None},
          old : Statuses \cup {None}]

AdminType ==
  /\ state \in {"ACTIVE", "SUSPENDED"} /\ refCount \in Int
  /\ isIntrEnabled \in BOOLEAN /\ isRemoved \in BOOLEAN
  /\ status \in [Slots -> Statuses]
  /\ vmkCmd \in [Slots -> Cmds \cup {None}]
  /\ nrAct \in Int
  /\ executing \subseteq Slots /\ posted \subseteq Slots
  /\ cqLock \in Agents \cup {None} /\ listLock \in Agents \cup {None}
  /\ sub \in [Cmds -> Submitter] /\ agent \in [Agents -> Agent]
  /\ held \in [Cmds -> Int] /\ resets \in Nat
  /\ \A c \in Cmds : sub[c].pc \in SlotPcs => sub[c].slot \in Slots
  /\ \A a \in Agents : agent[a].pc \in Completing \cup {"uncount"} => agent[a].slot \in Slots
  /\ \A a \in Agents : agent[a].pc = "loop" => agent[a].slot \in LoopSlots
  /\ agent["intr"].pc \in IntrPcs
  /\ agent["quiesce"].pc \in QuiescePcs
  /\ agent["reset"].pc \in ResetPcs

(* The lock of the completion queue.                                       *)
CqLocked ==
  /\ \A a \in Agents : agent[a].pc = "cq" => cqLock = a
  /\ agent["intr"].pc \in Draining => cqLock = "intr"

RefCounts ==
  /\ IsFiniteSet(CmdRefs) /\ IsFiniteSet(AgentRefs)
  /\ refCount = Cardinality(CmdRefs) + Cardinality(AgentRefs)

(* A reset keeps the queue suspended until it resumes it.                  *)
ResetAlone ==
  /\ agent["reset"].pc \in Alone \cup {"disable", "sync", "await", "init", "resume"} =>
       state = "SUSPENDED"
  /\ agent["reset"].pc \in Alone \cup {"init", "resume"} =>
       \A c \in Cmds : sub[c].pc \notin Working

(* A removal keeps commands from being issued, even if a reset resumes.    *)
QuiesceAlone ==
  /\ agent["quiesce"].pc # "idle" => isRemoved
  /\ agent["quiesce"].pc \in Alone \cup {"done"} =>
       \A c \in Cmds : sub[c].pc \notin Waiting \cup {"timedOut"}

(* The loop of NVMEPCIEFlushQueue over the slots, run by QuiesceDevice.    *)
Looping ==
  \/ agent["quiesce"].pc = "loop"
  \/ agent["quiesce"].pc \in Completing \cup {"uncount"} /\ cqLock # "quiesce"
LoopClears ==
  /\ Looping => \A s \in Slots :
       s < agent["quiesce"].slot => status[s] # "FREE_ON_COMPLETE"
  /\ agent["quiesce"].pc = "uncount" =>
       status[agent["quiesce"].slot] # "FREE_ON_COMPLETE"
  /\ agent["quiesce"].pc \in {"leave", "done"} =>
       \A s \in Slots : status[s] # "FREE_ON_COMPLETE"

RefInv ==
  /\ AdminType /\ CqLocked /\ RefCounts
  /\ ResetAlone /\ QuiesceAlone /\ LoopClears

-----------------------------------------------------------------------------
(* The invariant without a reset.                                          *)

(* The phases of a removal: the queue is suspended, then its interrupt is  *)
(* off, then the interrupt handler has ended.                              *)
Removal ==
  LET pc == agent["quiesce"].pc
  IN /\ agent["reset"].pc = "idle" /\ resets = 0
     /\ isRemoved => executing = {}
     /\ state = IF pc \in {"idle", "suspend"} THEN "ACTIVE" ELSE "SUSPENDED"
     /\ pc \notin {"idle", "suspend", "disable"} => ~isIntrEnabled
     /\ pc \notin {"idle", "suspend", "disable", "sync"} => agent["intr"].pc = "idle"
     /\ pc \in Alone \cup {"done"} => \A c \in Cmds : sub[c].pc \notin Working
     /\ Looping \/ pc \in {"lockList", "leave", "done"} => posted = {}

Completes(s) == \E a \in Agents : agent[a].pc \in Completing /\ agent[a].slot = s
InFlight(s) == s \in executing \cup posted \/ Completes(s)

(* The status of a slot, as its owner knows it.                            *)
Knows(c) ==
  LET s == sub[c].slot
  IN /\ sub[c].pc \in Preparing => status[s] = "ACTIVE" /\ ~InFlight(s)
     /\ sub[c].pc \in Waiting => status[s] \in {"ACTIVE", "DONE"}
     /\ sub[c].pc = "swap" => sub[c].old = "ACTIVE"
     /\ sub[c].pc = "put" => status[s] = "DONE"
     /\ Abandoned(c) => s \in Slots /\ status[s] = "FREE_ON_COMPLETE"
     /\ (sub[c].pc \in HeldPcs \/ Abandoned(c)) => vmkCmd[s] = c
OwnersKnow == \A c \in Cmds : Knows(c)

AbandonedOwned ==
  \A s \in Slots : status[s] = "FREE_ON_COMPLETE" =>
    \E c \in Cmds : Abandoned(c) /\ sub[c].slot = s

(* Entries are for outstanding commands; a command is executed, posted or  *)
(* processed, by one agent.                                                *)
FlightInv ==
  /\ \A s \in Slots : InFlight(s) => status[s] \in Outstanding
  /\ executing \cap posted = {}
  /\ \A a \in Agents :
       /\ agent[a].pc \in Completing => agent[a].slot \notin executing \cup posted
       /\ agent[a].pc = "swap" => agent[a].old = "ACTIVE"
       /\ agent[a].pc = "free" => status[agent[a].slot] = "FREE_ON_COMPLETE"

(* As long as the device is there, it owes an answer.                      *)
IsOwed(c) ==
  (sub[c].pc \in Waiting \/ Abandoned(c)) /\ status[sub[c].slot] \in Outstanding =>
    InFlight(sub[c].slot)
Owed == ~isRemoved => \A c \in Cmds : IsOwed(c)

Holds(c) ==
  /\ sub[c].result # None <=> sub[c].pc = "returned"
  /\ held[c] \in {0, 1}
  /\ sub[c].pc \in HeldPcs => held[c] = 1
  /\ sub[c].pc \notin HeldPcs \cup {"timedOut"} /\ sub[c].result # "TIMEOUT" => held[c] = 0
HeldInv == \A c \in Cmds : Holds(c)

Counted == {c \in Cmds : \/ OwnsSlot(c) /\ sub[c].pc # "count"
                         \/ sub[c].pc \in {"putDec", "uncount"}}
Uncounting == {a \in Agents : agent[a].pc = "uncount"}
ActCounts ==
  /\ IsFiniteSet(Counted) /\ IsFiniteSet(Uncounting)
  /\ nrAct = Cardinality(Counted) + Cardinality(Uncounting)

Core ==
  /\ SlotServesOne /\ OwnersKnow /\ AbandonedOwned
  /\ FlightInv /\ Owed /\ HeldInv
OwnInv == Removal /\ Core /\ ActCounts

-----------------------------------------------------------------------------
(* What the steps of a thread leave alone.                                 *)

SubSteps(c) == SubmitEnter(c) \/ SubmitStep(c)

LEMMA SubmitFrame ==
  ASSUME AdminType, NEW c \in Cmds, SubSteps(c)
  PROVE  /\ UNCHANGED <<state, isIntrEnabled, isRemoved, posted, lockVars, agent, resets>>
         /\ \A d \in Cmds \ {c} : sub'[d] = sub[d] /\ held'[d] = held[d]
BY DEF AdminType, SubSteps, SubmitStep, SubmitEnter, SubmitRefused, SubmitAllowed, GetSlot,
  NextSlot, NoSlot, CountSlot, Prepare, PrepareFails, Issue, IssueRefused, GiveBack, Uncount,
  Leave, WakeUp, TimeOut, Done, NotDone, GiveUp, SwapFails, TimedOut, PutFree, PutDec,
  SubGoes, SubReturns, queueVars, slotVars, hwVars, lockVars

LEMMA CompleteFrame ==
  ASSUME AdminType, NEW a \in Agents, CompleteStep(a)
  PROVE  /\ UNCHANGED <<queueVars, vmkCmd, executing, listLock, sub, resets>>
         /\ \A b \in Agents \ {a} : agent'[b] = agent[b]
BY DEF AdminType, CompleteStep, LockCq, TakeEntry, SkipEntry, UnlockCq, ReadStatus,
  FreeAbandoned, UncountAbandoned, SwapDone, SwapDoneFails, CompletionEnds, AgentGoes,
  queueVars, slotVars, hwVars, lockVars

LEMMA FlushFrame ==
  ASSUME AdminType, NEW f \in Flushers, FlushStep(f)
  PROVE  /\ UNCHANGED <<isRemoved, slotVars, hwVars, cqLock, sub, held, resets>>
         /\ \A b \in Agents \ {f} : agent'[b] = agent[b]
BY DEF AdminType, FlushStep, Suspend, DisableIntr, SyncIntr, AwaitNoSubmission, FlushEnter,
  LockList, FlushSlot, UnlockList, FlushLeave, AgentGoes, queueVars, slotVars, hwVars, lockVars

-----------------------------------------------------------------------------
(* The types.                                                              *)

LEMMA SlotsAre ==
  /\ \A s \in Slots : s \in Int /\ s - 1 \in Slots \cup {0} /\ s + 1 \in LoopSlots
  /\ \A s \in Slots \cup {0} : s > 0 => s \in Slots
  /\ \A s \in LoopSlots : s \in Int /\ (s <= NumSlots => s \in Slots)
  /\ 1 \in LoopSlots /\ NumSlots \in Slots
BY NumSlotsAssumption DEF Slots, LoopSlots

LEMMA SubGoesType ==
  ASSUME AdminType, NEW c \in Cmds, NEW pc \in SubPcs, SubGoes(c, pc)
  PROVE  sub' \in [Cmds -> Submitter]
BY DEF AdminType, SubGoes, Submitter

LEMMA SubReturnsType ==
  ASSUME AdminType, NEW c \in Cmds, NEW result \in {"OK", "FAILURE", "TIMEOUT"},
         SubReturns(c, result)
  PROVE  sub' \in [Cmds -> Submitter]
<1>1. sub[c] \in Submitter /\ "returned" \in SubPcs
  BY DEF AdminType, SubPcs
<1>2. [sub[c] EXCEPT !.pc = "returned", !.result = result] \in Submitter
  BY <1>1 DEF Submitter
<1>3. sub' = [sub EXCEPT ![c] = [sub[c] EXCEPT !.pc = "returned", !.result = result]]
  BY DEF SubReturns
<1> QED
  BY <1>2, <1>3 DEF AdminType

LEMMA AgentGoesType ==
  ASSUME AdminType, NEW a \in Agents, NEW pc \in AgentPcs, AgentGoes(a, pc)
  PROVE  agent' \in [Agents -> Agent]
BY DEF AdminType, AgentGoes, Agent

LEMMA HeldType ==
  ASSUME AdminType, NEW d, held' = [held EXCEPT ![d] = held[d] - 1]
  PROVE  held' \in [Cmds -> Int]
<1>1. held \in [Cmds -> Int]
  BY DEF AdminType
<1>2. CASE d \in Cmds
  BY <1>1, <1>2
<1>3. CASE d \notin Cmds
  BY <1>1, <1>3
<1> QED
  BY <1>2, <1>3

LEMMA SubmitType ==
  ASSUME AdminType, NEW c \in Cmds, SubSteps(c)
  PROVE  AdminType'
<1>0. ASSUME PutDec(c) PROVE sub' \in [Cmds -> Submitter]
  BY <1>0, SubReturnsType DEF PutDec
<1> USE SlotsAre DEF AdminType, Submitter, Statuses, SubGoes, SubReturns,
      SubPcs, SlotPcs, Inside, Working, Preparing, Waiting, queueVars, slotVars, hwVars, lockVars
<1>1. CASE SubmitEnter(c) \/ SubmitRefused(c) \/ SubmitAllowed(c) \/ NextSlot(c) \/ NoSlot(c)
  BY <1>1 DEF SubmitEnter, SubmitRefused, SubmitAllowed, NextSlot, NoSlot
<1>2. CASE GetSlot(c) \/ CountSlot(c) \/ GiveBack(c) \/ Uncount(c) \/ Leave(c)
  BY SMTT(30), <1>2 DEF GetSlot, CountSlot, GiveBack, Uncount, Leave
<1>3. CASE Prepare(c) \/ PrepareFails(c) \/ Issue(c) \/ IssueRefused(c)
  BY <1>3 DEF Prepare, PrepareFails, Issue, IssueRefused
<1>4. CASE WakeUp(c) \/ TimeOut(c) \/ Done(c) \/ NotDone(c)
  BY SMTT(30), <1>4 DEF WakeUp, TimeOut, Done, NotDone
<1>5. CASE GiveUp(c) \/ SwapFails(c) \/ TimedOut(c) \/ PutFree(c) \/ PutDec(c)
  <2>1. CASE GiveUp(c)
    BY <2>1 DEF GiveUp
  <2>2. CASE SwapFails(c) \/ TimedOut(c)
    BY SMTT(30), <2>2 DEF SwapFails, TimedOut
  <2>3. CASE PutFree(c)
    BY SMTT(30), <2>3 DEF PutFree
  <2>4. CASE PutDec(c)
    BY <2>4, <1>0 DEF PutDec
  <2> QED
    BY <1>5, <2>1, <2>2, <2>3, <2>4
<1> QED
  BY <1>1, <1>2, <1>3, <1>4, <1>5 DEF SubSteps, SubmitStep

LEMMA CompleteType ==
  ASSUME AdminType, CqLocked, NEW a \in Agents, CompleteStep(a)
  PROVE  AdminType'
<1>0. ASSUME FreeAbandoned(a) PROVE held' \in [Cmds -> Int]
  BY <1>0, HeldType DEF FreeAbandoned
<1> USE SlotsAre DEF AdminType, Agent, Statuses, AgentGoes, CompletionEnds,
      Agents, Flushers, AgentPcs, IntrPcs, QuiescePcs, ResetPcs, Alone, Flushing, Draining,
      Completing, queueVars, slotVars, hwVars, lockVars
<1>1. CASE LockCq(a) \/ (\E s \in Slots : TakeEntry(a, s) \/ SkipEntry(a, s)) \/ UnlockCq(a)
  BY <1>1 DEF LockCq, TakeEntry, SkipEntry, UnlockCq
<1>2. CASE ReadStatus(a) \/ SwapDoneFails(a)
  BY <1>2 DEF ReadStatus, SwapDoneFails
<1>3. CASE FreeAbandoned(a)
  BY <1>3, <1>0 DEF FreeAbandoned
<1>4. CASE UncountAbandoned(a)
  BY <1>4, NoneAssumption DEF UncountAbandoned, CqLocked
<1>5. CASE SwapDone(a)
  BY <1>5, NoneAssumption DEF SwapDone, CqLocked
<1> QED
  BY <1>1, <1>2, <1>3, <1>4, <1>5 DEF CompleteStep

LEMMA FlushType ==
  ASSUME AdminType, NEW f \in Flushers, FlushStep(f)
  PROVE  AdminType'
<1> USE SlotsAre DEF AdminType, Agent, Statuses, AgentGoes,
      Agents, Flushers, AgentPcs, IntrPcs, QuiescePcs, ResetPcs, Alone, Flushing, Draining,
      Completing, queueVars, slotVars, hwVars, lockVars
<1>1. CASE Suspend(f) \/ DisableIntr(f) \/ SyncIntr(f)
  <2>1. CASE Suspend(f)
    <3>1. refCount' \in Int
      BY <2>1 DEF Suspend
    <3>2. agent' \in [Agents -> Agent]
      BY <2>1 DEF Suspend
    <3> QED
      BY <2>1, <3>1, <3>2 DEF Suspend
  <2>2. CASE DisableIntr(f)
    <3>1. agent' \in [Agents -> Agent] /\ isIntrEnabled' \in BOOLEAN
      BY <2>2, AgentGoesType DEF DisableIntr
    <3> QED
      BY <2>2, <3>1 DEF DisableIntr
  <2>3. CASE SyncIntr(f)
    BY <2>3 DEF SyncIntr
  <2> QED
    BY <1>1, <2>1, <2>2, <2>3
<1>2. CASE AwaitNoSubmission(f) \/ FlushEnter(f) \/ FlushLeave(f)
  BY <1>2 DEF AwaitNoSubmission, FlushEnter, FlushLeave
<1>3. CASE LockList(f) \/ UnlockList(f)
  BY <1>3 DEF LockList, UnlockList
<1>4. CASE FlushSlot(f)
  BY SMTT(30), <1>4 DEF FlushSlot
<1> QED
  BY <1>1, <1>2, <1>3, <1>4 DEF FlushStep

(* The steps that no other lemma is about.                                 *)
ControlSteps ==
  \/ Interrupt \/ ResetStart \/ InitQueue \/ ResumeQueue \/ EnableIntr
  \/ ForgetDevice \/ QuiesceStart
  \/ \E s \in Slots : DeviceCompletes(s)

LEMMA ControlType ==
  ASSUME AdminType, ControlSteps
  PROVE  AdminType'
<1> USE SlotsAre DEF AdminType, Agent, Statuses, AgentGoes,
      Agents, Flushers, AgentPcs, IntrPcs, QuiescePcs, ResetPcs, Alone, Flushing, Draining,
      Completing, queueVars, slotVars, hwVars, lockVars
<1>1. CASE Interrupt \/ ResumeQueue \/ EnableIntr
  <2>1. CASE Interrupt
    BY <2>1 DEF Interrupt
  <2>2. CASE ResumeQueue
    BY <2>2 DEF ResumeQueue
  <2>3. CASE EnableIntr
    BY <2>3 DEF EnableIntr
  <2> QED
    BY <1>1, <2>1, <2>2, <2>3
<1>2. CASE InitQueue
  BY <1>2 DEF InitQueue
<1>3. CASE ResetStart \/ QuiesceStart
  BY <1>3 DEF ResetStart, QuiesceStart
<1>4. CASE ForgetDevice
  BY <1>4 DEF ForgetDevice
<1>5. CASE \E s \in Slots : DeviceCompletes(s)
  BY <1>5 DEF DeviceCompletes
<1> QED
  BY <1>1, <1>2, <1>3, <1>4, <1>5 DEF ControlSteps

-----------------------------------------------------------------------------
(* The reference count.                                                    *)

LEMMA SubmitRefs ==
  ASSUME AdminType, RefCounts, NEW c \in Cmds, SubSteps(c)
  PROVE  RefCounts'
<1> DEFINE in == sub[c].pc \in Inside
           inNext == sub'[c].pc \in Inside
<1>1. \/ refCount' = refCount /\ (in <=> inNext)
      \/ refCount' = refCount + 1 /\ ~in /\ inNext
      \/ refCount' = refCount - 1 /\ in /\ ~inNext
  <2> USE DEF AdminType, Submitter, SubGoes, SubReturns, Inside, Working, Preparing, Waiting,
        queueVars, slotVars, hwVars, lockVars
  <2>1. CASE SubmitEnter(c) \/ SubmitRefused(c) \/ SubmitAllowed(c) \/ GetSlot(c)
    BY <2>1 DEF SubmitEnter, SubmitRefused, SubmitAllowed, GetSlot
  <2>2. CASE NextSlot(c) \/ NoSlot(c) \/ CountSlot(c) \/ Prepare(c) \/ PrepareFails(c)
    BY <2>2 DEF NextSlot, NoSlot, CountSlot, Prepare, PrepareFails
  <2>3. CASE Issue(c) \/ IssueRefused(c) \/ GiveBack(c) \/ Uncount(c) \/ Leave(c)
    BY <2>3 DEF Issue, IssueRefused, GiveBack, Uncount, Leave
  <2>4. CASE WakeUp(c) \/ TimeOut(c) \/ Done(c) \/ NotDone(c) \/ GiveUp(c)
    BY <2>4 DEF WakeUp, TimeOut, Done, NotDone, GiveUp
  <2>5. CASE SwapFails(c) \/ TimedOut(c) \/ PutFree(c) \/ PutDec(c)
    BY <2>5 DEF SwapFails, TimedOut, PutFree, PutDec
  <2> QED
    BY <2>1, <2>2, <2>3, <2>4, <2>5 DEF SubSteps, SubmitStep
<1>2. AgentRefs' = AgentRefs
  BY SubmitFrame DEF AgentRefs
<1>3. \A d \in Cmds \ {c} : d \in CmdRefs' <=> d \in CmdRefs
  BY SubmitFrame DEF CmdRefs
<1>4. (c \in CmdRefs <=> in) /\ (c \in CmdRefs' <=> inNext)
  BY DEF CmdRefs
<1>5. CmdRefs \subseteq Cmds /\ CmdRefs' \subseteq Cmds
  BY DEF CmdRefs
<1> HIDE DEF in, inNext
<1>6. IsFiniteSet(CmdRefs) /\ Cardinality(CmdRefs) \in Nat /\ Cardinality(AgentRefs) \in Nat
  BY FS_CardinalityType DEF RefCounts
<1>7. CASE refCount' = refCount /\ (in <=> inNext)
  <2>1. CmdRefs' = CmdRefs
    BY <1>3, <1>4, <1>5, <1>7
  <2> QED
    BY <1>2, <1>7, <2>1 DEF RefCounts
<1>8. CASE refCount' = refCount + 1 /\ ~in /\ inNext
  <2>1. c \notin CmdRefs /\ CmdRefs' = CmdRefs \cup {c}
    BY <1>3, <1>4, <1>5, <1>8
  <2>2. IsFiniteSet(CmdRefs') /\ Cardinality(CmdRefs') = Cardinality(CmdRefs) + 1
    BY <1>6, <2>1, FS_AddElement
  <2> QED
    BY <1>2, <1>6, <1>8, <2>2 DEF RefCounts
<1>9. CASE refCount' = refCount - 1 /\ in /\ ~inNext
  <2>1. c \in CmdRefs /\ CmdRefs' = CmdRefs \ {c}
    BY <1>3, <1>4, <1>5, <1>9
  <2>2. IsFiniteSet(CmdRefs') /\ Cardinality(CmdRefs') = Cardinality(CmdRefs) - 1
    BY <1>6, <2>1, FS_RemoveElement
  <2> QED
    BY <1>2, <1>6, <1>9, <2>2 DEF RefCounts
<1> QED
  BY <1>1, <1>7, <1>8, <1>9

LEMMA FlushRefs ==
  ASSUME AdminType, RefCounts, NEW f \in Flushers, FlushStep(f)
  PROVE  RefCounts'
<1> DEFINE in == agent[f].pc \in AgentInside
           inNext == agent'[f].pc \in AgentInside
<1>1. \/ refCount' = refCount /\ (in <=> inNext)
      \/ refCount' = refCount + 1 /\ ~in /\ inNext
      \/ refCount' = refCount - 1 /\ in /\ ~inNext
  BY DEF AdminType, Agent, AgentGoes, AgentInside, Flushing, Draining, Completing, Agents,
    queueVars, slotVars, hwVars, lockVars, FlushStep, Suspend, DisableIntr, SyncIntr,
    AwaitNoSubmission, FlushEnter, LockList, FlushSlot, UnlockList, FlushLeave
<1>2. CmdRefs' = CmdRefs
  BY FlushFrame DEF CmdRefs
<1>3. \A g \in Flushers \ {f} : g \in AgentRefs' <=> g \in AgentRefs
  BY FlushFrame DEF AgentRefs, Agents
<1>4. (f \in AgentRefs <=> in) /\ (f \in AgentRefs' <=> inNext)
  BY DEF AgentRefs
<1>5. AgentRefs \subseteq Flushers /\ AgentRefs' \subseteq Flushers
  BY DEF AgentRefs
<1> HIDE DEF in, inNext
<1>6. IsFiniteSet(AgentRefs) /\ Cardinality(CmdRefs) \in Nat /\ Cardinality(AgentRefs) \in Nat
  BY FS_CardinalityType DEF RefCounts
<1>7. CASE refCount' = refCount /\ (in <=> inNext)
  <2>1. AgentRefs' = AgentRefs
    BY <1>3, <1>4, <1>5, <1>7
  <2> QED
    BY <1>2, <1>7, <2>1 DEF RefCounts
<1>8. CASE refCount' = refCount + 1 /\ ~in /\ inNext
  <2>1. f \notin AgentRefs /\ AgentRefs' = AgentRefs \cup {f}
    BY <1>3, <1>4, <1>5, <1>8
  <2>2. IsFiniteSet(AgentRefs') /\ Cardinality(AgentRefs') = Cardinality(AgentRefs) + 1
    BY <1>6, <2>1, FS_AddElement
  <2> QED
    BY <1>2, <1>6, <1>8, <2>2 DEF RefCounts
<1>9. CASE refCount' = refCount - 1 /\ in /\ ~inNext
  <2>1. f \in AgentRefs /\ AgentRefs' = AgentRefs \ {f}
    BY <1>3, <1>4, <1>5, <1>9
  <2>2. IsFiniteSet(AgentRefs') /\ Cardinality(AgentRefs') = Cardinality(AgentRefs) - 1
    BY <1>6, <2>1, FS_RemoveElement
  <2> QED
    BY <1>2, <1>6, <1>9, <2>2 DEF RefCounts
<1> QED
  BY <1>1, <1>7, <1>8, <1>9

(* Where the completer of a command is after its step.                     *)
LEMMA AgentGoesTo ==
  ASSUME AdminType, NEW a \in Agents, NEW pc, AgentGoes(a, pc)
  PROVE  agent'[a].pc = pc /\ agent'[a].slot = agent[a].slot /\ agent'[a].old = agent[a].old
BY DEF AdminType, Agent, AgentGoes

LEMMA CompletionGoesTo ==
  ASSUME AdminType, NEW a \in Agents, CompletionEnds(a)
  PROVE  IF cqLock = a THEN agent'[a].pc = "cq"
         ELSE agent'[a].pc = "loop" /\ agent'[a].slot = agent[a].slot + 1
BY DEF AdminType, CompletionEnds

LEMMA ReadStatusGoesTo ==
  ASSUME AdminType, NEW a \in Agents, ReadStatus(a)
  PROVE  /\ agent'[a].pc = IF status[agent[a].slot] = "FREE_ON_COMPLETE" THEN "free" ELSE "swap"
         /\ agent'[a].slot = agent[a].slot /\ agent'[a].old = status[agent[a].slot]
<1>1. agent[a] \in Agent /\ agent \in [Agents -> Agent]
  BY DEF AdminType
<1>2. agent'[a] = [agent[a] EXCEPT
        !.pc = IF status[agent[a].slot] = "FREE_ON_COMPLETE" THEN "free" ELSE "swap",
        !.old = status[agent[a].slot]]
  BY <1>1 DEF ReadStatus
<1> QED
  BY <1>1, <1>2 DEF Agent

LEMMA TakeEntryGoesTo ==
  ASSUME AdminType, NEW a \in Agents, NEW s \in Slots, TakeEntry(a, s)
  PROVE  agent'[a].pc = "read" /\ agent'[a].slot = s
<1>1. agent[a] \in Agent /\ agent \in [Agents -> Agent]
  BY DEF AdminType
<1>2. agent'[a] = [agent[a] EXCEPT !.pc = "read", !.slot = s]
  BY <1>1 DEF TakeEntry
<1> QED
  BY <1>1, <1>2 DEF Agent

(* A completion goes on inside the queue.                                  *)
LEMMA CompletePcs ==
  ASSUME AdminType, NEW a \in Agents, CompleteStep(a)
  PROVE  /\ agent[a].pc \in Draining \cup {"lockCq"}
         /\ agent'[a].pc \in Flushing \/ (a = "intr" /\ agent'[a].pc = "idle")
<1> USE DEF Flushing, Draining, Completing
<1>1. CASE LockCq(a) \/ UnlockCq(a)
  BY <1>1, AgentGoesTo DEF LockCq, UnlockCq
<1>2. CASE \E s \in Slots : TakeEntry(a, s)
  BY <1>2, TakeEntryGoesTo DEF TakeEntry
<1>3. CASE \E s \in Slots : SkipEntry(a, s)
  BY <1>3 DEF SkipEntry
<1>4. CASE ReadStatus(a)
  BY <1>4, ReadStatusGoesTo DEF ReadStatus
<1>5. CASE FreeAbandoned(a) \/ SwapDoneFails(a)
  BY <1>5, AgentGoesTo DEF FreeAbandoned, SwapDoneFails
<1>6. CASE UncountAbandoned(a) \/ SwapDone(a)
  BY <1>6, CompletionGoesTo DEF UncountAbandoned, SwapDone
<1> QED
  BY <1>1, <1>2, <1>3, <1>4, <1>5, <1>6 DEF CompleteStep

LEMMA OtherRefs ==
  ASSUME AdminType, CqLocked, RefCounts, (\E a \in Agents : CompleteStep(a)) \/ ControlSteps
  PROVE  RefCounts'
<1>1. refCount' = refCount /\ CmdRefs' = CmdRefs
  <2>1. CASE \E a \in Agents : CompleteStep(a)
    BY <2>1, CompleteFrame DEF CmdRefs, queueVars
  <2>2. CASE ControlSteps
    BY <2>2 DEF ControlSteps, Interrupt, ResetStart, InitQueue, ResumeQueue, EnableIntr,
      ForgetDevice, QuiesceStart, DeviceCompletes, CmdRefs, queueVars
  <2> QED
    BY <2>1, <2>2
<1>2. \A f \in Flushers : agent'[f].pc \in AgentInside <=> agent[f].pc \in AgentInside
  <2>1. CASE \E a \in Agents : CompleteStep(a)
    BY <2>1, CompleteFrame, CompletePcs DEF AgentInside, Flushing, Flushers, Agents
  <2>2. CASE ControlSteps
    BY <2>2 DEF ControlSteps, Interrupt, ResetStart, InitQueue, ResumeQueue, EnableIntr,
      ForgetDevice, QuiesceStart, DeviceCompletes, AgentGoes, AdminType, Agent, Agents, Flushers,
      AgentInside, Flushing, Draining, Completing
  <2> QED
    BY <2>1, <2>2
<1>3. AgentRefs' = AgentRefs
  BY <1>2 DEF AgentRefs
<1> QED
  BY <1>1, <1>3 DEF RefCounts

LEMMA NoReference ==
  ASSUME RefCounts, refCount = 0
  PROVE  \A c \in Cmds : sub[c].pc \notin Inside
<1>1. Cardinality(CmdRefs) \in Nat /\ Cardinality(AgentRefs) \in Nat
  BY FS_CardinalityType DEF RefCounts
<1>2. Cardinality(CmdRefs) = 0
  BY <1>1 DEF RefCounts
<1>3. CmdRefs = {}
  BY <1>2, FS_EmptySet DEF RefCounts
<1> QED
  BY <1>3 DEF CmdRefs

-----------------------------------------------------------------------------
(* The lock, and what the flushers find.                                   *)

LEMMA SubGoesTo ==
  ASSUME AdminType, NEW c \in Cmds, NEW pc, SubGoes(c, pc)
  PROVE  /\ sub'[c].pc = pc /\ sub'[c].slot = sub[c].slot
         /\ sub'[c].old = sub[c].old /\ sub'[c].result = sub[c].result
BY DEF AdminType, Submitter, SubGoes

LEMMA SubReturnsTo ==
  ASSUME AdminType, NEW c \in Cmds, NEW result, SubReturns(c, result)
  PROVE  /\ sub'[c].pc = "returned" /\ sub'[c].slot = sub[c].slot
         /\ sub'[c].result = result
<1>1. sub[c] \in Submitter /\ sub \in [Cmds -> Submitter]
  BY DEF AdminType
<1>2. sub'[c] = [sub[c] EXCEPT !.pc = "returned", !.result = result]
  BY <1>1 DEF SubReturns
<1> QED
  BY <1>1, <1>2 DEF Submitter

LEMMA ControlFrame ==
  ASSUME AdminType, ControlSteps
  PROVE  /\ UNCHANGED <<refCount, vmkCmd, sub, held, cqLock, listLock>>
         /\ \A a \in Agents : agent'[a].slot = agent[a].slot /\ agent'[a].old = agent[a].old
         /\ agent'["intr"].pc = agent["intr"].pc
            \/ (Interrupt /\ agent["intr"].pc = "idle" /\ agent'["intr"].pc = "lockCq")
         /\ agent'["quiesce"].pc = agent["quiesce"].pc
            \/ (QuiesceStart /\ agent["quiesce"].pc = "idle" /\ agent'["quiesce"].pc = "suspend")
         /\ agent'["reset"].pc = agent["reset"].pc
            \/ agent'["reset"].pc \in {"idle", "suspend"}
            \/ (InitQueue /\ agent["reset"].pc = "init" /\ agent'["reset"].pc = "resume")
            \/ (ResumeQueue /\ agent["reset"].pc = "resume" /\ agent'["reset"].pc = "enable")
<1> USE DEF Agents, Flushers, AdminType, Agent, AgentGoes, queueVars, slotVars, hwVars, lockVars
<1>1. CASE Interrupt
  BY <1>1 DEF Interrupt
<1>2. CASE ResetStart
  BY <1>2 DEF ResetStart
<1>3. CASE InitQueue
  BY <1>3 DEF InitQueue
<1>4. CASE ResumeQueue
  BY <1>4 DEF ResumeQueue
<1>5. CASE EnableIntr
  BY <1>5 DEF EnableIntr
<1>6. CASE ForgetDevice
  BY <1>6 DEF ForgetDevice
<1>7. CASE QuiesceStart
  BY <1>7 DEF QuiesceStart
<1>8. CASE \E s \in Slots : DeviceCompletes(s)
  BY <1>8 DEF DeviceCompletes
<1> QED
  BY <1>1, <1>2, <1>3, <1>4, <1>5, <1>6, <1>7, <1>8 DEF ControlSteps

(* Where a flusher is after its step.                                      *)
LEMMA FlushPcs ==
  ASSUME AdminType, NEW f \in Flushers, FlushStep(f)
  PROVE  \/ /\ agent[f].pc = "suspend" /\ state' = "SUSPENDED"
            /\ agent'[f].pc = IF state = "ACTIVE" THEN "disable" ELSE "await"
         \/ /\ agent[f].pc = "disable" /\ agent'[f].pc = "sync" /\ state' = state
            /\ isIntrEnabled' = FALSE
         \/ /\ agent[f].pc = "sync" /\ agent'[f].pc = "await"
            /\ state' = state /\ agent["intr"].pc = "idle"
         \/ /\ agent[f].pc = "await" /\ agent'[f].pc = "enter"
            /\ state' = state /\ refCount = 0
         \/ agent[f].pc = "enter" /\ agent'[f].pc = "lockCq" /\ state' = state
         \/ /\ agent[f].pc = "lockList" /\ agent'[f].pc = "loop"
            /\ agent'[f].slot = 1 /\ state' = state
         \/ /\ agent[f].pc = "loop" /\ agent[f].slot \in Slots
            /\ status[agent[f].slot] \in Outstanding
            /\ agent'[f].pc = "read" /\ agent'[f].slot = agent[f].slot
            /\ state' = state
         \/ /\ agent[f].pc = "loop" /\ agent[f].slot \in Slots
            /\ status[agent[f].slot] \notin Outstanding
            /\ agent'[f].pc = "loop" /\ agent'[f].slot = agent[f].slot + 1
            /\ state' = state
         \/ /\ agent[f].pc = "loop" /\ agent[f].slot > NumSlots
            /\ agent'[f].pc = "leave" /\ state' = state
         \/ /\ agent[f].pc = "leave" /\ state' = state
            /\ agent'[f].pc = IF f = "quiesce" THEN "done"
                              ELSE IF isRemoved THEN "idle" ELSE "init"
<1> USE DEF Agents
<1>1. CASE Suspend(f)
  BY <1>1, AgentGoesTo DEF Suspend
<1>2. CASE DisableIntr(f)
  BY <1>2, AgentGoesTo DEF DisableIntr
<1>3. CASE SyncIntr(f)
  BY <1>3, AgentGoesTo DEF SyncIntr
<1>4. CASE AwaitNoSubmission(f)
  BY <1>4, AgentGoesTo DEF AwaitNoSubmission, queueVars
<1>5. CASE FlushEnter(f)
  BY <1>5, AgentGoesTo DEF FlushEnter
<1>6. CASE LockList(f)
  BY <1>6 DEF LockList, AdminType, Agent, queueVars
<1>7. CASE FlushSlot(f)
  <2>1. agent[f].slot \in Slots
    BY <1>7, SlotsAre DEF FlushSlot, AdminType
  <2> QED
    BY <1>7, <2>1 DEF FlushSlot, AdminType, Agent, queueVars
<1>8. CASE UnlockList(f)
  BY <1>8 DEF UnlockList, AdminType, Agent, queueVars
<1>9. CASE FlushLeave(f)
  BY <1>9, AgentGoesTo DEF FlushLeave
<1> QED
  BY <1>1, <1>2, <1>3, <1>4, <1>5, <1>6, <1>7, <1>8, <1>9 DEF FlushStep

LEMMA CqLockedOK ==
  ASSUME AdminType, CqLocked,
         \/ \E c \in Cmds : SubSteps(c)
         \/ \E a \in Agents : CompleteStep(a)
         \/ \E f \in Flushers : FlushStep(f)
         \/ ControlSteps
  PROVE  CqLocked'
<1>1. CASE \E c \in Cmds : SubSteps(c)
  BY <1>1, SubmitFrame DEF CqLocked, lockVars
<1>2. ASSUME NEW f \in Flushers, FlushStep(f) PROVE CqLocked'
  BY <1>2, FlushPcs, FlushFrame DEF CqLocked, Agents, Flushers
<1>3. CASE ControlSteps
  <2>1. \A a \in Agents : agent'[a].pc = "cq" => agent[a].pc = "cq"
    BY <1>3, ControlFrame DEF Agents, Flushers
  <2> QED
    BY <1>3, <2>1, ControlFrame DEF CqLocked, Draining, Completing
<1>4. ASSUME NEW a \in Agents, CompleteStep(a) PROVE CqLocked'
  <2>0. \A b \in Agents \ {a} : agent'[b] = agent[b]
    BY <1>4, CompleteFrame
  <2> USE DEF CqLocked, Draining, Completing, Agents
  <2>1. CASE LockCq(a)
    BY <1>4, <2>0, <2>1, AgentGoesTo, NoneAssumption DEF LockCq, Agents
  <2>2. CASE UnlockCq(a)
    BY <1>4, <2>0, <2>2, AgentGoesTo DEF UnlockCq, Agents
  <2>3. CASE \E s \in Slots : TakeEntry(a, s) \/ SkipEntry(a, s)
    BY <1>4, <2>0, <2>3, TakeEntryGoesTo DEF TakeEntry, SkipEntry, lockVars
  <2>4. CASE ReadStatus(a)
    <3>1. agent[a].pc = "read" /\ agent'[a].pc \in {"free", "swap"} /\ cqLock' = cqLock
      BY <1>4, <2>4, ReadStatusGoesTo DEF ReadStatus, lockVars
    <3> QED
      BY <2>0, <3>1
  <2>5. CASE FreeAbandoned(a) \/ SwapDoneFails(a)
    BY <1>4, <2>0, <2>5, AgentGoesTo DEF FreeAbandoned, SwapDoneFails, lockVars
  <2>6. CASE UncountAbandoned(a) \/ SwapDone(a)
    BY <1>4, <2>0, <2>6, CompletionGoesTo DEF UncountAbandoned, SwapDone, lockVars
  <2> QED
    BY <1>4, <2>1, <2>2, <2>3, <2>4, <2>5, <2>6 DEF CompleteStep
<1> QED
  BY <1>1, <1>2, <1>3, <1>4

(* A submission that a suspended queue has not let in does not get in.     *)
LEMMA WorkStarts ==
  ASSUME AdminType, NEW c \in Cmds, SubSteps(c), sub'[c].pc \in Working
  PROVE  sub[c].pc \in Working \/ state = "ACTIVE"
<1> USE SubGoesTo, SubReturnsTo DEF Working, Preparing, Waiting
<1>1. CASE SubmitEnter(c) \/ SubmitRefused(c) \/ SubmitAllowed(c) \/ NoSlot(c)
  BY <1>1 DEF SubmitEnter, SubmitRefused, SubmitAllowed, NoSlot
<1>2. CASE GetSlot(c) \/ NextSlot(c) \/ CountSlot(c) \/ Prepare(c) \/ PrepareFails(c)
  BY <1>2 DEF GetSlot, NextSlot, CountSlot, Prepare, PrepareFails
<1>3. CASE Issue(c) \/ IssueRefused(c) \/ GiveBack(c) \/ Uncount(c) \/ Leave(c)
  BY <1>3 DEF Issue, IssueRefused, GiveBack, Uncount, Leave
<1>4. CASE WakeUp(c) \/ TimeOut(c) \/ Done(c) \/ NotDone(c) \/ GiveUp(c)
  BY <1>4 DEF WakeUp, TimeOut, Done, NotDone, GiveUp
<1>5. CASE SwapFails(c) \/ TimedOut(c) \/ PutFree(c) \/ PutDec(c)
  BY <1>5 DEF SwapFails, TimedOut, PutFree, PutDec
<1> QED
  BY <1>1, <1>2, <1>3, <1>4, <1>5 DEF SubSteps, SubmitStep

(* A command is not issued to a device that was removed.                   *)
LEMMA WaitStarts ==
  ASSUME AdminType, NEW c \in Cmds, SubSteps(c), sub'[c].pc \in Waiting \cup {"timedOut"}
  PROVE  sub[c].pc \in Waiting \cup {"timedOut"} \/ ~isRemoved
<1> USE SubGoesTo, SubReturnsTo DEF Waiting
<1>1. CASE SubmitEnter(c) \/ SubmitRefused(c) \/ NoSlot(c)
  BY <1>1 DEF SubmitEnter, SubmitRefused, NoSlot
<1>2. CASE GetSlot(c) \/ CountSlot(c) \/ Prepare(c) \/ PrepareFails(c)
  BY <1>2 DEF GetSlot, CountSlot, Prepare, PrepareFails
<1>3. CASE NextSlot(c) \/ SubmitAllowed(c)
  BY <1>3 DEF NextSlot, SubmitAllowed, AdminType, Submitter
<1>4. CASE Issue(c) \/ IssueRefused(c) \/ GiveBack(c) \/ Uncount(c) \/ Leave(c)
  BY <1>4 DEF Issue, MayIssue, IssueRefused, GiveBack, Uncount, Leave
<1>5. CASE WakeUp(c) \/ TimeOut(c) \/ Done(c) \/ NotDone(c) \/ GiveUp(c)
  BY <1>5 DEF WakeUp, TimeOut, Done, NotDone, GiveUp
<1>6. CASE SwapFails(c) \/ TimedOut(c) \/ PutFree(c) \/ PutDec(c)
  BY <1>6 DEF SwapFails, TimedOut, PutFree, PutDec
<1> QED
  BY <1>1, <1>2, <1>3, <1>4, <1>5, <1>6 DEF SubSteps, SubmitStep

LEMMA ResetAloneOK ==
  ASSUME AdminType, RefCounts, ResetAlone,
         \/ \E c \in Cmds : SubSteps(c)
         \/ \E a \in Agents : CompleteStep(a)
         \/ \E f \in Flushers : FlushStep(f)
         \/ ControlSteps
  PROVE  ResetAlone'
<1> USE DEF ResetAlone, Alone, Flushing, Draining, Completing
<1>1. ASSUME NEW c \in Cmds, SubSteps(c) PROVE ResetAlone'
  <2>1. agent' = agent /\ state' = state /\ \A d \in Cmds \ {c} : sub'[d] = sub[d]
    BY <1>1, SubmitFrame
  <2>2. sub'[c].pc \in Working => sub[c].pc \in Working \/ state = "ACTIVE"
    BY <1>1, WorkStarts
  <2> QED
    BY <2>1, <2>2
<1>2. ASSUME NEW a \in Agents, CompleteStep(a) PROVE ResetAlone'
  <2>1. sub' = sub /\ state' = state /\ \A b \in Agents \ {a} : agent'[b] = agent[b]
    BY <1>2, CompleteFrame DEF queueVars
  <2>2. CASE a = "reset"
    BY <1>2, <2>1, <2>2, CompletePcs
  <2>3. CASE a # "reset"
    BY <2>1, <2>3 DEF Agents, Flushers
  <2> QED
    BY <2>2, <2>3
<1>3. ASSUME NEW f \in Flushers, FlushStep(f) PROVE ResetAlone'
  <2>1. sub' = sub /\ \A b \in Agents \ {f} : agent'[b] = agent[b]
    BY <1>3, FlushFrame
  <2>2. refCount = 0 => \A c \in Cmds : sub[c].pc \notin Working
    BY NoReference DEF Inside
  <2>3. CASE f = "reset"
    BY <1>3, <2>1, <2>2, <2>3, FlushPcs
  <2>4. CASE f # "reset"
    <3>1. state' \in {state, "SUSPENDED"}
      BY <1>3, FlushPcs
    <3> QED
      BY <2>1, <2>4, <3>1 DEF Agents, Flushers
  <2> QED
    BY <2>3, <2>4
<1>4. CASE ControlSteps
  <2>1. sub' = sub
    BY <1>4, ControlFrame
  <2>2. CASE ResumeQueue
    BY <2>2, AgentGoesTo DEF ResumeQueue, Agents, Flushers
  <2>3. CASE InitQueue
    <3>1. state' = state /\ agent["reset"].pc = "init"
      BY <2>3 DEF InitQueue, queueVars
    <3> QED
      BY <2>1, <3>1
  <2>4. CASE ~ResumeQueue /\ ~InitQueue
    <3>1. state' = state
      BY <1>4, <2>4 DEF ControlSteps, Interrupt, ResetStart, EnableIntr, ForgetDevice,
        QuiesceStart, DeviceCompletes, queueVars
    <3> QED
      BY <1>4, <2>1, <2>4, <3>1, ControlFrame
  <2> QED
    BY <2>2, <2>3, <2>4
<1> QED
  BY <1>1, <1>2, <1>3, <1>4

LEMMA QuiesceAloneOK ==
  ASSUME AdminType, RefCounts, QuiesceAlone,
         \/ \E c \in Cmds : SubSteps(c)
         \/ \E a \in Agents : CompleteStep(a)
         \/ \E f \in Flushers : FlushStep(f)
         \/ ControlSteps
  PROVE  QuiesceAlone'
<1> USE DEF QuiesceAlone, Alone, Flushing, Draining, Completing
<1>1. ASSUME NEW c \in Cmds, SubSteps(c) PROVE QuiesceAlone'
  <2>1. agent' = agent /\ isRemoved' = isRemoved /\ \A d \in Cmds \ {c} : sub'[d] = sub[d]
    BY <1>1, SubmitFrame
  <2>2. sub'[c].pc \in Waiting \cup {"timedOut"} =>
          sub[c].pc \in Waiting \cup {"timedOut"} \/ ~isRemoved
    BY <1>1, WaitStarts
  <2> QED
    BY <2>1, <2>2
<1>2. ASSUME NEW a \in Agents, CompleteStep(a) PROVE QuiesceAlone'
  <2>1. sub' = sub /\ isRemoved' = isRemoved /\ \A b \in Agents \ {a} : agent'[b] = agent[b]
    BY <1>2, CompleteFrame DEF queueVars
  <2>2. CASE a = "quiesce"
    BY <1>2, <2>1, <2>2, CompletePcs
  <2>3. CASE a # "quiesce"
    BY <2>1, <2>3 DEF Agents, Flushers
  <2> QED
    BY <2>2, <2>3
<1>3. ASSUME NEW f \in Flushers, FlushStep(f) PROVE QuiesceAlone'
  <2>1. sub' = sub /\ isRemoved' = isRemoved /\ \A b \in Agents \ {f} : agent'[b] = agent[b]
    BY <1>3, FlushFrame
  <2>2. refCount = 0 => \A c \in Cmds : sub[c].pc \notin Waiting \cup {"timedOut"}
    BY NoReference DEF Inside, Working
  <2>3. CASE f = "quiesce"
    BY <1>3, <2>1, <2>2, <2>3, FlushPcs
  <2>4. CASE f # "quiesce"
    BY <2>1, <2>4 DEF Agents, Flushers
  <2> QED
    BY <2>3, <2>4
<1>4. CASE ControlSteps
  <2>1. sub' = sub
    BY <1>4, ControlFrame
  <2>2. isRemoved => isRemoved'
    BY <1>4 DEF ControlSteps, Interrupt, ResetStart, InitQueue, ResumeQueue, EnableIntr,
      ForgetDevice, QuiesceStart, DeviceCompletes, queueVars
  <2>3. QuiesceStart => isRemoved'
    BY DEF QuiesceStart, queueVars
  <2> QED
    BY <1>4, <2>1, <2>2, <2>3, ControlFrame
<1> QED
  BY <1>1, <1>2, <1>3, <1>4

(* Only a waiter leaves a command to its completer.                        *)
LEMMA OnlyGivenUp ==
  ASSUME AdminType,
         NEW s \in Slots, status'[s] = "FREE_ON_COMPLETE", status[s] # "FREE_ON_COMPLETE",
         \/ \E c \in Cmds : SubSteps(c)
         \/ \E a \in Agents : CompleteStep(a)
         \/ \E f \in Flushers : FlushStep(f)
         \/ ControlSteps
  PROVE  \E c \in Cmds : GiveUp(c) /\ sub[c].slot = s
<1> USE DEF AdminType
<1>1. ASSUME NEW c \in Cmds, SubSteps(c) PROVE GiveUp(c) /\ sub[c].slot = s
  BY <1>1 DEF SubSteps, SubmitStep, SubmitEnter, SubmitRefused, SubmitAllowed, GetSlot,
    NextSlot, NoSlot, CountSlot, Prepare, PrepareFails, Issue, IssueRefused, GiveBack,
    Uncount, Leave, WakeUp, TimeOut, Done, NotDone, GiveUp, SwapFails, TimedOut, PutFree,
    PutDec, slotVars
<1>2. ASSUME NEW a \in Agents, CompleteStep(a) PROVE FALSE
  BY <1>2 DEF CompleteStep, LockCq, TakeEntry, SkipEntry, UnlockCq, ReadStatus,
    FreeAbandoned, UncountAbandoned, SwapDone, SwapDoneFails, slotVars
<1>3. ASSUME NEW f \in Flushers, FlushStep(f) PROVE FALSE
  BY <1>3, FlushFrame DEF slotVars
<1>4. ASSUME ControlSteps PROVE FALSE
  BY <1>4 DEF ControlSteps, Interrupt, ResetStart, InitQueue, ResumeQueue, EnableIntr,
    ForgetDevice, QuiesceStart, DeviceCompletes, slotVars
<1> QED
  BY <1>1, <1>2, <1>3, <1>4

LEMMA LoopClearsOK ==
  ASSUME AdminType, AdminType', CqLocked, QuiesceAlone, LoopClears,
         \/ \E c \in Cmds : SubSteps(c)
         \/ \E a \in Agents : CompleteStep(a)
         \/ \E f \in Flushers : FlushStep(f)
         \/ ControlSteps
  PROVE  LoopClears'
<1> DEFINE q == agent["quiesce"]
<1>0. /\ \A s \in Slots : status[s] # "FREE_ON_COMPLETE" =>
           status'[s] # "FREE_ON_COMPLETE" \/ q.pc \notin Alone \cup {"done"}
      /\ q.pc \in Completing \cup {"uncount"} => q.slot \in Slots
  <2>1. \A c \in Cmds : GiveUp(c) => q.pc \notin Alone \cup {"done"}
    BY DEF GiveUp, QuiesceAlone, Waiting
  <2> QED
    BY <2>1, OnlyGivenUp DEF AdminType, Agents, Flushers
<1> USE DEF LoopClears, Looping, Alone, Flushing, Draining, Completing
<1>1. ASSUME agent'["quiesce"] = agent["quiesce"], Looping' => Looping
      PROVE  LoopClears'
  BY <1>0, <1>1, SlotsAre
<1>2. CASE \E c \in Cmds : SubSteps(c)
  BY <1>1, <1>2, SubmitFrame DEF lockVars
<1>3. ASSUME NEW f \in Flushers, FlushStep(f) PROVE LoopClears'
  <2>1. /\ cqLock' = cqLock /\ status' = status
        /\ \A b \in Agents \ {f} : agent'[b] = agent[b]
    BY <1>3, FlushFrame DEF slotVars
  <2>2. CASE f # "quiesce"
    BY <1>1, <2>1, <2>2 DEF Agents, Flushers
  <2>3. CASE f = "quiesce"
    <3>1. \A s \in Slots : s \in Int /\ s >= 1 /\ s <= NumSlots
      BY NumSlotsAssumption DEF Slots
    <3>2. status[q.slot] \notin Outstanding => status[q.slot] # "FREE_ON_COMPLETE"
      BY DEF Outstanding
    <3>3. q.pc = "loop" => q.slot \in Int
      BY SlotsAre DEF AdminType, Agents, Flushers
    <3>4. CASE agent'["quiesce"].pc = "loop"
      <4>1. q.pc = "loop" => \A s \in Slots : s < q.slot + 1 => s < q.slot \/ s = q.slot
        BY <3>1, <3>3
      <4>2. \/ agent'["quiesce"].slot = 1
            \/ /\ agent'["quiesce"].slot = q.slot + 1 /\ q.pc = "loop"
               /\ status[q.slot] \notin Outstanding
        BY <1>3, <2>3, <3>4, FlushPcs
      <4> QED
        BY <2>1, <3>1, <3>2, <3>4, <4>1, <4>2
    <3>5. CASE agent'["quiesce"].pc = "leave"
      <4>1. q.pc = "loop" /\ q.slot > NumSlots
        BY <1>3, <2>3, <3>5, FlushPcs
      <4>2. \A s \in Slots : s < q.slot
        BY <3>1, <3>3, <4>1, NumSlotsAssumption
      <4> QED
        BY <2>1, <3>5, <4>1, <4>2
    <3>6. CASE agent'["quiesce"].pc \notin {"loop", "leave"}
      BY <1>3, <2>1, <2>3, <3>6, FlushPcs
    <3> QED
      BY <3>4, <3>5, <3>6
  <2> QED
    BY <2>2, <2>3
<1>4. CASE ControlSteps
  BY <1>0, <1>4, ControlFrame, SlotsAre DEF Agents, Flushers
<1>5. ASSUME NEW a \in Agents, CompleteStep(a) PROVE LoopClears'
  <2>1. \A b \in Agents \ {a} : agent'[b] = agent[b]
    BY <1>5, CompleteFrame
  <2>2. CASE a # "quiesce"
    <3>1. Looping' => Looping
      <4>1. CASE LockCq(a)
        BY <2>1, <2>2, <4>1, NoneAssumption DEF LockCq, Agents, Flushers
      <4>2. CASE UnlockCq(a)
        BY <2>1, <2>2, <4>2 DEF UnlockCq, CqLocked, Agents, Flushers
      <4>3. CASE ~LockCq(a) /\ ~UnlockCq(a)
        BY <1>5, <2>1, <2>2, <4>3 DEF CompleteStep, TakeEntry, SkipEntry, ReadStatus,
          FreeAbandoned, UncountAbandoned, SwapDone, SwapDoneFails, lockVars, Agents, Flushers
      <4> QED
        BY <4>1, <4>2, <4>3
    <3> QED
      BY <1>1, <2>1, <2>2, <3>1 DEF Agents, Flushers
  <2>3. CASE a = "quiesce"
    <3>1. CASE LockCq(a) \/ UnlockCq(a)
      BY <2>3, <3>1, AgentGoesTo DEF LockCq, UnlockCq, Agents, Flushers
    <3>2. CASE \E s \in Slots : TakeEntry(a, s)
      BY <2>3, <3>2, TakeEntryGoesTo DEF TakeEntry, CqLocked, lockVars, Agents, Flushers
    <3>3. CASE \E s \in Slots : SkipEntry(a, s)
      BY <2>3, <3>3 DEF SkipEntry, CqLocked, lockVars, slotVars
    <3>4. CASE ReadStatus(a) \/ SwapDoneFails(a)
      <4>1. /\ agent'[a].pc \in Completing /\ agent'[a].slot = agent[a].slot
            /\ cqLock' = cqLock /\ status' = status /\ q.pc \in Completing
        <5>1. CASE ReadStatus(a)
          BY <2>3, <5>1, ReadStatusGoesTo DEF ReadStatus, lockVars, slotVars
        <5>2. CASE SwapDoneFails(a)
          BY <2>3, <5>2, AgentGoesTo DEF SwapDoneFails, lockVars, slotVars
        <5> QED
          BY <3>4, <5>1, <5>2
      <4> QED
        BY <2>3, <4>1
    <3>5. CASE FreeAbandoned(a)
      <4>1. /\ agent'[a].pc = "uncount" /\ agent'[a].slot = agent[a].slot
            /\ cqLock' = cqLock /\ status'[agent[a].slot] # "FREE_ON_COMPLETE"
            /\ q.pc \in Completing
        BY <1>0, <2>3, <3>5, AgentGoesTo DEF FreeAbandoned, lockVars, AdminType
      <4>2. \A s \in Slots : status[s] # "FREE_ON_COMPLETE" => status'[s] # "FREE_ON_COMPLETE"
        BY <1>0, <4>1
      <4> QED
        BY <2>3, <4>1, <4>2
    <3>6. CASE UncountAbandoned(a) \/ SwapDone(a)
      <4>1. /\ cqLock' = cqLock /\ q.pc \in {"uncount", "swap"}
            /\ status'[q.slot] # "FREE_ON_COMPLETE"
        BY <1>0, <2>3, <3>6 DEF UncountAbandoned, SwapDone, lockVars, AdminType
      <4>2. IF cqLock = a THEN agent'[a].pc = "cq"
            ELSE agent'[a].pc = "loop" /\ agent'[a].slot = agent[a].slot + 1
        BY <3>6, CompletionGoesTo DEF UncountAbandoned, SwapDone
      <4>3. \A s \in Slots : s < q.slot + 1 => s < q.slot \/ s = q.slot
        <5>1. q.slot \in Int /\ \A s \in Slots : s \in Int
          BY <1>0, <4>1, SlotsAre
        <5> QED
          BY <5>1
      <4>4. \A s \in Slots : status[s] # "FREE_ON_COMPLETE" => status'[s] # "FREE_ON_COMPLETE"
        BY <1>0, <4>1
      <4>5. CASE cqLock = a
        BY <2>3, <4>1, <4>2, <4>5
      <4>6. CASE cqLock # a
        <5>1. \A s \in Slots : s < q.slot => status[s] # "FREE_ON_COMPLETE"
          BY <2>3, <4>1, <4>6
        <5>2. \A s \in Slots : s < q.slot + 1 => status'[s] # "FREE_ON_COMPLETE"
          BY <4>1, <4>3, <4>4, <5>1
        <5> QED
          BY <2>3, <4>2, <4>6, <5>2
      <4> QED
        BY <4>5, <4>6
    <3> QED
      BY <1>5, <3>1, <3>2, <3>3, <3>4, <3>5, <3>6 DEF CompleteStep
  <2> QED
    BY <2>2, <2>3
<1> QED
  BY <1>2, <1>3, <1>4, <1>5

LEMMA RefInvInit == ASSUME Init PROVE RefInv
<1> USE DEF Init
<1>1. AdminType
  <2>1. \A c \in Cmds : sub[c] \in Submitter
    BY DEF Submitter, SubPcs
  <2>2. \A a \in Agents : agent[a] \in Agent
    BY DEF Agent, AgentPcs, QuiescePcs
  <2>3. sub \in [Cmds -> Submitter] /\ agent \in [Agents -> Agent]
    BY <2>1, <2>2
  <2>4. \A c \in Cmds : sub[c].pc \notin SlotPcs
    BY DEF SlotPcs, Preparing, Waiting
  <2>5. \A a \in Agents : agent[a].pc = "idle"
    OBVIOUS
  <2>6. /\ status \in [Slots -> Statuses] /\ vmkCmd \in [Slots -> Cmds \cup {None}]
        /\ held \in [Cmds -> Int] /\ nrAct \in Int /\ refCount \in Int /\ resets \in Nat
    BY DEF Statuses
  <2> QED
    BY <2>3, <2>4, <2>5, <2>6 DEF AdminType, Completing, IntrPcs, QuiescePcs, ResetPcs,
      Agents, Flushers
<1>2. CmdRefs = {} /\ AgentRefs = {}
  BY DEF CmdRefs, AgentRefs, Inside, Working, Preparing, Waiting, AgentInside, Flushing,
    Draining, Completing, Agents
<1>3. RefCounts
  BY <1>2, FS_EmptySet DEF RefCounts
<1> QED
  BY <1>1, <1>3 DEF RefInv, CqLocked, ResetAlone, QuiesceAlone, LoopClears, Looping, Alone,
    Flushing, Draining, Completing, Agents, Flushers

LEMMA NextIs ==
  ASSUME Next
  PROVE  \/ \E c \in Cmds : SubSteps(c)
         \/ \E a \in Agents : CompleteStep(a)
         \/ \E f \in Flushers : FlushStep(f)
         \/ ControlSteps
BY DEF Next, SubSteps, ControlSteps

LEMMA RefInvNext == ASSUME RefInv, [Next]_vars PROVE RefInv'
<1>1. CASE Next
  <2>1. AdminType'
    BY <1>1, NextIs, SubmitType, CompleteType, FlushType, ControlType DEF RefInv
  <2>2. RefCounts'
    BY <1>1, NextIs, SubmitRefs, FlushRefs, OtherRefs DEF RefInv
  <2>3. CqLocked' /\ ResetAlone' /\ QuiesceAlone'
    BY <1>1, NextIs, CqLockedOK, ResetAloneOK, QuiesceAloneOK DEF RefInv
  <2>4. LoopClears'
    BY <1>1, <2>1, NextIs, LoopClearsOK DEF RefInv
  <2> QED
    BY <2>1, <2>2, <2>3, <2>4 DEF RefInv
<1>2. CASE UNCHANGED vars
  <2>1. AdminType' /\ CqLocked' /\ RefCounts'
    BY <1>2 DEF RefInv, vars, queueVars, slotVars, hwVars, lockVars, AdminType, CqLocked,
      RefCounts, CmdRefs, AgentRefs
  <2>2. ResetAlone' /\ QuiesceAlone' /\ LoopClears'
    BY <1>2 DEF RefInv, vars, queueVars, slotVars, hwVars, lockVars, ResetAlone,
      QuiesceAlone, LoopClears, Looping
  <2> QED
    BY <2>1, <2>2 DEF RefInv
<1> QED
  BY <1>1, <1>2

(* refCount counts the submissions and the flushers inside the queue, and  *)
(* what follows for those who wait for it: for any number of resets, also  *)
(* with a removal at the same time.                                        *)
THEOREM RefInvHolds == Spec => []RefInv
<1>1. Init => RefInv
  BY RefInvInit
<1>2. RefInv /\ [Next]_vars => RefInv'
  BY RefInvNext
<1> QED
  BY <1>1, <1>2, PTL DEF Spec

(* From the wait for the reference count until the queue is resumed, a     *)
(* reset is alone with the commands that are complete or abandoned         *)
(* (NVMEPCIEFlushQueue and NVMEPCIEInitQueue).                             *)
THEOREM FlushExcludesSubmissionHolds == Spec => []FlushExcludesSubmission
<1>1. RefInv => FlushExcludesSubmission
  BY DEF RefInv, ResetAlone, FlushExcludesSubmission, Alone, Flushing, Draining, Completing,
    Working, Preparing, Waiting
<1> QED
  BY <1>1, RefInvHolds, PTL

(* Once QuiesceDevice has returned, nobody waits for the device and no     *)
(* slot waits for a completion, whatever the resets that overlapped it.    *)
THEOREM QuiescedIdleHolds == Spec => []QuiescedIdle
<1>1. RefInv => QuiescedIdle
  BY DEF RefInv, QuiesceAlone, LoopClears, QuiescedIdle, Waiting
<1> QED
  BY <1>1, RefInvHolds, PTL

-----------------------------------------------------------------------------
(* The phases of a removal.                                                *)

LEMMA OnlyQuiesce ==
  ASSUME RefInv, Removal
  PROVE  /\ \A a \in Agents : CompleteStep(a) => a \in {"intr", "quiesce"}
         /\ \A f \in Flushers : FlushStep(f) => f = "quiesce"
         /\ CompleteStep("intr") => ~Looping /\ agent["quiesce"].pc \notin Alone \cup {"done"}
<1>1. agent["reset"].pc = "idle"
  BY DEF Removal
<1>2. ~CompleteStep("reset")
  BY <1>1, CompletePcs DEF RefInv, Agents, Flushers, Draining, Completing
<1>3. ~FlushStep("reset")
  BY <1>1, FlushPcs DEF RefInv, Flushers
<1>4. CompleteStep("intr") => agent["intr"].pc # "idle"
  BY CompletePcs DEF RefInv, Agents, Draining, Completing
<1> QED
  BY <1>2, <1>3, <1>4 DEF Removal, Agents, Flushers, Looping, Alone, Flushing, Draining,
    Completing

(* With MaxResets = 0 there is no step of a reset.                         *)
LEMMA NoReset ==
  ASSUME RefInv, Removal, MaxResets = 0, ControlSteps
  PROVE  Interrupt \/ ForgetDevice \/ QuiesceStart \/ \E s \in Slots : DeviceCompletes(s)
BY DEF ControlSteps, Removal, ResetStart, InitQueue, ResumeQueue, EnableIntr

LEMMA RemovalSubmit ==
  ASSUME RefInv, Removal, NEW c \in Cmds, SubSteps(c)
  PROVE  Removal'
<1>1. /\ UNCHANGED <<state, isIntrEnabled, isRemoved, posted, cqLock, agent, resets>>
      /\ \A d \in Cmds \ {c} : sub'[d] = sub[d]
  BY SubmitFrame DEF RefInv, lockVars
<1>2. isRemoved => executing' = executing
  BY DEF SubSteps, SubmitStep, SubmitEnter, SubmitRefused, SubmitAllowed, GetSlot, NextSlot,
    NoSlot, CountSlot, Prepare, PrepareFails, Issue, MayIssue, IssueRefused, GiveBack,
    Uncount, Leave, WakeUp, TimeOut, Done, NotDone, GiveUp, SwapFails, TimedOut, PutFree,
    PutDec, hwVars
<1>3. sub'[c].pc \in Working => sub[c].pc \in Working \/ state = "ACTIVE"
  BY WorkStarts DEF RefInv
<1>4. agent["quiesce"].pc \in Alone \cup {"done"} => state # "ACTIVE"
  BY DEF Removal, Alone, Flushing, Draining, Completing
<1> QED
  BY <1>1, <1>2, <1>3, <1>4 DEF Removal, Looping

LEMMA RemovalFlush ==
  ASSUME RefInv, Removal, NEW f \in Flushers, FlushStep(f)
  PROVE  Removal'
<1>1. f = "quiesce"
  BY OnlyQuiesce
<1>2. /\ UNCHANGED <<isRemoved, executing, posted, cqLock, sub, resets>>
      /\ agent'["reset"] = agent["reset"] /\ agent'["intr"] = agent["intr"]
  BY <1>1, FlushFrame DEF RefInv, hwVars, Agents, Flushers
<1>3. isIntrEnabled' \in {isIntrEnabled, FALSE}
  BY DEF FlushStep, Suspend, DisableIntr, SyncIntr, AwaitNoSubmission, FlushEnter, LockList,
    FlushSlot, UnlockList, FlushLeave, queueVars
<1>4. refCount = 0 => \A c \in Cmds : sub[c].pc \notin Working
  BY NoReference DEF RefInv, Inside
<1> USE DEF Removal, Looping, Alone, Flushing, Draining, Completing
<1>5. Looping' => Looping \/ agent["quiesce"].pc = "lockList"
  BY <1>1, <1>2, FlushPcs DEF RefInv
<1> DEFINE pc == agent["quiesce"].pc
<1>6. state' = IF pc' \in {"idle", "suspend"} THEN "ACTIVE" ELSE "SUSPENDED"
  BY <1>1, FlushPcs DEF RefInv
<1>7. pc' \notin {"idle", "suspend", "disable"} => ~isIntrEnabled'
  BY <1>1, <1>3, FlushPcs DEF RefInv
<1>8. pc' \notin {"idle", "suspend", "disable", "sync"} => agent["intr"].pc = "idle"
  BY <1>1, FlushPcs DEF RefInv
<1>9. pc' \in Alone \cup {"done"} => \A c \in Cmds : sub[c].pc \notin Working
  BY <1>1, <1>4, FlushPcs DEF RefInv
<1>10. Looping' \/ pc' \in {"lockList", "leave", "done"} => posted = {}
  BY <1>1, <1>5, FlushPcs DEF RefInv
<1> QED
  BY <1>2, <1>6, <1>7, <1>8, <1>9, <1>10

LEMMA RemovalComplete ==
  ASSUME RefInv, Removal, NEW a \in Agents, CompleteStep(a)
  PROVE  Removal'
<1>1. /\ UNCHANGED <<state, isIntrEnabled, isRemoved, executing, sub, resets>>
      /\ \A b \in Agents \ {a} : agent'[b] = agent[b]
  BY CompleteFrame DEF RefInv, queueVars
<1>2. posted = {} => posted' = {}
  BY DEF CompleteStep, LockCq, TakeEntry, SkipEntry, UnlockCq, ReadStatus, FreeAbandoned,
    UncountAbandoned, SwapDone, SwapDoneFails, hwVars
<1>3. CASE a = "intr"
  <2>1. agent["quiesce"].pc \in {"idle", "suspend", "disable", "sync"}
    BY <1>3, CompletePcs DEF RefInv, Removal, Draining, Completing
  <2> QED
    BY <1>1, <1>3, <2>1 DEF Removal, Looping, Alone, Flushing, Draining, Completing, Agents,
      Flushers
<1>4. CASE a = "quiesce"
  <2>1. agent["quiesce"].pc \in Draining \cup {"lockCq"} /\ agent'["quiesce"].pc \in Flushing
    BY <1>4, CompletePcs DEF RefInv
  <2>2. (Looping' \/ agent'["quiesce"].pc \in {"lockList", "leave", "done"}) => posted' = {}
    <3> USE DEF Looping, Draining, Completing
    <3>1. CASE UnlockCq(a)
      BY <1>2, <3>1 DEF UnlockCq
    <3>2. CASE LockCq(a)
      BY <1>4, <3>2, AgentGoesTo DEF RefInv, LockCq
    <3>3. CASE \E s \in Slots : TakeEntry(a, s)
      BY <1>4, <3>3, TakeEntryGoesTo DEF RefInv, TakeEntry, CqLocked, lockVars
    <3>4. CASE \E s \in Slots : SkipEntry(a, s)
      BY <1>4, <3>4 DEF SkipEntry
    <3>5. CASE ReadStatus(a) \/ FreeAbandoned(a) \/ SwapDoneFails(a)
      <4>1. cqLock' = cqLock /\ agent[a].pc \in Completing
            /\ agent'[a].pc \in Completing \cup {"uncount"}
        BY <3>5, ReadStatusGoesTo, AgentGoesTo DEF RefInv, ReadStatus, FreeAbandoned,
          SwapDoneFails, lockVars
      <4> QED
        BY <1>2, <1>4, <4>1 DEF Removal
    <3>6. CASE UncountAbandoned(a) \/ SwapDone(a)
      <4>1. /\ cqLock' = cqLock /\ agent[a].pc \in Completing \cup {"uncount"}
            /\ IF cqLock = a THEN agent'[a].pc = "cq" ELSE agent'[a].pc = "loop"
        BY <3>6, CompletionGoesTo DEF RefInv, UncountAbandoned, SwapDone, lockVars
      <4> QED
        BY <1>2, <1>4, <4>1 DEF Removal
    <3> QED
      BY <3>1, <3>2, <3>3, <3>4, <3>5, <3>6 DEF CompleteStep
  <2> QED
    BY <1>1, <1>4, <2>1, <2>2 DEF Removal, Alone, Flushing, Draining, Completing, Agents,
      Flushers
<1> QED
  BY <1>3, <1>4, OnlyQuiesce

LEMMA RemovalControl ==
  ASSUME RefInv, Removal, MaxResets = 0, ControlSteps
  PROVE  Removal'
<1>1. sub' = sub /\ cqLock' = cqLock
  BY ControlFrame DEF RefInv
<1>2. agent["quiesce"].pc # "idle" => isRemoved
  BY DEF RefInv, QuiesceAlone
<1> USE DEF Removal, Looping, Alone, Flushing, Draining, Completing
<1>3. CASE Interrupt
  <2>1. /\ agent'["reset"] = agent["reset"] /\ agent'["quiesce"] = agent["quiesce"]
        /\ agent["quiesce"].pc \in {"idle", "suspend", "disable"}
        /\ UNCHANGED <<state, isIntrEnabled, isRemoved, posted, executing, resets>>
    BY <1>3 DEF Interrupt, AgentGoes, Agents, Flushers, RefInv, AdminType, queueVars, hwVars
  <2> QED
    BY <1>1, <2>1
<1>4. CASE ForgetDevice
  BY <1>1, <1>4 DEF ForgetDevice
<1>5. CASE QuiesceStart
  <2>1. /\ agent'["reset"] = agent["reset"] /\ agent'["intr"] = agent["intr"]
        /\ agent["quiesce"].pc = "idle" /\ agent'["quiesce"].pc = "suspend"
        /\ UNCHANGED <<state, isIntrEnabled, isRemoved, posted, executing, resets>>
    BY <1>5 DEF QuiesceStart, AgentGoes, Agents, Flushers, RefInv, AdminType, Agent, queueVars,
      hwVars
  <2> QED
    BY <1>1, <2>1
<1>6. CASE \E s \in Slots : DeviceCompletes(s)
  <2>1. executing # {} /\ executing' \subseteq executing /\ agent' = agent
        /\ UNCHANGED <<state, isIntrEnabled, isRemoved, resets>>
    BY <1>6 DEF DeviceCompletes, queueVars
  <2>2. agent["quiesce"].pc = "idle"
    BY <1>2, <2>1
  <2> QED
    BY <1>1, <2>1, <2>2
<1> QED
  BY <1>3, <1>4, <1>5, <1>6, NoReset

-----------------------------------------------------------------------------
(* A step of a submission disturbs what is known of its own slot only.     *)

LEMMA OwnersSlot ==
  ASSUME AdminType, OwnersKnow, NEW c \in Cmds, OwnsSlot(c)
  PROVE  sub[c].slot \in Slots /\ status[sub[c].slot] # "FREE"
BY DEF AdminType, OwnersKnow, Knows, OwnsSlot, SlotPcs, Preparing, Waiting, Statuses

LEMMA SubmitCore ==
  ASSUME RefInv, Core, NEW c \in Cmds,
         \A d \in Cmds \ {c} : sub'[d] = sub[d] /\ held'[d] = held[d],
         UNCHANGED <<agent, posted, isRemoved>>,
         NEW s, s = sub[c].slot,
         OwnsSlot(c)' => sub'[c].slot = s,
         \A t \in Slots \ {s} : /\ status'[t] = status[t] /\ vmkCmd'[t] = vmkCmd[t]
                                /\ t \in executing' <=> t \in executing,
         \/ UNCHANGED <<status, vmkCmd, executing>> /\ ~OwnsSlot(c)'
         \/ \A d \in Cmds \ {c} : OwnsSlot(d) => sub[d].slot # s,
         executing' \subseteq Slots,
         s \in executing' => s \in executing \/ ~InFlight(s),
         InFlight(s)' => status'[s] \in Outstanding,
         status'[s] = "FREE_ON_COMPLETE" <=> status[s] = "FREE_ON_COMPLETE" \/ Abandoned(c)',
         Abandoned(c) => Abandoned(c)',
         Knows(c)', Holds(c)', ~isRemoved => IsOwed(c)'
  PROVE  Core'
<1>0. AdminType
  BY DEF RefInv
<1>1. ASSUME NEW d \in Cmds \ {c}
      PROVE  /\ Abandoned(d)' <=> Abandoned(d)
             /\ OwnsSlot(d)' <=> OwnsSlot(d)
             /\ OwnsSlot(d) /\ OwnsSlot(c)' => sub[d].slot # s
  BY <1>1 DEF Abandoned, OwnsSlot
<1>2. SlotServesOne'
  BY <1>1 DEF Core, SlotServesOne
<1>3. ASSUME NEW d \in Cmds \ {c}, OwnsSlot(d)
      PROVE  LET t == sub[d].slot
             IN /\ status'[t] = status[t] /\ vmkCmd'[t] = vmkCmd[t]
                /\ InFlight(t)' <=> InFlight(t)
  <2>1. sub[d].slot \in Slots
    BY <1>0, <1>3, OwnersSlot DEF Core
  <2> QED
    BY <1>3, <2>1 DEF InFlight, Completes
<1>4. ASSUME NEW d \in Cmds \ {c} PROVE Knows(d)' /\ (~isRemoved => IsOwed(d)') /\ Holds(d)'
  <2>1. Knows(d) /\ (~isRemoved => IsOwed(d)) /\ Holds(d)
    BY DEF Core, OwnersKnow, Owed, HeldInv
  <2>2. Holds(d)'
    BY <2>1, <1>4 DEF Holds
  <2>3. CASE OwnsSlot(d)
    BY <1>1, <1>3, <1>4, <2>1, <2>2, <2>3 DEF Knows, IsOwed, HeldPcs
  <2>4. CASE ~OwnsSlot(d)
    BY <1>1, <1>4, <2>1, <2>2, <2>4 DEF Knows, IsOwed, OwnsSlot, Preparing, Waiting, HeldPcs
  <2> QED
    BY <2>3, <2>4
<1>5. OwnersKnow' /\ Owed' /\ HeldInv'
  BY <1>4 DEF OwnersKnow, Owed, HeldInv
<1>6. AbandonedOwned'
  <2> SUFFICES ASSUME NEW t \in Slots, status'[t] = "FREE_ON_COMPLETE"
               PROVE  \E d \in Cmds : Abandoned(d)' /\ sub'[d].slot = t
    BY DEF AbandonedOwned
  <2>1. CASE status[t] = "FREE_ON_COMPLETE"
    <3>1. PICK d \in Cmds : Abandoned(d) /\ sub[d].slot = t
      BY <2>1 DEF Core, AbandonedOwned
    <3>2. Abandoned(d)' /\ sub'[d].slot = t
      BY <1>1, <3>1 DEF OwnsSlot
    <3> QED
      BY <3>2
  <2>2. CASE status[t] # "FREE_ON_COMPLETE"
    <3>1. t = s /\ Abandoned(c)'
      BY <2>2
    <3>2. sub'[c].slot = s
      BY <3>1 DEF OwnsSlot
    <3> QED
      BY <3>1, <3>2
  <2> QED
    BY <2>1, <2>2
<1>7. FlightInv'
  <2>1. FlightInv
    BY DEF Core
  <2>2. \A t \in Slots \ {s} : InFlight(t)' <=> InFlight(t)
    BY DEF InFlight, Completes
  <2>3. \A t \in Slots : InFlight(t)' => status'[t] \in Outstanding
    BY <2>1, <2>2 DEF FlightInv
  <2>4. executing' \cap posted' = {}
    BY <2>1 DEF FlightInv, InFlight
  <2>5. ASSUME NEW a \in Agents
        PROVE  /\ agent[a].pc \in Completing => agent[a].slot \notin executing' \cup posted'
               /\ agent[a].pc = "free" => status'[agent[a].slot] = "FREE_ON_COMPLETE"
    <3>1. agent[a].pc \in Completing => agent[a].slot \in Slots
      BY <1>0 DEF AdminType
    <3>2. "free" \in Completing
      BY DEF Completing
    <3> QED
      BY <2>1, <3>1, <3>2 DEF FlightInv, InFlight, Completes
  <2> QED
    BY <2>1, <2>3, <2>4, <2>5 DEF FlightInv
<1> QED
  BY <1>2, <1>5, <1>6, <1>7 DEF Core

(* A step that changes nothing but where the submission is.                *)
LEMMA QuietCore ==
  ASSUME RefInv, Core, NEW c \in Cmds, SubSteps(c),
         UNCHANGED <<status, vmkCmd, executing, held>>,
         OwnsSlot(c)' => OwnsSlot(c) /\ sub'[c].slot = sub[c].slot,
         Abandoned(c)' <=> Abandoned(c),
         Knows(c)', Holds(c)', ~isRemoved => IsOwed(c)'
  PROVE  Core'
<1> SUFFICES ASSUME NEW s, s = sub[c].slot PROVE Core'
  OBVIOUS
<1>0. AdminType
  BY DEF RefInv
<1>1. /\ UNCHANGED <<agent, posted, isRemoved>>
      /\ \A d \in Cmds \ {c} : sub'[d] = sub[d] /\ held'[d] = held[d]
  BY <1>0, SubmitFrame
<1>2. s \in Slots \cup {0} /\ executing' \subseteq Slots
  BY <1>0 DEF AdminType, Submitter
<1>3. OwnsSlot(c)' => \A d \in Cmds \ {c} : OwnsSlot(d) => sub[d].slot # s
  BY DEF Core, SlotServesOne
<1>4. InFlight(s)' => status'[s] \in Outstanding
  <2>1. /\ executing \subseteq Slots /\ posted \subseteq Slots
        /\ \A a \in Agents : agent[a].pc \in Completing => agent[a].slot \in Slots
    BY <1>0 DEF AdminType
  <2> QED
    BY <1>1, <2>1 DEF Core, FlightInv, InFlight, Completes
<1>5. Abandoned(c)' => status[s] = "FREE_ON_COMPLETE"
  BY DEF Core, OwnersKnow, Knows
<1>6. Abandoned(c)' => OwnsSlot(c)'
  BY DEF OwnsSlot
<1>7. status'[s] = "FREE_ON_COMPLETE" <=> status[s] = "FREE_ON_COMPLETE" \/ Abandoned(c)'
  BY <1>5
<1>8. OwnsSlot(c)' => sub'[c].slot = s
  OBVIOUS
<1>9. Abandoned(c) => Abandoned(c)'
  OBVIOUS
<1>10. /\ \A t \in Slots \ {s} : /\ status'[t] = status[t] /\ vmkCmd'[t] = vmkCmd[t]
                                 /\ t \in executing' <=> t \in executing
       /\ s \in executing' => s \in executing \/ ~InFlight(s)
  OBVIOUS
<1>11. \/ UNCHANGED <<status, vmkCmd, executing>> /\ ~OwnsSlot(c)'
       \/ \A d \in Cmds \ {c} : OwnsSlot(d) => sub[d].slot # s
  BY <1>3
<1> QED
  BY <1>1, <1>2, <1>4, <1>7, <1>8, <1>9, <1>10, <1>11, SubmitCore

LEMMA QuietSteps ==
  ASSUME RefInv, Core, NEW c \in Cmds,
         \/ SubmitEnter(c) \/ SubmitRefused(c) \/ SubmitAllowed(c) \/ NextSlot(c) \/ NoSlot(c)
         \/ CountSlot(c) \/ PrepareFails(c) \/ Uncount(c) \/ Leave(c) \/ WakeUp(c)
         \/ TimeOut(c) \/ Done(c) \/ NotDone(c) \/ SwapFails(c) \/ TimedOut(c) \/ PutDec(c)
  PROVE  Core'
<1>0. /\ AdminType /\ SubSteps(c)
      /\ Knows(c) /\ Holds(c) /\ (~isRemoved => IsOwed(c))
  BY DEF RefInv, Core, OwnersKnow, HeldInv, Owed, SubSteps, SubmitStep
<1>1. UNCHANGED <<status, vmkCmd, executing, held, posted, agent>>
  BY <1>0, SubmitFrame DEF SubmitEnter, SubmitRefused, SubmitAllowed, NextSlot, NoSlot,
    CountSlot, PrepareFails, Uncount, Leave, WakeUp, TimeOut, Done, NotDone, SwapFails,
    TimedOut, PutDec, slotVars, hwVars
<1>2. \A s : InFlight(s)' <=> InFlight(s)
  BY <1>1 DEF InFlight, Completes
<1> DEFINE Goal == /\ OwnsSlot(c)' => OwnsSlot(c) /\ sub'[c].slot = sub[c].slot
                   /\ Abandoned(c)' <=> Abandoned(c)
                   /\ Knows(c)' /\ Holds(c)' /\ (~isRemoved => IsOwed(c)')
<1> USE SubGoesTo, SubReturnsTo, NoneAssumption DEF Preparing, Waiting, HeldPcs
<1>3. CASE SubmitEnter(c) \/ SubmitRefused(c) \/ NoSlot(c)
  <2>1. /\ sub[c].pc \in {"idle", "entered", "scan"} /\ sub'[c].pc \in {"entered", "leave"}
        /\ sub'[c].slot = sub[c].slot /\ sub'[c].result = sub[c].result
    BY <1>0, <1>3 DEF SubmitEnter, SubmitRefused, NoSlot
  <2>2. Goal
    BY <1>0, <1>1, <1>2, <2>1 DEF OwnsSlot, Abandoned, Knows, Holds, IsOwed
  <2> QED
    BY <1>0, <1>1, <2>2, QuietCore
<1>4. CASE SubmitAllowed(c) \/ NextSlot(c)
  <2>1. /\ sub[c].pc \in {"entered", "scan"} /\ sub'[c].pc = "scan"
        /\ sub'[c].result = sub[c].result
    BY <1>0, <1>4 DEF SubmitAllowed, NextSlot, AdminType, Submitter
  <2>2. Goal
    BY <1>0, <1>1, <1>2, <2>1 DEF OwnsSlot, Abandoned, Knows, Holds, IsOwed
  <2> QED
    BY <1>0, <1>1, <2>2, QuietCore
<1>5. CASE CountSlot(c) \/ PrepareFails(c)
  <2>1. /\ sub[c].pc \in {"count", "prepare"} /\ sub'[c].pc \in {"prepare", "giveBack"}
        /\ sub'[c].slot = sub[c].slot /\ sub'[c].result = sub[c].result
    BY <1>0, <1>5 DEF CountSlot, PrepareFails
  <2>2. Goal
    BY <1>0, <1>1, <1>2, <2>1 DEF OwnsSlot, Abandoned, Knows, Holds, IsOwed
  <2> QED
    BY <1>0, <1>1, <2>2, QuietCore
<1>6. CASE Uncount(c) \/ Leave(c)
  <2>1. /\ \/ sub[c].pc = "uncount" /\ sub'[c].pc = "leave" /\ sub'[c].result = sub[c].result
           \/ sub[c].pc = "leave" /\ sub'[c].pc = "returned" /\ sub'[c].result = "FAILURE"
        /\ sub'[c].slot = sub[c].slot
    BY <1>0, <1>6 DEF Uncount, Leave
  <2>2. Goal
    BY <1>0, <1>1, <1>2, <2>1 DEF OwnsSlot, Abandoned, Knows, Holds, IsOwed
  <2> QED
    BY <1>0, <1>1, <2>2, QuietCore
<1>7. CASE WakeUp(c) \/ TimeOut(c)
  <2>1. /\ sub[c].pc = "wait" /\ sub'[c].pc = "decide"
        /\ sub'[c].slot = sub[c].slot /\ sub'[c].result = sub[c].result
    BY <1>0, <1>7 DEF WakeUp, TimeOut
  <2>2. Goal
    BY <1>0, <1>1, <1>2, <2>1 DEF OwnsSlot, Abandoned, Knows, Holds, IsOwed
  <2> QED
    BY <1>0, <1>1, <2>2, QuietCore
<1>8. CASE Done(c)
  <2>1. /\ sub[c].pc = "decide" /\ sub'[c].pc = "put" /\ status[sub[c].slot] = "DONE"
        /\ sub'[c].slot = sub[c].slot /\ sub'[c].result = sub[c].result
    BY <1>0, <1>8 DEF Done
  <2>2. Goal
    BY <1>0, <1>1, <1>2, <2>1 DEF OwnsSlot, Abandoned, Knows, Holds, IsOwed
  <2> QED
    BY <1>0, <1>1, <2>2, QuietCore
<1>9. CASE NotDone(c)
  <2>1. /\ sub[c].pc = "decide" /\ sub'[c].pc = "swap" /\ status[sub[c].slot] # "DONE"
        /\ sub'[c].slot = sub[c].slot /\ sub'[c].result = sub[c].result
        /\ sub'[c].old = status[sub[c].slot]
    <3>1. sub[c] \in Submitter /\ sub \in [Cmds -> Submitter]
      BY <1>0 DEF AdminType
    <3>2. sub'[c] = [sub[c] EXCEPT !.pc = "swap", !.old = status[sub[c].slot]]
      BY <1>9, <3>1 DEF NotDone
    <3> QED
      BY <1>9, <3>1, <3>2 DEF NotDone, Submitter
  <2>2. Goal
    BY <1>0, <1>1, <1>2, <2>1 DEF OwnsSlot, Abandoned, Knows, Holds, IsOwed
  <2> QED
    BY <1>0, <1>1, <2>2, QuietCore
<1>10. CASE SwapFails(c)
  <2>1. /\ sub[c].pc = "swap" /\ sub'[c].pc = "decide"
        /\ sub'[c].slot = sub[c].slot /\ sub'[c].result = sub[c].result
    BY <1>0, <1>10 DEF SwapFails
  <2>2. Goal
    BY <1>0, <1>1, <1>2, <2>1 DEF OwnsSlot, Abandoned, Knows, Holds, IsOwed
  <2> QED
    BY <1>0, <1>1, <2>2, QuietCore
<1>11. CASE TimedOut(c)
  <2>1. /\ sub[c].pc = "timedOut" /\ sub'[c].pc = "returned"
        /\ sub'[c].slot = sub[c].slot /\ sub'[c].result = "TIMEOUT"
    BY <1>0, <1>11 DEF TimedOut
  <2>2. Goal
    BY <1>0, <1>1, <1>2, <2>1 DEF OwnsSlot, Abandoned, Knows, Holds, IsOwed
  <2> QED
    BY <1>0, <1>1, <2>2, QuietCore
<1>12. CASE PutDec(c)
  <2>1. /\ sub[c].pc = "putDec" /\ sub'[c].pc = "returned"
        /\ sub'[c].slot = sub[c].slot /\ sub'[c].result = "OK"
    BY <1>0, <1>12 DEF PutDec
  <2>2. Goal
    BY <1>0, <1>1, <1>2, <2>1 DEF OwnsSlot, Abandoned, Knows, Holds, IsOwed
  <2> QED
    BY <1>0, <1>1, <2>2, QuietCore
<1> QED
  BY <1>3, <1>4, <1>5, <1>6, <1>7, <1>8, <1>9, <1>10, <1>11, <1>12

LEMMA GetSlotCore ==
  ASSUME RefInv, Core, NEW c \in Cmds, GetSlot(c) PROVE Core'
<1> SUFFICES ASSUME NEW s, s = sub[c].slot PROVE Core'
  OBVIOUS
<1>0. AdminType /\ SubSteps(c) /\ Knows(c) /\ Holds(c) /\ OwnersKnow /\ FlightInv
  BY DEF RefInv, Core, OwnersKnow, HeldInv, SubSteps, SubmitStep
<1>1. /\ sub[c].pc = "scan" /\ sub'[c].pc = "count" /\ s \in Slots /\ status[s] = "FREE"
      /\ sub'[c].slot = s /\ sub'[c].result = sub[c].result
  BY <1>0, SubGoesTo, SlotsAre DEF GetSlot, AdminType, Submitter
<1>2. /\ status' = [status EXCEPT ![s] = "ACTIVE"] /\ status \in [Slots -> Statuses]
      /\ UNCHANGED <<vmkCmd, executing, held, agent, posted, isRemoved>>
      /\ executing \subseteq Slots
  BY <1>0, SubmitFrame DEF GetSlot, hwVars, AdminType
<1>3. \A d \in Cmds \ {c} : sub'[d] = sub[d] /\ held'[d] = held[d]
  BY <1>0, SubmitFrame
<1>4. \A d \in Cmds \ {c} : OwnsSlot(d) => sub[d].slot # s
  BY <1>0, <1>1, OwnersSlot
<1>5. ~InFlight(s)
  BY <1>0, <1>1 DEF FlightInv, Outstanding
<1>6. ~InFlight(s)'
  BY <1>2, <1>5 DEF InFlight, Completes
<1>7. ~Abandoned(c) /\ ~Abandoned(c)'
  BY <1>0, <1>1, NoneAssumption DEF Abandoned, Holds
<1>8. Knows(c)' /\ Holds(c)' /\ IsOwed(c)'
  BY <1>0, <1>1, <1>2, <1>6, <1>7, NoneAssumption DEF Knows, Holds, IsOwed, Preparing,
    Waiting, HeldPcs
<1>9. \A t \in Slots \ {s} : /\ status'[t] = status[t] /\ vmkCmd'[t] = vmkCmd[t]
                             /\ t \in executing' <=> t \in executing
  BY <1>2
<1>10. status'[s] = "FREE_ON_COMPLETE" <=> status[s] = "FREE_ON_COMPLETE" \/ Abandoned(c)'
  BY <1>1, <1>2, <1>7
<1> QED
  BY <1>1, <1>2, <1>3, <1>4, <1>6, <1>7, <1>8, <1>9, <1>10, SubmitCore

LEMMA PrepareCore ==
  ASSUME RefInv, Core, NEW c \in Cmds, Prepare(c) PROVE Core'
<1> SUFFICES ASSUME NEW s, s = sub[c].slot PROVE Core'
  OBVIOUS
<1>0. AdminType /\ SubSteps(c) /\ Knows(c) /\ Holds(c) /\ OwnersKnow /\ FlightInv
  BY DEF RefInv, Core, OwnersKnow, HeldInv, SubSteps, SubmitStep
<1>1. /\ sub[c].pc = "prepare" /\ sub'[c].pc = "issue"
      /\ sub'[c].slot = s /\ sub'[c].result = sub[c].result
  BY <1>0, SubGoesTo DEF Prepare
<1>2. /\ vmkCmd' = [vmkCmd EXCEPT ![s] = c] /\ vmkCmd \in [Slots -> Cmds \cup {None}]
      /\ held'[c] = held[c] + 1
      /\ UNCHANGED <<status, executing, agent, posted, isRemoved>>
      /\ executing \subseteq Slots
  BY <1>0, SubmitFrame DEF Prepare, hwVars, AdminType
<1>3. \A d \in Cmds \ {c} : sub'[d] = sub[d] /\ held'[d] = held[d]
  BY <1>0, SubmitFrame
<1>4. OwnsSlot(c) /\ s \in Slots
  BY <1>0, <1>1, OwnersSlot DEF OwnsSlot
<1>5. \A d \in Cmds \ {c} : OwnsSlot(d) => sub[d].slot # s
  BY <1>4 DEF Core, SlotServesOne
<1>6. status[s] = "ACTIVE" /\ ~InFlight(s)
  BY <1>0, <1>1 DEF Knows, Preparing
<1>7. ~InFlight(s)'
  BY <1>2, <1>6 DEF InFlight, Completes
<1>8. ~Abandoned(c) /\ ~Abandoned(c)'
  BY <1>0, <1>1, NoneAssumption DEF Abandoned, Holds
<1>9. Knows(c)' /\ Holds(c)' /\ IsOwed(c)'
  BY <1>0, <1>1, <1>2, <1>4, <1>6, <1>7, <1>8, NoneAssumption DEF Knows, Holds, IsOwed,
    Preparing, Waiting, HeldPcs
<1>10. \A t \in Slots \ {s} : /\ status'[t] = status[t] /\ vmkCmd'[t] = vmkCmd[t]
                              /\ t \in executing' <=> t \in executing
  BY <1>2
<1>11. status'[s] = "FREE_ON_COMPLETE" <=> status[s] = "FREE_ON_COMPLETE" \/ Abandoned(c)'
  BY <1>2, <1>8
<1> QED
  BY <1>1, <1>2, <1>3, <1>5, <1>7, <1>8, <1>9, <1>10, <1>11, SubmitCore

LEMMA IssueCore ==
  ASSUME RefInv, Removal, Core, NEW c \in Cmds, Issue(c) PROVE Core'
<1> SUFFICES ASSUME NEW s, s = sub[c].slot PROVE Core'
  OBVIOUS
<1>0. AdminType /\ SubSteps(c) /\ Knows(c) /\ Holds(c) /\ OwnersKnow /\ FlightInv
  BY DEF RefInv, Core, OwnersKnow, HeldInv, SubSteps, SubmitStep
<1>1. /\ sub[c].pc = "issue" /\ sub'[c].pc = "wait"
      /\ sub'[c].slot = s /\ sub'[c].result = sub[c].result
  BY <1>0, SubGoesTo DEF Issue
<1>2. /\ executing' = executing \cup {s}
      /\ UNCHANGED <<status, vmkCmd, held, agent, posted, isRemoved>>
      /\ executing \subseteq Slots
  BY <1>0, SubmitFrame DEF Issue, MayIssue, DeviceOn, Removal, slotVars, AdminType
<1>3. \A d \in Cmds \ {c} : sub'[d] = sub[d] /\ held'[d] = held[d]
  BY <1>0, SubmitFrame
<1>4. OwnsSlot(c) /\ s \in Slots
  BY <1>0, <1>1, OwnersSlot DEF OwnsSlot
<1>5. \A d \in Cmds \ {c} : OwnsSlot(d) => sub[d].slot # s
  BY <1>4 DEF Core, SlotServesOne
<1>6. status[s] = "ACTIVE" /\ ~InFlight(s)
  BY <1>0, <1>1 DEF Knows, Preparing
<1>7. InFlight(s)'
  BY <1>2 DEF InFlight
<1>8. ~Abandoned(c) /\ ~Abandoned(c)'
  BY <1>0, <1>1, NoneAssumption DEF Abandoned, Holds
<1>9. Knows(c)' /\ Holds(c)' /\ IsOwed(c)'
  BY <1>0, <1>1, <1>2, <1>6, <1>7, <1>8, NoneAssumption DEF Knows, Holds, IsOwed,
    Preparing, Waiting, HeldPcs
<1>10. \A t \in Slots \ {s} : /\ status'[t] = status[t] /\ vmkCmd'[t] = vmkCmd[t]
                              /\ t \in executing' <=> t \in executing
  BY <1>2
<1>11. /\ status'[s] = "FREE_ON_COMPLETE" <=> status[s] = "FREE_ON_COMPLETE" \/ Abandoned(c)'
       /\ status'[s] \in Outstanding /\ executing' \subseteq Slots
  BY <1>2, <1>4, <1>6, <1>8 DEF Outstanding
<1> QED
  BY <1>1, <1>2, <1>3, <1>5, <1>6, <1>8, <1>9, <1>10, <1>11, SubmitCore

LEMMA IssueRefusedCore ==
  ASSUME RefInv, Core, NEW c \in Cmds, IssueRefused(c) PROVE Core'
<1> SUFFICES ASSUME NEW s, s = sub[c].slot PROVE Core'
  OBVIOUS
<1>0. AdminType /\ SubSteps(c) /\ Knows(c) /\ Holds(c) /\ OwnersKnow /\ FlightInv
  BY DEF RefInv, Core, OwnersKnow, HeldInv, SubSteps, SubmitStep
<1>1. /\ sub[c].pc = "issue" /\ sub'[c].pc = "giveBack"
      /\ sub'[c].slot = s /\ sub'[c].result = sub[c].result
  BY <1>0, SubGoesTo DEF IssueRefused
<1>2. /\ held'[c] = held[c] - 1
      /\ UNCHANGED <<status, vmkCmd, executing, agent, posted, isRemoved>>
      /\ executing \subseteq Slots
  BY <1>0, SubmitFrame DEF IssueRefused, slotVars, hwVars, AdminType
<1>3. \A d \in Cmds \ {c} : sub'[d] = sub[d] /\ held'[d] = held[d]
  BY <1>0, SubmitFrame
<1>4. OwnsSlot(c) /\ s \in Slots
  BY <1>0, <1>1, OwnersSlot DEF OwnsSlot
<1>5. \A d \in Cmds \ {c} : OwnsSlot(d) => sub[d].slot # s
  BY <1>4 DEF Core, SlotServesOne
<1>6. status[s] = "ACTIVE" /\ ~InFlight(s)
  BY <1>0, <1>1 DEF Knows, Preparing
<1>7. ~InFlight(s)'
  BY <1>2, <1>6 DEF InFlight, Completes
<1>8. ~Abandoned(c) /\ ~Abandoned(c)'
  BY <1>0, <1>1, NoneAssumption DEF Abandoned, Holds
<1>9. Knows(c)' /\ Holds(c)' /\ IsOwed(c)'
  BY <1>0, <1>1, <1>2, <1>6, <1>7, <1>8, NoneAssumption DEF Knows, Holds, IsOwed,
    Preparing, Waiting, HeldPcs
<1>10. \A t \in Slots \ {s} : /\ status'[t] = status[t] /\ vmkCmd'[t] = vmkCmd[t]
                              /\ t \in executing' <=> t \in executing
  BY <1>2
<1>11. status'[s] = "FREE_ON_COMPLETE" <=> status[s] = "FREE_ON_COMPLETE" \/ Abandoned(c)'
  BY <1>2, <1>8
<1> QED
  BY <1>1, <1>2, <1>3, <1>5, <1>7, <1>8, <1>9, <1>10, <1>11, SubmitCore

LEMMA GiveBackCore ==
  ASSUME RefInv, Core, NEW c \in Cmds, GiveBack(c) PROVE Core'
<1> SUFFICES ASSUME NEW s, s = sub[c].slot PROVE Core'
  OBVIOUS
<1>0. AdminType /\ SubSteps(c) /\ Knows(c) /\ Holds(c) /\ OwnersKnow /\ FlightInv
  BY DEF RefInv, Core, OwnersKnow, HeldInv, SubSteps, SubmitStep
<1>1. /\ sub[c].pc = "giveBack" /\ sub'[c].pc = "uncount"
      /\ sub'[c].slot = s /\ sub'[c].result = sub[c].result
  BY <1>0, SubGoesTo DEF GiveBack
<1>2. /\ status' = [status EXCEPT ![s] = "FREE"] /\ status \in [Slots -> Statuses]
      /\ UNCHANGED <<vmkCmd, executing, held, agent, posted, isRemoved>>
      /\ executing \subseteq Slots
  BY <1>0, SubmitFrame DEF GiveBack, hwVars, AdminType
<1>3. \A d \in Cmds \ {c} : sub'[d] = sub[d] /\ held'[d] = held[d]
  BY <1>0, SubmitFrame
<1>4. OwnsSlot(c) /\ s \in Slots
  BY <1>0, <1>1, OwnersSlot DEF OwnsSlot
<1>5. \A d \in Cmds \ {c} : OwnsSlot(d) => sub[d].slot # s
  BY <1>4 DEF Core, SlotServesOne
<1>6. status[s] = "ACTIVE" /\ ~InFlight(s)
  BY <1>0, <1>1 DEF Knows, Preparing
<1>7. ~InFlight(s)'
  BY <1>2, <1>6 DEF InFlight, Completes
<1>8. ~Abandoned(c) /\ ~Abandoned(c)'
  BY <1>0, <1>1, NoneAssumption DEF Abandoned, Holds
<1>9. Knows(c)' /\ Holds(c)' /\ IsOwed(c)'
  BY <1>0, <1>1, <1>2, <1>8, NoneAssumption DEF Knows, Holds, IsOwed, Preparing, Waiting,
    HeldPcs
<1>10. \A t \in Slots \ {s} : /\ status'[t] = status[t] /\ vmkCmd'[t] = vmkCmd[t]
                              /\ t \in executing' <=> t \in executing
  BY <1>2
<1>11. status'[s] = "FREE_ON_COMPLETE" <=> status[s] = "FREE_ON_COMPLETE" \/ Abandoned(c)'
  BY <1>2, <1>4, <1>6, <1>8
<1> QED
  BY <1>1, <1>2, <1>3, <1>5, <1>7, <1>8, <1>9, <1>10, <1>11, SubmitCore

LEMMA GiveUpCore ==
  ASSUME RefInv, Core, NEW c \in Cmds, GiveUp(c) PROVE Core'
<1> SUFFICES ASSUME NEW s, s = sub[c].slot PROVE Core'
  OBVIOUS
<1>0. /\ AdminType /\ SubSteps(c) /\ Knows(c) /\ Holds(c) /\ OwnersKnow /\ FlightInv
      /\ ~isRemoved => IsOwed(c)
  BY DEF RefInv, Core, OwnersKnow, Owed, HeldInv, SubSteps, SubmitStep
<1>1. /\ sub[c].pc = "swap" /\ sub'[c].pc = "timedOut"
      /\ sub'[c].slot = s /\ sub'[c].result = sub[c].result /\ status[s] = sub[c].old
  BY <1>0, SubGoesTo DEF GiveUp
<1>2. /\ status' = [status EXCEPT ![s] = "FREE_ON_COMPLETE"] /\ status \in [Slots -> Statuses]
      /\ UNCHANGED <<vmkCmd, executing, held, agent, posted, isRemoved>>
      /\ executing \subseteq Slots
  BY <1>0, SubmitFrame DEF GiveUp, hwVars, AdminType
<1>3. \A d \in Cmds \ {c} : sub'[d] = sub[d] /\ held'[d] = held[d]
  BY <1>0, SubmitFrame
<1>4. OwnsSlot(c) /\ s \in Slots
  BY <1>0, <1>1, OwnersSlot DEF OwnsSlot
<1>5. \A d \in Cmds \ {c} : OwnsSlot(d) => sub[d].slot # s
  BY <1>4 DEF Core, SlotServesOne
<1>6. status[s] = "ACTIVE" /\ vmkCmd[s] = c /\ held[c] = 1
  BY <1>0, <1>1 DEF Knows, Holds, HeldPcs, Waiting
<1>7. InFlight(s)' <=> InFlight(s)
  BY <1>2 DEF InFlight, Completes
<1>8. ~Abandoned(c) /\ Abandoned(c)' /\ status'[s] = "FREE_ON_COMPLETE"
  BY <1>0, <1>1, <1>2, <1>4, <1>6, NoneAssumption DEF Abandoned, Holds
<1>9. Knows(c)' /\ Holds(c)' /\ (~isRemoved => IsOwed(c)')
  <2>1. ~isRemoved => InFlight(s)
    BY <1>0, <1>1, <1>6 DEF IsOwed, Waiting, Outstanding
  <2> QED
    BY <1>0, <1>1, <1>2, <1>4, <1>6, <1>7, <1>8, <2>1, NoneAssumption DEF Knows, Holds,
      IsOwed, Preparing, Waiting, HeldPcs
<1>10. \A t \in Slots \ {s} : /\ status'[t] = status[t] /\ vmkCmd'[t] = vmkCmd[t]
                              /\ t \in executing' <=> t \in executing
  BY <1>2
<1>11. status'[s] \in Outstanding
  BY <1>8 DEF Outstanding
<1> QED
  BY <1>1, <1>2, <1>3, <1>5, <1>8, <1>9, <1>10, <1>11, SubmitCore

LEMMA PutFreeCore ==
  ASSUME RefInv, Core, NEW c \in Cmds, PutFree(c) PROVE Core'
<1> SUFFICES ASSUME NEW s, s = sub[c].slot PROVE Core'
  OBVIOUS
<1>0. AdminType /\ SubSteps(c) /\ Knows(c) /\ Holds(c) /\ OwnersKnow /\ FlightInv
  BY DEF RefInv, Core, OwnersKnow, HeldInv, SubSteps, SubmitStep
<1>1. /\ sub[c].pc = "put" /\ sub'[c].pc = "putDec"
      /\ sub'[c].slot = s /\ sub'[c].result = sub[c].result
  BY <1>0, SubGoesTo DEF PutFree
<1>2. /\ status' = [status EXCEPT ![s] = "FREE"] /\ status \in [Slots -> Statuses]
      /\ held'[c] = held[c] - 1
      /\ UNCHANGED <<vmkCmd, executing, agent, posted, isRemoved>>
      /\ executing \subseteq Slots
  BY <1>0, SubmitFrame DEF PutFree, hwVars, AdminType
<1>3. \A d \in Cmds \ {c} : sub'[d] = sub[d] /\ held'[d] = held[d]
  BY <1>0, SubmitFrame
<1>4. OwnsSlot(c) /\ s \in Slots
  BY <1>0, <1>1, OwnersSlot DEF OwnsSlot
<1>5. \A d \in Cmds \ {c} : OwnsSlot(d) => sub[d].slot # s
  BY <1>4 DEF Core, SlotServesOne
<1>6. status[s] = "DONE" /\ ~InFlight(s)
  BY <1>0, <1>1, <1>4 DEF Knows, FlightInv, Outstanding
<1>7. ~InFlight(s)'
  BY <1>2, <1>6 DEF InFlight, Completes
<1>8. ~Abandoned(c) /\ ~Abandoned(c)'
  BY <1>0, <1>1, NoneAssumption DEF Abandoned, Holds
<1>9. Knows(c)' /\ Holds(c)' /\ IsOwed(c)'
  BY <1>0, <1>1, <1>2, <1>8, NoneAssumption DEF Knows, Holds, IsOwed, Preparing, Waiting,
    HeldPcs
<1>10. \A t \in Slots \ {s} : /\ status'[t] = status[t] /\ vmkCmd'[t] = vmkCmd[t]
                              /\ t \in executing' <=> t \in executing
  BY <1>2
<1>11. status'[s] = "FREE_ON_COMPLETE" <=> status[s] = "FREE_ON_COMPLETE" \/ Abandoned(c)'
  BY <1>2, <1>4, <1>6, <1>8
<1> QED
  BY <1>1, <1>2, <1>3, <1>5, <1>7, <1>8, <1>9, <1>10, <1>11, SubmitCore

LEMMA SubmitKeepsCore ==
  ASSUME RefInv, Removal, Core, NEW c \in Cmds, SubSteps(c)
  PROVE  Core'
BY QuietSteps, GetSlotCore, PrepareCore, IssueCore, IssueRefusedCore, GiveBackCore,
  GiveUpCore, PutFreeCore DEF SubSteps, SubmitStep

-----------------------------------------------------------------------------
(* The device and the completers.                                          *)

(* A step that answers, or takes up an answer: the slots stay as they are. *)
LEMMA FlightCore ==
  ASSUME Core, UNCHANGED <<sub, held, status, vmkCmd>>, isRemoved => isRemoved',
         \A t : InFlight(t)' => InFlight(t),
         ~isRemoved' => \A t : InFlight(t) => InFlight(t)',
         executing' \cap posted' = {},
         \A a \in Agents :
           /\ agent'[a].pc \in Completing => agent'[a].slot \notin executing' \cup posted'
           /\ agent'[a].pc = "swap" => agent'[a].old = "ACTIVE"
           /\ agent'[a].pc = "free" => status[agent'[a].slot] = "FREE_ON_COMPLETE"
  PROVE  Core'
<1>1. ASSUME NEW c \in Cmds
      PROVE  Knows(c)' /\ Holds(c)' /\ (~isRemoved' => IsOwed(c)')
  <2>1. Knows(c) /\ Holds(c) /\ (~isRemoved => IsOwed(c))
    BY DEF Core, OwnersKnow, HeldInv, Owed
  <2>2. Knows(c)' /\ Holds(c)'
    BY <2>1 DEF Knows, Holds, Abandoned
  <2>3. ~isRemoved' => IsOwed(c)'
    BY <2>1 DEF IsOwed, Abandoned
  <2> QED
    BY <2>2, <2>3
<1>2. OwnersKnow' /\ HeldInv' /\ Owed'
  BY <1>1 DEF OwnersKnow, HeldInv, Owed
<1>3. SlotServesOne' /\ AbandonedOwned'
  BY DEF Core, SlotServesOne, AbandonedOwned, OwnsSlot, Abandoned
<1>4. FlightInv'
  BY DEF Core, FlightInv
<1> QED
  BY <1>2, <1>3, <1>4 DEF Core

LEMMA ControlCore ==
  ASSUME RefInv, Removal, Core, MaxResets = 0, ControlSteps
  PROVE  Core'
<1>0. AdminType /\ FlightInv
  BY DEF RefInv, Core
<1>1. /\ UNCHANGED <<sub, held, vmkCmd>>
      /\ \A a \in Agents : agent'[a].slot = agent[a].slot /\ agent'[a].old = agent[a].old
  BY <1>0, ControlFrame
<1>2. \A a \in Agents : agent'[a].pc \in Completing <=> agent[a].pc \in Completing
  <2>1. CASE Interrupt
    BY <1>0, <2>1 DEF Interrupt, AdminType, Agent, AgentGoes, Agents, Completing
  <2>2. CASE QuiesceStart
    BY <1>0, <2>2 DEF QuiesceStart, AdminType, Agent, AgentGoes, Agents, Flushers, Completing
  <2>3. CASE ForgetDevice \/ \E s \in Slots : DeviceCompletes(s)
    BY <2>3 DEF ForgetDevice, DeviceCompletes
  <2> QED
    BY <2>1, <2>2, <2>3, NoReset
<1>3. \A a \in Agents : agent[a].pc \in Completing => agent'[a].pc = agent[a].pc
  <2>1. CASE Interrupt
    BY <1>0, <2>1 DEF Interrupt, AdminType, AgentGoes, Completing
  <2>2. CASE QuiesceStart
    BY <1>0, <2>2 DEF QuiesceStart, AdminType, AgentGoes, Completing
  <2>3. CASE ForgetDevice \/ \E s \in Slots : DeviceCompletes(s)
    BY <2>3 DEF ForgetDevice, DeviceCompletes
  <2> QED
    BY <2>1, <2>2, <2>3, NoReset
<1>4. \A t : Completes(t)' <=> Completes(t)
  BY <1>1, <1>2 DEF Completes
<1>5. /\ status' = status
      /\ isRemoved => isRemoved'
      /\ executing' \cup posted' \subseteq executing \cup posted
      /\ executing' \cap posted' = {}
      /\ ~isRemoved' => executing' \cup posted' = executing \cup posted
  <2>1. CASE Interrupt \/ QuiesceStart
    BY <1>0, <2>1 DEF Interrupt, QuiesceStart, FlightInv, queueVars, slotVars, hwVars
  <2>2. CASE ForgetDevice
    BY <2>2 DEF ForgetDevice, slotVars
  <2>3. CASE \E s \in Slots : DeviceCompletes(s)
    BY <1>0, <2>3 DEF DeviceCompletes, FlightInv, queueVars, slotVars
  <2> QED
    BY <2>1, <2>2, <2>3, NoReset
<1>6. \A t : /\ InFlight(t)' => InFlight(t)
             /\ ~isRemoved' => (InFlight(t) => InFlight(t)')
  BY <1>4, <1>5 DEF InFlight
<1>7. ASSUME NEW a \in Agents
      PROVE  /\ agent'[a].pc \in Completing => agent'[a].slot \notin executing' \cup posted'
             /\ agent'[a].pc = "swap" => agent'[a].old = "ACTIVE"
             /\ agent'[a].pc = "free" => status[agent'[a].slot] = "FREE_ON_COMPLETE"
  BY <1>0, <1>1, <1>2, <1>3, <1>5 DEF FlightInv, Completing
<1> QED
  BY <1>1, <1>5, <1>6, <1>7, FlightCore

(* A command has one completer.                                            *)
LEMMA OneCompleter ==
  ASSUME Removal, NEW a \in Agents, NEW b \in Agents,
         agent[a].pc \in Completing, agent[b].pc \in Completing \cup {"cq", "loop"}
  PROVE  a = b
BY DEF Removal, Agents, Flushers, Completing

LEMMA FlushCore ==
  ASSUME RefInv, Removal, Core, NEW f \in Flushers, FlushStep(f)
  PROVE  Core'
<1>0. AdminType /\ FlightInv /\ f = "quiesce" /\ f \in Agents
  BY OnlyQuiesce DEF RefInv, Core, Agents
<1>1. /\ UNCHANGED <<sub, held, status, vmkCmd, isRemoved, executing, posted>>
      /\ \A b \in Agents \ {f} : agent'[b] = agent[b]
  BY <1>0, FlushFrame DEF slotVars, hwVars
<1>2. CASE agent'[f].pc \notin Completing
  <2>1. agent[f].pc \notin Completing
    BY <1>0, FlushPcs DEF Completing
  <2>2. \A t : Completes(t)' <=> Completes(t)
    BY <1>1, <1>2, <2>1 DEF Completes
  <2>3. ASSUME NEW a \in Agents
        PROVE  /\ agent'[a].pc \in Completing => agent'[a].slot \notin executing' \cup posted'
               /\ agent'[a].pc = "swap" => agent'[a].old = "ACTIVE"
               /\ agent'[a].pc = "free" => status[agent'[a].slot] = "FREE_ON_COMPLETE"
    BY <1>0, <1>1, <1>2 DEF FlightInv, Completing
  <2>4. \A t : InFlight(t)' <=> InFlight(t)
    BY <1>1, <2>2 DEF InFlight
  <2> QED
    BY <1>0, <1>1, <2>3, <2>4, FlightCore DEF FlightInv
<1>3. CASE agent'[f].pc \in Completing
  <2> DEFINE s == agent[f].slot
  <2>1. /\ agent[f].pc = "loop" /\ s \in Slots /\ status[s] \in Outstanding
        /\ agent'[f].pc = "read" /\ agent'[f].slot = s
    BY <1>0, <1>3, FlushPcs DEF Completing
  <2>2. executing = {} /\ posted = {} /\ \A c \in Cmds : sub[c].pc \notin Preparing
    BY <1>0, <2>1 DEF RefInv, QuiesceAlone, Removal, Looping, Alone, Flushing, Working
  <2>3. isRemoved
    BY <1>0, <2>1 DEF RefInv, QuiesceAlone
  <2> HIDE DEF s
  <2>4. ASSUME NEW t, InFlight(t)' PROVE InFlight(t) \/ t = s
    BY <1>1, <2>1, <2>4 DEF InFlight, Completes
  <2>5. ASSUME NEW c \in Cmds PROVE Knows(c)' /\ Holds(c)'
    BY <1>1, <2>2 DEF Core, OwnersKnow, HeldInv, Knows, Holds, Abandoned
  <2>6. SlotServesOne' /\ AbandonedOwned'
    BY <1>1 DEF Core, SlotServesOne, AbandonedOwned, OwnsSlot, Abandoned
  <2>7. OwnersKnow' /\ HeldInv' /\ Owed'
    BY <1>1, <2>3, <2>5 DEF OwnersKnow, HeldInv, Owed
  <2>8. FlightInv'
    <3>1. \A t \in Slots : InFlight(t)' => status'[t] \in Outstanding
      BY <1>1, <2>1, <2>4, <1>0 DEF FlightInv
    <3>2. ASSUME NEW a \in Agents
          PROVE  /\ agent'[a].pc \in Completing => agent'[a].slot \notin executing' \cup posted'
                 /\ agent'[a].pc = "swap" => agent'[a].old = "ACTIVE"
                 /\ agent'[a].pc = "free" => status'[agent'[a].slot] = "FREE_ON_COMPLETE"
      <4>1. CASE a = f
        BY <4>1, <1>1, <2>1, <2>2
      <4>2. CASE a # f
        BY <4>2, <1>0, <1>1 DEF FlightInv
      <4> QED
        BY <4>1, <4>2
    <3>3. executing' \cap posted' = {}
      BY <1>1, <2>2
    <3> QED
      BY <3>1, <3>2, <3>3 DEF FlightInv
  <2> QED
    BY <2>6, <2>7, <2>8 DEF Core
<1> QED
  BY <1>2, <1>3

LEMMA TakeEntryCore ==
  ASSUME RefInv, Removal, Core, NEW a \in Agents, NEW s \in Slots, TakeEntry(a, s)
  PROVE  Core'
<1>0. AdminType /\ FlightInv /\ CompleteStep(a)
  BY DEF RefInv, Core, CompleteStep
<1>1. /\ UNCHANGED <<sub, held, status, vmkCmd, isRemoved, executing>>
      /\ \A b \in Agents \ {a} : agent'[b] = agent[b]
      /\ agent[a].pc = "cq" /\ s \in posted /\ posted' = posted \ {s}
      /\ agent'[a].pc = "read" /\ agent'[a].slot = s
  BY <1>0, CompleteFrame, TakeEntryGoesTo DEF TakeEntry, queueVars, slotVars
<1>2. \A t : InFlight(t)' <=> InFlight(t)
  BY <1>1 DEF InFlight, Completes, Completing
<1>3. ASSUME NEW b \in Agents
      PROVE  /\ agent'[b].pc \in Completing => agent'[b].slot \notin executing' \cup posted'
             /\ agent'[b].pc = "swap" => agent'[b].old = "ACTIVE"
             /\ agent'[b].pc = "free" => status[agent'[b].slot] = "FREE_ON_COMPLETE"
  BY <1>0, <1>1 DEF FlightInv, Completing
<1> QED
  BY <1>0, <1>1, <1>2, <1>3, FlightCore DEF FlightInv

(* Every entry is for an outstanding command.                              *)
LEMMA NoEntrySkipped ==
  ASSUME FlightInv, NEW a \in Agents, NEW s \in Slots, SkipEntry(a, s)
  PROVE  FALSE
BY DEF FlightInv, SkipEntry, InFlight

(* The steps of a completer that leave what it works on as it is.          *)
LEMMA SameFlightCore ==
  ASSUME RefInv, Core, NEW a \in Agents,
         LockCq(a) \/ UnlockCq(a) \/ ReadStatus(a) \/ UncountAbandoned(a) \/ SwapDoneFails(a)
  PROVE  Core'
<1>0. AdminType /\ FlightInv /\ CompleteStep(a)
  BY DEF RefInv, Core, CompleteStep
<1>1. /\ UNCHANGED <<sub, held, status, vmkCmd, isRemoved, executing, posted>>
      /\ \A b \in Agents \ {a} : agent'[b] = agent[b]
  BY <1>0, CompleteFrame DEF LockCq, UnlockCq, ReadStatus, UncountAbandoned, SwapDoneFails,
    queueVars, slotVars, hwVars
<1>2. \/ agent[a].pc \notin Completing /\ agent'[a].pc \notin Completing
      \/ /\ agent[a].pc \in Completing /\ agent'[a].pc \in Completing
         /\ agent'[a].slot = agent[a].slot
         /\ agent'[a].pc = "swap" => agent'[a].old = "ACTIVE"
         /\ agent'[a].pc = "free" => status[agent[a].slot] = "FREE_ON_COMPLETE"
  <2>1. CASE LockCq(a) \/ UnlockCq(a)
    BY <1>0, <2>1, AgentGoesTo DEF LockCq, UnlockCq, Completing
  <2>2. CASE ReadStatus(a)
    <3>1. agent[a].pc = "read" /\ status[agent[a].slot] \in Outstanding
      BY <1>0, <2>2 DEF ReadStatus, FlightInv, InFlight, Completes, Completing, AdminType
    <3>2. /\ agent'[a].pc = IF status[agent[a].slot] = "FREE_ON_COMPLETE" THEN "free" ELSE "swap"
          /\ agent'[a].slot = agent[a].slot /\ agent'[a].old = status[agent[a].slot]
      BY <1>0, <2>2, ReadStatusGoesTo
    <3> QED
      BY <3>1, <3>2 DEF Outstanding, Completing
  <2>3. CASE UncountAbandoned(a)
    BY <1>0, <2>3, CompletionGoesTo DEF UncountAbandoned, Completing
  <2>4. CASE SwapDoneFails(a)
    BY <1>0, <2>4, AgentGoesTo DEF SwapDoneFails, Completing
  <2> QED
    BY <2>1, <2>2, <2>3, <2>4
<1>3. \A t : InFlight(t)' <=> InFlight(t)
  <2>1. \A t : Completes(t)' <=> Completes(t)
    BY <1>1, <1>2 DEF Completes
  <2> QED
    BY <1>1, <2>1 DEF InFlight
<1>4. ASSUME NEW b \in Agents
      PROVE  /\ agent'[b].pc \in Completing => agent'[b].slot \notin executing' \cup posted'
             /\ agent'[b].pc = "swap" => agent'[b].old = "ACTIVE"
             /\ agent'[b].pc = "free" => status[agent'[b].slot] = "FREE_ON_COMPLETE"
  BY <1>0, <1>1, <1>2 DEF FlightInv, Completing
<1> QED
  BY <1>0, <1>1, <1>3, <1>4, FlightCore DEF FlightInv

(* The completer tells the waiter, which has not given up.                 *)
LEMMA SwapDoneCore ==
  ASSUME RefInv, Removal, Core, NEW a \in Agents, SwapDone(a)
  PROVE  Core'
<1> SUFFICES ASSUME NEW s, s = agent[a].slot PROVE Core'
  OBVIOUS
<1>0. AdminType /\ FlightInv /\ CompleteStep(a)
  BY DEF RefInv, Core, CompleteStep
<1>1. /\ UNCHANGED <<sub, held, vmkCmd, isRemoved, executing, posted>>
      /\ \A b \in Agents \ {a} : agent'[b] = agent[b]
      /\ agent[a].pc = "swap" /\ agent'[a].pc \in {"cq", "loop"}
      /\ status' = [status EXCEPT ![s] = "DONE"] /\ status[s] = agent[a].old
  BY <1>0, CompleteFrame, CompletionGoesTo DEF SwapDone, queueVars, hwVars
<1>2. /\ s \in Slots /\ status[s] = "ACTIVE" /\ InFlight(s) /\ s \notin executing \cup posted
      /\ status \in [Slots -> Statuses]
  BY <1>0, <1>1 DEF FlightInv, AdminType, InFlight, Completes, Completing
<1>3. \A b \in Agents \ {a} : agent[b].pc \notin Completing
  BY <1>1, OneCompleter DEF Completing
<1>4. \A t : InFlight(t)' <=> InFlight(t) /\ t # s
  BY <1>1, <1>2, <1>3 DEF InFlight, Completes, Completing
<1>5. status'[s] = "DONE" /\ \A t \in Slots \ {s} : status'[t] = status[t]
  BY <1>1, <1>2
<1>6. \A c \in Cmds : Abandoned(c)' <=> Abandoned(c)
  BY <1>1 DEF Abandoned
<1>7. ASSUME NEW c \in Cmds PROVE Knows(c)' /\ Holds(c)' /\ (~isRemoved => IsOwed(c)')
  <2>1. Knows(c) /\ Holds(c) /\ (~isRemoved => IsOwed(c))
    BY DEF Core, OwnersKnow, HeldInv, Owed
  <2>2. Holds(c)'
    BY <1>1, <2>1 DEF Holds
  <2>3. CASE OwnsSlot(c)
    <3>1. sub[c].slot \in Slots
      BY <1>0, <2>3, OwnersSlot DEF Core
    <3>2. CASE sub[c].slot = s
      BY <1>1, <1>2, <1>4, <1>5, <1>6, <2>1, <2>2, <3>2 DEF Knows, IsOwed, Preparing, Waiting,
        HeldPcs, Outstanding
    <3>3. CASE sub[c].slot # s
      BY <1>1, <1>4, <1>5, <1>6, <2>1, <2>2, <3>1, <3>3 DEF Knows, IsOwed
    <3> QED
      BY <2>2, <3>2, <3>3
  <2>4. CASE ~OwnsSlot(c)
    BY <1>1, <1>6, <2>1, <2>2, <2>4 DEF Knows, IsOwed, OwnsSlot, Preparing, Waiting, HeldPcs
  <2> QED
    BY <2>3, <2>4
<1>8. SlotServesOne'
  BY <1>1 DEF Core, SlotServesOne, OwnsSlot, Abandoned
<1>9. AbandonedOwned'
  <2> SUFFICES ASSUME NEW t \in Slots, status'[t] = "FREE_ON_COMPLETE"
               PROVE  \E c \in Cmds : Abandoned(c)' /\ sub'[c].slot = t
    BY DEF AbandonedOwned
  <2>1. status[t] = "FREE_ON_COMPLETE"
    BY <1>5
  <2>2. PICK c \in Cmds : Abandoned(c) /\ sub[c].slot = t
    BY <2>1 DEF Core, AbandonedOwned
  <2> QED
    BY <1>1, <1>6, <2>2
<1>10. FlightInv'
  <2>1. \A t \in Slots : InFlight(t)' => status'[t] \in Outstanding
    BY <1>0, <1>4, <1>5 DEF FlightInv
  <2>2. \A b \in Agents : agent'[b].pc \notin Completing
    BY <1>1, <1>3 DEF Completing
  <2> QED
    BY <1>0, <1>1, <2>1, <2>2 DEF FlightInv, Completing
<1>11. OwnersKnow' /\ HeldInv' /\ Owed'
  BY <1>1, <1>7 DEF OwnersKnow, HeldInv, Owed
<1> QED
  BY <1>8, <1>9, <1>10, <1>11 DEF Core

(* The completer frees the command that was given up.                      *)
LEMMA FreeAbandonedCore ==
  ASSUME RefInv, Removal, Core, NEW a \in Agents, FreeAbandoned(a)
  PROVE  /\ Core'
         /\ \E d \in Cmds : /\ Abandoned(d) /\ ~Abandoned(d)' /\ sub' = sub
                            /\ \A c \in Cmds \ {d} : Abandoned(c)' <=> Abandoned(c)
<1> SUFFICES ASSUME NEW s, s = agent[a].slot
             PROVE  /\ Core'
                    /\ \E d \in Cmds : /\ Abandoned(d) /\ ~Abandoned(d)' /\ sub' = sub
                                       /\ \A c \in Cmds \ {d} : Abandoned(c)' <=> Abandoned(c)
  OBVIOUS
<1>0. AdminType /\ FlightInv /\ CompleteStep(a) /\ OwnersKnow
  BY DEF RefInv, Core, CompleteStep
<1>1. /\ UNCHANGED <<sub, vmkCmd, isRemoved, executing, posted>>
      /\ \A b \in Agents \ {a} : agent'[b] = agent[b]
      /\ agent[a].pc = "free" /\ agent'[a].pc = "uncount"
      /\ status' = [status EXCEPT ![s] = "FREE"]
      /\ held' = [held EXCEPT ![vmkCmd[s]] = @ - 1]
  BY <1>0, CompleteFrame, AgentGoesTo DEF FreeAbandoned, queueVars, hwVars
<1>2. /\ s \in Slots /\ status[s] = "FREE_ON_COMPLETE" /\ InFlight(s)
      /\ s \notin executing \cup posted /\ status \in [Slots -> Statuses]
      /\ held \in [Cmds -> Int]
  BY <1>0, <1>1 DEF FlightInv, AdminType, InFlight, Completes, Completing
<1>3. \A b \in Agents \ {a} : agent[b].pc \notin Completing
  BY <1>1, OneCompleter DEF Completing
<1>4. \A t : InFlight(t)' <=> InFlight(t) /\ t # s
  BY <1>1, <1>2, <1>3 DEF InFlight, Completes, Completing
<1>5. status'[s] = "FREE" /\ \A t \in Slots \ {s} : status'[t] = status[t]
  BY <1>1, <1>2
<1>6. PICK d \in Cmds : Abandoned(d) /\ sub[d].slot = s
  BY <1>2 DEF Core, AbandonedOwned
<1>7. vmkCmd[s] = d /\ held[d] = 1
  BY <1>0, <1>6 DEF OwnersKnow, Knows, Abandoned
<1>8. held'[d] = 0 /\ \A c \in Cmds \ {d} : held'[c] = held[c]
  BY <1>1, <1>2, <1>7
<1>9. ~Abandoned(d)' /\ \A c \in Cmds \ {d} : Abandoned(c)' <=> Abandoned(c)
  BY <1>1, <1>8 DEF Abandoned
<1>10. \A c \in Cmds \ {d} : OwnsSlot(c) => sub[c].slot # s
  BY <1>6 DEF Core, SlotServesOne, OwnsSlot
<1>11. ASSUME NEW c \in Cmds PROVE Knows(c)' /\ Holds(c)' /\ (~isRemoved => IsOwed(c)')
  <2>1. Knows(c) /\ Holds(c) /\ (~isRemoved => IsOwed(c))
    BY DEF Core, OwnersKnow, HeldInv, Owed
  <2>2. CASE c = d
    <3>1. /\ sub[c].pc = "timedOut" \/ sub[c].result = "TIMEOUT"
          /\ sub[c].pc \in {"timedOut", "returned"}
      BY <1>6, <2>1, <2>2, NoneAssumption DEF Abandoned, Holds
    <3> QED
      BY <1>1, <1>8, <1>9, <2>1, <2>2, <3>1 DEF Knows, Holds, IsOwed, Preparing, Waiting,
        HeldPcs
  <2>3. CASE c # d
    <3>1. Holds(c)'
      BY <1>1, <1>8, <2>1, <2>3 DEF Holds
    <3>2. CASE OwnsSlot(c)
      <4>1. sub[c].slot \in Slots \ {s}
        BY <1>0, <1>10, <2>3, <3>2, OwnersSlot
      <4> QED
        BY <1>1, <1>4, <1>5, <1>9, <2>1, <2>3, <3>1, <4>1 DEF Knows, IsOwed
    <3>3. CASE ~OwnsSlot(c)
      BY <1>1, <1>9, <2>1, <2>3, <3>1, <3>3 DEF Knows, IsOwed, OwnsSlot, Preparing, Waiting,
        HeldPcs
    <3> QED
      BY <3>2, <3>3
  <2> QED
    BY <2>2, <2>3
<1>12. SlotServesOne'
  <2>1. \A c \in Cmds : OwnsSlot(c)' => OwnsSlot(c)
    BY <1>1, <1>6, <1>9 DEF OwnsSlot
  <2> QED
    BY <1>1, <2>1 DEF Core, SlotServesOne
<1>13. AbandonedOwned'
  <2> SUFFICES ASSUME NEW t \in Slots, status'[t] = "FREE_ON_COMPLETE"
               PROVE  \E c \in Cmds : Abandoned(c)' /\ sub'[c].slot = t
    BY DEF AbandonedOwned
  <2>1. t # s /\ status[t] = "FREE_ON_COMPLETE"
    BY <1>5
  <2>2. PICK c \in Cmds : Abandoned(c) /\ sub[c].slot = t
    BY <2>1 DEF Core, AbandonedOwned
  <2> QED
    BY <1>1, <1>6, <1>9, <2>1, <2>2
<1>14. FlightInv'
  <2>1. \A t \in Slots : InFlight(t)' => status'[t] \in Outstanding
    BY <1>0, <1>4, <1>5 DEF FlightInv
  <2>2. \A b \in Agents : agent'[b].pc \notin Completing
    BY <1>1, <1>3 DEF Completing
  <2> QED
    BY <1>0, <1>1, <2>1, <2>2 DEF FlightInv, Completing
<1>15. OwnersKnow' /\ HeldInv' /\ Owed'
  BY <1>1, <1>11 DEF OwnersKnow, HeldInv, Owed
<1> QED
  BY <1>1, <1>6, <1>9, <1>12, <1>13, <1>14, <1>15 DEF Core

LEMMA CompleteCore ==
  ASSUME RefInv, Removal, Core, NEW a \in Agents, CompleteStep(a)
  PROVE  Core'
<1>1. FlightInv
  BY DEF Core
<1> QED
  BY <1>1, TakeEntryCore, NoEntrySkipped, SameFlightCore, SwapDoneCore, FreeAbandonedCore
  DEF CompleteStep

-----------------------------------------------------------------------------
(* The count of active commands.                                           *)

LEMMA SubmitActs ==
  ASSUME RefInv, Core, Core', ActCounts, NEW c \in Cmds, SubSteps(c)
  PROVE  ActCounts'
<1> DEFINE in == c \in Counted
           inNext == c \in Counted'
<1>0. AdminType /\ Holds(c) /\ Holds(c)'
  BY DEF RefInv, Core, HeldInv
<1>1. \/ nrAct' = nrAct /\ (in <=> inNext)
      \/ nrAct' = nrAct + 1 /\ ~in /\ inNext
      \/ nrAct' = nrAct - 1 /\ in /\ ~inNext
  <2> USE <1>0, SubGoesTo, SubReturnsTo, NoneAssumption DEF Counted, OwnsSlot, Abandoned
  <2>1. CASE SubmitEnter(c) \/ SubmitRefused(c) \/ NoSlot(c)
    BY <2>1 DEF SubmitEnter, SubmitRefused, NoSlot, Holds, slotVars
  <2>2. CASE SubmitAllowed(c) \/ NextSlot(c)
    <3>1. /\ sub[c].pc \in {"entered", "scan"} /\ sub'[c].pc = "scan" /\ nrAct' = nrAct
          /\ sub'[c].result = sub[c].result
      BY <2>2 DEF SubmitAllowed, NextSlot, AdminType, Submitter, slotVars
    <3> QED
      BY <3>1 DEF Holds
  <2>3. CASE GetSlot(c) \/ CountSlot(c) \/ Prepare(c) \/ PrepareFails(c)
    BY <2>3 DEF GetSlot, CountSlot, Prepare, PrepareFails, Holds, slotVars
  <2>4. CASE Issue(c) \/ IssueRefused(c) \/ GiveBack(c) \/ Uncount(c) \/ Leave(c)
    BY <2>4 DEF Issue, IssueRefused, GiveBack, Uncount, Leave, Holds, slotVars
  <2>5. CASE WakeUp(c) \/ TimeOut(c) \/ Done(c) \/ SwapFails(c)
    BY <2>5 DEF WakeUp, TimeOut, Done, SwapFails, slotVars
  <2>6. CASE NotDone(c)
    <3>1. sub[c].pc = "decide" /\ sub'[c].pc = "swap" /\ nrAct' = nrAct
      BY <2>6 DEF NotDone, AdminType, Submitter, slotVars
    <3> QED
      BY <3>1
  <2>7. CASE GiveUp(c)
    BY <2>7 DEF GiveUp, Holds, HeldPcs, Waiting
  <2>8. CASE TimedOut(c)
    BY <2>8 DEF TimedOut, Holds, slotVars
  <2>9. CASE PutFree(c) \/ PutDec(c)
    BY <2>9 DEF PutFree, PutDec, Holds
  <2> QED
    BY <2>1, <2>2, <2>3, <2>4, <2>5, <2>6, <2>7, <2>8, <2>9 DEF SubSteps, SubmitStep
<1>2. Uncounting' = Uncounting
  BY <1>0, SubmitFrame DEF Uncounting
<1>3. \A d \in Cmds \ {c} : d \in Counted' <=> d \in Counted
  BY <1>0, SubmitFrame DEF Counted, OwnsSlot, Abandoned
<1>4. Counted \subseteq Cmds /\ Counted' \subseteq Cmds
  BY DEF Counted
<1> HIDE DEF in, inNext
<1>5. /\ IsFiniteSet(Counted) /\ IsFiniteSet(Uncounting)
      /\ Cardinality(Counted) \in Nat /\ Cardinality(Uncounting) \in Nat
      /\ nrAct = Cardinality(Counted) + Cardinality(Uncounting)
  BY FS_CardinalityType DEF ActCounts
<1>6. CASE nrAct' = nrAct /\ (in <=> inNext)
  <2>1. Counted' = Counted
    BY <1>3, <1>4, <1>6 DEF in, inNext
  <2> QED
    BY <1>2, <1>5, <1>6, <2>1 DEF ActCounts
<1>7. CASE nrAct' = nrAct + 1 /\ ~in /\ inNext
  <2>1. c \notin Counted /\ Counted' = Counted \cup {c}
    BY <1>3, <1>4, <1>7 DEF in, inNext
  <2>2. IsFiniteSet(Counted') /\ Cardinality(Counted') = Cardinality(Counted) + 1
    BY <1>5, <2>1, FS_AddElement
  <2> QED
    BY <1>2, <1>5, <1>7, <2>2 DEF ActCounts
<1>8. CASE nrAct' = nrAct - 1 /\ in /\ ~inNext
  <2>1. c \in Counted /\ Counted' = Counted \ {c}
    BY <1>3, <1>4, <1>8 DEF in, inNext
  <2>2. IsFiniteSet(Counted') /\ Cardinality(Counted') = Cardinality(Counted) - 1
    BY <1>5, <2>1, FS_RemoveElement
  <2> QED
    BY <1>2, <1>5, <1>8, <2>2 DEF ActCounts
<1> QED
  BY <1>1, <1>6, <1>7, <1>8

LEMMA CompleteActs ==
  ASSUME RefInv, Removal, Core, ActCounts, NEW a \in Agents, CompleteStep(a)
  PROVE  ActCounts'
<1>0. AdminType /\ FlightInv
  BY DEF RefInv, Core
<1>1. sub' = sub /\ \A b \in Agents \ {a} : agent'[b] = agent[b]
  BY <1>0, CompleteFrame
<1>2. /\ IsFiniteSet(Counted) /\ IsFiniteSet(Uncounting)
      /\ Cardinality(Counted) \in Nat /\ Cardinality(Uncounting) \in Nat
      /\ nrAct = Cardinality(Counted) + Cardinality(Uncounting)
  BY FS_CardinalityType DEF ActCounts
<1>3. \A b \in Agents \ {a} : b \in Uncounting' <=> b \in Uncounting
  BY <1>1 DEF Uncounting
<1>4. Uncounting \subseteq Agents /\ Uncounting' \subseteq Agents
  BY DEF Uncounting
<1>5. CASE FreeAbandoned(a)
  <2>1. PICK d \in Cmds : /\ Abandoned(d) /\ ~Abandoned(d)' /\ sub' = sub
                          /\ \A c \in Cmds \ {d} : Abandoned(c)' <=> Abandoned(c)
    BY <1>5, FreeAbandonedCore
  <2>2. Holds(d) /\ Knows(d)
    BY DEF Core, HeldInv, OwnersKnow
  <2>3. sub[d].pc \in {"timedOut", "returned"}
    BY <2>1, <2>2, NoneAssumption DEF Abandoned, Holds
  <2>4. d \in Counted /\ Counted' = Counted \ {d}
    BY <2>1, <2>3 DEF Counted, OwnsSlot
  <2>5. Cardinality(Counted') = Cardinality(Counted) - 1 /\ IsFiniteSet(Counted')
    BY <1>2, <2>4, FS_RemoveElement
  <2>6. a \notin Uncounting /\ a \in Uncounting' /\ nrAct' = nrAct
    BY <1>0, <1>5, AgentGoesTo DEF FreeAbandoned, Uncounting
  <2>7. Uncounting' = Uncounting \cup {a}
    BY <1>3, <1>4, <2>6
  <2>8. Cardinality(Uncounting') = Cardinality(Uncounting) + 1 /\ IsFiniteSet(Uncounting')
    BY <1>2, <2>6, <2>7, FS_AddElement
  <2> QED
    BY <1>2, <2>5, <2>6, <2>8 DEF ActCounts
<1>6. CASE ~FreeAbandoned(a)
  <2>1. held' = held
    BY <1>6 DEF CompleteStep, LockCq, TakeEntry, SkipEntry, UnlockCq, ReadStatus,
      UncountAbandoned, SwapDone, SwapDoneFails
  <2>2. Counted' = Counted
    BY <1>1, <2>1 DEF Counted, OwnsSlot, Abandoned
  <2>3. CASE UncountAbandoned(a)
    <3>1. a \in Uncounting /\ a \notin Uncounting' /\ nrAct' = nrAct - 1
      BY <1>0, <2>3, CompletionGoesTo DEF UncountAbandoned, Uncounting
    <3>2. Uncounting' = Uncounting \ {a}
      BY <1>3, <1>4, <3>1
    <3>3. /\ Cardinality(Uncounting') = Cardinality(Uncounting) - 1
          /\ IsFiniteSet(Uncounting')
      BY <1>2, <3>1, <3>2, FS_RemoveElement
    <3> QED
      BY <1>2, <2>2, <3>1, <3>3 DEF ActCounts
  <2>4. CASE ~UncountAbandoned(a)
    <3>1. nrAct' = nrAct /\ agent[a].pc # "uncount" /\ agent'[a].pc # "uncount"
      <4>1. CASE LockCq(a) \/ UnlockCq(a) \/ SwapDoneFails(a)
        BY <1>0, <4>1, AgentGoesTo DEF LockCq, UnlockCq, SwapDoneFails, slotVars
      <4>2. CASE \E s \in Slots : TakeEntry(a, s)
        BY <1>0, <4>2, TakeEntryGoesTo DEF TakeEntry, slotVars
      <4>3. CASE ReadStatus(a)
        <5>1. agent'[a].pc = IF status[agent[a].slot] = "FREE_ON_COMPLETE"
                             THEN "free" ELSE "swap"
          BY <1>0, <4>3, ReadStatusGoesTo
        <5>2. agent'[a].pc \in {"free", "swap"}
          BY <5>1
        <5>3. agent[a].pc = "read" /\ nrAct' = nrAct
          BY <4>3 DEF ReadStatus, slotVars
        <5> QED
          BY <5>2, <5>3
      <4>4. CASE SwapDone(a)
        BY <1>0, <4>4, CompletionGoesTo DEF SwapDone
      <4> QED
        BY <1>0, <1>6, <2>4, <4>1, <4>2, <4>3, <4>4, NoEntrySkipped DEF CompleteStep
    <3>2. Uncounting' = Uncounting
      BY <1>3, <1>4, <3>1 DEF Uncounting
    <3> QED
      BY <2>2, <3>1, <3>2 DEF ActCounts
  <2> QED
    BY <2>3, <2>4
<1> QED
  BY <1>5, <1>6

LEMMA OtherActs ==
  ASSUME RefInv, Removal, ActCounts, MaxResets = 0,
         (\E f \in Flushers : FlushStep(f)) \/ ControlSteps
  PROVE  ActCounts'
<1>0. AdminType
  BY DEF RefInv
<1>1. UNCHANGED <<sub, held, nrAct>>
  <2>1. CASE \E f \in Flushers : FlushStep(f)
    BY <1>0, <2>1, FlushFrame DEF slotVars
  <2>2. CASE ControlSteps
    BY <1>0, <2>2, ControlFrame, NoReset DEF Interrupt, ForgetDevice, QuiesceStart,
      DeviceCompletes, slotVars
  <2> QED
    BY <2>1, <2>2
<1>2. \A a \in Agents : agent'[a].pc = "uncount" <=> agent[a].pc = "uncount"
  <2>1. ASSUME NEW f \in Flushers, FlushStep(f)
        PROVE  \A a \in Agents : agent'[a].pc = "uncount" <=> agent[a].pc = "uncount"
    <3>1. agent[f].pc # "uncount" /\ agent'[f].pc # "uncount"
      BY <1>0, <2>1, FlushPcs
    <3> QED
      BY <1>0, <2>1, <3>1, FlushFrame
  <2>2. CASE ControlSteps
    <3>1. CASE Interrupt
      BY <1>0, <3>1 DEF Interrupt, AdminType, Agent, AgentGoes
    <3>2. CASE QuiesceStart
      BY <1>0, <3>2 DEF QuiesceStart, AdminType, Agent, AgentGoes
    <3>3. CASE ForgetDevice \/ \E s \in Slots : DeviceCompletes(s)
      BY <3>3 DEF ForgetDevice, DeviceCompletes
    <3> QED
      BY <2>2, <3>1, <3>2, <3>3, NoReset
  <2> QED
    BY <2>1, <2>2
<1>3. Counted' = Counted /\ Uncounting' = Uncounting
  BY <1>1, <1>2 DEF Counted, Uncounting, OwnsSlot, Abandoned
<1> QED
  BY <1>1, <1>3 DEF ActCounts

-----------------------------------------------------------------------------
LEMMA OwnInvInit == ASSUME Init PROVE OwnInv
<1> USE DEF Init
<1>1. /\ \A c \in Cmds : sub[c].pc = "idle" /\ sub[c].result = None /\ held[c] = 0
      /\ \A a \in Agents : agent[a].pc = "idle"
  OBVIOUS
<1>2. \A c \in Cmds : ~Abandoned(c) /\ ~OwnsSlot(c)
  BY <1>1 DEF Abandoned, OwnsSlot
<1>3. \A t : ~InFlight(t)
  BY <1>1 DEF InFlight, Completes, Completing
<1>4. Removal
  BY <1>1 DEF Removal, Looping, Alone, Flushing, Draining, Completing, Agents, Flushers
<1>5. SlotServesOne /\ AbandonedOwned
  BY <1>2 DEF SlotServesOne, AbandonedOwned
<1>6. FlightInv
  BY <1>1, <1>3 DEF FlightInv, Completing
<1>7. \A c \in Cmds : Knows(c) /\ Holds(c) /\ IsOwed(c)
  BY <1>1, <1>2 DEF Knows, Holds, IsOwed, Preparing, Waiting, HeldPcs
<1>8. Counted = {} /\ Uncounting = {}
  BY <1>1, <1>2 DEF Counted, Uncounting
<1>9. ActCounts
  BY <1>8, FS_EmptySet DEF ActCounts
<1> QED
  BY <1>4, <1>5, <1>6, <1>7, <1>9 DEF OwnInv, Core, OwnersKnow, Owed, HeldInv

LEMMA OwnInvNext ==
  ASSUME MaxResets = 0, RefInv, OwnInv, [Next]_vars
  PROVE  OwnInv'
<1> USE DEF OwnInv
<1>1. ASSUME NEW c \in Cmds, SubSteps(c) PROVE OwnInv'
  <2>1. Removal' /\ Core'
    BY <1>1, RemovalSubmit, SubmitKeepsCore
  <2>2. ActCounts'
    BY <1>1, <2>1, SubmitActs
  <2> QED
    BY <2>1, <2>2
<1>2. ASSUME NEW a \in Agents, CompleteStep(a) PROVE OwnInv'
  BY <1>2, RemovalComplete, CompleteCore, CompleteActs
<1>3. ASSUME NEW f \in Flushers, FlushStep(f) PROVE OwnInv'
  BY <1>3, RemovalFlush, FlushCore, OtherActs
<1>4. CASE ControlSteps
  BY <1>4, RemovalControl, ControlCore, OtherActs
<1>5. CASE UNCHANGED vars
  <2>1. /\ UNCHANGED <<state, isIntrEnabled, isRemoved, status, vmkCmd, nrAct, executing>>
        /\ UNCHANGED <<posted, cqLock, sub, agent, held, resets>>
    BY <1>5 DEF vars, queueVars, slotVars, hwVars, lockVars
  <2>2. Removal'
    BY <2>1 DEF Removal, Looping
  <2>3. \A t : InFlight(t)' <=> InFlight(t)
    BY <2>1 DEF InFlight, Completes
  <2>4. Core'
    BY <2>1, <2>3, FlightCore DEF Core, FlightInv
  <2>5. ActCounts'
    BY <2>1 DEF ActCounts, Counted, Uncounting, OwnsSlot, Abandoned
  <2> QED
    BY <2>2, <2>4, <2>5
<1> QED
  BY <1>1, <1>2, <1>3, <1>4, <1>5, NextIs

(* The status of a slot tells whose it is, for any number of commands and  *)
(* slots, as long as the queue is not reset.                               *)
THEOREM OwnInvHolds == MaxResets = 0 /\ Spec => []OwnInv
<1> SUFFICES ASSUME MaxResets = 0 PROVE Spec => []OwnInv
  OBVIOUS
<1>1. Init => OwnInv
  BY OwnInvInit
<1>2. RefInv /\ OwnInv /\ [Next]_vars => OwnInv'
  BY OwnInvNext
<1> QED
  BY <1>1, <1>2, RefInvHolds, PTL DEF Spec

(* A slot serves one command at a time, also while the waiter gives up on  *)
(* it and the completer takes it over (atomicStatus of the slot).          *)
THEOREM SlotServesOneHolds == MaxResets = 0 /\ Spec => []SlotServesOne
<1>1. OwnInv => SlotServesOne
  BY DEF OwnInv, Core
<1> QED
  BY <1>1, OwnInvHolds, PTL

(* The DMA buffer and the command are freed once, by the waiter or by the  *)
(* completer (NVMEPCIESubmitSyncCommand, NVMEPCIECompleteSyncCommand).     *)
THEOREM ReleasedOnceHolds == MaxResets = 0 /\ Spec => []ReleasedOnce
<1>1. OwnInv => ReleasedOnce
  <2> SUFFICES ASSUME OwnInv, NEW c \in Cmds
               PROVE  /\ held[c] \in {0, 1}
                      /\ sub[c].pc \in {"issue", "wait", "decide", "put"} => held[c] = 1
                      /\ sub[c].result \in {"OK", "FAILURE"} => held[c] = 0
    BY DEF ReleasedOnce
  <2>1. Holds(c)
    BY DEF OwnInv, Core, HeldInv
  <2> QED
    BY <2>1, NoneAssumption DEF Holds, HeldPcs, Waiting
<1> QED
  BY <1>1, OwnInvHolds, PTL

(* A command that was given up has a completer, until the device is gone.  *)
THEOREM AbandonedIsOwedHolds == MaxResets = 0 /\ Spec => []AbandonedIsOwed
<1>1. OwnInv => AbandonedIsOwed
  <2> SUFFICES ASSUME OwnInv, ~isRemoved, NEW s \in Slots, status[s] = "FREE_ON_COMPLETE"
               PROVE  s \in executing \cup posted \cup {agent[a].slot : a \in Agents}
    BY DEF AbandonedIsOwed
  <2>1. PICK c \in Cmds : Abandoned(c) /\ sub[c].slot = s
    BY DEF OwnInv, Core, AbandonedOwned
  <2>2. InFlight(s)
    BY <2>1 DEF OwnInv, Core, Owed, IsOwed, Outstanding
  <2> QED
    BY <2>2 DEF InFlight, Completes
<1> QED
  BY <1>1, OwnInvHolds, PTL

(* nrAct counts the slots in use and those just freed (cmdList->nrAct).    *)
THEOREM NrActCountsHolds == MaxResets = 0 /\ Spec => []NrActCounts
<1>1. OwnInv => NrActCounts
  BY DEF OwnInv, ActCounts, NrActCounts, Counted, Uncounting
<1> QED
  BY <1>1, OwnInvHolds, PTL
=============================================================================
