---------------------------- MODULE IoQueueProofs ----------------------------
(***************************************************************************)
(* Proofs about the life of the IO queues, for any number of queues,       *)
(* commands and cycles, whatever the device answers.                       *)
(*                                                                         *)
(* The invariant: refCount counts the threads that are inside a queue;     *)
(* what a queue has of its parts, its state and whether it is counted      *)
(* follow from where the thread of vmknvme is; a queue that is used by     *)
(* any thread has all its parts; and a handler that runs is waited for.    *)
(***************************************************************************)
EXTENDS IoQueue, FiniteSetTheorems, TLAPS

-----------------------------------------------------------------------------
(* Where the threads are.                                                  *)

SubPcs == {"idle", "entered", "get", "issue", "ring", "put", "leave", "returned"}
SubUses == {"get", "issue", "ring", "put"}
SubInside == SubUses \cup {"entered", "leave"}

HandlerPcs == {"idle", "lockCq", "cq", "complete"}
FlushUses == {"disable", "sync", "lockCq", "cq", "complete", "lockList", "loop"}
FlushInside == FlushUses \cup {"entered", "leave"}
QuiesceWorks == FlushInside \cup {"suspend", "await", "enter"}
QuiescePcs == QuiesceWorks \cup {"idle", "test", "index", "next", "done", "astray"}

Building == {"buildCq", "buildSq", "buildCmds", "unwound"}
Starting == {"init", "createCq", "createSq", "dropCq", "resume"}
Running == {"enable", "count"}
Creating == Building \cup Starting \cup Running
Stopping == {"deleteSq", "deleteCq", "await"}
Flushing == {"enter", "entered", "lockCq", "cq", "complete", "lockList", "loop", "leave"}
Gone == {"drain", "freeCmds", "freeSq", "freeCq", "uncount"}
Deleting == {"suspend", "disable", "sync"} \cup Stopping \cup Flushing
Between == {"idle", "create", "up", "delete"}
ControlPcs == Between \cup Creating \cup Deleting \cup {"destroy"} \cup Gone

At(f, q, pcs) == agent[f].q = q /\ agent[f].pc \in pcs
Holders(q) ==
  {c \in Cmds : sub[c].q = q /\ sub[c].pc \in SubInside}
  \cup {f \in Flushers : At(f, q, FlushInside)}
Used(q) ==
  \/ \E c \in Cmds : sub[c].q = q /\ sub[c].pc \in SubUses
  \/ \E f \in Flushers : At(f, q, FlushUses)
  \/ agent[q].pc # "idle"
Existing == {q \in Queues : state[q] # "NON_EXIST"}

-----------------------------------------------------------------------------
(* The invariant.                                                          *)

Submitter == [pc : SubPcs, q : Queues \cup {0}, ok : BOOLEAN]
Agent == [pc : HandlerPcs \cup ControlPcs \cup QuiescePcs, q : Int, cmd : Int]

IoType ==
  /\ state \in [Queues -> {"NON_EXIST", "SUSPENDED", "ACTIVE"}]
  /\ refCount \in [Queues -> Int]
  /\ parts \in [Queues -> SUBSET Parts]
  /\ isIntrEnabled \in [Queues -> BOOLEAN]
  /\ numIoQueues \in Int /\ maxIoQueues \in 0..NumQueues
  /\ isRemoved \in BOOLEAN /\ enabled \in BOOLEAN
  /\ sub \in [Cmds -> Submitter] /\ agent \in [Agents -> Agent]
  /\ \A c \in Cmds : sub[c].pc # "idle" => sub[c].q \in Queues
  /\ \A q \in Queues : agent[q].pc \in HandlerPcs /\ agent[q].q = q
  /\ ctl.pc \in ControlPcs /\ agent[Quiesce].pc \in QuiescePcs
  /\ ctl.pc \notin Between => ctl.q \in Queues
  /\ ctl.pc = "create" => ctl.q \in 1..(NumQueues + 1)
  /\ agent[Quiesce].pc \in QuiesceWorks => agent[Quiesce].q \in Queues
  /\ known \subseteq Queues /\ qid \in Nat
  /\ outstanding \subseteq Cmds
  /\ listLock \in [Queues -> Flushers \cup {None}]

RefCounts == \A q \in Queues : refCount[q] = Cardinality(Holders(q))

(* The state of the queue that vmknvme's thread works on, or a suspension. *)
States ==
  /\ ctl.pc \in Building \cup Starting \cup Stopping \cup Flushing \cup {"destroy"} =>
       state[ctl.q] = "SUSPENDED"
  /\ ctl.pc \in Running => state[ctl.q] = "ACTIVE"
  /\ ctl.pc \in Gone => state[ctl.q] = "NON_EXIST"
  /\ \A f \in Flushers, q \in Queues :
       At(f, q, {"disable", "sync"}) => state[q] = "SUSPENDED"

(* A handler runs only while its flag is set or somebody waits for it; and *)
(* the flag of a queue that is not active is about to be cleared.          *)
Interrupts ==
  /\ \A q \in Queues : isIntrEnabled[q] =>
       state[q] = "ACTIVE" \/ \E f \in Flushers : At(f, q, {"disable"})
  /\ \A q \in Queues : agent[q].pc # "idle" =>
       isIntrEnabled[q] \/ \E f \in Flushers : At(f, q, {"sync"})
  /\ ctl.pc \in Creating \cup Flushing \cup {"destroy"} \cup Gone =>
       ~At(Quiesce, ctl.q, {"disable", "sync"})

PartsOf(q) ==
  CASE ctl.q = q /\ ctl.pc \in {"buildCq", "unwound"} -> {}
    [] ctl.q = q /\ ctl.pc \in {"buildSq", "freeCq"} -> {"cq"}
    [] ctl.q = q /\ ctl.pc \in {"buildCmds", "freeSq"} -> {"cq", "sq"}
    [] ctl.q = q /\ ctl.pc \in {"drain", "freeCmds"} -> Parts
    [] OTHER -> IF state[q] = "NON_EXIST" THEN {} ELSE Parts
Built == \A q \in Queues : parts[q] = PartsOf(q)

(* A queue that is used exists and is built, or its destruction waits.     *)
UsedIsBuilt ==
  \A q \in Queues : Used(q) =>
    /\ state[q] # "NON_EXIST" \/ (ctl.q = q /\ ctl.pc = "drain")
    /\ ~(ctl.q = q /\ ctl.pc \in Building)

(* Which queues vmknvme knows.                                             *)
Counted ==
  /\ numIoQueues = Cardinality(known)
  /\ Existing = CASE ctl.pc \in Creating \cup {"destroy"} -> known \cup {ctl.q}
                  [] ctl.pc \in Gone -> known \ {ctl.q}
                  [] OTHER -> known
  /\ ctl.pc \in Deleting \cup {"uncount"} => ctl.q \in known
  /\ ctl.pc = "idle" => known = {}
  /\ ctl.pc \in Creating \cup {"create"} =>
       known = 1..(ctl.q - 1) /\ numIoQueues = ctl.q - 1

(* QuiesceDevice is at a queue that is counted.                            *)
Quiescing == agent[Quiesce].pc \in QuiesceWorks => agent[Quiesce].q <= numIoQueues

IoInv ==
  /\ IoType /\ RefCounts /\ States /\ Interrupts /\ Built /\ UsedIsBuilt /\ Counted
  /\ Quiescing

-----------------------------------------------------------------------------
(* Steps of one thread, seen from the others.                              *)

SubMoves(c, pc, q) ==
  /\ sub' \in [Cmds -> Submitter]
  /\ sub'[c].pc = pc /\ sub'[c].q = q
  /\ \A d \in Cmds \ {c} : sub'[d] = sub[d]
AgentMoves(a, pc, q) ==
  /\ agent' \in [Agents -> Agent]
  /\ agent'[a].pc = pc /\ agent'[a].q = q
  /\ \A b \in Agents \ {a} : agent'[b] = agent[b]

LEMMA AgentsAre ==
  /\ Control \in Agents /\ Quiesce \in Agents /\ Control # Quiesce
  /\ Flushers = {Control, Quiesce} /\ Flushers \subseteq Agents
  /\ Queues \subseteq Agents /\ Control \notin Queues /\ Quiesce \notin Queues
  /\ None \notin Agents
BY NumQueuesAssumption DEF Agents, Flushers, Control, Quiesce, Queues, None

LEMMA SubGoesMoves ==
  ASSUME IoType, NEW c \in Cmds, NEW pc \in SubPcs, SubGoes(c, pc)
  PROVE  SubMoves(c, pc, sub[c].q) /\ sub'[c].ok = sub[c].ok
BY DEF IoType, SubGoes, SubMoves, Submitter

LEMMA GoesMoves ==
  ASSUME IoType, NEW a \in Agents, NEW pc \in HandlerPcs \cup ControlPcs \cup QuiescePcs,
         Goes(a, pc)
  PROVE  AgentMoves(a, pc, agent[a].q) /\ agent'[a].cmd = agent[a].cmd
BY DEF IoType, Goes, AgentMoves, Agent

LEMMA ControlNextMoves ==
  ASSUME IoType, NEW pc \in ControlPcs, NEW q \in Int, ControlNext(pc, q)
  PROVE  AgentMoves(Control, pc, q) /\ agent'[Control].cmd = agent[Control].cmd
<1>1. Control \in Agents /\ agent \in [Agents -> Agent]
  BY AgentsAre DEF IoType
<1>2. agent' = [agent EXCEPT ![Control].pc = pc, ![Control].q = q]
  BY DEF ControlNext
<1>3. [agent[Control] EXCEPT !.pc = pc, !.q = q] \in Agent
  BY <1>1 DEF Agent
<1>4. agent' = [agent EXCEPT ![Control] = [agent[Control] EXCEPT !.pc = pc, !.q = q]]
  BY <1>1, <1>2 DEF Agent
<1> QED
  BY <1>1, <1>3, <1>4 DEF AgentMoves, Agent

CmdGoes(a, pc, cmd) == agent' = [agent EXCEPT ![a].pc = pc, ![a].cmd = cmd]

LEMMA CmdMoves ==
  ASSUME IoType, NEW a \in Agents, NEW pc \in HandlerPcs \cup ControlPcs \cup QuiescePcs,
         NEW cmd \in Int, CmdGoes(a, pc, cmd)
  PROVE  AgentMoves(a, pc, agent[a].q)
<1>1. agent \in [Agents -> Agent] /\ agent[a] \in Agent
  BY DEF IoType
<1>2. [agent[a] EXCEPT !.pc = pc, !.cmd = cmd] \in Agent
  BY <1>1 DEF Agent
<1>3. agent' = [agent EXCEPT ![a] = [agent[a] EXCEPT !.pc = pc, !.cmd = cmd]]
  BY <1>1 DEF Agent, CmdGoes
<1> QED
  BY <1>1, <1>2, <1>3 DEF AgentMoves, Agent

(* The places in the code that handlers and flushers come to.              *)
LEMMA PcsAre ==
  /\ HandlerPcs \cup FlushInside \cup {"enter", "await", "suspend"} \subseteq
       HandlerPcs \cup ControlPcs \cup QuiescePcs
  /\ {"idle", "test", "index", "next", "done", "astray"} \subseteq QuiescePcs
BY DEF HandlerPcs, ControlPcs, QuiescePcs, QuiesceWorks, FlushInside, FlushUses

LEMMA CmdsAre == \A c \in Cmds : c \notin Flushers
BY NumCmdsAssumption DEF Cmds, Flushers, Control, Quiesce

(* Threads inside a queue.                                                 *)
LEMMA HoldersFinite == ASSUME NEW q PROVE IsFiniteSet(Holders(q))
<1>1. IsFiniteSet(Cmds)
  BY NumCmdsAssumption, FS_Interval DEF Cmds
<1>2. IsFiniteSet(Flushers)
  <2>1. Quiesce \in Int /\ Control \in Int /\ Flushers \subseteq Quiesce..Control
    BY DEF Flushers, Control, Quiesce
  <2>2. IsFiniteSet(Quiesce..Control)
    BY <2>1, FS_Interval
  <2> QED
    BY <2>1, <2>2, FS_Subset
<1>3. IsFiniteSet({c \in Cmds : sub[c].q = q /\ sub[c].pc \in SubInside})
  BY <1>1, FS_Subset
<1>4. IsFiniteSet({f \in Flushers : At(f, q, FlushInside)})
  BY <1>2, FS_Subset
<1> QED
  BY <1>3, <1>4, FS_Union DEF Holders

LEMMA NoHolders ==
  ASSUME RefCounts, NEW q \in Queues, refCount[q] = 0 PROVE Holders(q) = {}
BY HoldersFinite, FS_EmptySet DEF RefCounts

LEMMA HoldersStay ==
  ASSUME RefCounts, UNCHANGED refCount, \A q \in Queues : Holders(q)' = Holders(q)
  PROVE  RefCounts'
BY DEF RefCounts

LEMMA HolderEnters ==
  ASSUME IoType, RefCounts, NEW q \in Queues, NEW x, x \notin Holders(q),
         Holders(q)' = Holders(q) \cup {x},
         \A p \in Queues \ {q} : Holders(p)' = Holders(p),
         refCount' = [refCount EXCEPT ![q] = @ + 1]
  PROVE  RefCounts' /\ refCount' \in [Queues -> Int]
<1>1. Cardinality(Holders(q)') = Cardinality(Holders(q)) + 1
  BY HoldersFinite, FS_AddElement
<1>2. refCount \in [Queues -> Int] /\ refCount[q] = Cardinality(Holders(q))
  BY DEF IoType, RefCounts
<1>3. refCount' \in [Queues -> Int] /\ refCount'[q] = Cardinality(Holders(q)')
  <2>1. refCount' \in [Queues -> Int] /\ refCount'[q] = refCount[q] + 1
    BY <1>2
  <2> QED
    BY <2>1, <1>1, <1>2
<1>4. ASSUME NEW p \in Queues PROVE refCount'[p] = Cardinality(Holders(p)')
  <2>1. CASE p = q
    BY <1>3, <2>1
  <2>2. CASE p # q
    <3>1. refCount'[p] = refCount[p] /\ Holders(p)' = Holders(p)
      BY <1>2, <2>2
    <3>2. refCount[p] = Cardinality(Holders(p))
      BY DEF RefCounts
    <3> QED
      BY <3>1, <3>2
  <2> QED
    BY <2>1, <2>2
<1> QED
  BY <1>3, <1>4 DEF RefCounts

LEMMA HolderLeaves ==
  ASSUME IoType, RefCounts, NEW q \in Queues, NEW x \in Holders(q),
         Holders(q)' = Holders(q) \ {x},
         \A p \in Queues \ {q} : Holders(p)' = Holders(p),
         refCount' = [refCount EXCEPT ![q] = @ - 1]
  PROVE  RefCounts' /\ refCount' \in [Queues -> Int]
<1>1. Cardinality(Holders(q)') = Cardinality(Holders(q)) - 1
  BY HoldersFinite, FS_RemoveElement
<1>2. refCount \in [Queues -> Int] /\ refCount[q] = Cardinality(Holders(q))
  BY DEF IoType, RefCounts
<1>3. refCount' \in [Queues -> Int] /\ refCount'[q] = Cardinality(Holders(q)')
  BY <1>1, <1>2
<1>4. ASSUME NEW p \in Queues PROVE refCount'[p] = Cardinality(Holders(p)')
  <2>1. CASE p = q
    BY <1>3, <2>1
  <2>2. CASE p # q
    <3>1. refCount'[p] = refCount[p] /\ Holders(p)' = Holders(p)
      BY <1>2, <2>2
    <3>2. refCount[p] = Cardinality(Holders(p))
      BY DEF RefCounts
    <3> QED
      BY <3>1, <3>2
  <2> QED
    BY <2>1, <2>2
<1> QED
  BY <1>3, <1>4 DEF RefCounts

-----------------------------------------------------------------------------
(* The submitters.                                                         *)

LEMMA SubStepOK ==
  ASSUME IoInv, NEW c \in Cmds, NEW pc \in SubPcs, NEW q \in Queues,
         SubMoves(c, pc, q), pc # "idle", sub[c].pc = "idle" \/ sub[c].q = q,
         pc \in SubUses => sub[c].pc \in SubUses \/ state[q] = "ACTIVE",
         RefCounts', refCount' \in [Queues -> Int], outstanding' \subseteq Cmds,
         UNCHANGED <<state, parts, isIntrEnabled, ctrlrVars, agent, qid, known, listLock>>
  PROVE  IoInv'
<1> USE DEF IoInv, ctl
<1>1. UNCHANGED <<state, parts, isIntrEnabled, numIoQueues, maxIoQueues, isRemoved, enabled,
                  agent, qid, known, listLock>>
  BY DEF ctrlrVars
<1>2. IoType'
  BY <1>1 DEF IoType, SubMoves
<1>3. (States /\ Interrupts)'
  BY <1>1 DEF States, Interrupts, At
<1>4. (Built /\ Counted /\ Quiescing)'
  BY <1>1 DEF Built, PartsOf, Counted, Quiescing, Existing
<1>5. ASSUME NEW p \in Queues, Used(p)' PROVE Used(p) \/ state[p] = "ACTIVE"
  BY <1>1, <1>5 DEF Used, SubMoves, SubUses, At
<1>6. ASSUME NEW p \in Queues, state[p] = "ACTIVE"
      PROVE  ~(ctl.q = p /\ ctl.pc \in Building)
  BY <1>6 DEF States
<1>7. UsedIsBuilt'
  BY <1>1, <1>5, <1>6 DEF UsedIsBuilt
<1> QED
  BY <1>2, <1>3, <1>4, <1>7

LEMMA SubmitEnterOK ==
  ASSUME IoInv, NEW c \in Cmds, NEW q \in Queues, SubmitEnter(c, q) PROVE IoInv'
<1>1. /\ sub[c].pc = "idle" /\ q \in Queues /\ refCount' = [refCount EXCEPT ![q] = @ + 1]
      /\ UNCHANGED <<state, parts, isIntrEnabled, ctrlrVars, agent, qid, known, listLock,
                     outstanding>>
  BY DEF SubmitEnter, lockVars, callVars, cmdVars
<1>2. SubMoves(c, "entered", q)
  BY ZenonT(40) DEF SubmitEnter, SubMoves, IoInv, IoType, Submitter, SubPcs, SubInside
<1>3. /\ c \notin Holders(q) /\ Holders(q)' = Holders(q) \cup {c}
      /\ \A p \in Queues \ {q} : Holders(p)' = Holders(p)
  BY <1>1, <1>2, CmdsAre DEF Holders, SubMoves, SubInside, SubUses, At
<1>4. RefCounts' /\ refCount' \in [Queues -> Int]
  BY <1>1, <1>3, HolderEnters DEF IoInv
<1> QED
  BY <1>1, <1>2, <1>4, SubStepOK DEF SubPcs, SubUses, IoInv, IoType

LEMMA SubmitLeaveOK ==
  ASSUME IoInv, NEW c \in Cmds, SubmitLeave(c) PROVE IoInv'
<1>0. PICK q \in Queues : sub[c].q = q
  BY DEF SubmitLeave, IoInv, IoType
<1>1. /\ sub[c].pc = "leave" /\ refCount' = [refCount EXCEPT ![q] = @ - 1]
      /\ UNCHANGED <<state, parts, isIntrEnabled, ctrlrVars, agent, qid, known, listLock,
                     outstanding>>
  BY <1>0 DEF SubmitLeave, lockVars, callVars, cmdVars
<1>2. SubMoves(c, "returned", q)
  BY <1>0, SubGoesMoves DEF SubmitLeave, IoInv, SubPcs
<1>3. /\ c \in Holders(q) /\ Holders(q)' = Holders(q) \ {c}
      /\ \A p \in Queues \ {q} : Holders(p)' = Holders(p)
  BY <1>0, <1>1, <1>2, CmdsAre DEF Holders, SubMoves, SubInside, SubUses, At
<1>4. RefCounts' /\ refCount' \in [Queues -> Int]
  BY <1>1, <1>3, HolderLeaves DEF IoInv
<1> QED
  BY <1>0, <1>1, <1>2, <1>4, SubStepOK DEF SubPcs, SubUses, IoInv, IoType

(* In between the reference is held.                                       *)
LEMMA SubInsideOK ==
  ASSUME IoInv, NEW c \in Cmds,
         SubmitChecks(c) \/ Ring(c) \/ PutSlot(c)
         \/ \E yes \in BOOLEAN : GetSlot(c, yes) \/ Issue(c, yes)
  PROVE  IoInv'
<1> DEFINE q == sub[c].q
<1>1. /\ sub[c].pc \in SubInside /\ q \in Queues
      /\ UNCHANGED <<state, refCount, parts, isIntrEnabled, ctrlrVars, agent, qid, known,
                     listLock>>
      /\ outstanding' \subseteq Cmds
  BY DEF SubmitChecks, Ring, PutSlot, GetSlot, Issue, lockVars, callVars, cmdVars, queueVars,
         IoInv, IoType, SubInside, SubUses
<1>2. PICK pc \in SubInside :
        SubMoves(c, pc, q) /\ (pc \in SubUses => sub[c].pc \in SubUses \/ state[q] = "ACTIVE")
  <2>1. CASE SubmitChecks(c)
    BY <2>1, SubGoesMoves DEF SubmitChecks, IoInv, SubPcs, SubInside, SubUses
  <2>2. CASE Ring(c)
    BY ZenonT(40), <2>2 DEF Ring, SubMoves, IoInv, IoType, Submitter, SubPcs, SubInside, SubUses
  <2>3. CASE PutSlot(c)
    BY <2>3, SubGoesMoves DEF PutSlot, IoInv, SubPcs, SubInside, SubUses
  <2>4. CASE \E yes \in BOOLEAN : GetSlot(c, yes)
    BY <2>4, SubGoesMoves DEF GetSlot, IoInv, SubPcs, SubInside, SubUses
  <2>5. CASE \E yes \in BOOLEAN : Issue(c, yes)
    BY <2>5, SubGoesMoves DEF Issue, IoInv, SubPcs, SubInside, SubUses
  <2> QED
    BY <2>1, <2>2, <2>3, <2>4, <2>5
<1> HIDE DEF q
<1>3. \A p \in Queues : Holders(p)' = Holders(p)
  BY <1>1, <1>2 DEF Holders, SubMoves, At, q
<1>4. RefCounts' /\ refCount' \in [Queues -> Int]
  BY <1>1, <1>3, HoldersStay DEF IoInv, IoType
<1> QED
  BY <1>1, <1>2, <1>4, SubStepOK DEF SubPcs, SubUses, SubInside, q

-----------------------------------------------------------------------------
(* The device and its removal.                                             *)

LEMMA DeviceOK ==
  ASSUME IoInv, ForgetDevice \/ \E c \in Cmds : DeviceCompletes(c) PROVE IoInv'
<1> USE DEF IoInv, ctl
<1>1. /\ UNCHANGED <<state, refCount, parts, isIntrEnabled, numIoQueues, maxIoQueues, enabled,
                     agent, sub, qid, known, outstanding, listLock>>
      /\ isRemoved' \in BOOLEAN
  BY DEF ForgetDevice, DeviceCompletes, queueVars, ctrlrVars, cmdVars, lockVars, callVars,
         IoType
<1>2. (IoType /\ States /\ Interrupts)'
  BY <1>1 DEF IoType, States, Interrupts, At
<1>3. (Built /\ UsedIsBuilt /\ Counted /\ Quiescing)'
  BY <1>1 DEF Built, PartsOf, UsedIsBuilt, Used, Counted, Quiescing, Existing, At
<1>4. RefCounts'
  BY <1>1 DEF RefCounts, Holders, At
<1> QED
  BY <1>2, <1>3, <1>4

-----------------------------------------------------------------------------
(* The handlers, and the flushers between their reference and its end.     *)

(* A queue that is counted is not being built.                             *)
LEMMA QuiescedIsKnown ==
  ASSUME IoInv, agent[Quiesce].pc \in QuiesceWorks
  PROVE  /\ ctl.pc \in Creating \cup {"create"} => agent[Quiesce].q # ctl.q
         /\ agent[Quiesce].q \in Queues
<1>1. agent[Quiesce].q \in Queues /\ agent[Quiesce].q <= numIoQueues
  BY DEF IoInv, IoType, Quiescing
<1>2. ASSUME ctl.pc \in Creating \cup {"create"} PROVE agent[Quiesce].q # ctl.q
  <2>1. numIoQueues = ctl.q - 1 /\ ctl.q \in Int
    BY <1>2, AgentsAre DEF IoInv, Counted, IoType, Agent, ctl
  <2> QED
    BY <1>1, <2>1 DEF Queues
<1> QED
  BY <1>1, <1>2

HandlerStep(q, pc) ==
  /\ AgentMoves(q, pc, q) /\ pc \in HandlerPcs
  /\ agent[q].pc = "idle" => isIntrEnabled[q]
  /\ UNCHANGED <<queueVars, ctrlrVars, sub, qid, known, listLock>>
  /\ outstanding' \subseteq Cmds

LEMMA HandlerStepOK == ASSUME IoInv, NEW q \in Queues, NEW pc, HandlerStep(q, pc) PROVE IoInv'
<1> USE AgentsAre DEF IoInv, ctl
<1>1. /\ UNCHANGED <<state, refCount, parts, isIntrEnabled, numIoQueues, maxIoQueues,
                     isRemoved, enabled, sub, qid, known, listLock>>
      /\ agent' \in [Agents -> Agent] /\ agent'[q].pc = pc /\ agent'[q].q = q
      /\ \A b \in Agents \ {q} : agent'[b] = agent[b]
      /\ outstanding' \subseteq Cmds /\ pc \in HandlerPcs
      /\ agent[q].pc = "idle" => isIntrEnabled[q]
  BY DEF HandlerStep, AgentMoves, queueVars, ctrlrVars
<1>2. agent'[Control] = agent[Control] /\ agent'[Quiesce] = agent[Quiesce]
  BY <1>1
<1>3. ASSUME NEW f \in Flushers, NEW p, NEW pcs PROVE At(f, p, pcs)' = At(f, p, pcs)
  BY <1>2 DEF At
<1>4. IoType'
  BY <1>1, <1>2 DEF IoType
<1>5. RefCounts'
  BY <1>1, <1>3 DEF RefCounts, Holders
<1>6. States'
  BY <1>1, <1>2, <1>3 DEF States
<1>7. Interrupts'
  BY <1>1, <1>2, <1>3 DEF Interrupts, At
<1>8. (Built /\ Counted /\ Quiescing)'
  BY <1>1, <1>2 DEF Built, PartsOf, Counted, Quiescing, Existing
<1>9. ASSUME NEW p \in Queues, Used(p)'
      PROVE  Used(p) \/ isIntrEnabled[p]
  BY <1>1, <1>3, <1>9 DEF Used
<1>10. ASSUME NEW p \in Queues, isIntrEnabled[p] PROVE Used(p) \/ state[p] = "ACTIVE"
  BY <1>10 DEF Interrupts, Used, At, FlushUses
<1>11. ASSUME NEW p \in Queues, state[p] = "ACTIVE"
       PROVE  ~(ctl.q = p /\ ctl.pc \in Building)
  BY <1>11 DEF States
<1>12. UsedIsBuilt'
  BY <1>1, <1>2, <1>9, <1>10, <1>11 DEF UsedIsBuilt
<1> QED
  BY <1>4, <1>5, <1>6, <1>7, <1>8, <1>12

(* From the check of the state to the end of the flush.                    *)
FlushChecked == {"lockCq", "cq", "complete", "lockList", "loop"}
FlusherStep(f, pc) ==
  /\ AgentMoves(f, pc, agent[f].q)
  /\ agent[f].pc \in FlushChecked \cup {"entered"} /\ pc \in FlushChecked \cup {"leave"}
  /\ pc \in FlushChecked => agent[f].pc \in FlushChecked \/ state[agent[f].q] # "NON_EXIST"
  /\ UNCHANGED <<queueVars, ctrlrVars, sub, qid, known>>
  /\ listLock' \in [Queues -> Flushers \cup {None}]
  /\ outstanding' \subseteq Cmds

LEMMA FlusherStepOK ==
  ASSUME IoInv, NEW f \in Flushers, NEW pc, FlusherStep(f, pc) PROVE IoInv'
<1> USE AgentsAre DEF IoInv, ctl, FlushChecked
<1>0. PICK q \in Queues : agent[f].q = q
  BY DEF FlusherStep, IoType, QuiesceWorks, FlushInside, FlushUses, Between
<1>1. /\ UNCHANGED <<state, refCount, parts, isIntrEnabled, numIoQueues, maxIoQueues,
                     isRemoved, enabled, sub, qid, known>>
      /\ agent' \in [Agents -> Agent] /\ agent'[f].pc = pc /\ agent'[f].q = q
      /\ \A b \in Agents \ {f} : agent'[b] = agent[b]
      /\ agent[f].pc \in FlushChecked \cup {"entered"} /\ pc \in FlushChecked \cup {"leave"}
      /\ pc \in FlushChecked => agent[f].pc \in FlushChecked \/ state[q] # "NON_EXIST"
  BY <1>0 DEF FlusherStep, AgentMoves, queueVars, ctrlrVars
<1>2. \A p \in Queues : agent'[p] = agent[p]
  BY <1>1
<1>3. ASSUME NEW g \in Flushers, NEW p
      PROVE  /\ At(g, p, FlushInside)' = At(g, p, FlushInside)
             /\ At(g, p, {"disable"})' = At(g, p, {"disable"})
             /\ At(g, p, {"sync"})' = At(g, p, {"sync"})
             /\ At(g, p, {"disable", "sync"})' = At(g, p, {"disable", "sync"})
             /\ At(g, p, FlushUses)' => At(g, p, FlushUses) \/ (g = f /\ p = q)
  BY <1>0, <1>1 DEF At, FlushInside, FlushUses
<1>4. /\ f = Control => ctl.pc \in Flushing /\ ctl'.pc \in Flushing /\ ctl'.q = ctl.q
      /\ f = Quiesce => ctl' = ctl
  BY <1>0, <1>1 DEF Flushing
<1>5. IoType'
  <2>1. outstanding' \subseteq Cmds /\ listLock' \in [Queues -> Flushers \cup {None}]
    BY DEF FlusherStep
  <2>2. pc \in QuiescePcs /\ pc \in Flushing
    BY <1>1 DEF QuiescePcs, QuiesceWorks, FlushInside, FlushUses, Flushing
  <2> QED
    BY <1>0, <1>1, <1>2, <1>4, <2>1, <2>2 DEF IoType, ControlPcs, Deleting, Flushing, Between
<1>6. RefCounts'
  BY <1>1, <1>3 DEF RefCounts, Holders
<1>7. States'
  BY <1>1, <1>3, <1>4 DEF States, Flushing, Building, Starting, Stopping, Running, Gone
<1>8. Interrupts'
  BY <1>1, <1>2, <1>3, <1>4 DEF Interrupts, Flushing
<1>9. Built'
  BY <1>1, <1>4 DEF Built, PartsOf, Flushing
<1>10. Counted'
  BY <1>1, <1>4 DEF Counted, Existing, Flushing, Creating, Building, Starting, Running, Gone,
                    Deleting
<1>11. Quiescing'
  BY <1>0, <1>1 DEF Quiescing, QuiesceWorks, FlushInside, FlushUses
<1>12. UsedIsBuilt'
  <2>1. ASSUME NEW p \in Queues, Used(p)' PROVE Used(p) \/ (p = q /\ At(f, q, FlushUses)')
    BY <1>1, <1>2, <1>3, <2>1 DEF Used
  <2>2. ASSUME At(f, q, FlushUses)'
        PROVE  Used(q) \/ state[q] # "NON_EXIST"
    BY <1>0, <1>1, <2>2 DEF Used, At, FlushUses
  <2>3. ~(ctl.q = q /\ ctl.pc \in Building)
    <3>1. CASE f = Control
      BY <1>4, <3>1 DEF Flushing, Building
    <3>2. CASE f = Quiesce
      BY <1>0, <1>1, <3>2, QuiescedIsKnown
      DEF Creating, QuiesceWorks, FlushInside, FlushUses
    <3> QED
      BY <3>1, <3>2
  <2>4. ctl'.q = ctl.q /\ (ctl'.pc = ctl.pc \/ (ctl.pc \in Flushing /\ ctl'.pc \in Flushing))
    BY <1>4
  <2> QED
    BY <1>1, <2>1, <2>2, <2>3, <2>4 DEF UsedIsBuilt, Flushing, Building
<1> QED
  BY <1>5, <1>6, <1>7, <1>8, <1>9, <1>10, <1>11, <1>12

LEMMA InterruptOK == ASSUME IoInv, NEW q \in Queues, Interrupt(q) PROVE IoInv'
<1>1. AgentMoves(q, "lockCq", q)
  BY AgentsAre, GoesMoves DEF Interrupt, IoInv, IoType, HandlerPcs
<1> QED
  BY <1>1, HandlerStepOK
  DEF HandlerStep, Interrupt, HandlerPcs, lockVars, callVars, cmdVars, IoInv, IoType

(* What a step of NVMEPCIEProcessCq does to its thread.                    *)
LEMMA CompleteMoves ==
  ASSUME IoInv, NEW a \in Agents, CompleteStep(a)
  PROVE  /\ \E pc \in {"cq", "complete", IF a \in Flushers THEN "lockList" ELSE "idle",
                       IF listLock[agent[a].q] = a THEN "loop" ELSE "cq"} :
              AgentMoves(a, pc, agent[a].q)
         /\ agent[a].pc \in {"lockCq", "cq", "complete"}
         /\ UNCHANGED <<queueVars, ctrlrVars, sub, qid, known, listLock>>
         /\ outstanding' \subseteq Cmds
<1> USE PcsAre DEF lockVars, callVars, cmdVars, HandlerPcs, FlushInside, FlushUses
<1>0. IoType /\ outstanding \subseteq Cmds /\ agent \in [Agents -> Agent] /\ agent[a] \in Agent
  BY DEF IoInv, IoType
<1>1. CASE LockCq(a)
  <2>1. AgentMoves(a, "cq", agent[a].q)
    BY <1>0, <1>1, GoesMoves DEF LockCq
  <2> QED
    BY <1>0, <1>1, <2>1 DEF LockCq
<1>2. ASSUME NEW c \in Cmds, TakeEntry(a, c)
      PROVE  /\ AgentMoves(a, "cq", agent[a].q) \/ AgentMoves(a, "complete", agent[a].q)
             /\ agent[a].pc = "cq"
             /\ UNCHANGED <<queueVars, ctrlrVars, sub, qid, known, listLock, outstanding>>
  <2>1. CASE c \in outstanding
    <3>1. CmdGoes(a, "complete", c) /\ c \in Int
      BY <1>2, <2>1, NumCmdsAssumption DEF TakeEntry, Cmds, CmdGoes
    <3> QED
      BY <1>0, <1>2, <3>1, CmdMoves DEF TakeEntry
  <2>2. CASE c \notin outstanding
    BY <1>0, <1>2, <2>2 DEF TakeEntry, AgentMoves
  <2> QED
    BY <2>1, <2>2
<1>3. CASE UnlockCq(a)
  <2>1. AgentMoves(a, IF a \in Flushers THEN "lockList" ELSE "idle", agent[a].q)
    BY <1>0, <1>3, GoesMoves DEF UnlockCq
  <2> QED
    BY <1>0, <1>3, <2>1 DEF UnlockCq
<1>4. CASE Complete(a)
  <2>1. CASE listLock[agent[a].q] = a
    <3>1. CmdGoes(a, "loop", agent[a].cmd + 1) /\ agent[a].cmd + 1 \in Int
      BY <1>0, <1>4, <2>1 DEF Complete, CmdGoes, Agent
    <3>2. AgentMoves(a, "loop", agent[a].q)
      BY <1>0, <3>1, CmdMoves
    <3> QED
      BY <1>0, <1>4, <2>1, <3>2 DEF Complete
  <2>2. CASE listLock[agent[a].q] # a
    <3>1. CmdGoes(a, "cq", 0)
      BY <1>4, <2>2 DEF Complete, CmdGoes
    <3>2. AgentMoves(a, "cq", agent[a].q)
      BY <1>0, <3>1, CmdMoves
    <3> QED
      BY <1>0, <1>4, <3>2 DEF Complete
  <2> QED
    BY <2>1, <2>2
<1> QED
  BY <1>0, <1>1, <1>2, <1>3, <1>4 DEF CompleteStep

LEMMA CompleteStepOK == ASSUME IoInv, NEW a \in Agents, CompleteStep(a) PROVE IoInv'
<1>1. CASE a \in Queues
  <2>1. listLock[agent[a].q] # a /\ a \notin Flushers /\ agent[a].q = a
    BY <1>1, AgentsAre DEF IoInv, IoType
  <2>2. PICK pc \in {"cq", "complete", "idle"} : AgentMoves(a, pc, a)
    BY <2>1, CompleteMoves
  <2> QED
    BY <1>1, <2>2, CompleteMoves, HandlerStepOK DEF HandlerStep, HandlerPcs
<1>2. CASE a \in Flushers
  <2>1. PICK pc \in {"cq", "complete", "lockList", "loop"} : AgentMoves(a, pc, agent[a].q)
    BY <1>2, CompleteMoves
  <2>2. listLock' \in [Queues -> Flushers \cup {None}]
    BY CompleteMoves DEF IoInv, IoType
  <2> QED
    BY <1>2, <2>1, <2>2, CompleteMoves, FlusherStepOK DEF FlusherStep, FlushChecked
<1> QED
  BY <1>1, <1>2 DEF Agents

LEMMA FlushListMoves ==
  ASSUME IoInv, NEW f \in Flushers, LockList(f) \/ FlushSlot(f) \/ UnlockList(f)
  PROVE  \E pc \in {"loop", "complete", "leave"} : AgentMoves(f, pc, agent[f].q)
<1>0. /\ IoType /\ f \in Agents /\ agent[f] \in Agent /\ agent[f].cmd + 1 \in Int
      /\ {"loop", "leave", "complete"} \subseteq HandlerPcs \cup ControlPcs \cup QuiescePcs
  BY AgentsAre DEF QuiescePcs, QuiesceWorks, FlushInside, FlushUses, IoInv, IoType, Agent
<1>1. CASE LockList(f)
  <2>1. CmdGoes(f, "loop", 1)
    BY <1>1 DEF LockList, CmdGoes
  <2> QED
    BY <1>0, <2>1, CmdMoves
<1>2. CASE UnlockList(f)
  <2>1. CmdGoes(f, "leave", 0)
    BY <1>2 DEF UnlockList, CmdGoes
  <2> QED
    BY <1>0, <2>1, CmdMoves
<1>3. CASE FlushSlot(f) /\ agent[f].cmd \in outstanding \cap On(agent[f].q)
  <2>1. Goes(f, "complete")
    BY <1>3 DEF FlushSlot, Goes
  <2> QED
    BY <1>0, <2>1, GoesMoves
<1>4. CASE FlushSlot(f) /\ agent[f].cmd \notin outstanding \cap On(agent[f].q)
  <2>1. agent' = [agent EXCEPT ![f].cmd = agent[f].cmd + 1] /\ agent[f].pc = "loop"
    BY <1>4 DEF FlushSlot
  <2>2. CmdGoes(f, "loop", agent[f].cmd + 1)
    BY ZenonT(40), <1>0, <2>1 DEF CmdGoes, IoType, Agent
  <2> QED
    BY <1>0, <2>2, CmdMoves
<1> QED
  BY <1>1, <1>2, <1>3, <1>4

LEMMA FlushListOK ==
  ASSUME IoInv, NEW f \in Flushers,
         FlushChecks(f) \/ LockList(f) \/ FlushSlot(f) \/ UnlockList(f)
  PROVE  IoInv'
<1> USE AgentsAre DEF IoInv, IoType, lockVars, callVars, cmdVars, ControlPcs, Flushing, Deleting
<1>1. CASE FlushChecks(f)
  <2>1. PICK pc \in {"leave", "lockCq"} :
          /\ AgentMoves(f, pc, agent[f].q)
          /\ pc = "lockCq" => state[agent[f].q] # "NON_EXIST"
    BY <1>1, GoesMoves DEF FlushChecks
  <2> QED
    BY <1>1, <2>1, FlusherStepOK DEF FlushChecks, FlusherStep, FlushChecked
<1>2. CASE LockList(f) \/ FlushSlot(f) \/ UnlockList(f)
  <2>1. PICK pc \in {"loop", "complete", "leave"} : AgentMoves(f, pc, agent[f].q)
    BY <1>2, FlushListMoves
  <2>2. listLock' \in [Queues -> Flushers \cup {None}]
    BY <1>2 DEF LockList, FlushSlot, UnlockList
  <2>3. FlusherStep(f, pc)
    BY <1>2, <2>1, <2>2 DEF LockList, FlushSlot, UnlockList, FlusherStep, FlushChecked
  <2> QED
    BY <2>3, FlusherStepOK
<1> QED
  BY <1>1, <1>2

-----------------------------------------------------------------------------
(* QuiesceDevice outside a queue.                                          *)

LEMMA QuiesceOK == ASSUME IoInv, QuiesceStart \/ QuiesceStep PROVE IoInv'
<1> USE AgentsAre DEF IoInv, IoType
<1> DEFINE Outside == {"idle", "test", "index", "next", "done", "astray"}
<1>0. Quiesce \in Agents /\ agent[Quiesce] \in Agent
  OBVIOUS
<1>1. PICK pc \in Outside \cup {"suspend"}, q \in Int :
        /\ AgentMoves(Quiesce, pc, q)
        /\ pc = "suspend" => q \in Queues /\ q <= numIoQueues
        /\ agent[Quiesce].pc \in Outside
        /\ qid' \in Nat
        /\ UNCHANGED <<queueVars, ctrlrVars, sub, known, listLock, outstanding>>
  <2> USE DEF callVars, lockVars, cmdVars
  <2>1. CASE QuiesceStart
    <3>1. AgentMoves(Quiesce, "test", agent[Quiesce].q)
      BY <1>0, <2>1, GoesMoves DEF QuiesceStart, QuiescePcs
    <3> QED
      BY <1>0, <2>1, <3>1 DEF QuiesceStart, Agent
  <2>2. CASE QuiesceTest
    <3>1. PICK pc \in {"index", "done"} : AgentMoves(Quiesce, pc, agent[Quiesce].q)
      BY <1>0, <2>2, GoesMoves DEF QuiesceTest, QuiescePcs
    <3> QED
      BY <1>0, <2>2, <3>1 DEF QuiesceTest, Agent
  <2>3. CASE QuiesceIndex
    <3> DEFINE q == numIoQueues - qid
               pc == IF q > 0 THEN "suspend" ELSE IF q = 0 THEN "next" ELSE "astray"
    <3>1. q \in Int /\ q <= numIoQueues
      OBVIOUS
    <3>2. pc = "suspend" => q \in Queues
      <4>1. numIoQueues <= NumQueues
        <5>1. IsFiniteSet(Queues) /\ Cardinality(Queues) = NumQueues
          BY NumQueuesAssumption, FS_Interval DEF Queues
        <5> QED
          BY <5>1, FS_Subset DEF Counted
      <4> QED
        BY <3>1, <4>1, NumQueuesAssumption DEF Queues
    <3>3. /\ agent' = [agent EXCEPT ![Quiesce] = [agent[Quiesce] EXCEPT !.pc = pc, !.q = q]]
          /\ [agent[Quiesce] EXCEPT !.pc = pc, !.q = q] \in Agent
      <4>1. pc \in QuiescePcs
        BY DEF QuiescePcs, QuiesceWorks
      <4> QED
        BY <1>0, <2>3, <3>1, <4>1 DEF QuiesceIndex, Agent
    <3>4. AgentMoves(Quiesce, pc, q)
      BY <1>0, <3>1, <3>3 DEF AgentMoves, Agent
    <3> QED
      BY <2>3, <3>1, <3>2, <3>4 DEF QuiesceIndex
  <2>4. CASE QuiesceNext
    <3>1. AgentMoves(Quiesce, "test", agent[Quiesce].q)
      BY <1>0, <2>4, GoesMoves DEF QuiesceNext, QuiescePcs
    <3> QED
      BY <1>0, <2>4, <3>1 DEF QuiesceNext, Agent
  <2> QED
    BY <2>1, <2>2, <2>3, <2>4 DEF QuiesceStep
<1>2. /\ UNCHANGED <<state, refCount, parts, isIntrEnabled, numIoQueues, maxIoQueues,
                     isRemoved, enabled, sub, known, listLock, outstanding>>
      /\ agent' \in [Agents -> Agent] /\ agent'[Quiesce].pc = pc /\ agent'[Quiesce].q = q
      /\ \A b \in Agents \ {Quiesce} : agent'[b] = agent[b]
      /\ ctl' = ctl
  BY <1>1 DEF AgentMoves, queueVars, ctrlrVars, ctl
<1>3. ASSUME NEW g \in Flushers, NEW p,
             NEW pcs \in {FlushInside, FlushUses, {"disable"}, {"sync"}, {"disable", "sync"}}
      PROVE  At(g, p, pcs)' = At(g, p, pcs)
  <2>1. pc \notin pcs /\ agent[Quiesce].pc \notin pcs
    BY <1>1, <1>3 DEF FlushInside, FlushUses
  <2> QED
    BY <1>2, <2>1 DEF At
<1>4. /\ \A p \in Queues : agent'[p] = agent[p]
      /\ pc \in QuiescePcs /\ (pc \in QuiesceWorks => pc = "suspend")
  BY <1>1, <1>2 DEF QuiescePcs, QuiesceWorks, FlushInside, FlushUses
<1>5. IoType'
  BY <1>1, <1>2, <1>4 DEF ctl
<1>6. RefCounts'
  BY <1>2, <1>3 DEF RefCounts, Holders
<1>7. States'
  BY <1>2, <1>3 DEF States
<1>8. Interrupts'
  BY <1>2, <1>3, <1>4 DEF Interrupts
<1>9. (Built /\ Counted)'
  BY <1>2 DEF Built, PartsOf, Counted, Existing
<1>10. UsedIsBuilt'
  BY <1>2, <1>3, <1>4 DEF UsedIsBuilt, Used
<1>11. Quiescing'
  BY <1>1, <1>2, <1>4 DEF Quiescing
<1> QED
  BY <1>5, <1>6, <1>7, <1>8, <1>9, <1>10, <1>11

-----------------------------------------------------------------------------
(* The suspension, the wait, and the reference of the flush.               *)

FlushWorks == QuiesceWorks \cup {"deleteSq"}
FlusherMove(f, q, pc) ==
  /\ agent[f].q = q /\ agent[f].pc \in QuiesceWorks
  /\ AgentMoves(f, pc, q)
  /\ pc \in IF f = Control THEN Deleting \cup {"destroy"} ELSE QuiesceWorks \cup {"next"}
  /\ UNCHANGED <<parts, ctrlrVars, sub, qid, known, listLock, outstanding>>

LEMMA FlusherMoves ==
  ASSUME IoInv, NEW f \in Flushers, NEW q, NEW pc, FlusherMove(f, q, pc)
  PROVE  /\ q \in Queues
         /\ \A p \in Queues : agent'[p] = agent[p]
         /\ \A g \in Flushers \ {f} : agent'[g] = agent[g]
         /\ agent[f].q = q /\ agent'[f].q = q /\ agent'[f].pc = pc
         /\ IF f = Control THEN ctl.q = q /\ ctl'.q = q /\ ctl'.pc = pc /\ ctl.pc \in Deleting
                           ELSE f = Quiesce /\ ctl' = ctl
<1>1. f = Control => ctl.pc \in Deleting
  BY DEF FlusherMove, QuiesceWorks, FlushInside, FlushUses, Deleting, Flushing, Stopping, ctl
<1>2. q \in Queues
  BY <1>1 DEF FlusherMove, IoInv, IoType, Deleting, Stopping, Flushing, Between, Flushers, ctl
<1> QED
  BY <1>1, <1>2, AgentsAre DEF FlusherMove, AgentMoves, ctl

(* What all their steps keep.                                              *)
LEMMA FlusherFrame ==
  ASSUME IoInv, NEW f \in Flushers, NEW q, NEW pc, FlusherMove(f, q, pc),
         state' \in [Queues -> {"NON_EXIST", "SUSPENDED", "ACTIVE"}],
         \A p \in Queues : state'[p] = "NON_EXIST" <=> state[p] = "NON_EXIST",
         refCount' \in [Queues -> Int], isIntrEnabled' \in [Queues -> BOOLEAN],
         pc \in FlushUses => agent[f].pc \in FlushUses \/ state[q] = "ACTIVE"
  PROVE  IoType' /\ Built' /\ UsedIsBuilt' /\ Counted' /\ Quiescing'
<1> USE AgentsAre, FlusherMoves DEF IoInv
<1>1. /\ UNCHANGED <<parts, numIoQueues, maxIoQueues, isRemoved, enabled, sub, qid, known,
                     listLock, outstanding>>
      /\ agent' \in [Agents -> Agent] /\ agent[f].pc \in QuiesceWorks
      /\ pc \in IF f = Control THEN Deleting \cup {"destroy"} ELSE QuiesceWorks \cup {"next"}
  BY DEF FlusherMove, AgentMoves, ctrlrVars
<1>2. /\ q \in Queues
      /\ \A p \in Queues : agent'[p] = agent[p]
      /\ \A g \in Flushers \ {f} : agent'[g] = agent[g]
      /\ agent[f].q = q /\ agent'[f].q = q /\ agent'[f].pc = pc
  BY FlusherMoves
<1>3. IF f = Control THEN ctl.q = q /\ ctl'.q = q /\ ctl'.pc = pc /\ ctl.pc \in Deleting
                     ELSE f = Quiesce /\ ctl' = ctl
  BY FlusherMoves
<1>4. Existing' = Existing
  BY DEF Existing
<1>5. IoType'
  <2>1. CASE f = Control
    BY <1>1, <1>2, <1>3, <2>1
    DEF IoType, ControlPcs, Between, Deleting, Stopping, Flushing, ctl
  <2>2. CASE f = Quiesce
    BY <1>1, <1>2, <1>3, <2>2 DEF IoType, QuiescePcs, QuiesceWorks
  <2> QED
    BY <2>1, <2>2
<1>6. Built'
  BY <1>1, <1>3, <1>4 DEF Built, PartsOf, Deleting, Stopping, Flushing
<1>7. Counted'
  <2>1. CASE f = Control
    <3>1. /\ ctl.pc \in Deleting /\ ctl'.pc \in Deleting \cup {"destroy"} /\ ctl'.q = ctl.q
          /\ ctl.pc \notin Creating \cup {"destroy", "idle", "create"} \cup Gone
          /\ ctl'.pc \notin Creating \cup {"idle", "create"} \cup Gone
      BY <1>1, <1>3, <2>1
      DEF Creating, Building, Starting, Running, Gone, Deleting, Stopping, Flushing
    <3>2. Existing = known /\ ctl.q \in known /\ numIoQueues = Cardinality(known)
      BY <3>1 DEF Counted
    <3>3. /\ Existing' = known' /\ ctl'.q \in known' /\ known' \cup {ctl'.q} = known'
          /\ numIoQueues' = Cardinality(known')
      BY <1>1, <1>4, <3>1, <3>2
    <3> QED
      BY <3>1, <3>3 DEF Counted
  <2>2. CASE f = Quiesce
    BY <1>1, <1>3, <1>4, <2>2 DEF Counted
  <2> QED
    BY <2>1, <2>2
<1>8. Quiescing'
  BY <1>1, <1>2, <1>3 DEF Quiescing
<1>9. UsedIsBuilt'
  <2>1. ASSUME NEW g \in Flushers, NEW p, g # f
        PROVE  At(g, p, FlushUses)' = At(g, p, FlushUses)
    BY <1>2, <2>1 DEF At
  <2>2. ASSUME NEW p \in Queues, Used(p)' PROVE Used(p) \/ (p = q /\ state[q] = "ACTIVE")
    BY <1>1, <1>2, <2>1, <2>2 DEF Used, At
  <2>3. ASSUME state[q] = "ACTIVE" PROVE ~(ctl.q = q /\ ctl.pc \in Building)
    BY <2>3 DEF States
  <2> QED
    BY <1>1, <1>2, <1>3, <2>2, <2>3
    DEF UsedIsBuilt, Building, Deleting, Stopping, Flushing
<1> QED
  BY <1>5, <1>6, <1>7, <1>8, <1>9

(* The references of the flushers.                                         *)
LEMMA FlusherHolds ==
  ASSUME IoInv, NEW f \in Flushers, NEW q, NEW pc, FlusherMove(f, q, pc)
  PROVE  /\ f \in Holders(q) <=> agent[f].pc \in FlushInside
         /\ Holders(q)' = (Holders(q) \ {f}) \cup (IF pc \in FlushInside THEN {f} ELSE {})
         /\ \A p \in Queues \ {q} : Holders(p)' = Holders(p)
<1>1. /\ agent[f].q = q /\ agent'[f].q = q /\ agent'[f].pc = pc
      /\ \A g \in Flushers \ {f} : agent'[g] = agent[g]
      /\ sub' = sub
  BY FlusherMoves DEF FlusherMove
<1> QED
  BY <1>1, CmdsAre DEF Holders, At

LEMMA SuspendOK == ASSUME IoInv, NEW f \in Flushers, Suspend(f) PROVE IoInv'
<1> USE AgentsAre DEF IoInv
<1> DEFINE active == state[agent[f].q] = "ACTIVE"
           pc == IF active THEN "disable" ELSE AfterSuspend(f)
<1>0. PICK q \in Queues : agent[f].q = q
  BY DEF Suspend, IoType, QuiesceWorks, Between, Flushers, ctl
<1>1. FlusherMove(f, q, pc)
  <2>1. AgentMoves(f, pc, q)
    <3>1. pc \in ControlPcs \cup QuiescePcs
      BY DEF AfterSuspend, ControlPcs, QuiescePcs, QuiesceWorks, FlushInside, FlushUses,
             Deleting, Stopping
    <3> QED
      BY <1>0, <3>1, GoesMoves DEF Suspend
  <2> QED
    BY <1>0, <2>1
    DEF Suspend, FlusherMove, AfterSuspend, QuiesceWorks, FlushInside, FlushUses, Deleting,
        Stopping, lockVars, callVars, cmdVars
<1> HIDE DEF pc
<1>2. /\ agent[f].pc = "suspend" /\ isIntrEnabled' = isIntrEnabled
      /\ \A p \in Queues : agent'[p] = agent[p]
      /\ \A g \in Flushers \ {f} : agent'[g] = agent[g]
      /\ agent'[f].q = q /\ agent'[f].pc = pc
  BY <1>1, FlusherMoves DEF Suspend
<1>3. IF f = Control THEN ctl.q = q /\ ctl'.q = q /\ ctl'.pc = pc /\ ctl.pc = "suspend"
                     ELSE f = Quiesce /\ ctl' = ctl
  BY <1>1, <1>2, FlusherMoves DEF ctl
<1>4. f = Control => state[q] # "NON_EXIST"
  BY <1>3 DEF Counted, Existing, Deleting, Creating, Building, Starting, Running, Gone
<1>5. f = Quiesce /\ ctl.pc \in Creating => ctl.q # q
  BY <1>0, <1>2, QuiescedIsKnown DEF QuiesceWorks
<1>6. CASE state[q] = "ACTIVE"
  <2>1. /\ state' = [state EXCEPT ![q] = "SUSPENDED"]
        /\ refCount' = [refCount EXCEPT ![q] = @ + 1] /\ pc = "disable"
    BY <1>0, <1>6 DEF Suspend, pc
  <2>2. /\ state' \in [Queues -> {"NON_EXIST", "SUSPENDED", "ACTIVE"}]
        /\ state'[q] = "SUSPENDED" /\ \A p \in Queues \ {q} : state'[p] = state[p]
    BY <2>1 DEF IoType
  <2>3. RefCounts' /\ refCount' \in [Queues -> Int]
    <3>1. f \notin Holders(q) /\ Holders(q)' = Holders(q) \cup {f}
      BY <1>1, <1>2, <2>1, FlusherHolds DEF FlushInside, FlushUses
    <3>2. \A p \in Queues \ {q} : Holders(p)' = Holders(p)
      BY <1>1, FlusherHolds
    <3> QED
      BY <2>1, <3>1, <3>2, HolderEnters
  <2>4. IoType' /\ Built' /\ UsedIsBuilt' /\ Counted' /\ Quiescing'
    BY <1>1, <1>2, <1>6, <2>2, <2>3, FlusherFrame DEF IoType
  <2>5. States'
    BY <1>0, <1>2, <1>3, <1>5, <1>6, <2>1, <2>2
    DEF States, At, Building, Starting, Stopping, Flushing, Running, Gone, Creating
  <2>6. Interrupts'
    BY <1>0, <1>2, <1>3, <1>5, <1>6, <2>1, <2>2
    DEF Interrupts, States, At, Creating, Building, Starting, Running, Flushing, Gone
  <2> QED
    BY <2>3, <2>4, <2>5, <2>6
<1>7. CASE state[q] # "ACTIVE"
  <2>1. UNCHANGED <<state, refCount>> /\ pc = AfterSuspend(f)
    BY <1>0, <1>7 DEF Suspend, pc
  <2>2. RefCounts'
    BY <1>1, <1>2, <2>1, FlusherHolds, HoldersStay DEF FlushInside, FlushUses, AfterSuspend
  <2>3. IoType' /\ Built' /\ UsedIsBuilt' /\ Counted' /\ Quiescing'
    BY <1>1, <1>2, <2>1, FlusherFrame DEF IoType, AfterSuspend, FlushUses
  <2>4. States'
    BY <1>0, <1>2, <1>3, <1>4, <1>7, <2>1
    DEF States, IoType, AfterSuspend, At, Building, Starting, Stopping, Flushing, Running, Gone
  <2>5. Interrupts'
    BY <1>0, <1>2, <1>3, <2>1
    DEF Interrupts, AfterSuspend, At, Creating, Building, Starting, Running, Flushing, Gone
  <2> QED
    BY <2>2, <2>3, <2>4, <2>5
<1> QED
  BY <1>6, <1>7

LEMMA DisableIntrOK == ASSUME IoInv, NEW f \in Flushers, DisableIntr(f) PROVE IoInv'
<1> USE AgentsAre DEF IoInv
<1> DEFINE pc == IF isIntrEnabled[agent[f].q] THEN "sync" ELSE AfterSuspend(f)
<1>0. PICK q \in Queues : agent[f].q = q
  BY DEF DisableIntr, IoType, QuiesceWorks, FlushInside, FlushUses, Between, Flushers, ctl
<1>1. FlusherMove(f, q, pc)
  <2>1. AgentMoves(f, pc, q)
    <3>1. pc \in ControlPcs \cup QuiescePcs
      BY DEF AfterSuspend, ControlPcs, QuiescePcs, QuiesceWorks, FlushInside, FlushUses,
             Deleting, Stopping
    <3> QED
      BY <1>0, <3>1, GoesMoves DEF DisableIntr
  <2> QED
    BY <1>0, <2>1
    DEF DisableIntr, FlusherMove, AfterSuspend, QuiesceWorks, FlushInside, FlushUses, Deleting,
        Stopping, lockVars, callVars, cmdVars
<1> HIDE DEF pc
<1>2. /\ agent[f].pc = "disable" /\ state' = state
      /\ isIntrEnabled' = [isIntrEnabled EXCEPT ![q] = FALSE]
      /\ \A p \in Queues : agent'[p] = agent[p]
      /\ \A g \in Flushers \ {f} : agent'[g] = agent[g]
      /\ agent'[f].q = q /\ agent'[f].pc = pc
  BY <1>0, <1>1, FlusherMoves DEF DisableIntr
<1>3. IF f = Control THEN ctl.q = q /\ ctl'.q = q /\ ctl'.pc = pc /\ ctl.pc = "disable"
                     ELSE f = Quiesce /\ ctl' = ctl
  BY <1>1, <1>2, FlusherMoves DEF ctl
<1>4. /\ isIntrEnabled' \in [Queues -> BOOLEAN] /\ ~isIntrEnabled'[q]
      /\ \A p \in Queues \ {q} : isIntrEnabled'[p] = isIntrEnabled[p]
  BY <1>2 DEF IoType
<1>5. CASE isIntrEnabled[q]
  <2>1. refCount' = refCount /\ pc = "sync"
    BY <1>0, <1>5 DEF DisableIntr, pc
  <2>2. RefCounts'
    BY <1>1, <1>2, <2>1, FlusherHolds, HoldersStay DEF FlushInside, FlushUses
  <2>3. IoType' /\ Built' /\ UsedIsBuilt' /\ Counted' /\ Quiescing'
    BY <1>1, <1>2, <1>4, <2>1, FlusherFrame DEF IoType, FlushUses
  <2>4. States'
    BY <1>0, <1>2, <1>3, <2>1
    DEF States, At, Building, Starting, Stopping, Flushing, Running, Gone
  <2>5. Interrupts'
    BY <1>0, <1>2, <1>3, <1>4, <2>1
    DEF Interrupts, At, Creating, Building, Starting, Running, Flushing, Gone
  <2> QED
    BY <2>2, <2>3, <2>4, <2>5
<1>6. CASE ~isIntrEnabled[q]
  <2>1. refCount' = [refCount EXCEPT ![q] = @ - 1] /\ pc = AfterSuspend(f)
    BY <1>0, <1>6 DEF DisableIntr, pc
  <2>2. RefCounts' /\ refCount' \in [Queues -> Int]
    <3>1. f \in Holders(q) /\ Holders(q)' = Holders(q) \ {f}
      BY <1>1, <1>2, <2>1, FlusherHolds DEF FlushInside, FlushUses, AfterSuspend
    <3>2. \A p \in Queues \ {q} : Holders(p)' = Holders(p)
      BY <1>1, FlusherHolds
    <3> QED
      BY <2>1, <3>1, <3>2, HolderLeaves
  <2>3. IoType' /\ Built' /\ UsedIsBuilt' /\ Counted' /\ Quiescing'
    BY <1>1, <1>2, <1>4, <2>2, FlusherFrame DEF IoType, FlushUses
  <2>4. States'
    BY <1>0, <1>2, <1>3, <2>1
    DEF States, AfterSuspend, At, Building, Starting, Stopping, Flushing, Running, Gone
  <2>5. Interrupts'
    <3>1. ASSUME NEW p \in Queues, isIntrEnabled'[p]
          PROVE  state'[p] = "ACTIVE" \/ \E g \in Flushers : At(g, p, {"disable"})'
      BY <1>0, <1>2, <1>4, <3>1 DEF Interrupts, At
    <3>2. ASSUME NEW p \in Queues, agent'[p].pc # "idle"
          PROVE  isIntrEnabled'[p] \/ \E g \in Flushers : At(g, p, {"sync"})'
      BY <1>0, <1>2, <1>4, <1>6, <3>2 DEF Interrupts, At
    <3>3. ASSUME ctl'.pc \in Creating \cup Flushing \cup {"destroy"} \cup Gone
          PROVE  ~At(Quiesce, ctl.q, {"disable", "sync"})' /\ ctl'.q = ctl.q
      BY <1>0, <1>2, <1>3, <2>1, <3>3
      DEF Interrupts, AfterSuspend, At, Creating, Building, Starting, Running, Flushing, Gone
    <3> QED
      BY <3>1, <3>2, <3>3 DEF Interrupts, At
  <2> QED
    BY <2>2, <2>3, <2>4, <2>5
<1> QED
  BY <1>5, <1>6

LEMMA SyncIntrOK == ASSUME IoInv, NEW f \in Flushers, SyncIntr(f) PROVE IoInv'
<1> USE AgentsAre DEF IoInv
<1>0. PICK q \in Queues : agent[f].q = q
  BY DEF SyncIntr, IoType, QuiesceWorks, FlushInside, FlushUses, Between, Flushers, ctl
<1> DEFINE pc == AfterSuspend(f)
<1>1. FlusherMove(f, q, pc)
  <2>1. AgentMoves(f, pc, q)
    <3>1. pc \in ControlPcs \cup QuiescePcs
      BY DEF AfterSuspend, ControlPcs, QuiescePcs, QuiesceWorks, Deleting, Stopping
    <3> QED
      BY <1>0, <3>1, GoesMoves DEF SyncIntr
  <2> QED
    BY <1>0, <2>1
    DEF SyncIntr, FlusherMove, AfterSuspend, QuiesceWorks, FlushInside, FlushUses, Deleting,
        Stopping, lockVars, callVars, cmdVars
<1>2. /\ agent[f].pc = "sync" /\ agent[q].pc = "idle" /\ UNCHANGED <<state, isIntrEnabled>>
      /\ refCount' = [refCount EXCEPT ![q] = @ - 1]
      /\ \A p \in Queues : agent'[p] = agent[p]
      /\ \A g \in Flushers \ {f} : agent'[g] = agent[g]
      /\ agent'[f].q = q /\ agent'[f].pc = pc
  BY <1>0, <1>1, FlusherMoves DEF SyncIntr
<1>3. IF f = Control THEN ctl.q = q /\ ctl'.q = q /\ ctl'.pc = "deleteSq" /\ ctl.pc = "sync"
                     ELSE f = Quiesce /\ ctl' = ctl
  BY <1>1, <1>2, FlusherMoves DEF ctl, AfterSuspend
<1>4. RefCounts' /\ refCount' \in [Queues -> Int]
  <2>1. f \in Holders(q) /\ Holders(q)' = Holders(q) \ {f}
    BY <1>1, <1>2, FlusherHolds DEF FlushInside, FlushUses, AfterSuspend
  <2>2. \A p \in Queues \ {q} : Holders(p)' = Holders(p)
    BY <1>1, FlusherHolds
  <2> QED
    BY <1>2, <2>1, <2>2, HolderLeaves
<1>5. IoType' /\ Built' /\ UsedIsBuilt' /\ Counted' /\ Quiescing'
  BY <1>1, <1>2, <1>4, FlusherFrame DEF IoType, FlushUses
<1>6. States'
  BY <1>0, <1>2, <1>3
  DEF States, AfterSuspend, At, Building, Starting, Stopping, Flushing, Running, Gone
<1>7. Interrupts'
  BY <1>0, <1>2, <1>3
  DEF Interrupts, AfterSuspend, At, Creating, Building, Starting, Running, Flushing, Gone
<1> QED
  BY <1>4, <1>5, <1>6, <1>7

LEMMA AwaitOK == ASSUME IoInv, NEW f \in Flushers, AwaitNoSubmission(f) PROVE IoInv'
<1> USE AgentsAre DEF IoInv
<1>0. PICK q \in Queues : agent[f].q = q
  BY DEF AwaitNoSubmission, IoType, QuiesceWorks, FlushInside, FlushUses, Between, Flushers, ctl
<1>1. FlusherMove(f, q, "enter")
  <2>1. AgentMoves(f, "enter", q)
    BY <1>0, PcsAre, GoesMoves DEF AwaitNoSubmission
  <2> QED
    BY <1>0, <2>1
    DEF AwaitNoSubmission, FlusherMove, QuiesceWorks, Deleting, Flushing, lockVars, callVars,
        cmdVars, queueVars
<1>2. /\ agent[f].pc = "await" /\ refCount[q] = 0
      /\ UNCHANGED <<state, isIntrEnabled, refCount>>
      /\ \A p \in Queues : agent'[p] = agent[p]
      /\ \A g \in Flushers \ {f} : agent'[g] = agent[g]
      /\ agent'[f].q = q /\ agent'[f].pc = "enter"
  BY <1>0, <1>1, FlusherMoves DEF AwaitNoSubmission, queueVars
<1>3. IF f = Control THEN ctl.q = q /\ ctl'.q = q /\ ctl'.pc = "enter" /\ ctl.pc = "await"
                     ELSE f = Quiesce /\ ctl' = ctl
  BY <1>1, <1>2, FlusherMoves DEF ctl
<1>4. RefCounts'
  BY <1>1, <1>2, FlusherHolds, HoldersStay DEF FlushInside, FlushUses
<1>5. IoType' /\ Built' /\ UsedIsBuilt' /\ Counted' /\ Quiescing'
  BY <1>1, <1>2, FlusherFrame DEF IoType, FlushUses
<1>6. States'
  BY <1>0, <1>2, <1>3 DEF States, At, Building, Starting, Stopping, Flushing, Running, Gone
<1>7. Interrupts'
  <2>1. ASSUME NEW g \in Flushers PROVE ~At(g, q, {"disable", "sync"})
    BY <1>2, NoHolders DEF Holders, At, FlushInside, FlushUses
  <2> QED
    BY <1>0, <1>2, <1>3, <2>1
    DEF Interrupts, At, Creating, Building, Starting, Running, Flushing, Gone
<1> QED
  BY <1>4, <1>5, <1>6, <1>7

LEMMA FlushEnterOK == ASSUME IoInv, NEW f \in Flushers, FlushEnter(f) PROVE IoInv'
<1> USE AgentsAre DEF IoInv
<1>0. PICK q \in Queues : agent[f].q = q
  BY DEF FlushEnter, IoType, QuiesceWorks, FlushInside, FlushUses, Between, Flushers, ctl
<1>1. FlusherMove(f, q, "entered")
  <2>1. AgentMoves(f, "entered", q)
    BY <1>0, PcsAre, GoesMoves DEF FlushEnter, FlushInside
  <2> QED
    BY <1>0, <2>1
    DEF FlushEnter, FlusherMove, QuiesceWorks, FlushInside, Deleting, Flushing, lockVars,
        callVars, cmdVars
<1>2. /\ agent[f].pc = "enter" /\ UNCHANGED <<state, isIntrEnabled>>
      /\ refCount' = [refCount EXCEPT ![q] = @ + 1]
      /\ \A p \in Queues : agent'[p] = agent[p]
      /\ \A g \in Flushers \ {f} : agent'[g] = agent[g]
      /\ agent'[f].q = q /\ agent'[f].pc = "entered"
  BY <1>0, <1>1, FlusherMoves DEF FlushEnter
<1>3. IF f = Control THEN ctl.q = q /\ ctl'.q = q /\ ctl'.pc = "entered" /\ ctl.pc = "enter"
                     ELSE f = Quiesce /\ ctl' = ctl
  BY <1>1, <1>2, FlusherMoves DEF ctl
<1>4. RefCounts' /\ refCount' \in [Queues -> Int]
  <2>1. f \notin Holders(q) /\ Holders(q)' = Holders(q) \cup {f}
    BY <1>1, <1>2, FlusherHolds DEF FlushInside, FlushUses
  <2>2. \A p \in Queues \ {q} : Holders(p)' = Holders(p)
    BY <1>1, FlusherHolds
  <2> QED
    BY <1>2, <2>1, <2>2, HolderEnters
<1>5. IoType' /\ Built' /\ UsedIsBuilt' /\ Counted' /\ Quiescing'
  BY <1>1, <1>2, <1>4, FlusherFrame DEF IoType, FlushUses
<1>6. States'
  BY <1>0, <1>2, <1>3 DEF States, At, Building, Starting, Stopping, Flushing, Running, Gone
<1>7. Interrupts'
  BY <1>0, <1>2, <1>3
  DEF Interrupts, At, Creating, Building, Starting, Running, Flushing, Gone
<1> QED
  BY <1>4, <1>5, <1>6, <1>7

LEMMA FlushLeaveOK == ASSUME IoInv, NEW f \in Flushers, FlushLeave(f) PROVE IoInv'
<1> USE AgentsAre DEF IoInv
<1>0. PICK q \in Queues : agent[f].q = q
  BY DEF FlushLeave, IoType, QuiesceWorks, FlushInside, FlushUses, Between, Flushers, ctl
<1> DEFINE pc == IF f = Control THEN "destroy" ELSE "next"
<1>1. FlusherMove(f, q, pc)
  <2>1. AgentMoves(f, pc, q)
    <3>1. pc \in ControlPcs \cup QuiescePcs
      BY DEF ControlPcs, QuiescePcs
    <3> QED
      BY <1>0, <3>1, GoesMoves DEF FlushLeave
  <2> QED
    BY <1>0, <2>1
    DEF FlushLeave, FlusherMove, QuiesceWorks, FlushInside, lockVars, callVars, cmdVars
<1>2. /\ agent[f].pc = "leave" /\ UNCHANGED <<state, isIntrEnabled>>
      /\ refCount' = [refCount EXCEPT ![q] = @ - 1]
      /\ \A p \in Queues : agent'[p] = agent[p]
      /\ \A g \in Flushers \ {f} : agent'[g] = agent[g]
      /\ agent'[f].q = q /\ agent'[f].pc = pc
  BY <1>0, <1>1, FlusherMoves DEF FlushLeave
<1>3. IF f = Control THEN ctl.q = q /\ ctl'.q = q /\ ctl'.pc = "destroy" /\ ctl.pc = "leave"
                     ELSE f = Quiesce /\ ctl' = ctl
  BY <1>1, <1>2, FlusherMoves DEF ctl
<1>4. RefCounts' /\ refCount' \in [Queues -> Int]
  <2>1. f \in Holders(q) /\ Holders(q)' = Holders(q) \ {f}
    BY <1>1, <1>2, FlusherHolds DEF FlushInside, FlushUses
  <2>2. \A p \in Queues \ {q} : Holders(p)' = Holders(p)
    BY <1>1, FlusherHolds
  <2> QED
    BY <1>2, <2>1, <2>2, HolderLeaves
<1>5. IoType' /\ Built' /\ UsedIsBuilt' /\ Counted' /\ Quiescing'
  BY <1>1, <1>2, <1>4, FlusherFrame DEF IoType, FlushUses
<1>6. States'
  BY <1>0, <1>2, <1>3 DEF States, At, Building, Starting, Stopping, Flushing, Running, Gone
<1>7. Interrupts'
  BY <1>0, <1>2, <1>3
  DEF Interrupts, At, Creating, Building, Starting, Running, Flushing, Gone
<1> QED
  BY <1>4, <1>5, <1>6, <1>7

LEMMA FlushStepOK == ASSUME IoInv, NEW f \in Flushers, FlushStep(f) PROVE IoInv'
BY SuspendOK, DisableIntrOK, SyncIntrOK, AwaitOK, FlushEnterOK, FlushListOK, FlushLeaveOK
DEF FlushStep

-----------------------------------------------------------------------------
(* The thread of vmknvme outside suspension and flush.                     *)

ControlMove(pc, q) ==
  /\ AgentMoves(Control, pc, q)
  /\ ctl.pc \in ControlPcs \ FlushInside /\ pc \in ControlPcs \ FlushInside
  /\ pc \notin Between => q \in Queues
  /\ pc = "create" => q \in 1..(NumQueues + 1)
  /\ UNCHANGED <<sub, qid, listLock>>
  /\ outstanding' \subseteq Cmds

(* What the other threads see of it.                                       *)
LEMMA ControlMoves ==
  ASSUME NEW pc, NEW q, ControlMove(pc, q)
  PROVE  /\ \A p \in Queues : agent'[p] = agent[p]
         /\ agent'[Quiesce] = agent[Quiesce] /\ ctl'.pc = pc /\ ctl'.q = q
         /\ \A p : Holders(p)' = Holders(p)
         /\ \A p \in Queues : Used(p)' = Used(p)
         /\ \A p : \A f \in Flushers :
              /\ At(f, p, {"disable"})' = At(f, p, {"disable"})
              /\ At(f, p, {"sync"})' = At(f, p, {"sync"})
              /\ At(f, p, {"disable", "sync"})' = At(f, p, {"disable", "sync"})
         /\ \A p : /\ ~At(Control, p, {"disable"}) /\ ~At(Control, p, {"sync"})
                   /\ ~At(Control, p, {"disable", "sync"})
<1> USE AgentsAre
<1>1. /\ agent'[Control].pc = pc /\ agent'[Control].q = q
      /\ \A b \in Agents \ {Control} : agent'[b] = agent[b]
      /\ pc \notin FlushInside /\ agent[Control].pc \notin FlushInside /\ sub' = sub
  BY DEF ControlMove, AgentMoves, ctl
<1>2. ASSUME NEW p, NEW f \in Flushers,
             NEW pcs \in {FlushInside, FlushUses, {"disable"}, {"sync"}, {"disable", "sync"}}
      PROVE  At(f, p, pcs)' = At(f, p, pcs) /\ (f = Control => ~At(f, p, pcs))
  <2>1. CASE f = Control
    BY <1>1, <2>1 DEF At, FlushInside, FlushUses
  <2>2. CASE f = Quiesce
    BY <1>1, <2>2 DEF At
  <2> QED
    BY <2>1, <2>2
<1>3. \A p : Holders(p)' = Holders(p)
  BY <1>1, <1>2 DEF Holders
<1>4. \A p \in Queues : Used(p)' = Used(p)
  BY <1>1, <1>2 DEF Used
<1> QED
  BY <1>1, <1>2, <1>3, <1>4 DEF ctl

LEMMA ControlFrame ==
  ASSUME IoInv, NEW pc, NEW q, ControlMove(pc, q),
         state' \in [Queues -> {"NON_EXIST", "SUSPENDED", "ACTIVE"}],
         parts' \in [Queues -> SUBSET Parts], isIntrEnabled' \in [Queues -> BOOLEAN],
         numIoQueues' \in Int, maxIoQueues' \in 0..NumQueues,
         isRemoved' \in BOOLEAN, enabled' \in BOOLEAN, known' \subseteq Queues,
         UNCHANGED refCount,
         numIoQueues' = numIoQueues \/ agent[Quiesce].pc \notin QuiesceWorks
  PROVE  IoType' /\ RefCounts' /\ Quiescing'
<1>1. /\ \A p \in Queues : agent'[p] = agent[p]
      /\ agent'[Quiesce] = agent[Quiesce] /\ ctl'.pc = pc /\ ctl'.q = q
      /\ \A p : Holders(p)' = Holders(p)
  BY ControlMoves
<1>2. IoType'
  BY <1>1 DEF IoInv, IoType, ControlMove, AgentMoves
<1>3. RefCounts'
  BY <1>1, HoldersStay DEF IoInv
<1>4. Quiescing'
  BY <1>1 DEF IoInv, Quiescing
<1> QED
  BY <1>2, <1>3, <1>4

(* Steps between places of the same kind, which change nothing of the      *)
(* queue but what the device has of it.                                    *)
SameKind(pc, new) ==
  \/ pc \in Starting /\ new \in Starting \cup {"destroy"}
  \/ pc \in Stopping /\ new \in Stopping
LEMMA SameKindOK ==
  ASSUME IoInv, NEW pc, ControlMove(pc, ctl.q), SameKind(ctl.pc, pc),
         UNCHANGED <<queueVars, ctrlrVars, known>>
  PROVE  IoInv'
<1> USE DEF IoInv
<1>1. /\ \A p \in Queues : agent'[p] = agent[p]
      /\ agent'[Quiesce] = agent[Quiesce] /\ ctl'.pc = pc /\ ctl'.q = ctl.q
      /\ \A p \in Queues : Used(p)' = Used(p)
      /\ \A p : \A f \in Flushers :
           /\ At(f, p, {"disable"})' = At(f, p, {"disable"})
           /\ At(f, p, {"sync"})' = At(f, p, {"sync"})
           /\ At(f, p, {"disable", "sync"})' = At(f, p, {"disable", "sync"})
  BY ControlMoves
<1>2. UNCHANGED <<state, refCount, parts, isIntrEnabled, numIoQueues, maxIoQueues, isRemoved,
                  enabled, known>>
  BY DEF queueVars, ctrlrVars
<1>3. IoType' /\ RefCounts' /\ Quiescing'
  BY <1>2, ControlFrame DEF IoType
<1>4. States'
  <2>1. /\ ctl.pc \in Starting \cup Stopping
        /\ ctl'.pc \in Starting \cup Stopping \cup {"destroy"}
        /\ ctl'.pc \notin Running \cup Gone
    BY <1>1 DEF SameKind, Starting, Stopping, Running, Gone
  <2> QED
    BY <1>1, <1>2, <2>1 DEF States
<1>5. Interrupts'
  <2>1. ctl'.pc \in Creating \cup Flushing \cup {"destroy"} \cup Gone =>
          ctl.pc \in Creating
    BY <1>1 DEF SameKind, Creating, Building, Starting, Stopping, Flushing, Running, Gone
  <2>2. Quiesce \in Flushers
    BY AgentsAre
  <2> QED
    BY <1>1, <1>2, <2>1, <2>2 DEF Interrupts
<1>6. Built'
  BY <1>1, <1>2 DEF Built, PartsOf, SameKind, Starting, Stopping
<1>7. UsedIsBuilt'
  BY <1>1, <1>2 DEF UsedIsBuilt, SameKind, Building, Starting, Stopping
<1>8. Counted'
  <2>1. CASE ctl.pc \in Starting
    BY <1>1, <1>2, <2>1
    DEF Counted, Existing, SameKind, Creating, Building, Starting, Stopping, Running, Gone,
        Deleting, Flushing
  <2>2. CASE ctl.pc \in Stopping
    BY <1>1, <1>2, <2>2
    DEF Counted, Existing, SameKind, Creating, Building, Starting, Stopping, Running, Gone,
        Deleting
  <2> QED
    BY <2>1, <2>2 DEF SameKind
<1> QED
  BY <1>3, <1>4, <1>5, <1>6, <1>7, <1>8

LEMMA DeviceCommandsOK ==
  ASSUME IoInv,
         InitQueue \/ \E outcome \in Outcomes : CreateCq(outcome) \/ CreateSq(outcome)
                                                \/ DeleteCq(outcome) \/ DeleteSq(outcome)
  PROVE  IoInv'
<1> USE AgentsAre DEF IoInv
<1>1. PICK pc \in Starting \cup Stopping \cup {"destroy"} :
        /\ SameKind(ctl.pc, pc) /\ Goes(Control, pc)
        /\ UNCHANGED <<queueVars, ctrlrVars, sub, qid, known, listLock>>
        /\ outstanding' \subseteq Cmds
  <2> USE DEF IoType, lockVars, callVars, cmdVars, ControlAt, Starting, Stopping, SameKind
  <2>1. CASE InitQueue
    <3>1. state[ctl.q] = "SUSPENDED"
      BY <2>1 DEF InitQueue, States
    <3> QED
      BY <2>1, <3>1 DEF InitQueue
  <2>2. CASE \E outcome \in Outcomes : CreateCq(outcome)
    BY <2>2 DEF CreateCq
  <2>3. CASE \E outcome \in Outcomes : CreateSq(outcome)
    BY <2>3 DEF CreateSq
  <2>4. CASE \E outcome \in Outcomes : DeleteCq(outcome)
    BY <2>4 DEF DeleteCq
  <2>5. CASE \E outcome \in Outcomes : DeleteSq(outcome)
    BY <2>5 DEF DeleteSq
  <2> QED
    BY <2>1, <2>2, <2>3, <2>4, <2>5
<1>2. ctl.pc \in Starting \cup Stopping /\ pc \in ControlPcs
  BY <1>1 DEF SameKind, ControlPcs, Creating, Deleting
<1>3. ctl.q \in Queues
  BY <1>2 DEF IoType, Between, Starting, Stopping
<1>4. AgentMoves(Control, pc, ctl.q)
  BY <1>1, <1>2, GoesMoves DEF ctl
<1>5. ControlMove(pc, ctl.q)
  BY <1>1, <1>2, <1>3, <1>4
  DEF ControlMove, IoType, FlushInside, FlushUses, Starting, Stopping
<1> QED
  BY <1>1, <1>5, SameKindOK

-----------------------------------------------------------------------------
(* The creation of the queues.                                             *)

LEMMA BringUpOK == ASSUME IoInv, NEW n \in Queues, BringUp(n) PROVE IoInv'
<1> USE AgentsAre DEF IoInv
<1>1. /\ ctl.pc = "idle" /\ maxIoQueues' = n /\ enabled' = TRUE
      /\ UNCHANGED <<state, refCount, parts, isIntrEnabled, numIoQueues, isRemoved, known>>
      /\ ControlMove("create", 1)
  <2>1. AgentMoves(Control, "create", 1)
    BY ControlNextMoves DEF BringUp, ControlPcs, Between
  <2> QED
    BY <2>1, NumQueuesAssumption
    DEF BringUp, ControlMove, ControlAt, queueVars, lockVars, cmdVars, IoType, FlushInside,
        FlushUses, Between, ControlPcs
<1>2. /\ agent'[Quiesce] = agent[Quiesce] /\ ctl'.pc = "create" /\ ctl'.q = 1
      /\ \A p \in Queues : agent'[p] = agent[p]
      /\ \A p \in Queues : Used(p)' = Used(p)
      /\ \A p : \A f \in Flushers :
           /\ At(f, p, {"disable"})' = At(f, p, {"disable"})
           /\ At(f, p, {"sync"})' = At(f, p, {"sync"})
           /\ At(f, p, {"disable", "sync"})' = At(f, p, {"disable", "sync"})
  BY <1>1, ControlMoves
<1>3. n \in 0..NumQueues
  BY NumQueuesAssumption DEF Queues
<1>4. IoType' /\ RefCounts' /\ Quiescing'
  BY <1>1, <1>3, ControlFrame DEF IoType
<1>5. States'
  BY <1>1, <1>2 DEF States, Building, Starting, Stopping, Flushing, Running, Gone
<1>6. Interrupts'
  BY <1>1, <1>2
  DEF Interrupts, Creating, Building, Starting, Flushing, Running, Gone
<1>7. Built' /\ UsedIsBuilt'
  BY <1>1, <1>2 DEF Built, PartsOf, UsedIsBuilt, Building
<1>8. Counted'
  <2>1. known = {} /\ Existing = {} /\ numIoQueues = 0
    BY <1>1, FS_EmptySet DEF Counted, Creating, Building, Starting, Running, Gone
  <2>2. known' = {} /\ Existing' = {} /\ numIoQueues' = 0 /\ numIoQueues' = Cardinality(known')
    BY <1>1, <2>1, FS_EmptySet DEF Existing
  <2> QED
    BY <1>2, <2>2
    DEF Counted, Creating, Building, Starting, Running, Gone, Deleting, Stopping, Flushing
<1> QED
  BY <1>4, <1>5, <1>6, <1>7, <1>8

(* With the queues created in order, the next one does not exist.          *)
LEMMA NextIsFresh ==
  ASSUME IoInv, ctl.pc = "create", ctl.q \in Queues
  PROVE  state[ctl.q] = "NON_EXIST" /\ ctl.q \notin known
<1>1. Existing = known /\ known = 1..(ctl.q - 1) /\ ctl.q \in Int
  BY DEF IoInv, Counted, Creating, Building, Starting, Running, Gone, Queues
<1> QED
  BY <1>1 DEF Existing

LEMMA CreateOK == ASSUME IoInv, Create PROVE IoInv'
<1> USE AgentsAre DEF IoInv
<1>0. PICK q \in 1..(NumQueues + 1) : ctl.q = q
  BY DEF Create, ControlAt, IoType
<1>1. ctl.pc = "create" /\ UNCHANGED <<sub, qid, listLock, outstanding, parts, isIntrEnabled,
                                       numIoQueues, maxIoQueues, isRemoved, enabled>>
  BY DEF Create, ControlAt, lockVars, cmdVars, ctrlrVars
<1>2. /\ Existing = known /\ known = 1..(q - 1) /\ numIoQueues = q - 1
      /\ numIoQueues = Cardinality(known)
  BY <1>0, <1>1 DEF Counted, Creating, Building, Starting, Running, Gone
<1>3. CASE q > maxIoQueues
  <2>1. UNCHANGED <<state, refCount, known>> /\ ControlNext("up", q)
    BY <1>0, <1>3 DEF Create, IoType
  <2>2. ControlMove("up", q)
    <3>1. AgentMoves(Control, "up", q)
      BY <1>0, <2>1, ControlNextMoves DEF ControlPcs, Between
    <3> QED
      BY <1>1, <3>1 DEF ControlMove, IoType, FlushInside, FlushUses, Between, ControlPcs
  <2>3. /\ agent'[Quiesce] = agent[Quiesce] /\ ctl'.pc = "up" /\ ctl'.q = q
        /\ \A p \in Queues : agent'[p] = agent[p]
        /\ \A p \in Queues : Used(p)' = Used(p)
        /\ \A p : \A f \in Flushers :
             /\ At(f, p, {"disable"})' = At(f, p, {"disable"})
             /\ At(f, p, {"sync"})' = At(f, p, {"sync"})
             /\ At(f, p, {"disable", "sync"})' = At(f, p, {"disable", "sync"})
    BY <2>2, ControlMoves
  <2>4. IoType' /\ RefCounts' /\ Quiescing'
    BY <1>1, <2>1, <2>2, ControlFrame DEF IoType
  <2>5. States'
    BY <1>1, <2>1, <2>3 DEF States, Building, Starting, Stopping, Flushing, Running, Gone
  <2>6. Interrupts'
    BY <1>1, <2>1, <2>3 DEF Interrupts, Creating, Building, Starting, Flushing, Running, Gone
  <2>7. Built' /\ UsedIsBuilt'
    BY <1>1, <2>1, <2>3 DEF Built, PartsOf, UsedIsBuilt, Building
  <2>8. Existing' = known' /\ numIoQueues' = Cardinality(known')
    BY <1>1, <1>2, <2>1 DEF Existing
  <2>9. Counted'
    BY <2>3, <2>8
    DEF Counted, Creating, Building, Starting, Running, Gone, Deleting, Stopping, Flushing
  <2> QED
    BY <2>4, <2>5, <2>6, <2>7, <2>9
<1>4. CASE q <= maxIoQueues
  <2>0. q \in Queues /\ state[q] = "NON_EXIST" /\ q \notin known
    <3>1. q \in Queues
      BY <1>4, NumQueuesAssumption DEF IoType, Queues
    <3> QED
      BY <1>0, <1>1, <3>1, NextIsFresh
  <2>1. /\ state' = [state EXCEPT ![q] = "SUSPENDED"] /\ refCount' = [refCount EXCEPT ![q] = 0]
        /\ known' = known /\ ControlNext("buildCq", q)
        /\ \A c \in On(q) : sub[c].pc = "returned"
    BY <1>0, <1>4, <2>0 DEF Create, IoType
  <2>2. ControlMove("buildCq", q)
    <3>1. AgentMoves(Control, "buildCq", q)
      BY <1>0, <2>1, ControlNextMoves DEF ControlPcs, Creating, Building
    <3> QED
      BY <1>1, <2>0, <3>1
      DEF ControlMove, IoType, FlushInside, FlushUses, Between, ControlPcs, Creating, Building
  <2>3. /\ agent'[Quiesce] = agent[Quiesce] /\ ctl'.pc = "buildCq" /\ ctl'.q = q
        /\ \A p \in Queues : agent'[p] = agent[p]
        /\ \A p \in Queues : Used(p)' = Used(p)
        /\ \A p : \A f \in Flushers :
             /\ At(f, p, {"disable"})' = At(f, p, {"disable"})
             /\ At(f, p, {"sync"})' = At(f, p, {"sync"})
             /\ At(f, p, {"disable", "sync"})' = At(f, p, {"disable", "sync"})
    BY <2>2, ControlMoves
  <2>4. ~Used(q)
    BY <1>1, <2>0 DEF UsedIsBuilt
  <2>5. refCount' = refCount
    <3>1. ASSUME NEW f \in Flushers PROVE ~At(f, q, FlushInside)
      <4>1. CASE f = Control
        BY <1>1, <4>1 DEF At, FlushInside, FlushUses, ctl
      <4>2. CASE f = Quiesce
        BY <1>0, <1>1, <4>2, QuiescedIsKnown DEF At, QuiesceWorks
      <4> QED
        BY <4>1, <4>2
    <3>2. Holders(q) = {}
      BY <2>1, <3>1 DEF Holders, On, SubInside, SubUses
    <3>3. refCount[q] = 0
      BY <2>0, <3>2, FS_EmptySet DEF RefCounts
    <3> QED
      BY <2>0, <2>1, <3>3 DEF IoType
  <2>6. /\ state' \in [Queues -> {"NON_EXIST", "SUSPENDED", "ACTIVE"}]
        /\ state'[q] = "SUSPENDED" /\ \A p \in Queues \ {q} : state'[p] = state[p]
    BY <2>0, <2>1 DEF IoType
  <2>7. IoType' /\ RefCounts' /\ Quiescing'
    BY <1>1, <2>1, <2>2, <2>5, <2>6, ControlFrame DEF IoType
  <2>8. States'
    BY <1>1, <2>0, <2>3, <2>6
    DEF States, Building, Starting, Stopping, Flushing, Running, Gone
  <2>9. Interrupts'
    <3>1. ~At(Quiesce, q, {"disable", "sync"})
      BY <1>0, <1>1, QuiescedIsKnown DEF At, QuiesceWorks, FlushInside, FlushUses
    <3> QED
      BY <1>1, <2>0, <2>3, <2>6, <3>1 DEF Interrupts
  <2>10. Built' /\ UsedIsBuilt'
    BY <1>0, <1>1, <2>0, <2>3, <2>4, <2>6 DEF Built, PartsOf, UsedIsBuilt, Building
  <2>11. Existing' = known' \cup {q} /\ numIoQueues' = Cardinality(known')
         /\ known' = 1..(q - 1) /\ numIoQueues' = q - 1
    BY <1>1, <1>2, <2>0, <2>1, <2>6 DEF Existing
  <2>12. Counted'
    BY <2>3, <2>11 DEF Counted, Creating, Building, Gone, Deleting, Stopping, Flushing
  <2> QED
    BY <2>7, <2>8, <2>9, <2>10, <2>12
<1>5. q > maxIoQueues \/ q <= maxIoQueues
  BY <1>0 DEF IoType
<1> QED
  BY <1>3, <1>4, <1>5

(* The construction.                                                       *)
LEMMA ConstructOK ==
  ASSUME IoInv, ~CqMayFail,
         \E ok \in BOOLEAN :
            \/ ConstructCq(ok)
            \/ Construct("sq", "buildSq", "buildCmds", ok)
            \/ Construct("cmds", "buildCmds", "init", ok)
  PROVE  IoInv'
<1> USE AgentsAre DEF IoInv
<1>0. PICK q \in Queues : ctl.q = q /\ ctl.pc \in {"buildCq", "buildSq", "buildCmds"}
  BY DEF ConstructCq, Construct, ControlAt, IoType, Between
<1>1. PICK pc \in {"buildSq", "buildCmds", "init", "unwound"}, built \in SUBSET Parts :
        /\ Goes(Control, pc) /\ parts' = [parts EXCEPT ![q] = built]
        /\ pc = "buildSq" => built = {"cq"}
        /\ pc = "buildCmds" => built = {"cq", "sq"}
        /\ pc = "init" => built = Parts
        /\ pc = "unwound" => built = {}
        /\ UNCHANGED <<state, refCount, isIntrEnabled, numIoQueues, maxIoQueues, isRemoved,
                       enabled, sub, qid, known, listLock, outstanding>>
  <2> USE <1>0 DEF ctrlrVars, cmdVars, lockVars, callVars, ControlAt, Parts
  <2>1. CASE \E ok \in BOOLEAN : ConstructCq(ok)
    BY <2>1 DEF ConstructCq
  <2>2. CASE \E ok \in BOOLEAN : Construct("sq", "buildSq", "buildCmds", ok)
    <3>1. ctl.pc = "buildSq"
      BY <2>2 DEF Construct
    <3>2. parts[q] = {"cq"} /\ parts \in [Queues -> SUBSET Parts]
      BY <3>1 DEF Built, PartsOf, IoType
    <3>3. {"cq"} \cup {"sq"} = {"cq", "sq"}
      OBVIOUS
    <3> QED
      BY <2>2, <3>2, <3>3 DEF Construct
  <2>3. CASE \E ok \in BOOLEAN : Construct("cmds", "buildCmds", "init", ok)
    <3>1. ctl.pc = "buildCmds"
      BY <2>3 DEF Construct
    <3>2. parts[q] = {"cq", "sq"} /\ parts \in [Queues -> SUBSET Parts]
      BY <3>1 DEF Built, PartsOf, IoType
    <3>3. {"cq", "sq"} \cup {"cmds"} = Parts
      OBVIOUS
    <3> QED
      BY <2>3, <3>2, <3>3 DEF Construct
  <2> QED
    BY <2>1, <2>2, <2>3
<1>2. ControlMove(pc, q)
  <2>1. AgentMoves(Control, pc, q)
    BY <1>0, <1>1, GoesMoves DEF ControlPcs, Creating, Building, Starting, ctl
  <2> QED
    BY <1>0, <1>1, <2>1
    DEF ControlMove, IoType, FlushInside, FlushUses, Between, ControlPcs, Creating, Building,
        Starting
<1>3. /\ agent'[Quiesce] = agent[Quiesce] /\ ctl'.pc = pc /\ ctl'.q = q
      /\ \A p \in Queues : agent'[p] = agent[p]
      /\ \A p \in Queues : Used(p)' = Used(p)
      /\ \A p : \A f \in Flushers :
           /\ At(f, p, {"disable"})' = At(f, p, {"disable"})
           /\ At(f, p, {"sync"})' = At(f, p, {"sync"})
           /\ At(f, p, {"disable", "sync"})' = At(f, p, {"disable", "sync"})
  BY <1>2, ControlMoves
<1>4. /\ parts' \in [Queues -> SUBSET Parts]
      /\ parts'[q] = built /\ \A p \in Queues \ {q} : parts'[p] = parts[p]
  BY <1>1 DEF IoType
<1>5. IoType' /\ RefCounts' /\ Quiescing'
  BY <1>1, <1>2, <1>4, ControlFrame DEF IoType
<1>6. state[q] = "SUSPENDED"
  BY <1>0 DEF States, Building
<1>7. States'
  BY <1>1, <1>3, <1>6 DEF States, Running, Gone
<1>8. Interrupts'
  BY <1>0, <1>1, <1>3 DEF Interrupts, Creating, Building
<1>9. Built'
  BY ZenonT(40), <1>0, <1>1, <1>3, <1>4, <1>6 DEF Built, PartsOf
<1>10. UsedIsBuilt'
  <2>1. ~Used(q)
    BY <1>0 DEF UsedIsBuilt, Building
  <2> QED
    BY <1>0, <1>1, <1>3, <2>1 DEF UsedIsBuilt
<1>11. Counted'
  BY <1>0, <1>1, <1>3
  DEF Counted, Existing, Creating, Building, Starting, Gone, Deleting, Stopping, Flushing
<1> QED
  BY <1>5, <1>7, <1>8, <1>9, <1>10, <1>11

-----------------------------------------------------------------------------
(* A queue that cannot be built, and one that is started.                  *)

LEMMA UnwoundOK == ASSUME IoInv, Unwound PROVE IoInv'
<1> USE AgentsAre DEF IoInv
<1>0. PICK q \in Queues : ctl.q = q
  BY DEF Unwound, ControlAt, IoType, Between
<1>1. /\ ctl.pc = "unwound" /\ Goes(Control, "up") /\ state' = [state EXCEPT ![q] = "NON_EXIST"]
      /\ UNCHANGED <<refCount, parts, isIntrEnabled, numIoQueues, maxIoQueues, isRemoved,
                     enabled, sub, qid, known, listLock, outstanding>>
  BY <1>0 DEF Unwound, ControlAt, ctrlrVars, cmdVars, lockVars, callVars
<1>2. ControlMove("up", q)
  <2>1. AgentMoves(Control, "up", q)
    BY <1>0, <1>1, GoesMoves DEF ControlPcs, Between, ctl
  <2> QED
    BY <1>0, <1>1, <2>1
    DEF ControlMove, IoType, FlushInside, FlushUses, Between, ControlPcs, Creating, Building
<1>3. /\ agent'[Quiesce] = agent[Quiesce] /\ ctl'.pc = "up" /\ ctl'.q = q
      /\ \A p \in Queues : agent'[p] = agent[p]
      /\ \A p \in Queues : Used(p)' = Used(p)
      /\ \A p : \A f \in Flushers :
           /\ At(f, p, {"disable"})' = At(f, p, {"disable"})
           /\ At(f, p, {"sync"})' = At(f, p, {"sync"})
           /\ At(f, p, {"disable", "sync"})' = At(f, p, {"disable", "sync"})
  BY <1>2, ControlMoves
<1>4. /\ state' \in [Queues -> {"NON_EXIST", "SUSPENDED", "ACTIVE"}]
      /\ state'[q] = "NON_EXIST" /\ \A p \in Queues \ {q} : state'[p] = state[p]
  BY <1>1 DEF IoType
<1>5. IoType' /\ RefCounts' /\ Quiescing'
  BY <1>1, <1>2, <1>4, ControlFrame DEF IoType
<1>6. state[q] = "SUSPENDED" /\ ~Used(q) /\ ~At(Quiesce, q, {"disable", "sync"})
      /\ ~At(Control, q, {"disable", "sync"})
  BY <1>0, <1>1 DEF States, UsedIsBuilt, Building, Interrupts, Creating, At, ctl
<1>7. States'
  BY <1>3, <1>4, <1>6 DEF States, Building, Starting, Stopping, Flushing, Running, Gone
<1>8. Interrupts'
  BY <1>1, <1>3, <1>4, <1>6
  DEF Interrupts, Creating, Building, Starting, Running, Flushing, Gone
<1>9. Built' /\ UsedIsBuilt'
  BY <1>0, <1>1, <1>3, <1>4, <1>6 DEF Built, PartsOf, UsedIsBuilt, Building
<1>10. Counted'
  <2>1. Existing = known \cup {q} /\ q \notin known /\ numIoQueues = Cardinality(known)
    <3>1. ctl.pc \in Creating /\ ctl.pc \notin Gone
      BY <1>1 DEF Creating, Building, Gone
    <3>2. /\ Existing = known \cup {q} /\ known = 1..(q - 1)
          /\ numIoQueues = Cardinality(known)
      BY <1>0, <3>1 DEF Counted
    <3> QED
      BY <3>2 DEF Queues
  <2>2. Existing' = known' /\ numIoQueues' = Cardinality(known')
    BY <1>1, <1>4, <2>1 DEF Existing
  <2> QED
    BY <1>3, <2>2
    DEF Counted, Creating, Building, Starting, Running, Gone, Deleting, Stopping, Flushing
<1> QED
  BY <1>5, <1>7, <1>8, <1>9, <1>10

LEMMA ResumeOK == ASSUME IoInv, Resume PROVE IoInv'
<1> USE AgentsAre DEF IoInv
<1>0. PICK q \in Queues : ctl.q = q
  BY DEF Resume, ControlAt, IoType, Between
<1>1. /\ ctl.pc = "resume" /\ Goes(Control, "enable") /\ state' = [state EXCEPT ![q] = "ACTIVE"]
      /\ UNCHANGED <<refCount, parts, isIntrEnabled, numIoQueues, maxIoQueues, isRemoved,
                     enabled, sub, qid, known, listLock, outstanding>>
  BY <1>0 DEF Resume, ControlAt, ctrlrVars, cmdVars, lockVars, callVars
<1>2. ControlMove("enable", q)
  <2>1. AgentMoves(Control, "enable", q)
    BY <1>0, <1>1, GoesMoves DEF ControlPcs, Creating, Running, ctl
  <2> QED
    BY <1>0, <1>1, <2>1
    DEF ControlMove, IoType, FlushInside, FlushUses, ControlPcs, Creating, Starting, Running
<1>3. /\ agent'[Quiesce] = agent[Quiesce] /\ ctl'.pc = "enable" /\ ctl'.q = q
      /\ \A p \in Queues : agent'[p] = agent[p]
      /\ \A p \in Queues : Used(p)' = Used(p)
      /\ \A p : \A f \in Flushers :
           /\ At(f, p, {"disable"})' = At(f, p, {"disable"})
           /\ At(f, p, {"sync"})' = At(f, p, {"sync"})
           /\ At(f, p, {"disable", "sync"})' = At(f, p, {"disable", "sync"})
  BY <1>2, ControlMoves
<1>4. /\ state' \in [Queues -> {"NON_EXIST", "SUSPENDED", "ACTIVE"}]
      /\ state'[q] = "ACTIVE" /\ \A p \in Queues \ {q} : state'[p] = state[p]
  BY <1>1 DEF IoType
<1>5. IoType' /\ RefCounts' /\ Quiescing'
  BY <1>1, <1>2, <1>4, ControlFrame DEF IoType
<1>6. state[q] = "SUSPENDED" /\ ~At(Quiesce, q, {"disable", "sync"})
      /\ ~At(Control, q, {"disable", "sync"})
  BY <1>0, <1>1 DEF States, Starting, Interrupts, Creating, At, ctl
<1>7. States'
  BY <1>3, <1>4, <1>6 DEF States, Building, Starting, Stopping, Flushing, Running, Gone
<1>8. Interrupts'
  BY <1>0, <1>1, <1>3, <1>4, <1>6 DEF Interrupts, Creating, Starting
<1>9. Built' /\ UsedIsBuilt'
  BY <1>0, <1>1, <1>3, <1>4, <1>6 DEF Built, PartsOf, UsedIsBuilt, Building
<1>10. Counted'
  <2>1. Existing' = Existing
    BY <1>4, <1>6 DEF Existing
  <2> QED
    BY <1>0, <1>1, <1>3, <2>1
    DEF Counted, Creating, Building, Starting, Running, Gone, Deleting, Stopping, Flushing
<1> QED
  BY <1>5, <1>7, <1>8, <1>9, <1>10

LEMMA EnableIntrOK == ASSUME IoInv, EnableIntr PROVE IoInv'
<1> USE AgentsAre DEF IoInv
<1>0. PICK q \in Queues : ctl.q = q
  BY DEF EnableIntr, ControlAt, IoType, Between
<1>1. /\ ctl.pc = "enable" /\ Goes(Control, "count")
      /\ isIntrEnabled' = [isIntrEnabled EXCEPT ![q] = TRUE]
      /\ UNCHANGED <<state, refCount, parts, numIoQueues, maxIoQueues, isRemoved,
                     enabled, sub, qid, known, listLock, outstanding>>
  BY <1>0 DEF EnableIntr, ControlAt, ctrlrVars, cmdVars, lockVars, callVars
<1>2. ControlMove("count", q)
  <2>1. AgentMoves(Control, "count", q)
    BY <1>0, <1>1, GoesMoves DEF ControlPcs, Creating, Running, ctl
  <2> QED
    BY <1>0, <1>1, <2>1
    DEF ControlMove, IoType, FlushInside, FlushUses, ControlPcs, Creating, Starting, Running
<1>3. /\ agent'[Quiesce] = agent[Quiesce] /\ ctl'.pc = "count" /\ ctl'.q = q
      /\ \A p \in Queues : agent'[p] = agent[p]
      /\ \A p \in Queues : Used(p)' = Used(p)
      /\ \A p : \A f \in Flushers :
           /\ At(f, p, {"disable"})' = At(f, p, {"disable"})
           /\ At(f, p, {"sync"})' = At(f, p, {"sync"})
           /\ At(f, p, {"disable", "sync"})' = At(f, p, {"disable", "sync"})
  BY <1>2, ControlMoves
<1>4. /\ isIntrEnabled' \in [Queues -> BOOLEAN]
      /\ isIntrEnabled'[q] /\ \A p \in Queues \ {q} : isIntrEnabled'[p] = isIntrEnabled[p]
  BY <1>1 DEF IoType
<1>5. IoType' /\ RefCounts' /\ Quiescing'
  BY <1>1, <1>2, <1>4, ControlFrame DEF IoType
<1>6. state[q] = "ACTIVE"
  BY <1>0, <1>1 DEF States, Running
<1>7. States'
  BY <1>1, <1>3, <1>6 DEF States, Building, Starting, Stopping, Flushing, Running, Gone
<1>8. Interrupts'
  BY <1>0, <1>1, <1>3, <1>4, <1>6 DEF Interrupts, Creating, Running
<1>9. Built' /\ UsedIsBuilt'
  BY <1>0, <1>1, <1>3, <1>6 DEF Built, PartsOf, UsedIsBuilt, Building
<1>10. Counted'
  BY <1>0, <1>1, <1>3
  DEF Counted, Existing, Creating, Running, Gone, Deleting, Stopping, Flushing
<1> QED
  BY <1>5, <1>7, <1>8, <1>9, <1>10

(* It is counted while QuiesceDevice is not in its loop.                   *)
LEMMA CountOK == ASSUME IoInv, ~Overlap, Count PROVE IoInv'
<1> USE AgentsAre DEF IoInv
<1>0. PICK q \in Queues : ctl.q = q
  BY DEF Count, ControlAt, IoType, Between
<1>1. /\ ctl.pc = "count" /\ ControlNext("create", q + 1)
      /\ agent[Quiesce].pc \in {"idle", "done"}
      /\ numIoQueues' = numIoQueues + 1 /\ known' = known \cup {q}
      /\ UNCHANGED <<state, refCount, parts, isIntrEnabled, maxIoQueues, isRemoved,
                     enabled, sub, qid, listLock, outstanding>>
  BY <1>0 DEF Count, MayCount, ControlAt, queueVars, cmdVars, lockVars
<1>2. ControlMove("create", q + 1)
  <2>1. q + 1 \in Int /\ q + 1 \in 1..(NumQueues + 1)
    BY NumQueuesAssumption DEF Queues
  <2>2. AgentMoves(Control, "create", q + 1)
    BY <1>1, <2>1, ControlNextMoves DEF ControlPcs, Between
  <2> QED
    BY <1>0, <1>1, <2>1, <2>2
    DEF ControlMove, IoType, FlushInside, FlushUses, ControlPcs, Between, Creating, Running
<1>3. /\ agent'[Quiesce] = agent[Quiesce] /\ ctl'.pc = "create" /\ ctl'.q = q + 1
      /\ \A p \in Queues : agent'[p] = agent[p]
      /\ \A p \in Queues : Used(p)' = Used(p)
      /\ \A p : \A f \in Flushers :
           /\ At(f, p, {"disable"})' = At(f, p, {"disable"})
           /\ At(f, p, {"sync"})' = At(f, p, {"sync"})
           /\ At(f, p, {"disable", "sync"})' = At(f, p, {"disable", "sync"})
  BY <1>2, ControlMoves
<1>4. IoType' /\ RefCounts' /\ Quiescing'
  BY <1>1, <1>2, ControlFrame DEF IoType, QuiesceWorks, FlushInside, FlushUses
<1>5. state[q] = "ACTIVE"
  BY <1>0, <1>1 DEF States, Running
<1>6. States'
  BY <1>1, <1>3 DEF States, Building, Starting, Stopping, Flushing, Running, Gone
<1>7. Interrupts'
  BY <1>1, <1>3 DEF Interrupts, Creating, Building, Starting, Running, Flushing, Gone
<1>8. Built' /\ UsedIsBuilt'
  BY <1>0, <1>1, <1>3, <1>5 DEF Built, PartsOf, UsedIsBuilt, Building
<1>9. Counted'
  <2>1. Existing = known \cup {q} /\ known = 1..(q - 1) /\ numIoQueues = q - 1
    <3>1. ctl.pc \in Creating /\ ctl.pc \notin Gone
      BY <1>1 DEF Creating, Running, Gone
    <3> QED
      BY <1>0, <3>1 DEF Counted
  <2>2. known' = 1..((q + 1) - 1) /\ numIoQueues' = (q + 1) - 1
    BY <1>1, <2>1 DEF Queues
  <2>3. Cardinality(1..q) = q
    BY FS_Interval DEF Queues
  <2>4. numIoQueues' = Cardinality(known')
    <3>1. (q + 1) - 1 = q
      BY DEF Queues
    <3> QED
      BY <2>2, <2>3, <3>1
  <2>5. Existing' = known'
    BY <1>1, <2>1 DEF Existing
  <2> QED
    BY <1>3, <2>2, <2>4, <2>5
    DEF Counted, Creating, Building, Starting, Running, Gone, Deleting, Stopping, Flushing
<1> QED
  BY <1>4, <1>6, <1>7, <1>8, <1>9

LEMMA CreateStepOK == ASSUME IoInv, ~CqMayFail, ~Overlap, CreateStep PROVE IoInv'
BY CreateOK, ConstructOK, UnwoundOK, DeviceCommandsOK, ResumeOK, EnableIntrOK, CountOK
DEF CreateStep

-----------------------------------------------------------------------------
(* The deletion of the queues.                                             *)

LEMMA TakeDownOK == ASSUME IoInv, NEW disabled \in BOOLEAN, TakeDown(disabled) PROVE IoInv'
<1> USE AgentsAre DEF IoInv
<1>0. PICK q : ctl.q = q
  OBVIOUS
<1>1. /\ ctl.pc = "up" /\ Goes(Control, "delete") /\ enabled' \in BOOLEAN
      /\ UNCHANGED <<state, refCount, parts, isIntrEnabled, numIoQueues, maxIoQueues, isRemoved,
                     sub, qid, known, listLock, outstanding>>
  BY DEF TakeDown, ControlAt, queueVars, cmdVars, lockVars, callVars, IoType
<1>2. ControlMove("delete", q)
  <2>1. AgentMoves(Control, "delete", q)
    BY <1>0, <1>1, GoesMoves DEF ControlPcs, Between, ctl
  <2> QED
    BY <1>1, <2>1
    DEF ControlMove, IoType, FlushInside, FlushUses, ControlPcs, Between
<1>3. /\ agent'[Quiesce] = agent[Quiesce] /\ ctl'.pc = "delete" /\ ctl'.q = q
      /\ \A p \in Queues : agent'[p] = agent[p]
      /\ \A p \in Queues : Used(p)' = Used(p)
      /\ \A p : \A f \in Flushers :
           /\ At(f, p, {"disable"})' = At(f, p, {"disable"})
           /\ At(f, p, {"sync"})' = At(f, p, {"sync"})
           /\ At(f, p, {"disable", "sync"})' = At(f, p, {"disable", "sync"})
  BY <1>2, ControlMoves
<1>4. IoType' /\ RefCounts' /\ Quiescing'
  BY <1>1, <1>2, ControlFrame DEF IoType
<1>5. States'
  BY <1>1, <1>3 DEF States, Building, Starting, Stopping, Flushing, Running, Gone
<1>6. Interrupts'
  BY <1>1, <1>3 DEF Interrupts, Creating, Building, Starting, Running, Flushing, Gone
<1>7. Built' /\ UsedIsBuilt'
  BY <1>0, <1>1, <1>3 DEF Built, PartsOf, UsedIsBuilt, Building
<1>8. Counted'
  BY <1>1, <1>3
  DEF Counted, Existing, Creating, Building, Starting, Running, Gone, Deleting, Stopping, Flushing
<1> QED
  BY <1>4, <1>5, <1>6, <1>7, <1>8

LEMMA DeleteOK == ASSUME IoInv, NEW q \in Queues, Delete(q) PROVE IoInv'
<1> USE AgentsAre DEF IoInv
<1>0. ctl.pc = "delete" /\ q \in known /\ known = Existing
  BY DEF Delete, ControlAt, Counted, Creating, Building, Starting, Running, Gone
<1>1. /\ ControlNext("suspend", q) /\ state[q] # "NON_EXIST"
      /\ UNCHANGED <<state, refCount, parts, isIntrEnabled, numIoQueues, maxIoQueues, isRemoved,
                     enabled, sub, qid, known, listLock, outstanding>>
  BY <1>0 DEF Delete, Existing, queueVars, ctrlrVars, cmdVars, lockVars
<1>2. ControlMove("suspend", q)
  <2>1. AgentMoves(Control, "suspend", q)
    <3>1. q \in Int /\ "suspend" \in ControlPcs
      BY DEF ControlPcs, Deleting, Queues
    <3> QED
      BY <1>1, <3>1, ControlNextMoves
  <2> QED
    BY <1>0, <1>1, <2>1
    DEF ControlMove, IoType, FlushInside, FlushUses, ControlPcs, Between, Deleting
<1>3. /\ agent'[Quiesce] = agent[Quiesce] /\ ctl'.pc = "suspend" /\ ctl'.q = q
      /\ \A p \in Queues : agent'[p] = agent[p]
      /\ \A p \in Queues : Used(p)' = Used(p)
      /\ \A p : \A f \in Flushers :
           /\ At(f, p, {"disable"})' = At(f, p, {"disable"})
           /\ At(f, p, {"sync"})' = At(f, p, {"sync"})
           /\ At(f, p, {"disable", "sync"})' = At(f, p, {"disable", "sync"})
  BY <1>2, ControlMoves
<1>4. IoType' /\ RefCounts' /\ Quiescing'
  BY <1>1, <1>2, ControlFrame DEF IoType
<1>5. States'
  BY <1>1, <1>3 DEF States, Building, Starting, Stopping, Flushing, Running, Gone
<1>6. Interrupts'
  BY <1>1, <1>3 DEF Interrupts, Creating, Building, Starting, Running, Flushing, Gone
<1>7. Built' /\ UsedIsBuilt'
  BY <1>0, <1>1, <1>3 DEF Built, PartsOf, UsedIsBuilt, Building
<1>8. Counted'
  BY <1>0, <1>1, <1>3
  DEF Counted, Existing, Creating, Building, Starting, Running, Gone
<1> QED
  BY <1>4, <1>5, <1>6, <1>7, <1>8

LEMMA DeletedOK == ASSUME IoInv, Deleted PROVE IoInv'
<1> USE AgentsAre DEF IoInv
<1>0. PICK q \in Int : q = 0
  OBVIOUS
<1>1. /\ ctl.pc = "delete" /\ known = {} /\ ControlNext("idle", q)
      /\ UNCHANGED <<state, refCount, parts, isIntrEnabled, numIoQueues, maxIoQueues, isRemoved,
                     enabled, sub, qid, known, listLock, outstanding>>
  BY <1>0 DEF Deleted, ControlAt, queueVars, ctrlrVars, cmdVars, lockVars, callVars
<1>2. ControlMove("idle", q)
  <2>1. AgentMoves(Control, "idle", q)
    BY <1>1, ControlNextMoves DEF ControlPcs, Between
  <2> QED
    BY <1>1, <2>1
    DEF ControlMove, IoType, FlushInside, FlushUses, ControlPcs, Between
<1>3. /\ agent'[Quiesce] = agent[Quiesce] /\ ctl'.pc = "idle" /\ ctl'.q = q
      /\ \A p \in Queues : agent'[p] = agent[p]
      /\ \A p \in Queues : Used(p)' = Used(p)
      /\ \A p : \A f \in Flushers :
           /\ At(f, p, {"disable"})' = At(f, p, {"disable"})
           /\ At(f, p, {"sync"})' = At(f, p, {"sync"})
           /\ At(f, p, {"disable", "sync"})' = At(f, p, {"disable", "sync"})
  BY <1>2, ControlMoves
<1>4. IoType' /\ RefCounts' /\ Quiescing'
  BY <1>1, <1>2, ControlFrame DEF IoType
<1>5. States'
  BY <1>1, <1>3 DEF States, Building, Starting, Stopping, Flushing, Running, Gone
<1>6. Interrupts'
  BY <1>1, <1>3 DEF Interrupts, Creating, Building, Starting, Running, Flushing, Gone
<1>7. Built' /\ UsedIsBuilt'
  BY <1>1, <1>3 DEF Built, PartsOf, UsedIsBuilt, Building
<1>8. Counted'
  <2>1. Existing = known /\ numIoQueues = Cardinality(known)
    BY <1>1 DEF Counted, Creating, Building, Starting, Running, Gone
  <2> QED
    BY <1>1, <1>3, <2>1
    DEF Counted, Existing, Creating, Building, Starting, Running, Gone, Deleting, Stopping, Flushing
<1> QED
  BY <1>4, <1>5, <1>6, <1>7, <1>8

LEMMA MarkNonExistOK == ASSUME IoInv, MarkNonExist PROVE IoInv'
<1> USE AgentsAre DEF IoInv
<1>0. PICK q \in Queues : ctl.q = q
  BY DEF MarkNonExist, ControlAt, IoType, Between
<1>1. /\ ctl.pc = "destroy" /\ Goes(Control, "drain")
      /\ state' = [state EXCEPT ![q] = "NON_EXIST"]
      /\ UNCHANGED <<refCount, parts, isIntrEnabled, numIoQueues, maxIoQueues, isRemoved,
                     enabled, sub, qid, known, listLock, outstanding>>
  BY <1>0 DEF MarkNonExist, ControlAt, ctrlrVars, cmdVars, lockVars, callVars
<1>2. ControlMove("drain", q)
  <2>1. AgentMoves(Control, "drain", q)
    BY <1>0, <1>1, GoesMoves DEF ControlPcs, Gone, ctl
  <2> QED
    BY <1>0, <1>1, <2>1
    DEF ControlMove, IoType, FlushInside, FlushUses, ControlPcs, Gone
<1>3. /\ agent'[Quiesce] = agent[Quiesce] /\ ctl'.pc = "drain" /\ ctl'.q = q
      /\ \A p \in Queues : agent'[p] = agent[p]
      /\ \A p \in Queues : Used(p)' = Used(p)
      /\ \A p : \A f \in Flushers :
           /\ At(f, p, {"disable"})' = At(f, p, {"disable"})
           /\ At(f, p, {"sync"})' = At(f, p, {"sync"})
           /\ At(f, p, {"disable", "sync"})' = At(f, p, {"disable", "sync"})
  BY <1>2, ControlMoves
<1>4. /\ state' \in [Queues -> {"NON_EXIST", "SUSPENDED", "ACTIVE"}]
      /\ state'[q] = "NON_EXIST" /\ \A p \in Queues \ {q} : state'[p] = state[p]
  BY <1>1 DEF IoType
<1>5. IoType' /\ RefCounts' /\ Quiescing'
  BY <1>1, <1>2, <1>4, ControlFrame DEF IoType
<1>6. state[q] = "SUSPENDED" /\ ~At(Quiesce, q, {"disable", "sync"})
      /\ ~At(Control, q, {"disable", "sync"})
  BY <1>0, <1>1 DEF States, Interrupts, At, ctl
<1>7. States'
  BY <1>3, <1>4, <1>6 DEF States, Building, Starting, Stopping, Flushing, Running, Gone
<1>8. Interrupts'
  BY <1>0, <1>1, <1>3, <1>4, <1>6 DEF Interrupts
<1>9. Built' /\ UsedIsBuilt'
  BY <1>0, <1>1, <1>3, <1>4, <1>6 DEF Built, PartsOf, UsedIsBuilt, Building
<1>10. Counted'
  <2>1. Existing = known \cup {q} /\ numIoQueues = Cardinality(known)
    BY <1>0, <1>1 DEF Counted, Gone
  <2>2. Existing' = known' \ {q} /\ numIoQueues' = Cardinality(known')
    BY <1>1, <1>4, <2>1 DEF Existing
  <2> QED
    BY <1>3, <2>2
    DEF Counted, Creating, Building, Starting, Running, Gone, Deleting, Stopping, Flushing
<1> QED
  BY <1>5, <1>7, <1>8, <1>9, <1>10

(* The wait: no reference is left, and so nobody waits for a handler, and  *)
(* so no handler runs.                                                     *)
LEMMA DrainedIsUnused ==
  ASSUME IoInv, ctl.pc = "drain", ctl.q \in Queues, refCount[ctl.q] = 0
  PROVE  ~Used(ctl.q)
<1> USE DEF IoInv
<1>1. PICK q \in Queues : ctl.q = q
  OBVIOUS
<1>2. Holders(q) = {}
  BY <1>1, NoHolders
<1>3. ASSUME NEW f \in Flushers
      PROVE  /\ ~At(f, q, FlushUses) /\ ~At(f, q, {"disable"})
             /\ ~At(f, q, {"sync"})
  BY <1>2 DEF Holders, At, FlushInside, FlushUses
<1>4. state[q] = "NON_EXIST"
  BY <1>1 DEF States, Gone
<1>5. agent[q].pc = "idle"
  BY <1>3, <1>4 DEF Interrupts
<1> QED
  BY <1>1, <1>2, <1>3, <1>5 DEF Used, Holders, SubInside

(* From there on nobody comes back.                                        *)
LEMMA FreeingOK ==
  ASSUME IoInv, Drain \/ Free("cmds", "freeCmds", "freeSq") \/ Free("sq", "freeSq", "freeCq")
                \/ FreeCq
  PROVE  IoInv'
<1> USE AgentsAre DEF IoInv
<1>0. PICK q \in Queues : ctl.q = q
  BY DEF Drain, Free, FreeCq, ControlAt, IoType, Between
<1>1. PICK pc \in {"freeCmds", "freeSq", "freeCq", "uncount", "up"}, left \in SUBSET Parts :
        /\ ctl.pc \in Gone /\ Goes(Control, pc) /\ parts' = [parts EXCEPT ![q] = left]
        /\ pc = "freeCmds" => left = Parts /\ ctl.pc = "drain" /\ refCount[q] = 0
        /\ pc = "freeSq" => left = {"cq", "sq"} /\ ctl.pc = "freeCmds"
        /\ pc = "freeCq" => left = {"cq"} /\ ctl.pc = "freeSq"
        /\ pc \in {"uncount", "up"} => left = {} /\ ctl.pc = "freeCq"
        /\ pc = "uncount" <=> (ctl.pc = "freeCq" /\ q \in known)
        /\ UNCHANGED <<state, refCount, isIntrEnabled, numIoQueues, maxIoQueues, isRemoved,
                       enabled, sub, qid, known, listLock, outstanding>>
  <2> USE <1>0 DEF queueVars, ctrlrVars, cmdVars, lockVars, callVars, ControlAt, Gone
  <2>0. parts \in [Queues -> SUBSET Parts] /\ parts[q] = PartsOf(q)
    BY DEF Built, IoType
  <2>1. CASE Drain
    <3>1. ctl.pc = "drain" /\ refCount[q] = 0 /\ Goes(Control, "freeCmds")
      BY <2>1 DEF Drain
    <3>2. parts[q] = Parts
      BY <2>0, <3>1 DEF PartsOf
    <3>3. parts' = [parts EXCEPT ![q] = Parts]
      BY <2>0, <2>1, <3>2 DEF Drain
    <3> QED
      BY <2>1, <3>1, <3>3 DEF Drain
  <2>2. CASE Free("cmds", "freeCmds", "freeSq")
    <3>1. ctl.pc = "freeCmds"
      BY <2>2 DEF Free
    <3>2. parts[q] = Parts /\ Parts \ {"cmds"} = {"cq", "sq"}
      BY <2>0, <3>1 DEF PartsOf, Parts
    <3> QED
      BY <2>2, <3>2 DEF Free, Parts
  <2>3. CASE Free("sq", "freeSq", "freeCq")
    <3>1. ctl.pc = "freeSq"
      BY <2>3 DEF Free
    <3>2. parts[q] = {"cq", "sq"} /\ {"cq", "sq"} \ {"sq"} = {"cq"}
      BY <2>0, <3>1 DEF PartsOf
    <3> QED
      BY <2>3, <3>2 DEF Free, Parts
  <2>4. CASE FreeCq
    <3>1. /\ ctl.pc = "freeCq" /\ parts' = [parts EXCEPT ![q] = {}] /\ {} \in SUBSET Parts
          /\ Goes(Control, IF q \in known THEN "uncount" ELSE "up")
      BY <2>4 DEF FreeCq
    <3>2. UNCHANGED <<state, refCount, isIntrEnabled, numIoQueues, maxIoQueues, isRemoved,
                      enabled, sub, qid, known, listLock, outstanding>>
      BY <2>4 DEF FreeCq
    <3>3. CASE q \in known
      BY <3>1, <3>2, <3>3
    <3>4. CASE q \notin known
      BY <3>1, <3>2, <3>4
    <3> QED
      BY <3>3, <3>4
  <2> QED
    BY <2>1, <2>2, <2>3, <2>4
<1>2. ControlMove(pc, q)
  <2>1. pc \in ControlPcs
    BY DEF ControlPcs, Gone, Between
  <2>2. AgentMoves(Control, pc, q)
    BY <1>0, <1>1, <2>1, GoesMoves DEF ctl
  <2> QED
    BY <1>0, <1>1, <2>1, <2>2
    DEF ControlMove, IoType, FlushInside, FlushUses, ControlPcs, Gone
<1>3. /\ agent'[Quiesce] = agent[Quiesce] /\ ctl'.pc = pc /\ ctl'.q = q
      /\ \A p \in Queues : agent'[p] = agent[p]
      /\ \A p \in Queues : Used(p)' = Used(p)
      /\ \A p : \A f \in Flushers :
           /\ At(f, p, {"disable"})' = At(f, p, {"disable"})
           /\ At(f, p, {"sync"})' = At(f, p, {"sync"})
           /\ At(f, p, {"disable", "sync"})' = At(f, p, {"disable", "sync"})
  BY <1>2, ControlMoves
<1>4. /\ parts' \in [Queues -> SUBSET Parts]
      /\ parts'[q] = left /\ \A p \in Queues \ {q} : parts'[p] = parts[p]
  BY <1>1 DEF IoType
<1>5. IoType' /\ RefCounts' /\ Quiescing'
  BY <1>1, <1>2, <1>4, ControlFrame DEF IoType
<1>6. state[q] = "NON_EXIST"
  BY <1>0, <1>1 DEF States
<1>7. States'
  BY <1>1, <1>3, <1>6 DEF States, Building, Starting, Stopping, Flushing, Running
<1>8. Interrupts'
  BY <1>0, <1>1, <1>3 DEF Interrupts, Creating, Building, Starting, Running, Flushing
<1>9. Built'
  BY ZenonT(40), <1>0, <1>1, <1>3, <1>4, <1>6 DEF Built, PartsOf, Gone
<1>10. UsedIsBuilt'
  <2>1. ~Used(q)
    <3>1. CASE ctl.pc = "drain"
      BY <1>0, <1>1, <3>1, DrainedIsUnused
    <3>2. CASE ctl.pc # "drain"
      BY <1>0, <1>6, <3>2 DEF UsedIsBuilt
    <3> QED
      BY <3>1, <3>2
  <2> QED
    BY <1>0, <1>1, <1>3, <2>1 DEF UsedIsBuilt, Building
<1>11. Counted'
  <2>1. Existing = known \ {q} /\ numIoQueues = Cardinality(known)
    <3>1. ctl.pc \in Gone /\ ctl.pc \notin Creating \cup {"destroy"}
      BY <1>1 DEF Gone, Creating, Building, Starting, Running
    <3> QED
      BY <1>0, <3>1 DEF Counted
  <2>2. Existing' = known' \ {q} /\ numIoQueues' = Cardinality(known')
    BY <1>1, <2>1 DEF Existing
  <2>3. pc = "uncount" => q \in known'
    BY <1>1
  <2>4. pc = "up" => q \notin known'
    BY <1>1
  <2> QED
    BY <1>1, <1>3, <2>2, <2>3, <2>4
    DEF Counted, Creating, Building, Starting, Running, Gone, Deleting, Stopping, Flushing
<1> QED
  BY <1>5, <1>7, <1>8, <1>9, <1>10, <1>11

LEMMA UncountOK == ASSUME IoInv, ~Overlap, Uncount PROVE IoInv'
<1> USE AgentsAre DEF IoInv
<1>0. PICK q \in Queues : ctl.q = q
  BY DEF Uncount, ControlAt, IoType, Between
<1>1. /\ ctl.pc = "uncount" /\ Goes(Control, "delete")
      /\ agent[Quiesce].pc \in {"idle", "done"}
      /\ numIoQueues' = numIoQueues - 1 /\ known' = known \ {q}
      /\ UNCHANGED <<state, refCount, parts, isIntrEnabled, maxIoQueues, isRemoved,
                     enabled, sub, qid, listLock, outstanding>>
  BY <1>0 DEF Uncount, MayCount, ControlAt, queueVars, cmdVars, lockVars
<1>2. ControlMove("delete", q)
  <2>1. AgentMoves(Control, "delete", q)
    BY <1>0, <1>1, GoesMoves DEF ControlPcs, Between, ctl
  <2> QED
    BY <1>0, <1>1, <2>1
    DEF ControlMove, IoType, FlushInside, FlushUses, ControlPcs, Between, Gone
<1>3. /\ agent'[Quiesce] = agent[Quiesce] /\ ctl'.pc = "delete" /\ ctl'.q = q
      /\ \A p \in Queues : agent'[p] = agent[p]
      /\ \A p \in Queues : Used(p)' = Used(p)
      /\ \A p : \A f \in Flushers :
           /\ At(f, p, {"disable"})' = At(f, p, {"disable"})
           /\ At(f, p, {"sync"})' = At(f, p, {"sync"})
           /\ At(f, p, {"disable", "sync"})' = At(f, p, {"disable", "sync"})
  BY <1>2, ControlMoves
<1>4. IoType' /\ RefCounts' /\ Quiescing'
  BY <1>1, <1>2, ControlFrame DEF IoType, QuiesceWorks, FlushInside, FlushUses
<1>5. state[q] = "NON_EXIST"
  BY <1>0, <1>1 DEF States, Gone
<1>6. States'
  BY <1>1, <1>3 DEF States, Building, Starting, Stopping, Flushing, Running, Gone
<1>7. Interrupts'
  BY <1>1, <1>3 DEF Interrupts, Creating, Building, Starting, Running, Flushing, Gone
<1>8. Built' /\ UsedIsBuilt'
  BY <1>0, <1>1, <1>3, <1>5 DEF Built, PartsOf, UsedIsBuilt, Building
<1>9. Counted'
  <2>1. Existing = known \ {q} /\ q \in known /\ numIoQueues = Cardinality(known)
    <3>1. ctl.pc \in Gone /\ ctl.pc \notin Creating \cup {"destroy"}
      BY <1>1 DEF Gone, Creating, Building, Starting, Running
    <3> QED
      BY <1>0, <1>1, <3>1 DEF Counted
  <2>2. IsFiniteSet(known)
    <3>1. IsFiniteSet(Queues)
      BY NumQueuesAssumption, FS_Interval DEF Queues
    <3> QED
      BY <3>1, FS_Subset DEF IoType
  <2>3. Cardinality(known') = Cardinality(known) - 1
    BY <1>1, <2>1, <2>2, FS_RemoveElement
  <2>4. numIoQueues' = Cardinality(known')
    BY <1>1, <2>1, <2>3
  <2>5. Existing' = known'
    BY <1>1, <2>1 DEF Existing
  <2> QED
    BY <1>3, <2>4, <2>5
    DEF Counted, Creating, Building, Starting, Running, Gone, Deleting, Stopping, Flushing
<1> QED
  BY <1>4, <1>6, <1>7, <1>8, <1>9

LEMMA DeleteStepOK == ASSUME IoInv, ~Overlap, DeleteStep PROVE IoInv'
BY DeleteOK, DeletedOK, DeviceCommandsOK, MarkNonExistOK, FreeingOK, UncountOK DEF DeleteStep

-----------------------------------------------------------------------------
(* The invariant holds: where the completion queue can always be built and *)
(* the count does not change under QuiesceDevice.                          *)

LEMMA IoInvInit == ASSUME Init PROVE IoInv
<1> USE AgentsAre DEF Init
<1>1. IoType
  <2>1. state \in [Queues -> {"NON_EXIST", "SUSPENDED", "ACTIVE"}]
        /\ parts \in [Queues -> SUBSET Parts]
    OBVIOUS
  <2>2. sub \in [Cmds -> Submitter] /\ \A c \in Cmds : sub[c].pc = "idle"
    BY DEF Submitter, SubPcs
  <2>3. /\ agent \in [Agents -> Agent]
        /\ \A a \in Agents : agent[a].pc = "idle"
        /\ \A q \in Queues : agent[q].q = q
    BY DEF Agent, HandlerPcs, Queues
  <2>4. maxIoQueues \in 0..NumQueues
    BY NumQueuesAssumption
  <2>5. ctl.pc = "idle" /\ agent[Quiesce].pc = "idle"
    BY <2>3 DEF ctl
  <2>6. /\ refCount \in [Queues -> Int] /\ isIntrEnabled \in [Queues -> BOOLEAN]
        /\ listLock \in [Queues -> Flushers \cup {None}]
        /\ outstanding \subseteq Cmds /\ known \subseteq Queues
    OBVIOUS
  <2>7. "idle" \in HandlerPcs /\ "idle" \in ControlPcs /\ "idle" \in QuiescePcs
        /\ "idle" \notin QuiesceWorks /\ "idle" \in Between
    BY DEF HandlerPcs, ControlPcs, Between, QuiescePcs, QuiesceWorks, FlushInside, FlushUses
  <2>8. numIoQueues \in Int /\ isRemoved \in BOOLEAN /\ enabled \in BOOLEAN /\ qid \in Nat
    <3>1. numIoQueues = 0 /\ isRemoved = FALSE /\ enabled = FALSE /\ qid = 0
      OBVIOUS
    <3>2. numIoQueues \in Int /\ qid \in Nat
      BY ONLY <3>1
    <3>3. isRemoved \in BOOLEAN /\ enabled \in BOOLEAN
      BY ONLY <3>1
    <3> QED
      BY <3>2, <3>3
  <2>9. \A q \in Queues : agent[q].pc \in HandlerPcs /\ agent[q].q = q
    BY <2>3, <2>7
  <2> QED
    BY ONLY <2>1, <2>2, <2>3, <2>4, <2>5, <2>6, <2>7, <2>8, <2>9 DEF IoType
<1>2. /\ \A a \in Agents : agent[a].pc = "idle"
      /\ \A c \in Cmds : sub[c].pc = "idle"
  OBVIOUS
<1>3. \A q \in Queues : Holders(q) = {} /\ ~Used(q)
  BY <1>2 DEF Holders, Used, At, SubInside, SubUses, FlushInside, FlushUses
<1>4. RefCounts
  BY <1>3, FS_EmptySet DEF RefCounts
<1>5. States /\ Interrupts
  BY <1>2
  DEF States, Interrupts, At, ctl, Creating, Building, Starting, Stopping, Flushing, Running,
      Gone
<1>6. Built /\ UsedIsBuilt
  BY <1>2, <1>3 DEF Built, PartsOf, UsedIsBuilt, ctl
<1>7. Counted
  BY <1>2, FS_EmptySet
  DEF Counted, Existing, ctl, Creating, Building, Starting, Running, Gone, Deleting, Stopping, Flushing
<1>8. Quiescing
  BY <1>2 DEF Quiescing, QuiesceWorks, FlushInside, FlushUses
<1> QED
  BY <1>1, <1>4, <1>5, <1>6, <1>7, <1>8 DEF IoInv

LEMMA IoInvStutter == ASSUME IoInv, UNCHANGED vars PROVE IoInv'
<1> USE DEF vars, queueVars, ctrlrVars, hwVars, cmdVars, lockVars, callVars, IoInv, ctl
<1>1. (IoType /\ States /\ Interrupts)'
  BY DEF IoType, States, Interrupts, At
<1>2. (RefCounts /\ Built /\ UsedIsBuilt)'
  BY DEF RefCounts, Holders, Built, PartsOf, UsedIsBuilt, Used, At
<1>3. (Counted /\ Quiescing)'
  BY DEF Counted, Existing, Quiescing
<1> QED
  BY <1>1, <1>2, <1>3

LEMMA IoInvNext == ASSUME IoInv, ~CqMayFail, ~Overlap, [Next]_vars PROVE IoInv'
<1>1. CASE \E c \in Cmds :
             (\E q \in Queues : SubmitEnter(c, q)) \/ SubmitStep(c) \/ DeviceCompletes(c)
  BY <1>1, SubmitEnterOK, SubInsideOK, SubmitLeaveOK, DeviceOK DEF SubmitStep
<1>2. CASE \/ \E q \in Queues : Interrupt(q)
           \/ \E a \in Agents : CompleteStep(a)
           \/ \E f \in Flushers : FlushStep(f)
  BY <1>2, InterruptOK, CompleteStepOK, FlushStepOK
<1>3. CASE (\E n \in Queues : BringUp(n)) \/ CreateStep
  BY <1>3, BringUpOK, CreateStepOK
<1>4. CASE (\E disabled \in BOOLEAN : TakeDown(disabled)) \/ DeleteStep
  BY <1>4, TakeDownOK, DeleteStepOK
<1>5. CASE ForgetDevice \/ QuiesceStart \/ QuiesceStep
  BY <1>5, DeviceOK, QuiesceOK
<1>6. CASE UNCHANGED vars
  BY <1>6, IoInvStutter
<1> QED
  BY <1>1, <1>2, <1>3, <1>4, <1>5, <1>6 DEF Next

THEOREM IoInvHolds == ASSUME ~CqMayFail, ~Overlap PROVE Spec => []IoInv
<1>1. Init => IoInv
  BY IoInvInit
<1>2. IoInv /\ [Next]_vars => IoInv'
  BY IoInvNext
<1> QED
  BY <1>1, <1>2, PTL DEF Spec

(* No thread dereferences what NVMEPCIEQueueDestroy has freed, or what     *)
(* NVMEPCIEQueueCreate has not built, whatever the order of submissions,   *)
(* interrupts, the removal of the device and the deletion of the queues.   *)
THEOREM NoUseAfterFreeHolds == ASSUME ~CqMayFail, ~Overlap PROVE Spec => []NoUseAfterFree
<1>1. ASSUME IoInv PROVE NoUseAfterFree
  <2> USE <1>1, AgentsAre DEF IoInv
  <2>1. ASSUME NEW q \in Queues, Used(q) PROVE parts[q] = Parts
    BY <2>1 DEF UsedIsBuilt, Built, PartsOf, Building, Parts, States, Gone
  <2>2. ASSUME NEW c \in Cmds, sub[c].pc \in SubUses PROVE parts[sub[c].q] = Parts
    BY <2>1, <2>2 DEF Used, IoType, SubUses
  <2>3. ASSUME NEW f \in Flushers, agent[f].pc \in FlushUses
        PROVE  parts[agent[f].q] = Parts
    <3>1. agent[f].q \in Queues
      BY <2>3 DEF IoType, QuiesceWorks, FlushInside, FlushUses, Between, ctl
    <3> QED
      BY <2>1, <2>3, <3>1 DEF Used, At
  <2>4. ASSUME NEW q \in Queues, agent[q].pc # "idle" PROVE parts[agent[q].q] = Parts
    BY <2>1, <2>4 DEF Used, IoType
  <2>5. ASSUME NEW a \in Agents, agent[a].pc \in FlushUses PROVE parts[agent[a].q] = Parts
    BY <2>3, <2>4, <2>5 DEF Agents, FlushUses
  <2> QED
    BY <2>2, <2>5 DEF NoUseAfterFree, SubUses, FlushUses, Parts
<1> QED
  BY <1>1, IoInvHolds, PTL

(* Between the calls of vmknvme the driver's count, the queues that exist  *)
(* and the queues that vmknvme knows agree.                                *)
THEOREM CountMatchesHolds == ASSUME ~CqMayFail, ~Overlap PROVE Spec => []CountMatches
<1>1. ASSUME IoInv PROVE CountMatches
  BY <1>1
  DEF IoInv, Counted, CountMatches, Existing, Creating, Building, Starting, Running, Gone
<1> QED
  BY <1>1, IoInvHolds, PTL

-----------------------------------------------------------------------------
(* What the device has of a queue.                                         *)

(* What the driver has told the device to have of queue q.                 *)
Untold == Building \cup {"init", "createCq", "await", "destroy"} \cup Flushing \cup Gone
Told(q) ==
  CASE ctl.q = q /\ ctl.pc \in Untold -> {}
    [] ctl.q = q /\ ctl.pc \in {"createSq", "dropCq", "deleteCq"} -> {"cq"}
    [] OTHER -> IF state[q] = "NON_EXIST" THEN {} ELSE {"cq", "sq"}

Device ==
  /\ hw \in [Queues -> SUBSET {"cq", "sq"}]
  /\ isRemoved \/ ~enabled => \A q \in Queues : hw[q] = {}
  /\ \A q \in Queues : hw[q] \subseteq Told(q) \/ q \in lost

LEMMA DeviceStays ==
  ASSUME Device, UNCHANGED <<hw, lost, isRemoved>>, enabled' = enabled \/ enabled',
         \A q \in Queues : Told(q) \subseteq Told(q)'
  PROVE  Device'
<1>1. hw' \in [Queues -> SUBSET {"cq", "sq"}]
  BY DEF Device
<1>2. ASSUME isRemoved' \/ ~enabled' PROVE \A q \in Queues : hw'[q] = {}
  BY <1>2 DEF Device
<1>3. \A q \in Queues : hw'[q] \subseteq Told(q)' \/ q \in lost'
  BY DEF Device
<1> QED
  BY <1>1, <1>2, <1>3 DEF Device

(* Steps of the thread of vmknvme that tell the device nothing.            *)
LEMMA ToldOther ==
  ASSUME NEW p, ctl.q # p, ctl'.q # p, state'[p] = state[p]
  PROVE  Told(p)' = Told(p)
BY DEF Told

LEMMA ToldStays ==
  ASSUME ctl' = ctl, \A q \in Queues : state'[q] = "NON_EXIST" <=> state[q] = "NON_EXIST"
  PROVE  \A q \in Queues : Told(q)' = Told(q)
BY DEF Told

(* Where the thread of vmknvme goes.                                       *)
LEMMA CtlGoes ==
  ASSUME IoInv, NEW pc \in ControlPcs, Goes(Control, pc)
  PROVE  ctl'.pc = pc /\ ctl'.q = ctl.q
BY AgentsAre, GoesMoves DEF IoInv, AgentMoves, ctl

LEMMA CtlNext ==
  ASSUME IoInv, NEW pc \in ControlPcs, NEW q \in Int, ControlNext(pc, q)
  PROVE  ctl'.pc = pc /\ ctl'.q = q
BY ControlNextMoves DEF IoInv, AgentMoves, ctl

LEMMA CtlFlushes ==
  ASSUME IoInv, NEW f \in Flushers, NEW pc, AgentMoves(f, pc, agent[f].q)
  PROVE  /\ f = Control => ctl'.pc = pc /\ ctl'.q = ctl.q
         /\ f # Control => ctl' = ctl
BY AgentsAre DEF AgentMoves, ctl

LEMMA FlushGoes ==
  ASSUME IoInv, NEW f \in Flushers, NEW pc \in ControlPcs \cup QuiescePcs, Goes(f, pc)
  PROVE  /\ f = Control => ctl'.pc = pc /\ ctl'.q = ctl.q
         /\ f # Control => ctl' = ctl
BY AgentsAre, GoesMoves, CtlFlushes DEF IoInv

LEMMA OthersTellNothing ==
  ASSUME IoInv, Device,
         \/ \E c \in Cmds :
              (\E q \in Queues : SubmitEnter(c, q)) \/ SubmitStep(c) \/ DeviceCompletes(c)
         \/ \E q \in Queues : Interrupt(q)
         \/ QuiesceStart \/ QuiesceStep
  PROVE  Device'
<1>1. ctl' = ctl /\ UNCHANGED <<state, hw, lost, isRemoved, enabled>>
  <2> USE AgentsAre DEF queueVars, ctrlrVars, hwVars, cmdVars, lockVars, callVars, ctl
  <2>1. CASE \E c \in Cmds :
               (\E q \in Queues : SubmitEnter(c, q)) \/ SubmitStep(c) \/ DeviceCompletes(c)
    BY <2>1
    DEF SubmitEnter, SubmitStep, SubmitChecks, Ring, PutSlot, SubmitLeave, GetSlot, Issue,
        DeviceCompletes
  <2>2. CASE \E q \in Queues : Interrupt(q)
    BY <2>2 DEF Interrupt, Goes, IoInv, IoType
  <2>3. CASE QuiesceStart \/ QuiesceStep
    BY <2>3
    DEF QuiesceStart, QuiesceStep, QuiesceTest, QuiesceIndex, QuiesceNext, Goes, IoInv, IoType
  <2> QED
    BY <2>1, <2>2, <2>3
<1>2. \A q \in Queues : Told(q)' = Told(q)
  BY <1>1, ToldStays
<1> QED
  BY <1>1, <1>2, DeviceStays

LEMMA FlushTellsNothing ==
  ASSUME IoInv, Device,
         (\E a \in Agents : CompleteStep(a)) \/ \E f \in Flushers : FlushStep(f)
  PROVE  Device'
<1>0. {"disable", "sync", "deleteSq", "await", "enter", "entered", "lockCq", "leave", "destroy",
       "next", "loop", "complete"} \subseteq ControlPcs \cup QuiescePcs
  BY DEF ControlPcs, Deleting, Flushing, Stopping, QuiescePcs
<1>1. /\ \A q \in Queues : state'[q] = "NON_EXIST" <=> state[q] = "NON_EXIST"
      /\ UNCHANGED <<hw, lost, isRemoved, enabled>>
      /\ \/ ctl' = ctl
         \/ /\ ctl'.q = ctl.q
            /\ \/ ctl.pc \in Flushing \cup {"await"} /\ ctl'.pc \in Flushing \cup {"destroy"}
               \/ /\ ctl.pc \in {"suspend", "disable", "sync"}
                  /\ ctl'.pc \in {"disable", "sync", "deleteSq"}
  <2> USE DEF queueVars, ctrlrVars, hwVars, cmdVars, lockVars, callVars
  <2>1. ASSUME NEW a \in Agents, CompleteStep(a)
        PROVE  /\ UNCHANGED <<state, hw, lost, isRemoved, enabled>>
               /\ \/ ctl' = ctl
                  \/ ctl'.q = ctl.q /\ ctl.pc \in Flushing /\ ctl'.pc \in Flushing
    <3>1. UNCHANGED <<state, hw, lost, isRemoved, enabled>>
      BY <2>1 DEF CompleteStep, LockCq, TakeEntry, UnlockCq, Complete
    <3>2. PICK pc \in {"cq", "complete", IF a \in Flushers THEN "lockList" ELSE "idle",
                       IF listLock[agent[a].q] = a THEN "loop" ELSE "cq"} :
            AgentMoves(a, pc, agent[a].q) /\ agent[a].pc \in {"lockCq", "cq", "complete"}
      BY <2>1, CompleteMoves
    <3>3. CASE a = Control
      BY <3>1, <3>2, <3>3, AgentsAre, CtlFlushes DEF Flushing, ctl
    <3>4. CASE a # Control
      BY <3>1, <3>2, <3>4, AgentsAre DEF AgentMoves, ctl
    <3> QED
      BY <3>3, <3>4
  <2>2. ASSUME NEW f \in Flushers, Suspend(f) \/ DisableIntr(f) \/ SyncIntr(f)
        PROVE  /\ UNCHANGED <<hw, lost, isRemoved, enabled>>
               /\ \A q \in Queues : state'[q] = "NON_EXIST" <=> state[q] = "NON_EXIST"
               /\ \/ ctl' = ctl
                  \/ /\ ctl'.q = ctl.q /\ ctl.pc \in {"suspend", "disable", "sync"}
                     /\ ctl'.pc \in {"disable", "sync", "deleteSq"}
    <3>1. /\ UNCHANGED <<hw, lost, isRemoved, enabled>>
          /\ agent[f].pc \in {"suspend", "disable", "sync"}
      BY <2>2 DEF Suspend, DisableIntr, SyncIntr
    <3>2. \A q \in Queues : state'[q] = "NON_EXIST" <=> state[q] = "NON_EXIST"
      BY <2>2 DEF Suspend, DisableIntr, SyncIntr, IoInv, IoType
    <3>3. PICK pc \in {"disable", "sync", AfterSuspend(f)} : Goes(f, pc)
      BY <2>2 DEF Suspend, DisableIntr, SyncIntr
    <3>4. pc \in ControlPcs \cup QuiescePcs /\ (f = Control => pc # "await")
      BY <1>0 DEF AfterSuspend
    <3> QED
      BY <3>1, <3>2, <3>3, <3>4, FlushGoes DEF AfterSuspend, ctl
  <2>3. ASSUME NEW f \in Flushers,
               \/ AwaitNoSubmission(f) \/ FlushEnter(f) \/ FlushChecks(f) \/ LockList(f)
               \/ FlushSlot(f) \/ UnlockList(f) \/ FlushLeave(f)
        PROVE  /\ UNCHANGED <<state, hw, lost, isRemoved, enabled>>
               /\ \/ ctl' = ctl
                  \/ /\ ctl'.q = ctl.q /\ ctl.pc \in Flushing \cup {"await"}
                     /\ ctl'.pc \in Flushing \cup {"destroy"}
    <3>1. UNCHANGED <<state, hw, lost, isRemoved, enabled>>
      BY <2>3
      DEF AwaitNoSubmission, FlushEnter, FlushChecks, LockList, FlushSlot, UnlockList, FlushLeave
    <3>2. agent[f].pc \in Flushing \cup {"await"}
      BY <2>3
      DEF AwaitNoSubmission, FlushEnter, FlushChecks, LockList, FlushSlot, UnlockList, FlushLeave,
          Flushing
    <3>3. CASE AwaitNoSubmission(f) \/ FlushEnter(f) \/ FlushChecks(f) \/ FlushLeave(f)
      <4>1. PICK pc \in {"enter", "entered", "lockCq", "leave",
                         IF f = Control THEN "destroy" ELSE "next"} : Goes(f, pc)
        BY <3>3 DEF AwaitNoSubmission, FlushEnter, FlushChecks, FlushLeave
      <4>2. pc \in ControlPcs \cup QuiescePcs /\ (f = Control => pc \in Flushing \cup {"destroy"})
        BY <1>0 DEF Flushing
      <4> QED
        BY <3>1, <3>2, <4>1, <4>2, FlushGoes DEF ctl
    <3>4. CASE LockList(f) \/ FlushSlot(f) \/ UnlockList(f)
      <4>1. PICK pc \in {"loop", "complete", "leave"} : AgentMoves(f, pc, agent[f].q)
        BY <3>4, FlushListMoves
      <4> QED
        BY <3>1, <3>2, <4>1, CtlFlushes DEF ctl, Flushing
    <3> QED
      BY <2>3, <3>3, <3>4
  <2> QED
    BY <2>1, <2>2, <2>3 DEF FlushStep
<1>2. \A q \in Queues : Told(q)' = Told(q)
  BY <1>1 DEF Told, Untold, Flushing, Building, Gone
<1> QED
  BY <1>1, <1>2, DeviceStays

LEMMA ForgetDeviceTold == ASSUME Device, ForgetDevice PROVE Device'
<1>1. hw' = [q \in Queues |-> {}]
  BY DEF ForgetDevice
<1> QED
  BY <1>1 DEF Device

(* The steps of the thread of vmknvme in which the device has no part.     *)
ControlAlone ==
  \/ \E n \in Queues : BringUp(n)
  \/ Create \/ Unwound \/ InitQueue \/ Resume \/ EnableIntr \/ Count
  \/ \E ok \in BOOLEAN : \/ ConstructCq(ok)
                         \/ Construct("sq", "buildSq", "buildCmds", ok)
                         \/ Construct("cmds", "buildCmds", "init", ok)
  \/ (\E q \in Queues : Delete(q)) \/ Deleted \/ MarkNonExist \/ Drain
  \/ Free("cmds", "freeCmds", "freeSq") \/ Free("sq", "freeSq", "freeCq") \/ FreeCq
  \/ Uncount

CtlSame == ctl'.q = ctl.q /\ state' = state
ControlSteps ==
  \/ /\ ctl.pc \in {"idle", "delete"} /\ ctl'.pc \in {"create", "idle", "suspend", "delete"}
     /\ state' = state
  \/ ctl.pc = "create" /\ ctl'.pc \in {"up", "create"} /\ state' = state
  \/ /\ ctl.pc = "create" /\ ctl'.pc = "buildCq" /\ ctl'.q = ctl.q /\ state[ctl.q] = "NON_EXIST"
     /\ state' = [state EXCEPT ![ctl.q] = "SUSPENDED"]
  \/ ctl.pc \in Building /\ ctl'.pc \in {"buildSq", "buildCmds", "init", "unwound"} /\ CtlSame
  \/ /\ ctl.pc = "unwound" /\ ctl'.pc = "up" /\ ctl'.q = ctl.q
     /\ state' = [state EXCEPT ![ctl.q] = "NON_EXIST"]
  \/ ctl.pc = "init" /\ ctl'.pc \in {"createCq", "destroy"} /\ CtlSame
  \/ /\ ctl.pc = "resume" /\ ctl'.pc = "enable" /\ ctl'.q = ctl.q
     /\ state' = [state EXCEPT ![ctl.q] = "ACTIVE"]
  \/ ctl.pc \in Running /\ ctl'.pc \in {"count", "create"} /\ state' = state
  \/ /\ ctl.pc = "destroy" /\ ctl'.pc = "drain" /\ ctl'.q = ctl.q
     /\ state' = [state EXCEPT ![ctl.q] = "NON_EXIST"]
  \/ /\ ctl.pc \in Gone /\ ctl'.pc \in {"freeCmds", "freeSq", "freeCq", "uncount", "up", "delete"}
     /\ CtlSame

LEMMA ControlStepsAre ==
  ASSUME IoInv, ~CqMayFail, ControlAlone PROVE ControlSteps
<1> USE DEF queueVars, ctrlrVars, ControlAt, CtlSame, Building, Running, Gone
<1>0. /\ {"create", "up", "idle", "delete", "suspend", "enable", "count", "createCq", "destroy",
           "drain", "freeCmds", "freeSq", "freeCq", "uncount", "buildCq", "buildSq",
           "buildCmds", "init", "unwound"} \subseteq ControlPcs
      /\ Queues \subseteq Int
      /\ ctl.pc \notin Between => ctl.q \in Queues
      /\ ctl.pc = "create" => ctl.q \in Int
  BY DEF ControlPcs, Between, Creating, Deleting, Starting, IoInv, IoType, Queues
<1>1. CASE (\E n \in Queues : BringUp(n)) \/ Deleted \/ (\E q \in Queues : Delete(q))
  <2>1. /\ ctl'.pc \in {"create", "idle", "suspend", "delete"}
        /\ ctl.pc \in {"idle", "delete"} /\ state' = state
    BY <1>0, <1>1, CtlNext DEF BringUp, Deleted, Delete, ctl
  <2> QED
    BY <2>1 DEF ControlSteps
<1>2. CASE Create
  <2>1. /\ ctl.pc = "create"
        /\ \/ state' = state /\ ctl'.pc \in {"up", "create"}
           \/ /\ state' = [state EXCEPT ![ctl.q] = "SUSPENDED"] /\ ctl'.pc = "buildCq"
              /\ ctl'.q = ctl.q /\ state[ctl.q] = "NON_EXIST"
    BY <1>0, <1>2, CtlNext DEF Create
  <2> QED
    BY <2>1 DEF ControlSteps
<1>3. CASE Unwound \/ Resume \/ MarkNonExist
  BY <1>0, <1>3, CtlGoes DEF Unwound, Resume, MarkNonExist, ControlSteps
<1>4. CASE InitQueue
  BY <1>0, <1>4, CtlGoes DEF InitQueue, ControlSteps
<1>5. CASE EnableIntr
  BY <1>0, <1>5, CtlGoes DEF EnableIntr, ControlSteps
<1>6. CASE Count
  <2>1. ControlNext("create", ctl.q + 1) /\ ctl.pc = "count" /\ state' = state
    BY <1>6 DEF Count
  <2>2. ctl.q + 1 \in Int
    <3>1. ctl.q \in Queues
      BY <1>0, <2>1 DEF Between
    <3> QED
      BY <3>1 DEF Queues
  <2> QED
    BY <1>0, <2>1, <2>2, CtlNext DEF ControlSteps
<1>7. CASE \E ok \in BOOLEAN : \/ ConstructCq(ok)
                               \/ Construct("sq", "buildSq", "buildCmds", ok)
                               \/ Construct("cmds", "buildCmds", "init", ok)
  <2>1. /\ ctl.pc \in Building /\ ctl'.q = ctl.q /\ state' = state
        /\ ctl'.pc \in {"buildSq", "buildCmds", "init", "unwound"}
    BY <1>0, <1>7, CtlGoes DEF ConstructCq, Construct
  <2> QED
    BY <2>1 DEF ControlSteps
<1>8. CASE \/ Drain \/ Free("cmds", "freeCmds", "freeSq") \/ Free("sq", "freeSq", "freeCq")
           \/ FreeCq \/ Uncount
  <2>1. /\ ctl.pc \in Gone /\ ctl'.q = ctl.q /\ state' = state
        /\ ctl'.pc \in {"freeCmds", "freeSq", "freeCq", "uncount", "up", "delete"}
    BY <1>0, <1>8, CtlGoes DEF Drain, Free, FreeCq, Uncount
  <2> QED
    BY <2>1 DEF ControlSteps
<1> QED
  BY <1>1, <1>2, <1>3, <1>4, <1>5, <1>6, <1>7, <1>8 DEF ControlAlone

LEMMA ControlTellsNothing ==
  ASSUME IoInv, ~CqMayFail, Device, ControlAlone PROVE Device'
<1>1. /\ UNCHANGED <<hw, lost, isRemoved>> /\ (enabled' = enabled \/ enabled')
  BY DEF ControlAlone, queueVars, ctrlrVars, hwVars, cmdVars, lockVars, callVars, BringUp,
     Create, Unwound, InitQueue, Resume, EnableIntr, Count, ConstructCq, Construct, Delete,
     Deleted, MarkNonExist, Drain, Free, FreeCq, Uncount
<1>2. state \in [Queues -> {"NON_EXIST", "SUSPENDED", "ACTIVE"}]
      /\ (ctl.pc \in Gone => state[ctl.q] = "NON_EXIST")
  BY DEF IoInv, IoType, States
<1>3. ASSUME NEW q \in Queues PROVE Told(q) \subseteq Told(q)'
  BY <1>2, ControlStepsAre
  DEF ControlSteps, CtlSame, Told, Untold, Building, Running, Flushing, Gone
<1> QED
  BY <1>1, <1>3, DeviceStays

(* The admin commands, whatever their outcome.                             *)
LEMMA AdminCommandTold ==
  ASSUME IoInv, Device, NEW q \in Queues, ctl.q = q, NEW new \in SUBSET {"cq", "sq"},
         NEW believed, NEW outcome \in Outcomes, AdminCommand(q, new, believed, outcome),
         NEW pc, Goes(Control, pc), UNCHANGED <<state, isRemoved, enabled>>,
         Told(q)' = believed
  PROVE  Device'
<1>1. ctl'.q = q
  BY AgentsAre DEF Goes, IoInv, IoType, ctl, Agent
<1>2. /\ hw' \in [Queues -> SUBSET {"cq", "sq"}]
      /\ \A p \in Queues \ {q} : hw'[p] = hw[p]
      /\ outcome = "error" => hw' = hw
      /\ outcome # "error" => enabled /\ ~isRemoved
  BY DEF AdminCommand, Device
<1>3. lost \subseteq lost' /\ (hw'[q] \subseteq believed \/ q \in lost')
  BY DEF AdminCommand
<1>4. ASSUME NEW p \in Queues PROVE hw'[p] \subseteq Told(p)' \/ p \in lost'
  <2>1. CASE p = q
    BY <1>3, <2>1
  <2>2. CASE p # q
    BY <1>1, <1>2, <1>3, <2>2, ToldOther DEF Device
  <2> QED
    BY <2>1, <2>2
<1> QED
  BY <1>2, <1>4 DEF Device

LEMMA AdminCommandsTold ==
  ASSUME IoInv, Device,
         \E outcome \in Outcomes : CreateCq(outcome) \/ CreateSq(outcome)
                                   \/ DeleteCq(outcome) \/ DeleteSq(outcome)
  PROVE  Device'
<1> USE DEF ctrlrVars, queueVars
<1>0. PICK outcome \in Outcomes :
        CreateCq(outcome) \/ CreateSq(outcome) \/ DeleteCq(outcome) \/ DeleteSq(outcome)
  OBVIOUS
<1>1. PICK q \in Queues : ctl.q = q
  BY <1>0 DEF CreateCq, CreateSq, DeleteCq, DeleteSq, ControlAt, IoInv, IoType, Between
<1>2. ASSUME NEW pc \in ControlPcs, Goes(Control, pc) PROVE ctl'.pc = pc /\ ctl'.q = q
  BY <1>1, <1>2, AgentsAre, GoesMoves DEF IoInv, AgentMoves, ctl
<1>3. /\ {"createSq", "destroy", "resume", "dropCq", "await", "deleteCq"} \subseteq ControlPcs
      /\ {"await", "destroy"} \subseteq Untold
      /\ {"createSq", "dropCq", "deleteCq", "resume"} \cap Untold = {}
  BY DEF ControlPcs, Creating, Starting, Deleting, Stopping, Untold, Building, Flushing, Gone
<1>4. hw[q] \in SUBSET {"cq", "sq"}
  BY DEF Device
<1>5. CASE CreateCq(outcome)
  <2> DEFINE pc == IF outcome = "success" THEN "createSq" ELSE "destroy"
             believed == IF outcome = "success" THEN {"cq"} ELSE {}
  <2>1. /\ AdminCommand(q, {"cq"}, believed, outcome) /\ Goes(Control, pc)
        /\ UNCHANGED <<state, isRemoved, enabled>>
    BY <1>1, <1>5 DEF CreateCq
  <2>2. Told(q)' = believed
    BY <1>2, <1>3, <2>1 DEF Told
  <2> QED
    BY <1>1, <2>1, <2>2, AdminCommandTold
<1>6. CASE CreateSq(outcome)
  <2> DEFINE pc == IF outcome = "success" THEN "resume" ELSE "dropCq"
             believed == IF outcome = "success" THEN {"cq", "sq"} ELSE {"cq"}
  <2>1. /\ AdminCommand(q, {"cq", "sq"}, believed, outcome) /\ Goes(Control, pc)
        /\ UNCHANGED <<state, isRemoved, enabled>> /\ state[q] = "SUSPENDED"
    BY <1>1, <1>6 DEF CreateSq, ControlAt, IoInv, States, Starting
  <2>2. Told(q)' = believed
    BY <1>2, <1>3, <2>1 DEF Told
  <2> QED
    BY <1>1, <2>1, <2>2, AdminCommandTold
<1>7. CASE DeleteCq(outcome)
  <2> DEFINE pc == IF ControlAt("dropCq") THEN "destroy" ELSE "await"
  <2>1. /\ AdminCommand(q, {}, {}, outcome) /\ Goes(Control, pc)
        /\ UNCHANGED <<state, isRemoved, enabled>>
    BY <1>1, <1>7 DEF DeleteCq
  <2>2. Told(q)' = {}
    BY <1>2, <1>3, <2>1 DEF Told
  <2> QED
    BY <1>1, <2>1, <2>2, AdminCommandTold
<1>8. CASE DeleteSq(outcome)
  <2>1. CASE ~isRemoved /\ enabled
    <3>1. /\ AdminCommand(q, hw[q] \ {"sq"}, {"cq"}, outcome) /\ Goes(Control, "deleteCq")
          /\ UNCHANGED <<state, isRemoved, enabled>>
      BY <1>1, <1>8, <2>1 DEF DeleteSq
    <3>2. Told(q)' = {"cq"} /\ hw[q] \ {"sq"} \in SUBSET {"cq", "sq"}
      BY <1>2, <1>3, <1>4, <3>1 DEF Told
    <3> QED
      BY <1>1, <3>1, <3>2, AdminCommandTold
  <2>2. CASE isRemoved \/ ~enabled
    <3>1. /\ Goes(Control, "await") /\ UNCHANGED <<state, isRemoved, enabled, hw, lost>>
      BY <1>8, <2>2 DEF DeleteSq
    <3>2. \A p \in Queues : hw'[p] = {}
      BY <2>2, <3>1 DEF Device
    <3> QED
      BY <3>1, <3>2 DEF Device
  <2> QED
    BY <2>1, <2>2
<1> QED
  BY <1>0, <1>5, <1>6, <1>7, <1>8

LEMMA TakeDownTold == ASSUME IoInv, Device, NEW disabled \in BOOLEAN, TakeDown(disabled) PROVE Device'
<1>1. CASE disabled
  <2>1. hw' = [q \in Queues |-> {}]
    BY <1>1 DEF TakeDown
  <2> QED
    BY <2>1 DEF Device
<1>2. CASE ~disabled
  <2>1. /\ UNCHANGED <<hw, lost, isRemoved, enabled, state>> /\ Goes(Control, "delete")
        /\ ctl.pc = "up"
    BY <1>2 DEF TakeDown, queueVars, ControlAt
  <2>2. ctl'.pc = "delete" /\ ctl'.q = ctl.q
    BY <2>1, AgentsAre, GoesMoves DEF IoInv, AgentMoves, ctl, ControlPcs, Between
  <2>3. \A q \in Queues : Told(q)' = Told(q)
    BY <2>1, <2>2 DEF Told, Untold, Building, Flushing, Gone
  <2> QED
    BY <2>1, <2>3, DeviceStays
<1> QED
  BY <1>1, <1>2

LEMMA DeviceNext == ASSUME IoInv, Device, ~CqMayFail, [Next]_vars PROVE Device'
<1>1. CASE \/ \E c \in Cmds :
                (\E q \in Queues : SubmitEnter(c, q)) \/ SubmitStep(c) \/ DeviceCompletes(c)
           \/ \E q \in Queues : Interrupt(q)
           \/ QuiesceStart \/ QuiesceStep
  BY <1>1, OthersTellNothing
<1>2. CASE (\E a \in Agents : CompleteStep(a)) \/ \E f \in Flushers : FlushStep(f)
  BY <1>2, FlushTellsNothing
<1>3. CASE (\E n \in Queues : BringUp(n)) \/ CreateStep \/ DeleteStep
  BY <1>3, ControlTellsNothing, AdminCommandsTold DEF CreateStep, DeleteStep, ControlAlone
<1>4. CASE \E disabled \in BOOLEAN : TakeDown(disabled)
  BY <1>4, TakeDownTold
<1>5. CASE ForgetDevice
  BY <1>5, ForgetDeviceTold
<1>6. CASE UNCHANGED vars
  <2>1. ctl' = ctl /\ UNCHANGED <<state, hw, lost, isRemoved, enabled>>
    BY <1>6 DEF vars, queueVars, ctrlrVars, hwVars, ctl
  <2> QED
    BY <2>1, ToldStays, DeviceStays
<1> QED
  BY <1>1, <1>2, <1>3, <1>4, <1>5, <1>6 DEF Next

(* What the device has of a queue is what it was told.                     *)
THEOREM DeviceHolds == ASSUME ~CqMayFail, ~Overlap PROVE Spec => []Device
<1>1. Init => Device
  BY DEF Init, Device
<1>2. IoInv /\ Device /\ [Next]_vars => Device'
  BY DeviceNext
<1> QED
  BY <1>1, <1>2, IoInvHolds, PTL DEF Spec

(* The memory of a queue is freed only when the device no longer has it,   *)
(* except where the device was told otherwise than it answered.            *)
THEOREM DeviceQueuesBackedHolds ==
  ASSUME ~CqMayFail, ~Overlap PROVE Spec => []DeviceQueuesBacked
<1>1. ASSUME IoInv, Device PROVE DeviceQueuesBacked
  <2>1. ASSUME NEW q \in Queues PROVE Told(q) \subseteq PartsOf(q)
    BY <1>1
    DEF Told, Untold, PartsOf, Parts, IoInv, States, Building, Starting, Stopping, Flushing, Gone
  <2> QED
    BY <1>1, <2>1 DEF DeviceQueuesBacked, Device, IoInv, Built
<1> QED
  BY <1>1, IoInvHolds, DeviceHolds, PTL
=============================================================================
