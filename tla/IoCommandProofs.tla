--------------------------- MODULE IoCommandProofs --------------------------
(***************************************************************************)
(* Proofs about the commands of the IO queues: each that was accepted is   *)
(* completed once, and none is left on a queue that was deleted, whatever  *)
(* handlers, flushers and the removal of the device do to each other.      *)
(*                                                                         *)
(* The invariant, beside that of IoQueueProofs: nobody submits to a queue  *)
(* that is flushed; the two locks are held where the code says; and two    *)
(* threads that complete commands never complete the same one, although    *)
(* handler and flusher hold different locks when they do.                  *)
(***************************************************************************)
EXTENDS IoQueueProofs

-----------------------------------------------------------------------------
(* The invariant.                                                          *)

CmdType ==
  /\ completed \in [Cmds -> Int]
  /\ posted \subseteq Cmds /\ executing \subseteq Cmds
  /\ cqLock \in [Queues -> Agents \cup {None}]

(* A command is accepted before the device has it, and its slot is active  *)
(* until it is completed.                                                  *)
Accepted ==
  \A c \in Cmds :
    /\ sub[c].ok => sub[c].pc \in {"leave", "returned"}
    /\ c \in posted \cup executing => sub[c].ok
    /\ c \in outstanding => sub[c].ok \/ sub[c].pc \in {"issue", "ring", "put"}
    /\ sub[c].pc \in {"issue", "ring", "put"} => c \in outstanding
    /\ completed[c] = IF sub[c].ok /\ c \notin outstanding THEN 1 ELSE 0

(* Nobody submits to a queue that does not exist, is built or is flushed.  *)
Quiet(q) == \A c \in Cmds : sub[c].q = q => sub[c].pc \notin SubUses
Away == Building \cup Starting \cup {"destroy"} \cup Gone
Void(q) == state[q] = "NON_EXIST" \/ (ctl.q = q /\ ctl.pc \in Away \cup {"leave"})
Closed(q) == Void(q) \/ \E f \in Flushers : At(f, q, Flushing)
Closing ==
  /\ \A q \in Queues : Closed(q) => Quiet(q) /\ state[q] # "ACTIVE"
  /\ agent[Quiesce].pc = "await" => state[agent[Quiesce].q] # "ACTIVE"

(* The locks.                                                              *)
InCq(a) ==
  \/ agent[a].pc = "cq"
  \/ agent[a].pc = "complete" /\ listLock[agent[a].q] # a
InList(f) ==
  \/ agent[f].pc = "loop"
  \/ agent[f].pc = "complete" /\ listLock[agent[f].q] = f
Locks ==
  /\ \A a \in Agents : InCq(a) => cqLock[agent[a].q] = a
  /\ \A f \in Flushers : agent[f].pc = "loop" => listLock[agent[f].q] = f
  /\ \A q \in Queues : listLock[q] # None =>
       At(listLock[q], q, {"loop", "complete"})

(* The deletion's flush has passed the slots below its index.              *)
Emptied ==
  /\ \A q \in Queues : Void(q) => On(q) \cap outstanding = {}
  /\ InList(Control) => \A c \in On(ctl.q) \cap outstanding : c >= ctl.cmd

(* A device that was pulled works on nothing, and only then it is quiesced.*)
Pulled ==
  /\ isRemoved => executing = {}
  /\ agent[Quiesce].pc # "idle" => isRemoved

(* The two flushers on one queue: neither is in the middle of a suspension *)
(* while the other flushes, and if one has passed the completion queue     *)
(* nothing is left in it for the other.                                    *)
PastCq(f) == agent[f].pc = "lockList" \/ InList(f)
Apart ==
  \A f \in Flushers, g \in Flushers, q \in Queues :
    f # g /\ At(f, q, Flushing) =>
      /\ ~At(g, q, {"disable", "sync"})
      /\ agent[g].q = q /\ PastCq(g) =>
           /\ posted \cap On(q) = {}
           /\ ~(agent[f].pc = "complete" /\ InCq(f))

Completing ==
  \A a \in Agents : agent[a].pc = "complete" =>
    /\ agent[a].cmd \in outstanding \cap On(agent[a].q)
    /\ sub[agent[a].cmd].ok
    /\ \A b \in Agents \ {a} : agent[b].pc = "complete" => agent[b].cmd # agent[a].cmd

CmdInv ==
  /\ CmdType /\ Accepted /\ Closing /\ Locks /\ Emptied /\ Pulled /\ Apart /\ Completing

-----------------------------------------------------------------------------
(* Steps of a thread that touch no command.                                *)

CmdFrame(a) ==
  /\ \A b \in Agents \ {a} : agent'[b] = agent[b]
  /\ {agent[a].pc, agent'[a].pc} \cap {"cq", "complete", "loop"} = {}
  /\ UNCHANGED <<sub, outstanding, completed, cqLock, listLock>>
  /\ posted' \subseteq posted /\ executing' \subseteq executing

LEMMA CmdFrameKeeps ==
  ASSUME IoInv, CmdInv, NEW a \in Agents, CmdFrame(a)
  PROVE  /\ CmdType' /\ Accepted' /\ Locks' /\ Completing'
         /\ \A b \in Agents : InCq(b)' = InCq(b) /\ InList(b)' = InList(b)
         /\ ~InCq(a) /\ ~InList(a)
         /\ \A q : Quiet(q)' = Quiet(q) /\ On(q)' = On(q)
<1> USE DEF CmdInv
<1>1. /\ \A b \in Agents \ {a} : agent'[b] = agent[b]
      /\ agent[a].pc \notin {"cq", "complete", "loop"}
      /\ agent'[a].pc \notin {"cq", "complete", "loop"}
      /\ sub' = sub /\ outstanding' = outstanding /\ completed' = completed
      /\ cqLock' = cqLock /\ listLock' = listLock
      /\ posted' \subseteq posted /\ executing' \subseteq executing
  BY DEF CmdFrame
<1>2. ASSUME NEW b \in Agents PROVE InCq(b)' = InCq(b) /\ InList(b)' = InList(b)
  <2>1. CASE b = a
    BY <1>1, <2>1 DEF InCq, InList
  <2>2. CASE b # a
    BY <1>1, <2>2 DEF InCq, InList
  <2> QED
    BY <2>1, <2>2
<1>3. ~InCq(a) /\ ~InList(a)
  BY <1>1 DEF InCq, InList
<1>4. \A q : Quiet(q)' = Quiet(q) /\ On(q)' = On(q)
  BY <1>1 DEF Quiet, On
<1>5. CmdType' /\ Accepted'
  BY <1>1 DEF CmdType, Accepted
<1>6. Locks'
  <2>1. ASSUME NEW b \in Agents, InCq(b)' PROVE cqLock'[agent'[b].q] = b
    BY <1>1, <1>2, <1>3, <2>1 DEF Locks
  <2>2. ASSUME NEW f \in Flushers, agent'[f].pc = "loop" PROVE listLock'[agent'[f].q] = f
    BY <1>1, <2>2, AgentsAre DEF Locks
  <2>3. ASSUME NEW q \in Queues, listLock'[q] # None
        PROVE  At(listLock[q], q, {"loop", "complete"})'
    <3>1. listLock[q] \in Agents /\ At(listLock[q], q, {"loop", "complete"})
      BY <1>1, <2>3, AgentsAre DEF Locks, IoInv, IoType
    <3>2. listLock[q] # a
      BY <1>1, <3>1 DEF At
    <3> QED
      BY <1>1, <3>1, <3>2 DEF At
  <2> QED
    BY <1>1, <2>1, <2>2, <2>3 DEF Locks
<1>7. Completing'
  <2>1. ASSUME NEW b \in Agents, agent'[b].pc = "complete"
        PROVE  b # a /\ agent[b].pc = "complete" /\ agent'[b] = agent[b]
    BY <1>1, <2>1
  <2> QED
    BY <1>1, <1>4, <2>1 DEF Completing
<1> QED
  BY <1>2, <1>3, <1>4, <1>5, <1>6, <1>7

(* The handlers, on their way to the completion queue.                     *)
LEMMA HandlerGoesCmd ==
  ASSUME IoInv, CmdInv, NEW q \in Queues, Interrupt(q) PROVE CmdInv'
<1> USE AgentsAre DEF CmdInv
<1>1. /\ AgentMoves(q, "lockCq", q) /\ agent[q].pc = "idle"
      /\ UNCHANGED <<state, isRemoved, sub, posted, executing, outstanding, completed, cqLock, listLock>>
  BY GoesMoves
  DEF Interrupt, HandlerPcs, queueVars, ctrlrVars, hwVars, cmdVars, lockVars, IoInv, IoType
<1>2. CmdFrame(q)
  BY <1>1 DEF CmdFrame, AgentMoves
<1>3. /\ CmdType' /\ Accepted' /\ Locks' /\ Completing'
      /\ \A b \in Agents : InCq(b)' = InCq(b) /\ InList(b)' = InList(b)
      /\ \A p : Quiet(p)' = Quiet(p) /\ On(p)' = On(p)
  BY <1>2, CmdFrameKeeps
<1>4. agent'[Control] = agent[Control] /\ agent'[Quiesce] = agent[Quiesce]
  BY <1>1 DEF AgentMoves
<1>5. Closing' /\ Emptied' /\ Pulled'
  BY <1>1, <1>3, <1>4 DEF Closing, Closed, Void, At, Emptied, Pulled, ctl
<1>6. Apart'
  BY <1>1, <1>3, <1>4 DEF Apart, PastCq, At
<1> QED
  BY <1>3, <1>5, <1>6

-----------------------------------------------------------------------------
(* The thread of vmknvme.                                                  *)

LEMMA ControlKeepsCmd ==
  ASSUME IoInv, CmdInv, CmdFrame(Control), UNCHANGED isRemoved,
         ctl.pc \notin Flushing, ctl'.pc \notin Flushing \cup {"disable", "sync"},
         \A q \in Queues : Void(q)' => Void(q),
         \A q \in Queues : state'[q] = "ACTIVE" =>
           state[q] = "ACTIVE" \/ (~Void(q)' /\ ctl.q = q /\ ctl.pc \in Creating)
  PROVE  CmdInv'
<1> USE AgentsAre DEF CmdInv
<1>1. /\ CmdType' /\ Accepted' /\ Locks' /\ Completing'
      /\ \A b \in Agents : InCq(b)' = InCq(b) /\ InList(b)' = InList(b)
      /\ \A p : Quiet(p)' = Quiet(p) /\ On(p)' = On(p)
      /\ ~InList(Control)
  BY CmdFrameKeeps
<1>2. /\ agent'[Quiesce] = agent[Quiesce] /\ posted' \subseteq posted
      /\ executing' \subseteq executing /\ outstanding' = outstanding
  BY DEF CmdFrame
<1>3. ASSUME NEW q \in Queues, NEW f \in Flushers, At(f, q, Flushing)'
      PROVE  f = Quiesce /\ At(Quiesce, q, Flushing)
  BY <1>2, <1>3 DEF At, ctl
<1>4. ASSUME NEW q \in Queues, At(Quiesce, q, Flushing \cup {"await"})
      PROVE  ~(ctl.q = q /\ ctl.pc \in Creating)
  BY <1>4, QuiescedIsKnown DEF At, Flushing, QuiesceWorks, FlushInside, FlushUses
<1>5. Closing'
  <2>1. ASSUME NEW q \in Queues, Closed(q)' PROVE Closed(q) /\ state'[q] # "ACTIVE"
    <3>1. Void(q)' \/ At(Quiesce, q, Flushing)
      BY <1>3, <2>1 DEF Closed
    <3>2. Closed(q)
      BY <3>1 DEF Closed
    <3>3. state[q] # "ACTIVE"
      BY <3>2 DEF Closing
    <3>4. ~At(Quiesce, q, Flushing) \/ ~(ctl.q = q /\ ctl.pc \in Creating)
      BY <1>4 DEF At
    <3> QED
      BY <3>1, <3>2, <3>3, <3>4
  <2>2. ASSUME agent'[Quiesce].pc = "await" PROVE state'[agent'[Quiesce].q] # "ACTIVE"
    <3>1. PICK q \in Queues : agent[Quiesce].q = q /\ agent[Quiesce].pc = "await"
      BY <1>2, <2>2 DEF IoInv, IoType, QuiesceWorks
    <3> QED
      BY <1>2, <1>4, <3>1 DEF At, Closing
  <2> QED
    BY <1>1, <2>1, <2>2 DEF Closing
<1>6. Emptied'
  BY <1>1, <1>2 DEF Emptied
<1>7. Pulled'
  BY <1>2 DEF Pulled
<1>8. Apart'
  <2>1. \A q : ~At(Control, q, {"disable", "sync"})' /\ ~PastCq(Control)'
    BY <1>1 DEF At, PastCq, ctl, Flushing
  <2> QED
    BY <1>3, <2>1 DEF Apart
<1> QED
  BY <1>1, <1>5, <1>6, <1>7, <1>8

(* What its steps do to the commands.  The queue that is started has none. *)
LEMMA ControlFrames ==
  ASSUME IoInv, CmdInv,
         \/ ControlAlone
         \/ \E disabled \in BOOLEAN : TakeDown(disabled)
         \/ \E outcome \in Outcomes : CreateCq(outcome) \/ CreateSq(outcome)
                                      \/ DeleteCq(outcome) \/ DeleteSq(outcome)
  PROVE  /\ UNCHANGED <<sub, outstanding, completed, cqLock, listLock, isRemoved>>
         /\ posted' \subseteq posted /\ executing' \subseteq executing
         /\ \A b \in Agents \ {Control} : agent'[b] = agent[b]
<1> USE DEF queueVars, ctrlrVars, hwVars, cmdVars, lockVars, callVars
<1>1. CASE ControlAlone
  <2>1. /\ UNCHANGED <<sub, completed, cqLock, listLock, isRemoved>>
        /\ posted' \subseteq posted /\ executing' \subseteq executing
    BY <1>1
    DEF ControlAlone, BringUp, Create, Unwound, InitQueue, Resume, EnableIntr, Count, ConstructCq,
        Construct, Delete, Deleted, MarkNonExist, Drain, Free, FreeCq, Uncount
  <2>2. outstanding' = outstanding
    <3>1. CASE InitQueue
      <4>1. ctl.pc = "init" /\ ctl.q \in Queues
        BY <3>1 DEF InitQueue, ControlAt, IoInv, IoType, Between
      <4>2. On(ctl.q) \cap outstanding = {}
        BY <4>1 DEF CmdInv, Emptied, Void, Away, Starting
      <4> QED
        BY <3>1, <4>2 DEF InitQueue
    <3>2. CASE ~InitQueue
      BY <1>1, <3>2
      DEF ControlAlone, BringUp, Create, Unwound, Resume, EnableIntr, Count, ConstructCq,
          Construct, Delete, Deleted, MarkNonExist, Drain, Free, FreeCq, Uncount
    <3> QED
      BY <3>1, <3>2
  <2>3. \A b \in Agents \ {Control} : agent'[b] = agent[b]
    <3>1. UNCHANGED agent \/ \E pc, q : Goes(Control, pc) \/ ControlNext(pc, q)
      <4>1. CASE (\E n \in Queues : BringUp(n)) \/ Create \/ Unwound \/ InitQueue \/ Resume
        BY <4>1 DEF BringUp, Create, Unwound, InitQueue, Resume
      <4>2. CASE EnableIntr \/ Count \/ \E ok \in BOOLEAN : ConstructCq(ok)
        BY <4>2 DEF EnableIntr, Count, ConstructCq
      <4>3. CASE \E ok \in BOOLEAN : \/ Construct("sq", "buildSq", "buildCmds", ok)
                                     \/ Construct("cmds", "buildCmds", "init", ok)
        BY <4>3 DEF Construct
      <4>4. CASE (\E q \in Queues : Delete(q)) \/ Deleted \/ MarkNonExist \/ Drain
        BY <4>4 DEF Delete, Deleted, MarkNonExist, Drain
      <4>5. CASE Free("cmds", "freeCmds", "freeSq") \/ Free("sq", "freeSq", "freeCq") \/ FreeCq
                \/ Uncount
        BY <4>5 DEF Free, FreeCq, Uncount
      <4> QED
        BY <1>1, <4>1, <4>2, <4>3, <4>4, <4>5 DEF ControlAlone
    <3> QED
      BY <3>1 DEF IoInv, IoType, Goes, ControlNext
  <2> QED
    BY <2>1, <2>2, <2>3
<1>2. CASE \E disabled \in BOOLEAN : TakeDown(disabled)
  BY <1>2 DEF TakeDown, Goes, IoInv, IoType
<1>3. CASE \E outcome \in Outcomes : CreateCq(outcome) \/ CreateSq(outcome)
                                     \/ DeleteCq(outcome) \/ DeleteSq(outcome)
  BY <1>3 DEF CreateCq, CreateSq, DeleteCq, DeleteSq, Goes, IoInv, IoType
<1> QED
  BY <1>1, <1>2, <1>3

LEMMA ControlAloneCmd ==
  ASSUME IoInv, CmdInv, ~CqMayFail, ControlAlone PROVE CmdInv'
<1>1. ControlSteps
  BY ControlStepsAre
<1>2. /\ ctl.pc \notin Flushing /\ ctl'.pc \notin Flushing \cup {"disable", "sync"}
      /\ {ctl.pc, ctl'.pc} \cap {"cq", "complete", "loop"} = {}
  BY <1>1 DEF ControlSteps, Flushing, Building, Running, Gone
<1>3. CmdFrame(Control) /\ UNCHANGED isRemoved
  BY <1>2, ControlFrames DEF CmdFrame, ctl
<1>4. /\ state \in [Queues -> {"NON_EXIST", "SUSPENDED", "ACTIVE"}]
      /\ (ctl.pc \in Gone => state[ctl.q] = "NON_EXIST")
  BY DEF IoInv, IoType, States
<1>5. ASSUME NEW q \in Queues, Void(q)' PROVE Void(q)
  BY <1>1, <1>4, <1>5
  DEF ControlSteps, CtlSame, Void, Away, Building, Starting, Running, Gone
<1>6. ASSUME NEW q \in Queues, state'[q] = "ACTIVE"
      PROVE  state[q] = "ACTIVE" \/ (~Void(q)' /\ ctl.q = q /\ ctl.pc \in Creating)
  BY <1>1, <1>4, <1>6
  DEF ControlSteps, CtlSame, Void, Away, Building, Creating, Starting, Running, Gone
<1> QED
  BY <1>2, <1>3, <1>5, <1>6, ControlKeepsCmd

LEMMA AdminCommandsCmd ==
  ASSUME IoInv, CmdInv,
         \/ \E disabled \in BOOLEAN : TakeDown(disabled)
         \/ \E outcome \in Outcomes : CreateCq(outcome) \/ CreateSq(outcome)
                                      \/ DeleteCq(outcome) \/ DeleteSq(outcome)
  PROVE  CmdInv'
<1>0. {"createSq", "destroy", "resume", "dropCq", "await", "deleteCq", "delete"} \subseteq ControlPcs
  BY DEF ControlPcs, Creating, Starting, Deleting, Stopping, Between
<1>1. /\ state' = state
      /\ \/ ctl.pc = "up" /\ ctl'.pc = "delete"
         \/ /\ ctl.pc \in {"createCq", "createSq", "dropCq"} /\ ctl'.q = ctl.q
            /\ ctl'.pc \in {"createSq", "resume", "dropCq", "destroy"}
         \/ ctl.pc \in {"deleteSq", "deleteCq"} /\ ctl'.pc \in {"deleteCq", "await"}
  BY <1>0, CtlGoes DEF TakeDown, CreateCq, CreateSq, DeleteCq, DeleteSq, ControlAt, queueVars
<1>2. /\ ctl.pc \notin Flushing /\ ctl'.pc \notin Flushing \cup {"disable", "sync"}
      /\ {ctl.pc, ctl'.pc} \cap {"cq", "complete", "loop"} = {}
  BY <1>1 DEF Flushing
<1>3. CmdFrame(Control) /\ UNCHANGED isRemoved
  BY <1>2, ControlFrames DEF CmdFrame, ctl
<1>4. ASSUME NEW q \in Queues, Void(q)' PROVE Void(q)
  BY <1>1, <1>4 DEF Void, Away, Building, Starting, Gone
<1> QED
  BY <1>1, <1>2, <1>3, <1>4, ControlKeepsCmd

-----------------------------------------------------------------------------
(* QuiesceDevice outside a queue.                                          *)

LEMMA QuiesceCmd == ASSUME IoInv, CmdInv, QuiesceStart \/ QuiesceStep PROVE CmdInv'
<1> USE AgentsAre DEF CmdInv
<1>1. /\ agent[Quiesce].pc \in {"idle", "test", "index", "next"}
      /\ agent'[Quiesce].pc \in {"test", "index", "next", "done", "suspend", "astray"}
      /\ \A b \in Agents \ {Quiesce} : agent'[b] = agent[b]
      /\ UNCHANGED <<state, isRemoved, sub, posted, executing, outstanding, completed, cqLock,
                     listLock>>
      /\ agent[Quiesce].pc = "idle" => isRemoved
  BY DEF QuiesceStart, QuiesceStep, QuiesceTest, QuiesceIndex, QuiesceNext, Goes, IoInv, IoType,
         Agent, queueVars, ctrlrVars, hwVars, cmdVars, lockVars
<1>2. CmdFrame(Quiesce)
  BY <1>1 DEF CmdFrame
<1>3. /\ CmdType' /\ Accepted' /\ Locks' /\ Completing'
      /\ \A b \in Agents : InCq(b)' = InCq(b) /\ InList(b)' = InList(b)
      /\ \A p : Quiet(p)' = Quiet(p) /\ On(p)' = On(p)
      /\ ~InCq(Quiesce) /\ ~InList(Quiesce)
  BY <1>2, CmdFrameKeeps
<1>4. ctl' = ctl
  BY <1>1 DEF ctl
<1>5. \A q : ~At(Quiesce, q, Flushing)' /\ ~At(Quiesce, q, {"disable", "sync"})'
             /\ ~PastCq(Quiesce)'
  BY <1>1, <1>3 DEF At, Flushing, PastCq
<1>6. \A q, pcs : At(Control, q, pcs)' = At(Control, q, pcs)
  BY <1>4 DEF At, ctl
<1>7. Closing'
  BY <1>1, <1>3, <1>4, <1>5, <1>6 DEF Closing, Closed, Void
<1>8. Emptied' /\ Pulled'
  BY <1>1, <1>3, <1>4 DEF Emptied, Void, Pulled
<1>9. Apart'
  BY <1>1, <1>5 DEF Apart
<1> QED
  BY <1>3, <1>7, <1>8, <1>9

-----------------------------------------------------------------------------
(* The submitters and the device.                                          *)

SubFrame(c, pc, q) ==
  /\ SubMoves(c, pc, q) /\ (sub[c].pc = "idle" \/ sub[c].q = q)
  /\ UNCHANGED <<state, isRemoved, agent, completed, posted, cqLock, listLock>>
  /\ pc \in SubUses => sub[c].pc \in SubUses \/ state[q] = "ACTIVE"
  /\ outstanding' \subseteq outstanding \cup {c} /\ outstanding \ {c} \subseteq outstanding'
  /\ c \in outstanding' => c \in outstanding \/ pc \in SubUses
  /\ executing' \subseteq executing \cup {c} /\ (isRemoved => executing' = {})
  /\ sub[c].ok => sub'[c].ok /\ (c \in outstanding => c \in outstanding')
  /\ sub'[c].ok => pc \in {"leave", "returned"}
  /\ c \in posted \cup executing' => sub'[c].ok
  /\ c \in outstanding' => sub'[c].ok \/ pc \in {"issue", "ring", "put"}
  /\ pc \in {"issue", "ring", "put"} => c \in outstanding'
  /\ completed[c] = IF sub'[c].ok /\ c \notin outstanding' THEN 1 ELSE 0

LEMMA SubFrameKeeps ==
  ASSUME IoInv, CmdInv, NEW c \in Cmds, NEW pc, NEW q \in Queues, SubFrame(c, pc, q)
  PROVE  CmdInv'
<1> USE AgentsAre DEF CmdInv
<1>1. /\ sub'[c].pc = pc /\ sub'[c].q = q /\ \A d \in Cmds \ {c} : sub'[d] = sub[d]
      /\ sub[c].pc = "idle" \/ sub[c].q = q
      /\ UNCHANGED <<state, isRemoved, agent, completed, posted, cqLock, listLock>>
      /\ outstanding' \subseteq outstanding \cup {c} /\ outstanding \ {c} \subseteq outstanding'
      /\ executing' \subseteq executing \cup {c}
  BY DEF SubFrame, SubMoves
<1>2. ctl' = ctl /\ \A p \in Queues : Void(p)' = Void(p) /\ Closed(p)' = Closed(p)
  BY <1>1 DEF ctl, Void, Closed, At
<1>3. \A a \in Agents : InCq(a)' = InCq(a) /\ InList(a)' = InList(a)
  BY <1>1 DEF InCq, InList
<1>4. sub[c].pc = "idle" => c \notin outstanding \cup posted /\ ~sub[c].ok
  BY DEF Accepted
<1>5. CmdType'
  BY <1>1 DEF CmdType
<1>6. Accepted'
  <2>1. ASSUME NEW d \in Cmds, d # c
        PROVE  /\ sub'[d] = sub[d] /\ completed'[d] = completed[d]
               /\ d \in outstanding' <=> d \in outstanding
               /\ d \in posted' \cup executing' => d \in posted \cup executing
    BY <1>1, <2>1
  <2>2. ASSUME NEW d \in Cmds
        PROVE  /\ sub'[d].ok => sub'[d].pc \in {"leave", "returned"}
               /\ d \in posted' \cup executing' => sub'[d].ok
               /\ d \in outstanding' => sub'[d].ok \/ sub'[d].pc \in {"issue", "ring", "put"}
               /\ sub'[d].pc \in {"issue", "ring", "put"} => d \in outstanding'
               /\ completed'[d] = IF sub'[d].ok /\ d \notin outstanding' THEN 1 ELSE 0
    <3>1. CASE d = c
      BY <1>1, <3>1 DEF SubFrame
    <3>2. CASE d # c
      BY <2>1, <3>2 DEF Accepted
    <3> QED
      BY <3>1, <3>2
  <2> QED
    BY <2>2 DEF Accepted
<1>7. Closing'
  <2>1. ASSUME NEW p \in Queues, Closed(p) PROVE Quiet(p)'
    <3>1. Quiet(p) /\ state[p] # "ACTIVE"
      BY <2>1 DEF Closing
    <3>2. CASE p = q
      BY <1>1, <3>1, <3>2 DEF Quiet, SubFrame, SubUses
    <3>3. CASE p # q
      BY <1>1, <3>1, <3>3 DEF Quiet
    <3> QED
      BY <3>2, <3>3
  <2> QED
    BY <1>1, <1>2, <2>1 DEF Closing
<1>8. Locks' /\ Pulled'
  BY <1>1, <1>3 DEF Locks, Pulled, At, SubFrame
<1>9. ASSUME NEW p \in Queues, Closed(p)
      PROVE  \A d \in Cmds : d \in On(p)' /\ d \in outstanding' => d \in On(p) /\ d \in outstanding
  <2>1. c \in On(p)' /\ c \in outstanding' => c \in On(p) /\ c \in outstanding
    <3>1. Quiet(p) /\ state[p] # "ACTIVE"
      BY <1>9 DEF Closing
    <3>2. ASSUME c \in On(p)', c \in outstanding' PROVE c \in On(p) /\ c \in outstanding
      <4>1. p = q /\ (c \in outstanding \/ pc \in SubUses)
        BY <1>1, <3>2 DEF On, SubFrame
      <4>2. pc \in SubUses => sub[c].pc \in SubUses
        BY <3>1, <4>1 DEF SubFrame
      <4>3. sub[c].q = q \/ sub[c].pc = "idle"
        BY <1>1
      <4>4. pc \notin SubUses
        BY <3>1, <4>1, <4>2, <4>3 DEF Quiet, SubUses
      <4>5. c \in outstanding
        BY <4>1, <4>4
      <4> QED
        BY <1>4, <4>1, <4>3, <4>5 DEF On
    <3> QED
      BY <3>2
  <2>2. ASSUME NEW d \in Cmds, d # c, d \in On(p)', d \in outstanding'
        PROVE  d \in On(p) /\ d \in outstanding
    BY <1>1, <2>2 DEF On
  <2> QED
    BY <2>1, <2>2
<1>10. Emptied'
  <2>1. ASSUME NEW p \in Queues, Void(p)' PROVE On(p)' \cap outstanding' = {}
    BY <1>2, <1>9, <2>1 DEF Emptied, Closed, On
  <2>2. ASSUME InList(Control)'
        PROVE  \A d \in (On(ctl.q) \cap outstanding)' : d >= ctl'.cmd
    <3>1. PICK p : p = ctl.q
      OBVIOUS
    <3>2. InList(Control) /\ p \in Queues /\ At(Control, p, Flushing)
      BY <1>1, <1>3, <2>2, <3>1 DEF InList, IoInv, IoType, Between, At, Flushing, ctl
    <3>3. Closed(p)
      BY <3>2 DEF Closed
    <3>4. \A d \in On(p) \cap outstanding : d >= ctl.cmd
      BY <3>1, <3>2 DEF Emptied
    <3>5. \A d \in On(p)' \cap outstanding' : d \in Cmds
      BY DEF On
    <3>6. \A d \in On(p)' \cap outstanding' : d >= ctl.cmd
      BY <1>9, <3>2, <3>3, <3>4, <3>5
    <3>7. On(ctl.q)' = On(p)'
      BY <1>2, <3>1
    <3> QED
      BY <1>2, <3>6, <3>7
  <2> QED
    BY <2>1, <2>2 DEF Emptied
<1>11. ASSUME NEW p PROVE posted' \cap On(p)' \subseteq posted \cap On(p)
  BY <1>1, <1>4 DEF On
<1>12. Apart'
  <2>1. ASSUME NEW f \in Flushers, NEW p, NEW pcs PROVE At(f, p, pcs)' = At(f, p, pcs)
    BY <1>1 DEF At
  <2>2. ASSUME NEW f \in Flushers PROVE PastCq(f)' = PastCq(f)
    BY <1>1, <1>3 DEF PastCq
  <2> QED
    BY <1>1, <1>3, <1>11, <2>1, <2>2 DEF Apart
<1>13. Completing'
  <2>1. ASSUME NEW d \in outstanding, sub[d].ok
        PROVE  d \in outstanding' /\ sub'[d].ok /\ sub'[d].q = sub[d].q
    <3>1. CASE d = c
      BY <1>1, <1>4, <2>1, <3>1 DEF SubFrame
    <3>2. CASE d # c
      BY <1>1, <2>1, <3>2 DEF IoInv, IoType
    <3> QED
      BY <3>1, <3>2
  <2> QED
    BY <1>1, <2>1 DEF Completing, On
<1> QED
  BY <1>5, <1>6, <1>7, <1>8, <1>10, <1>12, <1>13

LEMMA SubmitCmd ==
  ASSUME IoInv, CmdInv, Device, NEW c \in Cmds,
         (\E q \in Queues : SubmitEnter(c, q)) \/ SubmitStep(c)
  PROVE  CmdInv'
<1> USE DEF SubUses, queueVars, ctrlrVars, hwVars, cmdVars, lockVars, CmdInv
<1>0. /\ sub[c] \in Submitter
      /\ sub[c].ok => sub[c].pc \in {"leave", "returned"}
      /\ c \in posted \cup executing => sub[c].ok
      /\ c \in outstanding => sub[c].ok \/ sub[c].pc \in {"issue", "ring", "put"}
      /\ sub[c].pc \in {"issue", "ring", "put"} => c \in outstanding
      /\ completed[c] = IF sub[c].ok /\ c \notin outstanding THEN 1 ELSE 0
      /\ isRemoved => executing = {}
      /\ sub[c].pc # "idle" => sub[c].q \in Queues
  BY DEF IoInv, IoType, Accepted, Pulled
<1>1. ASSUME NEW q \in Queues, SubmitEnter(c, q) PROVE CmdInv'
  <2>1. SubMoves(c, "entered", q) /\ sub'[c].ok = sub[c].ok
    BY ZenonT(40), <1>1 DEF SubmitEnter, SubMoves, IoInv, IoType, Submitter, SubPcs, SubInside
  <2>2. SubFrame(c, "entered", q)
    BY <1>0, <1>1, <2>1 DEF SubmitEnter, SubFrame
  <2> QED
    BY <2>2, SubFrameKeeps
<1>2. CASE SubmitChecks(c)
  <2>1. PICK pc \in {"get", "leave"} :
          /\ SubMoves(c, pc, sub[c].q) /\ sub'[c].ok = sub[c].ok
          /\ pc = "get" => state[sub[c].q] = "ACTIVE"
    BY <1>2, SubGoesMoves DEF SubmitChecks, IoInv, SubPcs, SubInside
  <2>2. SubFrame(c, pc, sub[c].q) /\ sub[c].q \in Queues
    BY <1>0, <1>2, <2>1 DEF SubmitChecks, SubFrame
  <2> QED
    BY <2>2, SubFrameKeeps
<1>3. ASSUME NEW free \in BOOLEAN, GetSlot(c, free) PROVE CmdInv'
  <2>1. CASE free
    <3>1. SubMoves(c, "issue", sub[c].q) /\ sub'[c].ok = sub[c].ok
      BY <1>3, <2>1, SubGoesMoves DEF GetSlot, IoInv, SubPcs, SubInside
    <3>2. SubFrame(c, "issue", sub[c].q) /\ sub[c].q \in Queues
      BY <1>0, <1>3, <2>1, <3>1 DEF GetSlot, SubFrame
    <3> QED
      BY <3>2, SubFrameKeeps
  <2>2. CASE ~free
    <3>1. SubMoves(c, "leave", sub[c].q) /\ sub'[c].ok = sub[c].ok
      BY <1>3, <2>2, SubGoesMoves DEF GetSlot, IoInv, SubPcs, SubInside
    <3>2. SubFrame(c, "leave", sub[c].q) /\ sub[c].q \in Queues
      BY <1>0, <1>3, <2>2, <3>1 DEF GetSlot, SubFrame
    <3> QED
      BY <3>2, SubFrameKeeps
  <2> QED
    BY <2>1, <2>2
<1>4. ASSUME NEW full \in BOOLEAN, Issue(c, full) PROVE CmdInv'
  <2>1. PICK pc \in {"put", "ring"} : SubMoves(c, pc, sub[c].q) /\ sub'[c].ok = sub[c].ok
    BY <1>4, SubGoesMoves DEF Issue, IoInv, SubPcs, SubInside
  <2>2. SubFrame(c, pc, sub[c].q) /\ sub[c].q \in Queues
    BY <1>0, <1>4, <2>1 DEF Issue, SubFrame
  <2> QED
    BY <2>2, SubFrameKeeps
<1>5. CASE Ring(c)
  <2>1. SubMoves(c, "leave", sub[c].q) /\ sub'[c].ok = TRUE
    BY ZenonT(40), <1>5 DEF Ring, SubMoves, IoInv, IoType, Submitter, SubPcs, SubInside
  <2>2. isRemoved => executing' = {}
    BY <1>0, <1>5 DEF Ring, Device
  <2>3. SubFrame(c, "leave", sub[c].q) /\ sub[c].q \in Queues
    BY <1>0, <1>5, <2>1, <2>2 DEF Ring, SubFrame
  <2> QED
    BY <2>3, SubFrameKeeps
<1>6. CASE PutSlot(c)
  <2>1. SubMoves(c, "leave", sub[c].q) /\ sub'[c].ok = sub[c].ok
    BY <1>6, SubGoesMoves DEF PutSlot, IoInv, SubPcs, SubInside
  <2>2. SubFrame(c, "leave", sub[c].q) /\ sub[c].q \in Queues
    BY <1>0, <1>6, <2>1 DEF PutSlot, SubFrame
  <2> QED
    BY <2>2, SubFrameKeeps
<1>7. CASE SubmitLeave(c)
  <2>1. SubMoves(c, "returned", sub[c].q) /\ sub'[c].ok = sub[c].ok
    BY <1>7, SubGoesMoves DEF SubmitLeave, IoInv, SubPcs
  <2>2. SubFrame(c, "returned", sub[c].q) /\ sub[c].q \in Queues
    BY <1>0, <1>7, <2>1 DEF SubmitLeave, SubFrame
  <2> QED
    BY <2>2, SubFrameKeeps
<1> QED
  BY <1>1, <1>2, <1>3, <1>4, <1>5, <1>6, <1>7 DEF SubmitStep

LEMMA DeviceCmd ==
  ASSUME IoInv, CmdInv, ForgetDevice \/ \E c \in Cmds : DeviceCompletes(c) PROVE CmdInv'
<1> USE AgentsAre DEF CmdInv
<1>1. /\ UNCHANGED <<state, agent, sub, outstanding, completed, cqLock, listLock>>
      /\ executing' \subseteq executing /\ posted' \subseteq posted \cup executing
      /\ isRemoved => isRemoved' /\ posted' = posted
      /\ isRemoved' => executing' = {}
  BY DEF ForgetDevice, DeviceCompletes, Pulled, queueVars, ctrlrVars, cmdVars, lockVars
<1>2. \A a \in Agents : InCq(a)' = InCq(a) /\ InList(a)' = InList(a)
  BY <1>1 DEF InCq, InList
<1>3. CmdType' /\ Accepted' /\ Locks' /\ Completing'
  BY <1>1, <1>2 DEF CmdType, Accepted, Locks, Completing, At, On
<1>4. Closing' /\ Emptied' /\ Pulled'
  BY <1>1, <1>2 DEF Closing, Closed, Void, Quiet, Emptied, Pulled, At, On, ctl
<1>5. Apart'
  <2>1. ASSUME NEW f \in Flushers, NEW g \in Flushers, NEW q \in Queues,
               f # g, At(f, q, Flushing), PastCq(g)
        PROVE  posted' = posted
    <3>1. agent[Quiesce].pc # "idle"
      BY <2>1 DEF At, Flushing, PastCq, InList
    <3> QED
      BY <1>1, <3>1 DEF Pulled
  <2> QED
    BY <1>1, <1>2, <2>1 DEF Apart, PastCq, At, On
<1> QED
  BY <1>3, <1>4, <1>5


-----------------------------------------------------------------------------
(* The suspension, the wait, and the reference of the flush.               *)

(* A thread that flushes begins when nobody is inside the queue.           *)
FlushFrame(f, q, pc) ==
  /\ agent[f].q = q /\ agent[f].pc \in QuiesceWorks /\ AgentMoves(f, pc, q)
  /\ pc # "lockList" /\ CmdFrame(f) /\ UNCHANGED isRemoved
  /\ \A p \in Queues : state'[p] = state[p] \/ (state[p] = "ACTIVE" /\ state'[p] = "SUSPENDED")
  /\ pc \in Flushing => agent[f].pc \in Flushing \/ (Holders(q) = {} /\ state[q] # "ACTIVE")
  /\ pc \in {"disable", "sync"} => agent[f].pc = "disable" \/ state[q] = "ACTIVE"
  /\ f = Control /\ pc \in Away \cup {"leave"} => agent[f].pc = "leave"
  /\ f = Quiesce /\ pc = "await" => state'[q] # "ACTIVE"

LEMMA FlushFrameKeeps ==
  ASSUME IoInv, CmdInv, NEW f \in Flushers, NEW q \in Queues, NEW pc, FlushFrame(f, q, pc)
  PROVE  CmdInv'
<1> USE AgentsAre DEF CmdInv
<1>1. /\ agent[f].q = q /\ agent'[f].q = q /\ agent'[f].pc = pc
      /\ agent[f].pc \in QuiesceWorks /\ pc # "lockList" /\ isRemoved' = isRemoved
      /\ \A b \in Agents \ {f} : agent'[b] = agent[b]
      /\ \A p \in Queues :
           state'[p] = state[p] \/ (state[p] = "ACTIVE" /\ state'[p] = "SUSPENDED")
  BY DEF FlushFrame, AgentMoves
<1>2. /\ CmdType' /\ Accepted' /\ Locks' /\ Completing'
      /\ \A b \in Agents : InCq(b)' = InCq(b) /\ InList(b)' = InList(b)
      /\ ~InCq(f) /\ ~InList(f)
      /\ \A p : Quiet(p)' = Quiet(p) /\ On(p)' = On(p)
  BY CmdFrameKeeps DEF FlushFrame
<1>3. posted' \subseteq posted /\ executing' \subseteq executing /\ outstanding' = outstanding
  BY DEF FlushFrame, CmdFrame
<1>4. ASSUME NEW g \in Flushers, g # f, NEW p, NEW pcs PROVE At(g, p, pcs)' = At(g, p, pcs)
  BY <1>1, <1>4 DEF At
<1>5. ASSUME NEW p \in Queues, At(f, p, Flushing)'
      PROVE  /\ p = q
             /\ At(f, q, Flushing) \/ (Holders(q) = {} /\ state[q] # "ACTIVE")
  BY <1>1, <1>5 DEF At, FlushFrame
<1>6. ASSUME Holders(q) = {}
      PROVE  /\ Quiet(q)
             /\ \A g \in Flushers : agent[g].q = q => agent[g].pc \notin FlushInside
  BY <1>6 DEF Holders, Quiet, SubInside, At
<1>7. \A p \in Queues : Void(p)' => Void(p)
  <2>1. CASE f = Control
    <3>1. ctl'.q = q /\ ctl.q = q /\ ctl'.pc = pc
      BY <1>1, <2>1 DEF ctl
    <3>2. pc \in Away \cup {"leave"} => ctl.pc = "leave"
      BY <2>1 DEF FlushFrame, ctl
    <3> QED
      BY <1>1, <3>1, <3>2 DEF Void
  <2>2. CASE f # Control
    BY <1>1, <2>2 DEF Void, ctl
  <2> QED
    BY <2>1, <2>2
<1>8. Closing'
  <2>1. ASSUME NEW p \in Queues, Closed(p)' PROVE Quiet(p) /\ state[p] # "ACTIVE"
    <3>1. CASE Closed(p)
      BY <3>1 DEF Closing
    <3>2. CASE ~Closed(p)
      <4>1. At(f, p, Flushing)'
        BY <1>4, <1>7, <2>1, <3>2 DEF Closed
      <4>2. p = q /\ Holders(q) = {} /\ state[q] # "ACTIVE"
        BY <1>5, <3>2, <4>1 DEF Closed
      <4> QED
        BY <1>6, <4>2
    <3> QED
      BY <3>1, <3>2
  <2>2. ASSUME NEW p \in Queues, state[p] # "ACTIVE" PROVE state'[p] # "ACTIVE"
    BY <1>1, <2>2
  <2>3. ASSUME agent'[Quiesce].pc = "await" PROVE state'[agent'[Quiesce].q] # "ACTIVE"
    <3>1. CASE f = Quiesce
      BY <1>1, <2>3, <3>1 DEF FlushFrame
    <3>2. CASE f # Quiesce
      <4>1. PICK p \in Queues : agent[Quiesce].q = p
        BY <1>1, <2>3, <3>2 DEF IoInv, IoType, QuiesceWorks
      <4> QED
        BY <1>1, <2>2, <2>3, <3>2, <4>1 DEF Closing
    <3> QED
      BY <3>1, <3>2
  <2> QED
    BY <1>2, <2>1, <2>2, <2>3 DEF Closing
<1>9. Emptied'
  <2>1. InList(Control)' => ctl' = ctl
    BY <1>1, <1>2 DEF ctl
  <2> QED
    BY <1>2, <1>3, <1>7, <2>1 DEF Emptied
<1>10. Pulled'
  BY <1>1, <1>3 DEF Pulled, QuiesceWorks, FlushInside, FlushUses
<1>11. Apart'
  <2>1. ~PastCq(f)'
    BY <1>1, <1>2 DEF PastCq
  <2>2. ASSUME NEW g \in Flushers, g # f PROVE PastCq(g)' = PastCq(g) /\ agent'[g] = agent[g]
    BY <1>1, <1>2, <2>2 DEF PastCq
  <2>3. ASSUME NEW g \in Flushers, g # f, NEW p \in Queues, At(f, p, Flushing)'
        PROVE  /\ ~At(g, p, {"disable", "sync"})
               /\ agent[g].q = p /\ PastCq(g) => posted \cap On(p) = {}
    <3>1. CASE At(f, p, Flushing)
      BY <2>3, <3>1 DEF Apart
    <3>2. CASE ~At(f, p, Flushing)
      <4>1. p = q /\ Holders(q) = {}
        BY <1>5, <2>3, <3>2
      <4>2. agent[g].q = q => agent[g].pc \notin FlushInside
        BY <1>6, <4>1
      <4> QED
        BY <4>1, <4>2 DEF At, PastCq, InList, FlushInside, FlushUses
    <3> QED
      BY <3>1, <3>2
  <2>4. ASSUME NEW g \in Flushers, g # f, NEW p \in Queues, At(g, p, Flushing)
        PROVE  ~At(f, p, {"disable", "sync"})'
    <3>1. ~At(f, p, {"disable", "sync"}) /\ state[p] # "ACTIVE"
      BY <2>4 DEF Apart, Closing, Closed
    <3> QED
      BY <1>1, <3>1 DEF At, FlushFrame
  <2>5. ASSUME NEW g \in Flushers, NEW h \in Flushers, NEW p \in Queues, g # h,
               At(g, p, Flushing)'
        PROVE  /\ ~At(h, p, {"disable", "sync"})'
               /\ agent'[h].q = p /\ PastCq(h)' =>
                    /\ posted' \cap On(p)' = {}
                    /\ ~(agent'[g].pc = "complete" /\ InCq(g)')
    <3>1. CASE g = f
      <4>1. h # f /\ At(h, p, {"disable", "sync"})' = At(h, p, {"disable", "sync"})
        BY <1>4, <2>5, <3>1
      <4> QED
        BY <1>2, <1>3, <2>2, <2>3, <2>5, <3>1, <4>1
    <3>2. CASE h = f
      <4>1. At(g, p, Flushing)
        BY <1>4, <2>5, <3>2
      <4> QED
        BY <2>1, <2>4, <2>5, <3>2, <4>1
    <3> QED
      BY <2>5, <3>1, <3>2
  <2> QED
    BY <2>5 DEF Apart
<1> QED
  BY <1>2, <1>8, <1>9, <1>10, <1>11

(* Its steps, one by one.                                                  *)
LEMMA SuspensionCmd ==
  ASSUME IoInv, CmdInv, NEW f \in Flushers,
         \/ Suspend(f) \/ DisableIntr(f) \/ SyncIntr(f)
         \/ AwaitNoSubmission(f) \/ FlushEnter(f) \/ FlushChecks(f) \/ FlushLeave(f)
  PROVE  CmdInv'
<1> USE AgentsAre
    DEF queueVars, ctrlrVars, hwVars, cmdVars, lockVars, AfterSuspend,
        QuiesceWorks, FlushInside, FlushUses
<1>0. /\ {"disable", "sync", "deleteSq", "await", "enter", "entered", "lockCq", "leave",
          "destroy", "next"} \subseteq HandlerPcs \cup ControlPcs \cup QuiescePcs
      /\ IoType /\ f \in Agents
  BY DEF ControlPcs, Deleting, Flushing, Stopping, QuiescePcs, IoInv
<1>1. PICK q \in Queues : agent[f].q = q
  BY DEF Suspend, DisableIntr, SyncIntr, AwaitNoSubmission, FlushEnter, FlushChecks, FlushLeave,
         IoInv, IoType, Between, Flushers, ctl
<1>2. /\ f = Control => ctl = agent[f] /\ ctl.q = q
      /\ f # Control => f = Quiesce
      /\ state \in [Queues -> {"NON_EXIST", "SUSPENDED", "ACTIVE"}]
  BY <1>1 DEF ctl, IoInv, IoType
<1>3. ASSUME NEW pc \in HandlerPcs \cup ControlPcs \cup QuiescePcs, Goes(f, pc)
      PROVE  AgentMoves(f, pc, q)
  BY <1>0, <1>1, <1>3, GoesMoves
<1>4. ASSUME NEW pc, AgentMoves(f, pc, q), {agent[f].pc, pc} \cap {"cq", "complete", "loop"} = {},
             UNCHANGED <<sub, outstanding, completed, cqLock, listLock, posted, executing>>
      PROVE  CmdFrame(f)
  BY <1>4 DEF CmdFrame, AgentMoves
<1>5. CASE Suspend(f)
  <2> DEFINE pc == IF state[q] = "ACTIVE" THEN "disable" ELSE AfterSuspend(f)
  <2>1. AgentMoves(f, pc, q) /\ agent[f].pc = "suspend"
    <3>1. pc \in {"disable", "deleteSq", "await"}
      OBVIOUS
    <3>2. pc \in HandlerPcs \cup ControlPcs \cup QuiescePcs
      BY <1>0, <3>1
    <3>3. Goes(f, pc)
      BY <1>1, <1>5 DEF Suspend
    <3> QED
      BY <1>3, <1>5, <3>2, <3>3 DEF Suspend
  <2>2. CmdFrame(f)
    BY <1>4, <1>5, <2>1 DEF Suspend
  <2>3. FlushFrame(f, q, pc)
    BY <1>1, <1>2, <1>5, <2>1, <2>2
    DEF FlushFrame, Suspend, Flushing, Away, Building, Starting, Gone
  <2> QED
    BY <2>3, FlushFrameKeeps
<1>6. CASE DisableIntr(f)
  <2> DEFINE pc == IF isIntrEnabled[q] THEN "sync" ELSE AfterSuspend(f)
  <2>1. AgentMoves(f, pc, q) /\ agent[f].pc = "disable"
    <3>1. pc \in {"sync", "deleteSq", "await"}
      OBVIOUS
    <3>2. pc \in HandlerPcs \cup ControlPcs \cup QuiescePcs
      BY <1>0, <3>1
    <3>3. Goes(f, pc)
      BY <1>1, <1>6 DEF DisableIntr
    <3> QED
      BY <1>3, <1>6, <3>2, <3>3 DEF DisableIntr
  <2>2. CmdFrame(f)
    BY <1>4, <1>6, <2>1 DEF DisableIntr
  <2>3. state[q] # "ACTIVE"
    BY <1>1, <2>1 DEF IoInv, States, At
  <2>4. FlushFrame(f, q, pc)
    BY <1>1, <1>2, <1>6, <2>1, <2>2, <2>3
    DEF FlushFrame, DisableIntr, Flushing, Away, Building, Starting, Gone
  <2> QED
    BY <2>4, FlushFrameKeeps
<1>7. CASE SyncIntr(f)
  <2> DEFINE pc == AfterSuspend(f)
  <2>1. AgentMoves(f, pc, q) /\ agent[f].pc = "sync"
    BY <1>0, <1>3, <1>7 DEF SyncIntr
  <2>2. CmdFrame(f)
    BY <1>4, <1>7, <2>1 DEF SyncIntr
  <2>3. state[q] # "ACTIVE"
    BY <1>1, <2>1 DEF IoInv, States, At
  <2>4. FlushFrame(f, q, pc)
    BY <1>1, <1>2, <1>7, <2>1, <2>2, <2>3
    DEF FlushFrame, SyncIntr, Flushing, Away, Building, Starting, Gone
  <2> QED
    BY <2>4, FlushFrameKeeps
<1>8. CASE AwaitNoSubmission(f)
  <2>1. AgentMoves(f, "enter", q) /\ agent[f].pc = "await"
    BY <1>0, <1>3, <1>8 DEF AwaitNoSubmission
  <2>2. CmdFrame(f)
    BY <1>4, <1>8, <2>1 DEF AwaitNoSubmission
  <2>3. Holders(q) = {}
    BY <1>1, <1>8, NoHolders DEF AwaitNoSubmission, IoInv
  <2>4. state[q] # "ACTIVE"
    BY <1>1, <1>2, <2>1 DEF IoInv, CmdInv, States, Stopping, Closing
  <2>5. FlushFrame(f, q, "enter")
    BY <1>1, <1>8, <2>1, <2>2, <2>3, <2>4
    DEF FlushFrame, AwaitNoSubmission, Flushing, Away, Building, Starting, Gone
  <2> QED
    BY <2>5, FlushFrameKeeps
<1>9. CASE FlushEnter(f)
  <2>1. AgentMoves(f, "entered", q) /\ agent[f].pc = "enter"
    BY <1>0, <1>3, <1>9 DEF FlushEnter
  <2>2. CmdFrame(f)
    BY <1>4, <1>9, <2>1 DEF FlushEnter
  <2>3. FlushFrame(f, q, "entered")
    BY <1>1, <1>9, <2>1, <2>2
    DEF FlushFrame, FlushEnter, Flushing, Away, Building, Starting, Gone
  <2> QED
    BY <2>3, FlushFrameKeeps
<1>10. CASE FlushChecks(f)
  <2> DEFINE pc == IF state[q] = "NON_EXIST" THEN "leave" ELSE "lockCq"
  <2>1. AgentMoves(f, pc, q) /\ agent[f].pc = "entered"
    <3>1. pc \in HandlerPcs \cup ControlPcs \cup QuiescePcs
      BY <1>0
    <3>2. Goes(f, pc)
      BY <1>1, <1>10 DEF FlushChecks
    <3> QED
      BY <1>3, <1>10, <3>1, <3>2 DEF FlushChecks
  <2>2. CmdFrame(f)
    BY <1>4, <1>10, <2>1 DEF FlushChecks
  <2>3. f = Control => pc = "lockCq"
    BY <1>2, <2>1 DEF IoInv, States, Flushing
  <2>4. FlushFrame(f, q, pc)
    BY <1>1, <1>10, <2>1, <2>2, <2>3
    DEF FlushFrame, FlushChecks, Flushing, Away, Building, Starting, Gone
  <2> QED
    BY <2>4, FlushFrameKeeps
<1>11. CASE FlushLeave(f)
  <2> DEFINE pc == IF f = Control THEN "destroy" ELSE "next"
  <2>1. AgentMoves(f, pc, q) /\ agent[f].pc = "leave"
    BY <1>0, <1>3, <1>11 DEF FlushLeave
  <2>2. CmdFrame(f)
    BY <1>4, <1>11, <2>1 DEF FlushLeave
  <2>3. FlushFrame(f, q, pc)
    BY <1>1, <1>11, <2>1, <2>2
    DEF FlushFrame, FlushLeave, Flushing, Away, Building, Starting, Gone
  <2> QED
    BY <2>3, FlushFrameKeeps
<1> QED
  BY <1>5, <1>6, <1>7, <1>8, <1>9, <1>10, <1>11

-----------------------------------------------------------------------------
(* The two loops that complete commands.                                   *)

(* Nobody handles the interrupts of a queue that is flushed.               *)
LEMMA HandlerIsIdle ==
  ASSUME IoInv, CmdInv, NEW f \in Flushers, NEW q \in Queues, At(f, q, Flushing)
  PROVE  agent[q].pc = "idle"
<1>1. state[q] # "ACTIVE"
  BY DEF CmdInv, Closing, Closed
<1>2. ASSUME NEW g \in Flushers PROVE ~At(g, q, {"disable", "sync"})
  BY DEF CmdInv, Apart, At, Flushing
<1> QED
  BY <1>1, <1>2 DEF IoInv, Interrupts, At

LEMMA CmdIs ==
  ASSUME IoType, NEW a \in Agents, NEW pc, NEW cmd, CmdGoes(a, pc, cmd)
  PROVE  agent'[a].cmd = cmd
BY DEF IoType, Agent, CmdGoes

(* A thread inside these loops takes one step.                             *)
InnerStep(a, q, pc) ==
  /\ agent[a].q = q /\ agent[a].pc \in FlushChecked /\ AgentMoves(a, pc, q)
  /\ pc \in FlushChecked \cup {IF a \in Flushers THEN "leave" ELSE "idle"}
  /\ UNCHANGED <<state, isRemoved, sub, executing>>
  /\ posted' \subseteq posted /\ outstanding' \subseteq outstanding

LEMMA InnerKeeps ==
  ASSUME IoInv, CmdInv, NEW a \in Agents, NEW q, NEW pc, InnerStep(a, q, pc)
  PROVE  /\ q \in Queues /\ agent'[a].pc = pc /\ agent'[a].q = q
         /\ \A b \in Agents \ {a} : agent'[b] = agent[b]
         /\ \A b \in Agents : agent'[b].q = agent[b].q
         /\ a \in Flushers => At(a, q, Flushing) /\ Quiet(q) /\ agent[q].pc = "idle"
         /\ a \notin Flushers => a = q
         /\ \A p : Quiet(p)' = Quiet(p) /\ On(p)' = On(p)
         /\ \A f \in Flushers, p \in Queues :
              /\ At(f, p, Flushing)' = At(f, p, Flushing)
              /\ At(f, p, {"disable", "sync"})' = At(f, p, {"disable", "sync"})
         /\ \A p \in Queues : Void(p)' => Void(p) \/ (p = q /\ a = Control /\ pc = "leave")
         /\ Closing' /\ Pulled'
<1> USE AgentsAre DEF CmdInv
<1>1. /\ agent[a].q = q /\ agent[a].pc \in FlushChecked
      /\ agent'[a].pc = pc /\ agent'[a].q = q
      /\ \A b \in Agents \ {a} : agent'[b] = agent[b]
      /\ pc \in FlushChecked \cup {IF a \in Flushers THEN "leave" ELSE "idle"}
      /\ UNCHANGED <<state, isRemoved, sub, executing>>
  BY DEF InnerStep, AgentMoves
<1>2. /\ q \in Queues
      /\ a \notin Flushers => a = q
      /\ FlushChecked \cup {"leave"} \subseteq Flushing
  <2>1. FlushChecked \cup {"leave"} \subseteq Flushing
    BY DEF FlushChecked, Flushing
  <2>2. CASE a \in Queues
    BY <1>1, <2>1, <2>2 DEF IoInv, IoType
  <2>3. CASE a = Control
    BY <1>1, <2>1, <2>3 DEF IoInv, IoType, ctl, Between, FlushChecked
  <2>4. CASE a = Quiesce
    BY <1>1, <2>1, <2>4 DEF IoInv, IoType, FlushChecked, QuiesceWorks, FlushInside, FlushUses
  <2> QED
    BY <2>1, <2>2, <2>3, <2>4 DEF Agents
<1>3. ASSUME NEW f \in Flushers, NEW p \in Queues
      PROVE  /\ At(f, p, Flushing)' = At(f, p, Flushing)
             /\ At(f, p, {"disable", "sync"})' = At(f, p, {"disable", "sync"})
  <2>1. CASE f # a
    BY <1>1, <2>1 DEF At
  <2>2. CASE f = a
    BY <1>1, <1>2, <2>2 DEF At, FlushChecked, Flushing
  <2> QED
    BY <2>1, <2>2
<1>4. \A p : Quiet(p)' = Quiet(p) /\ On(p)' = On(p)
  BY <1>1 DEF Quiet, On
<1>5. a \in Flushers => At(a, q, Flushing) /\ Quiet(q) /\ agent[q].pc = "idle"
  <2>1. a \in Flushers => At(a, q, Flushing)
    BY <1>1, <1>2 DEF At
  <2> QED
    BY <1>2, <2>1, HandlerIsIdle DEF Closing, Closed
<1>6. ASSUME NEW p \in Queues, Void(p)'
      PROVE  Void(p) \/ (p = q /\ a = Control /\ pc = "leave")
  <2>1. CASE a # Control
    BY <1>1, <1>6, <2>1 DEF Void, ctl
  <2>2. CASE a = Control
    BY <1>1, <1>6, <2>2 DEF Void, ctl, FlushChecked, Away, Building, Starting, Gone
  <2> QED
    BY <2>1, <2>2
<1>7. Closing'
  <2>1. ASSUME NEW p \in Queues, Closed(p)' PROVE Closed(p)
    <3>1. CASE Void(p)'
      BY <1>2, <1>5, <1>6, <3>1 DEF Closed
    <3>2. CASE \E f \in Flushers : At(f, p, Flushing)'
      BY <1>3, <3>2 DEF Closed
    <3> QED
      BY <2>1, <3>1, <3>2 DEF Closed
  <2>2. agent'[Quiesce].pc = "await" => agent'[Quiesce] = agent[Quiesce]
    BY <1>1 DEF FlushChecked
  <2> QED
    BY <1>1, <1>4, <2>1, <2>2 DEF Closing
<1>8. Pulled'
  BY <1>1 DEF Pulled, FlushChecked
<1>9. \A b \in Agents : agent'[b].q = agent[b].q
  BY <1>1
<1> QED
  BY <1>1, <1>2, <1>3, <1>4, <1>5, <1>6, <1>7, <1>8, <1>9

(* The flushers stay apart.                                                *)
LEMMA InnerApart ==
  ASSUME IoInv, CmdInv, NEW a \in Agents, NEW q, NEW pc, InnerStep(a, q, pc),
         \A b \in Agents \ {a} : InCq(b)' = InCq(b) /\ InList(b)' = InList(b),
         PastCq(a)' =>
           \/ PastCq(a)
           \/ /\ posted \cap On(q) = {}
              /\ \A f \in Flushers \ {a} :
                   agent[f].q = q => ~(agent[f].pc = "complete" /\ InCq(f)),
         agent'[a].pc = "complete" /\ InCq(a)' =>
           \A g \in Flushers \ {a} : ~(agent[g].q = q /\ PastCq(g))
  PROVE  Apart'
<1> USE AgentsAre DEF CmdInv
<1>1. /\ agent'[a].pc = pc /\ agent'[a].q = q /\ agent[a].q = q
      /\ \A b \in Agents \ {a} : agent'[b] = agent[b]
      /\ \A b \in Agents : agent'[b].q = agent[b].q
      /\ \A p : On(p)' = On(p)
      /\ posted' \subseteq posted
  BY InnerKeeps DEF InnerStep
<1>2. ASSUME NEW b \in Agents \ {a} PROVE PastCq(b)' = PastCq(b)
  BY <1>1 DEF PastCq
<1>3. ASSUME NEW f \in Flushers, NEW g \in Flushers, NEW p \in Queues, f # g,
             At(f, p, Flushing)'
      PROVE  /\ ~At(g, p, {"disable", "sync"})'
             /\ agent'[g].q = p /\ PastCq(g)' =>
                  /\ posted' \cap On(p)' = {}
                  /\ ~(agent'[f].pc = "complete" /\ InCq(f)')
  <2>1. At(f, p, Flushing) /\ agent[f].q = p
    BY <1>3, InnerKeeps DEF At
  <2>2. ~At(g, p, {"disable", "sync"})'
    BY <1>3, <2>1, InnerKeeps DEF Apart
  <2>3. ASSUME agent'[g].q = p, PastCq(g)'
        PROVE  posted' \cap On(p)' = {} /\ ~(agent'[f].pc = "complete" /\ InCq(f)')
    <3>1. agent[g].q = p
      BY <1>1, <2>3
    <3>2. CASE g = a
      <4>1. p = q /\ f \in Agents \ {a} /\ agent'[f] = agent[f] /\ InCq(f)' = InCq(f)
        BY <1>1, <1>3, <3>1, <3>2
      <4>2. posted \cap On(q) = {} /\ ~(agent[f].pc = "complete" /\ InCq(f))
        <5>1. CASE PastCq(a)
          BY <1>3, <2>1, <3>1, <3>2, <4>1, <5>1 DEF Apart
        <5>2. CASE ~PastCq(a)
          BY <1>3, <2>1, <2>3, <3>2, <4>1, <5>2
        <5> QED
          BY <5>1, <5>2
      <4> QED
        BY <1>1, <4>1, <4>2
    <3>3. CASE g # a
      <4>1. PastCq(g)
        BY <1>2, <2>3, <3>3
      <4>2. posted \cap On(p) = {} /\ ~(agent[f].pc = "complete" /\ InCq(f))
        BY <1>3, <2>1, <3>1, <4>1 DEF Apart
      <4>3. ~(agent'[f].pc = "complete" /\ InCq(f)')
        <5>1. CASE f = a
          BY <1>1, <2>1, <3>1, <3>3, <4>1, <5>1
        <5>2. CASE f # a
          BY <1>1, <4>2, <5>2
        <5> QED
          BY <5>1, <5>2
      <4> QED
        BY <1>1, <4>2, <4>3
    <3> QED
      BY <3>2, <3>3
  <2> QED
    BY <2>2, <2>3
<1> QED
  BY <1>3 DEF Apart

(* The completion queue's lock.                                            *)
LEMMA LockCqCmd == ASSUME IoInv, CmdInv, NEW a \in Agents, LockCq(a) PROVE CmdInv'
<1> USE AgentsAre DEF CmdInv
<1>0. /\ IoType /\ {"cq"} \subseteq HandlerPcs \cup ControlPcs \cup QuiescePcs
      /\ agent[a].pc = "lockCq"
  BY DEF IoInv, HandlerPcs, LockCq
<1>1. PICK q : agent[a].q = q
  OBVIOUS
<1>2. InnerStep(a, q, "cq")
  BY <1>0, <1>1, GoesMoves
  DEF LockCq, InnerStep, FlushChecked, queueVars, ctrlrVars, hwVars, cmdVars
<1>3. /\ q \in Queues /\ agent'[a].pc = "cq" /\ agent'[a].q = q
      /\ \A b \in Agents \ {a} : agent'[b] = agent[b]
      /\ \A b \in Agents : agent'[b].q = agent[b].q
      /\ \A p : On(p)' = On(p)
      /\ \A p \in Queues : Void(p)' => Void(p)
      /\ Closing' /\ Pulled'
  BY <1>2, InnerKeeps
<1>4. /\ cqLock[q] = None /\ cqLock' = [cqLock EXCEPT ![q] = a] /\ listLock' = listLock
      /\ UNCHANGED <<sub, posted, executing, outstanding, completed>>
  BY <1>1 DEF LockCq, hwVars, cmdVars
<1>5. \A b \in Agents \ {a} : InCq(b)' = InCq(b) /\ InList(b)' = InList(b)
  BY <1>3, <1>4 DEF InCq, InList
<1>6. ~InList(a)' /\ ~PastCq(a)' /\ ~InCq(a) /\ ~InList(a)
  BY <1>0, <1>3 DEF InList, PastCq, InCq
<1>7. CmdType' /\ Accepted'
  BY <1>4 DEF CmdType, Accepted
<1>8. Locks'
  <2>1. ASSUME NEW b \in Agents, InCq(b)' PROVE cqLock'[agent'[b].q] = b
    <3>1. CASE b = a
      BY <1>3, <1>4, <3>1 DEF CmdType
    <3>2. CASE b # a
      <4>1. cqLock[agent[b].q] = b /\ agent[b].q # q
        BY <1>4, <1>5, <2>1, <3>2 DEF Locks
      <4> QED
        BY <1>3, <1>4, <4>1 DEF CmdType
    <3> QED
      BY <3>1, <3>2
  <2>2. ASSUME NEW f \in Flushers, agent'[f].pc = "loop" PROVE listLock'[agent'[f].q] = f
    BY <1>3, <1>4, <2>2 DEF Locks
  <2>3. ASSUME NEW p \in Queues, listLock'[p] # None
        PROVE  At(listLock[p], p, {"loop", "complete"})'
    <3>1. listLock[p] \in Agents /\ At(listLock[p], p, {"loop", "complete"})
      BY <1>4, <2>3 DEF Locks, IoInv, IoType
    <3>2. listLock[p] # a
      BY <1>0, <3>1 DEF At
    <3> QED
      BY <1>3, <1>4, <3>1, <3>2 DEF At
  <2> QED
    BY <2>1, <2>2, <2>3 DEF Locks
<1>9. Emptied'
  <2>1. InList(Control)' => InList(Control) /\ ctl' = ctl
    BY <1>3, <1>5, <1>6 DEF ctl
  <2> QED
    BY <1>3, <1>4, <2>1 DEF Emptied
<1>10. Apart'
  BY <1>2, <1>3, <1>5, <1>6, InnerApart
<1>11. Completing'
  <2>1. ASSUME NEW b \in Agents, agent'[b].pc = "complete"
        PROVE  b # a /\ agent[b].pc = "complete" /\ agent'[b] = agent[b]
    BY <1>3, <2>1
  <2> QED
    BY <1>3, <1>4, <2>1 DEF Completing
<1> QED
  BY <1>3, <1>7, <1>8, <1>9, <1>10, <1>11

LEMMA UnlockCqCmd == ASSUME IoInv, CmdInv, NEW a \in Agents, UnlockCq(a) PROVE CmdInv'
<1> USE AgentsAre DEF CmdInv
<1> DEFINE pc == IF a \in Flushers THEN "lockList" ELSE "idle"
<1>0. IoType /\ agent[a].pc = "cq" /\ pc \in HandlerPcs \cup ControlPcs \cup QuiescePcs
  BY DEF IoInv, UnlockCq, HandlerPcs, ControlPcs, Deleting, Flushing
<1>1. PICK q : agent[a].q = q
  OBVIOUS
<1>2. InnerStep(a, q, pc)
  BY <1>0, <1>1, GoesMoves
  DEF UnlockCq, InnerStep, FlushChecked, queueVars, ctrlrVars, hwVars, cmdVars
<1>3. /\ q \in Queues /\ agent'[a].pc = pc /\ agent'[a].q = q
      /\ \A b \in Agents \ {a} : agent'[b] = agent[b]
      /\ \A b \in Agents : agent'[b].q = agent[b].q
      /\ \A p : On(p)' = On(p)
      /\ \A p \in Queues : Void(p)' => Void(p)
      /\ Closing' /\ Pulled'
  BY <1>2, InnerKeeps
<1>4. /\ posted \cap On(q) = {} /\ cqLock' = [cqLock EXCEPT ![q] = None] /\ listLock' = listLock
      /\ UNCHANGED <<sub, posted, executing, outstanding, completed>>
  BY <1>1 DEF UnlockCq, hwVars, cmdVars
<1>5. \A b \in Agents \ {a} : InCq(b)' = InCq(b) /\ InList(b)' = InList(b)
  BY <1>3, <1>4 DEF InCq, InList
<1>6. InCq(a) /\ ~InCq(a)' /\ ~InList(a)' /\ ~InList(a) /\ cqLock[q] = a
  BY <1>0, <1>1, <1>3 DEF InList, InCq, Locks
<1>7. CmdType' /\ Accepted'
  BY <1>4 DEF CmdType, Accepted
<1>8. ASSUME NEW b \in Agents \ {a}, agent[b].q = q PROVE ~InCq(b)
  BY <1>6, <1>8 DEF Locks
<1>9. Locks'
  <2>1. ASSUME NEW b \in Agents, InCq(b)' PROVE cqLock'[agent'[b].q] = b
    <3>1. b # a /\ cqLock[agent[b].q] = b /\ agent[b].q # q
      BY <1>5, <1>6, <1>8, <2>1 DEF Locks
    <3> QED
      BY <1>3, <1>4, <3>1 DEF CmdType
  <2>2. ASSUME NEW f \in Flushers, agent'[f].pc = "loop" PROVE listLock'[agent'[f].q] = f
    BY <1>3, <1>4, <2>2 DEF Locks
  <2>3. ASSUME NEW p \in Queues, listLock'[p] # None
        PROVE  At(listLock[p], p, {"loop", "complete"})'
    <3>1. listLock[p] \in Agents /\ At(listLock[p], p, {"loop", "complete"})
      BY <1>4, <2>3 DEF Locks, IoInv, IoType
    <3>2. listLock[p] # a
      BY <1>0, <3>1 DEF At
    <3> QED
      BY <1>3, <1>4, <3>1, <3>2 DEF At
  <2> QED
    BY <2>1, <2>2, <2>3 DEF Locks
<1>10. Emptied'
  <2>1. InList(Control)' => InList(Control) /\ ctl' = ctl
    BY <1>3, <1>5, <1>6 DEF ctl
  <2> QED
    BY <1>3, <1>4, <2>1 DEF Emptied
<1>11. Apart'
  BY <1>2, <1>3, <1>4, <1>5, <1>6, <1>8, InnerApart
<1>12. Completing'
  <2>1. ASSUME NEW b \in Agents, agent'[b].pc = "complete"
        PROVE  b # a /\ agent[b].pc = "complete" /\ agent'[b] = agent[b]
    BY <1>3, <2>1
  <2> QED
    BY <1>3, <1>4, <2>1 DEF Completing
<1> QED
  BY <1>3, <1>7, <1>9, <1>10, <1>11, <1>12

(* An entry is taken whose command nobody else is completing.              *)
LEMMA TakeEntryCmd ==
  ASSUME IoInv, CmdInv, NEW a \in Agents, NEW c \in Cmds, TakeEntry(a, c) PROVE CmdInv'
<1> USE AgentsAre DEF CmdInv
<1> DEFINE pc == IF c \in outstanding THEN "complete" ELSE "cq"
<1>0. IoType /\ agent[a].pc = "cq" /\ agent \in [Agents -> Agent]
  BY DEF IoInv, IoType, TakeEntry
<1>1. PICK q : agent[a].q = q
  OBVIOUS
<1>2. /\ AgentMoves(a, pc, q)
      /\ c \in outstanding => agent'[a].cmd = c
      /\ c \notin outstanding => agent' = agent
  <2>1. CASE c \in outstanding
    <3>1. CmdGoes(a, "complete", c) /\ c \in Int
      BY <2>1, NumCmdsAssumption DEF TakeEntry, Cmds, CmdGoes
    <3> QED
      BY <1>0, <1>1, <2>1, <3>1, CmdMoves, CmdIs DEF HandlerPcs
  <2>2. CASE c \notin outstanding
    BY <1>0, <1>1, <2>2 DEF TakeEntry, AgentMoves
  <2> QED
    BY <2>1, <2>2
<1>3. /\ c \in posted /\ c \in On(q) /\ posted' = posted \ {c}
      /\ UNCHANGED <<state, isRemoved, sub, executing, outstanding, completed, cqLock, listLock>>
  BY <1>1 DEF TakeEntry, queueVars, ctrlrVars, cmdVars, lockVars
<1>4. InnerStep(a, q, pc)
  BY <1>0, <1>1, <1>2, <1>3 DEF InnerStep, FlushChecked
<1>5. /\ q \in Queues /\ agent'[a].pc = pc /\ agent'[a].q = q
      /\ \A b \in Agents \ {a} : agent'[b] = agent[b]
      /\ \A b \in Agents : agent'[b].q = agent[b].q
      /\ \A p : On(p)' = On(p)
      /\ \A p \in Queues : Void(p)' => Void(p)
      /\ a \in Flushers => At(a, q, Flushing) /\ agent[q].pc = "idle"
      /\ a \notin Flushers => a = q
      /\ Closing' /\ Pulled'
  BY <1>4, InnerKeeps
<1>6. InCq(a) /\ cqLock[q] = a /\ listLock[q] # a
  BY <1>0, <1>1, <1>5 DEF InCq, Locks, At
<1>7. InCq(a)' /\ ~InList(a)' /\ ~InList(a) /\ ~PastCq(a)'
  BY <1>0, <1>1, <1>3, <1>5, <1>6 DEF InCq, InList, PastCq
<1>8. \A b \in Agents \ {a} : InCq(b)' = InCq(b) /\ InList(b)' = InList(b)
  BY <1>3, <1>5 DEF InCq, InList
<1>9. ASSUME NEW b \in Agents \ {a}, agent[b].q = q
      PROVE  ~InCq(b) /\ (b \in Flushers => ~PastCq(b) \/ a \notin Flushers)
  <2>1. ~InCq(b)
    BY <1>6, <1>9 DEF Locks
  <2>2. ASSUME b \in Flushers, a \in Flushers, PastCq(b) PROVE FALSE
    BY <1>3, <1>5, <1>9, <2>2 DEF Apart
  <2> QED
    BY <2>1, <2>2
<1>10. CmdType' /\ Accepted'
  BY <1>3 DEF CmdType, Accepted
<1>11. Locks'
  <2>1. ASSUME NEW b \in Agents, InCq(b)' PROVE cqLock'[agent'[b].q] = b
    BY <1>1, <1>3, <1>5, <1>6, <1>8, <2>1 DEF Locks
  <2>2. ASSUME NEW f \in Flushers, agent'[f].pc = "loop" PROVE listLock'[agent'[f].q] = f
    BY <1>3, <1>5, <2>2 DEF Locks
  <2>3. ASSUME NEW p \in Queues, listLock'[p] # None
        PROVE  At(listLock[p], p, {"loop", "complete"})'
    <3>1. listLock[p] \in Agents /\ At(listLock[p], p, {"loop", "complete"})
      BY <1>3, <2>3 DEF Locks, IoInv, IoType
    <3>2. listLock[p] # a
      BY <1>0, <3>1 DEF At
    <3> QED
      BY <1>3, <1>5, <3>1, <3>2 DEF At
  <2> QED
    BY <2>1, <2>2, <2>3 DEF Locks
<1>12. Emptied'
  <2>1. InList(Control)' => InList(Control) /\ ctl' = ctl
    BY <1>5, <1>7, <1>8 DEF ctl
  <2> QED
    BY <1>3, <1>5, <2>1 DEF Emptied
<1>13. Apart'
  <2>1. ASSUME NEW g \in Flushers \ {a}, a \in Flushers PROVE ~(agent[g].q = q /\ PastCq(g))
    BY <1>9, <2>1
  <2>2. a \notin Flushers => \A g \in Flushers : ~(agent[g].q = q /\ PastCq(g))
    <3>1. ASSUME NEW g \in Flushers, agent[g].q = q, PastCq(g) PROVE agent[q].pc = "idle"
      BY <1>5, <3>1, HandlerIsIdle DEF PastCq, InList, At, Flushing
    <3> QED
      BY <1>0, <1>5, <3>1
  <2> QED
    BY <1>4, <1>7, <1>8, <2>1, <2>2, InnerApart
<1>14. Completing'
  <2>1. ASSUME NEW b \in Agents \ {a}, agent[b].pc = "complete", agent[b].cmd = c PROVE FALSE
    <3>1. agent[b].q = q
      BY <1>3, <1>5, <2>1 DEF Completing, On
    <3>2. InList(b) /\ b \in Flushers
      <4>1. listLock[q] = b
        BY <1>9, <2>1, <3>1 DEF InCq
      <4>2. b \in Flushers
        BY <1>5, <4>1 DEF IoInv, IoType
      <4> QED
        BY <2>1, <3>1, <4>1, <4>2 DEF InList
    <3>3. PastCq(b) /\ At(b, q, Flushing)
      BY <2>1, <3>1, <3>2 DEF PastCq, At, Flushing
    <3>4. agent[q].pc = "idle"
      BY <1>5, <3>2, <3>3, HandlerIsIdle
    <3>5. a \in Flushers
      BY <1>0, <1>5, <3>4
    <3> QED
      BY <1>9, <3>1, <3>2, <3>3, <3>5
  <2>2. c \in outstanding => sub[c].ok
    BY <1>3 DEF Accepted
  <2>3. ASSUME NEW b \in Agents, agent'[b].pc = "complete"
        PROVE  /\ agent'[b].cmd \in outstanding \cap On(agent[b].q)
               /\ sub[agent'[b].cmd].ok
               /\ \A d \in Agents \ {b} :
                    agent'[d].pc = "complete" => agent'[d].cmd # agent'[b].cmd
    <3>1. CASE b = a
      <4>1. c \in outstanding /\ agent'[a].cmd = c
        BY <1>2, <1>5, <2>3, <3>1
      <4> QED
        BY <1>1, <1>3, <1>5, <2>1, <2>2, <3>1, <4>1
    <3>2. CASE b # a
      <4>1. agent[b].pc = "complete" /\ agent'[b] = agent[b]
        BY <1>5, <2>3, <3>2
      <4>2. agent'[a].pc = "complete" => agent'[a].cmd = c
        BY <1>2, <1>5
      <4> QED
        BY <1>5, <2>1, <3>2, <4>1, <4>2 DEF Completing
    <3> QED
      BY <3>1, <3>2
  <2> QED
    BY <1>3, <1>5, <2>3 DEF Completing
<1> QED
  BY <1>5, <1>10, <1>11, <1>12, <1>13, <1>14

(* The completion: nobody else has the slot, so it is the first.           *)
LEMMA CompleteCmd == ASSUME IoInv, CmdInv, NEW a \in Agents, Complete(a) PROVE CmdInv'
<1> USE AgentsAre DEF CmdInv
<1>0. IoType /\ agent[a].pc = "complete" /\ agent[a] \in Agent
  BY DEF IoInv, IoType, Complete
<1>1. PICK q : agent[a].q = q
  OBVIOUS
<1> DEFINE c == agent[a].cmd
           inFlush == listLock[q] = a
           pc == IF inFlush THEN "loop" ELSE "cq"
<1>2. /\ c \in outstanding /\ c \in On(q) /\ c \in Cmds /\ sub[c].ok
      /\ \A b \in Agents \ {a} : agent[b].pc = "complete" => agent[b].cmd # c
  BY <1>0, <1>1 DEF Completing, On
<1>3. AgentMoves(a, pc, q) /\ (inFlush => agent'[a].cmd = c + 1)
  <2>1. CASE inFlush
    <3>1. CmdGoes(a, "loop", c + 1) /\ c + 1 \in Int
      BY <1>0, <1>1, <2>1 DEF Complete, CmdGoes, Agent
    <3>2. "loop" \in HandlerPcs \cup ControlPcs \cup QuiescePcs
      BY DEF QuiescePcs, QuiesceWorks, FlushInside, FlushUses
    <3> QED
      BY <1>0, <1>1, <2>1, <3>1, <3>2, CmdMoves, CmdIs
  <2>2. CASE ~inFlush
    <3>1. CmdGoes(a, "cq", 0) /\ "cq" \in HandlerPcs
      BY <1>1, <2>2 DEF Complete, CmdGoes, HandlerPcs
    <3> QED
      BY <1>0, <1>1, <2>2, <3>1, CmdMoves
  <2> QED
    BY <2>1, <2>2
<1>4. /\ outstanding' = outstanding \ {c} /\ completed' = [completed EXCEPT ![c] = @ + 1]
      /\ UNCHANGED <<state, isRemoved, sub, executing, posted, cqLock, listLock>>
  BY DEF Complete, queueVars, ctrlrVars, hwVars, lockVars
<1>5. InnerStep(a, q, pc)
  BY <1>0, <1>1, <1>3, <1>4 DEF InnerStep, FlushChecked
<1>6. /\ q \in Queues /\ agent'[a].pc = pc /\ agent'[a].q = q
      /\ \A b \in Agents \ {a} : agent'[b] = agent[b]
      /\ \A b \in Agents : agent'[b].q = agent[b].q
      /\ \A p : On(p)' = On(p)
      /\ \A p \in Queues : Void(p)' => Void(p)
      /\ Closing' /\ Pulled'
  BY <1>5, InnerKeeps
<1>7. \A b \in Agents \ {a} : InCq(b)' = InCq(b) /\ InList(b)' = InList(b)
  BY <1>4, <1>6 DEF InCq, InList
<1>8. InCq(a)' = InCq(a) /\ InList(a)' = InList(a) /\ (InList(a) <=> inFlush)
  BY <1>0, <1>1, <1>4, <1>6 DEF InCq, InList
<1>9. completed[c] = 0 /\ completed \in [Cmds -> Int]
  BY <1>2 DEF Accepted, CmdType
<1>10. CmdType' /\ Accepted'
  <2>1. CmdType'
    BY <1>2, <1>4, <1>9 DEF CmdType
  <2>2. ASSUME NEW d \in Cmds
        PROVE  /\ sub'[d].ok => sub'[d].pc \in {"leave", "returned"}
               /\ d \in posted' \cup executing' => sub'[d].ok
               /\ d \in outstanding' => sub'[d].ok \/ sub'[d].pc \in {"issue", "ring", "put"}
               /\ sub'[d].pc \in {"issue", "ring", "put"} => d \in outstanding'
               /\ completed'[d] = IF sub'[d].ok /\ d \notin outstanding' THEN 1 ELSE 0
    <3>1. CASE d = c
      <4>1. completed'[c] = 1 /\ c \notin outstanding'
        BY <1>2, <1>4, <1>9
      <4> QED
        BY <1>2, <1>4, <3>1, <4>1 DEF Accepted
    <3>2. CASE d # c
      <4>1. completed'[d] = completed[d] /\ (d \in outstanding' <=> d \in outstanding)
        BY <1>2, <1>4, <1>9, <3>2
      <4> QED
        BY <1>4, <4>1 DEF Accepted
    <3> QED
      BY <3>1, <3>2
  <2> QED
    BY <2>1, <2>2 DEF Accepted
<1>11. Locks'
  <2>1. ASSUME NEW b \in Agents, InCq(b)' PROVE cqLock'[agent'[b].q] = b
    BY <1>4, <1>6, <1>7, <1>8, <2>1 DEF Locks
  <2>2. ASSUME NEW f \in Flushers, agent'[f].pc = "loop" PROVE listLock'[agent'[f].q] = f
    BY <1>1, <1>4, <1>6, <2>2 DEF Locks
  <2>3. ASSUME NEW p \in Queues, listLock'[p] # None
        PROVE  At(listLock[p], p, {"loop", "complete"})'
    <3>1. listLock[p] \in Agents /\ At(listLock[p], p, {"loop", "complete"})
      BY <1>4, <2>3 DEF Locks, IoInv, IoType
    <3> QED
      BY <1>1, <1>4, <1>6, <3>1 DEF At
  <2> QED
    BY <2>1, <2>2, <2>3 DEF Locks
<1>12. Emptied'
  <2>1. \A p \in Queues : Void(p)' => On(p)' \cap outstanding' = {}
    BY <1>4, <1>6 DEF Emptied
  <2>2. ASSUME InList(Control)' PROVE \A d \in (On(ctl.q) \cap outstanding)' : d >= ctl'.cmd
    <3>1. PICK p : p = ctl.q
      OBVIOUS
    <3>2. InList(Control) /\ \A d \in On(p) \cap outstanding : d >= ctl.cmd
      BY <1>7, <1>8, <2>2, <3>1 DEF Emptied
    <3>3. On(ctl.q)' = On(p)
      BY <1>6, <3>1 DEF ctl
    <3>4. CASE a = Control
      <4>1. ctl'.cmd = c + 1 /\ ctl.cmd = c
        BY <1>3, <1>8, <3>2, <3>4 DEF ctl
      <4>2. ASSUME NEW d \in On(p) \cap outstanding, d # c PROVE d >= c + 1
        BY <1>2, <3>2, <4>1, <4>2, NumCmdsAssumption DEF On, Cmds
      <4> QED
        BY <1>4, <3>3, <4>1, <4>2
    <3>5. CASE a # Control
      BY <1>4, <1>6, <3>2, <3>3, <3>5 DEF ctl
    <3> QED
      BY <3>4, <3>5
  <2> QED
    BY <2>1, <2>2 DEF Emptied
<1>13. Apart'
  <2>1. PastCq(a)' => PastCq(a)
    BY <1>6, <1>8 DEF PastCq
  <2> QED
    BY <1>5, <1>6, <1>7, <2>1, InnerApart
<1>14. Completing'
  <2>1. ASSUME NEW b \in Agents, agent'[b].pc = "complete"
        PROVE  b # a /\ agent[b].pc = "complete" /\ agent'[b] = agent[b] /\ agent[b].cmd # c
    BY <1>2, <1>6, <2>1
  <2> QED
    BY <1>4, <1>6, <2>1 DEF Completing
<1> QED
  BY <1>6, <1>10, <1>11, <1>12, <1>13, <1>14

(* The command list's lock, and the loop over its slots.                   *)
LEMMA LockListCmd == ASSUME IoInv, CmdInv, NEW f \in Flushers, LockList(f) PROVE CmdInv'
<1> USE AgentsAre DEF CmdInv
<1>0. IoType /\ agent[f].pc = "lockList"
  BY DEF IoInv, LockList
<1>1. PICK q : agent[f].q = q
  OBVIOUS
<1>2. AgentMoves(f, "loop", q) /\ agent'[f].cmd = 1
  <2>1. CmdGoes(f, "loop", 1) /\ "loop" \in HandlerPcs \cup ControlPcs \cup QuiescePcs
    BY DEF LockList, CmdGoes, QuiescePcs, QuiesceWorks, FlushInside, FlushUses
  <2> QED
    BY <1>0, <1>1, <2>1, CmdMoves, CmdIs
<1>3. InnerStep(f, q, "loop")
  BY <1>0, <1>1, <1>2
  DEF LockList, InnerStep, FlushChecked, queueVars, ctrlrVars, hwVars, cmdVars
<1>4. /\ q \in Queues /\ agent'[f].pc = "loop" /\ agent'[f].q = q
      /\ \A b \in Agents \ {f} : agent'[b] = agent[b]
      /\ \A b \in Agents : agent'[b].q = agent[b].q
      /\ \A p : On(p)' = On(p)
      /\ \A p \in Queues : Void(p)' => Void(p)
      /\ Closing' /\ Pulled'
  BY <1>3, InnerKeeps
<1>5. /\ listLock[q] = None /\ listLock'[q] = f
      /\ \A p \in Queues \ {q} : listLock'[p] = listLock[p]
      /\ UNCHANGED <<sub, posted, executing, outstanding, completed, cqLock>>
  BY <1>0, <1>1, <1>4 DEF LockList, hwVars, cmdVars, IoType
<1>6. ASSUME NEW b \in Agents \ {f}
      PROVE  /\ InCq(b)' = InCq(b) /\ InList(b)' = InList(b)
             /\ agent[b].pc = "loop" /\ b \in Flushers => agent[b].q # q
  <2>1. agent[b].pc \in FlushChecked => agent[b].q \in Queues
    BY DEF IoInv, IoType, FlushChecked, QuiesceWorks, FlushInside, FlushUses, Between, Agents, ctl,
           Flushers
  <2>2. agent[b].pc = "complete" => (listLock'[agent[b].q] = b <=> listLock[agent[b].q] = b)
    BY <1>5, <2>1 DEF FlushChecked
  <2>3. agent[b].pc = "loop" /\ b \in Flushers => agent[b].q # q
    BY <1>5 DEF Locks
  <2> QED
    BY <1>4, <2>2, <2>3 DEF InCq, InList
<1>7. ~InCq(f)' /\ InList(f)' /\ PastCq(f) /\ ~InList(f)
  BY <1>0, <1>4 DEF InCq, InList, PastCq
<1>8. CmdType' /\ Accepted'
  BY <1>5 DEF CmdType, Accepted
<1>9. Locks'
  <2>1. ASSUME NEW b \in Agents, InCq(b)' PROVE cqLock'[agent'[b].q] = b
    BY <1>4, <1>5, <1>6, <1>7, <2>1 DEF Locks
  <2>2. ASSUME NEW g \in Flushers, agent'[g].pc = "loop" PROVE listLock'[agent'[g].q] = g
    <3>1. CASE g = f
      BY <1>4, <1>5, <3>1
    <3>2. CASE g # f
      <4>1. agent'[g] = agent[g] /\ agent[g].q # q /\ agent[g].q \in Queues
        BY <1>4, <1>6, <2>2, <3>2
        DEF IoInv, IoType, QuiesceWorks, FlushInside, FlushUses, Between, Flushers, ctl
      <4> QED
        BY <1>5, <2>2, <4>1 DEF Locks
    <3> QED
      BY <3>1, <3>2
  <2>3. ASSUME NEW p \in Queues, listLock'[p] # None
        PROVE  At(listLock[p], p, {"loop", "complete"})'
    <3>1. CASE p = q
      BY <1>4, <1>5, <3>1 DEF At
    <3>2. CASE p # q
      <4>1. listLock[p] \in Agents /\ At(listLock[p], p, {"loop", "complete"})
        BY <1>5, <2>3, <3>2 DEF Locks, IoInv, IoType
      <4>2. listLock[p] # f
        BY <1>0, <4>1 DEF At
      <4> QED
        BY <1>4, <1>5, <3>2, <4>1, <4>2 DEF At
    <3> QED
      BY <3>1, <3>2
  <2> QED
    BY <2>1, <2>2, <2>3 DEF Locks
<1>10. Emptied'
  <2>1. \A p \in Queues : Void(p)' => On(p)' \cap outstanding' = {}
    BY <1>4, <1>5 DEF Emptied
  <2>2. ASSUME InList(Control)' PROVE \A d \in (On(ctl.q) \cap outstanding)' : d >= ctl'.cmd
    <3>1. CASE f = Control
      <4>1. ctl'.cmd = 1
        BY <1>2, <3>1 DEF ctl
      <4>2. \A d \in Cmds : d >= 1
        BY NumCmdsAssumption DEF Cmds
      <4>3. On(ctl.q)' \subseteq Cmds
        BY DEF On
      <4> QED
        BY <4>1, <4>2, <4>3
    <3>2. CASE f # Control
      <4>1. PICK p : p = ctl.q
        OBVIOUS
      <4>2. ctl' = ctl /\ On(ctl.q)' = On(p) /\ InList(Control)
        BY <1>4, <1>6, <2>2, <3>2, <4>1 DEF ctl
      <4> QED
        BY <1>5, <4>1, <4>2 DEF Emptied
    <3> QED
      BY <3>1, <3>2
  <2> QED
    BY <2>1, <2>2 DEF Emptied
<1>11. Apart'
  BY <1>3, <1>4, <1>6, <1>7, InnerApart
<1>12. Completing'
  <2>1. ASSUME NEW b \in Agents, agent'[b].pc = "complete"
        PROVE  b # f /\ agent[b].pc = "complete" /\ agent'[b] = agent[b]
    BY <1>4, <2>1
  <2> QED
    BY <1>4, <1>5, <2>1 DEF Completing
<1> QED
  BY <1>4, <1>8, <1>9, <1>10, <1>11, <1>12

LEMMA FlushSlotCmd == ASSUME IoInv, CmdInv, NEW f \in Flushers, FlushSlot(f) PROVE CmdInv'
<1> USE AgentsAre DEF CmdInv
<1>0. IoType /\ agent[f].pc = "loop" /\ agent[f] \in Agent
  BY DEF IoInv, IoType, FlushSlot
<1>1. PICK q : agent[f].q = q
  OBVIOUS
<1> DEFINE c == agent[f].cmd
           active == c \in outstanding \cap On(q)
           pc == IF active THEN "complete" ELSE "loop"
<1>2. AgentMoves(f, pc, q) /\ agent'[f].cmd = IF active THEN c ELSE c + 1
  <2>1. CASE active
    <3>1. Goes(f, "complete")
      BY <1>1, <2>1 DEF FlushSlot, Goes
    <3> QED
      BY <1>0, <1>1, <2>1, <3>1, GoesMoves DEF HandlerPcs
  <2>2. CASE ~active
    <3>1. agent' = [agent EXCEPT ![f].cmd = c + 1] /\ c + 1 \in Int
      BY <1>0, <1>1, <2>2 DEF FlushSlot, Agent
    <3>2. CmdGoes(f, "loop", c + 1)
      BY <1>0, <3>1 DEF CmdGoes, IoType, Agent
    <3>3. "loop" \in HandlerPcs \cup ControlPcs \cup QuiescePcs
      BY DEF QuiescePcs, QuiesceWorks, FlushInside, FlushUses
    <3> QED
      BY <1>0, <1>1, <2>2, <3>1, <3>2, <3>3, CmdMoves, CmdIs
  <2> QED
    BY <2>1, <2>2
<1>3. UNCHANGED <<state, isRemoved, sub, executing, posted, outstanding, completed, cqLock, listLock>>
  BY DEF FlushSlot, queueVars, ctrlrVars, hwVars, cmdVars, lockVars
<1>4. InnerStep(f, q, pc)
  BY <1>0, <1>1, <1>2, <1>3 DEF InnerStep, FlushChecked
<1>5. /\ q \in Queues /\ agent'[f].pc = pc /\ agent'[f].q = q
      /\ \A b \in Agents \ {f} : agent'[b] = agent[b]
      /\ \A b \in Agents : agent'[b].q = agent[b].q
      /\ \A p : On(p)' = On(p)
      /\ \A p \in Queues : Void(p)' => Void(p)
      /\ At(f, q, Flushing) /\ Quiet(q) /\ agent[q].pc = "idle"
      /\ Closing' /\ Pulled'
  BY <1>4, InnerKeeps
<1>6. \A b \in Agents \ {f} : InCq(b)' = InCq(b) /\ InList(b)' = InList(b)
  BY <1>3, <1>5 DEF InCq, InList
<1>7. /\ listLock[q] = f /\ InList(f) /\ InList(f)' /\ PastCq(f)
      /\ ~InCq(f) /\ ~InCq(f)'
  BY <1>0, <1>1, <1>3, <1>5 DEF InCq, InList, PastCq, Locks
<1>8. CmdType' /\ Accepted'
  BY <1>3 DEF CmdType, Accepted
<1>9. Locks'
  <2>1. ASSUME NEW b \in Agents, InCq(b)' PROVE cqLock'[agent'[b].q] = b
    BY <1>3, <1>5, <1>6, <1>7, <2>1 DEF Locks
  <2>2. ASSUME NEW g \in Flushers, agent'[g].pc = "loop" PROVE listLock'[agent'[g].q] = g
    BY <1>1, <1>3, <1>5, <1>7, <2>2 DEF Locks
  <2>3. ASSUME NEW p \in Queues, listLock'[p] # None
        PROVE  At(listLock[p], p, {"loop", "complete"})'
    <3>1. listLock[p] \in Agents /\ At(listLock[p], p, {"loop", "complete"})
      BY <1>3, <2>3 DEF Locks, IoInv, IoType
    <3> QED
      BY <1>1, <1>3, <1>5, <3>1 DEF At
  <2> QED
    BY <2>1, <2>2, <2>3 DEF Locks
<1>10. Emptied'
  <2>1. \A p \in Queues : Void(p)' => On(p)' \cap outstanding' = {}
    BY <1>3, <1>5 DEF Emptied
  <2>2. ASSUME InList(Control)' PROVE \A d \in (On(ctl.q) \cap outstanding)' : d >= ctl'.cmd
    <3>1. PICK p : p = ctl.q
      OBVIOUS
    <3>2. InList(Control) /\ \A d \in On(p) \cap outstanding : d >= ctl.cmd
      BY <1>6, <1>7, <2>2, <3>1 DEF Emptied
    <3>3. On(ctl.q)' = On(p)
      BY <1>5, <3>1 DEF ctl
    <3>4. CASE f = Control /\ ~active
      <4>1. ctl'.cmd = c + 1 /\ ctl.cmd = c /\ c \in Int /\ p = q
        BY <1>0, <1>1, <1>2, <3>1, <3>4 DEF ctl, Agent
      <4>2. ASSUME NEW d \in On(p) \cap outstanding PROVE d >= c + 1
        <5>1. d >= c /\ d # c /\ d \in Int
          BY <3>2, <3>4, <4>1, <4>2, NumCmdsAssumption DEF On, Cmds
        <5> QED
          BY <4>1, <5>1
      <4> QED
        BY <1>3, <3>3, <4>1, <4>2
    <3>5. CASE f # Control \/ active
      <4>1. ctl'.cmd = ctl.cmd
        BY <1>2, <1>5, <3>5 DEF ctl
      <4> QED
        BY <1>3, <3>2, <3>3, <4>1
    <3> QED
      BY <3>4, <3>5
  <2> QED
    BY <2>1, <2>2 DEF Emptied
<1>11. Apart'
  BY <1>4, <1>5, <1>6, <1>7, InnerApart
<1>12. Completing'
  <2>1. ASSUME active PROVE c \in On(q) /\ c \in outstanding /\ sub[c].ok
    <3>1. sub[c].pc \notin {"issue", "ring", "put"}
      BY <1>5, <2>1 DEF Quiet, On, SubUses
    <3> QED
      BY <2>1, <3>1 DEF Accepted, On
  <2>2. ASSUME active, NEW b \in Agents \ {f}, agent[b].pc = "complete", agent[b].cmd = c
        PROVE  FALSE
    <3>1. agent[b].q = q
      BY <2>1, <2>2 DEF Completing, On
    <3>2. b \in Flushers
      BY <1>5, <2>2, <3>1 DEF IoInv, IoType, Agents
    <3>3. InCq(b) /\ At(b, q, Flushing)
      BY <1>7, <2>2, <3>1 DEF InCq, At, Flushing
    <3> QED
      BY <1>1, <1>5, <1>7, <2>2, <3>2, <3>3 DEF Apart
  <2>3. ASSUME NEW b \in Agents, agent'[b].pc = "complete"
        PROVE  /\ agent'[b].cmd \in outstanding \cap On(agent[b].q)
               /\ sub[agent'[b].cmd].ok
               /\ \A d \in Agents \ {b} :
                    agent'[d].pc = "complete" => agent'[d].cmd # agent'[b].cmd
    <3>1. CASE b = f
      <4>1. active /\ agent'[f].cmd = c
        BY <1>2, <1>5, <2>3, <3>1
      <4>2. \A d \in Agents \ {f} : agent'[d].pc = "complete" => agent'[d].cmd # c
        BY <1>5, <2>2, <4>1
      <4> QED
        BY <1>1, <2>1, <3>1, <4>1, <4>2
    <3>2. CASE b # f
      <4>1. agent[b].pc = "complete" /\ agent'[b] = agent[b]
        BY <1>5, <2>3, <3>2
      <4>2. agent'[f].pc = "complete" => active /\ agent'[f].cmd = c
        BY <1>2, <1>5
      <4>3. ASSUME NEW d \in Agents \ {b}, agent'[d].pc = "complete"
            PROVE  agent'[d].cmd # agent[b].cmd
        <5>1. CASE d = f
          BY <2>2, <3>2, <4>1, <4>2, <4>3, <5>1
        <5>2. CASE d # f
          BY <1>5, <4>1, <4>3, <5>2 DEF Completing
        <5> QED
          BY <5>1, <5>2
      <4> QED
        BY <4>1, <4>3 DEF Completing
    <3> QED
      BY <3>1, <3>2
  <2> QED
    BY <1>3, <1>5, <2>3 DEF Completing
<1> QED
  BY <1>5, <1>8, <1>9, <1>10, <1>11, <1>12

(* At the end of the loop nothing is outstanding.                          *)
LEMMA UnlockListCmd == ASSUME IoInv, CmdInv, NEW f \in Flushers, UnlockList(f) PROVE CmdInv'
<1> USE AgentsAre DEF CmdInv
<1>0. IoType /\ agent[f].pc = "loop" /\ agent[f].cmd > NumCmds /\ agent[f] \in Agent
  BY DEF IoInv, IoType, UnlockList
<1>1. PICK q : agent[f].q = q
  OBVIOUS
<1>2. AgentMoves(f, "leave", q)
  <2>1. CmdGoes(f, "leave", 0) /\ "leave" \in HandlerPcs \cup ControlPcs \cup QuiescePcs
    BY DEF UnlockList, CmdGoes, QuiescePcs, QuiesceWorks, FlushInside
  <2> QED
    BY <1>0, <1>1, <2>1, CmdMoves
<1>3. InnerStep(f, q, "leave")
  BY <1>0, <1>1, <1>2
  DEF UnlockList, InnerStep, FlushChecked, queueVars, ctrlrVars, hwVars, cmdVars
<1>4. /\ q \in Queues /\ agent'[f].pc = "leave" /\ agent'[f].q = q
      /\ \A b \in Agents \ {f} : agent'[b] = agent[b]
      /\ \A b \in Agents : agent'[b].q = agent[b].q
      /\ \A p : On(p)' = On(p)
      /\ \A p \in Queues : Void(p)' => Void(p) \/ (p = q /\ f = Control)
      /\ Closing' /\ Pulled'
  BY <1>3, InnerKeeps
<1>5. /\ listLock[q] = f /\ listLock'[q] = None
      /\ \A p \in Queues \ {q} : listLock'[p] = listLock[p]
      /\ UNCHANGED <<sub, posted, executing, outstanding, completed, cqLock>>
  BY <1>0, <1>1, <1>4 DEF UnlockList, hwVars, cmdVars, IoType, Locks
<1>6. ASSUME NEW b \in Agents \ {f}
      PROVE  /\ InCq(b)' = InCq(b) /\ InList(b)' = InList(b)
             /\ agent[b].pc = "loop" /\ b \in Flushers => agent[b].q # q
  <2>1. agent[b].pc \in FlushChecked => agent[b].q \in Queues
    BY DEF IoInv, IoType, FlushChecked, QuiesceWorks, FlushInside, FlushUses, Between, Agents, ctl,
           Flushers
  <2>2. agent[b].pc = "complete" => (listLock'[agent[b].q] = b <=> listLock[agent[b].q] = b)
    BY <1>5, <2>1 DEF FlushChecked
  <2>3. agent[b].pc = "loop" /\ b \in Flushers => agent[b].q # q
    BY <1>5 DEF Locks
  <2> QED
    BY <1>4, <2>2, <2>3 DEF InCq, InList
<1>7. ~InCq(f)' /\ ~InList(f)' /\ ~PastCq(f)' /\ InList(f)
  BY <1>0, <1>4 DEF InCq, InList, PastCq
<1>8. CmdType' /\ Accepted'
  BY <1>5 DEF CmdType, Accepted
<1>9. Locks'
  <2>1. ASSUME NEW b \in Agents, InCq(b)' PROVE cqLock'[agent'[b].q] = b
    BY <1>4, <1>5, <1>6, <1>7, <2>1 DEF Locks
  <2>2. ASSUME NEW g \in Flushers, agent'[g].pc = "loop" PROVE listLock'[agent'[g].q] = g
    <3>1. g # f
      BY <1>4, <2>2
    <3>2. agent'[g] = agent[g] /\ agent[g].q # q /\ agent[g].q \in Queues
      BY <1>4, <1>6, <2>2, <3>1
      DEF IoInv, IoType, QuiesceWorks, FlushInside, FlushUses, Between, Flushers, ctl
    <3> QED
      BY <1>5, <2>2, <3>2 DEF Locks
  <2>3. ASSUME NEW p \in Queues, listLock'[p] # None
        PROVE  At(listLock[p], p, {"loop", "complete"})'
    <3>1. p # q
      BY <1>5, <2>3
    <3>2. listLock[p] \in Agents /\ At(listLock[p], p, {"loop", "complete"})
      BY <1>5, <2>3, <3>1 DEF Locks, IoInv, IoType
    <3>3. listLock[p] # f
      BY <1>1, <3>1, <3>2 DEF At
    <3> QED
      BY <1>4, <1>5, <3>1, <3>2, <3>3 DEF At
  <2> QED
    BY <2>1, <2>2, <2>3 DEF Locks
<1>10. Emptied'
  <2>1. ASSUME f = Control PROVE On(q) \cap outstanding = {}
    <3>1. \A d \in On(q) \cap outstanding : d >= agent[f].cmd
      BY <1>1, <1>7, <2>1 DEF Emptied, ctl
    <3>2. \A d \in On(q) : d \in Int /\ d <= NumCmds
      BY NumCmdsAssumption DEF On, Cmds
    <3>3. agent[f].cmd \in Int
      BY <1>0 DEF Agent
    <3> QED
      BY <1>0, <3>1, <3>2, <3>3, NumCmdsAssumption
  <2>2. \A p \in Queues : Void(p)' => On(p)' \cap outstanding' = {}
    BY <1>4, <1>5, <2>1 DEF Emptied
  <2>3. ASSUME InList(Control)' PROVE \A d \in (On(ctl.q) \cap outstanding)' : d >= ctl'.cmd
    <3>1. PICK p : p = ctl.q
      OBVIOUS
    <3>2. f # Control
      BY <1>7, <2>3
    <3>3. ctl' = ctl /\ On(ctl.q)' = On(p) /\ InList(Control)
      BY <1>4, <1>6, <2>3, <3>1, <3>2 DEF ctl
    <3> QED
      BY <1>5, <3>1, <3>3 DEF Emptied
  <2> QED
    BY <2>2, <2>3 DEF Emptied
<1>11. Apart'
  BY <1>3, <1>4, <1>6, <1>7, InnerApart
<1>12. Completing'
  <2>1. ASSUME NEW b \in Agents, agent'[b].pc = "complete"
        PROVE  b # f /\ agent[b].pc = "complete" /\ agent'[b] = agent[b]
    BY <1>4, <2>1
  <2> QED
    BY <1>4, <1>5, <2>1 DEF Completing
<1> QED
  BY <1>4, <1>8, <1>9, <1>10, <1>11, <1>12

-----------------------------------------------------------------------------
(* The theorems.                                                           *)

LEMMA CmdInvInit == ASSUME Init PROVE CmdInv
<1> USE AgentsAre DEF Init
<1>1. CmdType /\ Accepted /\ Pulled
  BY DEF CmdType, Accepted, Pulled
<1>2. \A a \in Agents : agent[a].pc = "idle"
  OBVIOUS
<1>3. Closing
  BY <1>2 DEF Closing, Closed, Quiet, SubUses
<1>4. Locks /\ Completing
  BY <1>2 DEF Locks, InCq, Completing
<1>5. Emptied /\ Apart
  BY <1>2 DEF Emptied, InList, Apart, At, Flushing
<1> QED
  BY <1>1, <1>3, <1>4, <1>5 DEF CmdInv

LEMMA CmdInvStutter == ASSUME CmdInv, UNCHANGED vars PROVE CmdInv'
<1> USE DEF vars, queueVars, ctrlrVars, hwVars, cmdVars, lockVars, CmdInv
<1>1. ctl' = ctl
  BY DEF ctl
<1>2. CmdType' /\ Accepted' /\ Pulled'
  BY DEF CmdType, Accepted, Pulled
<1>3. \A a \in Agents : InCq(a)' = InCq(a) /\ InList(a)' = InList(a)
  BY DEF InCq, InList
<1>4. \A q : Quiet(q)' = Quiet(q) /\ Closed(q)' = Closed(q) /\ Void(q)' = Void(q) /\ On(q)' = On(q)
  BY <1>1 DEF Quiet, Closed, Void, At, On
<1>5. Closing' /\ Locks' /\ Completing'
  BY <1>3, <1>4 DEF Closing, Locks, At, Completing
<1>6. Emptied'
  BY <1>1, <1>3, <1>4, AgentsAre DEF Emptied
<1>7. Apart'
  BY <1>3, <1>4, AgentsAre DEF Apart, At, PastCq
<1> QED
  BY <1>2, <1>5, <1>6, <1>7

LEMMA CmdInvNext ==
  ASSUME IoInv, Device, CmdInv, ~CqMayFail, [Next]_vars PROVE CmdInv'
<1>1. CASE \E c \in Cmds :
             (\E q \in Queues : SubmitEnter(c, q)) \/ SubmitStep(c) \/ DeviceCompletes(c)
  BY <1>1, SubmitCmd, DeviceCmd
<1>2. CASE \E q \in Queues : Interrupt(q)
  BY <1>2, HandlerGoesCmd
<1>3. CASE \E a \in Agents : CompleteStep(a)
  BY <1>3, LockCqCmd, TakeEntryCmd, UnlockCqCmd, CompleteCmd DEF CompleteStep
<1>4. CASE \E f \in Flushers : FlushStep(f)
  BY <1>4, SuspensionCmd, LockListCmd, FlushSlotCmd, UnlockListCmd DEF FlushStep
<1>5. CASE (\E n \in Queues : BringUp(n)) \/ CreateStep \/ DeleteStep
  BY <1>5, ControlAloneCmd, AdminCommandsCmd DEF CreateStep, DeleteStep, ControlAlone
<1>6. CASE \E disabled \in BOOLEAN : TakeDown(disabled)
  BY <1>6, AdminCommandsCmd
<1>7. CASE ForgetDevice
  BY <1>7, DeviceCmd
<1>8. CASE QuiesceStart \/ QuiesceStep
  BY <1>8, QuiesceCmd
<1>9. CASE UNCHANGED vars
  BY <1>9, CmdInvStutter
<1> QED
  BY <1>1, <1>2, <1>3, <1>4, <1>5, <1>6, <1>7, <1>8, <1>9 DEF Next

(* The invariant of the commands.                                          *)
THEOREM CmdInvHolds == ASSUME ~CqMayFail, ~Overlap PROVE Spec => []CmdInv
<1>1. Init => CmdInv
  BY CmdInvInit
<1>2. IoInv /\ Device /\ CmdInv /\ [Next]_vars => CmdInv'
  BY CmdInvNext
<1> QED
  BY <1>1, <1>2, IoInvHolds, DeviceHolds, PTL DEF Spec

(* NVMEPCIEQueueDestroy leaves no command behind: the flush comes when     *)
(* nobody can submit any more, whoever else flushes the queue meanwhile.   *)
THEOREM DeletedAnsweredHolds == ASSUME ~CqMayFail, ~Overlap PROVE Spec => []DeletedAnswered
<1>1. ASSUME IoInv, CmdInv PROVE DeletedAnswered
  <2>1. ASSUME NEW c \in Cmds, sub[c].ok, state[sub[c].q] = "NON_EXIST"
        PROVE  c \notin outstanding
    <3>1. sub[c].q \in Queues
      BY <1>1, <2>1 DEF IoInv, IoType, CmdInv, Accepted
    <3>2. On(sub[c].q) \cap outstanding = {}
      BY <1>1, <2>1, <3>1 DEF CmdInv, Emptied, Void
    <3> QED
      BY <3>2 DEF On
  <2> QED
    BY <2>1 DEF DeletedAnswered
<1> QED
  BY <1>1, IoInvHolds, CmdInvHolds, PTL

(* NVMEPCIECompleteAsyncCommand is called once for every command that was  *)
(* accepted: handlers, the deletion and QuiesceDevice never complete the   *)
(* same one, and none that was refused.                                    *)
THEOREM CompletedOnceHolds == ASSUME ~CqMayFail, ~Overlap PROVE Spec => []CompletedOnce
<1>1. ASSUME CmdInv PROVE CompletedOnce
  <2>1. ASSUME NEW c \in Cmds
        PROVE  completed[c] = IF sub[c].ok /\ c \notin outstanding THEN 1 ELSE 0
    BY <1>1 DEF CmdInv, Accepted
  <2>2. ASSUME NEW c \in Cmds
        PROVE  completed[c] <= IF sub[c].pc \in {"leave", "returned"} /\ ~sub[c].ok THEN 0 ELSE 1
    BY <2>1
  <2> QED
    BY <2>1, <2>2 DEF CompletedOnce
<1> QED
  BY <1>1, CmdInvHolds, PTL
=============================================================================
