------------------------------ MODULE CmdPool ------------------------------
(***************************************************************************)
(* What the command list of a queue promises its callers: a pool of        *)
(* command slots.  A slot is free, out (owned by one outstanding command)  *)
(* or on its way back in the hands of one thread; a caller is refused only *)
(* at an instant at which no slot is free.                                 *)
(*                                                                         *)
(* This is the abstract specification that CmdInfoList implements.         *)
(***************************************************************************)
CONSTANTS Threads,   (* the worlds and interrupt handlers using the pool   *)
          CmdIds,    (* the slots                                          *)
          NoCmd      (* "no slot"                                          *)

VARIABLES free,      (* slots nobody owns                                  *)
          out,       (* slots owned by an outstanding command              *)
          call,      (* call[t]: where thread t is in a request            *)
          back       (* back[t]: the slot thread t is giving back          *)

poolVars == <<free, out, call, back>>

PoolInit ==
  /\ free = CmdIds
  /\ out = {}
  /\ call = [t \in Threads |-> "none"]
  /\ back = [t \in Threads |-> NoCmd]

Request(t) ==
  /\ call[t] = "none"
  /\ call' = [call EXCEPT ![t] = "asked"]
  /\ UNCHANGED <<free, out, back>>

(* The request takes effect: any free slot may be handed out.              *)
Grant(t) ==
  /\ call[t] = "asked"
  /\ \E c \in free :
       /\ free' = free \ {c}
       /\ out' = out \cup {c}
  /\ call' = [call EXCEPT ![t] = "none"]
  /\ UNCHANGED back

Refuse(t) ==
  /\ call[t] = "asked"
  /\ free = {}
  /\ call' = [call EXCEPT ![t] = "refused"]
  /\ UNCHANGED <<free, out, back>>

Refused(t) ==
  /\ call[t] = "refused"
  /\ call' = [call EXCEPT ![t] = "none"]
  /\ UNCHANGED <<free, out, back>>

StartReturn(t) ==
  /\ call[t] = "none"
  /\ back[t] = NoCmd
  /\ \E c \in out :
       /\ out' = out \ {c}
       /\ back' = [back EXCEPT ![t] = c]
  /\ UNCHANGED <<free, call>>

FinishReturn(t) ==
  /\ back[t] # NoCmd
  /\ free' = free \cup {back[t]}
  /\ back' = [back EXCEPT ![t] = NoCmd]
  /\ UNCHANGED <<out, call>>

PoolNext ==
  \E t \in Threads :
    \/ Request(t) \/ Grant(t) \/ Refuse(t) \/ Refused(t)
    \/ StartReturn(t) \/ FinishReturn(t)

PoolSpec == PoolInit /\ [][PoolNext]_poolVars
=============================================================================
