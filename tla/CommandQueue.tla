---------------------------- MODULE CommandQueue ----------------------------
(***************************************************************************)
(* What a queue pair is to its user: commands are handed to the device in  *)
(* the order they were submitted, the device executes them in any order,   *)
(* and each answer is delivered once, in the order the answers were given. *)
(* No ring, no index and no phase bit.                                     *)
(*                                                                         *)
(* This is the abstract specification that QueuePair implements.           *)
(***************************************************************************)
EXTENDS Naturals, Sequences

CONSTANTS Cmds,       (* command slots                                     *)
          Capacity    (* how many commands, or answers, can wait           *)

VARIABLES waiting,    (* submitted, not fetched by the device              *)
          rung,       (* how many of waiting the device was told of        *)
          executing,  (* fetched, not answered                             *)
          answered    (* answered, not delivered                           *)

qVars == <<waiting, rung, executing, answered>>

Elements(s) == {s[i] : i \in 1..Len(s)}
Outstanding == Elements(waiting) \cup executing \cup Elements(answered)

QInit ==
  /\ waiting = <<>>
  /\ rung = 0
  /\ executing = {}
  /\ answered = <<>>

(* ring is FALSE for the first of two fused commands.                      *)
Submit(c, ring) ==
  /\ c \notin Outstanding
  /\ Len(waiting) < Capacity
  /\ waiting' = Append(waiting, c)
  /\ rung' = IF ring THEN Len(waiting) + 1 ELSE rung
  /\ UNCHANGED <<executing, answered>>

Fetch ==
  /\ rung > 0
  /\ executing' = executing \cup {Head(waiting)}
  /\ waiting' = Tail(waiting)
  /\ rung' = rung - 1
  /\ UNCHANGED answered

Answer(c) ==
  /\ c \in executing
  /\ Len(answered) < Capacity
  /\ executing' = executing \ {c}
  /\ answered' = Append(answered, c)
  /\ UNCHANGED <<waiting, rung>>

Deliver ==
  /\ answered # <<>>
  /\ answered' = Tail(answered)
  /\ UNCHANGED <<waiting, rung, executing>>

(* The queue is stopped, flushed and started again.                        *)
Reset ==
  /\ waiting' = <<>>
  /\ rung' = 0
  /\ executing' = {}
  /\ answered' = <<>>

QNext ==
  \/ \E c \in Cmds, ring \in BOOLEAN : Submit(c, ring)
  \/ Fetch
  \/ \E c \in Cmds : Answer(c)
  \/ Deliver
  \/ Reset

QSpec == QInit /\ [][QNext]_qVars
=============================================================================
