-------------------------- MODULE QueuePairProofs --------------------------
(***************************************************************************)
(* Proofs about QueuePair, for every size of the rings, every set of       *)
(* command slots and every device that keeps to the protocol.              *)
(*                                                                         *)
(* The ring indices are kept in order around each ring.  On the submission *)
(* side: the head the driver knows, the heads that the entries in the      *)
(* completion ring will tell it, the device's head, its doorbell, the      *)
(* tail.  On the completion side: the doorbell, the driver's position, the *)
(* device's tail; the phases of all entries follow from the tail alone.    *)
(* A window is what lies between two indices; the commands in the two      *)
(* windows and those executing are different ones and active.              *)
(***************************************************************************)
EXTENDS QueuePair, TLAPS

Window(a, b) == {i \in Slot : Dist(a, i) < Dist(a, b)}
SubWindow == Window(dev.sqHead, sq.tail)
CompWindow == Window(CqPosition, dev.cqTail)

CqPhase == IF proc.running THEN proc.phase ELSE cq.phase
KnownHead == IF sq.pendingHead = INVALID_SQ_HEAD THEN sq.head ELSE sq.pendingHead

SubRing ==
  /\ Dist(sq.head, KnownHead) <= Dist(sq.head, dev.sqHead)
  /\ Dist(sq.head, dev.sqHead) <= Dist(sq.head, sq.doorbell)
  /\ Dist(sq.head, sq.doorbell) <= Dist(sq.head, sq.tail)

CompRing ==
  /\ cq.doorbell = cq.head
  /\ Dist(cq.head, CqPosition) <= Dist(cq.head, dev.cqTail)
  /\ CqPhase = IF CqPosition <= dev.cqTail THEN dev.phase ELSE 1 - dev.phase
  /\ \A i \in Slot : compq[i].p = IF i < dev.cqTail THEN dev.phase ELSE 1 - dev.phase

Heads ==
  /\ \A i \in CompWindow :
       /\ Dist(sq.head, KnownHead) <= Dist(sq.head, compq[i].sqhd)
       /\ Dist(sq.head, compq[i].sqhd) <= Dist(sq.head, dev.sqHead)
  /\ \A i, j \in CompWindow :
       Dist(CqPosition, i) <= Dist(CqPosition, j) =>
         Dist(sq.head, compq[i].sqhd) <= Dist(sq.head, compq[j].sqhd)

(* With nothing executing, the last head that the driver will be told is   *)
(* the device's.                                                           *)
LastHead ==
  dev.executing = {} =>
    /\ CqPosition = dev.cqTail => KnownHead = dev.sqHead
    /\ \A i \in CompWindow : Next1(i) = dev.cqTail => compq[i].sqhd = dev.sqHead

Owners ==
  /\ dev.executing \subseteq active
  /\ \A i \in SubWindow : subq[i] \in active \ dev.executing
  /\ \A i \in CompWindow : compq[i].cid \in active \ dev.executing
  /\ \A i, j \in SubWindow : subq[i] = subq[j] => i = j
  /\ \A i, j \in CompWindow : compq[i].cid = compq[j].cid => i = j
  /\ \A i \in SubWindow, j \in CompWindow : subq[i] # compq[j].cid

IInv == TypeOK /\ SubRing /\ CompRing /\ Heads /\ LastHead /\ Owners

-----------------------------------------------------------------------------
(* Rings.                                                                  *)

LEMMA NextSlot == ASSUME NEW a \in Slot PROVE Next1(a) \in Slot
BY QSizeAssumption DEF Slot, Next1

LEMMA DistRange ==
  ASSUME NEW a \in Slot, NEW b \in Slot
  PROVE  /\ Dist(a, b) \in Nat /\ Dist(a, b) < QSize
         /\ Dist(a, b) = 0 <=> a = b
BY QSizeAssumption DEF Slot, Dist

LEMMA DistInjective ==
  ASSUME NEW a \in Slot, NEW b \in Slot, NEW c \in Slot, Dist(a, b) = Dist(a, c)
  PROVE  b = c
BY QSizeAssumption DEF Slot, Dist

(* Distances from an index between.                                        *)
LEMMA DistRebase ==
  ASSUME NEW a \in Slot, NEW b \in Slot, NEW c \in Slot, Dist(a, b) <= Dist(a, c)
  PROVE  Dist(b, c) = Dist(a, c) - Dist(a, b)
BY QSizeAssumption DEF Slot, Dist

LEMMA DistNext ==
  ASSUME NEW a \in Slot, NEW b \in Slot, Next1(b) # a
  PROVE  Dist(a, Next1(b)) = Dist(a, b) + 1
BY QSizeAssumption DEF Slot, Dist, Next1

LEMMA DistFromNext ==
  ASSUME NEW a \in Slot, NEW b \in Slot, a # b
  PROVE  Dist(Next1(a), b) = Dist(a, b) - 1
BY QSizeAssumption DEF Slot, Dist, Next1

(* The test of NVMEPCIEIssueCommandToHw: full is one entry less than all.  *)
LEMMA FullMeans ==
  ASSUME NEW h \in Slot, NEW t \in Slot
  PROVE  /\ Full(h, t) <=> Next1(t) = h
         /\ Full(h, t) <=> Dist(h, t) = QSize - 1
BY QSizeAssumption DEF Slot, Dist, Next1, Full

LEMMA WindowEmpty == ASSUME NEW a \in Slot PROVE Window(a, a) = {}
BY QSizeAssumption DEF Slot, Dist, Window

LEMMA WindowGrows ==
  ASSUME NEW a \in Slot, NEW b \in Slot, Next1(b) # a
  PROVE  Window(a, Next1(b)) = Window(a, b) \cup {b} /\ b \notin Window(a, b)
<1>1. Dist(a, Next1(b)) = Dist(a, b) + 1
  BY DistNext
<1>2. \A i \in Slot : Dist(a, i) < Dist(a, b) + 1 <=> Dist(a, i) < Dist(a, b) \/ i = b
  BY DistRange, DistInjective
<1> QED
  BY <1>1, <1>2, DistRange DEF Window

LEMMA WindowShrinks ==
  ASSUME NEW a \in Slot, NEW b \in Slot, a # b
  PROVE  /\ Window(Next1(a), b) = Window(a, b) \ {a}
         /\ a \in Window(a, b)
<1>1. Next1(a) \in Slot
  BY NextSlot
<1>2. Dist(Next1(a), b) = Dist(a, b) - 1
  BY DistFromNext
<1>3. \A i \in Slot : i # a => Dist(Next1(a), i) = Dist(a, i) - 1
  BY DistFromNext
<1>4. Dist(Next1(a), a) = QSize - 1
  BY QSizeAssumption DEF Slot, Dist, Next1
<1>5. \A i \in Slot : Dist(Next1(a), i) < Dist(Next1(a), b) <=> i # a /\ Dist(a, i) < Dist(a, b)
  BY <1>2, <1>3, <1>4, DistRange, QSizeAssumption
<1>6. Dist(a, a) = 0 /\ Dist(a, b) > 0
  BY DistRange
<1> QED
  BY <1>5, <1>6 DEF Window

-----------------------------------------------------------------------------
(* What the invariant says of the next completion entry.                   *)

LEMMA Positions ==
  ASSUME TypeOK
  PROVE  /\ CqPosition \in Slot /\ KnownHead \in Slot
         /\ sq.head \in Slot /\ sq.tail \in Slot /\ sq.doorbell \in Slot
         /\ dev.sqHead \in Slot /\ dev.cqTail \in Slot
         /\ cq.head \in Slot /\ cq.doorbell \in Slot /\ proc.head \in Slot
         /\ \A i \in Slot : compq[i].sqhd \in Slot
         /\ SubWindow \subseteq Slot /\ CompWindow \subseteq Slot
BY DEF TypeOK, CqPosition, KnownHead, SubWindow, CompWindow, Window

(* The phase bit tells new entries: the driver's position is the device's  *)
(* tail if and only if there is none.                                      *)
LEMMA NewMeans ==
  ASSUME TypeOK, CompRing, proc.running
  PROVE  NewEntry <=> CqPosition # dev.cqTail
<1>1. compq[proc.head].p = IF proc.head < dev.cqTail THEN dev.phase ELSE 1 - dev.phase
  BY Positions DEF CompRing
<1>2. proc.phase = IF proc.head <= dev.cqTail THEN dev.phase ELSE 1 - dev.phase
  BY DEF CompRing, CqPhase, CqPosition
<1>3. dev.phase \in {0, 1}
  BY DEF TypeOK
<1>4. proc.head \in Int /\ dev.cqTail \in Int
  BY Positions DEF Slot
<1> QED
  BY <1>1, <1>2, <1>3, <1>4 DEF NewEntry, CqPosition

(* A queue that is started, the first time or again.                       *)
Fresh ==
  /\ active = {} /\ sq = FreshSq /\ cq = FreshCq /\ dev = FreshDev
  /\ subq = [i \in Slot |-> NoCmd] /\ compq = [i \in Slot |-> Zeroed]
  /\ ~proc.running /\ proc \in [running : BOOLEAN, head : Slot, phase : {0, 1}]

LEMMA FreshOK == Fresh => IInv
<1> SUFFICES ASSUME Fresh PROVE IInv
  OBVIOUS
<1> USE DEF Fresh, FreshSq, FreshCq, FreshDev, INVALID_SQ_HEAD
<1>1. 0 \in Slot
  BY QSizeAssumption DEF Slot
<1>2. TypeOK
  BY <1>1 DEF TypeOK, Zeroed
<1>3. CqPosition = 0 /\ KnownHead = 0 /\ CqPhase = 1
  BY DEF CqPosition, KnownHead, CqPhase
<1>4. SubWindow = {} /\ CompWindow = {}
  BY <1>1, <1>3, WindowEmpty DEF SubWindow, CompWindow
<1>5. Dist(0, 0) = 0
  BY <1>1, DistRange
<1>6. SubRing
  BY <1>3, <1>5 DEF SubRing
<1>7. CompRing
  BY <1>3, <1>5, QSizeAssumption DEF CompRing, Zeroed, Slot
<1>8. Heads /\ LastHead /\ Owners
  BY <1>3, <1>4 DEF Heads, LastHead, Owners
<1> QED
  BY <1>2, <1>6, <1>7, <1>8 DEF IInv

LEMMA InitOK == Init => IInv
<1>1. Init => Fresh
  BY QSizeAssumption DEF Init, Fresh, NotRunning, Slot
<1> QED
  BY <1>1, FreshOK

-----------------------------------------------------------------------------
(* One lemma per action.                                                   *)

(* NVMEPCIEUpdateSubQueueHead moves the head up to the one it knows.       *)
LEMMA RefreshMoves ==
  ASSUME TypeOK, SubRing
  PROVE  /\ Refreshed \in Slot /\ PendingAfter \in Slot \cup {INVALID_SQ_HEAD}
         /\ KnownHead = IF PendingAfter = INVALID_SQ_HEAD THEN Refreshed ELSE PendingAfter
         /\ \A x \in Slot :
              Dist(sq.head, KnownHead) <= Dist(sq.head, x) =>
                Dist(Refreshed, x) = Dist(sq.head, x) - Dist(sq.head, Refreshed)
<1>1. /\ Refreshed \in Slot /\ PendingAfter \in Slot \cup {INVALID_SQ_HEAD}
      /\ KnownHead = IF PendingAfter = INVALID_SQ_HEAD THEN Refreshed ELSE PendingAfter
      /\ Refreshed \in {sq.head, KnownHead}
  BY DEF TypeOK, Refreshed, PendingAfter, KnownHead
<1>2. Dist(sq.head, Refreshed) <= Dist(sq.head, KnownHead)
  BY <1>1, Positions, DistRange
<1>3. ASSUME NEW x \in Slot, Dist(sq.head, KnownHead) <= Dist(sq.head, x)
      PROVE  Dist(Refreshed, x) = Dist(sq.head, x) - Dist(sq.head, Refreshed)
  <2>1. Dist(sq.head, Refreshed) <= Dist(sq.head, x)
    BY <1>1, <1>2, <1>3, Positions, DistRange
  <2> QED
    BY <1>1, <2>1, Positions, DistRebase
<1> QED
  BY <1>1, <1>3

(* With room after the known head there is room after the device's.        *)
LEMMA RoomToIssue ==
  ASSUME TypeOK, SubRing, ~Full(Refreshed, sq.tail)
  PROVE  /\ Next1(sq.tail) \in Slot /\ Next1(sq.tail) # dev.sqHead
         /\ Dist(Refreshed, Next1(sq.tail)) = Dist(Refreshed, sq.tail) + 1
         /\ Dist(Refreshed, KnownHead) <= Dist(Refreshed, dev.sqHead)
         /\ Dist(Refreshed, dev.sqHead) <= Dist(Refreshed, sq.doorbell)
         /\ Dist(Refreshed, sq.doorbell) <= Dist(Refreshed, sq.tail)
<1>1. Next1(sq.tail) # Refreshed /\ Next1(sq.tail) \in Slot
  BY RefreshMoves, Positions, FullMeans, NextSlot
<1>2. Dist(Refreshed, Next1(sq.tail)) = Dist(Refreshed, sq.tail) + 1
  BY <1>1, RefreshMoves, Positions, DistNext
<1>3. \A x \in {KnownHead, dev.sqHead, sq.doorbell, sq.tail} :
        Dist(sq.head, KnownHead) <= Dist(sq.head, x)
  BY Positions, DistRange DEF SubRing
<1>4. \A x \in {KnownHead, dev.sqHead, sq.doorbell, sq.tail} :
        Dist(Refreshed, x) = Dist(sq.head, x) - Dist(sq.head, Refreshed)
  BY <1>3, Positions, RefreshMoves
<1>5. /\ Dist(Refreshed, KnownHead) <= Dist(Refreshed, dev.sqHead)
      /\ Dist(Refreshed, dev.sqHead) <= Dist(Refreshed, sq.doorbell)
      /\ Dist(Refreshed, sq.doorbell) <= Dist(Refreshed, sq.tail)
  BY <1>4, Positions, RefreshMoves, DistRange DEF SubRing
<1>6. Next1(sq.tail) # dev.sqHead
  BY <1>1, <1>2, <1>5, Positions, RefreshMoves, DistRange
<1> QED
  BY <1>1, <1>2, <1>5, <1>6

LEMMA IssueOK ==
  ASSUME IInv, NEW c \in Cmds, NEW fusedFirst \in BOOLEAN, Issue(c, fusedFirst)
  PROVE  IInv'
<1> USE DEF IInv
<1>1. TypeOK'
  BY RefreshMoves, NextSlot DEF TypeOK, Issue
<1>2. /\ sq'.head = Refreshed /\ sq'.tail = Next1(sq.tail)
      /\ sq'.doorbell \in {sq.doorbell, Next1(sq.tail)}
      /\ KnownHead' = KnownHead /\ CqPosition' = CqPosition /\ CqPhase' = CqPhase
      /\ UNCHANGED <<cq, compq, proc, dev>>
      /\ active' = active \cup {c} /\ c \notin active
      /\ subq' = [subq EXCEPT ![sq.tail] = c]
  BY RefreshMoves DEF Issue, KnownHead, CqPosition, CqPhase
<1>3. ~Full(Refreshed, sq.tail)
  BY DEF Issue
<1>8. SubRing'
  BY <1>2, <1>3, RoomToIssue, Positions, RefreshMoves, DistRange DEF SubRing
<1>9. CompRing'
  BY <1>2 DEF CompRing
<1>11. SubWindow' = SubWindow \cup {sq.tail} /\ sq.tail \notin SubWindow
  BY <1>2, <1>3, RoomToIssue, Positions, WindowGrows DEF SubWindow
<1>12. CompWindow' = CompWindow
  BY <1>2 DEF CompWindow
<1>13. \A i \in CompWindow :
         Dist(Refreshed, compq[i].sqhd) = Dist(sq.head, compq[i].sqhd) - Dist(sq.head, Refreshed)
  BY Positions, RefreshMoves DEF Heads
<1>14. Dist(Refreshed, KnownHead) = Dist(sq.head, KnownHead) - Dist(sq.head, Refreshed)
      /\ Dist(Refreshed, dev.sqHead) = Dist(sq.head, dev.sqHead) - Dist(sq.head, Refreshed)
  BY Positions, RefreshMoves, DistRange DEF SubRing
<1>18. Heads'
  BY <1>2, <1>12, <1>14, <1>13, Positions, RefreshMoves, DistRange DEF Heads
<1>15. LastHead'
  BY <1>2, <1>12 DEF LastHead
<1>16. \A i \in SubWindow' : subq'[i] = IF i = sq.tail THEN c ELSE subq[i]
  BY <1>2, <1>11, Positions DEF TypeOK
<1>17. Owners'
  BY <1>2, <1>11, <1>12, <1>16 DEF Owners
<1> QED
  BY <1>1, <1>8, <1>9, <1>18, <1>15, <1>17

LEMMA IssueQueueFullOK == IInv /\ IssueQueueFull => IInv'
<1> SUFFICES ASSUME IInv, IssueQueueFull PROVE IInv'
  OBVIOUS
<1> USE DEF IInv
<1>1. TypeOK'
  BY RefreshMoves DEF TypeOK, IssueQueueFull
<1>2. /\ sq'.head = Refreshed /\ sq'.tail = sq.tail /\ sq'.doorbell = sq.doorbell
      /\ KnownHead' = KnownHead /\ CqPosition' = CqPosition /\ CqPhase' = CqPhase
      /\ SubWindow' = SubWindow /\ CompWindow' = CompWindow
      /\ UNCHANGED <<active, subq, cq, compq, proc, dev>>
  BY RefreshMoves
  DEF TypeOK, IssueQueueFull, KnownHead, CqPosition, CqPhase, SubWindow, CompWindow
<1>3. \A x \in {KnownHead, dev.sqHead, sq.doorbell, sq.tail} :
        Dist(sq.head, KnownHead) <= Dist(sq.head, x)
  BY Positions, DistRange DEF SubRing
<1>4. \A x \in {KnownHead, dev.sqHead, sq.doorbell, sq.tail} :
        Dist(Refreshed, x) = Dist(sq.head, x) - Dist(sq.head, Refreshed)
  BY <1>3, Positions, RefreshMoves
<1>5. SubRing'
  BY <1>2, <1>4, Positions, RefreshMoves, DistRange DEF SubRing
<1>6. \A i \in CompWindow :
         Dist(Refreshed, compq[i].sqhd) = Dist(sq.head, compq[i].sqhd) - Dist(sq.head, Refreshed)
  BY Positions, RefreshMoves DEF Heads
<1>7. Heads'
  BY <1>2, <1>4, <1>6, Positions, RefreshMoves, DistRange DEF Heads
<1>8. CompRing' /\ LastHead' /\ Owners'
  BY <1>2 DEF CompRing, LastHead, Owners
<1> QED
  BY <1>1, <1>5, <1>7, <1>8

LEMMA DevFetchOK == IInv /\ DevFetch => IInv'
<1> SUFFICES ASSUME IInv, DevFetch PROVE IInv'
  OBVIOUS
<1> USE DEF IInv
<1> DEFINE h == dev.sqHead
<1>1. /\ h # sq.doorbell /\ dev'.sqHead = Next1(h)
      /\ dev'.executing = dev.executing \cup {subq[h]}
      /\ dev'.cqTail = dev.cqTail /\ dev'.phase = dev.phase
      /\ UNCHANGED <<active, sq, subq, cq, compq, proc>>
  BY DEF DevFetch, TypeOK
<1>2. Next1(h) \in Slot
  BY Positions, NextSlot
<1>3. /\ Dist(sq.head, h) < Dist(sq.head, sq.doorbell)
      /\ Dist(sq.head, h) < Dist(sq.head, sq.tail)
  BY <1>1, Positions, DistRange, DistInjective DEF SubRing
<1>4. h # sq.tail
  BY <1>3, Positions, DistRange
<1>5. Next1(h) # sq.head
  <2>1. SUFFICES ASSUME Next1(h) = sq.head PROVE FALSE
    OBVIOUS
  <2>2. Dist(sq.head, h) = QSize - 1
    BY <2>1, Positions, FullMeans
  <2> QED
    BY <1>3, <2>2, Positions, DistRange, QSizeAssumption
<1>6. Dist(sq.head, Next1(h)) = Dist(sq.head, h) + 1
  BY <1>5, Positions, DistNext
<1>7. SubWindow' = SubWindow \ {h} /\ h \in SubWindow
  BY <1>1, <1>4, Positions, WindowShrinks DEF SubWindow
<1>8. CompWindow' = CompWindow /\ CqPosition' = CqPosition /\ KnownHead' = KnownHead
      /\ CqPhase' = CqPhase
  BY <1>1 DEF CompWindow, CqPosition, KnownHead, CqPhase
<1>9. subq[h] \in active \ dev.executing
  BY <1>7 DEF Owners
<1>10. TypeOK'
  BY <1>1, <1>2, <1>9 DEF TypeOK, DevFetch
<1>11. SubRing'
  BY <1>1, <1>3, <1>6, <1>8, Positions, DistRange DEF SubRing
<1>12. CompRing'
  BY <1>1, <1>8 DEF CompRing
<1>13. Heads'
  BY <1>1, <1>6, <1>8, Positions, DistRange DEF Heads
<1>14. LastHead'
  BY <1>1 DEF LastHead
<1>15. Owners'
  BY <1>1, <1>7, <1>8, <1>9 DEF Owners
<1> QED
  BY <1>10, <1>11, <1>12, <1>13, <1>14, <1>15

LEMMA DevCompleteOK ==
  ASSUME IInv, NEW c \in Cmds, DevComplete(c)
  PROVE  IInv'
<1> USE DEF IInv
<1> DEFINE t == dev.cqTail
<1>1. /\ c \in dev.executing /\ Next1(t) # cq.head
      /\ compq' = [compq EXCEPT ![t] = [cid |-> c, sqhd |-> dev.sqHead, p |-> dev.phase]]
      /\ dev'.sqHead = dev.sqHead /\ dev'.executing = dev.executing \ {c}
      /\ dev'.cqTail = Next1(t)
      /\ dev'.phase = IF Next1(t) = 0 THEN 1 - dev.phase ELSE dev.phase
      /\ UNCHANGED <<active, sq, subq, cq, proc>>
  BY DEF DevComplete, TypeOK, CompRing
<1>2. Next1(t) \in Slot
  BY Positions, NextSlot
<1>3. TypeOK'
  <2>1. [cid |-> c, sqhd |-> dev.sqHead, p |-> dev.phase]
          \in [cid : Cmds \cup {NoCmd}, sqhd : Slot, p : {0, 1}]
    BY DEF TypeOK
  <2>2. compq' \in [Slot -> [cid : Cmds \cup {NoCmd}, sqhd : Slot, p : {0, 1}]]
    BY <1>1, <2>1, Positions DEF TypeOK
  <2>3. dev' = [dev EXCEPT !.executing = dev.executing \ {c}, !.cqTail = Next1(t),
                           !.phase = IF Next1(t) = 0 THEN 1 - dev.phase ELSE dev.phase]
    BY DEF DevComplete
  <2>4. dev' \in [sqHead : Slot, executing : SUBSET Cmds, cqTail : Slot, phase : {0, 1}]
    <3>1. (IF Next1(t) = 0 THEN 1 - dev.phase ELSE dev.phase) \in {0, 1}
      BY DEF TypeOK
    <3> QED
      BY <1>2, <2>3, <3>1 DEF TypeOK
  <2> QED
    BY <1>1, <2>2, <2>4 DEF TypeOK
<1>4. CqPosition' = CqPosition /\ KnownHead' = KnownHead /\ CqPhase' = CqPhase
      /\ SubWindow' = SubWindow
  BY <1>1 DEF SubWindow, CqPosition, KnownHead, CqPhase
<1>5. Dist(cq.head, Next1(t)) = Dist(cq.head, t) + 1
  BY <1>1, Positions, DistNext
<1>6. Next1(t) # CqPosition
  BY <1>5, Positions, DistRange DEF CompRing
<1>7. CompWindow' = CompWindow \cup {t} /\ t \notin CompWindow
  BY <1>1, <1>4, <1>6, Positions, WindowGrows DEF CompWindow
<1>8. SubRing'
  BY <1>1, <1>4 DEF SubRing
<1>9. \A i \in Slot : compq'[i] = IF i = t THEN [cid |-> c, sqhd |-> dev.sqHead, p |-> dev.phase]
                                  ELSE compq[i]
  BY <1>1, Positions DEF TypeOK
<1>10. CompRing'
  <2>1. cq'.doorbell = cq'.head /\ Dist(cq'.head, CqPosition') <= Dist(cq'.head, dev'.cqTail)
    BY <1>1, <1>4, <1>5, Positions, DistRange DEF CompRing
  <2>2. CqPhase' = IF CqPosition' <= dev'.cqTail THEN dev'.phase ELSE 1 - dev'.phase
    <3>1. dev.phase \in {0, 1}
      BY DEF TypeOK
    <3>2. t \in Int /\ CqPosition \in Int /\ 0 <= CqPosition /\ CqPosition < QSize
      BY Positions, QSizeAssumption DEF Slot
    <3>3. Next1(t) = 0 => CqPosition <= t
      BY <3>2, Positions, QSizeAssumption DEF Next1, Slot
    <3>4. Next1(t) # 0 => Next1(t) = t + 1
      BY DEF Next1
    <3>5. Next1(t) = 0 => CqPosition > 0
      BY <1>6, <3>2
    <3> QED
      BY <1>1, <1>4, <1>6, <3>1, <3>2, <3>3, <3>4, <3>5 DEF CompRing
  <2>3. \A i \in Slot : compq'[i].p = IF i < dev'.cqTail THEN dev'.phase ELSE 1 - dev'.phase
    <3>1. dev.phase \in {0, 1}
      BY DEF TypeOK
    <3>2. \A i \in Slot : i < Next1(t) <=> Next1(t) # 0 /\ (i < t \/ i = t)
      BY Positions, QSizeAssumption DEF Next1, Slot
    <3>3. \A i \in Slot : Next1(t) = 0 => i < t \/ i = t
      BY Positions, QSizeAssumption DEF Next1, Slot
    <3> QED
      BY <1>1, <1>9, <3>1, <3>2, <3>3 DEF CompRing
  <2> QED
    BY <2>1, <2>2, <2>3 DEF CompRing
<1>11. \A i \in CompWindow : compq'[i] = compq[i]
  BY <1>7, <1>9, Positions
<1>12. compq'[t].cid = c /\ compq'[t].sqhd = dev.sqHead
  BY <1>9, Positions
<1>13. \A i \in CompWindow : Dist(CqPosition, i) < Dist(CqPosition, t)
  BY DEF CompWindow, Window
<1>14. Dist(sq.head, KnownHead) <= Dist(sq.head, dev.sqHead)
  BY DEF SubRing
<1>15. Heads'
  <2>1. \A i \in CompWindow' :
          /\ Dist(sq.head, KnownHead) <= Dist(sq.head, compq'[i].sqhd)
          /\ Dist(sq.head, compq'[i].sqhd) <= Dist(sq.head, dev.sqHead)
    BY <1>7, <1>11, <1>12, <1>14, Positions, DistRange DEF Heads
  <2>2. ASSUME NEW i \in CompWindow', NEW j \in CompWindow',
               Dist(CqPosition, i) <= Dist(CqPosition, j)
        PROVE  Dist(sq.head, compq'[i].sqhd) <= Dist(sq.head, compq'[j].sqhd)
    <3>1. CASE j = t
      BY <2>1, <3>1, <1>12
    <3>2. CASE j # t
      <4>1. j \in CompWindow
        BY <1>7, <3>2
      <4>2. i # t
        BY <1>13, <2>2, <4>1, Positions, DistRange
      <4>3. i \in CompWindow
        BY <1>7, <4>2
      <4> QED
        BY <1>11, <2>2, <4>1, <4>3 DEF Heads
    <3> QED
      BY <3>1, <3>2
  <2> QED
    BY <1>1, <1>4, <2>1, <2>2 DEF Heads
<1>16. LastHead'
  <2>1. \A i \in CompWindow : Next1(i) # Next1(t)
    BY <1>7, Positions, QSizeAssumption DEF Next1, Slot
  <2> QED
    BY <1>1, <1>4, <1>6, <1>7, <1>12, <2>1 DEF LastHead
<1>17. Owners'
  BY <1>1, <1>4, <1>7, <1>11, <1>12 DEF Owners
<1> QED
  BY <1>3, <1>8, <1>10, <1>15, <1>16, <1>17

LEMMA ProcessCqEnterOK == IInv /\ ProcessCqEnter => IInv'
<1> SUFFICES ASSUME IInv, ProcessCqEnter PROVE IInv'
  OBVIOUS
<1> USE DEF IInv
<1>1. TypeOK'
  BY DEF TypeOK, ProcessCqEnter
<1>2. CqPosition' = CqPosition /\ CqPhase' = CqPhase /\ KnownHead' = KnownHead
      /\ SubWindow' = SubWindow /\ CompWindow' = CompWindow
      /\ UNCHANGED <<active, sq, subq, cq, compq, dev>>
  BY DEF ProcessCqEnter, CqPosition, CqPhase, KnownHead, SubWindow, CompWindow
<1> QED
  BY <1>1, <1>2 DEF SubRing, CompRing, Heads, LastHead, Owners

LEMMA ProcessCqEntryOK == IInv /\ ProcessCqEntry => IInv'
<1> SUFFICES ASSUME IInv, ProcessCqEntry PROVE IInv'
  OBVIOUS
<1> USE DEF IInv
<1> DEFINE pos == CqPosition
           entry == compq[CqPosition]
<1>1. /\ pos = proc.head /\ CqPosition' = Next1(pos) /\ KnownHead' = entry.sqhd
      /\ pos # dev.cqTail
      /\ sq'.head = sq.head /\ sq'.tail = sq.tail /\ sq'.doorbell = sq.doorbell
      /\ CqPhase' = IF Next1(pos) = 0 THEN 1 - CqPhase ELSE CqPhase
      /\ active' = active \ {entry.cid}
      /\ UNCHANGED <<subq, cq, compq, dev>>
  <2>1. proc.running /\ NewEntry
    BY DEF ProcessCqEntry
  <2>2. pos # dev.cqTail /\ pos = proc.head
    BY <2>1, NewMeans DEF CqPosition
  <2>3. compq[proc.head].sqhd # INVALID_SQ_HEAD
    BY Positions DEF Slot, INVALID_SQ_HEAD
  <2> QED
    BY <2>1, <2>2, <2>3 DEF ProcessCqEntry, TypeOK, CqPosition, CqPhase, KnownHead
<1>2. Next1(pos) \in Slot
  BY Positions, NextSlot
<1>3. TypeOK'
  <2>1. proc' \in [running : BOOLEAN, head : Slot, phase : {0, 1}]
    <3>1. (IF Next1(proc.head) = 0 THEN 1 - proc.phase ELSE proc.phase) \in {0, 1}
      BY DEF TypeOK
    <3> QED
      BY <1>1, <1>2, <3>1 DEF TypeOK, ProcessCqEntry
  <2>2. sq' \in [head : Slot, tail : Slot, pendingHead : Slot \cup {INVALID_SQ_HEAD},
                 doorbell : Slot]
    BY <1>1, Positions DEF TypeOK, ProcessCqEntry
  <2> QED
    BY <1>1, <2>1, <2>2 DEF TypeOK
<1>4. CompWindow' = CompWindow \ {pos} /\ pos \in CompWindow
  BY <1>1, Positions, WindowShrinks DEF CompWindow
<1>5. SubWindow' = SubWindow
  BY <1>1 DEF SubWindow
<1>6. SubRing'
  BY <1>1, <1>4 DEF SubRing, Heads
<1>7. CompRing'
  <2>1. Dist(cq.head, pos) < Dist(cq.head, dev.cqTail)
    <3>1. /\ cq.head \in Slot /\ pos \in Slot /\ dev.cqTail \in Slot
          /\ Dist(cq.head, pos) <= Dist(cq.head, dev.cqTail)
      BY Positions DEF CompRing
    <3> HIDE DEF pos, IInv
    <3>2. Dist(cq.head, pos) # Dist(cq.head, dev.cqTail)
      BY <1>1, <3>1, DistInjective
    <3>3. Dist(cq.head, pos) \in Nat /\ Dist(cq.head, dev.cqTail) \in Nat
      BY <3>1, DistRange
    <3> QED
      BY <3>1, <3>2, <3>3
  <2>2. Next1(pos) # cq.head
    <3>1. SUFFICES ASSUME Next1(pos) = cq.head PROVE FALSE
      OBVIOUS
    <3>2. Dist(cq.head, pos) = QSize - 1
      BY <3>1, Positions, FullMeans
    <3> QED
      BY <2>1, <3>2, Positions, DistRange, QSizeAssumption
  <2>3. Dist(cq.head, Next1(pos)) = Dist(cq.head, pos) + 1
    BY <2>2, Positions, DistNext
  <2>4. Dist(cq.head, Next1(pos)) <= Dist(cq.head, dev.cqTail)
    BY <2>1, <2>3, Positions, DistRange
  <2>5. CqPhase' = IF Next1(pos) <= dev.cqTail THEN dev.phase ELSE 1 - dev.phase
    <3>1. dev.phase \in {0, 1}
      BY DEF TypeOK
    <3>2. dev.cqTail \in Int /\ pos \in Int /\ dev.cqTail >= 0 /\ dev.cqTail < QSize
      BY Positions, QSizeAssumption DEF Slot
    <3>3. Next1(pos) # 0 => Next1(pos) = pos + 1
      BY DEF Next1
    <3>4. Next1(pos) = 0 => pos = QSize - 1
      BY Positions, QSizeAssumption DEF Next1, Slot
    <3> QED
      BY <1>1, <3>1, <3>2, <3>3, <3>4, QSizeAssumption DEF CompRing
  <2> QED
    BY <1>1, <2>4, <2>5 DEF CompRing
<1>8. \A i \in CompWindow' :
        /\ i \in CompWindow /\ i \in Slot /\ i # pos
        /\ Dist(Next1(pos), i) = Dist(pos, i) - 1
        /\ Dist(pos, pos) <= Dist(pos, i)
  BY <1>4, Positions, DistFromNext, DistRange
<1>9. \A i, j \in CompWindow' :
        Dist(Next1(pos), i) <= Dist(Next1(pos), j) => Dist(pos, i) <= Dist(pos, j)
  BY <1>8, Positions, DistRange
<1>10. Heads'
  BY <1>1, <1>4, <1>8, <1>9 DEF Heads
<1>11. LastHead'
  BY <1>1, <1>4 DEF LastHead
<1>12. Owners'
  BY <1>1, <1>4, <1>5 DEF Owners
<1> QED
  BY <1>3, <1>6, <1>7, <1>10, <1>11, <1>12

LEMMA ProcessCqLeaveOK == IInv /\ ProcessCqLeave => IInv'
<1> SUFFICES ASSUME IInv, ProcessCqLeave PROVE IInv'
  OBVIOUS
<1> USE DEF IInv
<1>1. TypeOK'
  <2>1. 0 \in Slot
    BY QSizeAssumption DEF Slot
  <2> QED
    BY <2>1 DEF TypeOK, ProcessCqLeave, NotRunning
<1>2. CqPosition' = CqPosition /\ CqPhase' = CqPhase /\ KnownHead' = KnownHead
      /\ SubWindow' = SubWindow /\ CompWindow' = CompWindow
      /\ cq'.head = CqPosition /\ cq'.doorbell = CqPosition
      /\ UNCHANGED <<active, sq, subq, compq, dev>>
  BY DEF ProcessCqLeave, NotRunning, CqPosition, CqPhase, KnownHead, SubWindow, CompWindow
<1>3. Dist(CqPosition, CqPosition) <= Dist(CqPosition, dev.cqTail)
  BY Positions, DistRange
<1>4. CompRing'
  BY <1>2, <1>3 DEF CompRing
<1> QED
  BY <1>1, <1>2, <1>4 DEF SubRing, Heads, LastHead, Owners

(* A queue that is started again is as new.                                *)
LEMMA StopAndStartOK == IInv /\ StopAndStart => IInv'
<1>1. IInv /\ StopAndStart => Fresh'
  BY DEF IInv, TypeOK, StopAndStart, Fresh
<1> QED
  BY <1>1, FreshOK, PTL

LEMMA NextOK == IInv /\ [Next]_vars => IInv'
<1> SUFFICES ASSUME IInv, [Next]_vars PROVE IInv'
  OBVIOUS
<1>1. CASE UNCHANGED vars
  BY <1>1 DEF vars, IInv, TypeOK, SubRing, CompRing, Heads, LastHead, Owners, SubWindow,
              CompWindow, CqPosition, CqPhase, KnownHead
<1>2. CASE Next
  BY <1>2, IssueOK, IssueQueueFullOK, DevFetchOK, DevCompleteOK, ProcessCqEnterOK,
     ProcessCqEntryOK, ProcessCqLeaveOK, StopAndStartOK DEF Next, ProcessCq
<1> QED
  BY <1>1, <1>2

(* The inductive invariant.                                                *)
LEMMA IInvInvariant == Spec => []IInv
BY InitOK, NextOK, PTL DEF Spec

-----------------------------------------------------------------------------
(* Type correctness: every index is inside its ring, and the device never  *)
(* fetches an entry that nobody wrote.                                     *)
THEOREM TypeCorrect == Spec => []TypeOK
<1>1. IInv => TypeOK
  BY DEF IInv
<1> QED
  BY <1>1, IInvInvariant, PTL

(* Every entry that NVMEPCIEProcessCq takes answers an active command.     *)
THEOREM EntriesAnswerActiveHolds == Spec => []EntriesAnswerActive
<1>1. IInv => EntriesAnswerActive
  <2> SUFFICES ASSUME IInv, proc.running, NewEntry
               PROVE  /\ compq[proc.head].cid \in active
                      /\ \A c \in dev.executing : c # compq[proc.head].cid
    BY DEF EntriesAnswerActive
  <2>1. CqPosition # dev.cqTail /\ CqPosition = proc.head
    BY NewMeans DEF IInv, CqPosition
  <2>2. proc.head \in CompWindow
    BY <2>1, Positions, WindowShrinks DEF IInv, CompWindow
  <2> QED
    BY <2>2 DEF IInv, Owners
<1> QED
  BY <1>1, IInvInvariant, PTL

(* No submission entry is lost for ever: with nothing outstanding, the     *)
(* head that the driver knows is the device's.                             *)
THEOREM NoCreditLostHolds == Spec => []NoCreditLost
<1>1. IInv => NoCreditLost
  <2> SUFFICES ASSUME IInv, active = {} PROVE KnownHead = dev.sqHead
    BY DEF NoCreditLost, KnownHead
  <2>1. dev.executing = {} /\ CompWindow = {}
    BY DEF IInv, Owners
  <2>2. CqPosition = dev.cqTail
    BY <2>1, Positions, WindowShrinks DEF IInv, CompWindow
  <2> QED
    BY <2>1, <2>2 DEF IInv, LastHead
<1> QED
  BY <1>1, IInvInvariant, PTL

-----------------------------------------------------------------------------
(* The refinement: the two windows, in order, are the sequences of         *)
(* CommandQueue.                                                           *)

(* What the ring F holds from index a to index b.                          *)
Read(F, a, b) == [i \in 1..Dist(a, b) |-> F[At(a, i - 1)]]
Waiting == Read(subq, dev.sqHead, sq.tail)
Cids == [i \in Slot |-> compq[i].cid]
Answered == Read(Cids, CqPosition, dev.cqTail)

LEMMA AtOfDist ==
  ASSUME NEW a \in Slot, NEW k \in Nat, k < QSize
  PROVE  At(a, k) \in Slot /\ Dist(a, At(a, k)) = k
BY QSizeAssumption DEF Slot, At, Dist

LEMMA AtDist ==
  ASSUME NEW a \in Slot, NEW b \in Slot
  PROVE  At(a, Dist(a, b)) = b
BY QSizeAssumption DEF Slot, At, Dist

LEMMA AtFromNext ==
  ASSUME NEW a \in Slot, NEW k \in Nat, k + 1 < QSize
  PROVE  At(Next1(a), k) = At(a, k + 1)
BY QSizeAssumption DEF Slot, At, Next1

LEMMA AtStart == ASSUME NEW a \in Slot PROVE At(a, 0) = a
BY QSizeAssumption DEF Slot, At

LEMMA ReadGrows ==
  ASSUME NEW F, NEW G, NEW a \in Slot, NEW b \in Slot, Next1(b) # a,
         \A i \in Window(a, b) : G[i] = F[i]
  PROVE  Read(G, a, Next1(b)) = Append(Read(F, a, b), G[b])
<1> DEFINE n == Dist(a, b)
           s == [i \in 1..n |-> F[At(a, i - 1)]]
<1>1. n \in Nat /\ n < QSize /\ Dist(a, Next1(b)) = n + 1
  BY DistRange, DistNext
<1>2. ASSUME NEW i \in 1..n PROVE G[At(a, i - 1)] = F[At(a, i - 1)]
  <2>1. i - 1 \in Nat /\ i - 1 < QSize /\ i - 1 < n
    BY <1>1, <1>2, QSizeAssumption
  <2>2. At(a, i - 1) \in Window(a, b)
    BY <2>1, AtOfDist DEF Window
  <2> QED
    BY <2>2
<1>3. G[At(a, (n + 1) - 1)] = G[b]
  BY <1>1, AtDist
<1>4. Len(s) = n /\ s \in Seq({F[i] : i \in Slot})
  <2>1. ASSUME NEW i \in 1..n PROVE At(a, i - 1) \in Slot
    <3>1. i - 1 \in Nat /\ i - 1 < QSize
      BY <1>1, <2>1, QSizeAssumption
    <3> QED
      BY <3>1, AtOfDist
  <2> QED
    BY <1>1, <2>1
<1>5. Append(s, G[b]) = [i \in 1..(n + 1) |-> IF i = n + 1 THEN G[b] ELSE s[i]]
  BY <1>1, <1>4
<1> QED
  BY <1>1, <1>2, <1>3, <1>5 DEF Read

LEMMA ReadShrinks ==
  ASSUME NEW F, NEW a \in Slot, NEW b \in Slot, a # b
  PROVE  /\ Read(F, a, b) # <<>> /\ Head(Read(F, a, b)) = F[a]
         /\ Tail(Read(F, a, b)) = Read(F, Next1(a), b)
<1> DEFINE n == Dist(a, b)
           s == [i \in 1..n |-> F[At(a, i - 1)]]
<1>1. n \in Nat /\ 0 < n /\ n < QSize /\ Dist(Next1(a), b) = n - 1
  BY DistRange, DistFromNext
<1>2. Len(s) = n /\ s \in Seq({F[i] : i \in Slot})
  <2>1. ASSUME NEW i \in 1..n PROVE At(a, i - 1) \in Slot
    <3>1. i - 1 \in Nat /\ i - 1 < QSize
      BY <1>1, <2>1, QSizeAssumption
    <3> QED
      BY <3>1, AtOfDist
  <2> QED
    BY <1>1, <2>1
<1>3. s # <<>> /\ Head(s) = F[a]
  <2>1. s[1] = F[At(a, 0)]
    BY <1>1
  <2> QED
    BY <1>1, <1>2, <2>1, AtStart
<1>4. Tail(s) = [i \in 1..(n - 1) |-> s[i + 1]]
  BY <1>1, <1>2
<1>5. ASSUME NEW i \in 1..(n - 1) PROVE s[i + 1] = F[At(Next1(a), i - 1)]
  <2>1. i - 1 \in Nat /\ (i - 1) + 1 < QSize /\ (i + 1) - 1 = (i - 1) + 1 /\ i + 1 \in 1..n
    BY <1>1, <1>5, QSizeAssumption
  <2>2. At(Next1(a), i - 1) = At(a, (i - 1) + 1)
    BY <2>1, AtFromNext
  <2> QED
    BY <2>1, <2>2
<1> QED
  BY ZenonT(40), <1>1, <1>3, <1>4, <1>5 DEF Read

LEMMA ReadElements ==
  ASSUME NEW F, NEW a \in Slot, NEW b \in Slot
  PROVE  /\ \A x \in Queue!Elements(Read(F, a, b)) : \E i \in Window(a, b) : x = F[i]
         /\ Len(Read(F, a, b)) = Dist(a, b)
<1> DEFINE n == Dist(a, b)
           s == [i \in 1..n |-> F[At(a, i - 1)]]
<1>1. n \in Nat /\ n < QSize
  BY DistRange
<1>2. Len(s) = n
  BY <1>1
<1>3. ASSUME NEW i \in 1..n PROVE At(a, i - 1) \in Window(a, b)
  <2>1. i - 1 \in Nat /\ i - 1 < QSize /\ i - 1 < n
    BY <1>1, <1>3, QSizeAssumption
  <2> QED
    BY <2>1, AtOfDist DEF Window
<1>4. \A x \in {s[i] : i \in 1..n} : \E j \in Window(a, b) : x = F[j]
  BY <1>3
<1> QED
  BY <1>2, <1>4 DEF Queue!Elements, Read

(* The substitution of QueuePair's instance.                               *)
LEMMA AnsweredIs ==
  TypeOK => [i \in 1..Dist(CqPosition, dev.cqTail) |-> compq[At(CqPosition, i - 1)].cid]
            = Answered
<1> SUFFICES ASSUME TypeOK,
                    NEW i \in 1..Dist(CqPosition, dev.cqTail)
             PROVE  compq[At(CqPosition, i - 1)].cid = Cids[At(CqPosition, i - 1)]
  BY DEF Answered, Read
<1>1. i - 1 \in Nat /\ i - 1 < QSize
  BY Positions, DistRange, QSizeAssumption
<1> QED
  BY <1>1, Positions, AtOfDist DEF Cids

LEMMA Substituted ==
  TypeOK => Queue!qVars = <<Waiting, Dist(dev.sqHead, sq.doorbell), dev.executing, Answered>>
BY AnsweredIs DEF Queue!qVars, Waiting, Read

(* The commands that CommandQueue calls outstanding are active.            *)
LEMMA OutstandingActive == IInv => Queue!Outstanding \subseteq active
<1> SUFFICES ASSUME IInv PROVE Queue!Outstanding \subseteq active
  OBVIOUS
<1>1. \A x \in Queue!Elements(Waiting) : \E i \in SubWindow : x = subq[i]
  BY ZenonT(40), Positions, ReadElements DEF Waiting, SubWindow, IInv
<1>2. \A x \in Queue!Elements(Answered) : \E i \in CompWindow : x = Cids[i]
  BY ZenonT(40), Positions, ReadElements DEF Answered, CompWindow, IInv
<1>3. \A i \in CompWindow : Cids[i] \in active
  BY Positions DEF IInv, Owners, Cids
<1>4. Queue!Outstanding = Queue!Elements(Waiting) \cup dev.executing \cup Queue!Elements(Answered)
  BY AnsweredIs DEF Queue!Outstanding, Waiting, Read, IInv
<1> QED
  BY <1>1, <1>2, <1>3, <1>4 DEF IInv, Owners

LEMMA InitMaps == Init => Queue!QInit
<1> SUFFICES ASSUME Init PROVE Queue!QInit
  OBVIOUS
<1>1. /\ dev.sqHead = 0 /\ sq.tail = 0 /\ sq.doorbell = 0 /\ dev.executing = {}
      /\ CqPosition = 0 /\ dev.cqTail = 0
  BY DEF Init, FreshSq, FreshCq, FreshDev, NotRunning, CqPosition
<1>2. Dist(0, 0) = 0
  BY QSizeAssumption DEF Dist
<1> QED
  BY <1>1, <1>2 DEF Queue!QInit

LEMMA IssueMaps ==
  ASSUME IInv, NEW c \in Cmds, NEW fusedFirst \in BOOLEAN, Issue(c, fusedFirst)
  PROVE  Queue!Submit(c, ~fusedFirst)
<1> USE DEF IInv
<1>1. /\ sq'.tail = Next1(sq.tail) /\ subq' = [subq EXCEPT ![sq.tail] = c]
      /\ sq'.doorbell = IF fusedFirst THEN sq.doorbell ELSE Next1(sq.tail)
      /\ c \notin active /\ UNCHANGED <<cq, compq, proc, dev>>
      /\ ~Full(Refreshed, sq.tail)
  BY DEF Issue
<1>2. Next1(sq.tail) # dev.sqHead /\ Next1(sq.tail) \in Slot
  BY <1>1, RoomToIssue
<1>3. Dist(dev.sqHead, Next1(sq.tail)) = Dist(dev.sqHead, sq.tail) + 1
  BY <1>2, Positions, DistNext
<1>4. \A i \in SubWindow : subq'[i] = subq[i]
  BY <1>1, <1>2, Positions, WindowGrows DEF SubWindow, TypeOK
<1>5. Waiting' = Append(Waiting, c)
  <2>1. Read(subq', dev.sqHead, Next1(sq.tail)) = Append(Read(subq, dev.sqHead, sq.tail), subq'[sq.tail])
    <3>1. dev.sqHead \in Slot /\ sq.tail \in Slot
      BY Positions
    <3>2. \A i \in Window(dev.sqHead, sq.tail) : subq'[i] = subq[i]
      BY <1>4 DEF SubWindow
    <3> QED
      BY ZenonT(40), <1>2, <3>1, <3>2, ReadGrows
  <2>2. subq'[sq.tail] = c
    BY <1>1, Positions DEF TypeOK
  <2> QED
    BY <1>1, <2>1, <2>2 DEF Waiting
<1>6. Len(Waiting) = Dist(dev.sqHead, sq.tail)
  <2>1. dev.sqHead \in Slot /\ sq.tail \in Slot
    BY Positions
  <2> QED
    BY <2>1, ReadElements DEF Waiting
<1>7. Len(Waiting) < QSize - 1
  <2>1. dev.sqHead \in Slot /\ sq.tail \in Slot
    BY Positions
  <2>2. Dist(dev.sqHead, Next1(sq.tail)) < QSize /\ Dist(dev.sqHead, sq.tail) \in Nat
    BY <1>2, <2>1, DistRange
  <2> QED
    BY <1>3, <1>6, <2>2, QSizeAssumption
<1>8. c \notin Queue!Outstanding
  BY <1>1, OutstandingActive
<1>9. Dist(dev'.sqHead, sq'.doorbell)
        = IF ~fusedFirst THEN Len(Waiting) + 1 ELSE Dist(dev.sqHead, sq.doorbell)
  BY <1>1, <1>3, <1>6
<1>10. CqPosition' = CqPosition
  BY <1>1 DEF CqPosition
<1> QED
  BY <1>1, <1>5, <1>7, <1>8, <1>9, <1>10 DEF Queue!Submit, Waiting, Read

LEMMA DevFetchMaps == ASSUME IInv, DevFetch PROVE Queue!Fetch
<1> USE DEF IInv
<1> DEFINE h == dev.sqHead
<1>1. /\ h # sq.doorbell /\ dev'.sqHead = Next1(h)
      /\ dev'.executing = dev.executing \cup {subq[h]}
      /\ dev'.cqTail = dev.cqTail /\ UNCHANGED <<active, sq, subq, cq, compq, proc>>
  BY DEF DevFetch, TypeOK
<1>2. h \in Slot /\ sq.doorbell \in Slot /\ sq.tail \in Slot /\ sq.head \in Slot
  BY Positions
<1>3. h # sq.tail
  <2>1. Dist(sq.head, h) < Dist(sq.head, sq.doorbell)
    BY <1>1, <1>2, DistRange, DistInjective DEF SubRing
  <2> QED
    BY <1>2, <2>1, DistRange DEF SubRing
<1>4. /\ Waiting # <<>> /\ Head(Waiting) = subq[h]
      /\ Tail(Waiting) = Read(subq, Next1(h), sq.tail)
  BY <1>2, <1>3, ReadShrinks DEF Waiting
<1>5. Waiting' = Tail(Waiting)
  BY <1>1, <1>4 DEF Waiting
<1>6. Dist(h, sq.doorbell) > 0 /\ Dist(Next1(h), sq.doorbell) = Dist(h, sq.doorbell) - 1
  BY <1>1, <1>2, DistRange, DistFromNext
<1>7. CqPosition' = CqPosition
  BY <1>1 DEF CqPosition
<1> QED
  BY <1>1, <1>4, <1>5, <1>6, <1>7 DEF Queue!Fetch, Waiting, Read

LEMMA DevCompleteMaps ==
  ASSUME IInv, NEW c \in Cmds, DevComplete(c)
  PROVE  Queue!Answer(c)
<1> USE DEF IInv
<1> DEFINE t == dev.cqTail
<1>1. /\ c \in dev.executing /\ Next1(t) # cq.head
      /\ compq' = [compq EXCEPT ![t] = [cid |-> c, sqhd |-> dev.sqHead, p |-> dev.phase]]
      /\ dev'.sqHead = dev.sqHead /\ dev'.executing = dev.executing \ {c}
      /\ dev'.cqTail = Next1(t) /\ UNCHANGED <<active, sq, subq, cq, proc>>
  BY DEF DevComplete, TypeOK, CompRing
<1>2. /\ t \in Slot /\ CqPosition \in Slot /\ cq.head \in Slot /\ Next1(t) \in Slot
      /\ CqPosition' = CqPosition
  BY <1>1, Positions, NextSlot DEF CqPosition
<1>3. Next1(t) # CqPosition
  <2>1. Dist(cq.head, Next1(t)) = Dist(cq.head, t) + 1
    BY <1>1, <1>2, DistNext
  <2> QED
    BY <1>2, <2>1, DistRange DEF CompRing
<1>4. Dist(CqPosition, Next1(t)) = Dist(CqPosition, t) + 1
  BY <1>2, <1>3, DistNext
<1>5. \A i \in Slot : Cids'[i] = IF i = t THEN c ELSE Cids[i]
  BY <1>1, <1>2 DEF Cids, TypeOK
<1>6. \A i \in Window(CqPosition, t) : Cids'[i] = Cids[i]
  BY <1>2, <1>3, <1>5, WindowGrows DEF Window
<1>7. Read(Cids', CqPosition, Next1(t)) = Append(Read(Cids, CqPosition, t), Cids'[t])
  <2>1. CqPosition \in Slot /\ t \in Slot /\ Next1(t) # CqPosition
    BY <1>2, <1>3
  <2> HIDE DEF t
  <2> QED
    BY <2>1, <1>6, ReadGrows
<1>8. Answered' = Append(Answered, c)
  BY <1>1, <1>2, <1>5, <1>7 DEF Answered
<1>9. Len(Answered) = Dist(CqPosition, t)
  BY <1>2, ReadElements DEF Answered
<1>10. Len(Answered) < QSize - 1
  <2>1. Dist(CqPosition, Next1(t)) < QSize /\ Dist(CqPosition, t) \in Nat
    BY <1>2, DistRange
  <2> QED
    BY <1>4, <1>9, <2>1, QSizeAssumption
<1>11. TypeOK /\ TypeOK'
  BY DevCompleteOK
<1>12. (TypeOK => [i \in 1..Dist(CqPosition, dev.cqTail) |-> compq[At(CqPosition, i - 1)].cid]
                  = Answered)'
  BY AnsweredIs, PTL
<1>13. UNCHANGED <<[i \in 1..Dist(dev.sqHead, sq.tail) |-> subq[At(dev.sqHead, i - 1)]],
                   Dist(dev.sqHead, sq.doorbell)>>
  BY <1>1
<1> QED
  BY <1>1, <1>8, <1>10, <1>11, <1>12, <1>13, AnsweredIs DEF Queue!Answer

LEMMA ProcessCqEntryMaps == ASSUME IInv, ProcessCqEntry PROVE Queue!Deliver
<1> USE DEF IInv
<1> DEFINE pos == CqPosition
<1>1. /\ CqPosition' = Next1(pos) /\ pos # dev.cqTail
      /\ sq'.tail = sq.tail /\ sq'.doorbell = sq.doorbell
      /\ UNCHANGED <<subq, cq, compq, dev>>
  <2>1. proc.running /\ NewEntry
    BY DEF ProcessCqEntry
  <2> QED
    BY <2>1, NewMeans DEF ProcessCqEntry, TypeOK, CqPosition
<1>2. pos \in Slot /\ dev.cqTail \in Slot
  BY Positions
<1>3. Answered # <<>> /\ Tail(Answered) = Read(Cids, Next1(pos), dev.cqTail)
  BY ZenonT(40), <1>1, <1>2, ReadShrinks DEF Answered
<1>4. Cids' = Cids
  BY <1>1 DEF Cids
<1>5. Answered' = Tail(Answered)
  BY <1>1, <1>3, <1>4 DEF Answered
<1>6. TypeOK /\ TypeOK'
  BY ProcessCqEntryOK
<1>7. (TypeOK => [i \in 1..Dist(CqPosition, dev.cqTail) |-> compq[At(CqPosition, i - 1)].cid]
                  = Answered)'
  BY AnsweredIs, PTL
<1>8. UNCHANGED <<[i \in 1..Dist(dev.sqHead, sq.tail) |-> subq[At(dev.sqHead, i - 1)]],
                   Dist(dev.sqHead, sq.doorbell), dev.executing>>
  BY <1>1
<1> QED
  BY <1>3, <1>5, <1>6, <1>7, <1>8, AnsweredIs DEF Queue!Deliver

LEMMA StopAndStartMaps == ASSUME IInv, StopAndStart PROVE Queue!Reset
<1>1. /\ dev'.sqHead = 0 /\ sq'.tail = 0 /\ sq'.doorbell = 0 /\ dev'.executing = {}
      /\ CqPosition' = 0 /\ dev'.cqTail = 0
  BY DEF StopAndStart, FreshSq, FreshCq, FreshDev, CqPosition
<1>2. Dist(0, 0) = 0
  BY QSizeAssumption DEF Dist
<1> QED
  BY <1>1, <1>2 DEF Queue!Reset

(* Where no entry moves, CommandQueue stutters.                            *)
LEMMA OthersStutter ==
  ASSUME IInv, IssueQueueFull \/ ProcessCqEnter \/ ProcessCqLeave \/ UNCHANGED vars
  PROVE  UNCHANGED Queue!qVars
<1>1. /\ sq'.tail = sq.tail /\ sq'.doorbell = sq.doorbell /\ CqPosition' = CqPosition
      /\ UNCHANGED <<subq, compq, dev>>
  <2>1. CASE IssueQueueFull
    BY <2>1 DEF IssueQueueFull, CqPosition, IInv, TypeOK
  <2>2. CASE ProcessCqEnter
    BY <2>2 DEF ProcessCqEnter, CqPosition
  <2>3. CASE ProcessCqLeave
    BY <2>3 DEF ProcessCqLeave, NotRunning, CqPosition
  <2>4. CASE UNCHANGED vars
    BY <2>4 DEF vars, CqPosition
  <2> QED
    BY <2>1, <2>2, <2>3, <2>4
<1> QED
  BY <1>1 DEF Queue!qVars

(* The two rings implement the abstract queues.                            *)
THEOREM ImplementsQueue == Spec => QueueSpec
<1>1. Init => Queue!QInit
  BY InitMaps
<1>2. IInv /\ [Next]_vars => [Queue!QNext]_(Queue!qVars)
  <2> SUFFICES ASSUME IInv, [Next]_vars PROVE [Queue!QNext]_(Queue!qVars)
    OBVIOUS
  <2>1. ASSUME NEW c \in Cmds, NEW fusedFirst \in BOOLEAN, Issue(c, fusedFirst)
        PROVE  Queue!QNext
    <3>1. (~fusedFirst) \in BOOLEAN
      <4>1. CASE fusedFirst = TRUE
        BY <4>1
      <4>2. CASE fusedFirst = FALSE
        BY <4>2
      <4> QED
        BY <2>1, <4>1, <4>2
    <3> QED
      BY <2>1, <3>1, IssueMaps DEF Queue!QNext
  <2>2. CASE DevFetch
    BY <2>2, DevFetchMaps DEF Queue!QNext
  <2>3. ASSUME NEW c \in Cmds, DevComplete(c) PROVE Queue!QNext
    BY <2>3, DevCompleteMaps DEF Queue!QNext
  <2>4. CASE ProcessCqEntry
    BY <2>4, ProcessCqEntryMaps DEF Queue!QNext
  <2>5. CASE StopAndStart
    BY <2>5, StopAndStartMaps DEF Queue!QNext
  <2>6. CASE IssueQueueFull \/ ProcessCqEnter \/ ProcessCqLeave \/ UNCHANGED vars
    BY <2>6, OthersStutter
  <2> QED
    BY <2>1, <2>2, <2>3, <2>4, <2>5, <2>6 DEF Next, ProcessCq
<1> QED
  BY <1>1, <1>2, IInvInvariant, PTL DEF Spec, QueueSpec, Queue!QSpec
=============================================================================
