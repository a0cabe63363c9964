---------------------------- MODULE EsxcliProofs ----------------------------
(***************************************************************************)
(* Proofs about the esxcli plugin.  The transfers: whatever the sizes of   *)
(* images, transfers, buffers and logs and whatever NumGens is, a firmware *)
(* image arrives whole, and a log in a file is of one version.  The        *)
(* namespace commands, for any number of namespaces, whatever fails, done  *)
(* or not, and whatever the host does: the invariant says for each step of *)
(* a command what the steps before it have established and nothing has     *)
(* undone since; the host changes nothing but who has claimed and uses a   *)
(* path.  The list of namespaces, of any two ascending lists of ids: the   *)
(* merge is a recursive function, and what it does is proved by taking a   *)
(* place nearest to the end of both lists for which it would be false.     *)
(***************************************************************************)
EXTENDS Esxcli, FiniteSetTheorems, WellFoundedInduction, TLAPS

(* The transfers are a behaviour of their own: nothing else moves them.    *)
LEMMA OnlyTransfers == ASSUME [Next]_vars PROVE [TrNext]_trVars
  BY DEF Next, vars, trVars

-----------------------------------------------------------------------------
Gens == 0..(NumGens - 1)
ImageSteps == {"alloc", "read", "send"}
LogSteps == {"open", "data", "write", "check"}
LogNames == {"host", "controller", "events"}

Piece == [at : Nat, from : Nat, length : Int]
Transfer ==
  [name : LogNames \cup {"none", "firmware", "commit"}, size : Nat, xfer : Nat,
   base : Nat, buf : Nat, offset : Nat, part : Nat, attempt : Nat,
   header : Gens, action : {"read", "establish", "release"},
   data : SUBSET Gens, success : BOOLEAN]

(* The types, and which transfer is at which step.                         *)
TrType ==
  /\ tr \in Transfer
  /\ trAt \in ImageSteps \cup LogSteps \cup {"out", "commit", "header"}
  /\ received \in Seq(Piece)
  /\ file \subseteq Gens /\ generation \in Gens /\ changes \in Gens
  /\ context \in BOOLEAN /\ committed \in BOOLEAN
  /\ tr.success => trAt = "out"
  /\ trAt \in ImageSteps => tr.name = "firmware" /\ tr.xfer > 0
  /\ trAt \in LogSteps \cup {"header"} => tr.name \in LogNames
  /\ trAt = "commit" => tr.name = "commit"

(* The generation number counts modulo NumGens.                            *)
LEMMA NextGeneration ==
  ASSUME NEW g \in Gens
  PROVE (g + 1) % NumGens = IF g + 1 = NumGens THEN 0 ELSE g + 1
  BY NumGensAssumption DEF Gens

(* Half a buffer, cut to whole transfers.                                  *)
LEMMA BufferType ==
  ASSUME NEW b \in Nat, NEW x \in Nat \ {0} PROVE SmallerBuffer(b, x) \in Nat
<1>1. b \div 2 \in Nat
  OBVIOUS
<1>2. ASSUME NEW c \in Nat PROVE (c \div x) * x \in Nat
  OBVIOUS
<1>3. QED
  BY <1>1, <1>2 DEF SmallerBuffer

LEMMA GensFacts ==
  0 \in Gens /\ {} \in SUBSET Gens /\ Gens \subseteq Nat /\ <<>> \in Seq(Piece)
  BY NumGensAssumption DEF Gens

(* What a step leaves of the transfer.                                     *)
Kept == tr' \in Transfer /\ tr'.name = tr.name /\ tr'.xfer = tr.xfer
LEMMA LogFields == ASSUME tr \in Transfer PROVE tr.header \in Gens /\ tr.data \subseteq Gens
  BY DEF Transfer
LEMMA SucceedKeeps == ASSUME tr \in Transfer, Succeed PROVE Kept /\ trAt' = "out"
  BY DEF Succeed, Give, Transfer, Kept
LEMMA UnchangedKeeps ==
  ASSUME tr \in Transfer, UNCHANGED tr PROVE Kept /\ tr'.success = tr.success
  BY DEF Kept

LEMMA NoTransferType == NoTransfer \in Transfer
  BY GensFacts DEF Transfer, NoTransfer

LEMMA TakeHeaderKeeps ==
  ASSUME tr \in Transfer, generation \in Gens, NEW size \in LogSizes, TakeHeader(size)
  PROVE Kept /\ tr'.success = tr.success /\ trAt' = "open"
<1>1. size \in Nat
  BY SizesAssumption
<1>2. QED
  BY <1>1, GensFacts DEF TakeHeader, Give, Transfer, Kept

(* The piece that the next command sends.                                  *)
InBuffer == MinOf(tr.buf, tr.size - tr.offset)
Length == MinOf(tr.xfer, InBuffer - tr.part)
NextPiece == [at |-> Dwords(tr.base + tr.offset + tr.part),
              from |-> tr.offset + tr.part, length |-> Dwords(Length)]
LEMMA NextPieceType == ASSUME tr \in Transfer PROVE NextPiece \in Piece
<1>1. ASSUME NEW n \in Int PROVE Dwords(n) \in Int /\ (n >= 0 => Dwords(n) \in Nat)
  BY DEF Dwords
<1>2. Length \in Int /\ tr.base + tr.offset + tr.part \in Nat /\ tr.offset + tr.part \in Nat
  BY DEF Transfer, Length, InBuffer, MinOf
<1>3. QED
  BY <1>1, <1>2 DEF NextPiece, Piece

LEMMA SendPieceSends ==
  ASSUME tr \in Transfer, received \in Seq(Piece), SendPiece
  PROVE /\ received' = Append(received, NextPiece) /\ received' \in Seq(Piece)
        /\ trAt = "send"
        /\ UNCHANGED <<file, generation, changes, context, committed>>
        /\ tr.part + tr.xfer < InBuffer =>
             trAt' = "send" /\ tr' = [tr EXCEPT !.part = @ + tr.xfer]
        /\ ~(tr.part + tr.xfer < InBuffer) =>
             trAt' = "read" /\ tr' = [tr EXCEPT !.offset = @ + tr.buf]
<1>1. NextPiece \in Piece
  BY NextPieceType
<1>2. received' = Append(received, NextPiece)
  BY DEF SendPiece, NextPiece, Length, InBuffer
<1>3. received' \in Seq(Piece)
  BY <1>1, <1>2
<1>4. QED
  BY <1>2, <1>3 DEF SendPiece, InBuffer, Give

LEMMA BeginCommitType ==
  ASSUME NEW t, t = [NoTransfer EXCEPT !.name = "commit"]
  PROVE t \in Transfer /\ t.name = "commit" /\ ~t.success
  BY GensFacts DEF NoTransfer, Transfer
LEMMA BeginLogType ==
  ASSUME NEW name \in LogNames, NEW action \in {"read", "establish", "release"},
         NEW t, t = [NoTransfer EXCEPT !.name = name, !.action = action]
  PROVE t \in Transfer /\ t.name = name /\ ~t.success
  BY GensFacts DEF NoTransfer, Transfer
LEMMA TrTypeInit == ASSUME TrInit PROVE TrType
<1>1. /\ tr \in Transfer /\ ~tr.success
      /\ trAt = "out" /\ file \subseteq Gens /\ generation \in Gens /\ changes \in Gens
      /\ context \in BOOLEAN /\ committed \in BOOLEAN
  BY NoTransferType, GensFacts DEF TrInit, NoTransfer
<1>2. received \in Seq(Piece)
  BY DEF TrInit
<1>3. QED
  BY <1>1, <1>2 DEF TrType, ImageSteps, LogSteps

LEMMA TrTypeNext == ASSUME TrType, [TrNext]_trVars PROVE TrType'
<1> USE GensFacts DEF TrType, ImageSteps, LogSteps, Kept
<1>1. CASE TrFails
  BY <1>1 DEF TrFails
<1>2. CASE AllocateBuffer
  <2> DEFINE buf == SmallerBuffer(tr.buf, tr.xfer)
  <2>1. buf \in Nat
    BY <1>2, BufferType DEF AllocateBuffer, Transfer
  <2>2. CASE trAt' = "read" /\ UNCHANGED tr
    BY <1>2, <2>2 DEF AllocateBuffer
  <2>3. CASE trAt' = (IF buf >= tr.xfer THEN "alloc" ELSE "out")
             /\ tr' = [tr EXCEPT !.buf = buf]
    <3> HIDE DEF buf
    <3>1. tr' \in Transfer /\ tr'.name = tr.name /\ tr'.xfer = tr.xfer
          /\ tr'.success = tr.success
      BY <2>1, <2>3 DEF Transfer
    <3> QED
      BY <1>2, <2>3, <3>1 DEF AllocateBuffer
  <2>4. QED
    BY <1>2, <2>2, <2>3 DEF AllocateBuffer, Give
<1>3. CASE ReadImage
  <2>1. CASE tr.offset < tr.size
    <3>1. Kept /\ tr'.success = tr.success /\ trAt' = "send"
      BY <1>3, <2>1 DEF ReadImage, Give, Transfer
    <3>2. QED
      BY <1>3, <2>1, <3>1 DEF ReadImage
  <2>2. CASE ~(tr.offset < tr.size)
    <3>1. Kept /\ trAt' = "out"
      BY <1>3, <2>2, SucceedKeeps DEF ReadImage
    <3>2. QED
      BY <1>3, <2>2, <3>1 DEF ReadImage
  <2>3. QED
    BY <2>1, <2>2
<1>4. CASE SendPiece
  <2>1. CASE tr.part + tr.xfer < InBuffer
    <3>1. trAt' = "send" /\ tr' = [tr EXCEPT !.part = @ + tr.xfer]
      BY <1>4, <2>1, SendPieceSends
    <3>2. tr.part + tr.xfer \in Nat /\ tr.offset + tr.buf \in Nat
      BY DEF Transfer
    <3>3. Kept /\ tr'.success = tr.success
      BY <3>1, <3>2 DEF Transfer
    <3>4. QED
      BY <1>4, <3>1, <3>3, SendPieceSends
  <2>2. CASE ~(tr.part + tr.xfer < InBuffer)
    <3>1. trAt' = "read" /\ tr' = [tr EXCEPT !.offset = @ + tr.buf]
      BY <1>4, <2>2, SendPieceSends
    <3>2. tr.part + tr.xfer \in Nat /\ tr.offset + tr.buf \in Nat
      BY DEF Transfer
    <3>3. Kept /\ tr'.success = tr.success
      BY <3>1, <3>2 DEF Transfer
    <3>4. QED
      BY <1>4, <3>1, <3>3, SendPieceSends
  <2>3. QED
    BY <2>1, <2>2
<1>5. CASE OpenFile
  <2>1. CASE tr.size # 0
    <3>1. Kept /\ tr'.success = tr.success /\ trAt' = "data"
      BY <1>5, <2>1 DEF OpenFile, Give, Transfer
    <3>2. QED
      BY <1>5, <2>1, <3>1, LogFields DEF OpenFile
  <2>2. CASE tr.size = 0
    <3>1. Kept /\ trAt' = "out"
      BY <1>5, <2>2, SucceedKeeps DEF OpenFile
    <3>2. QED
      BY <1>5, <2>2, <3>1, LogFields DEF OpenFile
  <2>3. QED
    BY <2>1, <2>2
<1>6. CASE ReadData
  <2>1. tr' = [tr EXCEPT !.part = tr.part + 1, !.data = tr.data \cup {generation}]
        /\ tr.part + 1 \in Nat /\ tr.data \cup {generation} \subseteq Gens
    BY <1>6 DEF ReadData, Give, Transfer
  <2>2. Kept /\ tr'.success = tr.success
    BY <2>1 DEF Transfer
  <2>3. trAt' \in {"data", "write"}
    BY <1>6 DEF ReadData
  <2>4. QED
    BY <1>6, <2>2, <2>3 DEF ReadData
<1>7. CASE WriteFile
  <2>1. CASE tr.name = "controller"
    <3>1. Kept /\ tr'.success = tr.success /\ trAt' = "check"
      BY <1>7, <2>1 DEF WriteFile, Give, Transfer
    <3>2. QED
      BY <1>7, <2>1, <3>1, LogFields DEF WriteFile
  <2>2. CASE tr.name # "controller"
    <3>1. Kept /\ trAt' = "out"
      BY <1>7, <2>2, SucceedKeeps DEF WriteFile
    <3>2. QED
      BY <1>7, <2>2, <3>1, LogFields DEF WriteFile
  <2>3. QED
    BY <2>1, <2>2
<1>8. CASE CheckGeneration
  <2>1. CASE generation # tr.header
    <3>1. Kept /\ tr'.success = tr.success /\ trAt' = "header"
      BY <1>8, <2>1 DEF CheckGeneration, Give, Transfer
    <3>2. QED
      BY <1>8, <2>1, <3>1 DEF CheckGeneration
  <2>2. CASE generation = tr.header
    <3>1. Kept /\ trAt' = "out"
      BY <1>8, <2>2, SucceedKeeps DEF CheckGeneration
    <3>2. QED
      BY <1>8, <2>2, <3>1 DEF CheckGeneration
  <2>3. QED
    BY <2>1, <2>2
<1>9. ASSUME NEW status \in CommitStatuses, NEW seen \in CommitStatuses,
             NEW failed \in BOOLEAN, FWActivate(status, failed, seen)
      PROVE TrType'
  <2>1. trAt' = "out" /\ Kept
    BY <1>9, SucceedKeeps, UnchangedKeeps DEF FWActivate
  <2>2. QED
    BY <1>9, <2>1 DEF FWActivate
<1>10. ASSUME NEW size \in LogSizes, ReadHeader(size) PROVE TrType'
  <2>1. Kept /\ tr'.success = tr.success /\ trAt' = "open"
    BY <1>10, TakeHeaderKeeps DEF ReadHeader
  <2>2. QED
    BY <1>10, <2>1 DEF ReadHeader
<1>11. ASSUME NEW size \in LogSizes, ReadEventHeader(size) PROVE TrType'
  <2>1. context' \in BOOLEAN
    BY <1>11 DEF ReadEventHeader
  <2>2. CASE tr.action = "release"
    BY <1>11, <2>1, <2>2, SucceedKeeps DEF ReadEventHeader
  <2>3. CASE tr.action # "release"
    <3>1. Kept /\ tr'.success = tr.success /\ trAt' = "open"
      BY <1>11, <2>3, TakeHeaderKeeps DEF ReadEventHeader
    <3>2. QED
      BY <1>11, <2>1, <3>1 DEF ReadEventHeader
  <2>4. QED
    BY <2>2, <2>3
<1>12. CASE NewGeneration
  <2>1. generation' \in Gens /\ changes' \in Gens
    BY <1>12, NextGeneration, NumGensAssumption DEF NewGeneration, Gens
  <2>2. QED
    BY <1>12, <2>1 DEF NewGeneration
<1>13. CASE BeginCommit
  <2>1. tr' \in Transfer /\ tr'.name = "commit" /\ ~tr'.success
    BY <1>13, BeginCommitType DEF BeginCommit, TrBegin, Give
  <2>2. QED
    BY <1>13, <2>1 DEF BeginCommit, TrBegin
<1>14. ASSUME NEW size \in ImageSizes, NEW xfer \in XferSizes, NEW base \in Offsets,
              BeginDownload(size, xfer, base)
       PROVE TrType'
  <2>1. MinOf(xfer, size) \in Nat /\ MinOf(xfer, size) > 0
    BY <1>14, SizesAssumption DEF BeginDownload, MinOf
  <2>2. tr' \in Transfer /\ tr'.name = "firmware" /\ tr'.xfer > 0 /\ ~tr'.success
    <3>1. size \in Nat /\ base \in Nat
      BY SizesAssumption
    <3>2. tr' = [NoTransfer EXCEPT !.name = "firmware", !.size = size, !.base = base,
                                   !.xfer = MinOf(xfer, size), !.buf = size]
      BY <1>14 DEF BeginDownload, TrBegin, Give
    <3>3. tr' \in Transfer /\ tr'.name = "firmware" /\ tr'.xfer = MinOf(xfer, size)
          /\ ~tr'.success
      <4> DEFINE x == MinOf(xfer, size)
      <4>1. x \in Nat
        BY <2>1
      <4> HIDE DEF x
      <4>2. tr' = [NoTransfer EXCEPT !.name = "firmware", !.size = size, !.base = base,
                                     !.xfer = x, !.buf = size]
        BY <3>2 DEF x
      <4>3. tr' \in Transfer /\ tr'.name = "firmware" /\ tr'.xfer = x /\ ~tr'.success
        BY <3>1, <4>1, <4>2, GensFacts DEF NoTransfer, Transfer
      <4>4. QED
        BY <4>3 DEF x
    <3>4. QED
      BY <2>1, <3>3
  <2>3. QED
    BY <1>14, <2>2 DEF BeginDownload, TrBegin
<1>15. ASSUME NEW name \in LogNames, NEW action \in {"read", "establish", "release"},
              BeginLog(name, action)
       PROVE TrType'
  <2>1. tr' \in Transfer /\ tr'.name = name /\ ~tr'.success
    BY <1>15, BeginLogType DEF BeginLog, TrBegin, Give
  <2>2. QED
    BY <1>15, <2>1 DEF BeginLog, TrBegin
<1>16. CASE UNCHANGED trVars
  BY <1>16 DEF trVars
<1>17. QED
  BY <1>1, <1>2, <1>3, <1>4, <1>5, <1>6, <1>7, <1>8, <1>9, <1>10, <1>11, <1>12,
     <1>13, <1>14, <1>15, <1>16
  DEF TrNext, TrStep, LogNames

(* The transfers keep their types.                                         *)
LEMMA TrTypes == Spec => []TrType
<1>1. Init => TrType
  BY TrTypeInit DEF Init
<1>2. TrType /\ [Next]_vars => TrType'
  BY TrTypeNext, OnlyTransfers
<1>3. QED
  BY <1>1, <1>2, PTL DEF Spec

-----------------------------------------------------------------------------
(* What a log that is read knows of the device's.  The device's generation *)
(* is the header's and as many changes as there were, so that it is the    *)
(* same only if there was none; and what was read without a change is of   *)
(* the header's generation.  With a context there is no change.            *)
Advanced(g, k) == IF g + k < NumGens THEN g + k ELSE g + k - NumGens
LogFollows ==
  /\ trAt \in LogSteps => generation = Advanced(tr.header, changes)
  /\ trAt \in LogSteps /\ tr.name = "events" => context /\ changes = 0
  /\ trAt \in LogSteps /\ changes = 0 => tr.data \subseteq {tr.header}
  /\ trAt \in LogSteps \ {"open"} /\ changes = 0 => file = {tr.header}
LogTold ==
  tr.success /\ tr.name \in {"controller", "events"} /\ tr.action # "release" =>
    file = {tr.header}

(* Success keeps all but the telling of it.                                *)
LEMMA SucceedTells ==
  ASSUME tr \in Transfer, Succeed
  PROVE /\ tr'.name = tr.name /\ tr'.action = tr.action /\ tr'.header = tr.header
        /\ trAt' = "out"
  BY DEF Succeed, Give, Transfer

LEMMA LogStep ==
  ASSUME TrType, LogFollows, [TrNext]_trVars PROVE LogFollows'
<1> USE DEF LogSteps, LogFollows
<1>0. tr \in Transfer /\ tr.header \in Gens /\ changes \in Gens /\ generation \in Gens
      /\ tr.data \subseteq Gens /\ TrType'
  BY LogFields, TrTypeNext DEF TrType
<1>1. CASE trAt' \notin LogSteps
  BY <1>1
<1>2. CASE OpenFile
  BY <1>1, <1>2 DEF OpenFile, Succeed
<1>3. CASE ReadData
  <2>1. tr' = [tr EXCEPT !.part = tr.part + 1, !.data = tr.data \cup {generation}]
    BY <1>3 DEF ReadData, Give
  <2>2. tr'.header = tr.header /\ tr'.name = tr.name
        /\ tr'.data = tr.data \cup {generation}
    BY <1>0, <2>1 DEF Transfer
  <2>3. changes = 0 => generation = tr.header
    BY <1>0, <1>3, NumGensAssumption DEF ReadData, Advanced, Gens
  <2>4. QED
    BY <1>3, <2>2, <2>3 DEF ReadData
<1>4. CASE WriteFile
  BY <1>1, <1>4 DEF WriteFile, Succeed
<1>5. CASE CheckGeneration
  BY <1>1, <1>5 DEF CheckGeneration, Succeed
<1>6. ASSUME NEW size \in LogSizes, ReadHeader(size) \/ ReadEventHeader(size)
      PROVE LogFollows'
  <2>1. CASE Succeed
    BY <1>1, <2>1 DEF Succeed
  <2>2. CASE TakeHeader(size)
    <3>1. tr'.header = generation /\ tr'.data = {} /\ tr'.name = tr.name
          /\ tr'.action = tr.action /\ trAt' = "open"
      BY <1>0, <2>2 DEF TakeHeader, Give, Transfer
    <3>2. changes' = 0 /\ generation' = generation
      BY <1>6 DEF ReadHeader, ReadEventHeader
    <3>3. tr.name = "events" => context'
      BY <1>6, <2>2, <3>1 DEF ReadHeader, ReadEventHeader, Succeed, TakeHeader
    <3>4. generation = Advanced(generation, 0)
      BY <1>0, NumGensAssumption DEF Advanced, Gens
    <3>5. QED
      BY <3>1, <3>2, <3>3, <3>4
  <2>3. QED
    BY <1>6, <2>1, <2>2 DEF ReadHeader, ReadEventHeader
<1>7. CASE NewGeneration
  <2>1. ASSUME trAt \in LogSteps
        PROVE generation' = Advanced(tr.header, changes') /\ changes' # 0
              /\ tr.name # "events"
    <3>1. generation' = IF generation + 1 = NumGens THEN 0 ELSE generation + 1
      BY <1>0, <1>7, NextGeneration DEF NewGeneration
    <3>2. changes' = changes + 1 /\ changes < NumGens - 1
      BY <1>7 DEF NewGeneration
    <3>3. QED
      BY <1>0, <1>7, <2>1, <3>1, <3>2, NumGensAssumption
      DEF NewGeneration, Advanced, Gens
  <2>2. trAt' = trAt /\ tr' = tr
    BY <1>7 DEF NewGeneration
  <2>3. QED
    BY <2>1, <2>2
<1>8. CASE UNCHANGED trVars
  BY <1>8 DEF trVars
<1>9. CASE TrFails \/ AllocateBuffer \/ ReadImage \/ SendPiece
            \/ \E status, seen \in CommitStatuses, failed \in BOOLEAN :
                 FWActivate(status, failed, seen)
  BY <1>1, <1>9
  DEF TrFails, AllocateBuffer, ReadImage, SendPiece, FWActivate, Succeed
<1>10. CASE \/ BeginCommit
            \/ \E size \in ImageSizes, xfer \in XferSizes, base \in Offsets :
                 BeginDownload(size, xfer, base)
            \/ \E name \in LogNames, action \in {"read", "establish", "release"} :
                 BeginLog(name, action)
  BY <1>1, <1>10 DEF BeginCommit, BeginDownload, BeginLog, TrBegin
<1>11. QED
  BY <1>2, <1>3, <1>4, <1>5, <1>6, <1>7, <1>8, <1>9, <1>10 DEF TrNext, TrStep, LogNames

LEMMA LogTells ==
  ASSUME TrType, LogFollows, LogTold, [TrNext]_trVars PROVE LogTold'
<1> USE DEF LogSteps, LogFollows, LogTold
<1>0. tr \in Transfer /\ tr.header \in Gens /\ changes \in Gens /\ generation \in Gens
      /\ tr.data \subseteq Gens /\ TrType'
  BY LogFields, TrTypeNext DEF TrType
<1>1. CASE ~tr'.success
  BY <1>1
<1>2. CASE OpenFile
  <2>1. CASE Succeed
    BY <1>0, <1>2, <2>1, SucceedTells DEF OpenFile
  <2>2. CASE ~Succeed
    BY <1>0, <1>1, <1>2, <2>2 DEF OpenFile, TrType
  <2>3. QED
    BY <2>1, <2>2
<1>3. CASE WriteFile
  <2>1. CASE tr.name = "controller"
    BY <1>0, <1>1, <1>3, <2>1 DEF WriteFile, TrType
  <2>2. CASE tr.name # "controller"
    <3>1. Succeed /\ file' = file \cup tr.data
      BY <1>3, <2>2 DEF WriteFile
    <3>2. tr.name = "events" => file' = {tr.header}
      BY <1>3, <3>1 DEF WriteFile
    <3>3. QED
      BY <1>0, <2>2, <3>1, <3>2, SucceedTells
  <2>3. QED
    BY <2>1, <2>2
<1>4. CASE CheckGeneration
  <2>1. CASE generation = tr.header
    <3>1. changes = 0
      BY <1>0, <1>4, <2>1, NumGensAssumption DEF CheckGeneration, Advanced, Gens
    <3>2. file' = {tr.header} /\ Succeed
      BY <1>4, <2>1, <3>1 DEF CheckGeneration
    <3>3. QED
      BY <1>0, <3>2, SucceedTells
  <2>2. CASE generation # tr.header
    BY <1>0, <1>1, <1>4, <2>2 DEF CheckGeneration, TrType
  <2>3. QED
    BY <2>1, <2>2
<1>5. ASSUME NEW size \in LogSizes, ReadEventHeader(size) PROVE LogTold'
  <2>1. CASE tr.action = "release"
    BY <1>0, <1>5, <2>1, SucceedTells DEF ReadEventHeader
  <2>2. CASE tr.action # "release"
    BY <1>0, <1>1, <1>5, <2>2 DEF ReadEventHeader, TakeHeader, TrType
  <2>3. QED
    BY <2>1, <2>2
<1>6. CASE ReadImage
  <2>1. CASE Succeed
    BY <1>0, <1>6, <2>1, SucceedTells DEF ReadImage, TrType, ImageSteps
  <2>2. CASE ~Succeed
    BY <1>0, <1>1, <1>6, <2>2 DEF ReadImage, TrType
  <2>3. QED
    BY <2>1, <2>2
<1>7. ASSUME NEW status \in CommitStatuses, NEW seen \in CommitStatuses,
             NEW failed \in BOOLEAN, FWActivate(status, failed, seen)
      PROVE LogTold'
  <2>1. CASE seen = "needsReset" \/ (seen = "done" /\ ~failed)
    BY <1>0, <1>7, <2>1, SucceedTells DEF FWActivate, TrType
  <2>2. CASE ~(seen = "needsReset" \/ (seen = "done" /\ ~failed))
    BY <1>7, <2>2 DEF FWActivate, TrType
  <2>3. QED
    BY <2>1, <2>2
<1>8. CASE trAt' # "out"
  BY <1>0, <1>1, <1>8 DEF TrType
<1>9. CASE TrFails \/ AllocateBuffer
  <2>1. tr'.success = tr.success \/ trAt' # "out"
    BY <1>0, <1>9 DEF TrFails, AllocateBuffer, Give, Transfer
  <2>2. QED
    BY <1>8, <1>9, <2>1 DEF TrFails, AllocateBuffer, TrType
<1>10. CASE UNCHANGED trVars
  BY <1>10 DEF trVars
<1>11. CASE NewGeneration
  BY <1>8, <1>11 DEF NewGeneration, TrIdle
<1>12. CASE SendPiece \/ ReadData \/ \E size \in LogSizes : ReadHeader(size)
  BY <1>8, <1>12 DEF SendPiece, ReadData, ReadHeader, TakeHeader
<1>13. CASE \/ BeginCommit
            \/ \E size \in ImageSizes, xfer \in XferSizes, base \in Offsets :
                 BeginDownload(size, xfer, base)
            \/ \E name \in LogNames, action \in {"read", "establish", "release"} :
                 BeginLog(name, action)
  BY <1>8, <1>13 DEF BeginCommit, BeginDownload, BeginLog, TrBegin
<1>14. QED
  BY <1>2, <1>3, <1>4, <1>5, <1>6, <1>7, <1>9, <1>10, <1>11, <1>12, <1>13
  DEF TrNext, TrStep, LogNames

(* A file for which success is told holds one version of the log, whenever *)
(* the controller makes a new one, fewer than NumGens in one attempt, and  *)
(* whatever the size of the log.                                           *)
THEOREM LogOfOneVersionHolds == Spec => []LogOfOneVersion
<1>1. Init => LogFollows /\ LogTold
  BY DEF Init, TrInit, LogFollows, LogTold, LogSteps, NoTransfer
<1>2. TrType /\ LogFollows /\ LogTold /\ [Next]_vars => (LogFollows /\ LogTold)'
  BY LogStep, LogTells, OnlyTransfers
<1>3. LogTold => LogOfOneVersion
  BY DEF LogTold, LogOfOneVersion
<1>4. QED
  BY <1>1, <1>2, <1>3, TrTypes, PTL DEF Spec

-----------------------------------------------------------------------------
(* Multiples of a dword.                                                   *)
LEMMA DwordsOfMultiple ==
  ASSUME NEW n \in Nat, n % 4 = 0 PROVE Dwords(n) = n
  BY DEF Dwords

LEMMA MultiplesClosed ==
  ASSUME NEW a \in Int, NEW b \in Int, a % 4 = 0, b % 4 = 0
  PROVE (a + b) % 4 = 0 /\ (a - b) % 4 = 0 /\ MinOf(a, b) % 4 = 0
  BY DEF MinOf

LEMMA LengthOfMultiples ==
  ASSUME NEW x \in Nat, NEW n \in Nat, NEW p \in Nat, p < n,
         x % 4 = 0, n % 4 = 0, p % 4 = 0
  PROVE MinOf(x, n - p) \in Nat /\ MinOf(x, n - p) % 4 = 0
<1>1. (n - p) % 4 = 0
  BY MultiplesClosed
<1>2. MinOf(x, n - p) % 4 = 0
  BY <1>1, MultiplesClosed
<1>3. MinOf(x, n - p) \in Nat
  BY DEF MinOf
<1>4. QED
  BY <1>2, <1>3

LEMMA MultipleOfMultiple ==
  ASSUME NEW k \in Nat, NEW x \in Nat, x % 4 = 0 PROVE (k * x) % 4 = 0
<1>1. PICK m \in Nat : x = 4 * m
  <2>1. x = 4 * (x \div 4) /\ x \div 4 \in Nat
    OBVIOUS
  <2>2. QED
    BY <2>1
<1>2. k * x = 4 * (k * m) /\ k * m \in Nat
  BY <1>1
<1>3. ASSUME NEW y \in Nat PROVE (4 * y) % 4 = 0
  OBVIOUS
<1>4. QED
  BY <1>2, <1>3

LEMMA SmallerBufferDwords ==
  ASSUME NEW b \in Nat, NEW x \in Nat \ {0}, x % 4 = 0
  PROVE SmallerBuffer(b, x) % 4 = 0
<1>1. (b \div 2) \div x \in Nat
  <2>1. b \div 2 \in Nat
    OBVIOUS
  <2>2. ASSUME NEW c \in Nat PROVE c \div x \in Nat
    OBVIOUS
  <2>3. QED
    BY <2>1, <2>2
<1>2. (((b \div 2) \div x) * x) % 4 = 0
  BY <1>1, MultipleOfMultiple
<1>3. QED
  BY <1>2 DEF SmallerBuffer

(* Pieces that follow one another from the first byte of an image.         *)
Chain(r, base) ==
  \A i \in DOMAIN r :
    LET from == IF i = 1 THEN 0 ELSE r[i - 1].from + r[i - 1].length
    IN r[i].from = from /\ r[i].at = base + from
End(r) == IF r = <<>> THEN 0 ELSE r[Len(r)].from + r[Len(r)].length

LEMMA ChainAppend ==
  ASSUME NEW r \in Seq(Piece), NEW base \in Nat, NEW p \in Piece, Chain(r, base),
         p.from = End(r), p.at = base + p.from
  PROVE /\ Chain(Append(r, p), base)
        /\ End(Append(r, p)) = p.from + p.length
<1> DEFINE s == Append(r, p)
<1>1. Len(s) = Len(r) + 1 /\ s[Len(r) + 1] = p /\ DOMAIN s = 1..(Len(r) + 1)
      /\ \A i \in 1..Len(r) : s[i] = r[i]
  OBVIOUS
<1>2. s # <<>> /\ Len(r) \in Nat /\ DOMAIN r = 1..Len(r) /\ (r = <<>> <=> Len(r) = 0)
  OBVIOUS
<1> HIDE DEF s
<1>3. ASSUME NEW i \in 1..Len(r)
      PROVE LET from == IF i = 1 THEN 0 ELSE s[i - 1].from + s[i - 1].length
            IN s[i].from = from /\ s[i].at = base + from
  BY <1>1, <1>2 DEF Chain
<1>4. LET n == Len(r) + 1
          from == IF n = 1 THEN 0 ELSE s[n - 1].from + s[n - 1].length
      IN s[n].from = from /\ s[n].at = base + from
  BY <1>1, <1>2 DEF End
<1>5. Chain(s, base)
  <2>1. SUFFICES ASSUME NEW i \in 1..(Len(r) + 1)
                 PROVE LET from == IF i = 1 THEN 0 ELSE s[i - 1].from + s[i - 1].length
                       IN s[i].from = from /\ s[i].at = base + from
    BY <1>1 DEF Chain
  <2>2. i \in 1..Len(r) \/ i = Len(r) + 1
    BY <1>2
  <2>3. QED
    BY <2>2, <1>3, <1>4
<1>6. End(s) = p.from + p.length
  BY <1>1, <1>2 DEF End
<1>7. QED
  BY <1>5, <1>6 DEF s

(* How far a download has come.  The numbers are multiples of a dword, a   *)
(* buffer holds a transfer at least, and what was sent ends where the next *)
(* piece begins.                                                           *)
FwNumbers ==
  trAt \in ImageSteps =>
    /\ tr.size > 0 /\ tr.size % 4 = 0 /\ tr.base % 4 = 0
    /\ tr.buf >= tr.xfer
    /\ tr.xfer % 4 = 0 => tr.buf % 4 = 0 /\ tr.offset % 4 = 0 /\ tr.part % 4 = 0
    /\ trAt = "alloc" => tr.offset = 0 /\ received = <<>>
    /\ trAt = "send" => tr.offset < tr.size /\ tr.part < InBuffer
Position == IF trAt = "send" THEN tr.offset + tr.part ELSE MinOf(tr.offset, tr.size)
FwPieces ==
  trAt \in ImageSteps /\ tr.xfer % 4 = 0 =>
    Chain(received, tr.base) /\ End(received) = Position
FwTold ==
  tr.success /\ tr.name = "firmware" /\ tr.xfer % 4 = 0 =>
    Chain(received, tr.base) /\ received # <<>> /\ End(received) = tr.size
FwInv == FwNumbers /\ FwPieces /\ FwTold

LEMMA FwAllocate == ASSUME TrType, FwInv, AllocateBuffer PROVE FwInv'
<1> DEFINE buf == SmallerBuffer(tr.buf, tr.xfer)
<1>0. tr \in Transfer /\ tr.buf \in Nat /\ tr.xfer \in Nat \ {0} /\ trAt = "alloc"
      /\ tr.offset \in Nat /\ tr.size \in Nat /\ received' = received /\ ~tr.success
  BY DEF TrType, AllocateBuffer, Transfer, ImageSteps
<1>1. buf \in Nat /\ (tr.xfer % 4 = 0 => buf % 4 = 0)
  BY <1>0, BufferType, SmallerBufferDwords
<1>2. CASE trAt' = "read" /\ UNCHANGED tr
  BY <1>0, <1>2 DEF FwInv, FwNumbers, FwPieces, FwTold, Position, ImageSteps
<1>3. CASE trAt' = (IF buf >= tr.xfer THEN "alloc" ELSE "out")
           /\ tr' = [tr EXCEPT !.buf = buf]
  <2> HIDE DEF buf
  <2>1. /\ tr'.buf = buf /\ tr'.xfer = tr.xfer /\ tr'.size = tr.size
        /\ tr'.base = tr.base /\ tr'.offset = tr.offset /\ tr'.part = tr.part
        /\ ~tr'.success
    BY <1>0, <1>3 DEF Transfer
  <2>2. FwNumbers'
    BY <1>0, <1>1, <1>3, <2>1 DEF FwInv, FwNumbers, ImageSteps
  <2>3. FwPieces'
    BY <1>0, <1>3, <2>1 DEF FwInv, FwPieces, Position, ImageSteps
  <2>4. QED
    BY <2>1, <2>2, <2>3 DEF FwInv, FwTold
<1>4. QED
  BY <1>2, <1>3 DEF AllocateBuffer, Give

LEMMA FwRead == ASSUME TrType, FwInv, ReadImage PROVE FwInv'
<1>0. /\ tr \in Transfer /\ tr.buf \in Nat /\ tr.xfer \in Nat \ {0} /\ trAt = "read"
      /\ tr.offset \in Nat /\ tr.size \in Nat /\ received' = received /\ ~tr.success
  BY DEF TrType, ReadImage, Transfer, ImageSteps
<1>1. CASE tr.offset < tr.size
  <2>1. trAt' = "send" /\ tr' = [tr EXCEPT !.part = 0]
    BY <1>1 DEF ReadImage, Give
  <2>2. /\ tr'.buf = tr.buf /\ tr'.xfer = tr.xfer /\ tr'.size = tr.size
        /\ tr'.base = tr.base /\ tr'.offset = tr.offset /\ tr'.part = 0
        /\ ~tr'.success
    BY <1>0, <2>1 DEF Transfer
  <2>3. FwNumbers'
    BY <1>0, <1>1, <2>1, <2>2 DEF FwInv, FwNumbers, ImageSteps, InBuffer, MinOf
  <2>4. FwPieces'
    BY <1>0, <1>1, <2>1, <2>2 DEF FwInv, FwPieces, Position, ImageSteps, MinOf
  <2>5. QED
    BY <2>2, <2>3, <2>4 DEF FwInv, FwTold
<1>2. CASE ~(tr.offset < tr.size)
  <2>1. trAt' = "out" /\ tr' = [tr EXCEPT !.success = TRUE]
    BY <1>2 DEF ReadImage, Succeed, Give
  <2>2. /\ tr'.xfer = tr.xfer /\ tr'.size = tr.size /\ tr'.base = tr.base
    BY <1>0, <2>1 DEF Transfer
  <2>3. Position = tr.size /\ tr.size > 0
    BY <1>0, <1>2 DEF Position, MinOf, FwInv, FwNumbers, ImageSteps
  <2>4. tr.xfer % 4 = 0 =>
          Chain(received, tr.base) /\ End(received) = tr.size /\ received # <<>>
    BY <1>0, <2>3 DEF FwInv, FwPieces, ImageSteps, End
  <2>5. QED
    BY <1>0, <2>1, <2>2, <2>4 DEF FwInv, FwNumbers, FwPieces, FwTold, ImageSteps
<1>3. QED
  BY <1>1, <1>2

LEMMA FwSend == ASSUME TrType, FwInv, SendPiece PROVE FwInv'
<1>0. /\ tr \in Transfer /\ tr.buf \in Nat /\ tr.xfer \in Nat \ {0} /\ trAt = "send"
      /\ tr.offset \in Nat /\ tr.size \in Nat /\ tr.base \in Nat /\ tr.part \in Nat
      /\ received \in Seq(Piece) /\ ~tr.success
  BY DEF TrType, SendPiece, Transfer, ImageSteps
<1>1. /\ tr.size > 0 /\ tr.size % 4 = 0 /\ tr.base % 4 = 0 /\ tr.buf >= tr.xfer
      /\ tr.offset < tr.size /\ tr.part < InBuffer
      /\ tr.xfer % 4 = 0 => tr.buf % 4 = 0 /\ tr.offset % 4 = 0 /\ tr.part % 4 = 0
  BY <1>0 DEF FwInv, FwNumbers, ImageSteps
<1>2. received' = Append(received, NextPiece) /\ NextPiece \in Piece
  BY <1>0, SendPieceSends, NextPieceType
<1>3. /\ NextPiece.from = tr.offset + tr.part
      /\ NextPiece.at = Dwords(tr.base + tr.offset + tr.part)
      /\ NextPiece.length = Dwords(Length)
  BY DEF NextPiece
<1>4. ASSUME tr.xfer % 4 = 0
      PROVE Chain(received', tr.base)
            /\ End(received') = tr.offset + tr.part + Length
  <2>1. InBuffer \in Nat /\ InBuffer % 4 = 0
    <3>1. (tr.size - tr.offset) % 4 = 0
      BY <1>0, <1>1, <1>4, MultiplesClosed
    <3>2. MinOf(tr.buf, tr.size - tr.offset) % 4 = 0
      BY SMTT(30), <1>0, <1>1, <1>4, <3>1, MultiplesClosed
    <3>3. MinOf(tr.buf, tr.size - tr.offset) \in Nat
      BY <1>0, <1>1 DEF MinOf
    <3>4. QED
      BY <3>2, <3>3 DEF InBuffer
  <2>2. Length \in Nat /\ Length % 4 = 0
    BY ZenonT(40), <1>0, <1>1, <1>4, <2>1, LengthOfMultiples DEF Length
  <2>3. (tr.base + tr.offset + tr.part) % 4 = 0
    <3>1. (tr.base + tr.offset) % 4 = 0
      BY <1>0, <1>1, <1>4, MultiplesClosed
    <3>2. QED
      BY SMTT(30), <1>0, <1>1, <1>4, <3>1, MultiplesClosed
  <2>4. NextPiece.at = tr.base + NextPiece.from /\ NextPiece.length = Length
    BY <1>0, <1>3, <2>2, <2>3, DwordsOfMultiple
  <2>5. Chain(received, tr.base) /\ NextPiece.from = End(received)
    BY <1>0, <1>3, <1>4 DEF FwInv, FwPieces, Position, ImageSteps
  <2>6. QED
    BY <1>0, <1>2, <1>3, <2>4, <2>5, ChainAppend
<1>5. CASE tr.part + tr.xfer < InBuffer
  <2>1. trAt' = "send" /\ tr' = [tr EXCEPT !.part = @ + tr.xfer]
    BY <1>0, <1>5, SendPieceSends
  <2>2. /\ tr'.buf = tr.buf /\ tr'.xfer = tr.xfer /\ tr'.size = tr.size
        /\ tr'.base = tr.base /\ tr'.offset = tr.offset /\ tr'.part = tr.part + tr.xfer
        /\ ~tr'.success
    BY <1>0, <2>1 DEF Transfer
  <2>3. FwNumbers'
    <3>1. tr.xfer % 4 = 0 => (tr.part + tr.xfer) % 4 = 0
      BY <1>0, <1>1, MultiplesClosed
    <3>2. InBuffer' = InBuffer
      BY <2>2 DEF InBuffer
    <3>3. QED
      BY <1>0, <1>1, <1>5, <2>1, <2>2, <3>1, <3>2 DEF FwNumbers, ImageSteps
  <2>4. Length = tr.xfer
    BY <1>0, <1>5 DEF Length, InBuffer, MinOf
  <2>5. FwPieces'
    BY <1>0, <1>4, <2>1, <2>2, <2>4 DEF FwPieces, Position
  <2>6. QED
    BY <2>2, <2>3, <2>5 DEF FwInv, FwTold
<1>6. CASE ~(tr.part + tr.xfer < InBuffer)
  <2>1. trAt' = "read" /\ tr' = [tr EXCEPT !.offset = @ + tr.buf]
    BY <1>0, <1>6, SendPieceSends
  <2>2. /\ tr'.buf = tr.buf /\ tr'.xfer = tr.xfer /\ tr'.size = tr.size
        /\ tr'.base = tr.base /\ tr'.offset = tr.offset + tr.buf /\ tr'.part = tr.part
        /\ ~tr'.success
    BY <1>0, <2>1 DEF Transfer
  <2>3. FwNumbers'
    <3>1. tr.xfer % 4 = 0 => (tr.offset + tr.buf) % 4 = 0
      BY <1>0, <1>1, MultiplesClosed
    <3>2. QED
      BY <1>0, <1>1, <2>1, <2>2, <3>1 DEF FwNumbers, ImageSteps
  <2>4. tr.part + Length = InBuffer
    BY <1>0, <1>1, <1>6 DEF Length, InBuffer, MinOf
  <2>5. tr.offset + InBuffer = MinOf(tr.offset + tr.buf, tr.size)
    BY <1>0, <1>1 DEF InBuffer, MinOf
  <2>6. Length \in Int
    BY <1>0 DEF Length, InBuffer, MinOf
  <2>7. FwPieces'
    BY <1>0, <1>4, <2>1, <2>2, <2>4, <2>5, <2>6 DEF FwPieces, Position
  <2>8. QED
    BY <2>2, <2>3, <2>7 DEF FwInv, FwTold
<1>7. QED
  BY <1>5, <1>6

LEMMA FwBegin ==
  ASSUME NEW size \in ImageSizes, NEW xfer \in XferSizes, NEW base \in Offsets,
         BeginDownload(size, xfer, base)
  PROVE FwInv'
<1>1. size \in Nat /\ xfer \in Nat \ {0} /\ base \in Nat
  BY SizesAssumption
<1>2. size > 0 /\ size % 4 = 0 /\ base % 4 = 0 /\ received' = <<>> /\ trAt' = "alloc"
  BY DEF BeginDownload, TrBegin
<1>3. /\ tr'.xfer = MinOf(xfer, size) /\ tr'.size = size /\ tr'.buf = size
      /\ tr'.base = base /\ tr'.offset = 0 /\ tr'.part = 0 /\ ~tr'.success
  BY DEF BeginDownload, TrBegin, Give, NoTransfer
<1>4. FwNumbers'
  BY <1>1, <1>2, <1>3 DEF FwNumbers, MinOf
<1>5. FwPieces'
  BY <1>1, <1>2, <1>3 DEF FwPieces, Chain, End, Position, MinOf
<1>6. QED
  BY <1>3, <1>4, <1>5 DEF FwInv, FwTold

LEMMA FwStep == ASSUME TrType, FwInv, [TrNext]_trVars PROVE FwInv'
<1>1. ASSUME NEW size \in ImageSizes, NEW xfer \in XferSizes, NEW base \in Offsets,
             BeginDownload(size, xfer, base)
      PROVE FwInv'
  BY <1>1, FwBegin
<1>2. CASE trAt' \notin ImageSteps /\ tr'.name # "firmware"
  BY <1>2 DEF FwInv, FwNumbers, FwPieces, FwTold
<1>3. CASE TrFails
  BY <1>3 DEF TrFails, FwInv, FwNumbers, FwPieces, FwTold, TrType, ImageSteps
<1>4. CASE NewGeneration \/ UNCHANGED trVars
  BY <1>4
  DEF NewGeneration, trVars, FwInv, FwNumbers, FwPieces, FwTold, Position, InBuffer
<1>5. CASE \/ OpenFile \/ ReadData \/ WriteFile \/ CheckGeneration
           \/ \E status, seen \in CommitStatuses, failed \in BOOLEAN :
                FWActivate(status, failed, seen)
           \/ \E size \in LogSizes : ReadHeader(size) \/ ReadEventHeader(size)
  <2>1. tr \in Transfer /\ tr.name # "firmware"
    BY <1>5
    DEF TrType, OpenFile, ReadData, WriteFile, CheckGeneration, FWActivate,
        ReadHeader, ReadEventHeader, LogSteps, LogNames
  <2>2. tr'.name = tr.name
    BY <1>5, <2>1, SucceedTells
    DEF OpenFile, ReadData, WriteFile, CheckGeneration, FWActivate, ReadHeader,
        ReadEventHeader, TakeHeader, Give, Transfer
  <2>3. trAt' \notin ImageSteps
    BY <1>5
    DEF OpenFile, ReadData, WriteFile, CheckGeneration, FWActivate, ReadHeader,
        ReadEventHeader, TakeHeader, Succeed, ImageSteps
  <2>4. QED
    BY <1>2, <2>1, <2>2, <2>3
<1>6. CASE \/ BeginCommit
           \/ \E name \in LogNames, action \in {"read", "establish", "release"} :
                BeginLog(name, action)
  <2>1. trAt' \notin ImageSteps
    BY <1>6 DEF BeginCommit, BeginLog, TrBegin, ImageSteps
  <2>2. tr'.name # "firmware"
    BY <1>6 DEF BeginCommit, BeginLog, TrBegin, Give, NoTransfer, LogNames
  <2>3. QED
    BY <1>2, <2>1, <2>2
<1>7. QED
  BY <1>1, <1>3, <1>4, <1>5, <1>6, FwAllocate, FwRead, FwSend
  DEF TrNext, TrStep, LogNames

(* When success is told of a download, the image has arrived at the device *)
(* from its first byte to its last, whatever its size, the transfers (of   *)
(* whole dwords) and the buffers that could be had.                        *)
THEOREM FirmwareIntactHolds == Spec => []FirmwareIntact
<1>1. Init => FwInv
  BY DEF Init, TrInit, FwInv, FwNumbers, FwPieces, FwTold, NoTransfer, ImageSteps
<1>2. TrType /\ FwInv /\ [Next]_vars => FwInv'
  BY FwStep, OnlyTransfers
<1>3. TrType /\ FwInv => FirmwareIntact
  BY DEF TrType, FwInv, FwTold, FirmwareIntact, Chain, End
<1>4. QED
  BY <1>1, <1>2, <1>3, TrTypes, PTL DEF Spec
-----------------------------------------------------------------------------
(* Success is told of a commit when the device has taken the image.        *)
CommitTold == tr.success /\ tr.name = "commit" => committed

LEMMA CommitTells ==
  ASSUME TrType, CommitTold, [TrNext]_trVars PROVE CommitTold'
<1>0. tr \in Transfer /\ TrType'
  BY TrTypeNext DEF TrType
<1>1. CASE trAt' # "out"
  BY <1>0, <1>1 DEF CommitTold, TrType
<1>2. ASSUME NEW status \in CommitStatuses, NEW seen \in CommitStatuses,
             NEW failed \in BOOLEAN, FWActivate(status, failed, seen)
      PROVE CommitTold'
  <2>1. CASE seen = "needsReset" \/ (seen = "done" /\ ~failed)
    <3>1. status # "refused"
      BY <1>2, <2>1 DEF FWActivate, CommitStatuses
    <3> QED
      BY <1>2, <3>1 DEF FWActivate, CommitTold
  <2>2. CASE ~(seen = "needsReset" \/ (seen = "done" /\ ~failed))
    BY <1>2, <2>2 DEF FWActivate, CommitTold, TrType
  <2> QED
    BY <2>1, <2>2
<1>3. CASE Succeed /\ tr.name # "commit"
  BY <1>0, <1>3, SucceedTells DEF CommitTold
<1>4. CASE ReadImage \/ OpenFile \/ WriteFile \/ CheckGeneration
  <2>1. tr.name # "commit"
    BY <1>4
    DEF ReadImage, OpenFile, WriteFile, CheckGeneration, TrType, ImageSteps, LogSteps,
        LogNames
  <2>2. Succeed \/ trAt' # "out"
    BY <1>4 DEF ReadImage, OpenFile, WriteFile, CheckGeneration
  <2>3. QED
    BY <1>1, <1>3, <2>1, <2>2
<1>5. ASSUME NEW size \in LogSizes, ReadHeader(size) \/ ReadEventHeader(size)
      PROVE CommitTold'
  <2>1. tr.name # "commit"
    BY <1>5 DEF ReadHeader, ReadEventHeader, TrType, LogSteps, LogNames
  <2>2. Succeed \/ trAt' # "out"
    BY <1>5 DEF ReadHeader, ReadEventHeader, TakeHeader
  <2>3. QED
    BY <1>1, <1>3, <2>1, <2>2
<1>6. CASE AllocateBuffer
  <2>1. tr'.success = tr.success /\ ~tr.success
    BY <1>0, <1>6 DEF AllocateBuffer, Give, Transfer, TrType
  <2>2. QED
    BY <2>1 DEF CommitTold
<1>7. CASE TrFails \/ NewGeneration \/ UNCHANGED trVars
  BY <1>7 DEF TrFails, NewGeneration, trVars, CommitTold
<1>8. CASE SendPiece \/ ReadData
  BY <1>1, <1>8 DEF SendPiece, ReadData
<1>9. CASE \/ BeginCommit
           \/ \E size \in ImageSizes, xfer \in XferSizes, base \in Offsets :
                BeginDownload(size, xfer, base)
           \/ \E name \in LogNames, action \in {"read", "establish", "release"} :
                BeginLog(name, action)
  BY <1>1, <1>9 DEF BeginCommit, BeginDownload, BeginLog, TrBegin
<1>10. QED
  BY <1>2, <1>4, <1>5, <1>6, <1>7, <1>8, <1>9 DEF TrNext, TrStep, LogNames

LEMMA CommitsTold == Spec => []CommitTold
<1>1. Init => CommitTold
  BY DEF Init, TrInit, NoTransfer, CommitTold
<1>2. TrType /\ CommitTold /\ [Next]_vars => CommitTold'
  BY CommitTells, OnlyTransfers
<1>3. QED
  BY <1>1, <1>2, TrTypes, PTL DEF Spec

-----------------------------------------------------------------------------
(* The namespace commands are a behaviour of their own, too.               *)
LEMMA OnlyNamespaces == ASSUME [Next]_vars PROVE [NsNext]_nsVars
BY DEF Next, vars, nsVars

Names == {"create", "delete", "attach", "detach", "format", "listController", "get"}
StepsOf(name) == {Scripts[name][i] : i \in DOMAIN Scripts[name]}

-----------------------------------------------------------------------------
(* The order of the steps of each script.                                  *)

LEMMA AfterIs ==
  ASSUME NEW script, Scripts[nsCmd.name] = script, NEW i \in DOMAIN script,
         \A j \in DOMAIN script : script[j] = script[i] => j = i
  PROVE  After(script[i]) = IF i = Len(script) THEN "out" ELSE script[i + 1]
BY DEF After

LEMMA CreateOrder ==
  ASSUME nsCmd.name = "create"
  PROVE  /\ StepsOf("create") = {"open", "support", "malloc", "create", "done"}
         /\ After("open") = "support" /\ After("support") = "malloc"
         /\ After("malloc") = "create" /\ After("create") = "done"
         /\ After("done") = "out"
<1> DEFINE s == NsCreate
<1>1. Scripts[nsCmd.name] = s /\ Scripts["create"] = s
  BY DEF Scripts
<1>2. DOMAIN s = 1..5 /\ Len(s) = 5
  BY DEF NsCreate
<1>3. \A i, j \in 1..5 : s[i] = s[j] => i = j
  BY DEF NsCreate
<1>4. ASSUME NEW i \in 1..5 PROVE After(s[i]) = IF i = 5 THEN "out" ELSE s[i + 1]
  <2> HIDE DEF s
  <2>1. i \in DOMAIN s /\ \A j \in DOMAIN s : s[j] = s[i] => j = i
    BY <1>2, <1>3, <1>4
  <2> QED
    BY <1>1, <1>2, <2>1, AfterIs
<1> QED
  BY <1>1, <1>2, <1>4 DEF NsCreate, StepsOf

LEMMA DeleteOrder ==
  ASSUME nsCmd.name = "delete"
  PROVE  /\ StepsOf("delete") = {"open", "support", "valid", "allocated", "notAttached",
                            "notOnline", "delete", "done"}
         /\ After("open") = "support" /\ After("support") = "valid"
         /\ After("valid") = "allocated" /\ After("allocated") = "notAttached"
         /\ After("notAttached") = "notOnline" /\ After("notOnline") = "delete"
         /\ After("delete") = "done" /\ After("done") = "out"
<1> DEFINE s == NsDelete
<1>1. Scripts[nsCmd.name] = s /\ Scripts["delete"] = s
  BY DEF Scripts
<1>2. DOMAIN s = 1..8 /\ Len(s) = 8
  BY DEF NsDelete
<1>3. \A i, j \in 1..8 : s[i] = s[j] => i = j
  BY DEF NsDelete
<1>4. ASSUME NEW i \in 1..8 PROVE After(s[i]) = IF i = 8 THEN "out" ELSE s[i + 1]
  <2> HIDE DEF s
  <2>1. i \in DOMAIN s /\ \A j \in DOMAIN s : s[j] = s[i] => j = i
    BY <1>2, <1>3, <1>4
  <2> QED
    BY <1>1, <1>2, <2>1, AfterIs
<1> QED
  BY <1>1, <1>2, <1>4 DEF NsDelete, StepsOf

LEMMA AttachOrder ==
  ASSUME nsCmd.name = "attach"
  PROVE  /\ StepsOf("attach") = {"open", "ctrlrId", "support", "valid", "allocated",
                            "notAttached", "malloc", "attach", "listAttach", "done"}
         /\ After("open") = "ctrlrId" /\ After("ctrlrId") = "support"
         /\ After("support") = "valid" /\ After("valid") = "allocated"
         /\ After("allocated") = "notAttached"
         /\ After("notAttached") = "malloc" /\ After("malloc") = "attach"
         /\ After("attach") = "listAttach" /\ After("listAttach") = "done"
         /\ After("done") = "out"
<1> DEFINE s == NsAttach
<1>1. Scripts[nsCmd.name] = s /\ Scripts["attach"] = s
  BY DEF Scripts
<1>2. DOMAIN s = 1..10 /\ Len(s) = 10
  BY DEF NsAttach
<1>3. \A i, j \in 1..10 : s[i] = s[j] => i = j
  BY DEF NsAttach
<1>4. ASSUME NEW i \in 1..10 PROVE After(s[i]) = IF i = 10 THEN "out" ELSE s[i + 1]
  <2> HIDE DEF s
  <2>1. i \in DOMAIN s /\ \A j \in DOMAIN s : s[j] = s[i] => j = i
    BY <1>2, <1>3, <1>4
  <2> QED
    BY <1>1, <1>2, <2>1, AfterIs
<1> QED
  BY <1>1, <1>2, <1>4 DEF NsAttach, StepsOf

LEMMA DetachOrder ==
  ASSUME nsCmd.name = "detach"
  PROVE  /\ StepsOf("detach") = {"open", "ctrlrId", "support", "valid", "allocated",
                            "attached", "status", "deviceName", "unclaim", "offline",
                            "malloc", "detach", "listDetach", "done", "reclaim"}
         /\ After("open") = "ctrlrId" /\ After("ctrlrId") = "support"
         /\ After("support") = "valid" /\ After("valid") = "allocated"
         /\ After("allocated") = "attached" /\ After("attached") = "status"
         /\ After("status") = "deviceName" /\ After("deviceName") = "unclaim"
         /\ After("unclaim") = "offline" /\ After("offline") = "malloc"
         /\ After("malloc") = "detach" /\ After("detach") = "listDetach"
         /\ After("listDetach") = "done" /\ After("done") = "reclaim"
         /\ After("reclaim") = "out"
<1> DEFINE s == NsDetach
<1>1. Scripts[nsCmd.name] = s /\ Scripts["detach"] = s
  BY DEF Scripts
<1>2. DOMAIN s = 1..15 /\ Len(s) = 15
  BY DEF NsDetach
<1>3. \A i, j \in 1..15 : s[i] = s[j] => i = j
  BY DEF NsDetach
<1>4. ASSUME NEW i \in 1..15 PROVE After(s[i]) = IF i = 15 THEN "out" ELSE s[i + 1]
  <2> HIDE DEF s
  <2>1. i \in DOMAIN s /\ \A j \in DOMAIN s : s[j] = s[i] => j = i
    BY <1>2, <1>3, <1>4
  <2> QED
    BY <1>1, <1>2, <2>1, AfterIs
<1> QED
  BY <1>1, <1>2, <1>4 DEF NsDetach, StepsOf

LEMMA FormatOrder ==
  ASSUME nsCmd.name = "format"
  PROVE  /\ StepsOf("format") = {"open", "valid", "attached", "identify", "formatSupport",
                            "parameters", "status", "deviceName", "unclaim", "offline",
                            "format", "update", "online", "rescan", "done", "reclaim"}
         /\ After("open") = "valid" /\ After("valid") = "attached"
         /\ After("attached") = "identify"
         /\ After("identify") = "formatSupport"
         /\ After("formatSupport") = "parameters"
         /\ After("parameters") = "status" /\ After("status") = "deviceName"
         /\ After("deviceName") = "unclaim" /\ After("unclaim") = "offline"
         /\ After("offline") = "format" /\ After("format") = "update"
         /\ After("update") = "online" /\ After("online") = "rescan"
         /\ After("rescan") = "done" /\ After("done") = "reclaim"
         /\ After("reclaim") = "out"
<1> DEFINE s == NsFormat
<1>1. Scripts[nsCmd.name] = s /\ Scripts["format"] = s
  BY DEF Scripts
<1>2. DOMAIN s = 1..16 /\ Len(s) = 16
  BY DEF NsFormat
<1>3. \A i, j \in 1..16 : s[i] = s[j] => i = j
  BY DEF NsFormat
<1>4. ASSUME NEW i \in 1..16 PROVE After(s[i]) = IF i = 16 THEN "out" ELSE s[i + 1]
  <2> HIDE DEF s
  <2>1. i \in DOMAIN s /\ \A j \in DOMAIN s : s[j] = s[i] => j = i
    BY <1>2, <1>3, <1>4
  <2> QED
    BY <1>1, <1>2, <2>1, AfterIs
<1> QED
  BY <1>1, <1>2, <1>4 DEF NsFormat, StepsOf

LEMMA ListControllerOrder ==
  ASSUME nsCmd.name = "listController"
  PROVE  /\ StepsOf("listController") = {"open", "support", "malloc", "valid", "allocated",
                            "identify", "done"}
         /\ After("open") = "support" /\ After("support") = "malloc"
         /\ After("malloc") = "valid" /\ After("valid") = "allocated"
         /\ After("allocated") = "identify" /\ After("identify") = "done"
         /\ After("done") = "out"
<1> DEFINE s == ListController
<1>1. Scripts[nsCmd.name] = s /\ Scripts["listController"] = s
  BY DEF Scripts
<1>2. DOMAIN s = 1..7 /\ Len(s) = 7
  BY DEF ListController
<1>3. \A i, j \in 1..7 : s[i] = s[j] => i = j
  BY DEF ListController
<1>4. ASSUME NEW i \in 1..7 PROVE After(s[i]) = IF i = 7 THEN "out" ELSE s[i + 1]
  <2> HIDE DEF s
  <2>1. i \in DOMAIN s /\ \A j \in DOMAIN s : s[j] = s[i] => j = i
    BY <1>2, <1>3, <1>4
  <2> QED
    BY <1>1, <1>2, <2>1, AfterIs
<1> QED
  BY <1>1, <1>2, <1>4 DEF ListController, StepsOf

LEMMA GetOrder ==
  ASSUME nsCmd.name = "get"
  PROVE  /\ StepsOf("get") = {"open", "malloc", "identify", "done"}
         /\ After("open") = "malloc" /\ After("malloc") = "identify"
         /\ After("identify") = "done" /\ After("done") = "out"
<1> DEFINE s == NsGet
<1>1. Scripts[nsCmd.name] = s /\ Scripts["get"] = s
  BY DEF Scripts
<1>2. DOMAIN s = 1..4 /\ Len(s) = 4
  BY DEF NsGet
<1>3. \A i, j \in 1..4 : s[i] = s[j] => i = j
  BY DEF NsGet
<1>4. ASSUME NEW i \in 1..4 PROVE After(s[i]) = IF i = 4 THEN "out" ELSE s[i + 1]
  <2> HIDE DEF s
  <2>1. i \in DOMAIN s /\ \A j \in DOMAIN s : s[j] = s[i] => j = i
    BY <1>2, <1>3, <1>4
  <2> QED
    BY <1>1, <1>2, <2>1, AfterIs
<1> QED
  BY <1>1, <1>2, <1>4 DEF NsGet, StepsOf

-----------------------------------------------------------------------------
(* The invariant.                                                          *)

Namespace == [allocated : BOOLEAN, attached : BOOLEAN, status : Statuses,
              claimed : BOOLEAN, inUse : BOOLEAN]
Command == [name : Names \cup {"none"}, id : GivenIds, unclaimed : BOOLEAN,
            gaveUp : BOOLEAN, misled : BOOLEAN, success : BOOLEAN]

NsType ==
  /\ ns \in [NsIds -> Namespace] /\ nsMgmt \in BOOLEAN /\ activeList \in BOOLEAN
  /\ nsCmd \in Command
  /\ nsAt = "out" \/ (nsCmd.name \in Names /\ nsAt \in StepsOf(nsCmd.name))
  /\ nsCmd.success => nsAt \in {"out", "reclaim"}

(* Without namespace management all are attached; with it, and without the *)
(* list of the active ones, none can be.                                   *)
World ==
  /\ ~nsMgmt => \A id \in NsIds : ns[id].attached /\ ns[id].status # "absent"
  /\ nsMgmt /\ ~activeList =>
       \A id \in NsIds : ~ns[id].attached /\ ns[id].status = "absent"

(* Which command is at one of the steps.                                   *)
Is(name, steps) == nsCmd.name = name /\ nsAt \in steps

Managed ==
  nsCmd.name \in Names \ {"format", "get"}
  /\ nsAt \notin {"out", "open", "ctrlrId", "support"} => nsMgmt

Deleting ==
  /\ Is("delete", {"allocated", "notAttached", "notOnline", "delete", "done"}) =>
       ValidNsId(nsCmd.id)
  /\ Is("delete", {"notOnline", "delete"}) => ~AttachedNsId(nsCmd.id)
  /\ Is("delete", {"delete"}) => Target.status # "online"
  /\ Is("delete", {"done"}) => ~Target.allocated

Attaching ==
  /\ Is("attach", {"allocated", "notAttached", "malloc", "attach", "listAttach", "done"}) =>
       ValidNsId(nsCmd.id)
  /\ Is("attach", {"malloc", "attach", "listAttach", "done"}) => activeList
  /\ Is("attach", {"listAttach", "done"}) => Target.attached
  /\ Is("attach", {"done"}) => Target.status # "absent"

Detaching ==
  /\ Is("detach", StepsOf("detach") \ {"open", "ctrlrId", "support", "valid"}) =>
       ValidNsId(nsCmd.id)
  /\ Is("detach", {"malloc", "detach", "listDetach"}) => Target.status # "online"
  /\ Is("detach", {"listDetach", "done"}) => ~Target.attached
  /\ Is("detach", {"done"}) => Target.status = "absent"

Formatting ==
  /\ Is("format", StepsOf("format") \ {"open", "valid"}) => ValidNsId(nsCmd.id)
  /\ Is("format", StepsOf("format") \ {"open", "valid", "attached"}) => AttachedNsId(nsCmd.id)
  /\ Is("format", {"format", "update", "online"}) => Target.status # "online"
  /\ Is("format", {"rescan", "done"}) => Target.status = "online"

(* A path that was unclaimed: by which command, and what is to follow.     *)
Unclaimed ==
  /\ nsCmd.unclaimed =>
       /\ nsCmd.name \in {"detach", "format"} /\ ValidNsId(nsCmd.id)
       /\ nsAt \in {"out", "offline", "malloc", "detach", "listDetach", "done", "reclaim",
                    "format", "update", "online", "rescan"}
  /\ PathsGivenBack

(* What was told is so.                                                    *)
Told ==
  nsCmd.success =>
    /\ nsCmd.name \in {"delete", "attach", "detach", "format"} => ValidNsId(nsCmd.id)
    /\ nsCmd.name = "delete" => ~Target.allocated
    /\ nsCmd.name = "attach" => Target.attached /\ Target.status # "absent"
    /\ nsCmd.name = "detach" => ~Target.attached /\ Target.status = "absent"
    /\ nsCmd.name = "format" => Target.attached /\ Target.status = "online"

Stages == Managed /\ Deleting /\ Attaching /\ Detaching /\ Formatting
NsInv == NsType /\ World /\ Stages /\ Unclaimed /\ Told

-----------------------------------------------------------------------------
LEMMA NsInitOK == ASSUME NsInit PROVE NsInv
<1> USE DEF NsInit
<1>1. NoNsCmd \in Command /\ NewNs \in Namespace /\ NoNs \in Namespace
  <2>1. 0 \in GivenIds
    BY NumNsAssumption DEF GivenIds
  <2> QED
    BY <2>1 DEF NoNsCmd, Command, NewNs, NoNs, Namespace, Statuses
<1>2. [NewNs EXCEPT !.attached = TRUE, !.status = "online"] \in Namespace
  BY DEF NewNs, Namespace, Statuses
<1>3. NsType
  BY <1>1, <1>2 DEF NsType, NoNsCmd
<1>4. World
  BY DEF World, NewNs, NoNs
<1>5. Stages
  BY DEF Stages, Managed, Deleting, Attaching, Detaching, Formatting, Is, NoNsCmd, Names
<1>6. Unclaimed /\ Told
  BY DEF Unclaimed, Told, PathsGivenBack, NoNsCmd
<1> QED
  BY <1>3, <1>4, <1>5, <1>6 DEF NsInv

(* A step that only moves on: a check that passes, or a command that       *)
(* changes nothing that is modelled.                                       *)
LEMMA CheckPassesOK == ASSUME NsInv, CheckPasses PROVE NsInv'
<1> USE DEF NsInv
<1>1. /\ nsAt \in Checks /\ Passes(nsAt, nsCmd.id) /\ nsAt' = After(nsAt)
      /\ UNCHANGED <<ns, nsMgmt, activeList, nsCmd>>
  BY DEF CheckPasses, NsGoto
<1>2. nsCmd.name \in Names /\ nsAt \in StepsOf(nsCmd.name) /\ nsAt # "out"
  BY <1>1 DEF NsType, Checks
<1> USE DEF NsType, World, Stages, Managed, Deleting, Attaching, Detaching, Formatting,
            Unclaimed, Told, PathsGivenBack, Is, Target, AttachedNsId, ValidNsId,
            Passes, Checks, Names, NsIdle
<1>3. CASE nsCmd.name = "create"
  BY <1>1, <1>2, <1>3, CreateOrder
<1>4. CASE nsCmd.name = "delete"
  BY <1>1, <1>2, <1>4, DeleteOrder
<1>5. CASE nsCmd.name = "attach"
  BY <1>1, <1>2, <1>5, AttachOrder
<1>6. CASE nsCmd.name = "detach"
  BY <1>1, <1>2, <1>6, DetachOrder
<1>7. CASE nsCmd.name = "format"
  BY <1>1, <1>2, <1>7, FormatOrder
<1>8. CASE nsCmd.name = "listController"
  BY <1>1, <1>2, <1>8, ListControllerOrder
<1>9. CASE nsCmd.name = "get"
  BY <1>1, <1>2, <1>9, GetOrder
<1> QED
  BY <1>2, <1>3, <1>4, <1>5, <1>6, <1>7, <1>8, <1>9

(* A step fails: out, or to the label before the paths are reclaimed.  It  *)
(* may have done its work, which sets a namespace offline or online,       *)
(* unclaims its path, or is a step of a command that reclaims the paths    *)
(* then, or that has unclaimed none.                                       *)
Effects == {"create", "delete", "attach", "detach", "listAttach", "listDetach",
            "unclaim", "offline", "online"}
LEMMA FailAtOK ==
  ASSUME NsInv, nsAt \notin {"out", "done", "reclaim"}, NEW done \in BOOLEAN,
         FailAt(nsAt, done), ns' \in [NsIds -> Namespace], World',
         done => nsAt \in Effects,
         ~done => UNCHANGED ns,
         ValidNsId(nsCmd.id) /\ nsAt \in {"unclaim", "offline", "online"} =>
           Target'.attached = Target.attached
  PROVE  NsInv'
<1> USE DEF NsInv
<1>1. /\ nsAt' = IF Reclaims(nsCmd.name, nsAt) THEN "reclaim" ELSE "out"
      /\ nsCmd' = [nsCmd EXCEPT !.unclaimed = nsCmd.unclaimed \/ (done /\ nsAt = "unclaim"),
                                !.gaveUp = (nsAt = "rescan"),
                                !.misled = (done /\ nsAt \in {"unclaim", "online"})]
      /\ UNCHANGED <<nsMgmt, activeList>>
  BY DEF FailAt
<1>2. /\ nsCmd.name \in Names /\ nsAt \in StepsOf(nsCmd.name) /\ ~nsCmd.success
      /\ nsCmd.name = "detach" => "reclaim" \in StepsOf("detach")
      /\ nsCmd.name = "format" => "reclaim" \in StepsOf("format")
  BY DetachOrder, FormatOrder DEF NsType
<1>3. /\ nsCmd' \in Command /\ nsCmd'.name = nsCmd.name /\ nsCmd'.id = nsCmd.id
      /\ nsCmd'.unclaimed = (nsCmd.unclaimed \/ (done /\ nsAt = "unclaim"))
      /\ nsCmd'.success = nsCmd.success
      /\ nsCmd'.gaveUp = (nsAt = "rescan")
      /\ nsCmd'.misled = (done /\ nsAt \in {"unclaim", "online"})
  <2> DEFINE u == nsCmd.unclaimed \/ (done /\ nsAt = "unclaim")
             g == nsAt = "rescan"
             m == done /\ nsAt \in {"unclaim", "online"}
  <2>1. u \in BOOLEAN /\ g \in BOOLEAN /\ m \in BOOLEAN
    OBVIOUS
  <2>2. nsCmd' = [nsCmd EXCEPT !.unclaimed = u, !.gaveUp = g, !.misled = m]
    BY <1>1
  <2> HIDE DEF u, g, m
  <2>3. /\ nsCmd' \in Command /\ nsCmd'.name = nsCmd.name /\ nsCmd'.id = nsCmd.id
        /\ nsCmd'.unclaimed = u /\ nsCmd'.success = nsCmd.success
        /\ nsCmd'.gaveUp = g /\ nsCmd'.misled = m
    BY <2>1, <2>2 DEF NsType, Command
  <2> QED
    BY <2>3 DEF u, g, m
<1>4. NsType' /\ World'
  BY <1>1, <1>2, <1>3 DEF NsType, Reclaims
<1>5. nsCmd.name = "format" /\ nsAt' = "reclaim" => nsAt = "offline"
  BY <1>1 DEF Reclaims
<1>6. Stages'
  BY <1>1, <1>2, <1>3, <1>5, DetachOrder, FormatOrder
  DEF Stages, Managed, Deleting, Attaching, Detaching, Formatting, Is, Target,
      AttachedNsId, ValidNsId, Reclaims
<1>7. Unclaimed'
  <2>1. CASE nsCmd.name = "detach"
    <3>1. CASE nsAt' = "reclaim"
      BY <1>1, <1>2, <1>3, <2>1, <3>1, DetachOrder
      DEF Unclaimed, PathsGivenBack, NsIdle, ValidNsId, Stages, Detaching, Is
    <3>2. CASE nsAt' # "reclaim"
      BY <1>1, <1>2, <1>3, <2>1, <3>2, DetachOrder
      DEF Unclaimed, PathsGivenBack, NsIdle, Reclaims, Target, ValidNsId, Stages, Detaching,
          Is, Effects
    <3> QED
      BY <3>1, <3>2
  <2>2. CASE nsCmd.name = "format"
    <3>1. CASE nsAt' = "reclaim"
      BY <1>1, <1>2, <1>3, <2>2, <3>1, FormatOrder
      DEF Unclaimed, PathsGivenBack, NsIdle, ValidNsId, Stages, Formatting, Is
    <3>2. CASE nsAt' # "reclaim"
      BY <1>1, <1>2, <1>3, <2>2, <3>2, FormatOrder
      DEF Unclaimed, PathsGivenBack, NsIdle, Reclaims, Target, ValidNsId, Stages, Formatting,
          Is, Effects
    <3> QED
      BY <3>1, <3>2
  <2>3. CASE nsCmd.name \notin {"detach", "format"}
    <3>1. nsAt # "unclaim"
      BY <1>2, <2>3, CreateOrder, DeleteOrder, AttachOrder, ListControllerOrder, GetOrder
      DEF Names
    <3> QED
      BY <1>1, <1>3, <2>3, <3>1 DEF Unclaimed, PathsGivenBack
  <2> QED
    BY <2>1, <2>2, <2>3
<1>8. Told'
  BY <1>2, <1>3 DEF Told
<1> QED
  BY <1>4, <1>6, <1>7, <1>8

(* The command changes attributes of its namespace.                        *)
LEMMA Becomes ==
  ASSUME NsType, nsCmd.id \in NsIds, NEW attributes \in Namespace, Become(attributes)
  PROVE  /\ ns' \in [NsIds -> Namespace]
         /\ ns'[nsCmd.id] = attributes
         /\ \A id \in NsIds \ {nsCmd.id} : ns'[id] = ns[id]
BY DEF NsType, Become

LEMMA NsMgmtCreateOK ==
  ASSUME NsInv, NEW id \in NsIds, NEW ok \in BOOLEAN, NsMgmtCreate(id, ok)
  PROVE  NsInv'
<1> USE DEF NsInv
<1>1. /\ nsAt = "create" /\ UNCHANGED <<nsMgmt, activeList>>
      /\ ns' = [ns EXCEPT ![id] = NewNs]
  BY DEF NsMgmtCreate, Answer, FailAt
<1>2. nsCmd.name = "create" /\ "done" \in StepsOf("create")
  BY <1>1, CreateOrder, DeleteOrder, AttachOrder, DetachOrder, FormatOrder,
     ListControllerOrder, GetOrder DEF NsType, Names
<1>3. NewNs \in Namespace /\ ~NewNs.attached /\ NewNs.status = "absent"
  BY DEF NewNs, Namespace, Statuses
<1>4. ns' \in [NsIds -> Namespace]
  BY <1>1, <1>3 DEF NsType
<1>5. nsMgmt
  BY <1>1, <1>2 DEF Stages, Managed, Names
<1>6. World'
  BY <1>1, <1>3, <1>5 DEF World, NsType
<1>7. CASE ok
  <2>1. nsAt' = "done" /\ UNCHANGED nsCmd
    BY <1>2, <1>7, CreateOrder DEF NsMgmtCreate, Answer
  <2>2. NsType'
    BY <1>1, <1>2, <1>4, <2>1 DEF NsType, Names
  <2>3. Stages' /\ Unclaimed' /\ Told'
    BY <1>1, <1>2, <1>5, <2>1
    DEF Stages, Managed, Deleting, Attaching, Detaching, Formatting, Is, Unclaimed, Told,
        PathsGivenBack, NsIdle, NsType
  <2> QED
    BY <1>6, <2>2, <2>3
<1>8. CASE ~ok
  <2>1. FailAt(nsAt, TRUE)
    BY <1>8 DEF NsMgmtCreate, Answer
  <2> QED
    BY <1>1, <1>4, <1>6, <2>1, FailAtOK DEF Effects
<1> QED
  BY <1>7, <1>8

LEMMA NsMgmtDeleteOK ==
  ASSUME NsInv, NEW ok \in BOOLEAN, NsMgmtDelete(ok) PROVE NsInv'
<1> USE DEF NsInv
<1> DEFINE deleted == [Target EXCEPT !.allocated = FALSE, !.attached = FALSE]
<1>1. /\ nsAt = "delete" /\ UNCHANGED <<nsMgmt, activeList>>
      /\ Become(deleted) /\ Answer(ok)
  BY DEF NsMgmtDelete, Answer, FailAt
<1>2. nsCmd.name = "delete"
  BY <1>1, CreateOrder, DeleteOrder, AttachOrder, DetachOrder, FormatOrder,
     ListControllerOrder, GetOrder DEF NsType, Names
<1>3. After(nsAt) = "done" /\ "done" \in StepsOf("delete")
  BY <1>1, <1>2, DeleteOrder
<1>4. nsMgmt /\ nsCmd.id \in NsIds /\ Target \in Namespace
  BY <1>1, <1>2
  DEF Stages, Managed, Deleting, Is, ValidNsId, NsType, Names, Target
<1>5. /\ deleted \in Namespace /\ ~deleted.allocated /\ ~deleted.attached
      /\ deleted.status = Target.status
  BY <1>4 DEF Namespace
<1> HIDE DEF deleted
<1>6. /\ ns' \in [NsIds -> Namespace] /\ ns'[nsCmd.id] = deleted
      /\ \A id \in NsIds \ {nsCmd.id} : ns'[id] = ns[id]
  BY <1>1, <1>4, <1>5, Becomes
<1>7. World'
  BY <1>1, <1>4, <1>5, <1>6 DEF World, Target
<1>8. CASE ok
  <2>1. nsAt' = "done" /\ UNCHANGED nsCmd
    BY <1>1, <1>3, <1>8 DEF Answer
  <2>2. NsType'
    BY <1>1, <1>2, <1>3, <1>6, <2>1 DEF NsType, Names
  <2>3. Stages' /\ Unclaimed' /\ Told'
    BY <1>1, <1>2, <1>3, <1>4, <1>5, <1>6, <2>1
    DEF Stages, Managed, Deleting, Attaching, Detaching, Formatting, Is, Unclaimed, Told,
        PathsGivenBack, NsIdle, NsType, Target, ValidNsId
  <2> QED
    BY <1>7, <2>2, <2>3
<1>9. CASE ~ok
  BY <1>1, <1>6, <1>7, <1>9, FailAtOK DEF Answer, Effects
<1> QED
  BY <1>8, <1>9

LEMMA NsAttachCommandOK ==
  ASSUME NsInv, NEW ok \in BOOLEAN, NsAttachCommand(ok) PROVE NsInv'
<1> USE DEF NsInv
<1> DEFINE moved == [Target EXCEPT !.attached = (nsAt = "attach")]
<1>1. /\ nsAt \in {"attach", "detach"} /\ Answer(ok)
      /\ UNCHANGED <<nsMgmt, activeList>> /\ Become(moved)
  BY DEF NsAttachCommand, Answer, FailAt
<1>2. nsCmd.name = nsAt
  BY <1>1, CreateOrder, DeleteOrder, AttachOrder, DetachOrder, FormatOrder,
     ListControllerOrder, GetOrder DEF NsType, Names
<1>3. After(nsAt) = IF nsAt = "attach" THEN "listAttach" ELSE "listDetach"
  BY <1>1, <1>2, AttachOrder, DetachOrder
<1>4. After(nsAt) \in StepsOf(nsCmd.name)
  BY <1>1, <1>2, <1>3, AttachOrder, DetachOrder
<1>5. /\ nsMgmt /\ nsCmd.id \in NsIds /\ Target \in Namespace
      /\ nsAt = "attach" => activeList
  BY <1>1, <1>2, DetachOrder
  DEF Stages, Managed, Attaching, Detaching, Is, ValidNsId, NsType, Names, Target
<1>6. moved \in Namespace /\ moved.attached = (nsAt = "attach") /\ moved.status = Target.status
  BY <1>5 DEF Namespace
<1> HIDE DEF moved
<1>7. /\ ns' \in [NsIds -> Namespace] /\ ns'[nsCmd.id] = moved
      /\ \A id \in NsIds \ {nsCmd.id} : ns'[id] = ns[id]
  BY <1>1, <1>5, <1>6, Becomes
<1>8. World'
  BY <1>1, <1>5, <1>6, <1>7 DEF World, Target
<1>9. CASE ok
  <2>1. nsAt' = After(nsAt) /\ UNCHANGED nsCmd
    BY <1>1, <1>9 DEF Answer
  <2>2. NsType'
    BY <1>1, <1>2, <1>4, <1>7, <2>1 DEF NsType, Names
  <2>3. Stages' /\ Unclaimed' /\ Told'
    BY <1>1, <1>2, <1>3, <1>5, <1>6, <1>7, <2>1
    DEF Stages, Managed, Deleting, Attaching, Detaching, Formatting, Is, Unclaimed, Told,
        PathsGivenBack, NsIdle, NsType, Target, ValidNsId
  <2> QED
    BY <1>8, <2>2, <2>3
<1>10. CASE ~ok
  BY <1>1, <1>7, <1>8, <1>10, FailAtOK DEF Answer, Effects
<1> QED
  BY <1>9, <1>10

LEMMA NsListUpdateOK ==
  ASSUME NsInv, NEW status \in Statuses, NEW ok \in BOOLEAN, NsListUpdate(status, ok)
  PROVE  NsInv'
<1> USE DEF NsInv
<1>1. /\ nsAt \in {"listAttach", "listDetach"} /\ Answer(ok)
      /\ UNCHANGED <<nsMgmt, activeList>>
  BY DEF NsListUpdate, Answer, FailAt
<1>2. nsCmd.name = IF nsAt = "listAttach" THEN "attach" ELSE "detach"
  BY <1>1, CreateOrder, DeleteOrder, AttachOrder, DetachOrder, FormatOrder,
     ListControllerOrder, GetOrder DEF NsType, Names
<1>3. After(nsAt) = "done" /\ "done" \in StepsOf(nsCmd.name)
  BY <1>1, <1>2, AttachOrder, DetachOrder
<1>4. /\ nsMgmt /\ nsCmd.id \in NsIds /\ Target \in Namespace
      /\ nsAt = "listAttach" => activeList /\ Target.attached
      /\ nsAt = "listDetach" => ~Target.attached
  BY <1>1, <1>2, DetachOrder
  DEF Stages, Managed, Attaching, Detaching, Is, ValidNsId, NsType, Names, Target
<1>5. PICK updated \in Namespace :
        /\ Become(updated) /\ updated.status = status /\ updated.attached = Target.attached
        /\ nsAt = "listAttach" <=> status # "absent"
  <2>1. [Target EXCEPT !.status = status] \in Namespace
    BY <1>4 DEF Namespace
  <2>2. [Target EXCEPT !.status = status, !.claimed = FALSE, !.inUse = FALSE] \in Namespace
    BY <1>4 DEF Namespace
  <2>3. CASE nsAt = "listAttach"
    BY <1>4, <2>1, <2>3 DEF NsListUpdate, Namespace
  <2>4. CASE nsAt = "listDetach"
    BY <1>4, <2>2, <2>4 DEF NsListUpdate, Namespace
  <2> QED
    BY <1>1, <2>3, <2>4
<1>6. /\ ns' \in [NsIds -> Namespace] /\ ns'[nsCmd.id] = updated
      /\ \A id \in NsIds \ {nsCmd.id} : ns'[id] = ns[id]
  BY <1>4, <1>5, Becomes
<1>7. World'
  BY <1>1, <1>4, <1>5, <1>6 DEF World, Target
<1>8. CASE ok
  <2>1. nsAt' = "done" /\ UNCHANGED nsCmd
    BY <1>1, <1>3, <1>8 DEF Answer
  <2>2. NsType'
    BY <1>1, <1>2, <1>3, <1>6, <2>1 DEF NsType, Names
  <2>3. Stages' /\ Unclaimed' /\ Told'
    BY <1>1, <1>2, <1>3, <1>4, <1>5, <1>6, <2>1
    DEF Stages, Managed, Deleting, Attaching, Detaching, Formatting, Is, Unclaimed, Told,
        PathsGivenBack, NsIdle, NsType, Target, ValidNsId
  <2> QED
    BY <1>7, <2>2, <2>3
<1>9. CASE ~ok
  BY <1>1, <1>6, <1>7, <1>9, FailAtOK DEF Answer, Effects
<1> QED
  BY <1>8, <1>9

LEMMA NsGetStatusOK == ASSUME NsInv, NsGetStatus PROVE NsInv'
<1> USE DEF NsInv
<1>1. /\ nsAt = "status" /\ UNCHANGED <<ns, nsMgmt, activeList, nsCmd>>
      /\ nsAt' = IF Target.status = "online" THEN "deviceName" ELSE After("offline")
  BY DEF NsGetStatus, NsGoto
<1>2. nsCmd.name \in {"detach", "format"}
  BY <1>1, CreateOrder, DeleteOrder, AttachOrder, DetachOrder, FormatOrder,
     ListControllerOrder, GetOrder DEF NsType, Names
<1> USE DEF NsType, World, Stages, Managed, Deleting, Attaching, Detaching, Formatting,
            Unclaimed, Told, PathsGivenBack, Is, Target, Names, NsIdle, ValidNsId,
            AttachedNsId
<1>3. CASE nsCmd.name = "detach"
  BY <1>1, <1>3, DetachOrder
<1>4. CASE nsCmd.name = "format"
  BY <1>1, <1>4, FormatOrder
<1> QED
  BY <1>2, <1>3, <1>4

LEMMA GetDeviceNameOK == ASSUME NsInv, GetDeviceName PROVE NsInv'
<1> USE DEF NsInv
<1>1. /\ nsAt = "deviceName" /\ nsAt' \in {"unclaim", "offline"}
      /\ UNCHANGED <<ns, nsMgmt, activeList, nsCmd>>
  BY DEF GetDeviceName, NsGoto
<1>2. nsCmd.name \in {"detach", "format"}
  BY <1>1, CreateOrder, DeleteOrder, AttachOrder, DetachOrder, FormatOrder,
     ListControllerOrder, GetOrder DEF NsType, Names
<1> USE DEF NsType, World, Stages, Managed, Deleting, Attaching, Detaching, Formatting,
            Unclaimed, Told, PathsGivenBack, Is, Target, Names, NsIdle, ValidNsId,
            AttachedNsId
<1>3. CASE nsCmd.name = "detach"
  BY <1>1, <1>3, DetachOrder
<1>4. CASE nsCmd.name = "format"
  BY <1>1, <1>4, FormatOrder
<1> QED
  BY <1>2, <1>3, <1>4

LEMMA UnclaimNothingOK == ASSUME NsInv, UnclaimNothing PROVE NsInv'
<1> USE DEF NsInv
<1>1. /\ nsAt = "unclaim" /\ nsAt' = "offline"
      /\ UNCHANGED <<ns, nsMgmt, activeList, nsCmd>>
  BY DEF UnclaimNothing, NsGoto
<1>2. nsCmd.name \in {"detach", "format"}
  BY <1>1, CreateOrder, DeleteOrder, AttachOrder, DetachOrder, FormatOrder,
     ListControllerOrder, GetOrder DEF NsType, Names
<1> USE DEF NsType, World, Stages, Managed, Deleting, Attaching, Detaching, Formatting,
            Unclaimed, Told, PathsGivenBack, Is, Target, Names, NsIdle, ValidNsId,
            AttachedNsId
<1>3. CASE nsCmd.name = "detach"
  BY <1>1, <1>3, DetachOrder
<1>4. CASE nsCmd.name = "format"
  BY <1>1, <1>4, FormatOrder
<1> QED
  BY <1>2, <1>3, <1>4

LEMMA UnclaimPathOK == ASSUME NsInv, NEW ok \in BOOLEAN, UnclaimPath(ok) PROVE NsInv'
<1> USE DEF NsInv
<1> DEFINE unclaimed == [Target EXCEPT !.claimed = FALSE]
<1>1. /\ nsAt = "unclaim" /\ UNCHANGED <<nsMgmt, activeList>> /\ Become(unclaimed)
      /\ ok => nsAt' = "offline" /\ nsCmd' = [nsCmd EXCEPT !.unclaimed = TRUE]
      /\ ~ok => FailAt(nsAt, TRUE)
  BY DEF UnclaimPath, FailAt
<1>2. nsCmd.name \in {"detach", "format"}
  BY <1>1, CreateOrder, DeleteOrder, AttachOrder, DetachOrder, FormatOrder,
     ListControllerOrder, GetOrder DEF NsType, Names
<1>3. "offline" \in StepsOf(nsCmd.name)
  BY <1>2, DetachOrder, FormatOrder
<1>4. nsCmd.id \in NsIds /\ Target \in Namespace
  BY <1>1, <1>2, DetachOrder, FormatOrder
  DEF Stages, Detaching, Formatting, Is, ValidNsId, NsType, Target
<1>5. /\ unclaimed \in Namespace /\ unclaimed.attached = Target.attached
      /\ unclaimed.status = Target.status
  BY <1>4 DEF Namespace
<1> HIDE DEF unclaimed
<1>6. /\ ns' \in [NsIds -> Namespace] /\ ns'[nsCmd.id] = unclaimed
      /\ \A id \in NsIds \ {nsCmd.id} : ns'[id] = ns[id]
  BY <1>1, <1>4, <1>5, Becomes DEF NsType
<1>7. World'
  BY <1>1, <1>4, <1>5, <1>6 DEF World, Target
<1>8. CASE ok
  <2>1. /\ nsCmd' \in Command /\ nsCmd'.name = nsCmd.name /\ nsCmd'.id = nsCmd.id
        /\ nsCmd'.success = nsCmd.success /\ ~nsCmd.success
    BY <1>1, <1>8 DEF NsType, Command
  <2>2. NsType'
    BY <1>1, <1>2, <1>3, <1>6, <1>8, <2>1 DEF NsType, Names
  <2>3. Stages' /\ Unclaimed' /\ Told'
    BY <1>1, <1>2, <1>4, <1>5, <1>6, <1>8, <2>1, DetachOrder, FormatOrder
    DEF Stages, Managed, Deleting, Attaching, Detaching, Formatting, Is, Unclaimed, Told,
        PathsGivenBack, NsIdle, NsType, Target, ValidNsId, AttachedNsId
  <2> QED
    BY <1>7, <2>2, <2>3
<1>9. CASE ~ok
  <2>1. Target'.attached = Target.attached
    BY <1>1, <1>5, <1>6, <1>9 DEF FailAt, NsType, Command, Target
  <2> QED
    BY <1>1, <1>6, <1>7, <1>9, <2>1, FailAtOK DEF Effects
<1> QED
  BY <1>8, <1>9

LEMMA NsSetStatusOK == ASSUME NsInv, NEW ok \in BOOLEAN, NsSetStatus(ok) PROVE NsInv'
<1> USE DEF NsInv
<1> DEFINE set == [Target EXCEPT !.status = nsAt]
<1>1. /\ nsAt \in {"offline", "online"} /\ Answer(ok) /\ Target.status # "absent"
      /\ Become(set) /\ UNCHANGED <<nsMgmt, activeList>>
  BY DEF NsSetStatus, Answer, FailAt
<1>2. nsCmd.name \in {"detach", "format"} /\ (nsAt = "online" => nsCmd.name = "format")
  BY <1>1, CreateOrder, DeleteOrder, AttachOrder, DetachOrder, FormatOrder,
     ListControllerOrder, GetOrder DEF NsType, Names
<1>3. /\ After(nsAt) = IF nsCmd.name = "detach" THEN "malloc"
                       ELSE IF nsAt = "offline" THEN "format" ELSE "rescan"
      /\ After(nsAt) \in StepsOf(nsCmd.name)
  BY <1>1, <1>2, DetachOrder, FormatOrder
<1>4. nsCmd.id \in NsIds /\ Target \in Namespace
  BY <1>1, <1>2, DetachOrder, FormatOrder
  DEF Stages, Detaching, Formatting, Is, ValidNsId, NsType, Target
<1>5. set \in Namespace /\ set.attached = Target.attached /\ set.status = nsAt
  BY <1>1, <1>4 DEF Namespace, Statuses
<1> HIDE DEF set
<1>6. /\ ns' \in [NsIds -> Namespace] /\ ns'[nsCmd.id] = set
      /\ \A id \in NsIds \ {nsCmd.id} : ns'[id] = ns[id]
  BY <1>1, <1>4, <1>5, Becomes
<1>7. World'
  BY <1>1, <1>4, <1>5, <1>6 DEF World, Target
<1>8. CASE ok
  <2>1. nsAt' = After(nsAt) /\ UNCHANGED nsCmd
    BY <1>1, <1>8 DEF Answer
  <2>2. NsType'
    BY <1>1, <1>2, <1>3, <1>6, <2>1 DEF NsType, Names
  <2>3. Stages' /\ Unclaimed' /\ Told'
    BY <1>1, <1>2, <1>3, <1>4, <1>5, <1>6, <2>1, DetachOrder, FormatOrder
    DEF Stages, Managed, Deleting, Attaching, Detaching, Formatting, Is, Unclaimed, Told,
        PathsGivenBack, NsIdle, NsType, Target, ValidNsId, AttachedNsId
  <2> QED
    BY <1>7, <2>2, <2>3
<1>9. CASE ~ok
  <2>1. FailAt(nsAt, TRUE)
    BY <1>1, <1>9 DEF Answer
  <2>2. Target'.attached = Target.attached
    BY <1>5, <1>6, <2>1 DEF FailAt, NsType, Command, Target
  <2> QED
    BY <1>1, <1>6, <1>7, <2>1, <2>2, FailAtOK DEF Effects
<1> QED
  BY <1>8, <1>9

LEMMA FormatStepsOK ==
  ASSUME NsInv, FormatNvm \/ NsUpdate \/ RescanFilesystems
  PROVE  NsInv'
<1> USE DEF NsInv
<1>1. /\ nsAt \in {"format", "update", "rescan"} /\ nsAt' = After(nsAt)
      /\ UNCHANGED <<ns, nsMgmt, activeList, nsCmd>>
  BY DEF FormatNvm, NsUpdate, RescanFilesystems, NsGoto
<1>2. nsCmd.name = "format"
  BY <1>1, CreateOrder, DeleteOrder, AttachOrder, DetachOrder, FormatOrder,
     ListControllerOrder, GetOrder DEF NsType, Names
<1> QED
  BY <1>1, <1>2, FormatOrder
  DEF NsType, World, Stages, Managed, Deleting, Attaching, Detaching, Formatting,
      Unclaimed, Told, PathsGivenBack, Is, Target, Names, NsIdle, ValidNsId, AttachedNsId

LEMMA TellSuccessOK == ASSUME NsInv, TellSuccess PROVE NsInv'
<1> USE DEF NsInv
<1>1. /\ nsAt = "done" /\ nsCmd' = [nsCmd EXCEPT !.success = TRUE] /\ nsAt' = After(nsAt)
      /\ UNCHANGED <<ns, nsMgmt, activeList>>
  BY DEF TellSuccess
<1>2. /\ nsCmd.name \in Names
      /\ nsAt' = IF nsCmd.name \in {"detach", "format"} THEN "reclaim" ELSE "out"
      /\ nsAt' = "reclaim" => nsAt' \in StepsOf(nsCmd.name)
  BY <1>1, CreateOrder, DeleteOrder, AttachOrder, DetachOrder, FormatOrder,
     ListControllerOrder, GetOrder DEF NsType, Names
<1>3. /\ nsCmd' \in Command /\ nsCmd'.name = nsCmd.name /\ nsCmd'.id = nsCmd.id
      /\ nsCmd'.unclaimed = nsCmd.unclaimed /\ nsCmd'.gaveUp = nsCmd.gaveUp
      /\ nsCmd'.success
  BY <1>1 DEF NsType, Command
<1>4. NsType' /\ World'
  BY <1>1, <1>2, <1>3 DEF NsType, World, Names
<1>5. /\ nsCmd.name = "detach" => "done" \in StepsOf("detach")
      /\ nsCmd.name = "format" => "done" \in StepsOf("format")
  BY DetachOrder, FormatOrder
<1>6. Told'
  BY <1>1, <1>3, <1>5
  DEF Told, Target, Stages, Deleting, Attaching, Detaching, Formatting, Is, ValidNsId,
      AttachedNsId, World, NsType
<1>7. Stages' /\ Unclaimed'
  BY <1>1, <1>2, <1>3, <1>5, DetachOrder, FormatOrder
  DEF Stages, Managed, Deleting, Attaching, Detaching, Formatting, Is, Unclaimed,
      PathsGivenBack, NsIdle, Target, ValidNsId, AttachedNsId, Names
<1> QED
  BY <1>4, <1>6, <1>7

LEMMA ReclaimPathsOK ==
  ASSUME NsInv, NEW works \in BOOLEAN, ReclaimPaths(works)
  PROVE  NsInv'
<1> USE DEF NsInv
<1>1. nsAt = "reclaim" /\ nsAt' = "out" /\ UNCHANGED <<nsMgmt, activeList>>
  BY DEF ReclaimPaths
<1>2. /\ ns' \in [NsIds -> Namespace]
      /\ \A id \in NsIds :
           /\ ns'[id].attached = ns[id].attached /\ ns'[id].status = ns[id].status
           /\ ns'[id].allocated = ns[id].allocated
           /\ works /\ ns[id].status = "online" => ns'[id].claimed
  BY DEF ReclaimPaths, NsType, Namespace
<1>3. /\ nsCmd' \in Command /\ nsCmd'.name = nsCmd.name /\ nsCmd'.id = nsCmd.id
      /\ nsCmd'.unclaimed = nsCmd.unclaimed /\ nsCmd'.success = nsCmd.success
      /\ ~works => nsCmd'.gaveUp
  BY DEF ReclaimPaths, NsType, Command
<1>4. NsType' /\ World'
  BY <1>1, <1>2, <1>3 DEF NsType, World
<1>5. Stages' /\ Told'
  <2>1. /\ nsCmd.name = "detach" => "out" \notin StepsOf("detach")
        /\ nsCmd.name = "format" => "out" \notin StepsOf("format")
    BY DetachOrder, FormatOrder
  <2> QED
    BY <1>1, <1>2, <1>3, <2>1
    DEF Stages, Managed, Deleting, Attaching, Detaching, Formatting, Is, Told, Target,
        ValidNsId
<1>6. Unclaimed'
  BY <1>1, <1>2, <1>3 DEF Unclaimed, PathsGivenBack, Target, ValidNsId
<1> QED
  BY <1>4, <1>5, <1>6

(* The host changes nothing that a command relies on.                      *)
LEMMA HostOK ==
  ASSUME NsInv, NEW id \in NsIds, HostClaims(id) \/ HostUses(id)
  PROVE  NsInv'
<1> USE DEF NsInv
<1>1. UNCHANGED <<nsMgmt, activeList, nsCmd, nsAt>>
  BY DEF HostClaims, HostUses
<1>2. /\ ns' \in [NsIds -> Namespace]
      /\ \A i \in NsIds :
           /\ ns'[i].attached = ns[i].attached /\ ns'[i].status = ns[i].status
           /\ ns'[i].allocated = ns[i].allocated
           /\ ns[i].claimed => ns'[i].claimed
  <2>1. CASE HostClaims(id)
    BY <2>1 DEF HostClaims, NsType, Namespace
  <2>2. CASE HostUses(id)
    <3>1. (~ns[id].inUse) \in BOOLEAN
      OBVIOUS
    <3>2. ns' = [ns EXCEPT ![id] = [ns[id] EXCEPT !.inUse = ~ns[id].inUse]]
      BY <2>2 DEF HostUses
    <3> QED
      BY <3>1, <3>2 DEF NsType, Namespace
  <2> QED
    BY <2>1, <2>2
<1>3. NsType' /\ World'
  BY <1>1, <1>2 DEF NsType, World
<1>4. ValidNsId(nsCmd.id) =>
        /\ Target'.attached = Target.attached /\ Target'.status = Target.status
        /\ Target'.allocated = Target.allocated
        /\ AttachedNsId(nsCmd.id)' = AttachedNsId(nsCmd.id)
  BY <1>1, <1>2 DEF Target, ValidNsId, AttachedNsId
<1>5. ValidNsId(nsCmd.id)' = ValidNsId(nsCmd.id)
  BY <1>1 DEF ValidNsId
<1>6. (Managed /\ Deleting)'
  BY <1>1, <1>4, <1>5 DEF Stages, Managed, Deleting, Is
<1>7. Attaching'
  BY <1>1, <1>4, <1>5 DEF Stages, Attaching, Is
<1>8. Detaching'
  BY <1>1, <1>4, <1>5, DetachOrder DEF Stages, Detaching, Is
<1>9. Formatting'
  BY <1>1, <1>4, <1>5, FormatOrder DEF Stages, Formatting, Is
<1>10. Told'
  BY <1>1, <1>4, <1>5 DEF Told
<1>11. Unclaimed'
  BY <1>1, <1>2 DEF Unclaimed, PathsGivenBack, NsIdle, Target, ValidNsId
<1> QED
  BY <1>3, <1>6, <1>7, <1>8, <1>9, <1>10, <1>11 DEF Stages

LEMMA NsBeginOK ==
  ASSUME NsInv, NEW name \in DOMAIN Scripts, NEW id \in GivenIds, NsBegin(name, id)
  PROVE  NsInv'
<1> USE DEF NsInv
<1>1. /\ nsCmd' = [NoNsCmd EXCEPT !.name = name, !.id = id]
      /\ nsAt' = Head(Scripts[name]) /\ UNCHANGED <<ns, nsMgmt, activeList>>
  BY DEF NsBegin
<1>2. name \in Names /\ nsAt' = "open" /\ nsAt' \in StepsOf(name)
  BY <1>1
  DEF Scripts, Names, StepsOf, NsCreate, NsDelete, NsAttach, NsDetach, NsFormat,
      ListController, NsGet
<1>3. /\ nsCmd' \in Command /\ nsCmd'.name = name /\ nsCmd'.id = id
      /\ ~nsCmd'.unclaimed /\ ~nsCmd'.success
  BY <1>1, <1>2 DEF Command, NoNsCmd
<1> QED
  BY <1>1, <1>2, <1>3
  DEF NsType, World, Stages, Managed, Deleting, Attaching, Detaching, Formatting,
      Unclaimed, Told, PathsGivenBack, Is, Names

LEMMA NsNextOK == ASSUME NsInv, [NsNext]_nsVars PROVE NsInv'
<1>1. CASE UNCHANGED nsVars
  BY <1>1
  DEF nsVars, NsInv, NsType, World, Stages, Managed, Deleting, Attaching, Detaching,
      Formatting, Unclaimed, Told, PathsGivenBack, Is, Target, NsIdle, AttachedNsId
<1>2. CASE NsStep
  <2>1. CASE NsStepFails
    <3>1. FailAt(nsAt, FALSE) /\ UNCHANGED <<ns, nsMgmt, activeList>>
      BY <2>1 DEF NsStepFails, FailAt
    <3>2. ns' \in [NsIds -> Namespace] /\ World'
      BY <3>1 DEF NsInv, NsType, World
    <3>3. ValidNsId(nsCmd.id) => Target'.attached = Target.attached
      BY <3>1 DEF FailAt, NsInv, NsType, Command, Target
    <3> QED
      BY <2>1, <3>1, <3>2, <3>3, FailAtOK DEF NsStepFails
  <2> QED
    BY <1>2, <2>1, CheckPassesOK, NsMgmtDeleteOK, NsAttachCommandOK, NsGetStatusOK,
       GetDeviceNameOK, UnclaimPathOK, UnclaimNothingOK, NsSetStatusOK, FormatStepsOK,
       TellSuccessOK, NsMgmtCreateOK, NsListUpdateOK, ReclaimPathsOK DEF NsStep
<1> QED
  BY <1>1, <1>2, NsBeginOK, HostOK DEF NsNext

(* The inductive invariant.                                                *)
LEMMA NsInvInvariant == Spec => []NsInv
<1>1. Init => NsInv
  BY NsInitOK DEF Init
<1>2. NsInv /\ [Next]_vars => NsInv'
  BY OnlyNamespaces, NsNextOK
<1> QED
  BY <1>1, <1>2, PTL DEF Spec

-----------------------------------------------------------------------------
(* A namespace is formatted only while it is attached and not online.      *)
THEOREM FormatsOfflineHolds == Spec => []FormatsOffline
<1>1. NsInv => FormatsOffline
  <2> SUFFICES ASSUME NsInv, nsAt = "format"
               PROVE  Target.status # "online" /\ AttachedNsId(nsCmd.id)
    BY DEF FormatsOffline
  <2>1. nsCmd.name = "format"
    BY CreateOrder, DeleteOrder, AttachOrder, DetachOrder, FormatOrder,
       ListControllerOrder, GetOrder DEF NsInv, NsType, Names
  <2> QED
    BY <2>1, FormatOrder DEF NsInv, Stages, Formatting, Is
<1> QED
  BY <1>1, NsInvInvariant, PTL

(* A path that was unclaimed is claimed again, or the host did not rescan, *)
(* or reported a failure of what was done.                                 *)
THEOREM PathsGivenBackHolds == Spec => []PathsGivenBack
<1>1. NsInv => PathsGivenBack
  BY DEF NsInv, Unclaimed
<1> QED
  BY <1>1, NsInvInvariant, PTL

(* A step other than the deletion leaves a namespace allocated.            *)
LEMMA AllocatedStays ==
  ASSUME NsType, [NsNext]_nsVars, ~(\E ok \in BOOLEAN : NsMgmtDelete(ok)),
         NEW id \in NsIds, ns[id].allocated
  PROVE  ns'[id].allocated
<1>1. CASE UNCHANGED ns
  BY <1>1
<1>2. ns[id] \in Namespace /\ ns \in [NsIds -> Namespace]
  BY DEF NsType
<1>3. ASSUME NEW attributes, Become(attributes), id = nsCmd.id => attributes.allocated
      PROVE  ns'[id].allocated
  BY <1>2, <1>3 DEF Become
<1>4. ASSUME NEW ok \in BOOLEAN, NsAttachCommand(ok) PROVE ns'[id].allocated
  <2>1. Become([Target EXCEPT !.attached = (nsAt = "attach")])
    BY <1>4 DEF NsAttachCommand
  <2> QED
    BY <1>2, <1>3, <2>1 DEF Target, Namespace
<1>5. ASSUME NEW status \in Statuses, NEW ok \in BOOLEAN, NsListUpdate(status, ok)
      PROVE  ns'[id].allocated
  <2>1. \/ Become([Target EXCEPT !.status = status])
        \/ Become([Target EXCEPT !.status = status, !.claimed = FALSE, !.inUse = FALSE])
    BY <1>5 DEF NsListUpdate
  <2>2. CASE Become([Target EXCEPT !.status = status])
    BY <1>2, <1>3, <2>2 DEF Target, Namespace
  <2>3. CASE Become([Target EXCEPT !.status = status, !.claimed = FALSE, !.inUse = FALSE])
    BY <1>2, <1>3, <2>3 DEF Target, Namespace
  <2> QED
    BY <2>1, <2>2, <2>3
<1>6. ASSUME NEW ok \in BOOLEAN, UnclaimPath(ok) PROVE ns'[id].allocated
  <2>1. Become([Target EXCEPT !.claimed = FALSE])
    BY <1>6 DEF UnclaimPath
  <2> QED
    BY <1>2, <1>3, <2>1 DEF Target, Namespace
<1>7. ASSUME NEW ok \in BOOLEAN, NsSetStatus(ok) PROVE ns'[id].allocated
  <2>1. Become([Target EXCEPT !.status = nsAt])
    BY <1>7 DEF NsSetStatus
  <2> QED
    BY <1>2, <1>3, <2>1 DEF Target, Namespace
<1>8. ASSUME NEW new \in NsIds, NEW ok \in BOOLEAN, NsMgmtCreate(new, ok)
      PROVE  ns'[id].allocated
  BY <1>2, <1>8 DEF NsMgmtCreate
<1>9. ASSUME NEW works \in BOOLEAN, ReclaimPaths(works) PROVE ns'[id].allocated
  BY <1>2, <1>9 DEF ReclaimPaths, Namespace
<1>10. ASSUME NEW other \in NsIds, HostClaims(other) \/ HostUses(other)
       PROVE  ns'[id].allocated
  BY <1>2, <1>10 DEF HostClaims, HostUses, Namespace
<1>11. CASE \/ NsStepFails \/ CheckPasses \/ NsGetStatus \/ GetDeviceName \/ UnclaimNothing
            \/ FormatNvm \/ NsUpdate \/ RescanFilesystems \/ TellSuccess
            \/ UNCHANGED nsVars
            \/ \E name \in DOMAIN Scripts, n \in GivenIds : NsBegin(name, n)
  BY <1>1, <1>11
  DEF NsStepFails, CheckPasses, NsGetStatus, GetDeviceName, UnclaimNothing, FailAt,
      FormatNvm, NsUpdate, RescanFilesystems, TellSuccess, NsBegin, NsGoto, nsVars
<1> QED
  BY <1>4, <1>5, <1>6, <1>7, <1>8, <1>9, <1>10, <1>11 DEF NsNext, NsStep

(* A namespace is deleted only while it is neither attached nor online.    *)
THEOREM DeletesDetachedHolds == Spec => DeletesDetached
<1> DEFINE Deletes == \A id \in NsIds : ns[id].allocated /\ ~ns'[id].allocated =>
                        ~ns[id].attached /\ ns[id].status # "online"
<1>1. NsInv /\ [Next]_vars => [Deletes]_vars
  <2> SUFFICES ASSUME NsInv, [Next]_vars, NEW id \in NsIds,
                      ns[id].allocated, ~ns'[id].allocated
               PROVE  ~ns[id].attached /\ ns[id].status # "online"
    OBVIOUS
  <2>1. PICK ok \in BOOLEAN : NsMgmtDelete(ok)
    BY OnlyNamespaces, AllocatedStays DEF NsInv
  <2>2. nsAt = "delete" /\ Become([Target EXCEPT !.allocated = FALSE, !.attached = FALSE])
    BY <2>1 DEF NsMgmtDelete
  <2>3. nsCmd.name = "delete"
    BY <2>2, CreateOrder, DeleteOrder, AttachOrder, DetachOrder, FormatOrder,
       ListControllerOrder, GetOrder DEF NsInv, NsType, Names
  <2>4. id = nsCmd.id
    BY <2>2 DEF NsInv, NsType, Become
  <2> QED
    BY <2>2, <2>3, <2>4
    DEF NsInv, Stages, Deleting, Is, AttachedNsId, ValidNsId, Target
<1> QED
  BY <1>1, NsInvInvariant, PTL DEF Spec, DeletesDetached

(* What a command says it has done is done, when it says so and when it    *)
(* returns.                                                                *)
THEOREM SuccessIsDoneHolds == Spec => []SuccessIsDone
<1>1. NsInv /\ CommitTold => SuccessIsDone
  BY DEF NsInv, Told, CommitTold, SuccessIsDone
<1> QED
  BY <1>1, NsInvInvariant, CommitsTold, PTL

-----------------------------------------------------------------------------
(* The list of namespaces: the merge of the device's two lists.            *)

(* The order of the natural numbers, as a relation.                        *)
Less == {ss \in Nat \X Nat : ss[1] < ss[2]}

(* A set of natural numbers has a least one.                               *)
LEMMA LeastNat ==
  ASSUME NEW T, T \subseteq Nat, T # {}
  PROVE  \E n \in T : \A i \in T : n <= i
<1>1. IsWellFoundedOn(Less, Nat)
  BY NatLessThanWellFounded DEF OpToRel, Less
<1>2. PICK n \in T : \A i \in T : ~(<<i, n>> \in Less)
  BY <1>1, WFMin
<1>3. \A i \in T : ~(i < n)
  BY <1>2 DEF Less
<1> QED BY <1>3

(* The places of the merge, and how far each is from the end of both lists.*)
Places(m, n) == (1..(m + 1)) \X (1..(n + 1))
Ahead(m, n, at) == (m + 1 - at[1]) + (n + 1 - at[2])
(* What the merge puts at a place.                                         *)
Merge(a, b, f, at) ==
  LET i == at[1]
      j == at[2]
      left == i <= Len(a)
      right == j <= Len(b)
  IN IF left /\ (~right \/ a[i] < b[j])
     THEN <<NamespaceInfo(a[i], "allocated")>> \o f[<<i + 1, j>>]
     ELSE IF ~right THEN <<>>
     ELSE <<NamespaceInfo(b[j], "active")>>
          \o f[<<IF left /\ a[i] = b[j] THEN i + 1 ELSE i, j + 1>>]
Merges(a, b, f) == f = [at \in Places(Len(a), Len(b)) |-> Merge(a, b, f, at)]

(* MergedLists chooses a function that merges.                             *)
LEMMA MergedListsIs ==
  ASSUME NEW a, NEW b
  PROVE  MergedLists(a, b) = (CHOOSE f : Merges(a, b, f))[<<1, 1>>]
BY DEF MergedLists, Merges, Merge, Places

(* Only the places closer to the end are looked at.                        *)
LEMMA MergeLooksAhead ==
  ASSUME NEW a, NEW b, NEW m \in Nat, NEW n \in Nat, Len(a) = m, Len(b) = n,
         NEW at \in Places(m, n), NEW f, NEW g,
         \A p \in Places(m, n) : Ahead(m, n, p) < Ahead(m, n, at) => f[p] = g[p]
  PROVE  Merge(a, b, f, at) = Merge(a, b, g, at)
<1>1. PICK i \in 1..(m + 1), j \in 1..(n + 1) : at = <<i, j>>
  BY DEF Places
<1>2. at[1] = i /\ at[2] = j
  BY <1>1
<1>3. ASSUME NEW p \in {<<i + 1, j>>, <<i + 1, j + 1>>, <<i, j + 1>>},
             p[1] <= m + 1, p[2] <= n + 1
      PROVE  f[p] = g[p]
  <2>1. p \in Places(m, n)
    BY <1>3 DEF Places
  <2>2. Ahead(m, n, p) < Ahead(m, n, at)
    BY <1>2, <1>3 DEF Ahead
  <2> QED BY <2>1, <2>2
<1>4. i <= m => f[<<i + 1, j>>] = g[<<i + 1, j>>]
  BY <1>3
<1>5. i <= m /\ j <= n => f[<<i + 1, j + 1>>] = g[<<i + 1, j + 1>>]
  BY <1>3
<1>6. j <= n => f[<<i, j + 1>>] = g[<<i, j + 1>>]
  BY <1>3
<1> QED BY <1>2, <1>4, <1>5, <1>6 DEF Merge

(* The distance from the end is a natural number.                          *)
LEMMA AheadIs ==
  ASSUME NEW m \in Nat, NEW n \in Nat, NEW at \in Places(m, n)
  PROVE  Ahead(m, n, at) \in 0..(m + n)
BY DEF Places, Ahead

(* There is one: by induction on the distance from the end.                *)
LEMMA MergeExists ==
  ASSUME NEW a, NEW b, Len(a) \in Nat, Len(b) \in Nat
  PROVE  Merges(a, b, CHOOSE f : Merges(a, b, f))
<1> DEFINE m == Len(a)
           n == Len(b)
           Small(k) == {at \in Places(m, n) : Ahead(m, n, at) < k}
           Part(f, k) == f = [at \in Small(k) |-> Merge(a, b, f, at)]
           Bad == {k \in Nat : ~\E f : Part(f, k)}
<1>1. \E f : Part(f, 0)
  <2>1. Small(0) = {}
    BY DEF Places, Ahead
  <2>2. Part([at \in {} |-> 0], 0)
    BY <2>1
  <2> QED BY <2>2
<1>2. ASSUME NEW k \in Nat, NEW f, Part(f, k)
      PROVE  \E g : Part(g, k + 1)
  <2>0. \A p \in Places(m, n) : Ahead(m, n, p) \in Nat /\ (Ahead(m, n, p) < k => Ahead(m, n, p) < k + 1)
    <3>1. \A p \in Places(m, n) : Ahead(m, n, p) \in Nat
      BY AheadIs
    <3> QED BY <3>1
  <2> DEFINE g == [at \in Small(k + 1) |-> IF at \in Small(k) THEN f[at] ELSE Merge(a, b, f, at)]
  <2>1. \A at \in Small(k) : f[at] = Merge(a, b, f, at) /\ at \in Small(k + 1)
    <3>1. \A at \in Small(k) : at \in Small(k + 1)
      BY <2>0
    <3>2. \A at \in Small(k) : f[at] = Merge(a, b, f, at)
      <4> HIDE DEF Small
      <4> QED BY <1>2
    <3> QED BY <3>1, <3>2
  <2>2. \A at \in Small(k + 1) : g[at] = Merge(a, b, f, at)
    <3> HIDE DEF Small
    <3> QED BY <2>1
  <2>3. \A at \in Small(k) : g[at] = f[at]
    <3> HIDE DEF Small
    <3> QED BY <2>1, <2>2
  <2>4. ASSUME NEW at \in Small(k + 1)
        PROVE  Merge(a, b, f, at) = Merge(a, b, g, at)
    <3>0. at \in Places(m, n) /\ m \in Nat /\ n \in Nat
      OBVIOUS
    <3>1. ASSUME NEW p \in Places(m, n), Ahead(m, n, p) < Ahead(m, n, at) PROVE f[p] = g[p]
      <4>1. Ahead(m, n, p) \in Nat /\ Ahead(m, n, at) \in Nat
        BY <3>0, AheadIs
      <4>2. Ahead(m, n, at) < k + 1
        OBVIOUS
      <4>3. Ahead(m, n, p) < k
        BY <3>1, <4>1, <4>2
      <4>4. p \in Small(k)
        BY <3>1, <4>3
      <4> HIDE DEF Small, g
      <4> QED BY <4>4, <2>3
    <3> HIDE DEF g, Small
    <3> QED BY <3>0, <3>1, MergeLooksAhead
  <2>5. g = [at \in Small(k + 1) |-> Merge(a, b, g, at)]
    <3>1. \A at \in Small(k + 1) : g[at] = Merge(a, b, g, at)
      BY <2>2, <2>4
    <3> HIDE DEF Small
    <3>2. \A h : h = [at \in Small(k + 1) |-> g[at]] /\ (\A at \in Small(k + 1) : g[at] = Merge(a, b, g, at))
                 => h = [at \in Small(k + 1) |-> Merge(a, b, g, at)]
      OBVIOUS
    <3>3. g = [at \in Small(k + 1) |-> g[at]]
      OBVIOUS
    <3> HIDE DEF g
    <3> QED BY <3>1, <3>2, <3>3
  <2> QED BY <2>5
<1>3. Bad = {}
  <2>1. SUFFICES ASSUME Bad # {} PROVE FALSE
    OBVIOUS
  <2>2. Bad \subseteq Nat
    OBVIOUS
  <2>3. PICK k \in Bad : \A i \in Bad : k <= i
    BY <2>1, <2>2, LeastNat
  <2> HIDE DEF Part
  <2>4. k # 0
    BY <1>1, <2>3
  <2>5. k - 1 \in Nat /\ k - 1 \notin Bad /\ (k - 1) + 1 = k
    BY <2>3, <2>4
  <2> QED BY <1>2, <2>3, <2>5
<1>4. Small(m + n + 1) = Places(m, n)
  <2>1. ASSUME NEW at \in Places(m, n) PROVE Ahead(m, n, at) < m + n + 1
    BY AheadIs
  <2> QED BY <2>1
<1>5. \E f : Merges(a, b, f)
  <2>1. m + n + 1 \in Nat
    OBVIOUS
  <2>2. PICK f : Part(f, m + n + 1)
    <3> HIDE DEF Part
    <3> QED BY <1>3, <2>1
  <2> QED BY <2>2, <1>4 DEF Merges
<1> QED BY <1>5

(* A list of namespaces: each id of A and B once, in order, as active if it *)
(* is in B.                                                                *)
ListEntry == [nsId : Nat, status : {"allocated", "active"}]
Lists(A, B, s) ==
  /\ s \in Seq(ListEntry)
  /\ \A x, y \in 1..Len(s) : x < y => s[x].nsId < s[y].nsId
  /\ {s[x].nsId : x \in 1..Len(s)} = A \cup B
  /\ \A x \in 1..Len(s) : s[x].status = "active" <=> s[x].nsId \in B
Rising(a) == a \in Seq(Nat) /\ \A u, v \in 1..Len(a) : u < v => a[u] < a[v]
From(a, i) == {a[u] : u \in i..Len(a)}

(* A list of namespaces with a smaller id before it.                       *)
LEMMA ListsOneMore ==
  ASSUME NEW A \in SUBSET Nat, NEW B \in SUBSET Nat, NEW s, Lists(A, B, s), NEW e \in ListEntry,
         NEW A2 \in SUBSET Nat, NEW B2 \in SUBSET Nat,
         \A x \in A \cup B : e.nsId < x /\ (x \in B2 <=> x \in B),
         A2 \cup B2 = {e.nsId} \cup A \cup B,
         e.status = "active" <=> e.nsId \in B2
  PROVE  Lists(A2, B2, <<e>> \o s)
<1> DEFINE t == <<e>> \o s
<1>1. s \in Seq(ListEntry) /\ Len(s) \in Nat
  BY DEF Lists
<1>2. /\ t \in Seq(ListEntry) /\ Len(t) = Len(s) + 1 /\ t[1] = e
      /\ \A x \in 1..Len(s) : t[x + 1] = s[x]
  BY <1>1
<1> HIDE DEF t
<1>3. ASSUME NEW x \in 1..Len(t)
      PROVE  \/ x = 1
             \/ x - 1 \in 1..Len(s) /\ t[x] = s[x - 1]
  <2>1. x # 1 => x - 1 \in 1..Len(s) /\ (x - 1) + 1 = x
    BY <1>1, <1>2
  <2> QED BY <2>1, <1>2
<1>4. \A x \in 1..Len(s) : s[x].nsId \in A \cup B
  BY DEF Lists
<1>5. ASSUME NEW x \in 1..Len(t), NEW y \in 1..Len(t), x < y
      PROVE  t[x].nsId < t[y].nsId
  <2>1. y - 1 \in 1..Len(s) /\ t[y] = s[y - 1]
    BY <1>3, <1>5
  <2>2. CASE x = 1
    BY <2>1, <2>2, <1>2, <1>4
  <2>3. CASE x - 1 \in 1..Len(s) /\ t[x] = s[x - 1]
    <3>1. x - 1 < y - 1
      BY <1>5
    <3> QED BY <2>1, <2>3, <3>1 DEF Lists
  <2> QED BY <1>3, <2>2, <2>3
<1>6. {t[x].nsId : x \in 1..Len(t)} = A2 \cup B2
  <2>1. ASSUME NEW x \in 1..Len(t) PROVE t[x].nsId \in A2 \cup B2
    BY <1>2, <1>3, <1>4
  <2>2. ASSUME NEW z \in A2 \cup B2 PROVE \E x \in 1..Len(t) : t[x].nsId = z
    <3>1. CASE z = e.nsId
      <4>1. 1 \in 1..Len(t)
        BY <1>1, <1>2
      <4> QED BY <3>1, <4>1, <1>2
    <3>2. CASE z \in A \cup B
      <4>1. PICK x \in 1..Len(s) : s[x].nsId = z
        BY <3>2 DEF Lists
      <4>2. x + 1 \in 1..Len(t)
        BY <1>1, <1>2
      <4> QED BY <4>1, <4>2, <1>2
    <3> QED BY <3>1, <3>2
  <2> QED BY <2>1, <2>2
<1>7. ASSUME NEW x \in 1..Len(t)
      PROVE  (t[x].status = "active") <=> (t[x].nsId \in B2)
  <2>1. CASE x = 1
    BY <2>1, <1>2
  <2>2. CASE x - 1 \in 1..Len(s) /\ t[x] = s[x - 1]
    <3>1. (s[x - 1].status = "active") <=> (s[x - 1].nsId \in B)
      BY <2>2 DEF Lists
    <3>2. s[x - 1].nsId \in A \cup B
      BY <2>2, <1>4
    <3> QED BY <2>2, <3>1, <3>2
  <2> QED BY <1>3, <2>1, <2>2
<1> QED BY <1>2, <1>5, <1>6, <1>7 DEF Lists, t

(* The ids from a place of an ascending list on.                           *)
LEMMA FromIs ==
  ASSUME NEW a, Rising(a), NEW i \in 1..(Len(a) + 1)
  PROVE  /\ From(a, i) \in SUBSET Nat /\ Len(a) \in Nat
         /\ i <= Len(a) => /\ From(a, i) = {a[i]} \cup From(a, i + 1)
                           /\ \A x \in From(a, i + 1) : a[i] < x
                           /\ \A x \in From(a, i) : a[i] <= x
                           /\ a[i] \in Nat /\ a[i] \in From(a, i)
                           /\ i + 1 \in 1..(Len(a) + 1)
         /\ ~(i <= Len(a)) => From(a, i) = {}
<1>1. a \in Seq(Nat) /\ Len(a) \in Nat /\ \A u \in 1..Len(a) : a[u] \in Nat
  BY DEF Rising
<1>2. \A u, v \in 1..Len(a) : u < v => a[u] < a[v]
  BY DEF Rising
<1>3. From(a, i) \in SUBSET Nat
  BY <1>1 DEF From
<1>4. CASE i <= Len(a)
  <2>1. i \in 1..Len(a) /\ i + 1 \in 1..(Len(a) + 1) /\ i \in i..Len(a)
    BY <1>1, <1>4
  <2>2. \A x \in From(a, i + 1) : a[i] < x
    <3>1. ASSUME NEW u \in (i + 1)..Len(a) PROVE a[i] < a[u]
      <4>1. u \in 1..Len(a) /\ i < u
        BY <1>1
      <4> QED BY <4>1, <2>1, <1>2
    <3> QED BY <3>1 DEF From
  <2>3. From(a, i) = {a[i]} \cup From(a, i + 1)
    <3>1. \A u : u \in i..Len(a) <=> u = i \/ u \in (i + 1)..Len(a)
      BY <1>1, <2>1
    <3> QED BY <3>1 DEF From
  <2>4. \A x \in From(a, i) : a[i] <= x
    <3>1. a[i] \in Nat /\ From(a, i + 1) \in SUBSET Nat
      BY <1>1, <2>1, <1>3, <2>3
    <3> QED BY <2>2, <2>3, <3>1
  <2> QED BY <1>1, <1>3, <1>4, <2>1, <2>2, <2>3, <2>4
<1>5. CASE ~(i <= Len(a))
  <2>1. i..Len(a) = {}
    BY <1>1, <1>5
  <2> QED BY <1>1, <1>3, <1>5, <2>1 DEF From
<1> QED BY <1>4, <1>5

(* What the merge puts at a place lists what is left of both lists.        *)
LEMMA MergeLists ==
  ASSUME NEW a, Rising(a), NEW b, Rising(b), NEW at \in Places(Len(a), Len(b)), NEW f,
         \A p \in Places(Len(a), Len(b)) :
           Ahead(Len(a), Len(b), p) < Ahead(Len(a), Len(b), at) =>
             Lists(From(a, p[1]), From(b, p[2]), f[p])
  PROVE  Lists(From(a, at[1]), From(b, at[2]), Merge(a, b, f, at))
<1> DEFINE m == Len(a)
           n == Len(b)
<1>1. PICK i \in 1..(m + 1), j \in 1..(n + 1) : at = <<i, j>>
  BY DEF Places
<1>2. at[1] = i /\ at[2] = j
  BY <1>1
<1>3. m \in Nat /\ n \in Nat
  BY FromIs
<1>4. ASSUME NEW p \in {<<i + 1, j>>, <<i + 1, j + 1>>, <<i, j + 1>>},
             p[1] <= m + 1, p[2] <= n + 1
      PROVE  Lists(From(a, p[1]), From(b, p[2]), f[p])
  <2>1. p \in Places(m, n)
    BY <1>3, <1>4 DEF Places
  <2>2. Ahead(m, n, p) < Ahead(m, n, at)
    <3>1. Ahead(m, n, at) = (m + 1 - i) + (n + 1 - j)
      BY <1>2 DEF Ahead
    <3>2. CASE p = <<i + 1, j>>
      BY <1>3, <3>1, <3>2 DEF Ahead
    <3>3. CASE p = <<i + 1, j + 1>>
      BY <1>3, <3>1, <3>3 DEF Ahead
    <3>4. CASE p = <<i, j + 1>>
      BY <1>3, <3>1, <3>4 DEF Ahead
    <3> QED BY <3>2, <3>3, <3>4
  <2> QED BY <2>1, <2>2
<1>5. i <= m => Lists(From(a, i + 1), From(b, j), f[<<i + 1, j>>])
  BY <1>3, <1>4
<1>6. i <= m /\ j <= n => Lists(From(a, i + 1), From(b, j + 1), f[<<i + 1, j + 1>>])
  BY <1>3, <1>4
<1>7. j <= n => Lists(From(a, i), From(b, j + 1), f[<<i, j + 1>>])
  BY <1>3, <1>4
<1> DEFINE A == From(a, i)
           B == From(b, j)
           A1 == From(a, i + 1)
           B1 == From(b, j + 1)
<1>8. /\ A \in SUBSET Nat
      /\ i <= m => A = {a[i]} \cup A1 /\ a[i] \in Nat /\ A1 \in SUBSET Nat
      /\ i <= m => (\A x \in A1 : a[i] < x) /\ (\A x \in A : a[i] <= x)
      /\ ~(i <= m) => A = {}
  BY FromIs
<1>9. /\ B \in SUBSET Nat
      /\ j <= n => B = {b[j]} \cup B1 /\ b[j] \in Nat /\ B1 \in SUBSET Nat
      /\ j <= n => (\A x \in B1 : b[j] < x) /\ (\A x \in B : b[j] <= x)
      /\ ~(j <= n) => B = {}
  BY FromIs
<1> HIDE DEF A, B, A1, B1
<1>10. CASE i <= m /\ (~(j <= n) \/ a[i] < b[j])
  <2> DEFINE e == NamespaceInfo(a[i], "allocated")
  <2>1. Merge(a, b, f, at) = <<e>> \o f[<<i + 1, j>>]
    BY <1>2, <1>10 DEF Merge
  <2>2. e \in ListEntry /\ e.nsId = a[i] /\ e.status # "active"
    BY <1>8, <1>10 DEF NamespaceInfo, ListEntry
  <2>3. \A x \in B : a[i] < x
    BY <1>8, <1>9, <1>10
  <2>4. a[i] \notin B
    BY <1>8, <1>10, <2>3
  <2>5. Lists(A1, B, f[<<i + 1, j>>])
    BY <1>5, <1>10 DEF A1, B
  <2>6. \A x \in A1 \cup B : e.nsId < x /\ (x \in B <=> x \in B)
    BY <2>2, <2>3, <1>8, <1>10
  <2>7. A \cup B = {e.nsId} \cup A1 \cup B
    BY <2>2, <1>8, <1>10
  <2>8. A1 \in SUBSET Nat
    BY <1>8, <1>10
  <2>9. (e.status = "active") <=> (e.nsId \in B)
    BY <2>2, <2>4
  <2> HIDE DEF e
  <2>10. Lists(A, B, <<e>> \o f[<<i + 1, j>>])
    BY <2>2, <2>5, <2>6, <2>7, <2>8, <2>9, <1>8, <1>9, ListsOneMore
  <2> QED BY <2>1, <2>10, <1>2 DEF A, B
<1>11. CASE ~(i <= m) /\ ~(j <= n)
  <2>1. Merge(a, b, f, at) = <<>>
    BY <1>2, <1>11 DEF Merge
  <2>2. A = {} /\ B = {}
    BY <1>8, <1>9, <1>11
  <2>3. Lists({}, {}, <<>>)
    BY DEF Lists
  <2> QED BY <2>1, <2>2, <2>3, <1>2 DEF A, B
<1>12. CASE j <= n /\ ~(i <= m /\ a[i] < b[j])
  <2> DEFINE e == NamespaceInfo(b[j], "active")
             both == i <= m /\ a[i] = b[j]
             C == IF both THEN A1 ELSE A
             s == f[<<IF both THEN i + 1 ELSE i, j + 1>>]
  <2>1. Merge(a, b, f, at) = <<e>> \o s
    BY <1>2, <1>12 DEF Merge
  <2>2. e \in ListEntry /\ e.nsId = b[j] /\ e.status = "active"
    BY <1>9, <1>12 DEF NamespaceInfo, ListEntry
  <2>3. Lists(C, B1, s)
    <3>1. CASE both  BY <3>1, <1>6, <1>12 DEF A1, B1
    <3>2. CASE ~both  BY <3>2, <1>7, <1>12 DEF A, B1
    <3> QED BY <3>1, <3>2
  <2>4. C \in SUBSET Nat /\ B1 \in SUBSET Nat
    BY <1>8, <1>9, <1>12
  <2>5. \A x \in C : b[j] < x
    <3>1. CASE both  BY <3>1, <1>8
    <3>2. CASE ~both /\ i <= m
      <4>1. b[j] < a[i]
        BY <3>2, <1>8, <1>9, <1>12
      <4> QED BY <3>2, <4>1, <1>8, <1>9, <1>12
    <3>3. CASE ~(i <= m)  BY <3>3, <1>8
    <3> QED BY <3>1, <3>2, <3>3
  <2>6. \A x \in C \cup B1 : e.nsId < x
    BY <2>2, <2>5, <1>9, <1>12
  <2>7. \A x \in C \cup B1 : x \in B <=> x \in B1
    <3>1. \A x \in C \cup B1 : x # b[j]
      BY <2>2, <2>4, <2>6, <1>9, <1>12
    <3> QED BY <3>1, <1>9, <1>12
  <2>8. A \cup B = {e.nsId} \cup C \cup B1
    <3>1. CASE both  BY <3>1, <2>2, <1>8, <1>9, <1>12
    <3>2. CASE ~both  BY <3>2, <2>2, <1>9, <1>12
    <3> QED BY <3>1, <3>2
  <2>9. (e.status = "active") <=> (e.nsId \in B)
    BY <2>2, <1>9, <1>12
  <2> HIDE DEF e, C, s
  <2>10. Lists(A, B, <<e>> \o s)
    BY <2>2, <2>3, <2>4, <2>6, <2>7, <2>8, <2>9, <1>8, <1>9, ListsOneMore
  <2> QED BY <2>1, <2>10, <1>2 DEF A, B
<1> QED BY <1>10, <1>11, <1>12

(* The merge of two ascending lists lists their ids.                       *)
LEMMA MergedListsList ==
  ASSUME NEW a, Rising(a), NEW b, Rising(b)
  PROVE  Lists(From(a, 1), From(b, 1), MergedLists(a, b))
<1> DEFINE m == Len(a)
           n == Len(b)
           P == Places(m, n)
           f == CHOOSE f : Merges(a, b, f)
           Good(at) == Lists(From(a, at[1]), From(b, at[2]), f[at])
           Bad == {k \in Nat : \E at \in P : Ahead(m, n, at) = k /\ ~Good(at)}
<1>1. m \in Nat /\ n \in Nat
  BY DEF Rising
<1>2. Merges(a, b, f)
  BY <1>1, MergeExists
<1> HIDE DEF f
<1>3. \A at \in P : f[at] = Merge(a, b, f, at)
  BY <1>2 DEF Merges
<1>4. Bad = {}
  <2>1. SUFFICES ASSUME Bad # {} PROVE FALSE
    OBVIOUS
  <2>2. Bad \subseteq Nat
    OBVIOUS
  <2>3. PICK k \in Bad : \A i \in Bad : k <= i
    BY <2>1, <2>2, LeastNat
  <2>4. PICK at \in P : Ahead(m, n, at) = k /\ ~Good(at)
    BY <2>3
  <2>5. ASSUME NEW p \in P, Ahead(m, n, p) < Ahead(m, n, at)
        PROVE  Good(p)
    <3>1. Ahead(m, n, p) \in Nat /\ Ahead(m, n, at) \in Nat
      BY <1>1, AheadIs
    <3>2. Ahead(m, n, p) \notin Bad
      <4> HIDE DEF Bad
      <4> QED BY <2>3, <2>4, <2>5, <3>1
    <3> HIDE DEF Good
    <3> QED BY <3>1, <3>2
  <2>6. Lists(From(a, at[1]), From(b, at[2]), Merge(a, b, f, at))
    BY <2>5, MergeLists
  <2> QED BY <2>4, <2>6, <1>3
<1>5. \A at \in P : Good(at)
  <2>1. \A at \in P : Ahead(m, n, at) \in Nat
    BY <1>1, AheadIs
  <2> HIDE DEF Good, P
  <2> QED BY <2>1, <1>4
<1>6. <<1, 1>> \in P
  BY <1>1 DEF Places
<1>7. Lists(From(a, 1), From(b, 1), f[<<1, 1>>])
  BY <1>5, <1>6
<1> QED BY <1>7, MergedListsIs DEF f

(* Ascending lists the ids in order, each once.                            *)
LEMMA AscendingIs ==
  ASSUME NEW ids \in SUBSET NsIds
  PROVE  Rising(Ascending(ids)) /\ From(Ascending(ids), 1) = ids
<1> DEFINE c == Cardinality(ids)
           Below(z) == {x \in ids : x < z}
           rank == [z \in ids |-> Cardinality(Below(z)) + 1]
           a == Ascending(ids)
<1>1. IsFiniteSet(ids) /\ c \in Nat /\ ids \subseteq Nat
  <2>1. NumNs \in Nat /\ ids \subseteq 1..NumNs
    BY NumNsAssumption DEF NsIds
  <2>2. IsFiniteSet(1..NumNs)
    BY <2>1, FS_Interval
  <2>3. IsFiniteSet(ids)
    BY <2>1, <2>2, FS_Subset
  <2>4. c \in Nat
    BY <2>3, FS_CardinalityType
  <2> QED BY <2>1, <2>3, <2>4
<1>2. ASSUME NEW y \in ids, NEW z \in ids, y < z
      PROVE  Below(y) \in SUBSET Below(z) /\ y \in Below(z) /\ y \notin Below(y)
  <2>1. y \in Nat /\ z \in Nat
    BY <1>1
  <2>2. \A x \in ids : x < y => x < z
    <3>1. \A x \in ids : x \in Nat
      BY <1>1
    <3> QED BY <2>1, <3>1, <1>2
  <2>3. y \in ids /\ y < z /\ ~(y < y)
    BY <2>1, <1>2
  <2> QED BY <2>2, <2>3
<1>3. ASSUME NEW z \in ids
      PROVE  /\ IsFiniteSet(Below(z)) /\ Cardinality(Below(z)) \in Nat
             /\ Cardinality(Below(z)) < c
  <2>1. Below(z) \in SUBSET ids /\ z \notin Below(z)
    BY <1>1
  <2>2. IsFiniteSet(Below(z)) /\ Cardinality(Below(z)) <= c /\ Cardinality(Below(z)) # c
    BY <1>1, <2>1, FS_Subset
  <2>3. Cardinality(Below(z)) \in Nat
    BY <2>2, FS_CardinalityType
  <2> QED BY <1>1, <2>2, <2>3
<1>4. ASSUME NEW y \in ids, NEW z \in ids, y < z
      PROVE  Cardinality(Below(y)) < Cardinality(Below(z))
  <2>1. Cardinality(Below(y)) <= Cardinality(Below(z)) /\ Cardinality(Below(y)) # Cardinality(Below(z))
    BY <1>2, <1>3, <1>4, FS_Subset
  <2> QED BY <1>3, <2>1
<1> HIDE DEF Below
<1>5. rank \in [ids -> 1..c] /\ \A z \in ids : rank[z] = Cardinality(Below(z)) + 1
  <2>1. \A z \in ids : Cardinality(Below(z)) + 1 \in 1..c
    BY <1>1, <1>3
  <2> QED BY <2>1
<1>6. \A y, z \in ids : y < z => rank[y] < rank[z]
  BY <1>3, <1>4, <1>5
<1> HIDE DEF rank
<1>7. \A y, z \in ids : rank[y] = rank[z] => y = z
  <2>1. \A y, z \in ids : y < z \/ z < y \/ y = z
    BY <1>1
  <2>2. \A z \in ids : rank[z] \in Nat
    BY <1>5
  <2> QED BY <1>6, <2>1, <2>2
<1>8. rank \in Injection(ids, 1..c)
  BY <1>5, <1>7 DEF Injection, IsInjective
<1>9. rank \in Surjection(ids, 1..c)
  <2>1. IsFiniteSet(1..c) /\ Cardinality(1..c) = c
    <3>1. IsFiniteSet(1..c) /\ Cardinality(1..c) = IF 1 > c THEN 0 ELSE c - 1 + 1
      BY <1>1, FS_Interval
    <3> QED BY <1>1, <3>1
  <2> QED BY <1>8, <2>1, FS_Injection
<1>10. \A i \in 1..c : \E z \in ids : rank[z] = i
  BY <1>9 DEF Surjection
<1>11. /\ DOMAIN a = 1..c
       /\ \A i \in 1..c : a[i] = CHOOSE z \in ids : Cardinality(Below(z)) = i - 1
  BY DEF Ascending, Below
<1>12. a = [i \in 1..c |-> a[i]]
  <2> DEFINE Nth(i) == CHOOSE z \in ids : Cardinality({x \in ids : x < z}) = i - 1
  <2>1. a = [i \in 1..c |-> Nth(i)]
    BY DEF Ascending
  <2> HIDE DEF a, Nth, c
  <2> QED BY <2>1
<1> HIDE DEF a
<1>13. \A i \in 1..c : a[i] \in ids /\ rank[a[i]] = i
  <2>1. ASSUME NEW i \in 1..c PROVE a[i] \in ids /\ rank[a[i]] = i
    <3>1. PICK z \in ids : rank[z] = i
      BY <1>10
    <3>2. Cardinality(Below(z)) = i - 1
      BY <1>3, <1>5, <3>1
    <3>3. a[i] \in ids /\ Cardinality(Below(a[i])) = i - 1
      BY <1>11, <3>2
    <3> QED BY <1>5, <3>3
  <2> QED BY <2>1
<1>14. a \in Seq(Nat) /\ Len(a) = c
  <2>1. \A i \in 1..c : a[i] \in Nat
    BY <1>1, <1>13
  <2>2. a \in [1..c -> Nat]
    BY <1>12, <2>1
  <2> QED BY <1>1, <2>2
<1>15. ASSUME NEW i \in 1..Len(a), NEW j \in 1..Len(a), i < j
       PROVE  a[i] < a[j]
  <2>1. /\ a[i] \in ids /\ a[j] \in ids /\ rank[a[i]] = i /\ rank[a[j]] = j
    BY <1>13, <1>14
  <2>2. ~(a[j] < a[i]) /\ a[i] # a[j]
    <3>1. i \in Nat /\ j \in Nat /\ ~(j < i)
      BY <1>14, <1>15
    <3>2. ~(rank[a[j]] < rank[a[i]]) /\ rank[a[i]] # rank[a[j]]
      BY <2>1, <3>1, <1>15
    <3> QED BY <2>1, <3>2, <1>6
  <2>3. a[i] \in Nat /\ a[j] \in Nat
    BY <1>1, <2>1
  <2> QED BY <2>2, <2>3
<1>16. From(a, 1) = ids
  <2>1. From(a, 1) \subseteq ids
    BY <1>13, <1>14 DEF From
  <2>2. ASSUME NEW z \in ids PROVE z \in From(a, 1)
    <3>1. rank[z] \in 1..c
      BY <1>5
    <3>2. a[rank[z]] = z
      BY <3>1, <1>13, <1>7
    <3> QED BY <3>1, <3>2, <1>14 DEF From
  <2> QED BY <2>1, <2>2
<1> QED BY <1>14, <1>15, <1>16 DEF Rising, a

(* In every state, whatever the device has allocated and attached.         *)
LEMMA ListsEach == ListsEachOnce
<1> DEFINE A == IF nsMgmt THEN {id \in NsIds : ns[id].allocated} ELSE {}
           B == IF activeList THEN {id \in NsIds : ns[id].attached} ELSE {}
           Known(id) == (nsMgmt /\ ns[id].allocated) \/ (activeList /\ ns[id].attached)
           L == NsList
<1>1. CASE nsMgmt \/ activeList
  <2>1. /\ Rising(AllocatedList) /\ From(AllocatedList, 1) = A
        /\ Rising(ActiveList) /\ From(ActiveList, 1) = B
    BY AscendingIs DEF AllocatedList, ActiveList
  <2>2. L = MergedLists(AllocatedList, ActiveList)
    BY <1>1 DEF NsList
  <2>3. Lists(A, B, L)
    BY <2>1, <2>2, MergedListsList
  <2> HIDE DEF L
  <2>4. L \in Seq(ListEntry) /\ DOMAIN L = 1..Len(L)
    BY <2>3 DEF Lists
  <2>5. \A i, j \in DOMAIN L : i < j => L[i].nsId < L[j].nsId
    BY <2>3, <2>4 DEF Lists
  <2>6. {L[i].nsId : i \in DOMAIN L} = {id \in NsIds : Known(id)}
    <3>1. A \cup B = {id \in NsIds : Known(id)}
      OBVIOUS
    <3> HIDE DEF A, B, Known
    <3> QED BY <3>1, <2>3, <2>4 DEF Lists
  <2>7. ASSUME activeList, NEW i \in DOMAIN L
        PROVE  (L[i].status = "active") <=> ns[L[i].nsId].attached
    <3>1. (L[i].status = "active") <=> (L[i].nsId \in B)
      BY <2>3, <2>4 DEF Lists
    <3>2. L[i].nsId \in NsIds
      BY <2>6
    <3> QED BY <2>7, <3>1, <3>2
  <2> QED BY <2>5, <2>6, <2>7 DEF ListsEachOnce, L
<1>2. CASE ~(nsMgmt \/ activeList)
  <2>1. L = [i \in NsIds |-> NamespaceInfo(i, "active")]
    BY <1>2 DEF NsList
  <2>2. \A i, j \in DOMAIN L : i < j => L[i].nsId < L[j].nsId
    BY <2>1 DEF NamespaceInfo
  <2> QED BY <1>2, <2>2 DEF ListsEachOnce
<1> QED BY <1>1, <1>2

(* The list of namespaces that the plugin prints has each namespace of the *)
(* device's lists once, in order, and as active if and only if it is       *)
(* attached, whichever list is empty, absent or exhausted first.           *)
THEOREM ListsEachOnceHolds == Spec => []ListsEachOnce
BY ListsEach, PTL
=============================================================================
