------------------------------ MODULE Transfers ------------------------------
(***************************************************************************)
(* The long transfers of the esxcli plugin (nvme_lib.c): a firmware image  *)
(* to the device, piece by piece, and its commit; a log page from the      *)
(* device to a file, of which the device may make a new version meanwhile. *)
(* Sizes are bytes.  A version of a log is its generation number.          *)
(***************************************************************************)
EXTENDS Integers, Sequences

CONSTANTS
  ImageSizes,   (* of the firmware image                                   *)
  XferSizes,    (* what may be typed after -x, and the default             *)
  Offsets,      (* what may be typed after -o                              *)
  LogSizes,     (* of the rest of a log, in transfers of the maximum length*)
  NumGens       (* the generation number counts modulo NumGens (256)       *)

ASSUME SizesAssumption ==
  /\ ImageSizes \subseteq Nat /\ Offsets \subseteq Nat /\ LogSizes \subseteq Nat
  /\ XferSizes \subseteq Nat \ {0}
ASSUME NumGensAssumption == NumGens \in Nat \ {0, 1}

VARIABLES
  tr,         (* the transfer under way, or the last one                   *)
  trAt,       (* its next step; "out" when it has returned                 *)
  received,   (* the pieces of the image at the device, in order           *)
  file,       (* the versions of the header and of the data in the file    *)
  generation, (* of the log at the device                                  *)
  changes,    (* its changes since the header was read                     *)
  context,    (* the persistent event log's reporting context              *)
  committed   (* the device has taken the image for its firmware           *)

trVars == <<tr, trAt, received, file, generation, changes, context, committed>>

NoTransfer ==
  [name |-> "none", size |-> 0, xfer |-> 0, base |-> 0, buf |-> 0, offset |-> 0,
   part |-> 0, attempt |-> 0, header |-> 0, action |-> "read", data |-> {},
   success |-> FALSE]

TrIdle == trAt = "out"
Give(fields) == tr' = fields
TrBegin(args, step) ==
  /\ TrIdle /\ Give(args) /\ trAt' = step
  /\ received' = <<>> /\ file' = {} /\ committed' = FALSE

(* A system call, an allocation or a command fails.  The device may have   *)
(* done what a command that failed asked it to do.                         *)
TrFails ==
  /\ trAt \notin {"out", "alloc"}
  /\ trAt' = "out"
  /\ UNCHANGED <<tr, received, file, generation, changes, context, committed>>

Succeed == trAt' = "out" /\ Give([tr EXCEPT !.success = TRUE])

-----------------------------------------------------------------------------
(* Firmware.  Nvme_FWLoadAndDownload reads the image through a buffer that *)
(* is as large as can be had, Nvme_FWDownload sends a buffer in transfers. *)

MinOf(a, b) == IF a < b THEN a ELSE b

(* The plugin wants a multiple of a dword, the library one of three.       *)
BeginDownload(size, xfer, base) ==
  /\ base % 4 = 0 /\ base % 3 = 0 /\ size > 0 /\ size % 4 = 0
  /\ TrBegin([NoTransfer EXCEPT !.name = "firmware", !.size = size, !.base = base,
                                !.xfer = MinOf(xfer, size), !.buf = size], "alloc")
  /\ UNCHANGED <<generation, changes, context>>

(* The buffer after one that could not be had: half as large, of whole     *)
(* transfers.  A mutation: of any size.                                    *)
SmallerBufferHalf(buf, xfer) == IF buf > xfer /\ buf \div 2 < xfer THEN xfer ELSE buf \div 2
SmallerBuffer(buf, xfer) ==
  IF buf > xfer /\ buf \div 2 < xfer THEN xfer ELSE ((buf \div 2) \div xfer) * xfer

AllocateBuffer ==
  /\ trAt = "alloc"
  /\ \/ trAt' = "read" /\ UNCHANGED tr
     \/ LET buf == SmallerBuffer(tr.buf, tr.xfer)
        IN /\ trAt' = IF buf >= tr.xfer THEN "alloc" ELSE "out"
           /\ Give([tr EXCEPT !.buf = buf])
  /\ UNCHANGED <<received, file, generation, changes, context, committed>>

(* The code asks read() for a buffer and looks for an error only: that it  *)
(* gets all of it, as it does of a regular file, is assumed.               *)
ReadImage ==
  /\ trAt = "read"
  /\ IF tr.offset < tr.size THEN trAt' = "send" /\ Give([tr EXCEPT !.part = 0])
     ELSE Succeed
  /\ UNCHANGED <<received, file, generation, changes, context, committed>>

(* One command.  The device is told whole dwords, and writes at one.       *)
Dwords(n) == (n \div 4) * 4
SendPiece ==
  LET inBuffer == MinOf(tr.buf, tr.size - tr.offset)
      length == MinOf(tr.xfer, inBuffer - tr.part)
      piece == [at |-> Dwords(tr.base + tr.offset + tr.part),
                from |-> tr.offset + tr.part, length |-> Dwords(length)]
  IN /\ trAt = "send"
     /\ received' = Append(received, piece)
     /\ IF tr.part + tr.xfer < inBuffer
        THEN trAt' = "send" /\ Give([tr EXCEPT !.part = @ + tr.xfer])
        ELSE trAt' = "read" /\ Give([tr EXCEPT !.offset = @ + tr.buf])
     /\ UNCHANGED <<file, generation, changes, context, committed>>

(* The firmware commit.  The status of the device: it has taken the image, *)
(* at once or for the next reset, or has refused it.  The status that is   *)
(* seen is all zero, "done", where the ioctl has failed and left the       *)
(* completion out.                                                         *)
BeginCommit ==
  /\ TrBegin([NoTransfer EXCEPT !.name = "commit"], "commit")
  /\ UNCHANGED <<generation, changes, context>>
CommitStatuses == {"done", "needsReset", "refused"}
FWActivate(status, failed, seen) ==
  /\ trAt = "commit"
  /\ seen = status \/ (failed /\ seen = "done")
  /\ committed' = (status # "refused")
  /\ IF seen = "needsReset" \/ (seen = "done" /\ ~failed)
     THEN Succeed ELSE trAt' = "out" /\ UNCHANGED tr
  /\ UNCHANGED <<received, file, generation, changes, context>>

-----------------------------------------------------------------------------
(* Logs: the telemetry the host asks for, the telemetry of the controller, *)
(* and the persistent events.  A log has a header, and as much data as the *)
(* header says.                                                            *)

MaxAttempts == 4

BeginLog(name, action) ==
  /\ TrBegin([NoTransfer EXCEPT !.name = name, !.action = action], "header")
  /\ UNCHANGED <<generation, changes, context>>

(* The header of the telemetry, at most MaxAttempts times.                 *)
TakeHeader(size) ==
  trAt' = "open" /\ Give([tr EXCEPT !.header = generation, !.size = size,
                                    !.part = 0, !.data = {}])
ReadHeader(size) ==
  /\ trAt = "header" /\ tr.name # "events" /\ tr.attempt < MaxAttempts
  /\ changes' = 0
  /\ TakeHeader(size)
  /\ UNCHANGED <<received, file, generation, context, committed>>

(* The persistent event log cannot be read without a context, "establish"  *)
(* makes one and "release" ends it.                                        *)
ReadEventHeader(size) ==
  /\ trAt = "header" /\ tr.name = "events"
  /\ tr.action = "read" => context
  /\ context' = (tr.action # "release")
  /\ changes' = 0
  /\ IF tr.action = "release" THEN Succeed ELSE TakeHeader(size)
  /\ UNCHANGED <<received, file, generation, committed>>

(* A log that has no data is complete.                                     *)
OpenFile ==
  /\ trAt = "open"
  /\ file' = {tr.header}
  /\ IF tr.size = 0 THEN Succeed ELSE trAt' = "data" /\ UNCHANGED tr
  /\ UNCHANGED <<received, generation, changes, context, committed>>

ReadData ==
  /\ trAt = "data"
  /\ Give([tr EXCEPT !.part = @ + 1, !.data = @ \cup {generation}])
  /\ trAt' = IF tr.part + 1 < tr.size THEN "data" ELSE "write"
  /\ UNCHANGED <<received, file, generation, changes, context, committed>>

(* A mutation of WriteFile: the generation is not asked for again.         *)
WriteFileAtOnce ==
  /\ trAt = "write"
  /\ file' = file \cup tr.data
  /\ Succeed
  /\ UNCHANGED <<received, generation, changes, context, committed>>
WriteFile ==
  /\ trAt = "write"
  /\ file' = file \cup tr.data
  /\ IF tr.name = "controller" THEN trAt' = "check" /\ UNCHANGED tr ELSE Succeed
  /\ UNCHANGED <<received, generation, changes, context, committed>>

(* The generation again.  A mutation: the attempts are not counted.        *)
CheckGenerationForever ==
  /\ trAt = "check"
  /\ IF generation = tr.header THEN Succeed ELSE trAt' = "header" /\ UNCHANGED tr
  /\ UNCHANGED <<received, file, generation, changes, context, committed>>
CheckGeneration ==
  /\ trAt = "check"
  /\ IF generation = tr.header THEN Succeed
     ELSE trAt' = "header" /\ Give([tr EXCEPT !.attempt = @ + 1])
  /\ UNCHANGED <<received, file, generation, changes, context, committed>>

(* External: the device makes a new version of the log, another command of *)
(* another host makes it take one.  The persistent events wait for the end *)
(* of the context.  NumGens - 1 changes bound one attempt: the number      *)
(* would be the same again.                                                *)
NewGeneration ==
  /\ tr.name \in {"host", "controller", "events"} /\ ~TrIdle
  /\ tr.name = "events" => ~context
  /\ changes < NumGens - 1
  /\ generation' = (generation + 1) % NumGens /\ changes' = changes + 1
  /\ UNCHANGED <<tr, trAt, received, file, context, committed>>

-----------------------------------------------------------------------------
TrStep ==
  \/ TrFails \/ AllocateBuffer \/ ReadImage \/ SendPiece \/ OpenFile \/ ReadData
  \/ WriteFile \/ CheckGeneration
  \/ \E status, seen \in CommitStatuses, failed \in BOOLEAN : FWActivate(status, failed, seen)
  \/ \E size \in LogSizes : ReadHeader(size) \/ ReadEventHeader(size)

TrNext ==
  \/ TrStep \/ NewGeneration \/ BeginCommit
  \/ \E size \in ImageSizes, xfer \in XferSizes, base \in Offsets :
       BeginDownload(size, xfer, base)
  \/ \E name \in {"host", "controller"} : BeginLog(name, "read")
  \/ \E action \in {"read", "establish", "release"} : BeginLog("events", action)

TrInit ==
  /\ tr = NoTransfer /\ trAt = "out" /\ received = <<>> /\ file = {}
  /\ generation = 0 /\ changes = 0 /\ context = FALSE /\ committed = FALSE
=============================================================================
