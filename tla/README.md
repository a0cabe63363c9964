# TLA+ models of the VMware NVMe PCIe driver

Models, model-checking configurations and machine-checked proofs about the
`nvme_pcie` driver of this repository and about the commands of its esxcli plugin
that change something.  Line numbers refer to `src/nvme_pcie/nvme_pcie.c` unless
a file is named.

Contents: [the system](#the-system), [the modules](#the-modules),
[runs](#what-the-runs-check), [fairness](#fairness), [proofs](#what-is-proved),
[findings](#findings), [observations](#observations),
[not modelled](#what-is-not-modelled), [what is left](#what-is-left).

## The system

`nvme_pcie` is the PCIe transport below vmkernel's NVMe layer (*vmknvme*).
vmknvme calls it through a table of controller operations
(`nvme_pcie_adapter.c`): submit a command, create and delete IO queues, reset
the admin queue, read and write registers.  The driver owns one *admin queue*
(`queueList[0]`) and up to 16 *IO queues*.  A queue is a submission ring, a
completion ring, a list of command slots, an interrupt vector and, for IO
queues, a StoragePoll handler.  `esxcli-nvme-plugin` is a separate user-space
program that sends admin commands through vmknvme's ioctls.

| component | state it keeps | operations | who runs them |
|---|---|---|---|
| command list (789-941) | `list[].atomicStatus`, `freeLink`, `freeCmdList`, `pendingFreeCmdList`, `nrAct` | get and put a slot; two ways to get one: by the caller's cid (`abortEnabled`), or from the free lists | submitters, interrupt handlers, poll callbacks, flushers |
| rings (1306-1411, 1812-1947) | `sqInfo.head/tail/pendingHead`, `cqInfo.head/phase`, the ring memory, the doorbells | issue a command, process completions | submitters under the submission lock; completers under the completion lock; the device |
| synchronous commands (1143-1304) | the slot's status `FREE/ACTIVE/DONE/FREE_ON_COMPLETE`, DMA entry | submit and wait, time out, complete | admin-command threads, completers |
| queue control (2115-2350) | `state`, `refCount` | suspend, flush, stop, init, start, resume | vmknvme's reset thread, the hot-plug thread |
| interrupt/poll switching (753-787, 1426-1479, 1570-1802) | `isIntrEnabled`, `isPollHdlrEnabled`, `pollHandler`, the vector's mask | handler, poll callback, enable, disable | interrupts, poll worlds, control threads |
| IO queue lifecycle (57-134, 145-449, 586-701) | `state`, `numIoQueues`, the parts of a queue | create, destroy, unwinding of a failed construction | vmknvme |
| controller (`nvme_pcie_adapter.c`, `nvme_pcie_driver.c`) | `maxIoQueues`, `isRemoved`, `osRes` (the interrupt cookies), the register space, the adapter, the controller | attach, scan, start, set the number of queues, reset, stop, detach, quiesce, forget | vmknvme, device manager |
| statistics (482-569) | a second cursor over the completion ring | walk through | interrupt acknowledgement, poll callback |
| load counters (954-1083, 1490-1568, adapter 687-847) | `nrActSmall`, `iopsLastSec`, `numCmdComplThisSec` | count, timers, accumulate | everyone |
| module (`nvme_pcie_module.c`), management (`nvme_pcie_mgmt.c`), OS wrappers (`nvme_pcie_os.c`) | heap, pool, key-value handles; DMA memory, locks, interrupts | init, cleanup, settings; allocate and free | module loader, esxcli; everyone |
| esxcli plugin: namespaces (`main.c`, `nvme_lib.c`) | the device's namespaces, the driver's list of them, the host's paths | create, delete, attach, detach, format, list, get | one user process |
| esxcli plugin: transfers (`nvme_lib.c`, `main.c`) | a buffer, a file, the position in an image or a log | firmware download and commit, telemetry and event logs | one user process |

**How they interact.**  The components share memory; there are three spin locks
per queue (submission, completion, command list), one reference count and a
number of atomics.  Messages go only to the device: entries in the rings and
doorbells.  Callbacks are the `done` functions of commands, which
`NVMEPCIEProcessCq` and `NVMEPCIEFlushQueue` call.

**What is hard.**  Slots move between a locked list and a lock-free stack.  The
device's progress is known only from completions.  A waiter gives up while its
command completes.  Two control threads (a reset and a hot-plug removal) flush
the same queue while submitters are inside it, and the reference count is all
that keeps them apart.  Interrupts are edge-triggered and are masked and
unmasked by three different threads.  A failed step leaves a half-built queue,
and some thirty acquisitions have to be unwound in the right order.  The plugin's
commands are sequences of ioctls and host commands, each of which may fail or
find that what an earlier one saw is no longer so.

**What makes each component correct.**  Command list: no slot is lost or owned
twice, and Get fails only when nothing is free.  Rings: FIFO, nothing
overwritten, nothing taken twice.  Synchronous commands: resources are freed
exactly once, and every call returns.  Queue control: no one touches a queue that
is flushed or initialised, and everything outstanding is completed.  Switching:
no completion is stranded.  Lifecycle: a queue that was reported created can be
used, and one that was deleted has no user left.  Controller: what is held is
whole, nothing refers to what was given back, and a queue has its interrupt.
Namespaces: none is deleted while it is attached or online, none is formatted while
it is online, and success is told of what is done.  Transfers: the image and the log arrive whole, of one version.

## The modules

| module | models | extended or used by |
|---|---|---|
| `CmdPool` | abstract: a pool of slots | refined by `CmdInfoList` |
| `CmdInfoList` | the command list with driver-assigned ids | `MCCmdInfoList`, `CmdInfoListProofs` |
| `CmdInfoListProofs` | proofs about `CmdInfoList` | |
| `CommandQueue` | abstract: FIFO submission, delivery of answers | refined by `QueuePair` |
| `QueuePair` | both rings and the device | `MCQueuePair`, `QueuePairProofs` |
| `QueuePairProofs` | proofs about `QueuePair`, the refinement of `CommandQueue` among them | |
| `AdminQueue` | synchronous commands, reset, removal | `MCAdminQueue`, `AdminQueueProofs` |
| `AdminQueueProofs` | proofs about `AdminQueue` | |
| `StoragePoll` | interrupt handler, poll callback, suspend and resume | `MCStoragePoll`, `StoragePollProofs` |
| `StoragePollProofs` | proofs about `StoragePoll` | |
| `IoQueue` | creation and deletion of IO queues, asynchronous commands, hot-plug flush | `MCIoQueue`, `IoQueueProofs` |
| `IoQueueProofs` | proofs about `IoQueue`: the queues | `IoCommandProofs` |
| `IoCommandProofs` | proofs about `IoQueue`: the commands | |
| `DriverCalls` | what each call of the driver takes and gives back, as operators | `Controller` |
| `Controller` | the life of the module, the device, the controller, its interrupts and queues | run `Controller`, `ControllerProofs` |
| `ControllerProofs` | proofs about `Controller` | |
| `NsCommands` | the namespace commands of the plugin, with the host | `Esxcli` |
| `Transfers` | firmware and logs | `Esxcli` |
| `Esxcli` | composes the two, one command at a time; the properties of both | run `Esxcli`, `EsxcliProofs` |
| `EsxcliProofs` | proofs about `Esxcli`: the transfers, the namespace commands, the list of namespaces | |

Definitions named "mutation" in a comment stand before the definition they vary;
no specification uses them.  They are the plausible mistakes each property is
known to catch.

### CmdInfoList

Slots are `1..IdCount`, 0 ends a list, as in the code.  `freeLink`,
`freeCmdList`, `atomicStatus` and `nrAct` are the fields of that name, `pending`
is the composite 64-bit word.  One action is one access to shared memory:
`LockCmdList`, `PopFree`, `ReadPending`, `FlushCas` for
`NVMEPCIEGetCmdInfoLegacy`; `PutFree`, `PutDec`, `PushRead`, `PushCas` for
`NVMEPCIEPutCmdInfo`.  Accesses made under the list's lock to what only the
holder of the lock touches are one action.  `freeListLength` is not bounded to
32 bits: it never exceeds the number of slots (proved).

### QueuePair

`sq`, `cq` hold the fields of the two info structures and the doorbells,
`subq`/`compq` the ring memory, `dev` the device.  `Issue` is one action because
it runs under the submission lock and shares only `pendingHead` with the
completion side; `NVMEPCIEProcessCq` is one action per entry, so that the device
and submitters run between entries.  The command is completed in the same action
that takes its entry.  `fusedFirst` is the first command of a fused pair, whose
doorbell is not rung.  The branches of `NVMEPCIEProcessCq` for an invalid cid, an
invalid sqhd, a command without `vmkCmd` and an inactive command are not in the
model; `EntriesAnswerActive` says that a device that follows the protocol never
leads there.  `StopAndStart` stands for stopping and starting the queue when
nobody is inside it; who may be inside is the subject of `AdminQueue`.

### AdminQueue

`sub[c]` is a thread inside `NVMEPCIESubmitSyncCommand` for command `c`;
`agent[a]` is the interrupt handler, the reset (`ResetAdminQueue`) and the
hot-plug quiesce (`QuiesceDevice`), all of which complete commands through
`NVMEPCIEProcessCq` and `NVMEPCIECompleteSyncCommand`.  `held[c]` counts the DMA
buffer and the command structure.  The variant is `abortEnabled` (slots are found
by a scan with compare-and-swap); `Prepare` always attaches a buffer, the variant
without data frees less and is otherwise the same.  The rings are abstracted to
the set of commands the device executes and the set it has answered, which is
what `QueueSpec` of `QueuePair` justifies.  Entries whose command is not
outstanding are skipped (`SkipEntry`), as in the code.
A refusal for a full ring (1348-1351) may come at any time (`IssueRefused`): the ring is shared
with vmknvme's asynchronous commands, which are not in this model.

vmknvme resets the admin queue of a controller it has disabled: the device drops
what it was executing (`ResetStart`), and nothing issued meanwhile is executed
(`DeviceOn`).  A device that was pulled drops everything too (`ForgetDevice`).
What was posted before stays in the ring until `InitQueue`.

### StoragePoll

`handler`, `callback` and `control` are the program counters of the interrupt
handler, of `NVMEPCIEStoragePollCB` and of the thread that suspends and resumes
the queue.  The vector is edge triggered: raised by `Post` if it is not masked,
and forgotten when it is masked.  vmkernel's StoragePoll is modelled from its
use: `Activate` makes a call due, the callback is called again while its return
value says so, `Disable` waits for a running call.  `NVMEPCIEProcessCq` takes
everything there is in one action: `QueuePair` shows that it returns when nothing
new is there.  The switch strategy reads load figures and settings that change
at any time, so it is a free choice.

`vector` is the kind of queue and vector: a queue with an MSIX vector of its own
(`msix`), or, with the one MSI of the whole controller, the admin queue (`msiAdmin`) or an
IO queue (`msiIo`).  The handler of the MSI, `NVMEPCIECtrlMsiHandler` (709-724), calls the
handler of the admin queue, and processes every IO queue whatever its `isIntrEnabled` and its
`state` say (`MsiHandlerEntersIoQueue`); suspending does not stop it, and `SuspendedAlone` is
a property of MSIX.  A failed enabling is two actions: the poll handler is destroyed and
forgotten (`EnablePoll`), then the flag is cleared (`ForgetPoll`).  The interrupt handler
reads `pollHandler` again for `vmk_StoragePollCheckState` and `vmk_StoragePollActivate`
(771, 775); if a failed enabling has destroyed it since, what the code does is undefined, and the
model takes it to do nothing.

### IoQueue

`sub[c]` is a thread inside `NVMEPCIESubmitAsyncCommand` with command `c`;
`agent` holds the others: the interrupt handler of queue `q` is agent `q`, 0 is
vmknvme's thread, which calls `NVMEPCIEQueueCreate` and `NVMEPCIEQueueDestroy`,
-1 is the hot-plug thread in `QuiesceDevice`.  `parts[q]` is which of the
completion queue, submission queue and command list of `q` are allocated, `hw[q]`
which of the two hardware queues the device has.  Each admin command to the
device succeeds, is refused, or is executed although the driver saw a timeout
(`Outcomes`); `lost` collects the queues about which the driver is then wrong.
`known` is what vmknvme was told exists.  The other modules enter as their
abstractions: `outstanding` is the command list, `executing` and `posted` the
rings, and flag and mask of the vector are one.  Each queue has an MSIX vector of its own:
the handler of an MSI, which holds no reference and is not stopped by a suspension, is not
among the agents (listed as a hazard, line 775).

What is assumed of vmknvme, from how the driver uses it: it creates queues 1, 2, ...
and stops at the first failure; it deletes every queue it knows, before a reset
with the controller disabled, before a shutdown with the controller working; it
submits only to queues it was told exist; it does not create a queue again while
a call of its own that submits to it has not returned.  The last is needed
because `QueueConstruct` zeroes `refCount` (line 596, listed as a hazard).

### DriverCalls and Controller

The functions of `nvme_pcie_module.c`, `nvme_pcie_driver.c`,
`nvme_pcie_adapter.c`, `nvme_pcie_os.c` and the construction functions of
`nvme_pcie.c` have one shape: take a resource, on failure jump to a label that
gives back what was taken before.  `DriverCalls` writes each function as the
sequence of its steps; a step names its resource and the labels that its failure
jumps to (`undo`: its function's own, then those of the callers).  A callee
is a subsequence, so that the sequences follow the call tree: `AttachDevice`
contains `SetupAdminQueue`, which contains `QueueCreate(0)`, which contains
`QueueConstruct`, down to `DmaAlloc`.  `Controller` executes them: `call` holds the
steps, `pos` the current one, `back` the label being run, `held` what the driver
holds.  Conditions on fields of the controller (`osRes.intrType`, the state of a
queue, `numIntrs`) are evaluated when the call begins; this is the same, since
calls do not overlap and the only field that changes under a call is `isRemoved`,
which is a step of its own (`gate`, `grant`).

Guards marked external are what vmkernel and vmknvme keep to, read off how the
code relies on it: one call at a time; the adapter is stopped, its number of
queues set and its admin queue reset only when vmknvme has deleted the queues it
was told exist; IO is allowed (`NotifyAdapterIOAllowed`) on a controller that is
there; a device whose cookies leaked under MSI is not attached again.  The module
parameter for MSI is fixed at load.  How many cookies the kernel and how many
queues the device grants is free.

### NsCommands, Transfers, Esxcli

One command is one run of the plugin's process: `main.c` opens a handle, makes its
checks and its changes, closes it.  A namespace command is a script, a sequence of
step names; every step is one ioctl, one allocation or one `esxcli` command of
the host, may fail, and has its action.  A step may also do its work and be
reported to have failed (`Answer(FALSE)`): the command then takes the code's way of a failure,
with what was done in place.  `ExecuteCommand` (`main.c` 538-561) looks at nothing but whether the
host's command printed something to stdout, so that a host command may also fail and be taken for
done (`UnclaimNothing`).  The firmware commit has the status the device gives, whether
the ioctl fails and the status the plugin sees as three separate inputs.  Where the code jumps to `out_reclaim`
instead of `out`, `Reclaims` says so.  The order of a script is the order of the code,
also of what it tells the user (`done` comes before the paths are reclaimed).
External, in the same module: the device's namespaces, the driver's list (`status`),
and the host, which claims and uses the paths of online namespaces at any moment.

A firmware download is the two nested loops of `Nvme_FWLoadAndDownload` and
`Nvme_FWDownload` with a buffer that shrinks until it can be had; `received` is what
the device gets, in dwords.  A log is read in `MaxXferLen` pieces; the device makes
a new generation whenever `NewGeneration` is taken.  `read()` (`nvme_lib.c` 903) is checked
for an error only; that it returns all it was asked for, as for a regular file, is assumed
(`ReadImage`).  `NumGens` replaces the 256 of
the generation number; one attempt sees less than `NumGens` changes, since after
exactly 256 the code would not notice.

`area` fixes for a behaviour which of the two kinds of commands it has; they share no
state.

### Bounds built into the models

Two constants of `IoQueue` leave out what a finding is about, and the violation runs switch
it on: `CqMayFail` (finding 3), and `Overlap`, without which `numIoQueues` does not
change while `QuiesceDevice` is in its loop (finding 4).

## What the runs check

| run | instance | states | shows |
|---|---|---|---|
| `CmdInfoList` | 3 threads, 3 slots | 45 636 | every slot in one place; the meaning of `nrAct`; Get returns; the list implements `CmdPool` |
| `QueuePair` | rings of 3, 3 slots | 890 093 | entries answer active commands; no ring entry is lost; the rings implement `CommandQueue`; `NVMEPCIEProcessCq` returns; rung commands complete |
| `AdminQueueRemoval` | 3 commands, 2 slots, removal | 520 662 | one command per slot; resources freed once; abandoned commands have a completer; `nrAct` |
| `AdminQueueReset` | 2 commands, 1 slot, 1 reset, removal | 138 873 | nothing waits after a quiesce; no submission is under way while a reset flushes and initialises; every call returns |
| `AdminQueueRace` | 2 commands, 2 slots, 1 reset | violation | finding 1 |
| `StoragePoll` | 3 commands, 2 suspensions, 1 late setup; an MSIX vector or an IO queue under MSI | 41 294 | a suspended queue is left alone (MSIX); flag and mask agree and no completion is dead (see below) |
| `StoragePollMsi` | 3 commands, the admin queue under MSI | violation | finding 2 |
| `IoQueue` | 1 queue, 2 commands, brought up twice, removal | 194 071 | no use of freed memory; accepted commands complete once and before their queue is gone; the device's queues have memory; the count; creation and deletion return |
| `IoQueueCreate` | 2 queues, `CqMayFail` | violation | finding 3 |
| `IoQueueQuiesce` | 2 queues, `Overlap` | violation | finding 4 |
| `Controller` | 2 IO queues, up to 3 wanted | 94 882 | nothing dangles; what is given back was held; calls take all or nothing; a vector per queue; a controller without interrupts serves no IO queue |
| `Esxcli` | 2 namespaces; images of 4 to 20 bytes, transfers of 4, 6, 8; logs of 0 to 2 pieces, 3 generations | 68 444 | no namespace is deleted while attached or online, nor formatted while online; success is told of what is done; paths are given back; lists are merged right; image and log whole; every command returns |

**Why the bounds are enough.**

* `CmdInfoList`: the lists interfere in pairs: one thread pushes, one empties, a
  third moves the slot that makes the same head value return (ABA).  Three
  threads and three slots contain that case; the safety properties are proved for
  all sizes.
* `QueuePair`: rings of three entries hold two, so both rings wrap within one
  history at different moments, and phases change.  A third slot is one more than
  the ring holds, so that the queue is full while a slot is free.  The liveness of one
  command (`Watched`) stands for that of all: they are interchangeable.  The safety
  properties and the refinement are proved for rings of any size.
* `AdminQueue`: two slots and three commands make slots be reused while an older
  owner is still on its way out.  `MaxResets = 0` in the first run because of
  finding 1: after a reset in the bad moment the ownership properties do not
  hold.  One reset against one removal is every pair of concurrent flushers that
  the callers can produce; vmknvme serialises its own resets.  The safety properties are
  proved for any number of commands and slots.
* `StoragePoll`: `MaxOut = 3` is one completion being handled, one seen by the
  callback and one posted between.  Two suspensions let a thread paused in the
  first meet the second.  `Vectors` leaves out `msiAdmin` in the passing run because of
  finding 2.
* `IoQueue`: two commands let one be inside its submission and one complete while
  the queue is torn down; two cycles let a queue be built again where one was
  deleted.  The run has one queue so that it is short; the same configuration
  with `(NumQueues, NumCmds, MaxCycles)` = (2, 2, 1), 2 297 109 states, and
  (2, 1, 2), 388 239 states, has no error either.  The violation runs have two
  queues: two are the least with which creation can fail half-way and the
  quiesce can take a queue for another.
* `Controller`: two IO queues let the kernel grant fewer vectors than wanted and the
  device fewer queues than there are vectors; `MaxDesired = 3` asks for more than
  `NVME_PCIE_MAX_IO_QUEUES`.  The calls of a queue do not depend on its index other than by
  whether it has a vector.  The properties are proved for all these numbers.
* `Esxcli`: two namespaces make every merge of two lists of up to two ids; image
  sizes and transfers make the last piece short, the buffer shrink once and
  twice, and a transfer that is not a multiple of a dword.  Two pieces of a log and two
  changes put a change before, between and after the pieces.  The two transfer
  properties are proved for all sizes, those of the namespaces for any number of them.

`CHECK_DEADLOCK FALSE` is used where the model may stop: all commands returned and
the device removed (`AdminQueue*`, `IoQueue*`), or a suspension budget used up and
nothing left to do (`StoragePoll`, `StoragePollMsi`).  `CmdInfoList`, `QueuePair`,
`Controller` and `Esxcli` are checked for deadlock.

`FlagIsVector` is stated for a queue that was never suspended (`suspends = 0`).
After a suspension TLC shows this history: the interrupt handler clears
`isIntrEnabled` and is paused before `vmk_IntrDisable`; the suspension finds the
flag cleared and skips `vmk_IntrSync`; the resumption sets the flag and unmasks;
the paused handler then masks.  The flag says enabled, the vector is masked.
`CqesProcessed` excepts histories with a suspension, for the same reason, and
histories with a late `NVMEPCIEStoragePollSetup` (`setups > 0`): between creation
and enabling of the poll handler an interrupt that decides to poll does nothing.
Both are listed as hazards.  `DeviceQueuesBacked` excepts the queues in `lost`: the
code frees their memory whatever became of the command to the device.

## Fairness

* `CmdInfoList`: a thread inside Get keeps running (weak fairness); it holds a
  spin lock.  Nothing is assumed of the others.
* `QueuePair`: the loop of `NVMEPCIEProcessCq` and its start on an interrupt are
  weakly fair, the device fetches (weak) and completes each command it keeps
  getting the chance to complete (strong: the completion ring may be full
  meanwhile).
* `AdminQueue`: threads go on, the wait ends (`vmk_WorldWait` has a timeout), and
  interrupts are delivered.  Nothing is assumed of the device, of vmknvme or of
  the removal.
* `StoragePoll`: raised interrupts are delivered, due callbacks are called,
  threads go on.  Nothing is assumed of the device or the submitters.
* `Esxcli`: the process goes on: every ioctl and every command of the host returns,
  with or without success.  Nothing is assumed of the host or of the device's logs.
* `Controller`: none; it has no liveness property, a call is a finite sequence.
* `IoQueue`: the threads inside the driver as a whole go on while one of them
  can.  This is weaker than fairness for each, and enough: the waits form no
  cycle.  Nothing is assumed of the device, of vmknvme between its calls, or that
  anything is submitted.

## What is proved

Every theorem holds for all values of the constants that the module's named assumptions
allow.  Each proof goes by an inductive invariant, which TLC checked on the instances
of the runs before it was proved.  The one exception is in `ControllerProofs`, whose invariant quantifies
over certificates, which TLC cannot enumerate: there TLC checked what it says of the
states between two calls and of the numbers.

**`CmdInfoListProofs`**: every finite set of threads, every number of slots.

* `TypeCorrect`: the type invariant.
* `IInvInvariant`: the inductive invariant `IInv`.  `EverySlotInOnePlace` is not
  inductive: the proof must also know that a thread inside Get holds the lock,
  that a slot being linked points at the head its thread read, and that a
  thread which read the composite word read a value whose length was that of a
  list.  The two lists are given by their sequences of slots; each action is a pop,
  a push, a move of a whole list or a relinking of a slot that is on no list,
  and the lemmas `ListPop`, `ListPush`, `ListRelink` say what each does to a
  list.
* `SlotsConserved`: `EverySlotInOnePlace`.
* `NrActCorrect`: `NrActCounts`.
* `ImplementsPool`: `CmdInfoList` implements `CmdPool`.  In particular Get returns
  NULL only at an instant at which no slot is free: the pop finds the locked list
  empty and holds its lock, and the read of an empty pending word is that instant.

**`QueuePairProofs`**: rings of every size, every set of commands, every device that
keeps to the protocol.

* `TypeCorrect`: indices stay in their rings, and the device fetches only what was
  written.
* `EntriesAnswerActiveHolds`: the phase bit alone tells new completion entries from
  old ones, and a new one answers an active command.
* `NoCreditLostHolds`: with nothing outstanding the driver knows the device's head.
* `ImplementsQueue`: the rings implement `CommandQueue`.

The invariant keeps the indices in order around each ring, measured as distances from
one of them (`Dist`).  Submission side: the head the driver knows, the heads
that the completion entries on the way will tell it, the device's head, its doorbell, the
tail.  Completion side: the doorbell, the driver's position, the device's tail; the
phase of every entry follows from the tail.  The commands between two indices
and those executing are different and active, hence fewer than the ring has
entries.  The refinement's sequences are the ring read from one index to another;
a step takes one off the front or puts one at the back.

**`AdminQueueProofs`**: any number of commands and slots, a removal at any moment.

* `RefInvHolds`, for any number of resets: the inductive invariant `RefInv`.  `refCount` is the
  number of threads inside the queue, submitters and flushers (`RefCounts`).  A flusher that saw
  it at zero saw a queue that is not `ACTIVE` with nobody between the check of the state and
  the end of the submission; whoever enters later reads the state and leaves
  (`ResetAlone`, `QuiesceAlone`).  A reset that overlaps the removal may make the queue `ACTIVE`
  again; a command submitted then is refused when it is issued, as the device is marked removed.
* `FlushExcludesSubmissionHolds`, `QuiescedIdleHolds`: from `RefInv`.
* `OwnInvHolds`, with `MaxResets = 0`: the inductive invariant `OwnInv`.  What a submitter or the
  device knows of a slot is what its status says (`Knows`, `Holds`, `IsOwed`): the slot
  is not `FREE` while it has an owner, and a cid that is executed, posted or being completed
  (`FlightInv`) belongs to a command that is outstanding, so that no posted entry is skipped.
  Only one thread is among the entries at a time: without a reset the interrupt handler is idle
  before the quiesce starts.
* `SlotServesOneHolds`, `ReleasedOnceHolds`, `AbandonedIsOwedHolds`, `NrActCountsHolds`, with
  `MaxResets = 0`: from `OwnInv`.  After a reset they do not hold (finding 1): a late put
  frees a slot of another command.

**`StoragePollProofs`**: any number of commands and suspensions.

* `TypeCorrect`, for every kind of vector.
* `SuspendedAloneHolds`: with MSIX, the guard of each thread (a reference, the
  vector, the poll handler's own exclusion) keeps the other two out.  Without the condition TLC
  finds the MSI handler in a suspended IO queue.
* `FlagIsVectorHolds`: with MSIX, before the first suspension the
  flag is the vector's state.  The invariant is the circle that the vector and the poll handler go
  through: interrupts are served; a handler masks; it hands over to the poll
  handler; the poll serves; it unmasks; and only one thread is on the way from
  one to the next.

**`IoQueueProofs`**: any number of queues, commands and cycles, whatever the device answers.  The
theorems assume `~CqMayFail` and `~Overlap`: with the one `NVMEPCIEQueueCreate` reports a queue it has
not built (finding 3), with the other `numIoQueues` changes under `QuiesceDevice` (finding 4).

* `IoInvHolds`: the inductive invariant `IoInv`.  `refCount` is the cardinality of the set of threads
  inside the queue (`RefCounts`), so that the wait of `QueueDestroy` ends only when there is none.
  The state of a queue and its parts follow from where the thread of vmknvme is
  (`States`, `Built`).  A handler holds no reference: it runs only while the interrupt flag is
  set or a suspension waits for it, and the flag of a queue that is not active is about to be
  cleared (`Interrupts`).  Hence a queue that anybody uses exists and is built, or its
  destruction still waits (`UsedIsBuilt`).
* `NoUseAfterFreeHolds`, `CountMatchesHolds`.
* `DeviceQueuesBackedHolds`, by a second invariant (`Device`): what the device has of a
  queue is what the driver was told (`Told`), but for the queues where it was told wrong.

**`IoCommandProofs`**: under the same assumptions.

* `CmdInvHolds`: the inductive invariant `CmdInv`.  When the wait for `refCount` has ended on a
  queue that is not `ACTIVE`, nobody is between the check of the state and the doorbell any more
  (`Closing`): the flush misses no command.  The completion writes `DONE` without looking
  at the slot, and handler and flusher complete under different locks; what keeps them
  off the same command is that the handler of a flushed queue is idle, and that a flusher that has
  passed the completion queue has left nothing in it for the other one (`Apart`), because
  the device was pulled by then and posts nothing (`Pulled`).
* `DeletedAnsweredHolds`, `CompletedOnceHolds`.

**`ControllerProofs`**: any number of IO queues, of interrupts granted and of queues that vmknvme
asks for, whichever step fails and whenever the device is pulled.

* `CtrlInvHolds`: the inductive invariant `CtrlInv`.  Between two calls what is held is settled
  (`Settled`): the driver is unloaded, loaded, or has a device, and each of its parts is whole.  A
  call is a sequence of steps, far too many states to say for each one what is held in it;
  instead, `CtrlInv` says that what is left of the call is certified for what is held.  A
  certificate (`Certified`) gives a set of states for each place of a program such that each
  step leads from the set of its place into the next one, and the labels of a step that fails
  lead (`Unwinds`) to where the call may end.  All states on the way are `Safe`: closed under
  `MadeFrom`.  Certificates compose (`DoesBoth`, `DoesEach`, `DoesWithin`), and the lemmas follow
  the functions of `DriverCalls` from one resource up to `AttachedDoes`.  What is taken
  in an order in which everything comes after what it is made from can be given back in the
  reverse one (`StackUnwinds`): this is what the labels of a function do when they are right.
* `CtrlNumbers`, the other half of it: `numIntrs` is positive exactly while the cookies are held,
  and a listed controller with vectors is offered fewer queues than it has interrupts.  The
  only state of a listed controller without interrupts is the one after a failed
  `ReallocIntr`.
* `NothingDanglesHolds`, `GivesBackHeldHolds`, `AllOrNothingHolds`, `VectorPerQueueHolds`,
  `DeafServesNothingHolds`: from `CtrlInv`.

**`EsxcliProofs`**: for the transfers every set of sizes, every transfer length and offset, every
modulus of the generation number; for the namespace commands any number of namespaces, with
and without namespace management and the list of active namespaces.

* `LogOfOneVersionHolds`: while a log is read, the device's generation is the
  header's advanced by the number of changes since (`LogFollows`), and as long as this number is
  zero everything read is of the header's generation; fewer than `NumGens` changes cannot
  bring the same number back.
* `FirmwareIntactHolds`: the pieces at the device form a chain from 0 to the
  position of the two loops (`FwPieces`), whatever the buffer; all numbers stay
  multiples of a dword if the transfer length is one.
* `FormatsOfflineHolds`, `DeletesDetachedHolds`, `PathsGivenBackHolds`,
  `SuccessIsDoneHolds`.  The invariant says for each step of a script what the steps before it
  have established (`Stages`) and that the host undoes none of it; and that
  a device without namespace management has all namespaces attached, one that
  manages them and has no list of active ones has none (`World`): there the code takes
  each for attached, refuses to delete any, and cannot attach one.

* `ListsEachOnceHolds`: in every state, from no invariant.  `MergedLists` is a recursive function over
  pairs of positions, and TLAPS has no induction over data; the proof goes by the least
  counterexample (`LeastNat`) on the distance from the end of both lists (`Ahead`), once
  for the existence of the function (`MergeExists`) and once for what it does: at each place it
  lists the rest of the two lists once, in order, and as active what is in the second
  (`MergedListsList`).  `AscendingIs` says of the device's lists that they are ascending and
  complete, by counting.

**Model-checked only**: liveness (`GetReturns`, `ProcessCqReturns`, `RungCompletes`, `SubmitReturns`,
`FlushersReturn`, `CqesProcessed`, `CallsReturn`, `CommandReturns`), which is outside what TLAPS proves.
Every safety property that a passing run checks is proved, under the assumptions named above.

## Findings

1. *A completed synchronous command is put back outside the reference count*
   (`AdminQueueRace`, line 1228).  The comment at 2192-2195 says the flusher waits
   for the reference count "to avoid accessing command list when I/O submission is
   in progress".  The waiter of a completed command drops its reference before it
   puts the slot, so a reset can initialise the command list in between.  The late
   put then frees a slot that may have a new owner, overwrites a
   `FREE_ON_COMPLETE`, and takes `nrAct` below zero.
2. *No admin completions under MSI* (`StoragePollMsi`, line 766).
   `isIntrEnabled` is set for MSIX only, and the handler returns without it.
3. *A queue whose construction failed is later reported created*
   (`IoQueueCreate`, line 601).  When `CompQueueConstruct` fails, the state stays
   `SUSPENDED`; every other failure sets it back.  The next create of that queue
   takes it for one that exists and returns `VMK_OK`, although it has no memory.
4. *The quiesce can pass over a queue* (`IoQueueQuiesce`,
   `nvme_pcie_driver.c` 382-383).  `numIoQueues` is read in every iteration for the
   bound and for the index; when the last queue is deleted meanwhile, one queue
   is flushed by nobody and its command is outstanding when `QuiesceDevice`
   returns.

## Observations

Behaviour met while modelling that contradicts no text of the repository, and that
the models therefore follow or except by name.

* *Left behind* (`LeftBehind` of `Controller`): the register space stays mapped when the
  device cannot be made bus master; the management key-value handle stays when a key
  cannot be added; under MSI nothing unregisters the interrupt handler, and the cookies
  stay when it cannot be registered.
* *Firmware offset* (`BeginDownload`): `main.c` 4571 wants a multiple of 4,
  `nvme_lib.c` 828 tests `fwOffset % 0x3`; together only multiples of 12 pass.
* *Transfer size*: nothing asks that `-x` is a multiple of a dword.  With another value the
  device is told fewer bytes than the piece has (`nvme_lib.c` 976-977), and the image
  arrives with gaps while success is told.  `FirmwareIntact` has the precondition
  for this reason.
* *`nmic`* (`main.c` 667, 698): `vmk_uint8 nmic = -1` is never equal to -1, so that
  leaving out `-m` is not noticed.
* *Unclaimed path*: when the rescan of the filesystems fails, `DeviceNsFormat` returns before
  the paths are reclaimed, and the namespace stays without its path
  (`gaveUp` in `PathsGivenBack`).
* *Told wrong* (`misled` in `PathsGivenBack`): `ExecuteCommand` takes any output on stdout
  for a failure and looks at neither the exit status nor stderr.  An unclaiming that worked and
  printed something (`main.c` 1186-1190, 1951-1955), or a setting online that worked
  although its ioctl failed (1977-1981), goes to a label behind `out_reclaim`: the path
  stays unclaimed.  `NsCommands` shows that these two and the failed rescans are the only
  cases.
* *Paths in use*: the check before a format or a detach is that the host lets its path be
  unclaimed.  The host may claim the path again before the namespace is set offline, and a path that
  `GetDeviceName` does not find is not unclaimed at all.  So `FormatsOffline` says that the namespace
  is not online when it is formatted, and not that no path to it is claimed or used, which
  TLC refutes.
* *MSI and suspension*: under MSI a suspended IO queue is still processed by the
  handler (see `StoragePoll`).  Handler and flusher complete commands under different locks, and only
  MSIX keeps them apart (`CompletedOnce` of `IoQueue` is about MSIX).
* *References across a new start of a queue*: `QueueConstruct` zeroes `refCount` (line 596)
  although a submitter that was refused may still hold a reference.

## What is not modelled

* `NVMEPCIEStatsWalkThrough`: latency figures, on which nothing depends.
* The load counters (`nrActSmall`, `iopsLastSec`, `GetHwDoneCmdNum`): a heuristic;
  what it decides is a free choice in `StoragePoll`.
* The getters and setters of the management interface, the debug dump, logging, the esxcli XML
  and the plugin's output: text and formatting.
* The plugin's commands that send one ioctl and print the answer (identify, features,
  registers, timeouts, log level) and its configuration file.
* Two plugin processes at once: the plugin takes no lock, and what one process has checked may
  be undone by the other.
* The device's own work: the models assume a device that answers each command at
  most once, with the right cid.  Block sizes and PRP lists.
* Data races on plain fields that the code protects by a lock.
* Two queues with one vector: a vector is named by its queue in `DriverCalls`, so
  `VectorPerQueue` is about queues without one.
* The lookups of status and name for each namespace of a list (`main.c` 1545-1590), whose failure
  ends the listing or leaves a name empty.
* What is merged in one action or left out because it cannot be told apart:
  `PopFree` of `CmdInfoList` merges counting (885) and the status (886), both under the list's lock;
  `InitQueue` of `AdminQueue` is one action (2263-2305), as no submission is under way then
  (`FlushExcludesSubmission`); `ProcessCqLeave` of `QueuePair` leaves
  out that the doorbell is not rung on a removed device (1941), as removal is in
  `AdminQueue` and `IoQueue`.
* The device list and the build files hold no behaviour.

## What is left

1. The poll handler in the life of a queue: `StoragePoll` with the creation and
   destruction of `IoQueue`, and its late setup while the queue runs.
2. Two plugin processes on one adapter.
