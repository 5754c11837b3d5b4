# The acx100/acx111 mac80211 driver in TLA+

This directory models the Linux driver for wireless adapters with Texas
Instruments' ACX100, ACX111 and TNETW1450 chips, on PCI, VLYNQ, slave memory
("mem") and USB.  The driver is small, but it is full of what is hard to test:
two works, an interrupt handler, a watchdog and mac80211's callbacks work on the
same counters and flags; half of every protocol runs in an adapter of which
there is no source; and most failures of commands are passed over.

Modules are written from the code, with the names of the code, and one action
for each stretch of it in which nobody else can act.  `PROJECT.json` has for each
definition the lines it stands for, for each property a mutation of the code that
violates it (an operator with the comment "Mutant", next to the one it would
replace), and for each hazard the properties that watch it.

1. [The system](#1-the-system): components, state, interactions
2. [Plan](#2-plan): modules, order, what is done and what is left
3. [Modules and code](#3-modules-and-code)
4. [Runs](#4-runs): questions, bounds, answers, findings
5. [Fairness](#5-fairness)
6. [Proofs](#6-proofs)
7. [What is not modelled](#7-what-is-not-modelled)

## 1. The system

### Who runs what

| actor | code | serialised by |
|---|---|---|
| mac80211's callbacks | `acx_op_*` in `main.c`, `merge.c`, `usb.c` | rtnl (mostly), `acx_sem`; `acx_op_tx` and `acx_op_set_tim` by neither |
| `acx_tx_work`, `acx_irq_work` | `main.c`, `merge.c` | mac80211's workqueue, which runs one work at a time; `acx_sem` |
| the watchdog | `acx_watchdog_work`, `main.c` | the system's workqueue; `acx_sem` |
| the interrupt handler | `acx_interrupt`, `merge.c` | a spin lock, and `irqs_active` |
| URB completion handlers | `acxusb_complete_tx/rx`, `usb.c` | nothing, against process context |
| the adapter | - | ownership bits in descriptors, the reason register, the command mailbox |
| probe, remove, suspend, resume | `pci.c`, `mem.c`, `usb.c` | the driver core |
| writers of debugfs files | `debug.c` | `acx_sem` |

They meet in `struct acx_device` (`acx_struct_dev.h`): flags (`HW_UP`,
`SCANNING`, `FW_LOADED`, ...), the rings, `tx_queue`, the interrupt mask, the
after-interrupt jobs, and copies of the adapter's settings.

### Components

**Transmit ring** (`merge.c`, `pci.c`).  16 descriptors per hardware queue, of
which head, tail and a count of free ones are kept, and in each descriptor
ownership bits, an error byte and the skb.  Operations: `acxpci_alloc_tx`,
`_acx_tx_data`, `acx_tx_clean_txdesc`, `acx_create_tx_desc_queue`; the adapter
finishes what it owns at any moment and in any order.  Correct if: the three
counters and the ownership bits tell the same story at each step; a descriptor
changes hands only by its owner's doing; each frame's status is reported once, in
the order of submission, and is its own.

**Transmit path** (`tx.c`, `main.c`, `merge.c`).  `acx_op_tx` queues a frame and
`acx_tx_work`; the work sends until the queue is empty, no descriptor is free, or
fewer than `TX_STOP_QUEUE` are; the adapter's completions make `acx_irq_work`
clean the ring, wake mac80211's queues and queue `acx_tx_work`.  Correct if: no
frame is lost or doubled between mac80211, the queue and the ring; no completion
is forgotten; what is stopped is woken; an ifdown, an ifup or a recovery at any
moment loses no more than what the adapter had, and leaves nothing behind.

**Lifecycle** (`main.c`, `merge.c`, `cmd.c`).  Start and stop, the interface,
hardware scans, the watchdog that recovers an adapter whose scan does not end,
the interrupt mask, the works.  Correct if: a stopped driver is quiet, interrupts
come back, mac80211 hears of the end of each scan once, nobody waits for
somebody who waits for `acx_sem`; also when a recovery comes from debugfs.

**After-interrupt jobs** (`main.c`, `merge.c`).  A bit mask of jobs that
`acx_irq_work` does at its end, if the hardware is up: recalibration of the radio, with
a pause and limited retries, and updates of the TIM.  Correct if no job is lost, but
for those that a stop leaves for the next work.

**Command mailbox** (`merge.c`, `cmd.c`).  One command at a time in shared
memory, with a status word and a bit in the reason register.  Correct if a
command is submitted to an idle firmware, and its outcome and result are its own,
whatever timed out before.

**Receive ring** (`pci.c`, `mem.c`).  16 buffers that the adapter fills in order,
and a search for the first full one.  Correct if each frame is passed on once, in
order, and none waits for the next interrupt.

**Slave memory buffers** (`mem.c`, `merge.c`).  Frames for the mem adapter lie in
blocks of the adapter's memory, linked by pointers in the blocks that the driver
cuts and joins; a queue that stays full is flushed.  Correct if no block is lost or
used twice and the room that was promised is there.

**USB transfers** (`usb.c`, `tx.c`).  16 transmit URBs with a busy flag and a
count of free ones, two receive URBs that submit each other, statuses that come
with received data and name a buffer by its index; frames and statuses follow
one another in a stream that transfers cut anywhere.  Correct if the count is
right, a status finds its frame, reception goes on, and what was cut is put
together again; also when submissions fail, URBs come back late, or the count was wrong
before.

**USB boot** (`usb.c`).  Upload of the firmware in transfers of 2048 bytes; the
TNETW1450 is padded to an odd number of them.

**Boot and memory layout** (`boot.c`, `init.c`, `merge.c`).  Halt the eCPU, upload
and compare the firmware (in slave memory, four words of it are then patched and more is
appended), start, upload the radio's firmware, templates, queues, pools - at probe and at each start of the interface, with failures anywhere.
Correct if a boot that says it is well leaves everything ready, areas do not
overlap, and buffers are neither lost nor freed twice.

**Probe, removal, power management** (`pci.c`, `mem.c`, `usb.c`).  A list of
acquisitions with labels for errors, on four buses.  Correct if a handler or a
callback always finds what it uses and everything is released once.

**Settings** (`cardsetting.c`, `main.c`, `cmd.c`).  mac80211 tells, the driver
remembers and sends what it believes changed, the adapter forgets at a reset.
Correct if in the end the adapter is set as mac80211 believes.

**Keys** (`main.c`, `cardsetting.c`).  Only CCMP is left to an ACX111; any other
cipher switches the adapter's encryption off, and it stays off.  Correct if the
adapter has the keys that mac80211 believes it has, and uses them.

**Receive delivery** (`rx.c`).  A received frame is copied to mac80211, or
dropped when the interface is down or no memory is left.

**debugfs** (`debug.c`).  Files that show the adapter's state; writing to them
recovers the adapter, queues works, or changes settings behind mac80211's back.

**Information elements and rates** (`ie.c`, `utils.c`), **register access and
PHY**, the **platform modules** of two handhelds: see section 7.

### How they interact

    mac80211 --acx_op_tx--> TxPath --alloc, tx_data--> TxRing <--completes-- adapter
       ^                      ^  |                       |                      |
       |<----- tx status -----|--|---- cleaned by -------+      reason register |
       |                      |  +-- acx_irq_work <-- acx_interrupt <-----------+
       |                      |             |  |                                |
       |--start, stop, scan-> Lifecycle     |  +--> RxRing, AfterIrq            |
       |                      |  acx_sem, interrupt mask, watchdog, debugfs     |
       |--start, stop-> TxSession = TxPath with stops, flushes, resets          |
       |--settings, keys--> Settings --commands--> CmdMailbox <-----------------+
                      Boot (inside start) --upload, commands--> adapter
    driver core --> Binding --> everything above exists, or does not

`MemTx` uses `TxRing` with another allocation next to it, `UsbUrbs` replaces ring
and interrupt, `UsbRxStream` replaces `RxRing`, `UsbBoot` replaces `Boot`.

## 2. Plan

| | module | contents | state |
|---|---|---|---|
| 1 | `TxFifo`, `TxRing` | abstract queue, ring that implements it | done |
| 2 | `TxRingProofs` | the ring's invariants and the refinement | done |
| 3 | `TxPath` (instance of `TxRing`) | two works, callers, stop and wake | done |
| 4 | `Lifecycle` | start, stop, scan, watchdog, recovery, also from debugfs | done |
| 5 | `AfterIrq`, `CmdMailbox`, `RxRing` | what `acx_irq_work` and the callbacks use | done |
| 6 | `MemTx` (instance of `TxRing`) | slave memory | done |
| 7 | `UsbUrbs`, `UsbBoot` | USB | done but for ACX111's queues |
| 8 | `Binding`, `Settings` | probe and remove; settings, keys, regulatory domain | done, without rates and filters |
| 9 | `MemoryMap`, `Boot`, `BootProofs` | boot and layout, with the proofs about `UsbBoot` | done |
| 10 | `TxSession` (extends `TxPath`), `TxSessionProofs` | frames on their way when the interface goes down or up or the adapter is recovered | done |
| 11 | `UsbRxStream` | frames cut by transfers, against the whole stream | done |
| 12 | `IrqWorkProofs`, `ReceiveProofs`, `SettingsProofs`, `TxBuffersProofs` | the invariants of `AfterIrq` and `CmdMailbox`, `RxRing` and `UsbRxStream`, `Settings`, `UsbUrbs` and `MemTx` | done |
| 13 | `DeviceProofs` | the invariants of `Lifecycle` and `Binding` | done |
| 14 | `UsbUrbs` with two queues; `TxRing` twice for the ACX111's queues and their common limits | | left |
| 15 | rates, receive filters, feature registers in `Settings` | | left |

Abstract specifications: `TxFifo` for the ring; `UsbRxStream` compares what is
handled with the packets of the whole stream.  An atomic command as the abstraction
of `CmdMailbox`, and a queue as that of `RxRing`, would hold only for a firmware in
time and a ring that is never crowded; their invariants say so with less.

Theorems left: none of the safety properties of a passing run.  Liveness stays with TLC.

## 3. Modules and code

Each component module has variables named after the code's fields, an action for
each operation or, where others may act in between, for each part of it; a
variable `at`, `op`, `stage`, `phase`, `step` or `pc` says where an operation is.  Where a list
of commands or acquisitions is itself the program (`Boot`, `Settings`,
`Binding`), it is a sequence of records in the order of the source and a single
action carries out the next one.

What differs between adapters or kernels but never changes (`SMP`, `SlaveMemory`,
`WatchdogEnabled`, `card`, `bus`) is a variable that `Init` chooses. History
variables are written and never read by the actions: `air` and `reported` in
`TxRing` and `UsbUrbs`, `byLength` in `TxPath` (`acx_op_tx` has stopped the queues
since they were last woken), `cmdFailed` in `Lifecycle` (a command has failed),
`left` in `AfterIrq` (a stop took the work away from jobs that are noted),
`slow` in `CmdMailbox` (an answer has come late), `crowded` in `RxRing` (two
frames came during one search since the last reset), `disturbed` in `Boot`,
`torn`, `deaf`, `lingered` and `lost` in `UsbUrbs` (the count of free buffers was stored
from a stale load; a receive URB was refused or came back too early; an URB has outlasted
the stop before; statuses in transfers that failed),
`forgotten` and `lost` in `TxSession` (frames that were flushed without a status, or
were in the ring at a reset), `poked` in `Lifecycle` (debugfs has queued a work),
`handled`, `missed` and `derailed` in `UsbRxStream` (what became of the stream; the
handler may have lost its place in it), `moved` and `mixed` in `Settings` (the driver
has left mac80211's channel, keys of several ciphers were used).

- **TxFifo** - frames submitted and not yet reported, in order; `Submit`,
  `Complete` in any order, `Report` of the oldest.
- **TxRing** - `AllocTx`, `TxDataRelease` (the write that gives the descriptor to
  the adapter), `TxDataStoreSkb` (the skb is stored *after* that, and the adapter
  may be done by then), `AcxComplete`, `CleanStart`/`CleanDesc`/`CleanEnd` (the
  loop, a turn at a time), `Reset` whenever no operation runs, which forgets the
  frames in flight.  `air` and `reported` are
  history: what really happened to a frame and what mac80211 was told.  Of the frames in
  `NoAckFrames` mac80211 wants no ack, and is never told that one has come.
- **TxPath** - `acx_op_tx` in four steps per CPU, the works in the order of the
  single-threaded workqueue, `acx_irq_work` with the reason register that is
  cleared when read, the mask that it writes back.
- **TxSession** - extends `TxPath` with `acx_stop` step by step (with `acx_sem`,
  without it, with it again), `acx_op_start` and `acx_recover_hw`; each action of
  `TxPath` goes on where `HW_UP`, `irqs_active` and `acx_sem` let it.  An ifdown waits
  for callers of `acx_op_tx` (mac80211 does), a recovery for nobody.
- **Lifecycle** - `at["mac80211"]` is whoever holds rtnl, `at["watchdog"]` the
  watchdog, if `WatchdogEnabled`, `at["debugfs"]` a writer of `acx_diag`; all go
  through `acx_stop`, which lets go of `acx_sem` in the middle.  `sem` is who holds it;
  its waiters are steps with `Lock`.  An ifup or a restart in the middle of a
  recovery from debugfs is left out (`DebugfsIsDone`): the two then undo each
  other's work, and nothing is promised.
- **AfterIrq** - `SET_BIT` and `CLEAR_BIT` are a load and a store; with `SMP` the
  three threads that use them interleave in between.  A fourth is `acx_stop`, also of a
  recovery: `Stop` takes `HW_UP` and the interrupts away, `CancelIrqWork` waits for the
  handler and takes the work off its queue, `StopEnd` waits for the work; meanwhile the
  work cannot be queued (`Cancelled`), and one that runs finds the hardware down
  (`NotUp`).  `OpStart` may come in the middle.  The jobs themselves stay noted.
- **CmdMailbox** - the steps of `acx_issue_cmd`, the firmware at the other end,
  `acx_irq_work` acknowledging the completion of somebody else's command.
- **RxRing** - search and passing on, descriptor by descriptor; `SlaveMemory`
  selects `acxmem_process_rxdesc`.
- **MemTx** - `word` is the first word of each block, the link; allocation,
  release, the count that is made before, the emergency flush.  Stopping the
  queues for lack of blocks belongs to the transmit path.
- **UsbUrbs** - transmission in the steps of `acx_tx_frame`, completion handlers
  that interleave with it, statuses in the adapter (`device`) and in the transfer being
  read (`rest`), start and stop.  `free++` and `free--` are a load and a store (`Store`), in
  either context.  `PollRx` is `acxusb_poll_rx` with its three ways: an URB whose status
  is still `-ECONNRESET` is not submitted, one in progress is unlinked and refused, any
  other is submitted or refused (`Submitted`), which nobody notices; `Endings` are the
  statuses a transfer may leave.  A stop takes each URB back within 10 ms (`OpStopEnd`), or
  leaves those of the kinds in `LateUrbs` in flight, to come back in the next session.
- **UsbRxStream** - `acxusb_complete_rx` on a stream of numbered bytes: `CompleteCut`
  puts a cut frame together, `Loop` is a turn of `while (remsize)`.  `Ends` has the
  last byte of each packet as a recursive function.  In the middle of a packet, where it
  may get to after it has lost its place, the handler reads any header at all, and must
  still not overflow its buffer.
- **UsbBoot** - `acxusb_boot` for both chips, transfer by transfer.
- **MemoryMap**, **Boot** - the layout as operators on the memory map; the boot as
  the list of its steps with what each one's failure leads to.  The templates have their
  names, for the driver relies on having set each of them, and the ACX100's TIM is set a
  second time, with nothing in it (`SetTim`).  The firmware of an HX4700 is patched
  after the last attempt at uploading it (`Patches`), whether that was well or not, and the
  firmware then takes its end from the word that the patch has moved (`CodeEnds`).  After a failure
  that the code passes over and after which nothing can be promised
  (`acx.disturbed`), properties promise nothing.
- **Binding** - the four probe functions as lists of acquisitions, the label each
  failure goes to, the labels in their order; remove, suspend, resume.  `phase` says
  which of these runs, `pc` its step, `held` what is acquired.
- **Settings** - each callback as its list of commands, that of `acx_op_config` with the
  level, the channel, both or neither, as mac80211 says what has changed (`Conf`); `acx` is what the adapter
  has been told, `mac` what mac80211 has asked for; `mac.again` are the keys it sets
  again after a restart.  A regulatory domain is written while the interface is up.

Assumed of what is not in the source: mac80211 calls in the order of its
documentation and holds rtnl; its workqueue runs one work at a time; the adapter
keeps to the ownership bits, fills receive descriptors in order, and moves the
end of the code after a radio image was announced; firmware answers commands
late or never only where the constants say so.

## 4. Runs

All passing runs explore their whole state space.  Bounds are constants of the
modules or of the MC modules; each state space is finite by itself
(`Lifecycle`, `AfterIrq`, `Binding`, `TxRing`, `Settings`, `Boot`) or by a bound
on the frames, commands or stops of a behaviour.

| run | bounds | shows |
|---|---|---|
| `TxRing` | 3 descriptors, 2 frames of which one wants no ack, errors with and without the ack bits; unbounded behaviours | counters and ownership bits agree at every step; refinement of `TxFifo` |
| `TxSession` | 3 descriptors, limits 2 and 3, queue length 2, 1 caller, 4 frames, 1 stop or recovery | frames are conserved but for those a stop gives up, completions not forgotten, an ifdown leaves nothing; unless the ring gets full, what is accepted is reported and what the ring has stopped is woken |
| `Lifecycle` | none | with and without watchdog, with writes to debugfs, with commands that fail: a stopped driver is quiet, interrupts come back, restarts find a clean driver, scans end, each reported once, calls return |
| `AfterIrq` | 2 retries instead of 5; any number of starts and stops | on one CPU and several: every job has a work that will see it, but for those from which a stop took it, until it runs again; a recalibration that errors ask for is tried or left on purpose, unless the hardware goes down |
| `CmdMailbox` | 4 commands, a firmware that is in time, late or silent | `acx_issue_cmd` returns, OK means some success; until an answer comes late, outcome and result are the command's own |
| `Receive` | ring: 3 descriptors, 5 frames, up to 2 arrivals during a search, host and slave memory; USB: 3 packets, headers of 2 bytes, frames of 3 and 5, transfers of 0 to 6 | no frame lost, overwritten or doubled; until two come in one search, none overtaken or left waiting; a stream comes out whole however it was cut, until the handler may have lost its place |
| `TxBuffers` | slave memory: 3 descriptors, 5 blocks of 8 bytes, frames of 1 and 2 blocks, 2 attempts; USB: 2 URBs, 3 frames in each of any number of sessions, a counter of 3 bits; any transfer, submission or update of the count may go wrong; receive URBs may outlast the 10 ms of a stop (`LateUrbs`), transmit URBs do not | blocks conserved, no "Bummer", a flush is sound; the free count is right until two of its updates overlap and from the next start on; statuses find their frames also with a wrong count, and reach mac80211 unless reception has ended in one of the ways named below |
| `Binding` | all four buses | callers find what they use at any moment; removal releases everything |
| `Settings` | 3 kinds of adapters, 3 channels, 3 domains of which one is unknown, 2 addresses, 1 peer, 2 powers, which change with the channel, without it and not at all, 3 ciphers; commands that fail, all but that for the TIM template (`CommandFaults`) | the adapter is set as told and has the keys it is believed to have |
| `Boot` | 4 kinds of adapters, 2 attempts instead of 5, one size of each area, all failures, firmware with a patch and without; USB: transfers of 8 bytes, images of 0 to 25 bytes, 64 for 2^32 | what runs was compared, save the patch, without which an HX4700 does not run; a boot that says it is well has left everything ready |
| `TxPathStuck` | 6 descriptors, limits 3 and 5, 1 caller, 9 frames | a finding, below |
| `LifecycleDeadlock` | as `Lifecycle` | a finding, below |

`MCTxBuffers`, `MCReceive` and `MCBoot` hold two modules each, of which a behaviour runs one:
a driver has one bus.  The other one is an instance whose variables stay as
`Init` has them.  Each module's type invariant is a conjunct of one of its
properties.

*Why the bounds are enough.*  A ring of 3 has every case of 16: empty, one, full,
wrapped, and a descriptor between head and tail on both sides; its theorems are
proved for each size, and so are the invariants of `TxSession`, `RxRing`,
`AfterIrq`, `CmdMailbox`, `UsbRxStream`, `UsbUrbs`, `MemTx`, `Settings`, `Boot` and
`UsbBoot`; `Lifecycle` and `Binding` are not bounded at all.  In `TxSession` 4 frames fill ring or queue and come round, there are
states for stopped, between the limits, and woken, and the one stop comes at each of
them; a second one would find a driver that `DownIsEmpty` describes (the theorem
does not bound stops, frames or callers).  Only its liveness rests on the bounds.
5 frames wrap `RxRing`'s ring of 3, and two arrivals are what it takes to have one
behind and one in front of the search.  Four commands are more than the two that
can meet in a mailbox.  `MemTx` runs out of blocks before descriptors with long
frames and after them with short ones; `UsbUrbs` has fewer buffers than frames, so
that they are used again, by numbers of frames that begin anew with each start, so that
its sessions are not bounded.  The sizes of `UsbBoot` go through every remainder of
one, two and three transfers.  In the stream of
`UsbRxStream` a transfer ends at each byte of header and frame, one transfer holds
two packets and one packet takes three transfers, and what the handler may read in
the middle of a packet includes sizes that are too large.  `Settings` has for each
of two domains a channel outside, powers below and between levels, and a key of
each cipher that the driver tells apart; the TIM template is sent between two commands
whose failure it shares.

*Deadlock* is checked in `TxRing`, `AfterIrq` and `Settings`.  Elsewhere it is
switched off because the program really ends: all frames or commands of the bound
are used up, the probe has failed, or (in `Lifecycle`) the deadlock of
`acx_op_stop`, shown in its own run, is reached or `acx_sem` is gone with a thread.

### Where the code does something else than it says

Two runs check one property each, a sentence of the repository, and TLC shows how
it fails.

| run | what happens |
|---|---|
| `TxPathStuck` | The limit is looked at after sending: the ring can get completely full, and then head = tail is taken for empty and it is never cleaned again. |
| `LifecycleDeadlock` | `acx_op_stop` waits for the watchdog with `acx_sem` held, the watchdog waits for `acx_sem`. |

More such sentences are kept at the end of their modules, under the heading that
they do not hold.  No run has them, but each is refuted by TLC when it is named in
the module's `.cfg` (with the constants in the third column, where there are some).

| module | property | what happens |
|---|---|---|
| `TxPath` | `KeepsFreeDescs` | As in `TxPathStuck`, a step earlier. |
| `Lifecycle` | `MaskedWhenDown` | `acx_irq_work` lets the interrupts through again after `acx_irq_disable`. |
| | `RecoversOngoingScan` | The watchdog recovers from a scan that is over. |
| `AfterIrq` | `ResubmittedRuns`, `TimFollows` | Jobs scheduled while the jobs are done are cleared with them. |
| `CmdMailbox` | `IdleAgain`, `SubmitsToIdle` | After a timeout the driver declares a busy firmware idle; its late answer blocks the mailbox for ever. |
| `UsbUrbs` | `DoneIsReported` | The skb of a failed submission is never given back. |
| | `ReceiveIsStarted` | A receive transfer that ends before `HW_UP` is set ends reception, and so does a submission that is refused. |
| | `StartedAgain` | The completion handler comes between check and stop. |
| | `FreeNeedsNoLock` | "no locking is actually required" (`usb.c:850`), but `free++` and `free--` race, and the count stays wrong until the next start. |
| `Binding` | `ProbeUndoesAll`, `OnlyOwnReleased` | Error paths of probe functions leave things behind or release what was not acquired. |
| | `StopsWithoutSem` | Suspend unregisters with `acx_sem` held, for which stop waits. |
| `Settings` | `KeysAreUsed` | A second cipher, or a CMAC key, which the driver says it has set, ends the adapter's encryption also for the CCMP key that mac80211 has left to it. |
| | `ChannelAsTold` | A domain that is written moves the driver's channel, and the adapter follows at some later time or never. |
| | `JoinedAsTold` | A stale BSSID, if mac80211 does not name an access point's own (`ApBssidTold = FALSE`). |
| | `EdAsQueried` | The wrong address of a buffer (with two `Thresholds`). |
| | `RxAlwaysOffForConfig` | The receiver is configured while it is on, after a failed command. |
| `Boot` | `LoadedIsLoaded` | `FW_LOADED` survives a failed upload. |
| | `NothingElseRuns` | `acxmem_patch_around_bad_spots` changes four words of an HX4700's firmware and appends to it after the comparison of `merge.c:1188`, and nothing reads that back. |
| `UsbBoot` | `BoundIsBooted`, `WaitsForReady` | A device that did not boot is bound; a wait that ends without an answer counts as one. |

More are the reason for an exception in a property that does hold.

- `StoppedIsWoken` leaves out queues stopped for their length (`byLength`):
  `acx_op_tx` stops them for a length that was true earlier; everything may be done by
  then and nothing wakes them.  It and `AcceptedIsReported` leave out the full ring.
- `AcceptedIsReported` also leaves out a frame that a caller puts into `tx_queue` after
  a recovery has flushed it: after the restart nothing makes `acx_tx_work` run
  until the next frame comes.
- `FramesConserved` of `TxSession` counts what `acx_tx_queue_flush` forgets, frames that
  do not ask for a status, and what was in the ring when `acx_full_reset` recreated it.
- `ScanningIsMacs` leaves out what follows a failed command (`cmdFailed`):
  `acx_cmd_scan` returns `NOT_OK`, which is 1, and `acx_op_hw_scan` tests for less
  than 0, so a scan that could not be started leaves `SCANNING` set.
- `ScanEnds` and `CallsReturn` end with `SemIsGone`: a recovery dies in
  `acx_remove_interface`, which removes an interface that may not be there, or a write to
  debugfs fails and returns with `acx_sem` held.  `CallsReturn` also ends with the deadlock
  of `LifecycleDeadlock`.
- `JobsHaveWorker` and `RecalibFollows` leave out the jobs from which a stop takes the work
  away (`left`): they stay noted across the next start, without a work, until an interrupt
  or another job queues one.  `RecalibFollows` also ends when the hardware goes down, and
  speaks of one CPU: on several, a recalibration that is scheduled while the jobs are done
  is cleared with them.
- `FreeIsRight` ends with the first update of the count between load and store of another
  (`torn`), up to the next start, which sets the count anew.  `StatusIsOwn` does not: buffers are
  taken by their flags.  Both leave out a session into which an URB of the last one has
  lingered (`lingered`): its buffers are given out again while it is in flight, and a
  receive URB that is late flies beside the one that the start submits.
- `StatusFollows` ends with a receive URB that is refused, or that comes back before `HW_UP`
  is set (`deaf`): nobody submits it again, and as the two submit each other, nothing is
  received until the next ifup.  It leaves out statuses in a transfer that failed (`lost`),
  whose buffers stay busy, and lingering URBs too.
- `CodeIsCompared` speaks of the words that the image has and the patch has not: nobody
  compares the patch (`NothingElseRuns`), and of a processor that runs one which the bus has
  garbled nothing is promised (`acx.disturbed`).  What it says of the patch is where it has
  to be: no firmware of an HX4700 starts without it, none other with it.
- `DownIsQuiet` leaves out a work that debugfs has queued (`poked`).
- `FindsFirstFull` and `FramesHandled` end with two arrivals during one search of the
  receive ring (`crowded`): the search may have passed the first one's descriptor and find
  the second one's; frames are then passed on out of order, and one may wait for a
  later interrupt.
- `StreamIsFramed` ends with a transfer that ends inside a header, which is dropped, with
  a failed one that ends inside a packet, and with a stop while the beginning of a frame
  is in `rxtruncbuf`, which nobody clears (`derailed`).
- `HandlerIsSafe` leaves out a failed probe of VLYNQ, which leaves the interrupt
  handler installed.
- `SetAsTold` leaves out the channel after a written domain has moved it (`moved`),
  `KeysAsTold` keys of several ciphers (`mixed`), and on VLYNQ, where a start does not
  reset the adapter, a key whose removal has failed.

## 5. Fairness

- **TxPath**, **TxSession**: works that are queued run and runs go on, interrupts that
  are raised and not masked are taken, the adapter finishes what it owns, callers and
  stops go on (weak fairness, since none of these is disabled once enabled but by
  itself or by a stop).  Where `acx_stop` or `acx_op_start` wait for a work to end or to
  give `acx_sem` back, strong fairness, as below.  mac80211 never has to send, stop or start anything.
- **Lifecycle**: whoever waits for `acx_sem` gets it in the end - strong
  fairness, thread by thread, for it is taken and released while one waits.  `acx_sem` is a
  mutex (`acx_func.h:73`), which promises its waiters no order; it is assumed that none of
  them is overtaken for ever by those that come later.
  Time passes.  Neither mac80211 nor debugfs ever has to do anything.  The firmware has
  to finish its scans only where no watchdog is enabled to end them: without one
  nothing else could.
- **AfterIrq**, **CmdMailbox**, **RxRing** (and `MCReceive`): code that has begun goes on,
  a stop included, queued works run.  Neither the firmware nor the adapter has to do anything.
- **UsbUrbs**: a handler that has begun goes on (weak fairness of `RxPackets`), and the
  adapter sends the statuses it has with the receive URBs it is given (strong fairness of a
  completion that takes all of them along, since other transfers may complete in between),
  whether or not that transfer then fails.  Nothing is assumed of submissions, and
  nothing of the works.  `MCTxBuffers` states the same of the behaviours that are on USB.
- The other modules have safety properties only.

## 6. Proofs

Checked by TLAPS, for each value of the constants, from the named assumptions only.

**TxRingProofs**, from `TxRingAssumption` (a positive number of descriptors, error
codes that are not 0, a skb that is not "none").  `TypeOK`, `CountersAgree` and
`FreeMeansHostOwned` are not inductive by themselves: that a descriptor which
`acx_tx_data` gives to the adapter is the youngest in use (`TxdescIsYoungest`), that
only three combinations of ownership bits occur (`OwnerKnown`), and that the error
byte is that of the descriptor's own frame exactly while it waits to be cleaned
(`StatusIsOfTheFrame`) must be known.  `IInv` is their conjunction; `InitIInv`, a
lemma for each action, and `StutterIInv` make `Invariance`.  Positions are counted
from the oldest descriptor in use (`Pos`, `At`), so that the wrap-around is dealt
with in five lemmas (`PosType`, `PosInjective`, `PosOnto`, `SuccType`, `PosSucc`).

- `TypeCorrect`, `CountersAlwaysAgree`, `FreeCountIsRight`;
- `AllocFailsOnlyOnFullRing`: branches of `acxpci_alloc_tx` logged as BUG are dead.

The refinement follows from the same invariant.  The abstract queue is `InFlight`: the
descriptors in use from the oldest on, without the one that is claimed and not
yet given away; a frame's skb is the driver's local variable until it is stored.
Giving the descriptor to the adapter is `Submit`, `AcxComplete` is `Complete`, a
turn of the clean loop is `Report`; `Reset` drops the frames in flight of both;
everything else stutters.

- `OwnershipAlwaysRespected`, the action property;
- `Refinement`: `Spec => Fifo!Spec`.

**TxSessionProofs**, from `TxPathAssumption` and `TxSessionAssumption`, for any number
of descriptors, callers, frames and stops.  The ring's lemmas are used through an
instance of `TxRingProofs`; what the works, callers and stops do around them is new.
`SessionIInv` adds to the ring's invariant and to the three properties that a work is
queued once at most, that a caller's frame is one, and what `acx_stop` has done by
the time it is at each of its places (`StopsInOrder`): without it, `acx_irq_work`
could queue `acx_tx_work` after that was cancelled, and `DownIsEmpty` would not follow.

- `FramesAlwaysConserved`, `CompletionNeverForgotten`, `DownIsAlwaysEmpty`;
- `RingSurvivesStops`: the ring's counters agree in every session.

**IrqWorkProofs**, about two things that `acx_irq_work` shares with others.

The jobs, from `AfterIrqAssumption` (retries are a number).  `JobsHaveWorker`, with
the types, is inductive as it stands: a bit that another CPU's store brings back after it
was cleared has in that store's thread someone who will queue the work, or who notes that a
stop keeps it from doing so (`Queues`); a work that runs has seen to every bit when it ends,
or found the hardware down (`Worked`); a stop notes what it leaves (`StopSteps`).  The proof
has a step for each load and each store.

- `JobsAlwaysHaveWorker`.

The mailbox, from `CmdMailboxAssumption`, for any number of commands and any
firmware: `MailboxIInv` adds that the firmware answers only what it was given
(`NothingInvented`) and what an answer in time means for each place of
`acx_issue_cmd` (`InTime`).

- `ResultIsAlwaysOwn`.

**ReceiveProofs**, about both modules of `MCReceive`.

The ring, from `RxRingAssumption`, for any ring and any number of
frames: `RxIInv` adds where a search is and that a frame about to be passed on is in a
full descriptor.  Every action adds one descriptor to the set `Waiting`, takes one away,
empties it or leaves it alone, and four lemmas say what that does to the frames in it.

- `RxFramesConserved`;
- `RxFindsFirstFull`, from `RxOrder`: as long as no two frames came in one search, the
  full descriptors follow each other from the one where the next search will find the
  first, and the frames in them are in the order of their arrival, behind all that were
  passed on.  The adapter adds one at the end of that window, the driver takes
  one away at its beginning, and a search ends at its beginning or finds it empty.

The stream, from `UsbAssumption`, for headers, packets and transfers of any size.
`StreamIsFramed` speaks of the moments between two transfers; `StreamIInv` says at each
turn of the loop what has come of the bytes up to `Front`, the last that the handler is
done with: what is handled is what ends by there and is not missed, and, as long as the
handler has not lost its place, `Front` is the end of a packet, or `rxtruncbuf` has the
beginning of the next one, as far as it has come (`InPlace`, `CutIn`). While the interface
is down `rxtruncbuf` may keep a beginning that does not belong to what comes next;
`StreamIInv` promises nothing of it then, and `derailed` is set at the next start. The
ends of packets (`End`) are a recursive function; that they grow (`EndsGrow`) is an
induction, which is done by looking at the least counterexample of a set (`LeastNat`).
`Within` says that a byte belongs to one packet, `OrderGrows` that `InOrder` goes on with
one packet more, and each action moves `Front` by one packet or by none.

- `StreamAlwaysFramed`.

**DeviceProofs**, about the modules that have no size. TLC's runs of them are exhaustive;
the theorems say why what they find is so, and `LifeIInv` and `BindingIInv` are what
somebody who changes the code would have to keep.

`Lifecycle`, from no assumption. The four properties speak of a driver that is down, or
up, or restarted; the invariant has to say for each thread what holds at the step it is
at, when two others may be in the middle of theirs. `LifeIInv` is the conjunction of

- `SemIsHeld`: `acx_sem` is held by exactly the thread that is at a step where it must be,
  so that no two are between lock and unlock;
- `PlacesAreTheirs`: which steps are whose, and that the watchdog runs only if it is
  enabled;
- `OneRecovery`: watchdog and debugfs do not stop the device at once, nor while mac80211
  starts it, though `acx_stop` lets go of `acx_sem` in the middle: who has removed the
  interface (`vif`) is alone;
- `StopLasts`: what each step of `acx_stop` has done - the scan aborted, interrupts
  disabled, works cancelled - lasts until the next start, whoever comes in between;
- `MaskIsLifted`: `InterruptsComeBack` from the step of `acx_op_start` that precedes it;
- `ScanIsOne`: `SCANNING` and mac80211's scan, and in which steps one is without the
  other.

A step of one thread leaves the others where they are (`Moves`); the invariant, and apart
from it the types, are then shown for each thread's steps in turn.

- `LifeIInvHolds`, `DownAlwaysQuiet`, `InterruptsAlwaysComeBack`,
  `RestartAlwaysFindsNothing`, `ScanningAlwaysMacs`.

`Binding`, from `BindingAssumption` (the buses are some of the four). The program is in
the tables, and the order of their rows is what could be wrong. So the tables of each bus
are first turned, field by field, into what a row acquires, where its failure goes and
what a label releases (`PciGets`, `PciFails`, `PciLabels`, `PciUndoes`, ...), and from
these facts follow those about the order: a probe registers last (`ProbeFacts`), requests
the interrupt after what its handler uses (`IrqComesLate`), and each failure after that
goes to a label from which the interrupt is freed before the registers are unmapped
(`FailureFreesIrq`, `UnwindFreesIrq`; not so on VLYNQ, the exception in `HandlerIsSafe`);
a removal frees the interrupt before what its handler uses (`IrqIsFreedEarly`) and has a
step for everything that is held (`AllIsReleased`). `BindingIInv` says what is held in the
middle: by a probe, what its steps so far acquired (`ProbeHolds`); by one that has failed,
no registration, and the interrupt only with what its handler uses (`UnwindHolds`); by a bound or suspended device, what
runs needs (`BoundHolds`); by a removal, only what its steps to come release
(`RemoveHolds`).

- `BindingIInvHolds`, `CallersAlwaysFindAll`, `RemoveAlwaysLeavesNothing`.

**SettingsProofs**, from `SettingsAssumption`, for any set of channels, domains,
addresses and peers.  A callback is a list of commands, so the invariant speaks of
those still to come: `WillBe` is what the adapter will have been told when they are
carried out, and `SettingsIInv` says that this is what was asked for, whichever of them
the callback is at and unless one has failed.

- `SettingsFollow` (with `ApBssidTold`: without it TLC finds the stale BSSID of
  `JoinedAsTold`), `KeysFollow`, `LevelFollows`;
- `RxOffAtConfig`, an action property.

**TxBuffersProofs**, both ways to keep frames that are not in host memory.
On USB, for any number of URBs, frames and starts, any kinds of late URBs, and any failures:
`UrbIInv` says who holds each buffer (`OneOwner`), where `acx_tx_frame` and the handlers are
(`WhoRuns`), that frames are not sent twice (`FramesAreNew`), and, of a session into which
nothing lingers, that nothing was in flight when it began (`AllComeBack`).  It says nothing
of the count, and does not need it.  `CountFollows` says that the count is the number of free
buffers but for the updates that are under way, modulo its width, until `torn`: as
long as no store comes between load and store of the other context, what each has loaded
is what it changes.  No hypothesis excludes the race; a start ends what it has done.

- `UsbInvariance`, `UsbStatusIsOwn`, `UsbFreeIsRight`.

In slave memory, for any ring and any number of blocks, lists are followed through the
adapter's memory.  `Accounted` says that each holder of blocks (a descriptor, or the
free list) has a list which a function `q` enumerates, and that each block is in exactly
one place of one of them.  `Allocate` cuts the beginning off the free list and `Reclaim`
joins a descriptor's list to it; the loops that walk over links (`From`) are shown to
walk along `q` (`WalkExists`, `ListsWalk`).  The ring's counters come from `TxRingProofs`.

- `FlushLeavesSoundRing`: the emergency flush leaves the ring's invariant as it is,
  also where it begins with head = tail in a full ring;
- `MemInvariance`, `MemBlocksConserved`: no block is lost or in two lists.

This module, `SettingsProofs` and `ReceiveProofs` have a lemma `Least` or `LeastNat`: a
property of numbers that fails for some fails for a least one, which is stated with a set
and so needs no operator as a parameter.

**BootProofs**, from `MemoryMapAssumption`, `BootAssumption` and `UsbAssumption`, is about
both modules of `MCBoot`.

The layout: rounding up to 32 bytes, blocks of 128 and of 256 bytes, and

- `PoolsFit`: for each end of the queues and of the memory, if the rounded start of
  the pools is not behind the end of the memory, the pools lie above the queues,
  do not overlap, stay within the memory and leave less than a block unused.
  This is the arithmetic; that a boot lays the areas out so is `MemoryIsAlwaysDivided`, below.

The upload to a USB device, for each size of the image and of a transfer.  `SentSoFar`
counts the transfers that have come by the bytes that have come, and `TransfersCount` is
the arithmetic of one more.  What is left is `PaddingIsParity`: `acxusb_fw_needs_padding`, which computes modulo 2^32 and so calls an image of size 0 the
longest of all, asks for padding exactly if the loop has made an even number of transfers.

- `UsbWellIsRunning`, from `UploadIInv`.

The steps of `Boot` are lists that are put together and then carried out from the front, so
an invariant has to say of what is left of a list that its beginning is not missing.
`InOrder` says it without naming the lists: a step that relies on another (`Prior`) comes
right after it.  That is shown of each piece, and `PiecesJoin` keeps it for their
concatenations (`BootsInOrder`); then each action has only to establish what the next
step may count on.  `EcpuFollows` says where in a boot the processor and the radio run, and
`CodeIsKept` that what runs was compared and stays, and that the patch is there where it has
to be, and whole unless `acx.disturbed`: the end of the code is read from a word of the
patch (`CodeEnds`), of which the proof needs no more than that it is not behind the
patch - larger values, that the bus has made up, are left out of the model, since there
may be no room behind them.  The radio's firmware goes to where the
driver thinks the code ends, and at that step this is what the adapter thinks
(`mm.CodeEnd = acx.map.CodeEnd`), unless an interrogation has failed and nobody looked.

- `CodeInvariance`, `CodeComparedSaveThePatch`;
- `AllocationsAlwaysHeld`: `live`, which follows allocations and releases, is the number of
  pointers the driver has, whichever step of whichever boot fails.

`InOrder` knows only what comes right before a step.  What a boot leaves behind is said by a
longer invariant, `ReadyIInv`.  `Place` numbers the steps of all kinds of adapters; a
boot is somewhere between two places (`\E r : Progress(r)`), and `Past(r, do)` says that it
has done a step.  From there on

- `Part`: the list of what is left goes up in places and leaves out none that this adapter
  needs.  Each piece of a boot is a part from one place to another, and parts join
  (`PartsJoin`, `BootsAreWhole`); taking the head off moves to its place (`PartGoesOn`);
- `HostIsReady`, `AdapterIsReady`, `QueuesAreKnown`, `MapIsLaidOut`, `PoolsAreKnown`: what
  the steps behind have established and those in between have not undone;
- `MapIsFresh`: where the driver computes an area from its copy of the map, the copy is the
  adapter's.  An interrogation is placed by what follows it (`MapBefore`), for there are
  several in a boot.

A boot that begins finds what an earlier one has left half done, its own map included, since
power stays on.  So addresses have to be within the memory wherever a boot may end
(`AdapterFits`, `DriverFits`), and, in the middle of it, not have grown more often than once
for the radio's firmware and once for each template that is set (`GrowthIsBounded`).

`RoomAssumption` says that the memory is as large as the sum of what is put into it and
the gaps.  No line of the driver checks it: with less, `acx100_init_memory_pools` would
subtract past zero, in unsigned arithmetic that the model does not follow.  It is a
hypothesis about firmware and adapter, needed only here; `CodeComparedSaveThePatch`
and `AllocationsAlwaysHeld` hold without it.

- `ReadyInvariance`, `BootedIsAlwaysReady`;
- `MemoryIsAlwaysDivided`, which includes the type invariant: the places give the order of
  the areas, and `PoolsFit` the pools.

An inductive invariant can be looked at with TLC: `SettingsIInv`, `RxIInv`, `RxOrder`,
`StreamIInv`, `LifeIInv`, `BindingIInv`, `UrbIInv`, `ReadyIInv` and the others are definitions of the component's module or of its proofs and
hold as an `INVARIANT` of the component's run.

Every invariant and every action property of a passing run is a theorem.  Only
model-checked: liveness (`AcceptedIsReported`, `StoppedIsWoken` and the others that
speak of what happens in the end), which, like `ENABLED`, is beyond the prover's reach; and
the deadlock freedom of the runs that check for it.
`AllocBusy`, in which `acxpci_alloc_tx` gives up, is a predicate on the state, so that
its theorem needs no `ENABLED`.

## 7. What is not modelled

- **Transmit path**: an ACX111 has two hardware queues, for encrypted and for other
  frames, which `TxPath` and `TxSession` do not tell apart: one ring, and its limits,
  stand for both.  `TxSession` has no scans: what they do to the works is in
  `Lifecycle`.
- **Lifecycle**: an ifup or a restart that overtakes a recovery from debugfs
  (`DebugfsIsDone`).
- **USB**: control transfers for commands, more than one hardware queue; the adapter is
  assumed to forget statuses when it is put to sleep; `acxusb_op_stop`'s cancelling,
  flushing and unlinking is one step, since without `HW_UP` no work and no handler acts on
  what it changes; and the slot an ACX111's
  second queue would use is not there.
- **Settings**: rates, receive filters, antennas, sensitivity, other feature registers,
  monitor interfaces.  What keys contain, and what the adapter does to frames with
  them, are data.
- **Boot**: parsing of firmware versions and configuration options, EEPROM and PHY;
  what the firmware's words are; of the patch, which words it changes, what a garbled
  one makes of the processor, and an end of the code behind the memory.
- **Slave memory**: the words of a frame that are copied through its blocks; suspend and
  resume (`mem.c`), which call functions that no longer exist.
- **Information elements, rates, conversions** (`ie.c`, `utils.c`): tables.
- **debugfs** (`debug.c`): the files that print, and the writing of transmit level,
  antenna and sensitivity, each of which sets one value and sends it.
- **Registers**, **platform modules**: I/O.
- The `watchdog` parameter is fixed in a run though it can be changed at run time,
  and one adapter is modelled at a time.
- Memory: accesses appear in the order of the source.
