------------------------------ MODULE Lifecycle ------------------------------
(***************************************************************************)
(* Bringing a PCI adapter up and down, scanning, and recovering it: the    *)
(* callbacks mac80211 makes under rtnl (acx_op_start, acx_op_add_interface,*)
(* acx_op_hw_scan, acx_op_remove_interface, acx_op_stop), the watchdog work*)
(* and debugfs with acx_recover_hw, the interrupt handler, acx_irq_work,   *)
(* and the firmware's scan.  acx_sem serialises them, but acx_stop lets go *)
(* of it half way, and the watchdog looks at the flags before it has it.   *)
(***************************************************************************)
EXTENDS Naturals

VARIABLES
  sem,          \* who holds acx_sem, or "none"
  HW_UP, SCANNING, WATCHDOG_RUNNING,  \* adev->flags
  vif,          \* adev->vif is not NULL
  irqs_active,  \* adev->irqs_active, and with it IO_ACX_FEMR
  irqMask,      \* IO_ACX_IRQ_MASK: "all" masked, or "ours" let through
  scanComplete, \* HOST_INT_SCAN_COMPLETE is set in IO_ACX_IRQ_REASON
  otherIrq,     \* another reason that is not masked is set in it
  irqQueued,    \* irq_work is queued
  irqStep,      \* where in acx_irq_work mac80211's workqueue is
  timer,        \* watchdog_work is scheduled
  at,           \* where mac80211's thread, the watchdog's and debugfs's are
  fw,           \* the firmware: "idle" or "scanning"
  scanLate,     \* ACX_SCAN_TIMEOUT has passed since scan_start
  macUp,        \* mac80211 has the interface up (or is bringing it up)
  macScan,      \* mac80211 waits for ieee80211_scan_completed
  restart,      \* ieee80211_restart_hw has queued a restart
  WatchdogEnabled, \* acx_watchdog_enable, the module parameter "watchdog"
  cmdFailed,    \* acx_issue_cmd has returned NOT_OK (history)
  poked         \* irq_work was queued from debugfs with interrupts disabled, since
                \* the last acx_op_start (history)

flags == <<HW_UP, SCANNING, WATCHDOG_RUNNING>>
irq   == <<irqs_active, irqMask, scanComplete, otherIrq>>
work  == <<irqQueued, irqStep>>
scan  == <<fw, scanLate>>
mac   == <<macUp, macScan, restart>>
luck  == <<WatchdogEnabled, cmdFailed, poked>>
vars  == <<sem, flags, vif, irq, work, timer, at, scan, mac, luck>>

\* "mac80211" is whatever holds rtnl: one callback at a time.
Threads == {"mac80211", "watchdog", "debugfs"}

Init ==
  /\ sem = "none"
  /\ HW_UP = FALSE /\ SCANNING = FALSE /\ WATCHDOG_RUNNING = FALSE
  /\ vif = FALSE
  /\ irqs_active = FALSE /\ irqMask = "all" /\ scanComplete = FALSE /\ otherIrq = FALSE
  /\ irqQueued = FALSE /\ irqStep = "idle" /\ timer = FALSE
  /\ at = [t \in Threads |-> "idle"]
  /\ fw = "idle" /\ scanLate = FALSE
  /\ macUp = FALSE /\ macScan = FALSE /\ restart = FALSE
  /\ WatchdogEnabled \in BOOLEAN /\ cmdFailed = FALSE /\ poked = FALSE

\* adev->irq_mask
IrqMask == "ours"

Step(t, from, to) == at[t] = from /\ at' = [at EXCEPT ![t] = to]
Lock(t) == sem = "none" /\ sem' = t
Unlock == sem' = "none"

\* acx_op_stop waits for the watchdog's recovery, not for one from debugfs: a start in
\* the middle of that one would have its irq_work cancelled and the interface it brings
\* up restarted.  The model leaves it out.
DebugfsIsDone == at["debugfs"] \notin {"stop_cancel", "stop_lock", "stopped"}
-------------------------------------------------------------------------------
(* mac80211: ifup and restart, scan, ifdown *)

\* A restart work that was queued before the ifdown got its turn at rtnl first.
Open ==
  /\ ~macUp /\ ~restart
  /\ DebugfsIsDone
  /\ Step("mac80211", "idle", "start")
  /\ macUp' = TRUE
  /\ UNCHANGED <<luck, sem, flags, vif, irq, work, timer, scan, macScan, restart>>

\* The restart that acx_recover_hw asked for; an interface that is down by then
\* is left down.
Restart ==
  /\ restart
  /\ DebugfsIsDone
  /\ Step("mac80211", "idle", IF macUp THEN "start" ELSE "idle")
  /\ restart' = FALSE
  /\ UNCHANGED <<luck, sem, flags, vif, irq, work, timer, scan, macUp, macScan>>

\* acx_op_start.  The reset stops whatever the firmware did.
OpStartReset ==
  /\ Step("mac80211", "start", "start_irq")
  /\ Lock("mac80211")
  /\ HW_UP' = FALSE
  /\ fw' = "idle" /\ scanComplete' = FALSE /\ otherIrq' = FALSE
  /\ poked' = FALSE
  /\ UNCHANGED <<WatchdogEnabled, cmdFailed, SCANNING, WATCHDOG_RUNNING, vif, irqs_active,
                 irqMask, work, timer, scanLate, mac>>

OpStartIrqEnable ==
  /\ Step("mac80211", "start_irq", "start_up")
  /\ irqMask' = IrqMask /\ irqs_active' = TRUE
  /\ UNCHANGED <<luck, sem, flags, vif, scanComplete, otherIrq, work, timer, scan, mac>>

\* Nothing between schedule_delayed_work and the set_bit after it takes a second.
OpStartUp ==
  /\ Step("mac80211", "start_up", "add")
  /\ HW_UP' = TRUE
  /\ WATCHDOG_RUNNING' = (WATCHDOG_RUNNING \/ WatchdogEnabled)
  /\ timer' = (timer \/ WatchdogEnabled)
  /\ Unlock
  /\ UNCHANGED <<luck, SCANNING, vif, irq, work, scan, mac>>

\* acx_op_add_interface refuses a second interface.
OpAddInterface ==
  /\ Step("mac80211", "add", "idle")
  /\ sem = "none"
  /\ vif' = TRUE
  /\ UNCHANGED <<luck, sem, flags, irq, work, timer, scan, mac>>

ScanRequest ==
  /\ macUp /\ ~macScan
  /\ Step("mac80211", "idle", "scan")
  /\ macScan' = TRUE
  /\ UNCHANGED <<luck, sem, flags, vif, irq, work, timer, scan, macUp, restart>>

\* acx_op_hw_scan, up to -EINVAL or to the command.
OpHwScanRefused ==
  /\ Step("mac80211", "scan", "idle")
  /\ sem = "none"
  /\ ~HW_UP \/ SCANNING
  /\ macScan' = FALSE
  /\ UNCHANGED <<luck, sem, flags, vif, irq, work, timer, scan, macUp, restart>>

OpHwScan ==
  /\ Step("mac80211", "scan", "scan_cmd")
  /\ Lock("mac80211")
  /\ HW_UP /\ ~SCANNING
  /\ SCANNING' = TRUE /\ scanLate' = FALSE
  /\ UNCHANGED <<luck, HW_UP, WATCHDOG_RUNNING, vif, irq, work, timer, fw, mac>>

\* acx_cmd_scan.  A command that fails returns NOT_OK, which is 1: (ret < 0) does
\* not see it, but for mac80211 the scan has not started.
OpHwScanCmd ==
  /\ Step("mac80211", "scan_cmd", "idle")
  /\ \/ fw' = "scanning" /\ UNCHANGED <<macScan, cmdFailed>>
     \/ macScan' = FALSE /\ cmdFailed' = TRUE /\ UNCHANGED fw
  /\ Unlock
  /\ UNCHANGED <<WatchdogEnabled, poked, flags, vif, irq, work, timer, scanLate, macUp, restart>>

\* ifdown: a running scan does not hold it up, for there is no cancel_hw_scan.
OpRemoveInterface ==
  /\ macUp
  /\ Step("mac80211", "idle", "op_stop")
  /\ sem = "none"
  /\ vif' = FALSE
  /\ UNCHANGED <<luck, sem, flags, irq, work, timer, scan, mac>>

OpStop ==
  /\ Step("mac80211", "op_stop", "stop")
  /\ Lock("mac80211")
  /\ UNCHANGED <<luck, flags, vif, irq, work, timer, scan, mac>>

\* acx_op_stop after acx_stop, with acx_sem held: acx_stop_watchdog ...
StopWatchdog ==
  /\ Step("mac80211", "stopped", "cancel_watchdog")
  /\ WATCHDOG_RUNNING' = (WATCHDOG_RUNNING /\ ~WatchdogEnabled)
  /\ UNCHANGED <<luck, sem, HW_UP, SCANNING, vif, irq, work, timer, scan, mac>>

\* ... waits for a watchdog that runs.
OpStopEnd ==
  /\ Step("mac80211", "cancel_watchdog", "idle")
  /\ WatchdogEnabled => at["watchdog"] = "idle"
  /\ timer' = (timer /\ ~WatchdogEnabled)
  /\ Unlock
  /\ macUp' = FALSE
  /\ UNCHANGED <<luck, flags, vif, irq, work, scan, macScan, restart>>

Mac80211 ==
  \/ Restart \/ OpStartReset \/ OpStartIrqEnable \/ OpStartUp \/ OpAddInterface
  \/ OpHwScanRefused \/ OpHwScan \/ OpHwScanCmd \/ OpStop \/ StopWatchdog \/ OpStopEnd
-------------------------------------------------------------------------------
(* acx_stop, called by acx_op_stop and by acx_recover_hw *)

AbortScan(t) ==
  /\ Step(t, "stop", IF SCANNING THEN "stop_scan" ELSE "stop_irq")
  /\ macScan' = (macScan /\ ~SCANNING)
  /\ UNCHANGED <<luck, sem, flags, vif, irq, work, timer, scan, macUp, restart>>

\* Mutants: the flag stays set; a queued irq_work is not cancelled.
ScanningKept == SCANNING
NotCancelled == irqQueued

\* The flag after the scan was aborted, the queue after cancel_work_sync.
ScanningAfterStop == FALSE
QueuedAfterCancel == FALSE

StopScan(t) ==
  /\ Step(t, "stop_scan", "stop_irq")
  /\ SCANNING' = ScanningAfterStop
  /\ \/ fw' = "idle" /\ UNCHANGED cmdFailed
     \/ cmdFailed' = TRUE /\ UNCHANGED fw
  /\ UNCHANGED <<WatchdogEnabled, poked, sem, HW_UP, WATCHDOG_RUNNING, vif, irq, work, timer,
                 scanLate, mac>>

\* Mutant: acx_sem is held while the work is cancelled.
SemKept == sem

SemWhileCancelling == "none"

\* acx_irq_disable, then acx_sem is released.
StopIrqs(t) ==
  /\ Step(t, "stop_irq", "stop_cancel")
  /\ HW_UP' = FALSE
  /\ irqMask' = "all" /\ irqs_active' = FALSE
  /\ sem' = SemWhileCancelling
  /\ UNCHANGED <<luck, SCANNING, WATCHDOG_RUNNING, vif, scanComplete, otherIrq, work, timer,
                 scan, mac>>

\* cancel_work_sync waits for a work that runs.
CancelIrqWork(t) ==
  /\ Step(t, "stop_cancel", "stop_lock")
  /\ irqStep = "idle"
  /\ irqQueued' = QueuedAfterCancel
  /\ UNCHANGED <<luck, sem, flags, vif, irq, irqStep, timer, scan, mac>>

StopLock(t) ==
  /\ Step(t, "stop_lock", "stopped")
  /\ Lock(t)
  /\ UNCHANGED <<luck, flags, vif, irq, work, timer, scan, mac>>

AcxStop(t) == AbortScan(t) \/ StopScan(t) \/ StopIrqs(t) \/ CancelIrqWork(t) \/ StopLock(t)
-------------------------------------------------------------------------------
(* acx_watchdog_work, on the system's workqueue *)

WatchdogTick ==
  /\ timer
  /\ timer' = FALSE
  /\ Step("watchdog", "idle",
          IF ~WATCHDOG_RUNNING \/ ~HW_UP THEN "idle"
          ELSE IF SCANNING /\ scanLate THEN "lock" ELSE "rearm")
  /\ UNCHANGED <<luck, sem, flags, vif, irq, work, scan, mac>>

WatchdogLock ==
  /\ Step("watchdog", "lock", "recover")
  /\ Lock("watchdog")
  /\ UNCHANGED <<luck, flags, vif, irq, work, timer, scan, mac>>

\* Mutants: the interface is left in place; the watchdog is not scheduled again.
VifKept == vif
NotRearmed == FALSE

\* adev->vif after acx_remove_interface, the timer after the work.
VifAfterRemoval == FALSE
TimerAfterWork == TRUE

WatchdogRearm ==
  /\ Step("watchdog", "rearm", "idle")
  /\ timer' = TimerAfterWork
  /\ UNCHANGED <<luck, sem, flags, vif, irq, work, scan, mac>>

Watchdog == WatchdogTick \/ WatchdogLock \/ WatchdogRearm
-------------------------------------------------------------------------------
(* acx_recover_hw, called by the watchdog and by acx_dbgfs_write_diag *)

\* acx_remove_interface reads vif->type.  With vif == NULL the thread dies there and
\* acx_sem is never released.
RemoveInterface(t) ==
  /\ Step(t, "recover", IF vif THEN "stop" ELSE "oops")
  /\ vif' = VifAfterRemoval
  /\ UNCHANGED <<luck, sem, flags, irq, work, timer, scan, mac>>

RestartHw(t) ==
  /\ Step(t, "stopped", IF t = "watchdog" THEN "rearm" ELSE "idle")
  /\ restart' = TRUE
  /\ Unlock
  /\ UNCHANGED <<luck, flags, vif, irq, work, timer, scan, macUp, macScan>>

RecoverHw(t) == RemoveInterface(t) \/ AcxStop(t) \/ RestartHw(t)
-------------------------------------------------------------------------------
(* acx_dbgfs_write_diag, which holds acx_sem and looks at no flag *)

\* ACX_DIAG_OP_RECALIB, ACX_DIAG_OP_PROCESS_TX_RX: acx_schedule_task.
DebugfsTask ==
  /\ at["debugfs"] = "idle" /\ sem = "none"
  /\ irqQueued' = TRUE
  /\ poked' = (poked \/ ~irqs_active)
  /\ UNCHANGED <<WatchdogEnabled, cmdFailed, sem, flags, vif, irq, irqStep, timer, at,
                 scan, mac>>

\* ACX_DIAG_OP_RECOVER_HW
DebugfsRecover ==
  /\ Step("debugfs", "idle", "recover")
  /\ Lock("debugfs")
  /\ UNCHANGED <<luck, flags, vif, irq, work, timer, scan, mac>>

\* copy_from_user fails: the function returns and keeps acx_sem.
DebugfsFault ==
  /\ Step("debugfs", "idle", "efault")
  /\ Lock("debugfs")
  /\ UNCHANGED <<luck, flags, vif, irq, work, timer, scan, mac>>

Debugfs == DebugfsTask \/ DebugfsRecover \/ DebugfsFault
-------------------------------------------------------------------------------
(* The interrupt, acx_irq_work, the firmware and the clock *)

AcxInterrupt ==
  /\ irqs_active
  /\ irqMask = "ours" /\ (scanComplete \/ otherIrq)
  /\ irqMask' = "all"
  /\ irqQueued' = TRUE
  /\ UNCHANGED <<luck, sem, flags, vif, irqs_active, scanComplete, otherIrq, irqStep, timer, at,
                 scan, mac>>

IrqWorkStart ==
  /\ irqQueued /\ irqStep = "idle"
  /\ irqQueued' = FALSE /\ irqStep' = "lock"
  /\ UNCHANGED <<luck, sem, flags, vif, irq, timer, at, scan, mac>>

\* Reading the reason clears it.  Nothing here asks for HW_UP.
IrqWorkHandle ==
  /\ irqStep = "lock" /\ Lock("irq_work")
  /\ irqStep' = "unmask"
  /\ scanComplete' = FALSE /\ otherIrq' = FALSE
  /\ IF scanComplete /\ SCANNING
     THEN macScan' = FALSE /\ SCANNING' = FALSE
     ELSE UNCHANGED <<macScan, SCANNING>>
  /\ UNCHANGED <<luck, HW_UP, WATCHDOG_RUNNING, vif, irqs_active, irqMask, irqQueued, timer, at,
                 scan, macUp, restart>>

\* Mutant: the mask is not written back.
StaysMasked == irqMask

MaskAfterWork == IrqMask

IrqWorkUnmask ==
  /\ irqStep = "unmask"
  /\ irqStep' = "idle"
  /\ irqMask' = MaskAfterWork
  /\ Unlock
  /\ UNCHANGED <<luck, flags, vif, irqs_active, scanComplete, otherIrq, irqQueued, timer, at,
                 scan, mac>>

IrqWork == IrqWorkStart \/ IrqWorkHandle \/ IrqWorkUnmask

FwScanDone ==
  /\ fw = "scanning"
  /\ fw' = "idle"
  /\ scanComplete' = TRUE
  /\ UNCHANGED <<luck, sem, flags, vif, irqs_active, irqMask, otherIrq, work, timer, at,
                 scanLate, mac>>

\* Also after ifdown: acx_stop does not reset the adapter.
OtherIrq ==
  /\ ~otherIrq
  /\ otherIrq' = TRUE
  /\ UNCHANGED <<luck, sem, flags, vif, irqs_active, irqMask, scanComplete, work, timer, at,
                 scan, mac>>

ScanTimeout ==
  /\ SCANNING /\ ~scanLate
  /\ scanLate' = TRUE
  /\ UNCHANGED <<luck, sem, flags, vif, irq, work, timer, at, fw, mac>>

Next ==
  \/ Open \/ ScanRequest \/ OpRemoveInterface
  \/ Mac80211 \/ AcxStop("mac80211")
  \/ Watchdog \/ RecoverHw("watchdog")
  \/ Debugfs \/ RecoverHw("debugfs")
  \/ AcxInterrupt
  \/ IrqWork
  \/ FwScanDone
  \/ OtherIrq
  \/ ScanTimeout

Spec == Init /\ [][Next]_vars

\* Whoever waits for acx_sem gets it in the end, the kernel runs what is queued,
\* time passes.  Nothing makes mac80211 do anything, and the firmware finishes its
\* scans only if there is no watchdog to do without it.
Fairness ==
  /\ SF_vars(Mac80211 \/ AcxStop("mac80211"))
  /\ SF_vars(Watchdog \/ RecoverHw("watchdog"))
  /\ SF_vars(RecoverHw("debugfs"))
  /\ SF_vars(IrqWork)
  /\ WF_vars(AcxInterrupt)
  /\ WF_vars(ScanTimeout)
  /\ WF_vars(~WatchdogEnabled /\ FwScanDone)

FairSpec == Spec /\ Fairness

-------------------------------------------------------------------------------
CallSteps ==
  {"idle", "start", "start_irq", "start_up", "add", "scan", "scan_cmd", "op_stop",
   "stop", "stop_scan", "stop_irq", "stop_cancel", "stop_lock", "stopped",
   "cancel_watchdog", "lock", "recover", "oops", "rearm", "efault"}

TypeOK ==
  /\ sem \in Threads \cup {"none", "irq_work"}
  /\ HW_UP \in BOOLEAN /\ SCANNING \in BOOLEAN /\ WATCHDOG_RUNNING \in BOOLEAN
  /\ vif \in BOOLEAN
  /\ irqs_active \in BOOLEAN /\ irqMask \in {"all", "ours"}
  /\ scanComplete \in BOOLEAN /\ otherIrq \in BOOLEAN
  /\ irqQueued \in BOOLEAN /\ irqStep \in {"idle", "lock", "unmask"}
  /\ timer \in BOOLEAN
  /\ at \in [Threads -> CallSteps]
  /\ fw \in {"idle", "scanning"} /\ scanLate \in BOOLEAN
  /\ macUp \in BOOLEAN /\ macScan \in BOOLEAN /\ restart \in BOOLEAN
  /\ WatchdogEnabled \in BOOLEAN /\ cmdFailed \in BOOLEAN /\ poked \in BOOLEAN

\* A thread is gone and with it acx_sem: a recovery has died in acx_remove_interface,
\* or a write to debugfs has failed.
SemIsGone == \E t \in Threads : at[t] \in {"oops", "efault"}

\* As long as commands succeed each scan is reported to mac80211 once: while the
\* driver considers a scan as running, mac80211 waits for it, and
\* ieee80211_scan_completed, called by acx_irq_work or acx_stop, never comes without
\* a scan or twice for one.
ScanningIsMacs ==
  SCANNING /\ ~cmdFailed => macScan \/ \E t \in Threads : at[t] = "stop_scan"

\* The driver that acx_op_stop leaves behind does nothing any more: no interrupt
\* is taken, the watchdog is not scheduled, and no irq_work queued or running but
\* one from debugfs.
DownIsQuiet ==
  /\ TypeOK
  /\ ~macUp /\ at["mac80211"] = "idle" =>
       /\ ~HW_UP /\ ~irqs_active /\ ~SCANNING
       /\ (irqQueued \/ irqStep # "idle") => poked
       /\ ~timer /\ at["watchdog"] = "idle"

\* While the interface is up the interrupts are masked only as long as acx_irq_work
\* is still to unmask them, whatever stops, recoveries and restarts came before.
InterruptsComeBack ==
  HW_UP /\ irqMask = "all" => irqQueued \/ irqStep # "idle" \/ at["mac80211"] = "start_irq"

\* A restart finds the driver as mac80211 expects it: no hardware scan in progress,
\* and acx_op_add_interface, which refuses a second interface, finds none.
RestartFindsNothing ==
  /\ at["mac80211"] = "start" => ~macScan
  /\ at["mac80211"] = "add" => ~vif

\* mac80211 is told of every scan's end as long as acx_sem can be had: with the
\* watchdog also when the firmware never finishes the scan, without it when it does.
ScanEnds == macScan ~> (~macScan \/ SemIsGone)

\* "'Fixed' deadlock on flush_scheduled_work": ifdown does not wait, with acx_sem
\* held, for a work that waits for acx_sem, or for one that does.
NoDeadlockOnStop ==
  ~(/\ at["mac80211"] = "cancel_watchdog" /\ sem = "mac80211"
    /\ \/ at["watchdog"] \in {"lock", "stop_lock"}
       \/ at["watchdog"] = "stop_cancel" /\ irqStep = "lock")

\* Every call of mac80211's comes back to it, whatever the watchdog, debugfs and the
\* works are at, except where acx_op_stop meets a watchdog that waits for acx_sem, or
\* a thread is gone with it.
CallsReturn ==
  at["mac80211"] # "idle" ~>
    \/ at["mac80211"] = "idle"
    \/ ~NoDeadlockOnStop
    \/ SemIsGone

-------------------------------------------------------------------------------
(* Two sentences of the source that do not hold; no run checks them. *)

\* "disable all IRQs": once acx_op_stop is over they are masked.
MaskedWhenDown == ~macUp => irqMask = "all"

\* "Check ongoing scan timeout": what is recovered from is a scan that goes on.
RecoversOngoingScan == at["watchdog"] = "recover" => SCANNING
===============================================================================
