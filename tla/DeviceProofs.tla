----------------------------- MODULE DeviceProofs -----------------------------
(***************************************************************************)
(* Proofs about the life of a device, on every bus and with or without the *)
(* watchdog: what its start, stop, scans, interrupts and recoveries leave, *)
(* in any order (Lifecycle); and that its probe and its removal leave what *)
(* callers may use at every moment, and in the end nothing (Binding).      *)
(***************************************************************************)
EXTENDS Lifecycle, Binding, SequenceTheorems, TLAPS
-------------------------------------------------------------------------------
(* Start, stop, scan and recovery *)

\* Where in its steps a thread holds acx_sem,
Holding ==
  {"start_irq", "start_up", "scan_cmd", "stop", "stop_scan", "stop_irq", "stopped",
   "cancel_watchdog", "recover", "oops", "efault"}

\* and where it is when acx_stop runs, has aborted the scan, disabled the interrupts, or
\* cancelled irq_work; where mac80211 is when it starts the device.
InStop    == {"stop", "stop_scan", "stop_irq", "stop_cancel", "stop_lock", "stopped"}
Aborted   == {"stop_irq", "stop_cancel", "stop_lock", "stopped", "cancel_watchdog"}
Disabled  == {"stop_cancel", "stop_lock", "stopped", "cancel_watchdog"}
Cancelled == {"stop_lock", "stopped", "cancel_watchdog"}
Starting  == {"start", "start_irq", "start_up", "add"}

\* The watchdog or debugfs is at one of these steps; or mac80211 is.
Recovering(steps) == at["watchdog"] \in steps \/ at["debugfs"] \in steps
Someone(steps)    == at["mac80211"] \in steps \/ Recovering(steps)

\* The device is down, as DownIsQuiet takes it.
IsDown == ~macUp /\ at["mac80211"] = "idle"

\* acx_sem is held by whoever is where it must be.
SemIsHeld ==
  /\ at["mac80211"] \in Holding <=> sem = "mac80211"
  /\ at["watchdog"] \in Holding <=> sem = "watchdog"
  /\ at["debugfs"] \in Holding <=> sem = "debugfs"
  /\ irqStep = "unmask" <=> sem = "irq_work"

\* No thread is where only others go.
PlacesAreTheirs ==
  /\ at["mac80211"] \notin {"lock", "recover", "oops", "rearm", "efault"}
  /\ ~Recovering(Starting \cup {"scan", "scan_cmd", "op_stop", "cancel_watchdog"})
  /\ at["debugfs"] \notin {"lock", "rearm"}
  /\ at["mac80211"] # "idle" => macUp
  /\ ~WatchdogEnabled => ~timer /\ at["watchdog"] = "idle"

\* The watchdog and debugfs do not recover at once, nor while mac80211 starts the
\* device; and nobody stops it twice: who has removed the interface is alone.
OneRecovery ==
  /\ at["watchdog"] \in InStop => at["debugfs"] \notin InStop
  /\ restart \/ at["mac80211"] \in Starting => ~Recovering(InStop)
  /\ restart => at["mac80211"] \notin Starting
  /\ \/ restart \/ IsDown \/ Recovering(InStop)
     \/ at["mac80211"] \in Starting \cup InStop \cup {"op_stop", "cancel_watchdog"}
     => ~vif
  /\ IsDown => at["debugfs"] \notin {"stop", "stop_scan", "stop_irq"}

\* What a stop has done lasts until the next start.
StopLasts ==
  /\ IsDown \/ restart \/ Someone(Aborted) => ~SCANNING
  /\ IsDown \/ restart \/ Someone(Disabled) => ~HW_UP /\ ~irqs_active
  /\ (IsDown \/ at["mac80211"] \in Cancelled) /\ (irqQueued \/ irqStep # "idle") => poked
  /\ IsDown => ~timer /\ at["watchdog"] = "idle"

\* Interrupts that are masked have a work to unmask them: InterruptsComeBack, from the
\* step of a start on that precedes it.
MaskIsLifted ==
  (HW_UP \/ at["mac80211"] = "start_up") /\ irqMask = "all" =>
    irqQueued \/ irqStep # "idle" \/ at["mac80211"] = "start_irq"

\* ACX_FLAG_SCANNING and mac80211's scan go together but for the steps in between.
ScanIsOne ==
  /\ SCANNING /\ ~cmdFailed => macScan \/ Someone({"stop_scan"})
  /\ macScan => SCANNING \/ at["mac80211"] = "scan"
  /\ macScan /\ Someone({"stop_scan"}) => at["mac80211"] = "scan"
  /\ at["mac80211"] = "start" => ~macScan
  /\ ~cmdFailed /\ at["mac80211"] = "scan" =>
       macScan /\ (SCANNING => Someone({"stop_scan"}))

\* The inductive invariant, with the types.
LifeIInv ==
  SemIsHeld /\ PlacesAreTheirs /\ OneRecovery /\ StopLasts /\ MaskIsLifted /\ ScanIsOne

\* A step of one thread leaves the others where they are.
LEMMA Moves ==
  ASSUME TypeOK, NEW t \in Threads, NEW from, NEW to, Step(t, from, to)
  PROVE  /\ at[t] = from /\ at'[t] = to
         /\ t # "mac80211" => at'["mac80211"] = at["mac80211"]
         /\ t # "watchdog" => at'["watchdog"] = at["watchdog"]
         /\ t # "debugfs" => at'["debugfs"] = at["debugfs"]
  BY DEF TypeOK, Step, Threads

\* A start resets what a stop has left.
LEMMA StartSteps ==
  ASSUME TypeOK, LifeIInv,
         \/ Open \/ Restart \/ OpStartReset
         \/ OpStartIrqEnable \/ OpStartUp \/ OpAddInterface
  PROVE  LifeIInv'
  <1> USE DEF LifeIInv, SemIsHeld, PlacesAreTheirs, OneRecovery, StopLasts, MaskIsLifted,
              ScanIsOne, Holding, InStop, Aborted, Disabled, Cancelled, Starting, IsDown,
              Recovering, Someone, flags, irq, work, scan, mac, luck, Lock, Unlock
  <1>1. CASE Open
    BY <1>1, Moves DEF Open, Threads, DebugfsIsDone
  <1>2. CASE Restart
    BY <1>2, Moves DEF Restart, Threads, DebugfsIsDone
  <1>3. CASE OpStartReset
    BY <1>3, Moves DEF OpStartReset, Threads
  <1>4. CASE OpStartIrqEnable
    BY <1>4, Moves DEF OpStartIrqEnable, Threads, IrqMask
  <1>5. CASE OpStartUp
    <2>1. timer' <=> timer \/ WatchdogEnabled
      BY <1>5, Zenon DEF OpStartUp
    <2> QED BY <1>5, <2>1, Moves DEF OpStartUp, Threads
  <1>6. CASE OpAddInterface
    BY <1>6, Moves DEF OpAddInterface, Threads
  <1> QED BY <1>1, <1>2, <1>3, <1>4, <1>5, <1>6

\* A scan begins.
LEMMA ScanSteps ==
  ASSUME TypeOK, LifeIInv, ScanRequest \/ OpHwScanRefused \/ OpHwScan \/ OpHwScanCmd
  PROVE  LifeIInv'
  <1> USE DEF LifeIInv, SemIsHeld, PlacesAreTheirs, OneRecovery, StopLasts, MaskIsLifted,
              ScanIsOne, Holding, InStop, Aborted, Disabled, Cancelled, Starting, IsDown,
              Recovering, Someone, flags, irq, work, scan, mac, luck, Lock, Unlock
  <1>1. CASE ScanRequest
    BY <1>1, Moves DEF ScanRequest, Threads
  <1>2. CASE OpHwScanRefused
    BY <1>2, Moves DEF OpHwScanRefused, Threads
  <1>3. CASE OpHwScan
    BY <1>3, Moves DEF OpHwScan, Threads
  <1>4. CASE OpHwScanCmd
    BY <1>4, Moves DEF OpHwScanCmd, Threads
  <1> QED BY <1>1, <1>2, <1>3, <1>4

\* mac80211 takes the device down around acx_stop.
LEMMA DownSteps ==
  ASSUME TypeOK, LifeIInv, OpRemoveInterface \/ OpStop \/ StopWatchdog \/ OpStopEnd
  PROVE  LifeIInv'
  <1> USE DEF LifeIInv, SemIsHeld, PlacesAreTheirs, OneRecovery, StopLasts, MaskIsLifted,
              ScanIsOne, Holding, InStop, Aborted, Disabled, Cancelled, Starting, IsDown,
              Recovering, Someone, flags, irq, work, scan, mac, luck, Lock, Unlock
  <1>1. CASE OpRemoveInterface
    BY <1>1, Moves DEF OpRemoveInterface, Threads
  <1>2. CASE OpStop
    BY <1>2, Moves DEF OpStop, Threads
  <1>3. CASE StopWatchdog
    BY <1>3, Moves DEF StopWatchdog, Threads
  <1>4. CASE OpStopEnd
    <2>1. timer' <=> timer /\ ~WatchdogEnabled
      BY <1>4, Zenon DEF OpStopEnd
    <2> QED BY <1>4, <2>1, Moves DEF OpStopEnd, Threads
  <1> QED BY <1>1, <1>2, <1>3, <1>4

\* acx_stop, whoever calls it.
LEMMA StopSteps ==
  ASSUME TypeOK, LifeIInv, NEW t \in Threads, AcxStop(t)
  PROVE  LifeIInv'
  <1> USE DEF LifeIInv, SemIsHeld, PlacesAreTheirs, OneRecovery, StopLasts, MaskIsLifted,
              ScanIsOne, Holding, InStop, Aborted, Disabled, Cancelled, Starting, IsDown,
              Recovering, Someone, flags, irq, work, scan, mac, luck, Lock, Unlock
  <1>1. CASE AbortScan(t)
    <2>1. macScan' <=> macScan /\ ~SCANNING
      BY <1>1, Zenon DEF AbortScan
    <2> QED BY <1>1, <2>1, Moves DEF AbortScan, Threads
  <1>2. CASE StopScan(t)
    BY <1>2, Moves DEF StopScan, Threads, ScanningAfterStop
  <1>3. CASE StopIrqs(t)
    BY <1>3, Moves DEF StopIrqs, Threads, SemWhileCancelling
  <1>4. CASE CancelIrqWork(t)
    BY <1>4, Moves DEF CancelIrqWork, Threads, QueuedAfterCancel
  <1>5. CASE StopLock(t)
    BY <1>5, Moves DEF StopLock, Threads
  <1> QED BY <1>1, <1>2, <1>3, <1>4, <1>5 DEF AcxStop

\* The watchdog.
LEMMA WatchdogSteps ==
  ASSUME TypeOK, LifeIInv, Watchdog
  PROVE  LifeIInv'
  <1> USE DEF LifeIInv, SemIsHeld, PlacesAreTheirs, OneRecovery, StopLasts, MaskIsLifted,
              ScanIsOne, Holding, InStop, Aborted, Disabled, Cancelled, Starting, IsDown,
              Recovering, Someone, flags, irq, work, scan, mac, luck, Lock, Unlock
  <1>1. CASE WatchdogTick
    BY <1>1, Moves DEF WatchdogTick, Threads
  <1>2. CASE WatchdogLock
    BY <1>2, Moves DEF WatchdogLock, Threads
  <1>3. CASE WatchdogRearm
    BY <1>3, Moves DEF WatchdogRearm, Threads, TimerAfterWork
  <1> QED BY <1>1, <1>2, <1>3 DEF Watchdog

\* A recovery, which stops the device and asks for a restart.
LEMMA RecoverSteps ==
  ASSUME TypeOK, LifeIInv, NEW t \in {"watchdog", "debugfs"}, RecoverHw(t)
  PROVE  LifeIInv'
  <1> USE DEF LifeIInv, SemIsHeld, PlacesAreTheirs, OneRecovery, StopLasts, MaskIsLifted,
              ScanIsOne, Holding, InStop, Aborted, Disabled, Cancelled, Starting, IsDown,
              Recovering, Someone, flags, irq, work, scan, mac, luck, Lock, Unlock
  <1>1. CASE RemoveInterface(t)
    BY <1>1, Moves DEF RemoveInterface, Threads, VifAfterRemoval
  <1>2. CASE AcxStop(t)
    BY <1>2, StopSteps DEF Threads
  <1>3. CASE RestartHw(t)
    BY <1>3, Moves DEF RestartHw, Threads
  <1> QED BY <1>1, <1>2, <1>3 DEF RecoverHw

\* debugfs.
LEMMA DebugfsSteps ==
  ASSUME TypeOK, LifeIInv, Debugfs
  PROVE  LifeIInv'
  <1> USE DEF LifeIInv, SemIsHeld, PlacesAreTheirs, OneRecovery, StopLasts, MaskIsLifted,
              ScanIsOne, Holding, InStop, Aborted, Disabled, Cancelled, Starting, IsDown,
              Recovering, Someone, flags, irq, work, scan, mac, luck, Lock, Unlock
  <1>1. CASE DebugfsTask
    BY <1>1 DEF DebugfsTask
  <1>2. CASE DebugfsRecover
    BY <1>2, Moves DEF DebugfsRecover, Threads
  <1>3. CASE DebugfsFault
    BY <1>3, Moves DEF DebugfsFault, Threads
  <1> QED BY <1>1, <1>2, <1>3 DEF Debugfs

\* The interrupt handler and its work.
LEMMA IrqSteps ==
  ASSUME TypeOK, LifeIInv, AcxInterrupt \/ IrqWork
  PROVE  LifeIInv'
  <1> USE DEF LifeIInv, SemIsHeld, PlacesAreTheirs, OneRecovery, StopLasts, MaskIsLifted,
              ScanIsOne, Holding, InStop, Aborted, Disabled, Cancelled, Starting, IsDown,
              Recovering, Someone, flags, irq, work, scan, mac, luck, Lock, Unlock
  <1>1. CASE AcxInterrupt
    BY <1>1 DEF AcxInterrupt
  <1>2. CASE IrqWorkStart
    BY <1>2 DEF IrqWorkStart
  <1>3. CASE IrqWorkHandle
    BY <1>3 DEF IrqWorkHandle
  <1>4. CASE IrqWorkUnmask
    BY <1>4 DEF IrqWorkUnmask, MaskAfterWork, IrqMask
  <1> QED BY <1>1, <1>2, <1>3, <1>4 DEF IrqWork

\* The firmware, the time, or nothing.
LEMMA OtherSteps ==
  ASSUME TypeOK, LifeIInv, FwScanDone \/ OtherIrq \/ ScanTimeout \/ UNCHANGED vars
  PROVE  LifeIInv'
  <1> USE DEF LifeIInv, SemIsHeld, PlacesAreTheirs, OneRecovery, StopLasts, MaskIsLifted,
              ScanIsOne, Holding, InStop, Aborted, Disabled, Cancelled, Starting, IsDown,
              Recovering, Someone, flags, irq, work, scan, mac, luck, Lock, Unlock
  <1>1. CASE FwScanDone
    BY <1>1 DEF FwScanDone
  <1>2. CASE OtherIrq
    BY <1>2 DEF OtherIrq
  <1>3. CASE ScanTimeout
    BY <1>3 DEF ScanTimeout
  <1>4. CASE UNCHANGED vars
    BY <1>4 DEF vars
  <1> QED BY <1>1, <1>2, <1>3, <1>4

\* It goes where a thread can be.
LEMMA PlacesTyped ==
  ASSUME TypeOK, NEW t \in Threads, NEW from, NEW to \in CallSteps, Step(t, from, to)
  PROVE  at' \in [Threads -> CallSteps]
  BY DEF TypeOK, Step

\* The same for the types: mac80211's calls,
LEMMA Mac80211Types ==
  ASSUME TypeOK,
         Open \/ ScanRequest \/ OpRemoveInterface \/ Mac80211
  PROVE  TypeOK'
  <1> USE DEF TypeOK, flags, irq, work, scan, mac, luck, Lock, Unlock
  <1>1. CASE Open
    BY <1>1, PlacesTyped DEF Open, Threads, CallSteps
  <1>2. CASE Restart
    <2>1. restart' \in BOOLEAN
      BY <1>2, Zenon DEF Restart
    <2> QED BY <1>2, <2>1, PlacesTyped DEF Restart, Threads, CallSteps
  <1>3. CASE OpStartReset
    <2>1. /\ HW_UP' \in BOOLEAN /\ scanComplete' \in BOOLEAN
          /\ otherIrq' \in BOOLEAN /\ poked' \in BOOLEAN
      BY <1>3, Zenon DEF OpStartReset
    <2> QED BY <1>3, <2>1, PlacesTyped DEF OpStartReset, Threads, CallSteps
  <1>4. CASE OpStartIrqEnable
    BY <1>4, PlacesTyped DEF OpStartIrqEnable, Threads, CallSteps, IrqMask
  <1>5. CASE OpStartUp
    BY <1>5, PlacesTyped DEF OpStartUp, Threads, CallSteps
  <1>6. CASE OpAddInterface
    BY <1>6, PlacesTyped DEF OpAddInterface, Threads, CallSteps
  <1>7. CASE ScanRequest
    BY <1>7, PlacesTyped DEF ScanRequest, Threads, CallSteps
  <1>8. CASE OpHwScanRefused
    <2>1. macScan' \in BOOLEAN
      BY <1>8, Zenon DEF OpHwScanRefused
    <2> QED BY <1>8, <2>1, PlacesTyped DEF OpHwScanRefused, Threads, CallSteps
  <1>9. CASE OpHwScan
    <2>1. scanLate' \in BOOLEAN
      BY <1>9, Zenon DEF OpHwScan
    <2> QED BY <1>9, <2>1, PlacesTyped DEF OpHwScan, Threads, CallSteps
  <1>10. CASE OpHwScanCmd
    <2>1. macScan' \in BOOLEAN /\ cmdFailed' \in BOOLEAN
      BY <1>10, Zenon DEF OpHwScanCmd
    <2> QED BY <1>10, <2>1, PlacesTyped DEF OpHwScanCmd, Threads, CallSteps
  <1>11. CASE OpRemoveInterface
    <2>1. vif' \in BOOLEAN
      BY <1>11, Zenon DEF OpRemoveInterface
    <2> QED BY <1>11, <2>1, PlacesTyped DEF OpRemoveInterface, Threads, CallSteps
  <1>12. CASE OpStop
    BY <1>12, PlacesTyped DEF OpStop, Threads, CallSteps
  <1>13. CASE StopWatchdog
    BY <1>13, PlacesTyped DEF StopWatchdog, Threads, CallSteps
  <1>14. CASE OpStopEnd
    <2>1. macUp' \in BOOLEAN
      BY <1>14, Zenon DEF OpStopEnd
    <2> QED BY <1>14, <2>1, PlacesTyped DEF OpStopEnd, Threads, CallSteps
  <1> QED BY <1>1, <1>2, <1>3, <1>4, <1>5, <1>6, <1>7, <1>8, <1>9, <1>10, <1>11, <1>12,
             <1>13, <1>14 DEF Mac80211

\* acx_stop,
LEMMA StopTypes ==
  ASSUME TypeOK, NEW t \in Threads, AcxStop(t)
  PROVE  TypeOK'
  <1> USE DEF TypeOK, flags, irq, work, scan, mac, luck, Lock, Unlock
  <1>1. CASE AbortScan(t)
    <2>1. macScan' \in BOOLEAN
      BY <1>1, Zenon DEF AbortScan
    <2> QED BY <1>1, <2>1, PlacesTyped DEF AbortScan, Threads, CallSteps
  <1>2. CASE StopScan(t)
    <2>1. SCANNING' \in BOOLEAN /\ cmdFailed' \in BOOLEAN
      BY <1>2, Zenon DEF StopScan, ScanningAfterStop
    <2> QED BY <1>2, <2>1, PlacesTyped DEF StopScan, Threads, CallSteps, ScanningAfterStop
  <1>3. CASE StopIrqs(t)
    <2>1. HW_UP' \in BOOLEAN /\ irqs_active' \in BOOLEAN
      BY <1>3, Zenon DEF StopIrqs, SemWhileCancelling
    <2> QED BY <1>3, <2>1, PlacesTyped DEF StopIrqs, Threads, CallSteps, SemWhileCancelling
  <1>4. CASE CancelIrqWork(t)
    <2>1. irqQueued' \in BOOLEAN
      BY <1>4, Zenon DEF CancelIrqWork, QueuedAfterCancel
    <2> QED BY <1>4, <2>1, PlacesTyped DEF CancelIrqWork, Threads, CallSteps,
    QueuedAfterCancel
  <1>5. CASE StopLock(t)
    BY <1>5, PlacesTyped DEF StopLock, Threads, CallSteps
  <1> QED BY <1>1, <1>2, <1>3, <1>4, <1>5 DEF AcxStop

\* the recoveries,
LEMMA RecoverTypes ==
  ASSUME TypeOK, NEW t \in {"watchdog", "debugfs"}, RecoverHw(t)
  PROVE  TypeOK'
  <1> USE DEF TypeOK, flags, irq, work, scan, mac, luck, Lock, Unlock
  <1>1. CASE RemoveInterface(t)
    <2>1. vif' \in BOOLEAN
      BY <1>1, Zenon DEF RemoveInterface, VifAfterRemoval
    <2> QED BY <1>1, <2>1, PlacesTyped DEF RemoveInterface, Threads, CallSteps,
    VifAfterRemoval
  <1>2. CASE AcxStop(t)
    BY <1>2, StopTypes DEF Threads
  <1>3. CASE RestartHw(t)
    BY <1>3, PlacesTyped DEF RestartHw, Threads, CallSteps
  <1> QED BY <1>1, <1>2, <1>3 DEF RecoverHw

\* those who ask for one,
LEMMA WatchdogTypes ==
  ASSUME TypeOK, Watchdog \/ Debugfs
  PROVE  TypeOK'
  <1> USE DEF TypeOK, flags, irq, work, scan, mac, luck, Lock, Unlock
  <1>1. CASE WatchdogTick
    <2>1. timer' \in BOOLEAN
      BY <1>1, Zenon DEF WatchdogTick
    <2> QED BY <1>1, <2>1, PlacesTyped DEF WatchdogTick, Threads, CallSteps
  <1>2. CASE WatchdogLock
    BY <1>2, PlacesTyped DEF WatchdogLock, Threads, CallSteps
  <1>3. CASE WatchdogRearm
    BY <1>3, PlacesTyped DEF WatchdogRearm, Threads, CallSteps, TimerAfterWork
  <1>4. CASE DebugfsTask
    <2>1. irqQueued' \in BOOLEAN /\ poked' \in BOOLEAN
      BY <1>4, Zenon DEF DebugfsTask
    <2> QED BY <1>4, <2>1 DEF DebugfsTask
  <1>5. CASE DebugfsRecover
    BY <1>5, PlacesTyped DEF DebugfsRecover, Threads, CallSteps
  <1>6. CASE DebugfsFault
    BY <1>6, PlacesTyped DEF DebugfsFault, Threads, CallSteps
  <1> QED BY <1>1, <1>2, <1>3, <1>4, <1>5, <1>6 DEF Watchdog, Debugfs

\* and the rest.
LEMMA OtherTypes ==
  ASSUME TypeOK,
         \/ AcxInterrupt \/ IrqWork \/ FwScanDone
         \/ OtherIrq \/ ScanTimeout \/ UNCHANGED vars
  PROVE  TypeOK'
  <1> USE DEF TypeOK, flags, irq, work, scan, mac, luck, Lock, Unlock
  <1>1. CASE AcxInterrupt
    BY <1>1 DEF AcxInterrupt
  <1>2. CASE IrqWorkStart
    <2>1. irqQueued' \in BOOLEAN
      BY <1>2, Zenon DEF IrqWorkStart
    <2> QED BY <1>2, <2>1 DEF IrqWorkStart
  <1>3. CASE IrqWorkHandle
    <2>1. /\ scanComplete' \in BOOLEAN /\ otherIrq' \in BOOLEAN
          /\ macScan' \in BOOLEAN /\ SCANNING' \in BOOLEAN
      BY <1>3, Zenon DEF IrqWorkHandle
    <2> QED BY <1>3, <2>1 DEF IrqWorkHandle
  <1>4. CASE IrqWorkUnmask
    BY <1>4 DEF IrqWorkUnmask, MaskAfterWork, IrqMask
  <1>5. CASE FwScanDone
    BY <1>5 DEF FwScanDone
  <1>6. CASE OtherIrq
    BY <1>6 DEF OtherIrq
  <1>7. CASE ScanTimeout
    BY <1>7 DEF ScanTimeout
  <1>8. CASE UNCHANGED vars
    BY <1>8 DEF vars
  <1> QED BY <1>1, <1>2, <1>3, <1>4, <1>5, <1>6, <1>7, <1>8 DEF IrqWork

\* Before the first start.
LEMMA LifeStarts == Init => TypeOK /\ LifeIInv
  <1> SUFFICES ASSUME Init PROVE TypeOK /\ LifeIInv
    OBVIOUS
  <1>1. at \in [Threads -> CallSteps] /\ \A t \in Threads : at[t] = "idle"
    BY DEF Init, CallSteps
  <1>2. TypeOK
    BY <1>1 DEF Init, TypeOK
  <1>3. at["mac80211"] = "idle" /\ at["watchdog"] = "idle" /\ at["debugfs"] = "idle"
    BY <1>1 DEF Threads
  <1>4. LifeIInv
    BY <1>3 DEF Init, LifeIInv, SemIsHeld, PlacesAreTheirs, OneRecovery, StopLasts,
         MaskIsLifted, ScanIsOne, Holding, InStop, Aborted, Disabled, Cancelled, Starting,
         IsDown, Recovering, Someone
  <1> QED BY <1>2, <1>4

\* LifeIInv is inductive with the types.
LEMMA LifeNext == TypeOK /\ LifeIInv /\ [Next]_vars => (TypeOK /\ LifeIInv)'
  <1> SUFFICES ASSUME TypeOK, LifeIInv, [Next]_vars PROVE TypeOK' /\ LifeIInv'
    OBVIOUS
  <1>1. LifeIInv'
    BY StartSteps, ScanSteps, DownSteps, StopSteps, WatchdogSteps, RecoverSteps,
       DebugfsSteps, IrqSteps, OtherSteps DEF Next, Mac80211, Threads
  <1>2. TypeOK'
    BY Mac80211Types, StopTypes, RecoverTypes, WatchdogTypes, OtherTypes
       DEF Next, Mac80211, Threads
  <1> QED BY <1>1, <1>2

\* The invariant holds of every behaviour, with a watchdog or without.
THEOREM LifeIInvHolds == Spec => [](TypeOK /\ LifeIInv)
  <1> QED BY LifeStarts, LifeNext, PTL DEF Spec

\* Once acx_stop has returned to mac80211, nothing of the driver is active: the hardware
\* is down, no scan, no interrupt, no timer, and a work at most that debugfs has queued.
THEOREM DownAlwaysQuiet == Spec => []DownIsQuiet
  <1>1. TypeOK /\ LifeIInv => DownIsQuiet
    BY DEF LifeIInv, StopLasts, PlacesAreTheirs, IsDown, DownIsQuiet
  <1> QED BY <1>1, LifeIInvHolds, PTL

\* While the hardware is up, masked interrupts have a work on the way to unmask them.
THEOREM InterruptsAlwaysComeBack == Spec => []InterruptsComeBack
  <1>1. LifeIInv => InterruptsComeBack
    BY DEF LifeIInv, MaskIsLifted, InterruptsComeBack
  <1> QED BY <1>1, LifeIInvHolds, PTL

\* A restart finds no interface and no scan left by what came before it.
THEOREM RestartAlwaysFindsNothing == Spec => []RestartFindsNothing
  <1>1. LifeIInv => RestartFindsNothing
    BY DEF LifeIInv, ScanIsOne, OneRecovery, Starting, RestartFindsNothing
  <1> QED BY <1>1, LifeIInvHolds, PTL

\* The driver is scanning only for a scan of mac80211, unless a command has failed.
THEOREM ScanningAlwaysMacs == Spec => []ScanningIsMacs
  <1>1. LifeIInv => ScanningIsMacs
    BY DEF LifeIInv, ScanIsOne, Recovering, Someone, ScanningIsMacs, Threads
  <1> QED BY <1>1, LifeIInvHolds, PTL
-------------------------------------------------------------------------------
(* Binding: the tables of the buses, field by field *)

\* The parts of a concatenation, index by index.
LEMMA ConcatAt ==
  ASSUME NEW s, NEW t, NEW m \in Nat, NEW n \in Nat,
         s = [i \in 1..m |-> s[i]], t = [i \in 1..n |-> t[i]]
  PROVE  /\ Len(s \o t) = m + n /\ DOMAIN (s \o t) = 1..(m + n)
         /\ \A i \in 1..m : (s \o t)[i] = s[i]
         /\ \A i \in 1..n : (s \o t)[m + i] = t[i]
<1> DEFINE S == {s[i] : i \in 1..m} \cup {t[i] : i \in 1..n}
<1>1. s \in [1..m -> S] /\ t \in [1..n -> S]
  OBVIOUS
<1> HIDE DEF S
<1>2. s \in Seq(S) /\ t \in Seq(S)
  BY <1>1, SeqDef
<1>3. Len(s) = m /\ Len(t) = n
  BY <1>1
<1>4. /\ s \o t \in Seq(S) /\ Len(s \o t) = m + n
      /\ \A i \in 1..(m + n) : (s \o t)[i] = IF i <= m THEN s[i] ELSE t[i - m]
  <2>1. s \o t \in Seq(S) /\ Len(s \o t) = Len(s) + Len(t)
    BY <1>2, ConcatProperties
  <2>2. \A i \in 1..(Len(s) + Len(t)) :
          (s \o t)[i] = IF i <= Len(s) THEN s[i] ELSE t[i - Len(s)]
    BY <1>2, ConcatProperties
  <2> QED BY <1>3, <2>1, <2>2
<1>5. DOMAIN (s \o t) = 1..(m + n)
  BY <1>4, LenProperties
<1>6. \A i \in 1..m : i \in 1..(m + n) /\ i <= m
  OBVIOUS
<1>7. \A i \in 1..n : m + i \in 1..(m + n) /\ ~(m + i <= m) /\ (m + i) - m = i
  OBVIOUS
<1>8. \A i \in 1..n : (s \o t)[m + i] = t[i]
  <2> TAKE i \in 1..n
  <2>1. (s \o t)[m + i] = t[(m + i) - m]
    BY <1>4, <1>7
  <2> QED BY <2>1, <1>7
<1> QED BY <1>4, <1>5, <1>6, <1>8

\* What the probe of pci acquires, step by step,
LEMMA PciGets ==
  ASSUME bus = "pci"
  PROVE
    /\ Len(Probe) = 14 /\ DOMAIN Probe = 1..14
    /\ Probe[1].gets = "hw" /\ Probe[2].gets = "mechanics" /\ Probe[3].gets = "pci"
    /\ Probe[4].gets = "" /\ Probe[5].gets = "region1" /\ Probe[6].gets = "region2"
    /\ Probe[7].gets = "iomap1" /\ Probe[8].gets = "iomap2" /\ Probe[9].gets = ""
    /\ Probe[10].gets = "irq" /\ Probe[11].gets = "firmware" /\ Probe[12].gets = "dma"
    /\ Probe[13].gets = "debugfs" /\ Probe[14].gets = "registered"
<1>1. Probe = PciSetup \o PciStart
  BY DEF Probe
<1>2. /\ PciSetup = [i \in 1..9 |-> PciSetup[i]]
      /\ PciStart = [i \in 1..5 |-> PciStart[i]]
  BY DEF PciSetup, PciStart
<1>3. /\ Len(Probe) = 14 /\ DOMAIN Probe = 1..14
      /\ \A i \in 1..9 : Probe[i] = PciSetup[i]
      /\ \A i \in 1..5 : Probe[9 + i] = PciStart[i]
  BY <1>1, <1>2, ConcatAt
<1>4.
    /\ Probe[1] = PciSetup[1] /\ Probe[2] = PciSetup[2] /\ Probe[3] = PciSetup[3]
    /\ Probe[4] = PciSetup[4] /\ Probe[5] = PciSetup[5] /\ Probe[6] = PciSetup[6]
    /\ Probe[7] = PciSetup[7] /\ Probe[8] = PciSetup[8] /\ Probe[9] = PciSetup[9]
    /\ Probe[10] = PciStart[1] /\ Probe[11] = PciStart[2] /\ Probe[12] = PciStart[3]
    /\ Probe[13] = PciStart[4] /\ Probe[14] = PciStart[5]
  BY <1>3
<1>5.
    /\ PciSetup[1].gets = "hw" /\ PciSetup[2].gets = "mechanics" /\ PciSetup[3].gets = "pci"
    /\ PciSetup[4].gets = "" /\ PciSetup[5].gets = "region1" /\ PciSetup[6].gets = "region2"
    /\ PciSetup[7].gets = "iomap1" /\ PciSetup[8].gets = "iomap2" /\ PciSetup[9].gets = ""
  BY DEF PciSetup, Gets
<1>6.
    /\ PciStart[1].gets = "irq" /\ PciStart[2].gets = "firmware" /\ PciStart[3].gets = "dma"
    /\ PciStart[4].gets = "debugfs" /\ PciStart[5].gets = "registered"
  BY DEF PciStart, Gets
<1>7.
    /\ Probe[1].gets = "hw" /\ Probe[2].gets = "mechanics" /\ Probe[3].gets = "pci"
    /\ Probe[4].gets = "" /\ Probe[5].gets = "region1" /\ Probe[6].gets = "region2"
    /\ Probe[7].gets = "iomap1" /\ Probe[8].gets = "iomap2" /\ Probe[9].gets = ""
  BY <1>4, <1>5
<1>8.
    /\ Probe[10].gets = "irq" /\ Probe[11].gets = "firmware" /\ Probe[12].gets = "dma"
    /\ Probe[13].gets = "debugfs" /\ Probe[14].gets = "registered"
  BY <1>4, <1>6
<1> QED BY <1>3, <1>7, <1>8

\* and where it goes when a step fails.
LEMMA PciFails ==
  ASSUME bus = "pci"
  PROVE
    /\ Len(Probe) = 14 /\ DOMAIN Probe = 1..14
    /\ Probe[1].label = "fail_ieee80211_alloc_hw" /\ Probe[2].label = "fail_init_mechanics"
    /\ Probe[3].label = "fail_pci_enable_device" /\ Probe[4].label = "fail_unknown_chiptype"
    /\ Probe[5].label = "fail_request_mem_region1" /\ Probe[6].label = "fail_request_mem_region2"
    /\ Probe[7].label = "fail_iomap1" /\ Probe[8].label = "fail_iomap2"
    /\ Probe[9].label = "fail_no_irq" /\ Probe[10].label = "fail_request_irq"
    /\ Probe[11].label = "fail_load_firmware" /\ Probe[12].label = "fail_reset_on_probe"
    /\ Probe[13].label = "fail_debugfs" /\ Probe[14].label = "fail_ieee80211_register_hw"
<1>1. Probe = PciSetup \o PciStart
  BY DEF Probe
<1>2. /\ PciSetup = [i \in 1..9 |-> PciSetup[i]]
      /\ PciStart = [i \in 1..5 |-> PciStart[i]]
  BY DEF PciSetup, PciStart
<1>3. /\ Len(Probe) = 14 /\ DOMAIN Probe = 1..14
      /\ \A i \in 1..9 : Probe[i] = PciSetup[i]
      /\ \A i \in 1..5 : Probe[9 + i] = PciStart[i]
  BY <1>1, <1>2, ConcatAt
<1>4.
    /\ Probe[1] = PciSetup[1] /\ Probe[2] = PciSetup[2] /\ Probe[3] = PciSetup[3]
    /\ Probe[4] = PciSetup[4] /\ Probe[5] = PciSetup[5] /\ Probe[6] = PciSetup[6]
    /\ Probe[7] = PciSetup[7] /\ Probe[8] = PciSetup[8] /\ Probe[9] = PciSetup[9]
    /\ Probe[10] = PciStart[1] /\ Probe[11] = PciStart[2] /\ Probe[12] = PciStart[3]
    /\ Probe[13] = PciStart[4] /\ Probe[14] = PciStart[5]
  BY <1>3
<1>5.
    /\ PciSetup[1].label = "fail_ieee80211_alloc_hw" /\ PciSetup[2].label = "fail_init_mechanics"
    /\ PciSetup[3].label = "fail_pci_enable_device"
    /\ PciSetup[4].label = "fail_unknown_chiptype"
    /\ PciSetup[5].label = "fail_request_mem_region1"
    /\ PciSetup[6].label = "fail_request_mem_region2" /\ PciSetup[7].label = "fail_iomap1"
    /\ PciSetup[8].label = "fail_iomap2" /\ PciSetup[9].label = "fail_no_irq"
  BY DEF PciSetup, Gets
<1>6.
    /\ PciStart[1].label = "fail_request_irq" /\ PciStart[2].label = "fail_load_firmware"
    /\ PciStart[3].label = "fail_reset_on_probe" /\ PciStart[4].label = "fail_debugfs"
    /\ PciStart[5].label = "fail_ieee80211_register_hw"
  BY DEF PciStart, Gets
<1>7.
    /\ Probe[1].label = "fail_ieee80211_alloc_hw" /\ Probe[2].label = "fail_init_mechanics"
    /\ Probe[3].label = "fail_pci_enable_device" /\ Probe[4].label = "fail_unknown_chiptype"
    /\ Probe[5].label = "fail_request_mem_region1" /\ Probe[6].label = "fail_request_mem_region2"
    /\ Probe[7].label = "fail_iomap1" /\ Probe[8].label = "fail_iomap2"
    /\ Probe[9].label = "fail_no_irq"
  BY <1>4, <1>5
<1>8.
    /\ Probe[10].label = "fail_request_irq" /\ Probe[11].label = "fail_load_firmware"
    /\ Probe[12].label = "fail_reset_on_probe" /\ Probe[13].label = "fail_debugfs"
    /\ Probe[14].label = "fail_ieee80211_register_hw"
  BY <1>4, <1>6
<1> QED BY <1>3, <1>7, <1>8

\* Its error labels,
LEMMA PciLabels ==
  ASSUME bus = "pci"
  PROVE
    /\ Len(Unwind) = 14 /\ DOMAIN Unwind = 1..14
    /\ Unwind[1].label = "fail_ieee80211_register_hw" /\ Unwind[2].label = "fail_debugfs"
    /\ Unwind[3].label = "fail_reset_on_probe" /\ Unwind[4].label = "fail_load_firmware"
    /\ Unwind[5].label = "fail_request_irq" /\ Unwind[6].label = "fail_no_irq"
    /\ Unwind[7].label = "fail_iomap2" /\ Unwind[8].label = "fail_iomap1"
    /\ Unwind[9].label = "fail_request_mem_region2"
    /\ Unwind[10].label = "fail_request_mem_region1"
    /\ Unwind[11].label = "fail_unknown_chiptype" /\ Unwind[12].label = "fail_pci_enable_device"
    /\ Unwind[13].label = "fail_init_mechanics" /\ Unwind[14].label = "fail_ieee80211_alloc_hw"
<1>1. Unwind = PciUnwind
  BY DEF Unwind
<1>2. Len(PciUnwind) = 14 /\ DOMAIN PciUnwind = 1..14
  BY DEF PciUnwind
<1>3.
    /\ PciUnwind[1].label = "fail_ieee80211_register_hw" /\ PciUnwind[2].label = "fail_debugfs"
    /\ PciUnwind[3].label = "fail_reset_on_probe" /\ PciUnwind[4].label = "fail_load_firmware"
    /\ PciUnwind[5].label = "fail_request_irq" /\ PciUnwind[6].label = "fail_no_irq"
    /\ PciUnwind[7].label = "fail_iomap2" /\ PciUnwind[8].label = "fail_iomap1"
    /\ PciUnwind[9].label = "fail_request_mem_region2"
    /\ PciUnwind[10].label = "fail_request_mem_region1"
    /\ PciUnwind[11].label = "fail_unknown_chiptype"
    /\ PciUnwind[12].label = "fail_pci_enable_device"
    /\ PciUnwind[13].label = "fail_init_mechanics"
    /\ PciUnwind[14].label = "fail_ieee80211_alloc_hw"
  BY DEF PciUnwind, Frees, FreesIf
<1> QED BY <1>1, <1>2, <1>3

\* and what is released after each.
LEMMA PciUndoes ==
  ASSUME bus = "pci"
  PROVE
    /\ Len(Unwind) = 14 /\ DOMAIN Unwind = 1..14
    /\ Unwind[1].frees = "registered" /\ Unwind[2].frees = "" /\ Unwind[3].frees = ""
    /\ Unwind[4].frees = "firmware" /\ Unwind[5].frees = "irq" /\ Unwind[6].frees = ""
    /\ Unwind[7].frees = "iomap2" /\ Unwind[8].frees = "iomap1" /\ Unwind[9].frees = "region2"
    /\ Unwind[10].frees = "region1" /\ Unwind[11].frees = "" /\ Unwind[12].frees = "pci"
    /\ Unwind[13].frees = "hw" /\ Unwind[14].frees = ""
<1>1. Unwind = PciUnwind
  BY DEF Unwind
<1>2. Len(PciUnwind) = 14 /\ DOMAIN PciUnwind = 1..14
  BY DEF PciUnwind
<1>3.
    /\ PciUnwind[1].frees = "registered" /\ PciUnwind[2].frees = "" /\ PciUnwind[3].frees = ""
    /\ PciUnwind[4].frees = "firmware" /\ PciUnwind[5].frees = "irq" /\ PciUnwind[6].frees = ""
    /\ PciUnwind[7].frees = "iomap2" /\ PciUnwind[8].frees = "iomap1"
    /\ PciUnwind[9].frees = "region2" /\ PciUnwind[10].frees = "region1"
    /\ PciUnwind[11].frees = "" /\ PciUnwind[12].frees = "pci" /\ PciUnwind[13].frees = "hw"
    /\ PciUnwind[14].frees = ""
  BY DEF PciUnwind, Frees, FreesIf
<1> QED BY <1>1, <1>2, <1>3

\* What its remove function releases,
LEMMA PciFrees ==
  ASSUME bus = "pci"
  PROVE
    /\ Len(Remove) = 12 /\ DOMAIN Remove = 1..12
    /\ Remove[1].frees = "registered" /\ Remove[2].frees = "debugfs"
    /\ Remove[3].frees = "firmware" /\ Remove[4].frees = "irq" /\ Remove[5].frees = "dma"
    /\ Remove[6].frees = "iomap1" /\ Remove[7].frees = "iomap2" /\ Remove[8].frees = "region1"
    /\ Remove[9].frees = "region2" /\ Remove[10].frees = "pci" /\ Remove[11].frees = "mechanics"
    /\ Remove[12].frees = "hw"
<1>1. Remove = PciRemove
  BY DEF Remove
<1>2. Len(PciRemove) = 12 /\ DOMAIN PciRemove = 1..12
  BY DEF PciRemove
<1>3.
    /\ PciRemove[1].frees = "registered" /\ PciRemove[2].frees = "debugfs"
    /\ PciRemove[3].frees = "firmware" /\ PciRemove[4].frees = "irq"
    /\ PciRemove[5].frees = "dma" /\ PciRemove[6].frees = "iomap1"
    /\ PciRemove[7].frees = "iomap2" /\ PciRemove[8].frees = "region1"
    /\ PciRemove[9].frees = "region2" /\ PciRemove[10].frees = "pci"
    /\ PciRemove[11].frees = "mechanics" /\ PciRemove[12].frees = "hw"
  BY DEF PciRemove, Frees, FreesIf
<1> QED BY <1>1, <1>2, <1>3

\* and on which condition.
LEMMA PciIfs ==
  ASSUME bus = "pci"
  PROVE
    /\ Len(Remove) = 12 /\ DOMAIN Remove = 1..12
    /\ Remove[1].if = "always" /\ Remove[2].if = "always" /\ Remove[3].if = "firmware"
    /\ Remove[4].if = "always" /\ Remove[5].if = "dma" /\ Remove[6].if = "iomap1"
    /\ Remove[7].if = "iomap2" /\ Remove[8].if = "always" /\ Remove[9].if = "always"
    /\ Remove[10].if = "always" /\ Remove[11].if = "always" /\ Remove[12].if = "always"
<1>1. Remove = PciRemove
  BY DEF Remove
<1>2. Len(PciRemove) = 12 /\ DOMAIN PciRemove = 1..12
  BY DEF PciRemove
<1>3.
    /\ PciRemove[1].if = "always" /\ PciRemove[2].if = "always" /\ PciRemove[3].if = "firmware"
    /\ PciRemove[4].if = "always" /\ PciRemove[5].if = "dma" /\ PciRemove[6].if = "iomap1"
    /\ PciRemove[7].if = "iomap2" /\ PciRemove[8].if = "always" /\ PciRemove[9].if = "always"
    /\ PciRemove[10].if = "always" /\ PciRemove[11].if = "always" /\ PciRemove[12].if = "always"
  BY DEF PciRemove, Frees, FreesIf
<1> QED BY <1>1, <1>2, <1>3

\* What the probe of vlynq acquires, step by step,
LEMMA VlynqGets ==
  ASSUME bus = "vlynq"
  PROVE
    /\ Len(Probe) = 12 /\ DOMAIN Probe = 1..12
    /\ Probe[1].gets = "hw" /\ Probe[2].gets = "mechanics" /\ Probe[3].gets = "vlynq"
    /\ Probe[4].gets = "" /\ Probe[5].gets = "region1" /\ Probe[6].gets = "iomap1"
    /\ Probe[7].gets = "" /\ Probe[8].gets = "irq" /\ Probe[9].gets = "firmware"
    /\ Probe[10].gets = "dma" /\ Probe[11].gets = "debugfs" /\ Probe[12].gets = "registered"
<1>1. Probe = VlynqSetup \o VlynqStart
  BY DEF Probe
<1>2. /\ VlynqSetup = [i \in 1..7 |-> VlynqSetup[i]]
      /\ VlynqStart = [i \in 1..5 |-> VlynqStart[i]]
  BY DEF VlynqSetup, VlynqStart
<1>3. /\ Len(Probe) = 12 /\ DOMAIN Probe = 1..12
      /\ \A i \in 1..7 : Probe[i] = VlynqSetup[i]
      /\ \A i \in 1..5 : Probe[7 + i] = VlynqStart[i]
  BY <1>1, <1>2, ConcatAt
<1>4.
    /\ Probe[1] = VlynqSetup[1] /\ Probe[2] = VlynqSetup[2] /\ Probe[3] = VlynqSetup[3]
    /\ Probe[4] = VlynqSetup[4] /\ Probe[5] = VlynqSetup[5] /\ Probe[6] = VlynqSetup[6]
    /\ Probe[7] = VlynqSetup[7] /\ Probe[8] = VlynqStart[1] /\ Probe[9] = VlynqStart[2]
    /\ Probe[10] = VlynqStart[3] /\ Probe[11] = VlynqStart[4] /\ Probe[12] = VlynqStart[5]
  BY <1>3
<1>5.
    /\ VlynqSetup[1].gets = "hw" /\ VlynqSetup[2].gets = "mechanics"
    /\ VlynqSetup[3].gets = "vlynq" /\ VlynqSetup[4].gets = "" /\ VlynqSetup[5].gets = "region1"
    /\ VlynqSetup[6].gets = "iomap1" /\ VlynqSetup[7].gets = ""
  BY DEF VlynqSetup, Gets
<1>6.
    /\ VlynqStart[1].gets = "irq" /\ VlynqStart[2].gets = "firmware"
    /\ VlynqStart[3].gets = "dma" /\ VlynqStart[4].gets = "debugfs"
    /\ VlynqStart[5].gets = "registered"
  BY DEF VlynqStart, Gets
<1>7.
    /\ Probe[1].gets = "hw" /\ Probe[2].gets = "mechanics" /\ Probe[3].gets = "vlynq"
    /\ Probe[4].gets = "" /\ Probe[5].gets = "region1" /\ Probe[6].gets = "iomap1"
    /\ Probe[7].gets = ""
  BY <1>4, <1>5
<1>8.
    /\ Probe[8].gets = "irq" /\ Probe[9].gets = "firmware" /\ Probe[10].gets = "dma"
    /\ Probe[11].gets = "debugfs" /\ Probe[12].gets = "registered"
  BY <1>4, <1>6
<1> QED BY <1>3, <1>7, <1>8

\* and where it goes when a step fails.
LEMMA VlynqFails ==
  ASSUME bus = "vlynq"
  PROVE
    /\ Len(Probe) = 12 /\ DOMAIN Probe = 1..12
    /\ Probe[1].label = "fail_vlynq_ieee80211_alloc_hw" /\ Probe[2].label = "fail_init_mechanics"
    /\ Probe[3].label = "fail_vlynq_enable_device" /\ Probe[4].label = "fail_vlynq_ioremap1"
    /\ Probe[5].label = "fail_vlynq_request_mem_region" /\ Probe[6].label = "fail_vlynq_ioremap2"
    /\ Probe[7].label = "fail_vlynq_irq" /\ Probe[8].label = "return"
    /\ Probe[9].label = "fail_load_firmware" /\ Probe[10].label = "fail_reset_on_probe"
    /\ Probe[11].label = "fail_debugfs" /\ Probe[12].label = "fail_vlynq_ieee80211_register_hw"
<1>1. Probe = VlynqSetup \o VlynqStart
  BY DEF Probe
<1>2. /\ VlynqSetup = [i \in 1..7 |-> VlynqSetup[i]]
      /\ VlynqStart = [i \in 1..5 |-> VlynqStart[i]]
  BY DEF VlynqSetup, VlynqStart
<1>3. /\ Len(Probe) = 12 /\ DOMAIN Probe = 1..12
      /\ \A i \in 1..7 : Probe[i] = VlynqSetup[i]
      /\ \A i \in 1..5 : Probe[7 + i] = VlynqStart[i]
  BY <1>1, <1>2, ConcatAt
<1>4.
    /\ Probe[1] = VlynqSetup[1] /\ Probe[2] = VlynqSetup[2] /\ Probe[3] = VlynqSetup[3]
    /\ Probe[4] = VlynqSetup[4] /\ Probe[5] = VlynqSetup[5] /\ Probe[6] = VlynqSetup[6]
    /\ Probe[7] = VlynqSetup[7] /\ Probe[8] = VlynqStart[1] /\ Probe[9] = VlynqStart[2]
    /\ Probe[10] = VlynqStart[3] /\ Probe[11] = VlynqStart[4] /\ Probe[12] = VlynqStart[5]
  BY <1>3
<1>5.
    /\ VlynqSetup[1].label = "fail_vlynq_ieee80211_alloc_hw"
    /\ VlynqSetup[2].label = "fail_init_mechanics"
    /\ VlynqSetup[3].label = "fail_vlynq_enable_device"
    /\ VlynqSetup[4].label = "fail_vlynq_ioremap1"
    /\ VlynqSetup[5].label = "fail_vlynq_request_mem_region"
    /\ VlynqSetup[6].label = "fail_vlynq_ioremap2" /\ VlynqSetup[7].label = "fail_vlynq_irq"
  BY DEF VlynqSetup, Gets
<1>6.
    /\ VlynqStart[1].label = "return" /\ VlynqStart[2].label = "fail_load_firmware"
    /\ VlynqStart[3].label = "fail_reset_on_probe" /\ VlynqStart[4].label = "fail_debugfs"
    /\ VlynqStart[5].label = "fail_vlynq_ieee80211_register_hw"
  BY DEF VlynqStart, Gets
<1>7.
    /\ Probe[1].label = "fail_vlynq_ieee80211_alloc_hw" /\ Probe[2].label = "fail_init_mechanics"
    /\ Probe[3].label = "fail_vlynq_enable_device" /\ Probe[4].label = "fail_vlynq_ioremap1"
    /\ Probe[5].label = "fail_vlynq_request_mem_region" /\ Probe[6].label = "fail_vlynq_ioremap2"
    /\ Probe[7].label = "fail_vlynq_irq"
  BY <1>4, <1>5
<1>8.
    /\ Probe[8].label = "return" /\ Probe[9].label = "fail_load_firmware"
    /\ Probe[10].label = "fail_reset_on_probe" /\ Probe[11].label = "fail_debugfs"
    /\ Probe[12].label = "fail_vlynq_ieee80211_register_hw"
  BY <1>4, <1>6
<1> QED BY <1>3, <1>7, <1>8

\* Its error labels,
LEMMA VlynqLabels ==
  ASSUME bus = "vlynq"
  PROVE
    /\ Len(Unwind) = 11 /\ DOMAIN Unwind = 1..11
    /\ Unwind[1].label = "fail_vlynq_ieee80211_register_hw" /\ Unwind[2].label = "fail_debugfs"
    /\ Unwind[3].label = "fail_reset_on_probe" /\ Unwind[4].label = "fail_load_firmware"
    /\ Unwind[5].label = "fail_vlynq_irq" /\ Unwind[6].label = "fail_vlynq_ioremap2"
    /\ Unwind[7].label = "fail_vlynq_request_mem_region"
    /\ Unwind[8].label = "fail_vlynq_ioremap1" /\ Unwind[9].label = "fail_vlynq_enable_device"
    /\ Unwind[10].label = "fail_init_mechanics"
    /\ Unwind[11].label = "fail_vlynq_ieee80211_alloc_hw"
<1>1. Unwind = VlynqUnwind
  BY DEF Unwind
<1>2. Len(VlynqUnwind) = 11 /\ DOMAIN VlynqUnwind = 1..11
  BY DEF VlynqUnwind
<1>3.
    /\ VlynqUnwind[1].label = "fail_vlynq_ieee80211_register_hw"
    /\ VlynqUnwind[2].label = "fail_debugfs" /\ VlynqUnwind[3].label = "fail_reset_on_probe"
    /\ VlynqUnwind[4].label = "fail_load_firmware" /\ VlynqUnwind[5].label = "fail_vlynq_irq"
    /\ VlynqUnwind[6].label = "fail_vlynq_ioremap2"
    /\ VlynqUnwind[7].label = "fail_vlynq_request_mem_region"
    /\ VlynqUnwind[8].label = "fail_vlynq_ioremap1"
    /\ VlynqUnwind[9].label = "fail_vlynq_enable_device"
    /\ VlynqUnwind[10].label = "fail_init_mechanics"
    /\ VlynqUnwind[11].label = "fail_vlynq_ieee80211_alloc_hw"
  BY DEF VlynqUnwind, Frees, FreesIf
<1> QED BY <1>1, <1>2, <1>3

\* and what is released after each.
LEMMA VlynqUndoes ==
  ASSUME bus = "vlynq"
  PROVE
    /\ Len(Unwind) = 11 /\ DOMAIN Unwind = 1..11
    /\ Unwind[1].frees = "" /\ Unwind[2].frees = "" /\ Unwind[3].frees = ""
    /\ Unwind[4].frees = "firmware" /\ Unwind[5].frees = "iomap1" /\ Unwind[6].frees = "region1"
    /\ Unwind[7].frees = "" /\ Unwind[8].frees = "vlynq" /\ Unwind[9].frees = ""
    /\ Unwind[10].frees = "hw" /\ Unwind[11].frees = ""
<1>1. Unwind = VlynqUnwind
  BY DEF Unwind
<1>2. Len(VlynqUnwind) = 11 /\ DOMAIN VlynqUnwind = 1..11
  BY DEF VlynqUnwind
<1>3.
    /\ VlynqUnwind[1].frees = "" /\ VlynqUnwind[2].frees = "" /\ VlynqUnwind[3].frees = ""
    /\ VlynqUnwind[4].frees = "firmware" /\ VlynqUnwind[5].frees = "iomap1"
    /\ VlynqUnwind[6].frees = "region1" /\ VlynqUnwind[7].frees = ""
    /\ VlynqUnwind[8].frees = "vlynq" /\ VlynqUnwind[9].frees = ""
    /\ VlynqUnwind[10].frees = "hw" /\ VlynqUnwind[11].frees = ""
  BY DEF VlynqUnwind, Frees, FreesIf
<1> QED BY <1>1, <1>2, <1>3

\* What its remove function releases,
LEMMA VlynqFrees ==
  ASSUME bus = "vlynq"
  PROVE
    /\ Len(Remove) = 11 /\ DOMAIN Remove = 1..11
    /\ Remove[1].frees = "registered" /\ Remove[2].frees = "debugfs"
    /\ Remove[3].frees = "firmware" /\ Remove[4].frees = "irq" /\ Remove[5].frees = "dma"
    /\ Remove[6].frees = "iomap1" /\ Remove[7].frees = "iomap2" /\ Remove[8].frees = "region1"
    /\ Remove[9].frees = "vlynq" /\ Remove[10].frees = "mechanics" /\ Remove[11].frees = "hw"
<1>1. Remove = VlynqRemove
  BY DEF Remove
<1>2. Len(VlynqRemove) = 11 /\ DOMAIN VlynqRemove = 1..11
  BY DEF VlynqRemove
<1>3.
    /\ VlynqRemove[1].frees = "registered" /\ VlynqRemove[2].frees = "debugfs"
    /\ VlynqRemove[3].frees = "firmware" /\ VlynqRemove[4].frees = "irq"
    /\ VlynqRemove[5].frees = "dma" /\ VlynqRemove[6].frees = "iomap1"
    /\ VlynqRemove[7].frees = "iomap2" /\ VlynqRemove[8].frees = "region1"
    /\ VlynqRemove[9].frees = "vlynq" /\ VlynqRemove[10].frees = "mechanics"
    /\ VlynqRemove[11].frees = "hw"
  BY DEF VlynqRemove, Frees, FreesIf
<1> QED BY <1>1, <1>2, <1>3

\* and on which condition.
LEMMA VlynqIfs ==
  ASSUME bus = "vlynq"
  PROVE
    /\ Len(Remove) = 11 /\ DOMAIN Remove = 1..11
    /\ Remove[1].if = "always" /\ Remove[2].if = "always" /\ Remove[3].if = "firmware"
    /\ Remove[4].if = "always" /\ Remove[5].if = "dma" /\ Remove[6].if = "iomap1"
    /\ Remove[7].if = "always" /\ Remove[8].if = "always" /\ Remove[9].if = "always"
    /\ Remove[10].if = "always" /\ Remove[11].if = "always"
<1>1. Remove = VlynqRemove
  BY DEF Remove
<1>2. Len(VlynqRemove) = 11 /\ DOMAIN VlynqRemove = 1..11
  BY DEF VlynqRemove
<1>3.
    /\ VlynqRemove[1].if = "always" /\ VlynqRemove[2].if = "always"
    /\ VlynqRemove[3].if = "firmware" /\ VlynqRemove[4].if = "always"
    /\ VlynqRemove[5].if = "dma" /\ VlynqRemove[6].if = "iomap1" /\ VlynqRemove[7].if = "always"
    /\ VlynqRemove[8].if = "always" /\ VlynqRemove[9].if = "always"
    /\ VlynqRemove[10].if = "always" /\ VlynqRemove[11].if = "always"
  BY DEF VlynqRemove, Frees, FreesIf
<1> QED BY <1>1, <1>2, <1>3

\* What the probe of mem acquires, step by step,
LEMMA MemGets ==
  ASSUME bus = "mem"
  PROVE
    /\ Len(Probe) = 10 /\ DOMAIN Probe = 1..10
    /\ Probe[1].gets = "hw" /\ Probe[2].gets = "mechanics" /\ Probe[3].gets = "iomap1"
    /\ Probe[4].gets = "" /\ Probe[5].gets = "" /\ Probe[6].gets = "irq"
    /\ Probe[7].gets = "firmware" /\ Probe[8].gets = "dma" /\ Probe[9].gets = "debugfs"
    /\ Probe[10].gets = "registered"
<1>1. Probe = MemSetup \o MemStart
  BY DEF Probe
<1>2. /\ MemSetup = [i \in 1..5 |-> MemSetup[i]]
      /\ MemStart = [i \in 1..5 |-> MemStart[i]]
  BY DEF MemSetup, MemStart
<1>3. /\ Len(Probe) = 10 /\ DOMAIN Probe = 1..10
      /\ \A i \in 1..5 : Probe[i] = MemSetup[i]
      /\ \A i \in 1..5 : Probe[5 + i] = MemStart[i]
  BY <1>1, <1>2, ConcatAt
<1>4.
    /\ Probe[1] = MemSetup[1] /\ Probe[2] = MemSetup[2] /\ Probe[3] = MemSetup[3]
    /\ Probe[4] = MemSetup[4] /\ Probe[5] = MemSetup[5] /\ Probe[6] = MemStart[1]
    /\ Probe[7] = MemStart[2] /\ Probe[8] = MemStart[3] /\ Probe[9] = MemStart[4]
    /\ Probe[10] = MemStart[5]
  BY <1>3
<1>5.
    /\ MemSetup[1].gets = "hw" /\ MemSetup[2].gets = "mechanics" /\ MemSetup[3].gets = "iomap1"
    /\ MemSetup[4].gets = "" /\ MemSetup[5].gets = ""
  BY DEF MemSetup, Gets
<1>6.
    /\ MemStart[1].gets = "irq" /\ MemStart[2].gets = "firmware" /\ MemStart[3].gets = "dma"
    /\ MemStart[4].gets = "debugfs" /\ MemStart[5].gets = "registered"
  BY DEF MemStart, Gets
<1>7.
    /\ Probe[1].gets = "hw" /\ Probe[2].gets = "mechanics" /\ Probe[3].gets = "iomap1"
    /\ Probe[4].gets = "" /\ Probe[5].gets = ""
  BY <1>4, <1>5
<1>8.
    /\ Probe[6].gets = "irq" /\ Probe[7].gets = "firmware" /\ Probe[8].gets = "dma"
    /\ Probe[9].gets = "debugfs" /\ Probe[10].gets = "registered"
  BY <1>4, <1>6
<1> QED BY <1>3, <1>7, <1>8

\* and where it goes when a step fails.
LEMMA MemFails ==
  ASSUME bus = "mem"
  PROVE
    /\ Len(Probe) = 10 /\ DOMAIN Probe = 1..10
    /\ Probe[1].label = "fail_ieee80211_alloc_hw" /\ Probe[2].label = "fail_init_mechanics"
    /\ Probe[3].label = "fail_ioremap" /\ Probe[4].label = "return"
    /\ Probe[5].label = "fail_request_irq" /\ Probe[6].label = "fail_request_irq"
    /\ Probe[7].label = "fail_load_firmware" /\ Probe[8].label = "fail_reset_on_probe"
    /\ Probe[9].label = "fail_debugfs" /\ Probe[10].label = "fail_ieee80211_register_hw"
<1>1. Probe = MemSetup \o MemStart
  BY DEF Probe
<1>2. /\ MemSetup = [i \in 1..5 |-> MemSetup[i]]
      /\ MemStart = [i \in 1..5 |-> MemStart[i]]
  BY DEF MemSetup, MemStart
<1>3. /\ Len(Probe) = 10 /\ DOMAIN Probe = 1..10
      /\ \A i \in 1..5 : Probe[i] = MemSetup[i]
      /\ \A i \in 1..5 : Probe[5 + i] = MemStart[i]
  BY <1>1, <1>2, ConcatAt
<1>4.
    /\ Probe[1] = MemSetup[1] /\ Probe[2] = MemSetup[2] /\ Probe[3] = MemSetup[3]
    /\ Probe[4] = MemSetup[4] /\ Probe[5] = MemSetup[5] /\ Probe[6] = MemStart[1]
    /\ Probe[7] = MemStart[2] /\ Probe[8] = MemStart[3] /\ Probe[9] = MemStart[4]
    /\ Probe[10] = MemStart[5]
  BY <1>3
<1>5.
    /\ MemSetup[1].label = "fail_ieee80211_alloc_hw" /\ MemSetup[2].label = "fail_init_mechanics"
    /\ MemSetup[3].label = "fail_ioremap" /\ MemSetup[4].label = "return"
    /\ MemSetup[5].label = "fail_request_irq"
  BY DEF MemSetup, Gets
<1>6.
    /\ MemStart[1].label = "fail_request_irq" /\ MemStart[2].label = "fail_load_firmware"
    /\ MemStart[3].label = "fail_reset_on_probe" /\ MemStart[4].label = "fail_debugfs"
    /\ MemStart[5].label = "fail_ieee80211_register_hw"
  BY DEF MemStart, Gets
<1>7.
    /\ Probe[1].label = "fail_ieee80211_alloc_hw" /\ Probe[2].label = "fail_init_mechanics"
    /\ Probe[3].label = "fail_ioremap" /\ Probe[4].label = "return"
    /\ Probe[5].label = "fail_request_irq"
  BY <1>4, <1>5
<1>8.
    /\ Probe[6].label = "fail_request_irq" /\ Probe[7].label = "fail_load_firmware"
    /\ Probe[8].label = "fail_reset_on_probe" /\ Probe[9].label = "fail_debugfs"
    /\ Probe[10].label = "fail_ieee80211_register_hw"
  BY <1>4, <1>6
<1> QED BY <1>3, <1>7, <1>8

\* Its error labels,
LEMMA MemLabels ==
  ASSUME bus = "mem"
  PROVE
    /\ Len(Unwind) = 9 /\ DOMAIN Unwind = 1..9
    /\ Unwind[1].label = "fail_ieee80211_register_hw" /\ Unwind[2].label = "fail_debugfs"
    /\ Unwind[3].label = "fail_reset_on_probe" /\ Unwind[4].label = "fail_load_firmware"
    /\ Unwind[5].label = "fail_request_irq" /\ Unwind[6].label = "fail_ioremap"
    /\ Unwind[7].label = "fail_init_mechanics" /\ Unwind[8].label = "fail_ieee80211_alloc_hw"
    /\ Unwind[9].label = ""
<1>1. Unwind = MemUnwind
  BY DEF Unwind
<1>2. Len(MemUnwind) = 9 /\ DOMAIN MemUnwind = 1..9
  BY DEF MemUnwind
<1>3.
    /\ MemUnwind[1].label = "fail_ieee80211_register_hw" /\ MemUnwind[2].label = "fail_debugfs"
    /\ MemUnwind[3].label = "fail_reset_on_probe" /\ MemUnwind[4].label = "fail_load_firmware"
    /\ MemUnwind[5].label = "fail_request_irq" /\ MemUnwind[6].label = "fail_ioremap"
    /\ MemUnwind[7].label = "fail_init_mechanics"
    /\ MemUnwind[8].label = "fail_ieee80211_alloc_hw" /\ MemUnwind[9].label = ""
  BY DEF MemUnwind, Frees, FreesIf, MemFreeIrq
<1> QED BY <1>1, <1>2, <1>3

\* and what is released after each.
LEMMA MemUndoes ==
  ASSUME bus = "mem"
  PROVE
    /\ Len(Unwind) = 9 /\ DOMAIN Unwind = 1..9
    /\ Unwind[1].frees = "" /\ Unwind[2].frees = "" /\ Unwind[3].frees = ""
    /\ Unwind[4].frees = "firmware" /\ Unwind[5].frees = "irq" /\ Unwind[6].frees = "iomap1"
    /\ Unwind[7].frees = "" /\ Unwind[8].frees = "dma" /\ Unwind[9].frees = "hw"
<1>1. Unwind = MemUnwind
  BY DEF Unwind
<1>2. Len(MemUnwind) = 9 /\ DOMAIN MemUnwind = 1..9
  BY DEF MemUnwind
<1>3.
    /\ MemUnwind[1].frees = "" /\ MemUnwind[2].frees = "" /\ MemUnwind[3].frees = ""
    /\ MemUnwind[4].frees = "firmware" /\ MemUnwind[5].frees = "irq"
    /\ MemUnwind[6].frees = "iomap1" /\ MemUnwind[7].frees = "" /\ MemUnwind[8].frees = "dma"
    /\ MemUnwind[9].frees = "hw"
  BY DEF MemUnwind, Frees, FreesIf, MemFreeIrq
<1> QED BY <1>1, <1>2, <1>3

\* What its remove function releases,
LEMMA MemFrees ==
  ASSUME bus = "mem"
  PROVE
    /\ Len(Remove) = 8 /\ DOMAIN Remove = 1..8
    /\ Remove[1].frees = "registered" /\ Remove[2].frees = "debugfs"
    /\ Remove[3].frees = "firmware" /\ Remove[4].frees = "irq" /\ Remove[5].frees = "dma"
    /\ Remove[6].frees = "iomap1" /\ Remove[7].frees = "mechanics" /\ Remove[8].frees = "hw"
<1>1. Remove = MemRemove
  BY DEF Remove
<1>2. Len(MemRemove) = 8 /\ DOMAIN MemRemove = 1..8
  BY DEF MemRemove
<1>3.
    /\ MemRemove[1].frees = "registered" /\ MemRemove[2].frees = "debugfs"
    /\ MemRemove[3].frees = "firmware" /\ MemRemove[4].frees = "irq"
    /\ MemRemove[5].frees = "dma" /\ MemRemove[6].frees = "iomap1"
    /\ MemRemove[7].frees = "mechanics" /\ MemRemove[8].frees = "hw"
  BY DEF MemRemove, Frees, FreesIf
<1> QED BY <1>1, <1>2, <1>3

\* and on which condition.
LEMMA MemIfs ==
  ASSUME bus = "mem"
  PROVE
    /\ Len(Remove) = 8 /\ DOMAIN Remove = 1..8
    /\ Remove[1].if = "always" /\ Remove[2].if = "always" /\ Remove[3].if = "firmware"
    /\ Remove[4].if = "always" /\ Remove[5].if = "dma" /\ Remove[6].if = "iomap1"
    /\ Remove[7].if = "always" /\ Remove[8].if = "always"
<1>1. Remove = MemRemove
  BY DEF Remove
<1>2. Len(MemRemove) = 8 /\ DOMAIN MemRemove = 1..8
  BY DEF MemRemove
<1>3.
    /\ MemRemove[1].if = "always" /\ MemRemove[2].if = "always" /\ MemRemove[3].if = "firmware"
    /\ MemRemove[4].if = "always" /\ MemRemove[5].if = "dma" /\ MemRemove[6].if = "iomap1"
    /\ MemRemove[7].if = "always" /\ MemRemove[8].if = "always"
  BY DEF MemRemove, Frees, FreesIf
<1> QED BY <1>1, <1>2, <1>3

\* What the probe of usb acquires, step by step,
LEMMA UsbGets ==
  ASSUME bus = "usb"
  PROVE
    /\ Len(Probe) = 9 /\ DOMAIN Probe = 1..9
    /\ Probe[1].gets = "hw" /\ Probe[2].gets = "mechanics" /\ Probe[3].gets = "usb_tx"
    /\ Probe[4].gets = "usb_rx" /\ Probe[5].gets = "rx_urbs" /\ Probe[6].gets = "tx_urbs"
    /\ Probe[7].gets = "" /\ Probe[8].gets = "debugfs" /\ Probe[9].gets = "registered"
<1>1. Probe = UsbSetup \o UsbStart
  BY DEF Probe
<1>2. /\ UsbSetup = [i \in 1..6 |-> UsbSetup[i]]
      /\ UsbStart = [i \in 1..3 |-> UsbStart[i]]
  BY DEF UsbSetup, UsbStart
<1>3. /\ Len(Probe) = 9 /\ DOMAIN Probe = 1..9
      /\ \A i \in 1..6 : Probe[i] = UsbSetup[i]
      /\ \A i \in 1..3 : Probe[6 + i] = UsbStart[i]
  BY <1>1, <1>2, ConcatAt
<1>4.
    /\ Probe[1] = UsbSetup[1] /\ Probe[2] = UsbSetup[2] /\ Probe[3] = UsbSetup[3]
    /\ Probe[4] = UsbSetup[4] /\ Probe[5] = UsbSetup[5] /\ Probe[6] = UsbSetup[6]
    /\ Probe[7] = UsbStart[1] /\ Probe[8] = UsbStart[2] /\ Probe[9] = UsbStart[3]
  BY <1>3
<1>5.
    /\ UsbSetup[1].gets = "hw" /\ UsbSetup[2].gets = "mechanics" /\ UsbSetup[3].gets = "usb_tx"
    /\ UsbSetup[4].gets = "usb_rx" /\ UsbSetup[5].gets = "rx_urbs"
    /\ UsbSetup[6].gets = "tx_urbs"
  BY DEF UsbSetup, Gets
<1>6.
    /\ UsbStart[1].gets = "" /\ UsbStart[2].gets = "debugfs" /\ UsbStart[3].gets = "registered"
  BY DEF UsbStart, Gets
<1>7.
    /\ Probe[1].gets = "hw" /\ Probe[2].gets = "mechanics" /\ Probe[3].gets = "usb_tx"
    /\ Probe[4].gets = "usb_rx" /\ Probe[5].gets = "rx_urbs" /\ Probe[6].gets = "tx_urbs"
  BY <1>4, <1>5
<1>8.
    /\ Probe[7].gets = "" /\ Probe[8].gets = "debugfs" /\ Probe[9].gets = "registered"
  BY <1>4, <1>6
<1> QED BY <1>3, <1>7, <1>8

\* and where it goes when a step fails.
LEMMA UsbFails ==
  ASSUME bus = "usb"
  PROVE
    /\ Len(Probe) = 9 /\ DOMAIN Probe = 1..9
    /\ Probe[1].label = "end_nomem" /\ Probe[2].label = "end_nomem"
    /\ Probe[3].label = "end_nomem" /\ Probe[4].label = "end_nomem"
    /\ Probe[5].label = "end_nomem" /\ Probe[6].label = "end_nomem" /\ Probe[7].label = "return"
    /\ Probe[8].label = "ignored" /\ Probe[9].label = "end_nomem"
<1>1. Probe = UsbSetup \o UsbStart
  BY DEF Probe
<1>2. /\ UsbSetup = [i \in 1..6 |-> UsbSetup[i]]
      /\ UsbStart = [i \in 1..3 |-> UsbStart[i]]
  BY DEF UsbSetup, UsbStart
<1>3. /\ Len(Probe) = 9 /\ DOMAIN Probe = 1..9
      /\ \A i \in 1..6 : Probe[i] = UsbSetup[i]
      /\ \A i \in 1..3 : Probe[6 + i] = UsbStart[i]
  BY <1>1, <1>2, ConcatAt
<1>4.
    /\ Probe[1] = UsbSetup[1] /\ Probe[2] = UsbSetup[2] /\ Probe[3] = UsbSetup[3]
    /\ Probe[4] = UsbSetup[4] /\ Probe[5] = UsbSetup[5] /\ Probe[6] = UsbSetup[6]
    /\ Probe[7] = UsbStart[1] /\ Probe[8] = UsbStart[2] /\ Probe[9] = UsbStart[3]
  BY <1>3
<1>5.
    /\ UsbSetup[1].label = "end_nomem" /\ UsbSetup[2].label = "end_nomem"
    /\ UsbSetup[3].label = "end_nomem" /\ UsbSetup[4].label = "end_nomem"
    /\ UsbSetup[5].label = "end_nomem" /\ UsbSetup[6].label = "end_nomem"
  BY DEF UsbSetup, Gets
<1>6.
    /\ UsbStart[1].label = "return" /\ UsbStart[2].label = "ignored"
    /\ UsbStart[3].label = "end_nomem"
  BY DEF UsbStart, Gets
<1>7.
    /\ Probe[1].label = "end_nomem" /\ Probe[2].label = "end_nomem"
    /\ Probe[3].label = "end_nomem" /\ Probe[4].label = "end_nomem"
    /\ Probe[5].label = "end_nomem" /\ Probe[6].label = "end_nomem"
  BY <1>4, <1>5
<1>8.
    /\ Probe[7].label = "return" /\ Probe[8].label = "ignored" /\ Probe[9].label = "end_nomem"
  BY <1>4, <1>6
<1> QED BY <1>3, <1>7, <1>8

\* Its error labels,
LEMMA UsbLabels ==
  ASSUME bus = "usb"
  PROVE
    /\ Len(Unwind) = 5 /\ DOMAIN Unwind = 1..5
    /\ Unwind[1].label = "end_nomem" /\ Unwind[2].label = "" /\ Unwind[3].label = ""
    /\ Unwind[4].label = "" /\ Unwind[5].label = ""
<1>1. Unwind = UsbUnwind
  BY DEF Unwind
<1>2. Len(UsbUnwind) = 5 /\ DOMAIN UsbUnwind = 1..5
  BY DEF UsbUnwind
<1>3.
    /\ UsbUnwind[1].label = "end_nomem" /\ UsbUnwind[2].label = "" /\ UsbUnwind[3].label = ""
    /\ UsbUnwind[4].label = "" /\ UsbUnwind[5].label = ""
  BY DEF UsbUnwind, Frees, FreesIf
<1> QED BY <1>1, <1>2, <1>3

\* and what is released after each.
LEMMA UsbUndoes ==
  ASSUME bus = "usb"
  PROVE
    /\ Len(Unwind) = 5 /\ DOMAIN Unwind = 1..5
    /\ Unwind[1].frees = "rx_urbs" /\ Unwind[2].frees = "usb_rx" /\ Unwind[3].frees = "tx_urbs"
    /\ Unwind[4].frees = "usb_tx" /\ Unwind[5].frees = "hw"
<1>1. Unwind = UsbUnwind
  BY DEF Unwind
<1>2. Len(UsbUnwind) = 5 /\ DOMAIN UsbUnwind = 1..5
  BY DEF UsbUnwind
<1>3.
    /\ UsbUnwind[1].frees = "rx_urbs" /\ UsbUnwind[2].frees = "usb_rx"
    /\ UsbUnwind[3].frees = "tx_urbs" /\ UsbUnwind[4].frees = "usb_tx"
    /\ UsbUnwind[5].frees = "hw"
  BY DEF UsbUnwind, Frees, FreesIf
<1> QED BY <1>1, <1>2, <1>3

\* What its remove function releases,
LEMMA UsbFrees ==
  ASSUME bus = "usb"
  PROVE
    /\ Len(Remove) = 8 /\ DOMAIN Remove = 1..8
    /\ Remove[1].frees = "registered" /\ Remove[2].frees = "debugfs"
    /\ Remove[3].frees = "rx_urbs" /\ Remove[4].frees = "tx_urbs" /\ Remove[5].frees = "usb_rx"
    /\ Remove[6].frees = "usb_tx" /\ Remove[7].frees = "mechanics" /\ Remove[8].frees = "hw"
<1>1. Remove = UsbDisconnect
  BY DEF Remove
<1>2. Len(UsbDisconnect) = 8 /\ DOMAIN UsbDisconnect = 1..8
  BY DEF UsbDisconnect
<1>3.
    /\ UsbDisconnect[1].frees = "registered" /\ UsbDisconnect[2].frees = "debugfs"
    /\ UsbDisconnect[3].frees = "rx_urbs" /\ UsbDisconnect[4].frees = "tx_urbs"
    /\ UsbDisconnect[5].frees = "usb_rx" /\ UsbDisconnect[6].frees = "usb_tx"
    /\ UsbDisconnect[7].frees = "mechanics" /\ UsbDisconnect[8].frees = "hw"
  BY DEF UsbDisconnect, Frees, FreesIf, UsbFreeMechanics
<1> QED BY <1>1, <1>2, <1>3

\* and on which condition.
LEMMA UsbIfs ==
  ASSUME bus = "usb"
  PROVE
    /\ Len(Remove) = 8 /\ DOMAIN Remove = 1..8
    /\ Remove[1].if = "always" /\ Remove[2].if = "debugfs" /\ Remove[3].if = "always"
    /\ Remove[4].if = "always" /\ Remove[5].if = "always" /\ Remove[6].if = "always"
    /\ Remove[7].if = "always" /\ Remove[8].if = "always"
<1>1. Remove = UsbDisconnect
  BY DEF Remove
<1>2. Len(UsbDisconnect) = 8 /\ DOMAIN UsbDisconnect = 1..8
  BY DEF UsbDisconnect
<1>3.
    /\ UsbDisconnect[1].if = "always" /\ UsbDisconnect[2].if = "debugfs"
    /\ UsbDisconnect[3].if = "always" /\ UsbDisconnect[4].if = "always"
    /\ UsbDisconnect[5].if = "always" /\ UsbDisconnect[6].if = "always"
    /\ UsbDisconnect[7].if = "always" /\ UsbDisconnect[8].if = "always"
  BY DEF UsbDisconnect, Frees, FreesIf, UsbFreeMechanics
<1> QED BY <1>1, <1>2, <1>3

\* The numbers up to 5.
LEMMA Upto5 ==
  ASSUME NEW i \in 1..5
  PROVE
    i = 1 \/ i = 2 \/ i = 3 \/ i = 4 \/ i = 5
  OBVIOUS

\* The numbers up to 8.
LEMMA Upto8 ==
  ASSUME NEW i \in 1..8
  PROVE
    i = 1 \/ i = 2 \/ i = 3 \/ i = 4 \/ i = 5 \/ i = 6 \/ i = 7 \/ i = 8
  OBVIOUS

\* The numbers up to 9.
LEMMA Upto9 ==
  ASSUME NEW i \in 1..9
  PROVE
    i = 1 \/ i = 2 \/ i = 3 \/ i = 4 \/ i = 5 \/ i = 6 \/ i = 7 \/ i = 8 \/ i = 9
  OBVIOUS

\* The numbers up to 10.
LEMMA Upto10 ==
  ASSUME NEW i \in 1..10
  PROVE
    i = 1 \/ i = 2 \/ i = 3 \/ i = 4 \/ i = 5 \/ i = 6 \/ i = 7 \/ i = 8 \/ i = 9 \/ i = 10
  OBVIOUS

\* The numbers up to 11.
LEMMA Upto11 ==
  ASSUME NEW i \in 1..11
  PROVE
    i = 1 \/ i = 2 \/ i = 3 \/ i = 4 \/ i = 5 \/ i = 6 \/ i = 7 \/ i = 8 \/ i = 9 \/ i = 10
    \/ i = 11
  OBVIOUS

\* The numbers up to 12.
LEMMA Upto12 ==
  ASSUME NEW i \in 1..12
  PROVE
    i = 1 \/ i = 2 \/ i = 3 \/ i = 4 \/ i = 5 \/ i = 6 \/ i = 7 \/ i = 8 \/ i = 9 \/ i = 10
    \/ i = 11 \/ i = 12
  OBVIOUS

\* The numbers up to 14.
LEMMA Upto14 ==
  ASSUME NEW i \in 1..14
  PROVE
    i = 1 \/ i = 2 \/ i = 3 \/ i = 4 \/ i = 5 \/ i = 6 \/ i = 7 \/ i = 8 \/ i = 9 \/ i = 10
    \/ i = 11 \/ i = 12 \/ i = 13 \/ i = 14
  OBVIOUS
-------------------------------------------------------------------------------
(* The invariant of probe, removal, suspend and resume *)

\* What runs needs, from its first step to its last.
Registers == {"hw", "mechanics", "iomap1"}
Needed == IF bus = "usb" THEN {"hw", "mechanics", "rx_urbs", "tx_urbs"}
          ELSE Registers \cup {"irq"}

\* A probe holds what its steps so far have acquired, but for the debugfs of USB, which
\* may have failed.
ProbeHolds ==
  phase = "probe" =>
    /\ \A j \in 1..(pc - 1) : Probe[j].gets \in held \cup {"", "debugfs"}
    /\ \A r \in held : \E j \in 1..(pc - 1) : Probe[j].gets = r

\* A probe that fails has not registered, and the interrupt it has requested is freed
\* before what its handler uses.
UnwindHolds ==
  /\ phase \in {"none", "unwind", "failed", "removed"} => "registered" \notin held
  /\ phase \in {"none", "failed", "removed"} /\ bus # "vlynq" => "irq" \notin held
  /\ bus = "usb" => "irq" \notin held
  /\ phase = "unwind" /\ bus # "vlynq" /\ "irq" \in held => pc <= 5 /\ Registers \subseteq held
  /\ phase = "none" => held = {}

\* A bound device holds what it needs and nothing that its removal forgets.
BoundHolds ==
  phase \in {"bound", "suspend", "suspended"} =>
    /\ Needed \subseteq held
    /\ \A r \in held : \E j \in DOMAIN Remove : Remove[j].frees = r
    /\ "registered" \in held /\ bus # "usb" => "dma" \in held
    /\ phase = "suspended" => "registered" \notin held /\ "dma" \notin held /\ bus = "pci"
    /\ phase = "suspend" => bus = "pci"

\* A removal still holds only what its steps to come release.
RemoveHolds ==
  /\ phase = "remove" =>
       /\ \A r \in held : \E j \in pc..Len(Remove) : Remove[j].frees = r
       /\ "irq" \in held /\ bus # "usb" => Registers \subseteq held
       /\ "registered" \in held => Needed \subseteq held /\ (bus # "usb" => "dma" \in held)
  /\ phase = "removed" => held = {}

BindingIInv ==
  /\ BindingTypeOK /\ ProbeHolds /\ UnwindHolds /\ BoundHolds /\ RemoveHolds
-------------------------------------------------------------------------------
(* What is in the tables *)

\* The hardware is registered by the last step of a probe, and by no other.
LEMMA ProbeFacts ==
  ASSUME bus \in {"pci", "vlynq", "mem", "usb"}
  PROVE  /\ Len(Probe) \in Nat /\ Len(Probe) > 1 /\ DOMAIN Probe = 1..Len(Probe)
         /\ Probe[Len(Probe)].gets = "registered"
         /\ \A i \in 1..Len(Probe) : Probe[i].gets = "registered" => i = Len(Probe)
<1>1. CASE bus = "pci"
  <2>1. Len(Probe) = 14 /\ DOMAIN Probe = 1..14
    BY <1>1, PciGets
  <2>2. Probe[14].gets = "registered"
    BY <1>1, PciGets
  <2>3. \A i \in 1..14 : Probe[i].gets = "registered" => i = 14
    BY <1>1, PciGets, Upto14
  <2> QED
    BY <1>1, <2>1, <2>2, <2>3
<1>2. CASE bus = "vlynq"
  <2>1. Len(Probe) = 12 /\ DOMAIN Probe = 1..12
    BY <1>2, VlynqGets
  <2>2. Probe[12].gets = "registered"
    BY <1>2, VlynqGets
  <2>3. \A i \in 1..12 : Probe[i].gets = "registered" => i = 12
    BY <1>2, VlynqGets, Upto12
  <2> QED
    BY <1>2, <2>1, <2>2, <2>3
<1>3. CASE bus = "mem"
  <2>1. Len(Probe) = 10 /\ DOMAIN Probe = 1..10
    BY <1>3, MemGets
  <2>2. Probe[10].gets = "registered"
    BY <1>3, MemGets
  <2>3. \A i \in 1..10 : Probe[i].gets = "registered" => i = 10
    BY <1>3, MemGets, Upto10
  <2> QED
    BY <1>3, <2>1, <2>2, <2>3
<1>4. CASE bus = "usb"
  <2>1. Len(Probe) = 9 /\ DOMAIN Probe = 1..9
    BY <1>4, UsbGets
  <2>2. Probe[9].gets = "registered"
    BY <1>4, UsbGets
  <2>3. \A i \in 1..9 : Probe[i].gets = "registered" => i = 9
    BY <1>4, UsbGets, Upto9
  <2> QED
    BY <1>4, <2>1, <2>2, <2>3
<1> QED
  BY <1>1, <1>2, <1>3, <1>4

\* The steps of a probe acquire resources of the model,
LEMMA ProbeResources ==
  ASSUME bus \in {"pci", "vlynq", "mem", "usb"}
  PROVE  \A i \in 1..Len(Probe) : Probe[i].gets \in Resources \cup {""}
<1>1. CASE bus = "pci"
  <2>1. Len(Probe) = 14
    BY <1>1, PciGets
  <2>2. \A i \in 1..14 : Probe[i].gets \in Resources \cup {""}
    BY <1>1, PciGets, Upto14 DEF Resources
  <2> QED
    BY <1>1, <2>1, <2>2
<1>2. CASE bus = "vlynq"
  <2>1. Len(Probe) = 12
    BY <1>2, VlynqGets
  <2>2. \A i \in 1..12 : Probe[i].gets \in Resources \cup {""}
    BY <1>2, VlynqGets, Upto12 DEF Resources
  <2> QED
    BY <1>2, <2>1, <2>2
<1>3. CASE bus = "mem"
  <2>1. Len(Probe) = 10
    BY <1>3, MemGets
  <2>2. \A i \in 1..10 : Probe[i].gets \in Resources \cup {""}
    BY <1>3, MemGets, Upto10 DEF Resources
  <2> QED
    BY <1>3, <2>1, <2>2
<1>4. CASE bus = "usb"
  <2>1. Len(Probe) = 9
    BY <1>4, UsbGets
  <2>2. \A i \in 1..9 : Probe[i].gets \in Resources \cup {""}
    BY <1>4, UsbGets, Upto9 DEF Resources
  <2> QED
    BY <1>4, <2>1, <2>2
<1> QED
  BY <1>1, <1>2, <1>3, <1>4

\* all of which the remove function releases.
LEMMA AllIsReleased ==
  ASSUME bus \in {"pci", "vlynq", "mem", "usb"}
  PROVE  \A i \in 1..Len(Probe) :
           Probe[i].gets = "" \/ \E j \in DOMAIN Remove : Remove[j].frees = Probe[i].gets
<1>1. CASE bus = "pci"
  <2>1. Len(Probe) = 14 /\ DOMAIN Remove = 1..12
    BY <1>1, PciGets, PciFrees
  <2>2. \A i \in 1..14 : Probe[i].gets \in
           {"", "debugfs", "dma", "firmware", "hw", "iomap1", "iomap2", "irq", "mechanics",
            "pci", "region1", "region2", "registered"}
    BY <1>1, PciGets, Upto14
  <2>3. \A r \in {"debugfs", "dma", "firmware", "hw", "iomap1", "iomap2", "irq", "mechanics",
                     "pci", "region1", "region2", "registered"} :
         \E j \in 1..12 : Remove[j].frees = r
    <3>1.
      /\ Remove[1].frees = "registered" /\ Remove[2].frees = "debugfs"
      /\ Remove[3].frees = "firmware" /\ Remove[4].frees = "irq" /\ Remove[5].frees = "dma"
      /\ Remove[6].frees = "iomap1" /\ Remove[7].frees = "iomap2" /\ Remove[8].frees = "region1"
      /\ Remove[9].frees = "region2" /\ Remove[10].frees = "pci"
      /\ Remove[11].frees = "mechanics" /\ Remove[12].frees = "hw"
      BY <1>1, PciFrees
    <3>2.
      /\ 1 \in 1..12 /\ 2 \in 1..12 /\ 3 \in 1..12 /\ 4 \in 1..12 /\ 5 \in 1..12 /\ 6 \in 1..12
      /\ 7 \in 1..12 /\ 8 \in 1..12 /\ 9 \in 1..12 /\ 10 \in 1..12 /\ 11 \in 1..12
      /\ 12 \in 1..12
      OBVIOUS
    <3> QED
      BY <3>1, <3>2
  <2>4. \A i \in 1..14 :
         Probe[i].gets = "" \/ \E j \in 1..12 : Remove[j].frees = Probe[i].gets
    <3> TAKE i \in 1..14
    <3>1. Probe[i].gets = "" \/ Probe[i].gets \in
           {"debugfs", "dma", "firmware", "hw", "iomap1", "iomap2", "irq", "mechanics", "pci",
            "region1", "region2", "registered"}
      BY <2>2
    <3> QED
      BY <3>1, <2>3, Zenon
  <2> QED
    BY <1>1, <2>1, <2>4, Zenon
<1>2. CASE bus = "vlynq"
  <2>1. Len(Probe) = 12 /\ DOMAIN Remove = 1..11
    BY <1>2, VlynqGets, VlynqFrees
  <2>2. \A i \in 1..12 : Probe[i].gets \in
           {"", "debugfs", "dma", "firmware", "hw", "iomap1", "irq", "mechanics", "region1",
            "registered", "vlynq"}
    BY <1>2, VlynqGets, Upto12
  <2>3. \A r \in {"debugfs", "dma", "firmware", "hw", "iomap1", "irq", "mechanics",
                     "region1", "registered", "vlynq"} :
         \E j \in 1..11 : Remove[j].frees = r
    <3>1.
      /\ Remove[1].frees = "registered" /\ Remove[2].frees = "debugfs"
      /\ Remove[3].frees = "firmware" /\ Remove[4].frees = "irq" /\ Remove[5].frees = "dma"
      /\ Remove[6].frees = "iomap1" /\ Remove[8].frees = "region1" /\ Remove[9].frees = "vlynq"
      /\ Remove[10].frees = "mechanics" /\ Remove[11].frees = "hw"
      BY <1>2, VlynqFrees
    <3>2.
      /\ 1 \in 1..11 /\ 2 \in 1..11 /\ 3 \in 1..11 /\ 4 \in 1..11 /\ 5 \in 1..11 /\ 6 \in 1..11
      /\ 8 \in 1..11 /\ 9 \in 1..11 /\ 10 \in 1..11 /\ 11 \in 1..11
      OBVIOUS
    <3> QED
      BY <3>1, <3>2
  <2>4. \A i \in 1..12 :
         Probe[i].gets = "" \/ \E j \in 1..11 : Remove[j].frees = Probe[i].gets
    <3> TAKE i \in 1..12
    <3>1. Probe[i].gets = "" \/ Probe[i].gets \in
           {"debugfs", "dma", "firmware", "hw", "iomap1", "irq", "mechanics", "region1",
            "registered", "vlynq"}
      BY <2>2
    <3> QED
      BY <3>1, <2>3, Zenon
  <2> QED
    BY <1>2, <2>1, <2>4, Zenon
<1>3. CASE bus = "mem"
  <2>1. Len(Probe) = 10 /\ DOMAIN Remove = 1..8
    BY <1>3, MemGets, MemFrees
  <2>2. \A i \in 1..10 : Probe[i].gets \in
           {"", "debugfs", "dma", "firmware", "hw", "iomap1", "irq", "mechanics", "registered"}
    BY <1>3, MemGets, Upto10
  <2>3. \A r \in {"debugfs", "dma", "firmware", "hw", "iomap1", "irq", "mechanics",
                     "registered"} :
         \E j \in 1..8 : Remove[j].frees = r
    <3>1.
      /\ Remove[1].frees = "registered" /\ Remove[2].frees = "debugfs"
      /\ Remove[3].frees = "firmware" /\ Remove[4].frees = "irq" /\ Remove[5].frees = "dma"
      /\ Remove[6].frees = "iomap1" /\ Remove[7].frees = "mechanics" /\ Remove[8].frees = "hw"
      BY <1>3, MemFrees
    <3>2.
      /\ 1 \in 1..8 /\ 2 \in 1..8 /\ 3 \in 1..8 /\ 4 \in 1..8 /\ 5 \in 1..8 /\ 6 \in 1..8
      /\ 7 \in 1..8 /\ 8 \in 1..8
      OBVIOUS
    <3> QED
      BY <3>1, <3>2
  <2>4. \A i \in 1..10 :
         Probe[i].gets = "" \/ \E j \in 1..8 : Remove[j].frees = Probe[i].gets
    <3> TAKE i \in 1..10
    <3>1. Probe[i].gets = "" \/ Probe[i].gets \in
           {"debugfs", "dma", "firmware", "hw", "iomap1", "irq", "mechanics", "registered"}
      BY <2>2
    <3> QED
      BY <3>1, <2>3, Zenon
  <2> QED
    BY <1>3, <2>1, <2>4, Zenon
<1>4. CASE bus = "usb"
  <2>1. Len(Probe) = 9 /\ DOMAIN Remove = 1..8
    BY <1>4, UsbGets, UsbFrees
  <2>2. \A i \in 1..9 : Probe[i].gets \in
           {"", "debugfs", "hw", "mechanics", "registered", "rx_urbs", "tx_urbs", "usb_rx",
            "usb_tx"}
    BY <1>4, UsbGets, Upto9
  <2>3. \A r \in {"debugfs", "hw", "mechanics", "registered", "rx_urbs", "tx_urbs", "usb_rx",
                     "usb_tx"} :
         \E j \in 1..8 : Remove[j].frees = r
    <3>1.
      /\ Remove[1].frees = "registered" /\ Remove[2].frees = "debugfs"
      /\ Remove[3].frees = "rx_urbs" /\ Remove[4].frees = "tx_urbs" /\ Remove[5].frees = "usb_rx"
      /\ Remove[6].frees = "usb_tx" /\ Remove[7].frees = "mechanics" /\ Remove[8].frees = "hw"
      BY <1>4, UsbFrees
    <3>2.
      /\ 1 \in 1..8 /\ 2 \in 1..8 /\ 3 \in 1..8 /\ 4 \in 1..8 /\ 5 \in 1..8 /\ 6 \in 1..8
      /\ 7 \in 1..8 /\ 8 \in 1..8
      OBVIOUS
    <3> QED
      BY <3>1, <3>2
  <2>4. \A i \in 1..9 :
         Probe[i].gets = "" \/ \E j \in 1..8 : Remove[j].frees = Probe[i].gets
    <3> TAKE i \in 1..9
    <3>1. Probe[i].gets = "" \/ Probe[i].gets \in
           {"debugfs", "hw", "mechanics", "registered", "rx_urbs", "tx_urbs", "usb_rx",
            "usb_tx"}
      BY <2>2
    <3> QED
      BY <3>1, <2>3, Zenon
  <2> QED
    BY <1>4, <2>1, <2>4, Zenon
<1> QED
  BY <1>1, <1>2, <1>3, <1>4

\* What a bound device needs is acquired before the registration,
LEMMA NeededIsAcquired ==
  ASSUME bus \in {"pci", "vlynq", "mem", "usb"}
  PROVE  /\ \A r \in Needed : \E j \in 1..(Len(Probe) - 1) : Probe[j].gets = r
         /\ bus # "usb" => \E j \in 1..(Len(Probe) - 1) : Probe[j].gets = "dma"
<1>1. CASE bus = "pci"
  <2>1. Len(Probe) = 14
    BY <1>1, PciGets
  <2>2. Len(Probe) - 1 = 13
    BY <2>1
  <2>3. \A r \in {"dma", "hw", "iomap1", "irq", "mechanics"} :
         \E j \in 1..13 : Probe[j].gets = r
    <3>1.
      /\ Probe[1].gets = "hw" /\ Probe[2].gets = "mechanics" /\ Probe[7].gets = "iomap1"
      /\ Probe[10].gets = "irq" /\ Probe[12].gets = "dma"
      BY <1>1, PciGets
    <3>2.
      /\ 1 \in 1..13 /\ 2 \in 1..13 /\ 7 \in 1..13 /\ 10 \in 1..13 /\ 12 \in 1..13
      OBVIOUS
    <3> QED
      BY <3>1, <3>2
  <2>4. Needed = {"hw", "iomap1", "irq", "mechanics"}
    BY <1>1 DEF Needed, Registers
  <2> QED
    BY <1>1, <2>1, <2>2, <2>3, <2>4
<1>2. CASE bus = "vlynq"
  <2>1. Len(Probe) = 12
    BY <1>2, VlynqGets
  <2>2. Len(Probe) - 1 = 11
    BY <2>1
  <2>3. \A r \in {"dma", "hw", "iomap1", "irq", "mechanics"} :
         \E j \in 1..11 : Probe[j].gets = r
    <3>1.
      /\ Probe[1].gets = "hw" /\ Probe[2].gets = "mechanics" /\ Probe[6].gets = "iomap1"
      /\ Probe[8].gets = "irq" /\ Probe[10].gets = "dma"
      BY <1>2, VlynqGets
    <3>2.
      /\ 1 \in 1..11 /\ 2 \in 1..11 /\ 6 \in 1..11 /\ 8 \in 1..11 /\ 10 \in 1..11
      OBVIOUS
    <3> QED
      BY <3>1, <3>2
  <2>4. Needed = {"hw", "iomap1", "irq", "mechanics"}
    BY <1>2 DEF Needed, Registers
  <2> QED
    BY <1>2, <2>1, <2>2, <2>3, <2>4
<1>3. CASE bus = "mem"
  <2>1. Len(Probe) = 10
    BY <1>3, MemGets
  <2>2. Len(Probe) - 1 = 9
    BY <2>1
  <2>3. \A r \in {"dma", "hw", "iomap1", "irq", "mechanics"} :
         \E j \in 1..9 : Probe[j].gets = r
    <3>1.
      /\ Probe[1].gets = "hw" /\ Probe[2].gets = "mechanics" /\ Probe[3].gets = "iomap1"
      /\ Probe[6].gets = "irq" /\ Probe[8].gets = "dma"
      BY <1>3, MemGets
    <3>2.
      /\ 1 \in 1..9 /\ 2 \in 1..9 /\ 3 \in 1..9 /\ 6 \in 1..9 /\ 8 \in 1..9
      OBVIOUS
    <3> QED
      BY <3>1, <3>2
  <2>4. Needed = {"hw", "iomap1", "irq", "mechanics"}
    BY <1>3 DEF Needed, Registers
  <2> QED
    BY <1>3, <2>1, <2>2, <2>3, <2>4
<1>4. CASE bus = "usb"
  <2>1. Len(Probe) = 9
    BY <1>4, UsbGets
  <2>2. Len(Probe) - 1 = 8
    BY <2>1
  <2>3. \A r \in {"hw", "mechanics", "rx_urbs", "tx_urbs"} :
         \E j \in 1..8 : Probe[j].gets = r
    <3>1.
      /\ Probe[1].gets = "hw" /\ Probe[2].gets = "mechanics" /\ Probe[5].gets = "rx_urbs"
      /\ Probe[6].gets = "tx_urbs"
      BY <1>4, UsbGets
    <3>2.
      /\ 1 \in 1..8 /\ 2 \in 1..8 /\ 5 \in 1..8 /\ 6 \in 1..8
      OBVIOUS
    <3> QED
      BY <3>1, <3>2
  <2>4. Needed = {"hw", "mechanics", "rx_urbs", "tx_urbs"}
    BY <1>4 DEF Needed
  <2> QED
    BY <1>4, <2>1, <2>2, <2>3, <2>4
<1> QED
  BY <1>1, <1>2, <1>3, <1>4

\* and the interrupt, if any, after what its handler uses.
LEMMA IrqComesLate ==
  ASSUME bus \in {"pci", "vlynq", "mem", "usb"}
  PROVE  \A i \in 1..Len(Probe) : Probe[i].gets = "irq" =>
           bus # "usb" /\ \A r \in Registers : \E j \in 1..(i - 1) : Probe[j].gets = r
<1>1. CASE bus = "pci"
  <2>1. Len(Probe) = 14
    BY <1>1, PciGets
  <2>2. \A i \in 1..14 : Probe[i].gets = "irq" => i = 10
    BY <1>1, PciGets, Upto14
  <2>3. 10 - 1 = 9
    OBVIOUS
  <2>4. \A r \in {"hw", "iomap1", "mechanics"} :
         \E j \in 1..9 : Probe[j].gets = r
    <3>1.
      /\ Probe[1].gets = "hw" /\ Probe[2].gets = "mechanics" /\ Probe[7].gets = "iomap1"
      BY <1>1, PciGets
    <3>2.
      /\ 1 \in 1..9 /\ 2 \in 1..9 /\ 7 \in 1..9
      OBVIOUS
    <3> QED
      BY <3>1, <3>2
  <2> QED
    BY <1>1, <2>1, <2>2, <2>3, <2>4 DEF Registers
<1>2. CASE bus = "vlynq"
  <2>1. Len(Probe) = 12
    BY <1>2, VlynqGets
  <2>2. \A i \in 1..12 : Probe[i].gets = "irq" => i = 8
    BY <1>2, VlynqGets, Upto12
  <2>3. 8 - 1 = 7
    OBVIOUS
  <2>4. \A r \in {"hw", "iomap1", "mechanics"} :
         \E j \in 1..7 : Probe[j].gets = r
    <3>1.
      /\ Probe[1].gets = "hw" /\ Probe[2].gets = "mechanics" /\ Probe[6].gets = "iomap1"
      BY <1>2, VlynqGets
    <3>2.
      /\ 1 \in 1..7 /\ 2 \in 1..7 /\ 6 \in 1..7
      OBVIOUS
    <3> QED
      BY <3>1, <3>2
  <2> QED
    BY <1>2, <2>1, <2>2, <2>3, <2>4 DEF Registers
<1>3. CASE bus = "mem"
  <2>1. Len(Probe) = 10
    BY <1>3, MemGets
  <2>2. \A i \in 1..10 : Probe[i].gets = "irq" => i = 6
    BY <1>3, MemGets, Upto10
  <2>3. 6 - 1 = 5
    OBVIOUS
  <2>4. \A r \in {"hw", "iomap1", "mechanics"} :
         \E j \in 1..5 : Probe[j].gets = r
    <3>1.
      /\ Probe[1].gets = "hw" /\ Probe[2].gets = "mechanics" /\ Probe[3].gets = "iomap1"
      BY <1>3, MemGets
    <3>2.
      /\ 1 \in 1..5 /\ 2 \in 1..5 /\ 3 \in 1..5
      OBVIOUS
    <3> QED
      BY <3>1, <3>2
  <2> QED
    BY <1>3, <2>1, <2>2, <2>3, <2>4 DEF Registers
<1>4. CASE bus = "usb"
  <2>1. Len(Probe) = 9
    BY <1>4, UsbGets
  <2>2. \A i \in 1..9 : Probe[i].gets # "irq"
    BY <1>4, UsbGets, Upto9
  <2> QED
    BY <1>4, <2>1, <2>2 DEF Registers
<1> QED
  BY <1>1, <1>2, <1>3, <1>4

\* A step whose failure is ignored is the debugfs of USB.
LEMMA FailureIgnored ==
  ASSUME bus \in {"pci", "vlynq", "mem", "usb"}
  PROVE  \A i \in 1..Len(Probe) : Probe[i].label = "ignored" =>
           i < Len(Probe) /\ Probe[i].gets = "debugfs" /\ bus = "usb"
<1>1. CASE bus = "pci"
  <2>1. Len(Probe) = 14
    BY <1>1, PciGets
  <2>2. \A i \in 1..14 : Probe[i].label # "ignored"
    BY <1>1, PciFails, Upto14
  <2> QED
    BY <1>1, <2>1, <2>2
<1>2. CASE bus = "vlynq"
  <2>1. Len(Probe) = 12
    BY <1>2, VlynqGets
  <2>2. \A i \in 1..12 : Probe[i].label # "ignored"
    BY <1>2, VlynqFails, Upto12
  <2> QED
    BY <1>2, <2>1, <2>2
<1>3. CASE bus = "mem"
  <2>1. Len(Probe) = 10
    BY <1>3, MemGets
  <2>2. \A i \in 1..10 : Probe[i].label # "ignored"
    BY <1>3, MemFails, Upto10
  <2> QED
    BY <1>3, <2>1, <2>2
<1>4. CASE bus = "usb"
  <2>1. Len(Probe) = 9
    BY <1>4, UsbGets
  <2>2. \A i \in 1..9 : Probe[i].label = "ignored" => i = 8
    BY <1>4, UsbFails, Upto9
  <2>3. Probe[8].gets = "debugfs"
    BY <1>4, UsbGets
  <2> QED
    BY <1>4, <2>1, <2>2, <2>3
<1> QED
  BY <1>1, <1>2, <1>3, <1>4

\* Else a step that fails returns or goes to a label that is there.
LEMMA FailureFacts ==
  ASSUME bus \in {"pci", "vlynq", "mem", "usb"}
  PROVE  \A i \in 1..Len(Probe) : Probe[i].label \in {"return", "ignored"}
           \/ \E j \in DOMAIN Unwind : Unwind[j].label = Probe[i].label
<1>1. CASE bus = "pci"
  <2>1. Len(Probe) = 14 /\ DOMAIN Unwind = 1..14
    BY <1>1, PciGets, PciLabels
  <2>2. \A i \in 1..14 : Probe[i].label \in
           {"fail_debugfs", "fail_ieee80211_alloc_hw", "fail_ieee80211_register_hw",
            "fail_init_mechanics", "fail_iomap1", "fail_iomap2", "fail_load_firmware",
            "fail_no_irq", "fail_pci_enable_device", "fail_request_irq",
            "fail_request_mem_region1", "fail_request_mem_region2", "fail_reset_on_probe",
            "fail_unknown_chiptype"}
    BY <1>1, PciFails, Upto14
  <2>3. \A r \in {"fail_debugfs", "fail_ieee80211_alloc_hw", "fail_ieee80211_register_hw",
                     "fail_init_mechanics", "fail_iomap1", "fail_iomap2", "fail_load_firmware",
                     "fail_no_irq", "fail_pci_enable_device", "fail_request_irq",
                     "fail_request_mem_region1", "fail_request_mem_region2",
                     "fail_reset_on_probe", "fail_unknown_chiptype"} :
         \E j \in 1..14 : Unwind[j].label = r
    <3>1.
      /\ Unwind[1].label = "fail_ieee80211_register_hw" /\ Unwind[2].label = "fail_debugfs"
      /\ Unwind[3].label = "fail_reset_on_probe" /\ Unwind[4].label = "fail_load_firmware"
      /\ Unwind[5].label = "fail_request_irq" /\ Unwind[6].label = "fail_no_irq"
      /\ Unwind[7].label = "fail_iomap2" /\ Unwind[8].label = "fail_iomap1"
      /\ Unwind[9].label = "fail_request_mem_region2"
      /\ Unwind[10].label = "fail_request_mem_region1"
      /\ Unwind[11].label = "fail_unknown_chiptype"
      /\ Unwind[12].label = "fail_pci_enable_device" /\ Unwind[13].label = "fail_init_mechanics"
      /\ Unwind[14].label = "fail_ieee80211_alloc_hw"
      BY <1>1, PciLabels
    <3>2.
      /\ 1 \in 1..14 /\ 2 \in 1..14 /\ 3 \in 1..14 /\ 4 \in 1..14 /\ 5 \in 1..14 /\ 6 \in 1..14
      /\ 7 \in 1..14 /\ 8 \in 1..14 /\ 9 \in 1..14 /\ 10 \in 1..14 /\ 11 \in 1..14
      /\ 12 \in 1..14 /\ 13 \in 1..14 /\ 14 \in 1..14
      OBVIOUS
    <3> QED
      BY <3>1, <3>2
  <2>4. \A i \in 1..14 : Probe[i].label \in {"return", "ignored"}
         \/ \E j \in 1..14 : Unwind[j].label = Probe[i].label
    <3> TAKE i \in 1..14
    <3>1. Probe[i].label \in {"return", "ignored"} \/ Probe[i].label \in
           {"fail_debugfs", "fail_ieee80211_alloc_hw", "fail_ieee80211_register_hw",
            "fail_init_mechanics", "fail_iomap1", "fail_iomap2", "fail_load_firmware",
            "fail_no_irq", "fail_pci_enable_device", "fail_request_irq",
            "fail_request_mem_region1", "fail_request_mem_region2", "fail_reset_on_probe",
            "fail_unknown_chiptype"}
      BY <2>2
    <3> QED
      BY <3>1, <2>3, Zenon
  <2> QED
    BY <1>1, <2>1, <2>4, Zenon
<1>2. CASE bus = "vlynq"
  <2>1. Len(Probe) = 12 /\ DOMAIN Unwind = 1..11
    BY <1>2, VlynqGets, VlynqLabels
  <2>2. \A i \in 1..12 : Probe[i].label \in
           {"fail_debugfs", "fail_init_mechanics", "fail_load_firmware", "fail_reset_on_probe",
            "fail_vlynq_enable_device", "fail_vlynq_ieee80211_alloc_hw",
            "fail_vlynq_ieee80211_register_hw", "fail_vlynq_ioremap1", "fail_vlynq_ioremap2",
            "fail_vlynq_irq", "fail_vlynq_request_mem_region", "return"}
    BY <1>2, VlynqFails, Upto12
  <2>3. \A r \in {"fail_debugfs", "fail_init_mechanics", "fail_load_firmware",
                     "fail_reset_on_probe", "fail_vlynq_enable_device",
                     "fail_vlynq_ieee80211_alloc_hw", "fail_vlynq_ieee80211_register_hw",
                     "fail_vlynq_ioremap1", "fail_vlynq_ioremap2", "fail_vlynq_irq",
                     "fail_vlynq_request_mem_region"} :
         \E j \in 1..11 : Unwind[j].label = r
    <3>1.
      /\ Unwind[1].label = "fail_vlynq_ieee80211_register_hw" /\ Unwind[2].label = "fail_debugfs"
      /\ Unwind[3].label = "fail_reset_on_probe" /\ Unwind[4].label = "fail_load_firmware"
      /\ Unwind[5].label = "fail_vlynq_irq" /\ Unwind[6].label = "fail_vlynq_ioremap2"
      /\ Unwind[7].label = "fail_vlynq_request_mem_region"
      /\ Unwind[8].label = "fail_vlynq_ioremap1" /\ Unwind[9].label = "fail_vlynq_enable_device"
      /\ Unwind[10].label = "fail_init_mechanics"
      /\ Unwind[11].label = "fail_vlynq_ieee80211_alloc_hw"
      BY <1>2, VlynqLabels
    <3>2.
      /\ 1 \in 1..11 /\ 2 \in 1..11 /\ 3 \in 1..11 /\ 4 \in 1..11 /\ 5 \in 1..11 /\ 6 \in 1..11
      /\ 7 \in 1..11 /\ 8 \in 1..11 /\ 9 \in 1..11 /\ 10 \in 1..11 /\ 11 \in 1..11
      OBVIOUS
    <3> QED
      BY <3>1, <3>2
  <2>4. \A i \in 1..12 : Probe[i].label \in {"return", "ignored"}
         \/ \E j \in 1..11 : Unwind[j].label = Probe[i].label
    <3> TAKE i \in 1..12
    <3>1. Probe[i].label \in {"return", "ignored"} \/ Probe[i].label \in
           {"fail_debugfs", "fail_init_mechanics", "fail_load_firmware", "fail_reset_on_probe",
            "fail_vlynq_enable_device", "fail_vlynq_ieee80211_alloc_hw",
            "fail_vlynq_ieee80211_register_hw", "fail_vlynq_ioremap1", "fail_vlynq_ioremap2",
            "fail_vlynq_irq", "fail_vlynq_request_mem_region"}
      BY <2>2
    <3> QED
      BY <3>1, <2>3, Zenon
  <2> QED
    BY <1>2, <2>1, <2>4, Zenon
<1>3. CASE bus = "mem"
  <2>1. Len(Probe) = 10 /\ DOMAIN Unwind = 1..9
    BY <1>3, MemGets, MemLabels
  <2>2. \A i \in 1..10 : Probe[i].label \in
           {"fail_debugfs", "fail_ieee80211_alloc_hw", "fail_ieee80211_register_hw",
            "fail_init_mechanics", "fail_ioremap", "fail_load_firmware", "fail_request_irq",
            "fail_reset_on_probe", "return"}
    BY <1>3, MemFails, Upto10
  <2>3. \A r \in {"fail_debugfs", "fail_ieee80211_alloc_hw", "fail_ieee80211_register_hw",
                     "fail_init_mechanics", "fail_ioremap", "fail_load_firmware",
                     "fail_request_irq", "fail_reset_on_probe"} :
         \E j \in 1..9 : Unwind[j].label = r
    <3>1.
      /\ Unwind[1].label = "fail_ieee80211_register_hw" /\ Unwind[2].label = "fail_debugfs"
      /\ Unwind[3].label = "fail_reset_on_probe" /\ Unwind[4].label = "fail_load_firmware"
      /\ Unwind[5].label = "fail_request_irq" /\ Unwind[6].label = "fail_ioremap"
      /\ Unwind[7].label = "fail_init_mechanics" /\ Unwind[8].label = "fail_ieee80211_alloc_hw"
      BY <1>3, MemLabels
    <3>2.
      /\ 1 \in 1..9 /\ 2 \in 1..9 /\ 3 \in 1..9 /\ 4 \in 1..9 /\ 5 \in 1..9 /\ 6 \in 1..9
      /\ 7 \in 1..9 /\ 8 \in 1..9
      OBVIOUS
    <3> QED
      BY <3>1, <3>2
  <2>4. \A i \in 1..10 : Probe[i].label \in {"return", "ignored"}
         \/ \E j \in 1..9 : Unwind[j].label = Probe[i].label
    <3> TAKE i \in 1..10
    <3>1. Probe[i].label \in {"return", "ignored"} \/ Probe[i].label \in
           {"fail_debugfs", "fail_ieee80211_alloc_hw", "fail_ieee80211_register_hw",
            "fail_init_mechanics", "fail_ioremap", "fail_load_firmware", "fail_request_irq",
            "fail_reset_on_probe"}
      BY <2>2
    <3> QED
      BY <3>1, <2>3, Zenon
  <2> QED
    BY <1>3, <2>1, <2>4, Zenon
<1>4. CASE bus = "usb"
  <2>1. Len(Probe) = 9 /\ DOMAIN Unwind = 1..5
    BY <1>4, UsbGets, UsbLabels
  <2>2. \A i \in 1..9 : Probe[i].label \in
           {"end_nomem", "ignored", "return"}
    BY <1>4, UsbFails, Upto9
  <2>3. \A r \in {"end_nomem"} :
         \E j \in 1..5 : Unwind[j].label = r
    <3>1.
      /\ Unwind[1].label = "end_nomem"
      BY <1>4, UsbLabels
    <3>2.
      /\ 1 \in 1..5
      OBVIOUS
    <3> QED
      BY <3>1, <3>2
  <2>4. \A i \in 1..9 : Probe[i].label \in {"return", "ignored"}
         \/ \E j \in 1..5 : Unwind[j].label = Probe[i].label
    <3> TAKE i \in 1..9
    <3>1. Probe[i].label \in {"return", "ignored"} \/ Probe[i].label \in
           {"end_nomem"}
      BY <2>2
    <3> QED
      BY <3>1, <2>3, Zenon
  <2> QED
    BY <1>4, <2>1, <2>4, Zenon
<1> QED
  BY <1>1, <1>2, <1>3, <1>4

\* A step after the interrupt was requested fails to a label that frees it.
LEMMA FailureFreesIrq ==
  ASSUME bus \in {"pci", "mem"}
  PROVE  \A i \in 1..Len(Probe), j \in 1..Len(Probe) : j < i /\ Probe[j].gets = "irq" =>
           /\ Probe[i].label # "return"
           /\ \A k \in DOMAIN Unwind : Unwind[k].label = Probe[i].label => k <= 5
<1>1. CASE bus = "pci"
  <2>1. Len(Probe) = 14 /\ DOMAIN Unwind = 1..14
    BY <1>1, PciGets, PciLabels
  <2>2. \A i \in 1..14 : Probe[i].gets = "irq" => i = 10
    BY <1>1, PciGets, Upto14
  <2>3. \A i \in 1..14 : 10 < i => Probe[i].label \in
           {"fail_debugfs", "fail_ieee80211_register_hw", "fail_load_firmware",
            "fail_reset_on_probe"}
    BY <1>1, PciFails, Upto14
  <2>4. \A i \in 1..14 : Unwind[i].label \in
           {"fail_debugfs", "fail_ieee80211_register_hw", "fail_load_firmware",
            "fail_reset_on_probe"}
         => i = 1 \/ i = 2 \/ i = 3 \/ i = 4
    BY <1>1, PciLabels, Upto14
  <2>5. \A i \in 1..14 : Probe[i].label = "return" => i <= 10
    BY <1>1, PciFails, Upto14
  <2> QED
    BY <1>1, <2>1, <2>2, <2>3, <2>4, <2>5
<1>2. CASE bus = "mem"
  <2>1. Len(Probe) = 10 /\ DOMAIN Unwind = 1..9
    BY <1>2, MemGets, MemLabels
  <2>2. \A i \in 1..10 : Probe[i].gets = "irq" => i = 6
    BY <1>2, MemGets, Upto10
  <2>3. \A i \in 1..10 : 6 < i => Probe[i].label \in
           {"fail_debugfs", "fail_ieee80211_register_hw", "fail_load_firmware",
            "fail_reset_on_probe"}
    BY <1>2, MemFails, Upto10
  <2>4. \A i \in 1..9 : Unwind[i].label \in
           {"fail_debugfs", "fail_ieee80211_register_hw", "fail_load_firmware",
            "fail_reset_on_probe"}
         => i = 1 \/ i = 2 \/ i = 3 \/ i = 4
    BY <1>2, MemLabels, Upto9
  <2>5. \A i \in 1..10 : Probe[i].label = "return" => i <= 6
    BY <1>2, MemFails, Upto10
  <2> QED
    BY <1>2, <2>1, <2>2, <2>3, <2>4, <2>5
<1> QED
  BY <1>1, <1>2

\* There are several error labels,
LEMMA UnwindFacts ==
  ASSUME bus \in {"pci", "vlynq", "mem", "usb"}
  PROVE  Len(Unwind) \in Nat /\ Len(Unwind) > 1 /\ DOMAIN Unwind = 1..Len(Unwind)
<1>1. CASE bus = "pci"
  <2>1. Len(Unwind) = 14 /\ DOMAIN Unwind = 1..14
    BY <1>1, PciUndoes
  <2> QED
    BY <1>1, <2>1
<1>2. CASE bus = "vlynq"
  <2>1. Len(Unwind) = 11 /\ DOMAIN Unwind = 1..11
    BY <1>2, VlynqUndoes
  <2> QED
    BY <1>2, <2>1
<1>3. CASE bus = "mem"
  <2>1. Len(Unwind) = 9 /\ DOMAIN Unwind = 1..9
    BY <1>3, MemUndoes
  <2> QED
    BY <1>3, <2>1
<1>4. CASE bus = "usb"
  <2>1. Len(Unwind) = 5 /\ DOMAIN Unwind = 1..5
    BY <1>4, UsbUndoes
  <2> QED
    BY <1>4, <2>1
<1> QED
  BY <1>1, <1>2, <1>3, <1>4

\* which release resources of the model.
LEMMA UnwindResources ==
  ASSUME bus \in {"pci", "vlynq", "mem", "usb"}
  PROVE  \A i \in 1..Len(Unwind) : Unwind[i].frees \in Resources \cup {""}
<1>1. CASE bus = "pci"
  <2>1. Len(Unwind) = 14 /\ DOMAIN Unwind = 1..14
    BY <1>1, PciUndoes
  <2>2. \A i \in 1..14 : Unwind[i].frees \in Resources \cup {""}
    BY <1>1, PciUndoes, Upto14 DEF Resources
  <2> QED
    BY <1>1, <2>1, <2>2
<1>2. CASE bus = "vlynq"
  <2>1. Len(Unwind) = 11 /\ DOMAIN Unwind = 1..11
    BY <1>2, VlynqUndoes
  <2>2. \A i \in 1..11 : Unwind[i].frees \in Resources \cup {""}
    BY <1>2, VlynqUndoes, Upto11 DEF Resources
  <2> QED
    BY <1>2, <2>1, <2>2
<1>3. CASE bus = "mem"
  <2>1. Len(Unwind) = 9 /\ DOMAIN Unwind = 1..9
    BY <1>3, MemUndoes
  <2>2. \A i \in 1..9 : Unwind[i].frees \in Resources \cup {""}
    BY <1>3, MemUndoes, Upto9 DEF Resources
  <2> QED
    BY <1>3, <2>1, <2>2
<1>4. CASE bus = "usb"
  <2>1. Len(Unwind) = 5 /\ DOMAIN Unwind = 1..5
    BY <1>4, UsbUndoes
  <2>2. \A i \in 1..5 : Unwind[i].frees \in Resources \cup {""}
    BY <1>4, UsbUndoes, Upto5 DEF Resources
  <2> QED
    BY <1>4, <2>1, <2>2
<1> QED
  BY <1>1, <1>2, <1>3, <1>4

\* Those of pci and mem free the interrupt before the registers.
LEMMA UnwindFreesIrq ==
  ASSUME bus \in {"pci", "mem"}
  PROVE  /\ 5 < Len(Unwind) /\ Unwind[5].frees = "irq" /\ Unwind[5].if = "always"
         /\ \A i \in 1..5 : Unwind[i].frees \notin Registers
<1>1. CASE bus = "pci"
  <2>1. Unwind[5].frees = "irq" /\ Unwind[5].if = "always" /\ Len(Unwind) = 14
    BY <1>1 DEF Unwind, PciUnwind, Frees
  <2>2. \A i \in 1..14 : Unwind[i].frees \in Registers => i = 8 \/ i = 13
    BY <1>1, PciUndoes, Upto14 DEF Registers
  <2> QED
    BY <1>1, <2>1, <2>2
<1>2. CASE bus = "mem"
  <2>1. Unwind[5].frees = "irq" /\ Unwind[5].if = "always" /\ Len(Unwind) = 9
    BY <1>2 DEF Unwind, MemUnwind, MemFreeIrq, Frees
  <2>2. \A i \in 1..9 : Unwind[i].frees \in Registers => i = 6 \/ i = 9
    BY <1>2, MemUndoes, Upto9 DEF Registers
  <2> QED
    BY <1>2, <2>1, <2>2
<1> QED
  BY <1>1, <1>2

\* The remove functions unregister first, and look at a pointer or at nothing before.
LEMMA RemoveFacts ==
  ASSUME bus \in {"pci", "vlynq", "mem", "usb"}
  PROVE  /\ Len(Remove) \in Nat /\ Len(Remove) > 1 /\ DOMAIN Remove = 1..Len(Remove)
         /\ Remove[1].frees = "registered"
         /\ \A i \in 1..Len(Remove) : Remove[i].frees = "registered" => i = 1
         /\ \A i \in 1..Len(Remove) : Remove[i].if = "always" \/ Remove[i].if = Remove[i].frees
<1>1. CASE bus = "pci"
  <2>1. Len(Remove) = 12 /\ DOMAIN Remove = 1..12
    BY <1>1, PciFrees
  <2>2. Remove[1].frees = "registered"
    BY <1>1, PciFrees
  <2>3. \A i \in 1..12 : Remove[i].frees = "registered" => i = 1
    BY <1>1, PciFrees, Upto12
  <2>4. \A i \in 1..12 : Remove[i].if = "always" \/ Remove[i].if = Remove[i].frees
    BY <1>1, PciFrees, PciIfs, Upto12
  <2> QED
    BY <1>1, <2>1, <2>2, <2>3, <2>4
<1>2. CASE bus = "vlynq"
  <2>1. Len(Remove) = 11 /\ DOMAIN Remove = 1..11
    BY <1>2, VlynqFrees
  <2>2. Remove[1].frees = "registered"
    BY <1>2, VlynqFrees
  <2>3. \A i \in 1..11 : Remove[i].frees = "registered" => i = 1
    BY <1>2, VlynqFrees, Upto11
  <2>4. \A i \in 1..11 : Remove[i].if = "always" \/ Remove[i].if = Remove[i].frees
    BY <1>2, VlynqFrees, VlynqIfs, Upto11
  <2> QED
    BY <1>2, <2>1, <2>2, <2>3, <2>4
<1>3. CASE bus = "mem"
  <2>1. Len(Remove) = 8 /\ DOMAIN Remove = 1..8
    BY <1>3, MemFrees
  <2>2. Remove[1].frees = "registered"
    BY <1>3, MemFrees
  <2>3. \A i \in 1..8 : Remove[i].frees = "registered" => i = 1
    BY <1>3, MemFrees, Upto8
  <2>4. \A i \in 1..8 : Remove[i].if = "always" \/ Remove[i].if = Remove[i].frees
    BY <1>3, MemFrees, MemIfs, Upto8
  <2> QED
    BY <1>3, <2>1, <2>2, <2>3, <2>4
<1>4. CASE bus = "usb"
  <2>1. Len(Remove) = 8 /\ DOMAIN Remove = 1..8
    BY <1>4, UsbFrees
  <2>2. Remove[1].frees = "registered"
    BY <1>4, UsbFrees
  <2>3. \A i \in 1..8 : Remove[i].frees = "registered" => i = 1
    BY <1>4, UsbFrees, Upto8
  <2>4. \A i \in 1..8 : Remove[i].if = "always" \/ Remove[i].if = Remove[i].frees
    BY <1>4, UsbFrees, UsbIfs, Upto8
  <2> QED
    BY <1>4, <2>1, <2>2, <2>3, <2>4
<1> QED
  BY <1>1, <1>2, <1>3, <1>4

\* They release resources of the model,
LEMMA RemoveResources ==
  ASSUME bus \in {"pci", "vlynq", "mem", "usb"}
  PROVE  \A i \in 1..Len(Remove) : Remove[i].frees \in Resources \cup {""}
<1>1. CASE bus = "pci"
  <2>1. Len(Remove) = 12
    BY <1>1, PciFrees
  <2>2. \A i \in 1..12 : Remove[i].frees \in Resources \cup {""}
    BY <1>1, PciFrees, Upto12 DEF Resources
  <2> QED
    BY <1>1, <2>1, <2>2
<1>2. CASE bus = "vlynq"
  <2>1. Len(Remove) = 11
    BY <1>2, VlynqFrees
  <2>2. \A i \in 1..11 : Remove[i].frees \in Resources \cup {""}
    BY <1>2, VlynqFrees, Upto11 DEF Resources
  <2> QED
    BY <1>2, <2>1, <2>2
<1>3. CASE bus = "mem"
  <2>1. Len(Remove) = 8
    BY <1>3, MemFrees
  <2>2. \A i \in 1..8 : Remove[i].frees \in Resources \cup {""}
    BY <1>3, MemFrees, Upto8 DEF Resources
  <2> QED
    BY <1>3, <2>1, <2>2
<1>4. CASE bus = "usb"
  <2>1. Len(Remove) = 8
    BY <1>4, UsbFrees
  <2>2. \A i \in 1..8 : Remove[i].frees \in Resources \cup {""}
    BY <1>4, UsbFrees, Upto8 DEF Resources
  <2> QED
    BY <1>4, <2>1, <2>2
<1> QED
  BY <1>1, <1>2, <1>3, <1>4

\* and the interrupt before what its handler uses.
LEMMA IrqIsFreedEarly ==
  ASSUME bus \in {"pci", "vlynq", "mem"}
  PROVE  \A i \in 1..Len(Remove), j \in 1..Len(Remove) :
           Remove[i].frees = "irq" /\ Remove[j].frees \in Registers => i < j
<1>1. CASE bus = "pci"
  <2>1. Len(Remove) = 12
    BY <1>1, PciFrees
  <2>2. \A i \in 1..12 : Remove[i].frees = "irq" => i = 4
    BY <1>1, PciFrees, Upto12
  <2>3. \A i \in 1..12 : Remove[i].frees \in Registers => 4 < i
    BY <1>1, PciFrees, Upto12 DEF Registers
  <2> QED
    BY <1>1, <2>1, <2>2, <2>3
<1>2. CASE bus = "vlynq"
  <2>1. Len(Remove) = 11
    BY <1>2, VlynqFrees
  <2>2. \A i \in 1..11 : Remove[i].frees = "irq" => i = 4
    BY <1>2, VlynqFrees, Upto11
  <2>3. \A i \in 1..11 : Remove[i].frees \in Registers => 4 < i
    BY <1>2, VlynqFrees, Upto11 DEF Registers
  <2> QED
    BY <1>2, <2>1, <2>2, <2>3
<1>3. CASE bus = "mem"
  <2>1. Len(Remove) = 8
    BY <1>3, MemFrees
  <2>2. \A i \in 1..8 : Remove[i].frees = "irq" => i = 4
    BY <1>3, MemFrees, Upto8
  <2>3. \A i \in 1..8 : Remove[i].frees \in Registers => 4 < i
    BY <1>3, MemFrees, Upto8 DEF Registers
  <2> QED
    BY <1>3, <2>1, <2>2, <2>3
<1> QED
  BY <1>1, <1>2, <1>3
-------------------------------------------------------------------------------
(* The steps *)

\* The step after one that is not the last,
LEMMA NextIn ==
  ASSUME NEW n \in Nat, NEW i \in 1..n, i # n
  PROVE  i + 1 \in 1..n /\ (i + 1) - 1 = i /\ (i < 5 => i + 1 <= 5)
  OBVIOUS

\* and those before one.
LEMMA BeforeIn ==
  ASSUME NEW n \in Nat, NEW i \in 1..n
  PROVE  \A j \in 1..(i - 1) : j \in 1..n /\ j < i /\ j # n
  OBVIOUS

\* The bus of a device is one of the four, and it stays.
LEMMA Same ==
  ASSUME bus' = bus
  PROVE  Probe' = Probe /\ Unwind' = Unwind /\ Remove' = Remove /\ Needed' = Needed
  BY DEF Probe, Unwind, Remove, Needed

LEMMA BusIsOne ==
  ASSUME BindingTypeOK
  PROVE  bus \in {"pci", "vlynq", "mem", "usb"}
  BY BindingAssumption DEF BindingTypeOK

\* What has been acquired is a resource, which has a name.
LEMMA HeldIsNamed ==
  ASSUME BindingTypeOK
  PROVE  "" \notin held
  BY DEF BindingTypeOK, Resources

\* What a bound device needs is not what the debugfs or a suspend changes.
LEMMA NeededIsKept ==
  /\ \A r \in Needed : r \notin {"", "debugfs", "registered", "dma"}
  /\ \A r \in Registers : r \notin {"", "debugfs", "registered", "dma", "irq"}
  /\ bus # "usb" => Registers \subseteq Needed /\ "irq" \in Needed
<1>1. \A r \in Registers : r \notin {"", "debugfs", "registered", "dma", "irq"}
  BY DEF Registers
<1>2. \A r \in Needed : r \notin {"", "debugfs", "registered", "dma"}
  BY <1>1 DEF Needed
<1>3. bus # "usb" => Registers \subseteq Needed /\ "irq" \in Needed
  BY DEF Needed
<1> QED BY <1>1, <1>2, <1>3

\* A probe that has requested the interrupt has acquired what its handler uses.
LEMMA ProbeHasRegisters ==
  ASSUME BindingTypeOK, ProbeHolds, phase = "probe", "irq" \in held
  PROVE  bus # "usb" /\ Registers \subseteq held
<1>1. bus \in {"pci", "vlynq", "mem", "usb"} /\ pc \in 1..Len(Probe) /\ Len(Probe) \in Nat
  BY BusIsOne, ProbeFacts DEF BindingTypeOK
<1>2. PICK i \in 1..(pc - 1) : Probe[i].gets = "irq"
  BY DEF ProbeHolds
<1>3. i \in 1..Len(Probe) /\ 1..(i - 1) \subseteq 1..(pc - 1)
  BY <1>1
<1>4. bus # "usb" /\ \A r \in Registers : \E j \in 1..(i - 1) : Probe[j].gets = r
  BY <1>1, <1>2, <1>3, IrqComesLate
<1>5. \A r \in Registers : \E j \in 1..(pc - 1) : Probe[j].gets = r
  BY <1>3, <1>4
<1>6. \A j \in 1..(pc - 1) : Probe[j].gets \in held \cup {"", "debugfs"}
  BY DEF ProbeHolds
<1>7. \A r \in Registers : r \in held
  <2> TAKE r \in Registers
  <2>1. PICK j \in 1..(pc - 1) : Probe[j].gets = r
    BY <1>5
  <2> QED BY <1>6, <2>1, NeededIsKept
<1> QED BY <1>4, <1>7

\* The start of a probe.
LEMMA StartKeeps ==
  ASSUME BindingIInv, ProbeStart
  PROVE  BindingIInv'
<1>1. bus' = bus /\ held' = held /\ wrong' = wrong /\ up' = up /\ held = {}
  BY DEF BindingIInv, UnwindHolds, ProbeStart
<1>2. phase' = "probe" /\ pc' = 1
  BY DEF ProbeStart, FirstStep
<1>3. Probe' = Probe /\ 1 \in DOMAIN Probe
  BY <1>1, Same, BusIsOne, ProbeFacts DEF BindingIInv
<1>4. BindingTypeOK'
  BY <1>1, <1>2, <1>3 DEF BindingIInv, BindingTypeOK
<1>5. ProbeHolds'
  BY <1>1, <1>2 DEF ProbeHolds
<1>6. UnwindHolds' /\ BoundHolds' /\ RemoveHolds'
  BY <1>1, <1>2 DEF UnwindHolds, BoundHolds, RemoveHolds
<1> QED BY <1>4, <1>5, <1>6 DEF BindingIInv

\* A step of a probe that succeeds: the last one registers what has all it needs.
LEMMA OkKeeps ==
  ASSUME BindingIInv, ProbeOk
  PROVE  BindingIInv'
<1>1. /\ bus' = bus /\ wrong' = wrong /\ up' = up /\ phase = "probe"
      /\ held' = held \cup ({Probe[pc].gets} \ {""})
  BY DEF ProbeOk, Acquired, ProbeStep
<1>2. Probe' = Probe /\ Unwind' = Unwind /\ Remove' = Remove /\ Needed' = Needed
  BY <1>1, Same
<1>3. /\ bus \in {"pci", "vlynq", "mem", "usb"}
      /\ pc \in 1..Len(Probe) /\ Len(Probe) \in Nat /\ Len(Probe) > 1
      /\ DOMAIN Probe = 1..Len(Probe)
  BY <1>1, BusIsOne, ProbeFacts DEF BindingIInv, BindingTypeOK
<1>4. held' \subseteq Resources
  BY <1>1, <1>3, ProbeResources DEF BindingIInv, BindingTypeOK
<1>5. bus = "usb" => "irq" \notin held'
  BY <1>1, <1>3, IrqComesLate DEF BindingIInv, UnwindHolds
<1>6. \A j \in 1..(pc - 1) : Probe[j].gets \in held \cup {"", "debugfs"}
  BY <1>1 DEF BindingIInv, ProbeHolds
<1>7. \A r \in held : \E j \in 1..(pc - 1) : Probe[j].gets = r
  BY <1>1 DEF BindingIInv, ProbeHolds
<1>8. CASE pc = Len(Probe)
  <2>1. phase' = "bound" /\ pc' = 1
    BY <1>8 DEF ProbeOk, FirstStep
  <2>2. held' = held \cup {"registered"}
    BY <1>1, <1>3, <1>8, ProbeFacts
  <2>3. BindingTypeOK'
    BY <1>1, <1>4, <2>1 DEF BindingIInv, BindingTypeOK
  <2>4. ProbeHolds' /\ RemoveHolds'
    BY <2>1 DEF ProbeHolds, RemoveHolds
  <2>5. UnwindHolds'
    BY <1>1, <1>5, <2>1 DEF UnwindHolds
  <2>6. \A r \in Needed : r \in held
    <3> TAKE r \in Needed
    <3>1. PICK j \in 1..(pc - 1) : Probe[j].gets = r
      BY <1>3, <1>8, NeededIsAcquired
    <3> QED BY <1>6, <3>1, NeededIsKept
  <2>7. bus # "usb" => "dma" \in held
    BY <1>3, <1>6, <1>8, NeededIsAcquired
  <2>8. \A r \in held : \E j \in DOMAIN Remove : Remove[j].frees = r
    <3> TAKE r \in held
    <3>1. PICK j \in 1..(pc - 1) : Probe[j].gets = r
      BY <1>7
    <3>2. j \in 1..Len(Probe)
      BY <1>3
    <3>3. r # ""
      BY HeldIsNamed DEF BindingIInv
    <3> QED BY <1>3, <3>1, <3>2, <3>3, AllIsReleased
  <2>9. \E j \in DOMAIN Remove : Remove[j].frees = "registered"
    BY <1>3, RemoveFacts
  <2>10. BoundHolds'
    BY <1>1, <1>2, <2>1, <2>2, <2>6, <2>7, <2>8, <2>9 DEF BoundHolds
  <2> QED BY <2>3, <2>4, <2>5, <2>10 DEF BindingIInv
<1>9. CASE pc # Len(Probe)
  <2>1. phase' = "probe" /\ pc' = pc + 1
    BY <1>1, <1>9 DEF ProbeOk
  <2>2. pc' \in DOMAIN Probe' /\ pc' - 1 = pc
    <3>1. pc + 1 \in 1..Len(Probe) /\ (pc + 1) - 1 = pc
      BY <1>3, <1>9, NextIn
    <3> QED BY <1>2, <1>3, <2>1, <3>1
  <2>3. BindingTypeOK'
    BY <1>1, <1>4, <2>1, <2>2 DEF BindingIInv, BindingTypeOK
  <2>4. UnwindHolds' /\ BoundHolds' /\ RemoveHolds'
    BY <1>1, <1>5, <2>1 DEF UnwindHolds, BoundHolds, RemoveHolds
  <2>5. \A j \in 1..pc : j \in 1..(pc - 1) \/ j = pc
    BY <1>3
  <2>6. \A j \in 1..pc : Probe[j].gets \in held' \cup {"", "debugfs"}
    BY <1>1, <1>6, <2>5
  <2>7. pc \in 1..pc /\ 1..(pc - 1) \subseteq 1..pc
    BY <1>3
  <2>8. \A r \in held' : \E j \in 1..pc : Probe[j].gets = r
    BY <1>1, <1>7, <2>7
  <2>9. ProbeHolds'
    BY <1>2, <2>2, <2>6, <2>8 DEF ProbeHolds
  <2> QED BY <2>3, <2>4, <2>9 DEF BindingIInv
<1> QED BY <1>8, <1>9

\* A step of a probe that fails goes where the interrupt will be freed.
LEMMA FailKeeps ==
  ASSUME BindingIInv, ProbeFails
  PROVE  BindingIInv'
<1>1. /\ bus' = bus /\ wrong' = wrong /\ up' = up /\ phase = "probe"
      /\ held' \in IF Probe[pc].gets \in Partly THEN {held, Acquired} ELSE {held}
  BY DEF ProbeFails, ProbeStep
<1>2. Probe' = Probe /\ Unwind' = Unwind /\ Remove' = Remove /\ Needed' = Needed
  BY <1>1, Same
<1>3. /\ bus \in {"pci", "vlynq", "mem", "usb"}
      /\ pc \in 1..Len(Probe) /\ Len(Probe) \in Nat /\ Len(Probe) > 1
      /\ DOMAIN Probe = 1..Len(Probe)
  BY <1>1, BusIsOne, ProbeFacts DEF BindingIInv, BindingTypeOK
<1>4. \/ held' = held
      \/ held' = held \cup {Probe[pc].gets} /\ Probe[pc].gets \in {"dma", "rx_urbs", "tx_urbs"}
  BY <1>1 DEF Partly, Acquired, ProbeStep
<1>5. held' \subseteq Resources
  BY <1>3, <1>4, ProbeResources DEF BindingIInv, BindingTypeOK, Resources
<1>6. held \subseteq held' /\ ("irq" \in held' => "irq" \in held)
  BY <1>4
<1>7. "irq" \in held => bus # "usb" /\ Registers \subseteq held
  BY <1>1, ProbeHasRegisters DEF BindingIInv
<1>8. \A r \in held : \E j \in 1..(pc - 1) : Probe[j].gets = r
  BY <1>1 DEF BindingIInv, ProbeHolds
<1>9. \A j \in 1..(pc - 1) : j \in 1..Len(Probe) /\ j < pc /\ j # Len(Probe)
  BY <1>3, BeforeIn
<1>10. "registered" \notin held'
  <2>1. "registered" \notin held
    BY <1>3, <1>8, <1>9, ProbeFacts
  <2> QED BY <1>4, <2>1
<1>11. "irq" \in held /\ bus # "vlynq" =>
         /\ Probe[pc].label # "return"
         /\ \A k \in DOMAIN Unwind : Unwind[k].label = Probe[pc].label => k <= 5
  <2> SUFFICES ASSUME "irq" \in held, bus # "vlynq"
               PROVE  /\ Probe[pc].label # "return"
                      /\ \A k \in DOMAIN Unwind : Unwind[k].label = Probe[pc].label => k <= 5
    OBVIOUS
  <2>1. PICK j \in 1..(pc - 1) : Probe[j].gets = "irq"
    BY <1>8
  <2>2. j \in 1..Len(Probe) /\ j < pc
    BY <1>9
  <2>3. bus \in {"pci", "mem"}
    BY <1>3, <1>7
  <2> QED BY <1>3, <2>1, <2>2, <2>3, FailureFreesIrq
<1>12. CASE Probe[pc].label = "return"
  <2>1. phase' = "failed" /\ pc' = 1
    BY <1>12 DEF ProbeFails, ProbeStep, FirstStep
  <2>2. BindingTypeOK'
    BY <1>1, <1>5, <2>1 DEF BindingIInv, BindingTypeOK
  <2>3. ProbeHolds' /\ BoundHolds' /\ RemoveHolds'
    BY <2>1 DEF ProbeHolds, BoundHolds, RemoveHolds
  <2>4. UnwindHolds'
    BY <1>1, <1>6, <1>7, <1>10, <1>11, <1>12, <2>1 DEF UnwindHolds
  <2> QED BY <2>2, <2>3, <2>4 DEF BindingIInv
<1>13. CASE Probe[pc].label = "ignored"
  <2>1. phase' = "probe" /\ pc' = pc + 1
    BY <1>1, <1>13 DEF ProbeFails, ProbeStep
  <2>2. pc < Len(Probe) /\ Probe[pc].gets = "debugfs"
    BY <1>3, <1>13, FailureIgnored
  <2>3. held' = held
    BY <1>4, <2>2
  <2>4. pc' \in DOMAIN Probe' /\ pc' - 1 = pc
    <3>1. pc + 1 \in 1..Len(Probe) /\ (pc + 1) - 1 = pc
      BY <1>3, <2>2
    <3> QED BY <1>2, <1>3, <2>1, <3>1
  <2>5. BindingTypeOK'
    BY <1>1, <1>5, <2>1, <2>4 DEF BindingIInv, BindingTypeOK
  <2>6. UnwindHolds' /\ BoundHolds' /\ RemoveHolds'
    BY <1>1, <1>7, <2>1, <2>3 DEF UnwindHolds, BoundHolds, RemoveHolds
  <2>7. \A j \in 1..pc : j \in 1..(pc - 1) \/ j = pc
    BY <1>3
  <2>8. \A j \in 1..pc : Probe[j].gets \in held' \cup {"", "debugfs"}
    BY <1>1, <2>2, <2>3, <2>7 DEF BindingIInv, ProbeHolds
  <2>9. 1..(pc - 1) \subseteq 1..pc
    BY <1>3
  <2>10. \A r \in held' : \E j \in 1..pc : Probe[j].gets = r
    BY <1>8, <2>3, <2>9
  <2>11. ProbeHolds'
    BY <1>2, <2>4, <2>8, <2>10 DEF ProbeHolds
  <2> QED BY <2>5, <2>6, <2>11 DEF BindingIInv
<1>14. CASE Probe[pc].label \notin {"return", "ignored"}
  <2>1. /\ phase' = "unwind"
        /\ pc' = CHOOSE i \in DOMAIN Unwind : Unwind[i].label = Probe[pc].label
    BY <1>14 DEF ProbeFails, ProbeStep
  <2>2. \E i \in DOMAIN Unwind : Unwind[i].label = Probe[pc].label
    BY <1>3, <1>14, FailureFacts
  <2>3. pc' \in DOMAIN Unwind /\ Unwind[pc'].label = Probe[pc].label
    BY <2>1, <2>2, Zenon
  <2>4. BindingTypeOK'
    BY <1>1, <1>2, <1>5, <2>1, <2>3 DEF BindingIInv, BindingTypeOK
  <2>5. ProbeHolds' /\ BoundHolds' /\ RemoveHolds'
    BY <2>1 DEF ProbeHolds, BoundHolds, RemoveHolds
  <2>6. "irq" \in held' /\ bus # "vlynq" => pc' <= 5
    BY <1>6, <1>11, <2>3
  <2>7. "irq" \in held' => bus # "usb" /\ Registers \subseteq held'
    BY <1>6, <1>7
  <2>8. UnwindHolds'
    BY <1>1, <1>10, <2>1, <2>6, <2>7 DEF UnwindHolds
  <2> QED BY <2>4, <2>5, <2>8 DEF BindingIInv
<1> QED BY <1>12, <1>13, <1>14

\* A release of something the tables name only takes it away.
LEMMA ReleaseTakes ==
  ASSUME BindingTypeOK, NEW r, Release(r), r.frees \in Resources \cup {""}
  PROVE  /\ held' = held \/ held' = held \ {r.frees}
         /\ wrong' \subseteq Resources
         /\ r.frees # "" /\ r.if \in {"always", r.frees} => held' = held \ {r.frees}
<1>1. \/ held' = held /\ wrong' = wrong
      \/ held' = held \ {r.frees} /\ wrong' = wrong \cup ({r.frees} \ held)
  BY DEF Release
<1>2. wrong \subseteq Resources
  BY DEF BindingTypeOK
<1>3. r.frees = "" => wrong' = wrong
  BY DEF Release
<1>4. wrong' \subseteq Resources
  BY <1>1, <1>2, <1>3
<1>5. r.frees # "" /\ r.if \in {"always", r.frees} => held' = held \ {r.frees}
  BY DEF Release
<1> QED BY <1>1, <1>4, <1>5

\* A step of the error path frees the interrupt before the registers.
LEMMA UnwindKeeps ==
  ASSUME BindingIInv, UnwindStep
  PROVE  BindingIInv'
<1>1. bus' = bus /\ up' = up /\ phase = "unwind" /\ Release(Unwind[pc])
  BY DEF UnwindStep
<1>2. Probe' = Probe /\ Unwind' = Unwind /\ Remove' = Remove /\ Needed' = Needed
  BY <1>1, Same
<1>3. /\ bus \in {"pci", "vlynq", "mem", "usb"}
      /\ pc \in 1..Len(Unwind) /\ Len(Unwind) \in Nat /\ DOMAIN Unwind = 1..Len(Unwind)
  BY <1>1, BusIsOne, UnwindFacts DEF BindingIInv, BindingTypeOK
<1>4. BindingTypeOK /\ Unwind[pc].frees \in Resources \cup {""}
  BY <1>3, UnwindResources DEF BindingIInv
<1>5. (held' = held \/ held' = held \ {Unwind[pc].frees}) /\ wrong' \subseteq Resources
  BY <1>1, <1>4, ReleaseTakes
<1>6. held' \subseteq held /\ held' \subseteq Resources
  BY <1>5 DEF BindingIInv, BindingTypeOK
<1>7. /\ "registered" \notin held /\ (bus = "usb" => "irq" \notin held)
      /\ bus # "vlynq" /\ "irq" \in held => pc <= 5 /\ Registers \subseteq held
  BY <1>1 DEF BindingIInv, UnwindHolds
<1>8. bus # "vlynq" /\ "irq" \in held' => pc < 5 /\ Registers \subseteq held'
  <2> SUFFICES ASSUME bus # "vlynq", "irq" \in held'
               PROVE  pc < 5 /\ Registers \subseteq held'
    OBVIOUS
  <2>1. bus \in {"pci", "mem"} /\ pc <= 5 /\ Registers \subseteq held
    BY <1>3, <1>6, <1>7
  <2>2. pc # 5
    <3> SUFFICES ASSUME pc = 5
                 PROVE  FALSE
      OBVIOUS
    <3>1. Unwind[pc].frees = "irq" /\ Unwind[pc].if = "always"
      BY <2>1, UnwindFreesIrq
    <3>2. held' = held \ {"irq"}
      BY <1>1, <1>4, <3>1, ReleaseTakes
    <3> QED BY <3>2
  <2>3. pc \in 1..5 /\ pc < 5
    BY <1>3, <2>1, <2>2
  <2>4. Unwind[pc].frees \notin Registers
    BY <2>1, <2>3, UnwindFreesIrq
  <2> QED BY <1>5, <2>1, <2>3, <2>4
<1>9. CASE pc = Len(Unwind)
  <2>1. phase' = "failed" /\ pc' = 1
    BY <1>9 DEF UnwindStep, FirstStep
  <2>2. BindingTypeOK'
    BY <1>1, <1>5, <1>6, <2>1 DEF BindingIInv, BindingTypeOK
  <2>3. ProbeHolds' /\ BoundHolds' /\ RemoveHolds'
    BY <2>1 DEF ProbeHolds, BoundHolds, RemoveHolds
  <2>4. bus \in {"pci", "mem"} => 5 < pc
    BY <1>9, UnwindFreesIrq
  <2>5. bus # "vlynq" => "irq" \notin held'
    <3> SUFFICES ASSUME bus # "vlynq", "irq" \in held'
                 PROVE  FALSE
      OBVIOUS
    <3>1. pc < 5 /\ bus \in {"pci", "mem"}
      BY <1>3, <1>6, <1>7, <1>8
    <3> QED BY <1>3, <2>4, <3>1
  <2>6. UnwindHolds'
    BY <1>1, <1>6, <1>7, <2>1, <2>5 DEF UnwindHolds
  <2> QED BY <2>2, <2>3, <2>6 DEF BindingIInv
<1>10. CASE pc # Len(Unwind)
  <2>1. phase' = "unwind" /\ pc' = pc + 1
    BY <1>1, <1>10 DEF UnwindStep
  <2>2. pc + 1 \in 1..Len(Unwind) /\ (pc < 5 => pc + 1 <= 5)
    BY <1>3, <1>10, NextIn
  <2>3. BindingTypeOK'
    BY <1>1, <1>2, <1>3, <1>5, <1>6, <2>1, <2>2 DEF BindingIInv, BindingTypeOK
  <2>4. ProbeHolds' /\ BoundHolds' /\ RemoveHolds'
    BY <2>1 DEF ProbeHolds, BoundHolds, RemoveHolds
  <2>5. bus # "vlynq" /\ "irq" \in held' => pc' <= 5 /\ Registers \subseteq held'
    BY <1>8, <2>1, <2>2
  <2>6. UnwindHolds'
    BY <1>1, <1>6, <1>7, <2>1, <2>5 DEF UnwindHolds
  <2> QED BY <2>3, <2>4, <2>6 DEF BindingIInv
<1> QED BY <1>9, <1>10

\* A later step.
LEMMA LaterIn ==
  ASSUME NEW n \in Nat, NEW i \in 1..n
  PROVE  \A j \in i..n : /\ j \in 1..n /\ ~(j < i)
                         /\ j # i => j # 1 /\ j \in (i + 1)..n
                         /\ i = n => j = i
  OBVIOUS

\* Opening and closing the interface.
LEMMA OpenKeeps ==
  ASSUME BindingIInv, OpenOrClose
  PROVE  BindingIInv'
<1>1. /\ bus' = bus /\ phase' = phase /\ pc' = pc /\ held' = held /\ wrong' = wrong
      /\ up' = ~up
  BY DEF OpenOrClose
<1>2. Probe' = Probe /\ Unwind' = Unwind /\ Remove' = Remove /\ Needed' = Needed
  BY <1>1, Same
<1>3. up' \in BOOLEAN
  BY <1>1, Zenon
<1>4. BindingTypeOK'
  BY <1>1, <1>2, <1>3 DEF BindingIInv, BindingTypeOK
<1>5. ProbeHolds' /\ UnwindHolds' /\ BoundHolds' /\ RemoveHolds'
  BY <1>1, <1>2 DEF BindingIInv, ProbeHolds, UnwindHolds, BoundHolds, RemoveHolds
<1> QED BY <1>4, <1>5 DEF BindingIInv

\* A suspend gives up the registration and the DMA areas at once, a resume takes them
\* back in turn.
LEMMA PowerKeeps ==
  ASSUME BindingIInv, SuspendLock \/ Suspend \/ Resume
  PROVE  BindingIInv'
<1>1. /\ bus' = bus /\ up' = up /\ phase \in {"bound", "suspend", "suspended"}
      /\ phase' \in {"bound", "suspend", "suspended"} /\ pc' = pc
  BY DEF SuspendLock, Suspend, Resume
<1>2. Probe' = Probe /\ Unwind' = Unwind /\ Remove' = Remove /\ Needed' = Needed
  BY <1>1, Same
<1>3. bus = "pci" /\ bus \in {"pci", "vlynq", "mem", "usb"}
  BY BusIsOne DEF SuspendLock, Suspend, Resume, BindingIInv, BoundHolds
<1>4. held' \subseteq held \cup {"dma", "registered"} /\ wrong' \subseteq Resources
  BY DEF SuspendLock, Suspend, Resume, HeldAfterResume, BindingIInv, BindingTypeOK, Resources
<1>5. held' \subseteq Resources
  BY <1>4 DEF BindingIInv, BindingTypeOK, Resources
<1>6. pc' = 1
  BY <1>1 DEF BindingIInv, BindingTypeOK
<1>7. BindingTypeOK'
  BY <1>1, <1>4, <1>5, <1>6 DEF BindingIInv, BindingTypeOK
<1>8. ProbeHolds' /\ RemoveHolds'
  BY <1>1 DEF ProbeHolds, RemoveHolds
<1>9. UnwindHolds'
  BY <1>1, <1>3 DEF UnwindHolds
<1>10. held \ {"registered", "dma"} \subseteq held'
  BY DEF SuspendLock, Suspend, Resume, HeldAfterResume
<1>11. Needed \subseteq held'
  BY <1>1, <1>10, NeededIsKept DEF BindingIInv, BoundHolds
<1>12. \E j \in DOMAIN Remove : Remove[j].frees = "registered"
  BY <1>3, RemoveFacts
<1>13. \E j \in DOMAIN Remove : Remove[j].frees = "dma"
  <2>1. PICK i \in 1..(Len(Probe) - 1) : Probe[i].gets = "dma"
    BY <1>3, NeededIsAcquired
  <2>2. i \in 1..Len(Probe)
    <3>1. Len(Probe) \in Nat
      BY <1>3, ProbeFacts
    <3> QED BY <3>1
  <2> QED BY <1>3, <2>1, <2>2, AllIsReleased
<1>14. \A r \in held : \E j \in DOMAIN Remove : Remove[j].frees = r
  BY <1>1 DEF BindingIInv, BoundHolds
<1>15. \A r \in held' : \E j \in DOMAIN Remove : Remove[j].frees = r
  <2> TAKE r \in held'
  <2>1. r \in held \/ r = "dma" \/ r = "registered"
    BY <1>4
  <2> QED BY <1>12, <1>13, <1>14, <2>1
<1>16. /\ "registered" \in held' => "dma" \in held'
       /\ phase' = "suspended" => "registered" \notin held' /\ "dma" \notin held'
  BY <1>3 DEF SuspendLock, Suspend, Resume, HeldAfterResume, BindingIInv, BoundHolds
<1>17. BoundHolds'
  BY <1>1, <1>2, <1>3, <1>11, <1>15, <1>16 DEF BoundHolds
<1> QED BY <1>7, <1>8, <1>9, <1>17 DEF BindingIInv

\* A removal begins with what is bound.
LEMMA RemoveStartKeeps ==
  ASSUME BindingIInv, RemoveStart
  PROVE  BindingIInv'
<1>1. /\ bus' = bus /\ held' = held /\ wrong' = wrong /\ up' = up
      /\ phase \in {"bound", "suspended"} /\ phase' = "remove" /\ pc' = 1
  BY DEF RemoveStart, FirstStep
<1>2. Probe' = Probe /\ Unwind' = Unwind /\ Remove' = Remove /\ Needed' = Needed
  BY <1>1, Same
<1>3. 1 \in DOMAIN Remove /\ DOMAIN Remove = 1..Len(Remove)
  BY BusIsOne, RemoveFacts DEF BindingIInv
<1>4. BindingTypeOK'
  BY <1>1, <1>2, <1>3 DEF BindingIInv, BindingTypeOK
<1>5. ProbeHolds' /\ BoundHolds'
  BY <1>1 DEF ProbeHolds, BoundHolds
<1>6. UnwindHolds'
  BY <1>1 DEF BindingIInv, UnwindHolds
<1>7. /\ Needed \subseteq held
      /\ \A r \in held : \E j \in DOMAIN Remove : Remove[j].frees = r
      /\ "registered" \in held /\ bus # "usb" => "dma" \in held
  BY <1>1 DEF BindingIInv, BoundHolds
<1>8. bus # "usb" => Registers \subseteq held
  BY <1>7, NeededIsKept
<1>9. RemoveHolds'
  BY <1>1, <1>2, <1>3, <1>7, <1>8 DEF RemoveHolds
<1> QED BY <1>4, <1>5, <1>6, <1>9 DEF BindingIInv

\* A step of a removal takes away what it names, and the rest is named later.
LEMMA RemoveKeeps ==
  ASSUME BindingIInv, RemoveStep
  PROVE  BindingIInv'
<1>1. bus' = bus /\ up' = FALSE /\ phase = "remove" /\ Release(Remove[pc])
  BY DEF RemoveStep
<1>2. Probe' = Probe /\ Unwind' = Unwind /\ Remove' = Remove /\ Needed' = Needed
  BY <1>1, Same
<1>3. /\ bus \in {"pci", "vlynq", "mem", "usb"}
      /\ pc \in 1..Len(Remove) /\ Len(Remove) \in Nat /\ DOMAIN Remove = 1..Len(Remove)
  BY <1>1, BusIsOne, RemoveFacts DEF BindingIInv, BindingTypeOK
<1>4. BindingTypeOK /\ Remove[pc].frees \in Resources \cup {""}
  BY <1>3, RemoveResources DEF BindingIInv
<1>5. held' = held \ {Remove[pc].frees} /\ wrong' \subseteq Resources
  <2>1. (held' = held \/ held' = held \ {Remove[pc].frees}) /\ wrong' \subseteq Resources
    BY <1>1, <1>4, ReleaseTakes
  <2>2. CASE Remove[pc].frees = ""
    <3>1. held' = held
      BY <1>1, <2>2 DEF Release
    <3> QED BY <2>1, <2>2, <3>1, HeldIsNamed, <1>4
  <2>3. CASE Remove[pc].frees # ""
    <3>1. Remove[pc].if \in {"always", Remove[pc].frees}
      BY <1>3, RemoveFacts
    <3> QED BY <1>1, <1>4, <2>1, <2>3, <3>1, ReleaseTakes
  <2> QED BY <2>2, <2>3
<1>6. held' \subseteq held /\ held' \subseteq Resources /\ up' \in BOOLEAN
  BY <1>1, <1>5 DEF BindingIInv, BindingTypeOK
<1>7. \A r \in held : \E j \in pc..Len(Remove) : Remove[j].frees = r
  BY <1>1 DEF BindingIInv, RemoveHolds
<1>8. \A r \in held' : \E j \in pc..Len(Remove) : j # pc /\ Remove[j].frees = r
  BY <1>5, <1>7
<1>9. "registered" \notin held'
  <2> SUFFICES ASSUME "registered" \in held'
               PROVE  FALSE
    OBVIOUS
  <2>1. PICK j \in pc..Len(Remove) : j # pc /\ Remove[j].frees = "registered"
    BY <1>8
  <2>2. j \in 1..Len(Remove) /\ j # 1
    BY <1>3, <2>1, LaterIn
  <2> QED BY <1>3, <2>1, <2>2, RemoveFacts
<1>10. "irq" \in held' /\ bus # "usb" => Registers \subseteq held'
  <2> SUFFICES ASSUME "irq" \in held', bus # "usb", NEW r \in Registers
               PROVE  r \in held'
    OBVIOUS
  <2>1. r \in held
    BY <1>1, <1>6 DEF BindingIInv, RemoveHolds
  <2>2. PICK j \in pc..Len(Remove) : j # pc /\ Remove[j].frees = "irq"
    BY <1>8
  <2>3. j \in 1..Len(Remove) /\ ~(j < pc)
    BY <1>3, <2>2, LaterIn
  <2>4. Remove[pc].frees # r
    BY <1>3, <2>2, <2>3, IrqIsFreedEarly
  <2> QED BY <1>5, <2>1, <2>4
<1>11. bus = "usb" => "irq" \notin held'
  BY <1>6 DEF BindingIInv, UnwindHolds
<1>12. CASE pc = Len(Remove)
  <2>1. phase' = "removed" /\ pc' = 1
    BY <1>12 DEF RemoveStep, FirstStep
  <2>2. \A j \in pc..Len(Remove) : j = pc
    BY <1>3, <1>12, LaterIn
  <2>3. held' = {}
    BY <1>8, <2>2
  <2>4. BindingTypeOK'
    BY <1>1, <1>5, <1>6, <2>1 DEF BindingIInv, BindingTypeOK
  <2>5. ProbeHolds' /\ UnwindHolds' /\ BoundHolds' /\ RemoveHolds'
    BY <2>1, <2>3 DEF ProbeHolds, UnwindHolds, BoundHolds, RemoveHolds
  <2> QED BY <2>4, <2>5 DEF BindingIInv
<1>13. CASE pc # Len(Remove)
  <2>1. phase' = "remove" /\ pc' = pc + 1
    BY <1>1, <1>13 DEF RemoveStep
  <2>2. pc + 1 \in 1..Len(Remove)
    BY <1>3, <1>13, NextIn
  <2>3. \A j \in pc..Len(Remove) : j # pc => j \in (pc + 1)..Len(Remove)
    BY <1>3, LaterIn
  <2>4. BindingTypeOK'
    BY <1>1, <1>2, <1>3, <1>5, <1>6, <2>1, <2>2 DEF BindingIInv, BindingTypeOK
  <2>5. ProbeHolds' /\ BoundHolds'
    BY <2>1 DEF ProbeHolds, BoundHolds
  <2>6. UnwindHolds'
    BY <1>1, <1>11, <2>1 DEF UnwindHolds
  <2>7. \A r \in held' : \E j \in (pc + 1)..Len(Remove) : Remove[j].frees = r
    BY <1>8, <2>3
  <2>8. RemoveHolds'
    BY <1>1, <1>2, <1>9, <1>10, <2>1, <2>7 DEF RemoveHolds
  <2> QED BY <2>4, <2>5, <2>6, <2>8 DEF BindingIInv
<1> QED BY <1>12, <1>13

\* Before the probe.
LEMMA BindingStarts ==
  ASSUME InitBinding
  PROVE  BindingIInv
<1>1. bus \in Buses /\ phase = "none" /\ pc = 1 /\ held = {} /\ wrong = {} /\ up = FALSE
  BY DEF InitBinding
<1>2. BindingTypeOK
  BY <1>1 DEF BindingTypeOK
<1>3. ProbeHolds /\ UnwindHolds /\ BoundHolds /\ RemoveHolds
  BY <1>1 DEF ProbeHolds, UnwindHolds, BoundHolds, RemoveHolds
<1> QED BY <1>2, <1>3 DEF BindingIInv

\* Nothing happens.
LEMMA BindingStutters ==
  ASSUME BindingIInv, UNCHANGED bindingVars
  PROVE  BindingIInv'
<1>1. /\ bus' = bus /\ phase' = phase /\ pc' = pc /\ held' = held /\ wrong' = wrong
      /\ up' = up
  BY DEF bindingVars
<1>2. Probe' = Probe /\ Unwind' = Unwind /\ Remove' = Remove /\ Needed' = Needed
  BY <1>1, Same
<1>3. BindingTypeOK'
  BY <1>1, <1>2 DEF BindingIInv, BindingTypeOK
<1>4. ProbeHolds' /\ UnwindHolds' /\ BoundHolds' /\ RemoveHolds'
  BY <1>1, <1>2 DEF BindingIInv, ProbeHolds, UnwindHolds, BoundHolds, RemoveHolds
<1> QED BY <1>3, <1>4 DEF BindingIInv

\* The invariant holds of every binding to every bus.
THEOREM BindingIInvHolds == SpecBinding => []BindingIInv
<1>1. InitBinding => BindingIInv
  BY BindingStarts
<1>2. BindingIInv /\ [NextBinding]_bindingVars => BindingIInv'
  BY StartKeeps, OkKeeps, FailKeeps, UnwindKeeps, OpenKeeps, PowerKeeps, RemoveStartKeeps,
     RemoveKeeps, BindingStutters DEF NextBinding
<1> QED BY <1>1, <1>2, PTL DEF SpecBinding

\* What the invariant says of callers and of removals.
LEMMA IInvMeansAll ==
  ASSUME BindingIInv
  PROVE  CallersFindAll /\ RemoveLeavesNothing
<1>1. BindingTypeOK /\ RemoveLeavesNothing
  BY DEF BindingIInv, RemoveHolds, RemoveLeavesNothing
<1>2. /\ bus \in {"pci", "vlynq", "mem", "usb"}
      /\ phase \in {"none", "probe", "unwind", "failed", "bound", "remove", "removed",
                    "suspend", "suspended"}
  BY <1>1, BusIsOne DEF BindingTypeOK
<1>3. CASE phase = "probe"
  <2>1. "registered" \notin held
    <3>1. pc \in 1..Len(Probe) /\ Len(Probe) \in Nat
      BY <1>1, <1>2, <1>3, ProbeFacts DEF BindingTypeOK
    <3>2. \A j \in 1..(pc - 1) : Probe[j].gets # "registered"
      BY <1>2, <3>1, BeforeIn, ProbeFacts
    <3> QED BY <1>3, <3>2 DEF BindingIInv, ProbeHolds
  <2>2. "irq" \in held => Registers \subseteq held
    BY <1>3, ProbeHasRegisters DEF BindingIInv
  <2> QED BY <1>1, <2>1, <2>2 DEF CallersFindAll, HandlerIsSafe, CallbacksFindAll, Registers
<1>4. CASE phase \in {"none", "unwind", "failed", "removed"}
  <2>1. "registered" \notin held
    BY <1>4 DEF BindingIInv, UnwindHolds
  <2>2. "irq" \in held /\ bus # "vlynq" => Registers \subseteq held
    BY <1>4 DEF BindingIInv, UnwindHolds
  <2>3. phase \notin {"unwind", "failed"} => held = {}
    BY <1>4 DEF BindingIInv, UnwindHolds, RemoveHolds
  <2> QED BY <1>1, <2>1, <2>2, <2>3
          DEF CallersFindAll, HandlerIsSafe, CallbacksFindAll, Registers
<1>5. CASE phase \in {"bound", "suspend", "suspended", "remove"}
  <2>1. /\ "registered" \in held => Needed \subseteq held /\ (bus # "usb" => "dma" \in held)
        /\ bus = "usb" => "irq" \notin held
    BY <1>5 DEF BindingIInv, BoundHolds, RemoveHolds, UnwindHolds
  <2>2. "irq" \in held => Registers \subseteq held
    BY <1>5, <2>1, NeededIsKept DEF BindingIInv, BoundHolds, RemoveHolds
  <2>3. HandlerIsSafe
    BY <2>2 DEF HandlerIsSafe, Registers
  <2>4. CallbacksFindAll
    BY <2>1 DEF CallbacksFindAll, Needed, Registers
  <2> QED BY <1>1, <2>3, <2>4 DEF CallersFindAll
<1> QED BY <1>2, <1>3, <1>4, <1>5

\* At every step of a probe, a removal, a suspend or a resume, and wherever a probe fails,
\* the interrupt handler (but that of a failed VLYNQ probe) and mac80211's callbacks find
\* what they use.
THEOREM CallersAlwaysFindAll == SpecBinding => []CallersFindAll
  BY BindingIInvHolds, IInvMeansAll, PTL

\* When acxpci_e_remove and the like have returned, what probe, suspend and resume have
\* acquired is released.
THEOREM RemoveAlwaysLeavesNothing == SpecBinding => []RemoveLeavesNothing
  BY BindingIInvHolds, IInvMeansAll, PTL
===============================================================================
