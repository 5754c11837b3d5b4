------------------------------- MODULE AfterIrq -------------------------------
(***************************************************************************)
(* The jobs that acx_schedule_task leaves for the end of acx_irq_work: the *)
(* bits of after_interrupt_jobs, set from acx_op_set_tim without any lock, *)
(* from the interrupt handler and from acx_irq_work itself, and served by  *)
(* acx_after_interrupt_task, with the radio recalibration's pause and      *)
(* retries; and acx_stop, which cancels the work they are for.             *)
(***************************************************************************)
EXTENDS Naturals, FiniteSets

CONSTANT
  MAX_FAILURES     \* a failed recalibration is resubmitted so many times (5)

ASSUME AfterIrqAssumption == MAX_FAILURES \in Nat

VARIABLES
  SMP,           \* SET_BIT and CLEAR_BIT are not atomic: other CPUs interleave
  HW_UP,         \* ACX_FLAG_HW_UP, and with it irqs_active
  jobs,          \* after_interrupt_jobs, as a set of bits
  loaded,        \* what a SET_BIT or CLEAR_BIT has loaded and not stored yet
  at,            \* where acx_op_set_tim, acx_interrupt, acx_irq_work and acx_stop are
  irqQueued,     \* irq_work is queued
  irqMasked,     \* the interrupts are masked
  left,          \* a stop took the work away from jobs that are noted
  coolingDown,   \* recalib_time_last_success is less than RECALIB_PAUSE ago
  retryWindow,   \* recalib_time_last_attempt is at most 5 seconds ago
  recalib_failure_count,
  timChanged,    \* a set_tim the beacon's TIM in the adapter does not show yet
  recalibWanted, \* tx errors asked for a recalibration nobody considered yet
  resubmitted    \* a failed recalibration was resubmitted and not considered yet

state   == <<SMP, HW_UP>>
work    == <<irqQueued, irqMasked, left>>
recalib == <<coolingDown, retryWindow, recalib_failure_count>>
wants   == <<timChanged, recalibWanted, resubmitted>>
vars    == <<state, jobs, loaded, at, work, recalib, wants>>

Threads == {"set_tim", "interrupt", "irq_work", "stop"}
Jobs == {"RADIO_RECALIB", "UPDATE_TIM"}

Init ==
  /\ SMP \in BOOLEAN /\ HW_UP = FALSE
  /\ jobs = {} /\ loaded = [t \in Threads |-> {}]
  /\ at = [t \in Threads |-> "idle"]
  /\ irqQueued = FALSE /\ irqMasked = TRUE /\ left = FALSE
  /\ coolingDown = FALSE /\ retryWindow = FALSE /\ recalib_failure_count = 0
  /\ timChanged = FALSE /\ recalibWanted = FALSE /\ resubmitted = FALSE

Step(t, from, to) == at[t] = from /\ at' = [at EXCEPT ![t] = to]

\* The load of SET_BIT or CLEAR_BIT, and its store of the changed value.
Load(t) == loaded' = [loaded EXCEPT ![t] = jobs] /\ UNCHANGED jobs
Loaded(t) == IF SMP THEN loaded[t] ELSE jobs
SetBit(t, bits) == jobs' = Loaded(t) \cup bits /\ loaded' = [loaded EXCEPT ![t] = {}]
ClearBit(t, bit) == jobs' = Loaded(t) \ {bit} /\ loaded' = [loaded EXCEPT ![t] = {}]
-------------------------------------------------------------------------------
\* Mutant: the job is noted, and no work queued for it.
OnlyNoted == irqQueued

\* A work that is being cancelled cannot be queued.
Cancelled == at["stop"] = "cancel"
Queued == IF Cancelled THEN irqQueued ELSE TRUE

\* ieee80211_queue_work in acx_schedule_task
QueueIrqWork == irqQueued' = Queued /\ left' = (left \/ Cancelled)

(* acx_op_set_tim: a station began or ceased to have frames waiting for it *)

OpSetTim ==
  /\ Step("set_tim", "idle", "store")
  /\ timChanged' = TRUE
  /\ Load("set_tim")
  /\ UNCHANGED <<state, work, recalib, recalibWanted, resubmitted>>

SetTimStore ==
  /\ Step("set_tim", "store", "queue")
  /\ SetBit("set_tim", {"UPDATE_TIM"})
  /\ UNCHANGED <<state, work, recalib, wants>>

SetTimQueue ==
  /\ Step("set_tim", "queue", "idle")
  /\ QueueIrqWork
  /\ UNCHANGED <<state, jobs, loaded, irqMasked, recalib, wants>>

(* acx_interrupt: acx_schedule_task(adev, 0) *)

AcxInterrupt ==
  /\ HW_UP /\ ~irqMasked
  /\ Step("interrupt", "idle", "store")
  /\ irqMasked' = TRUE
  /\ Load("interrupt")
  /\ UNCHANGED <<state, irqQueued, left, recalib, wants>>

InterruptStore ==
  /\ Step("interrupt", "store", "queue")
  /\ SetBit("interrupt", {})
  /\ UNCHANGED <<state, work, recalib, wants>>

InterruptQueue ==
  /\ Step("interrupt", "queue", "idle")
  /\ QueueIrqWork
  /\ UNCHANGED <<state, jobs, loaded, irqMasked, recalib, wants>>
-------------------------------------------------------------------------------
(* acx_irq_work, with acx_sem from its start to its end *)

IrqWorkStart ==
  /\ irqQueued
  /\ irqQueued' = FALSE
  /\ Step("irq_work", "idle", "handle")
  /\ UNCHANGED <<state, jobs, loaded, irqMasked, left, recalib, wants>>

\* Mutant: the work is queued without a job.
NoJob == {}

\* The job that tx errors schedule.
TxErrorJob == {"RADIO_RECALIB"}

\* acxpcimem_handle_tx_error: every fourth "excessive Tx retries" asks for a
\* recalibration, unless the adapter does that by itself.
IrqWorkTxErrors ==
  /\ Step("irq_work", "handle", "errors")
  /\ recalibWanted' = TRUE
  /\ Load("irq_work")
  /\ UNCHANGED <<state, work, recalib, timChanged, resubmitted>>

IrqWorkScheduleRecalib ==
  /\ Step("irq_work", "errors", "unmask")
  /\ SetBit("irq_work", TxErrorJob)
  /\ QueueIrqWork
  /\ UNCHANGED <<state, irqMasked, recalib, wants>>

IrqWorkNoErrors ==
  /\ Step("irq_work", "handle", "unmask")
  /\ UNCHANGED <<state, jobs, loaded, work, recalib, wants>>

IrqWorkUnmask ==
  /\ Step("irq_work", "unmask", "jobs")
  /\ irqMasked' = FALSE
  /\ UNCHANGED <<state, jobs, loaded, irqQueued, left, recalib, wants>>

(* acx_after_interrupt_task *)

Recalib ==
  /\ HW_UP
  /\ Step("irq_work", "jobs",
          IF jobs = {} THEN "idle"
          ELSE IF "RADIO_RECALIB" \in jobs THEN "clear_recalib" ELSE "tim")
  /\ Load("irq_work")
  /\ left' = FALSE
  /\ UNCHANGED <<state, irqQueued, irqMasked, recalib, wants>>

\* With the hardware down the jobs stay noted.
NotUp ==
  /\ ~HW_UP
  /\ Step("irq_work", "jobs", "idle")
  /\ left' = (left \/ jobs # {})
  /\ UNCHANGED <<state, jobs, loaded, irqQueued, irqMasked, recalib, wants>>

\* acx_after_interrupt_recalib clears the flag beforehand ...
RecalibClear ==
  /\ Step("irq_work", "clear_recalib", IF coolingDown THEN "tim" ELSE "recalib")
  /\ ClearBit("irq_work", "RADIO_RECALIB")
  /\ recalibWanted' = FALSE /\ resubmitted' = FALSE
  /\ UNCHANGED <<state, work, recalib, timChanged>>

RecalibOk ==
  /\ Step("irq_work", "recalib", "tim")
  /\ coolingDown' = TRUE
  /\ recalib_failure_count' = 0
  /\ UNCHANGED <<state, jobs, loaded, work, retryWindow, wants>>

MayResubmit(failures) == failures < MAX_FAILURES

\* ... and sets it again if it fails: resubmit, but only limited amount of times.
RecalibFailed ==
  /\ at["irq_work"] = "recalib"
  /\ coolingDown' = FALSE
  /\ LET failures == IF retryWindow THEN recalib_failure_count ELSE 0
     IN IF MayResubmit(failures)
        THEN /\ recalib_failure_count' = failures + 1
             /\ retryWindow' = TRUE
             /\ resubmitted' = TRUE
             /\ Load("irq_work")
             /\ Step("irq_work", "recalib", "resubmit")
        ELSE /\ recalib_failure_count' = failures
             /\ UNCHANGED <<state, jobs, loaded, retryWindow, resubmitted>>
             /\ Step("irq_work", "recalib", "tim")
  /\ UNCHANGED <<state, work, timChanged, recalibWanted>>

RecalibResubmit ==
  /\ Step("irq_work", "resubmit", "tim")
  /\ SetBit("irq_work", {"RADIO_RECALIB"})
  /\ QueueIrqWork
  /\ UNCHANGED <<state, irqMasked, recalib, wants>>

\* acx_do_job_update_tim asks mac80211 for the TIM and sends it to the adapter.
UpdateTim ==
  /\ "UPDATE_TIM" \in jobs
  /\ Step("irq_work", "tim", "tim_sent")
  /\ timChanged' = FALSE
  /\ UNCHANGED <<state, jobs, loaded, work, recalib, recalibWanted, resubmitted>>

NoTimUpdate ==
  /\ "UPDATE_TIM" \notin jobs
  /\ Step("irq_work", "tim", "others")
  /\ UNCHANGED <<state, jobs, loaded, work, recalib, wants>>

TimSent ==
  /\ Step("irq_work", "tim_sent", "clear_tim")
  /\ Load("irq_work")
  /\ UNCHANGED <<state, work, recalib, wants>>

TimClear ==
  /\ Step("irq_work", "clear_tim", "others")
  /\ ClearBit("irq_work", "UPDATE_TIM")
  /\ UNCHANGED <<state, work, recalib, wants>>

\* "Jobs still to be run": they are all dropped.
Others ==
  /\ Step("irq_work", "others", "idle")
  /\ jobs' = {}
  /\ UNCHANGED <<state, loaded, work, recalib, wants>>

IrqWork ==
  \/ IrqWorkStart \/ IrqWorkTxErrors \/ IrqWorkScheduleRecalib \/ IrqWorkNoErrors
  \/ IrqWorkUnmask \/ Recalib \/ NotUp \/ RecalibClear \/ RecalibOk \/ RecalibFailed
  \/ RecalibResubmit \/ UpdateTim \/ NoTimUpdate \/ TimSent \/ TimClear \/ Others
-------------------------------------------------------------------------------
(* acx_op_start and acx_stop, which need acx_sem *)

SemIsFree == at["irq_work"] = "idle"

\* An ifup may come while acx_stop has given acx_sem away.
OpStart ==
  /\ ~HW_UP /\ SemIsFree
  /\ HW_UP' = TRUE /\ irqMasked' = FALSE
  /\ UNCHANGED <<SMP, jobs, loaded, at, irqQueued, left, recalib, wants>>

\* acx_stop up to acx_irq_disable, also when the hardware is down already.
Stop ==
  /\ SemIsFree
  /\ Step("stop", "idle", "sync")
  /\ HW_UP' = FALSE /\ irqMasked' = TRUE
  /\ UNCHANGED <<SMP, jobs, loaded, irqQueued, left, recalib, wants>>

\* synchronize_irq; then, without acx_sem, cancel_work_sync takes irq_work off its queue ...
CancelIrqWork ==
  /\ at["interrupt"] = "idle"
  /\ Step("stop", "sync", "cancel")
  /\ irqQueued' = FALSE
  /\ left' = (left \/ jobs # {})
  /\ UNCHANGED <<state, jobs, loaded, irqMasked, recalib, wants>>

\* ... and waits for one that runs.
StopEnd ==
  /\ SemIsFree
  /\ Step("stop", "cancel", "idle")
  /\ UNCHANGED <<state, jobs, loaded, work, recalib, wants>>
-------------------------------------------------------------------------------
\* RECALIB_PAUSE minutes, or five seconds, go by.
PauseOver == coolingDown /\ coolingDown' = FALSE
             /\ UNCHANGED <<state, jobs, loaded, at, work, retryWindow,
                            recalib_failure_count, wants>>

WindowOver == retryWindow /\ retryWindow' = FALSE
              /\ UNCHANGED <<state, jobs, loaded, at, work, coolingDown,
                             recalib_failure_count, wants>>

Next ==
  \/ OpSetTim \/ SetTimStore \/ SetTimQueue
  \/ AcxInterrupt \/ InterruptStore \/ InterruptQueue
  \/ IrqWork
  \/ OpStart \/ Stop \/ CancelIrqWork \/ StopEnd
  \/ PauseOver \/ WindowOver

Spec == Init /\ [][Next]_vars

\* What has begun goes on; the workqueue runs what is queued.
FairSpec ==
  /\ Spec
  /\ WF_vars(SetTimStore \/ SetTimQueue)
  /\ WF_vars(InterruptStore \/ InterruptQueue)
  /\ WF_vars(IrqWork)
  /\ WF_vars(CancelIrqWork \/ StopEnd)
-------------------------------------------------------------------------------
Steps == {"idle", "store", "queue", "handle", "errors", "unmask", "jobs",
         "clear_recalib", "recalib", "resubmit", "tim", "tim_sent", "clear_tim",
         "others", "sync", "cancel"}

TypeOK ==
  /\ SMP \in BOOLEAN /\ HW_UP \in BOOLEAN
  /\ jobs \in SUBSET Jobs /\ loaded \in [Threads -> SUBSET Jobs]
  /\ at \in [Threads -> Steps]
  /\ irqQueued \in BOOLEAN /\ irqMasked \in BOOLEAN /\ left \in BOOLEAN
  /\ coolingDown \in BOOLEAN /\ retryWindow \in BOOLEAN
  /\ recalib_failure_count \in 0..MAX_FAILURES
  /\ timChanged \in BOOLEAN /\ recalibWanted \in BOOLEAN /\ resubmitted \in BOOLEAN

\* No job is left without a work to run it: as long as a bit is set, irq_work is
\* queued or running, or someone is on the way to queue it; but for the bits that a
\* stop leaves, until irq_work runs again.  This holds although the bits are set and
\* cleared by loads and stores of several CPUs, before, during and after stops.
JobsHaveWorker ==
  /\ TypeOK
  /\ jobs # {} /\ ~left =>
       irqQueued \/ at["irq_work"] # "idle" \/ \E t \in Threads : at[t] \in {"store", "queue"}

\* On one CPU, a recalibration the tx errors ask for is taken up: it is tried, or
\* left because the last one was less than RECALIB_PAUSE minutes ago, unless the
\* hardware goes down first or its work is cancelled.
RecalibFollows == recalibWanted /\ ~SMP ~> ~recalibWanted \/ ~HW_UP \/ left

-------------------------------------------------------------------------------
(* Two sentences of the source that do not hold, also of an interface that stays up; no *)
(* run checks them.                                                                     *)

\* "failed: resubmit": what was resubmitted is taken up again.
ResubmittedRuns == resubmitted ~> ~resubmitted \/ ~HW_UP \/ left

\* "Schedule the call of the after_interrupt method": the TIM in the adapter's
\* beacon follows what mac80211 says.
TimFollows == timChanged ~> ~timChanged \/ ~HW_UP \/ left
===============================================================================
