---------------------------- MODULE IrqWorkProofs ----------------------------
(***************************************************************************)
(* Proofs about what acx_irq_work has to do with: the after-interrupt jobs *)
(* it serves, for any number of retries of a recalibration (no job is left *)
(* without a work to run it), and the command mailbox whose completion     *)
(* reason it clears, for every number of commands and every firmware (what *)
(* acx_issue_cmd tells its caller).                                        *)
(***************************************************************************)
EXTENDS AfterIrq, CmdMailbox, TLAPS
-------------------------------------------------------------------------------
(* The after-interrupt jobs *)

\* Someone is on the way to queue irq_work.
OnTheWay == \E t \in Threads : at[t] \in {"store", "queue"}

Worked == jobs # {} /\ ~left => irqQueued \/ at["irq_work"] # "idle" \/ OnTheWay

LEMMA WorkedIs ==
  (JobsHaveWorker <=> TypeOK /\ Worked) /\ (JobsHaveWorker' <=> TypeOK' /\ Worked')
  BY DEF JobsHaveWorker, Worked, OnTheWay

\* A step of one thread leaves the others where they are, and on their way.
LEMMA OneSteps ==
  ASSUME TypeOK, NEW t \in Threads, NEW from, NEW to \in Steps, Step(t, from, to)
  PROVE  /\ at' \in [Threads -> Steps] /\ at[t] = from /\ at'[t] = to
         /\ \A u \in Threads \ {t} : at'[u] = at[u]
         /\ to \in {"store", "queue"} => OnTheWay'
         /\ OnTheWay /\ from \notin {"store", "queue"} => OnTheWay'
  BY DEF TypeOK, Step, OnTheWay

\* What SET_BIT and CLEAR_BIT do, atomic or not.
LEMMA BitTypes ==
  ASSUME TypeOK, NEW t \in Threads
  PROVE  /\ Load(t) => loaded' \in [Threads -> SUBSET Jobs] /\ jobs' = jobs
         /\ \A bits \in SUBSET Jobs :
              SetBit(t, bits) => loaded' \in [Threads -> SUBSET Jobs] /\ jobs' \in SUBSET Jobs
         /\ \A bit : ClearBit(t, bit) =>
              loaded' \in [Threads -> SUBSET Jobs] /\ jobs' \in SUBSET Jobs
  BY DEF TypeOK, Load, SetBit, ClearBit, Loaded

\* acx_schedule_task queues irq_work, unless a stop is cancelling it.
LEMMA Queues ==
  ASSUME TypeOK, QueueIrqWork
  PROVE  irqQueued' \in BOOLEAN /\ left' \in BOOLEAN /\ (irqQueued' \/ left')
  BY DEF TypeOK, QueueIrqWork, Queued, Cancelled

\* No job at first.
LEMMA Initially == Init => JobsHaveWorker
  <1> SUFFICES ASSUME Init PROVE TypeOK /\ jobs = {}
    BY DEF JobsHaveWorker
  <1>1. loaded \in [Threads -> SUBSET Jobs] /\ at \in [Threads -> Steps]
    BY DEF Init, Steps
  <1>2. recalib_failure_count \in 0..MAX_FAILURES
    BY AfterIrqAssumption DEF Init
  <1> QED BY <1>1, <1>2 DEF Init, TypeOK

\* acx_op_set_tim is on the way to queue irq_work until it has.
LEMMA SetTimSteps ==
  ASSUME JobsHaveWorker, OpSetTim \/ SetTimStore \/ SetTimQueue
  PROVE  JobsHaveWorker'
  <1> USE WorkedIs DEF Worked, Threads, Jobs, state, work, recalib, wants
  <1>1. CASE OpSetTim
    BY <1>1, OneSteps, BitTypes DEF OpSetTim, TypeOK, Steps
  <1>2. CASE SetTimStore
    BY <1>2, OneSteps, BitTypes DEF SetTimStore, TypeOK, Steps
  <1>3. CASE SetTimQueue
    BY <1>3, OneSteps, Queues DEF SetTimQueue, TypeOK, Steps
  <1> QED BY <1>1, <1>2, <1>3

\* So is the interrupt handler.
LEMMA InterruptSteps ==
  ASSUME JobsHaveWorker, AcxInterrupt \/ InterruptStore \/ InterruptQueue
  PROVE  JobsHaveWorker'
  <1> USE WorkedIs DEF Worked, Threads, Jobs, state, work, recalib, wants
  <1>1. CASE AcxInterrupt
    BY <1>1, OneSteps, BitTypes DEF AcxInterrupt, TypeOK, Steps
  <1>2. CASE InterruptStore
    BY <1>2, OneSteps, BitTypes DEF InterruptStore, TypeOK, Steps
  <1>3. CASE InterruptQueue
    BY <1>3, OneSteps, Queues DEF InterruptQueue, TypeOK, Steps
  <1> QED BY <1>1, <1>2, <1>3

\* acx_irq_work ends only without a job.
LEMMA IrqWorkSteps ==
  ASSUME JobsHaveWorker, IrqWork
  PROVE  JobsHaveWorker'
  <1> USE WorkedIs DEF Worked, Threads, Jobs, state, work, recalib, wants
  <1>1. CASE IrqWorkStart
    BY <1>1, OneSteps DEF IrqWorkStart, TypeOK, Steps
  <1>2. CASE IrqWorkTxErrors
    BY <1>2, OneSteps, BitTypes DEF IrqWorkTxErrors, TypeOK, Steps
  <1>3. CASE IrqWorkScheduleRecalib
    BY <1>3, OneSteps, BitTypes, Queues DEF IrqWorkScheduleRecalib, TxErrorJob, TypeOK, Steps
  <1>4. CASE IrqWorkNoErrors
    BY <1>4, OneSteps DEF IrqWorkNoErrors, TypeOK, Steps
  <1>5. CASE IrqWorkUnmask
    BY <1>5, OneSteps DEF IrqWorkUnmask, TypeOK, Steps
  <1>6. CASE Recalib
    <2> DEFINE to == IF jobs = {} THEN "idle"
                     ELSE IF "RADIO_RECALIB" \in jobs THEN "clear_recalib" ELSE "tim"
    <2>1. Step("irq_work", "jobs", to) /\ Load("irq_work") /\ left' = FALSE
          /\ UNCHANGED <<state, irqQueued, irqMasked, recalib, wants>>
      BY <1>6 DEF Recalib
    <2>2. to \in Steps /\ (jobs # {} => to # "idle")
      BY DEF Steps
    <2> HIDE DEF to
    <2>3. /\ at' \in [Threads -> Steps] /\ at'["irq_work"] = to
          /\ loaded' \in [Threads -> SUBSET Jobs] /\ jobs' = jobs
      BY <2>1, <2>2, OneSteps, BitTypes
    <2> QED BY <2>1, <2>2, <2>3 DEF TypeOK
  <1>7. CASE RecalibClear
    <2> DEFINE to == IF coolingDown THEN "tim" ELSE "recalib"
    <2>1. to \in Steps \ {"idle"}
      BY DEF Steps
    <2>2. /\ Step("irq_work", "clear_recalib", to) /\ ClearBit("irq_work", "RADIO_RECALIB")
          /\ recalibWanted' = FALSE /\ resubmitted' = FALSE
          /\ UNCHANGED <<state, work, recalib, timChanged>>
      BY <1>7 DEF RecalibClear
    <2> HIDE DEF to
    <2> QED BY <2>1, <2>2, OneSteps, BitTypes DEF TypeOK
  <1>8. CASE RecalibOk
    BY <1>8, OneSteps, AfterIrqAssumption DEF RecalibOk, TypeOK, Steps
  <1>9. CASE RecalibFailed
    <2> DEFINE failures == IF retryWindow THEN recalib_failure_count ELSE 0
    <2>1. failures \in 0..MAX_FAILURES
      BY AfterIrqAssumption DEF TypeOK
    <2>2. CASE MayResubmit(failures)
      <3>1. /\ recalib_failure_count' = failures + 1 /\ retryWindow' = TRUE
            /\ resubmitted' = TRUE /\ coolingDown' = FALSE
            /\ Load("irq_work") /\ Step("irq_work", "recalib", "resubmit")
            /\ UNCHANGED <<state, work, timChanged, recalibWanted>>
        BY <1>9, <2>2 DEF RecalibFailed
      <3>2. recalib_failure_count' \in 0..MAX_FAILURES
        BY <2>1, <2>2, <3>1, AfterIrqAssumption DEF MayResubmit
      <3> QED BY <3>1, <3>2, OneSteps, BitTypes DEF TypeOK, Steps
    <2>3. CASE ~MayResubmit(failures)
      BY <1>9, <2>1, <2>3, OneSteps DEF RecalibFailed, TypeOK, Steps
    <2> QED BY <2>2, <2>3
  <1>10. CASE RecalibResubmit
    BY <1>10, OneSteps, BitTypes, Queues DEF RecalibResubmit, TypeOK, Steps
  <1>11. CASE UpdateTim
    BY <1>11, OneSteps DEF UpdateTim, TypeOK, Steps
  <1>12. CASE NoTimUpdate
    BY <1>12, OneSteps DEF NoTimUpdate, TypeOK, Steps
  <1>13. CASE TimSent
    BY <1>13, OneSteps, BitTypes DEF TimSent, TypeOK, Steps
  <1>14. CASE TimClear
    BY <1>14, OneSteps, BitTypes DEF TimClear, TypeOK, Steps
  <1>15. CASE Others
    BY <1>15, OneSteps DEF Others, TypeOK, Steps
  <1>16. CASE NotUp
    BY <1>16, OneSteps DEF NotUp, TypeOK, Steps
  <1> QED BY <1>1, <1>2, <1>3, <1>4, <1>5, <1>6, <1>7, <1>8,
          <1>9, <1>10, <1>11, <1>12, <1>13, <1>14, <1>15, <1>16 DEF IrqWork

\* acx_stop leaves what it takes the work from, and nobody is stopped on his way.
LEMMA StopSteps ==
  ASSUME JobsHaveWorker, OpStart \/ Stop \/ CancelIrqWork \/ StopEnd
  PROVE  JobsHaveWorker'
  <1> USE WorkedIs DEF Worked, Threads, Jobs, state, work, recalib, wants
  <1>1. CASE OpStart
    BY <1>1 DEF OpStart, TypeOK, OnTheWay
  <1>2. CASE Stop
    BY <1>2, OneSteps DEF Stop, TypeOK, Steps
  <1>3. CASE CancelIrqWork
    BY <1>3, OneSteps DEF CancelIrqWork, TypeOK, Steps
  <1>4. CASE StopEnd
    BY <1>4, OneSteps DEF StopEnd, TypeOK, Steps
  <1> QED BY <1>1, <1>2, <1>3, <1>4

\* The pauses run out.
LEMMA OtherSteps ==
  ASSUME JobsHaveWorker, PauseOver \/ WindowOver \/ UNCHANGED vars
  PROVE  JobsHaveWorker'
  <1>1. TypeOK'
    <2> USE WorkedIs DEF TypeOK, state, work, recalib, wants
    <2>1. CASE PauseOver
      BY <2>1 DEF PauseOver
    <2>2. CASE WindowOver
      BY <2>2 DEF WindowOver
    <2>3. CASE UNCHANGED vars
      BY <2>3 DEF vars
    <2> QED BY <2>1, <2>2, <2>3
  <1>2. Worked'
    BY WorkedIs
    DEF Worked, OnTheWay, PauseOver, WindowOver, vars, state, work, recalib, wants
  <1> QED BY <1>1, <1>2, WorkedIs

\* However the loads and stores of the bits interleave with each other and with stops,
\* a job that is noted has a work that is queued, running, or about to be queued, but
\* for those a stop has left until irq_work runs again.
THEOREM JobsAlwaysHaveWorker == Spec => []JobsHaveWorker
  <1>1. JobsHaveWorker /\ [Next]_vars => JobsHaveWorker'
    BY SetTimSteps, InterruptSteps, IrqWorkSteps, StopSteps, OtherSteps DEF Next
  <1> QED BY <1>1, Initially, PTL DEF Spec

-------------------------------------------------------------------------------
(* The command mailbox: its inductive invariant is MailboxIInv of CmdMailbox. *)

\* The mailbox starts idle.
LEMMA MailboxInit == InitMailbox => MailboxIInv
<1> SUFFICES ASSUME InitMailbox PROVE MailboxIInv
  OBVIOUS
<1>1. MailboxTypeOK
  <2>1. /\ cmd \in 0..MaxCommands /\ cmd_type \in 0..MaxCommands /\ params \in 0..MaxCommands
        /\ buffer \in 0..MaxCommands /\ fwCmd \in 0..MaxCommands
    BY CmdMailboxAssumption DEF InitMailbox, CMD_RESET
  <2> QED BY <2>1 DEF InitMailbox, MailboxTypeOK, Statuses, Commands
<1>2. ResultIsOwn
  BY <1>1 DEF InitMailbox, ResultIsOwn, CompletionIsOwn, IdleWhenInTime, OkNeedsSuccess
<1>3. NothingInvented /\ InTime
  BY DEF InitMailbox, NothingInvented, InTime, Quiet, CMD_RESET
<1> QED BY <1>2, <1>3 DEF MailboxIInv

\* Every variable keeps its type.
LEMMA MailboxTypes ==
  ASSUME MailboxIInv, [NextMailbox]_mailboxVars
  PROVE  MailboxTypeOK'
<1>1. MailboxTypeOK /\ (fwStep = "busy" => fwCmd \in Commands)
  BY CmdMailboxAssumption
  DEF MailboxIInv, ResultIsOwn, NothingInvented, MailboxTypeOK, Commands
<1> USE DEF MailboxTypeOK, mailboxVars, area, result, fw, CallerStep
<1>2. CASE IssueCmd
  BY <1>1, <1>2, CmdMailboxAssumption DEF IssueCmd
<1>3. CASE Caller
  <2>1. CASE WaitedForIdle \/ NotIdle \/ WriteCmd
    BY <1>1, <2>1 DEF WaitedForIdle, NotIdle, WriteCmd, Statuses
  <2>2. CASE Trigger
    BY <1>1, <2>2 DEF Trigger
  <2>3. CASE CmdCompleted
    BY <1>1, <2>3 DEF CmdCompleted, AfterAck
  <2>4. CASE CmdTimedOut
    <3>1. slow' \in BOOLEAN
      BY <2>4 DEF CmdTimedOut
    <3> QED BY <1>1, <2>4, <3>1 DEF CmdTimedOut
  <2>5. CASE ReadStatus
    BY <1>1, <2>5 DEF ReadStatus
  <2>6. CASE PutInIdleState
    <3>1. cmd_type' \in 0..MaxCommands /\ cmd_status' \in Statuses
      BY <2>6, CmdMailboxAssumption DEF PutInIdleState, CMD_RESET, StatusAfterReset, Statuses
    <3> QED BY <1>1, <2>6, <3>1 DEF PutInIdleState
  <2>7. CASE IssueCmdEnd
    <3>1. rc' \in {OK, NOT_OK} /\ buffer' \in 0..MaxCommands
      BY <1>1, <2>7, CmdMailboxAssumption DEF IssueCmdEnd, ReturnCode
    <3> QED BY <1>1, <2>7, <3>1 DEF IssueCmdEnd
  <2> QED BY <1>3, <2>1, <2>2, <2>3, <2>4, <2>5, <2>6, <2>7 DEF Caller
<1>4. CASE IrqWorkRead
  BY <1>1, <1>4 DEF IrqWorkRead
<1>5. CASE FwAccept \/ FwFinish \/ FwRaise
  <2>1. CASE FwAccept
    BY <1>1, <2>1 DEF FwAccept
  <2>2. CASE FwFinish
    BY <1>1, <2>2 DEF FwFinish, Statuses, Commands
  <2>3. CASE FwRaise
    BY <1>1, <2>3 DEF FwRaise
  <2> QED BY <1>5, <2>1, <2>2, <2>3
<1>6. CASE UNCHANGED mailboxVars
  BY <1>1, <1>6
<1> QED BY <1>2, <1>3, <1>4, <1>5, <1>6 DEF NextMailbox

\* Nothing is made up, whether the firmware is in time or not.
LEMMA MailboxInvented ==
  ASSUME MailboxIInv, [NextMailbox]_mailboxVars
  PROVE  NothingInvented' /\ OkNeedsSuccess'
<1>1. MailboxTypeOK /\ NothingInvented /\ OkNeedsSuccess
  BY DEF MailboxIInv, ResultIsOwn
<1>2. SomeSuccess /\ UNCHANGED <<cmd, done>> => SomeSuccess'
  BY DEF SomeSuccess
<1> USE DEF MailboxTypeOK, NothingInvented, OkNeedsSuccess, mailboxVars, area, result, fw,
            CallerStep
<1>3. CASE IssueCmd
  <2>1. SomeSuccess => SomeSuccess'
    BY <1>1, <1>3 DEF IssueCmd, SomeSuccess
  <2>2. /\ cmd \in Nat /\ cmd_type \in Nat /\ cmd' = cmd + 1 /\ stage' = "wait_idle"
        /\ UNCHANGED <<cmd_type, cmd_status, saved, fwStep, fwCmd, done>>
    BY <1>1, <1>3 DEF IssueCmd
  <2>3. /\ cmd_type' <= cmd' /\ cmd' # 0
        /\ fwStep' = "busy" => fwCmd' \in 1..cmd'
        /\ \A c \in Commands : c > cmd' => done'[c] = {}
    BY <1>1, <2>2 DEF Commands
  <2> QED BY <1>1, <2>1, <2>2, <2>3
<1>4. CASE WaitedForIdle \/ NotIdle \/ WriteCmd \/ Trigger \/ CmdCompleted \/ CmdTimedOut
  BY <1>1, <1>2, <1>4
  DEF WaitedForIdle, NotIdle, WriteCmd, Trigger, CmdCompleted, CmdTimedOut, OK, NOT_OK
<1>5. CASE ReadStatus \/ PutInIdleState
  BY <1>1, <1>2, <1>5 DEF ReadStatus, PutInIdleState, StatusAfterReset, CMD_RESET
<1>6. CASE IssueCmdEnd
  BY <1>1, <1>2, <1>6 DEF IssueCmdEnd, ReturnCode, Success, SomeSuccess, OK, NOT_OK
<1>7. CASE IrqWorkRead \/ FwAccept \/ FwRaise
  BY <1>1, <1>2, <1>7 DEF IrqWorkRead, FwAccept, FwRaise, CMD_RESET
<1>8. CASE FwFinish
  BY <1>1, <1>8 DEF FwFinish, SomeSuccess, Commands
<1>9. CASE UNCHANGED mailboxVars
  BY <1>1, <1>2, <1>9
<1> QED BY <1>3, <1>4, <1>5, <1>6, <1>7, <1>8, <1>9 DEF NextMailbox, Caller

\* A firmware that is in time keeps step with acx_issue_cmd.
LEMMA MailboxInTime ==
  ASSUME MailboxIInv, [NextMailbox]_mailboxVars, ~slow'
  PROVE  /\ ~slow /\ InTime'
         /\ stage' = "idle" /\ cmd' # 0 =>
              /\ done'[cmd'] = IF rc' = OK THEN {"SUCCESS"} ELSE {"ERROR"}
              /\ rc' = OK => buffer' = cmd'
<1>1. ~slow
  BY DEF NextMailbox, IssueCmd, Caller, WaitedForIdle, NotIdle, WriteCmd, Trigger, CmdCompleted,
         CmdTimedOut, ReadStatus, PutInIdleState, IssueCmdEnd, IrqWorkRead, FwAccept,
         FwFinish, FwRaise, mailboxVars
<1> DEFINE Told ==
             stage = "idle" /\ cmd # 0 =>
               /\ done[cmd] = IF rc = OK THEN {"SUCCESS"} ELSE {"ERROR"}
               /\ rc = OK => buffer = cmd
<1>2. MailboxTypeOK /\ NothingInvented /\ InTime /\ Told
  BY <1>1 DEF MailboxIInv, ResultIsOwn
<1> SUFFICES InTime' /\ Told'
  BY <1>1
<1> USE DEF MailboxTypeOK, InTime, Quiet, Answered, mailboxVars, area, result, fw, CallerStep
<1>3. CASE IssueCmd
  <2>1. cmd + 1 \in Commands /\ cmd + 1 > cmd
    BY <1>2, <1>3, CmdMailboxAssumption DEF IssueCmd, Commands
  <2>2. done[cmd + 1] = {}
    BY <1>2, <2>1 DEF NothingInvented
  <2> QED BY <1>2, <1>3, <2>2 DEF IssueCmd
<1>4. CASE WaitedForIdle
  BY <1>2, <1>4 DEF WaitedForIdle
<1>5. CASE NotIdle
  BY <1>2, <1>5 DEF NotIdle
<1>6. CASE WriteCmd
  BY <1>2, <1>6 DEF WriteCmd
<1>7. CASE Trigger
  BY <1>2, <1>7 DEF Trigger
<1>8. CASE CmdCompleted
  BY <1>2, <1>8 DEF CmdCompleted, AfterAck
<1>9. CASE CmdTimedOut
  BY <1>2, <1>9 DEF CmdTimedOut
<1>10. CASE ReadStatus
  BY <1>2, <1>10 DEF ReadStatus
<1>11. CASE PutInIdleState
  BY <1>2, <1>11 DEF PutInIdleState, StatusAfterReset
<1>12. CASE IssueCmdEnd
  <2>1. saved \in {"SUCCESS", "ERROR"} /\ done[cmd] = {saved} /\ params = cmd
    BY <1>2, <1>12 DEF IssueCmdEnd, Statuses
  <2> QED BY <1>2, <1>12, <2>1 DEF IssueCmdEnd, ReturnCode, Success, OK, NOT_OK
<1>13. CASE IrqWorkRead
  BY <1>2, <1>13 DEF IrqWorkRead, HasSem
<1>14. CASE FwAccept
  <2>1. stage = "poll" /\ cmd_type = cmd /\ cmd # 0
    BY <1>2, <1>14 DEF FwAccept, NothingInvented
  <2> QED BY <1>2, <1>14, <2>1 DEF FwAccept, CMD_RESET
<1>15. CASE FwFinish
  <2>1. stage = "poll" /\ fwCmd = cmd /\ done[cmd] = {} /\ cmd \in Commands
    BY <1>2, <1>15 DEF FwFinish, NothingInvented, Commands
  <2>2. /\ cmd_status' # "IDLE" /\ done'[cmd] = {cmd_status'}
        /\ params' = cmd
    BY <1>2, <1>15, <2>1 DEF FwFinish
  <2> QED BY <1>2, <1>15, <2>1, <2>2 DEF FwFinish
<1>16. CASE FwRaise
  BY <1>2, <1>16 DEF FwRaise
<1>17. CASE UNCHANGED mailboxVars
  BY <1>2, <1>17
<1> QED
  BY <1>3, <1>4, <1>5, <1>6, <1>7, <1>8, <1>9, <1>10, <1>11, <1>12, <1>13, <1>14, <1>15,
     <1>16, <1>17 DEF NextMailbox, Caller

\* MailboxIInv is inductive.
LEMMA MailboxNext == MailboxIInv /\ [NextMailbox]_mailboxVars => MailboxIInv'
<1> SUFFICES ASSUME MailboxIInv, [NextMailbox]_mailboxVars PROVE MailboxIInv'
  OBVIOUS
<1>1. MailboxTypeOK' /\ NothingInvented' /\ OkNeedsSuccess'
  BY MailboxTypes, MailboxInvented
<1>2. ~slow' => InTime'
  BY MailboxInTime
<1>3. CompletionIsOwn' /\ IdleWhenInTime'
  BY <1>2 DEF CompletionIsOwn, IdleWhenInTime, InTime
<1>4. ResultIsOwn'
  BY <1>1, <1>3, MailboxInTime DEF ResultIsOwn
<1> QED BY <1>1, <1>2, <1>4 DEF MailboxIInv

\* The invariant holds of every behaviour.
THEOREM MailboxInvariance == SpecMailbox => []MailboxIInv
<1>1. InitMailbox => MailboxIInv
  BY MailboxInit
<1>2. MailboxIInv /\ [NextMailbox]_mailboxVars => MailboxIInv'
  BY MailboxNext
<1> QED BY <1>1, <1>2, PTL DEF SpecMailbox

\* As long as the firmware is in time, acx_issue_cmd tells its caller what became of
\* this very command and returns its result; and never OK before some success.
THEOREM ResultIsAlwaysOwn == SpecMailbox => []ResultIsOwn
<1>1. MailboxIInv => ResultIsOwn
  BY DEF MailboxIInv
<1> QED BY <1>1, MailboxInvariance, PTL
===============================================================================
