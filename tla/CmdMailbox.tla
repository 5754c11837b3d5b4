------------------------------ MODULE CmdMailbox ------------------------------
(***************************************************************************)
(* The command mailbox of the PCI and the memory-mapped adapters: what     *)
(* acx_issue_cmd does with the command area, the CMD_COMPLETE reason and   *)
(* its two timeouts, the firmware at the other end, and acx_irq_work, which*)
(* clears the reason register when it reads it.  Callers hold acx_sem, so  *)
(* there is one command at a time; the firmware is loaded.                 *)
(***************************************************************************)
EXTENDS Naturals

CONSTANT
  MaxCommands  \* bound: commands issued in a behaviour

ASSUME CmdMailboxAssumption == MaxCommands \in Nat

VARIABLES
  stage,       \* where in acx_issue_cmd the caller is
  cmd,         \* the command, a number of its own; 0 before the first
  cmd_type, cmd_status,  \* the first word of cmd_area
  params,      \* the rest of it: the command whose parameters or result it holds
  cmd_complete,\* HOST_INT_CMD_COMPLETE is set in the reason register
  saved,       \* the cmd_status saved before the card is put in IDLE state
  rc, buffer,  \* the outcome of the last command, and whose result it returned
  trigger,     \* INT_TRIG_CMD was written and the firmware has not seen it yet
  fwStep,      \* the firmware: idle, busy, or about to raise CMD_COMPLETE
  fwCmd,       \* the command it works on
  done,        \* per command, the outcomes of its executions, of which there may be two
  slow         \* some answer did not come within the caller's cmd_timeout (history)

area   == <<cmd_type, cmd_status, params>>
result == <<saved, rc, buffer>>
fw     == <<trigger, fwStep, fwCmd, done>>
mailboxVars == <<stage, cmd, area, cmd_complete, result, fw, slow>>

Commands == 1..MaxCommands
CMD_RESET == 0
OK == "OK"
NOT_OK == "NOT_OK"

InitMailbox ==
  /\ stage = "idle" /\ cmd = 0
  /\ cmd_type = CMD_RESET /\ cmd_status = "IDLE" /\ params = 0
  /\ cmd_complete = FALSE
  /\ saved = "IDLE" /\ rc = OK /\ buffer = 0
  /\ trigger = FALSE /\ fwStep = "idle" /\ fwCmd = 0
  /\ done = [c \in Commands |-> {}]
  /\ slow = FALSE

CallerStep(from, to) == stage = from /\ stage' = to
-------------------------------------------------------------------------------
(* acx_issue_cmd *)

IssueCmd ==
  /\ cmd < MaxCommands
  /\ CallerStep("idle", "wait_idle")
  /\ cmd' = cmd + 1
  /\ UNCHANGED <<slow, area, cmd_complete, result, fw>>

\* acx_wait_cmd_status: the status is polled for 199 ms.
WaitedForIdle ==
  /\ cmd_status = "IDLE"
  /\ CallerStep("wait_idle", "write_cmd")
  /\ params' = cmd
  /\ UNCHANGED <<slow, cmd, cmd_type, cmd_status, cmd_complete, result, fw>>

\* "the card doesn't get idle, we're in trouble": the area is left as it is.
NotIdle ==
  /\ cmd_status # "IDLE"
  /\ CallerStep("wait_idle", "idle")
  /\ rc' = NOT_OK
  /\ UNCHANGED <<slow, cmd, area, cmd_complete, saved, buffer, fw>>

WriteCmd ==
  /\ CallerStep("write_cmd", "trigger")
  /\ cmd_type' = cmd /\ cmd_status' = "IDLE"
  /\ UNCHANGED <<slow, cmd, params, cmd_complete, result, fw>>

Trigger ==
  /\ CallerStep("trigger", "poll")
  /\ trigger' = TRUE
  /\ UNCHANGED <<slow, cmd, area, cmd_complete, result, fwStep, fwCmd, done>>

\* Mutant: CMD_COMPLETE is not acknowledged.
NotAcked == cmd_complete

AfterAck == FALSE

CmdCompleted ==
  /\ cmd_complete
  /\ CallerStep("poll", "read_status")
  /\ cmd_complete' = AfterAck
  /\ UNCHANGED <<slow, cmd, area, result, fw>>

\* Mutant: the caller waits until the firmware answers.
NeverGivesUp == FALSE

\* The caller gives up after cmd_timeout, whatever the firmware is at.
GivesUp == TRUE

CmdTimedOut ==
  /\ ~cmd_complete
  /\ GivesUp
  /\ CallerStep("poll", "read_status")
  /\ slow' = (slow \/ trigger \/ fwStep # "idle")
  /\ UNCHANGED <<cmd, area, cmd_complete, result, fw>>

ReadStatus ==
  /\ CallerStep("read_status", "reset")
  /\ saved' = cmd_status
  /\ UNCHANGED <<slow, cmd, area, cmd_complete, rc, buffer, fw>>

\* acx_write_cmd_type_status(adev, ACX1xx_CMD_RESET, 0): put the card in IDLE state
StatusAfterReset == "IDLE"

PutInIdleState ==
  /\ CallerStep("reset", "result")
  /\ cmd_type' = CMD_RESET /\ cmd_status' = StatusAfterReset
  /\ UNCHANGED <<slow, cmd, params, cmd_complete, result, fw>>

Success(status) == status = "SUCCESS"

ReturnCode(status) == IF Success(status) THEN OK ELSE NOT_OK

\* The result is what the area holds now.
IssueCmdEnd ==
  /\ CallerStep("result", "idle")
  /\ rc' = ReturnCode(saved)
  /\ buffer' = IF Success(saved) THEN params ELSE 0
  /\ UNCHANGED <<slow, cmd, area, cmd_complete, saved, fw>>

(* acx_irq_work: read_reg16(adev, IO_ACX_IRQ_REASON) *)

HasSem == stage = "idle"

IrqWorkRead ==
  /\ HasSem
  /\ cmd_complete
  /\ cmd_complete' = FALSE
  /\ UNCHANGED <<slow, stage, cmd, area, result, fw>>
-------------------------------------------------------------------------------
(* The firmware *)

FwAccept ==
  /\ trigger /\ fwStep = "idle"
  /\ trigger' = FALSE
  /\ IF cmd_type = CMD_RESET
     THEN UNCHANGED <<fwStep, fwCmd>>
     ELSE fwStep' = "busy" /\ fwCmd' = cmd_type
  /\ UNCHANGED <<slow, stage, cmd, area, cmd_complete, result, done>>

FwFinish ==
  /\ fwStep = "busy"
  /\ fwStep' = "raise"
  /\ \E s \in {"SUCCESS", "ERROR"} :
       cmd_status' = s /\ done' = [done EXCEPT ![fwCmd] = @ \cup {s}]
  /\ params' = fwCmd
  /\ UNCHANGED <<slow, stage, cmd, cmd_type, cmd_complete, result, trigger, fwCmd>>

FwRaise ==
  /\ fwStep = "raise"
  /\ fwStep' = "idle"
  /\ cmd_complete' = TRUE
  /\ UNCHANGED <<slow, stage, cmd, area, result, trigger, fwCmd, done>>

Caller ==
  \/ WaitedForIdle \/ NotIdle \/ WriteCmd \/ Trigger
  \/ CmdCompleted \/ CmdTimedOut \/ ReadStatus \/ PutInIdleState \/ IssueCmdEnd

NextMailbox ==
  \/ IssueCmd
  \/ Caller
  \/ IrqWorkRead
  \/ FwAccept \/ FwFinish \/ FwRaise

SpecMailbox == InitMailbox /\ [][NextMailbox]_mailboxVars

\* The caller runs on; the firmware need not.
FairSpecMailbox == SpecMailbox /\ WF_mailboxVars(Caller)
-------------------------------------------------------------------------------
Statuses == {"IDLE", "SUCCESS", "ERROR"}

MailboxTypeOK ==
  /\ stage \in {"idle", "wait_idle", "write_cmd", "trigger", "poll", "read_status", "reset",
                "result"}
  /\ cmd \in 0..MaxCommands
  /\ cmd_type \in 0..MaxCommands /\ cmd_status \in Statuses /\ params \in 0..MaxCommands
  /\ cmd_complete \in BOOLEAN
  /\ saved \in Statuses /\ rc \in {OK, NOT_OK} /\ buffer \in 0..MaxCommands
  /\ trigger \in BOOLEAN /\ fwStep \in {"idle", "busy", "raise"} /\ fwCmd \in 0..MaxCommands
  /\ slow \in BOOLEAN
  /\ done \in [Commands -> SUBSET {"SUCCESS", "ERROR"}]

\* The caller sees the end of its own command: nobody else clears the reason, and
\* it is not left over from an earlier command.
CompletionIsOwn == stage = "poll" /\ ~slow /\ ~trigger /\ fwStep = "idle" => cmd_complete

\* "put the card in IDLE state": the next command finds it there.
IdleWhenInTime == stage = "idle" /\ ~slow => cmd_status = "IDLE"

\* However slow the firmware is, OK is not returned before it has done some command
\* with success.
OkNeedsSuccess == cmd # 0 /\ stage = "idle" /\ rc = OK => \E c \in 1..cmd : "SUCCESS" \in done[c]

\* As long as the firmware is in time, acx_issue_cmd tells its caller what it made of
\* this very command, returns this command's result, and leaves the mailbox idle.
ResultIsOwn ==
  /\ MailboxTypeOK /\ CompletionIsOwn /\ IdleWhenInTime /\ OkNeedsSuccess
  /\ stage = "idle" /\ cmd # 0 /\ ~slow =>
       /\ done[cmd] = IF rc = OK THEN {"SUCCESS"} ELSE {"ERROR"}
       /\ rc = OK => buffer = cmd

\* The inductive strengthening of ResultIsOwn.  What holds however slow the firmware
\* is: it knows no command that has not been issued, and nobody is told of a success
\* that has not been.
SomeSuccess == \E c \in 1..cmd : "SUCCESS" \in done[c]

NothingInvented ==
  /\ cmd_type <= cmd
  /\ fwStep = "busy" => fwCmd \in 1..cmd
  /\ \A c \in Commands : c > cmd => done[c] = {}
  /\ cmd_status = "SUCCESS" \/ saved = "SUCCESS" => SomeSuccess
  /\ stage # "idle" => cmd # 0

\* The firmware has finished this command and put its result into the area.
Answered(status) == status # "IDLE" /\ done[cmd] = {status} /\ params = cmd

Quiet == ~trigger /\ fwStep = "idle" /\ ~cmd_complete

\* Where the mailbox is at each step of acx_issue_cmd, as long as the firmware is in
\* time.
InTime ==
  /\ stage # "poll" => Quiet
  /\ stage \in {"idle", "wait_idle", "write_cmd", "trigger", "result"} => cmd_status = "IDLE"
  /\ stage \in {"wait_idle", "write_cmd", "trigger"} => done[cmd] = {}
  /\ stage = "trigger" => cmd_type = cmd
  /\ stage = "poll" =>
       \/ trigger /\ fwStep = "idle" /\ ~cmd_complete /\ cmd_type = cmd /\ done[cmd] = {}
       \/ ~trigger /\ fwStep = "busy" /\ ~cmd_complete /\ fwCmd = cmd /\ done[cmd] = {}
       \/ ~trigger /\ fwStep = "raise" /\ ~cmd_complete /\ Answered(cmd_status)
       \/ ~trigger /\ fwStep = "idle" /\ cmd_complete /\ Answered(cmd_status)
  /\ stage = "read_status" => Answered(cmd_status)
  /\ stage \in {"reset", "result"} => Answered(saved)

MailboxIInv == ResultIsOwn /\ NothingInvented /\ (~slow => InTime)

\* However slow or dead the firmware is, acx_issue_cmd returns, and with it the
\* acx_sem that its caller holds.
IssueCmdReturns == stage # "idle" ~> stage = "idle"

-------------------------------------------------------------------------------
(* Sentences of the source that do not hold; no run checks them. *)

\* "put the card in IDLE state": the next command finds it there, whatever timed out
\* before.
IdleAgain == stage = "idle" => cmd_status = "IDLE"

\* "wait for firmware to become idle for our command submission"
SubmitsToIdle == stage = "poll" /\ trigger => fwStep = "idle"
===============================================================================
