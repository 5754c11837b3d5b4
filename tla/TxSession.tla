------------------------------- MODULE TxSession -------------------------------
(***************************************************************************)
(* The transmit path of an interface that goes down and up: acx_op_stop,   *)
(* acx_op_start, and acx_recover_hw, which stops the adapter under          *)
(* mac80211's feet while callers of acx_op_tx are under way.  What TxPath  *)
(* does goes on meanwhile; acx_sem and ACX_FLAG_HW_UP say how much of it.  *)
(***************************************************************************)
EXTENDS TxPath

CONSTANT MaxStops \* bound: stops and recoveries in a behaviour

ASSUME TxSessionAssumption == MaxStops \in Nat

VARIABLES
  HW_UP,        \* ACX_FLAG_HW_UP
  irqs_active,  \* adev->irqs_active
  at,           \* where in acx_op_start or acx_stop its caller is, or "up", "down"
  recovering,   \* that caller is acx_recover_hw or the restart it asked for
  stops,        \* stops so far
  forgotten,    \* frames flushed without a status and without being freed
  lost          \* frames that were in the ring when the adapter was reset

flags   == <<HW_UP, irqs_active>>
fates   == <<forgotten, lost>>
session == <<flags, at, recovering, stops, fates>>
sessionVars == <<vars, session>>

SessionInit ==
  /\ Init
  /\ HW_UP = TRUE /\ irqs_active = TRUE
  /\ at = "up" /\ recovering = FALSE /\ stops = 0
  /\ forgotten = 0 /\ lost = 0

Move(from, to) == at = from /\ at' = to
-------------------------------------------------------------------------------
(* What TxPath does, as far as the session lets it *)

\* mac80211 sends on an interface it takes for running: also in the middle of a
\* recovery, until ieee80211_restart_hw stops its queues.
MacUp ==
  \/ at = "up"
  \/ recovering /\ at \in {"stop", "cancel_irq", "cancel_tx", "flush_lock", "flush"}

Call(c, f) == MacUp /\ OpTxCall(c, f) /\ UNCHANGED session
Send(c) == OpTx(c) /\ UNCHANGED session

\* acx_sem is held by acx_stop up to acx_irq_disable and from the flush on, and by
\* acx_op_start.  A work that waits for it has done nothing yet: it counts as queued.
SemHeld == at \in {"flush", "start_up"}

Work ==
  /\ \/ StartWork /\ ~SemHeld
     \/ TxWork /\ HW_UP
     \/ IrqWork
  /\ UNCHANGED session

\* acx_tx_work looks at ACX_FLAG_HW_UP first; acx_irq_work does not.
TxWorkDown ==
  /\ running = "tx_work" /\ ~HW_UP
  /\ EndWork
  /\ UNCHANGED <<ring, tx_queue, queue, calls, statuses, irq, session>>

Adapter == Acx /\ UNCHANGED session

Interrupt == irqs_active /\ AcxInterrupt /\ UNCHANGED session
-------------------------------------------------------------------------------
(* acx_stop *)

\* mac80211 has stopped its own queues and waited for callers of the driver before
\* it takes the interface down, perhaps before a restart has got its turn.
OpStop ==
  /\ stops < MaxStops
  /\ \A c \in Cpus : op_tx[c] = "idle"
  /\ Move("up", "stop") \/ Move("restart", "stop")
  /\ stops' = stops + 1
  /\ recovering' = FALSE
  /\ UNCHANGED <<vars, flags, fates>>

\* acx_recover_hw, called by the watchdog or from debugfs, waits for nobody.
RecoverHw ==
  /\ stops < MaxStops
  /\ Move("up", "stop")
  /\ recovering' = TRUE
  /\ stops' = stops + 1
  /\ UNCHANGED <<vars, flags, fates>>

\* With acx_sem: the queues are stopped, the flag cleared, interrupts disabled.
StopIrqs ==
  /\ running = "none"
  /\ Move("stop", "cancel_irq")
  /\ stopped' = TRUE
  /\ HW_UP' = FALSE
  /\ irqMasked' = TRUE /\ irqs_active' = FALSE
  /\ UNCHANGED <<ring, tx_queue, byLength, calls, statuses, works, txComplete, otherIrq,
                 recovering, stops, fates>>

\* cancel_work_sync waits for the work if it runs.
Cancel(w) ==
  /\ running # w
  /\ \/ ~Queued(w) /\ UNCHANGED workqueue
     \/ \E i \in DOMAIN workqueue :
          /\ workqueue[i] = w
          /\ workqueue' = SubSeq(workqueue, 1, i - 1) \o SubSeq(workqueue, i + 1, Len(workqueue))
  /\ UNCHANGED <<ring, tx_queue, queue, calls, statuses, running, step, irq,
                 flags, recovering, stops, fates>>

\* Mutant: the works are cancelled in the other order.
TxWorkFirst == <<"tx_work", "irq_work">>

CancelOrder == <<"irq_work", "tx_work">>

CancelWorks ==
  \/ Move("cancel_irq", "cancel_tx") /\ Cancel(CancelOrder[1])
  \/ Move("cancel_tx", "flush_lock") /\ Cancel(CancelOrder[2])

FlushLock ==
  /\ running = "none"
  /\ Move("flush_lock", "flush")
  /\ UNCHANGED <<vars, flags, recovering, stops, fates>>

\* acx_tx_queue_flush, one frame.  Some frames do not ask for a tx status.
FlushFrame ==
  /\ at = "flush"
  /\ tx_queue # << >>
  /\ tx_queue' = Tail(tx_queue)
  /\ \/ statuses' = statuses + 1 /\ UNCHANGED forgotten
     \/ forgotten' = forgotten + 1 /\ UNCHANGED statuses
  /\ UNCHANGED <<ring, queue, calls, works, irq, flags, at, recovering, stops, lost>>

\* The queue is empty: acx_op_stop returns, acx_recover_hw asks for a restart.
FlushEnd ==
  /\ tx_queue = << >>
  /\ Move("flush", IF recovering THEN "restart" ELSE "down")
  /\ UNCHANGED <<vars, flags, recovering, stops, fates>>

AcxStop == StopIrqs \/ CancelWorks \/ FlushLock \/ FlushFrame \/ FlushEnd
-------------------------------------------------------------------------------
(* acx_op_start, when the interface is opened again or restarted *)

Open ==
  /\ Move("down", "start")
  /\ UNCHANGED <<vars, flags, recovering, stops, fates>>

Restart ==
  /\ Move("restart", "start")
  /\ UNCHANGED <<vars, flags, recovering, stops, fates>>

\* acx_full_reset recreates the descriptors and forgets what was in the ring.
FullReset ==
  /\ Ring!Reset
  /\ lost' = lost + Ring!Used
  /\ txComplete' = FALSE /\ otherIrq' = FALSE

\* VLYNQ adapters are not reset, and on the others acx_reset_dev may fail: then
\* acx_op_start goes on with the ring as it was.
NoReset == UNCHANGED <<ring, lost, txComplete, otherIrq>>

\* acx_irq_enable
OpStartReset ==
  /\ running = "none"
  /\ Move("start", "start_up")
  /\ HW_UP' = FALSE
  /\ FullReset \/ NoReset
  /\ irqMasked' = FALSE /\ irqs_active' = TRUE
  /\ UNCHANGED <<tx_queue, queue, calls, statuses, works, recovering, stops, forgotten>>

\* acx_wake_queue, and nothing that would make acx_tx_work run.
OpStartUp ==
  /\ Move("start_up", "up")
  /\ HW_UP' = TRUE
  /\ stopped' = FALSE /\ byLength' = FALSE
  /\ recovering' = FALSE
  /\ UNCHANGED <<ring, tx_queue, calls, statuses, works, irq, irqs_active, stops, fates>>

OpStart == OpStartReset \/ OpStartUp

SessionNext ==
  \/ \E c \in Cpus, f \in Frames : Call(c, f)
  \/ \E c \in Cpus : Send(c)
  \/ Work \/ TxWorkDown \/ Adapter \/ Interrupt
  \/ OpStop \/ RecoverHw \/ AcxStop \/ Open \/ Restart \/ OpStart

SessionSpec == SessionInit /\ [][SessionNext]_sessionVars

\* The kernel runs what is runnable, whoever waits for acx_sem gets it, the adapter
\* finishes what it is given, and the restart that was asked for comes.  Nothing
\* makes mac80211 send, open or stop.
SessionFairness ==
  /\ WF_sessionVars(\E c \in Cpus : Send(c))
  /\ WF_sessionVars(Work \/ TxWorkDown)
  /\ WF_sessionVars(Interrupt)
  /\ WF_sessionVars(\E s \in 0 .. TX_CNT - 1 : AcxComplete(s) /\ UNCHANGED session)
  /\ SF_sessionVars(AcxStop \/ Restart \/ OpStart)

FairSessionSpec == SessionSpec /\ SessionFairness
-------------------------------------------------------------------------------
Places == {"up", "stop", "cancel_irq", "cancel_tx", "flush_lock", "flush", "down",
           "restart", "start", "start_up"}

SessionTypeOK ==
  /\ TypeOK
  /\ HW_UP \in BOOLEAN /\ irqs_active \in BOOLEAN
  /\ at \in Places /\ recovering \in BOOLEAN /\ stops \in Nat
  /\ forgotten \in Nat /\ lost \in Nat

Gone == statuses + forgotten + lost

\* No frame is lost or reported twice on its way through the driver: what it has
\* accepted is in tx_queue, in the ring, or reported.  Stops make two exceptions and
\* no third: frames in the ring when the adapter is reset, and flushed frames that
\* do not ask for a status, which acx_tx_queue_flush neither reports nor frees.
FramesConserved ==
  /\ SessionTypeOK
  /\ sent = Len(tx_queue) + Ring!Used + Gone

\* All interrupts stay masked only while the work that unmasks them is to come, or
\* acx_op_start is.
MaskedUntilIrqWork ==
  irqMasked => \/ running = "irq_work"
               \/ Queued("irq_work")
               \/ ~irqs_active

\* As long as the ring is not full, a finished frame at the tail of the ring is
\* never forgotten: the interrupt is still to be handled, or acx_irq_work has
\* read the reason and has yet to pass that descriptor.
FinishedIsSeen ==
  /\ free # 0 /\ Ring!Used # 0
  /\ Ctl_8[Ring!Oldest] = Ring!AcxDoneHostOwn /\ ~Ring!Claimed(Ring!Oldest)
  => \/ txComplete
     \/ running = "irq_work" /\ step \in {"clean", "cleaning"}

\* A completion is acted upon, although reading the reason clears it, nothing is
\* read while interrupts are masked, and a stop cancels the work that would.
CompletionNotForgotten == MaskedUntilIrqWork /\ FinishedIsSeen

\* acx_op_stop leaves no frame in tx_queue and no work behind, although acx_irq_work
\* may wake the queues and queue acx_tx_work after acx_stop has stopped them.
DownIsEmpty ==
  at = "down" => tx_queue = << >> /\ workqueue = << >> /\ running = "none"

\* While the driver leaves a descriptor free, every frame it accepts is sent and
\* reported in the end, or lost in one of the two ways above, however the queues are
\* stopped and woken meanwhile; unless the interface stays down, or a caller puts a
\* frame into tx_queue after a recovery has flushed it: after the restart nothing
\* makes acx_tx_work run.
AcceptedIsReported ==
  [](free # 0 /\ (at = "start_up" => tx_queue = << >>)) => <>[](Gone = sent \/ at = "down")

\* "Restart queue if stopped and enough tx-descr free": queues that the ring has
\* stopped are woken again while the interface is up, unless the ring is full.  The
\* length of tx_queue may stop them while nothing is on its way that would wake
\* them: then they stay stopped, and no frame is sent any more.
StoppedIsWoken == stopped /\ HW_UP ~> (~stopped \/ byLength \/ free = 0 \/ ~HW_UP)

-------------------------------------------------------------------------------
(* The inductive strengthening of the three invariants above *)

\* A caller has the frame it is going to put into tx_queue.
SendingIsFrame == \A c \in Cpus : op_tx[c] = "enqueue" => sending[c] \in Frames

\* A work is queued once at most.
QueuedOnce ==
  \A i, j \in DOMAIN workqueue : workqueue[i] = workqueue[j] => i = j

Idle(w) == ~Queued(w) /\ running # w

\* What acx_stop has done by the time it is at each of its places, and what an ifdown
\* finds, because mac80211 has waited for its callers before.
IrqsOff == {"cancel_irq", "cancel_tx", "flush_lock", "flush", "down", "restart", "start"}

StopsInOrder ==
  /\ at \in IrqsOff => ~irqs_active
  /\ at \in IrqsOff \ {"cancel_irq"} => Idle("irq_work")
  /\ at = "down" => ~recovering
  /\ at \in {"stop", "cancel_irq", "cancel_tx", "flush_lock", "flush", "down"} /\ ~recovering =>
       \A c \in Cpus : op_tx[c] = "idle"
  /\ at \in {"flush_lock", "flush", "down"} /\ ~recovering => Idle("tx_work")

SessionIInv ==
  /\ Ring!IInv
  /\ FramesConserved /\ CompletionNotForgotten /\ DownIsEmpty
  /\ SendingIsFrame /\ QueuedOnce /\ StopsInOrder
===============================================================================
