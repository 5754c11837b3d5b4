-------------------------------- MODULE TxPath --------------------------------
(***************************************************************************)
(* The transmit path from mac80211 to the adapter and back: acx_op_tx on   *)
(* several CPUs, the driver's tx_queue, the works acx_tx_work and          *)
(* acx_irq_work on mac80211's single-threaded workqueue, the interrupt     *)
(* handler, and stopping and waking mac80211's queues.  The descriptor ring*)
(* is TxRing, one queue of a PCI adapter.  Here the interface is up throughout;*)
(* TxSession stops and starts it.                                          *)
(***************************************************************************)
EXTENDS Naturals, Sequences

CONSTANTS
  TX_CNT, Frames, NoAckFrames, TxErrors, NoAckErrors,  \* as in TxRing
  Cpus,                    \* callers of acx_op_tx that may run at the same time
  TX_STOP_QUEUE,           \* stop mac80211 below this many free descriptors
  TX_START_QUEUE,          \* wake it again from this many on
  ACX_TX_QUEUE_MAX_LENGTH, \* stop mac80211 at this many frames in tx_queue
  MaxFrames                \* bound: no call of acx_op_tx begins after this many frames

ASSUME TxPathAssumption ==
  /\ TX_CNT \in Nat \ {0}
  /\ NoAckErrors \subseteq TxErrors /\ TxErrors \subseteq Nat \ {0}
  /\ "none" \notin Frames /\ NoAckFrames \subseteq Frames
  /\ TX_STOP_QUEUE \in 1..TX_CNT
  /\ TX_START_QUEUE \in TX_STOP_QUEUE..TX_CNT
  /\ ACX_TX_QUEUE_MAX_LENGTH \in Nat \ {0}
  /\ MaxFrames \in Nat

VARIABLES
  Ctl_8, error, skb, head, tail, free, op, txdesc, frame, finger, air, reported,
  tx_queue,     \* adev->tx_queue
  stopped,      \* mac80211's queues are stopped by the driver
  byLength,     \* history: acx_op_tx has stopped them since they were last woken
  op_tx,        \* per CPU: where in acx_op_tx it is
  sending,      \* per CPU: the frame it is about to put into tx_queue
  sent,         \* frames acx_op_tx has accepted so far
  statuses,     \* tx statuses it has got back
  workqueue,    \* works queued and not started, in order
  running,      \* the work being executed, or "none"
  step,         \* where in that work
  txComplete,   \* HOST_INT_TX_COMPLETE is set in IO_ACX_IRQ_REASON
  otherIrq,     \* another reason that is not masked is set in it
  irqMasked     \* IO_ACX_IRQ_MASK masks all interrupts

ring  == <<Ctl_8, error, skb, head, tail, free, op, txdesc, frame, finger, air, reported>>
calls == <<op_tx, sending, sent>>
works == <<workqueue, running, step>>
irq   == <<txComplete, otherIrq, irqMasked>>
queue == <<stopped, byLength>>
vars  == <<ring, tx_queue, queue, calls, statuses, works, irq>>

Ring == INSTANCE TxRing

Init ==
  /\ Ring!Init
  /\ tx_queue = << >> /\ stopped = FALSE /\ byLength = FALSE
  /\ op_tx = [c \in Cpus |-> "idle"]
  /\ sending = [c \in Cpus |-> "none"]
  /\ sent = 0 /\ statuses = 0
  /\ workqueue = << >> /\ running = "none" /\ step = "start"
  /\ txComplete = FALSE /\ otherIrq = FALSE /\ irqMasked = FALSE

\* ieee80211_queue_work: nothing happens when the work is queued already; a work
\* that is being executed can be queued again.
Queued(w) == \E i \in DOMAIN workqueue : workqueue[i] = w

QueueWork(w) == workqueue' = IF Queued(w) THEN workqueue ELSE Append(workqueue, w)

-------------------------------------------------------------------------------
(* acx_op_tx, without any lock *)

\* mac80211 looks whether the queues are stopped before it calls the driver.
OpTxCall(c, f) ==
  /\ op_tx[c] = "idle"
  /\ ~stopped
  /\ sent < MaxFrames
  /\ sending' = [sending EXCEPT ![c] = f]
  /\ op_tx' = [op_tx EXCEPT ![c] = "enqueue"]
  /\ UNCHANGED <<ring, tx_queue, queue, sent, statuses, works, irq>>

OpTxEnqueue(c) ==
  /\ op_tx[c] = "enqueue"
  /\ tx_queue' = Append(tx_queue, sending[c])
  /\ sent' = sent + 1
  /\ sending' = [sending EXCEPT ![c] = "none"]
  /\ op_tx' = [op_tx EXCEPT ![c] = "queue_work"]
  /\ UNCHANGED <<ring, queue, statuses, works, irq>>

OpTxQueueWork(c) ==
  /\ op_tx[c] = "queue_work"
  /\ QueueWork("tx_work")
  /\ op_tx' = [op_tx EXCEPT ![c] = "check"]
  /\ UNCHANGED <<ring, tx_queue, queue, sending, sent, statuses, running, step, irq>>

OpTxCheckLength(c) ==
  /\ op_tx[c] = "check"
  /\ op_tx' = [op_tx EXCEPT ![c] =
                 IF Len(tx_queue) >= ACX_TX_QUEUE_MAX_LENGTH THEN "stop" ELSE "idle"]
  /\ UNCHANGED <<ring, tx_queue, queue, sending, sent, statuses, works, irq>>

OpTxStop(c) ==
  /\ op_tx[c] = "stop"
  /\ stopped' = TRUE /\ byLength' = TRUE
  /\ op_tx' = [op_tx EXCEPT ![c] = "idle"]
  /\ UNCHANGED <<ring, tx_queue, sending, sent, statuses, works, irq>>

OpTx(c) == OpTxEnqueue(c) \/ OpTxQueueWork(c) \/ OpTxCheckLength(c) \/ OpTxStop(c)

-------------------------------------------------------------------------------
(* The ordered workqueue: one work at a time, each holds acx_sem throughout *)

StartWork ==
  /\ running = "none"
  /\ workqueue # << >>
  /\ running' = Head(workqueue)
  /\ workqueue' = Tail(workqueue)
  /\ step' = "start"
  /\ UNCHANGED <<ring, tx_queue, queue, calls, statuses, irq>>

EndWork == running' = "none" /\ step' = "start" /\ UNCHANGED workqueue

GoTo(s) == step' = s /\ UNCHANGED <<workqueue, running>>

(* acx_tx_work: acx_tx_queue_go *)

TxWorkEmpty ==
  /\ running = "tx_work" /\ step = "start"
  /\ tx_queue = << >>
  /\ EndWork
  /\ UNCHANGED <<ring, tx_queue, queue, calls, statuses, irq>>

TxWorkAlloc ==
  /\ running = "tx_work" /\ step = "start"
  /\ tx_queue # << >>
  /\ Ring!AllocTx(Head(tx_queue))
  /\ tx_queue' = Tail(tx_queue)
  /\ GoTo("tx_data")
  /\ UNCHANGED <<queue, calls, statuses, irq>>

\* Mutant: the frame is not put back.
DroppedOnBusy == Tail(tx_queue)

\* -EBUSY: the frame goes back to the head of tx_queue.
Requeued == tx_queue

TxWorkBusy ==
  /\ running = "tx_work" /\ step = "start"
  /\ tx_queue # << >>
  /\ Ring!AllocBusy
  /\ stopped' = TRUE
  /\ tx_queue' = Requeued
  /\ EndWork
  /\ UNCHANGED <<byLength, ring, calls, statuses, irq>>

TxWorkRelease ==
  /\ running = "tx_work" /\ step = "tx_data"
  /\ Ring!TxDataRelease
  /\ GoTo("store_skb")
  /\ UNCHANGED <<tx_queue, queue, calls, statuses, irq>>

TxWorkStoreSkb ==
  /\ running = "tx_work" /\ step = "store_skb"
  /\ Ring!TxDataStoreSkb
  /\ GoTo("limit")
  /\ UNCHANGED <<tx_queue, queue, calls, statuses, irq>>

\* acx_is_hw_tx_queue_stop_limit, which is looked at only after a frame is out.
TxWorkLimit ==
  /\ running = "tx_work" /\ step = "limit"
  /\ \/ free < TX_STOP_QUEUE /\ stopped' = TRUE /\ EndWork
     \/ free >= TX_STOP_QUEUE /\ UNCHANGED stopped /\ GoTo("start")
  /\ UNCHANGED <<byLength, ring, tx_queue, calls, statuses, irq>>

TxWork ==
  TxWorkEmpty \/ TxWorkAlloc \/ TxWorkBusy \/ TxWorkRelease \/ TxWorkStoreSkb \/ TxWorkLimit

(* acx_irq_work *)

\* Reading IO_ACX_IRQ_REASON clears it.  The work may run without a TX_COMPLETE.
IrqWorkRead ==
  /\ running = "irq_work" /\ step = "start"
  /\ txComplete' = FALSE /\ otherIrq' = FALSE
  /\ GoTo(IF txComplete THEN "clean" ELSE "unmask")
  /\ UNCHANGED <<ring, tx_queue, queue, calls, statuses, irqMasked>>

IrqWorkCleanStart ==
  /\ running = "irq_work" /\ step = "clean"
  /\ Ring!CleanStart
  /\ GoTo("cleaning")
  /\ UNCHANGED <<tx_queue, queue, calls, statuses, irq>>

IrqWorkCleanDesc ==
  /\ running = "irq_work" /\ step = "cleaning"
  /\ Ring!CleanDesc
  /\ statuses' = statuses + 1
  /\ UNCHANGED <<tx_queue, queue, calls, works, irq>>

IrqWorkCleanEnd ==
  /\ running = "irq_work" /\ step = "cleaning"
  /\ Ring!CleanEnd
  /\ GoTo("wake")
  /\ UNCHANGED <<tx_queue, queue, calls, statuses, irq>>

\* Mutants: tx_work is not queued again; the reason is acknowledged once more at
\* the end.
NotRestarted == UNCHANGED workqueue
ReasonAcknowledged == FALSE

\* What follows the wake-up; the reason register and the mask at the end.
RestartTx == QueueWork("tx_work")
ReasonAfterWork == txComplete
MaskAfterWork == FALSE

\* Restart queue if stopped and enough tx-descr free.
IrqWorkWake ==
  /\ running = "irq_work" /\ step = "wake"
  /\ step' = "unmask"
  /\ IF free >= TX_START_QUEUE /\ stopped
     THEN stopped' = FALSE /\ byLength' = FALSE /\ RestartTx
     ELSE UNCHANGED <<queue, workqueue>>
  /\ UNCHANGED <<ring, tx_queue, calls, statuses, running, irq>>

IrqWorkUnmask ==
  /\ running = "irq_work" /\ step = "unmask"
  /\ irqMasked' = MaskAfterWork
  /\ txComplete' = ReasonAfterWork
  /\ EndWork
  /\ UNCHANGED <<ring, tx_queue, queue, calls, statuses, otherIrq>>

IrqWork ==
  \/ IrqWorkRead \/ IrqWorkCleanStart \/ IrqWorkCleanDesc \/ IrqWorkCleanEnd
  \/ IrqWorkWake \/ IrqWorkUnmask

-------------------------------------------------------------------------------
(* The adapter and the interrupt *)

AcxComplete(s) ==
  /\ Ring!AcxComplete(s)
  /\ txComplete' = TRUE
  /\ UNCHANGED <<tx_queue, queue, calls, statuses, works, otherIrq, irqMasked>>

\* A received frame, an info message, the end of a command or of a scan.
OtherIrq ==
  /\ ~otherIrq
  /\ otherIrq' = TRUE
  /\ UNCHANGED <<ring, tx_queue, queue, calls, statuses, works, txComplete, irqMasked>>

\* acx_interrupt masks everything until acx_irq_work is done.
AcxInterrupt ==
  /\ txComplete \/ otherIrq
  /\ ~irqMasked
  /\ irqMasked' = TRUE
  /\ QueueWork("irq_work")
  /\ UNCHANGED <<ring, tx_queue, queue, calls, statuses, running, step, txComplete, otherIrq>>

Acx == \/ \E s \in 0 .. TX_CNT - 1 : AcxComplete(s)
       \/ OtherIrq

Next ==
  \/ \E c \in Cpus, f \in Frames : OpTxCall(c, f)
  \/ \E c \in Cpus : OpTx(c)
  \/ StartWork
  \/ TxWork
  \/ IrqWork
  \/ Acx
  \/ AcxInterrupt

Spec == Init /\ [][Next]_vars

\* The kernel runs what is runnable, and the adapter finishes what it is given.
\* Nothing makes mac80211 send.
Fairness ==
  /\ \A c \in Cpus : WF_vars(OpTx(c))
  /\ WF_vars(StartWork) /\ WF_vars(TxWork) /\ WF_vars(IrqWork)
  /\ \A s \in 0 .. TX_CNT - 1 : WF_vars(AcxComplete(s))
  /\ WF_vars(AcxInterrupt)

FairSpec == Spec /\ Fairness
-------------------------------------------------------------------------------
WorkSteps ==
  {"start", "tx_data", "store_skb", "limit", "clean", "cleaning", "wake", "unmask"}

TypeOK ==
  /\ Ring!TypeOK
  /\ tx_queue \in Seq(Frames) /\ stopped \in BOOLEAN /\ byLength \in BOOLEAN
  /\ op_tx \in [Cpus -> {"idle", "enqueue", "queue_work", "check", "stop"}]
  /\ sending \in [Cpus -> Frames \cup {"none"}]
  /\ sent \in Nat /\ statuses \in Nat
  /\ workqueue \in Seq({"tx_work", "irq_work"})
  /\ running \in {"none", "tx_work", "irq_work"}
  /\ step \in WorkSteps
  /\ txComplete \in BOOLEAN /\ otherIrq \in BOOLEAN /\ irqMasked \in BOOLEAN

(* Sentences of the source that do not hold; a run shows the second. *)

\* "Keep a few free descs between head and tail of tx ring."
KeepsFreeDescs == free # 0

\* "It is not absolutely needed": a ring that does get full empties again.
FullRingEmpties == free = 0 ~> free # 0
===============================================================================
