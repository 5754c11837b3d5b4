-------------------------------- MODULE UsbUrbs --------------------------------
(***************************************************************************)
(* Transmission and reception on the USB adapters (usb.c): a pool of       *)
(* transmit buffers, each with an URB and a busy flag, and two receive     *)
(* URBs that take turns, by which frames and the statuses of transmitted   *)
(* frames come in.  The URBs' completion handlers run in interrupt         *)
(* context, one at a time, and take no lock.  Any submission and any       *)
(* transfer may fail.                                                      *)
(***************************************************************************)
EXTENDS Integers, FiniteSets

CONSTANTS
  ACX_TX_URB_CNT, TX_STOP_QUEUE, TX_START_QUEUE,
  UintBits,   \* of an unsigned int: 32
  MaxFrames,  \* bound: frames accepted from one start to the next
  LateUrbs    \* bound: the kinds of URB, "tx" and "rx", that outlast the 10 ms of an unlinking

\* What is assumed of the constants.
UsbUrbsAssumption ==
  /\ ACX_TX_URB_CNT \in Nat \ {0}
  /\ TX_STOP_QUEUE \in Nat /\ TX_START_QUEUE \in 1..ACX_TX_URB_CNT
  /\ UintBits \in Nat /\ 2^UintBits > ACX_TX_URB_CNT
  /\ MaxFrames \in Nat
  /\ LateUrbs \subseteq {"tx", "rx"}

VARIABLES
  HW_UP,                   \* ACX_FLAG_HW_UP
  sem,                     \* who holds acx_sem: "none", "tx_work", "op"
  busy, skb,               \* of adev->usb_tx: per buffer, its flag and its frame
                           \* (0: none, or one from before the start)
  head, free,              \* of hw_tx_queue[0]
  txUrb,                   \* the transmit URBs in flight
  rxUrb,                   \* the receive URBs in flight
  rxReset,                 \* those of the two whose urb->status is -ECONNRESET
  device,                  \* <<hostdata, frame>> of the frames the adapter has not reported yet
  txAt, tx, txLoad,        \* acx_tx_work: its place, buffer, and a load of free
  rxAt, rxLoad, rest,      \* acxusb_complete_rx likewise; rest: the statuses still to process
  txWork,                  \* tx_work is queued
  stopped,                 \* mac80211's queues are stopped
  opAt,                    \* the interface: "down", "waking", "starting", "up", "commands"...
  accepted, sent,          \* frames put in and taken out of adev->tx_queue, numbered from each
                           \* start on
  reported,                \* frames whose status mac80211 has
  \* History:
  torn,                    \* free has been stored from a stale load since it was reset
  deaf,                    \* a receive URB was refused, or came back before HW_UP was set
  lingered,                \* an URB is, or was at the start, left over from an earlier session
  lost                     \* frames whose status was in a receive transfer that failed

pool == <<busy, skb, head, free, torn>>
urbs == <<txUrb, rxUrb, rxReset, device, deaf, lingered, lost>>
work == <<txAt, tx, txLoad, txWork>>
irq  == <<rxAt, rxLoad, rest>>
mac  == <<stopped, opAt, accepted>>
vars == <<HW_UP, sem, pool, urbs, work, irq, mac, sent, reported>>

Slots == 0 .. ACX_TX_URB_CNT - 1

\* The probe ends with an interface that is down.
Init ==
  /\ HW_UP = FALSE /\ sem = "none"
  /\ busy = [s \in Slots |-> FALSE] /\ skb = [s \in Slots |-> 0]
  /\ head = 0 /\ free = 0
  /\ txUrb = {} /\ rxUrb = {} /\ rxReset = {} /\ device = {}
  /\ torn = FALSE /\ deaf = FALSE /\ lingered = FALSE /\ lost = {}
  /\ txAt = "idle" /\ tx = 0 /\ txLoad = 0 /\ txWork = FALSE
  /\ rxAt = "idle" /\ rxLoad = 0 /\ rest = {}
  /\ stopped = TRUE /\ opAt = "down"
  /\ accepted = 0 /\ sent = 0 /\ reported = {}

\* free++ and free--, of an unsigned int, are a load, at some moment since the buffer's flag
\* was changed, and a store; what was stored in between is lost.
Store(load, n) ==
  \E loaded \in {load, free} :
    /\ free' = (loaded + n) % 2^UintBits
    /\ torn' = (torn \/ loaded # free)

FreeSlots == {s \in Slots : ~busy[s]}
-------------------------------------------------------------------------------
(* acx_op_tx and acx_tx_work *)

\* The length stop of acx_op_tx is TxPath's.
OpTx ==
  /\ opAt = "up" /\ ~stopped
  /\ accepted < MaxFrames
  /\ accepted' = accepted + 1 /\ txWork' = TRUE
  /\ UNCHANGED <<HW_UP, sem, pool, urbs, txAt, tx, txLoad, irq, stopped, opAt,
                 sent, reported>>

TxWorkStart ==
  /\ txWork /\ txAt = "idle" /\ sem = "none"
  /\ txWork' = FALSE
  /\ IF HW_UP THEN sem' = "tx_work" /\ txAt' = "dequeue" ELSE UNCHANGED <<sem, txAt>>
  /\ UNCHANGED <<HW_UP, pool, urbs, tx, txLoad, irq, mac, sent, reported>>

TxWorkEnd ==
  /\ txAt = "dequeue" /\ sent = accepted
  /\ txAt' = "idle" /\ sem' = "none"
  /\ UNCHANGED <<HW_UP, pool, urbs, tx, txLoad, txWork, irq, mac, sent, reported>>

\* The buffers in the order in which acxusb_alloc_tx looks at them.
Nth(n) == (head + n) % ACX_TX_URB_CNT

\* Mutant: the next buffer, busy or not.
NextSlot == IF FreeSlots = {} THEN {} ELSE {Nth(1)}

\* The first free buffer after head.
FirstFree ==
  {s \in FreeSlots : \E n \in 1..ACX_TX_URB_CNT :
     s = Nth(n) /\ \A i \in 1 .. n - 1 : busy[Nth(i)]}

AllocTx ==
  /\ txAt = "dequeue" /\ sent < accepted
  /\ \E s \in FirstFree :
       /\ busy' = [busy EXCEPT ![s] = TRUE]
       /\ head' = s /\ tx' = s
  /\ txLoad' = free /\ txAt' = "count"
  /\ UNCHANGED <<HW_UP, sem, skb, free, torn, urbs, txWork, irq, mac, sent, reported>>

AllocCount ==
  /\ txAt = "count"
  /\ Store(txLoad, -1)
  /\ txAt' = "data" /\ txLoad' = 0
  /\ UNCHANGED <<HW_UP, sem, busy, skb, head, urbs, tx, txWork, irq, mac, sent, reported>>

\* -EBUSY: the frame goes back to tx_queue.
AllocBusy ==
  /\ txAt = "dequeue" /\ sent < accepted /\ FirstFree = {}
  /\ stopped' = TRUE
  /\ txAt' = "idle" /\ sem' = "none"
  /\ UNCHANGED <<HW_UP, pool, urbs, tx, txLoad, txWork, irq, opAt, accepted, sent, reported>>

\* acxusb_tx_data; the submission of an URB that is in flight fails.
TxData ==
  /\ txAt = "data"
  /\ skb' = [skb EXCEPT ![tx] = sent + 1]
  /\ sent' = sent + 1
  /\ \/ tx \notin txUrb /\ txUrb' = txUrb \cup {tx} /\ txAt' = "limit" /\ UNCHANGED <<busy, txLoad>>
     \/ /\ busy' = [busy EXCEPT ![tx] = FALSE]
        /\ txLoad' = free
        /\ txAt' = "uncount" /\ UNCHANGED txUrb
  /\ tx' = 0
  /\ UNCHANGED <<HW_UP, sem, head, free, torn, rxUrb, rxReset, device, deaf, lingered, lost,
                 txWork, irq, mac, reported>>

TxDataUncount ==
  /\ txAt = "uncount"
  /\ Store(txLoad, 1)
  /\ txAt' = "limit" /\ txLoad' = 0
  /\ UNCHANGED <<HW_UP, sem, busy, skb, head, urbs, tx, txWork, irq, mac, sent, reported>>

\* acx_is_hw_tx_queue_stop_limit
TxWorkLimit ==
  /\ txAt = "limit"
  /\ txAt' = IF free < TX_STOP_QUEUE THEN "stop" ELSE "dequeue"
  /\ UNCHANGED <<HW_UP, sem, pool, urbs, tx, txLoad, txWork, irq, mac, sent, reported>>

TxWorkStop ==
  /\ txAt = "stop"
  /\ stopped' = TRUE
  /\ txAt' = "idle" /\ sem' = "none"
  /\ UNCHANGED <<HW_UP, pool, urbs, tx, txLoad, txWork, irq, opAt, accepted, sent, reported>>

TxWork ==
  \/ TxWorkStart \/ TxWorkEnd \/ AllocTx \/ AllocCount \/ AllocBusy
  \/ TxData \/ TxDataUncount \/ TxWorkLimit \/ TxWorkStop
-------------------------------------------------------------------------------
(* The completion handlers *)

\* acxusb_complete_tx does nothing but log; the adapter has the frame, or not.
CompleteTx(s) ==
  /\ s \in txUrb /\ rxAt = "idle"
  /\ txUrb' = txUrb \ {s}
  /\ device' \in {device, device \cup {<<s, skb[s]>>}}
  /\ UNCHANGED <<HW_UP, sem, pool, rxUrb, rxReset, deaf, lingered, lost, work, irq, mac, sent,
                 reported>>

\* usb_submit_urb, which may refuse any URB, and does refuse one that is in flight.
Submitted(j, flying) ==
  \/ j \notin flying /\ rxUrb' = flying \cup {j} /\ UNCHANGED deaf
  \/ rxUrb' = flying /\ deaf' = TRUE

\* acxusb_poll_rx: the result of the submission is not looked at.  An URB in progress is
\* unlinked first: it is given back later, as `Endings` says, and is refused now.
PollRx(j, flying, reset) ==
  /\ rxReset' = reset
  /\ IF j \in reset THEN rxUrb' = flying /\ UNCHANGED deaf ELSE Submitted(j, flying)

\* Whether the handler has another status to read.
Packets(statuses) == IF statuses = {} THEN "idle" ELSE "packets"

\* How the transfer of an URB may end, told by which URBs are reset then: one that was
\* unlinked and is late is reset.
Endings(i) == {rxReset \ {i}} \cup (IF lingered THEN {rxReset \cup {i}} ELSE {})

\* acxusb_complete_rx sends the URB that is waiting; the transfer brings any of the adapter's
\* statuses, or loses them.
CompleteRx(i) ==
  /\ i \in rxUrb /\ rxAt = "idle" /\ HW_UP
  /\ \E reset \in Endings(i), brought \in SUBSET device :
       /\ PollRx(1 - i, rxUrb \ {i}, reset)
       /\ device' = device \ brought
       /\ \/ i \notin reset /\ rest' = brought /\ rxAt' = Packets(brought) /\ UNCHANGED lost
          \/ lost' = lost \cup {st[2] : st \in brought} /\ UNCHANGED <<rest, rxAt>>
  /\ UNCHANGED <<HW_UP, sem, pool, txUrb, lingered, work, rxLoad, mac, sent, reported>>

\* "device is down, not doing anything"
CompleteRxDown(i) ==
  /\ i \in rxUrb /\ rxAt = "idle" /\ ~HW_UP
  /\ rxUrb' = rxUrb \ {i}
  /\ rxReset' \in Endings(i)
  /\ deaf' = TRUE
  /\ UNCHANGED <<HW_UP, sem, pool, txUrb, device, lingered, lost, work, irq, mac, sent, reported>>

\* A status: the frame is the one of the buffer that hostdata names, which is given up.
RxStatus ==
  /\ rxAt = "packets"
  /\ \E st \in rest :
       /\ rest' = rest \ {st}
       /\ reported' = reported \cup {skb[st[1]]}
       /\ busy' = [busy EXCEPT ![st[1]] = FALSE]
  /\ rxLoad' = free /\ rxAt' = "count"
  /\ UNCHANGED <<HW_UP, sem, skb, head, free, torn, urbs, work, mac, sent>>

RxCount ==
  /\ rxAt = "count"
  /\ Store(rxLoad, 1)
  /\ rxAt' = "wake" /\ rxLoad' = 0
  /\ UNCHANGED <<HW_UP, sem, busy, skb, head, urbs, work, rest, mac, sent, reported>>

RxWake ==
  /\ rxAt = "wake"
  /\ IF free >= TX_START_QUEUE /\ stopped
     THEN stopped' = FALSE /\ txWork' = TRUE
     ELSE UNCHANGED <<stopped, txWork>>
  /\ rxAt' = Packets(rest)
  /\ UNCHANGED <<HW_UP, sem, pool, urbs, txAt, tx, txLoad, rxLoad, rest, opAt, accepted,
                 sent, reported>>

RxPackets == RxStatus \/ RxCount \/ RxWake
-------------------------------------------------------------------------------
(* acxusb_op_start and acxusb_op_stop.  Both issue commands and wait for them; *)
(* as completions are given back in order, no handler runs when they return.   *)

\* Mutant: the count is not reset with the buffers.
FreeKept == free

FreeAfterReset == ACX_TX_URB_CNT

\* Mutant: only the transmit URBs are reset.
StatusKept == rxReset

StatusAfterReset == {}

\* Here the numbers of frames begin anew.
OpStart ==
  /\ opAt = "down" /\ sem = "none" /\ rxAt = "idle"
  /\ opAt' = "waking" /\ sem' = "op"
  /\ rxReset' = StatusAfterReset /\ deaf' = FALSE
  /\ busy' = [s \in Slots |-> FALSE] /\ free' = FreeAfterReset /\ torn' = FALSE
  /\ skb' = [s \in Slots |-> 0] /\ accepted' = 0 /\ sent' = 0 /\ reported' = {} /\ lost' = {}
  /\ lingered' = (txUrb \cup rxUrb # {} \/ device # {})
  /\ UNCHANGED <<HW_UP, head, txUrb, rxUrb, device, work, irq, stopped>>

\* The commands are done.
OpStartPoll ==
  /\ opAt = "waking"
  /\ PollRx(0, rxUrb, rxReset)
  /\ opAt' = "starting"
  /\ UNCHANGED <<HW_UP, sem, pool, txUrb, device, lingered, lost, work, irq, stopped,
                 accepted, sent, reported>>

OpStartUp ==
  /\ opAt = "starting"
  /\ HW_UP' = TRUE /\ stopped' = FALSE
  /\ opAt' = "up" /\ sem' = "none"
  /\ UNCHANGED <<pool, urbs, work, irq, accepted, sent, reported>>

OpStopDown ==
  /\ opAt = "up" /\ sem = "none"
  /\ HW_UP' = FALSE /\ stopped' = TRUE
  /\ opAt' = "commands" /\ sem' = "op"
  /\ UNCHANGED <<pool, urbs, work, irq, accepted, sent, reported>>

OpStopCommands ==
  /\ opAt = "commands" /\ rxAt = "idle"
  /\ opAt' = "cancel" /\ sem' = "none"
  /\ UNCHANGED <<HW_UP, pool, urbs, work, irq, stopped, accepted, sent, reported>>

Late(kind, flying) == IF kind \in LateUrbs THEN flying ELSE {}

\* cancel_work_sync, acx_tx_queue_flush, and acxusb_unlink_urb of each URB, which waits for
\* it, though not for longer than 10 ms: one step, for without HW_UP nobody acts on what
\* it changes.  The adapter, put to sleep, has forgotten what it had not reported.
OpStopEnd ==
  /\ opAt = "cancel" /\ sem = "none" /\ txAt = "idle"
  /\ txWork' = FALSE /\ sent' = accepted
  /\ txUrb' \in SUBSET Late("tx", txUrb) /\ rxUrb' \in SUBSET Late("rx", rxUrb)
  /\ lingered' = (lingered \/ txUrb' \cup rxUrb' # {})
  /\ rxReset' = rxReset \cup (rxUrb \ rxUrb')
  /\ device' = {}
  /\ busy' = [s \in Slots |-> FALSE] /\ free' = FreeAfterReset /\ torn' = FALSE
  /\ opAt' = "down"
  /\ UNCHANGED <<HW_UP, sem, skb, head, deaf, lost, txAt, tx, txLoad, irq, stopped, accepted,
                 reported>>

Op == OpStart \/ OpStartPoll \/ OpStartUp \/ OpStopDown \/ OpStopCommands \/ OpStopEnd

Next ==
  \/ OpTx \/ TxWork
  \/ \E s \in Slots : CompleteTx(s)
  \/ \E i \in 0..1 : CompleteRx(i) \/ CompleteRxDown(i)
  \/ RxPackets
  \/ Op

Spec == Init /\ [][Next]_vars

\* The completion handler runs, and the adapter sends what it has to report, whether or
\* not the transfer then fails.
FairSpec ==
  /\ Spec
  /\ WF_vars(RxPackets)
  /\ SF_vars(\E i \in 0..1 : CompleteRx(i) /\ device' = {})
-------------------------------------------------------------------------------
TypeOK ==
  /\ HW_UP \in BOOLEAN /\ sem \in {"none", "tx_work", "op"}
  /\ busy \in [Slots -> BOOLEAN] /\ skb \in [Slots -> 0..MaxFrames]
  /\ head \in Slots /\ free \in 0 .. 2^UintBits - 1
  /\ txUrb \subseteq Slots /\ rxUrb \subseteq 0..1 /\ rxReset \subseteq 0..1
  /\ torn \in BOOLEAN /\ deaf \in BOOLEAN /\ lingered \in BOOLEAN
  /\ device \subseteq Slots \X (0..MaxFrames)
  /\ txAt \in {"idle", "dequeue", "count", "data", "uncount", "limit", "stop"}
  /\ tx \in Slots /\ txLoad \in 0 .. 2^UintBits - 1 /\ txWork \in BOOLEAN
  /\ rxAt \in {"idle", "packets", "count", "wake"}
  /\ rxLoad \in 0 .. 2^UintBits - 1 /\ rest \subseteq Slots \X (0..MaxFrames)
  /\ stopped \in BOOLEAN
  /\ opAt \in {"down", "waking", "starting", "up", "commands", "cancel"}
  /\ accepted \in 0..MaxFrames /\ sent \in 0..accepted
  /\ reported \subseteq 0..MaxFrames /\ lost \subseteq 0..MaxFrames

\* Until an update of the one comes between load and store of the other, the count, which
\* a work and an interrupt handler change without a lock, is the number of buffers that are
\* not busy; and again from the next start on.
FreeIsRight ==
  HW_UP /\ ~torn /\ ~lingered /\ txAt \notin {"count", "uncount"} /\ rxAt # "count"
  => free = Cardinality(FreeSlots)

\* A buffer that an URB in flight reads is not given to another frame.
FlightIsBusy == \A s \in txUrb : busy[s] /\ skb[s] \notin reported

\* "rx triggered while rx urb in progress" cannot happen: one of the two is in
\* flight, at most; and, unless a submission was refused, at least.
OneRxUrb ==
  /\ Cardinality(rxUrb) <= 1
  /\ HW_UP /\ ~deaf => rxUrb # {}

\* A buffer stays taken, by the same frame, while an URB reads it and until the
\* adapter's status for it has come, which always names the buffer of its own frame,
\* also when the count of free buffers is wrong; as long as URBs are given back in the time
\* that acxusb_unlink_urb waits for them.
StatusIsOwn ==
  /\ TypeOK
  /\ ~lingered =>
       /\ FlightIsBusy /\ OneRxUrb
       /\ \A st \in device \cup rest : busy[st[1]] /\ skb[st[1]] = st[2]

(* The inductive invariant of the two above. *)

\* acx_sem is the work's while it runs and the operation's while it waits for commands;
\* while the interface is not up nothing runs.
WhoRuns ==
  /\ HW_UP <=> opAt = "up"
  /\ sem = "op" <=> opAt \in {"waking", "starting", "commands"}
  /\ sem = "tx_work" <=> txAt # "idle"
  /\ txAt # "idle" => opAt = "up"
  /\ rxAt # "idle" => opAt \in {"up", "commands"}
  /\ rxAt = "idle" => rest = {}
  /\ txAt \in {"count", "data"} => sent < accepted

\* Nothing is in flight between a stop and the next start.
AllComeBack ==
  /\ opAt \in {"down", "waking", "starting"} => txUrb = {} /\ device = {}
  /\ opAt \in {"down", "waking"} => rxUrb = {}
  /\ opAt \in {"waking", "starting", "up"} => rxReset = {}
  /\ opAt \in {"starting", "up"} /\ ~deaf => rxUrb # {}

\* Who has a buffer: an URB, a status on its way, or the work that fills it, and never two
\* of them.
Reported(s) == \E st \in device \cup rest : st[1] = s
Filling(s) == txAt \in {"count", "data"} /\ s = tx

OneOwner ==
  /\ \A s \in Slots : s \in txUrb \/ Reported(s) \/ Filling(s) => busy[s]
  /\ device \cap rest = {}
  /\ \A s \in txUrb : ~Reported(s) /\ ~Filling(s)
  /\ \A s \in Slots : Reported(s) => ~Filling(s)

\* Frames are numbered as they are sent; what a buffer holds is no other's.
FramesAreNew ==
  /\ reported \subseteq 1..sent
  /\ \A s \in Slots : skb[s] <= sent
  /\ \A s \in Slots : s \in txUrb \/ Reported(s) => skb[s] # 0
  /\ \A s, t \in Slots : skb[s] = skb[t] /\ skb[s] # 0 => s = t

UrbIInv ==
  /\ StatusIsOwn /\ WhoRuns
  /\ ~lingered => AllComeBack /\ OneOwner /\ FramesAreNew

\* The count lags behind the flags by what is still to be added and subtracted, and
\* wraps around in between.
OneIf(c) == IF c THEN 1 ELSE 0
Due == Cardinality(FreeSlots) + OneIf(txAt = "count") - OneIf(txAt = "uncount")
       - OneIf(rxAt = "count")

CountFollows ==
  ~torn /\ ~lingered /\ opAt \in {"waking", "starting", "up", "commands"} =>
    \E k \in -1..1 : free = Due + k * 2^UintBits

\* What the adapter has to report is reported, unless it was in a transfer that failed or
\* the interface goes down: as long as no receive URB is refused (deaf) or late (lingered),
\* the two never stop taking turns.
StatusFollows ==
  \A f \in 1..MaxFrames :
    (\E s \in Slots : <<s, f>> \in device)
    ~> (f \in reported \cup lost \/ ~HW_UP \/ deaf \/ lingered)

(* Sentences of the source that do not hold; no run checks them. *)

\* "just mark the frame as done": a frame whose buffer is given up is reported.
DoneIsReported ==
  HW_UP => \A s \in Slots : ~busy[s] /\ skb[s] # 0 => skb[s] \in reported

\* "starts the network tx queue and USB receive": while the interface is up a
\* receive URB is in flight.
ReceiveIsStarted == HW_UP => rxUrb # {}

\* "no locking is actually required": the count is right also after updates that overlap.
FreeNeedsNoLock ==
  HW_UP /\ ~lingered /\ txAt \notin {"count", "uncount"} /\ rxAt # "count"
  => free = Cardinality(FreeSlots)

\* "we start queue if we have >= N free txbufs": the queues are not left stopped.
StartedAgain ==
  /\ HW_UP /\ stopped
  /\ txAt = "idle" /\ ~txWork /\ rxAt = "idle"
  => free < TX_START_QUEUE
===============================================================================
