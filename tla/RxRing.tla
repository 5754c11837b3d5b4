-------------------------------- MODULE RxRing --------------------------------
(***************************************************************************)
(* The receive ring: acxpci_process_rxdesc, called by acx_irq_work, and    *)
(* the adapter, which fills the descriptors one after the other.  With     *)
(* SlaveMemory it is acxmem_process_rxdesc: the same loops, over Ctl_8 in  *)
(* the adapter's memory instead of Ctl_16 and Status in the host's.        *)
(***************************************************************************)
EXTENDS Naturals

CONSTANTS
  RX_CNT,       \* descriptors in the ring
  MaxBurst,     \* bound: frames the adapter completes while one search goes on
  MaxFrames     \* bound: frames received in a behaviour

ASSUME RxRingAssumption ==
  /\ RX_CNT \in Nat \ {0}
  /\ MaxBurst \in Nat /\ MaxFrames \in Nat

VARIABLES
  SlaveMemory, \* IS_MEM(adev)
  hostOwn,    \* per descriptor, DESC_CTL_HOSTOWN
  filled,     \* per descriptor, DESC_STATUS_FULL (DESC_CTL_ACXDONE in slave memory)
  buf,        \* per descriptor, the frame in its buffer, 0 for none
  acxNext,    \* the descriptor the adapter fills next
  received,   \* frames received so far: they are numbered in this order
  rxReason,   \* HOST_INT_RX_COMPLETE is set in the reason register
  at,         \* where in process_rxdesc acx_irq_work is
  queueTail,  \* hw_rx_queue.tail
  tail, count, hostdesc,  \* its local variables
  burst,      \* frames received since the search began
  crowded,    \* history: since the reset, two frames have come during one search
  handled     \* frames passed on to mac80211, dropped, or lost in a reset

acx   == <<hostOwn, filled, buf, acxNext, received>>
local == <<tail, count, hostdesc>>
arrivals == <<burst, crowded>>
vars  == <<SlaveMemory, acx, rxReason, at, queueTail, local, arrivals, handled>>

Slots == 0 .. RX_CNT - 1

\* (tail + 1) % RX_CNT
Succ(i) == IF i + 1 = RX_CNT THEN 0 ELSE i + 1

\* acx_create_rx_host_desc_queue and acx_create_rx_desc_queue: the Status of
\* host descriptors is left as it was, descriptors in slave memory are zeroed.
Init ==
  /\ SlaveMemory \in BOOLEAN
  /\ hostOwn = [s \in Slots |-> FALSE]
  /\ filled = [s \in Slots |-> FALSE]
  /\ buf = [s \in Slots |-> 0]
  /\ acxNext = 0 /\ received = 0 /\ rxReason = FALSE
  /\ at = "idle" /\ queueTail = 0
  /\ tail = 0 /\ count = 0 /\ hostdesc = 0
  /\ burst = 0 /\ crowded = FALSE
  /\ handled = {}

Reset ==
  /\ at = "idle"
  /\ hostOwn' = [s \in Slots |-> FALSE]
  /\ filled' = [s \in Slots |-> filled[s] /\ ~SlaveMemory]
  /\ queueTail' = 0 /\ acxNext' = 0 /\ rxReason' = FALSE
  /\ handled' = 1..received /\ crowded' = FALSE
  /\ UNCHANGED <<SlaveMemory, buf, received, at, local, burst>>
-------------------------------------------------------------------------------
(* The adapter *)

Fill(f) ==
  /\ ~hostOwn[acxNext]
  /\ at = "search" => burst < MaxBurst
  /\ hostOwn' = [hostOwn EXCEPT ![acxNext] = TRUE]
  /\ filled' = [filled EXCEPT ![acxNext] = TRUE]
  /\ buf' = [buf EXCEPT ![acxNext] = f]
  /\ acxNext' = Succ(acxNext)
  /\ burst' = IF at = "search" THEN burst + 1 ELSE 0
  /\ crowded' = (crowded \/ burst' > 1)
  /\ rxReason' = TRUE
  /\ UNCHANGED <<SlaveMemory, at, queueTail, local, handled>>

AcxReceive ==
  /\ received < MaxFrames
  /\ received' = received + 1
  /\ Fill(received + 1)

\* In slave memory the adapter also hands over descriptors without a buffer, only
\* to have them reclaimed.
AcxReclaimOnly ==
  /\ SlaveMemory
  /\ Fill(0)
  /\ UNCHANGED received
-------------------------------------------------------------------------------
(* process_rxdesc *)

Step(from, to) == at = from /\ at' = to

Full(s) == hostOwn[s] /\ filled[s]

\* acx_irq_work has read, and with that cleared, the reason.
ProcessRxdesc ==
  /\ rxReason
  /\ Step("idle", "search")
  /\ rxReason' = FALSE
  /\ tail' = queueTail /\ count' = RX_CNT /\ burst' = 0
  /\ UNCHANGED <<SlaveMemory, acx, queueTail, hostdesc, crowded, handled>>

SearchFound ==
  /\ Full(tail)
  /\ Step("search", "rxbuf")
  /\ hostdesc' = tail /\ tail' = Succ(tail)
  /\ UNCHANGED <<SlaveMemory, acx, rxReason, queueTail, count, arrivals, handled>>

\* All descriptors empty: bail out.
SearchNext ==
  /\ at = "search" /\ ~Full(tail)
  /\ count' = count - 1 /\ tail' = Succ(tail)
  /\ IF count' = 0 THEN at' = "idle" /\ queueTail' = tail' ELSE UNCHANGED <<at, queueTail>>
  /\ UNCHANGED <<SlaveMemory, acx, rxReason, hostdesc, arrivals, handled>>

\* acx_process_rxbuf: a frame for which there is no skb is dropped.
ProcessRxbuf ==
  /\ Step("rxbuf", "write_first")
  /\ handled' = handled \cup ({buf[hostdesc]} \ {0})
  /\ UNCHANGED <<SlaveMemory, acx, rxReason, queueTail, local, arrivals>>

\* Mutant: the descriptor is given back before it is marked as empty.
OwnershipFirst == <<"Ctl", "Status">>

\* "Host no longer owns this, needs to be LAST"
WriteOrder == <<"Status", "Ctl">>

\* In slave memory Status is not the adapter's; ACXDONE stays set in the Ctl_8
\* that is written back.
WriteBack(i) ==
  IF WriteOrder[i] = "Ctl"
  THEN hostOwn' = [hostOwn EXCEPT ![hostdesc] = FALSE] /\ UNCHANGED filled
  ELSE /\ filled' = [filled EXCEPT ![hostdesc] = @ /\ SlaveMemory]
       /\ UNCHANGED hostOwn

WriteFirst ==
  /\ Step("write_first", "write_last")
  /\ WriteBack(1)
  /\ UNCHANGED <<SlaveMemory, buf, acxNext, received, rxReason, queueTail, local, arrivals,
                 handled>>

WriteLast ==
  /\ Step("write_last", "next")
  /\ WriteBack(2)
  /\ UNCHANGED <<SlaveMemory, buf, acxNext, received, rxReason, queueTail, local, arrivals,
                 handled>>

\* Mutant: one frame per interrupt.
OnlyOne(s) == FALSE

GoesOn(s) == Full(s)

NextFull ==
  /\ GoesOn(tail)
  /\ Step("next", "rxbuf")
  /\ hostdesc' = tail /\ tail' = Succ(tail)
  /\ UNCHANGED <<SlaveMemory, acx, rxReason, queueTail, count, arrivals, handled>>

\* Mutant: tail is advanced before the check.
OnePast(t) == Succ(t)

TailAtEnd(t) == t

NextEmpty ==
  /\ ~GoesOn(tail)
  /\ Step("next", "idle")
  /\ queueTail' = TailAtEnd(tail)
  /\ UNCHANGED <<SlaveMemory, acx, rxReason, local, arrivals, handled>>

IrqWork ==
  \/ ProcessRxdesc \/ SearchFound \/ SearchNext \/ ProcessRxbuf
  \/ WriteFirst \/ WriteLast \/ NextFull \/ NextEmpty

Next ==
  \/ AcxReceive \/ AcxReclaimOnly
  \/ IrqWork
  \/ Reset

Spec == Init /\ [][Next]_vars

FairSpec == Spec /\ WF_vars(IrqWork)
-------------------------------------------------------------------------------
TypeOK ==
  /\ SlaveMemory \in BOOLEAN
  /\ hostOwn \in [Slots -> BOOLEAN] /\ filled \in [Slots -> BOOLEAN]
  /\ buf \in [Slots -> 0..MaxFrames]
  /\ acxNext \in Slots /\ received \in 0..MaxFrames /\ rxReason \in BOOLEAN
  /\ at \in {"idle", "search", "rxbuf", "write_first", "write_last", "next"}
  /\ queueTail \in Slots /\ tail \in Slots /\ hostdesc \in Slots
  /\ count \in 0..RX_CNT /\ burst \in 0..MaxBurst /\ crowded \in BOOLEAN
  /\ handled \subseteq 1..MaxFrames

\* The descriptor whose buffer process_rxdesc reads or has read, until it is given
\* back, is the host's: the adapter does not overwrite it meanwhile.
InHand == at \in {"rxbuf", "write_first", "write_last"}

BufferIsOurs == InHand => hostOwn[hostdesc]

Waiting == {s \in Slots : Full(s) /\ ~(InHand /\ at # "rxbuf" /\ s = hostdesc)}

\* Every frame received waits in exactly one descriptor or is handled, never both:
\* none is overwritten, lost in handing a descriptor back, or passed on twice.
FramesConserved ==
  /\ TypeOK /\ BufferIsOurs
  /\ {buf[s] : s \in Waiting} \ {0} = 1..received \ handled
  /\ \A s, t \in Waiting : buf[s] = buf[t] /\ buf[s] # 0 => s = t

\* Its inductive strengthening: a search has descriptors left to look at, what is
\* about to be passed on is a full descriptor, and only what has been received is
\* handled.
RxIInv ==
  /\ FramesConserved
  /\ at = "search" => count > 0
  /\ at = "rxbuf" => Full(hostdesc)
  /\ handled \subseteq 1..received

\* Between two runs the adapter is never ahead of the driver by more than the
\* descriptors that wait: the tail is where the next frame is, or will be.
TailIsRight == at = "idle" => queueTail = acxNext \/ Full(queueTail)

\* "First, have a loop to determine the first descriptor that's full": the frame
\* about to be passed on is the oldest one waiting.  Not so when two frames come
\* while the loop goes on: it may have passed the first one's descriptor already and
\* find the second one's, and from then on the tail is in the wrong place.
FindsFirstFull ==
  ~crowded =>
    /\ TailIsRight
    /\ at = "rxbuf" /\ buf[hostdesc] # 0 =>
         \A s \in Waiting : buf[s] = 0 \/ buf[hostdesc] <= buf[s]

\* Its inductive strengthening.  What the adapter has handed over is a window of the
\* ring, of some number n of descriptors: it starts where the driver is and ends where
\* the adapter is, with the frames in the order in which they came.
Plus(i, n) == IF i + n < RX_CNT THEN i + n ELSE i + n - RX_CNT
Dist(i, s) == IF i <= s THEN s - i ELSE s - i + RX_CNT

First == CASE at \in {"idle", "search"} -> queueTail
           [] at = "next" -> tail
           [] OTHER -> hostdesc

Window(n) ==
  /\ acxNext = Plus(First, n)
  /\ \A s \in Slots : hostOwn[s] <=> Dist(First, s) < n
  /\ \A s, t \in Slots :
       Dist(First, s) < Dist(First, t) /\ Dist(First, t) < n /\ buf[s] # 0 /\ buf[t] # 0
         => buf[s] < buf[t]

\* A search that has gone past the first descriptor found nothing there, and at most one
\* frame has come since.
SearchWindow(n) ==
  at = "search" => burst <= n /\ burst <= 1 /\ (count < RX_CNT => n = burst)

RxOrder ==
  /\ \A s \in Slots : buf[s] <= received
  /\ \A s \in Slots : hostOwn[s] /\ ~filled[s] => at = "write_last" /\ s = hostdesc
  /\ at = "search" => tail = Plus(queueTail, RX_CNT - count)
  /\ InHand \/ at = "next" => tail = Succ(hostdesc)
  /\ ~crowded => \E n \in 0..RX_CNT : Window(n) /\ SearchWindow(n)

\* A frame in the ring is handled without a later one having to come first, as long
\* as the tail is right.
FramesHandled == \A f \in 1..MaxFrames : received >= f ~> f \in handled \/ crowded
===============================================================================
