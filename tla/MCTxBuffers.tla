----------------------------- MODULE MCTxBuffers ------------------------------
(* TLC instance of the two transports that keep a pool of transmit buffers of *)
(* their own: the blocks in slave memory (MemTx) and the URBs of USB          *)
(* (UsbUrbs).  A driver has one bus: each behaviour is one of the two.        *)
EXTENDS MemTx

CONSTANTS ACX_TX_URB_CNT, TX_STOP_QUEUE, TX_START_QUEUE, UintBits, MaxFrames, LateUrbs

VARIABLES
  bus,
  usb_skb, usb_head, usb_free, usb_reported,
  HW_UP, sem, busy, torn, txUrb, rxUrb, rxReset, device, deaf, lingered, lost,
  txAt, tx, txLoad, rxAt, rxLoad, rest, txWork, stopped, opAt, accepted, sent

Usb == INSTANCE UsbUrbs
  WITH skb <- usb_skb, head <- usb_head, free <- usb_free, reported <- usb_reported

ASSUME UsbAssumption == Usb!UsbUrbsAssumption

usbVars ==
  <<usb_skb, usb_head, usb_free, usb_reported, HW_UP, sem, busy, torn, txUrb, rxUrb, rxReset,
    device, deaf, lingered, lost, txAt, tx, txLoad, rxAt, rxLoad, rest, txWork, stopped,
    opAt, accepted, sent>>
all == <<bus, vars, usbVars>>

InitEither == bus \in {"mem", "usb"} /\ Init /\ Usb!Init

NextEither ==
  \/ bus = "mem" /\ Next /\ UNCHANGED <<bus, usbVars>>
  \/ bus = "usb" /\ Usb!Next /\ UNCHANGED <<bus, vars>>

OnUsb(A) == bus = "usb" /\ A /\ UNCHANGED <<bus, vars>>

\* UsbUrbs's FairSpec for the one, MemTx's Spec for the other.
SpecEither ==
  /\ InitEither /\ [][NextEither]_all
  /\ WF_all(OnUsb(Usb!RxPackets))
  /\ SF_all(OnUsb(\E i \in 0..1 : Usb!CompleteRx(i) /\ device' = {}))

CONSTANT f1

OneFrame == {f1}
NoErrors == {}
NoFrames == {}

ReceiveUrbs == {"rx"}

\* With eight bytes per block, of one, one and two blocks.
FrameLengths == {3, 4, 5}
-------------------------------------------------------------------------------
(* Those of UsbUrbs; while MemTx runs they say the same of its initial state.  *)

\* The count of free buffers, changed without a lock, is right from each start on, until one
\* of its updates comes between load and store of another (UsbUrbs).
FreeIsRight == Usb!FreeIsRight

\* A buffer is its frame's own until the status has come, and the status that comes
\* for it is that of the frame in it, as long as no URB outlasts a stop (UsbUrbs).
StatusIsOwn == Usb!StatusIsOwn

\* What the adapter has to report is reported, as long as no receive URB is refused or late
\* and unless the transfer failed (UsbUrbs).
StatusFollows == Usb!StatusFollows
===============================================================================
