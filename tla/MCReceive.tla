------------------------------ MODULE MCReceive -------------------------------
(* TLC instance of the two ways in which frames come in: the receive ring of  *)
(* PCI and slave memory adapters (RxRing), small enough to fill, empty and    *)
(* wrap, and the stream of USB (UsbRxStream).  A driver has one bus: each     *)
(* behaviour is one of the two.                                               *)
EXTENDS RxRing, Sequences

CONSTANTS RXBUF_HDRSIZE, RXBUF_SIZE, FrameSizes, MaxTransfer, MaxPackets

VARIABLES
  bus,
  stream, delivered, HW_UP, parsing, ptr, remsize, rxtruncbuf, truncated, usb_handled, missed,
  derailed

Usb == INSTANCE UsbRxStream WITH handled <- usb_handled

ASSUME UsbAssumption == Usb!UsbRxStreamAssumption

usbVars == <<stream, delivered, HW_UP, parsing, ptr, remsize, rxtruncbuf, truncated,
             usb_handled, missed, derailed>>
all == <<bus, vars, usbVars>>

\* The stream of an adapter without USB is of no interest.
InitEither ==
  /\ bus \in {"ring", "usb"} /\ Init /\ Usb!Init
  /\ bus = "ring" => Len(stream) = 1 /\ stream[1].txstat
  /\ bus = "usb" => ~SlaveMemory

NextEither ==
  \/ bus = "ring" /\ Next /\ UNCHANGED <<bus, usbVars>>
  \/ bus = "usb" /\ Usb!Next /\ UNCHANGED <<bus, vars>>

SpecEither ==
  /\ InitEither /\ [][NextEither]_all
  /\ WF_all(bus = "ring" /\ IrqWork /\ UNCHANGED <<bus, usbVars>>)

\* With a header of two bytes: short frames and the longest.
ThreeAndFive == {3, 5}
-------------------------------------------------------------------------------
\* Whichever way the stream is cut into transfers, its frames and statuses are
\* handled once, whole, and in order (UsbRxStream).
StreamIsFramed == Usb!StreamIsFramed
===============================================================================
