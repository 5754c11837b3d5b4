------------------------------ MODULE UsbRxStream ------------------------------
(***************************************************************************)
(* What acxusb_complete_rx makes of the bytes a USB device sends: received *)
(* frames and tx statuses follow one another in a stream that is cut into  *)
(* transfers anywhere.  Where a transfer ends in the middle of a frame, its*)
(* beginning waits in rxtruncbuf for the next transfer.                    *)
(***************************************************************************)
EXTENDS Naturals, Sequences, FiniteSets

CONSTANTS
  RXBUF_HDRSIZE,   \* bytes in a header; a tx status is no longer than that
  RXBUF_SIZE,      \* sizeof(rxbuffer_t)
  FrameSizes,      \* sizes of received frames, with the header
  MaxTransfer,     \* bound: bytes in a transfer
  MaxPackets       \* bound: packets in the stream

UsbRxStreamAssumption ==
  /\ RXBUF_HDRSIZE \in Nat \ {0} /\ RXBUF_SIZE \in Nat
  /\ FrameSizes \subseteq RXBUF_HDRSIZE + 1 .. RXBUF_SIZE
  /\ MaxTransfer \in Nat /\ MaxPackets \in Nat

VARIABLES
  stream,     \* the packets the device sends; its bytes are numbered from 1
  delivered,  \* bytes that have come, or never will
  HW_UP,      \* ACX_FLAG_HW_UP
  parsing,    \* a completion handler is at work
  ptr,        \* the next byte it looks at
  remsize,    \* bytes of the transfer it has not looked at
  rxtruncbuf, \* the bytes in adev->rxtruncbuf; rxtruncsize is their number
  truncated,  \* RXBUF_BYTES_USED of the header in it
  handled,    \* the packets passed on or taken for a status, as the bytes in them
  missed,     \* packets the device has sent, but the driver could not get whole
  derailed    \* history: the handler may have lost its place in the stream

device == <<stream, delivered>>
buffer == <<rxtruncbuf, truncated>>
local  == <<parsing, ptr, remsize>>
vars   == <<device, HW_UP, local, buffer, handled, missed, derailed>>

Packets == [size : FrameSizes, txstat : {FALSE}] \cup [size : {RXBUF_HDRSIZE}, txstat : {TRUE}]

Init ==
  /\ stream \in UNION {[1..n -> Packets] : n \in 1..MaxPackets}
  /\ delivered = 0
  /\ HW_UP = TRUE
  /\ parsing = FALSE /\ ptr = 1 /\ remsize = 0
  /\ rxtruncbuf = << >> /\ truncated = 0
  /\ handled = << >> /\ missed = {} /\ derailed = FALSE

\* The last byte of the p-th packet, and all of its bytes.
Ends(packets) ==
  LET end[p \in 0..Len(packets)] == IF p = 0 THEN 0 ELSE end[p - 1] + packets[p].size IN end
End(p) == Ends(stream)[p]
Bytes(first, n) == [i \in 1..n |-> first + i - 1]
Packet(p) == Bytes(End(p - 1) + 1, stream[p].size)

Length == End(Len(stream))
Boundary(b) == \E p \in 0..Len(stream) : End(p) = b
PacketsIn(first, last) ==
  {p \in DOMAIN stream : End(p - 1) < last /\ End(p) >= first}

\* The headers that byte b may be taken for.  In the middle of a packet it is any.
HeadersAt(b) ==
  IF b <= Length /\ Boundary(b - 1)
  THEN {stream[p] : p \in PacketsIn(b, b)}
  ELSE [size : RXBUF_HDRSIZE .. RXBUF_SIZE + 1, txstat : BOOLEAN]
\* The histories end where the handler may have lost its place.
Handle(bytes) == handled' = IF derailed THEN handled ELSE Append(handled, bytes)
Miss(packets) == missed' = IF derailed THEN missed ELSE missed \cup packets
-------------------------------------------------------------------------------
(* A transfer ends *)

Sizes == {n \in 0..MaxTransfer : delivered + n <= Length}

\* Mutant: a frame that is complete with this transfer still waits.
OneByteMore(size, tail_size) == size <= tail_size

NotEnough(size, tail_size) == size < tail_size

\* The transfer goes to the end of the cut frame if there is one, and at most there.
CompleteCut(size) ==
  LET tail_size == truncated - Len(rxtruncbuf) IN
  IF NotEnough(size, tail_size)
  THEN /\ rxtruncbuf' = rxtruncbuf \o Bytes(delivered + 1, size)
       /\ remsize' = 0
       /\ UNCHANGED <<ptr, truncated, handled, missed>>
  ELSE /\ \/ /\ HW_UP
             /\ Handle(rxtruncbuf \o Bytes(delivered + 1, tail_size))
             /\ UNCHANGED missed
          \/ /\ Miss(PacketsIn(delivered + tail_size, delivered + tail_size))
             /\ UNCHANGED handled
       /\ rxtruncbuf' = << >> /\ truncated' = 0
       /\ ptr' = delivered + 1 + tail_size
       /\ remsize' = size - tail_size

CompleteRx(size) ==
  /\ ~parsing /\ HW_UP
  /\ parsing' = TRUE
  /\ delivered' = delivered + size
  /\ IF rxtruncbuf # << >>
     THEN CompleteCut(size)
     ELSE /\ ptr' = delivered + 1 /\ remsize' = size
          /\ UNCHANGED <<buffer, handled, missed>>
  /\ UNCHANGED <<stream, HW_UP, derailed>>

\* The transfer has failed: what was in it is not looked at.
CompleteRxError(size) ==
  /\ ~parsing /\ HW_UP
  /\ delivered' = delivered + size
  /\ Miss(PacketsIn(delivered + 1 - Len(rxtruncbuf), delivered'))
  /\ rxtruncbuf' = << >> /\ truncated' = 0
  /\ derailed' = (derailed \/ ~Boundary(delivered'))
  /\ UNCHANGED <<stream, HW_UP, local, handled>>

\* "device is down, not doing anything"
CompleteRxDown(size) ==
  /\ ~parsing /\ ~HW_UP
  /\ delivered' = delivered + size
  /\ Miss(PacketsIn(delivered + 1, delivered'))
  /\ UNCHANGED <<stream, HW_UP, local, buffer, handled, derailed>>
-------------------------------------------------------------------------------
(* while (remsize) *)

Break == parsing' = FALSE /\ remsize' = 0 /\ UNCHANGED ptr

LoopEnd ==
  /\ parsing /\ remsize = 0
  /\ Break
  /\ UNCHANGED <<device, HW_UP, buffer, handled, missed, derailed>>

\* "truncated rx header": what there is of it is dropped.
HeaderCut ==
  /\ parsing /\ remsize \in 1 .. RXBUF_HDRSIZE - 1
  /\ Break
  /\ derailed' = TRUE
  /\ UNCHANGED <<device, HW_UP, buffer, handled, missed>>

\* next:  A status may be said to be longer than what is left: the next turn of the
\* loop then finds fewer bytes than a header has, and ends it.
GoOn(packetsize) ==
  /\ ptr' = ptr + packetsize
  /\ remsize' = IF packetsize > remsize THEN 0 ELSE remsize - packetsize
  /\ UNCHANGED parsing

TxStatus(header) ==
  /\ header.txstat
  /\ Handle(Bytes(ptr, header.size))
  /\ GoOn(header.size)
  /\ UNCHANGED <<buffer, missed>>

\* "packet exceeds max wlan frame size"
TooLarge(header) ==
  /\ ~header.txstat
  /\ header.size > RXBUF_SIZE
  /\ Break
  /\ UNCHANGED <<buffer, handled, missed>>

Truncate(header) ==
  /\ ~header.txstat
  /\ header.size <= RXBUF_SIZE /\ header.size > remsize
  /\ rxtruncbuf' = Bytes(ptr, remsize) /\ truncated' = header.size
  /\ Break
  /\ UNCHANGED <<handled, missed>>

\* acx_rx drops the frame when the interface has just gone down, or without an skb.
ProcessRxbuf(header) ==
  /\ ~header.txstat
  /\ header.size <= RXBUF_SIZE /\ header.size <= remsize
  /\ \/ HW_UP /\ Handle(Bytes(ptr, header.size)) /\ UNCHANGED missed
     \/ Miss(PacketsIn(ptr, ptr)) /\ UNCHANGED handled
  /\ GoOn(header.size)
  /\ UNCHANGED buffer

Loop ==
  /\ parsing /\ remsize >= RXBUF_HDRSIZE
  /\ \E header \in HeadersAt(ptr) :
       TxStatus(header) \/ TooLarge(header) \/ Truncate(header) \/ ProcessRxbuf(header)
  /\ UNCHANGED <<device, HW_UP, derailed>>
-------------------------------------------------------------------------------
(* The interface goes down and up *)

OpStop ==
  /\ HW_UP
  /\ HW_UP' = FALSE
  /\ UNCHANGED <<device, local, buffer, handled, missed, derailed>>

\* The device is booted again and begins with a whole packet.  Nothing forgets what
\* is in rxtruncbuf.
OpStart ==
  /\ ~HW_UP /\ ~parsing
  /\ HW_UP' = TRUE
  /\ delivered' = CHOOSE b \in delivered..Length :
                     Boundary(b) /\ \A c \in delivered .. b - 1 : ~Boundary(c)
  /\ Miss(PacketsIn(delivered + 1, delivered'))
  /\ derailed' = (derailed \/ rxtruncbuf # << >>)
  /\ UNCHANGED <<stream, local, buffer, handled>>

Next ==
  \/ \E size \in Sizes : CompleteRx(size) \/ CompleteRxError(size) \/ CompleteRxDown(size)
  \/ LoopEnd \/ HeaderCut \/ Loop
  \/ OpStop \/ OpStart

Spec == Init /\ [][Next]_vars
-------------------------------------------------------------------------------
TypeOK ==
  /\ stream \in Seq(Packets) /\ delivered \in 0..Length
  /\ HW_UP \in BOOLEAN /\ parsing \in BOOLEAN
  /\ ptr \in Nat /\ remsize \in 0..MaxTransfer
  /\ rxtruncbuf \in Seq(Nat) /\ truncated \in 0..RXBUF_SIZE
  /\ handled \in Seq(Seq(Nat)) /\ missed \subseteq DOMAIN stream /\ derailed \in BOOLEAN

\* "adev->rxtruncbuf can't overflow": whatever is taken for a header, the cut frame
\* lacks something, and has room for it.
TruncbufFits ==
  IF rxtruncbuf = << >> THEN truncated = 0 ELSE Len(rxtruncbuf) < truncated

\* These packets are P, one by one, whole, as they follow one another in the stream.
InOrder(packets, P) ==
  /\ Len(packets) = Cardinality(P)
  /\ \A p \in P : packets[Cardinality({q \in P : q <= p})] = Packet(p)

Complete == {p \in DOMAIN stream : End(p) <= delivered}

\* Whichever way the stream is cut into transfers, every frame and status in it is
\* handled once, whole, and in order, but for those that failed transfers and stops
\* have taken away; until a transfer ends inside a header, a failed one inside a
\* packet, or a stop comes while the beginning of a frame is in rxtruncbuf.
StreamIsFramed ==
  /\ TypeOK /\ TruncbufFits
  /\ ~parsing /\ ~derailed => InOrder(handled, Complete \ missed)
===============================================================================
