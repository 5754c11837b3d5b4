-------------------------------- MODULE UsbBoot -------------------------------
(***************************************************************************)
(* The upload of firmware to a USB device (acxusb_boot) and what            *)
(* acxusb_probe makes of it.  An ACX100 comes back as another product when *)
(* its firmware runs; a TNETW1450 goes on as it is.                        *)
(***************************************************************************)
EXTENDS Integers

CONSTANTS
  Chips,            \* "acx100", "tnetw1450"
  Sizes,            \* fw_image->size: of the image without its header of 8 bytes
  USB_RWMEM_MAXLEN, \* of one transfer: 2048
  Word,             \* 2^32, for u32 arithmetic
  Faults            \* {"transfer"} if transfers can fail, be short or damaged

\* What is assumed of the constants.
UsbBootAssumption ==
  /\ Chips \subseteq {"acx100", "tnetw1450"} /\ Sizes \subseteq 0..(Word - 1)
  /\ USB_RWMEM_MAXLEN \in Nat \ {0} /\ Word \in Nat /\ Word % (2 * USB_RWMEM_MAXLEN) = 0
  /\ Faults \subseteq {"transfer"}

VARIABLES
  chip, size,
  dev,     \* the device: ready, running; what was announced, what has come, in how many
           \* transfers, and whether it is what was sent
  pc,      \* where acxusb_probe is
  i,       \* of the loop that waits
  offset,  \* less the 8 bytes of the header
  result   \* of acxusb_boot

vars == <<chip, size, dev, pc, i, offset, result>>

Init ==
  /\ chip \in Chips /\ size \in Sizes
  /\ dev = [ready |-> FALSE, running |-> FALSE, announced |-> 0, bytes |-> 0, transfers |-> 0,
            whole |-> TRUE]
  /\ pc = "probe" /\ i = 0 /\ offset = 0 /\ result = "none"

Faulty == "transfer" \in Faults

\* Leaves acxusb_boot.
Return(res) == pc' = "booted" /\ result' = res

\* The device may take its time.
DeviceReady ==
  /\ ~dev.ready
  /\ dev' = [dev EXCEPT !.ready = TRUE]
  /\ UNCHANGED <<chip, size, pc, i, offset, result>>

\* "First check if this is the "unbooted" hardware"
Probe ==
  /\ pc = "probe"
  /\ pc' = IF chip = "tnetw1450" THEN "wait" ELSE IF dev.running THEN "bind" ELSE "image"
  /\ UNCHANGED <<chip, size, dev, i, offset, result>>

\* Three times, but for (i = 0; i <= 2; i++) ends with 3, and breaks with 2.
WaitReady ==
  /\ pc = "wait"
  /\ \/ /\ i <= 2 /\ dev.ready
        /\ IF i = 2 THEN Return("-EIO") ELSE pc' = "image" /\ UNCHANGED result
        /\ UNCHANGED i
     \/ i <= 2 /\ (~dev.ready \/ Faulty) /\ i' = i + 1 /\ UNCHANGED <<pc, result>>
     \/ i = 3 /\ pc' = "image" /\ UNCHANGED <<i, result>>
  /\ UNCHANGED <<chip, size, dev, offset>>

\* acx_read_fw
ReadFw ==
  /\ pc = "image"
  /\ \/ pc' = (IF chip = "tnetw1450" THEN "header" ELSE "blocks") /\ UNCHANGED result
     \/ Return("-EIO")
  /\ UNCHANGED <<chip, size, dev, i, offset>>

\* Mutant: one transfer more for an image that fills its last one.
PadsFullBlocks == ((size \div USB_RWMEM_MAXLEN) + 1) % 2 = 0

\* acxusb_fw_needs_padding, in u32.
NeedsPadding == ((((size - 1) % Word) \div USB_RWMEM_MAXLEN) + 1) % 2 = 0

\* tmplen: file_size - 4 or file_size - 8
Announced == IF NeedsPadding THEN size + 4 ELSE size

\* The command block, and the checksum of the image.
SendHeader ==
  /\ pc = "header"
  /\ \/ dev' = [dev EXCEPT !.announced = Announced] /\ pc' = "blocks" /\ UNCHANGED result
     \/ Faulty /\ Return("-EIO") /\ UNCHANGED dev
  /\ UNCHANGED <<chip, size, i, offset>>

\* A transfer of n bytes has come, all of it or not.
Received(n, all) ==
  [dev EXCEPT !.bytes = @ + n, !.transfers = @ + 1, !.whole = @ /\ all]

BlkLen == IF size - offset > USB_RWMEM_MAXLEN THEN USB_RWMEM_MAXLEN ELSE size - offset

\* usb_bulk_msg tells how much it has processed; of usb_control_msg only an error
\* is noticed.
SendBlock ==
  /\ pc = "blocks" /\ offset < size
  /\ \/ /\ \E all \in (IF Faulty /\ chip = "acx100" THEN BOOLEAN ELSE {TRUE}) :
             dev' = Received(BlkLen, all)
        /\ offset' = offset + BlkLen
        /\ UNCHANGED <<pc, result>>
     \/ Faulty /\ Return("-EIO") /\ UNCHANGED <<dev, offset>>
  /\ UNCHANGED <<chip, size, i>>

BlocksEnd ==
  /\ pc = "blocks" /\ offset >= size
  /\ pc' = IF chip = "acx100" THEN "checksum" ELSE IF NeedsPadding THEN "padding" ELSE "answer"
  /\ UNCHANGED <<chip, size, dev, i, offset, result>>

SendPadding ==
  /\ pc = "padding"
  /\ \/ dev' = Received(4, TRUE) /\ pc' = "answer" /\ UNCHANGED result
     \/ Faulty /\ Return("-EIO") /\ UNCHANGED dev
  /\ UNCHANGED <<chip, size, i, offset>>

\* Device: runs what came as announced; an ACX100 whose checksum is right.
Accepts ==
  /\ dev.whole
  /\ chip = "tnetw1450" => dev.ready /\ dev.bytes = dev.announced

\* The words of the answer, or its first byte: "invalid checksum?"
AnswerIsGood(accepted) == accepted

\* The checksum is sent ("does this trigger the reboot?") and the answer read.
ReadAnswer ==
  /\ pc \in {"answer", "checksum"}
  /\ dev' = [dev EXCEPT !.running = Accepts]
  /\ \/ Return(IF AnswerIsGood(Accepts) THEN "OK" ELSE "-EIO")
     \/ Faulty /\ Return("-EIO")
  /\ UNCHANGED <<chip, size, i, offset>>

\* "simply return immediately", for "a *separate* probe() run"; or go on.
BootEnd ==
  /\ pc = "booted"
  /\ pc' = IF chip = "tnetw1450" THEN "bind" ELSE IF dev.running THEN "probe" ELSE "left"
  /\ UNCHANGED <<chip, size, dev, i, offset, result>>

\* The device is driven from now on.
Bind ==
  /\ pc = "bind"
  /\ pc' = "bound"
  /\ UNCHANGED <<chip, size, dev, i, offset, result>>

Next ==
  \/ DeviceReady \/ Probe \/ WaitReady \/ ReadFw \/ SendHeader \/ SendBlock \/ BlocksEnd
  \/ SendPadding \/ ReadAnswer \/ BootEnd \/ Bind

Spec == Init /\ [][Next]_vars
-------------------------------------------------------------------------------
TypeOK ==
  /\ chip \in Chips /\ size \in Sizes
  /\ {dev.ready, dev.running, dev.whole} \subseteq BOOLEAN
  /\ dev.announced \in 0..(size + 4) /\ dev.bytes \in 0..(size + 4)
  /\ dev.transfers \in 0..((size \div USB_RWMEM_MAXLEN) + 2)
  /\ pc \in {"probe", "wait", "image", "header", "blocks", "padding", "answer", "checksum",
             "booted", "bind", "bound", "left"}
  /\ i \in 0..3 /\ offset \in 0..size /\ result \in {"none", "OK", "-EIO"}

\* The TNETW1450 is told how many bytes will come, padding included, for images
\* of any size, whether or not they fill their last transfer.
AnnouncedIsSent == pc = "answer" => dev.bytes = dev.announced

\* Its data comes in an odd number of transfers, which is what the padding is for.
OddTransfers == pc = "answer" => dev.transfers % 2 = 1

\* acxusb_boot says it is well only if the device runs what was sent, also when
\* transfers were short; and what it sends is what the device waits for.
WellIsRunning ==
  /\ TypeOK /\ AnnouncedIsSent /\ OddTransfers
  /\ result = "OK" => dev.running

(* The inductive invariant of the above. *)

Device == [ready : BOOLEAN, running : BOOLEAN, announced : Nat, bytes : Nat,
           transfers : Nat, whole : BOOLEAN]

\* Transfers for n bytes, all but the last of them full.
Transfers(n) == IF n = 0 THEN 0 ELSE ((n - 1) \div USB_RWMEM_MAXLEN) + 1

Padding(n) == IF NeedsPadding THEN n ELSE 0

\* What the device has got: so far blocks, each of them full but the last; all of the
\* image; its padding.
SentSoFar ==
  /\ pc \in {"wait", "image", "header"} => ~dev.running /\ offset = 0
  /\ pc = "probe" => (dev.running /\ chip = "acx100") \/ (~dev.running /\ offset = 0)
  /\ pc \notin {"answer", "booted", "bind", "bound", "left"} /\ ~dev.running =>
       dev.bytes = offset /\ dev.transfers = Transfers(offset)
  /\ offset < size => offset % USB_RWMEM_MAXLEN = 0
  /\ pc \in {"padding", "answer"} => offset = size
  /\ pc = "padding" => NeedsPadding
  /\ pc = "answer" => /\ dev.bytes = size + Padding(4)
                      /\ dev.transfers = Transfers(size) + Padding(1)

UploadIInv ==
  /\ TypeOK /\ SentSoFar
  /\ dev \in Device
  /\ pc \in {"wait", "header", "padding", "answer"} => chip = "tnetw1450"
  /\ pc = "checksum" => chip = "acx100"
  /\ pc \in {"header", "blocks", "padding", "answer", "checksum"} => ~dev.running
  /\ pc \in {"blocks", "padding", "answer"} /\ chip = "tnetw1450" => dev.announced = Announced
  /\ result = "OK" => dev.running

(* Sentences of the source that do not hold; no run checks them. *)

\* "Ok, so it's our device and it has already booted"
BoundIsBooted == pc = "bound" => dev.running

\* "wait for device ready"
WaitsForReady == chip = "tnetw1450" /\ pc \in {"header", "blocks"} => dev.ready
===============================================================================
