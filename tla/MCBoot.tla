-------------------------------- MODULE MCBoot --------------------------------
(* TLC instance of the two ways to bring an adapter up, with small sets: Boot *)
(* on the buses with a memory window, UsbBoot on USB.  A device is on one bus. *)
EXTENDS Boot

CONSTANTS Chips, Sizes, USB_RWMEM_MAXLEN, Word, UsbFaults

VARIABLES usb, chip, size, dev, pc, i, offset, usb_result

Usb == INSTANCE UsbBoot WITH Faults <- UsbFaults, result <- usb_result

ASSUME UsbAssumption == Usb!UsbBootAssumption

usbVars == <<chip, size, dev, pc, i, offset, usb_result>>
all == <<usb, vars, usbVars>>

\* What a device on the other bus would be is of no interest.
InitEither ==
  /\ Init /\ Usb!Init
  /\ \/ usb = TRUE /\ card = "acx100" /\ fw_image = "good" /\ radio_image = None
     \/ usb = FALSE /\ chip = "acx100" /\ size = 0

NextEither ==
  \/ usb = FALSE /\ Next /\ UNCHANGED <<usb, usbVars>>
  \/ usb = TRUE /\ Usb!Next /\ UNCHANGED <<usb, vars>>

SpecEither == InitEither /\ [][NextEither]_all

AllCards == {"acx100", "acx111", "mem", "vlynq"}
AllFaults == {"upload", "ecpu", "allocation", "command"}
AllChips == {"acx100", "tnetw1450"}
\* Nothing, and up to three transfers and a byte.
MCSizes == 0..25
TransferFaults == {"transfer"}
-------------------------------------------------------------------------------
(* That of UsbBoot; while Boot runs it says the same of its initial state.     *)

\* A boot that says it is well has made the device run what was sent, in as many bytes
\* and transfers as announced (UsbBoot).
WellIsRunning == Usb!WellIsRunning
===============================================================================
