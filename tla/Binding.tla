-------------------------------- MODULE Binding --------------------------------
(***************************************************************************)
(* The binding of the driver to a device on each of its buses: probe, with *)
(* any step failing and its error labels, remove, and the suspend and      *)
(* resume of PCI devices.  What a step acquires and releases is modelled,  *)
(* by name; what the device does meanwhile is in the other modules.        *)
(***************************************************************************)
EXTENDS Naturals, Sequences

CONSTANT Buses  \* of "pci", "vlynq", "mem", "usb"

ASSUME BindingAssumption == Buses \subseteq {"pci", "vlynq", "mem", "usb"}

VARIABLES
  bus,
  phase, \* what runs: "none", "probe", "unwind", "bound", "remove", "suspend"...
  pc,    \* its next step
  held,  \* what has been acquired and not been released
  wrong, \* what has been released without being held
  up     \* the interface is up

bindingVars == <<bus, phase, pc, held, wrong, up>>

\* A step of a probe: what it acquires ("" if nothing), and the label it goes to
\* when it fails ("return": it returns at once; "ignored": it goes on).
Gets(res, label) == [gets |-> res, label |-> label]

\* A release: after which label, of what, and which pointer is looked at before.
Frees(label, res) == [label |-> label, frees |-> res, if |-> "always"]
FreesIf(label, res, ptr) == [label |-> label, frees |-> res, if |-> ptr]
-------------------------------------------------------------------------------
(* The four probe functions *)

PciSetup ==
  <<Gets("hw", "fail_ieee80211_alloc_hw"), Gets("mechanics", "fail_init_mechanics"),
    Gets("pci", "fail_pci_enable_device"), Gets("", "fail_unknown_chiptype"),
    Gets("region1", "fail_request_mem_region1"), Gets("region2", "fail_request_mem_region2"),
    Gets("iomap1", "fail_iomap1"), Gets("iomap2", "fail_iomap2"), Gets("", "fail_no_irq")>>

PciStart ==
  <<Gets("irq", "fail_request_irq"), Gets("firmware", "fail_load_firmware"),
    Gets("dma", "fail_reset_on_probe"), Gets("debugfs", "fail_debugfs"),
    Gets("registered", "fail_ieee80211_register_hw")>>

VlynqSetup ==
  <<Gets("hw", "fail_vlynq_ieee80211_alloc_hw"), Gets("mechanics", "fail_init_mechanics"),
    Gets("vlynq", "fail_vlynq_enable_device"), Gets("", "fail_vlynq_ioremap1"),
    Gets("region1", "fail_vlynq_request_mem_region"), Gets("iomap1", "fail_vlynq_ioremap2"),
    Gets("", "fail_vlynq_irq")>>

VlynqStart ==
  <<Gets("irq", "return"), Gets("firmware", "fail_load_firmware"),
    Gets("dma", "fail_reset_on_probe"), Gets("debugfs", "fail_debugfs"),
    Gets("registered", "fail_vlynq_ieee80211_register_hw")>>

MemSetup ==
  <<Gets("hw", "fail_ieee80211_alloc_hw"), Gets("mechanics", "fail_init_mechanics"),
    Gets("iomap1", "fail_ioremap"), Gets("", "return"), Gets("", "fail_request_irq")>>

MemStart ==
  <<Gets("irq", "fail_request_irq"), Gets("firmware", "fail_load_firmware"),
    Gets("dma", "fail_reset_on_probe"), Gets("debugfs", "fail_debugfs"),
    Gets("registered", "fail_ieee80211_register_hw")>>

UsbSetup ==
  <<Gets("hw", "end_nomem"), Gets("mechanics", "end_nomem"),
    Gets("usb_tx", "end_nomem"), Gets("usb_rx", "end_nomem"),
    Gets("rx_urbs", "end_nomem"), Gets("tx_urbs", "end_nomem")>>

UsbStart ==
  <<Gets("", "return"), Gets("debugfs", "ignored"), Gets("registered", "end_nomem")>>

Probe ==
  CASE bus = "pci" -> PciSetup \o PciStart
    [] bus = "vlynq" -> VlynqSetup \o VlynqStart
    [] bus = "mem" -> MemSetup \o MemStart
    [] bus = "usb" -> UsbSetup \o UsbStart

\* acx_reset_on_probe and the loops over URBs acquire in several parts.
Partly == {"dma", "rx_urbs", "tx_urbs"}
-------------------------------------------------------------------------------
(* "error paths: undo everything in reverse order..." *)

PciUnwind ==
  <<Frees("fail_ieee80211_register_hw", "registered"), Frees("fail_debugfs", ""),
    Frees("fail_reset_on_probe", ""), FreesIf("fail_load_firmware", "firmware", "firmware"),
    Frees("fail_request_irq", "irq"), Frees("fail_no_irq", ""),
    Frees("fail_iomap2", "iomap2"), Frees("fail_iomap1", "iomap1"),
    Frees("fail_request_mem_region2", "region2"), Frees("fail_request_mem_region1", "region1"),
    Frees("fail_unknown_chiptype", ""), Frees("fail_pci_enable_device", "pci"),
    Frees("fail_init_mechanics", "hw"), Frees("fail_ieee80211_alloc_hw", "")>>

VlynqUnwind ==
  <<Frees("fail_vlynq_ieee80211_register_hw", ""), Frees("fail_debugfs", ""),
    Frees("fail_reset_on_probe", ""), FreesIf("fail_load_firmware", "firmware", "firmware"),
    Frees("fail_vlynq_irq", "iomap1"), Frees("fail_vlynq_ioremap2", "region1"),
    Frees("fail_vlynq_request_mem_region", ""), Frees("fail_vlynq_ioremap1", "vlynq"),
    Frees("fail_vlynq_enable_device", ""), Frees("fail_init_mechanics", "hw"),
    Frees("fail_vlynq_ieee80211_alloc_hw", "")>>

\* Mutant: the interrupt is not freed.
MemIrqKept == Frees("fail_request_irq", "")

MemFreeIrq == Frees("fail_request_irq", "irq")

MemUnwind ==
  <<Frees("fail_ieee80211_register_hw", ""), Frees("fail_debugfs", ""),
    Frees("fail_reset_on_probe", ""), FreesIf("fail_load_firmware", "firmware", "firmware"),
    MemFreeIrq, FreesIf("fail_ioremap", "iomap1", "iomap1"),
    Frees("fail_init_mechanics", ""), FreesIf("fail_ieee80211_alloc_hw", "dma", "dma"),
    Frees("", "hw")>>

UsbUnwind ==
  <<FreesIf("end_nomem", "rx_urbs", "usb_rx"), FreesIf("", "usb_rx", "usb_rx"),
    FreesIf("", "tx_urbs", "usb_tx"), FreesIf("", "usb_tx", "usb_tx"), FreesIf("", "hw", "hw")>>

Unwind ==
  CASE bus = "pci" -> PciUnwind
    [] bus = "vlynq" -> VlynqUnwind
    [] bus = "mem" -> MemUnwind
    [] bus = "usb" -> UsbUnwind
-------------------------------------------------------------------------------
(* The four remove functions *)

PciRemove ==
  <<Frees("", "registered"), Frees("", "debugfs"), FreesIf("", "firmware", "firmware"),
    Frees("", "irq"), FreesIf("", "dma", "dma"), FreesIf("", "iomap1", "iomap1"),
    FreesIf("", "iomap2", "iomap2"), Frees("", "region1"), Frees("", "region2"),
    Frees("", "pci"), Frees("", "mechanics"), Frees("", "hw")>>

\* iobase2 is a part of the mapping at iobase.
VlynqRemove ==
  <<Frees("", "registered"), Frees("", "debugfs"), FreesIf("", "firmware", "firmware"),
    Frees("", "irq"), FreesIf("", "dma", "dma"), FreesIf("", "iomap1", "iomap1"),
    Frees("", "iomap2"), Frees("", "region1"), Frees("", "vlynq"),
    Frees("", "mechanics"), Frees("", "hw")>>

MemRemove ==
  <<Frees("", "registered"), Frees("", "debugfs"), FreesIf("", "firmware", "firmware"),
    Frees("", "irq"), FreesIf("", "dma", "dma"), FreesIf("", "iomap1", "iomap1"),
    Frees("", "mechanics"), Frees("", "hw")>>

\* Mutant: acx_free_mechanics is forgotten, as it is in all error paths.
MechanicsKept == Frees("", "")

UsbFreeMechanics == Frees("", "mechanics")

UsbDisconnect ==
  <<Frees("", "registered"), FreesIf("", "debugfs", "debugfs"), Frees("", "rx_urbs"),
    Frees("", "tx_urbs"), Frees("", "usb_rx"), Frees("", "usb_tx"),
    UsbFreeMechanics, Frees("", "hw")>>

Remove ==
  CASE bus = "pci" -> PciRemove
    [] bus = "vlynq" -> VlynqRemove
    [] bus = "mem" -> MemRemove
    [] bus = "usb" -> UsbDisconnect
-------------------------------------------------------------------------------
InitBinding ==
  /\ bus \in Buses
  /\ phase = "none" /\ pc = 1
  /\ held = {} /\ wrong = {} /\ up = FALSE

FirstStep == 1

ProbeStart ==
  /\ phase = "none"
  /\ phase' = "probe" /\ pc' = FirstStep
  /\ UNCHANGED <<bus, held, wrong, up>>

ProbeStep == Probe[pc]

Acquired == held \cup ({ProbeStep.gets} \ {""})

ProbeOk ==
  /\ phase = "probe"
  /\ held' = Acquired
  /\ IF pc = Len(Probe)
     THEN phase' = "bound" /\ pc' = FirstStep
     ELSE pc' = pc + 1 /\ UNCHANGED phase
  /\ UNCHANGED <<bus, wrong, up>>

ProbeFails ==
  /\ phase = "probe"
  /\ held' \in IF ProbeStep.gets \in Partly THEN {held, Acquired} ELSE {held}
  /\ CASE ProbeStep.label = "return" -> phase' = "failed" /\ pc' = FirstStep
       [] ProbeStep.label = "ignored" -> pc' = pc + 1 /\ UNCHANGED phase
       [] OTHER -> /\ phase' = "unwind"
                   /\ pc' = CHOOSE i \in DOMAIN Unwind : Unwind[i].label = ProbeStep.label
  /\ UNCHANGED <<bus, wrong, up>>

Release(r) ==
  IF r.frees = "" \/ (r.if # "always" /\ r.if \notin held)
  THEN UNCHANGED <<held, wrong>>
  ELSE held' = held \ {r.frees} /\ wrong' = wrong \cup ({r.frees} \ held)

UnwindStep ==
  /\ phase = "unwind"
  /\ Release(Unwind[pc])
  /\ IF pc = Len(Unwind)
     THEN phase' = "failed" /\ pc' = FirstStep
     ELSE pc' = pc + 1 /\ UNCHANGED phase
  /\ UNCHANGED <<bus, up>>

OpenOrClose ==
  /\ phase = "bound" /\ "registered" \in held
  /\ up' = ~up
  /\ UNCHANGED <<bus, phase, pc, held, wrong>>

\* The remove function begins when nothing else runs; unregistering stops the
\* interface.
RemoveStart ==
  /\ phase \in {"bound", "suspended"}
  /\ phase' = "remove" /\ pc' = FirstStep
  /\ UNCHANGED <<bus, held, wrong, up>>

RemoveStep ==
  /\ phase = "remove"
  /\ Release(Remove[pc])
  /\ up' = FALSE
  /\ IF pc = Len(Remove)
     THEN phase' = "removed" /\ pc' = FirstStep
     ELSE pc' = pc + 1 /\ UNCHANGED phase
  /\ UNCHANGED bus

\* acxpci_e_suspend takes acx_sem and unregisters the hardware, which waits for
\* acx_op_stop, and that for acx_sem, if the interface is up.
SuspendLock ==
  /\ bus = "pci" /\ phase = "bound"
  /\ phase' = "suspend"
  /\ UNCHANGED <<bus, pc, held, wrong, up>>

Suspend ==
  /\ phase = "suspend" /\ ~up
  /\ held' = held \ {"registered", "dma"}
  /\ wrong' = wrong \cup ({"registered"} \ held)
  /\ phase' = "suspended"
  /\ UNCHANGED <<bus, pc, up>>

\* acx_reset_dev fails, acx_init_mac fails with or without the regions, or all is well.
HeldAfterResume == {held, held \cup {"dma"}, held \cup {"dma", "registered"}}

\* acxpci_e_resume; when a step fails it returns OK all the same.
Resume ==
  /\ phase = "suspended"
  /\ phase' = "bound"
  /\ held' \in HeldAfterResume
  /\ UNCHANGED <<bus, pc, wrong, up>>

NextBinding ==
  \/ ProbeStart \/ ProbeOk \/ ProbeFails \/ UnwindStep
  \/ OpenOrClose \/ RemoveStart \/ RemoveStep
  \/ SuspendLock \/ Suspend \/ Resume

SpecBinding == InitBinding /\ [][NextBinding]_bindingVars
-------------------------------------------------------------------------------
Resources ==
  {"hw", "mechanics", "pci", "vlynq", "region1", "region2", "iomap1", "iomap2", "irq",
   "firmware", "dma", "debugfs", "registered", "usb_tx", "usb_rx", "rx_urbs", "tx_urbs"}

BindingTypeOK ==
  /\ bus \in Buses
  /\ phase \in {"none", "probe", "unwind", "failed", "bound", "remove", "removed", "suspend",
             "suspended"}
  /\ held \subseteq Resources /\ wrong \subseteq Resources /\ up \in BOOLEAN
  /\ pc \in CASE phase = "probe" -> DOMAIN Probe
              [] phase = "unwind" -> DOMAIN Unwind
              [] phase = "remove" -> DOMAIN Remove
              [] OTHER -> {1}

\* While the interrupt handler is installed, on a line shared with other devices,
\* what it uses is there: adev in hw, its lock and work, and the registers.  Not so
\* after a probe of vlynq that has failed, which never frees the interrupt.
HandlerIsSafe ==
  "irq" \in held /\ (bus = "vlynq" => phase \notin {"unwind", "failed"}) =>
    {"hw", "mechanics", "iomap1"} \subseteq held

\* While mac80211 may call the driver, what the operations use is there.
CallbacksFindAll ==
  "registered" \in held =>
    {"hw", "mechanics"} \cup (IF bus = "usb" THEN {"rx_urbs", "tx_urbs"} ELSE {"irq", "dma"})
      \subseteq held

\* The driver core, mac80211 and other devices' interrupts may call in between any
\* two steps of probe, unwinding, removal, suspend and resume: what they use is there.
CallersFindAll == BindingTypeOK /\ HandlerIsSafe /\ CallbacksFindAll

\* A device that was bound and is removed leaves nothing behind.
RemoveLeavesNothing == phase = "removed" => held = {}

(* Sentences of the source that do not hold; no run checks them. *)

\* "error paths: undo everything in reverse order...": a failed probe leaves nothing
\* behind.
ProbeUndoesAll == phase = "failed" => held = {}

\* Likewise: only what was acquired is released.
OnlyOwnReleased == wrong = {}

\* "This can't be called with sem or lock held because _close() will try to grab it as
\* well": ieee80211_unregister_hw is not called with acx_sem held while the interface is up.
StopsWithoutSem == phase = "suspend" => ~up
===============================================================================
