--------------------------------- MODULE Boot ---------------------------------
(***************************************************************************)
(* Bringing the adapter up (boot.c, init.c, merge.c): halt the eCPU, upload *)
(* and compare the firmware (and patch it, on slave memory), start the eCPU, *)
(* upload the radio firmware, lay out the adapter's memory and create the   *)
(* rings in it.  acx_reset_on_probe does it once, acx_op_start again each    *)
(* time an interface comes up.  A boot is the list of its steps; each names *)
(* what its failure leads to.                                               *)
(***************************************************************************)
EXTENDS MemoryMap, Sequences, FiniteSets

CONSTANTS
  Cards,        \* "acx100" and "acx111" on PCI, "mem" (an ACX100) and "vlynq" (an ACX111)
  Attempts,     \* of an upload: 5 in the code
  CodeSize, PatchSize, RadioSize, TemplateSize, MemorySize, \* of the adapter, in bytes
  OtherAddress, \* what an uninitialised offset may be
  Faults        \* which of "upload", "ecpu", "allocation", "command" can go wrong

ASSUME BootAssumption ==
  /\ Cards \subseteq {"acx100", "acx111", "mem", "vlynq"}
  /\ Attempts \in Nat \ {0}
  /\ {CodeSize, PatchSize, RadioSize, TemplateSize, MemorySize, OtherAddress} \subseteq Nat
  /\ Faults \subseteq {"upload", "ecpu", "allocation", "command"}

\* The memory has room for all that comes before the block pools, with 51 bytes
\* between the areas; nothing in the driver looks whether it has.
ASSUME RoomAssumption ==
  CodeSize + PatchSize + RadioSize + 5 * TemplateSize + TxBytes + RxBytes + 51 <= MemorySize

VARIABLES
  card,
  fw_image,    \* what was loaded: "good", "corrupt", or "hx4700", which is good and patched
  radio_image, \* "good", "corrupt" or "none"
  acx,         \* the adapter
  FW_LOADED, HW_UP,
  cmd_area,    \* the mailboxes are known
  bufs, live,  \* pointers to buffers and host descriptors; how many were allocated
  acxdesc,     \* acxdescinfo.start: where the driver has its rings
  acx_txbuf,   \* acx_txbuf_start and acx_txbuf_numblocks
  mm,          \* the driver's copy of the memory map
  todo,        \* the steps of the running boot
  try,         \* of the running upload
  op, result   \* whose boot, and how it ended

image == <<card, fw_image, radio_image>>
driver == <<FW_LOADED, HW_UP, cmd_area, bufs, live, acxdesc, acx_txbuf, mm>>
vars == <<image, acx, driver, todo, try, op, result>>

Acx100 == card \in {"acx100", "mem"}
memblocksize == 256
None == "none"
NoMap == [CodeEnd |-> 0, WEPCacheStart |-> 0, WEPCacheEnd |-> 0,
          PacketTemplateStart |-> 0, PacketTemplateEnd |-> 0,
          QueueStart |-> 0, QueueEnd |-> 0, PoolStart |-> 0, PoolEnd |-> 0]

\* The adapter after its power is switched on; its eCPU waits for firmware: the code
\* as it was uploaded, and the words of the patch, which are written over some of the
\* code's and behind it.  It is disturbed when the failure of a command is passed
\* over, or its eCPU runs a patch that the bus has changed.
AcxOff ==
  [ecpu |-> "halted", code |-> None, patch |-> None, radio |-> None,
   radioOn |-> FALSE, awake |-> TRUE, templates |-> {}, queue |-> 0, pools |-> None,
   linked |-> FALSE, map |-> NoMap, disturbed |-> FALSE]

Init ==
  /\ card \in Cards
  /\ fw_image \in {"good", "hx4700"} \cup (IF "upload" \in Faults THEN {"corrupt"} ELSE {})
  /\ radio_image \in {None, "good"} \cup (IF "upload" \in Faults THEN {"corrupt"} ELSE {})
  /\ acx = AcxOff
  /\ FW_LOADED = FALSE /\ HW_UP = FALSE /\ cmd_area = FALSE
  /\ bufs = {} /\ live = 0 /\ acxdesc = 0 /\ acx_txbuf = None /\ mm = NoMap
  /\ todo = <<>> /\ try = 1
  /\ op = "none" /\ result = "none"
-------------------------------------------------------------------------------
(* The steps of a boot *)

Step(do, fails) == [do |-> do, fails |-> fails]
Steps(names, fails) == [i \in DOMAIN names |-> Step(names[i], fails)]

ResetDev == Steps(<<"resetMac", "upload", "startEcpu", "verifyInit", "initMboxes">>, "end")

\* Mutant: the adapter is not woken up.
SleptOn ==
  IF radio_image = None THEN <<>>
  ELSE Steps(<<"map", "sleep", "radio", "radioinit">>, "ignored")

\* acx_upload_radio: its result is not looked at.
UploadRadio ==
  IF radio_image = None THEN <<>>
  ELSE Steps(<<"map", "sleep", "radio", "wake", "radioinit">>, "ignored")

InitWep == Steps(<<"map", "wepCache", "templatesAt">>, "end")

\* "order is very important here, to have a correct memory layout!"
TemplateNames == {"probeRequest", "nullData", "beacon", "tim", "probeResponse"}
Templates ==
  Steps(<<"probeRequest", "nullData", "beacon", "tim", "probeResponse">>, "end")
  \o (IF Acx100 THEN Steps(<<"setTim", "map", "queuesAt">>, "end") ELSE <<>>)

\* The buffers and descriptors: one queue for transmission, or two.
Buffers == {"rxhost", "rxbuf"} \cup
           (IF Acx100 THEN {"txbuf0", "txhost0"} ELSE {"txbuf0", "txhost0", "txbuf1", "txhost1"})
CreateHostdescQueues ==
  Steps((IF Acx100 THEN <<"txbuf0", "txhost0">> ELSE <<"txbuf0", "txhost0", "txbuf1", "txhost1">>)
        \o <<"rxhost", "rxbuf">>, "free")

CreateDmaRegions ==
  IF Acx100
  THEN Steps(<<"map", "queueConfig">>, "free") \o CreateHostdescQueues
       \o Steps(<<"rings", "map", "poolAt", "blockSize", "memoryConfig", "initMemory">>, "free")
  ELSE CreateHostdescQueues \o Steps(<<"memoryConfig111">>, "free")
       \o Steps(<<"queueAddress">>, "ignored") \o Steps(<<"rings">>, "free")

InitMac ==
  UploadRadio \o (IF Acx100 THEN InitWep ELSE <<>>) \o Templates \o CreateDmaRegions

FullReset == ResetDev \o InitMac

\* acx_reset_on_probe goes on to read the EEPROM.
ResetOnProbe == FullReset \o Steps(<<"eeprom">>, "end")

\* A step is done: the next one, or the boot has ended well.
Done ==
  /\ todo' = Tail(todo)
  /\ result' = IF Len(todo) = 1 THEN "OK" ELSE result
  /\ UNCHANGED <<op, image>>

\* Mutant: the error path frees without clearing the pointers.
PointersKept == bufs

FreeDescQueues == {}

\* A step has failed; acx_free_desc_queues on the way out of creating the regions.
Fails ==
  /\ IF Head(todo).fails = "ignored"
     THEN Done /\ UNCHANGED <<bufs, live, acxdesc>>
     ELSE /\ todo' = <<>> /\ result' = "NOT_OK"
          /\ IF Head(todo).fails = "free"
             THEN bufs' = FreeDescQueues /\ live' = live - Cardinality(bufs) /\ acxdesc' = 0
             ELSE UNCHANGED <<bufs, live, acxdesc>>
          /\ UNCHANGED <<op, image>>

At(step) == todo # <<>> /\ Head(todo).do = step
-------------------------------------------------------------------------------
(* Reset and firmware *)

\* acx_base_reset_mac: what the firmware had set up is gone, its code is not.
Halted(a) == [AcxOff EXCEPT !.code = a.code, !.patch = a.patch]

\* acxpci_reset_mac, but "Vlynq doesn't do this reset sequence; it even crashes if done".
ResetMac ==
  /\ At("resetMac")
  /\ acx' = IF card = "vlynq" THEN acx ELSE Halted(acx)
  /\ try' = 1
  /\ IF acx'.ecpu = "halted" THEN Done /\ UNCHANGED <<bufs, live, acxdesc>> ELSE Fails
  /\ UNCHANGED <<FW_LOADED, HW_UP, cmd_area, acx_txbuf, mm>>

\* acx_write_fw returns whether the image is corrupt; the bus may change what it writes.
Written(im) ==
  IF im = "corrupt" THEN {"corrupt"}
  ELSE {"good"} \cup (IF "upload" \in Faults THEN {"garbled"} ELSE {})

\* Mutant: what was written is not read back.
NotCompared(im, code) == im # "corrupt"

\* The sum of the image, then acx_validate_fw.
Validated(im, code) == im # "corrupt" /\ code = "good"

\* What acxmem_patch_around_bad_spots leaves behind: it changes the firmware of the
\* HX4700 only, and nothing reads back what it wrote.
Patches ==
  IF card # "mem" \/ fw_image # "hx4700" THEN {None}
  ELSE {"good"} \cup (IF "upload" \in Faults THEN {"garbled"} ELSE {})

\* One attempt of _acx_upload_fw.  The patch comes after the last one, well or not.
Upload ==
  /\ At("upload")
  /\ \E code \in Written(fw_image), patch \in Patches :
       LET well == Validated(fw_image, code) IN
       /\ acx' = [acx EXCEPT !.code = code,
                             !.patch = IF well \/ try >= Attempts THEN patch ELSE None]
       /\ IF well
          THEN FW_LOADED' = TRUE /\ try' = 1 /\ Done /\ UNCHANGED <<bufs, live, acxdesc>>
          ELSE /\ UNCHANGED FW_LOADED
               /\ IF try < Attempts
                  THEN try' = try + 1 /\ UNCHANGED <<todo, result, op, image, bufs, live, acxdesc>>
                  ELSE try' = 1 /\ Fails
  /\ UNCHANGED <<HW_UP, cmd_area, acx_txbuf, mm>>

\* The end of the firmware, as it finds it in its own word at 0x950c, which the patch
\* moves behind itself.  One that the bus has changed may be less (a larger one may
\* leave no room, which is assumed).
PatchedSize == CodeSize + PatchSize
CodeEnds ==
  CASE acx.patch = None -> {CodeSize}
    [] acx.patch = "good" -> {PatchedSize}
    [] OTHER -> {end \in {OtherAddress, CodeSize, PatchedSize} : end <= PatchedSize}

\* The firmware finds its code and all of the memory.
StartEcpu ==
  /\ At("startEcpu")
  /\ \E end \in CodeEnds :
       acx' = [acx EXCEPT !.ecpu = "running",
                          !.map = [NoMap EXCEPT !.CodeEnd = end, !.PoolEnd = MemorySize],
                          !.disturbed = @ \/ acx.patch = "garbled"]
  /\ Done
  /\ UNCHANGED <<driver, try>>

\* acx_verify_init waits for two seconds.
VerifyInit ==
  /\ At("verifyInit")
  /\ \/ Done /\ UNCHANGED <<bufs, live, acxdesc>>
     \/ "ecpu" \in Faults /\ Fails
  /\ UNCHANGED <<acx, FW_LOADED, HW_UP, cmd_area, acx_txbuf, mm, try>>

InitMboxes ==
  /\ At("initMboxes")
  /\ cmd_area' = TRUE
  /\ Done
  /\ UNCHANGED <<acx, FW_LOADED, HW_UP, bufs, live, acxdesc, acx_txbuf, mm, try>>

\* The radio firmware goes behind the code and its patch, or to where an uninitialised memory
\* map says, if the interrogation has failed.
UploadRadioFw ==
  /\ At("radio")
  /\ \E code \in Written(radio_image) :
       /\ acx' = [acx EXCEPT !.radio = code,
                             !.code = IF mm.CodeEnd < CodeSize THEN "garbled" ELSE @,
                             !.patch = IF @ # None /\ mm.CodeEnd < PatchedSize
                                       THEN "garbled" ELSE @]
       /\ IF Validated(radio_image, code)
          THEN try' = 1 /\ Done
          ELSE IF try < Attempts
               THEN try' = try + 1 /\ UNCHANGED <<todo, result, op, image>>
               ELSE try' = 0 /\ Done
  /\ UNCHANGED driver

-------------------------------------------------------------------------------
(* Commands *)

\* What the driver goes on with after an interrogation that failed: anything that
\* was on the stack, and zero.
Unanswered(step) ==
  CASE step = "map" -> {[NoMap EXCEPT !.CodeEnd = a] : a \in {OtherAddress, CodeSize}}
    [] step = "queueAddress" -> {[mm EXCEPT !.QueueStart = 0]}
    [] OTHER -> {mm}

\* A command: its effect on the adapter and the driver, or its failure.
IssueCmd(step, a, m) ==
  /\ At(step)
  /\ \/ acx' = a /\ mm' = m /\ Done /\ UNCHANGED <<bufs, live, acxdesc>>
     \/ /\ "command" \in Faults
        /\ IF Head(todo).fails = "ignored"
           THEN acx' = [acx EXCEPT !.disturbed = TRUE] /\ mm' \in Unanswered(step)
           ELSE UNCHANGED <<acx, mm>>
        /\ Fails
  /\ UNCHANGED <<FW_LOADED, HW_UP, cmd_area, acx_txbuf, try>>

ConfigureMap(step, map) == IssueCmd(step, [acx EXCEPT !.map = map], map)

InterrogateMap == IssueCmd("map", acx, acx.map)
Sleep == IssueCmd("sleep", [acx EXCEPT !.awake = FALSE], mm)
Wake == IssueCmd("wake", [acx EXCEPT !.awake = TRUE], mm)

\* acx_upload_radio gives up after its attempts: try is 0.
RadioInit ==
  IF try = 0
  THEN At("radioinit") /\ try' = 1 /\ Done /\ UNCHANGED <<acx, driver>>
  ELSE IssueCmd("radioinit", [acx EXCEPT !.radioOn = TRUE, !.map.CodeEnd = @ + RadioSize], mm)

SetWepCache == ConfigureMap("wepCache", WepCache(mm))
SetTemplatesAt == ConfigureMap("templatesAt", TemplatesAt(mm))
SetQueuesAt == ConfigureMap("queuesAt", QueuesAt(mm))
SetPoolAt == ConfigureMap("poolAt", PoolAt(mm))

\* Each template of maximal size makes the area of the templates longer.
InitTemplate ==
  LET start == IF acx.templates = {} THEN acx.map.PacketTemplateStart ELSE acx.map.PacketTemplateEnd
  IN  \E t \in TemplateNames :
        IssueCmd(t, [acx EXCEPT !.templates = @ \cup {t},
                                !.map.PacketTemplateEnd = start + TemplateSize], mm)

\* The ACX100 gets its TIM, of no bytes, where there is room for the longest one.
SetTim == IssueCmd("setTim", acx, mm)

\* The end of the queues is taken to be before or behind their indicator.
ConfigureQueue ==
  \E end \in {QueueConfig(mm).QueueEnd, QueueConfig(mm).HostQueueEnd} :
    IssueCmd("queueConfig", [acx EXCEPT !.queue = QueueConfig(mm).TxQueueStart,
                                        !.map.QueueEnd = end], mm)

\* The ACX111 places its queues itself.
ConfigureMemory111 ==
  IssueCmd("memoryConfig111", [acx EXCEPT !.queue = MemorySize \div 2, !.linked = TRUE], mm)

InterrogateQueues ==
  IssueCmd("queueAddress", acx, [mm EXCEPT !.QueueStart = acx.queue])

SetBlockSize == IssueCmd("blockSize", acx, mm)
ConfigurePools == IssueCmd("memoryConfig", [acx EXCEPT !.pools = Pools(mm, memblocksize)], mm)
ReadEeprom == IssueCmd("eeprom", acx, mm)

\* ACX100_CMD_INIT_MEMORY links the blocks; the driver of slave memory keeps where
\* they are.
InitMemory ==
  /\ At("initMemory")
  /\ \/ /\ acx' = [acx EXCEPT !.linked = TRUE]
        /\ acx_txbuf' = [start |-> Pools(mm, memblocksize).tx_mem,
                         numblocks |-> Pools(mm, memblocksize).TxBlockNum]
        /\ Done /\ UNCHANGED <<bufs, live, acxdesc>>
     \/ "command" \in Faults /\ Fails /\ UNCHANGED <<acx, acx_txbuf>>
  /\ UNCHANGED <<FW_LOADED, HW_UP, cmd_area, mm, try>>
-------------------------------------------------------------------------------
(* Memory of the host *)

\* Mutant: allocated again by each boot.
AllocatedAgain(b) == TRUE

\* "allocate TX buffer, if not already done"
Missing(b) == b \notin bufs

\* A part of acx_create_tx_host_desc_queue or acx_create_rx_host_desc_queue.
Allocate ==
  /\ \E b \in Buffers :
       /\ At(b)
       /\ \/ /\ live' = live + (IF Missing(b) THEN 1 ELSE 0) /\ bufs' = bufs \cup {b}
             /\ Done /\ UNCHANGED acxdesc
          \/ Missing(b) /\ "allocation" \in Faults /\ Fails
  /\ UNCHANGED <<acx, FW_LOADED, HW_UP, cmd_area, acx_txbuf, mm, try>>

\* acx_create_desc_queues
CreateDescQueues ==
  /\ At("rings")
  /\ acxdesc' = mm.QueueStart
  /\ Done
  /\ UNCHANGED <<acx, FW_LOADED, HW_UP, cmd_area, bufs, live, acx_txbuf, mm, try>>
-------------------------------------------------------------------------------
(* Who boots *)

Boot(by, steps) ==
  /\ todo' = steps /\ op' = by
  /\ result' = IF steps = <<>> THEN result ELSE "none"

Probe ==
  /\ op = "none"
  /\ Boot("probe", ResetOnProbe)
  /\ UNCHANGED <<image, acx, driver, try>>

ProbeEnd ==
  /\ op = "probe" /\ todo = <<>>
  /\ op' = IF result = "OK" THEN "bound" ELSE "failed"
  /\ UNCHANGED <<image, acx, driver, todo, try, result>>

\* "With vlynq a full reset doesn't work yet"
OpStart ==
  /\ op = "bound" /\ ~HW_UP
  /\ Boot("start", IF card = "vlynq" THEN <<>> ELSE FullReset)
  /\ UNCHANGED <<image, acx, driver, try>>

\* The rest of acx_op_start, whatever acx_full_reset has returned.
OpStartEnd ==
  /\ op = "start" /\ todo = <<>>
  /\ HW_UP' = TRUE /\ op' = "bound"
  /\ UNCHANGED <<image, acx, FW_LOADED, cmd_area, bufs, live, acxdesc, acx_txbuf, mm,
                 todo, try, result>>

\* acx_stop leaves the adapter as it is.
OpStop ==
  /\ op = "bound" /\ HW_UP
  /\ HW_UP' = FALSE
  /\ UNCHANGED <<image, acx, FW_LOADED, cmd_area, bufs, live, acxdesc, acx_txbuf, mm,
                 todo, try, op, result>>

Next ==
  \/ ResetMac \/ Upload \/ StartEcpu \/ VerifyInit \/ InitMboxes \/ UploadRadioFw
  \/ InterrogateMap \/ Sleep \/ Wake \/ RadioInit
  \/ SetWepCache \/ SetTemplatesAt \/ SetQueuesAt \/ SetPoolAt
  \/ InitTemplate \/ SetTim \/ ConfigureQueue \/ ConfigureMemory111 \/ InterrogateQueues
  \/ SetBlockSize \/ ConfigurePools \/ InitMemory \/ ReadEeprom
  \/ Allocate \/ CreateDescQueues
  \/ Probe \/ ProbeEnd \/ OpStart \/ OpStartEnd \/ OpStop

Spec == Init /\ [][Next]_vars
-------------------------------------------------------------------------------
Codes == {None, "good", "corrupt", "garbled"}
Patched == {None, "good", "garbled"}

TypeOK ==
  /\ card \in Cards /\ fw_image \in Codes \cup {"hx4700"} /\ radio_image \in Codes
  /\ acx.ecpu \in {"halted", "running"} /\ acx.code \in Codes /\ acx.radio \in Codes
  /\ acx.patch \in Patched
  /\ {acx.radioOn, acx.awake, acx.linked, acx.disturbed} \subseteq BOOLEAN
  /\ acx.templates \subseteq TemplateNames /\ acx.queue \in 0..MemorySize
  /\ \A f \in DOMAIN NoMap :
       /\ acx.map[f] \in 0..MemorySize
       /\ mm[f] \in 0..MemorySize \/ (f = "CodeEnd" /\ mm[f] = OtherAddress)
  /\ {FW_LOADED, HW_UP, cmd_area} \subseteq BOOLEAN
  /\ bufs \subseteq Buffers /\ live \in 0..Cardinality(Buffers) /\ acxdesc \in 0..MemorySize
  /\ try \in 0..Attempts
  /\ op \in {"none", "probe", "bound", "start", "failed"}
  /\ result \in {"none", "OK", "NOT_OK"}

\* Outside of the words of the patch, the eCPU never runs code that was not compared
\* with its image, nor the radio: neither of the first boot nor of one that replaces
\* running firmware.  The patch of slave memory is written after the comparison: the
\* firmware of the HX4700 is never started without it, nor any other with it, and the
\* firmware of the radio, which goes behind the code, overwrites neither.  Nothing
\* compares the patch (NothingElseRuns below): what a patch that the bus has
\* changed does is not known.
CodeIsCompared ==
  ~acx.disturbed =>
    /\ acx.ecpu = "running" =>
         /\ acx.code = "good"
         /\ acx.patch = IF card = "mem" /\ fw_image = "hx4700" THEN "good" ELSE None
    /\ acx.radioOn => acx.radio = "good"

\* A boot that says it is well has left everything that the driver goes on to
\* use, also after boots that have failed half way.
Booted == todo = <<>> /\ result = "OK" /\ ~acx.disturbed
BootedIsReady ==
  Booted =>
    /\ acx.ecpu = "running" /\ acx.awake /\ acx.templates = TemplateNames /\ acx.linked
    /\ FW_LOADED /\ cmd_area
    /\ bufs = Buffers /\ acxdesc = acx.queue /\ acxdesc # 0
    /\ card = "mem" => acx_txbuf = [start |-> acx.pools.tx_mem, numblocks |-> acx.pools.TxBlockNum]

\* The areas of the adapter's memory do not overlap, with and without radio
\* firmware and whichever end of the queues the adapter reports, and no address is
\* behind its end.
MemoryIsDivided ==
  /\ TypeOK
  /\ Booted /\ Acx100 => AreasAreOrdered(acx.map, acx.pools, memblocksize)

\* The buffers of the host are neither lost nor freed twice by boots that follow
\* each other and fail anywhere.
AllocationsAreHeld == live = Cardinality(bufs)

(* The inductive invariant of CodeIsCompared and AllocationsAreHeld. *)

StepNames ==
  {"resetMac", "upload", "startEcpu", "verifyInit", "initMboxes", "map", "sleep", "radio", "wake",
   "radioinit", "wepCache", "templatesAt", "probeRequest", "nullData", "beacon", "tim",
   "probeResponse", "setTim", "queuesAt", "queueConfig", "txbuf0", "txhost0", "txbuf1", "txhost1",
   "rxhost", "rxbuf", "rings", "poolAt", "blockSize", "memoryConfig", "initMemory",
   "memoryConfig111", "queueAddress", "eeprom"}
StepType == [do : StepNames, fails : {"end", "free", "ignored"}]

\* What has to come right before a step.
Prior(do) ==
  CASE do = "upload" -> "resetMac"
    [] do = "startEcpu" -> "upload"
    [] do \in {"sleep", "wepCache", "queuesAt", "queueConfig", "poolAt"} -> "map"
    [] do = "radio" -> "sleep"
    [] do = "wake" -> "radio"
    [] do = "radioinit" -> "wake"
    [] do = "templatesAt" -> "wepCache"
    [] OTHER -> None

OfRadio == {"radio", "radioinit"}
Ignorable == {"map", "sleep", "radio", "wake", "radioinit", "queueAddress"}

\* A list of steps, or what is left of one.
InPlace(s, j) ==
  /\ j > 1 /\ Prior(s[j].do) # None => s[j - 1].do = Prior(s[j].do)
  /\ s[j].do \in {"resetMac", "upload"} => j < Len(s) /\ Prior(s[j + 1].do) = s[j].do
  /\ s[j].do = "radioinit" => \A k \in (j + 1)..Len(s) : s[k].do \notin OfRadio
  /\ s[j].fails = "ignored" => s[j].do \in Ignorable

InOrder(s) == \A j \in 1..Len(s) : InPlace(s, j)

RadioPending(s) == \E j \in 1..Len(s) : s[j].do \in OfRadio

Adapter ==
  [ecpu : {"halted", "running"}, code : Codes, patch : Patched, radio : Codes, radioOn : BOOLEAN,
   awake : BOOLEAN, templates : SUBSET TemplateNames, queue : Nat,
   pools : {None} \cup {Pools(m, memblocksize) : m \in MemMap}, linked : BOOLEAN,
   map : MemMap, disturbed : BOOLEAN]

BootTypes ==
  /\ acx \in Adapter /\ mm \in MemMap /\ try \in Nat /\ todo \in Seq(StepType)
  /\ InOrder(todo)

\* The patch that goes with the image, or one that the bus has changed.
PatchFits == acx.patch \in Patches

\* Where a boot is, and what runs then.
EcpuFollows ==
  /\ todo # <<>> /\ Head(todo).do \notin {"resetMac", "upload", "startEcpu"} =>
       acx.ecpu = "running"
  /\ At("upload") => acx.ecpu = "halted"
  /\ At("startEcpu") => acx.code = "good" /\ PatchFits
  /\ acx.radioOn => acx.ecpu = "running"
  /\ RadioPending(todo) /\ ~At("resetMac") => ~acx.radioOn

\* What runs was compared, and the radio's firmware does not go where the code is.
CodeIsKept ==
  ~acx.disturbed =>
    /\ acx.ecpu = "running" =>
         /\ acx.code = "good" /\ PatchFits /\ acx.patch # "garbled"
         /\ acx.map.CodeEnd >= IF acx.patch = None THEN CodeSize ELSE PatchedSize
    /\ acx.radioOn => acx.radio = "good"
    /\ todo # <<>> /\ Prior(Head(todo).do) \in {"map", "sleep", "wepCache"} =>
         mm.CodeEnd = acx.map.CodeEnd
    /\ At("wake") \/ At("radioinit") => try = 0 \/ acx.radio = "good"

CodeIInv == BootTypes /\ EcpuFollows /\ CodeIsKept

BufsIInv == bufs \subseteq Buffers /\ AllocationsAreHeld

(* Two sentences of the source that do not hold; no run checks them. *)

\* Commands go to firmware that was loaded, for "firmware is not loaded yet,
\* cannot execute commands!" guards them.
LoadedIsLoaded ==
  todo = <<>> /\ FW_LOADED /\ ~acx.disturbed => acx.code = "good"

\* acx_validate_fw is to "Compare the firmware image given with the firmware image
\* written into the card", but the patch changes it afterwards.
NothingElseRuns ==
  acx.ecpu = "running" => acx.code = "good" /\ acx.patch = None
===============================================================================
