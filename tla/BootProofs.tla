------------------------------ MODULE BootProofs ------------------------------
(***************************************************************************)
(* What a boot says it has done is done, for each size of memory, firmware *)
(* and transfer.  The layout of the memory; the upload to a USB device;     *)
(* the lists of steps of Boot, of which the invariant says what has come    *)
(* before the next step, for what runs was compared and buffers are held;   *)
(* and the place a boot has come to with all that is true from there on,    *)
(* for what a boot that says it is well leaves behind.                      *)
(***************************************************************************)
EXTENDS MCBoot, SequenceTheorems, FiniteSetTheorems, TLAPS

-------------------------------------------------------------------------------
(* The layout, wherever the code ends and however much memory there is.        *)

\* Rounding up to 32 bytes goes up by less than 32, to a multiple, and leaves
\* multiples alone.
LEMMA AlignIsUp ==
  ASSUME NEW a \in Address
  PROVE  /\ Align(a) \in Address
         /\ a <= Align(a) /\ Align(a) < a + 32
         /\ Align(a) % 32 = 0
         /\ a % 32 = 0 => Align(a) = a
  BY DEF Align, Address

\* Blocks of 128 and of 256 bytes are made of whole units of alignment.
LEMMA BlocksAreAligned ==
  ASSUME NEW n \in Nat, NEW block \in {128, 256}, NEW a \in Address, a % 32 = 0
  PROVE  n * block \in Nat /\ (a + n * block) % 32 = 0
  <1>1. CASE block = 128
    BY <1>1 DEF Address
  <1>2. CASE block = 256
    BY <1>2 DEF Address
  <1> QED BY <1>1, <1>2

\* What a pool begins with is aligned and above the queues.
LEMMA PoolStartIsAbove ==
  ASSUME NEW m1 \in MemMap
  PROVE  /\ PoolAt(m1) \in MemMap
         /\ PoolAt(m1).PoolStart % 32 = 0
         /\ m1.QueueEnd < PoolAt(m1).PoolStart
         /\ PoolAt(m1).QueueEnd = m1.QueueEnd /\ PoolAt(m1).PoolEnd = m1.PoolEnd
  <1>1. m1.QueueEnd \in Nat /\ m1.QueueEnd + 4 \in Address
    BY DEF MemMap, Address
  <1>2. /\ Align(m1.QueueEnd + 4) \in Address /\ m1.QueueEnd + 4 <= Align(m1.QueueEnd + 4)
        /\ Align(m1.QueueEnd + 4) % 32 = 0
    BY <1>1, AlignIsUp
  <1>3. PoolAt(m1) \in MemMap /\ PoolAt(m1).PoolStart = Align(m1.QueueEnd + 4)
    BY <1>2 DEF PoolAt, MemMap
  <1>4. m1.QueueEnd < Align(m1.QueueEnd + 4)
    BY <1>1, <1>2 DEF Address
  <1>5. PoolAt(m1).QueueEnd = m1.QueueEnd /\ PoolAt(m1).PoolEnd = m1.PoolEnd
    BY DEF PoolAt, MemMap
  <1> QED BY <1>2, <1>3, <1>4, <1>5

\* acx100_init_memory_pools: wherever the queues end and the memory ends, the
\* pools are above the queues, do not overlap, end within the memory and leave
\* less than one block of it; "50% of the allotment of memory blocks" each.
THEOREM PoolsFit ==
  ASSUME NEW m \in MemMap, NEW block \in {128, 256}, NEW m1, m1 = PoolAt(m),
         m1.PoolStart <= m1.PoolEnd,
         NEW pools, pools = Pools(m1, block)
  PROVE  /\ pools.RxBlockNum \in Nat /\ pools.TxBlockNum \in Nat
         /\ pools.RxBlockNum - pools.TxBlockNum \in 0..1
         /\ m1.QueueEnd < pools.rx_mem /\ pools.rx_mem = m1.PoolStart
         /\ pools.rx_mem + pools.RxBlockNum * block = pools.tx_mem
         /\ pools.tx_mem + pools.TxBlockNum * block <= m1.PoolEnd
         /\ m1.PoolEnd < pools.tx_mem + pools.TxBlockNum * block + block
  <1> DEFINE total == (m1.PoolEnd - m1.PoolStart) \div block
  <1> DEFINE tx == total \div 2
  <1> DEFINE rx == total - tx
  <1>1. /\ m1 \in MemMap /\ m1.PoolStart % 32 = 0 /\ m1.QueueEnd < m1.PoolStart
    BY PoolStartIsAbove
  <1>2. m1.PoolStart \in Address /\ m1.PoolStart \in Nat /\ m1.PoolEnd \in Nat
    BY <1>1 DEF MemMap, Address
  <1>3. /\ total \in Nat /\ total * block <= m1.PoolEnd - m1.PoolStart
        /\ m1.PoolEnd - m1.PoolStart < total * block + block
    <2>1. CASE block = 128
      BY <1>2, <2>1
    <2>2. CASE block = 256
      BY <1>2, <2>2
    <2> QED BY <2>1, <2>2
  <1>4. tx \in Nat /\ rx \in Nat /\ rx - tx \in 0..1 /\ tx + rx = total
    <2> HIDE DEF total
    <2> QED BY <1>3
  <1> HIDE DEF tx, rx
  <1>5. (m1.PoolStart + rx * block) % 32 = 0 /\ rx * block \in Nat
    BY <1>1, <1>2, <1>4, BlocksAreAligned
  <1>6. Align(m1.PoolStart) = m1.PoolStart
    BY <1>1, <1>2, AlignIsUp
  <1>7. Align(m1.PoolStart + rx * block) = m1.PoolStart + rx * block
    <2>1. m1.PoolStart + rx * block \in Address
      BY <1>2, <1>5 DEF Address
    <2> QED BY <1>5, <2>1, AlignIsUp
  <1>8. /\ pools.TxBlockNum = tx /\ pools.RxBlockNum = rx
        /\ pools.rx_mem = m1.PoolStart /\ pools.tx_mem = m1.PoolStart + rx * block
    BY <1>6, <1>7 DEF Pools, tx, rx
  <1>9. /\ m1.PoolStart + rx * block + tx * block <= m1.PoolEnd
        /\ m1.PoolEnd < m1.PoolStart + rx * block + tx * block + block
    <2> HIDE DEF total
    <2>1. CASE block = 128
      BY <1>2, <1>3, <1>4, <2>1
    <2>2. CASE block = 256
      BY <1>2, <1>3, <1>4, <2>2
    <2> QED BY <2>1, <2>2
  <1> QED BY <1>1, <1>4, <1>8, <1>9
-------------------------------------------------------------------------------
(* Transfers of a firmware image.                                              *)

\* A number has one quotient and one remainder.
LEMMA QuotientIs ==
  ASSUME NEW m \in Nat \ {0}, NEW q \in Nat, NEW r \in 0..(m - 1)
  PROVE  q * m + r \in Nat /\ (q * m + r) \div m = q /\ (q * m + r) % m = r
  <1> DEFINE n == q * m + r
  <1>1. n \in Nat
    OBVIOUS
  <1>2. PICK d \in Nat, s \in 0..(m - 1) : d = n \div m /\ s = n % m /\ n = d * m + s
    BY <1>1
  <1>3. (q - d) * m = s - r
    BY <1>2
  <1>4. ~ (q >= d + 1)
    <2> SUFFICES ASSUME q >= d + 1 PROVE FALSE
      OBVIOUS
    <2>1. (q - d) * m >= m
      OBVIOUS
    <2> QED BY <2>1, <1>3
  <1>5. ~ (d >= q + 1)
    <2> SUFFICES ASSUME d >= q + 1 PROVE FALSE
      OBVIOUS
    <2>1. (d - q) * m >= m
      OBVIOUS
    <2>2. (d - q) * m = r - s
      BY <1>3
    <2> QED BY <2>1, <2>2
  <1>6. d = q
    BY <1>4, <1>5
  <1> QED BY <1>1, <1>2, <1>3, <1>6

\* A quotient grows with the number.
LEMMA QuotientGrows ==
  ASSUME NEW m \in Nat \ {0}, NEW a \in Nat, NEW b \in Nat, a <= b
  PROVE  a \div m \in Nat /\ b \div m \in Nat /\ a \div m <= b \div m
  <1>1. PICK d \in Nat, s \in 0..(m - 1) : d = a \div m /\ a = d * m + s
    OBVIOUS
  <1>2. PICK e \in Nat, t \in 0..(m - 1) : e = b \div m /\ b = e * m + t
    OBVIOUS
  <1>3. ~ (d >= e + 1)
    <2> SUFFICES ASSUME d >= e + 1 PROVE FALSE
      OBVIOUS
    <2>1. (d - e) * m >= m
      OBVIOUS
    <2>2. (d - e) * m <= t - s
      BY <1>1, <1>2
    <2> QED BY <2>1, <2>2
  <1> QED BY <1>1, <1>2, <1>3

\* What u32 arithmetic makes of 0 - 1.
LEMMA MinusOneWraps ==
  ASSUME NEW w \in Nat \ {0}
  PROVE  (0 - 1) % w = w - 1
  <1>1. PICK d \in Int, r \in 0..(w - 1) : r = (0 - 1) % w /\ 0 - 1 = d * w + r
    OBVIOUS
  <1>2. ~ (d >= 0)
    <2> SUFFICES ASSUME d >= 0 PROVE FALSE
      OBVIOUS
    <2>1. d * w >= 0
      OBVIOUS
    <2> QED BY <2>1, <1>1
  <1>3. ~ (d <= 0 - 2)
    <2> SUFFICES ASSUME d <= 0 - 2 PROVE FALSE
      OBVIOUS
    <2>1. d * w <= (0 - 2) * w
      OBVIOUS
    <2> QED BY <2>1, <1>1
  <1>4. d = 0 - 1
    BY <1>2, <1>3
  <1> QED BY <1>1, <1>4

M == USB_RWMEM_MAXLEN

LEMMA UsbConstants ==
  /\ Chips \subseteq {"acx100", "tnetw1450"} /\ Sizes \subseteq 0..(Word - 1)
  /\ M \in Nat \ {0} /\ Word \in Nat /\ Word % (2 * M) = 0
  BY UsbAssumption DEF Usb!UsbBootAssumption, M

\* After full transfers, one more block takes one more.
LEMMA TransfersCount ==
  ASSUME NEW n \in Nat, n % M = 0, NEW k \in 1..M
  PROVE  /\ Usb!Transfers(n) \in Nat
         /\ Usb!Transfers(n + k) = Usb!Transfers(n) + 1
         /\ (n + M) % M = 0
  <1>1. PICK a \in Nat : n = a * M
    BY UsbConstants
  <1>2. k - 1 \in 0..(M - 1) /\ M - 1 \in 0..(M - 1)
    BY UsbConstants
  <1>3. (a * M + (k - 1)) \div M = a
    BY <1>2, UsbConstants, QuotientIs
  <1>4. Usb!Transfers(n + k) = a + 1
    <2>1. n + k # 0 /\ (n + k) - 1 = a * M + (k - 1)
      BY <1>1
    <2> QED BY <2>1, <1>3 DEF Usb!Transfers, M
  <1>5. Usb!Transfers(n) = a
    <2>1. CASE a = 0
      BY <2>1, <1>1, UsbConstants DEF Usb!Transfers
    <2>2. CASE a # 0
      <3>1. a - 1 \in Nat /\ n - 1 = (a - 1) * M + (M - 1) /\ n # 0
        BY <2>2, <1>1, UsbConstants
      <3>2. ((a - 1) * M + (M - 1)) \div M = a - 1
        BY <3>1, <1>2, UsbConstants, QuotientIs
      <3> QED BY <3>1, <3>2 DEF Usb!Transfers, M
    <2> QED BY <2>1, <2>2
  <1>6. (n + M) % M = 0
    <2>1. n + M = (a + 1) * M + 0 /\ 0 \in 0..(M - 1)
      BY <1>1, UsbConstants
    <2>2. ((a + 1) * M + 0) % M = 0 /\ a + 1 \in Nat
      BY <2>1, UsbConstants, QuotientIs
    <2> QED BY <2>1, <2>2
  <1> QED BY <1>4, <1>5, <1>6

\* What the size and what is sent of it bound.
LEMMA TransfersBounded ==
  ASSUME NEW s \in Nat, NEW n \in 0..s
  PROVE  s \div M \in Nat /\ Usb!Transfers(n) \in 0..((s \div M) + 1)
  <1>1. s \div M \in Nat
    BY UsbConstants, QuotientGrows
  <1>2. CASE n = 0
    <2>1. Usb!Transfers(n) = 0
      BY <1>2 DEF Usb!Transfers
    <2> QED BY <1>1, <2>1
  <1>3. CASE n # 0
    <2>1. n - 1 \in Nat /\ n - 1 <= s
      BY <1>3
    <2>2. (n - 1) \div M \in Nat /\ (n - 1) \div M <= s \div M
      BY <2>1, UsbConstants, QuotientGrows
    <2> QED BY <1>1, <1>3, <2>2 DEF Usb!Transfers, M
  <1> QED BY <1>2, <1>3

\* acxusb_fw_needs_padding says whether the image takes an even number of
\* transfers, also for an image of no bytes, where size - 1 wraps around.
LEMMA PaddingIsParity ==
  ASSUME size \in Sizes
  PROVE  /\ Usb!NeedsPadding <=> Usb!Transfers(size) % 2 = 0
         /\ Usb!Transfers(size) \in Nat
  <1>1. size \in 0..(Word - 1) /\ size \in Nat /\ Word >= 1
    BY UsbConstants
  <1>2. Usb!Transfers(size) \in Nat
    BY <1>1, TransfersBounded, UsbConstants
  <1>3. CASE size # 0
    <2>1. size - 1 \in 0..(Word - 1) /\ (size - 1) = 0 * Word + (size - 1)
      BY <1>1, <1>3, UsbConstants
    <2>2. (size - 1) % Word = size - 1
      <3>1. Word \in Nat \ {0} /\ 0 \in Nat
        BY <1>1, UsbConstants
      <3>2. (0 * Word + (size - 1)) % Word = size - 1
        BY <2>1, <3>1, QuotientIs
      <3> QED BY <2>1, <3>2
    <2>3. Usb!Transfers(size) = ((size - 1) \div M) + 1
      BY <1>3 DEF Usb!Transfers, M
    <2>4. Usb!NeedsPadding <=> (((size - 1) \div M) + 1) % 2 = 0
      BY <2>2 DEF Usb!NeedsPadding, M
    <2> QED BY <2>3, <2>4, <1>2
  <1>4. CASE size = 0
    <2>1. PICK c \in Nat : Word = c * (2 * M)
      BY UsbConstants
    <2>2. c >= 1
      BY <2>1, <1>1, UsbConstants
    <2>3. (size - 1) % Word = Word - 1
      <3>1. size - 1 = 0 - 1 /\ Word \in Nat \ {0}
        BY <1>1, <1>4, UsbConstants
      <3> QED BY <3>1, MinusOneWraps
    <2>4. Word - 1 = (2 * c - 1) * M + (M - 1) /\ 2 * c - 1 \in Nat /\ M - 1 \in 0..(M - 1)
      <3>1. M \in Nat /\ M >= 1
        BY UsbConstants
      <3>2. \A m \in Nat : (2 * c - 1) * m + (m - 1) = c * (2 * m) - 1
        OBVIOUS
      <3> QED BY <2>1, <2>2, <3>1, <3>2
    <2>5. (Word - 1) \div M = 2 * c - 1
      <3>1. ((2 * c - 1) * M + (M - 1)) \div M = 2 * c - 1
        BY <2>4, UsbConstants, QuotientIs
      <3> QED BY <2>4, <3>1
    <2>6. Usb!NeedsPadding
      BY <2>3, <2>5, <2>2 DEF Usb!NeedsPadding, M
    <2>7. Usb!Transfers(size) = 0
      BY <1>4 DEF Usb!Transfers
    <2> QED BY <2>6, <2>7, <1>2
  <1> QED BY <1>3, <1>4

LEMMA UsbInit ==
  ASSUME Usb!Init
  PROVE  Usb!UploadIInv
  <1>1. Usb!Transfers(0) = 0
    BY DEF Usb!Transfers
  <1>2. size \in Nat /\ size \div M \in Nat /\ 0 % M = 0
    <2>1. size \in Nat
      BY UsbConstants DEF Usb!Init
    <2>2. size \div M \in Nat
      BY <2>1, TransfersBounded
    <2> QED BY <2>1, <2>2, UsbConstants
  <1> QED BY <1>1, <1>2
      DEF Usb!Init, Usb!UploadIInv, Usb!TypeOK, Usb!SentSoFar, Usb!Device, M

\* What is said of an image stays the same.
LEMMA SameImage ==
  ASSUME size' = size
  PROVE  /\ Usb!NeedsPadding' = Usb!NeedsPadding /\ Usb!Announced' = Usb!Announced
         /\ Usb!Padding(4)' = Usb!Padding(4) /\ Usb!Padding(1)' = Usb!Padding(1)
         /\ (Usb!Transfers(size))' = Usb!Transfers(size)
  BY DEF Usb!NeedsPadding, Usb!Announced, Usb!Padding, Usb!Transfers

LEMMA UsbOthers ==
  ASSUME Usb!UploadIInv,
         \/ Usb!DeviceReady \/ Usb!Probe \/ Usb!WaitReady \/ Usb!ReadFw \/ Usb!ReadAnswer
         \/ Usb!BootEnd \/ Usb!Bind
  PROVE  Usb!UploadIInv'
  <1> USE DEF Usb!UploadIInv, Usb!TypeOK, Usb!SentSoFar, Usb!Device
  <1>0. /\ UNCHANGED <<chip, size, offset>>
        /\ Usb!Announced' = Usb!Announced
        /\ (Usb!Transfers(offset))' = Usb!Transfers(offset)
    <2>1. UNCHANGED <<chip, size, offset>>
      BY DEF Usb!DeviceReady, Usb!Probe, Usb!WaitReady, Usb!ReadFw, Usb!ReadAnswer,
             Usb!BootEnd, Usb!Bind
    <2> QED BY <2>1, SameImage DEF Usb!Transfers
  <1>1. CASE Usb!DeviceReady
    <2>1. dev' = [dev EXCEPT !.ready = TRUE] /\ UNCHANGED <<pc, i, usb_result>>
      BY <1>1 DEF Usb!DeviceReady
    <2>2. /\ dev' \in Usb!Device /\ dev'.running = dev.running /\ dev'.bytes = dev.bytes
          /\ dev'.transfers = dev.transfers /\ dev'.announced = dev.announced
          /\ dev'.whole = dev.whole /\ dev'.ready
      BY <2>1
    <2> QED BY <1>0, <2>1, <2>2, SameImage
  <1>2. CASE Usb!Probe
    BY <1>0, <1>2 DEF Usb!Probe
  <1>3. CASE Usb!WaitReady
    <2>1. CASE i <= 2 /\ dev.ready /\ UNCHANGED i
      BY <1>0, <1>3, <2>1 DEF Usb!WaitReady, Usb!Return
    <2>2. CASE i <= 2 /\ i' = i + 1 /\ UNCHANGED <<pc, usb_result>>
      <3>1. i' \in 0..3
        BY <2>2
      <3> QED BY <1>0, <1>3, <2>2, <3>1 DEF Usb!WaitReady
    <2>3. CASE i = 3 /\ pc' = "image" /\ UNCHANGED <<i, usb_result>>
      BY <1>0, <1>3, <2>3 DEF Usb!WaitReady
    <2> QED BY <1>3, <2>1, <2>2, <2>3 DEF Usb!WaitReady, Usb!Return
  <1>4. CASE Usb!ReadFw
    BY <1>0, <1>4 DEF Usb!ReadFw, Usb!Return
  <1>5. CASE Usb!ReadAnswer
    BY <1>0, <1>5 DEF Usb!ReadAnswer, Usb!Return, Usb!Accepts, Usb!AnswerIsGood
  <1>6. CASE Usb!BootEnd
    <2>1. /\ pc = "booted" /\ UNCHANGED <<chip, size, dev, i, offset, usb_result>>
          /\ \/ pc' \in {"bind", "left"}
             \/ pc' = "probe" /\ dev.running /\ chip = "acx100"
      BY <1>6, UsbConstants DEF Usb!BootEnd
    <2> QED BY <1>0, <2>1
  <1>7. CASE Usb!Bind
    BY <1>0, <1>7 DEF Usb!Bind
  <1> QED BY <1>1, <1>2, <1>3, <1>4, <1>5, <1>6, <1>7

\* n bytes come.
LEMMA ReceivedIs ==
  ASSUME dev \in Usb!Device, NEW n \in Nat, NEW all_of \in BOOLEAN,
         dev' = Usb!Received(n, all_of)
  PROVE  /\ dev' \in Usb!Device
         /\ dev'.bytes = dev.bytes + n /\ dev'.transfers = dev.transfers + 1
         /\ dev'.ready = dev.ready /\ dev'.running = dev.running
         /\ dev'.announced = dev.announced
  <1>1. (dev.whole /\ all_of) \in BOOLEAN
    OBVIOUS
  <1>2. dev.bytes + n \in Nat /\ dev.transfers + 1 \in Nat
    BY DEF Usb!Device
  <1>3. dev' = [dev EXCEPT !.bytes = dev.bytes + n, !.transfers = dev.transfers + 1,
                           !.whole = (dev.whole /\ all_of)]
    BY DEF Usb!Received
  <1> QED BY <1>1, <1>2, <1>3 DEF Usb!Device

LEMMA UsbHeader ==
  ASSUME Usb!UploadIInv, Usb!SendHeader
  PROVE  Usb!UploadIInv'
  <1> USE DEF Usb!UploadIInv, Usb!TypeOK, Usb!SentSoFar
  <1>1. size \in Nat /\ Usb!Announced \in 0..(size + 4)
    BY UsbConstants DEF Usb!Announced
  <1>2. UNCHANGED <<chip, size, i, offset>>
    BY DEF Usb!SendHeader
  <1>3. CASE /\ dev' = [dev EXCEPT !.announced = Usb!Announced] /\ pc' = "blocks"
             /\ UNCHANGED usb_result
    <2>1. dev' \in Usb!Device
      BY <1>1, <1>3 DEF Usb!Device
    <2>2. /\ dev'.bytes = dev.bytes /\ dev'.transfers = dev.transfers
          /\ dev'.ready = dev.ready /\ dev'.running = dev.running /\ dev'.whole = dev.whole
          /\ dev'.announced = Usb!Announced
      BY <1>1, <1>3 DEF Usb!Device
    <2>3. Usb!Announced' = Usb!Announced /\ (Usb!Transfers(offset))' = Usb!Transfers(offset)
      BY <1>2, SameImage DEF Usb!Transfers
    <2>4. pc = "header" /\ pc' = "blocks" /\ chip = "tnetw1450"
      BY <1>3 DEF Usb!SendHeader
    <2>5. Usb!TypeOK'
      BY <1>1, <1>2, <1>3, <2>2, <2>4
    <2>6. Usb!SentSoFar'
      BY <1>2, <2>2, <2>3, <2>4
    <2> QED BY <1>2, <1>3, <2>1, <2>2, <2>3, <2>4, <2>5, <2>6
  <1>4. CASE Usb!Return("-EIO") /\ UNCHANGED dev
    BY <1>2, <1>4 DEF Usb!Return, Usb!Device
  <1> QED BY <1>3, <1>4 DEF Usb!SendHeader

LEMMA UsbBlock ==
  ASSUME Usb!UploadIInv, Usb!SendBlock
  PROVE  Usb!UploadIInv'
  <1> USE DEF Usb!UploadIInv, Usb!TypeOK, Usb!SentSoFar
  <1> DEFINE k == Usb!BlkLen
  <1>1. /\ size \in Nat /\ size \div M \in Nat /\ offset \in Nat /\ offset < size
        /\ offset % M = 0 /\ pc = "blocks"
        /\ dev.bytes = offset /\ dev.transfers = Usb!Transfers(offset)
    <2>1. size \in Nat /\ offset \in Nat /\ offset < size /\ pc = "blocks"
      BY UsbConstants DEF Usb!SendBlock
    <2>2. size \div M \in Nat
      BY <2>1, TransfersBounded
    <2> QED BY <2>1, <2>2 DEF M
  <1>2. /\ k \in 1..M /\ offset + k \in 0..size
        /\ offset + k < size => k = M
    BY <1>1, UsbConstants DEF Usb!BlkLen, M
  <1>3. /\ Usb!Transfers(offset + k) = Usb!Transfers(offset) + 1
        /\ offset + k < size => (offset + k) % M = 0
        /\ Usb!Transfers(offset + k) \in 0..((size \div M) + 1)
    BY <1>1, <1>2, TransfersCount, TransfersBounded
  <1>4. UNCHANGED <<chip, size, i>>
    BY DEF Usb!SendBlock
  <1>5. CASE Usb!Return("-EIO") /\ UNCHANGED <<dev, offset>>
    BY <1>1, <1>4, <1>5 DEF Usb!Return, Usb!Device
  <1>6. CASE /\ offset' = offset + k /\ UNCHANGED <<pc, usb_result>>
             /\ \E all_of \in BOOLEAN : dev' = Usb!Received(k, all_of)
    <2>1. /\ dev' \in Usb!Device
          /\ dev'.bytes = offset + k /\ dev'.transfers = Usb!Transfers(offset + k)
          /\ dev'.ready = dev.ready /\ dev'.running = dev.running
          /\ dev'.announced = dev.announced
      BY <1>1, <1>2, <1>3, <1>6, ReceivedIs
    <2>2. Usb!TypeOK'
      BY <1>1, <1>2, <1>3, <1>4, <1>6, <2>1 DEF M, Usb!Device
    <2>3. Usb!SentSoFar'
      <3> HIDE DEF k
      <3>1. pc' = "blocks"
        BY <1>1, <1>6
      <3>2. dev'.bytes = offset' /\ dev'.transfers = Usb!Transfers(offset')
        BY <1>6, <2>1
      <3>3. offset' < size' => offset' % M = 0
        BY <1>3, <1>4, <1>6
      <3>4. Usb!Transfers(offset') = Usb!Transfers(offset)'
        BY DEF Usb!Transfers
      <3> QED BY <3>1, <3>2, <3>3, <3>4 DEF M
    <2>4. Usb!Announced' = Usb!Announced
      BY <1>4, SameImage
    <2> QED BY <1>1, <1>4, <1>6, <2>1, <2>2, <2>3, <2>4
  <1> QED BY <1>5, <1>6 DEF Usb!SendBlock

LEMMA UsbBlocksEnd ==
  ASSUME Usb!UploadIInv, Usb!BlocksEnd
  PROVE  Usb!UploadIInv'
  <1> USE DEF Usb!UploadIInv, Usb!TypeOK, Usb!SentSoFar
  <1>1. /\ pc = "blocks" /\ pc' \in {"checksum", "padding", "answer"}
        /\ chip = "acx100" <=> pc' = "checksum"
        /\ pc' = "padding" => Usb!NeedsPadding
        /\ pc' = "answer" => ~Usb!NeedsPadding
        /\ UNCHANGED <<chip, size, dev, i, offset, usb_result>>
    BY DEF Usb!BlocksEnd
  <1>2. offset = size /\ size \in Nat
    BY UsbConstants DEF Usb!BlocksEnd
  <1>3. dev.bytes = size /\ dev.transfers = Usb!Transfers(size) /\ ~dev.running
    BY <1>1, <1>2
  <1>4. size \div M \in Nat /\ Usb!Transfers(size) \in Nat
    BY <1>2, TransfersBounded
  <1>5. /\ Usb!NeedsPadding' = Usb!NeedsPadding /\ Usb!Announced' = Usb!Announced
        /\ Usb!Transfers(offset') = Usb!Transfers(offset)
        /\ (Usb!Transfers(offset))' = Usb!Transfers(offset)
        /\ (Usb!Transfers(size))' = Usb!Transfers(size)
    BY <1>1, SameImage DEF Usb!Transfers
  <1>6. pc' = "answer" => Usb!Padding(4)' = 0 /\ Usb!Padding(1)' = 0
    BY <1>1, <1>5 DEF Usb!Padding
  <1>7. Usb!SentSoFar'
    BY <1>1, <1>2, <1>3, <1>4, <1>5, <1>6
  <1>8. Usb!TypeOK'
    BY <1>1
  <1> QED BY <1>1, <1>5, <1>7, <1>8, UsbConstants DEF Usb!Device

LEMMA UsbPadding ==
  ASSUME Usb!UploadIInv, Usb!SendPadding
  PROVE  Usb!UploadIInv'
  <1> USE DEF Usb!UploadIInv, Usb!TypeOK, Usb!SentSoFar
  <1>1. /\ size \in Nat /\ size \div M \in Nat /\ offset = size /\ pc = "padding"
        /\ dev.bytes = size /\ dev.transfers = Usb!Transfers(size)
        /\ Usb!Transfers(size) \in 0..((size \div M) + 1)
        /\ Usb!NeedsPadding
    BY UsbConstants, TransfersBounded DEF Usb!SendPadding
  <1>2. UNCHANGED <<chip, size, i, offset>>
    BY DEF Usb!SendPadding
  <1>3. /\ Usb!NeedsPadding' = Usb!NeedsPadding /\ Usb!Announced' = Usb!Announced
        /\ (Usb!Transfers(offset))' = Usb!Transfers(offset)
        /\ (Usb!Transfers(size))' = Usb!Transfers(size)
        /\ Usb!Padding(4)' = 4 /\ Usb!Padding(1)' = 1
    BY <1>1, <1>2, SameImage DEF Usb!Transfers, Usb!Padding
  <1>4. CASE Usb!Return("-EIO") /\ UNCHANGED dev
    BY <1>1, <1>2, <1>3, <1>4 DEF Usb!Return, Usb!Device
  <1>5. CASE dev' = Usb!Received(4, TRUE) /\ pc' = "answer" /\ UNCHANGED usb_result
    <2>1. /\ dev' \in Usb!Device
          /\ dev'.bytes = size + 4 /\ dev'.transfers = Usb!Transfers(size) + 1
          /\ dev'.ready = dev.ready /\ dev'.running = dev.running
          /\ dev'.announced = dev.announced
      BY <1>1, <1>5, ReceivedIs
    <2>2. /\ size + 4 \in 0..(size + 4)
          /\ Usb!Transfers(size) + 1 \in 0..((size \div USB_RWMEM_MAXLEN) + 2)
      BY <1>1 DEF M
    <2>3. Usb!TypeOK'
      BY <1>1, <1>2, <1>5, <2>1, <2>2 DEF Usb!Device
    <2>4. Usb!SentSoFar'
      BY <1>1, <1>2, <1>3, <1>5, <2>1
    <2> QED BY <1>1, <1>2, <1>3, <1>5, <2>1, <2>3, <2>4
  <1> QED BY <1>4, <1>5 DEF Usb!SendPadding

LEMMA UsbStutters ==
  ASSUME Usb!UploadIInv, UNCHANGED usbVars
  PROVE  Usb!UploadIInv'
  BY DEF usbVars, Usb!UploadIInv, Usb!TypeOK, Usb!SentSoFar, Usb!Transfers, Usb!Padding,
         Usb!NeedsPadding, Usb!Announced

\* The device has what it was told to wait for, in an odd number of transfers.
LEMMA UsbImplies ==
  ASSUME Usb!UploadIInv
  PROVE  WellIsRunning
  <1>1. size \in Sizes /\ size \in Nat
    BY UsbConstants DEF Usb!UploadIInv, Usb!TypeOK
  <1>2. pc = "answer" => dev.bytes = dev.announced
    BY <1>1 DEF Usb!UploadIInv, Usb!SentSoFar, Usb!Announced, Usb!Padding
  <1>3. pc = "answer" => dev.transfers % 2 = 1
    BY <1>1, PaddingIsParity DEF Usb!UploadIInv, Usb!SentSoFar, Usb!Padding
  <1> QED BY <1>2, <1>3 DEF WellIsRunning, Usb!WellIsRunning, Usb!UploadIInv,
                            Usb!AnnouncedIsSent, Usb!OddTransfers

\* acxusb_boot, for images and transfers of any size: a boot that says it is well
\* has made the device run what was sent, and a TNETW1450 was told how many bytes
\* would come and got them in an odd number of transfers.
THEOREM UsbWellIsRunning == SpecEither => []WellIsRunning
  <1>1. InitEither => Usb!UploadIInv
    BY UsbInit DEF InitEither
  <1>2. Usb!UploadIInv /\ [NextEither]_all => Usb!UploadIInv'
    <2> SUFFICES ASSUME Usb!UploadIInv, [NextEither]_all PROVE Usb!UploadIInv'
      OBVIOUS
    <2>1. CASE Usb!Next
      BY <2>1, UsbOthers, UsbHeader, UsbBlock, UsbBlocksEnd, UsbPadding DEF Usb!Next
    <2>2. CASE UNCHANGED usbVars
      BY <2>2, UsbStutters
    <2> QED BY <2>1, <2>2 DEF NextEither, all
  <1>3. Usb!UploadIInv => WellIsRunning
    BY UsbImplies
  <1> QED BY <1>1, <1>2, <1>3, PTL DEF SpecEither
-------------------------------------------------------------------------------
(* The lists of steps.                                                         *)

\* A list that may follow any other.
Piece(s) == s \in Seq(StepType) /\ InOrder(s) /\ (s # <<>> => Prior(s[1].do) = None)

LEMMA StepsAre ==
  ASSUME NEW names \in Seq(StepNames), NEW fails \in {"end", "free", "ignored"}
  PROVE  /\ Steps(names, fails) \in Seq(StepType)
         /\ Len(Steps(names, fails)) = Len(names)
         /\ \A j \in 1..Len(names) : /\ Steps(names, fails)[j].do = names[j]
                                     /\ Steps(names, fails)[j].fails = fails
  <1>1. DOMAIN names = 1..Len(names) /\ Len(names) \in Nat
    BY LenProperties
  <1>2. \A j \in 1..Len(names) : Step(names[j], fails) \in StepType
    BY ElementOfSeq DEF Step, StepType
  <1>3. Steps(names, fails) = [j \in 1..Len(names) |-> Step(names[j], fails)]
    BY <1>1 DEF Steps
  <1>4. Steps(names, fails) \in [1..Len(names) -> StepType]
    BY <1>2, <1>3
  <1>5. Steps(names, fails) \in Seq(StepType) /\ Len(Steps(names, fails)) = Len(names)
    BY <1>1, <1>4
  <1> QED BY <1>3, <1>5 DEF Step

\* A list of names in which each step has before it what it needs.
Chain(names, fails) ==
  /\ names \in Seq(StepNames) /\ fails \in {"end", "free", "ignored"}
  /\ \A j \in 1..Len(names) :
       /\ Prior(names[j]) # None => j > 1 /\ names[j - 1] = Prior(names[j])
       /\ names[j] \notin {"resetMac", "upload"}
       /\ names[j] = "radioinit" => j = Len(names)
       /\ fails = "ignored" => names[j] \in Ignorable

LEMMA ChainIsPiece ==
  ASSUME NEW names, NEW fails, Chain(names, fails)
  PROVE  /\ Piece(Steps(names, fails))
         /\ (\A j \in 1..Len(names) : names[j] \notin OfRadio) => ~RadioPending(Steps(names, fails))
  <1> DEFINE s == Steps(names, fails)
  <1>1. /\ s \in Seq(StepType) /\ Len(s) = Len(names) /\ Len(s) \in Nat
        /\ \A j \in 1..Len(s) : s[j].do = names[j] /\ s[j].fails = fails
    BY StepsAre, LenProperties DEF Chain
  <1> HIDE DEF s
  <1>2. InOrder(s)
    BY <1>1 DEF InOrder, InPlace, Chain
  <1>3. s # <<>> => Prior(s[1].do) = None
    <2>1. s # <<>> => 1 \in 1..Len(s)
      BY <1>1
    <2> QED BY <2>1, <1>1 DEF Chain
  <1> QED BY <1>1, <1>2, <1>3 DEF Piece, RadioPending, s

\* Two lists, of which at most one is about the radio.
LEMMA PiecesJoin ==
  ASSUME NEW s, NEW t, Piece(s), Piece(t), ~RadioPending(s) \/ ~RadioPending(t)
  PROVE  /\ Piece(s \o t)
         /\ RadioPending(s \o t) => RadioPending(s) \/ RadioPending(t)
  <1> DEFINE u == s \o t
  <1>1. s \in Seq(StepType) /\ t \in Seq(StepType) /\ Len(s) \in Nat /\ Len(t) \in Nat
    BY LenProperties DEF Piece
  <1>2. /\ u \in Seq(StepType) /\ Len(u) = Len(s) + Len(t)
        /\ \A j \in 1..Len(u) : u[j] = IF j <= Len(s) THEN s[j] ELSE t[j - Len(s)]
    BY <1>1, ConcatProperties
  <1> HIDE DEF u
  <1>3. RadioPending(u) => RadioPending(s) \/ RadioPending(t)
    <2> SUFFICES ASSUME NEW j \in 1..Len(u), u[j].do \in OfRadio
                 PROVE  RadioPending(s) \/ RadioPending(t)
      BY DEF RadioPending
    <2>1. CASE j <= Len(s)
      <3>1. j \in 1..Len(s) /\ u[j] = s[j]
        BY <1>1, <1>2, <2>1
      <3> QED BY <3>1 DEF RadioPending
    <2>2. CASE ~ (j <= Len(s))
      <3>1. j - Len(s) \in 1..Len(t) /\ u[j] = t[j - Len(s)]
        BY <1>1, <1>2, <2>2
      <3> QED BY <3>1 DEF RadioPending
    <2> QED BY <2>1, <2>2
  <1>4. ASSUME NEW j \in 1..Len(u)
        PROVE  InPlace(u, j)
    <2>1. CASE j <= Len(s)
      <3>1. /\ j \in 1..Len(s) /\ u[j] = s[j]
            /\ j > 1 => u[j - 1] = s[j - 1]
            /\ j < Len(s) => j < Len(u) /\ u[j + 1] = s[j + 1]
        BY <1>1, <1>2, <2>1
      <3>2. InPlace(s, j)
        BY <3>1 DEF Piece, InOrder
      <3>3. ASSUME s[j].do = "radioinit", NEW k \in (j + 1)..Len(u)
            PROVE  u[k].do \notin OfRadio
        <4>1. CASE k <= Len(s)
          <5>1. k \in (j + 1)..Len(s) /\ u[k] = s[k]
            <6>1. k \in Int /\ j + 1 <= k /\ k \in 1..Len(u)
              BY <1>1, <3>1
            <6> QED BY <1>1, <1>2, <4>1, <6>1
          <5> QED BY <5>1, <3>2, <3>3 DEF InPlace
        <4>2. CASE ~ (k <= Len(s))
          <5>1. k - Len(s) \in 1..Len(t) /\ u[k] = t[k - Len(s)]
            <6>1. k \in Int /\ k \in 1..Len(u)
              BY <1>1, <3>1
            <6> QED BY <1>1, <1>2, <4>2, <6>1
          <5>2. ~RadioPending(t)
            BY <3>1, <3>3 DEF RadioPending, OfRadio
          <5> QED BY <5>1, <5>2 DEF RadioPending
        <4> QED BY <4>1, <4>2
      <3>4. u[j].do \in {"resetMac", "upload"} => j < Len(u) /\ Prior(u[j + 1].do) = u[j].do
        BY <3>1, <3>2 DEF InPlace
      <3> QED BY <3>1, <3>2, <3>3, <3>4 DEF InPlace
    <2>2. CASE ~ (j <= Len(s))
      <3> DEFINE l == j - Len(s)
      <3>1. l \in 1..Len(t) /\ u[j] = t[l] /\ (l > 1 => u[j - 1] = t[l - 1])
            /\ (l < Len(t) => j < Len(u) /\ u[j + 1] = t[l + 1])
        <4>1. l \in 1..Len(t) /\ u[j] = t[l]
          BY <1>1, <1>2, <2>2
        <4>2. l > 1 => j - 1 \in 1..Len(u) /\ ~ (j - 1 <= Len(s)) /\ (j - 1) - Len(s) = l - 1
          BY <1>1, <1>2, <2>2
        <4>3. l < Len(t) => j + 1 \in 1..Len(u) /\ ~ (j + 1 <= Len(s)) /\ (j + 1) - Len(s) = l + 1
                            /\ j < Len(u)
          BY <1>1, <1>2, <2>2
        <4> HIDE DEF l
        <4>4. l > 1 => u[j - 1] = t[(j - 1) - Len(s)]
          BY <1>2, <4>2
        <4>5. l < Len(t) => u[j + 1] = t[(j + 1) - Len(s)]
          BY <1>2, <4>3
        <4> QED BY <4>1, <4>2, <4>3, <4>4, <4>5
      <3>2. l = 1 => Prior(u[j].do) = None
        BY <3>1 DEF Piece
      <3>3. \A k \in (j + 1)..Len(u) : k - Len(s) \in (l + 1)..Len(t) /\ u[k] = t[k - Len(s)]
        BY <1>1, <1>2, <2>2
      <3> HIDE DEF l
      <3>4. InPlace(t, l)
        BY <3>1 DEF Piece, InOrder
      <3>5. l > 1 \/ l = 1
        BY <1>1, <3>1
      <3>6. u[j].do = "radioinit" => \A k \in (j + 1)..Len(u) : u[k].do \notin OfRadio
        BY <3>1, <3>3, <3>4 DEF InPlace
      <3>7. j > 1 /\ Prior(u[j].do) # None => u[j - 1].do = Prior(u[j].do)
        BY <3>1, <3>2, <3>4, <3>5 DEF InPlace
      <3>8. u[j].do \in {"resetMac", "upload"} => j < Len(u) /\ Prior(u[j + 1].do) = u[j].do
        BY <3>1, <3>4 DEF InPlace
      <3> QED BY <3>1, <3>4, <3>6, <3>7, <3>8 DEF InPlace
    <2> QED BY <2>1, <2>2
  <1>5. InOrder(u)
    BY <1>4 DEF InOrder
  <1>6. u # <<>> => Prior(u[1].do) = None
    <2>1. CASE s = <<>>
      <3>1. u = t
        BY <1>1, <2>1 DEF u
      <3> QED BY <3>1 DEF Piece
    <2>2. CASE s # <<>>
      <3>1. 1 \in 1..Len(u) /\ u[1] = s[1]
        BY <1>1, <1>2, <2>2
      <3> QED BY <3>1, <2>2 DEF Piece
    <2> QED BY <2>1, <2>2
  <1> QED BY <1>2, <1>3, <1>5, <1>6 DEF Piece, u

LEMMA ResetDevInOrder ==
  /\ Piece(ResetDev) /\ ~RadioPending(ResetDev)
  /\ Len(ResetDev) = 5 /\ ResetDev[1].do = "resetMac"
  <1> DEFINE names == <<"resetMac", "upload", "startEcpu", "verifyInit", "initMboxes">>
  <1>1. names \in Seq(StepNames) /\ Len(names) = 5
    BY DEF StepNames
  <1>2. /\ names[1] = "resetMac" /\ names[2] = "upload" /\ names[3] = "startEcpu"
        /\ names[4] = "verifyInit" /\ names[5] = "initMboxes"
    OBVIOUS
  <1> HIDE DEF names
  <1>3. /\ ResetDev \in Seq(StepType) /\ Len(ResetDev) = 5
        /\ \A j \in 1..5 : ResetDev[j].do = names[j] /\ ResetDev[j].fails = "end"
    BY <1>1, StepsAre DEF ResetDev, names
  <1>4. /\ ResetDev[1].do = "resetMac" /\ ResetDev[2].do = "upload"
        /\ ResetDev[3].do = "startEcpu"
        /\ ResetDev[4].do = "verifyInit" /\ ResetDev[5].do = "initMboxes"
        /\ \A j \in 1..5 : ResetDev[j].fails = "end"
    BY <1>2, <1>3
  <1>5. \A j \in 1..5 : j = 1 \/ j = 2 \/ j = 3 \/ j = 4 \/ j = 5
    OBVIOUS
  <1>6. InOrder(ResetDev)
    BY <1>3, <1>4, <1>5 DEF InOrder, InPlace, Prior, None
  <1>7. ~RadioPending(ResetDev)
    BY <1>3, <1>4, <1>5 DEF RadioPending, OfRadio
  <1>8. Prior(ResetDev[1].do) = None
    BY <1>4 DEF Prior
  <1> QED BY <1>3, <1>4, <1>6, <1>7, <1>8 DEF Piece

LEMMA UploadRadioInOrder == Piece(UploadRadio)
  <1> DEFINE names == <<"map", "sleep", "radio", "wake", "radioinit">>
  <1>1. names \in Seq(StepNames) /\ Len(names) = 5
    BY DEF StepNames
  <1>2. /\ names[1] = "map" /\ names[2] = "sleep" /\ names[3] = "radio"
        /\ names[4] = "wake" /\ names[5] = "radioinit"
    OBVIOUS
  <1>3. Piece(<<>>)
    BY DEF Piece, InOrder, InPlace
  <1>4. UploadRadio = <<>> \/ UploadRadio = Steps(names, "ignored")
    BY DEF UploadRadio
  <1> HIDE DEF names
  <1>5. \A j \in 1..5 : j = 1 \/ j = 2 \/ j = 3 \/ j = 4 \/ j = 5
    OBVIOUS
  <1>6. Chain(names, "ignored")
    BY <1>1, <1>2, <1>5 DEF Chain, Prior, None, Ignorable
  <1> QED BY <1>3, <1>4, <1>6, ChainIsPiece

\* A list that has nothing to do with the radio.
OtherPiece(s) == Piece(s) /\ ~RadioPending(s)

LEMMA OthersJoin ==
  ASSUME NEW s, NEW t, OtherPiece(s), OtherPiece(t)
  PROVE  OtherPiece(s \o t)
  BY PiecesJoin DEF OtherPiece

LEMMA ChainIsOther ==
  ASSUME NEW names, NEW fails, Chain(names, fails),
         \A j \in 1..Len(names) : names[j] \notin OfRadio
  PROVE  OtherPiece(Steps(names, fails))
  BY ChainIsPiece DEF OtherPiece

LEMMA NothingIsOther == OtherPiece(<<>>)
  BY DEF OtherPiece, Piece, InOrder, InPlace, RadioPending

LEMMA InitWepInOrder == OtherPiece(InitWep)
  <1> DEFINE names == <<"map", "wepCache", "templatesAt">>
  <1>1. names \in Seq(StepNames) /\ Len(names) = 3
    BY DEF StepNames
  <1>2. names[1] = "map" /\ names[2] = "wepCache" /\ names[3] = "templatesAt"
    OBVIOUS
  <1>3. InitWep = Steps(names, "end")
    BY DEF InitWep
  <1> HIDE DEF names
  <1>4. \A j \in 1..3 : j = 1 \/ j = 2 \/ j = 3
    OBVIOUS
  <1>5. Chain(names, "end") /\ \A j \in 1..Len(names) : names[j] \notin OfRadio
    BY <1>1, <1>2, <1>4 DEF Chain, Prior, None, OfRadio
  <1> QED BY <1>3, <1>5, ChainIsOther

LEMMA TemplatesInOrder == OtherPiece(Templates)
  <1> DEFINE five  == <<"probeRequest", "nullData", "beacon", "tim", "probeResponse">>
             three == <<"setTim", "map", "queuesAt">>
  <1>1. /\ five \in Seq(StepNames) /\ Len(five) = 5
        /\ three \in Seq(StepNames) /\ Len(three) = 3
    BY DEF StepNames
  <1>2. /\ five[1] = "probeRequest" /\ five[2] = "nullData" /\ five[3] = "beacon"
        /\ five[4] = "tim" /\ five[5] = "probeResponse"
        /\ three[1] = "setTim" /\ three[2] = "map" /\ three[3] = "queuesAt"
    OBVIOUS
  <1>3. \/ Templates = Steps(five, "end") \o Steps(three, "end")
        \/ Templates = Steps(five, "end") \o <<>>
    BY DEF Templates
  <1> HIDE DEF five, three
  <1>4. /\ \A j \in 1..3 : j = 1 \/ j = 2 \/ j = 3
        /\ \A j \in 1..5 : j = 1 \/ j = 2 \/ j = 3 \/ j = 4 \/ j = 5
    OBVIOUS
  <1>5. Chain(five, "end") /\ \A j \in 1..Len(five) : five[j] \notin OfRadio
    BY <1>1, <1>2, <1>4 DEF Chain, Prior, None, OfRadio
  <1>6. Chain(three, "end") /\ \A j \in 1..Len(three) : three[j] \notin OfRadio
    BY <1>1, <1>2, <1>4 DEF Chain, Prior, None, OfRadio
  <1> QED BY <1>3, <1>5, <1>6, ChainIsOther, OthersJoin, NothingIsOther

LEMMA HostdescsInOrder == OtherPiece(CreateHostdescQueues)
  <1> DEFINE all_of == {"txbuf0", "txhost0", "txbuf1", "txhost1", "rxhost", "rxbuf"}
             two == <<"txbuf0", "txhost0">>
             four == <<"txbuf0", "txhost0", "txbuf1", "txhost1">>
             rx == <<"rxhost", "rxbuf">>
  <1>1. two \in Seq(all_of) /\ four \in Seq(all_of) /\ rx \in Seq(all_of)
    OBVIOUS
  <1>2. two \o rx \in Seq(all_of) /\ four \o rx \in Seq(all_of)
    BY <1>1, ConcatProperties
  <1>3. \/ CreateHostdescQueues = Steps(two \o rx, "free")
        \/ CreateHostdescQueues = Steps(four \o rx, "free")
    BY DEF CreateHostdescQueues
  <1> HIDE DEF two, four, rx
  <1>4. ASSUME NEW names \in Seq(all_of)
        PROVE  OtherPiece(Steps(names, "free"))
    <2>1. names \in Seq(StepNames)
      BY DEF StepNames
    <2>2. \A j \in 1..Len(names) : names[j] \in all_of
      OBVIOUS
    <2>3. Chain(names, "free") /\ \A j \in 1..Len(names) : names[j] \notin OfRadio
      BY <2>1, <2>2 DEF Chain, Prior, None, OfRadio
    <2> QED BY <2>3, ChainIsOther
  <1> QED BY <1>2, <1>3, <1>4

LEMMA DmaRegionsInOrder == OtherPiece(CreateDmaRegions)
  <1> DEFINE queues  == <<"map", "queueConfig">>
             pools   == <<"rings", "map", "poolAt", "blockSize", "memoryConfig", "initMemory">>
             memory  == <<"memoryConfig111">>
             address == <<"queueAddress">>
             rings   == <<"rings">>
  <1>1. /\ queues \in Seq(StepNames) /\ Len(queues) = 2
        /\ memory \in Seq(StepNames) /\ Len(memory) = 1
        /\ address \in Seq(StepNames) /\ Len(address) = 1
        /\ rings \in Seq(StepNames) /\ Len(rings) = 1
    BY DEF StepNames
  <1>2. pools \in Seq(StepNames) /\ Len(pools) = 6
    BY DEF StepNames
  <1>3. /\ queues[1] = "map" /\ queues[2] = "queueConfig"
        /\ memory[1] = "memoryConfig111" /\ address[1] = "queueAddress" /\ rings[1] = "rings"
        /\ pools[1] = "rings" /\ pools[2] = "map" /\ pools[3] = "poolAt"
        /\ pools[4] = "blockSize" /\ pools[5] = "memoryConfig" /\ pools[6] = "initMemory"
    OBVIOUS
  <1>4. \/ CreateDmaRegions = (Steps(queues, "free") \o CreateHostdescQueues)
                               \o Steps(pools, "free")
        \/ CreateDmaRegions = ((CreateHostdescQueues \o Steps(memory, "free"))
                               \o Steps(address, "ignored")) \o Steps(rings, "free")
    BY DEF CreateDmaRegions
  <1> HIDE DEF queues, pools, memory, address, rings
  <1>5. /\ \A j \in 1..2 : j = 1 \/ j = 2
        /\ \A j \in 1..6 : j = 1 \/ j = 2 \/ j = 3 \/ j = 4 \/ j = 5 \/ j = 6
        /\ \A j \in 1..1 : j = 1
    OBVIOUS
  <1>6. Chain(queues, "free") /\ \A j \in 1..Len(queues) : queues[j] \notin OfRadio
    BY <1>1, <1>3, <1>5 DEF Chain, Prior, None, OfRadio
  <1>7. Chain(pools, "free") /\ \A j \in 1..Len(pools) : pools[j] \notin OfRadio
    BY <1>2, <1>3, <1>5 DEF Chain, Prior, None, OfRadio
  <1>8. Chain(memory, "free") /\ \A j \in 1..Len(memory) : memory[j] \notin OfRadio
    BY <1>1, <1>3, <1>5 DEF Chain, Prior, None, OfRadio
  <1>9. Chain(address, "ignored") /\ \A j \in 1..Len(address) : address[j] \notin OfRadio
    BY <1>1, <1>3, <1>5 DEF Chain, Prior, None, OfRadio, Ignorable
  <1>10. Chain(rings, "free") /\ \A j \in 1..Len(rings) : rings[j] \notin OfRadio
    BY <1>1, <1>3, <1>5 DEF Chain, Prior, None, OfRadio
  <1>11. /\ OtherPiece(Steps(queues, "free")) /\ OtherPiece(Steps(pools, "free"))
         /\ OtherPiece(Steps(memory, "free")) /\ OtherPiece(Steps(address, "ignored"))
         /\ OtherPiece(Steps(rings, "free"))
    BY <1>6, <1>7, <1>8, <1>9, <1>10, ChainIsOther
  <1> QED BY <1>4, <1>11, HostdescsInOrder, OthersJoin

\* What acx_full_reset and acx_reset_on_probe do, in an order in which nothing is
\* taken for granted, and beginning with the reset.
LEMMA BootsInOrder ==
  /\ FullReset \in Seq(StepType) /\ InOrder(FullReset)
  /\ FullReset # <<>> /\ Head(FullReset).do = "resetMac"
  /\ ResetOnProbe \in Seq(StepType) /\ InOrder(ResetOnProbe)
  /\ ResetOnProbe # <<>> /\ Head(ResetOnProbe).do = "resetMac"
  <1> DEFINE eeprom == <<"eeprom">>
             rest   == ((IF Acx100 THEN InitWep ELSE <<>>) \o Templates) \o CreateDmaRegions
  <1>1. OtherPiece(IF Acx100 THEN InitWep ELSE <<>>)
    BY InitWepInOrder, NothingIsOther
  <1>2. Piece(UploadRadio \o (IF Acx100 THEN InitWep ELSE <<>>))
    BY <1>1, UploadRadioInOrder, PiecesJoin DEF OtherPiece
  <1>3. Piece((UploadRadio \o (IF Acx100 THEN InitWep ELSE <<>>)) \o Templates)
    BY <1>2, TemplatesInOrder, PiecesJoin DEF OtherPiece
  <1>4. Piece(InitMac)
    BY <1>3, DmaRegionsInOrder, PiecesJoin DEF OtherPiece, InitMac
  <1>5. Piece(FullReset)
    BY <1>4, ResetDevInOrder, PiecesJoin DEF FullReset
  <1>6. OtherPiece(Steps(eeprom, "end"))
    <2>1. eeprom \in Seq(StepNames) /\ Len(eeprom) = 1 /\ eeprom[1] = "eeprom"
      BY DEF StepNames
    <2> HIDE DEF eeprom
    <2>2. \A j \in 1..1 : j = 1
      OBVIOUS
    <2>3. Chain(eeprom, "end") /\ \A j \in 1..Len(eeprom) : eeprom[j] \notin OfRadio
      BY <2>1, <2>2 DEF Chain, Prior, None, OfRadio
    <2> QED BY <2>3, ChainIsOther
  <1>7. Piece(ResetOnProbe)
    BY <1>5, <1>6, PiecesJoin DEF OtherPiece, ResetOnProbe
  <1>8. /\ Len(FullReset) >= 5 /\ FullReset[1] = ResetDev[1]
    <2>1. ResetDev \in Seq(StepType) /\ InitMac \in Seq(StepType) /\ Len(InitMac) \in Nat
          /\ Len(ResetDev) = 5
      BY <1>4, ResetDevInOrder, LenProperties DEF Piece
    <2>2. /\ Len(ResetDev \o InitMac) = 5 + Len(InitMac)
          /\ \A j \in 1..(5 + Len(InitMac)) :
               (ResetDev \o InitMac)[j] = IF j <= 5 THEN ResetDev[j] ELSE InitMac[j - 5]
      <3>1. /\ Len(ResetDev \o InitMac) = Len(ResetDev) + Len(InitMac)
            /\ \A j \in 1..(Len(ResetDev) + Len(InitMac)) :
                 (ResetDev \o InitMac)[j] = IF j <= Len(ResetDev) THEN ResetDev[j]
                                            ELSE InitMac[j - Len(ResetDev)]
        BY <2>1, ConcatProperties
      <3> QED BY <2>1, <3>1
    <2>3. 1 \in 1..(5 + Len(InitMac)) /\ 1 <= 5
      BY <2>1
    <2> QED BY <2>1, <2>2, <2>3 DEF FullReset
  <1>9. /\ Len(ResetOnProbe) >= 5 /\ ResetOnProbe[1] = FullReset[1]
    <2>1. FullReset \in Seq(StepType) /\ Steps(eeprom, "end") \in Seq(StepType)
          /\ Len(FullReset) \in Nat /\ Len(Steps(eeprom, "end")) \in Nat
      BY <1>5, <1>6, LenProperties DEF Piece, OtherPiece
    <2> QED BY <1>8, <2>1, ConcatProperties DEF ResetOnProbe
  <1> QED BY <1>5, <1>7, <1>8, <1>9, ResetDevInOrder DEF Piece
-------------------------------------------------------------------------------
(* Going on, or not. *)

LEMMA DoneMoves ==
  ASSUME todo \in Seq(StepType), InOrder(todo), todo # <<>>, Done
  PROVE  /\ todo' \in Seq(StepType) /\ InOrder(todo')
         /\ todo' # <<>> /\ Prior(Head(todo').do) # None => Head(todo).do = Prior(Head(todo').do)
         /\ Head(todo).do \in {"resetMac", "upload"} =>
              todo' # <<>> /\ Prior(Head(todo').do) = Head(todo).do
         /\ RadioPending(todo') => RadioPending(todo) /\ Head(todo).do # "radioinit"
  <1> DEFINE t == todo'
  <1>1. /\ Len(todo) \in Nat \ {0} /\ t = Tail(todo) /\ Head(todo) = todo[1]
        /\ t \in Seq(StepType) /\ Len(t) = Len(todo) - 1
        /\ \A j \in 1..Len(t) : t[j] = todo[j + 1]
    BY HeadTailProperties, LenProperties DEF Done
  <1> HIDE DEF t
  <1>2. ASSUME NEW j \in 1..Len(t)
        PROVE  InPlace(t, j)
    <2>1. /\ j + 1 \in 1..Len(todo) /\ t[j] = todo[j + 1] /\ j + 1 > 1
          /\ j > 1 => t[j - 1] = todo[j] /\ (j + 1) - 1 = j
          /\ j + 1 < Len(todo) => j < Len(t) /\ t[j + 1] = todo[(j + 1) + 1]
      BY <1>1
    <2>2. InPlace(todo, j + 1)
      BY <2>1 DEF InOrder
    <2>3. \A k \in (j + 1)..Len(t) : k + 1 \in ((j + 1) + 1)..Len(todo) /\ t[k] = todo[k + 1]
      BY <1>1
    <2> QED BY <2>1, <2>2, <2>3 DEF InPlace
  <1>3. InOrder(t)
    BY <1>2 DEF InOrder
  <1>4. t # <<>> => /\ 1 \in 1..Len(t) /\ Head(t) = t[1] /\ t[1] = todo[2]
                    /\ 2 \in 1..Len(todo) /\ 2 > 1 /\ 2 - 1 = 1
    BY <1>1, HeadTailProperties
  <1>5. t # <<>> /\ Prior(Head(t).do) # None => Head(todo).do = Prior(Head(t).do)
    BY <1>1, <1>4 DEF InOrder, InPlace
  <1>6. Head(todo).do \in {"resetMac", "upload"} => t # <<>> /\ Prior(Head(t).do) = Head(todo).do
    <2>1. Head(todo).do \in {"resetMac", "upload"} =>
            1 < Len(todo) /\ Prior(todo[1 + 1].do) = Head(todo).do
      BY <1>1 DEF InOrder, InPlace
    <2>2. 1 < Len(todo) => t # <<>>
      <3>1. t = <<>> => Len(t) = 0
        OBVIOUS
      <3> QED BY <3>1, <1>1
    <2> QED BY <2>1, <2>2, <1>4
  <1>7. ASSUME NEW j \in 1..Len(t), t[j].do \in OfRadio
        PROVE  RadioPending(todo) /\ Head(todo).do # "radioinit"
    <2>1. j + 1 \in 1..Len(todo) /\ todo[j + 1].do \in OfRadio /\ j + 1 \in (1 + 1)..Len(todo)
      BY <1>1, <1>7
    <2>2. todo[1].do = "radioinit" => \A k \in (1 + 1)..Len(todo) : todo[k].do \notin OfRadio
      BY <1>1 DEF InOrder, InPlace
    <2> QED BY <1>1, <2>1, <2>2 DEF RadioPending
  <1>8. RadioPending(t) => RadioPending(todo) /\ Head(todo).do # "radioinit"
    BY <1>7 DEF RadioPending
  <1> QED BY <1>1, <1>3, <1>5, <1>6, <1>8 DEF t

\* A boot that has ended.
LEMMA NothingInOrder ==
  <<>> \in Seq(StepType) /\ InOrder(<<>>) /\ ~RadioPending(<<>>)
  BY DEF InOrder, InPlace, RadioPending

\* A step that is neither about the code nor about the radio.
LEMMA OtherStep ==
  ASSUME CodeIInv, todo # <<>>, Done \/ todo' = <<>>,
         Head(todo).do \notin {"resetMac", "upload", "startEcpu", "radio", "radioinit"},
         acx' \in Adapter, mm' \in MemMap, try' = try,
         acx'.ecpu = acx.ecpu, acx'.code = acx.code, acx'.radio = acx.radio,
         acx'.radioOn = acx.radioOn, acx'.patch = acx.patch, Patches' = Patches,
         ~acx'.disturbed => /\ ~acx.disturbed
                            /\ acx'.map.CodeEnd = acx.map.CodeEnd
                            /\ todo' # <<>> /\ Head(todo).do \in {"map", "sleep", "wepCache"} =>
                                 mm'.CodeEnd = acx'.map.CodeEnd
  PROVE  CodeIInv'
  <1> DEFINE h == Head(todo).do
             d == Head(todo').do
  <1>1. /\ BootTypes /\ EcpuFollows /\ CodeIsKept
        /\ todo \in Seq(StepType) /\ InOrder(todo) /\ try \in Nat
    BY DEF CodeIInv, BootTypes
  <1>2. /\ todo' \in Seq(StepType) /\ InOrder(todo')
        /\ todo' # <<>> /\ Prior(d) # None => h = Prior(d)
        /\ RadioPending(todo') => RadioPending(todo)
    BY <1>1, DoneMoves, NothingInOrder
  <1>3. BootTypes'
    BY <1>1, <1>2 DEF BootTypes
  <1>4. acx.ecpu = "running"
    BY <1>1 DEF EcpuFollows
  <1>5. todo' # <<>> => d \notin {"upload", "startEcpu", "wake"}
    BY <1>2 DEF Prior, None
  <1>6. EcpuFollows'
    BY <1>1, <1>2, <1>4, <1>5 DEF EcpuFollows, At
  <1>7. CodeIsKept'
    <2> USE DEF PatchFits
    <2>1. todo' # <<>> /\ Prior(d) \in {"map", "sleep", "wepCache"} =>
            h \in {"map", "sleep", "wepCache"}
      BY <1>2 DEF None
    <2>2. todo' # <<>> /\ d = "radioinit" => h = "wake"
      BY <1>2 DEF Prior, None
    <2> QED BY <1>1, <1>5, <2>1, <2>2 DEF CodeIsKept, At
  <1> QED BY <1>3, <1>6, <1>7 DEF CodeIInv

\* What the code computes of a memory map is one, and the code stays where it is.
LEMMA MapsAreMaps ==
  ASSUME NEW m \in MemMap
  PROVE  /\ WepCache(m) \in MemMap /\ WepCache(m).CodeEnd = m.CodeEnd
         /\ TemplatesAt(m) \in MemMap /\ TemplatesAt(m).CodeEnd = m.CodeEnd
         /\ QueuesAt(m) \in MemMap /\ QueuesAt(m).CodeEnd = m.CodeEnd
         /\ PoolAt(m) \in MemMap /\ PoolAt(m).CodeEnd = m.CodeEnd
         /\ QueueConfig(m).TxQueueStart \in Nat
         /\ QueueConfig(m).QueueEnd \in Nat /\ QueueConfig(m).HostQueueEnd \in Nat
  <1>1. PoolAt(m) \in MemMap
    BY PoolStartIsAbove
  <1>2. PoolAt(m).CodeEnd = m.CodeEnd
    BY DEF PoolAt, MemMap
  <1>3. /\ QueueConfig(m).TxQueueStart \in Nat
        /\ QueueConfig(m).QueueEnd \in Nat /\ QueueConfig(m).HostQueueEnd \in Nat
    BY MemoryMapAssumption DEF QueueConfig, MemMap, Address
  <1>4. /\ WepCache(m) \in MemMap /\ WepCache(m).CodeEnd = m.CodeEnd
    <2>1. m.CodeEnd + 4 \in Address
      BY DEF MemMap, Address
    <2> QED BY <2>1 DEF WepCache, MemMap
  <1>5. /\ TemplatesAt(m) \in MemMap /\ TemplatesAt(m).CodeEnd = m.CodeEnd
    BY DEF TemplatesAt, MemMap, Address
  <1>6. /\ QueuesAt(m) \in MemMap /\ QueuesAt(m).CodeEnd = m.CodeEnd
    BY DEF QueuesAt, MemMap, Address
  <1> QED BY <1>1, <1>2, <1>3, <1>4, <1>5, <1>6

LEMMA NoMapIsMap == NoMap \in MemMap
  BY DEF NoMap, MemMap, Address

LEMMA UnansweredAreMaps ==
  ASSUME mm \in MemMap, NEW step
  PROVE  Unanswered(step) \subseteq MemMap
  <1>1. ASSUME NEW a \in Nat
        PROVE  [NoMap EXCEPT !.CodeEnd = a] \in MemMap /\ [mm EXCEPT !.QueueStart = a] \in MemMap
    BY NoMapIsMap DEF MemMap, Address
  <1>2. OtherAddress \in Nat /\ CodeSize \in Nat
    BY BootAssumption
  <1> QED BY <1>1, <1>2 DEF Unanswered

\* A command that leaves code and radio alone.
LEMMA OtherCmd ==
  ASSUME CodeIInv, NEW step, NEW a, NEW m, IssueCmd(step, a, m),
         step \notin {"resetMac", "upload", "startEcpu", "radio", "radioinit"},
         a \in Adapter, m \in MemMap,
         a.ecpu = acx.ecpu, a.code = acx.code, a.radio = acx.radio, a.radioOn = acx.radioOn,
         a.patch = acx.patch, Patches' = Patches,
         a.disturbed = acx.disturbed, ~acx.disturbed => a.map.CodeEnd = acx.map.CodeEnd,
         ~acx.disturbed /\ step \in {"map", "sleep", "wepCache"} => m.CodeEnd = a.map.CodeEnd
  PROVE  CodeIInv'
  <1>1. todo # <<>> /\ Head(todo).do = step /\ try' = try
    BY DEF IssueCmd, At
  <1>2. acx \in Adapter /\ mm \in MemMap
    BY DEF CodeIInv, BootTypes
  <1>3. CASE acx' = a /\ mm' = m /\ Done
    BY <1>1, <1>3, OtherStep
  <1>4. CASE Fails /\ Head(todo).fails = "ignored"
             /\ acx' = [acx EXCEPT !.disturbed = TRUE] /\ mm' \in Unanswered(step)
    <2>1. /\ acx' \in Adapter /\ acx'.disturbed /\ mm' \in MemMap
          /\ acx'.ecpu = acx.ecpu /\ acx'.code = acx.code /\ acx'.radio = acx.radio
          /\ acx'.radioOn = acx.radioOn /\ acx'.patch = acx.patch
      BY <1>2, <1>4, UnansweredAreMaps DEF Adapter
    <2>2. Done
      BY <1>4 DEF Fails
    <2> QED BY <1>1, <2>1, <2>2, OtherStep
  <1>5. CASE Fails /\ Head(todo).fails # "ignored" /\ UNCHANGED <<acx, mm>>
    <2>1. todo' = <<>>
      BY <1>5 DEF Fails
    <2> QED BY <1>1, <1>2, <1>5, <2>1, OtherStep
  <1> QED BY <1>3, <1>4, <1>5 DEF IssueCmd

\* An adapter whose code and radio are as they were.
SameButMap(a) ==
  /\ a \in Adapter
  /\ a.ecpu = acx.ecpu /\ a.code = acx.code /\ a.radio = acx.radio
  /\ a.radioOn = acx.radioOn /\ a.disturbed = acx.disturbed /\ a.patch = acx.patch

KeepsCode(a) == SameButMap(a) /\ a.map.CodeEnd = acx.map.CodeEnd

LEMMA AdapterTakes ==
  ASSUME acx \in Adapter
  PROVE  /\ \A m \in MemMap : /\ SameButMap([acx EXCEPT !.map = m])
                              /\ [acx EXCEPT !.map = m].map = m
         /\ \A b \in BOOLEAN : KeepsCode([acx EXCEPT !.awake = b])
         /\ \A m \in MemMap : KeepsCode([acx EXCEPT !.pools = Pools(m, memblocksize)])
         /\ KeepsCode([acx EXCEPT !.linked = TRUE])
         /\ \A n \in Nat : KeepsCode([acx EXCEPT !.queue = n, !.linked = TRUE])
         /\ \A n, m \in Nat : KeepsCode([acx EXCEPT !.queue = n, !.map.QueueEnd = m])
         /\ \A n \in Nat, t \in TemplateNames :
              KeepsCode([acx EXCEPT !.templates = @ \cup {t}, !.map.PacketTemplateEnd = n])
  <1> USE DEF SameButMap, KeepsCode
  <1>1. \A n \in Nat : /\ [acx.map EXCEPT !.QueueEnd = n] \in MemMap
                       /\ [acx.map EXCEPT !.QueueEnd = n].CodeEnd = acx.map.CodeEnd
                       /\ [acx.map EXCEPT !.PacketTemplateEnd = n] \in MemMap
                       /\ [acx.map EXCEPT !.PacketTemplateEnd = n].CodeEnd = acx.map.CodeEnd
    BY DEF Adapter, MemMap, Address
  <1>2. \A m \in MemMap : KeepsCode([acx EXCEPT !.pools = Pools(m, memblocksize)])
    BY DEF Adapter
  <1>3. \A m \in MemMap : /\ SameButMap([acx EXCEPT !.map = m])
                          /\ [acx EXCEPT !.map = m].map = m
    BY DEF Adapter
  <1>4. \A b \in BOOLEAN : KeepsCode([acx EXCEPT !.awake = b])
    BY DEF Adapter
  <1>5. KeepsCode([acx EXCEPT !.linked = TRUE])
    BY DEF Adapter
  <1>6. \A n \in Nat : KeepsCode([acx EXCEPT !.queue = n, !.linked = TRUE])
    BY DEF Adapter
  <1>7. \A n, m \in Nat : KeepsCode([acx EXCEPT !.queue = n, !.map.QueueEnd = m])
    BY <1>1 DEF Adapter
  <1>8. ASSUME NEW n \in Nat, NEW t \in TemplateNames
        PROVE  KeepsCode([acx EXCEPT !.templates = @ \cup {t}, !.map.PacketTemplateEnd = n])
    <2> DEFINE ts == acx.templates \cup {t}
    <2>1. ts \in SUBSET TemplateNames
      BY DEF Adapter
    <2> HIDE DEF ts
    <2>2. KeepsCode([acx EXCEPT !.templates = ts, !.map.PacketTemplateEnd = n])
      BY <1>1, <2>1 DEF Adapter
    <2> QED BY <2>2 DEF ts
  <1> QED BY <1>2, <1>3, <1>4, <1>5, <1>6, <1>7, <1>8

LEMMA CommandSteps ==
  ASSUME CodeIInv, Patches' = Patches,
         \/ InterrogateMap \/ Sleep \/ Wake \/ SetWepCache \/ SetTemplatesAt \/ SetQueuesAt
         \/ SetPoolAt \/ InitTemplate \/ SetTim \/ ConfigureQueue \/ ConfigureMemory111
         \/ InterrogateQueues \/ SetBlockSize \/ ConfigurePools \/ ReadEeprom
  PROVE  CodeIInv'
  <1>1. acx \in Adapter /\ mm \in MemMap /\ acx.map \in MemMap
    BY DEF CodeIInv, BootTypes, Adapter
  <1>2. \A step : step \in {"sleep", "wepCache", "templatesAt", "queuesAt", "poolAt"} =>
          (At(step) /\ ~acx.disturbed => mm.CodeEnd = acx.map.CodeEnd)
    BY DEF CodeIInv, CodeIsKept, At, Prior
  <1>3. ASSUME NEW step \in {"wepCache", "templatesAt", "queuesAt", "poolAt"}, NEW m \in MemMap,
               m.CodeEnd = mm.CodeEnd, ConfigureMap(step, m)
        PROVE  CodeIInv'
    <2> DEFINE a == [acx EXCEPT !.map = m]
    <2>1. SameButMap(a) /\ a.map = m
      BY <1>1, AdapterTakes
    <2>2. At(step)
      BY <1>3 DEF ConfigureMap, IssueCmd
    <2>3. IssueCmd(step, a, m)
      BY <1>3 DEF ConfigureMap
    <2>4. ~acx.disturbed => a.map.CodeEnd = acx.map.CodeEnd
      BY <1>2, <1>3, <2>1, <2>2
    <2> HIDE DEF a
    <2> QED BY <1>2, <1>3, <2>1, <2>2, <2>3, <2>4, OtherCmd DEF SameButMap
  <1>4. CASE InterrogateMap
    BY <1>1, <1>4, OtherCmd DEF InterrogateMap
  <1>5. CASE Sleep \/ Wake
    <2>1. ASSUME NEW b \in BOOLEAN, NEW step \in {"sleep", "wake"},
                 IssueCmd(step, [acx EXCEPT !.awake = b], mm)
          PROVE  CodeIInv'
      <3> DEFINE a == [acx EXCEPT !.awake = b]
      <3>1. KeepsCode(a)
        BY <1>1, AdapterTakes
      <3>2. IssueCmd(step, a, mm) /\ At(step)
        BY <2>1 DEF IssueCmd
      <3> HIDE DEF a
      <3> QED BY <1>1, <1>2, <3>1, <3>2, OtherCmd DEF KeepsCode, SameButMap
    <2> QED BY <1>5, <2>1 DEF Sleep, Wake
  <1>6. CASE SetWepCache \/ SetTemplatesAt \/ SetQueuesAt \/ SetPoolAt
    BY <1>1, <1>3, <1>6, MapsAreMaps DEF SetWepCache, SetTemplatesAt, SetQueuesAt, SetPoolAt
  <1>7. CASE InitTemplate
    <2> DEFINE start == IF acx.templates = {} THEN acx.map.PacketTemplateStart
                        ELSE acx.map.PacketTemplateEnd
               n == start + TemplateSize
    <2>1. n \in Nat
      BY <1>1, BootAssumption DEF MemMap, Address
    <2>2. PICK t \in TemplateNames :
            IssueCmd(t, [acx EXCEPT !.templates = @ \cup {t}, !.map.PacketTemplateEnd = n], mm)
      BY <1>7 DEF InitTemplate
    <2> HIDE DEF n
    <2> DEFINE a == [acx EXCEPT !.templates = @ \cup {t}, !.map.PacketTemplateEnd = n]
    <2>3. KeepsCode(a) /\ IssueCmd(t, a, mm)
      BY <1>1, <2>1, <2>2, AdapterTakes
    <2> HIDE DEF a
    <2> QED BY <1>1, <2>3, OtherCmd DEF KeepsCode, SameButMap, TemplateNames
  <1>8. CASE ConfigureQueue
    <2> DEFINE n == QueueConfig(mm).TxQueueStart
    <2>1. PICK end \in {QueueConfig(mm).QueueEnd, QueueConfig(mm).HostQueueEnd} :
            IssueCmd("queueConfig", [acx EXCEPT !.queue = n, !.map.QueueEnd = end], mm)
      BY <1>8 DEF ConfigureQueue
    <2>2. n \in Nat /\ end \in Nat
      BY <1>1, MapsAreMaps
    <2> HIDE DEF n
    <2> DEFINE a == [acx EXCEPT !.queue = n, !.map.QueueEnd = end]
    <2>3. KeepsCode(a)
      BY <1>1, <2>2, AdapterTakes
    <2>4. IssueCmd("queueConfig", a, mm)
      BY <2>1
    <2> HIDE DEF a
    <2> QED BY <1>1, <2>3, <2>4, OtherCmd DEF KeepsCode, SameButMap
  <1>9. CASE ConfigureMemory111
    <2> DEFINE n == MemorySize \div 2
               a == [acx EXCEPT !.queue = n, !.linked = TRUE]
    <2>1. n \in Nat
      BY BootAssumption
    <2>2. IssueCmd("memoryConfig111", a, mm)
      BY <1>9 DEF ConfigureMemory111
    <2> HIDE DEF n
    <2>3. KeepsCode(a)
      BY <1>1, <2>1, AdapterTakes
    <2> HIDE DEF a
    <2> QED BY <1>1, <2>2, <2>3, OtherCmd DEF KeepsCode, SameButMap
  <1>10. CASE InterrogateQueues
    <2> DEFINE m == [mm EXCEPT !.QueueStart = acx.queue]
    <2>1. m \in MemMap
      BY <1>1 DEF Adapter, MemMap, Address
    <2>2. IssueCmd("queueAddress", acx, m)
      BY <1>10 DEF InterrogateQueues
    <2> HIDE DEF m
    <2> QED BY <1>1, <2>1, <2>2, OtherCmd DEF KeepsCode, SameButMap
  <1>11. CASE SetTim \/ SetBlockSize \/ ReadEeprom
    BY <1>1, <1>11, OtherCmd DEF SetTim, SetBlockSize, ReadEeprom
  <1>12. CASE ConfigurePools
    <2> DEFINE a == [acx EXCEPT !.pools = Pools(mm, memblocksize)]
    <2>1. KeepsCode(a)
      BY <1>1, AdapterTakes
    <2>2. IssueCmd("memoryConfig", a, mm)
      BY <1>12 DEF ConfigurePools
    <2> HIDE DEF a
    <2> QED BY <1>1, <2>1, <2>2, OtherCmd DEF KeepsCode, SameButMap
  <1> QED BY <1>4, <1>5, <1>6, <1>7, <1>8, <1>9, <1>10, <1>11, <1>12

LEMMA HostSteps ==
  ASSUME CodeIInv, Patches' = Patches,
         VerifyInit \/ InitMboxes \/ InitMemory \/ Allocate \/ CreateDescQueues
  PROVE  CodeIInv'
  <1>1. /\ acx \in Adapter /\ mm \in MemMap
        /\ todo # <<>> /\ Head(todo).fails = "ignored" => Head(todo).do \in Ignorable
    <2>1. todo \in Seq(StepType) /\ InOrder(todo)
      BY DEF CodeIInv, BootTypes
    <2>2. todo # <<>> => Head(todo) = todo[1] /\ 1 \in 1..Len(todo)
      BY <2>1
    <2> QED BY <2>1, <2>2 DEF CodeIInv, BootTypes, InOrder, InPlace
  <1>2. /\ todo # <<>> /\ UNCHANGED <<mm, try>>
        /\ Head(todo).do \in {"verifyInit", "initMboxes", "initMemory", "rings"} \cup Buffers
    BY DEF VerifyInit, InitMboxes, InitMemory, Allocate, CreateDescQueues, At
  <1>3. /\ Head(todo).do \notin {"resetMac", "upload", "startEcpu", "radio", "radioinit"}
        /\ Head(todo).do \notin {"map", "sleep", "wepCache"}
    BY <1>2 DEF Buffers
  <1>4. Done \/ todo' = <<>>
    BY DEF VerifyInit, InitMboxes, InitMemory, Allocate, CreateDescQueues, Fails
  <1>5. acx' = acx \/ acx' = [acx EXCEPT !.linked = TRUE]
    BY DEF VerifyInit, InitMboxes, InitMemory, Allocate, CreateDescQueues
  <1>6. KeepsCode(acx')
    BY <1>1, <1>5, AdapterTakes DEF KeepsCode, SameButMap
  <1> QED BY <1>1, <1>2, <1>3, <1>4, <1>6, OtherStep DEF KeepsCode, SameButMap

\* What the invariant says of the step that comes next.
LEMMA CodeFacts ==
  ASSUME CodeIInv
  PROVE  /\ acx \in Adapter /\ mm \in MemMap /\ try \in Nat
         /\ todo \in Seq(StepType) /\ InOrder(todo)
         /\ todo # <<>> /\ Head(todo).fails = "ignored" => Head(todo).do \in Ignorable
         /\ At("radio") \/ At("radioinit") => RadioPending(todo)
  <1>1. /\ acx \in Adapter /\ mm \in MemMap /\ try \in Nat
        /\ todo \in Seq(StepType) /\ InOrder(todo)
    BY DEF CodeIInv, BootTypes
  <1>2. todo # <<>> => Head(todo) = todo[1] /\ 1 \in 1..Len(todo)
    BY <1>1
  <1> QED BY <1>1, <1>2 DEF InOrder, InPlace, RadioPending, At, OfRadio

LEMMA ResetStep ==
  ASSUME CodeIInv, Patches' = Patches, ResetMac
  PROVE  CodeIInv'
  <1>1. /\ At("resetMac") /\ todo # <<>> /\ Head(todo).do = "resetMac" /\ try' = 1 /\ mm' = mm
        /\ acx' = acx \/ acx' = Halted(acx)
    BY DEF ResetMac, At
  <1>2. acx' \in Adapter /\ acx'.code \in Codes
    <2>1. Halted(acx) \in Adapter
      BY CodeFacts, NoMapIsMap DEF Halted, AcxOff, Adapter, Codes, Patched
    <2> QED BY <1>1, <2>1, CodeFacts DEF Adapter
  <1>3. acx'.radioOn => acx'.ecpu = "running"
    BY <1>1 DEF CodeIInv, EcpuFollows, Halted, AcxOff
  <1>4. CASE acx'.ecpu = "halted" /\ Done
    <2>1. /\ todo' \in Seq(StepType) /\ InOrder(todo')
          /\ todo' # <<>> /\ Prior(Head(todo').do) = "resetMac"
      BY <1>1, <1>4, CodeFacts, DoneMoves
    <2>2. Head(todo').do = "upload"
      BY <2>1 DEF Prior, None
    <2>3. BootTypes'
      BY <1>1, <1>2, <2>1, CodeFacts DEF BootTypes
    <2>4. EcpuFollows'
      BY <1>3, <1>4, <2>1, <2>2 DEF EcpuFollows, At
    <2>5. CodeIsKept'
      BY <1>3, <1>4, <2>1, <2>2 DEF CodeIsKept, At
    <2> QED BY <2>3, <2>4, <2>5 DEF CodeIInv
  <1>5. CASE acx'.ecpu # "halted" /\ Fails
    <2>1. todo' = <<>>
      BY <1>1, <1>5, CodeFacts DEF Fails, Ignorable
    <2>2. acx' = acx
      BY <1>1, <1>5 DEF Halted, AcxOff
    <2>3. BootTypes'
      BY <1>1, <1>2, <2>1, CodeFacts, NothingInOrder DEF BootTypes
    <2>4. EcpuFollows'
      BY <1>3, <2>1, NothingInOrder DEF EcpuFollows, At
    <2>5. CodeIsKept'
      BY <2>1, <2>2 DEF CodeIInv, CodeIsKept, PatchFits, At
    <2> QED BY <2>3, <2>4, <2>5 DEF CodeIInv
  <1> QED BY <1>4, <1>5 DEF ResetMac

LEMMA UploadStep ==
  ASSUME CodeIInv, Patches' = Patches, Upload
  PROVE  CodeIInv'
  <1>1. /\ At("upload") /\ todo # <<>> /\ Head(todo).do = "upload" /\ mm' = mm
        /\ acx.ecpu = "halted" /\ ~acx.radioOn
    BY DEF Upload, At, CodeIInv, EcpuFollows
  <1> DEFINE Left(code, patch) == IF Validated(fw_image, code) \/ try >= Attempts THEN patch
                                  ELSE None
  <1>2. PICK code \in Written(fw_image), patch \in Patches :
          /\ acx' = [acx EXCEPT !.code = code, !.patch = Left(code, patch)]
          /\ IF Validated(fw_image, code)
             THEN FW_LOADED' = TRUE /\ try' = 1 /\ Done /\ UNCHANGED <<bufs, live, acxdesc>>
             ELSE /\ UNCHANGED FW_LOADED
                  /\ IF try < Attempts
                     THEN /\ try' = try + 1
                          /\ UNCHANGED <<todo, result, op, image, bufs, live, acxdesc>>
                     ELSE try' = 1 /\ Fails
    BY DEF Upload
  <1>3. /\ code \in Codes /\ acx' \in Adapter /\ acx'.code = code
        /\ acx'.ecpu = "halted" /\ ~acx'.radioOn /\ try' \in Nat
        /\ Validated(fw_image, code) => PatchFits'
    <2> DEFINE p == Left(code, patch)
    <2>1. code \in Codes
      BY DEF Written, Codes
    <2>2. p \in Patched /\ (Validated(fw_image, code) => p \in Patches)
      BY DEF Patches, Patched
    <2>3. acx' = [acx EXCEPT !.code = code, !.patch = p] /\ try' \in Nat
      BY <1>2, CodeFacts
    <2> HIDE DEF p
    <2>4. acx' \in Adapter /\ acx'.code = code /\ acx'.ecpu = acx.ecpu
          /\ acx'.radioOn = acx.radioOn /\ acx'.patch = p
      BY <2>1, <2>2, <2>3, CodeFacts DEF Adapter
    <2> QED BY <1>1, <2>1, <2>2, <2>3, <2>4 DEF PatchFits
  <1> HIDE DEF Left
  <1>4. CASE Validated(fw_image, code) /\ Done
    <2>1. /\ todo' \in Seq(StepType) /\ InOrder(todo')
          /\ todo' # <<>> /\ Prior(Head(todo').do) = "upload"
      BY <1>1, <1>4, CodeFacts, DoneMoves
    <2>2. Head(todo').do = "startEcpu" /\ acx'.code = "good"
      BY <1>3, <1>4, <2>1 DEF Prior, None, Validated
    <2>3. BootTypes'
      BY <1>1, <1>3, <2>1, CodeFacts DEF BootTypes
    <2>4. EcpuFollows'
      BY <1>3, <1>4, <2>1, <2>2 DEF EcpuFollows, At
    <2>5. CodeIsKept'
      BY <1>3, <2>1, <2>2 DEF CodeIsKept, At
    <2> QED BY <2>3, <2>4, <2>5 DEF CodeIInv
  <1>5. CASE UNCHANGED todo
    <2>1. BootTypes'
      BY <1>1, <1>3, <1>5, CodeFacts DEF BootTypes
    <2>2. EcpuFollows'
      BY <1>1, <1>3, <1>5 DEF EcpuFollows, At
    <2>3. CodeIsKept'
      BY <1>1, <1>3, <1>5 DEF CodeIsKept, At, Prior
    <2> QED BY <2>1, <2>2, <2>3 DEF CodeIInv
  <1>6. CASE Fails
    <2>1. todo' = <<>>
      BY <1>1, <1>6, CodeFacts DEF Fails, Ignorable
    <2>2. BootTypes'
      BY <1>1, <1>3, <2>1, CodeFacts, NothingInOrder DEF BootTypes
    <2>3. EcpuFollows'
      BY <1>3, <2>1, NothingInOrder DEF EcpuFollows, At
    <2>4. CodeIsKept'
      BY <1>3, <2>1 DEF CodeIsKept, At
    <2> QED BY <2>2, <2>3, <2>4 DEF CodeIInv
  <1> QED BY <1>2, <1>4, <1>5, <1>6

\* Where the code ends, with its patch and without.
LEMMA CodeEndsAre ==
  ASSUME acx.patch \in Patches
  PROVE  /\ PatchedSize \in Nat /\ CodeSize \in Nat /\ CodeSize <= PatchedSize
         /\ CodeEnds \subseteq 0..PatchedSize
         /\ acx.patch # "garbled" =>
              CodeEnds = {IF acx.patch = None THEN CodeSize ELSE PatchedSize}
  BY BootAssumption DEF PatchedSize, CodeEnds, Patches, None

LEMMA StartStep ==
  ASSUME CodeIInv, Patches' = Patches, StartEcpu
  PROVE  CodeIInv'
  <1> DEFINE MapTo(end) == [NoMap EXCEPT !.CodeEnd = end, !.PoolEnd = MemorySize]
  <1>1. /\ At("startEcpu") /\ todo # <<>> /\ Head(todo).do = "startEcpu" /\ mm' = mm /\ try' = try
        /\ Done
        /\ \E end \in CodeEnds :
             acx' = [acx EXCEPT !.ecpu = "running", !.map = MapTo(end),
                                !.disturbed = @ \/ acx.patch = "garbled"]
    BY DEF StartEcpu, At, driver
  <1>0. PICK end \in CodeEnds :
          acx' = [acx EXCEPT !.ecpu = "running", !.map = MapTo(end),
                             !.disturbed = @ \/ acx.patch = "garbled"]
    BY <1>1
  <1> DEFINE m == MapTo(end)
             d == acx.disturbed \/ acx.patch = "garbled"
  <1>12. acx.patch \in Patches
    BY <1>1 DEF CodeIInv, EcpuFollows, PatchFits
  <1>13. end \in Nat /\ MemorySize \in Nat
    BY <1>12, CodeEndsAre, BootAssumption
  <1>2. m \in MemMap /\ m.CodeEnd = end /\ end \in Nat
    BY <1>13, NoMapIsMap DEF MemMap, Address
  <1>10. d \in BOOLEAN /\ acx' = [acx EXCEPT !.ecpu = "running", !.map = m, !.disturbed = d]
    BY <1>0, CodeFacts DEF Adapter
  <1> HIDE DEF m, d
  <1>3. /\ acx' \in Adapter /\ acx'.ecpu = "running" /\ acx'.map = m /\ acx'.code = acx.code
        /\ acx'.radioOn = acx.radioOn /\ acx'.radio = acx.radio
        /\ acx'.patch = acx.patch /\ acx'.disturbed = d
    BY <1>2, <1>10, CodeFacts DEF Adapter
  <1>4. acx.code = "good" /\ (RadioPending(todo) => ~acx.radioOn)
        /\ (~acx.disturbed => (acx.radioOn => acx.radio = "good"))
        /\ PatchFits /\ PatchFits'
    BY <1>1, <1>3 DEF CodeIInv, EcpuFollows, CodeIsKept, PatchFits, At
  <1>11. ~d => /\ ~acx.disturbed /\ acx.patch # "garbled"
               /\ end >= IF acx.patch = None THEN CodeSize ELSE PatchedSize
    BY <1>4, CodeEndsAre DEF d, PatchFits
  <1>5. /\ todo' \in Seq(StepType) /\ InOrder(todo')
        /\ todo' # <<>> /\ Prior(Head(todo').do) # None => Prior(Head(todo').do) = "startEcpu"
        /\ RadioPending(todo') => RadioPending(todo)
    BY <1>1, CodeFacts, DoneMoves
  <1>6. todo' # <<>> => Prior(Head(todo').do) = None
    BY <1>5 DEF Prior
  <1>7. BootTypes'
    BY <1>1, <1>3, <1>5, CodeFacts DEF BootTypes
  <1>8. EcpuFollows'
    BY <1>3, <1>4, <1>5, <1>6 DEF EcpuFollows, At, Prior, None
  <1>9. CodeIsKept'
    BY <1>2, <1>3, <1>4, <1>5, <1>6, <1>11 DEF CodeIsKept, At, Prior, None
  <1> QED BY <1>7, <1>8, <1>9 DEF CodeIInv

LEMMA RadioFwStep ==
  ASSUME CodeIInv, Patches' = Patches, UploadRadioFw
  PROVE  CodeIInv'
  <1>1. /\ At("radio") /\ todo # <<>> /\ Head(todo).do = "radio" /\ mm' = mm
        /\ acx.ecpu = "running" /\ ~acx.radioOn /\ RadioPending(todo)
        /\ ~acx.disturbed =>
             /\ mm.CodeEnd = acx.map.CodeEnd /\ acx.code = "good"
             /\ PatchFits /\ acx.patch # "garbled"
             /\ acx.map.CodeEnd >= IF acx.patch = None THEN CodeSize ELSE PatchedSize
    BY CodeFacts DEF UploadRadioFw, At, CodeIInv, EcpuFollows, CodeIsKept, Prior, driver
  <1>2. PICK code \in Written(radio_image) :
          /\ acx' = [acx EXCEPT !.radio = code,
                                !.code = IF mm.CodeEnd < CodeSize THEN "garbled" ELSE @,
                                !.patch = IF @ # None /\ mm.CodeEnd < PatchedSize
                                          THEN "garbled" ELSE @]
          /\ IF Validated(radio_image, code)
             THEN try' = 1 /\ Done
             ELSE IF try < Attempts
                  THEN try' = try + 1 /\ UNCHANGED <<todo, result, op, image>>
                  ELSE try' = 0 /\ Done
    BY DEF UploadRadioFw
  <1>3. code \in Codes
    BY DEF Written, Codes
  <1>4. /\ acx' \in Adapter /\ acx'.radio = code /\ acx'.ecpu = "running" /\ ~acx'.radioOn
        /\ acx'.map = acx.map /\ acx'.disturbed = acx.disturbed /\ try' \in Nat
        /\ ~acx.disturbed => acx'.code = "good" /\ acx'.patch = acx.patch
    <2>1. /\ acx'.code = (IF mm.CodeEnd < CodeSize THEN "garbled" ELSE acx.code)
          /\ acx'.patch = (IF acx.patch # None /\ mm.CodeEnd < PatchedSize THEN "garbled"
                           ELSE acx.patch)
          /\ acx' \in Adapter /\ acx'.radio = code /\ acx'.ecpu = acx.ecpu
          /\ acx'.radioOn = acx.radioOn
          /\ acx'.map = acx.map /\ acx'.disturbed = acx.disturbed
      <3> DEFINE c == IF mm.CodeEnd < CodeSize THEN "garbled" ELSE acx.code
                 p == IF acx.patch # None /\ mm.CodeEnd < PatchedSize THEN "garbled"
                      ELSE acx.patch
      <3>1. c \in Codes /\ p \in Patched
        BY CodeFacts DEF Adapter, Codes, Patched
      <3>2. acx' = [acx EXCEPT !.radio = code, !.code = c, !.patch = p]
        BY <1>2
      <3> HIDE DEF c, p
      <3>3. /\ acx'.code = c /\ acx'.patch = p
            /\ acx' \in Adapter /\ acx'.radio = code /\ acx'.ecpu = acx.ecpu
            /\ acx'.radioOn = acx.radioOn /\ acx'.map = acx.map /\ acx'.disturbed = acx.disturbed
        BY <1>3, <3>1, <3>2, CodeFacts DEF Adapter
      <3> QED BY <3>3 DEF c, p
    <2>2. ~acx.disturbed => /\ ~ (mm.CodeEnd < CodeSize)
                            /\ acx.patch # None => ~ (mm.CodeEnd < PatchedSize)
      <3>1. mm.CodeEnd \in Nat
        BY CodeFacts DEF MemMap, Address
      <3>2. CodeSize \in Nat /\ PatchedSize \in Nat /\ CodeSize <= PatchedSize
        BY BootAssumption DEF PatchedSize
      <3> QED BY <1>1, <3>1, <3>2
    <2>3. try' \in Nat
      BY <1>2, CodeFacts
    <2> QED BY <1>1, <2>1, <2>2, <2>3
  <1>5. CASE Done /\ (try' = 0 \/ code = "good")
    <2>1. /\ todo' \in Seq(StepType) /\ InOrder(todo')
          /\ todo' # <<>> /\ Prior(Head(todo').do) # None => Prior(Head(todo').do) = "radio"
      BY <1>1, <1>5, CodeFacts, DoneMoves
    <2>2. todo' # <<>> => /\ Head(todo').do \notin {"upload", "startEcpu", "radioinit"}
                          /\ Prior(Head(todo').do) \notin {"map", "sleep", "wepCache"}
      BY <2>1 DEF Prior, None
    <2>3. BootTypes'
      BY <1>1, <1>4, <2>1, CodeFacts DEF BootTypes
    <2>4. EcpuFollows'
      BY <1>4, <2>1, <2>2 DEF EcpuFollows, At
    <2>5. CodeIsKept'
      BY <1>1, <1>4, <1>5, <2>1, <2>2 DEF CodeIsKept, PatchFits, At
    <2> QED BY <2>3, <2>4, <2>5 DEF CodeIInv
  <1>6. CASE UNCHANGED todo
    <2>1. BootTypes'
      BY <1>1, <1>4, <1>6, CodeFacts DEF BootTypes
    <2>2. EcpuFollows'
      BY <1>1, <1>4, <1>6 DEF EcpuFollows, At
    <2>3. CodeIsKept'
      BY <1>1, <1>4, <1>6 DEF CodeIsKept, PatchFits, At
    <2> QED BY <2>1, <2>2, <2>3 DEF CodeIInv
  <1> QED BY <1>2, <1>5, <1>6 DEF Validated

LEMMA RadioInitStep ==
  ASSUME CodeIInv, Patches' = Patches, RadioInit
  PROVE  CodeIInv'
  <1> DEFINE End(a) == IF a.patch = None THEN CodeSize ELSE PatchedSize
  <1>1. /\ At("radioinit") /\ todo # <<>> /\ Head(todo).do = "radioinit"
        /\ acx.ecpu = "running" /\ ~acx.radioOn
        /\ ~acx.disturbed =>
             /\ acx.code = "good" /\ PatchFits /\ acx.patch # "garbled"
             /\ acx.map.CodeEnd >= End(acx)
             /\ try = 0 \/ acx.radio = "good"
    <2>1. At("radioinit")
      BY DEF RadioInit, IssueCmd
    <2> QED BY <2>1, CodeFacts DEF At, CodeIInv, EcpuFollows, CodeIsKept
  <1>2. /\ CodeSize \in Nat /\ PatchedSize \in Nat /\ RadioSize \in Nat
        /\ acx.map \in MemMap /\ acx.map.CodeEnd \in Nat
    <2>1. CodeSize \in Nat /\ PatchedSize \in Nat /\ RadioSize \in Nat
      BY BootAssumption DEF PatchedSize
    <2> QED BY <2>1, CodeFacts DEF Adapter, MemMap, Address
  <1>3. ASSUME Done \/ todo' = <<>>, acx' \in Adapter, mm' \in MemMap, try' \in Nat,
               acx'.ecpu = "running",
               ~acx'.disturbed => /\ acx'.code = "good" /\ acx'.map.CodeEnd >= End(acx')
                                  /\ acx'.patch = acx.patch /\ ~acx.disturbed
                                  /\ acx'.radioOn => acx'.radio = "good"
        PROVE  CodeIInv'
    <2>1. /\ todo' \in Seq(StepType) /\ InOrder(todo') /\ ~RadioPending(todo')
          /\ todo' # <<>> /\ Prior(Head(todo').do) # None => Prior(Head(todo').do) = "radioinit"
      BY <1>1, <1>3, CodeFacts, DoneMoves, NothingInOrder
    <2>2. todo' # <<>> => Prior(Head(todo').do) = None
      BY <2>1 DEF Prior
    <2>3. BootTypes'
      BY <1>3, <2>1 DEF BootTypes
    <2>4. EcpuFollows'
      BY <1>3, <2>1, <2>2 DEF EcpuFollows, At, Prior, None
    <2>5. CodeIsKept'
      BY <1>1, <1>3, <2>1, <2>2 DEF CodeIsKept, PatchFits, At, Prior, None
    <2> QED BY <2>3, <2>4, <2>5 DEF CodeIInv
  <1>4. CASE try = 0
    BY <1>1, <1>3, <1>4, CodeFacts DEF RadioInit, driver
  <1>5. CASE try # 0
    <2> DEFINE a == [acx EXCEPT !.radioOn = TRUE, !.map.CodeEnd = @ + RadioSize]
    <2>1. IssueCmd("radioinit", a, mm) /\ try' = try
      BY <1>5 DEF RadioInit, IssueCmd
    <2>2. /\ a \in Adapter /\ a.ecpu = "running" /\ a.code = acx.code /\ a.radio = acx.radio
          /\ a.disturbed = acx.disturbed /\ a.map.CodeEnd = acx.map.CodeEnd + RadioSize
          /\ a.patch = acx.patch
      <3>1. acx.map.CodeEnd + RadioSize \in Nat
        BY <1>2
      <3>2. [acx.map EXCEPT !.CodeEnd = acx.map.CodeEnd + RadioSize] \in MemMap
        BY <1>2, <3>1 DEF MemMap, Address
      <3> QED BY <1>1, <1>2, <3>1, <3>2, CodeFacts DEF Adapter, MemMap
    <2> HIDE DEF a
    <2>3. CASE acx' = a /\ mm' = mm /\ Done
      BY <1>1, <1>2, <1>3, <1>5, <2>1, <2>2, <2>3, CodeFacts
    <2>4. CASE Fails /\ acx' = [acx EXCEPT !.disturbed = TRUE] /\ mm' \in Unanswered("radioinit")
      <3>1. acx' \in Adapter /\ acx'.disturbed /\ acx'.ecpu = "running" /\ mm' \in MemMap
        BY <1>1, <2>4, CodeFacts, UnansweredAreMaps DEF Adapter
      <3> QED BY <1>3, <2>1, <2>4, <3>1, CodeFacts DEF Fails
    <2>5. CASE Fails /\ UNCHANGED <<acx, mm>>
      BY <1>1, <1>3, <2>1, <2>5, CodeFacts DEF Fails
    <2> QED BY <2>1, <2>3, <2>4, <2>5 DEF IssueCmd
  <1> QED BY <1>4, <1>5

LEMMA BootSteps ==
  ASSUME CodeIInv, Patches' = Patches,
         \/ Probe \/ ProbeEnd \/ OpStart \/ OpStartEnd \/ OpStop \/ UNCHANGED vars
  PROVE  CodeIInv'
  <1>1. /\ UNCHANGED <<acx, mm, try>>
        /\ \/ UNCHANGED todo \/ todo' = <<>> \/ todo' = FullReset \/ todo' = ResetOnProbe
    BY DEF Probe, ProbeEnd, OpStart, OpStartEnd, OpStop, vars, driver, Boot
  <1>2. CASE UNCHANGED todo
    BY <1>1, <1>2 DEF CodeIInv, BootTypes, EcpuFollows, CodeIsKept, PatchFits, At
  <1>3. CASE todo' = <<>> \/ (todo' \in Seq(StepType) /\ InOrder(todo')
                             /\ todo' # <<>> /\ Head(todo').do = "resetMac")
    <2>1. BootTypes'
      BY <1>1, <1>3, CodeFacts, NothingInOrder DEF BootTypes
    <2>2. EcpuFollows'
      BY <1>1, <1>3, NothingInOrder DEF CodeIInv, EcpuFollows, At
    <2>3. CodeIsKept'
      BY <1>1, <1>3 DEF CodeIInv, CodeIsKept, PatchFits, At, Prior, None
    <2> QED BY <2>1, <2>2, <2>3 DEF CodeIInv
  <1> QED BY <1>1, <1>2, <1>3, BootsInOrder

\* The card and what was loaded for it do not change.
LEMMA ImageStays == [NextEither]_all => UNCHANGED <<card, fw_image>>
  BY DEF NextEither, all, vars, Next, image, driver, Done, Fails, ResetMac, Upload,
     StartEcpu, VerifyInit, InitMboxes, UploadRadioFw, IssueCmd, ConfigureMap, InterrogateMap,
     Sleep, Wake, RadioInit, SetWepCache, SetTemplatesAt, SetQueuesAt, SetPoolAt,
     InitTemplate, SetTim, ConfigureQueue, ConfigureMemory111, InterrogateQueues, SetBlockSize,
     ConfigurePools, InitMemory, ReadEeprom, Allocate, CreateDescQueues,
     Probe, ProbeEnd, OpStart, OpStartEnd, OpStop

LEMMA CodeInvariance == SpecEither => []CodeIInv
  <1>1. InitEither => CodeIInv
    <2> SUFFICES ASSUME InitEither PROVE CodeIInv
      OBVIOUS
    <2>1. acx = AcxOff /\ mm = NoMap /\ todo = <<>> /\ try = 1
      BY DEF InitEither, Init
    <2>2. AcxOff \in Adapter
      BY NoMapIsMap DEF AcxOff, Adapter, Codes, Patched
    <2> QED BY <2>1, <2>2, NoMapIsMap, NothingInOrder
            DEF CodeIInv, BootTypes, EcpuFollows, CodeIsKept, AcxOff, At
  <1>2. CodeIInv /\ [NextEither]_all => CodeIInv'
    <2> SUFFICES ASSUME CodeIInv, [NextEither]_all PROVE CodeIInv'
      OBVIOUS
    <2>3. Patches' = Patches
      BY ImageStays DEF Patches
    <2>1. CASE Next
      BY <2>1, <2>3, ResetStep, UploadStep, StartStep, RadioFwStep, RadioInitStep, CommandSteps,
         HostSteps, BootSteps DEF Next
    <2>2. CASE UNCHANGED vars
      BY <2>2, <2>3, BootSteps
    <2> QED BY <2>1, <2>2 DEF NextEither, all
  <1> QED BY <1>1, <1>2, PTL DEF SpecEither

\* For memory of every size, images and faults: outside of the words of the patch the
\* eCPU never runs code that was not compared with its image, nor the radio; it runs
\* the firmware of the HX4700 with the patch, and all other firmware without one.
THEOREM CodeComparedSaveThePatch == SpecEither => []CodeIsCompared
  <1>1. CodeIInv => CodeIsCompared
    BY DEF CodeIInv, CodeIsKept, CodeIsCompared, PatchFits, Patches
  <1> QED BY <1>1, CodeInvariance, PTL
-------------------------------------------------------------------------------
(* Buffers of the host. *)

LEMMA BuffersFinite == IsFiniteSet(Buffers)
  <1>1. /\ IsFiniteSet({"rxhost", "rxbuf"}) /\ IsFiniteSet({"txbuf0", "txhost0"})
        /\ IsFiniteSet({"txbuf0", "txhost0", "txbuf1", "txhost1"})
    <2>1. ASSUME NEW a, NEW b
          PROVE  IsFiniteSet({a, b})
      <3>1. IsFiniteSet({} \cup {a}) /\ {} \cup {a} = {a} /\ {a} \cup {b} = {a, b}
        BY FS_EmptySet, FS_AddElement
      <3> QED BY <3>1, FS_AddElement
    <2>2. {"txbuf0", "txhost0", "txbuf1", "txhost1"} =
            {"txbuf0", "txhost0"} \cup {"txbuf1", "txhost1"}
      OBVIOUS
    <2>3. IsFiniteSet({"txbuf0", "txhost0"} \cup {"txbuf1", "txhost1"})
      BY <2>1, FS_Union
    <2> QED BY <2>1, <2>2, <2>3
  <1> QED BY <1>1, FS_Union DEF Buffers

\* What an adapter needs does not change.
LEMMA BuffersStay == [NextEither]_all => Buffers' = Buffers
  BY ImageStays DEF Buffers, Acx100

\* Only an allocation and the error path touch them.
LEMMA BufsChange ==
  ASSUME [NextEither]_all
  PROVE  \/ UNCHANGED <<bufs, live>>
         \/ bufs' = {} /\ live' = live - Cardinality(bufs)
         \/ \E b \in Buffers :
              bufs' = bufs \cup {b} /\ live' = live + (IF b \notin bufs THEN 1 ELSE 0)
  <1>1. CASE Fails
    BY <1>1 DEF Fails, FreeDescQueues
  <1>2. CASE Allocate
    BY <1>1, <1>2 DEF Allocate, Missing
  <1> QED
    BY <1>1, <1>2 DEF NextEither, all, vars, Next, driver, ResetMac, Upload, StartEcpu,
       VerifyInit, InitMboxes, UploadRadioFw, IssueCmd, ConfigureMap, InterrogateMap, Sleep,
       Wake, RadioInit, SetWepCache, SetTemplatesAt, SetQueuesAt, SetPoolAt,
       InitTemplate, SetTim, ConfigureQueue, ConfigureMemory111, InterrogateQueues, SetBlockSize,
       ConfigurePools, InitMemory, ReadEeprom, CreateDescQueues,
       Probe, ProbeEnd, OpStart, OpStartEnd, OpStop

LEMMA BufsInvariance == SpecEither => []BufsIInv
  <1>1. InitEither => BufsIInv
    BY FS_EmptySet DEF InitEither, Init, BufsIInv, AllocationsAreHeld
  <1>2. BufsIInv /\ [NextEither]_all => BufsIInv'
    <2> SUFFICES ASSUME BufsIInv, [NextEither]_all PROVE BufsIInv'
      OBVIOUS
    <2>1. /\ bufs \subseteq Buffers /\ live = Cardinality(bufs) /\ Buffers' = Buffers
          /\ IsFiniteSet(bufs) /\ Cardinality(bufs) \in Nat
      BY BuffersFinite, BuffersStay, FS_Subset, FS_CardinalityType DEF BufsIInv, AllocationsAreHeld
    <2>2. CASE UNCHANGED <<bufs, live>>
      BY <2>1, <2>2 DEF BufsIInv, AllocationsAreHeld
    <2>3. CASE bufs' = {} /\ live' = live - Cardinality(bufs)
      BY <2>1, <2>3, FS_EmptySet DEF BufsIInv, AllocationsAreHeld
    <2>4. ASSUME NEW b \in Buffers, bufs' = bufs \cup {b},
                 live' = live + (IF b \notin bufs THEN 1 ELSE 0)
          PROVE  BufsIInv'
      BY <2>1, <2>4, FS_AddElement DEF BufsIInv, AllocationsAreHeld
    <2> QED BY <2>2, <2>3, <2>4, BufsChange
  <1> QED BY <1>1, <1>2, PTL DEF SpecEither

\* The buffers that boots allocate and free, whichever of them fail, are as many as
\* the driver has pointers to.
THEOREM AllocationsAlwaysHeld == SpecEither => []AllocationsAreHeld
  <1>1. BufsIInv => AllocationsAreHeld
    BY DEF BufsIInv
  <1> QED BY <1>1, BufsInvariance, PTL
-------------------------------------------------------------------------------
(* The inductive invariant of BootedIsReady and MemoryIsDivided: the place that the
   boot has come to, and what is true from each place on. *)

\* Of the steps, for every kind of adapter.
Place ==
  [resetMac |-> 1, upload |-> 2, startEcpu |-> 3, verifyInit |-> 4, initMboxes |-> 5,
   sleep |-> 6, radio |-> 7, wake |-> 8, radioinit |-> 9, wepCache |-> 10, templatesAt |-> 11,
   probeRequest |-> 12, nullData |-> 13, beacon |-> 14, tim |-> 15, probeResponse |-> 16,
   setTim |-> 17, queuesAt |-> 18, queueConfig |-> 19, txbuf0 |-> 20, txhost0 |-> 21,
   txbuf1 |-> 22, txhost1 |-> 23, rxhost |-> 24, rxbuf |-> 25, memoryConfig111 |-> 26,
   queueAddress |-> 27, rings |-> 28, poolAt |-> 29, blockSize |-> 30, memoryConfig |-> 31,
   initMemory |-> 32, eeprom |-> 33]
Last == 33

Past(r, do) == Place[do] <= r

\* A boot of this adapter does all of these.
Needed ==
  {"resetMac", "upload", "startEcpu", "verifyInit", "initMboxes", "rings"}
  \cup TemplateNames \cup Buffers
  \cup (IF radio_image = None THEN {} ELSE {"sleep", "radio", "wake", "radioinit"})
  \cup (IF Acx100
        THEN {"wepCache", "templatesAt", "setTim", "queuesAt", "queueConfig", "poolAt",
              "blockSize", "memoryConfig", "initMemory"}
        ELSE {"memoryConfig111", "queueAddress"})

\* Only before "sleep" is it passed over that the map is not known.
AfterMap(fails) ==
  IF fails = "ignored" THEN {"sleep"} ELSE {"wepCache", "queuesAt", "queueConfig", "poolAt"}

MapBefore(s, j) == s[j].do = "map" /\ j < Len(s) /\ s[j + 1].do \in AfterMap(s[j].fails)

\* The steps from one place to another: in order, and none that is needed left out.
Part(s, r, upto) ==
  /\ s \in Seq(StepType)
  /\ \A j \in 1..Len(s) :
       MapBefore(s, j) \/ (/\ s[j].do \in Needed \cup {"eeprom"}
                           /\ ~Past(r, s[j].do) /\ Past(upto, s[j].do))
  /\ \A j, k \in 1..Len(s) :
       j < k /\ s[j].do # "map" /\ s[k].do # "map" => Place[s[j].do] < Place[s[k].do]
  /\ \A do \in Needed :
       ~Past(r, do) /\ Past(upto, do) => \E j \in 1..Len(s) : s[j].do = do

HostIsReady(r) ==
  /\ Past(r, "upload") => FW_LOADED
  /\ Past(r, "initMboxes") => cmd_area
  /\ \A b \in Buffers : Past(r, b) => b \in bufs

AdapterIsReady(r) ==
  /\ Past(r, "startEcpu") => acx.ecpu = "running"
  /\ Past(r, "resetMac") =>
       acx.awake \/ (radio_image # None /\ Past(r, "sleep") /\ ~Past(r, "wake"))
  /\ Past(r, "resetMac") => acx.templates = {t \in TemplateNames : Past(r, t)}
  /\ Past(r, IF Acx100 THEN "initMemory" ELSE "memoryConfig111") => acx.linked

QueuesAreKnown(r) ==
  /\ Acx100 /\ Past(r, "queueConfig") => acx.queue = acx.map.QueueStart
  /\ ~Acx100 /\ Past(r, "memoryConfig111") => acx.queue = MemorySize \div 2
  /\ Past(r, IF Acx100 THEN "queueConfig" ELSE "queueAddress") /\ ~Past(r, "rings") =>
       mm.QueueStart = acx.queue
  /\ Past(r, "rings") => acxdesc = acx.queue

MapIsLaidOut(r, m) ==
  /\ Past(r, "startEcpu") => m.PoolEnd = MemorySize
  /\ Past(r, "wepCache") => m.CodeEnd < m.WEPCacheStart /\ m.WEPCacheStart <= m.WEPCacheEnd
  /\ Past(r, "templatesAt") => m.WEPCacheEnd <= m.PacketTemplateStart
  /\ Past(r, "probeRequest") => m.PacketTemplateStart <= m.PacketTemplateEnd
  /\ Past(r, "queuesAt") => m.PacketTemplateEnd < m.QueueStart
  /\ Past(r, "queueConfig") => m.QueueStart <= m.QueueEnd
  /\ Past(r, "poolAt") => m = PoolAt(m)

PoolsAreKnown(r) ==
  /\ Past(r, "poolAt") /\ ~Past(r, "initMemory") => mm = acx.map
  /\ Past(r, "memoryConfig") => acx.pools = Pools(acx.map, memblocksize)
  /\ Past(r, "initMemory") =>
       acx_txbuf = [start |-> acx.pools.tx_mem, numblocks |-> acx.pools.TxBlockNum]

\* The map the driver computes from is the adapter's.
MapIsFresh ==
  todo # <<>> /\ Prior(Head(todo).do) \in {"map", "wepCache"} /\ Head(todo).do # "sleep" =>
    mm = acx.map

\* The code grows once, the area of the templates five times.
CodeRoom == PatchedSize + RadioSize
TemplateRoom == 5 * TemplateSize
GrowthIsBounded(r) ==
  /\ Past(r, "resetMac") /\ ~Past(r, "radioinit") => acx.map.CodeEnd <= PatchedSize
  /\ \A n \in 0..5 : Past(r, "resetMac") /\ r < n + Place["probeRequest"] =>
       acx.map.PacketTemplateEnd <= CodeRoom + 4 + n * TemplateSize

Progress(r) ==
  /\ Part(todo, r, Last)
  /\ GrowthIsBounded(r)
  /\ card = "vlynq" /\ ~Past(r, "resetMac") => acx = AcxOff
  /\ HostIsReady(r)
  /\ ~acx.disturbed => /\ AdapterIsReady(r) /\ QueuesAreKnown(r)
                       /\ Acx100 => MapIsLaidOut(r, acx.map) /\ PoolsAreKnown(r)

\* Wherever a boot has failed.
MapFits(m) ==
  /\ m.CodeEnd <= CodeRoom
  /\ m.WEPCacheStart <= CodeRoom + 4 /\ m.WEPCacheEnd <= CodeRoom + 4
  /\ m.PacketTemplateStart <= CodeRoom + 4
  /\ m.PacketTemplateEnd <= CodeRoom + 4 + TemplateRoom
  /\ m.QueueStart <= CodeRoom + 8 + TemplateRoom
  /\ m.QueueEnd <= CodeRoom + 16 + TemplateRoom + TxBytes + RxBytes
  /\ m.PoolStart <= MemorySize /\ m.PoolEnd <= MemorySize

AdapterFits == MapFits(acx.map) /\ acx.queue <= MemorySize

DriverFits ==
  /\ \A f \in DOMAIN NoMap :
       mm[f] \in 0..MemorySize \/ (f = "CodeEnd" /\ mm[f] = OtherAddress)
  /\ acxdesc \in 0..MemorySize

\* A boot that is under way, or has ended well.
Standing == todo # <<>> \/ result = "OK"

ReadyIInv ==
  /\ op = "none" => acx = AcxOff
  /\ op \notin {"probe", "start"} => todo = <<>>
  /\ AdapterFits /\ DriverFits /\ MapIsFresh
  /\ Standing => \E r \in 0..Last : Progress(r)

-------------------------------------------------------------------------------
(* The places of the steps. *)

LEMMA PlacesAre ==
  /\ Place["resetMac"] = 1 /\ Place["upload"] = 2 /\ Place["startEcpu"] = 3
  /\ Place["verifyInit"] = 4 /\ Place["initMboxes"] = 5 /\ Place["sleep"] = 6
  /\ Place["radio"] = 7 /\ Place["wake"] = 8 /\ Place["radioinit"] = 9
  /\ Place["wepCache"] = 10 /\ Place["templatesAt"] = 11 /\ Place["probeRequest"] = 12
  /\ Place["nullData"] = 13 /\ Place["beacon"] = 14 /\ Place["tim"] = 15
  /\ Place["probeResponse"] = 16 /\ Place["setTim"] = 17 /\ Place["queuesAt"] = 18
  /\ Place["queueConfig"] = 19 /\ Place["txbuf0"] = 20 /\ Place["txhost0"] = 21
  /\ Place["txbuf1"] = 22 /\ Place["txhost1"] = 23 /\ Place["rxhost"] = 24
  /\ Place["rxbuf"] = 25 /\ Place["memoryConfig111"] = 26 /\ Place["queueAddress"] = 27
  /\ Place["rings"] = 28 /\ Place["poolAt"] = 29 /\ Place["blockSize"] = 30
  /\ Place["memoryConfig"] = 31 /\ Place["initMemory"] = 32 /\ Place["eeprom"] = 33
  BY DEF Place

\* Steps that have a place.
Placed == StepNames \ {"map"}

LEMMA PlacedIn == \A do \in Placed : Place[do] \in 1..Last
  BY PlacesAre DEF Placed, StepNames, Last

LEMMA NeededArePlaced == Needed \cup {"eeprom"} \subseteq Placed
  <1>1. TemplateNames \subseteq Placed /\ Buffers \subseteq Placed
    BY DEF TemplateNames, Buffers, Placed, StepNames
  <1> QED BY <1>1 DEF Needed, Placed, StepNames

LEMMA PartsJoin ==
  ASSUME NEW s, NEW t, NEW a \in 0..Last, NEW b \in 0..Last, NEW c \in 0..Last,
         a <= b, b <= c, Part(s, a, b), Part(t, b, c)
  PROVE  Part(s \o t, a, c)
  <1> DEFINE u == s \o t
  <1>1. s \in Seq(StepType) /\ t \in Seq(StepType) /\ Len(s) \in Nat /\ Len(t) \in Nat
    BY LenProperties DEF Part
  <1>2. /\ u \in Seq(StepType) /\ Len(u) = Len(s) + Len(t)
        /\ \A j \in 1..Len(u) : u[j] = IF j <= Len(s) THEN s[j] ELSE t[j - Len(s)]
    BY <1>1, ConcatProperties
  <1> HIDE DEF u
  <1>3. \A j \in 1..Len(u) : \/ j \in 1..Len(s) /\ u[j] = s[j]
                             \/ ~ (j <= Len(s)) /\ j - Len(s) \in 1..Len(t) /\ u[j] = t[j - Len(s)]
    BY <1>1, <1>2
  <1>4. /\ \A j \in 1..Len(s) : j \in 1..Len(u) /\ u[j] = s[j]
        /\ \A j \in 1..Len(t) : j + Len(s) \in 1..Len(u) /\ u[j + Len(s)] = t[j]
    <2>1. ASSUME NEW j \in 1..Len(t)
          PROVE  j + Len(s) \in 1..Len(u) /\ ~ (j + Len(s) <= Len(s)) /\ (j + Len(s)) - Len(s) = j
      BY <1>1, <1>2
    <2>2. \A j \in 1..Len(s) : j \in 1..Len(u) /\ u[j] = s[j]
      BY <1>1, <1>2
    <2> QED BY <1>2, <2>1, <2>2
  <1>5. \A do \in Placed : /\ Place[do] \in Nat
                           /\ Past(a, do) => Past(b, do)
                           /\ Past(b, do) => Past(c, do)
                           /\ ~Past(b, do) => ~Past(a, do)
    BY PlacedIn DEF Past, Last
  <1>6. ASSUME NEW j \in 1..Len(u)
        PROVE  MapBefore(u, j) \/ (/\ u[j].do \in Needed \cup {"eeprom"}
                                   /\ ~Past(a, u[j].do) /\ Past(c, u[j].do))
    <2>1. CASE j \in 1..Len(s) /\ u[j] = s[j]
      <3>1. j < Len(s) => j < Len(u) /\ u[j + 1] = s[j + 1]
        BY <1>1, <1>2, <2>1
      <3>2. MapBefore(s, j) => MapBefore(u, j)
        BY <2>1, <3>1 DEF MapBefore
      <3> QED BY <1>5, <2>1, <3>2, NeededArePlaced DEF Part
    <2>2. CASE ~ (j <= Len(s)) /\ j - Len(s) \in 1..Len(t) /\ u[j] = t[j - Len(s)]
      <3> DEFINE l == j - Len(s)
      <3>1. l < Len(t) => j < Len(u) /\ u[j + 1] = t[l + 1]
        <4>1. l < Len(t) => /\ j + 1 \in 1..Len(u) /\ ~ (j + 1 <= Len(s))
                            /\ (j + 1) - Len(s) = l + 1 /\ j < Len(u)
          BY <1>1, <1>2, <2>2
        <4> QED BY <1>2, <4>1
      <3> HIDE DEF l
      <3>2. l \in 1..Len(t) /\ u[j] = t[l]
        BY <2>2 DEF l
      <3>3. MapBefore(t, l) => MapBefore(u, j)
        BY <3>1, <3>2 DEF MapBefore
      <3> QED BY <1>5, <3>2, <3>3, NeededArePlaced DEF Part
    <2> QED BY <1>3, <2>1, <2>2
  <1>7. ASSUME NEW j \in 1..Len(u), NEW k \in 1..Len(u), j < k,
               u[j].do # "map", u[k].do # "map"
        PROVE  Place[u[j].do] < Place[u[k].do]
    <2>1. CASE k \in 1..Len(s) /\ u[k] = s[k]
      <3>1. j \in 1..Len(s) /\ u[j] = s[j]
        BY <1>1, <1>2, <1>7, <2>1
      <3> QED BY <1>7, <2>1, <3>1 DEF Part
    <2>2. CASE ~ (k <= Len(s)) /\ k - Len(s) \in 1..Len(t) /\ u[k] = t[k - Len(s)]
      <3>1. CASE j \in 1..Len(s) /\ u[j] = s[j]
        <4>1. s[j].do \in Placed /\ Past(b, s[j].do)
          BY <1>7, <3>1, NeededArePlaced DEF Part, MapBefore
        <4>2. u[k].do \in Placed /\ ~Past(b, u[k].do)
          BY <1>7, <2>2, NeededArePlaced DEF Part, MapBefore
        <4>3. Place[s[j].do] \in Nat /\ Place[u[k].do] \in Nat /\ b \in Nat
          <5>1. Last \in Nat
            BY DEF Last
          <5> QED BY <4>1, <4>2, <5>1, PlacedIn
        <4>4. Place[s[j].do] <= b /\ ~ (Place[u[k].do] <= b)
          BY <4>1, <4>2 DEF Past
        <4> QED BY <3>1, <4>3, <4>4
      <3>2. CASE ~ (j <= Len(s)) /\ j - Len(s) \in 1..Len(t) /\ u[j] = t[j - Len(s)]
        <4> DEFINE f == j - Len(s)
                   g == k - Len(s)
        <4>1. f < g
          BY <1>1, <1>7
        <4>2. /\ f \in 1..Len(t) /\ g \in 1..Len(t) /\ u[j] = t[f] /\ u[k] = t[g]
              /\ t[f].do # "map" /\ t[g].do # "map"
          BY <1>7, <2>2, <3>2
        <4> HIDE DEF f, g
        <4>3. Place[t[f].do] < Place[t[g].do]
          BY <4>1, <4>2 DEF Part
        <4> QED BY <4>2, <4>3
      <3> QED BY <1>3, <3>1, <3>2
    <2> QED BY <1>3, <2>1, <2>2
  <1>8. ASSUME NEW do \in Needed, ~Past(a, do), Past(c, do)
        PROVE  \E j \in 1..Len(u) : u[j].do = do
    <2>1. CASE Past(b, do)
      <3>1. PICK j \in 1..Len(s) : s[j].do = do
        BY <1>8, <2>1 DEF Part
      <3> QED BY <1>4, <3>1
    <2>2. CASE ~Past(b, do)
      <3>1. PICK j \in 1..Len(t) : t[j].do = do
        BY <1>8, <2>2 DEF Part
      <3>2. j + Len(s) \in 1..Len(u) /\ u[j + Len(s)].do = do
        BY <1>4, <3>1
      <3> QED BY <3>2
    <2> QED BY <2>1, <2>2
  <1> QED BY <1>2, <1>6, <1>7, <1>8 DEF Part, u

\* A list of names from one place to another.
Names(names, fails, r, upto) ==
  /\ names \in Seq(StepNames) /\ fails \in {"end", "free", "ignored"}
  /\ \A j \in 1..Len(names) :
       \/ names[j] = "map" /\ j < Len(names) /\ names[j + 1] \in AfterMap(fails)
       \/ /\ names[j] \in Needed \cup {"eeprom"}
          /\ ~Past(r, names[j]) /\ Past(upto, names[j])
  /\ \A j, k \in 1..Len(names) :
       j < k /\ names[j] # "map" /\ names[k] # "map" => Place[names[j]] < Place[names[k]]
  /\ \A do \in Needed :
       ~Past(r, do) /\ Past(upto, do) => \E j \in 1..Len(names) : names[j] = do

LEMMA NamesArePart ==
  ASSUME NEW names, NEW fails, NEW r, NEW upto, Names(names, fails, r, upto)
  PROVE  Part(Steps(names, fails), r, upto)
  <1> DEFINE s == Steps(names, fails)
  <1>1. /\ s \in Seq(StepType) /\ Len(s) = Len(names) /\ Len(s) \in Nat
        /\ \A j \in 1..Len(s) : s[j].do = names[j] /\ s[j].fails = fails
    BY StepsAre, LenProperties DEF Names
  <1> HIDE DEF s
  <1>2. ASSUME NEW j \in 1..Len(s)
        PROVE  MapBefore(s, j) \/ (/\ s[j].do \in Needed \cup {"eeprom"}
                                   /\ ~Past(r, s[j].do) /\ Past(upto, s[j].do))
    <2>1. j < Len(s) => j + 1 \in 1..Len(s)
      BY <1>1
    <2> QED BY <1>1, <2>1 DEF Names, MapBefore
  <1> QED BY <1>1, <1>2 DEF Names, Part, s

LEMMA NothingIsPart ==
  ASSUME NEW r, NEW upto, \A do \in Needed : Past(upto, do) => Past(r, do)
  PROVE  Part(<<>>, r, upto)
  BY DEF Part

LEMMA ResetDevPart == Part(ResetDev, 0, 5)
  <1> DEFINE names == <<"resetMac", "upload", "startEcpu", "verifyInit", "initMboxes">>
  <1>1. names \in Seq(StepNames) /\ Len(names) = 5
    BY DEF StepNames
  <1>2. /\ names[1] = "resetMac" /\ names[2] = "upload" /\ names[3] = "startEcpu"
        /\ names[4] = "verifyInit" /\ names[5] = "initMboxes"
    OBVIOUS
  <1>3. ResetDev = Steps(names, "end")
    BY DEF ResetDev
  <1> HIDE DEF names
  <1>4. \A j \in 1..5 : j = 1 \/ j = 2 \/ j = 3 \/ j = 4 \/ j = 5
    OBVIOUS
  <1>5. \A do \in Needed : Past(5, do) => \E j \in 1..5 : names[j] = do
    <2>1. \A do \in Needed : Past(5, do) =>
            do \in {"resetMac", "upload", "startEcpu", "verifyInit", "initMboxes"}
      BY PlacesAre DEF Needed, TemplateNames, Buffers, Past
    <2> QED BY <1>2, <2>1
  <1>6. \A j \in 1..5 : Place[names[j]] = j /\ names[j] \in Needed
    BY <1>2, <1>4, PlacesAre DEF Needed
  <1>7. Names(names, "end", 0, 5)
    BY <1>1, <1>5, <1>6 DEF Names, Past
  <1> QED BY <1>3, <1>7, NamesArePart

LEMMA UploadRadioPart == Part(UploadRadio, 5, 9)
  <1> DEFINE names == <<"map", "sleep", "radio", "wake", "radioinit">>
  <1>1. names \in Seq(StepNames) /\ Len(names) = 5
    BY DEF StepNames
  <1>2. /\ names[1] = "map" /\ names[2] = "sleep" /\ names[3] = "radio"
        /\ names[4] = "wake" /\ names[5] = "radioinit"
    OBVIOUS
  <1>3. UploadRadio = IF radio_image = None THEN <<>> ELSE Steps(names, "ignored")
    BY DEF UploadRadio
  <1> HIDE DEF names
  <1>4. \A j \in 1..5 : j = 1 \/ j = 2 \/ j = 3 \/ j = 4 \/ j = 5
    OBVIOUS
  <1>5. \A do \in Needed : ~Past(5, do) /\ Past(9, do) =>
          radio_image # None /\ do \in {"sleep", "radio", "wake", "radioinit"}
    BY PlacesAre DEF Needed, TemplateNames, Buffers, Past
  <1>6. CASE radio_image = None
    BY <1>3, <1>5, <1>6 DEF Part
  <1>7. CASE radio_image # None
    <2>1. \A do \in Needed : ~Past(5, do) /\ Past(9, do) => \E j \in 1..5 : names[j] = do
      BY <1>2, <1>5
    <2>2. \A j \in 1..5 : \/ j = 1 /\ names[j] = "map" /\ names[j + 1] = "sleep"
                          \/ j > 1 /\ names[j] \in Needed /\ Place[names[j]] = j + 4
      BY <1>2, <1>4, <1>7, PlacesAre DEF Needed
    <2>3. Names(names, "ignored", 5, 9)
      BY <1>1, <2>1, <2>2 DEF Names, AfterMap, Past
    <2> QED BY <1>3, <1>7, <2>3, NamesArePart
  <1> QED BY <1>6, <1>7

LEMMA InitWepPart == Part(IF Acx100 THEN InitWep ELSE <<>>, 9, 11)
  <1> DEFINE names == <<"map", "wepCache", "templatesAt">>
  <1>1. names \in Seq(StepNames) /\ Len(names) = 3
    BY DEF StepNames
  <1>2. names[1] = "map" /\ names[2] = "wepCache" /\ names[3] = "templatesAt"
    OBVIOUS
  <1>3. InitWep = Steps(names, "end")
    BY DEF InitWep
  <1> HIDE DEF names
  <1>4. \A j \in 1..3 : j = 1 \/ j = 2 \/ j = 3
    OBVIOUS
  <1>5. \A do \in Needed : ~Past(9, do) /\ Past(11, do) =>
          Acx100 /\ do \in {"wepCache", "templatesAt"}
    BY PlacesAre DEF Needed, TemplateNames, Buffers, Past
  <1>6. CASE ~Acx100
    BY <1>5, <1>6 DEF Part
  <1>7. CASE Acx100
    <2>1. \A do \in Needed : ~Past(9, do) /\ Past(11, do) => \E j \in 1..3 : names[j] = do
      BY <1>2, <1>5
    <2>2. \A j \in 1..3 : \/ j = 1 /\ names[j] = "map" /\ names[j + 1] = "wepCache"
                          \/ j > 1 /\ names[j] \in Needed /\ Place[names[j]] = j + 8
      BY <1>2, <1>4, <1>7, PlacesAre DEF Needed
    <2>3. Names(names, "end", 9, 11)
      BY <1>1, <2>1, <2>2 DEF Names, AfterMap, Past
    <2> QED BY <1>3, <1>7, <2>3, NamesArePart
  <1> QED BY <1>6, <1>7

LEMMA TemplatesPart == Part(Templates, 11, 18)
  <1> DEFINE five  == <<"probeRequest", "nullData", "beacon", "tim", "probeResponse">>
             three == <<"setTim", "map", "queuesAt">>
  <1>1. /\ five \in Seq(StepNames) /\ Len(five) = 5
        /\ three \in Seq(StepNames) /\ Len(three) = 3
    BY DEF StepNames
  <1>2. /\ five[1] = "probeRequest" /\ five[2] = "nullData" /\ five[3] = "beacon"
        /\ five[4] = "tim" /\ five[5] = "probeResponse"
        /\ three[1] = "setTim" /\ three[2] = "map" /\ three[3] = "queuesAt"
    OBVIOUS
  <1>3. Templates = Steps(five, "end") \o (IF Acx100 THEN Steps(three, "end") ELSE <<>>)
    BY DEF Templates
  <1> HIDE DEF five, three
  <1>4. /\ \A j \in 1..3 : j = 1 \/ j = 2 \/ j = 3
        /\ \A j \in 1..5 : j = 1 \/ j = 2 \/ j = 3 \/ j = 4 \/ j = 5
    OBVIOUS
  <1>5. Part(Steps(five, "end"), 11, 16)
    <2>1. \A do \in Needed : ~Past(11, do) /\ Past(16, do) => do \in TemplateNames
      BY PlacesAre DEF Needed, TemplateNames, Buffers, Past
    <2>2. \A do \in Needed : ~Past(11, do) /\ Past(16, do) => \E j \in 1..5 : five[j] = do
      BY <1>2, <2>1 DEF TemplateNames
    <2>3. \A j \in 1..5 : five[j] \in Needed /\ Place[five[j]] = j + 11
      BY <1>2, <1>4, PlacesAre DEF Needed, TemplateNames
    <2>4. Names(five, "end", 11, 16)
      BY <1>1, <2>2, <2>3 DEF Names, Past
    <2> QED BY <2>4, NamesArePart
  <1>6. Part(IF Acx100 THEN Steps(three, "end") ELSE <<>>, 16, 18)
    <2>1. \A do \in Needed : ~Past(16, do) /\ Past(18, do) =>
            Acx100 /\ do \in {"setTim", "queuesAt"}
      BY PlacesAre DEF Needed, TemplateNames, Buffers, Past
    <2>2. CASE ~Acx100
      BY <2>1, <2>2 DEF Part
    <2>3. CASE Acx100
      <3>1. \A do \in Needed : ~Past(16, do) /\ Past(18, do) => \E j \in 1..3 : three[j] = do
        BY <1>2, <2>1
      <3>2. \A j \in 1..3 : \/ j = 2 /\ three[j] = "map" /\ three[j + 1] = "queuesAt"
                            \/ j = 1 /\ three[j] \in Needed /\ Place[three[j]] = 17
                            \/ j = 3 /\ three[j] \in Needed /\ Place[three[j]] = 18
        BY <1>2, <1>4, <2>3, PlacesAre DEF Needed
      <3>3. Names(three, "end", 16, 18)
        BY <1>1, <3>1, <3>2 DEF Names, AfterMap, Past
      <3> QED BY <2>3, <3>3, NamesArePart
    <2> QED BY <2>2, <2>3
  <1>7. 11 \in 0..Last /\ 16 \in 0..Last /\ 18 \in 0..Last
    BY DEF Last
  <1> QED BY <1>3, <1>5, <1>6, <1>7, PartsJoin

LEMMA HostdescsPart == Part(CreateHostdescQueues, 19, 25)
  <1> DEFINE two  == <<"txbuf0", "txhost0">> \o <<"rxhost", "rxbuf">>
             four == <<"txbuf0", "txhost0", "txbuf1", "txhost1">> \o <<"rxhost", "rxbuf">>
  <1>1. /\ two \in Seq(StepNames) /\ Len(two) = 4
        /\ four \in Seq(StepNames) /\ Len(four) = 6
    BY DEF StepNames
  <1>2. /\ two[1] = "txbuf0" /\ two[2] = "txhost0" /\ two[3] = "rxhost" /\ two[4] = "rxbuf"
        /\ four[1] = "txbuf0" /\ four[2] = "txhost0" /\ four[3] = "txbuf1"
        /\ four[4] = "txhost1" /\ four[5] = "rxhost" /\ four[6] = "rxbuf"
    OBVIOUS
  <1>3. CreateHostdescQueues = Steps(IF Acx100 THEN two ELSE four, "free")
    BY DEF CreateHostdescQueues
  <1> HIDE DEF two, four
  <1>4. /\ \A j \in 1..4 : j = 1 \/ j = 2 \/ j = 3 \/ j = 4
        /\ \A j \in 1..6 : j = 1 \/ j = 2 \/ j = 3 \/ j = 4 \/ j = 5 \/ j = 6
    OBVIOUS
  <1>5. \A do \in Needed : ~Past(19, do) /\ Past(25, do) => do \in Buffers
    BY PlacesAre DEF Needed, TemplateNames, Past
  <1>6. CASE Acx100
    <2>1. \A do \in Needed : ~Past(19, do) /\ Past(25, do) => \E j \in 1..4 : two[j] = do
      BY <1>2, <1>5, <1>6 DEF Buffers
    <2>2. \A j \in 1..4 : two[j] \in Needed
      BY <1>2, <1>4, <1>6 DEF Needed, Buffers
    <2>3. \A j \in 1..4 : \/ j <= 2 /\ Place[two[j]] = j + 19
                          \/ j > 2 /\ Place[two[j]] = j + 21
      BY <1>2, <1>4, PlacesAre
    <2>4. Names(two, "free", 19, 25)
      BY <1>1, <2>1, <2>2, <2>3 DEF Names, Past
    <2> QED BY <1>3, <1>6, <2>4, NamesArePart
  <1>7. CASE ~Acx100
    <2>1. \A do \in Needed : ~Past(19, do) /\ Past(25, do) => \E j \in 1..6 : four[j] = do
      BY <1>2, <1>5, <1>7 DEF Buffers
    <2>2. \A j \in 1..6 : four[j] \in Needed
      BY <1>2, <1>4, <1>7 DEF Needed, Buffers
    <2>3. \A j \in 1..6 : Place[four[j]] = j + 19
      BY <1>2, <1>4, PlacesAre
    <2>4. Names(four, "free", 19, 25)
      BY <1>1, <2>1, <2>2, <2>3 DEF Names, Past
    <2> QED BY <1>3, <1>7, <2>4, NamesArePart
  <1> QED BY <1>6, <1>7

LEMMA DmaRegions100Part ==
  ASSUME Acx100
  PROVE  Part(CreateDmaRegions, 18, 32)
  <1> DEFINE queues == <<"map", "queueConfig">>
             pools  == <<"rings", "map", "poolAt", "blockSize", "memoryConfig", "initMemory">>
  <1>1. /\ queues \in Seq(StepNames) /\ Len(queues) = 2
        /\ pools \in Seq(StepNames) /\ Len(pools) = 6
    BY DEF StepNames
  <1>2. /\ queues[1] = "map" /\ queues[2] = "queueConfig"
        /\ pools[1] = "rings" /\ pools[2] = "map" /\ pools[3] = "poolAt"
        /\ pools[4] = "blockSize" /\ pools[5] = "memoryConfig" /\ pools[6] = "initMemory"
    OBVIOUS
  <1>3. CreateDmaRegions = (Steps(queues, "free") \o CreateHostdescQueues)
                             \o Steps(pools, "free")
    BY DEF CreateDmaRegions
  <1> HIDE DEF queues, pools
  <1>4. /\ \A j \in 1..2 : j = 1 \/ j = 2
        /\ \A j \in 1..6 : j = 1 \/ j = 2 \/ j = 3 \/ j = 4 \/ j = 5 \/ j = 6
    OBVIOUS
  <1>5. Part(Steps(queues, "free"), 18, 19)
    <2>1. \A do \in Needed : ~Past(18, do) /\ Past(19, do) => do = "queueConfig"
      BY PlacesAre DEF Needed, TemplateNames, Buffers, Past
    <2>2. \A j \in 1..2 : \/ j = 1 /\ queues[j] = "map" /\ queues[j + 1] = "queueConfig"
                          \/ j = 2 /\ queues[j] \in Needed /\ Place[queues[j]] = 19
      BY <1>2, <1>4, PlacesAre DEF Needed
    <2>3. Names(queues, "free", 18, 19)
      BY <1>1, <1>2, <2>1, <2>2 DEF Names, AfterMap, Past
    <2> QED BY <2>3, NamesArePart
  <1>6. Part(Steps(pools, "free"), 25, 32)
    <2>1. \A do \in Needed : ~Past(25, do) /\ Past(32, do) =>
            do \in {"rings", "poolAt", "blockSize", "memoryConfig", "initMemory"}
      BY PlacesAre DEF Needed, TemplateNames, Buffers, Past
    <2>2. \A do \in Needed : ~Past(25, do) /\ Past(32, do) => \E j \in 1..6 : pools[j] = do
      BY <1>2, <2>1
    <2>3. \A j \in 1..6 : \/ j = 2 /\ pools[j] = "map" /\ pools[j + 1] = "poolAt"
                          \/ j = 1 /\ pools[j] \in Needed /\ Place[pools[j]] = 28
                          \/ j > 2 /\ pools[j] \in Needed /\ Place[pools[j]] = j + 26
      BY <1>2, <1>4, PlacesAre DEF Needed
    <2>4. Names(pools, "free", 25, 32)
      BY <1>1, <2>2, <2>3 DEF Names, AfterMap, Past
    <2> QED BY <2>4, NamesArePart
  <1>7. 18 \in 0..Last /\ 19 \in 0..Last /\ 25 \in 0..Last /\ 32 \in 0..Last
    BY DEF Last
  <1>8. Part(Steps(queues, "free") \o CreateHostdescQueues, 18, 25)
    BY <1>5, <1>7, HostdescsPart, PartsJoin
  <1> QED BY <1>3, <1>6, <1>7, <1>8, PartsJoin

LEMMA DmaRegions111Part ==
  ASSUME ~Acx100
  PROVE  Part(CreateDmaRegions, 18, 32)
  <1> DEFINE memory  == <<"memoryConfig111">>
             address == <<"queueAddress">>
             rings   == <<"rings">>
  <1>1. CreateDmaRegions = ((CreateHostdescQueues \o Steps(memory, "free"))
                             \o Steps(address, "ignored")) \o Steps(rings, "free")
    BY DEF CreateDmaRegions
  <1>2. ASSUME NEW do \in Needed, do # "map", NEW fails \in {"end", "free", "ignored"},
               NEW r \in 0..Last, NEW upto \in 0..Last,
               ~Past(r, do), Past(upto, do),
               \A y \in Needed : ~Past(r, y) /\ Past(upto, y) => y = do
        PROVE  Part(Steps(<<do>>, fails), r, upto)
    <2> DEFINE names == <<do>>
    <2>1. names \in Seq(StepNames) /\ Len(names) = 1 /\ names[1] = do
      BY <1>2, NeededArePlaced DEF Placed
    <2> HIDE DEF names
    <2>2. \A j \in 1..1 : j = 1
      OBVIOUS
    <2>3. Names(names, fails, r, upto)
      BY <1>2, <2>1, <2>2 DEF Names
    <2> QED BY <2>3, NamesArePart DEF names
  <1>3. 18 \in 0..Last /\ 19 \in 0..Last /\ 25 \in 0..Last /\ 26 \in 0..Last /\ 27 \in 0..Last
        /\ 32 \in 0..Last
    BY DEF Last
  <1>4. Part(Steps(memory, "free"), 25, 26)
    <2>1. \A y \in Needed : ~Past(25, y) /\ Past(26, y) => y = "memoryConfig111"
      BY PlacesAre DEF Needed, TemplateNames, Buffers, Past
    <2>2. "memoryConfig111" \in Needed /\ ~Past(25, "memoryConfig111")
          /\ Past(26, "memoryConfig111")
      BY PlacesAre DEF Needed, Past
    <2> QED BY <1>2, <1>3, <2>1, <2>2
  <1>5. Part(Steps(address, "ignored"), 26, 27)
    <2>1. \A y \in Needed : ~Past(26, y) /\ Past(27, y) => y = "queueAddress"
      BY PlacesAre DEF Needed, TemplateNames, Buffers, Past
    <2>2. "queueAddress" \in Needed /\ ~Past(26, "queueAddress") /\ Past(27, "queueAddress")
      BY PlacesAre DEF Needed, Past
    <2> QED BY <1>2, <1>3, <2>1, <2>2
  <1>6. Part(Steps(rings, "free"), 27, 32)
    <2>1. \A y \in Needed : ~Past(27, y) /\ Past(32, y) => y = "rings"
      BY PlacesAre DEF Needed, TemplateNames, Buffers, Past
    <2>2. "rings" \in Needed /\ ~Past(27, "rings") /\ Past(32, "rings")
      BY PlacesAre DEF Needed, Past
    <2> QED BY <1>2, <1>3, <2>1, <2>2
  <1>7. Part(<<>>, 18, 19)
    <2>1. \A y \in Needed : Past(19, y) => Past(18, y)
      BY PlacesAre DEF Needed, TemplateNames, Buffers, Past
    <2> QED BY <2>1, NothingIsPart
  <1>8. Part(CreateHostdescQueues, 18, 25)
    <2> DEFINE nothing == <<>>
    <2>1. CreateHostdescQueues \in Seq(StepType)
      BY HostdescsPart DEF Part
    <2>2. nothing \o CreateHostdescQueues = CreateHostdescQueues
      BY <2>1
    <2>3. Part(nothing, 18, 19)
      BY <1>7
    <2> HIDE DEF nothing
    <2>4. Part(nothing \o CreateHostdescQueues, 18, 25)
      BY <1>3, <2>3, HostdescsPart, PartsJoin
    <2> QED BY <2>2, <2>4
  <1> HIDE DEF memory, address, rings
  <1>9. Part(CreateHostdescQueues \o Steps(memory, "free"), 18, 26)
    BY <1>3, <1>4, <1>8, PartsJoin
  <1>10. Part((CreateHostdescQueues \o Steps(memory, "free")) \o Steps(address, "ignored"), 18, 27)
    BY <1>3, <1>5, <1>9, PartsJoin
  <1> QED BY <1>1, <1>3, <1>6, <1>10, PartsJoin

\* Both boots go from the first place to the last.
LEMMA BootsAreWhole == Part(FullReset, 0, Last) /\ Part(ResetOnProbe, 0, Last)
  <1> DEFINE wep == IF Acx100 THEN InitWep ELSE <<>>
             eeprom == <<"eeprom">>
  <1>1. 0 \in 0..Last /\ 5 \in 0..Last /\ 9 \in 0..Last /\ 11 \in 0..Last /\ 18 \in 0..Last
        /\ 32 \in 0..Last /\ Last \in 0..Last /\ 32 <= Last
    BY DEF Last
  <1>2. Part(UploadRadio \o wep, 5, 11)
    BY <1>1, UploadRadioPart, InitWepPart, PartsJoin
  <1>3. Part((UploadRadio \o wep) \o Templates, 5, 18)
    BY <1>1, <1>2, TemplatesPart, PartsJoin
  <1>4. Part(InitMac, 5, 32)
    <2>1. InitMac = ((UploadRadio \o wep) \o Templates) \o CreateDmaRegions
      BY DEF InitMac
    <2> HIDE DEF wep
    <2> QED BY <1>1, <1>3, <2>1, DmaRegions100Part, DmaRegions111Part, PartsJoin
  <1>5. Part(FullReset, 0, 32)
    BY <1>1, <1>4, ResetDevPart, PartsJoin DEF FullReset
  <1>6. \A do \in Needed : ~(~Past(32, do) /\ Past(Last, do))
    BY PlacesAre DEF Needed, TemplateNames, Buffers, Past
  <1>7. Part(FullReset, 0, Last)
    <2> DEFINE nothing == <<>>
    <2>1. FullReset \in Seq(StepType)
      BY <1>5 DEF Part
    <2>2. FullReset \o nothing = FullReset
      BY <2>1
    <2>3. Part(nothing, 32, Last)
      BY <1>6, NothingIsPart
    <2> HIDE DEF nothing
    <2>4. Part(FullReset \o nothing, 0, Last)
      BY <1>1, <1>5, <2>3, PartsJoin
    <2> QED BY <2>2, <2>4
  <1>8. Part(Steps(eeprom, "end"), 32, Last)
    <2>1. eeprom \in Seq(StepNames) /\ Len(eeprom) = 1 /\ eeprom[1] = "eeprom"
      BY DEF StepNames
    <2> HIDE DEF eeprom
    <2>2. \A j \in 1..1 : j = 1
      OBVIOUS
    <2>3. ~Past(32, "eeprom") /\ Past(Last, "eeprom")
      BY PlacesAre DEF Past, Last
    <2>4. Names(eeprom, "end", 32, Last)
      BY <1>6, <2>1, <2>2, <2>3 DEF Names
    <2> QED BY <2>4, NamesArePart
  <1>9. Part(ResetOnProbe, 0, Last)
    BY <1>1, <1>5, <1>8, PartsJoin DEF ResetOnProbe
  <1> QED BY <1>7, <1>9

-------------------------------------------------------------------------------
(* From a place to the next. *)

\* The step comes next when a boot has come to r.
ComesNext(r, x) ==
  /\ x \in Needed \cup {"eeprom"} /\ Place[x] \in 0..Last
  /\ ~Past(r, x) /\ Past(Place[x], x)
  /\ \A y \in Needed : Past(Place[x], y) => y = x \/ Past(r, y)
  /\ \A y \in Placed : Past(r, y) => Past(Place[x], y)

LEMMA HeadComesNext ==
  ASSUME NEW s, NEW r \in 0..Last, Part(s, r, Last), s # <<>>, Head(s).do # "map"
  PROVE  ComesNext(r, Head(s).do)
  <1> DEFINE x == s[1].do
  <1>1. /\ s \in Seq(StepType) /\ Len(s) \in Nat \ {0} /\ Head(s) = s[1]
        /\ 1 \in 1..Len(s)
    BY HeadTailProperties, LenProperties DEF Part
  <1>2. x \in Needed \cup {"eeprom"} /\ ~Past(r, x) /\ x \in Placed /\ x # "map"
    <2>1. x \in Needed \cup {"eeprom"} /\ ~Past(r, x) /\ x # "map"
      BY <1>1 DEF Part, MapBefore
    <2> QED BY <2>1, NeededArePlaced
  <1> HIDE DEF x
  <1>3. Place[x] \in 1..Last /\ Last \in Nat
    BY <1>2, PlacedIn DEF Last
  <1>4. ~ (Place[x] <= r)
    BY <1>2 DEF Past
  <1>5. ASSUME NEW y \in Needed, Past(Place[x], y), y # x
        PROVE  Past(r, y)
    <2> SUFFICES ASSUME ~Past(r, y) PROVE FALSE
      OBVIOUS
    <2>1. y \in Placed /\ Place[y] \in 1..Last
      BY NeededArePlaced, PlacedIn
    <2>2. Past(Last, y)
      BY <2>1, <1>3 DEF Past
    <2>3. PICK j \in 1..Len(s) : s[j].do = y
      BY <2>2 DEF Part
    <2>4. 1 < j
      BY <1>1, <1>5, <2>3 DEF x
    <2>5. s[j].do # "map"
      BY <2>1, <2>3 DEF Placed
    <2>6. Place[x] < Place[y]
      BY <1>1, <1>2, <2>3, <2>4, <2>5 DEF Part, x
    <2> QED BY <1>3, <1>5, <2>1, <2>6 DEF Past
  <1>6. ASSUME NEW y \in Placed, Past(r, y)
        PROVE  Past(Place[x], y)
    <2>1. Place[y] \in 1..Last
      BY PlacedIn
    <2> QED BY <1>3, <1>4, <1>6, <2>1 DEF Past
  <1>7. Past(Place[x], x) /\ Place[x] \in 0..Last
    BY <1>3 DEF Past
  <1> QED BY <1>1, <1>2, <1>5, <1>6, <1>7 DEF ComesNext, x

\* The step is done; the interrogation of the map has no place.
LEMMA PartGoesOn ==
  ASSUME NEW r \in 0..Last, Part(todo, r, Last), todo # <<>>, Done
  PROVE  /\ Head(todo).do # "map" => Part(todo', Place[Head(todo).do], Last)
         /\ Head(todo).do = "map" =>
              /\ Part(todo', r, Last)
              /\ todo' # <<>> /\ Head(todo').do \in AfterMap(Head(todo).fails)
  <1> DEFINE x == todo[1].do
             t == todo'
  <1>1. /\ todo \in Seq(StepType) /\ Len(todo) \in Nat \ {0} /\ Head(todo) = todo[1]
        /\ t \in Seq(StepType) /\ Len(t) = Len(todo) - 1 /\ 1 \in 1..Len(todo)
        /\ \A j \in 1..Len(t) : t[j] = todo[j + 1]
    BY HeadTailProperties, LenProperties DEF Part, Done
  <1>2. \A j \in 1..Len(t) : j + 1 \in 1..Len(todo) /\ t[j] = todo[j + 1] /\ 1 < j + 1
    BY <1>1
  <1>3. ASSUME NEW j \in 1..Len(t), MapBefore(todo, j + 1)
        PROVE  MapBefore(t, j)
    <2>1. j + 1 < Len(todo) => j < Len(t) /\ t[j + 1] = todo[(j + 1) + 1]
      BY <1>1
    <2> QED BY <1>2, <1>3, <2>1 DEF MapBefore
  <1>4. \A j, k \in 1..Len(t) :
          j < k /\ t[j].do # "map" /\ t[k].do # "map" => Place[t[j].do] < Place[t[k].do]
    <2> SUFFICES ASSUME NEW j \in 1..Len(t), NEW k \in 1..Len(t), j < k,
                        t[j].do # "map", t[k].do # "map"
                 PROVE  Place[t[j].do] < Place[t[k].do]
      OBVIOUS
    <2>1. j + 1 < k + 1
      OBVIOUS
    <2> QED BY <1>2, <2>1 DEF Part
  <1>5. ASSUME NEW do \in Needed, ~Past(r, do), Past(Last, do), do # x
        PROVE  \E j \in 1..Len(t) : t[j].do = do
    <2>1. PICK k \in 1..Len(todo) : todo[k].do = do
      BY <1>5 DEF Part
    <2>2. k - 1 \in 1..Len(t) /\ t[k - 1] = todo[k]
      <3>1. k # 1
        BY <1>5, <2>1
      <3>2. k - 1 \in 1..Len(t) /\ (k - 1) + 1 = k
        BY <1>1, <3>1
      <3> QED BY <1>1, <3>2
    <2> QED BY <2>1, <2>2
  <1> HIDE DEF t
  <1>6. ASSUME x # "map"
        PROVE  Part(t, Place[x], Last)
    <2>1. ComesNext(r, x)
      BY <1>1, <1>6, HeadComesNext
    <2> HIDE DEF x
    <2>2. ASSUME NEW j \in 1..Len(t)
          PROVE  MapBefore(t, j) \/ (/\ t[j].do \in Needed \cup {"eeprom"}
                                     /\ ~Past(Place[x], t[j].do) /\ Past(Last, t[j].do))
      <3>1. CASE MapBefore(todo, j + 1)
        BY <1>3, <3>1
      <3>2. CASE ~MapBefore(todo, j + 1)
        <4>1. t[j].do \in Needed \cup {"eeprom"} /\ Past(Last, t[j].do)
          BY <1>2, <3>2 DEF Part
        <4>2. t[j].do \in Placed /\ t[j].do # "map"
          BY <4>1, NeededArePlaced DEF Placed
        <4>3. Place[x] < Place[t[j].do]
          BY <1>1, <1>2, <1>6, <4>2 DEF Part, x
        <4>4. Place[x] \in 0..Last /\ Place[t[j].do] \in 1..Last /\ Last \in Nat
          BY <2>1, <4>2, PlacedIn DEF ComesNext, Last
        <4>5. ~ (Place[t[j].do] <= Place[x])
          BY <4>3, <4>4
        <4> QED BY <4>1, <4>5 DEF Past
      <3> QED BY <3>1, <3>2
    <2>3. ASSUME NEW do \in Needed, ~Past(Place[x], do), Past(Last, do)
          PROVE  \E j \in 1..Len(t) : t[j].do = do
      <3>1. do \in Placed
        BY NeededArePlaced
      <3>2. do # x /\ ~Past(r, do)
        BY <2>1, <2>3, <3>1 DEF ComesNext
      <3> QED BY <1>5, <2>3, <3>2
    <2> QED BY <1>1, <1>4, <2>2, <2>3 DEF Part
  <1>7. ASSUME x = "map"
        PROVE  Part(t, r, Last) /\ t # <<>> /\ Head(t).do \in AfterMap(Head(todo).fails)
    <2>1. ASSUME NEW j \in 1..Len(t)
          PROVE  MapBefore(t, j) \/ (/\ t[j].do \in Needed \cup {"eeprom"}
                                     /\ ~Past(r, t[j].do) /\ Past(Last, t[j].do))
      BY <1>2, <1>3 DEF Part
    <2>2. \A do \in Needed : do # x
      BY <1>7, NeededArePlaced DEF Placed
    <2>3. Part(t, r, Last)
      BY <1>1, <1>4, <1>5, <2>1, <2>2 DEF Part
    <2>4. MapBefore(todo, 1)
      <3>1. "map" \notin Needed \cup {"eeprom"}
        BY NeededArePlaced DEF Placed
      <3> QED BY <1>1, <1>7, <3>1 DEF Part
    <2>5. 1 < Len(todo) /\ todo[1 + 1].do \in AfterMap(Head(todo).fails)
      BY <1>1, <2>4 DEF MapBefore
    <2>6. t # <<>> /\ Head(t) = todo[1 + 1]
      <3>1. 1 \in 1..Len(t) /\ Len(t) > 0
        BY <1>1, <2>5
      <3>2. t # <<>>
        BY <3>1
      <3> QED BY <1>1, <3>1, <3>2, HeadTailProperties
    <2> QED BY <2>3, <2>5, <2>6
  <1> QED BY <1>1, <1>6, <1>7 DEF t

-------------------------------------------------------------------------------
(* What each step does. *)

SetMap(x) ==
  IF x = "wepCache" THEN WepCache(mm)
  ELSE IF x = "templatesAt" THEN TemplatesAt(mm)
  ELSE IF x = "queuesAt" THEN QueuesAt(mm)
  ELSE PoolAt(mm)

TemplatesEnd ==
  IF acx.templates = {} THEN acx.map.PacketTemplateStart ELSE acx.map.PacketTemplateEnd

\* To the two copies of the map.
MapEffect(x) ==
  \/ /\ x = "startEcpu" /\ mm' = mm
     /\ \E end \in 0..PatchedSize :
          acx'.map = [NoMap EXCEPT !.CodeEnd = end, !.PoolEnd = MemorySize]
  \/ /\ x = "radioinit" /\ mm' = mm
     /\ acx'.map = acx.map \/ acx'.map = [acx.map EXCEPT !.CodeEnd = acx.map.CodeEnd + RadioSize]
  \/ /\ x \in {"wepCache", "templatesAt", "queuesAt", "poolAt"}
     /\ acx'.map = SetMap(x) /\ mm' = SetMap(x)
  \/ /\ x \in TemplateNames /\ mm' = mm
     /\ acx'.map = [acx.map EXCEPT !.PacketTemplateEnd = TemplatesEnd + TemplateSize]
  \/ /\ x = "queueConfig" /\ mm' = mm
     /\ \E end \in {QueueConfig(mm).QueueEnd, QueueConfig(mm).HostQueueEnd} :
          acx'.map = [acx.map EXCEPT !.QueueEnd = end]
  \/ x = "map" /\ acx'.map = acx.map /\ mm' = acx.map
  \/ x = "queueAddress" /\ acx'.map = acx.map /\ mm' = [mm EXCEPT !.QueueStart = acx.queue]
  \/ /\ x \notin {"startEcpu", "radioinit", "wepCache", "templatesAt", "queuesAt", "poolAt",
                  "queueConfig", "map", "queueAddress"} \cup TemplateNames
     /\ acx'.map = acx.map /\ mm' = mm

AdapterEffect(x) ==
  /\ acx'.ecpu = IF x = "startEcpu" THEN "running" ELSE acx.ecpu
  /\ acx'.awake = IF x = "sleep" THEN FALSE ELSE IF x = "wake" THEN TRUE ELSE acx.awake
  /\ acx'.templates = IF x \in TemplateNames THEN acx.templates \cup {x} ELSE acx.templates
  /\ acx'.linked = IF x \in {"memoryConfig111", "initMemory"} THEN TRUE ELSE acx.linked
  /\ acx'.queue = IF x = "queueConfig" THEN mm.QueueStart
                  ELSE IF x = "memoryConfig111" THEN MemorySize \div 2 ELSE acx.queue
  /\ acx'.pools = IF x = "memoryConfig" THEN Pools(mm, memblocksize) ELSE acx.pools
  /\ IF x = "startEcpu" THEN acx.disturbed => acx'.disturbed
     ELSE acx'.disturbed = acx.disturbed

HostEffect(x) ==
  /\ FW_LOADED' = IF x = "upload" THEN TRUE ELSE FW_LOADED
  /\ cmd_area' = IF x = "initMboxes" THEN TRUE ELSE cmd_area
  /\ bufs' = IF x \in Buffers THEN bufs \cup {x} ELSE bufs
  /\ acxdesc' = IF x = "rings" THEN mm.QueueStart ELSE acxdesc
  /\ acx_txbuf' = IF x = "initMemory"
                  THEN [start |-> Pools(mm, memblocksize).tx_mem,
                        numblocks |-> Pools(mm, memblocksize).TxBlockNum]
                  ELSE acx_txbuf

Succeeds(x) == Done /\ MapEffect(x) /\ AdapterEffect(x) /\ HostEffect(x)

\* Its failure is not looked at.
PassedOver(x) ==
  /\ Done /\ Head(todo).fails = "ignored" /\ x \in Ignorable
  /\ acx' = [acx EXCEPT !.disturbed = TRUE] /\ mm' \in Unanswered(x)
  /\ UNCHANGED <<FW_LOADED, cmd_area, bufs, acxdesc, acx_txbuf>>

GivenUp ==
  /\ todo' = <<>> /\ result' = "NOT_OK" /\ UNCHANGED <<op, image, mm>>
  /\ acx'.map = acx.map /\ acx'.queue = acx.queue
  /\ acxdesc' = acxdesc \/ acxdesc' = 0

TriedAgain(x) ==
  /\ x \in {"upload", "radio"}
  /\ UNCHANGED <<todo, op, result, image, mm, FW_LOADED, cmd_area, bufs, acxdesc, acx_txbuf>>
  /\ UNCHANGED <<acx.ecpu, acx.awake, acx.templates, acx.linked, acx.queue, acx.pools, acx.map,
                 acx.disturbed>>

Outcome(x) ==
  /\ todo # <<>> /\ x = Head(todo).do
  /\ Succeeds(x) \/ PassedOver(x) \/ GivenUp \/ TriedAgain(x)

LEMMA FailureIs ==
  ASSUME Fails, todo # <<>>, Head(todo).fails # "ignored", UNCHANGED <<mm>>,
         acx'.map = acx.map, acx'.queue = acx.queue
  PROVE  GivenUp
  BY DEF Fails, GivenUp, image

\* A command does what it is for, or else nothing.
LEMMA CommandIs ==
  ASSUME CodeIInv, NEW x, NEW a, NEW m, IssueCmd(x, a, m)
  PROVE  /\ todo # <<>> /\ x = Head(todo).do
         /\ \/ /\ Done /\ acx' = a /\ mm' = m
               /\ UNCHANGED <<FW_LOADED, cmd_area, bufs, acxdesc, acx_txbuf>>
            \/ PassedOver(x) \/ GivenUp
  <1>1. todo # <<>> /\ x = Head(todo).do
    BY DEF IssueCmd, At
  <1>2. CASE Fails /\ Head(todo).fails = "ignored"
             /\ acx' = [acx EXCEPT !.disturbed = TRUE] /\ mm' \in Unanswered(x)
    BY <1>1, <1>2, CodeFacts DEF IssueCmd, PassedOver, Fails
  <1>3. CASE Fails /\ Head(todo).fails # "ignored" /\ UNCHANGED <<acx, mm>>
    BY <1>1, <1>3, FailureIs
  <1> QED BY <1>1, <1>2, <1>3 DEF IssueCmd

LEMMA CommandSucceeds ==
  ASSUME CodeIInv, NEW x, NEW a, NEW m, IssueCmd(x, a, m),
         Done /\ acx' = a /\ mm' = m
           /\ UNCHANGED <<FW_LOADED, cmd_area, bufs, acxdesc, acx_txbuf>> => Succeeds(x)
  PROVE  Outcome(x)
  BY CommandIs DEF Outcome

LEMMA MapCommands ==
  ASSUME CodeIInv, InterrogateMap \/ SetWepCache \/ SetTemplatesAt \/ SetQueuesAt \/ SetPoolAt
                   \/ InterrogateQueues
  PROVE  \E x : Outcome(x)
  <1> USE DEF Succeeds, MapEffect, AdapterEffect, HostEffect, SetMap
  <1>1. acx \in Adapter
    BY CodeFacts
  <1>2. ASSUME NEW x \in {"wepCache", "templatesAt", "queuesAt", "poolAt"},
               ConfigureMap(x, SetMap(x))
        PROVE  Outcome(x)
    <2> DEFINE m == SetMap(x)
    <2>1. x \notin TemplateNames \cup Buffers
      BY DEF TemplateNames, Buffers
    <2>2. IssueCmd(x, [acx EXCEPT !.map = m], m)
      BY <1>2 DEF ConfigureMap
    <2>3. m = SetMap(x)
      OBVIOUS
    <2> HIDE DEF m
    <2>4. acx' = [acx EXCEPT !.map = m] =>
            /\ acx'.map = m /\ acx'.ecpu = acx.ecpu /\ acx'.awake = acx.awake
            /\ acx'.templates = acx.templates /\ acx'.linked = acx.linked
            /\ acx'.queue = acx.queue /\ acx'.pools = acx.pools
            /\ acx'.disturbed = acx.disturbed
      BY <1>1 DEF Adapter
    <2>5. Done /\ acx' = [acx EXCEPT !.map = m] /\ mm' = m
            /\ UNCHANGED <<FW_LOADED, cmd_area, bufs, acxdesc, acx_txbuf>> => Succeeds(x)
      <3> HIDE DEF SetMap
      <3> QED BY <2>1, <2>3, <2>4
    <2> QED BY <2>2, <2>5, CommandSucceeds
  <1>3. CASE SetWepCache \/ SetTemplatesAt \/ SetQueuesAt \/ SetPoolAt
    BY <1>2, <1>3 DEF SetWepCache, SetTemplatesAt, SetQueuesAt, SetPoolAt
  <1>4. CASE InterrogateMap
    <2>1. Outcome("map")
      BY <1>4, CommandSucceeds DEF InterrogateMap, TemplateNames, Buffers
    <2> QED BY <2>1
  <1>5. CASE InterrogateQueues
    <2>1. Outcome("queueAddress")
      BY <1>5, CommandSucceeds DEF InterrogateQueues, TemplateNames, Buffers
    <2> QED BY <2>1
  <1> QED BY <1>3, <1>4, <1>5

LEMMA OtherCommands ==
  ASSUME CodeIInv, Sleep \/ Wake \/ SetTim \/ SetBlockSize \/ ReadEeprom \/ ConfigurePools
                   \/ ConfigureMemory111
  PROVE  \E x : Outcome(x)
  <1> USE DEF Succeeds, MapEffect, AdapterEffect, HostEffect
  <1>1. acx \in Adapter
    BY CodeFacts
  <1>2. \A x \in {"sleep", "wake", "setTim", "blockSize", "eeprom", "memoryConfig",
                  "memoryConfig111"} : x \notin TemplateNames \cup Buffers
    BY DEF TemplateNames, Buffers
  <1>3. CASE SetTim
    <2>1. Outcome("setTim")
      BY <1>2, <1>3, CommandSucceeds DEF SetTim
    <2> QED BY <2>1
  <1>4. CASE SetBlockSize
    <2>1. Outcome("blockSize")
      BY <1>2, <1>4, CommandSucceeds DEF SetBlockSize
    <2> QED BY <2>1
  <1>5. CASE ReadEeprom
    <2>1. Outcome("eeprom")
      BY <1>2, <1>5, CommandSucceeds DEF ReadEeprom
    <2> QED BY <2>1
  <1>6. CASE Sleep
    <2>1. acx' = [acx EXCEPT !.awake = FALSE] =>
            /\ acx'.map = acx.map /\ acx'.ecpu = acx.ecpu /\ ~acx'.awake
            /\ acx'.templates = acx.templates /\ acx'.linked = acx.linked
            /\ acx'.queue = acx.queue /\ acx'.pools = acx.pools
            /\ acx'.disturbed = acx.disturbed /\ acx'.awake = FALSE
      BY <1>1 DEF Adapter
    <2>2. Outcome("sleep")
      BY <1>2, <1>6, <2>1, CommandSucceeds DEF Sleep
    <2> QED BY <2>2
  <1>7. CASE Wake
    <2>1. acx' = [acx EXCEPT !.awake = TRUE] =>
            /\ acx'.map = acx.map /\ acx'.ecpu = acx.ecpu /\ acx'.awake = TRUE
            /\ acx'.templates = acx.templates /\ acx'.linked = acx.linked
            /\ acx'.queue = acx.queue /\ acx'.pools = acx.pools
            /\ acx'.disturbed = acx.disturbed
      BY <1>1 DEF Adapter
    <2>2. Outcome("wake")
      BY <1>2, <1>7, <2>1, CommandSucceeds DEF Wake
    <2> QED BY <2>2
  <1>8. CASE ConfigurePools
    <2> DEFINE p == Pools(mm, memblocksize)
    <2>1. acx' = [acx EXCEPT !.pools = p] =>
            /\ acx'.map = acx.map /\ acx'.ecpu = acx.ecpu /\ acx'.awake = acx.awake
            /\ acx'.templates = acx.templates /\ acx'.linked = acx.linked
            /\ acx'.queue = acx.queue /\ acx'.pools = p
            /\ acx'.disturbed = acx.disturbed
      <3> HIDE DEF p
      <3> QED BY <1>1 DEF Adapter
    <2>2. Outcome("memoryConfig")
      BY <1>2, <1>8, <2>1, CommandSucceeds DEF ConfigurePools
    <2> QED BY <2>2
  <1>9. CASE ConfigureMemory111
    <2> DEFINE q == MemorySize \div 2
    <2>1. acx' = [acx EXCEPT !.queue = q, !.linked = TRUE] =>
            /\ acx'.map = acx.map /\ acx'.ecpu = acx.ecpu /\ acx'.awake = acx.awake
            /\ acx'.templates = acx.templates /\ acx'.linked = TRUE
            /\ acx'.queue = q /\ acx'.pools = acx.pools
            /\ acx'.disturbed = acx.disturbed
      <3> HIDE DEF q
      <3> QED BY <1>1 DEF Adapter
    <2>2. Outcome("memoryConfig111")
      BY <1>2, <1>9, <2>1, CommandSucceeds DEF ConfigureMemory111
    <2> QED BY <2>2
  <1> QED BY <1>3, <1>4, <1>5, <1>6, <1>7, <1>8, <1>9

LEMMA GrowingCommands ==
  ASSUME CodeIInv, InitTemplate \/ ConfigureQueue \/ RadioInit
  PROVE  \E x : Outcome(x)
  <1> USE DEF Succeeds, MapEffect, AdapterEffect, HostEffect
  <1>1. acx \in Adapter
    BY CodeFacts
  <1>2. CASE InitTemplate
    <2> DEFINE n == TemplatesEnd + TemplateSize
    <2>1. PICK t \in TemplateNames :
            IssueCmd(t, [acx EXCEPT !.templates = @ \cup {t}, !.map.PacketTemplateEnd = n], mm)
      BY <1>2 DEF InitTemplate, TemplatesEnd
    <2>2. t \notin {"startEcpu", "radioinit", "wepCache", "templatesAt", "queuesAt", "poolAt",
                    "queueConfig", "map", "queueAddress", "sleep", "wake", "memoryConfig111",
                    "initMemory", "memoryConfig", "upload", "initMboxes", "rings"} \cup Buffers
      BY DEF TemplateNames, Buffers
    <2>3. n = TemplatesEnd + TemplateSize
      OBVIOUS
    <2> HIDE DEF n
    <2> DEFINE ts == acx.templates \cup {t}
    <2>4. ts = acx.templates \cup {t}
      OBVIOUS
    <2> HIDE DEF ts
    <2>5. acx' = [acx EXCEPT !.templates = ts, !.map.PacketTemplateEnd = n] =>
            /\ acx'.map = [acx.map EXCEPT !.PacketTemplateEnd = n]
            /\ acx'.ecpu = acx.ecpu /\ acx'.awake = acx.awake
            /\ acx'.templates = ts /\ acx'.linked = acx.linked
            /\ acx'.queue = acx.queue /\ acx'.pools = acx.pools
            /\ acx'.disturbed = acx.disturbed
      BY <1>1 DEF Adapter
    <2>6. IssueCmd(t, [acx EXCEPT !.templates = ts, !.map.PacketTemplateEnd = n], mm)
      BY <2>1, <2>4
    <2>7. Outcome(t)
      BY <2>2, <2>3, <2>4, <2>5, <2>6, CommandSucceeds
    <2> QED BY <2>7
  <1>3. CASE ConfigureQueue
    <2> DEFINE q == mm.QueueStart
    <2>1. PICK end \in {QueueConfig(mm).QueueEnd, QueueConfig(mm).HostQueueEnd} :
            IssueCmd("queueConfig", [acx EXCEPT !.queue = q, !.map.QueueEnd = end], mm)
      <3>1. QueueConfig(mm).TxQueueStart = q
        BY DEF QueueConfig
      <3> HIDE DEF q
      <3> QED BY <1>3, <3>1 DEF ConfigureQueue
    <2>2. q = mm.QueueStart
      OBVIOUS
    <2> HIDE DEF q
    <2>3. acx' = [acx EXCEPT !.queue = q, !.map.QueueEnd = end] =>
            /\ acx'.map = [acx.map EXCEPT !.QueueEnd = end]
            /\ acx'.ecpu = acx.ecpu /\ acx'.awake = acx.awake
            /\ acx'.templates = acx.templates /\ acx'.linked = acx.linked
            /\ acx'.queue = q /\ acx'.pools = acx.pools
            /\ acx'.disturbed = acx.disturbed
      BY <1>1 DEF Adapter
    <2>4. Outcome("queueConfig")
      BY <2>1, <2>2, <2>3, CommandSucceeds DEF TemplateNames, Buffers
    <2> QED BY <2>4
  <1>4. CASE RadioInit /\ try = 0
    <2>1. Outcome("radioinit")
      BY <1>4 DEF RadioInit, Outcome, At, driver, TemplateNames, Buffers
    <2> QED BY <2>1
  <1>5. CASE RadioInit /\ try # 0
    <2> DEFINE n == acx.map.CodeEnd + RadioSize
    <2>1. IssueCmd("radioinit", [acx EXCEPT !.radioOn = TRUE, !.map.CodeEnd = n], mm)
      BY <1>5 DEF RadioInit
    <2>2. n = acx.map.CodeEnd + RadioSize
      OBVIOUS
    <2> HIDE DEF n
    <2>3. acx' = [acx EXCEPT !.radioOn = TRUE, !.map.CodeEnd = n] =>
            /\ acx'.map = [acx.map EXCEPT !.CodeEnd = n]
            /\ acx'.ecpu = acx.ecpu /\ acx'.awake = acx.awake
            /\ acx'.templates = acx.templates /\ acx'.linked = acx.linked
            /\ acx'.queue = acx.queue /\ acx'.pools = acx.pools
            /\ acx'.disturbed = acx.disturbed
      BY <1>1 DEF Adapter
    <2>4. Outcome("radioinit")
      BY <2>1, <2>2, <2>3, CommandSucceeds DEF TemplateNames, Buffers
    <2> QED BY <2>4
  <1> QED BY <1>2, <1>3, <1>4, <1>5

LEMMA FirmwareSteps ==
  ASSUME CodeIInv, Upload \/ StartEcpu \/ UploadRadioFw
  PROVE  \E x : Outcome(x)
  <1> USE DEF Succeeds, MapEffect, AdapterEffect, HostEffect
  <1>1. acx \in Adapter
    BY CodeFacts
  <1>2. CASE Upload
    <2>1. /\ todo # <<>> /\ Head(todo).do = "upload" /\ UNCHANGED <<cmd_area, acx_txbuf, mm>>
          /\ Head(todo).fails # "ignored"
      BY <1>2, CodeFacts DEF Upload, At, Ignorable
    <2>2. PICK code, p :
            /\ acx' = [acx EXCEPT !.code = code, !.patch = p]
            /\ IF Validated(fw_image, code)
               THEN FW_LOADED' = TRUE /\ Done /\ UNCHANGED <<bufs, live, acxdesc>>
               ELSE /\ UNCHANGED FW_LOADED
                    /\ \/ UNCHANGED <<todo, result, op, image, bufs, live, acxdesc>>
                       \/ Fails
      BY <1>2 DEF Upload
    <2>3. /\ acx'.map = acx.map /\ acx'.ecpu = acx.ecpu /\ acx'.awake = acx.awake
          /\ acx'.templates = acx.templates /\ acx'.linked = acx.linked
          /\ acx'.queue = acx.queue /\ acx'.pools = acx.pools
          /\ acx'.disturbed = acx.disturbed
      BY <1>1, <2>2 DEF Adapter
    <2>4. CASE FW_LOADED' = TRUE /\ Done /\ UNCHANGED <<bufs, live, acxdesc>>
      <3>1. Outcome("upload")
        BY <2>1, <2>3, <2>4 DEF Outcome, TemplateNames, Buffers
      <3> QED BY <3>1
    <2>5. CASE /\ UNCHANGED FW_LOADED
               /\ UNCHANGED <<todo, result, op, image, bufs, live, acxdesc>>
      <3>1. Outcome("upload")
        BY <2>1, <2>3, <2>5 DEF Outcome, TriedAgain
      <3> QED BY <3>1
    <2>6. CASE Fails
      <3>1. Outcome("upload")
        BY <2>1, <2>3, <2>6, FailureIs DEF Outcome
      <3> QED BY <3>1
    <2> QED BY <2>2, <2>4, <2>5, <2>6
  <1>3. CASE StartEcpu
    <2>1. /\ todo # <<>> /\ Head(todo).do = "startEcpu" /\ UNCHANGED driver /\ Done
          /\ acx.patch \in Patches
      BY <1>3 DEF StartEcpu, At, CodeIInv, EcpuFollows, PatchFits
    <2>2. PICK end, m, d :
            /\ end \in CodeEnds
            /\ acx' = [acx EXCEPT !.ecpu = "running", !.map = m, !.disturbed = d]
            /\ m = [NoMap EXCEPT !.CodeEnd = end, !.PoolEnd = MemorySize]
            /\ acx.disturbed => d
      BY <1>3 DEF StartEcpu
    <2>3. end \in 0..PatchedSize
      BY <2>1, <2>2, CodeEndsAre
    <2>4. /\ acx'.map = m /\ acx'.ecpu = "running" /\ acx'.awake = acx.awake
          /\ acx'.templates = acx.templates /\ acx'.linked = acx.linked
          /\ acx'.queue = acx.queue /\ acx'.pools = acx.pools
          /\ acx.disturbed => acx'.disturbed
      BY <1>1, <2>2 DEF Adapter
    <2>5. Outcome("startEcpu")
      BY <2>1, <2>2, <2>3, <2>4 DEF Outcome, driver, TemplateNames, Buffers
    <2> QED BY <2>5
  <1>4. CASE UploadRadioFw
    <2>1. todo # <<>> /\ Head(todo).do = "radio" /\ UNCHANGED driver
      BY <1>4 DEF UploadRadioFw, At
    <2>2. Done \/ UNCHANGED <<todo, result, op, image>>
      BY <1>4 DEF UploadRadioFw
    <2>3. /\ acx'.map = acx.map /\ acx'.ecpu = acx.ecpu /\ acx'.awake = acx.awake
          /\ acx'.templates = acx.templates /\ acx'.linked = acx.linked
          /\ acx'.queue = acx.queue /\ acx'.pools = acx.pools
          /\ acx'.disturbed = acx.disturbed
      <3>1. PICK code, c, p : acx' = [acx EXCEPT !.radio = code, !.code = c, !.patch = p]
        BY <1>4 DEF UploadRadioFw
      <3> QED BY <1>1, <3>1 DEF Adapter
    <2>4. Outcome("radio")
      BY <2>1, <2>2, <2>3 DEF Outcome, TriedAgain, driver, TemplateNames, Buffers
    <2> QED BY <2>4
  <1> QED BY <1>2, <1>3, <1>4

LEMMA StepsOfTheHost ==
  ASSUME CodeIInv, VerifyInit \/ InitMboxes \/ InitMemory \/ Allocate \/ CreateDescQueues
  PROVE  \E x : Outcome(x)
  <1> USE DEF Succeeds, MapEffect, AdapterEffect, HostEffect
  <1>1. acx \in Adapter
    BY CodeFacts
  <1>2. CASE VerifyInit
    <2>1. Outcome("verifyInit")
      BY <1>2, CodeFacts, FailureIs
         DEF VerifyInit, Outcome, At, TemplateNames, Buffers, Ignorable
    <2> QED BY <2>1
  <1>3. CASE InitMboxes
    <2>1. Outcome("initMboxes")
      BY <1>3 DEF InitMboxes, Outcome, At, TemplateNames, Buffers
    <2> QED BY <2>1
  <1>4. CASE CreateDescQueues
    <2>1. Outcome("rings")
      BY <1>4 DEF CreateDescQueues, Outcome, At, TemplateNames, Buffers
    <2> QED BY <2>1
  <1>5. CASE Allocate
    <2>1. PICK b \in Buffers :
            /\ At(b)
            /\ \/ bufs' = bufs \cup {b} /\ Done /\ UNCHANGED acxdesc
               \/ Fails
      BY <1>5 DEF Allocate
    <2>2. /\ todo # <<>> /\ Head(todo).do = b
          /\ UNCHANGED <<acx, FW_LOADED, cmd_area, acx_txbuf, mm>>
      BY <1>5, <2>1 DEF Allocate, At
    <2>3. b \notin {"startEcpu", "radioinit", "wepCache", "templatesAt", "queuesAt", "poolAt",
                    "queueConfig", "map", "queueAddress", "sleep", "wake", "memoryConfig111",
                    "initMemory", "memoryConfig", "upload", "initMboxes", "rings"}
                   \cup TemplateNames \cup Ignorable
      BY DEF TemplateNames, Buffers, Ignorable
    <2>4. Outcome(b)
      BY <2>1, <2>2, <2>3, CodeFacts, FailureIs DEF Outcome
    <2> QED BY <2>4
  <1>6. CASE InitMemory
    <2>1. todo # <<>> /\ Head(todo).do = "initMemory" /\ Head(todo).fails # "ignored"
      BY <1>6, CodeFacts DEF InitMemory, At, Ignorable
    <2>2. acx' = [acx EXCEPT !.linked = TRUE] =>
            /\ acx'.map = acx.map /\ acx'.ecpu = acx.ecpu /\ acx'.awake = acx.awake
            /\ acx'.templates = acx.templates /\ acx'.linked = TRUE
            /\ acx'.queue = acx.queue /\ acx'.pools = acx.pools
            /\ acx'.disturbed = acx.disturbed
      BY <1>1 DEF Adapter
    <2>3. Outcome("initMemory")
      BY <1>6, <2>1, <2>2, FailureIs DEF InitMemory, Outcome, TemplateNames, Buffers
    <2> QED BY <2>3
  <1> QED BY <1>2, <1>3, <1>4, <1>5, <1>6
-------------------------------------------------------------------------------
(* The memory is large enough, wherever a boot ends. *)

LEMMA RoomsAre ==
  /\ CodeSize \in Nat /\ RadioSize \in Nat /\ TemplateSize \in Nat /\ MemorySize \in Nat
  /\ OtherAddress \in Nat /\ TxBytes \in Nat /\ RxBytes \in Nat
  /\ CodeRoom \in Nat /\ TemplateRoom \in Nat
  /\ PatchedSize \in Nat /\ CodeSize <= PatchedSize /\ CodeRoom = PatchedSize + RadioSize
  /\ CodeRoom + TemplateRoom + TxBytes + RxBytes + 51 <= MemorySize
  BY BootAssumption, RoomAssumption, MemoryMapAssumption DEF CodeRoom, TemplateRoom, PatchedSize

LEMMA FieldsAre ==
  DOMAIN NoMap = {"CodeEnd", "WEPCacheStart", "WEPCacheEnd", "PacketTemplateStart",
                  "PacketTemplateEnd", "QueueStart", "QueueEnd", "PoolStart", "PoolEnd"}
  BY DEF NoMap

LEMMA FieldTypes ==
  ASSUME NEW m \in MemMap
  PROVE  /\ m.CodeEnd \in Nat /\ m.WEPCacheStart \in Nat /\ m.WEPCacheEnd \in Nat
         /\ m.PacketTemplateStart \in Nat /\ m.PacketTemplateEnd \in Nat
         /\ m.QueueStart \in Nat /\ m.QueueEnd \in Nat
         /\ m.PoolStart \in Nat /\ m.PoolEnd \in Nat
  BY DEF MemMap, Address

LEMMA FieldsFit ==
  ASSUME NEW m \in MemMap, MapFits(m)
  PROVE  \A f \in DOMAIN NoMap : m[f] \in 0..MemorySize
  <1>1. /\ m.CodeEnd \in 0..MemorySize /\ m.WEPCacheStart \in 0..MemorySize
        /\ m.WEPCacheEnd \in 0..MemorySize /\ m.PacketTemplateStart \in 0..MemorySize
        /\ m.PacketTemplateEnd \in 0..MemorySize /\ m.QueueStart \in 0..MemorySize
        /\ m.QueueEnd \in 0..MemorySize /\ m.PoolStart \in 0..MemorySize
        /\ m.PoolEnd \in 0..MemorySize
    BY RoomsAre, FieldTypes DEF MapFits
  <1> QED BY <1>1, FieldsAre

\* One field of the map is set.
LEMMA CodeEndFits ==
  ASSUME NEW m \in MemMap, MapFits(m), NEW end, end <= CodeRoom
  PROVE  MapFits([m EXCEPT !.CodeEnd = end])
  BY DEF MapFits, MemMap

LEMMA TemplatesEndFits ==
  ASSUME NEW m \in MemMap, MapFits(m), NEW end, end <= CodeRoom + 4 + TemplateRoom
  PROVE  MapFits([m EXCEPT !.PacketTemplateEnd = end])
  BY DEF MapFits, MemMap

LEMMA QueueConfigFits ==
  ASSUME NEW m \in MemMap, MapFits(m),
         NEW end \in {QueueConfig(m).QueueEnd, QueueConfig(m).HostQueueEnd}
  PROVE  MapFits([m EXCEPT !.QueueEnd = end])
  <1>1. end = m.QueueStart + TxBytes + RxBytes \/ end = m.QueueStart + TxBytes + RxBytes + 8
    BY DEF QueueConfig
  <1>2. m.QueueStart <= CodeRoom + 8 + TemplateRoom /\ m.QueueStart \in Nat
    BY FieldTypes DEF MapFits
  <1>3. end <= CodeRoom + 16 + TemplateRoom + TxBytes + RxBytes
    BY <1>1, <1>2, RoomsAre
  <1> QED BY <1>3 DEF MapFits, MemMap

LEMMA SetMapsFit ==
  ASSUME NEW m \in MemMap, MapFits(m)
  PROVE  MapFits(WepCache(m)) /\ MapFits(TemplatesAt(m)) /\ MapFits(QueuesAt(m))
         /\ MapFits(PoolAt(m))
  <1>1. MapFits(WepCache(m))
    <2>1. m.CodeEnd + 4 <= CodeRoom + 4
      BY RoomsAre, FieldTypes DEF MapFits
    <2> QED BY <2>1 DEF MapFits, MemMap, WepCache
  <1>2. MapFits(TemplatesAt(m))
    BY DEF MapFits, MemMap, TemplatesAt
  <1>3. MapFits(QueuesAt(m))
    <2>1. m.PacketTemplateEnd + 4 <= CodeRoom + 8 + TemplateRoom
      BY RoomsAre, FieldTypes DEF MapFits
    <2> QED BY <2>1 DEF MapFits, MemMap, QueuesAt
  <1>4. MapFits(PoolAt(m))
    <2>1. m.QueueEnd + 4 \in Address /\ m.QueueEnd \in Nat
      BY FieldTypes DEF Address
    <2>2. /\ Align(m.QueueEnd + 4) \in Nat
          /\ Align(m.QueueEnd + 4) < (m.QueueEnd + 4) + 32
      BY <2>1, AlignIsUp DEF Address
    <2>3. m.QueueEnd <= CodeRoom + 16 + TemplateRoom + TxBytes + RxBytes
      BY DEF MapFits
    <2>4. Align(m.QueueEnd + 4) <= MemorySize
      BY <2>1, <2>2, <2>3, RoomsAre
    <2> QED BY <2>4 DEF MapFits, MemMap, PoolAt
  <1> QED BY <1>1, <1>2, <1>3, <1>4

LEMMA NoMapFits == MapFits(NoMap)
  BY RoomsAre DEF MapFits, NoMap

LEMMA FirstMapFits ==
  \A end \in 0..PatchedSize : MapFits([NoMap EXCEPT !.CodeEnd = end, !.PoolEnd = MemorySize])
  BY RoomsAre DEF MapFits, NoMap

\* The driver computes from the map the adapter has.
LEMMA FreshForSteps ==
  ASSUME ReadyIInv, todo # <<>>,
         Head(todo).do \in {"wepCache", "templatesAt", "queuesAt", "queueConfig", "poolAt"}
  PROVE  mm = acx.map
  BY DEF ReadyIInv, MapIsFresh, Prior

\* The templates before the one of this place.
LEMMA TemplatesSoFar ==
  ASSUME NEW r \in 0..Last, GrowthIsBounded(r), NEW t \in TemplateNames, ComesNext(r, t),
         Past(r, "resetMac"), acx.map \in MemMap, AdapterFits,
         NEW n \in 0..5, Place[t] < n + Place["probeRequest"]
  PROVE  TemplatesEnd + TemplateSize <= CodeRoom + 4 + n * TemplateSize
  <1> DEFINE k == Place[t] - 12
  <1>1. Place[t] \in 12..16
    BY PlacesAre DEF TemplateNames
  <1>2. r < k + Place["probeRequest"] /\ k \in 0..4 /\ k + 1 <= n
    BY <1>1, PlacesAre DEF ComesNext, Past
  <1> HIDE DEF k
  <1> DEFINE a == k * TemplateSize
             b == n * TemplateSize
  <1>3. a \in Nat /\ b \in Nat /\ a + TemplateSize <= b
    <2>1. \A l \in 0..4 : l * TemplateSize \in Nat /\
                          \A j \in 0..5 : l + 1 <= j => j * TemplateSize \in Nat /\
                            l * TemplateSize + TemplateSize <= j * TemplateSize
      BY RoomsAre
    <2> QED BY <1>2, <2>1
  <1>4. acx.map.PacketTemplateEnd <= CodeRoom + 4 + a
    BY <1>2 DEF GrowthIsBounded
  <1> HIDE DEF a, b
  <1>5. acx.map.PacketTemplateStart <= CodeRoom + 4
    BY DEF AdapterFits, MapFits
  <1>6. TemplatesEnd <= CodeRoom + 4 + a /\ TemplatesEnd \in Nat
    BY <1>3, <1>4, <1>5, RoomsAre, FieldTypes DEF TemplatesEnd
  <1>7. TemplatesEnd + TemplateSize <= CodeRoom + 4 + b
    BY <1>3, <1>6, RoomsAre
  <1> QED BY <1>7 DEF b

LEMMA MapGoesOn ==
  ASSUME acx.map \in MemMap, mm \in MemMap, AdapterFits,
         NEW r \in 0..Last, GrowthIsBounded(r),
         NEW x, ComesNext(r, x), x # "resetMac", MapEffect(x), AdapterEffect(x),
         x \in {"wepCache", "templatesAt", "queuesAt", "queueConfig", "poolAt"} => mm = acx.map
  PROVE  AdapterFits' /\ GrowthIsBounded(Place[x])'
  <1>1. /\ acx.map \in MemMap /\ mm \in MemMap
        /\ \A e : [acx.map EXCEPT !.CodeEnd = e].PacketTemplateEnd
                       = acx.map.PacketTemplateEnd
        /\ \A e : [acx.map EXCEPT !.CodeEnd = e].CodeEnd = e
        /\ \A e : /\ [acx.map EXCEPT !.PacketTemplateEnd = e].CodeEnd = acx.map.CodeEnd
                  /\ [acx.map EXCEPT !.PacketTemplateEnd = e].PacketTemplateEnd = e
        /\ \A e : /\ [acx.map EXCEPT !.QueueEnd = e].CodeEnd = acx.map.CodeEnd
                  /\ [acx.map EXCEPT !.QueueEnd = e].PacketTemplateEnd
                       = acx.map.PacketTemplateEnd
    BY DEF MemMap
  <1>2. ComesNext(r, x) /\ Past(r, "resetMac") /\ Place[x] \in 0..Last /\ r < Place[x]
    <2>1. x \in Placed /\ Place[x] \in 1..Last /\ ~ (Place[x] <= r) /\ Last \in Nat
      BY NeededArePlaced, PlacedIn DEF ComesNext, Past, Last
    <2>2. "resetMac" \in Needed /\ Past(Place[x], "resetMac")
      BY <2>1, PlacesAre DEF Needed, Past
    <2> QED BY <2>1, <2>2 DEF ComesNext
  <1>3. GrowthIsBounded(r) /\ AdapterFits /\ MapFits(acx.map)
    BY DEF AdapterFits
  <1>5. acx'.queue <= MemorySize
    <2>1. x = "queueConfig" => mm.QueueStart <= MemorySize
      BY <1>1, <1>3, RoomsAre, FieldTypes DEF MapFits
    <2>2. MemorySize \div 2 <= MemorySize
      BY RoomsAre
    <2> QED BY <1>3, <2>1, <2>2 DEF AdapterEffect, AdapterFits
  <1>6. ASSUME MapFits(acx'.map),
               ~Past(Place[x], "radioinit") =>
                 acx'.map.CodeEnd \in 0..PatchedSize \cup {acx.map.CodeEnd},
               \A n \in 0..5 : Place[x] < n + Place["probeRequest"] =>
                 \/ acx'.map.PacketTemplateEnd \in {0, acx.map.PacketTemplateEnd}
                 \/ acx'.map.PacketTemplateEnd <= CodeRoom + 4 + n * TemplateSize
        PROVE  AdapterFits' /\ GrowthIsBounded(Place[x])'
    <2>1. ~Past(Place[x], "radioinit") => acx'.map.CodeEnd <= PatchedSize
      <3>1. ~Past(Place[x], "radioinit") => ~Past(r, "radioinit")
        BY <1>2, PlacesAre DEF Past, Last
      <3> QED BY <1>2, <1>3, <1>6, <3>1, RoomsAre DEF GrowthIsBounded
    <2>2. ASSUME NEW n \in 0..5, Place[x] < n + Place["probeRequest"]
          PROVE  acx'.map.PacketTemplateEnd <= CodeRoom + 4 + n * TemplateSize
      <3>1. r < n + Place["probeRequest"]
        BY <1>2, <2>2, PlacesAre DEF Last
      <3>2. acx.map.PacketTemplateEnd <= CodeRoom + 4 + n * TemplateSize
        BY <1>2, <1>3, <3>1 DEF GrowthIsBounded
      <3>3. 0 <= CodeRoom + 4 + n * TemplateSize
        BY RoomsAre
      <3> QED BY <1>6, <2>2, <3>2, <3>3
    <2>3. GrowthIsBounded(Place[x])'
      BY <2>1, <2>2 DEF GrowthIsBounded
    <2> QED BY <1>5, <1>6, <2>3 DEF AdapterFits
  <1>7. CASE x = "startEcpu"
    <2>1. PICK end \in 0..PatchedSize :
            acx'.map = [NoMap EXCEPT !.CodeEnd = end, !.PoolEnd = MemorySize]
      BY <1>7 DEF MapEffect, TemplateNames
    <2>2. acx'.map.CodeEnd = end /\ acx'.map.PacketTemplateEnd = 0
      BY <2>1 DEF NoMap
    <2> QED BY <1>6, <2>1, <2>2, FirstMapFits
  <1>8. CASE x = "radioinit"
    <2>1. acx.map.CodeEnd + RadioSize <= CodeRoom
      <3>1. acx.map.CodeEnd <= PatchedSize
        BY <1>2, <1>3, <1>8 DEF GrowthIsBounded, ComesNext
      <3> QED BY <1>1, <3>1, RoomsAre, FieldTypes
    <2>2. \/ acx'.map = acx.map
          \/ acx'.map = [acx.map EXCEPT !.CodeEnd = acx.map.CodeEnd + RadioSize]
      BY <1>8 DEF MapEffect, TemplateNames
    <2>3. Past(Place[x], "radioinit")
      BY <1>2, <1>8 DEF ComesNext
    <2>4. MapFits(acx'.map)
      BY <1>1, <1>3, <2>1, <2>2, CodeEndFits
    <2>5. acx'.map.PacketTemplateEnd = acx.map.PacketTemplateEnd
      BY <1>1, <2>2
    <2> QED BY <1>6, <2>3, <2>4, <2>5
  <1>9. CASE x \in TemplateNames
    <2>1. acx'.map = [acx.map EXCEPT !.PacketTemplateEnd = TemplatesEnd + TemplateSize]
      BY <1>9 DEF MapEffect, TemplateNames
    <2>2. /\ acx'.map.CodeEnd = acx.map.CodeEnd
          /\ acx'.map.PacketTemplateEnd = TemplatesEnd + TemplateSize
      BY <1>1, <2>1
    <2>3. \A n \in 0..5 : Place[x] < n + Place["probeRequest"] =>
            TemplatesEnd + TemplateSize <= CodeRoom + 4 + n * TemplateSize
      BY <1>1, <1>2, <1>3, <1>9, TemplatesSoFar
    <2>4. TemplatesEnd + TemplateSize <= CodeRoom + 4 + TemplateRoom
      <3>1. 5 \in 0..5 /\ Place[x] < 5 + Place["probeRequest"]
        BY <1>9, PlacesAre DEF TemplateNames
      <3> QED BY <2>3, <3>1 DEF TemplateRoom
    <2>5. MapFits(acx'.map)
      BY <1>1, <1>3, <2>1, <2>4, TemplatesEndFits
    <2> QED BY <1>6, <2>2, <2>3, <2>5
  <1>10. CASE x = "queueConfig"
    <2>1. PICK end \in {QueueConfig(mm).QueueEnd, QueueConfig(mm).HostQueueEnd} :
            acx'.map = [acx.map EXCEPT !.QueueEnd = end]
      BY <1>10 DEF MapEffect, TemplateNames
    <2>2. mm = acx.map
      BY <1>10
    <2>3. MapFits([acx.map EXCEPT !.QueueEnd = end])
      BY <1>1, <1>3, <2>1, <2>2, QueueConfigFits
    <2> QED BY <1>1, <1>6, <2>1, <2>3
  <1>11. CASE x \in {"wepCache", "templatesAt", "queuesAt", "poolAt"}
    <2>1. mm = acx.map /\ acx'.map = SetMap(x)
      BY <1>11 DEF MapEffect, TemplateNames
    <2>2. MapFits(acx'.map)
      BY <1>1, <1>3, <1>11, <2>1, SetMapsFit DEF SetMap
    <2>3. /\ acx'.map.CodeEnd = acx.map.CodeEnd
          /\ acx'.map.PacketTemplateEnd = acx.map.PacketTemplateEnd
      BY <1>1, <1>11, <2>1 DEF SetMap, WepCache, TemplatesAt, QueuesAt, PoolAt, MemMap
    <2> QED BY <1>6, <2>2, <2>3
  <1>12. CASE acx'.map = acx.map
    BY <1>3, <1>6, <1>12
  <1>13. \/ x = "startEcpu" \/ x = "radioinit" \/ x \in TemplateNames \/ x = "queueConfig"
         \/ x \in {"wepCache", "templatesAt", "queuesAt", "poolAt"} \/ acx'.map = acx.map
    BY DEF MapEffect
  <1> QED BY <1>7, <1>8, <1>9, <1>10, <1>11, <1>12, <1>13

\* What the adapter and the driver fill in stays within the memory.
LEMMA DriverGoesOn ==
  ASSUME acx.map \in MemMap, mm \in MemMap, acx.queue \in Nat, AdapterFits, DriverFits,
         NEW x, MapEffect(x), HostEffect(x),
         x \in {"wepCache", "templatesAt", "queuesAt", "queueConfig", "poolAt"} => mm = acx.map
  PROVE  DriverFits'
  <1>1. \A m \in MemMap : MapFits(m) => \A f \in DOMAIN NoMap : m[f] \in 0..MemorySize
    BY FieldsFit
  <1>2. MapFits(acx.map) /\ acx.queue \in 0..MemorySize
    BY RoomsAre DEF AdapterFits
  <1>3. mm'.QueueStart = mm'["QueueStart"] /\ mm.QueueStart \in 0..MemorySize
    BY FieldsAre DEF DriverFits
  <1>4. acxdesc' \in 0..MemorySize
    BY <1>3 DEF HostEffect, DriverFits
  <1>5. CASE mm' = mm
    BY <1>4, <1>5 DEF DriverFits
  <1>6. CASE mm' = acx.map
    BY <1>1, <1>2, <1>4, <1>6 DEF DriverFits
  <1>7. CASE x \in {"wepCache", "templatesAt", "queuesAt", "poolAt"} /\ mm' = SetMap(x)
    <2>1. MapFits(mm')
      BY <1>2, <1>7, SetMapsFit DEF SetMap
    <2>2. mm' \in MemMap
      BY <1>7, MapsAreMaps DEF SetMap
    <2> QED BY <1>1, <1>4, <2>1, <2>2 DEF DriverFits
  <1>8. CASE mm' = [mm EXCEPT !.QueueStart = acx.queue]
    <2>1. \A f \in DOMAIN NoMap : mm'[f] = mm[f] \/ (f = "QueueStart" /\ mm'[f] = acx.queue)
      BY <1>8, FieldsAre DEF MemMap
    <2> QED BY <1>2, <1>4, <2>1 DEF DriverFits
  <1> QED BY <1>5, <1>6, <1>7, <1>8 DEF MapEffect

LEMMA PassedOverFits ==
  ASSUME DriverFits, NEW x, mm \in MemMap, mm' \in Unanswered(x), acxdesc' = acxdesc
  PROVE  DriverFits'
  <1>1. CASE mm' = mm
    BY <1>1 DEF DriverFits
  <1>2. CASE \E a \in {OtherAddress, CodeSize} : mm' = [NoMap EXCEPT !.CodeEnd = a]
    <2>1. PICK a \in {OtherAddress, CodeSize} : mm' = [NoMap EXCEPT !.CodeEnd = a]
      BY <1>2
    <2>2. \A f \in DOMAIN NoMap : mm'[f] = 0 \/ (f = "CodeEnd" /\ mm'[f] = a)
      BY <2>1 DEF NoMap
    <2>3. 0 \in 0..MemorySize /\ CodeSize \in 0..MemorySize
      BY RoomsAre
    <2> QED BY <2>1, <2>2, <2>3 DEF DriverFits
  <1>3. CASE mm' = [mm EXCEPT !.QueueStart = 0]
    <2>1. \A f \in DOMAIN NoMap : mm'[f] = mm[f] \/ mm'[f] = 0
      BY <1>3, FieldsAre DEF MemMap
    <2>2. 0 \in 0..MemorySize
      BY RoomsAre
    <2> QED BY <2>1, <2>2 DEF DriverFits
  <1> QED BY <1>1, <1>2, <1>3 DEF Unanswered

\* What the driver computes from next is fresh.
LEMMA FreshGoesOn ==
  ASSUME CodeIInv, ReadyIInv, NEW r \in 0..Last, Part(todo, r, Last), NEW x, todo # <<>>,
         x = Head(todo).do, Done,
         \/ MapEffect(x)
         \/ Head(todo).fails = "ignored" /\ x \in Ignorable
  PROVE  MapIsFresh'
  <1> DEFINE y == Head(todo').do
  <1> SUFFICES ASSUME todo' # <<>>, Prior(y) \in {"map", "wepCache"}, y # "sleep"
               PROVE  mm' = acx'.map
    BY DEF MapIsFresh
  <1>1. x = Prior(y)
    BY CodeFacts, DoneMoves DEF None
  <1>2. CASE x = "map" /\ MapEffect(x)
    BY <1>2 DEF MapEffect, TemplateNames
  <1>3. CASE x = "wepCache" /\ MapEffect(x)
    BY <1>3 DEF MapEffect, TemplateNames
  <1>4. CASE x = "map" /\ Head(todo).fails = "ignored"
    BY <1>4, PartGoesOn DEF AfterMap
  <1> QED BY <1>1, <1>2, <1>3, <1>4 DEF Ignorable

LEMMA NextIs ==
  ASSUME NEW r \in 0..Last, NEW x, ComesNext(r, x)
  PROVE  /\ x \in Placed /\ Place[x] \in 0..Last /\ Place[x] \in 1..33 /\ r \in Nat
         /\ r < Place[x]
         /\ \A y \in Placed : Past(Place[x], y) <=> Place[y] <= Place[x]
         /\ \A y \in Placed : Past(r, y) <=> Place[y] <= r
         /\ x # "resetMac" => Past(r, "resetMac")
         /\ Past(Place[x], "resetMac") /\ (x = "sleep" => r < 6)
  <1>1. /\ x \in Placed /\ Place[x] \in 0..Last /\ Place[x] \in 1..33 /\ r \in Nat
        /\ ~ (Place[x] <= r)
    BY NeededArePlaced, PlacedIn DEF ComesNext, Past, Last
  <1>2. "resetMac" \in Needed /\ Past(Place[x], "resetMac")
    BY <1>1, PlacesAre DEF Needed, Past
  <1>3. x = "sleep" => r < 6
    BY <1>1, PlacesAre
  <1> QED BY <1>1, <1>2, <1>3 DEF ComesNext, Past

LEMMA HostGoesOn ==
  ASSUME NEW r \in 0..Last, NEW x, ComesNext(r, x), HostIsReady(r),
         HostEffect(x) \/ (x \in Ignorable /\ UNCHANGED <<FW_LOADED, cmd_area, bufs>>),
         UNCHANGED card
  PROVE  HostIsReady(Place[x])'
  <1>1. /\ {"upload", "initMboxes"} \subseteq Needed /\ Buffers \subseteq Needed
        /\ Buffers' = Buffers
    BY DEF Needed, Buffers, Acx100
  <1>2. \A y \in Needed : Past(Place[x], y) => y = x \/ Past(r, y)
    BY DEF ComesNext
  <1>3. CASE HostEffect(x)
    BY <1>1, <1>2, <1>3 DEF HostEffect, HostIsReady
  <1>4. CASE x \in Ignorable /\ UNCHANGED <<FW_LOADED, cmd_area, bufs>>
    <2>1. x \notin {"upload", "initMboxes"} \cup Buffers
      BY <1>4 DEF Ignorable, Buffers
    <2> QED BY <1>1, <1>2, <1>4, <2>1 DEF HostIsReady
  <1> QED BY <1>3, <1>4

LEMMA AdapterGoesOn ==
  ASSUME NEW r \in 0..Last, NEW x, ComesNext(r, x), x # "resetMac", AdapterIsReady(r),
         AdapterEffect(x), UNCHANGED <<card, radio_image>>
  PROVE  AdapterIsReady(Place[x])'
  <1> DEFINE last == IF Acx100 THEN "initMemory" ELSE "memoryConfig111"
  <1>1. /\ "startEcpu" \in Needed /\ TemplateNames \subseteq Needed
        /\ radio_image # None => {"sleep", "wake"} \subseteq Needed
        /\ last \in Needed
        /\ TemplateNames \subseteq Placed /\ "sleep" \in Placed
    BY DEF Needed, TemplateNames, Placed, StepNames
  <1>2. /\ \A y \in Needed : Past(Place[x], y) => y = x \/ Past(r, y)
        /\ \A y \in Placed : Past(r, y) => Past(Place[x], y)
        /\ Past(Place[x], x) /\ Past(r, "resetMac")
    BY NextIs DEF ComesNext
  <1>3. Past(Place[x], "startEcpu") => acx'.ecpu = "running"
    BY <1>1, <1>2 DEF AdapterEffect, AdapterIsReady
  <1>4. acx'.awake \/ (radio_image # None /\ Past(Place[x], "sleep") /\ ~Past(Place[x], "wake"))
    <2>1. CASE x = "sleep"
      <3>1. radio_image # None
        BY <2>1 DEF ComesNext, Needed, TemplateNames, Buffers
      <3>2. ~Past(6, "wake") /\ Place[x] = 6
        BY <2>1, PlacesAre DEF Past
      <3> QED BY <1>2, <2>1, <3>1, <3>2
    <2>2. CASE x = "wake"
      BY <2>2 DEF AdapterEffect
    <2>3. CASE x # "sleep" /\ x # "wake"
      BY <1>1, <1>2, <2>3 DEF AdapterEffect, AdapterIsReady
    <2> QED BY <2>1, <2>2, <2>3
  <1>5. acx'.templates = {t \in TemplateNames : Past(Place[x], t)}
    <2>1. \A t \in TemplateNames : Past(Place[x], t) <=> t = x \/ Past(r, t)
      BY <1>1, <1>2
    <2> QED BY <1>2, <2>1 DEF AdapterEffect, AdapterIsReady
  <1>6. Past(Place[x], last) => acx'.linked
    BY <1>1, <1>2 DEF AdapterEffect, AdapterIsReady
  <1> QED BY <1>3, <1>4, <1>5, <1>6 DEF AdapterIsReady, Acx100

LEMMA NeededHere ==
  /\ Needed \subseteq Placed
  /\ Acx100 => /\ {"queuesAt", "queueConfig", "poolAt", "memoryConfig", "initMemory", "wepCache",
                   "templatesAt"} \subseteq Needed
               /\ "memoryConfig111" \notin Needed /\ "queueAddress" \notin Needed
  /\ ~Acx100 => /\ {"memoryConfig111", "queueAddress"} \subseteq Needed
                /\ Needed \cap {"wepCache", "templatesAt", "queuesAt", "queueConfig", "poolAt",
                                "memoryConfig", "initMemory"} = {}
  /\ {"startEcpu", "rings", "probeRequest"} \subseteq Needed
  <1>1. Needed \subseteq Placed
    BY NeededArePlaced
  <1> QED BY <1>1 DEF Needed, TemplateNames, Buffers

LEMMA QueuesGoOn ==
  ASSUME NEW r \in 0..Last, NEW x, ComesNext(r, x), QueuesAreKnown(r), acx.map \in MemMap,
         mm \in MemMap, MapEffect(x), AdapterEffect(x), HostEffect(x), UNCHANGED card,
         x \in {"wepCache", "templatesAt", "queuesAt", "queueConfig", "poolAt"} => mm = acx.map
  PROVE  QueuesAreKnown(Place[x])'
  <1>1. /\ x \in Placed /\ Place[x] \in 1..33 /\ r \in Nat /\ r < Place[x] /\ x # "map"
        /\ \A y \in Placed : Past(Place[x], y) <=> Place[y] <= Place[x]
        /\ \A y \in Placed : Past(r, y) <=> Place[y] <= r
        /\ \A y \in Needed : Past(Place[x], y) => y = x \/ Past(r, y)
        /\ x \in Needed \cup {"eeprom"}
    BY NextIs DEF ComesNext, Placed
  <1>2. CASE Acx100
    <2>1. Past(Place[x], "queueConfig") => acx'.queue = acx'.map.QueueStart
      <3>1. CASE x = "queueConfig"
        <4>1. PICK end : acx'.map = [acx.map EXCEPT !.QueueEnd = end]
          BY <3>1 DEF MapEffect, TemplateNames
        <4>2. acx'.map.QueueStart = acx.map.QueueStart
          BY <4>1 DEF MemMap
        <4> QED BY <3>1, <4>2 DEF AdapterEffect
      <3>2. CASE x # "queueConfig" /\ Past(Place[x], "queueConfig")
        <4>1. Past(r, "queueConfig") /\ 19 < Place[x] /\ "queueConfig" \in Placed
          BY <1>1, <1>2, <3>2, NeededHere, PlacesAre
        <4>2. x \notin {"startEcpu", "radioinit", "wepCache", "templatesAt", "queuesAt",
                        "memoryConfig111", "queueAddress"} \cup TemplateNames
          BY <1>1, <1>2, <4>1, NeededHere, PlacesAre DEF TemplateNames
        <4>3. acx'.map = acx.map \/ acx'.map = PoolAt(acx.map)
          BY <1>1, <3>2, <4>2 DEF MapEffect, SetMap
        <4>4. acx'.map.QueueStart = acx.map.QueueStart
          BY <4>3 DEF PoolAt, MemMap
        <4>5. acx'.queue = acx.queue
          BY <3>2, <4>2 DEF AdapterEffect
        <4> QED BY <1>2, <4>1, <4>4, <4>5 DEF QueuesAreKnown
      <3> QED BY <3>1, <3>2
    <2>2. Past(Place[x], "queueConfig") /\ ~Past(Place[x], "rings") => mm'.QueueStart = acx'.queue
      <3>1. CASE x = "queueConfig"
        BY <3>1 DEF MapEffect, AdapterEffect, TemplateNames
      <3>2. CASE x # "queueConfig" /\ Past(Place[x], "queueConfig") /\ ~Past(Place[x], "rings")
        <4>1. /\ Past(r, "queueConfig") /\ 19 < Place[x] /\ Place[x] < 28 /\ ~Past(r, "rings")
              /\ "queueConfig" \in Placed
          BY <1>1, <1>2, <3>2, NeededHere, PlacesAre
        <4>2. x \notin {"startEcpu", "radioinit", "wepCache", "templatesAt", "queuesAt", "poolAt",
                        "memoryConfig111", "queueAddress"} \cup TemplateNames
          BY <1>1, <1>2, <4>1, NeededHere, PlacesAre DEF TemplateNames
        <4>3. mm' = mm /\ acx'.queue = acx.queue
          BY <1>1, <3>2, <4>2 DEF MapEffect, AdapterEffect
        <4> QED BY <1>2, <4>1, <4>3 DEF QueuesAreKnown
      <3> QED BY <3>1, <3>2
    <2>3. Past(Place[x], "rings") => acxdesc' = acx'.queue
      <3>1. CASE x = "rings"
        <4>1. Past(r, "queueConfig") /\ ~Past(r, "rings")
          <5>1. Past(Place[x], "queueConfig")
            BY <1>1, <1>2, <3>1, NeededHere, PlacesAre
          <5> QED BY <1>1, <1>2, <3>1, <5>1, NeededHere, PlacesAre
        <4> QED BY <1>2, <3>1, <4>1 DEF QueuesAreKnown, HostEffect, AdapterEffect
      <3>2. CASE x # "rings" /\ Past(Place[x], "rings")
        <4>1. Past(r, "rings") /\ 28 < Place[x]
          BY <1>1, <3>2, NeededHere, PlacesAre
        <4>2. x # "queueConfig" /\ x # "memoryConfig111"
          BY <4>1, PlacesAre
        <4> QED BY <3>2, <4>1, <4>2 DEF QueuesAreKnown, HostEffect, AdapterEffect
      <3> QED BY <3>1, <3>2
    <2> QED BY <1>2, <2>1, <2>2, <2>3 DEF QueuesAreKnown, Acx100
  <1>3. CASE ~Acx100
    <2>1. Past(Place[x], "memoryConfig111") => acx'.queue = MemorySize \div 2
      <3>1. CASE x = "memoryConfig111"
        BY <3>1 DEF AdapterEffect
      <3>2. CASE x # "memoryConfig111" /\ Past(Place[x], "memoryConfig111")
        <4>1. Past(r, "memoryConfig111") /\ 26 < Place[x]
          BY <1>1, <1>3, <3>2, NeededHere, PlacesAre
        <4>2. x # "queueConfig"
          BY <4>1, PlacesAre
        <4> QED BY <1>3, <3>2, <4>1, <4>2 DEF QueuesAreKnown, AdapterEffect
      <3> QED BY <3>1, <3>2
    <2>2. Past(Place[x], "queueAddress") /\ ~Past(Place[x], "rings") => mm'.QueueStart = acx'.queue
      <3>1. CASE x = "queueAddress"
        BY <3>1 DEF MapEffect, AdapterEffect, TemplateNames, MemMap
      <3>2. CASE x # "queueAddress" /\ Past(Place[x], "queueAddress") /\ ~Past(Place[x], "rings")
        BY <1>1, <1>3, <3>2, NeededHere, PlacesAre
      <3> QED BY <3>1, <3>2
    <2>3. Past(Place[x], "rings") => acxdesc' = acx'.queue
      <3>1. CASE x = "rings"
        <4>1. Past(r, "queueAddress") /\ ~Past(r, "rings")
          <5>1. Past(Place[x], "queueAddress")
            BY <1>1, <1>3, <3>1, NeededHere, PlacesAre
          <5> QED BY <1>1, <1>3, <3>1, <5>1, NeededHere, PlacesAre
        <4> QED BY <1>3, <3>1, <4>1 DEF QueuesAreKnown, HostEffect, AdapterEffect
      <3>2. CASE x # "rings" /\ Past(Place[x], "rings")
        <4>1. Past(r, "rings") /\ 28 < Place[x]
          BY <1>1, <3>2, NeededHere, PlacesAre
        <4>2. x # "queueConfig" /\ x # "memoryConfig111"
          BY <4>1, PlacesAre
        <4> QED BY <3>2, <4>1, <4>2 DEF QueuesAreKnown, HostEffect, AdapterEffect
      <3> QED BY <3>1, <3>2
    <2> QED BY <1>3, <2>1, <2>2, <2>3 DEF QueuesAreKnown, Acx100
  <1> QED BY <1>2, <1>3

LEMMA LayoutGoesOn ==
  ASSUME NEW r \in 0..Last, NEW x, ComesNext(r, x), x # "resetMac", Acx100,
         AdapterIsReady(r), MapIsLaidOut(r, acx.map), acx.map \in MemMap, mm \in MemMap,
         MapEffect(x),
         x \in {"wepCache", "templatesAt", "queuesAt", "queueConfig", "poolAt"} => mm = acx.map
  PROVE  MapIsLaidOut(Place[x], acx'.map)
  <1> DEFINE m == acx.map
             n == acx'.map
  <1>1. /\ x \in Placed /\ Place[x] \in 1..33 /\ r \in Nat /\ r < Place[x] /\ x # "map"
        /\ \A y \in Placed : Past(Place[x], y) <=> Place[y] <= Place[x]
        /\ \A y \in Placed : Past(r, y) <=> Place[y] <= r
        /\ \A y \in Needed : Past(Place[x], y) => y = x \/ Past(r, y)
        /\ x \in Needed \cup {"eeprom"} /\ Past(r, "resetMac")
    BY NextIs DEF ComesNext, Placed
  <1>2. /\ m.CodeEnd \in Nat /\ m.WEPCacheStart \in Nat /\ m.WEPCacheEnd \in Nat
        /\ m.PacketTemplateStart \in Nat /\ m.PacketTemplateEnd \in Nat
        /\ m.QueueStart \in Nat /\ m.QueueEnd \in Nat
        /\ m.PoolStart \in Nat /\ m.PoolEnd \in Nat
    BY FieldTypes
  <1>3. {"startEcpu", "wepCache", "templatesAt", "probeRequest", "queuesAt", "queueConfig",
         "poolAt"} \subseteq Needed \cap Placed
    BY NeededHere
  <1>4. /\ Past(Place[x], "startEcpu") => x = "startEcpu" \/ Past(r, "startEcpu")
        /\ Past(Place[x], "wepCache") => x = "wepCache" \/ Past(r, "wepCache")
        /\ Past(Place[x], "templatesAt") => x = "templatesAt" \/ Past(r, "templatesAt")
        /\ Past(Place[x], "probeRequest") => x = "probeRequest" \/ Past(r, "probeRequest")
        /\ Past(Place[x], "queuesAt") => x = "queuesAt" \/ Past(r, "queuesAt")
        /\ Past(Place[x], "queueConfig") => x = "queueConfig" \/ Past(r, "queueConfig")
        /\ Past(Place[x], "poolAt") => x = "poolAt" \/ Past(r, "poolAt")
    BY <1>1, <1>3
  <1>5. CASE x = "startEcpu"
    <2>1. PICK end : n = [NoMap EXCEPT !.CodeEnd = end, !.PoolEnd = MemorySize]
      BY <1>5 DEF MapEffect, TemplateNames
    <2>2. Place[x] = 3
      BY <1>5, PlacesAre
    <2>3. n.PoolEnd = MemorySize
      BY <2>1 DEF NoMap
    <2> HIDE DEF n
    <2>4. MapIsLaidOut(Place[x], n)
      BY <2>2, <2>3, PlacesAre DEF MapIsLaidOut, Past
    <2> QED BY <2>4 DEF n
  <1>6. CASE x = "radioinit"
    <2>1. n = m \/ n = [m EXCEPT !.CodeEnd = m.CodeEnd + RadioSize]
      BY <1>6 DEF MapEffect, TemplateNames
    <2>2. Place[x] = 9
      BY <1>6, PlacesAre
    <2>3. n.PoolEnd = m.PoolEnd
      BY <2>1 DEF MemMap
    <2>4. Past(Place[x], "startEcpu") => m.PoolEnd = MemorySize
      BY <1>4, <1>6 DEF MapIsLaidOut
    <2> HIDE DEF n, m
    <2>5. MapIsLaidOut(Place[x], n)
      BY <2>2, <2>3, <2>4, PlacesAre DEF MapIsLaidOut, Past
    <2> QED BY <2>5 DEF n
  <1>7. CASE x = "wepCache"
    <2>1. n = WepCache(m)
      BY <1>7 DEF MapEffect, SetMap, TemplateNames
    <2>2. Place[x] = 10
      BY <1>7, PlacesAre
    <2>3. n.CodeEnd < n.WEPCacheStart /\ n.WEPCacheStart <= n.WEPCacheEnd
      BY <1>2, <2>1 DEF MemMap, WepCache
    <2>4. n.PoolEnd = m.PoolEnd
      BY <2>1 DEF MemMap, WepCache
    <2>5. Past(Place[x], "startEcpu") => m.PoolEnd = MemorySize
      BY <1>4, <1>7 DEF MapIsLaidOut
    <2> HIDE DEF n, m
    <2>6. MapIsLaidOut(Place[x], n)
      BY <2>2, <2>3, <2>4, <2>5, PlacesAre DEF MapIsLaidOut, Past
    <2> QED BY <2>6 DEF n
  <1>8. CASE x = "templatesAt"
    <2>1. n = TemplatesAt(m)
      BY <1>8 DEF MapEffect, SetMap, TemplateNames
    <2>2. Place[x] = 11
      BY <1>8, PlacesAre
    <2>3. /\ n.PacketTemplateStart = m.WEPCacheEnd /\ n.PoolEnd = m.PoolEnd
          /\ n.CodeEnd = m.CodeEnd /\ n.WEPCacheStart = m.WEPCacheStart
          /\ n.WEPCacheEnd = m.WEPCacheEnd
      BY <2>1 DEF MemMap, TemplatesAt
    <2>4. /\ Past(Place[x], "startEcpu") => m.PoolEnd = MemorySize
          /\ Past(Place[x], "wepCache") =>
               m.CodeEnd < m.WEPCacheStart /\ m.WEPCacheStart <= m.WEPCacheEnd
      BY <1>4, <1>8 DEF MapIsLaidOut
    <2>5. n.WEPCacheEnd <= n.PacketTemplateStart
      BY <1>2, <2>3
    <2> HIDE DEF n, m
    <2>6. MapIsLaidOut(Place[x], n)
      BY <2>2, <2>3, <2>4, <2>5, PlacesAre DEF MapIsLaidOut, Past
    <2> QED BY <2>6 DEF n
  <1>9. CASE x \in TemplateNames
    <2>1. n = [m EXCEPT !.PacketTemplateEnd = TemplatesEnd + TemplateSize]
      BY <1>9 DEF MapEffect, TemplateNames
    <2>2. Place[x] \in 12..16 /\ x \notin {"startEcpu", "wepCache", "templatesAt"}
      BY <1>9, PlacesAre DEF TemplateNames
    <2>3. /\ n.PacketTemplateStart = m.PacketTemplateStart /\ n.PoolEnd = m.PoolEnd
          /\ n.CodeEnd = m.CodeEnd /\ n.WEPCacheStart = m.WEPCacheStart
          /\ n.WEPCacheEnd = m.WEPCacheEnd
          /\ n.PacketTemplateEnd = TemplatesEnd + TemplateSize
      BY <2>1 DEF MemMap
    <2>4. /\ Past(Place[x], "startEcpu") => m.PoolEnd = MemorySize
          /\ Past(Place[x], "wepCache") =>
               m.CodeEnd < m.WEPCacheStart /\ m.WEPCacheStart <= m.WEPCacheEnd
          /\ Past(Place[x], "templatesAt") => m.WEPCacheEnd <= m.PacketTemplateStart
      BY <1>4, <2>2 DEF MapIsLaidOut
    <2>5. m.PacketTemplateStart <= TemplatesEnd
      <3>1. CASE acx.templates = {}
        BY <1>2, <3>1 DEF TemplatesEnd
      <3>2. CASE acx.templates # {}
        <4>1. PICK t \in TemplateNames : Past(r, t)
          BY <1>1, <3>2 DEF AdapterIsReady
        <4>2. Place[t] >= 12 /\ Place[t] \in Nat /\ t \in Placed
          BY PlacesAre DEF TemplateNames, Placed, StepNames
        <4>3. Past(r, "probeRequest")
          BY <1>1, <1>3, <4>1, <4>2, PlacesAre
        <4> QED BY <3>2, <4>3 DEF MapIsLaidOut, TemplatesEnd
      <3> QED BY <3>1, <3>2
    <2>6. n.PacketTemplateStart <= n.PacketTemplateEnd
      <3>1. TemplatesEnd \in Nat
        BY <1>2 DEF TemplatesEnd
      <3> HIDE DEF n, m
      <3>2. m.PacketTemplateStart \in Nat
        BY <1>2
      <3> QED BY <2>3, <2>5, <3>1, <3>2, RoomsAre
    <2> HIDE DEF n, m
    <2>7. ~Past(Place[x], "queuesAt") /\ ~Past(Place[x], "queueConfig") /\ ~Past(Place[x], "poolAt")
      BY <2>2, PlacesAre DEF Past
    <2>8. MapIsLaidOut(Place[x], n)
      BY <2>3, <2>4, <2>6, <2>7 DEF MapIsLaidOut
    <2> QED BY <2>8 DEF n
  <1>10. CASE x = "queuesAt"
    <2>1. n = QueuesAt(m)
      BY <1>10 DEF MapEffect, SetMap, TemplateNames
    <2>2. Place[x] = 18
      BY <1>10, PlacesAre
    <2>3. /\ n.PacketTemplateStart = m.PacketTemplateStart /\ n.PoolEnd = m.PoolEnd
          /\ n.CodeEnd = m.CodeEnd /\ n.WEPCacheStart = m.WEPCacheStart
          /\ n.WEPCacheEnd = m.WEPCacheEnd
          /\ n.PacketTemplateEnd = m.PacketTemplateEnd
          /\ n.PacketTemplateEnd < n.QueueStart
      BY <1>2, <2>1 DEF MemMap, QueuesAt
    <2>4. /\ Past(Place[x], "startEcpu") => m.PoolEnd = MemorySize
          /\ Past(Place[x], "wepCache") =>
               m.CodeEnd < m.WEPCacheStart /\ m.WEPCacheStart <= m.WEPCacheEnd
          /\ Past(Place[x], "templatesAt") => m.WEPCacheEnd <= m.PacketTemplateStart
          /\ Past(Place[x], "probeRequest") => m.PacketTemplateStart <= m.PacketTemplateEnd
      BY <1>4, <1>10 DEF MapIsLaidOut
    <2> HIDE DEF n, m
    <2>5. ~Past(Place[x], "queueConfig") /\ ~Past(Place[x], "poolAt")
      BY <2>2, PlacesAre DEF Past
    <2>6. MapIsLaidOut(Place[x], n)
      BY <2>3, <2>4, <2>5 DEF MapIsLaidOut
    <2> QED BY <2>6 DEF n
  <1>11. CASE x = "queueConfig"
    <2>1. PICK end \in {QueueConfig(mm).QueueEnd, QueueConfig(mm).HostQueueEnd} :
            n = [m EXCEPT !.QueueEnd = end]
      BY <1>11 DEF MapEffect, TemplateNames
    <2>2. Place[x] = 19 /\ mm = m
      BY <1>11, PlacesAre
    <2>3. /\ n.PacketTemplateStart = m.PacketTemplateStart /\ n.PoolEnd = m.PoolEnd
          /\ n.CodeEnd = m.CodeEnd /\ n.WEPCacheStart = m.WEPCacheStart
          /\ n.WEPCacheEnd = m.WEPCacheEnd
          /\ n.PacketTemplateEnd = m.PacketTemplateEnd /\ n.QueueStart = m.QueueStart
          /\ n.QueueEnd = end
      BY <2>1 DEF MemMap
    <2>4. /\ Past(Place[x], "startEcpu") => m.PoolEnd = MemorySize
          /\ Past(Place[x], "wepCache") =>
               m.CodeEnd < m.WEPCacheStart /\ m.WEPCacheStart <= m.WEPCacheEnd
          /\ Past(Place[x], "templatesAt") => m.WEPCacheEnd <= m.PacketTemplateStart
          /\ Past(Place[x], "probeRequest") => m.PacketTemplateStart <= m.PacketTemplateEnd
          /\ Past(Place[x], "queuesAt") => m.PacketTemplateEnd < m.QueueStart
      BY <1>4, <1>11 DEF MapIsLaidOut
    <2>5. m.QueueStart <= end
      <3>1. \/ end = m.QueueStart + TxBytes + RxBytes
            \/ end = m.QueueStart + TxBytes + RxBytes + 8
        BY <2>1, <2>2 DEF QueueConfig
      <3>2. m.QueueStart \in Nat
        BY <1>2
      <3> HIDE DEF m
      <3> QED BY <3>1, <3>2, RoomsAre
    <2> HIDE DEF n, m
    <2>6. ~Past(Place[x], "poolAt")
      BY <2>2, PlacesAre DEF Past
    <2>7. MapIsLaidOut(Place[x], n)
      BY <2>3, <2>4, <2>5, <2>6 DEF MapIsLaidOut
    <2> QED BY <2>7 DEF n
  <1>12. CASE x = "poolAt"
    <2>1. n = PoolAt(m)
      BY <1>12 DEF MapEffect, SetMap, TemplateNames
    <2>2. /\ n.PacketTemplateStart = m.PacketTemplateStart /\ n.PoolEnd = m.PoolEnd
          /\ n.CodeEnd = m.CodeEnd /\ n.WEPCacheStart = m.WEPCacheStart
          /\ n.WEPCacheEnd = m.WEPCacheEnd
          /\ n.PacketTemplateEnd = m.PacketTemplateEnd /\ n.QueueStart = m.QueueStart
          /\ n.QueueEnd = m.QueueEnd /\ PoolAt(n) = n
      BY <2>1 DEF MemMap, PoolAt
    <2>3. /\ Past(Place[x], "startEcpu") => m.PoolEnd = MemorySize
          /\ Past(Place[x], "wepCache") =>
               m.CodeEnd < m.WEPCacheStart /\ m.WEPCacheStart <= m.WEPCacheEnd
          /\ Past(Place[x], "templatesAt") => m.WEPCacheEnd <= m.PacketTemplateStart
          /\ Past(Place[x], "probeRequest") => m.PacketTemplateStart <= m.PacketTemplateEnd
          /\ Past(Place[x], "queuesAt") => m.PacketTemplateEnd < m.QueueStart
          /\ Past(Place[x], "queueConfig") => m.QueueStart <= m.QueueEnd
      BY <1>4, <1>12 DEF MapIsLaidOut
    <2> HIDE DEF n, m
    <2>4. MapIsLaidOut(Place[x], n)
      BY <2>2, <2>3 DEF MapIsLaidOut
    <2> QED BY <2>4 DEF n
  <1>13. CASE /\ n = m
              /\ x \notin {"startEcpu", "radioinit", "wepCache", "templatesAt", "queuesAt",
                           "poolAt", "queueConfig"} \cup TemplateNames
    <2>1. x # "probeRequest"
      BY <1>13 DEF TemplateNames
    <2> HIDE DEF n, m
    <2>2. MapIsLaidOut(Place[x], m)
      BY <1>4, <1>13, <2>1 DEF MapIsLaidOut, m
    <2> QED BY <1>13, <2>2 DEF n
  <1>14. \/ x = "startEcpu" \/ x = "radioinit" \/ x = "wepCache" \/ x = "templatesAt"
         \/ x \in TemplateNames \/ x = "queuesAt" \/ x = "queueConfig" \/ x = "poolAt"
         \/ /\ n = m
            /\ x \notin {"startEcpu", "radioinit", "wepCache", "templatesAt", "queuesAt",
                         "poolAt", "queueConfig"} \cup TemplateNames
    BY DEF MapEffect
  <1> QED BY <1>5, <1>6, <1>7, <1>8, <1>9, <1>10, <1>11, <1>12, <1>13, <1>14

LEMMA PoolsGoOn ==
  ASSUME NEW r \in 0..Last, NEW x, ComesNext(r, x), Acx100, PoolsAreKnown(r),
         MapEffect(x), AdapterEffect(x), HostEffect(x)
  PROVE  PoolsAreKnown(Place[x])'
  <1>1. /\ x \in Placed /\ Place[x] \in 1..33 /\ r \in Nat /\ r < Place[x] /\ x # "map"
        /\ \A y \in Placed : Past(Place[x], y) <=> Place[y] <= Place[x]
        /\ \A y \in Placed : Past(r, y) <=> Place[y] <= r
        /\ \A y \in Needed : Past(Place[x], y) => y = x \/ Past(r, y)
        /\ x \in Needed \cup {"eeprom"} /\ ~Past(r, x)
    BY NextIs DEF ComesNext, Placed
  <1>2. /\ {"poolAt", "memoryConfig", "initMemory"} \subseteq Needed \cap Placed
        /\ x # "memoryConfig111" /\ x # "queueAddress"
    BY <1>1, NeededHere
  <1>3. x = "poolAt" => acx'.map = mm'
    BY DEF MapEffect, TemplateNames
  <1>4. Past(r, "poolAt") => acx'.map = acx.map /\ mm' = mm
    <2>1. Past(r, "poolAt") => Place[x] > 29
      BY <1>1, <1>2, PlacesAre
    <2>2. Past(r, "poolAt") =>
            x \notin {"startEcpu", "radioinit", "wepCache", "templatesAt", "queuesAt", "poolAt",
                      "queueConfig", "map", "queueAddress"} \cup TemplateNames
      BY <1>1, <1>2, <2>1, PlacesAre DEF TemplateNames
    <2> QED BY <2>2 DEF MapEffect
  <1>5. Past(Place[x], "poolAt") /\ ~Past(Place[x], "initMemory") => mm' = acx'.map
    <2>1. ~Past(Place[x], "initMemory") => ~Past(r, "initMemory")
      BY <1>2 DEF ComesNext
    <2> QED BY <1>1, <1>2, <1>3, <1>4, <2>1 DEF PoolsAreKnown
  <1>6. x = "memoryConfig" \/ x = "initMemory" =>
          Past(r, "poolAt") /\ ~Past(r, "initMemory") /\ mm = acx.map
    <2>1. x = "memoryConfig" \/ x = "initMemory" => Past(Place[x], "poolAt") /\ Place[x] <= 32
      BY <1>1, <1>2, PlacesAre
    <2>2. Past(r, "initMemory") => 32 < Place[x]
      BY <1>1, <1>2, PlacesAre
    <2>3. x = "memoryConfig" \/ x = "initMemory" => Past(r, "poolAt") /\ ~Past(r, "initMemory")
      BY <1>1, <1>2, <2>1, <2>2
    <2> QED BY <2>3 DEF PoolsAreKnown
  <1>7. Past(r, "memoryConfig") => Past(r, "poolAt")
    BY <1>1, <1>2, PlacesAre
  <1>8. Past(Place[x], "memoryConfig") => acx'.pools = Pools(acx'.map, memblocksize)
    <2>1. CASE x = "memoryConfig"
      BY <1>4, <1>6, <2>1 DEF AdapterEffect
    <2>2. CASE x # "memoryConfig"
      BY <1>1, <1>2, <1>4, <1>7, <2>2 DEF AdapterEffect, PoolsAreKnown
    <2> QED BY <2>1, <2>2
  <1>9. x = "initMemory" => Past(r, "memoryConfig")
    BY <1>1, <1>2, PlacesAre
  <1>10. Past(Place[x], "initMemory") =>
           acx_txbuf' = [start |-> acx'.pools.tx_mem, numblocks |-> acx'.pools.TxBlockNum]
    <2>1. CASE x = "initMemory"
      <3>1. acx'.pools = Pools(mm, memblocksize)
        BY <1>6, <1>9, <2>1 DEF AdapterEffect, PoolsAreKnown
      <3> QED BY <2>1, <3>1 DEF HostEffect
    <2>2. CASE x # "initMemory" /\ Past(Place[x], "initMemory")
      <3>1. Past(r, "initMemory") /\ x # "memoryConfig"
        BY <1>1, <1>2, <2>2, PlacesAre
      <3> QED BY <2>2, <3>1 DEF AdapterEffect, HostEffect, PoolsAreKnown
    <2> QED BY <2>1, <2>2
  <1> QED BY <1>5, <1>8, <1>10 DEF PoolsAreKnown

-------------------------------------------------------------------------------
(* Each step keeps the invariant. *)

\* The map is asked for before steps that have their place after the reset; by the
\* driver of an ACX111, only before its radio is uploaded.
LEMMA MapIsAsked ==
  ASSUME NEW r \in 0..Last, Part(todo, r, Last), todo # <<>>, Head(todo).do = "map", Done
  PROVE  Past(r, "resetMac") /\ (~Acx100 => r < 6)
  <1> DEFINE y == Head(todo').do
  <1>1. Part(todo', r, Last) /\ todo' # <<>> /\ y \in AfterMap(Head(todo).fails)
    BY PartGoesOn
  <1>2. y \in {"sleep", "wepCache", "queuesAt", "queueConfig", "poolAt"}
    BY <1>1 DEF AfterMap
  <1>3. ComesNext(r, y)
    BY <1>1, <1>2, HeadComesNext
  <1> HIDE DEF y
  <1>4. Past(r, "resetMac")
    BY <1>2, <1>3, NextIs
  <1>5. ~Acx100 => y = "sleep"
    <2>1. y \in Needed
      BY <1>2, <1>3 DEF ComesNext
    <2> QED BY <1>2, <2>1, NeededHere
  <1>6. ~Acx100 => r < 6
    BY <1>3, <1>5, NextIs
  <1> QED BY <1>4, <1>6

\* Which steps a boot of this adapter has does not change.
LEMMA PartStays ==
  ASSUME UNCHANGED <<card, radio_image>>, NEW r, Part(todo', r, Last)
  PROVE  Part(todo, r, Last)'
  BY DEF Part, Needed, Buffers, Acx100

LEMMA MapAnswered ==
  ASSUME CodeIInv, ReadyIInv, NEW r \in 0..Last, Progress(r), todo # <<>>,
         Head(todo).do = "map", Done, MapEffect("map"), AdapterEffect("map"), HostEffect("map")
  PROVE  Progress(r)'
  <1>1. UNCHANGED <<card, radio_image>>
    BY DEF Done, image
  <1>2. Part(todo, r, Last)'
    BY <1>1, PartGoesOn, PartStays DEF Progress
  <1>3. /\ acx'.map = acx.map /\ mm' = acx.map
        /\ acx'.ecpu = acx.ecpu /\ acx'.awake = acx.awake /\ acx'.templates = acx.templates
        /\ acx'.linked = acx.linked /\ acx'.queue = acx.queue /\ acx'.pools = acx.pools
        /\ acx'.disturbed = acx.disturbed
        /\ UNCHANGED <<FW_LOADED, cmd_area, bufs, acxdesc, acx_txbuf>>
    BY DEF MapEffect, AdapterEffect, HostEffect, TemplateNames, Buffers
  <1>4. Past(r, "resetMac") /\ (~Acx100 => r < 6)
    BY MapIsAsked DEF Progress
  <1>5. GrowthIsBounded(r)' /\ HostIsReady(r)'
    BY <1>1, <1>3 DEF Progress, GrowthIsBounded, HostIsReady, Buffers, Acx100
  <1>6. ASSUME ~acx.disturbed
        PROVE  /\ AdapterIsReady(r)' /\ QueuesAreKnown(r)'
               /\ Acx100 => MapIsLaidOut(r, acx'.map) /\ PoolsAreKnown(r)'
    <2>1. /\ AdapterIsReady(r) /\ QueuesAreKnown(r)
          /\ Acx100 => MapIsLaidOut(r, acx.map) /\ PoolsAreKnown(r)
      BY <1>6 DEF Progress
    <2>2. AdapterIsReady(r)'
      BY <1>1, <1>3, <2>1 DEF AdapterIsReady, Acx100
    <2>3. QueuesAreKnown(r)'
      <3>1. CASE Acx100
        BY <1>1, <1>3, <2>1, <3>1 DEF QueuesAreKnown, Acx100
      <3>2. CASE ~Acx100
        <4>1. r \in Nat /\ r < 6
          BY <1>4, <3>2 DEF Last
        <4>2. ~Past(r, "memoryConfig111") /\ ~Past(r, "queueAddress") /\ ~Past(r, "rings")
          BY <4>1, PlacesAre DEF Past
        <4> QED BY <1>1, <3>2, <4>2 DEF QueuesAreKnown, Acx100
      <3> QED BY <3>1, <3>2
    <2>4. Acx100 => MapIsLaidOut(r, acx'.map)
      BY <1>3, <2>1
    <2>5. Acx100 => PoolsAreKnown(r)'
      BY <1>3, <2>1 DEF PoolsAreKnown
    <2> QED BY <2>2, <2>3, <2>4, <2>5
  <1> QED BY <1>1, <1>2, <1>3, <1>4, <1>5, <1>6 DEF Progress, Acx100

LEMMA StepIsDone ==
  ASSUME CodeIInv, ReadyIInv, NEW r \in 0..Last, Progress(r), todo # <<>>, NEW x,
         x = Head(todo).do, x # "map", x # "resetMac",
         Done, MapEffect(x), AdapterEffect(x), HostEffect(x)
  PROVE  AdapterFits' /\ Progress(Place[x])' /\ Place[x] \in 0..Last
  <1>1. UNCHANGED <<card, radio_image>>
    BY DEF Done, image
  <1>2. Part(todo', Place[x], Last) /\ ComesNext(r, x)
    BY PartGoesOn, HeadComesNext DEF Progress
  <1>3. Part(todo, Place[x], Last)'
    BY <1>1, <1>2, PartStays
  <1>4. /\ acx \in Adapter /\ acx.map \in MemMap /\ mm \in MemMap
    BY CodeFacts DEF Adapter
  <1>5. x \in {"wepCache", "templatesAt", "queuesAt", "queueConfig", "poolAt"} => mm = acx.map
    BY FreshForSteps
  <1>6. AdapterFits /\ GrowthIsBounded(r) /\ HostIsReady(r)
    BY DEF Progress, ReadyIInv
  <1>7. AdapterFits' /\ GrowthIsBounded(Place[x])'
    BY <1>2, <1>4, <1>5, <1>6, MapGoesOn
  <1>8. HostIsReady(Place[x])'
    BY <1>1, <1>2, <1>6, HostGoesOn
  <1>9. Past(Place[x], "resetMac") /\ Place[x] \in 0..Last
    BY <1>2, NextIs
  <1>10. ASSUME ~acx'.disturbed
         PROVE  /\ AdapterIsReady(Place[x])' /\ QueuesAreKnown(Place[x])'
                /\ Acx100 => MapIsLaidOut(Place[x], acx'.map) /\ PoolsAreKnown(Place[x])'
    <2>1. ~acx.disturbed
      BY <1>10 DEF AdapterEffect
    <2>2. /\ AdapterIsReady(r) /\ QueuesAreKnown(r)
          /\ Acx100 => MapIsLaidOut(r, acx.map) /\ PoolsAreKnown(r)
      BY <2>1 DEF Progress
    <2>3. AdapterIsReady(Place[x])'
      BY <1>1, <1>2, <2>2, AdapterGoesOn
    <2>4. QueuesAreKnown(Place[x])'
      BY <1>1, <1>2, <1>4, <1>5, <2>2, QueuesGoOn
    <2>5. Acx100 => MapIsLaidOut(Place[x], acx'.map)
      BY <1>2, <1>4, <1>5, <2>2, LayoutGoesOn
    <2>6. Acx100 => PoolsAreKnown(Place[x])'
      BY <1>2, <2>2, PoolsGoOn
    <2> QED BY <2>3, <2>4, <2>5, <2>6
  <1>11. Acx100' = Acx100
    BY <1>1 DEF Acx100
  <1> QED BY <1>3, <1>7, <1>8, <1>9, <1>10, <1>11 DEF Progress

\* A step that is not a template leaves the bounds of its place.
LEMMA GrowthStays ==
  ASSUME NEW r \in 0..Last, GrowthIsBounded(r), NEW x, ComesNext(r, x), x # "resetMac"
  PROVE  GrowthIsBounded(Place[x])
  <1>1. /\ Place[x] \in 1..33 /\ r \in Nat /\ r < Place[x] /\ Past(r, "resetMac")
        /\ ~Past(Place[x], "radioinit") => ~Past(r, "radioinit")
    BY NextIs, PlacesAre DEF Past
  <1>2. \A n \in 0..5 : Place[x] < n + Place["probeRequest"] => r < n + Place["probeRequest"]
    BY <1>1, PlacesAre
  <1> QED BY <1>1, <1>2 DEF GrowthIsBounded

\* The failure of a command before the radio runs, or of the interrogation of the
\* queues, disturbs the adapter: no more is claimed of it.
LEMMA StepIsPassedOver ==
  ASSUME CodeIInv, ReadyIInv, NEW r \in 0..Last, Progress(r), todo # <<>>, NEW x,
         x = Head(todo).do, PassedOver(x)
  PROVE  \E p \in 0..Last : Progress(p)'
  <1>1. /\ UNCHANGED <<card, radio_image, FW_LOADED, cmd_area, bufs>> /\ Done
        /\ x \in Ignorable
    BY DEF PassedOver, Done, image
  <1>2. acx'.map = acx.map /\ acx'.disturbed = TRUE
    BY CodeFacts DEF PassedOver, Adapter
  <1>3. GrowthIsBounded(r) /\ HostIsReady(r) /\ Part(todo, r, Last)
    BY DEF Progress
  <1>4. CASE x = "map"
    <2>1. Part(todo, r, Last)'
      BY <1>1, <1>3, <1>4, PartGoesOn, PartStays
    <2>2. Past(r, "resetMac")
      BY <1>1, <1>3, <1>4, MapIsAsked
    <2>3. GrowthIsBounded(r)' /\ HostIsReady(r)'
      BY <1>1, <1>2, <1>3 DEF GrowthIsBounded, HostIsReady, Buffers, Acx100
    <2>4. Progress(r)'
      BY <1>2, <2>1, <2>2, <2>3 DEF Progress
    <2> QED BY <2>4
  <1>5. CASE x # "map"
    <2>1. Part(todo', Place[x], Last) /\ ComesNext(r, x)
      BY <1>1, <1>3, <1>5, PartGoesOn, HeadComesNext
    <2>2. Part(todo, Place[x], Last)'
      BY <1>1, <2>1, PartStays
    <2>3. HostIsReady(Place[x])'
      BY <1>1, <1>3, <2>1, HostGoesOn
    <2>4. Past(Place[x], "resetMac") /\ Place[x] \in 0..Last
      BY <2>1, NextIs
    <2>5. GrowthIsBounded(Place[x])'
      <3>1. x \notin TemplateNames \cup {"resetMac"}
        BY <1>1 DEF Ignorable, TemplateNames
      <3>2. GrowthIsBounded(Place[x])
        BY <1>3, <2>1, <3>1, GrowthStays
      <3> QED BY <1>2, <3>2 DEF GrowthIsBounded
    <2>6. Progress(Place[x])'
      BY <1>2, <2>2, <2>3, <2>4, <2>5 DEF Progress
    <2> QED BY <2>4, <2>6
  <1> QED BY <1>4, <1>5

LEMMA StepIsTriedAgain ==
  ASSUME CodeIInv, ReadyIInv, NEW r \in 0..Last, Progress(r), todo # <<>>, NEW x,
         x = Head(todo).do, TriedAgain(x)
  PROVE  Progress(r)'
  <1>1. /\ UNCHANGED <<card, radio_image, todo, mm, FW_LOADED, cmd_area, bufs, acxdesc,
                       acx_txbuf>>
        /\ acx'.ecpu = acx.ecpu /\ acx'.awake = acx.awake /\ acx'.templates = acx.templates
        /\ acx'.linked = acx.linked /\ acx'.queue = acx.queue /\ acx'.pools = acx.pools
        /\ acx'.map = acx.map /\ acx'.disturbed = acx.disturbed
        /\ x \in {"upload", "radio"}
    BY DEF TriedAgain, image
  <1>2. Past(r, "resetMac")
    <2>1. ComesNext(r, x)
      BY <1>1, HeadComesNext DEF Progress
    <2> QED BY <1>1, <2>1, NextIs
  <1>3. Part(todo, r, Last)'
    BY <1>1, PartStays DEF Progress
  <1>4. GrowthIsBounded(r)' /\ HostIsReady(r)'
    BY <1>1 DEF Progress, GrowthIsBounded, HostIsReady, Buffers, Acx100
  <1>5. /\ AdapterIsReady(r) => AdapterIsReady(r)'
        /\ QueuesAreKnown(r) => QueuesAreKnown(r)'
        /\ PoolsAreKnown(r) => PoolsAreKnown(r)'
    BY <1>1 DEF AdapterIsReady, QueuesAreKnown, PoolsAreKnown, Acx100
  <1>6. Acx100' = Acx100
    BY <1>1 DEF Acx100
  <1> QED BY <1>1, <1>2, <1>3, <1>4, <1>5, <1>6 DEF Progress

\* An adapter that was reset is where a boot wants it after its first step, and before.
LEMMA FirstPlace ==
  ASSUME acx'.map = NoMap, acx'.awake = TRUE, acx'.templates = {}, NEW r \in 0..1
  PROVE  /\ GrowthIsBounded(r)' /\ AdapterIsReady(r)' /\ QueuesAreKnown(r)'
         /\ MapIsLaidOut(r, acx'.map) /\ PoolsAreKnown(r)'
         /\ Past(1, "resetMac")
  <1>1. \A y \in Placed \ {"resetMac"} : ~Past(r, y)
    BY PlacesAre DEF Placed, StepNames, Past
  <1>2. {"upload", "startEcpu", "radioinit", "wake", "sleep", "initMemory", "memoryConfig111",
         "queueConfig", "queueAddress", "rings", "wepCache", "templatesAt", "probeRequest",
         "queuesAt", "poolAt", "memoryConfig"} \cup TemplateNames \subseteq Placed \ {"resetMac"}
    BY DEF Placed, StepNames, TemplateNames
  <1>3. GrowthIsBounded(r)'
    <2>1. acx'.map.CodeEnd = 0 /\ acx'.map.PacketTemplateEnd = 0
      BY DEF NoMap
    <2>2. \A n \in 0..5 : 0 <= CodeRoom + 4 + n * TemplateSize
      BY RoomsAre
    <2>3. 0 <= PatchedSize
      BY RoomsAre
    <2> QED BY <2>1, <2>2, <2>3 DEF GrowthIsBounded
  <1>4. AdapterIsReady(r)'
    BY <1>1, <1>2 DEF AdapterIsReady
  <1>5. QueuesAreKnown(r)' /\ PoolsAreKnown(r)'
    BY <1>1, <1>2 DEF QueuesAreKnown, PoolsAreKnown
  <1>6. MapIsLaidOut(r, acx'.map)
    BY <1>1, <1>2 DEF MapIsLaidOut
  <1>7. Past(1, "resetMac")
    BY PlacesAre DEF Past
  <1> QED BY <1>3, <1>4, <1>5, <1>6, <1>7

LEMMA OutcomeKeeps ==
  ASSUME CodeIInv, ReadyIInv, NEW x, Outcome(x), x # "resetMac"
  PROVE  ReadyIInv'
  <1>1. todo # <<>> /\ x = Head(todo).do /\ op \in {"probe", "start"}
    BY DEF Outcome, ReadyIInv
  <1>2. PICK r \in 0..Last : Progress(r)
    BY <1>1 DEF ReadyIInv, Standing
  <1>3. /\ acx \in Adapter /\ acx.map \in MemMap /\ mm \in MemMap /\ acx.queue \in Nat
    BY CodeFacts DEF Adapter
  <1>4. AdapterFits /\ DriverFits /\ MapIsFresh /\ Part(todo, r, Last)
    BY <1>2 DEF ReadyIInv, Progress
  <1>5. CASE Succeeds(x)
    <2>1. Done /\ MapEffect(x) /\ AdapterEffect(x) /\ HostEffect(x) /\ op' = op
      BY <1>5 DEF Succeeds, Done
    <2>2. x \in {"wepCache", "templatesAt", "queuesAt", "queueConfig", "poolAt"} => mm = acx.map
      BY <1>1, FreshForSteps
    <2>3. MapIsFresh'
      BY <1>1, <1>4, <2>1, FreshGoesOn
    <2>4. AdapterFits' /\ \E p \in 0..Last : Progress(p)'
      <3>1. CASE x = "map"
        <4>1. Progress(r)'
          BY <1>1, <1>2, <2>1, <3>1, MapAnswered
        <4>2. acx'.map = acx.map /\ acx'.queue = acx.queue
          BY <2>1, <3>1 DEF MapEffect, AdapterEffect, TemplateNames
        <4> QED BY <1>4, <4>1, <4>2 DEF AdapterFits
      <3>2. CASE x # "map"
        BY <1>1, <1>2, <2>1, <3>2, StepIsDone
      <3> QED BY <3>1, <3>2
    <2>5. DriverFits'
      BY <1>3, <1>4, <2>1, <2>2, DriverGoesOn
    <2> QED BY <1>1, <2>1, <2>3, <2>4, <2>5 DEF ReadyIInv
  <1>6. CASE PassedOver(x)
    <2>1. /\ Done /\ op' = op /\ acx'.map = acx.map /\ acx'.queue = acx.queue
          /\ acxdesc' = acxdesc /\ mm' \in Unanswered(x)
          /\ Head(todo).fails = "ignored" /\ x \in Ignorable
      BY <1>3, <1>6 DEF PassedOver, Done, Adapter
    <2>2. MapIsFresh'
      BY <1>1, <1>4, <2>1, FreshGoesOn
    <2>3. AdapterFits'
      BY <1>4, <2>1 DEF AdapterFits
    <2>4. DriverFits'
      BY <1>3, <1>4, <2>1, PassedOverFits
    <2>5. \E p \in 0..Last : Progress(p)'
      BY <1>1, <1>2, <1>6, StepIsPassedOver
    <2> QED BY <1>1, <2>1, <2>2, <2>3, <2>4, <2>5 DEF ReadyIInv
  <1>7. CASE GivenUp
    <2>1. /\ todo' = <<>> /\ result' = "NOT_OK" /\ op' = op /\ mm' = mm
          /\ acx'.map = acx.map /\ acx'.queue = acx.queue
          /\ acxdesc' = acxdesc \/ acxdesc' = 0
      BY <1>7 DEF GivenUp
    <2>2. AdapterFits'
      BY <1>4, <2>1 DEF AdapterFits
    <2>3. DriverFits'
      <3>1. 0 \in 0..MemorySize
        BY RoomsAre
      <3> QED BY <1>4, <2>1, <3>1 DEF DriverFits
    <2> QED BY <1>1, <2>1, <2>2, <2>3 DEF ReadyIInv, MapIsFresh, Standing
  <1>8. CASE TriedAgain(x)
    <2>1. /\ UNCHANGED <<todo, op, mm, acxdesc>>
          /\ acx'.map = acx.map /\ acx'.queue = acx.queue
      BY <1>8 DEF TriedAgain
    <2>2. Progress(r)'
      BY <1>1, <1>2, <1>8, StepIsTriedAgain
    <2>3. AdapterFits' /\ DriverFits' /\ MapIsFresh'
      BY <1>4, <2>1 DEF AdapterFits, DriverFits, MapIsFresh
    <2> QED BY <1>1, <2>1, <2>2, <2>3 DEF ReadyIInv
  <1> QED BY <1>5, <1>6, <1>7, <1>8 DEF Outcome

LEMMA ResetKeeps ==
  ASSUME CodeIInv, ReadyIInv, ResetMac
  PROVE  ReadyIInv'
  <1>1. todo # <<>> /\ Head(todo).do = "resetMac" /\ op \in {"probe", "start"}
    BY DEF ResetMac, At, ReadyIInv
  <1>2. PICK r \in 0..Last : Progress(r)
    BY <1>1 DEF ReadyIInv, Standing
  <1>3. ComesNext(r, "resetMac") /\ Place["resetMac"] = 1 /\ 1 \in 0..Last
    <2>1. ComesNext(r, "resetMac")
      BY <1>1, <1>2, HeadComesNext DEF Progress
    <2>2. 1 \in 0..Last
      BY DEF Last
    <2> QED BY <2>1, <2>2, PlacesAre
  <1>4. acx' = IF card = "vlynq" THEN AcxOff ELSE Halted(acx)
    BY <1>2, <1>3 DEF ResetMac, Progress, ComesNext
  <1>5. /\ acx'.ecpu = "halted" /\ acx'.awake = TRUE /\ acx'.templates = {}
        /\ acx'.queue = 0 /\ acx'.map = NoMap
    BY <1>4 DEF Halted, AcxOff
  <1>6. /\ Done /\ UNCHANGED <<bufs, acxdesc, FW_LOADED, cmd_area, mm, card, radio_image, op>>
    BY <1>5 DEF ResetMac, Done, image
  <1>7. MapIsFresh'
    <2>1. todo' # <<>> /\ Prior(Head(todo').do) = "resetMac"
      BY <1>1, <1>6, CodeFacts, DoneMoves
    <2> QED BY <2>1 DEF MapIsFresh
  <1>8. AdapterFits'
    BY <1>5, NoMapFits, RoomsAre DEF AdapterFits
  <1>9. DriverFits'
    BY <1>6 DEF ReadyIInv, DriverFits
  <1>10. Part(todo', 1, Last)
    BY <1>1, <1>2, <1>3, <1>6, PartGoesOn DEF Progress
  <1>11. Part(todo, 1, Last)'
    BY <1>6, <1>10, PartStays
  <1>12. HostIsReady(1)'
    <2>1. HostIsReady(r)
      BY <1>2 DEF Progress
    <2>2. HostIsReady(Place["resetMac"])'
      <3>1. \A y \in Needed : Past(1, y) => y = "resetMac" \/ Past(r, y)
        BY <1>3 DEF ComesNext
      <3>2. {"upload", "initMboxes"} \subseteq Needed /\ Buffers \subseteq Needed
        BY DEF Needed
      <3>3. "resetMac" \notin Buffers /\ Buffers' = Buffers
        BY <1>6 DEF Buffers, Acx100
      <3> QED BY <1>3, <1>6, <2>1, <3>1, <3>2, <3>3 DEF HostIsReady
    <2> QED BY <1>3, <2>2
  <1>13. Progress(1)'
    <2>1. 1 \in 0..1
      OBVIOUS
    <2>2. /\ GrowthIsBounded(1)' /\ AdapterIsReady(1)' /\ QueuesAreKnown(1)'
          /\ MapIsLaidOut(1, acx'.map) /\ PoolsAreKnown(1)'
          /\ Past(1, "resetMac")
      BY <1>5, <2>1, FirstPlace
    <2> QED BY <1>11, <1>12, <2>2 DEF Progress
  <1> QED BY <1>1, <1>3, <1>6, <1>7, <1>8, <1>9, <1>13 DEF ReadyIInv

LEMMA BootsKeep ==
  ASSUME CodeIInv, ReadyIInv,
         \/ Probe \/ ProbeEnd \/ OpStart \/ OpStartEnd \/ OpStop \/ UNCHANGED vars
  PROVE  ReadyIInv'
  <1>1. /\ UNCHANGED <<card, radio_image, acx, mm, acxdesc, FW_LOADED, cmd_area, bufs, acx_txbuf>>
        /\ Acx100' = Acx100 /\ Buffers' = Buffers
    BY DEF Probe, ProbeEnd, OpStart, OpStartEnd, OpStop, vars, driver, image, Acx100, Buffers
  <1>2. AdapterFits' /\ DriverFits'
    BY <1>1 DEF ReadyIInv, AdapterFits, DriverFits
  <1>3. ASSUME NEW r \in 0..Last, Progress(r), UNCHANGED todo
        PROVE  Progress(r)'
    <2>1. Part(todo, r, Last)'
      BY <1>1, <1>3, PartStays DEF Progress
    <2>2. /\ GrowthIsBounded(r)' /\ HostIsReady(r)'
          /\ AdapterIsReady(r) => AdapterIsReady(r)'
          /\ QueuesAreKnown(r) => QueuesAreKnown(r)'
          /\ PoolsAreKnown(r) => PoolsAreKnown(r)'
      BY <1>1, <1>3 DEF Progress, GrowthIsBounded, HostIsReady, AdapterIsReady, QueuesAreKnown,
         PoolsAreKnown
    <2> QED BY <1>1, <1>3, <2>1, <2>2 DEF Progress
  <1>4. CASE ProbeEnd \/ OpStartEnd \/ OpStop \/ UNCHANGED vars
    <2>1. UNCHANGED <<todo, result>> /\ (op' = "none" => op = "none")
          /\ (op' \notin {"probe", "start"} => todo = <<>>)
      BY <1>4 DEF ProbeEnd, OpStartEnd, OpStop, vars, ReadyIInv
    <2>2. MapIsFresh'
      BY <1>1, <2>1 DEF ReadyIInv, MapIsFresh
    <2>3. Standing' => \E r \in 0..Last : Progress(r)'
      BY <1>3, <2>1 DEF ReadyIInv, Standing
    <2> QED BY <1>1, <1>2, <2>1, <2>2, <2>3 DEF ReadyIInv
  <1>5. CASE OpStart /\ card = "vlynq"
    <2>1. todo = <<>> /\ todo' = <<>> /\ result' = result /\ op' = "start"
      BY <1>5 DEF OpStart, Boot, ReadyIInv
    <2>2. Standing' => \E r \in 0..Last : Progress(r)'
      BY <1>3, <2>1 DEF ReadyIInv, Standing
    <2> QED BY <1>2, <2>1, <2>2 DEF ReadyIInv, MapIsFresh
  <1>6. CASE Probe \/ (OpStart /\ card # "vlynq")
    <2>1. /\ op' \in {"probe", "start"} /\ todo' \in {ResetOnProbe, FullReset}
          /\ card = "vlynq" => acx = AcxOff
      BY <1>6 DEF Probe, OpStart, Boot, ReadyIInv
    <2>2. todo' # <<>> /\ Head(todo').do = "resetMac"
      BY <2>1, BootsInOrder
    <2>3. MapIsFresh'
      BY <2>2 DEF MapIsFresh, Prior, None
    <2>4. Part(todo, 0, Last)'
      BY <1>1, <2>1, BootsAreWhole, PartStays
    <2>5. \A y \in Placed : ~Past(0, y)
      BY PlacedIn DEF Past
    <2>6. {"upload", "startEcpu", "initMboxes", "wake", "sleep", "initMemory", "memoryConfig111",
           "queueConfig", "queueAddress", "rings", "wepCache", "templatesAt", "probeRequest",
           "queuesAt", "poolAt", "memoryConfig", "resetMac"} \cup Buffers \subseteq Placed
      BY DEF Placed, StepNames, Buffers
    <2>7. HostIsReady(0)' /\ AdapterIsReady(0)' /\ QueuesAreKnown(0)' /\ GrowthIsBounded(0)'
      BY <1>1, <2>5, <2>6
         DEF HostIsReady, AdapterIsReady, QueuesAreKnown, GrowthIsBounded
    <2>8. MapIsLaidOut(0, acx'.map) /\ PoolsAreKnown(0)'
      BY <2>5, <2>6 DEF MapIsLaidOut, PoolsAreKnown
    <2>9. Progress(0)'
      BY <1>1, <2>1, <2>4, <2>7, <2>8 DEF Progress
    <2>10. 0 \in 0..Last
      BY DEF Last
    <2> QED BY <1>2, <2>1, <2>3, <2>9, <2>10 DEF ReadyIInv
  <1> QED BY <1>4, <1>5, <1>6

LEMMA ReadyInit == InitEither => ReadyIInv
  <1> SUFFICES ASSUME InitEither PROVE ReadyIInv
    OBVIOUS
  <1>1. /\ acx = AcxOff /\ mm = NoMap /\ todo = <<>> /\ op = "none" /\ result = "none"
        /\ acxdesc = 0
    BY DEF InitEither, Init
  <1>2. AdapterFits
    <2>1. acx.map = NoMap /\ acx.queue = 0
      BY <1>1 DEF AcxOff
    <2> QED BY <2>1, NoMapFits, RoomsAre DEF AdapterFits
  <1>3. DriverFits
    <2>1. \A f \in DOMAIN NoMap : NoMap[f] \in 0..MemorySize
      BY NoMapFits, NoMapIsMap, FieldsFit
    <2>2. 0 \in 0..MemorySize
      BY RoomsAre
    <2> QED BY <1>1, <2>1, <2>2 DEF DriverFits
  <1> QED BY <1>1, <1>2, <1>3 DEF ReadyIInv, MapIsFresh, Standing

\* The other steps are not the reset.
LEMMA StepsOfABoot ==
  ASSUME CodeIInv,
         \/ Upload \/ StartEcpu \/ VerifyInit \/ InitMboxes \/ UploadRadioFw
         \/ InterrogateMap \/ Sleep \/ Wake \/ RadioInit
         \/ SetWepCache \/ SetTemplatesAt \/ SetQueuesAt \/ SetPoolAt
         \/ InitTemplate \/ SetTim \/ ConfigureQueue \/ ConfigureMemory111 \/ InterrogateQueues
         \/ SetBlockSize \/ ConfigurePools \/ InitMemory \/ ReadEeprom
         \/ Allocate \/ CreateDescQueues
  PROVE  \E x : Outcome(x) /\ x # "resetMac"
  <1>1. \E x : Outcome(x)
    BY MapCommands, OtherCommands, GrowingCommands, FirmwareSteps, StepsOfTheHost
  <1>2. ~At("resetMac")
    BY DEF At, Upload, StartEcpu, VerifyInit, InitMboxes, UploadRadioFw, IssueCmd, ConfigureMap,
       InterrogateMap, Sleep, Wake, RadioInit, SetWepCache, SetTemplatesAt, SetQueuesAt, SetPoolAt,
       InitTemplate, SetTim, ConfigureQueue, ConfigureMemory111, InterrogateQueues, SetBlockSize,
       ConfigurePools, InitMemory, ReadEeprom, Allocate, CreateDescQueues,
       TemplateNames, Buffers
  <1> QED BY <1>1, <1>2 DEF Outcome, At

LEMMA ReadyInvariance == SpecEither => []ReadyIInv
  <1>1. CodeIInv /\ ReadyIInv /\ [NextEither]_all => ReadyIInv'
    <2> SUFFICES ASSUME CodeIInv, ReadyIInv, [NextEither]_all PROVE ReadyIInv'
      OBVIOUS
    <2>1. CASE Next
      <3>1. CASE \E x : Outcome(x) /\ x # "resetMac"
        BY <3>1, OutcomeKeeps
      <3> QED BY <2>1, <3>1, StepsOfABoot, ResetKeeps, BootsKeep DEF Next
    <2>2. CASE UNCHANGED vars
      BY <2>2, BootsKeep
    <2> QED BY <2>1, <2>2 DEF NextEither, all
  <1> QED BY <1>1, ReadyInit, CodeInvariance, PTL DEF SpecEither

\* A boot that has ended well has done all that its adapter needs.
LEMMA EndedWell ==
  ASSUME ReadyIInv, Booted
  PROVE  \E r \in 0..Last : Progress(r) /\ \A do \in Needed : Past(r, do)
  <1>1. PICK r \in 0..Last : Progress(r)
    BY DEF ReadyIInv, Standing, Booted
  <1>2. ASSUME NEW do \in Needed PROVE Past(r, do)
    <2>1. Past(Last, do)
      BY NeededArePlaced, PlacedIn DEF Past, Last
    <2>2. todo = <<>> /\ Part(todo, r, Last)
      BY <1>1 DEF Booted, Progress
    <2>3. Part(<<>>, r, Last) /\ ~ \E j \in 1..Len(<<>>) : TRUE
      BY <2>2
    <2> QED BY <2>1, <2>3 DEF Part
  <1> QED BY <1>1, <1>2

LEMMA ReadyWhenBooted == CodeIInv /\ BufsIInv /\ ReadyIInv => BootedIsReady
  <1> SUFFICES ASSUME CodeIInv, BufsIInv, ReadyIInv, Booted
               PROVE  /\ acx.ecpu = "running" /\ acx.awake /\ acx.templates = TemplateNames
                      /\ acx.linked /\ FW_LOADED /\ cmd_area
                      /\ bufs = Buffers /\ acxdesc = acx.queue /\ acxdesc # 0
                      /\ card = "mem" => acx_txbuf = [start |-> acx.pools.tx_mem,
                                                      numblocks |-> acx.pools.TxBlockNum]
    BY DEF BootedIsReady
  <1>1. PICK r \in 0..Last : Progress(r) /\ \A do \in Needed : Past(r, do)
    BY EndedWell
  <1>2. /\ HostIsReady(r) /\ AdapterIsReady(r) /\ QueuesAreKnown(r)
        /\ Acx100 => MapIsLaidOut(r, acx.map) /\ PoolsAreKnown(r)
    BY <1>1 DEF Progress, Booted
  <1>3. /\ {"resetMac", "startEcpu", "upload", "initMboxes", "rings"} \subseteq Needed
        /\ TemplateNames \subseteq Needed /\ Buffers \subseteq Needed
        /\ radio_image # None => "wake" \in Needed
        /\ Acx100 => {"queuesAt", "queueConfig", "initMemory"} \subseteq Needed
        /\ ~Acx100 => "memoryConfig111" \in Needed
    BY DEF Needed
  <1>4. FW_LOADED /\ cmd_area /\ bufs = Buffers
    BY <1>1, <1>2, <1>3 DEF HostIsReady, BufsIInv
  <1>5. acx.ecpu = "running" /\ acx.awake /\ acx.templates = TemplateNames /\ acx.linked
    BY <1>1, <1>2, <1>3 DEF AdapterIsReady
  <1>6. acxdesc = acx.queue
    BY <1>1, <1>2, <1>3 DEF QueuesAreKnown
  <1>7. acx.queue # 0
    <2>1. CASE Acx100
      <3>1. acx.queue = acx.map.QueueStart /\ acx.map.PacketTemplateEnd < acx.map.QueueStart
        BY <1>1, <1>2, <1>3, <2>1 DEF QueuesAreKnown, MapIsLaidOut
      <3>2. acx.map.PacketTemplateEnd \in Nat /\ acx.map.QueueStart \in Nat
        BY CodeFacts, FieldTypes DEF Adapter
      <3> QED BY <3>1, <3>2
    <2>2. CASE ~Acx100
      <3>1. acx.queue = MemorySize \div 2
        BY <1>1, <1>2, <1>3, <2>2 DEF QueuesAreKnown
      <3>2. MemorySize \div 2 # 0
        BY RoomsAre
      <3> QED BY <3>1, <3>2
    <2> QED BY <2>1, <2>2
  <1>8. card = "mem" => acx_txbuf = [start |-> acx.pools.tx_mem,
                                     numblocks |-> acx.pools.TxBlockNum]
    <2>1. card = "mem" => Acx100
      BY DEF Acx100
    <2> QED BY <1>1, <1>2, <1>3, <2>1 DEF PoolsAreKnown
  <1> QED BY <1>4, <1>5, <1>6, <1>7, <1>8

\* Whatever has failed before, a boot that says it is well leaves everything that the
\* driver goes on to use: for memory of every size in which there is room.
THEOREM BootedIsAlwaysReady == SpecEither => []BootedIsReady
  <1>1. SpecEither => []BufsIInv
    BY BufsInvariance
  <1> QED BY <1>1, ReadyWhenBooted, ReadyInvariance, CodeInvariance, PTL

LEMMA DividedWhenBooted ==
  ASSUME CodeIInv, ReadyIInv, Booted, Acx100
  PROVE  AreasAreOrdered(acx.map, acx.pools, memblocksize)
  <1> DEFINE m == acx.map
  <1>1. PICK r \in 0..Last : Progress(r) /\ \A do \in Needed : Past(r, do)
    BY EndedWell
  <1>2. MapIsLaidOut(r, m) /\ PoolsAreKnown(r)
    BY <1>1 DEF Progress, Booted
  <1>3. {"startEcpu", "wepCache", "templatesAt", "probeRequest", "queuesAt", "queueConfig",
         "poolAt", "memoryConfig"} \subseteq Needed
    BY NeededHere
  <1>4. /\ m.CodeEnd < m.WEPCacheStart /\ m.WEPCacheStart <= m.WEPCacheEnd
        /\ m.WEPCacheEnd <= m.PacketTemplateStart
        /\ m.PacketTemplateStart <= m.PacketTemplateEnd
        /\ m.PacketTemplateEnd < m.QueueStart /\ m.QueueStart <= m.QueueEnd
        /\ m = PoolAt(m) /\ m.PoolEnd = MemorySize
        /\ acx.pools = Pools(m, memblocksize)
    BY <1>1, <1>2, <1>3 DEF MapIsLaidOut, PoolsAreKnown
  <1>5. m \in MemMap /\ MapFits(m)
    BY CodeFacts DEF Adapter, ReadyIInv, AdapterFits
  <1>6. m.PoolStart <= m.PoolEnd
    BY <1>4, <1>5 DEF MapFits
  <1>7. memblocksize \in {128, 256}
    BY DEF memblocksize
  <1> HIDE DEF m
  <1>8. /\ m.QueueEnd < acx.pools.rx_mem
        /\ acx.pools.rx_mem + acx.pools.RxBlockNum * memblocksize <= acx.pools.tx_mem
        /\ acx.pools.tx_mem + acx.pools.TxBlockNum * memblocksize <= m.PoolEnd
    <2> DEFINE pools == acx.pools
    <2>1. pools = Pools(m, memblocksize)
      BY <1>4
    <2> HIDE DEF pools
    <2>2. /\ pools.RxBlockNum \in Nat /\ pools.TxBlockNum \in Nat
          /\ m.QueueEnd < pools.rx_mem /\ pools.rx_mem = m.PoolStart
          /\ pools.rx_mem + pools.RxBlockNum * memblocksize = pools.tx_mem
          /\ pools.tx_mem + pools.TxBlockNum * memblocksize <= m.PoolEnd
      BY <1>4, <1>5, <1>6, <1>7, <2>1, PoolsFit
    <2>3. pools.rx_mem + pools.RxBlockNum * memblocksize <= pools.tx_mem
      <3>1. pools.rx_mem \in Nat
        BY <1>5, <2>2, FieldTypes
      <3> QED BY <2>2, <3>1 DEF memblocksize
    <2> QED BY <2>2, <2>3 DEF pools
  <1> QED BY <1>4, <1>8 DEF AreasAreOrdered, m

-------------------------------------------------------------------------------
(* Types, and what is within the memory. *)

\* Of what the other invariants say nothing.
OtherTypes ==
  /\ card \in Cards /\ fw_image \in Codes \cup {"hx4700"} /\ radio_image \in Codes
  /\ {FW_LOADED, HW_UP, cmd_area} \subseteq BOOLEAN
  /\ try \in 0..Attempts
  /\ op \in {"none", "probe", "bound", "start", "failed"}
  /\ result \in {"none", "OK", "NOT_OK"}

\* Of all that a step may do.
LEMMA OthersChange ==
  ASSUME Next
  PROVE  /\ UNCHANGED image
         /\ FW_LOADED' \in {FW_LOADED, TRUE} /\ cmd_area' \in {cmd_area, TRUE}
         /\ HW_UP' \in {HW_UP, TRUE, FALSE}
         /\ try' \in {try, 0, 1} \/ (try < Attempts /\ try' = try + 1)
         /\ op' \in {op, "probe", "bound", "start", "failed"}
         /\ result' \in {result, "none", "OK", "NOT_OK"}
  <1> DEFINE Moved == /\ UNCHANGED <<image, op>> /\ result' \in {result, "OK", "NOT_OK"}
             Still == UNCHANGED <<FW_LOADED, HW_UP, cmd_area>>
  <1>1. /\ Done => Moved
        /\ Fails => Moved
    BY DEF Done, Fails, image
  <1>2. \A x, a, m : IssueCmd(x, a, m) => Moved /\ Still /\ try' = try
    BY <1>1 DEF IssueCmd
  <1>3. CASE \/ InterrogateMap \/ Sleep \/ Wake \/ SetWepCache \/ SetTemplatesAt
             \/ SetQueuesAt \/ SetPoolAt \/ InitTemplate \/ SetTim \/ ConfigureQueue
             \/ ConfigureMemory111 \/ InterrogateQueues \/ SetBlockSize \/ ConfigurePools
             \/ ReadEeprom
    <2>1. \E x, a, m : IssueCmd(x, a, m)
      BY <1>3 DEF ConfigureMap, InterrogateMap, Sleep, Wake, SetWepCache, SetTemplatesAt,
         SetQueuesAt, SetPoolAt, InitTemplate, SetTim, ConfigureQueue, ConfigureMemory111,
         InterrogateQueues, SetBlockSize, ConfigurePools, ReadEeprom
    <2> QED BY <1>2, <2>1
  <1>4. CASE RadioInit
    <2>1. CASE try = 0
      BY <1>1, <1>4, <2>1 DEF RadioInit, driver
    <2>2. CASE try # 0
      BY <1>2, <1>4, <2>2 DEF RadioInit
    <2> QED BY <2>1, <2>2
  <1>5. CASE ResetMac
    BY <1>1, <1>5 DEF ResetMac
  <1>6. CASE Upload
    <2>1. UNCHANGED <<HW_UP, cmd_area>> /\ FW_LOADED' \in {FW_LOADED, TRUE}
          /\ (Moved \/ UNCHANGED <<result, op, image>>)
          /\ (try' = 1 \/ (try < Attempts /\ try' = try + 1))
      BY <1>1, <1>6 DEF Upload
    <2> QED BY <2>1
  <1>7. CASE UploadRadioFw
    <2>1. UNCHANGED driver /\ (Moved \/ UNCHANGED <<result, op, image>>)
          /\ (try' \in {0, 1} \/ (try < Attempts /\ try' = try + 1))
      BY <1>1, <1>7 DEF UploadRadioFw
    <2> QED BY <2>1 DEF driver
  <1>8. CASE StartEcpu \/ VerifyInit \/ InitMboxes
    BY <1>1, <1>8 DEF StartEcpu, VerifyInit, InitMboxes, driver
  <1>9. CASE InitMemory \/ Allocate \/ CreateDescQueues
    BY <1>1, <1>9 DEF InitMemory, Allocate, CreateDescQueues
  <1>10. CASE Probe \/ ProbeEnd \/ OpStart \/ OpStartEnd \/ OpStop
    BY <1>10 DEF Probe, ProbeEnd, OpStart, OpStartEnd, OpStop, Boot, driver
  <1> QED BY <1>3, <1>4, <1>5, <1>6, <1>7, <1>8, <1>9, <1>10 DEF Next

LEMMA OtherTypesInvariance == SpecEither => []OtherTypes
  <1>1. InitEither => OtherTypes
    <2>1. 1 \in 0..Attempts
      BY BootAssumption
    <2> QED BY <2>1 DEF InitEither, Init, OtherTypes, Codes
  <1>2. OtherTypes /\ [NextEither]_all => OtherTypes'
    <2> SUFFICES ASSUME OtherTypes, [NextEither]_all PROVE OtherTypes'
      OBVIOUS
    <2>1. CASE Next
      <3>1. try' \in 0..Attempts
        BY <2>1, OthersChange, BootAssumption DEF OtherTypes
      <3>2. card' = card /\ fw_image' = fw_image /\ radio_image' = radio_image
        BY <2>1, OthersChange DEF image
      <3> QED BY <2>1, <3>1, <3>2, OthersChange DEF OtherTypes
    <2>2. CASE UNCHANGED vars
      BY <2>2 DEF OtherTypes, vars, image, driver
    <2> QED BY <2>1, <2>2 DEF NextEither, all
  <1> QED BY <1>1, <1>2, PTL DEF SpecEither

LEMMA TypesFollow == CodeIInv /\ BufsIInv /\ ReadyIInv /\ OtherTypes => TypeOK
  <1> SUFFICES ASSUME CodeIInv, BufsIInv, ReadyIInv, OtherTypes PROVE TypeOK
    OBVIOUS
  <1>1. acx \in Adapter /\ acx.map \in MemMap /\ acx.queue \in Nat
    BY CodeFacts DEF Adapter
  <1>2. /\ acx.ecpu \in {"halted", "running"} /\ acx.code \in Codes /\ acx.radio \in Codes
        /\ acx.patch \in Patched
        /\ {acx.radioOn, acx.awake, acx.linked, acx.disturbed} \subseteq BOOLEAN
        /\ acx.templates \subseteq TemplateNames
    BY <1>1 DEF Adapter
  <1>3. acx.queue \in 0..MemorySize
    BY <1>1, RoomsAre DEF ReadyIInv, AdapterFits
  <1>4. \A f \in DOMAIN NoMap :
          /\ acx.map[f] \in 0..MemorySize
          /\ mm[f] \in 0..MemorySize \/ (f = "CodeEnd" /\ mm[f] = OtherAddress)
    BY <1>1, FieldsFit DEF ReadyIInv, AdapterFits, DriverFits
  <1>5. live \in 0..Cardinality(Buffers)
    <2>1. /\ Cardinality(bufs) \in Nat /\ Cardinality(Buffers) \in Nat
          /\ Cardinality(bufs) <= Cardinality(Buffers)
      BY BuffersFinite, FS_Subset, FS_CardinalityType DEF BufsIInv
    <2> QED BY <2>1 DEF BufsIInv, AllocationsAreHeld
  <1>6. acxdesc \in 0..MemorySize
    BY DEF ReadyIInv, DriverFits
  <1> QED BY <1>2, <1>3, <1>4, <1>5, <1>6 DEF TypeOK, OtherTypes, BufsIInv

\* The areas of the adapter's memory do not overlap, for memory of every size in which
\* there is room, and no address is behind its end, however many boots have failed.
THEOREM MemoryIsAlwaysDivided == SpecEither => []MemoryIsDivided
  <1>1. CodeIInv /\ BufsIInv /\ ReadyIInv /\ OtherTypes => MemoryIsDivided
    BY TypesFollow, DividedWhenBooted DEF MemoryIsDivided
  <1> QED BY <1>1, BufsInvariance, CodeInvariance, ReadyInvariance, OtherTypesInvariance, PTL
===============================================================================
