---------------------------- MODULE TxBuffersProofs ----------------------------
(***************************************************************************)
(* The two transports that keep a pool of transmit buffers, for any number *)
(* of buffers and any lengths of frames: on USB, whose a buffer is and     *)
(* what the count of free ones is worth; in slave memory, the ring, and    *)
(* where each block of the adapter's memory is.                            *)
(***************************************************************************)
EXTENDS MCTxBuffers, FiniteSetTheorems, WellFoundedInduction, TLAPS

R == INSTANCE TxRingProofs

-------------------------------------------------------------------------------
(* USB: whose a buffer is *)

\* What is stored into the count is an unsigned int.
LEMMA CounterInRange ==
  ASSUME usb_free \in 0 .. 2^UintBits - 1, NEW load \in 0 .. 2^UintBits - 1, NEW n \in {-1, 1},
         torn \in BOOLEAN, Usb!Store(load, n)
  PROVE  usb_free' \in 0 .. 2^UintBits - 1 /\ torn' \in BOOLEAN
<1> DEFINE M == 2^UintBits
<1>1. M \in Nat \ {0}
  BY UsbAssumption DEF Usb!UsbUrbsAssumption
<1>2. PICK loaded \in {load, usb_free} :
        usb_free' = (loaded + n) % M /\ torn' = (torn \/ loaded # usb_free)
  BY DEF Usb!Store
<1> HIDE DEF M
<1>3. \A x \in Int : x % M \in 0 .. M - 1
  BY <1>1
<1>4. loaded + n \in Int
  BY <1>1, <1>2 DEF M
<1> QED
  BY <1>2, <1>3, <1>4 DEF M

LEMMA UsbConstants ==
  /\ ACX_TX_URB_CNT \in Nat \ {0} /\ MaxFrames \in Nat
  /\ 2^UintBits \in Nat /\ ACX_TX_URB_CNT \in 0 .. 2^UintBits - 1
  BY UsbAssumption DEF Usb!UsbUrbsAssumption

\* What acxusb_poll_rx makes of an URB that nothing holds back.
LEMMA UsbPollRx ==
  ASSUME NEW j \in 0..1, NEW flying \in SUBSET (0..1), NEW reset \in SUBSET (0..1),
         deaf \in BOOLEAN, Usb!PollRx(j, flying, reset)
  PROVE  /\ rxReset' = reset /\ deaf' \in BOOLEAN /\ (deaf => deaf')
         /\ rxUrb' \in {flying, flying \cup {j}}
         /\ reset = {} /\ ~deaf' => rxUrb' = flying \cup {j}
<1>1. CASE j \in reset
  BY <1>1 DEF Usb!PollRx
<1>2. CASE j \notin reset
  BY <1>2, Zenon DEF Usb!PollRx, Usb!Submitted
<1> QED
  BY <1>1, <1>2

LEMMA UsbEndings ==
  ASSUME NEW i \in 0..1, rxReset \subseteq 0..1, NEW reset \in Usb!Endings(i)
  PROVE  reset \subseteq 0..1 /\ (~lingered => reset \subseteq rxReset)
  BY DEF Usb!Endings

LEMMA UsbTypeStep == ASSUME Usb!UrbIInv, Usb!Next PROVE Usb!TypeOK'
<1>1. Usb!TypeOK /\ Usb!WhoRuns
  BY DEF Usb!UrbIInv, Usb!StatusIsOwn
<1>2. CASE Usb!OpTx
  BY <1>1, <1>2, UsbConstants DEF Usb!TypeOK, Usb!OpTx, Usb!pool, Usb!urbs, Usb!irq
<1>3. CASE Usb!TxWorkStart \/ Usb!TxWorkEnd \/ Usb!AllocBusy \/ Usb!TxWorkLimit \/ Usb!TxWorkStop
  <2>1. stopped' \in BOOLEAN /\ txWork' \in BOOLEAN
    BY <1>1, <1>3, Zenon
       DEF Usb!TypeOK, Usb!TxWorkStart, Usb!TxWorkEnd, Usb!AllocBusy, Usb!TxWorkLimit,
           Usb!TxWorkStop, Usb!pool, Usb!urbs, Usb!irq, Usb!mac
  <2>2. /\ UNCHANGED <<HW_UP, Usb!pool, Usb!urbs, tx, txLoad, Usb!irq, opAt, accepted, sent,
                       usb_reported>>
        /\ sem' \in {"none", "tx_work"}
        /\ txAt' \in {"idle", "dequeue", "stop"}
    BY <1>1, <1>3
       DEF Usb!TypeOK, Usb!WhoRuns, Usb!TxWorkStart, Usb!TxWorkEnd, Usb!AllocBusy, Usb!TxWorkLimit,
           Usb!TxWorkStop, Usb!mac
  <2> QED
    BY <1>1, <2>1, <2>2 DEF Usb!TypeOK, Usb!pool, Usb!urbs, Usb!irq
<1>4. CASE Usb!AllocTx
  <2>1. PICK s \in Usb!Slots : busy' = [busy EXCEPT ![s] = TRUE] /\ usb_head' = s /\ tx' = s
    BY <1>4 DEF Usb!AllocTx, Usb!FirstFree, Usb!FreeSlots
  <2>2. busy' \in [Usb!Slots -> BOOLEAN]
    BY <1>1, <2>1, Zenon DEF Usb!TypeOK
  <2> QED
    BY <1>1, <1>4, <2>1, <2>2 DEF Usb!TypeOK, Usb!AllocTx, Usb!urbs, Usb!irq, Usb!mac
<1>5. CASE Usb!AllocCount \/ Usb!TxDataUncount
  <2>1. Usb!Store(txLoad, -1) \/ Usb!Store(txLoad, 1)
    BY <1>5 DEF Usb!AllocCount, Usb!TxDataUncount
  <2>2. usb_free' \in 0 .. 2^UintBits - 1 /\ torn' \in BOOLEAN
    BY <1>1, <2>1, CounterInRange DEF Usb!TypeOK
  <2>3. /\ txAt' \in {"data", "limit"} /\ txLoad' = 0
        /\ UNCHANGED <<HW_UP, sem, busy, usb_skb, usb_head, Usb!urbs, tx, txWork, Usb!irq,
                       Usb!mac, sent, usb_reported>>
    BY <1>5, Zenon DEF Usb!AllocCount, Usb!TxDataUncount
  <2> QED
    BY <1>1, <2>2, <2>3, UsbConstants DEF Usb!TypeOK, Usb!urbs, Usb!irq, Usb!mac
<1>6. CASE Usb!TxData
  <2>1. busy' \in [Usb!Slots -> BOOLEAN]
    BY <1>1, <1>6, Zenon DEF Usb!TypeOK, Usb!TxData
  <2>2. sent' \in 0..accepted /\ sent + 1 \in 0..MaxFrames /\ sent < accepted
    BY <1>1, <1>6, UsbConstants DEF Usb!TypeOK, Usb!WhoRuns, Usb!TxData
  <2>3. usb_skb' \in [Usb!Slots -> 0..MaxFrames]
    BY <1>1, <1>6, <2>2 DEF Usb!TypeOK, Usb!TxData
  <2>4. /\ txUrb' \subseteq Usb!Slots /\ txLoad' \in 0 .. 2^UintBits - 1
        /\ txAt' \in {"limit", "uncount"}
    BY <1>1, <1>6 DEF Usb!TypeOK, Usb!TxData
  <2>5. tx' \in Usb!Slots
    BY <1>6, UsbConstants DEF Usb!TxData, Usb!Slots
  <2> QED
    BY <1>1, <1>6, <2>1, <2>2, <2>3, <2>4, <2>5 DEF Usb!TypeOK, Usb!TxData, Usb!irq, Usb!mac
<1>7. CASE \E s \in Usb!Slots : Usb!CompleteTx(s)
  <2>1. PICK s \in Usb!Slots : Usb!CompleteTx(s)
    BY <1>7
  <2>2. <<s, usb_skb[s]>> \in Usb!Slots \X (0..MaxFrames)
    BY <1>1 DEF Usb!TypeOK
  <2>3. device' \subseteq Usb!Slots \X (0..MaxFrames) /\ txUrb' \subseteq Usb!Slots
    BY <1>1, <2>1, <2>2 DEF Usb!TypeOK, Usb!CompleteTx
  <2> QED
    BY <1>1, <2>1, <2>3 DEF Usb!TypeOK, Usb!CompleteTx, Usb!pool, Usb!work, Usb!irq, Usb!mac
<1>8. CASE \E i \in 0..1 : Usb!CompleteRx(i)
  <2> PICK i \in 0..1 : Usb!CompleteRx(i)
    BY <1>8
  <2>1. PICK reset \in Usb!Endings(i), brought \in SUBSET device :
          /\ Usb!PollRx(1 - i, rxUrb \ {i}, reset)
          /\ device' = device \ brought
          /\ \/ rest' = brought /\ rxAt' \in {"idle", "packets"} /\ UNCHANGED lost
             \/ lost' = lost \cup {st[2] : st \in brought} /\ UNCHANGED <<rest, rxAt>>
    BY DEF Usb!CompleteRx, Usb!Packets
  <2>2. 1 - i \in 0..1
    OBVIOUS
  <2>3. rxUrb' \subseteq 0..1 /\ rxReset' \subseteq 0..1 /\ deaf' \in BOOLEAN
    <3>1. rxUrb \subseteq 0..1 /\ rxReset \subseteq 0..1 /\ deaf \in BOOLEAN
      BY <1>1 DEF Usb!TypeOK
    <3>2. rxUrb \ {i} \in SUBSET (0..1) /\ reset \in SUBSET (0..1)
      BY <3>1, UsbEndings
    <3>3. /\ rxReset' = reset /\ deaf' \in BOOLEAN
          /\ rxUrb' \in {rxUrb \ {i}, (rxUrb \ {i}) \cup {1 - i}}
      BY <2>1, <2>2, <3>1, <3>2, UsbPollRx, Zenon
    <3> QED
      BY <2>2, <3>2, <3>3
  <2>4. \A st \in brought : st \in Usb!Slots \X (0..MaxFrames) /\ st[2] \in 0..MaxFrames
    BY <1>1 DEF Usb!TypeOK
  <2>5. /\ lost' \subseteq 0..MaxFrames /\ rest' \subseteq Usb!Slots \X (0..MaxFrames)
        /\ device' \subseteq Usb!Slots \X (0..MaxFrames)
        /\ rxAt' \in {"idle", "packets", "count", "wake"}
    <3>1. {st[2] : st \in brought} \subseteq 0..MaxFrames
      BY <2>4, Zenon
    <3>2. /\ lost \subseteq 0..MaxFrames /\ rest \subseteq Usb!Slots \X (0..MaxFrames)
          /\ device \subseteq Usb!Slots \X (0..MaxFrames)
          /\ rxAt \in {"idle", "packets", "count", "wake"}
      BY <1>1 DEF Usb!TypeOK
    <3>3. brought \subseteq Usb!Slots \X (0..MaxFrames)
      BY <2>4, Zenon
    <3> HIDE <2>4
    <3> QED
      BY <2>1, <3>1, <3>2, <3>3
  <2>6. UNCHANGED <<HW_UP, sem, Usb!pool, txUrb, lingered, Usb!work, rxLoad, Usb!mac, sent,
                    usb_reported>>
    BY <1>8 DEF Usb!CompleteRx
  <2> QED
    BY <1>1, <2>3, <2>5, <2>6 DEF Usb!TypeOK, Usb!pool, Usb!work, Usb!mac
<1>9. CASE \E i \in 0..1 : Usb!CompleteRxDown(i)
  <2>1. PICK i \in 0..1 : Usb!CompleteRxDown(i)
    BY <1>9
  <2>2. rxReset' \subseteq 0..1 /\ rxUrb' \subseteq 0..1 /\ deaf' \in BOOLEAN
    BY <1>1, <2>1, UsbEndings DEF Usb!TypeOK, Usb!CompleteRxDown
  <2>3. UNCHANGED <<HW_UP, sem, Usb!pool, txUrb, device, lingered, lost, Usb!work, Usb!irq,
                    Usb!mac, sent, usb_reported>>
    BY <2>1 DEF Usb!CompleteRxDown
  <2> QED
    BY <1>1, <2>2, <2>3 DEF Usb!TypeOK, Usb!pool, Usb!work, Usb!irq, Usb!mac
<1>10. CASE Usb!RxStatus
  <2>1. PICK st \in rest : /\ rest' = rest \ {st} /\ busy' = [busy EXCEPT ![st[1]] = FALSE]
                           /\ usb_reported' = usb_reported \cup {usb_skb[st[1]]}
    BY <1>10 DEF Usb!RxStatus
  <2>2. st[1] \in Usb!Slots
    BY <1>1 DEF Usb!TypeOK
  <2>3. usb_skb[st[1]] \in 0..MaxFrames
    BY <1>1, <2>2 DEF Usb!TypeOK
  <2>4. busy' \in [Usb!Slots -> BOOLEAN]
    BY <1>1, <2>1, Zenon DEF Usb!TypeOK
  <2>5. /\ rest' \subseteq rest /\ usb_reported' \subseteq 0..MaxFrames
        /\ rxLoad' = usb_free /\ rxAt' = "count"
    BY <1>1, <1>10, <2>1, <2>3 DEF Usb!TypeOK, Usb!RxStatus
  <2>6. UNCHANGED <<HW_UP, sem, usb_skb, usb_head, usb_free, torn, Usb!urbs, Usb!work, Usb!mac,
                    sent>>
    BY <1>10 DEF Usb!RxStatus
  <2> QED
    BY <1>1, <2>4, <2>5, <2>6 DEF Usb!TypeOK, Usb!urbs, Usb!work, Usb!mac
<1>11. CASE Usb!RxCount
  <2>1. usb_free' \in 0 .. 2^UintBits - 1 /\ torn' \in BOOLEAN
    BY <1>1, <1>11, CounterInRange DEF Usb!TypeOK, Usb!RxCount
  <2> QED
    BY <1>1, <1>11, <2>1, UsbConstants DEF Usb!TypeOK, Usb!RxCount, Usb!urbs, Usb!work, Usb!mac
<1>12. CASE Usb!RxWake
  <2>1. stopped' \in BOOLEAN /\ txWork' \in BOOLEAN
    BY <1>1, <1>12, Zenon DEF Usb!TypeOK, Usb!RxWake
  <2>2. rxAt' \in {"idle", "packets"}
    BY <1>12 DEF Usb!RxWake, Usb!Packets
  <2> QED
    BY <1>1, <1>12, <2>1, <2>2 DEF Usb!TypeOK, Usb!RxWake, Usb!pool, Usb!urbs
<1>13. CASE Usb!OpStart
  <2>1. busy' \in [Usb!Slots -> BOOLEAN] /\ usb_skb' \in [Usb!Slots -> 0..MaxFrames]
    BY <1>13, UsbConstants DEF Usb!OpStart
  <2>2. usb_free' \in 0 .. 2^UintBits - 1
    BY <1>13, UsbConstants DEF Usb!OpStart, Usb!FreeAfterReset
  <2>3. lingered' \in BOOLEAN
    BY <1>13, Zenon DEF Usb!OpStart
  <2>4. /\ rxReset' = {} /\ deaf' = FALSE /\ torn' = FALSE /\ sem' = "op" /\ opAt' = "waking"
        /\ accepted' = 0 /\ sent' = 0 /\ usb_reported' = {} /\ lost' = {}
        /\ UNCHANGED <<HW_UP, usb_head, txUrb, rxUrb, device, Usb!work, Usb!irq, stopped>>
    BY <1>13 DEF Usb!OpStart, Usb!StatusAfterReset
  <2>5. 0 \in 0..MaxFrames /\ 0 \in 0..0
    BY UsbConstants
  <2> QED
    BY <1>1, <2>1, <2>2, <2>3, <2>4, <2>5 DEF Usb!TypeOK, Usb!work, Usb!irq
<1>14. CASE Usb!OpStartPoll
  <2>1. /\ rxUrb' \subseteq 0..1 /\ rxReset' \subseteq 0..1 /\ deaf' \in BOOLEAN
    <3>1. /\ 0 \in 0..1 /\ rxUrb \in SUBSET (0..1) /\ rxReset \in SUBSET (0..1)
          /\ deaf \in BOOLEAN /\ Usb!PollRx(0, rxUrb, rxReset)
      BY <1>1, <1>14 DEF Usb!TypeOK, Usb!OpStartPoll
    <3>2. rxReset' = rxReset /\ deaf' \in BOOLEAN /\ rxUrb' \in {rxUrb, rxUrb \cup {0}}
      BY <3>1, UsbPollRx, Zenon
    <3> QED
      BY <3>1, <3>2
  <2> QED
    BY <1>1, <1>14, <2>1 DEF Usb!TypeOK, Usb!OpStartPoll, Usb!pool, Usb!work, Usb!irq
<1>15. CASE Usb!OpStartUp \/ Usb!OpStopDown \/ Usb!OpStopCommands
  <2>1. HW_UP' \in BOOLEAN /\ stopped' \in BOOLEAN
    BY <1>1, <1>15, Zenon
       DEF Usb!TypeOK, Usb!OpStartUp, Usb!OpStopDown, Usb!OpStopCommands
  <2>2. /\ sem' \in {"none", "op"} /\ opAt' \in {"up", "commands", "cancel"}
        /\ UNCHANGED <<Usb!pool, Usb!urbs, Usb!work, Usb!irq, accepted, sent, usb_reported>>
    BY <1>15 DEF Usb!OpStartUp, Usb!OpStopDown, Usb!OpStopCommands
  <2> QED
    BY <1>1, <2>1, <2>2 DEF Usb!TypeOK, Usb!pool, Usb!urbs, Usb!work, Usb!irq
<1>16. CASE Usb!OpStopEnd
  <2>1. busy' \in [Usb!Slots -> BOOLEAN] /\ usb_free' \in 0 .. 2^UintBits - 1
    BY <1>16, UsbConstants DEF Usb!OpStopEnd, Usb!FreeAfterReset
  <2>2. txUrb' \subseteq txUrb /\ rxUrb' \subseteq rxUrb /\ rxReset' \subseteq 0..1
    BY <1>1, <1>16 DEF Usb!TypeOK, Usb!OpStopEnd, Usb!Late
  <2>3. lingered' \in BOOLEAN
    BY <1>16, Zenon DEF Usb!OpStopEnd
  <2>4. /\ device' = {} /\ torn' = FALSE /\ txWork' = FALSE /\ opAt' = "down" /\ sent' = accepted
        /\ UNCHANGED <<HW_UP, sem, usb_skb, usb_head, deaf, lost, txAt, tx, txLoad, Usb!irq,
                       stopped, accepted, usb_reported>>
    BY <1>16 DEF Usb!OpStopEnd
  <2>5. accepted \in 0..MaxFrames /\ accepted \in 0..accepted
    BY <1>1, UsbConstants DEF Usb!TypeOK
  <2> QED
    BY <1>1, <2>1, <2>2, <2>3, <2>4, <2>5 DEF Usb!TypeOK, Usb!irq
<1> QED
  BY <1>2, <1>3, <1>4, <1>5, <1>6, <1>7, <1>8, <1>9, <1>10, <1>11, <1>12, <1>13, <1>14, <1>15,
     <1>16 DEF Usb!Next, Usb!TxWork, Usb!RxPackets, Usb!Op

LEMMA UsbWhoRunsStep == ASSUME Usb!UrbIInv, Usb!Next PROVE Usb!WhoRuns'
<1>1. Usb!TypeOK /\ Usb!WhoRuns
  BY DEF Usb!UrbIInv, Usb!StatusIsOwn
<1>2. CASE Usb!OpTx
  BY <1>1, <1>2 DEF Usb!TypeOK, Usb!WhoRuns, Usb!OpTx, Usb!pool, Usb!urbs, Usb!irq
<1>3. CASE Usb!TxWork
  BY <1>1, <1>3
     DEF Usb!WhoRuns, Usb!TxWork, Usb!TxWorkStart, Usb!TxWorkEnd, Usb!AllocTx,
         Usb!AllocCount, Usb!AllocBusy, Usb!TxData, Usb!TxDataUncount, Usb!TxWorkLimit,
         Usb!TxWorkStop, Usb!irq, Usb!mac
<1>4. CASE \E s \in Usb!Slots : Usb!CompleteTx(s)
  BY <1>1, <1>4 DEF Usb!WhoRuns, Usb!CompleteTx, Usb!work, Usb!irq, Usb!mac
<1>5. CASE \E i \in 0..1 : Usb!CompleteRx(i) \/ Usb!CompleteRxDown(i)
  <2>1. UNCHANGED <<HW_UP, sem, Usb!work, Usb!mac, sent>>
    BY <1>5 DEF Usb!CompleteRx, Usb!CompleteRxDown
  <2>2. \/ UNCHANGED <<rxAt, rest>>
        \/ HW_UP /\ rxAt' = IF rest' = {} THEN "idle" ELSE "packets"
    BY <1>5 DEF Usb!CompleteRx, Usb!CompleteRxDown, Usb!Packets, Usb!irq
  <2> QED
    BY <1>1, <2>1, <2>2 DEF Usb!WhoRuns, Usb!work, Usb!mac
<1>6. CASE Usb!RxPackets
  BY <1>1, <1>6
     DEF Usb!WhoRuns, Usb!RxPackets, Usb!RxStatus, Usb!RxCount, Usb!RxWake, Usb!Packets,
         Usb!urbs, Usb!work, Usb!mac
<1>7. CASE Usb!Op
  BY <1>1, <1>7
     DEF Usb!WhoRuns, Usb!Op, Usb!OpStart, Usb!OpStartPoll, Usb!OpStartUp, Usb!OpStopDown,
         Usb!OpStopCommands, Usb!OpStopEnd, Usb!urbs, Usb!work, Usb!irq
<1> QED
  BY <1>2, <1>3, <1>4, <1>5, <1>6, <1>7 DEF Usb!Next

\* But for the start, a step after which no URB is left over had none before it.
LEMMA UsbStaysOnTime ==
  ASSUME Usb!Next, ~lingered', ~Usb!OpStart
  PROVE  ~lingered
<1>1. CASE Usb!OpStopEnd
  BY <1>1 DEF Usb!OpStopEnd
<1>2. CASE \E i \in 0..1 : Usb!CompleteRx(i) \/ Usb!CompleteRxDown(i)
  BY <1>2 DEF Usb!CompleteRx, Usb!CompleteRxDown
<1>3. CASE \E s \in Usb!Slots : Usb!CompleteTx(s)
  BY <1>3 DEF Usb!CompleteTx
<1>4. CASE Usb!TxWork
  BY <1>4
     DEF Usb!TxWork, Usb!TxWorkStart, Usb!TxWorkEnd, Usb!AllocTx, Usb!AllocCount, Usb!AllocBusy,
         Usb!TxData, Usb!TxDataUncount, Usb!TxWorkLimit, Usb!TxWorkStop, Usb!urbs
<1>5. CASE Usb!OpTx \/ Usb!RxPackets \/ Usb!OpStartPoll \/ Usb!OpStartUp \/ Usb!OpStopDown
           \/ Usb!OpStopCommands
  BY <1>5
     DEF Usb!OpTx, Usb!RxPackets, Usb!RxStatus, Usb!RxCount, Usb!RxWake, Usb!OpStartPoll,
         Usb!OpStartUp, Usb!OpStopDown, Usb!OpStopCommands, Usb!urbs
<1> QED
  BY <1>1, <1>2, <1>3, <1>4, <1>5 DEF Usb!Next, Usb!Op

\* A start that finds nothing left over: there is no frame in any buffer.
LEMMA UsbStartIsClean ==
  ASSUME Usb!UrbIInv, Usb!OpStart, ~lingered'
  PROVE  /\ txUrb' = {} /\ rxUrb' = {} /\ device' = {} /\ rest' = {} /\ rxReset' = {}
         /\ txAt' = "idle" /\ opAt' = "waking" /\ ~HW_UP'
         /\ usb_reported' = {} /\ usb_skb' = [s \in Usb!Slots |-> 0] /\ sent' = 0
<1>1. txUrb \cup rxUrb = {} /\ device = {}
  BY DEF Usb!OpStart
<1> QED
  BY <1>1
     DEF Usb!UrbIInv, Usb!WhoRuns, Usb!OpStart, Usb!StatusAfterReset, Usb!work, Usb!irq

\* A status is a pair, and the only one of its buffer.
LEMMA StatusIsItsBuffers ==
  ASSUME Usb!UrbIInv, ~lingered, NEW st \in device \cup rest
  PROVE  /\ st[1] \in Usb!Slots /\ st[2] \in 1..MaxFrames /\ Usb!Reported(st[1])
         /\ usb_skb[st[1]] = st[2]
         /\ \A other \in device \cup rest : other[1] = st[1] => other = st
<1>1. \A a \in device \cup rest :
        /\ a[1] \in Usb!Slots /\ a[2] \in 0..MaxFrames /\ a = <<a[1], a[2]>>
        /\ usb_skb[a[1]] = a[2]
  BY DEF Usb!UrbIInv, Usb!StatusIsOwn, Usb!TypeOK
<1>2. Usb!Reported(st[1]) /\ usb_skb[st[1]] # 0
  BY <1>1 DEF Usb!Reported, Usb!UrbIInv, Usb!FramesAreNew
<1> QED
  BY <1>1, <1>2, UsbConstants

LEMMA UsbOneOwnerStep == ASSUME Usb!UrbIInv, Usb!Next, ~lingered' PROVE Usb!OneOwner'
<1>1. CASE Usb!OpStart
  BY <1>1, UsbStartIsClean DEF Usb!OneOwner, Usb!Reported, Usb!Filling
<1> SUFFICES ASSUME ~Usb!OpStart PROVE Usb!OneOwner'
  BY <1>1
<1>2. Usb!TypeOK /\ Usb!WhoRuns /\ Usb!OneOwner /\ ~lingered
  BY UsbStaysOnTime DEF Usb!UrbIInv, Usb!StatusIsOwn
<1>3. CASE Usb!OpTx \/ Usb!TxWorkStart \/ Usb!TxWorkEnd \/ Usb!AllocBusy \/ Usb!TxWorkLimit
           \/ Usb!TxWorkStop \/ Usb!AllocCount \/ Usb!TxDataUncount
  <2>1. /\ UNCHANGED <<busy, txUrb, device, rest, tx>>
        /\ txAt' \in {"count", "data"} => txAt \in {"count", "data"}
    BY <1>3
       DEF Usb!OpTx, Usb!TxWorkStart, Usb!TxWorkEnd, Usb!AllocBusy, Usb!TxWorkLimit,
           Usb!TxWorkStop, Usb!AllocCount, Usb!TxDataUncount, Usb!pool, Usb!urbs, Usb!irq
  <2> QED
    BY <1>2, <2>1 DEF Usb!OneOwner, Usb!Reported, Usb!Filling
<1>4. CASE Usb!AllocTx
  <2>1. PICK s \in Usb!Slots : ~busy[s] /\ busy' = [busy EXCEPT ![s] = TRUE] /\ tx' = s
    BY <1>4 DEF Usb!AllocTx, Usb!FirstFree, Usb!FreeSlots
  <2>2. UNCHANGED <<txUrb, device, rest>>
    BY <1>4 DEF Usb!AllocTx, Usb!urbs, Usb!irq
  <2>3. s \notin txUrb /\ ~Usb!Reported(s)
    BY <1>2, <2>1 DEF Usb!OneOwner
  <2>4. \A t \in Usb!Slots : /\ Usb!Reported(t)' <=> Usb!Reported(t)
                             /\ Usb!Filling(t)' => t = s
                             /\ busy[t] \/ t = s => busy'[t]
    BY <1>2, <2>1, <2>2 DEF Usb!Reported, Usb!Filling, Usb!TypeOK
  <2> QED
    BY <1>2, <2>2, <2>3, <2>4 DEF Usb!OneOwner, Usb!TypeOK
<1>5. CASE Usb!TxData
  <2>1. /\ UNCHANGED <<device, rest>> /\ txAt = "data" /\ txAt' \notin {"count", "data"}
        /\ \/ txUrb' = txUrb \cup {tx} /\ busy' = busy
           \/ txUrb' = txUrb /\ busy' = [busy EXCEPT ![tx] = FALSE]
    BY <1>5 DEF Usb!TxData, Usb!irq
  <2>2. Usb!Filling(tx) /\ tx \in Usb!Slots
    BY <1>2, <2>1 DEF Usb!Filling, Usb!TypeOK
  <2>3. tx \notin txUrb /\ ~Usb!Reported(tx) /\ busy[tx]
    BY <1>2, <2>2 DEF Usb!OneOwner
  <2>4. \A t \in Usb!Slots : /\ Usb!Reported(t)' <=> Usb!Reported(t)
                             /\ ~Usb!Filling(t)'
                             /\ busy[t] /\ t # tx => busy'[t]
    BY <1>2, <2>1 DEF Usb!Reported, Usb!Filling, Usb!TypeOK
  <2> QED
    BY <1>2, <2>1, <2>2, <2>3, <2>4 DEF Usb!OneOwner, Usb!TypeOK
<1>6. CASE \E s \in Usb!Slots : Usb!CompleteTx(s)
  <2>1. PICK s \in Usb!Slots : Usb!CompleteTx(s)
    BY <1>6
  <2>2. /\ UNCHANGED <<busy, rest, txAt, tx>> /\ s \in txUrb /\ txUrb' = txUrb \ {s}
        /\ device' \in {device, device \cup {<<s, usb_skb[s]>>}} /\ rest = {}
    BY <1>2, <2>1 DEF Usb!CompleteTx, Usb!pool, Usb!work, Usb!irq, Usb!WhoRuns
  <2>3. \A t \in Usb!Slots : /\ Usb!Reported(t)' => Usb!Reported(t) \/ t = s
                             /\ Usb!Filling(t)' <=> Usb!Filling(t)
    BY <2>2 DEF Usb!Reported, Usb!Filling
  <2> QED
    BY <1>2, <2>2, <2>3 DEF Usb!OneOwner, Usb!TypeOK
<1>7. CASE \E i \in 0..1 : Usb!CompleteRx(i) \/ Usb!CompleteRxDown(i)
  <2>1. /\ UNCHANGED <<busy, txUrb, txAt, tx>>
        /\ device' \cup rest' \subseteq device \cup rest /\ device' \cap rest' = {}
    <3>1. PICK i \in 0..1 : Usb!CompleteRx(i) \/ Usb!CompleteRxDown(i)
      BY <1>7
    <3>2. UNCHANGED <<busy, txUrb, txAt, tx>> /\ rest = {}
      BY <1>2, <3>1
         DEF Usb!CompleteRx, Usb!CompleteRxDown, Usb!pool, Usb!work, Usb!WhoRuns
    <3>3. CASE Usb!CompleteRx(i)
      BY <3>2, <3>3 DEF Usb!CompleteRx
    <3>4. CASE Usb!CompleteRxDown(i)
      BY <3>2, <3>4 DEF Usb!CompleteRxDown, Usb!irq
    <3> QED
      BY <3>1, <3>2, <3>3, <3>4
  <2>2. \A t \in Usb!Slots : /\ Usb!Reported(t)' => Usb!Reported(t)
                             /\ Usb!Filling(t)' <=> Usb!Filling(t)
    BY <2>1 DEF Usb!Reported, Usb!Filling
  <2> QED
    BY <1>2, <2>1, <2>2 DEF Usb!OneOwner, Usb!TypeOK
<1>8. CASE Usb!RxStatus
  <2>1. PICK st \in rest : rest' = rest \ {st} /\ busy' = [busy EXCEPT ![st[1]] = FALSE]
    BY <1>8 DEF Usb!RxStatus
  <2>2. UNCHANGED <<txUrb, device, txAt, tx>>
    BY <1>8 DEF Usb!RxStatus, Usb!urbs, Usb!work
  <2>3. /\ st[1] \in Usb!Slots /\ Usb!Reported(st[1])
        /\ \A other \in device \cup rest : other[1] = st[1] => other = st
    BY <1>2, StatusIsItsBuffers
  <2>4. st \notin device /\ st[1] \notin txUrb /\ ~Usb!Filling(st[1])
    BY <1>2, <2>1, <2>3 DEF Usb!OneOwner
  <2>5. \A t \in Usb!Slots : /\ Usb!Reported(t)' => Usb!Reported(t) /\ t # st[1]
                             /\ Usb!Filling(t)' <=> Usb!Filling(t)
                             /\ busy[t] /\ t # st[1] => busy'[t]
    BY <1>2, <2>1, <2>2, <2>3, <2>4 DEF Usb!Reported, Usb!Filling, Usb!TypeOK
  <2> QED
    BY <1>2, <2>1, <2>2, <2>3, <2>4, <2>5 DEF Usb!OneOwner, Usb!TypeOK
<1>9. CASE \/ Usb!RxCount \/ Usb!RxWake
           \/ Usb!OpStartPoll \/ Usb!OpStartUp \/ Usb!OpStopDown \/ Usb!OpStopCommands
  <2>1. UNCHANGED <<busy, txUrb, device, rest, txAt, tx>>
    BY <1>9
       DEF Usb!RxCount, Usb!RxWake, Usb!OpStartPoll, Usb!OpStartUp, Usb!OpStopDown,
           Usb!OpStopCommands, Usb!pool, Usb!urbs, Usb!work, Usb!irq
  <2> QED
    BY <1>2, <2>1 DEF Usb!OneOwner, Usb!Reported, Usb!Filling
<1>10. CASE Usb!OpStopEnd
  <2>1. txAt' = "idle" /\ txUrb' = {} /\ device' = {} /\ rest' = {}
    BY <1>2, <1>10 DEF Usb!OpStopEnd, Usb!WhoRuns, Usb!irq
  <2> QED
    BY <2>1 DEF Usb!OneOwner, Usb!Reported, Usb!Filling
<1> QED
  BY <1>3, <1>4, <1>5, <1>6, <1>7, <1>8, <1>9, <1>10
     DEF Usb!Next, Usb!TxWork, Usb!RxPackets, Usb!Op

LEMMA UsbFramesAreNewStep == ASSUME Usb!UrbIInv, Usb!Next, ~lingered' PROVE Usb!FramesAreNew'
<1>1. CASE Usb!OpStart
  BY <1>1, UsbStartIsClean DEF Usb!FramesAreNew, Usb!Reported
<1> SUFFICES ASSUME ~Usb!OpStart PROVE Usb!FramesAreNew'
  BY <1>1
<1>2. Usb!TypeOK /\ Usb!WhoRuns /\ Usb!OneOwner /\ Usb!FramesAreNew /\ ~lingered
  BY UsbStaysOnTime DEF Usb!UrbIInv, Usb!StatusIsOwn
<1>3. CASE Usb!TxData
  <2>1. /\ usb_skb' = [usb_skb EXCEPT ![tx] = sent + 1] /\ sent' = sent + 1 /\ tx \in Usb!Slots
        /\ txUrb' \subseteq txUrb \cup {tx} /\ usb_reported' = usb_reported
        /\ UNCHANGED <<device, rest>>
    BY <1>2, <1>3 DEF Usb!TypeOK, Usb!TxData, Usb!irq
  <2>2. \A s \in Usb!Slots : /\ usb_skb'[s] = IF s = tx THEN sent + 1 ELSE usb_skb[s]
                             /\ Usb!Reported(s)' <=> Usb!Reported(s)
    BY <1>2, <2>1 DEF Usb!TypeOK, Usb!Reported
  <2>3. /\ sent \in Nat /\ \A s \in Usb!Slots : usb_skb[s] \in Nat /\ usb_skb[s] <= sent
        /\ txUrb \subseteq Usb!Slots
    BY <1>2, UsbConstants DEF Usb!TypeOK, Usb!FramesAreNew
  <2> QED
    BY <1>2, <2>1, <2>2, <2>3 DEF Usb!FramesAreNew
<1>4. CASE Usb!RxStatus
  <2>1. PICK st \in rest : /\ usb_reported' = usb_reported \cup {usb_skb[st[1]]}
                           /\ rest' = rest \ {st}
    BY <1>4 DEF Usb!RxStatus
  <2>2. st[1] \in Usb!Slots /\ usb_skb[st[1]] \in 1..MaxFrames
    BY <1>2, StatusIsItsBuffers
  <2>3. UNCHANGED <<usb_skb, sent, txUrb, device>>
    BY <1>4 DEF Usb!RxStatus, Usb!urbs
  <2>4. sent \in Nat /\ usb_skb[st[1]] <= sent
    BY <1>2, <2>2, UsbConstants DEF Usb!TypeOK, Usb!FramesAreNew
  <2>5. usb_skb[st[1]] \in 1..sent
    BY <2>2, <2>4, UsbConstants
  <2>6. \A s \in Usb!Slots : Usb!Reported(s)' => Usb!Reported(s)
    BY <2>1, <2>3 DEF Usb!Reported
  <2> QED
    BY <1>2, <2>1, <2>3, <2>5, <2>6 DEF Usb!FramesAreNew
<1>5. CASE Usb!OpStopEnd
  <2>1. /\ usb_reported' = usb_reported /\ usb_skb' = usb_skb /\ txUrb' = {}
        /\ device' = {} /\ rest' = {} /\ sent' = accepted
    BY <1>2, <1>5 DEF Usb!WhoRuns, Usb!OpStopEnd, Usb!irq
  <2>3. sent' \in Nat /\ sent <= sent' /\ sent \in Nat
    BY <1>2, <2>1, UsbConstants DEF Usb!TypeOK
  <2>2. \A s \in Usb!Slots : usb_skb[s] \in Nat
    BY <1>2, UsbConstants DEF Usb!TypeOK
  <2> QED
    BY <1>2, <2>1, <2>2, <2>3 DEF Usb!FramesAreNew, Usb!Reported
<1>6. CASE \E s \in Usb!Slots : Usb!CompleteTx(s)
  <2>1. PICK s \in Usb!Slots : Usb!CompleteTx(s)
    BY <1>6
  <2>2. /\ UNCHANGED <<usb_skb, sent, usb_reported, rest>> /\ s \in txUrb
        /\ txUrb' \subseteq txUrb /\ device' \subseteq device \cup {<<s, usb_skb[s]>>}
    BY <2>1 DEF Usb!CompleteTx, Usb!pool, Usb!irq
  <2>3. \A t \in Usb!Slots : Usb!Reported(t)' => Usb!Reported(t) \/ t = s
    BY <2>2 DEF Usb!Reported
  <2> QED
    BY <1>2, <2>2, <2>3 DEF Usb!FramesAreNew
<1>7. CASE \E i \in 0..1 : Usb!CompleteRx(i) \/ Usb!CompleteRxDown(i)
  <2>1. /\ UNCHANGED <<usb_skb, sent, usb_reported, txUrb>>
        /\ device' \cup rest' \subseteq device \cup rest
    <3>1. PICK i \in 0..1 : Usb!CompleteRx(i) \/ Usb!CompleteRxDown(i)
      BY <1>7
    <3>2. CASE Usb!CompleteRx(i)
      BY <3>2 DEF Usb!CompleteRx, Usb!pool
    <3>3. CASE Usb!CompleteRxDown(i)
      BY <3>3 DEF Usb!CompleteRxDown, Usb!pool, Usb!irq
    <3> QED
      BY <3>1, <3>2, <3>3
  <2>2. \A t \in Usb!Slots : Usb!Reported(t)' => Usb!Reported(t)
    BY <2>1 DEF Usb!Reported
  <2> QED
    BY <1>2, <2>1, <2>2 DEF Usb!FramesAreNew
<1>8. CASE \/ Usb!OpTx \/ Usb!TxWorkStart \/ Usb!TxWorkEnd \/ Usb!AllocTx \/ Usb!AllocCount
           \/ Usb!AllocBusy \/ Usb!TxDataUncount \/ Usb!TxWorkLimit \/ Usb!TxWorkStop
           \/ Usb!RxCount \/ Usb!RxWake
           \/ Usb!OpStartPoll \/ Usb!OpStartUp \/ Usb!OpStopDown \/ Usb!OpStopCommands
  <2>1. UNCHANGED <<usb_skb, sent, usb_reported, txUrb, device, rest>>
    BY <1>8
       DEF Usb!OpTx, Usb!TxWorkStart, Usb!TxWorkEnd, Usb!AllocTx, Usb!AllocCount, Usb!AllocBusy,
           Usb!TxDataUncount, Usb!TxWorkLimit, Usb!TxWorkStop, Usb!RxCount, Usb!RxWake,
           Usb!OpStartPoll, Usb!OpStartUp, Usb!OpStopDown, Usb!OpStopCommands, Usb!pool,
           Usb!urbs, Usb!irq
  <2> QED
    BY <1>2, <2>1 DEF Usb!FramesAreNew, Usb!Reported
<1> QED
  BY <1>3, <1>4, <1>5, <1>6, <1>7, <1>8 DEF Usb!Next, Usb!TxWork, Usb!RxPackets, Usb!Op

\* The Cardinality of UsbUrbs is the one that FiniteSetTheorems is about.
LEMMA UsbCardinality == ASSUME NEW S PROVE Usb!Cardinality(S) = Cardinality(S)
  BY DEF Usb!Cardinality, Cardinality

LEMMA OneOfTwo ==
  ASSUME NEW S, S \subseteq 0..1
  PROVE  Usb!Cardinality(S) <= 1 <=> ~(0 \in S /\ 1 \in S)
<1>1. CASE S = {}
  BY <1>1, FS_EmptySet, UsbCardinality
<1>2. CASE S = {0} \/ S = {1}
  <2>1. Cardinality(S) = 1
    BY <1>2, FS_Singleton
  <2> QED
    BY <1>2, <2>1, UsbCardinality
<1>3. CASE S = {0, 1}
  <2>1. Cardinality({0} \cup {1}) = Cardinality({0}) + 1 /\ Cardinality({0}) = 1
    BY FS_AddElement, FS_Singleton
  <2>2. {0} \cup {1} = S
    BY <1>3
  <2> QED
    BY <1>3, <2>1, <2>2, UsbCardinality
<1>4. \A x \in S : x = 0 \/ x = 1
  OBVIOUS
<1> QED
  BY <1>1, <1>2, <1>3, <1>4, Zenon

LEMMA UsbAllComeBackStep ==
  ASSUME Usb!UrbIInv, Usb!Next, ~lingered'
  PROVE  Usb!AllComeBack' /\ (HW_UP' /\ ~deaf' => rxUrb' # {})
         /\ Usb!Cardinality(rxUrb') <= 1
<1>1. Usb!TypeOK /\ Usb!WhoRuns /\ rxUrb' \subseteq 0..1
  BY UsbTypeStep DEF Usb!UrbIInv, Usb!StatusIsOwn, Usb!TypeOK
<1>2. CASE Usb!OpStart
  BY <1>1, <1>2, UsbStartIsClean, OneOfTwo DEF Usb!AllComeBack
<1> SUFFICES ASSUME ~Usb!OpStart
             PROVE  Usb!AllComeBack' /\ (HW_UP' /\ ~deaf' => rxUrb' # {})
                    /\ ~(0 \in rxUrb' /\ 1 \in rxUrb')
  BY <1>1, <1>2, OneOfTwo
<1>3. /\ ~lingered /\ Usb!AllComeBack /\ (HW_UP /\ ~deaf => rxUrb # {})
      /\ ~(0 \in rxUrb /\ 1 \in rxUrb)
  BY <1>1, UsbStaysOnTime, OneOfTwo DEF Usb!UrbIInv, Usb!StatusIsOwn, Usb!OneRxUrb, Usb!TypeOK
<1>4. CASE \E i \in 0..1 : Usb!CompleteRx(i)
  <2>1. PICK i \in 0..1 : Usb!CompleteRx(i)
    BY <1>4
  <2>2. /\ i \in rxUrb /\ HW_UP /\ UNCHANGED <<HW_UP, opAt>>
        /\ \E reset \in Usb!Endings(i) : Usb!PollRx(1 - i, rxUrb \ {i}, reset)
    BY <2>1 DEF Usb!CompleteRx, Usb!mac
  <2>3. opAt = "up" /\ rxReset = {} /\ rxUrb \ {i} = {}
    BY <1>1, <1>3, <2>2 DEF Usb!WhoRuns, Usb!AllComeBack, Usb!TypeOK
  <2>4. Usb!PollRx(1 - i, {}, {})
    BY <1>3, <2>2, <2>3 DEF Usb!Endings
  <2>5. rxReset' = {} /\ rxUrb' \in {{}, {1 - i}} /\ (~deaf' => rxUrb' = {1 - i})
    <3>1. 1 - i \in 0..1 /\ {} \in SUBSET (0..1) /\ deaf \in BOOLEAN
      BY <1>1 DEF Usb!TypeOK
    <3> QED
      BY <2>4, <3>1, UsbPollRx
  <2> QED
    BY <2>2, <2>3, <2>5 DEF Usb!AllComeBack
<1>5. CASE \E i \in 0..1 : Usb!CompleteRxDown(i)
  <2>1. PICK i \in 0..1 : Usb!CompleteRxDown(i)
    BY <1>5
  <2>2. /\ rxUrb' \subseteq rxUrb /\ deaf' = TRUE /\ ~HW_UP
        /\ UNCHANGED <<HW_UP, txUrb, device, opAt>>
    BY <2>1 DEF Usb!CompleteRxDown, Usb!mac
  <2>3. rxReset' \subseteq rxReset
    BY <1>1, <1>3, <2>1, UsbEndings DEF Usb!CompleteRxDown, Usb!TypeOK
  <2> QED
    BY <1>3, <2>2, <2>3 DEF Usb!AllComeBack
<1>6. CASE Usb!OpStartPoll
  <2>1. /\ opAt = "waking" /\ opAt' = "starting" /\ UNCHANGED <<HW_UP, txUrb, device>>
        /\ Usb!PollRx(0, rxUrb, rxReset)
    BY <1>6 DEF Usb!OpStartPoll
  <2>2. rxReset = {} /\ rxUrb = {} /\ txUrb = {} /\ device = {}
    BY <1>3, <2>1 DEF Usb!AllComeBack
  <2>3. rxReset' = {} /\ rxUrb' \in {{}, {0}} /\ (~deaf' => rxUrb' = {0})
    <3>1. 0 \in 0..1 /\ {} \in SUBSET (0..1) /\ deaf \in BOOLEAN
      BY <1>1 DEF Usb!TypeOK
    <3> QED
      BY <2>1, <2>2, <3>1, UsbPollRx
  <2> QED
    BY <1>1, <2>1, <2>2, <2>3 DEF Usb!AllComeBack, Usb!WhoRuns
<1>7. CASE Usb!OpStopEnd
  <2>1. txUrb' = {} /\ rxUrb' = {} /\ device' = {} /\ opAt' = "down" /\ HW_UP' = HW_UP
    BY <1>7 DEF Usb!OpStopEnd
  <2>2. ~HW_UP
    BY <1>1, <1>7 DEF Usb!OpStopEnd, Usb!WhoRuns
  <2> QED
    BY <2>1, <2>2 DEF Usb!AllComeBack
<1>8. CASE Usb!TxData
  <2>1. /\ opAt = "up" /\ UNCHANGED <<HW_UP, opAt, rxUrb, rxReset, device, deaf>>
    BY <1>1, <1>8 DEF Usb!TxData, Usb!mac, Usb!WhoRuns
  <2> QED
    BY <1>3, <2>1 DEF Usb!AllComeBack
<1>9. CASE \E s \in Usb!Slots : Usb!CompleteTx(s)
  <2>1. PICK s \in Usb!Slots : Usb!CompleteTx(s)
    BY <1>9
  <2>2. s \in txUrb /\ txUrb' = txUrb \ {s} /\ UNCHANGED <<HW_UP, opAt, rxUrb, rxReset, deaf>>
    BY <2>1 DEF Usb!CompleteTx, Usb!mac
  <2>3. opAt \notin {"down", "waking", "starting"}
    BY <1>3, <2>2 DEF Usb!AllComeBack
  <2> QED
    BY <1>3, <2>2, <2>3 DEF Usb!AllComeBack
<1>10. CASE \/ Usb!OpTx \/ Usb!TxWorkStart \/ Usb!TxWorkEnd \/ Usb!AllocTx \/ Usb!AllocCount
            \/ Usb!AllocBusy \/ Usb!TxDataUncount \/ Usb!TxWorkLimit \/ Usb!TxWorkStop
            \/ Usb!RxPackets
  <2>1. UNCHANGED <<HW_UP, opAt, Usb!urbs>>
    BY <1>10
       DEF Usb!OpTx, Usb!TxWorkStart, Usb!TxWorkEnd, Usb!AllocTx, Usb!AllocCount, Usb!AllocBusy,
           Usb!TxDataUncount, Usb!TxWorkLimit, Usb!TxWorkStop, Usb!RxPackets, Usb!RxStatus,
           Usb!RxCount, Usb!RxWake, Usb!mac
  <2> QED
    BY <1>3, <2>1 DEF Usb!AllComeBack, Usb!urbs
<1>11. CASE Usb!OpStartUp \/ Usb!OpStopDown \/ Usb!OpStopCommands
  BY <1>1, <1>3, <1>11
     DEF Usb!OpStartUp, Usb!OpStopDown, Usb!OpStopCommands, Usb!AllComeBack, Usb!urbs,
         Usb!WhoRuns
<1> QED
  BY <1>4, <1>5, <1>6, <1>7, <1>8, <1>9, <1>10, <1>11 DEF Usb!Next, Usb!TxWork, Usb!Op

LEMMA UsbStatusIsOwnStep ==
  ASSUME Usb!UrbIInv, Usb!Next, ~lingered'
  PROVE  /\ Usb!FlightIsBusy'
         /\ \A st \in device' \cup rest' : busy'[st[1]] /\ usb_skb'[st[1]] = st[2]
<1>1. CASE Usb!OpStart
  BY <1>1, UsbStartIsClean DEF Usb!FlightIsBusy
<1> SUFFICES ASSUME ~Usb!OpStart
             PROVE  /\ Usb!FlightIsBusy'
                    /\ \A st \in device' \cup rest' : busy'[st[1]] /\ usb_skb'[st[1]] = st[2]
  BY <1>1
<1>2. /\ Usb!TypeOK /\ Usb!WhoRuns /\ Usb!OneOwner /\ Usb!FramesAreNew /\ ~lingered
      /\ \A s \in txUrb : usb_skb[s] \notin usb_reported
      /\ \A st \in device \cup rest : usb_skb[st[1]] = st[2]
  BY UsbStaysOnTime DEF Usb!UrbIInv, Usb!StatusIsOwn, Usb!FlightIsBusy
<1>3. /\ \A s \in txUrb' : busy'[s]
      /\ \A st \in device' \cup rest' : busy'[st[1]]
  <2>1. txUrb' \subseteq Usb!Slots /\ device' \cup rest' \subseteq Usb!Slots \X (0..MaxFrames)
    BY UsbTypeStep DEF Usb!TypeOK
  <2>2. \A st \in device' \cup rest' : st[1] \in Usb!Slots /\ Usb!Reported(st[1])'
    BY <2>1 DEF Usb!Reported
  <2> QED
    BY <2>1, <2>2, UsbOneOwnerStep DEF Usb!OneOwner
<1>4. /\ \A s \in txUrb' : usb_skb'[s] \notin usb_reported'
      /\ \A st \in device' \cup rest' : usb_skb'[st[1]] = st[2]
  <2>1. CASE Usb!TxData
    <3>1. /\ usb_skb' = [usb_skb EXCEPT ![tx] = sent + 1] /\ usb_reported' = usb_reported
          /\ txUrb' \subseteq txUrb \cup {tx} /\ device' = device /\ rest' = rest /\ txAt = "data"
      BY <2>1 DEF Usb!TxData, Usb!irq
    <3>2. tx \in Usb!Slots /\ ~Usb!Reported(tx) /\ tx \notin txUrb
      BY <1>2, <3>1 DEF Usb!TypeOK, Usb!OneOwner, Usb!Filling
    <3>3. sent \in Nat /\ usb_reported \subseteq 1..sent /\ txUrb \subseteq Usb!Slots
      BY <1>2, UsbConstants DEF Usb!TypeOK, Usb!FramesAreNew
    <3>4. \A s \in Usb!Slots : usb_skb'[s] = IF s = tx THEN sent + 1 ELSE usb_skb[s]
      BY <1>2, <3>1 DEF Usb!TypeOK
    <3>5. sent + 1 \notin usb_reported
      BY <3>3
    <3>6. \A s \in txUrb' : usb_skb'[s] \notin usb_reported'
      BY <1>2, <3>1, <3>2, <3>3, <3>4, <3>5
    <3>7. \A st \in device \cup rest : st[1] \in Usb!Slots /\ st[1] # tx
      BY <1>2, <3>2 DEF Usb!Reported, Usb!TypeOK
    <3> QED
      BY <1>2, <3>1, <3>4, <3>6, <3>7
  <2>2. CASE Usb!RxStatus
    <3>1. PICK st \in rest : /\ rest' = rest \ {st}
                             /\ usb_reported' = usb_reported \cup {usb_skb[st[1]]}
      BY <2>2 DEF Usb!RxStatus
    <3>2. UNCHANGED <<usb_skb, txUrb, device>>
      BY <2>2 DEF Usb!RxStatus, Usb!urbs
    <3>3. st[1] \in Usb!Slots /\ Usb!Reported(st[1]) /\ usb_skb[st[1]] \in 1..MaxFrames
      BY <1>2, StatusIsItsBuffers
    <3>4. \A s \in txUrb : s \in Usb!Slots /\ usb_skb[s] # 0 /\ s # st[1]
      BY <1>2, <3>3 DEF Usb!OneOwner, Usb!FramesAreNew, Usb!TypeOK
    <3>5. \A s \in txUrb : usb_skb[s] # usb_skb[st[1]]
      BY <1>2, <3>3, <3>4 DEF Usb!FramesAreNew
    <3> QED
      BY <1>2, <3>1, <3>2, <3>5
  <2>3. CASE \E s \in Usb!Slots : Usb!CompleteTx(s)
    <3>1. PICK s \in Usb!Slots : Usb!CompleteTx(s)
      BY <2>3
    <3>2. /\ UNCHANGED <<usb_skb, usb_reported, rest>> /\ txUrb' \subseteq txUrb
          /\ device' \subseteq device \cup {<<s, usb_skb[s]>>}
      BY <3>1 DEF Usb!CompleteTx, Usb!pool, Usb!irq
    <3> QED
      BY <1>2, <3>2
  <2>4. CASE \/ Usb!OpTx \/ Usb!TxWorkStart \/ Usb!TxWorkEnd \/ Usb!AllocTx \/ Usb!AllocCount
             \/ Usb!AllocBusy \/ Usb!TxDataUncount \/ Usb!TxWorkLimit \/ Usb!TxWorkStop
             \/ Usb!RxCount \/ Usb!RxWake
             \/ Usb!OpStartPoll \/ Usb!OpStartUp \/ Usb!OpStopDown \/ Usb!OpStopCommands
    <3>1. UNCHANGED <<usb_skb, usb_reported, txUrb, device, rest>>
      BY <2>4
         DEF Usb!OpTx, Usb!TxWorkStart, Usb!TxWorkEnd, Usb!AllocTx, Usb!AllocCount, Usb!AllocBusy,
             Usb!TxDataUncount, Usb!TxWorkLimit, Usb!TxWorkStop, Usb!RxCount, Usb!RxWake,
             Usb!OpStartPoll, Usb!OpStartUp, Usb!OpStopDown, Usb!OpStopCommands, Usb!pool,
             Usb!urbs, Usb!work, Usb!irq
    <3> QED
      BY <1>2, <3>1
  <2>5. CASE \E i \in 0..1 : Usb!CompleteRx(i) \/ Usb!CompleteRxDown(i)
    <3>1. /\ UNCHANGED <<usb_skb, usb_reported, txUrb>>
          /\ device' \cup rest' \subseteq device \cup rest
      <4>1. PICK i \in 0..1 : Usb!CompleteRx(i) \/ Usb!CompleteRxDown(i)
        BY <2>5
      <4>2. CASE Usb!CompleteRx(i)
        BY <4>2 DEF Usb!CompleteRx, Usb!pool
      <4>3. CASE Usb!CompleteRxDown(i)
        BY <4>3 DEF Usb!CompleteRxDown, Usb!pool, Usb!irq
      <4> QED
        BY <4>1, <4>2, <4>3
    <3> QED
      BY <1>2, <3>1
  <2>6. CASE Usb!OpStopEnd
    <3>1. txUrb' = {} /\ device' = {} /\ rest' = {}
      BY <1>2, <2>6 DEF Usb!OpStopEnd, Usb!WhoRuns, Usb!irq
    <3> QED
      BY <3>1
  <2> QED
    BY <2>1, <2>2, <2>3, <2>4, <2>5, <2>6 DEF Usb!Next, Usb!TxWork, Usb!RxPackets, Usb!Op
<1> QED
  BY <1>3, <1>4 DEF Usb!FlightIsBusy

LEMMA UsbInit == Usb!Init => Usb!UrbIInv
<1> SUFFICES ASSUME Usb!Init PROVE Usb!UrbIInv
  OBVIOUS
<1>1. busy \in [Usb!Slots -> BOOLEAN] /\ usb_skb \in [Usb!Slots -> 0..MaxFrames]
  BY UsbConstants DEF Usb!Init
<1>2. Usb!TypeOK
  <2>1. 0 \in Usb!Slots /\ 0 \in 0 .. 2^UintBits - 1 /\ 0 \in 0..MaxFrames
    BY UsbConstants DEF Usb!Slots
  <2>2. /\ HW_UP \in BOOLEAN /\ txWork \in BOOLEAN /\ stopped \in BOOLEAN
        /\ torn \in BOOLEAN /\ deaf \in BOOLEAN /\ lingered \in BOOLEAN
    BY Zenon DEF Usb!Init
  <2> QED
    BY <1>1, <2>1, <2>2 DEF Usb!Init, Usb!TypeOK
<1>3. Usb!OneRxUrb
  BY OneOfTwo DEF Usb!Init, Usb!OneRxUrb
<1>4. Usb!FlightIsBusy /\ \A st \in device \cup rest : busy[st[1]] /\ usb_skb[st[1]] = st[2]
  BY DEF Usb!Init, Usb!FlightIsBusy
<1>5. Usb!WhoRuns /\ Usb!AllComeBack
  BY DEF Usb!Init, Usb!WhoRuns, Usb!AllComeBack
<1>6. Usb!OneOwner /\ Usb!FramesAreNew
  BY DEF Usb!Init, Usb!OneOwner, Usb!Reported, Usb!Filling, Usb!FramesAreNew
<1> QED
  BY <1>2, <1>3, <1>4, <1>5, <1>6 DEF Usb!UrbIInv, Usb!StatusIsOwn

\* The other transport's steps, and the steps of neither.
LEMMA UsbUnchanged == ASSUME Usb!UrbIInv, UNCHANGED usbVars PROVE Usb!UrbIInv'
  BY DEF usbVars, Usb!UrbIInv, Usb!StatusIsOwn, Usb!TypeOK, Usb!FlightIsBusy, Usb!OneRxUrb,
         Usb!WhoRuns, Usb!AllComeBack, Usb!OneOwner, Usb!Reported, Usb!Filling, Usb!FramesAreNew

THEOREM UsbInvariance == SpecEither => []Usb!UrbIInv
<1>1. InitEither => Usb!UrbIInv
  BY UsbInit DEF InitEither
<1>2. Usb!UrbIInv /\ [NextEither]_all => Usb!UrbIInv'
  <2> SUFFICES ASSUME Usb!UrbIInv, [NextEither]_all PROVE Usb!UrbIInv'
    OBVIOUS
  <2>1. CASE Usb!Next
    <3>1. Usb!TypeOK' /\ Usb!WhoRuns'
      BY <2>1, UsbTypeStep, UsbWhoRunsStep
    <3>2. ASSUME ~lingered'
          PROVE  /\ Usb!FlightIsBusy' /\ Usb!OneRxUrb'
                 /\ \A st \in device' \cup rest' : busy'[st[1]] /\ usb_skb'[st[1]] = st[2]
                 /\ Usb!AllComeBack' /\ Usb!OneOwner' /\ Usb!FramesAreNew'
      BY <2>1, <3>2, UsbAllComeBackStep, UsbOneOwnerStep, UsbFramesAreNewStep, UsbStatusIsOwnStep
         DEF Usb!OneRxUrb
    <3> QED
      BY <3>1, <3>2 DEF Usb!UrbIInv, Usb!StatusIsOwn
  <2>2. CASE UNCHANGED usbVars
    BY <2>2, UsbUnchanged
  <2> QED
    BY <2>1, <2>2 DEF NextEither, all
<1> QED
  BY <1>1, <1>2, PTL DEF SpecEither

\* A buffer stays taken by its frame while an URB reads it and until the status for it has
\* been taken in, and that status is the status of the frame in it, unless an URB of an
\* earlier session is still about.
THEOREM UsbStatusIsOwn == SpecEither => []StatusIsOwn
<1>1. Usb!UrbIInv => StatusIsOwn
  BY DEF Usb!UrbIInv, StatusIsOwn
<1> QED
  BY <1>1, UsbInvariance, PTL

-------------------------------------------------------------------------------
(* USB: the count of free buffers, as long as no update of it is overtaken *)

Size == 2^UintBits

\* The count wraps around at either end.
LEMMA CountsRound ==
  ASSUME NEW x \in 0 .. Size - 1, NEW n \in {-1, 1}
  PROVE  \E k \in -1..1 : (x + n) % Size = x + n + k * Size
<1> DEFINE M == Size
           y == x + n
<1>1. M \in Nat \ {0} /\ M >= 2
  BY UsbAssumption DEF Usb!UsbUrbsAssumption, Size
<1> HIDE DEF M
<1>2. y \in Int /\ -1 <= y /\ y <= M
  BY <1>1 DEF M
<1> HIDE DEF y
<1>3. CASE y = -1
  <2>1. y % M = M - 1
    BY <1>1, <1>3
  <2> QED
    BY <1>1, <1>3, <2>1 DEF M, y
<1>4. CASE y = M
  <2>1. y % M = 0
    BY <1>1, <1>4
  <2> QED
    BY <1>1, <1>4, <2>1 DEF M, y
<1>5. CASE y \in 0 .. M - 1
  <2>1. y % M = y
    BY <1>1, <1>5
  <2> QED
    BY <1>1, <1>5, <2>1 DEF M, y
<1> QED
  BY <1>1, <1>2, <1>3, <1>4, <1>5

\* How many buffers are free.
Free == Cardinality(Usb!FreeSlots)

LEMMA SlotsAreBounded ==
  ASSUME NEW S \in SUBSET Usb!Slots
  PROVE  IsFiniteSet(S) /\ Cardinality(S) \in 0..ACX_TX_URB_CNT
<1>1. IsFiniteSet(Usb!Slots) /\ Cardinality(Usb!Slots) = ACX_TX_URB_CNT
  <2>1. 0 \in Int /\ ACX_TX_URB_CNT - 1 \in Int /\ ~(0 > ACX_TX_URB_CNT - 1)
    BY UsbConstants
  <2>2. /\ IsFiniteSet(0 .. ACX_TX_URB_CNT - 1)
        /\ Cardinality(0 .. ACX_TX_URB_CNT - 1) = ACX_TX_URB_CNT - 1 - 0 + 1
    BY <2>1, FS_Interval, Zenon
  <2> QED
    BY <2>2, UsbConstants DEF Usb!Slots
<1>2. IsFiniteSet(S) /\ Cardinality(S) <= Cardinality(Usb!Slots)
  BY <1>1, FS_Subset
<1>3. Cardinality(S) \in Nat
  BY <1>2, FS_CardinalityType
<1> QED
  BY <1>1, <1>2, <1>3, UsbConstants

LEMMA FreeIsBounded ==
  Free \in 0..ACX_TX_URB_CNT /\ Free' \in 0..ACX_TX_URB_CNT /\ IsFiniteSet(Usb!FreeSlots)
  BY SlotsAreBounded DEF Free, Usb!FreeSlots

\* One buffer more that is busy, and one fewer.
LEMMA OneTaken ==
  ASSUME busy \in [Usb!Slots -> BOOLEAN], NEW s \in Usb!Slots, ~busy[s],
         busy' = [busy EXCEPT ![s] = TRUE]
  PROVE  Free' = Free - 1
<1>1. Usb!FreeSlots' = Usb!FreeSlots \ {s} /\ s \in Usb!FreeSlots
  BY DEF Usb!FreeSlots
<1>2. Cardinality(Usb!FreeSlots \ {s}) = Cardinality(Usb!FreeSlots) - 1
  BY <1>1, FreeIsBounded, FS_RemoveElement
<1> QED
  BY <1>1, <1>2 DEF Free

LEMMA OneGiven ==
  ASSUME busy \in [Usb!Slots -> BOOLEAN], NEW s \in Usb!Slots, busy[s],
         busy' = [busy EXCEPT ![s] = FALSE]
  PROVE  Free' = Free + 1
<1>1. Usb!FreeSlots' = Usb!FreeSlots \cup {s} /\ s \notin Usb!FreeSlots
  BY DEF Usb!FreeSlots
<1>2. Cardinality(Usb!FreeSlots \cup {s}) = Cardinality(Usb!FreeSlots) + 1
  BY <1>1, FreeIsBounded, FS_AddElement
<1> QED
  BY <1>1, <1>2 DEF Free

\* What the count is due to be, in terms of Free.
LEMMA DueIs ==
  /\ Usb!Due = Free + Usb!OneIf(txAt = "count") - Usb!OneIf(txAt = "uncount")
               - Usb!OneIf(rxAt = "count")
  /\ Usb!Due' = Free' + Usb!OneIf(txAt' = "count") - Usb!OneIf(txAt' = "uncount")
                - Usb!OneIf(rxAt' = "count")
  BY UsbCardinality DEF Usb!Due, Free, Usb!OneIf

\* The count keeps up when it changes as what it is due to be does.
LEMMA CountKeepsUp ==
  ASSUME Usb!TypeOK, Usb!TypeOK', Usb!CountFollows, ~torn', ~lingered,
         opAt \in {"waking", "starting", "up", "commands"},
         NEW load, NEW n \in {-1, 1}, Usb!Store(load, n), Usb!Due' = Usb!Due + n
  PROVE  Usb!CountFollows'
<1> DEFINE M == Size
<1>0. ~torn /\ usb_free' = (usb_free + n) % Size
  BY DEF Usb!Store, Size
<1>1. PICK k \in -1..1 : usb_free = Usb!Due + k * M
  BY <1>0 DEF Usb!CountFollows, Size
<1>2. PICK j \in -1..1 : usb_free' = usb_free + n + j * M
  BY <1>0, CountsRound DEF Usb!TypeOK, Size
<1>3. M \in Nat /\ M >= 2 /\ ACX_TX_URB_CNT < M
  BY UsbAssumption DEF Usb!UsbUrbsAssumption, Size
<1>4. Usb!Due \in Int /\ Usb!Due' \in -2 .. M
  <2>1. \A f, a, b, c :
          f \in 0..ACX_TX_URB_CNT /\ a \in 0..1 /\ b \in 0..1 /\ c \in 0..1
          => f + a - b - c \in -2..M
    <3> HIDE DEF M
    <3> QED
      BY <1>3, UsbConstants
  <2>2. /\ Usb!OneIf(txAt = "count") \in 0..1 /\ Usb!OneIf(txAt = "uncount") \in 0..1
        /\ Usb!OneIf(rxAt = "count") \in 0..1
        /\ Usb!OneIf(txAt' = "count") \in 0..1 /\ Usb!OneIf(txAt' = "uncount") \in 0..1
        /\ Usb!OneIf(rxAt' = "count") \in 0..1
    BY DEF Usb!OneIf
  <2>3. Usb!Due \in -2..M /\ Usb!Due' \in -2..M
    <3>1. Free \in 0..ACX_TX_URB_CNT /\ Free' \in 0..ACX_TX_URB_CNT
      BY FreeIsBounded
    <3>2. /\ Free + Usb!OneIf(txAt = "count") - Usb!OneIf(txAt = "uncount")
               - Usb!OneIf(rxAt = "count") \in -2..M
          /\ Free' + Usb!OneIf(txAt' = "count") - Usb!OneIf(txAt' = "uncount")
               - Usb!OneIf(rxAt' = "count") \in -2..M
      BY <2>1, <2>2, <3>1, Zenon
    <3> QED
      BY <3>2, DueIs, Zenon
  <2> QED
    BY <1>3, <2>3
<1>5. usb_free' \in 0 .. M - 1 /\ usb_free \in 0 .. M - 1
  BY DEF Usb!TypeOK, Size
<1>6. \E i \in -1..1 : usb_free' = Usb!Due' + i * M
  <2> HIDE DEF M
  <2> QED
    BY <1>1, <1>2, <1>3, <1>4, <1>5
<1> QED
  BY <1>6 DEF Usb!CountFollows, Size

\* The steps that change neither the count nor what it is due to be.
LEMMA CountStays ==
  ASSUME Usb!CountFollows, usb_free' = usb_free, Usb!Due' = Usb!Due, ~torn' => ~torn,
         ~lingered' => ~lingered,
         opAt' \in {"waking", "starting", "up", "commands"}
         => opAt \in {"waking", "starting", "up", "commands"}
  PROVE  Usb!CountFollows'
  BY DEF Usb!CountFollows

LEMMA UsbCountStep ==
  ASSUME Usb!UrbIInv, Usb!CountFollows, Usb!Next
  PROVE  Usb!CountFollows'
<1>1. CASE Usb!OpStart
  <2>1. /\ txAt' = "idle" /\ rxAt' = "idle" /\ busy' = [s \in Usb!Slots |-> FALSE]
        /\ usb_free' = ACX_TX_URB_CNT
    BY <1>1 DEF Usb!OpStart, Usb!UrbIInv, Usb!WhoRuns, Usb!FreeAfterReset, Usb!work, Usb!irq
  <2>2. Usb!FreeSlots' = Usb!Slots
    BY <2>1 DEF Usb!FreeSlots
  <2>3. Free' = ACX_TX_URB_CNT
    BY <2>2, FS_Interval, UsbConstants DEF Free, Usb!Slots
  <2>4. Usb!Due' = ACX_TX_URB_CNT
    BY <2>1, <2>3, DueIs, UsbConstants DEF Usb!OneIf
  <2>5. usb_free' = Usb!Due' + 0 * 2^UintBits /\ 0 \in -1..1
    BY <2>1, <2>4, UsbConstants
  <2> QED
    BY <2>5 DEF Usb!CountFollows
<1> SUFFICES ASSUME ~Usb!OpStart, ~lingered', ~torn' PROVE Usb!CountFollows'
  BY <1>1 DEF Usb!CountFollows
<1>2. Usb!TypeOK /\ Usb!TypeOK' /\ Usb!WhoRuns /\ Usb!OneOwner /\ ~lingered
  BY UsbTypeStep, UsbStaysOnTime DEF Usb!UrbIInv, Usb!StatusIsOwn
<1> USE DEF Usb!OneIf
<1>3. CASE Usb!AllocTx
  <2>1. PICK s \in Usb!Slots : ~busy[s] /\ busy' = [busy EXCEPT ![s] = TRUE]
    BY <1>3 DEF Usb!AllocTx, Usb!FirstFree, Usb!FreeSlots
  <2>2. Free' = Free - 1
    BY <1>2, <2>1, OneTaken DEF Usb!TypeOK
  <2>3. /\ txAt = "dequeue" /\ txAt' = "count" /\ rxAt' = rxAt /\ usb_free' = usb_free
        /\ opAt' = opAt /\ torn' = torn
    BY <1>3 DEF Usb!AllocTx, Usb!irq, Usb!mac
  <2>4. Usb!Due' = Usb!Due
    BY <2>2, <2>3, DueIs, FreeIsBounded
  <2> QED
    BY <1>2, <2>3, <2>4, CountStays
<1>4. CASE Usb!AllocCount
  <2>1. /\ txAt = "count" /\ txAt' = "data" /\ rxAt' = rxAt /\ busy' = busy
        /\ Usb!Store(txLoad, -1)
    BY <1>4 DEF Usb!AllocCount, Usb!irq
  <2>2. Usb!Due' = Usb!Due + -1
    BY <2>1, DueIs, FreeIsBounded DEF Free, Usb!FreeSlots
  <2>3. opAt = "up"
    BY <1>2, <2>1 DEF Usb!WhoRuns
  <2> QED
    BY <1>2, <2>1, <2>2, <2>3, CountKeepsUp
<1>5. CASE Usb!TxData
  <2>1. /\ txAt = "data" /\ rxAt' = rxAt /\ usb_free' = usb_free /\ opAt' = opAt /\ torn' = torn
        /\ \/ txAt' = "limit" /\ busy' = busy
           \/ txAt' = "uncount" /\ busy' = [busy EXCEPT ![tx] = FALSE]
    BY <1>5 DEF Usb!TxData, Usb!irq, Usb!mac
  <2>2. busy[tx] /\ tx \in Usb!Slots
    BY <1>2, <2>1 DEF Usb!TypeOK, Usb!OneOwner, Usb!Filling
  <2>3. CASE txAt' = "limit" /\ busy' = busy
    <3>1. Usb!Due' = Usb!Due
      BY <2>1, <2>3, DueIs, FreeIsBounded DEF Free, Usb!FreeSlots
    <3> QED
      BY <1>2, <2>1, <3>1, CountStays
  <2>4. CASE txAt' = "uncount" /\ busy' = [busy EXCEPT ![tx] = FALSE]
    <3>1. Free' = Free + 1
      BY <1>2, <2>2, <2>4, OneGiven DEF Usb!TypeOK
    <3>2. Usb!Due' = Usb!Due
      BY <2>1, <2>4, <3>1, DueIs, FreeIsBounded
    <3> QED
      BY <1>2, <2>1, <3>2, CountStays
  <2> QED
    BY <2>1, <2>3, <2>4
<1>6. CASE Usb!TxDataUncount
  <2>1. /\ txAt = "uncount" /\ txAt' = "limit" /\ rxAt' = rxAt /\ busy' = busy
        /\ Usb!Store(txLoad, 1)
    BY <1>6 DEF Usb!TxDataUncount, Usb!irq
  <2>2. Usb!Due' = Usb!Due + 1
    BY <2>1, DueIs, FreeIsBounded DEF Free, Usb!FreeSlots
  <2>3. opAt = "up"
    BY <1>2, <2>1 DEF Usb!WhoRuns
  <2> QED
    BY <1>2, <2>1, <2>2, <2>3, CountKeepsUp
<1>7. CASE Usb!RxStatus
  <2>1. PICK st \in rest : busy' = [busy EXCEPT ![st[1]] = FALSE]
    BY <1>7 DEF Usb!RxStatus
  <2>2. /\ rxAt = "packets" /\ rxAt' = "count" /\ txAt' = txAt /\ usb_free' = usb_free
        /\ opAt' = opAt /\ torn' = torn
    BY <1>7 DEF Usb!RxStatus, Usb!work, Usb!mac
  <2>3. busy[st[1]] /\ st[1] \in Usb!Slots
    BY <1>2, StatusIsItsBuffers DEF Usb!OneOwner
  <2>4. Free' = Free + 1
    BY <1>2, <2>1, <2>3, OneGiven DEF Usb!TypeOK
  <2>5. Usb!Due' = Usb!Due
    BY <2>2, <2>4, DueIs, FreeIsBounded
  <2> QED
    BY <1>2, <2>2, <2>5, CountStays
<1>8. CASE Usb!RxCount
  <2>1. /\ rxAt = "count" /\ rxAt' = "wake" /\ txAt' = txAt /\ busy' = busy
        /\ Usb!Store(rxLoad, 1)
    BY <1>8 DEF Usb!RxCount, Usb!work
  <2>2. Usb!Due' = Usb!Due + 1
    BY <2>1, DueIs, FreeIsBounded DEF Free, Usb!FreeSlots
  <2>3. opAt \in {"up", "commands"}
    BY <1>2, <2>1 DEF Usb!WhoRuns
  <2> QED
    BY <1>2, <2>1, <2>2, <2>3, CountKeepsUp
<1>9. CASE Usb!OpStopCommands \/ Usb!OpStopEnd
  <2>1. opAt' \in {"cancel", "down"}
    BY <1>9 DEF Usb!OpStopCommands, Usb!OpStopEnd
  <2> QED
    BY <2>1 DEF Usb!CountFollows
<1>10. CASE \/ Usb!OpTx \/ Usb!TxWorkStart \/ Usb!TxWorkEnd \/ Usb!AllocBusy
            \/ Usb!TxWorkLimit \/ Usb!TxWorkStop
            \/ Usb!OpStartPoll \/ Usb!OpStartUp \/ Usb!OpStopDown
  <2>1. /\ usb_free' = usb_free /\ busy' = busy /\ rxAt' = rxAt /\ torn' = torn
        /\ opAt' = opAt \/ opAt \in {"waking", "starting", "up"}
        /\ txAt' = txAt \/ (txAt \notin {"count", "uncount"} /\ txAt' \notin {"count", "uncount"})
    BY <1>10
       DEF Usb!OpTx, Usb!TxWorkStart, Usb!TxWorkEnd, Usb!AllocBusy, Usb!TxWorkLimit,
           Usb!TxWorkStop, Usb!OpStartPoll, Usb!OpStartUp, Usb!OpStopDown, Usb!pool, Usb!work,
           Usb!irq, Usb!mac
  <2>2. Usb!Due' = Usb!Due
    BY <2>1, DueIs, FreeIsBounded DEF Free, Usb!FreeSlots
  <2> QED
    BY <1>2, <2>1, <2>2, CountStays
<1>11. CASE \/ \E s \in Usb!Slots : Usb!CompleteTx(s)
            \/ \E i \in 0..1 : Usb!CompleteRx(i) \/ Usb!CompleteRxDown(i)
            \/ Usb!RxWake
  <2>1. /\ usb_free' = usb_free /\ busy' = busy /\ txAt' = txAt /\ opAt' = opAt /\ torn' = torn
        /\ rxAt' = rxAt \/ (rxAt # "count" /\ rxAt' # "count")
    BY <1>11
       DEF Usb!CompleteTx, Usb!CompleteRx, Usb!CompleteRxDown, Usb!RxWake, Usb!Packets,
           Usb!pool, Usb!work, Usb!irq, Usb!mac
  <2>2. Usb!Due' = Usb!Due
    BY <2>1, DueIs, FreeIsBounded DEF Free, Usb!FreeSlots
  <2> QED
    BY <1>2, <2>1, <2>2, CountStays
<1> QED
  BY <1>3, <1>4, <1>5, <1>6, <1>7, <1>8, <1>9, <1>10, <1>11
     DEF Usb!Next, Usb!TxWork, Usb!RxPackets, Usb!Op

\* As long as no update of it is overtaken between load and store, the count that a work
\* and an interrupt handler change without a lock is, whenever neither is in the middle of
\* changing it, the number of buffers that are not busy.
THEOREM UsbFreeIsRight == SpecEither => []FreeIsRight
<1>1. InitEither => Usb!CountFollows
  BY DEF InitEither, Usb!Init, Usb!CountFollows
<1>2. Usb!UrbIInv /\ Usb!CountFollows /\ [NextEither]_all => Usb!CountFollows'
  <2> SUFFICES ASSUME Usb!UrbIInv, Usb!CountFollows, [NextEither]_all PROVE Usb!CountFollows'
    OBVIOUS
  <2>1. CASE Usb!Next
    BY <2>1, UsbCountStep
  <2>2. CASE UNCHANGED usbVars
    <3>1. UNCHANGED <<usb_free, busy, txAt, rxAt, opAt, torn, lingered>>
      BY <2>2 DEF usbVars
    <3>2. Usb!Due' = Usb!Due
      BY <3>1, DueIs DEF Free, Usb!FreeSlots
    <3> QED
      BY <3>1, <3>2, CountStays
  <2> QED
    BY <2>1, <2>2 DEF NextEither, all
<1>3. Usb!UrbIInv /\ Usb!CountFollows => FreeIsRight
  <2> SUFFICES ASSUME Usb!UrbIInv, Usb!CountFollows, HW_UP, ~torn, ~lingered,
                      txAt \notin {"count", "uncount"}, rxAt # "count"
               PROVE  usb_free = Usb!Cardinality(Usb!FreeSlots)
    BY DEF FreeIsRight, Usb!FreeIsRight
  <2> DEFINE M == Size
  <2>1. opAt = "up" /\ usb_free \in 0 .. M - 1
    BY DEF Usb!UrbIInv, Usb!StatusIsOwn, Usb!WhoRuns, Usb!TypeOK, Size
  <2>2. PICK k \in -1..1 : usb_free = Usb!Due + k * M
    BY <2>1 DEF Usb!CountFollows, Size
  <2>3. Usb!Due = Free
    BY DueIs, FreeIsBounded DEF Usb!OneIf
  <2>4. M \in Nat /\ ACX_TX_URB_CNT \in Nat /\ ACX_TX_URB_CNT < M
    BY UsbAssumption DEF Usb!UsbUrbsAssumption, Size
  <2>5. usb_free = Free
    <3> HIDE DEF M
    <3> QED
      BY <2>1, <2>2, <2>3, <2>4, FreeIsBounded
  <2> QED
    BY <2>5, UsbCardinality DEF Free
<1> QED
  BY <1>1, <1>2, <1>3, UsbInvariance, PTL DEF SpecEither

-------------------------------------------------------------------------------
(* Slave memory: the ring, and what flushing it where it is leaves of it.      *)
(* R is the ring with its proofs, the ring of MemTx.                           *)

LEMMA SameNames ==
  /\ Ring!Slots = R!Slots
  /\ Ring!HostOwned = R!HostOwned
  /\ Ring!AcxDoneHostOwn = R!AcxDoneHostOwn
  /\ Ring!AcxOwned = R!AcxOwned
  /\ Ring!CleanedCtl = R!CleanedCtl
  /\ Ring!FreeAfterClean = R!FreeAfterClean
  /\ Ring!Used = R!Used
  /\ \A i : Ring!Succ(i) = R!Succ(i) /\ Ring!At(i) = R!At(i)
  /\ \A s : (Ring!Finished(s) <=> R!Finished(s)) /\ (Ring!Claimed(s) <=> R!Claimed(s))
  /\ \A s : Ring!CleanedError(s) = R!CleanedError(s)
  BY DEF Ring!Slots, R!Slots, Ring!HostOwned, R!HostOwned, Ring!AcxDoneHostOwn, R!AcxDoneHostOwn,
         Ring!AcxOwned, R!AcxOwned, Ring!CleanedCtl, R!CleanedCtl, Ring!FreeAfterClean,
         R!FreeAfterClean, Ring!Used, R!Used, Ring!Oldest, R!Oldest, Ring!Succ, R!Succ,
         Ring!At, R!At, Ring!Pos, R!Pos, Ring!Finished, R!Finished, Ring!CleanedError,
         R!CleanedError, Ring!Claimed, R!Claimed

LEMMA SameActions ==
  /\ Ring!Init <=> R!Init
  /\ \A f : Ring!AllocTx(f) <=> R!AllocTx(f)
  /\ Ring!TxDataRelease <=> R!TxDataRelease
  /\ Ring!TxDataStoreSkb <=> R!TxDataStoreSkb
  /\ \A s : Ring!AcxComplete(s) <=> R!AcxComplete(s)
  /\ Ring!CleanStart <=> R!CleanStart
  /\ Ring!CleanDesc <=> R!CleanDesc
  /\ Ring!CleanEnd <=> R!CleanEnd
<1> USE SameNames
<1>1. Ring!Init <=> R!Init
  BY DEF Ring!Init, R!Init
<1>2. ASSUME NEW f PROVE Ring!AllocTx(f) <=> R!AllocTx(f)
  BY DEF Ring!AllocTx, R!AllocTx
<1>3. Ring!TxDataRelease <=> R!TxDataRelease
  BY DEF Ring!TxDataRelease, R!TxDataRelease, Ring!ringVars, R!ringVars
<1>4. Ring!TxDataStoreSkb <=> R!TxDataStoreSkb
  BY DEF Ring!TxDataStoreSkb, R!TxDataStoreSkb, Ring!hwVars, R!hwVars, Ring!ringVars, R!ringVars
<1>5. ASSUME NEW s PROVE Ring!AcxComplete(s) <=> R!AcxComplete(s)
  BY DEF Ring!AcxComplete, R!AcxComplete, Ring!ringVars, R!ringVars, Ring!opVars, R!opVars
<1>6. Ring!CleanStart <=> R!CleanStart
  BY DEF Ring!CleanStart, R!CleanStart, Ring!hwVars, R!hwVars, Ring!ringVars, R!ringVars
<1>7. Ring!CleanDesc <=> R!CleanDesc
  BY DEF Ring!CleanDesc, R!CleanDesc
<1>8. Ring!CleanEnd <=> R!CleanEnd
  BY DEF Ring!CleanEnd, R!CleanEnd, Ring!hwVars, R!hwVars
<1> QED
  BY <1>1, <1>2, <1>3, <1>4, <1>5, <1>6, <1>7, <1>8

LEMMA SameInvariants ==
  /\ Ring!TypeOK <=> R!TypeOK
  /\ Ring!CountersAgree <=> R!CountersAgree
  /\ Ring!FreeMeansHostOwned <=> R!FreeMeansHostOwned
<1> USE SameNames
<1>1. Ring!TypeOK <=> R!TypeOK
  BY DEF Ring!TypeOK, R!TypeOK, Ring!OwnBits, R!OwnBits, Ring!Ops, R!Ops
<1>2. Ring!CountersAgree <=> R!CountersAgree
  BY DEF Ring!CountersAgree, R!CountersAgree, Ring!Oldest, R!Oldest
<1>3. Ring!FreeMeansHostOwned <=> R!FreeMeansHostOwned
  BY DEF Ring!FreeMeansHostOwned, R!FreeMeansHostOwned
<1> QED
  BY <1>1, <1>2, <1>3

\* On a full ring head is where tail is, so that a ring all of whose descriptors are made
\* the host's is an empty one, wherever the two are.
LEMMA FlushIInv == ASSUME R!IInv, FlushTransmitQueue PROVE R!IInv'
<1>1. /\ op = "none" /\ free = 0 /\ free' = TX_CNT
      /\ Ctl_8' = [s \in R!Slots |-> R!HostOwned] /\ error' = [s \in R!Slots |-> 0]
      /\ UNCHANGED <<skb, head, tail, op, txdesc, frame, finger, air, reported>>
  BY SameNames DEF FlushTransmitQueue, FreeAfterFlush
<1>2. TX_CNT \in Nat \ {0}
  BY MemTxAssumption
<1>3. R!Used = TX_CNT /\ R!Used' = 0 /\ R!Oldest = tail /\ R!Oldest' = tail
  BY <1>1, <1>2 DEF R!Used, R!Oldest
<1>4. head = tail /\ tail \in R!Slots
  BY <1>1, <1>3 DEF R!IInv, R!CountersAgree, R!TypeOK
<1>5. R!TypeOK'
  BY <1>1, <1>2 DEF R!IInv, R!TypeOK, R!OwnBits, R!HostOwned
<1>6. R!CountersAgree'
  BY <1>1, <1>2, <1>3, <1>4 DEF R!CountersAgree, R!At, R!Pos, R!Slots
<1>7. \A i \in R!Slots : R!At(i)' \in R!Slots
  BY <1>2, <1>3, <1>4 DEF R!At, R!Pos, R!Slots
<1>8. R!FreeMeansHostOwned'
  BY <1>1, <1>2, <1>3, <1>7 DEF R!FreeMeansHostOwned, R!Slots
<1>9. R!OwnerKnown' /\ R!TxdescIsYoungest' /\ R!StatusIsOfTheFrame'
  BY <1>1 DEF R!OwnerKnown, R!TxdescIsYoungest, R!StatusIsOfTheFrame, R!HostOwned, R!AcxDoneHostOwn
<1> QED
  BY <1>5, <1>6, <1>8, <1>9 DEF R!IInv

LEMMA MemRingStep == ASSUME R!IInv, [Next]_vars PROVE R!IInv'
<1>1. CASE UNCHANGED ring
  BY <1>1, R!StutterIInv, MemTxAssumption
     DEF ring, R!vars, R!hwVars, R!ringVars, R!opVars
<1>2. ASSUME NEW f \in Frames, R!AllocTx(f) PROVE R!IInv'
  BY <1>2, R!AllocTxIInv, MemTxAssumption
<1>3. ASSUME NEW s \in R!Slots, R!AcxComplete(s) PROVE R!IInv'
  BY <1>3, R!AcxCompleteIInv, MemTxAssumption
<1>4. CASE R!TxDataRelease \/ R!TxDataStoreSkb \/ R!CleanStart \/ R!CleanDesc \/ R!CleanEnd
  BY <1>4, R!TxDataReleaseIInv, R!TxDataStoreSkbIInv, R!CleanStartIInv, R!CleanDescIInv,
     R!CleanEndIInv, MemTxAssumption
<1>5. CASE FlushTransmitQueue
  BY <1>5, FlushIInv
<1> QED
  BY <1>1, <1>2, <1>3, <1>4, <1>5, SameNames, SameActions
     DEF Next, vars, AllocTx, WakeUpAcx, TxDataRelease, TxDataStoreSkb, AcxComplete, CleanStart,
         CleanDesc, CleanEnd

\* acx_clean_txdesc_emergency, which frees the descriptors of a full ring where they are and
\* resets neither head nor tail, leaves a ring whose counters agree.
THEOREM FlushLeavesSoundRing == SpecEither => []FlushedRingIsSound
<1>1. InitEither => R!IInv
  BY R!InitIInv, SameActions, MemTxAssumption DEF InitEither, Init
<1>2. R!IInv /\ [NextEither]_all => R!IInv'
  BY MemRingStep DEF NextEither, all, vars
<1>3. R!IInv => FlushedRingIsSound
  BY SameInvariants DEF R!IInv, FlushedRingIsSound
<1> QED
  BY <1>1, <1>2, <1>3, PTL DEF SpecEither

-------------------------------------------------------------------------------
(* Slave memory: the blocks.  A list is told by the function that enumerates   *)
(* it; that From walks along it is shown once, by the least place at which it  *)
(* would not.                                                                  *)

\* A non-empty set of natural numbers has a least element.
LEMMA Least ==
  ASSUME NEW T, T \subseteq Nat, T # {}
  PROVE  \E x \in T : \A y \in T : x <= y
<1> DEFINE L == {ss \in Nat \X Nat : ss[1] < ss[2]}
<1>1. OpToRel(<, Nat) = L
  BY Zenon DEF OpToRel
<1>2. IsWellFoundedOn(L, Nat)
  BY NatLessThanWellFounded, <1>1
<1>3. \A x, y \in Nat : <<x, y>> \in L <=> x < y
  OBVIOUS
<1> HIDE DEF L
<1>4. PICK x \in T : \A y \in T : ~(<<y, x>> \in L)
  BY <1>2, WFMin
<1>5. ASSUME NEW y \in T PROVE x <= y
  <2>1. ~(y < x) /\ x \in Nat /\ y \in Nat
    BY <1>3, <1>4
  <2> QED
    BY <2>1
<1> QED
  BY <1>5

\* From block p one can walk on.
IsWalk(g, p, m) == \A i \in 0..m : g[i] = IF i = 0 THEN p ELSE Address(word[g[i - 1]])

LEMMA WalkExists == ASSUME NEW p, NEW m \in Nat PROVE \E g : IsWalk(g, p, m)
<1> DEFINE T == {k \in Nat : ~\E g : IsWalk(g, p, k)}
<1>1. ASSUME T # {} PROVE FALSE
  <2>1. PICK k \in T : \A j \in T : k <= j
    BY <1>1, Least
  <2>2. CASE k = 0
    <3>1. IsWalk([i \in {0} |-> p], p, 0)
      BY DEF IsWalk
    <3> QED
      BY <2>1, <2>2, <3>1
  <2>3. CASE k # 0
    <3>1. k \in Nat /\ k - 1 \in Nat /\ ~(k <= k - 1)
      BY <2>1, <2>3
    <3>2. PICK g : IsWalk(g, p, k - 1)
      BY <2>1, <3>1
    <3> DEFINE h == [i \in 0..k |-> IF i < k THEN g[i] ELSE Address(word[g[k - 1]])]
    <3>3. IsWalk(h, p, k)
      BY <2>3, <3>1, <3>2 DEF IsWalk
    <3> QED
      BY <2>1, <3>3
  <2> QED
    BY <2>2, <2>3
<1> QED
  BY <1>1

LEMMA FromWalks == ASSUME NEW p PROVE IsWalk(From(p), p, numblocks)
<1>1. numblocks \in Nat
  BY MemTxAssumption
<1>2. PICK g : IsWalk(g, p, numblocks)
  BY <1>1, WalkExists
<1> DEFINE h == [i \in 0..numblocks |-> g[i]]
<1>3. h = [i \in 0..numblocks |-> IF i = 0 THEN p ELSE Address(word[h[i - 1]])]
  BY <1>1, <1>2 DEF IsWalk
<1> HIDE DEF h
<1>4. From(p) = [i \in 0..numblocks |-> IF i = 0 THEN p ELSE Address(word[From(p)[i - 1]])]
  BY <1>3, Zenon DEF From
<1> QED
  BY <1>4, Zenon DEF IsWalk

LEMMA ListsWalk ==
  ASSUME NEW q, NEW p, NEW n \in 0..numblocks, Lists(q, p, n)
  PROVE  (\A i \in 0 .. n - 1 : From(p)[i] = q[i]) /\ From(p)[n] = 0
<1>1. numblocks \in Nat /\ n \in Nat /\ n <= numblocks
  BY MemTxAssumption
<1>2. \A i \in 0 .. n - 1 : Address(word[q[i]]) = IF i = n - 1 THEN 0 ELSE q[i + 1]
  <2> TAKE i \in 0 .. n - 1
  <2>1. CASE i = n - 1
    BY <2>1 DEF Lists, Address
  <2>2. CASE i # n - 1
    <3>1. word[q[i]] = q[i + 1] /\ q[i + 1] \in Blocks
      BY <1>1, <2>2 DEF Lists
    <3> QED
      BY <1>1, <2>2, <3>1 DEF Address, Blocks, EndMark
  <2> QED
    BY <2>1, <2>2
<1> DEFINE T == {i \in 0 .. n - 1 : From(p)[i] # q[i]}
<1>3. ASSUME T # {} PROVE FALSE
  <2>1. T \subseteq Nat
    BY <1>1
  <2>2. PICK i \in T : \A j \in T : i <= j
    BY <1>3, <2>1, Least
  <2>3. i \in 0 .. n - 1 /\ i \in 0..numblocks /\ From(p)[i] # q[i]
    BY <1>1, <2>2
  <2>4. CASE i = 0
    BY <1>1, <2>3, <2>4, FromWalks DEF Lists, IsWalk
  <2>5. CASE i # 0
    <3>1. i - 1 \in 0 .. n - 1 /\ ~(i <= i - 1) /\ i - 1 # n - 1 /\ i - 1 + 1 = i
      BY <1>1, <2>3, <2>5
    <3>2. From(p)[i - 1] = q[i - 1]
      BY <2>2, <3>1
    <3>3. From(p)[i] = Address(word[From(p)[i - 1]])
      BY <2>3, <2>5, FromWalks DEF IsWalk
    <3> QED
      BY <1>2, <2>3, <3>1, <3>2, <3>3
  <2> QED
    BY <2>4, <2>5
<1>4. From(p)[n] = 0
  <2>1. CASE n = 0
    BY <1>1, <2>1, FromWalks DEF Lists, IsWalk
  <2>2. CASE n # 0
    <3>1. n - 1 \in 0 .. n - 1 /\ n \in 0..numblocks
      BY <1>1, <2>2
    <3>2. From(p)[n - 1] = q[n - 1]
      BY <1>3, <3>1
    <3>3. From(p)[n] = Address(word[From(p)[n - 1]])
      BY <2>2, <3>1, FromWalks DEF IsWalk
    <3> QED
      BY <1>2, <3>1, <3>2, <3>3
  <2> QED
    BY <2>1, <2>2
<1> QED
  BY <1>3, <1>4

LEMMA ChainLengthIs ==
  ASSUME NEW q, NEW p, NEW n \in 1..numblocks, Lists(q, p, n)
  PROVE  ChainLength(p) = n
<1> DEFINE Ends(m) == /\ word[From(p)[m - 1]] = EndMark
                      /\ \A i \in 1 .. m - 1 : word[From(p)[i - 1]] # EndMark
<1>1. numblocks \in Nat /\ n \in Nat /\ n <= numblocks /\ n \in 0..numblocks
  BY MemTxAssumption
<1>2. \A i \in 0 .. n - 1 : From(p)[i] = q[i]
  BY <1>1, ListsWalk
<1>3. word[From(p)[n - 1]] = EndMark
  BY <1>1, <1>2 DEF Lists
<1>4. \A i \in 1 .. n - 1 : word[From(p)[i - 1]] # EndMark
  <2> TAKE i \in 1 .. n - 1
  <2>1. i - 1 \in 0 .. n - 1 /\ i \in 0 .. n - 1 /\ i - 1 # n - 1 /\ i - 1 + 1 = i
    BY <1>1
  <2>2. word[From(p)[i - 1]] = q[i] /\ q[i] \in Blocks
    BY <1>2, <2>1 DEF Lists
  <2> QED
    BY <1>1, <2>2 DEF Blocks, EndMark
<1>5. ASSUME NEW m \in 1..numblocks, Ends(m) PROVE m = n
  <2>1. CASE m < n
    <3>1. m \in 1 .. n - 1
      BY <1>1, <2>1
    <3> QED
      BY <1>4, <1>5, <3>1
  <2>2. CASE n < m
    <3>1. n \in 1 .. m - 1
      BY <1>1, <2>2
    <3> QED
      BY <1>3, <1>5, <3>1
  <2> QED
    BY <1>1, <2>1, <2>2
<1> HIDE DEF Ends
<1>6. ChainLength(p) = CHOOSE m \in 1..numblocks : Ends(m)
  BY Zenon DEF ChainLength, Ends
<1>7. Ends(n)
  BY <1>3, <1>4 DEF Ends
<1> QED
  BY <1>5, <1>6, <1>7

\* There are no more blocks than there are.
LEMMA ListIsShort ==
  ASSUME NEW m \in Nat, NEW f, \A i \in 0 .. m - 1 : f[i] \in Blocks,
         \A i, j \in 0 .. m - 1 : f[i] = f[j] => i = j
  PROVE  m <= numblocks
<1> DEFINE I == 0 .. m - 1
           g == [i \in I |-> f[i]]
<1>1. g \in Injection(I, Blocks)
  BY DEF Injection, IsInjective
<1>2. 0 \in Int /\ 1 \in Int /\ m - 1 \in Int /\ numblocks \in Int /\ ~(1 > numblocks)
  BY MemTxAssumption
<1>3. IsFiniteSet(Blocks) /\ Cardinality(Blocks) = numblocks - 1 + 1
  BY <1>2, FS_Interval, Zenon DEF Blocks
<1>4. Cardinality(I) = IF 0 > m - 1 THEN 0 ELSE m - 1 - 0 + 1
  BY <1>2, FS_Interval
<1>5. Cardinality(I) <= Cardinality(Blocks)
  BY <1>1, <1>3, FS_Injection
<1> QED
  BY <1>2, <1>3, <1>4, <1>5

\* What MemTx keeps of its pool: q enumerates the lists, n is their lengths.
MemIInv ==
  /\ R!IInv
  /\ word \in [0..numblocks -> 0..EndMark]
  /\ acx_txbuf_free \in 0..numblocks /\ acx_txbuf_blocks_free \in 0..numblocks
  /\ AcxMemPtr \in [R!Slots -> 0..numblocks]
  /\ len \in Lengths \cup {0} /\ txattempts \in 0..MaxAttempts
  /\ ChainsAreInUse /\ NoBummer
  /\ op = "alloc" => len \in Lengths
  /\ \E n \in [Holders -> Nat] : \E q : Accounted(n, q)

\* The holders are the descriptors and the free list.
LEMMA HoldersAre ==
  /\ FreeList \in Holders /\ FreeList \notin R!Slots
  /\ \A h : h \in Holders <=> h = FreeList \/ h \in R!Slots
  BY MemTxAssumption DEF FreeList, Holders, R!Slots

\* Whoever has no chain has a list of none.
LEMMA FirstTells ==
  ASSUME NEW q, NEW p, NEW n \in Nat, Lists(q, p, n)
  PROVE  (p = 0 <=> n = 0) /\ (n # 0 => q[0] = p /\ p \in Blocks)
<1>1. CASE n = 0
  BY <1>1 DEF Lists
<1>2. CASE n # 0
  <2>1. 0 \in 0 .. n - 1
    BY <1>2
  <2>2. q[0] \in Blocks /\ p = q[0]
    BY <1>2, <2>1 DEF Lists
  <2> QED
    BY <1>2, <2>2 DEF Blocks
<1> QED
  BY <1>1, <1>2

LEMMA SpaceIsNeeded ==
  ASSUME NEW l \in Lengths
  PROVE  SpaceNeeded(l) \in Nat \ {0}
<1> DEFINE m == memblocksize - 4
<1>1. m \in Nat \ {0} /\ l \in Nat \ {0}
  BY MemTxAssumption
<1>2. SpaceNeeded(l) = l \div m + (IF l % m # 0 THEN 1 ELSE 0)
  BY DEF SpaceNeeded
<1> HIDE DEF m
<1>3. l \div m \in Nat /\ l % m \in 0 .. m - 1
  BY <1>1
<1>4. l \div m = 0 => l % m # 0
  BY <1>1
<1> QED
  BY <1>2, <1>3, <1>4

\* The blocks are all in one list, and that list is the free one.
IsWholeList ==
  /\ word = WholeList /\ acx_txbuf_free = 1 /\ acx_txbuf_blocks_free = numblocks
  /\ AcxMemPtr = [s \in R!Slots |-> 0]

LEMMA WholeListAccounts ==
  /\ IsWholeList => \E n \in [Holders -> Nat] : \E q : Accounted(n, q)
  /\ IsWholeList' => \E n \in [Holders -> Nat] : \E q : Accounted(n, q)'
<1> DEFINE n == [h \in Holders |-> IF h = FreeList THEN numblocks ELSE 0]
           q == [h \in Holders |-> [i \in Nat |-> i + 1]]
<1>1. numblocks \in Nat \ {0} /\ n \in [Holders -> Nat]
  BY MemTxAssumption
<1>2. /\ n[FreeList] = numblocks /\ \A h \in Holders : h # FreeList => n[h] = 0
      /\ \A h \in Holders : \A i \in Nat : q[h][i] = i + 1
  BY HoldersAre
<1> HIDE DEF n, q
<1>3. \A i \in 0 .. numblocks - 1 :
        /\ i \in Nat /\ i + 1 \in Blocks
        /\ WholeList[i + 1] = IF i = numblocks - 1 THEN EndMark ELSE i + 2
  BY <1>1 DEF WholeList, Blocks
<1>4. /\ IsWholeList => Lists(q[FreeList], First(FreeList), n[FreeList])
      /\ IsWholeList' => Lists(q[FreeList], First(FreeList), n[FreeList])'
  BY <1>1, <1>2, <1>3, HoldersAre DEF Lists, First, IsWholeList
<1>5. ASSUME NEW h \in Holders, h # FreeList
      PROVE  /\ IsWholeList => Lists(q[h], First(h), n[h])
             /\ IsWholeList' => Lists(q[h], First(h), n[h])'
  BY <1>1, <1>2, <1>5, HoldersAre DEF Lists, First, IsWholeList
<1>6. \A b \in Blocks : \E h \in Holders : \E i \in 0 .. n[h] - 1 : q[h][i] = b
  <2> TAKE b \in Blocks
  <2>1. b - 1 \in 0 .. n[FreeList] - 1 /\ b - 1 \in Nat /\ b - 1 + 1 = b
    BY <1>1, <1>2 DEF Blocks
  <2> QED
    BY <1>2, <2>1, HoldersAre
<1>7. \A g, h \in Holders : \A i \in 0 .. n[g] - 1, j \in 0 .. n[h] - 1 :
        q[g][i] = q[h][j] => g = h /\ i = j
  <2> TAKE g, h \in Holders
  <2> TAKE i \in 0 .. n[g] - 1, j \in 0 .. n[h] - 1
  <2>1. g = FreeList /\ h = FreeList
    BY <1>2
  <2> QED
    BY <1>1, <1>2, <2>1
<1>8. (IsWholeList => Accounted(n, q)) /\ (IsWholeList' => Accounted(n, q)')
  BY <1>2, <1>4, <1>5, <1>6, <1>7, HoldersAre DEF Accounted, IsWholeList
<1> QED
  BY <1>1, <1>8

\* acxmem_allocate_acx_txbuf_space: the first taken blocks of the free list become the
\* chain of a descriptor that has none.
Takes(n, q, s, taken) ==
  /\ Accounted(n, q)
  /\ word \in [0..numblocks -> 0..EndMark] /\ AcxMemPtr \in [R!Slots -> 0..numblocks]
  /\ AcxMemPtr[s] = 0
  /\ taken # 0 /\ taken <= n[FreeList]
  /\ word' = [word EXCEPT ![q[FreeList][taken - 1]] = EndMark]
  /\ acx_txbuf_blocks_free' = acx_txbuf_blocks_free - taken
  /\ acx_txbuf_free' = IF acx_txbuf_blocks_free = taken THEN 0 ELSE q[FreeList][taken]
  /\ AcxMemPtr' = [AcxMemPtr EXCEPT ![s] = acx_txbuf_free]

LEMMA AllocateAccounts ==
  ASSUME NEW n \in [Holders -> Nat], NEW q,
         NEW s \in R!Slots, NEW taken \in Nat, Takes(n, q, s, taken)
  PROVE  \E m \in [Holders -> Nat] : \E r : Accounted(m, r)'
<1> DEFINE C == n[FreeList]
           Q == q[FreeList]
           last == Q[taken - 1]
           m == [h \in Holders |-> IF h = FreeList THEN C - taken
                                   ELSE IF h = s THEN taken ELSE n[h]]
           r == [h \in Holders |-> IF h = FreeList THEN [i \in Nat |-> Q[i + taken]]
                                   ELSE IF h = s THEN Q ELSE q[h]]
<1>1. /\ FreeList \in Holders /\ s \in Holders /\ s # FreeList
      /\ \A h \in Holders : h # FreeList => h \in R!Slots
  BY HoldersAre
<1>2. C \in Nat /\ 1 <= taken /\ taken <= C /\ numblocks \in Nat /\ Blocks \subseteq 0..numblocks
  BY <1>1, MemTxAssumption DEF Takes, Blocks
<1>3. /\ C = acx_txbuf_blocks_free
      /\ \A h \in Holders : Lists(q[h], First(h), n[h])
      /\ \A b \in Blocks : \E h \in Holders : \E i \in 0 .. n[h] - 1 : q[h][i] = b
      /\ \A g, h \in Holders : \A i \in 0 .. n[g] - 1, j \in 0 .. n[h] - 1 :
           q[g][i] = q[h][j] => g = h /\ i = j
  BY Zenon DEF Accounted, Takes
<1>4. /\ AcxMemPtr[s] = 0 /\ acx_txbuf_blocks_free' = C - taken
      /\ acx_txbuf_free' = IF C = taken THEN 0 ELSE Q[taken]
      /\ \A h \in R!Slots : AcxMemPtr'[h] = IF h = s THEN acx_txbuf_free ELSE AcxMemPtr[h]
  BY <1>3 DEF Takes
<1>5. n[s] = 0 /\ Q[0] = acx_txbuf_free
  BY <1>1, <1>2, <1>3, <1>4, FirstTells DEF First
<1>6. /\ \A i \in 0 .. C - 1 : /\ Q[i] \in Blocks
                               /\ word[Q[i]] = IF i = C - 1 THEN EndMark ELSE Q[i + 1]
      /\ \A i, j \in 0 .. C - 1 : Q[i] = Q[j] => i = j
  BY <1>1, <1>3 DEF Lists
<1>7. \A h \in Holders : h # FreeList =>
        \A i \in 0 .. n[h] - 1, j \in 0 .. C - 1 : q[h][i] # Q[j]
  BY <1>1, <1>3
<1>8. /\ m[FreeList] = C - taken /\ m[s] = taken /\ m \in [Holders -> Nat]
      /\ \A h \in Holders : h # FreeList /\ h # s => m[h] = n[h] /\ r[h] = q[h]
      /\ r[s] = Q /\ \A i \in Nat : r[FreeList][i] = Q[i + taken]
  BY <1>1, <1>2
<1>9. /\ taken - 1 \in 0 .. C - 1 /\ last \in Blocks
      /\ \A b \in Blocks : word'[b] = IF b = last THEN EndMark ELSE word[b]
  <2>1. taken - 1 \in 0 .. C - 1
    BY <1>2
  <2>2. last \in Blocks
    BY <1>6, <2>1
  <2>3. word' = [word EXCEPT ![last] = EndMark] /\ word \in [0..numblocks -> 0..EndMark]
    BY DEF Takes
  <2> HIDE DEF last
  <2> QED
    BY <1>2, <2>1, <2>2, <2>3
<1>10. /\ \A i \in 0 .. C - 1 : i # taken - 1 => Q[i] # last
       /\ last = Q[taken - 1]
       /\ \A h \in Holders : h # FreeList => \A i \in 0 .. n[h] - 1 : q[h][i] # last
  BY <1>6, <1>7, <1>9
<1> HIDE DEF m, r, C, Q, last
<1>11. Lists(r[FreeList], First(FreeList), m[FreeList])'
  <2>1. First(FreeList)' = IF m[FreeList] = 0 THEN 0 ELSE r[FreeList][0]
    BY <1>2, <1>4, <1>8 DEF First
  <2>2. ASSUME NEW i \in 0 .. m[FreeList] - 1
        PROVE  /\ r[FreeList][i] \in Blocks
               /\ word'[r[FreeList][i]]
                    = IF i = m[FreeList] - 1 THEN EndMark ELSE r[FreeList][i + 1]
    <3>1. /\ i + taken \in 0 .. C - 1 /\ i + taken # taken - 1 /\ i \in Nat /\ i + 1 \in Nat
          /\ (i + taken = C - 1 <=> i = m[FreeList] - 1) /\ i + 1 + taken = i + taken + 1
      BY <1>2, <1>8
    <3>2. r[FreeList][i] = Q[i + taken] /\ r[FreeList][i + 1] = Q[i + taken + 1]
      BY <1>8, <3>1
    <3> QED
      BY <1>6, <1>9, <1>10, <3>1, <3>2
  <2> QED
    BY <2>1, <2>2 DEF Lists, Blocks, EndMark
<1>12. Lists(r[s], First(s), m[s])'
  <2>1. First(s)' = Q[0] /\ m[s] # 0
    BY <1>1, <1>2, <1>4, <1>5, <1>8 DEF First
  <2>2. ASSUME NEW i \in 0 .. taken - 1
        PROVE  /\ Q[i] \in Blocks
               /\ word'[Q[i]] = IF i = taken - 1 THEN EndMark ELSE Q[i + 1]
    <3>1. i \in 0 .. C - 1 /\ (i # taken - 1 => i # C - 1)
      BY <1>2
    <3> QED
      BY <1>6, <1>9, <1>10, <3>1
  <2> QED
    BY <1>8, <2>1, <2>2 DEF Lists, Blocks, EndMark
<1>13. ASSUME NEW h \in Holders, h # FreeList, h # s PROVE Lists(r[h], First(h), m[h])'
  <2>1. First(h)' = First(h) /\ Lists(q[h], First(h), n[h])
    BY <1>1, <1>3, <1>4, <1>13 DEF First
  <2>2. \A i \in 0 .. n[h] - 1 : q[h][i] \in Blocks /\ word'[q[h][i]] = word[q[h][i]]
    BY <1>9, <1>10, <1>13, <2>1 DEF Lists
  <2> QED
    BY <1>8, <1>13, <2>1, <2>2 DEF Lists, Blocks, EndMark
<1>14. ASSUME NEW b \in Blocks PROVE \E h \in Holders : \E i \in 0 .. m[h] - 1 : r[h][i] = b
  <2>1. PICK h \in Holders : \E i \in 0 .. n[h] - 1 : q[h][i] = b
    BY <1>3
  <2>2. CASE h = FreeList
    <3>1. PICK i \in 0 .. C - 1 : Q[i] = b
      BY <2>1, <2>2 DEF C, Q
    <3>2. CASE i < taken
      <4>1. i \in 0 .. m[s] - 1 /\ r[s][i] = b
        BY <1>2, <1>8, <3>1, <3>2
      <4> QED
        BY <1>1, <4>1
    <3>3. CASE ~(i < taken)
      <4>1. i - taken \in 0 .. m[FreeList] - 1 /\ i - taken \in Nat /\ i - taken + taken = i
        BY <1>2, <1>8, <3>3
      <4>2. r[FreeList][i - taken] = b
        BY <1>8, <3>1, <4>1
      <4> QED
        BY <1>1, <4>1, <4>2
    <3> QED
      BY <3>2, <3>3
  <2>3. CASE h # FreeList
    <3>1. h # s
      BY <1>5, <2>1
    <3> QED
      BY <1>8, <2>1, <2>3, <3>1
  <2> QED
    BY <2>2, <2>3
<1>15. ASSUME NEW g \in Holders, NEW h \in Holders,
              NEW i \in 0 .. m[g] - 1, NEW j \in 0 .. m[h] - 1, r[g][i] = r[h][j]
       PROVE  g = h /\ i = j
  <2> DEFINE Was(x) == IF x = s THEN FreeList ELSE x
             Place(x, k) == IF x = FreeList THEN k + taken ELSE k
  <2>1. \A x \in Holders : \A k \in 0 .. m[x] - 1 :
          /\ Place(x, k) \in 0 .. n[Was(x)] - 1 /\ Was(x) \in Holders
          /\ r[x][k] = q[Was(x)][Place(x, k)]
    <3> TAKE x \in Holders
    <3> TAKE k \in 0 .. m[x] - 1
    <3>1. CASE x = FreeList
      <4>1. k \in Nat /\ k + taken \in 0 .. C - 1 /\ FreeList # s
        BY <1>1, <1>2, <1>8, <3>1
      <4> QED
        BY <1>8, <3>1, <4>1 DEF C, Q
    <3>2. CASE x = s
      <4>1. k \in 0 .. C - 1 /\ FreeList # s
        BY <1>1, <1>2, <1>8, <3>2
      <4> QED
        BY <1>1, <1>8, <3>2, <4>1 DEF C, Q
    <3>3. CASE x # FreeList /\ x # s
      BY <1>8, <3>3
    <3> QED
      BY <3>1, <3>2, <3>3
  <2>2. Was(g) = Was(h) /\ Place(g, i) = Place(h, j)
    BY <1>3, <1>15, <2>1
  <2>3. i \in Int /\ j \in Int
    OBVIOUS
  <2>4. (g = FreeList => h # s) /\ (g = s => h # FreeList)
    BY <1>1, <1>2, <1>8, <2>2, <2>3
  <2> QED
    BY <1>1, <1>2, <2>2, <2>3, <2>4
<1>16. Accounted(m, r)'
  <2>1. \A h \in Holders : Lists(r[h], First(h), m[h])'
    BY <1>11, <1>12, <1>13
  <2>2. m[FreeList] = acx_txbuf_blocks_free'
    BY <1>4, <1>8
  <2> QED
    BY <1>14, <1>15, <2>1, <2>2 DEF Accounted, Holders, FreeList, Blocks
<1> QED
  BY <1>8, <1>16

\* acxmem_reclaim_acx_txbuf_space: the chain of a descriptor goes to the front of the free
\* list.
Gives(n, q, s) ==
  /\ Accounted(n, q)
  /\ word \in [0..numblocks -> 0..EndMark] /\ AcxMemPtr \in [R!Slots -> 0..numblocks]
  /\ n[s] # 0
  /\ word' = [word EXCEPT ![q[s][n[s] - 1]]
                = IF acx_txbuf_free # 0 THEN acx_txbuf_free ELSE EndMark]
  /\ acx_txbuf_blocks_free' = acx_txbuf_blocks_free + n[s]
  /\ acx_txbuf_free' = AcxMemPtr[s]
  /\ AcxMemPtr' = [AcxMemPtr EXCEPT ![s] = 0]

LEMMA ReclaimAccounts ==
  ASSUME NEW n \in [Holders -> Nat], NEW q, NEW s \in R!Slots, Gives(n, q, s)
  PROVE  \E m \in [Holders -> Nat] : \E r : Accounted(m, r)'
<1> DEFINE C == n[FreeList]
           K == n[s]
           Q == q[FreeList]
           S == q[s]
           last == S[K - 1]
           m == [h \in Holders |-> IF h = FreeList THEN C + K ELSE IF h = s THEN 0 ELSE n[h]]
           r == [h \in Holders |-> IF h = FreeList
                                   THEN [i \in Nat |-> IF i < K THEN S[i] ELSE Q[i - K]]
                                   ELSE q[h]]
<1>1. /\ FreeList \in Holders /\ s \in Holders /\ s # FreeList
      /\ \A h \in Holders : h # FreeList => h \in R!Slots
  BY HoldersAre
<1>2. C \in Nat /\ K \in Nat /\ 1 <= K /\ numblocks \in Nat /\ Blocks \subseteq 0..numblocks
  BY <1>1, MemTxAssumption DEF Gives, Blocks
<1>3. /\ C = acx_txbuf_blocks_free
      /\ \A h \in Holders : Lists(q[h], First(h), n[h])
      /\ \A b \in Blocks : \E h \in Holders : \E i \in 0 .. n[h] - 1 : q[h][i] = b
      /\ \A g, h \in Holders : \A i \in 0 .. n[g] - 1, j \in 0 .. n[h] - 1 :
           q[g][i] = q[h][j] => g = h /\ i = j
  BY Zenon DEF Accounted, Gives
<1>4. /\ acx_txbuf_blocks_free' = C + K
      /\ acx_txbuf_free' = AcxMemPtr[s]
      /\ \A h \in R!Slots : AcxMemPtr'[h] = IF h = s THEN 0 ELSE AcxMemPtr[h]
  BY <1>3 DEF Gives
<1>5. /\ AcxMemPtr[s] = S[0]
      /\ acx_txbuf_free = (IF C = 0 THEN 0 ELSE Q[0])
      /\ acx_txbuf_free = 0 <=> C = 0
  <2>1. Lists(S, AcxMemPtr[s], K) /\ Lists(Q, acx_txbuf_free, C)
    BY <1>1, <1>3 DEF First
  <2> HIDE DEF S, Q, K, C
  <2> QED
    BY <1>2, <2>1, FirstTells
<1>6. /\ \A i \in 0 .. C - 1 : /\ Q[i] \in Blocks
                               /\ word[Q[i]] = IF i = C - 1 THEN EndMark ELSE Q[i + 1]
      /\ \A i \in 0 .. K - 1 : /\ S[i] \in Blocks
                               /\ word[S[i]] = IF i = K - 1 THEN EndMark ELSE S[i + 1]
  BY <1>1, <1>3 DEF Lists
<1>7. /\ \A i, j \in 0 .. C - 1 : Q[i] = Q[j] => i = j
      /\ \A i, j \in 0 .. K - 1 : S[i] = S[j] => i = j
      /\ \A i \in 0 .. C - 1, j \in 0 .. K - 1 : Q[i] # S[j]
  BY <1>1, <1>3
<1>8. \A h \in Holders : h # s => \A i \in 0 .. n[h] - 1, j \in 0 .. K - 1 : q[h][i] # S[j]
  BY <1>1, <1>3
<1>9. \A h \in Holders : h # FreeList => \A i \in 0 .. n[h] - 1, j \in 0 .. C - 1 : q[h][i] # Q[j]
  BY <1>1, <1>3
<1>10. /\ 0 .. m[FreeList] - 1 = 0 .. C + K - 1
       /\ m[FreeList] = C + K /\ m[s] = 0 /\ m \in [Holders -> Nat]
       /\ \A h \in Holders : h # FreeList /\ h # s => m[h] = n[h] /\ r[h] = q[h]
       /\ \A i \in Nat : i < K => r[FreeList][i] = S[i]
       /\ \A i \in Nat : r[FreeList][i + K] = Q[i]
  BY <1>1, <1>2
<1>11. /\ K - 1 \in 0 .. K - 1 /\ last \in Blocks /\ last = S[K - 1]
       /\ \A b \in Blocks : word'[b] = IF b = last THEN IF C # 0 THEN Q[0] ELSE EndMark ELSE word[b]
  <2>1. K - 1 \in 0 .. K - 1
    BY <1>2
  <2>2. last \in Blocks
    BY <1>6, <2>1
  <2>3. /\ word' = [word EXCEPT ![last] = IF acx_txbuf_free # 0 THEN acx_txbuf_free ELSE EndMark]
        /\ word \in [0..numblocks -> 0..EndMark]
    BY DEF Gives
  <2> DEFINE first == IF acx_txbuf_free # 0 THEN acx_txbuf_free ELSE EndMark
  <2>4. first = IF C # 0 THEN Q[0] ELSE EndMark
    BY <1>5
  <2> HIDE DEF last, first
  <2>5. \A b \in Blocks : word'[b] = IF b = last THEN first ELSE word[b]
    BY <1>2, <2>2, <2>3 DEF first
  <2> QED
    BY <2>1, <2>2, <2>4, <2>5 DEF last
<1>12. /\ \A i \in 0 .. C - 1 : Q[i] # last
       /\ \A i \in 0 .. K - 1 : i # K - 1 => S[i] # last
       /\ \A h \in Holders : h # s => \A i \in 0 .. n[h] - 1 : q[h][i] # last
  BY <1>7, <1>8, <1>11
<1> HIDE DEF m, r, C, K, Q, S, last
<1>13. Lists(r[FreeList], First(FreeList), m[FreeList])'
  <2>1. First(FreeList)' = r[FreeList][0] /\ m[FreeList] # 0
    BY <1>2, <1>4, <1>5, <1>10 DEF First
  <2>2. ASSUME NEW i \in 0 .. m[FreeList] - 1
        PROVE  /\ r[FreeList][i] \in Blocks
               /\ word'[r[FreeList][i]]
                    = IF i = m[FreeList] - 1 THEN EndMark ELSE r[FreeList][i + 1]
    <3>1. /\ i \in Nat /\ i + 1 \in Nat /\ i \in 0 .. C + K - 1
          /\ m[FreeList] - 1 = C + K - 1
      BY <1>2, <1>10
    <3>2. CASE i < K - 1
      <4>1. i \in 0 .. K - 1 /\ i # K - 1 /\ i < K /\ i + 1 < K /\ i # C + K - 1
        BY <1>2, <3>1, <3>2
      <4>2. r[FreeList][i] = S[i] /\ r[FreeList][i + 1] = S[i + 1]
        BY <1>10, <3>1, <4>1
      <4> QED
        BY <1>6, <1>11, <1>12, <3>1, <4>1, <4>2
    <3>3. CASE i = K - 1
      <4>1. r[FreeList][i] = last /\ r[FreeList][i + 1] = Q[0] /\ (i = C + K - 1 <=> C = 0)
        BY <1>2, <1>10, <1>11, <3>1, <3>3
      <4> QED
        BY <1>11, <3>1, <4>1
    <3>4. CASE i >= K
      <4>1. /\ i - K \in 0 .. C - 1 /\ (i - K = C - 1 <=> i = C + K - 1)
            /\ i - K \in Nat /\ i - K + 1 \in Nat /\ i = i - K + K /\ i + 1 = i - K + 1 + K
        BY <1>2, <3>1, <3>4
      <4>2. r[FreeList][i] = Q[i - K] /\ r[FreeList][i + 1] = Q[i - K + 1]
        BY <1>10, <3>1, <4>1
      <4> QED
        BY <1>6, <1>11, <1>12, <3>1, <4>1, <4>2
    <3> QED
      BY <1>2, <3>1, <3>2, <3>3, <3>4
  <2> QED
    BY <2>1, <2>2 DEF Lists, Blocks, EndMark
<1>14. Lists(r[s], First(s), m[s])'
  BY <1>1, <1>4, <1>10 DEF Lists, First
<1>15. ASSUME NEW h \in Holders, h # FreeList, h # s PROVE Lists(r[h], First(h), m[h])'
  <2>1. First(h)' = First(h) /\ Lists(q[h], First(h), n[h])
    BY <1>1, <1>3, <1>4, <1>15 DEF First
  <2>2. \A i \in 0 .. n[h] - 1 : q[h][i] \in Blocks /\ word'[q[h][i]] = word[q[h][i]]
    BY <1>11, <1>12, <1>15, <2>1 DEF Lists
  <2> QED
    BY <1>10, <1>15, <2>1, <2>2 DEF Lists, Blocks, EndMark
<1>16. ASSUME NEW b \in Blocks PROVE \E h \in Holders : \E i \in 0 .. m[h] - 1 : r[h][i] = b
  <2>1. PICK h \in Holders : \E i \in 0 .. n[h] - 1 : q[h][i] = b
    BY <1>3
  <2>2. CASE h = FreeList
    <3>1. PICK i \in 0 .. C - 1 : Q[i] = b
      BY <2>1, <2>2 DEF C, Q
    <3>2. i + K \in 0 .. m[FreeList] - 1 /\ i \in Nat
      BY <1>2, <1>10, <3>1
    <3>3. r[FreeList][i + K] = b
      BY <1>10, <3>1, <3>2
    <3> QED
      BY <1>1, <3>2, <3>3
  <2>3. CASE h = s
    <3>1. PICK i \in 0 .. K - 1 : S[i] = b
      BY <2>1, <2>3 DEF K, S
    <3>2. i \in 0 .. m[FreeList] - 1 /\ i \in Nat /\ i < K
      BY <1>2, <1>10, <3>1
    <3>3. r[FreeList][i] = b
      BY <1>10, <3>1, <3>2
    <3> QED
      BY <1>1, <3>2, <3>3
  <2>4. CASE h # FreeList /\ h # s
    BY <1>10, <2>1, <2>4
  <2> QED
    BY <2>2, <2>3, <2>4
<1>17. ASSUME NEW g \in Holders, NEW h \in Holders,
              NEW i \in 0 .. m[g] - 1, NEW j \in 0 .. m[h] - 1, r[g][i] = r[h][j]
       PROVE  g = h /\ i = j
  <2>1. g # s /\ h # s
    BY <1>10
  <2>2. CASE g # FreeList /\ h # FreeList
    BY <1>3, <1>10, <1>17, <2>1, <2>2
  <2>3. ASSUME NEW k \in 0 .. C + K - 1
        PROVE  \/ k \in 0 .. K - 1 /\ r[FreeList][k] = S[k]
               \/ k - K \in 0 .. C - 1 /\ r[FreeList][k] = Q[k - K]
    <3>1. CASE k < K
      BY <1>2, <1>10, <3>1
    <3>2. CASE ~(k < K)
      <4>1. k - K \in 0 .. C - 1 /\ k - K \in Nat /\ k - K + K = k
        BY <1>2, <3>2
      <4>2. r[FreeList][k - K + K] = Q[k - K]
        BY <1>10, <4>1
      <4> QED
        BY <4>1, <4>2
    <3> QED
      BY <3>1, <3>2
  <2>4. CASE g = FreeList /\ h = FreeList
    <3>1. /\ i \in 0 .. m[FreeList] - 1 /\ j \in 0 .. m[FreeList] - 1
          /\ r[FreeList][i] = r[FreeList][j]
      BY <1>17, <2>4, Zenon
    <3>2. i \in 0 .. C + K - 1 /\ j \in 0 .. C + K - 1
      BY <1>10, <3>1, Zenon
    <3>3. i = j \/ i - K = j - K
      BY <1>7, <2>3, <3>1, <3>2
    <3> QED
      BY <1>2, <2>4, <3>2, <3>3
  <2>5. ASSUME NEW a \in Holders, a # FreeList, a # s, NEW k \in 0 .. m[a] - 1,
               NEW l \in 0 .. C + K - 1
        PROVE  r[a][k] # r[FreeList][l]
    <3>1. k \in 0 .. n[a] - 1 /\ r[a][k] = q[a][k]
      BY <1>10, <2>5
    <3> QED
      BY <1>8, <1>9, <2>3, <2>5, <3>1
  <2>6. CASE g = FreeList /\ h # FreeList
    <3>1. i \in 0 .. m[FreeList] - 1
      BY <2>6, Zenon
    <3>2. i \in 0 .. C + K - 1
      BY <1>10, <3>1, Zenon
    <3> QED
      BY <1>17, <2>1, <2>5, <2>6, <3>2
  <2>7. CASE g # FreeList /\ h = FreeList
    <3>1. j \in 0 .. m[FreeList] - 1
      BY <2>7, Zenon
    <3>2. j \in 0 .. C + K - 1
      BY <1>10, <3>1, Zenon
    <3> QED
      BY <1>17, <2>1, <2>5, <2>7, <3>2
  <2> QED
    BY <2>2, <2>4, <2>6, <2>7
<1>18. Accounted(m, r)'
  BY <1>4, <1>10, <1>13, <1>14, <1>15, <1>16, <1>17 DEF Accounted
<1> QED
  BY <1>10, <1>18

\* A step that leaves the blocks alone.
LEMMA PoolKept ==
  ASSUME UNCHANGED <<pool, AcxMemPtr>>, \E n \in [Holders -> Nat] : \E q : Accounted(n, q)
  PROVE  \E n \in [Holders -> Nat] : \E q : Accounted(n, q)'
<1>1. PICK n \in [Holders -> Nat] : \E q : Accounted(n, q)
  OBVIOUS
<1>2. PICK q : Accounted(n, q)
  BY <1>1
<1>3. Accounted(n, q)'
  BY <1>2 DEF Accounted, Lists, First, pool
<1> QED
  BY <1>3

\* The list of the free blocks, and the chain of descriptor s, as MemTx reads them.
LEMMA FreeListIs ==
  ASSUME NEW n \in [Holders -> Nat], NEW q, Accounted(n, q)
  PROVE  /\ n[FreeList] = acx_txbuf_blocks_free /\ n[FreeList] \in 0..numblocks
         /\ \A i \in 0 .. n[FreeList] - 1 : From(acx_txbuf_free)[i] = q[FreeList][i]
         /\ From(acx_txbuf_free)[n[FreeList]] = 0
<1>1. /\ FreeList \in Holders /\ n[FreeList] \in Nat /\ n[FreeList] = acx_txbuf_blocks_free
      /\ Lists(q[FreeList], acx_txbuf_free, n[FreeList])
  BY HoldersAre DEF Accounted, First
<1>2. /\ \A i \in 0 .. n[FreeList] - 1 : q[FreeList][i] \in Blocks
      /\ \A i, j \in 0 .. n[FreeList] - 1 : q[FreeList][i] = q[FreeList][j] => i = j
  BY <1>1 DEF Accounted, Lists
<1>3. n[FreeList] <= numblocks /\ numblocks \in Nat
  BY <1>1, <1>2, ListIsShort, MemTxAssumption
<1>4. n[FreeList] \in 0..numblocks
  BY <1>1, <1>3
<1> QED
  BY <1>1, <1>4, ListsWalk

LEMMA ChainIs ==
  ASSUME NEW n \in [Holders -> Nat], NEW q, Accounted(n, q), NEW s \in R!Slots, AcxMemPtr[s] # 0
  PROVE  /\ n[s] \in 1..numblocks /\ ChainLength(AcxMemPtr[s]) = n[s]
         /\ \A i \in 0 .. n[s] - 1 : From(AcxMemPtr[s])[i] = q[s][i]
<1>1. /\ s \in Holders /\ s # FreeList /\ n[s] \in Nat /\ Lists(q[s], AcxMemPtr[s], n[s])
  BY HoldersAre DEF Accounted, First
<1>2. n[s] # 0
  BY <1>1, FirstTells
<1>3. /\ \A i \in 0 .. n[s] - 1 : q[s][i] \in Blocks
      /\ \A i, j \in 0 .. n[s] - 1 : q[s][i] = q[s][j] => i = j
  BY <1>1 DEF Accounted, Lists
<1>4. n[s] <= numblocks /\ numblocks \in Nat
  BY <1>1, <1>3, ListIsShort, MemTxAssumption
<1>5. n[s] \in 1..numblocks /\ n[s] \in 0..numblocks
  BY <1>1, <1>2, <1>4
<1> QED
  BY <1>1, <1>5, ListsWalk, ChainLengthIs

\* What the steps on the pool need of the ring.
LEMMA RingTells ==
  ASSUME R!IInv
  PROVE  /\ Ctl_8 \in [R!Slots -> SUBSET {"HOSTOWN", "ACXDONE"}]
         /\ head \in R!Slots /\ finger \in R!Slots /\ txdesc \in R!Slots
         /\ op = "alloc" => Ctl_8[txdesc] = {"HOSTOWN", "ACXDONE"}
  BY DEF R!IInv, R!TypeOK, R!OwnBits, R!TxdescIsYoungest, R!AcxDoneHostOwn

InUse(s) == Ctl_8[s] # {"HOSTOWN"} /\ ~(op = "alloc" /\ s = txdesc)

LEMMA InUseIs ==
  /\ ChainsAreInUse <=> \A s \in R!Slots : AcxMemPtr[s] # 0 <=> InUse(s)
  /\ ChainsAreInUse' <=> \A s \in R!Slots : AcxMemPtr'[s] # 0 <=> InUse(s)'
  BY DEF ChainsAreInUse, InUse, Ring!HostOwned, Ring!Claimed, Ring!Slots, R!Slots

LEMMA MemAllocTx ==
  ASSUME MemIInv, NEW f \in Frames, NEW l \in Lengths, AllocTx(f, l), R!IInv'
  PROVE  MemIInv'
<1>1. /\ op = "none" /\ op' = "alloc" /\ Ctl_8[head] = {"HOSTOWN"} /\ txdesc' = head
      /\ Ctl_8' = [Ctl_8 EXCEPT ![head] = {"HOSTOWN", "ACXDONE"}]
      /\ len' = l /\ SpaceNeeded(l) <= acx_txbuf_blocks_free
      /\ UNCHANGED <<pool, AcxMemPtr, txattempts>>
  BY DEF AllocTx, EnoughBlocks, Ring!AllocTx, Ring!HostOwned, Ring!AcxDoneHostOwn
<1>2. UNCHANGED <<word, acx_txbuf_free, acx_txbuf_blocks_free>>
  BY <1>1 DEF pool
<1>3. \A s \in R!Slots : Ctl_8'[s] = IF s = head THEN {"HOSTOWN", "ACXDONE"} ELSE Ctl_8[s]
  BY <1>1, RingTells DEF MemIInv
<1>4. ChainsAreInUse'
  <2>1. \A s \in R!Slots : InUse(s)' <=> InUse(s)
    BY <1>1, <1>3 DEF InUse
  <2> QED
    BY <1>1, <2>1, InUseIs DEF MemIInv
<1>5. NoBummer'
  BY <1>1, <1>2 DEF NoBummer, SpaceNeeded
<1> QED
  BY <1>1, <1>2, <1>4, <1>5, PoolKept DEF MemIInv

LEMMA MemTxDataRelease ==
  ASSUME MemIInv, TxDataRelease, R!IInv' PROVE MemIInv'
<1> DEFINE taken == SpaceNeeded(len)
<1>1. /\ op = "alloc" /\ op' = "tx_data" /\ txdesc' = txdesc
      /\ Ctl_8' = [Ctl_8 EXCEPT ![txdesc] = @ \ {"HOSTOWN", "ACXDONE"}]
      /\ Allocate(len) /\ UNCHANGED <<len, txattempts>>
  BY DEF TxDataRelease, Ring!TxDataRelease, Ring!AcxDoneHostOwn
<1>2. /\ txdesc \in R!Slots /\ Ctl_8[txdesc] = {"HOSTOWN", "ACXDONE"}
      /\ \A s \in R!Slots : Ctl_8'[s] = IF s = txdesc THEN {} ELSE Ctl_8[s]
  BY <1>1, RingTells DEF MemIInv
<1>3. AcxMemPtr[txdesc] = 0
  BY <1>1, <1>2, InUseIs DEF MemIInv, InUse
<1>4. taken \in Nat \ {0} /\ taken <= acx_txbuf_blocks_free
  BY <1>1, SpaceIsNeeded DEF MemIInv, NoBummer
<1>5. PICK n \in [Holders -> Nat] : \E q : Accounted(n, q)
  BY DEF MemIInv
<1>6. PICK q : Accounted(n, q)
  BY <1>5
<1> DEFINE Q == q[FreeList]
           C == acx_txbuf_blocks_free
<1>7. /\ n[FreeList] = C /\ C \in 0..numblocks /\ numblocks \in Nat /\ FreeList \in Holders
      /\ \A i \in 0 .. C - 1 : From(acx_txbuf_free)[i] = Q[i] /\ Q[i] \in Blocks
  <2>1. n[FreeList] = C /\ \A i \in 0 .. n[FreeList] - 1 : Q[i] \in Blocks
    BY <1>6, HoldersAre DEF Accounted, Lists
  <2> QED
    BY <1>6, <2>1, FreeListIs, HoldersAre, MemTxAssumption
<1>8. /\ word' = [word EXCEPT ![From(acx_txbuf_free)[taken - 1]] = EndMark]
      /\ acx_txbuf_blocks_free' = C - taken
      /\ acx_txbuf_free' = IF C - taken = 0 THEN 0 ELSE From(acx_txbuf_free)[taken]
      /\ AcxMemPtr' = [AcxMemPtr EXCEPT ![txdesc] = acx_txbuf_free]
  BY <1>1, <1>4 DEF Allocate, LastWord
<1> HIDE DEF taken, C, Q
<1>9. /\ taken - 1 \in 0 .. C - 1
      /\ C - taken = 0 <=> C = taken
      /\ C # taken => taken \in 0 .. C - 1
  BY <1>4, <1>7 DEF C
<1>10. /\ word \in [0..numblocks -> 0..EndMark] /\ AcxMemPtr \in [R!Slots -> 0..numblocks]
       /\ acx_txbuf_free \in 0..numblocks
  BY DEF MemIInv
<1>11. /\ word' = [word EXCEPT ![q[FreeList][taken - 1]] = EndMark]
       /\ acx_txbuf_free' = IF C = taken THEN 0 ELSE q[FreeList][taken]
  <2>1. From(acx_txbuf_free)[taken - 1] = Q[taken - 1]
    BY <1>7, <1>9
  <2>2. C # taken => From(acx_txbuf_free)[taken] = Q[taken]
    BY <1>7, <1>9
  <2> QED
    BY <1>8, <1>9, <2>1, <2>2, Zenon DEF Q
<1>12. Takes(n, q, txdesc, taken)
  BY <1>3, <1>4, <1>6, <1>7, <1>8, <1>10, <1>11 DEF Takes, C
<1>13. \E m \in [Holders -> Nat] : \E r : Accounted(m, r)'
  BY <1>2, <1>4, <1>12, AllocateAccounts
<1>14. acx_txbuf_free # 0
  BY <1>4, <1>6, <1>7, FirstTells, HoldersAre DEF Accounted, First, C
<1>15. ChainsAreInUse'
  <2>1. \A s \in R!Slots : AcxMemPtr'[s] = IF s = txdesc THEN acx_txbuf_free ELSE AcxMemPtr[s]
    BY <1>8, <1>10
  <2>2. InUse(txdesc)' /\ \A s \in R!Slots \ {txdesc} : InUse(s)' <=> InUse(s)
    BY <1>1, <1>2 DEF InUse
  <2>3. \A s \in R!Slots : AcxMemPtr'[s] # 0 <=> InUse(s)'
    <3> TAKE s \in R!Slots
    <3>1. CASE s = txdesc
      BY <1>1, <1>14, <2>1, <2>2, <3>1 DEF InUse
    <3>2. CASE s # txdesc
      BY <2>1, <2>2, <3>2, InUseIs DEF MemIInv
    <3> QED
      BY <3>1, <3>2
  <2> QED
    BY <2>3, InUseIs
<1>16. /\ word' \in [0..numblocks -> 0..EndMark] /\ AcxMemPtr' \in [R!Slots -> 0..numblocks]
       /\ acx_txbuf_free' \in 0..numblocks /\ acx_txbuf_blocks_free' \in 0..numblocks
  <2>1. /\ EndMark \in 0..EndMark /\ Q[taken - 1] \in 0..numblocks
        /\ C # taken => Q[taken] \in 0..numblocks
    BY <1>7, <1>9 DEF EndMark, Blocks
  <2>2. acx_txbuf_blocks_free' \in 0..numblocks /\ 0 \in 0..numblocks
    BY <1>4, <1>7, <1>8 DEF C
  <2> QED
    BY <1>8, <1>10, <1>11, <2>1, <2>2 DEF Q
<1> QED
  BY <1>1, <1>13, <1>15, <1>16 DEF MemIInv, NoBummer

LEMMA MemCleanDesc ==
  ASSUME MemIInv, CleanDesc, R!IInv' PROVE MemIInv'
<1> DEFINE p == AcxMemPtr[finger]
<1>1. /\ op = "clean" /\ op' = "clean" /\ finger \in R!Slots
      /\ Ctl_8[finger] = {"HOSTOWN", "ACXDONE"}
      /\ \A s \in R!Slots : Ctl_8'[s] = IF s = finger THEN {"HOSTOWN"} ELSE Ctl_8[s]
  BY RingTells
     DEF MemIInv, CleanDesc, Ring!CleanDesc, Ring!Finished, Ring!AcxDoneHostOwn,
         Ring!CleanedCtl, Ring!HostOwned
<1>2. p # 0
  <2>1. {"HOSTOWN", "ACXDONE"} # {"HOSTOWN"} /\ "clean" # "alloc"
    OBVIOUS
  <2>2. InUse(finger)
    BY <1>1, <2>1, Zenon DEF InUse
  <2> QED
    BY <1>1, <2>2, InUseIs DEF MemIInv
<1>3. /\ word \in [0..numblocks -> 0..EndMark] /\ AcxMemPtr \in [R!Slots -> 0..numblocks]
      /\ acx_txbuf_free \in 0..numblocks
  BY DEF MemIInv
<1>4. p \in Blocks
  BY <1>1, <1>2, <1>3, MemTxAssumption DEF Blocks
<1>5. Reclaim(p) /\ AcxMemPtr' = [AcxMemPtr EXCEPT ![finger] = 0] /\ UNCHANGED <<len, txattempts>>
  BY <1>4 DEF CleanDesc
<1>6. PICK n \in [Holders -> Nat] : \E q : Accounted(n, q)
  BY DEF MemIInv
<1>7. PICK q : Accounted(n, q)
  BY <1>6
<1> DEFINE K == n[finger]
           b == q[finger][K - 1]
           v == IF acx_txbuf_free # 0 THEN acx_txbuf_free ELSE EndMark
<1>8. K \in 1..numblocks /\ ChainLength(p) = K /\ \A i \in 0 .. K - 1 : From(p)[i] = q[finger][i]
  BY <1>1, <1>2, <1>7, ChainIs
<1>9. /\ acx_txbuf_blocks_free' = acx_txbuf_blocks_free + K
      /\ acx_txbuf_free' = p
      /\ word' = [word EXCEPT ![b] = v]
  <2>1. From(p)[K - 1] = b
    BY <1>8, MemTxAssumption
  <2> HIDE DEF b, K
  <2> QED
    BY <1>5, <1>8, <2>1 DEF Reclaim
<1>10. Gives(n, q, finger)
  <2>1. n[finger] # 0
    BY <1>8, MemTxAssumption
  <2> QED
    BY <1>3, <1>5, <1>7, <1>9, <2>1 DEF Gives
<1>11. \E m \in [Holders -> Nat] : \E r : Accounted(m, r)'
  BY <1>1, <1>10, ReclaimAccounts
<1>12. acx_txbuf_blocks_free' \in 0..numblocks
  <2>1. PICK m \in [Holders -> Nat] : \E r : Accounted(m, r)'
    BY <1>11
  <2>2. PICK r : Accounted(m, r)'
    BY <2>1
  <2>3. /\ m[FreeList] = acx_txbuf_blocks_free' /\ m[FreeList] \in Nat
        /\ \A i \in 0 .. m[FreeList] - 1 : r[FreeList][i] \in Blocks
        /\ \A i, j \in 0 .. m[FreeList] - 1 : r[FreeList][i] = r[FreeList][j] => i = j
    BY <2>2, HoldersAre DEF Accounted, Lists, Holders, FreeList, Blocks
  <2>4. m[FreeList] <= numblocks
    BY <2>3, ListIsShort
  <2> QED
    BY <2>3, <2>4, MemTxAssumption
<1>13. ChainsAreInUse'
  <2>1. \A s \in R!Slots : AcxMemPtr'[s] = IF s = finger THEN 0 ELSE AcxMemPtr[s]
    BY <1>3, <1>5
  <2>2. \A s \in R!Slots : AcxMemPtr'[s] # 0 <=> InUse(s)'
    BY <1>1, <2>1, InUseIs DEF InUse, MemIInv
  <2> QED
    BY <2>2, InUseIs
<1>14. /\ word' \in [0..numblocks -> 0..EndMark] /\ AcxMemPtr' \in [R!Slots -> 0..numblocks]
       /\ acx_txbuf_free' \in 0..numblocks
  <2>1. v \in 0..EndMark
    BY <1>3, MemTxAssumption DEF EndMark
  <2>2. 0 \in 0..numblocks /\ p \in 0..numblocks
    BY <1>1, <1>3, MemTxAssumption
  <2> HIDE DEF v, p, b
  <2> QED
    BY <1>3, <1>5, <1>9, <2>1, <2>2
<1> QED
  BY <1>1, <1>5, <1>11, <1>12, <1>13, <1>14 DEF MemIInv, NoBummer

LEMMA MemFlush ==
  ASSUME MemIInv, FlushTransmitQueue, R!IInv' PROVE MemIInv'
<1>1. /\ op' = op /\ op = "none" /\ len' = len /\ txattempts' = 0
      /\ Ctl_8' = [s \in R!Slots |-> {"HOSTOWN"}] /\ AcxMemPtr' = [s \in R!Slots |-> 0]
      /\ word' = WholeList /\ acx_txbuf_free' = 1 /\ acx_txbuf_blocks_free' = numblocks
  BY SameNames DEF FlushTransmitQueue, R!HostOwned
<1>2. \E n \in [Holders -> Nat] : \E q : Accounted(n, q)'
  BY <1>1, WholeListAccounts DEF IsWholeList
<1>3. ChainsAreInUse'
  BY <1>1, InUseIs DEF InUse
<1>4. /\ word' \in [0..numblocks -> 0..EndMark] /\ AcxMemPtr' \in [R!Slots -> 0..numblocks]
      /\ acx_txbuf_free' \in 0..numblocks /\ acx_txbuf_blocks_free' \in 0..numblocks
      /\ txattempts' \in 0..MaxAttempts
  BY <1>1, MemTxAssumption DEF WholeList, EndMark
<1> QED
  BY <1>1, <1>2, <1>3, <1>4 DEF MemIInv, NoBummer

\* The steps that leave the blocks alone and claim no descriptor.
LEMMA MemOthers ==
  ASSUME MemIInv, R!IInv',
         \/ WakeUpAcx \/ TxDataStoreSkb \/ CleanStart \/ CleanEnd
         \/ \E s \in Ring!Slots : AcxComplete(s)
         \/ UNCHANGED vars
  PROVE  MemIInv'
<1>1. /\ UNCHANGED <<pool, AcxMemPtr, len>> /\ txattempts' \in 0..MaxAttempts
      /\ op' = "alloc" => op = "alloc"
  BY MemTxAssumption
     DEF MemIInv, WakeUpAcx, TxDataStoreSkb, CleanStart, CleanEnd, AcxComplete, vars, ring,
         Ring!TxDataStoreSkb, Ring!CleanStart, Ring!CleanEnd, Ring!AcxComplete, Ring!opVars
<1>2. UNCHANGED <<word, acx_txbuf_free, acx_txbuf_blocks_free>>
  BY <1>1 DEF pool
<1>3. \A s \in R!Slots : InUse(s)' <=> InUse(s)
  <2>1. CASE UNCHANGED <<Ctl_8, op, txdesc>>
    BY <2>1 DEF InUse
  <2>2. CASE TxDataStoreSkb \/ CleanStart \/ CleanEnd
    <3>1. Ctl_8' = Ctl_8 /\ op # "alloc" /\ op' # "alloc"
      BY <2>2 DEF TxDataStoreSkb, CleanStart, CleanEnd, Ring!TxDataStoreSkb, Ring!CleanStart,
                  Ring!CleanEnd, Ring!hwVars
    <3> QED
      BY <3>1 DEF InUse
  <2>3. CASE \E s \in Ring!Slots : AcxComplete(s)
    <3>1. PICK s \in R!Slots : Ring!AcxComplete(s)
      BY <2>3, SameNames DEF AcxComplete
    <3>2. /\ Ctl_8[s] = {} /\ op' = op /\ txdesc' = txdesc
          /\ \A x \in R!Slots : Ctl_8'[x] = IF x = s THEN {"HOSTOWN", "ACXDONE"} ELSE Ctl_8[x]
      BY <3>1, RingTells
         DEF MemIInv, Ring!AcxComplete, Ring!AcxOwned, Ring!AcxDoneHostOwn, Ring!opVars
    <3>3. ~(op = "alloc" /\ s = txdesc)
      BY <3>2, RingTells DEF MemIInv
    <3> QED
      BY <3>2, <3>3 DEF InUse
  <2> QED
    BY <2>1, <2>2, <2>3 DEF WakeUpAcx, vars, ring
<1>4. ChainsAreInUse'
  BY <1>1, <1>3, InUseIs DEF MemIInv
<1>5. NoBummer'
  BY <1>1, <1>2 DEF MemIInv, NoBummer, SpaceNeeded
<1> QED
  BY <1>1, <1>2, <1>4, <1>5, PoolKept DEF MemIInv

LEMMA MemStep == ASSUME MemIInv, [Next]_vars PROVE MemIInv'
<1>1. R!IInv'
  BY MemRingStep DEF MemIInv
<1> QED
  BY <1>1, MemAllocTx, MemTxDataRelease, MemCleanDesc, MemFlush, MemOthers DEF Next

LEMMA MemInit == Init => MemIInv
<1> SUFFICES ASSUME Init PROVE MemIInv
  OBVIOUS
<1>1. R!IInv
  BY R!InitIInv, SameActions, MemTxAssumption DEF Init
<1>2. /\ op = "none" /\ len = 0 /\ txattempts = 0
      /\ Ctl_8 = [s \in R!Slots |-> {"HOSTOWN"}] /\ IsWholeList
  BY SameNames DEF Init, Ring!Init, R!HostOwned, IsWholeList
<1>3. ChainsAreInUse
  BY <1>2, InUseIs DEF InUse, IsWholeList
<1>4. /\ word \in [0..numblocks -> 0..EndMark] /\ AcxMemPtr \in [R!Slots -> 0..numblocks]
      /\ acx_txbuf_free \in 0..numblocks /\ acx_txbuf_blocks_free \in 0..numblocks
      /\ txattempts \in 0..MaxAttempts
  BY <1>2, MemTxAssumption DEF WholeList, EndMark, IsWholeList
<1> QED
  BY <1>1, <1>2, <1>3, <1>4, WholeListAccounts DEF MemIInv, NoBummer

THEOREM MemInvariance == SpecEither => []MemIInv
<1>1. InitEither => MemIInv
  BY MemInit DEF InitEither
<1>2. MemIInv /\ [NextEither]_all => MemIInv'
  BY MemStep DEF NextEither, all
<1> QED
  BY <1>1, <1>2, PTL DEF SpecEither

\* As many free blocks as the count says.
LEMMA FreeBlocksCount ==
  ASSUME NEW n \in [Holders -> Nat], NEW q, Accounted(n, q)
  PROVE  /\ FreeBlocks = {q[FreeList][i] : i \in 0 .. n[FreeList] - 1}
         /\ Cardinality(FreeBlocks) = acx_txbuf_blocks_free
<1> DEFINE C == n[FreeList]
           I == 0 .. C - 1
           g == [i \in I |-> q[FreeList][i]]
<1>1. /\ C = acx_txbuf_blocks_free /\ C \in Nat
      /\ \A i \in I : From(acx_txbuf_free)[i] = q[FreeList][i]
  BY FreeListIs, HoldersAre
<1>2. FreeBlocks = {q[FreeList][i] : i \in I}
  BY <1>1 DEF FreeBlocks
<1>3. \A i, j \in I : q[FreeList][i] = q[FreeList][j] => i = j
  BY HoldersAre DEF Accounted
<1>4. g \in Bijection(I, FreeBlocks)
  BY <1>2, <1>3 DEF Bijection, Injection, Surjection, IsInjective
<1>5. IsFiniteSet(I) /\ Cardinality(I) = C
  <2>1. 0 \in Int /\ C - 1 \in Int /\ (0 > C - 1 <=> C = 0)
    BY <1>1
  <2> HIDE DEF C
  <2>2. IsFiniteSet(0 .. C - 1) /\ Cardinality(0 .. C - 1) = IF 0 > C - 1 THEN 0 ELSE C - 1 - 0 + 1
    BY <2>1, FS_Interval, Zenon
  <2> QED
    BY <1>1, <2>1, <2>2
<1>6. Cardinality(I) = Cardinality(FreeBlocks)
  <2>1. ExistsBijection(I, FreeBlocks)
    BY <1>4, Zenon DEF ExistsBijection
  <2> HIDE DEF I, g
  <2> QED
    BY <1>5, <2>1, FS_Bijection, Zenon
<1> QED
  BY <1>1, <1>2, <1>5, <1>6

\* On the memory-mapped adapters no block of the adapter's memory is lost or in two places,
\* whatever frames are sent, in whatever order they are finished, and however often the
\* queue is flushed: the free list is as long as its count says and ends there, and every
\* block is on it or in the chain of one descriptor in use.
THEOREM MemBlocksConserved == SpecEither => []BlocksConserved
<1>1. MemIInv => BlocksConserved
  <2> SUFFICES ASSUME MemIInv PROVE BlocksConserved
    OBVIOUS
  <2>1. TypeOK /\ ChainsAreInUse /\ NoBummer
    BY SameInvariants, SameNames DEF MemIInv, TypeOK, R!IInv
  <2>2. PICK n \in [Holders -> Nat] : \E q : Accounted(n, q)
    BY DEF MemIInv
  <2>3. PICK q : Accounted(n, q)
    BY <2>2
  <2>4. /\ FreeBlocks = {q[FreeList][i] : i \in 0 .. n[FreeList] - 1}
        /\ Cardinality(FreeBlocks) = acx_txbuf_blocks_free
        /\ From(acx_txbuf_free)[acx_txbuf_blocks_free] = 0
    BY <2>3, FreeBlocksCount, FreeListIs
  <2>5. \A s \in R!Slots : Chain(s) = {q[s][i] : i \in 0 .. n[s] - 1}
    <3> TAKE s \in R!Slots
    <3>1. CASE AcxMemPtr[s] = 0
      <4>1. n[s] = 0
        BY <2>3, <3>1, FirstTells, HoldersAre DEF Accounted, First
      <4> QED
        BY <3>1, <4>1 DEF Chain
    <3>2. CASE AcxMemPtr[s] # 0
      BY <2>3, <3>2, ChainIs DEF Chain
    <3> QED
      BY <3>1, <3>2
  <2>6. /\ \A b \in Blocks : \E h \in Holders : \E i \in 0 .. n[h] - 1 : q[h][i] = b
        /\ \A g, h \in Holders : \A i \in 0 .. n[g] - 1, j \in 0 .. n[h] - 1 :
             q[g][i] = q[h][j] => g = h
    BY <2>3 DEF Accounted
  <2>7. ASSUME NEW b \in Blocks
        PROVE  Cardinality({s \in Ring!Slots : b \in Chain(s)}) = IF b \in FreeBlocks THEN 0 ELSE 1
    <3> DEFINE T == {s \in Ring!Slots : b \in Chain(s)}
    <3>1. PICK h \in Holders : \E i \in 0 .. n[h] - 1 : q[h][i] = b
      BY <2>6
    <3>2. \A g \in Holders : (\E i \in 0 .. n[g] - 1 : q[g][i] = b) => g = h
      BY <2>6, <3>1
    <3>3. \A s \in R!Slots : s \in T <=> s = h
      BY <2>5, <3>1, <3>2, HoldersAre, SameNames
    <3>4. b \in FreeBlocks <=> h = FreeList
      BY <2>4, <3>1, <3>2, HoldersAre
    <3>5. CASE h = FreeList
      <4>1. T = {}
        BY <3>3, <3>5, HoldersAre, SameNames
      <4> QED
        BY <3>4, <3>5, <4>1, FS_EmptySet
    <3>6. CASE h # FreeList
      <4>1. T = {h}
        BY <3>3, <3>6, HoldersAre, SameNames
      <4> QED
        BY <3>4, <3>6, <4>1, FS_Singleton
    <3> QED
      BY <3>5, <3>6
  <2> QED
    BY <2>1, <2>4, <2>7 DEF BlocksConserved
<1> QED
  BY <1>1, MemInvariance, PTL
================================================================================
