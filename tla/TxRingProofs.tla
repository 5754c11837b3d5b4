----------------------------- MODULE TxRingProofs -----------------------------
(***************************************************************************)
(* Proofs about TxRing, for every ring size and every set of frames and    *)
(* error codes: the type invariant, the agreement of head, tail and free,  *)
(* and what follows from it; that only the adapter gives a descriptor of   *)
(* its own back; and that the ring implements the queue of TxFifo.         *)
(***************************************************************************)
EXTENDS TxRing, SequenceTheorems, TLAPS

(***************************************************************************)
(* Arithmetic of positions on the ring.                                    *)
(***************************************************************************)

\* A position counted from a descriptor is a descriptor.
LEMMA PosType ==
  ASSUME NEW b \in Slots, NEW i \in Slots
  PROVE  Pos(b, i) \in Slots
BY TxRingAssumption DEF Pos, Slots

\* Different distances from a descriptor are different descriptors.
LEMMA PosInjective ==
  ASSUME NEW b \in Slots, NEW i \in Slots, NEW j \in Slots, Pos(b, i) = Pos(b, j)
  PROVE  i = j
BY TxRingAssumption DEF Pos, Slots

\* Every descriptor is at some distance from any given one.
LEMMA PosOnto ==
  ASSUME NEW b \in Slots, NEW s \in Slots
  PROVE  \E i \in Slots : Pos(b, i) = s
<1>1. CASE s >= b
  <2>1. s - b \in Slots /\ Pos(b, s - b) = s
    BY <1>1, TxRingAssumption DEF Pos, Slots
  <2> QED BY <2>1
<1>2. CASE s < b
  <2>1. s - b + TX_CNT \in Slots /\ Pos(b, s - b + TX_CNT) = s
    BY <1>2, TxRingAssumption DEF Pos, Slots
  <2> QED BY <2>1
<1> QED BY <1>1, <1>2, TxRingAssumption DEF Slots

\* The next descriptor is again a descriptor.
LEMMA SuccType ==
  ASSUME NEW b \in Slots
  PROVE  Succ(b) \in Slots
BY TxRingAssumption DEF Succ, Slots

\* One step further along the ring, seen from either end of the distance.
LEMMA PosSucc ==
  ASSUME NEW b \in Slots, NEW i \in Slots
  PROVE  /\ i + 1 # TX_CNT => Succ(Pos(b, i)) = Pos(b, i + 1)
         /\ i + 1 = TX_CNT => Succ(Pos(b, i)) = b
         /\ i + 1 # TX_CNT => Pos(Succ(b), i) = Pos(b, i + 1)
         /\ i + 1 = TX_CNT => Pos(Succ(b), i) = b
         /\ Pos(b, 0) = b
BY TxRingAssumption DEF Succ, Pos, Slots

(***************************************************************************)
(* The invariant holds initially and every action keeps it.                *)
(***************************************************************************)

\* A freshly created ring is empty and its counters agree.
LEMMA InitIInv == Init => IInv
<1> SUFFICES ASSUME Init PROVE IInv
  OBVIOUS
<1>1. TypeOK
  BY TxRingAssumption DEF Init, TypeOK, Slots, OwnBits, HostOwned, Ops
<1>2. Oldest = 0 /\ Used = 0
  BY TxRingAssumption DEF Init, Oldest, Used
<1>3. CountersAgree
  BY <1>2, TxRingAssumption DEF Init, CountersAgree, At, Pos
<1>4. \A i \in Slots : At(i) \in Slots
  BY <1>2, TxRingAssumption DEF At, Pos, Slots
<1>5. FreeMeansHostOwned
  BY <1>2, <1>4, TxRingAssumption DEF Init, FreeMeansHostOwned, Slots
<1>6. OwnerKnown /\ TxdescIsYoungest /\ StatusIsOfTheFrame
  BY DEF Init, OwnerKnown, TxdescIsYoungest, StatusIsOfTheFrame, HostOwned, AcxDoneHostOwn
<1> QED BY <1>1, <1>3, <1>5, <1>6 DEF IInv

\* The oldest descriptor, the number in use and the descriptor at head.
LEMMA Bounds ==
  ASSUME IInv
  PROVE  /\ Oldest \in Slots /\ Used \in 0..TX_CNT
         /\ free = TX_CNT - Used
         /\ Used # TX_CNT => Used \in Slots /\ head = At(Used)
         /\ Used = TX_CNT => head = Oldest
         /\ \A i \in Slots : At(i) \in Slots
<1>1. Oldest \in Slots /\ Used \in 0..TX_CNT /\ free = TX_CNT - Used
  BY TxRingAssumption DEF IInv, TypeOK, Oldest, Used, Slots
<1>2. Used # TX_CNT => Used \in Slots
  BY <1>1, TxRingAssumption DEF Slots
<1> QED BY <1>1, <1>2, PosType DEF IInv, CountersAgree, At

LEMMA AllocTxIInv ==
  ASSUME IInv, NEW f \in Frames, AllocTx(f)
  PROVE  IInv'
<1>1. TypeOK'
  BY SuccType, TxRingAssumption
  DEF IInv, TypeOK, AllocTx, Slots, OwnBits, AcxDoneHostOwn, Ops
<1>2. /\ Oldest' = Oldest /\ Used' = Used + 1
      /\ Used \in Slots /\ head = At(Used)
      /\ \A i : At(i)' = At(i)
  BY Bounds, TxRingAssumption DEF AllocTx, Oldest, Used, At, Slots
<1>3. CountersAgree'
  BY <1>2, Bounds, PosSucc, TxRingAssumption DEF CountersAgree, AllocTx, At, Slots
<1>4. FreeMeansHostOwned'
  <2> SUFFICES ASSUME NEW i \in Slots
               PROVE (Ctl_8'[At(i)] = HostOwned) <=> (i >= Used + 1)
    BY <1>2 DEF FreeMeansHostOwned, Slots
  <2>1. At(i) \in Slots /\ (At(i) = head <=> i = Used)
    BY <1>2, Bounds, PosInjective DEF At
  <2>2. (Ctl_8[At(i)] = HostOwned) <=> (i >= Used)
    BY DEF IInv, FreeMeansHostOwned, Slots
  <2>3. Ctl_8'[At(i)] = IF At(i) = head THEN AcxDoneHostOwn ELSE Ctl_8[At(i)]
    BY <2>1 DEF AllocTx, IInv, TypeOK
  <2>4. AcxDoneHostOwn # HostOwned
    BY DEF AcxDoneHostOwn, HostOwned
  <2> QED BY <1>2, <2>1, <2>2, <2>3, <2>4, Bounds, TxRingAssumption DEF Slots
<1>5. OwnerKnown'
  BY DEF IInv, OwnerKnown, AllocTx, TypeOK
<1>6. TxdescIsYoungest'
  BY <1>2, Bounds, TxRingAssumption
  DEF TxdescIsYoungest, AllocTx, IInv, TypeOK, Slots
<1>7. StatusIsOfTheFrame'
  BY DEF IInv, StatusIsOfTheFrame, AllocTx, TypeOK, Claimed, HostOwned, AcxDoneHostOwn
<1> QED BY <1>1, <1>3, <1>4, <1>5, <1>6, <1>7 DEF IInv

LEMMA TxDataReleaseIInv ==
  ASSUME IInv, TxDataRelease
  PROVE  IInv'
<1>1. TypeOK'
  BY DEF IInv, TypeOK, TxDataRelease, ringVars, Ops
<1>2. /\ Oldest' = Oldest /\ Used' = Used /\ Used # 0
      /\ txdesc = At(Used - 1) /\ Ctl_8[txdesc] = AcxDoneHostOwn
      /\ \A i : At(i)' = At(i)
  BY DEF IInv, TxdescIsYoungest, TxDataRelease, ringVars, Oldest, Used, At
<1>3. CountersAgree'
  BY <1>2 DEF IInv, CountersAgree, TxDataRelease, ringVars
<1>4. Ctl_8' = [Ctl_8 EXCEPT ![txdesc] = AcxOwned]
  BY <1>2 DEF TxDataRelease, AcxOwned, IInv, TypeOK
<1>5. HostOwned # AcxOwned /\ HostOwned # AcxDoneHostOwn /\ AcxOwned # AcxDoneHostOwn
  BY DEF HostOwned, AcxOwned, AcxDoneHostOwn
<1>6. FreeMeansHostOwned'
  BY <1>2, <1>4, <1>5, Bounds DEF IInv, FreeMeansHostOwned, TypeOK, Slots
<1>7. OwnerKnown'
  BY <1>4 DEF IInv, OwnerKnown, TypeOK
<1>8. TxdescIsYoungest'
  BY <1>2 DEF IInv, TxdescIsYoungest, TxDataRelease
<1>9. StatusIsOfTheFrame'
  BY <1>4, <1>5 DEF IInv, StatusIsOfTheFrame, TypeOK, Claimed, TxDataRelease
<1> QED BY <1>1, <1>3, <1>6, <1>7, <1>8, <1>9 DEF IInv

LEMMA TxDataStoreSkbIInv ==
  ASSUME IInv, TxDataStoreSkb
  PROVE  IInv'
<1>1. TypeOK'
  BY DEF IInv, TypeOK, TxDataStoreSkb, hwVars, ringVars, Ops
<1>2. Oldest' = Oldest /\ Used' = Used /\ \A i : At(i)' = At(i)
  BY DEF TxDataStoreSkb, Oldest, Used, At, ringVars
<1>3. CountersAgree' /\ FreeMeansHostOwned' /\ OwnerKnown'
  BY <1>2 DEF IInv, CountersAgree, FreeMeansHostOwned, OwnerKnown, TxDataStoreSkb,
              hwVars, ringVars
<1>4. TxdescIsYoungest' /\ StatusIsOfTheFrame'
  BY DEF IInv, TxdescIsYoungest, StatusIsOfTheFrame, TxDataStoreSkb, Claimed, hwVars
<1> QED BY <1>1, <1>3, <1>4 DEF IInv

LEMMA AcxCompleteIInv ==
  ASSUME IInv, NEW s \in Slots, AcxComplete(s)
  PROVE  IInv'
<1>1. TypeOK'
  <2>1. Ctl_8' \in [Slots -> SUBSET OwnBits]
    BY DEF IInv, TypeOK, AcxComplete, AcxDoneHostOwn, OwnBits
  <2>2. error' \in [Slots -> TxErrors \cup {0}]
    BY DEF IInv, TypeOK, AcxComplete
  <2>3. air' \in [Slots -> {"pending", "acked", "failed"}]
    BY DEF IInv, TypeOK, AcxComplete
  <2> QED BY <2>1, <2>2, <2>3 DEF IInv, TypeOK, AcxComplete, ringVars, opVars
<1>2. Oldest' = Oldest /\ Used' = Used /\ \A i : At(i)' = At(i)
  BY DEF AcxComplete, Oldest, Used, At, ringVars, opVars
<1>3. CountersAgree'
  BY <1>2 DEF IInv, CountersAgree, AcxComplete, ringVars
<1>4. HostOwned # AcxOwned /\ HostOwned # AcxDoneHostOwn /\ AcxOwned # AcxDoneHostOwn
  BY DEF HostOwned, AcxOwned, AcxDoneHostOwn
<1>5. FreeMeansHostOwned'
  <2> SUFFICES ASSUME NEW i \in Slots
               PROVE (Ctl_8'[At(i)] = HostOwned) <=> (Ctl_8[At(i)] = HostOwned)
    BY <1>2 DEF IInv, FreeMeansHostOwned, Slots
  <2> QED BY <1>4, Bounds DEF AcxComplete, IInv, TypeOK
<1>6. OwnerKnown'
  BY DEF IInv, OwnerKnown, AcxComplete, TypeOK
<1>7. op' = op /\ txdesc' = txdesc /\ frame' = frame /\ ~Claimed(s)
  BY <1>4 DEF AcxComplete, opVars, IInv, TxdescIsYoungest, Claimed
<1>8. TxdescIsYoungest'
  BY <1>2, <1>7 DEF IInv, TxdescIsYoungest, AcxComplete, TypeOK, Claimed
<1>9. StatusIsOfTheFrame'
  <2> SUFFICES ASSUME NEW t \in Slots
               PROVE IF Ctl_8'[t] = AcxDoneHostOwn /\ ~Claimed(t)
                     THEN /\ air'[t] # "pending"
                          /\ air'[t] = "failed" <=> error'[t] \in NoAckErrors
                     ELSE error'[t] = 0
    BY <1>7 DEF StatusIsOfTheFrame, Claimed
  <2>1. CASE t = s
    <3>1. error[s] = 0
      BY <1>4 DEF IInv, StatusIsOfTheFrame, AcxComplete
    <3>2. 0 \notin NoAckErrors
      BY TxRingAssumption
    <3>3. Ctl_8'[s] = AcxDoneHostOwn
      BY DEF AcxComplete, IInv, TypeOK
    <3>4. /\ air'[s] # "pending"
          /\ air'[s] = "failed" <=> error'[s] \in NoAckErrors
      BY <3>1, <3>2 DEF AcxComplete, IInv, TypeOK
    <3> QED BY <2>1, <3>3, <3>4, <1>7
  <2>2. CASE t # s
    BY <2>2 DEF IInv, StatusIsOfTheFrame, AcxComplete, TypeOK, Claimed
  <2> QED BY <2>1, <2>2
<1> QED BY <1>1, <1>3, <1>5, <1>6, <1>8, <1>9 DEF IInv

LEMMA CleanStartIInv ==
  ASSUME IInv, CleanStart
  PROVE  IInv'
<1>1. TypeOK'
  BY DEF IInv, TypeOK, CleanStart, hwVars, ringVars, Ops
<1>2. Oldest' = Oldest /\ Used' = Used /\ \A i : At(i)' = At(i)
  BY DEF CleanStart, Oldest, Used, At, ringVars
<1>3. CountersAgree' /\ FreeMeansHostOwned' /\ OwnerKnown'
  BY <1>2 DEF IInv, CountersAgree, FreeMeansHostOwned, OwnerKnown, CleanStart,
              hwVars, ringVars
<1>4. TxdescIsYoungest' /\ StatusIsOfTheFrame'
  BY DEF IInv, TxdescIsYoungest, StatusIsOfTheFrame, CleanStart, Claimed, hwVars
<1> QED BY <1>1, <1>3, <1>4 DEF IInv

LEMMA CleanEndIInv ==
  ASSUME IInv, CleanEnd
  PROVE  IInv'
<1>1. TypeOK'
  BY DEF IInv, TypeOK, CleanEnd, hwVars, Ops
<1>2. Oldest' = Oldest /\ Used' = Used /\ \A i : At(i)' = At(i)
  BY DEF CleanEnd, Oldest, Used, At
<1>3. CountersAgree' /\ FreeMeansHostOwned' /\ OwnerKnown'
  BY <1>2 DEF IInv, CountersAgree, FreeMeansHostOwned, OwnerKnown, CleanEnd, hwVars
<1>4. TxdescIsYoungest' /\ StatusIsOfTheFrame'
  BY DEF IInv, TxdescIsYoungest, StatusIsOfTheFrame, CleanEnd, Claimed, hwVars
<1> QED BY <1>1, <1>3, <1>4 DEF IInv

\* Freeing the oldest descriptor moves every distance down by one; the freed
\* descriptor becomes the last one of the free ones.
LEMMA CleanDescIInv ==
  ASSUME IInv, CleanDesc
  PROVE  IInv'
<1>1. Oldest = finger /\ finger \in Slots
  BY DEF CleanDesc, Finished, CleanedCtl, CleanedError, FreeAfterClean, Oldest, IInv, TypeOK
<1>2. Oldest' = Succ(Oldest)
  BY <1>1 DEF CleanDesc, Finished, CleanedCtl, CleanedError, FreeAfterClean, Oldest
<1>3. Used # 0
  BY <1>1, Bounds, PosSucc, TxRingAssumption
    DEF CleanDesc, Finished, CleanedCtl, CleanedError, FreeAfterClean, At, Slots
<1>4. Used' = Used - 1 /\ free + 1 \in 0..TX_CNT
  BY <1>3, Bounds, TxRingAssumption
    DEF CleanDesc, Finished, CleanedCtl, CleanedError, FreeAfterClean, Used
<1>5. TypeOK'
  <2>1. Ctl_8' \in [Slots -> SUBSET OwnBits]
    BY DEF IInv, TypeOK, CleanDesc, Finished, CleanedCtl, CleanedError, FreeAfterClean,
        HostOwned, OwnBits
  <2>2. error' \in [Slots -> TxErrors \cup {0}]
    BY DEF IInv, TypeOK, CleanDesc, Finished, CleanedCtl, CleanedError, FreeAfterClean
  <2>3. reported' \in [skb : Frames \cup {"none"}, acked : BOOLEAN]
    BY <1>1 DEF IInv, TypeOK, CleanDesc, Finished, CleanedCtl, CleanedError, FreeAfterClean
  <2>4. finger' \in Slots
    BY <1>1, SuccType DEF CleanDesc, Finished, CleanedCtl, CleanedError, FreeAfterClean
  <2> QED BY <1>4, <2>1, <2>2, <2>3, <2>4
    DEF IInv, TypeOK, CleanDesc, Finished, CleanedCtl, CleanedError, FreeAfterClean
<1>6. /\ \A i \in Slots : i + 1 # TX_CNT => At(i)' = At(i + 1)
      /\ At(TX_CNT - 1)' = Oldest
  BY <1>1, <1>2, PosSucc, TxRingAssumption DEF At, Slots
<1>7. CountersAgree'
  <2>1. head' = head /\ Used' # TX_CNT /\ Used - 1 \in Slots
    BY <1>3, <1>4, Bounds, TxRingAssumption
      DEF CleanDesc, Finished, CleanedCtl, CleanedError, FreeAfterClean, Slots
  <2>2. CASE Used = TX_CNT
    BY <1>4, <1>6, <2>1, <2>2, Bounds DEF CountersAgree, At
  <2>3. CASE Used # TX_CNT
    <3>1. (Used - 1) + 1 # TX_CNT /\ (Used - 1) + 1 = Used
      BY <2>3, Bounds, TxRingAssumption
    <3>2. Pos(Oldest', Used - 1) = At(Used)
      BY <1>6, <2>1, <3>1 DEF At
    <3> QED BY <1>4, <2>1, <2>3, <3>2, Bounds DEF CountersAgree, At
  <2> QED BY <2>2, <2>3
<1>8. FreeMeansHostOwned'
  <2> SUFFICES ASSUME NEW i \in Slots
               PROVE (Ctl_8'[At(i)'] = HostOwned) <=> (i >= Used - 1)
    BY <1>4 DEF FreeMeansHostOwned, Slots
  <2>1. CASE i + 1 = TX_CNT
    <3>1. Ctl_8'[Oldest] = HostOwned
      BY <1>1 DEF CleanDesc, Finished, CleanedCtl, CleanedError, FreeAfterClean, IInv, TypeOK
    <3>2. At(i)' = Oldest
      BY <1>6, <2>1, TxRingAssumption DEF Slots
    <3> QED BY <2>1, <3>1, <3>2, Bounds, TxRingAssumption DEF Slots
  <2>2. CASE i + 1 # TX_CNT
    <3>1. At(i)' = At(i + 1) /\ i + 1 \in Slots
      BY <1>6, <2>2, TxRingAssumption DEF Slots
    <3>2. At(i + 1) # Oldest
      <4>1. Oldest = At(0) /\ 0 \in Slots
        BY <1>1, PosSucc, TxRingAssumption DEF At, Slots
      <4> QED BY <1>1, <3>1, <4>1, PosInjective, TxRingAssumption DEF At, Slots
    <3>3. Ctl_8'[At(i + 1)] = Ctl_8[At(i + 1)]
      BY <1>1, <3>1, <3>2, Bounds
        DEF CleanDesc, Finished, CleanedCtl, CleanedError, FreeAfterClean, IInv, TypeOK
    <3>4. (Ctl_8[At(i + 1)] = HostOwned) <=> (i + 1 >= Used)
      BY <3>1 DEF IInv, FreeMeansHostOwned, Slots
    <3> QED BY <3>1, <3>3, <3>4, Bounds, TxRingAssumption DEF Slots
  <2> QED BY <2>1, <2>2
<1>9. OwnerKnown'
  BY DEF IInv, OwnerKnown, CleanDesc, Finished, CleanedCtl, CleanedError, FreeAfterClean, TypeOK
<1>10. TxdescIsYoungest'
  BY DEF TxdescIsYoungest, CleanDesc, Finished, CleanedCtl, CleanedError, FreeAfterClean
<1>11. StatusIsOfTheFrame'
  BY <1>1 DEF IInv, StatusIsOfTheFrame, CleanDesc, Finished, CleanedCtl, CleanedError,
      FreeAfterClean, TypeOK, Claimed, HostOwned, AcxDoneHostOwn
<1> QED BY <1>5, <1>7, <1>8, <1>9, <1>10, <1>11 DEF IInv

LEMMA ResetIInv ==
  ASSUME IInv, Reset
  PROVE  IInv'
<1>1. TypeOK'
  BY TxRingAssumption
  DEF IInv, TypeOK, Reset, CreateTxDescQueue, Slots, OwnBits, HostOwned, opVars
<1>2. Oldest' = 0 /\ Used' = 0
  BY TxRingAssumption DEF Reset, CreateTxDescQueue, Oldest, Used, opVars
<1>3. CountersAgree'
  BY <1>2, TxRingAssumption DEF Reset, CreateTxDescQueue, CountersAgree, At, Pos
<1>4. \A i \in Slots : At(i)' \in Slots
  BY <1>2, TxRingAssumption DEF At, Pos, Slots
<1>5. FreeMeansHostOwned'
  BY <1>2, <1>4, TxRingAssumption DEF Reset, CreateTxDescQueue, FreeMeansHostOwned, Slots
<1>6. OwnerKnown' /\ TxdescIsYoungest' /\ StatusIsOfTheFrame'
  BY DEF Reset, CreateTxDescQueue, OwnerKnown, TxdescIsYoungest, StatusIsOfTheFrame,
         HostOwned, AcxDoneHostOwn, opVars
<1> QED BY <1>1, <1>3, <1>5, <1>6 DEF IInv

LEMMA StutterIInv ==
  ASSUME IInv, UNCHANGED vars
  PROVE  IInv'
<1> USE DEF vars, hwVars, ringVars, opVars
<1>1. TypeOK'
  BY DEF IInv, TypeOK
<1>2. CountersAgree' /\ FreeMeansHostOwned'
  BY DEF IInv, CountersAgree, FreeMeansHostOwned, At, Oldest, Used
<1>3. OwnerKnown' /\ TxdescIsYoungest' /\ StatusIsOfTheFrame'
  BY DEF IInv, OwnerKnown, TxdescIsYoungest, StatusIsOfTheFrame, Claimed, At, Oldest, Used
<1> QED BY <1>1, <1>2, <1>3 DEF IInv

\* IInv is inductive.
LEMMA NextIInv == IInv /\ [Next]_vars => IInv'
<1> SUFFICES ASSUME IInv, [Next]_vars PROVE IInv'
  OBVIOUS
<1>1. CASE \E f \in Frames : AllocTx(f)
  BY <1>1, AllocTxIInv
<1>2. CASE TxDataRelease
  BY <1>2, TxDataReleaseIInv
<1>3. CASE TxDataStoreSkb
  BY <1>3, TxDataStoreSkbIInv
<1>4. CASE \E s \in Slots : AcxComplete(s)
  BY <1>4, AcxCompleteIInv
<1>5. CASE CleanStart
  BY <1>5, CleanStartIInv
<1>6. CASE CleanDesc
  BY <1>6, CleanDescIInv
<1>7. CASE CleanEnd
  BY <1>7, CleanEndIInv
<1>8. CASE Reset
  BY <1>8, ResetIInv
<1>9. CASE UNCHANGED vars
  BY <1>9, StutterIInv
<1> QED BY <1>1, <1>2, <1>3, <1>4, <1>5, <1>6, <1>7, <1>8, <1>9 DEF Next

(***************************************************************************)
(* The theorems.                                                           *)
(***************************************************************************)

\* The inductive invariant holds of every behaviour of the ring.
THEOREM Invariance == Spec => []IInv
<1>1. Init => IInv
  BY InitIInv
<1>2. IInv /\ [Next]_vars => IInv'
  BY NextIInv
<1> QED BY <1>1, <1>2, PTL DEF Spec

\* Every variable of the ring keeps its type; in particular the free count
\* never leaves 0..TX_CNT and the ring indices stay inside the ring.
THEOREM TypeCorrect == Spec => []TypeOK
<1>1. IInv => TypeOK
  BY DEF IInv
<1> QED BY <1>1, Invariance, PTL

\* head, tail and free always agree, whatever the size of the ring.
THEOREM CountersAlwaysAgree == Spec => []CountersAgree
<1>1. IInv => CountersAgree
  BY DEF IInv
<1> QED BY <1>1, Invariance, PTL

\* The free count always tells which descriptors the host may fill.
THEOREM FreeCountIsRight == Spec => []FreeMeansHostOwned
<1>1. IInv => FreeMeansHostOwned
  BY DEF IInv
<1> QED BY <1>1, Invariance, PTL

\* acxpci_alloc_tx fails only on a full ring: its second "BUG" branch is dead.
THEOREM AllocFailsOnlyOnFullRing == Spec => []AllocFailsOnlyWhenFull
<1>1. IInv => AllocFailsOnlyWhenFull
  <2> SUFFICES ASSUME IInv, op = "none", free # 0 PROVE Ctl_8[head] = HostOwned
    BY DEF AllocFailsOnlyWhenFull, AllocBusy
  <2>1. Used \in Slots /\ head = At(Used)
    BY Bounds, TxRingAssumption
  <2> QED BY <2>1, Bounds, TxRingAssumption DEF IInv, FreeMeansHostOwned, Slots
<1> QED BY <1>1, Invariance, PTL
-------------------------------------------------------------------------------
(* What implements the queue. *)

\* A descriptor changes hands only as the hardware protocol allows.
THEOREM OwnershipAlwaysRespected == Spec => OwnershipRespected
<1>1. IInv /\ [Next]_vars => [Reset \/ HandOver]_vars
  <2> SUFFICES ASSUME IInv, Next, ~Reset, NEW s \in Slots
               PROVE  HandOver!(s)
    BY DEF HandOver
  <2>0. HostOwned # AcxOwned /\ HostOwned # AcxDoneHostOwn /\ AcxOwned # AcxDoneHostOwn
    BY DEF HostOwned, AcxOwned, AcxDoneHostOwn
  <2>1. CASE \E f \in Frames : AllocTx(f)
    BY <2>0, <2>1 DEF AllocTx, IInv, TypeOK
  <2>2. CASE TxDataRelease
    BY <2>0, <2>2 DEF TxDataRelease, IInv, TypeOK, TxdescIsYoungest, AcxOwned
  <2>3. CASE TxDataStoreSkb
    BY <2>0, <2>3 DEF TxDataStoreSkb, hwVars
  <2>4. CASE \E t \in Slots : AcxComplete(t)
    BY <2>0, <2>4 DEF AcxComplete, IInv, TypeOK, opVars
  <2>5. CASE CleanStart
    BY <2>0, <2>5 DEF CleanStart, hwVars
  <2>6. CASE CleanDesc
    BY <2>0, <2>6 DEF CleanDesc, Finished, CleanedCtl, CleanedError, FreeAfterClean, IInv, TypeOK
  <2>7. CASE CleanEnd
    BY <2>0, <2>7 DEF CleanEnd, hwVars
  <2> QED BY <2>1, <2>2, <2>3, <2>4, <2>5, <2>6, <2>7 DEF Next
<1> QED BY <1>1, Invariance, PTL DEF Spec, OwnershipRespected

-------------------------------------------------------------------------------
Outcomes == {"pending", "acked", "failed"}
Entries == [skb : Frames \cup {"none"}, outcome : Outcomes]

InFlightOK ==
  /\ Submitted \in 0..TX_CNT
  /\ InFlight \in Seq(Entries)
  /\ Len(InFlight) = Submitted
  /\ \A i \in 1..Submitted : InFlight[i] = Entry(At(i - 1))

\* The refinement mapping yields a sequence with one entry per submitted frame.
LEMMA InFlightIsSeq == IInv => InFlightOK
<1> SUFFICES ASSUME IInv PROVE InFlightOK
  OBVIOUS
<1>1. Submitted \in 0..TX_CNT
  BY Bounds, TxRingAssumption DEF IInv, TxdescIsYoungest, Submitted
<1>2. \A i \in 1..Submitted : i - 1 \in Slots
  BY <1>1, TxRingAssumption DEF Slots
<1>3. \A s \in Slots : Entry(s) \in Entries
  BY DEF IInv, TypeOK, Entry, Entries, Outcomes
<1>4. \A i \in 1..Submitted : Entry(At(i - 1)) \in Entries
  BY <1>2, <1>3, Bounds
<1>5. InFlight \in [1..Submitted -> Entries]
  BY <1>4 DEF InFlight
<1>6. InFlight \in Seq(Entries)
  BY <1>1, <1>5, SeqDef
<1>7. Len(InFlight) = Submitted
  BY <1>1, <1>5, <1>6, LenProperties
<1> QED BY <1>1, <1>6, <1>7 DEF InFlight, InFlightOK

\* The same of the next state.
LEMMA InFlightIsSeqNext == IInv' => InFlightOK'
BY InFlightIsSeq, PTL

LEMMA SubmittedSlots ==
  ASSUME IInv
  PROVE  \A i \in 1..Submitted : i - 1 \in Slots /\ At(i - 1) \in Slots
<1>1. Submitted \in 0..TX_CNT
  BY InFlightIsSeq DEF InFlightOK
<1> QED BY <1>1, Bounds, TxRingAssumption DEF Slots

\* A step that keeps the number of submitted frames and their entries.
LEMMA SameEntries ==
  ASSUME IInv, IInv', Submitted' = Submitted,
         \A i \in 1..Submitted : Entry(At(i - 1))' = Entry(At(i - 1))
  PROVE  InFlight' = InFlight
BY DEF InFlight

\* Claiming a descriptor shows nothing to the outside.
LEMMA AllocTxMaps ==
  ASSUME IInv, IInv', NEW f \in Frames, AllocTx(f)
  PROVE  InFlight' = InFlight /\ reported' = reported
<1>1. Oldest' = Oldest /\ Used' = Used + 1 /\ Submitted' = Submitted /\ Submitted = Used
  BY Bounds, TxRingAssumption DEF AllocTx, Oldest, Used, Submitted, Slots
<1>2. ASSUME NEW i \in 1..Submitted PROVE Entry(At(i - 1))' = Entry(At(i - 1))
  <2>1. i - 1 \in Slots /\ At(i - 1) \in Slots /\ At(i - 1)' = At(i - 1)
    BY <1>1, Bounds, TxRingAssumption DEF Slots, At
  <2>2. At(i - 1) # head
    BY <1>1, <2>1, Bounds, PosInjective, TxRingAssumption DEF At, AllocTx
  <2> QED BY <2>1, <2>2 DEF Entry, AllocTx, IInv, TypeOK
<1> QED BY <1>1, <1>2, SameEntries DEF AllocTx

\* Releasing it submits the frame.
LEMMA TxDataReleaseMaps ==
  ASSUME IInv, IInv', TxDataRelease
  PROVE  Fifo!Submit(frame)
<1> DEFINE e == [skb |-> frame, outcome |-> "pending"]
<1>1. /\ Oldest' = Oldest /\ Submitted' = Submitted + 1
      /\ Submitted \in Slots /\ txdesc = At(Submitted)
      /\ \A i : At(i)' = At(i)
  BY Bounds, TxRingAssumption
  DEF TxDataRelease, Oldest, Used, At, Submitted, IInv, TxdescIsYoungest, ringVars, Slots
<1>2. Len(InFlight) = Submitted /\ InFlight \in Seq(Entries) /\ e \in Entries
  BY InFlightIsSeq DEF InFlightOK, IInv, TypeOK, TxDataRelease, TxdescIsYoungest, Entries,
      Outcomes
<1>3. /\ Len(Append(InFlight, e)) = Submitted + 1
      /\ Append(InFlight, e) \in Seq(Entries)
      /\ \A i \in 1..Submitted : Append(InFlight, e)[i] = InFlight[i]
      /\ Append(InFlight, e)[Submitted + 1] = e
  BY <1>2, AppendProperties
<1>4. /\ InFlight' \in Seq(Entries) /\ Len(InFlight') = Submitted + 1
      /\ \A i \in 1..Submitted + 1 : InFlight'[i] = Entry(At(i - 1))'
  BY <1>1, InFlightIsSeqNext DEF InFlightOK
<1>5. ASSUME NEW i \in 1..Submitted PROVE Entry(At(i - 1))' = Entry(At(i - 1))
  <2>1. i - 1 \in Slots /\ At(i - 1) \in Slots /\ At(i - 1)' = At(i - 1)
    BY <1>1, Bounds, TxRingAssumption DEF Slots
  <2>2. At(i - 1) # txdesc
    BY <1>1, <2>1, Bounds, PosInjective, TxRingAssumption DEF At, Slots
  <2> QED BY <2>1, <2>2 DEF Entry, TxDataRelease, IInv, TypeOK
<1>6. ASSUME NEW i, i = Submitted + 1 PROVE Entry(At(i - 1))' = e
  <2>1. i - 1 = Submitted /\ At(i - 1)' = At(i - 1)
    BY <1>1, <1>6 DEF Slots
  <2>2. At(i - 1)' = txdesc /\ txdesc \in Slots
    BY <1>1, <2>1 DEF IInv, TypeOK
  <2>3. Ctl_8'[txdesc] = AcxOwned /\ op' = "tx_data" /\ txdesc' = txdesc /\ frame' = frame
    BY <2>2 DEF TxDataRelease, AcxOwned, IInv, TypeOK, TxdescIsYoungest
  <2> QED BY <2>2, <2>3 DEF Entry
<1>7. InFlight' = Append(InFlight, e)
  <2>1. ASSUME NEW i \in 1..Submitted + 1
        PROVE  InFlight'[i] = Append(InFlight, e)[i]
    <3>1. CASE i = Submitted + 1
      BY <1>1, <1>3, <1>4, <1>6, <3>1 DEF Slots
    <3>2. CASE i # Submitted + 1
      <4>1. i \in 1..Submitted
        BY <1>1, <3>2 DEF Slots
      <4> QED BY <4>1, <1>3, <1>4, <1>5, InFlightIsSeq DEF InFlightOK
    <3> QED BY <3>1, <3>2
  <2> QED BY <1>3, <1>4, <2>1, SeqEqual
<1>8. Len(InFlight) < TX_CNT
  BY <1>1, <1>2, TxRingAssumption DEF Slots
<1>9. reported' = reported
  BY DEF TxDataRelease
<1> QED BY <1>7, <1>8, <1>9 DEF Fifo!Submit

LEMMA TxDataStoreSkbMaps ==
  ASSUME IInv, IInv', TxDataStoreSkb
  PROVE  InFlight' = InFlight /\ reported' = reported
<1>1. Submitted' = Submitted /\ \A i : At(i)' = At(i)
  BY DEF TxDataStoreSkb, Submitted, Used, At, Oldest, ringVars
<1>2. ASSUME NEW i \in 1..Submitted PROVE Entry(At(i - 1))' = Entry(At(i - 1))
  <2>1. i - 1 \in Slots /\ At(i - 1) \in Slots
    BY SubmittedSlots
  <2> QED BY <1>1, <2>1 DEF Entry, TxDataStoreSkb, IInv, TypeOK, hwVars
<1> QED BY <1>1, <1>2, SameEntries DEF TxDataStoreSkb

\* What the adapter finishes is one of the submitted frames.
LEMMA AcxCompleteMaps ==
  ASSUME IInv, IInv', NEW s \in Slots, AcxComplete(s)
  PROVE  \E i \in 1..Len(InFlight) : Fifo!Complete(i)
<1>0. HostOwned # AcxOwned /\ HostOwned # AcxDoneHostOwn /\ AcxOwned # AcxDoneHostOwn
  BY DEF HostOwned, AcxOwned, AcxDoneHostOwn
<1>1. /\ Submitted' = Submitted /\ \A i : At(i)' = At(i)
      /\ op' = op /\ txdesc' = txdesc /\ frame' = frame /\ skb' = skb
  BY DEF AcxComplete, Submitted, Used, At, Oldest, ringVars, opVars
<1>2. PICK j \in Slots : At(j) = s
  BY Bounds, PosOnto DEF At
<1>3. j < Submitted
  <2>1. j < Used
    BY <1>0, <1>2, Bounds DEF AcxComplete, IInv, FreeMeansHostOwned, Slots
  <2>2. op = "alloc" => j # Used - 1
    BY <1>0, <1>2 DEF AcxComplete, IInv, TxdescIsYoungest
  <2> QED BY <2>1, <2>2, Bounds, TxRingAssumption DEF Submitted, Slots
<1>4. j + 1 \in 1..Submitted /\ (j + 1) - 1 = j
  BY <1>3, InFlightIsSeq DEF InFlightOK, Slots
<1>5. InFlight[j + 1] = Entry(s) /\ Entry(s).outcome = "pending"
  BY <1>2, <1>4, InFlightIsSeq DEF InFlightOK, Entry, AcxComplete
<1>6. PICK o \in {"acked", "failed"} : air' = [air EXCEPT ![s] = o]
  BY DEF AcxComplete
<1>7. /\ Entry(s)' = [Entry(s) EXCEPT !.outcome = o]
      /\ \A t \in Slots \ {s} : Entry(t)' = Entry(t)
  BY <1>0, <1>1, <1>6 DEF Entry, AcxComplete, IInv, TypeOK
<1>8. ASSUME NEW i \in 1..Submitted
      PROVE  InFlight'[i] = IF i = j + 1 THEN Entry(s)' ELSE InFlight[i]
  <2>1. /\ InFlight'[i] = Entry(At(i - 1))' /\ At(i - 1)' = At(i - 1)
        /\ InFlight[i] = Entry(At(i - 1))
    BY <1>1, InFlightIsSeq, InFlightIsSeqNext DEF InFlightOK
  <2>2. i - 1 \in Slots /\ At(i - 1) \in Slots
    BY SubmittedSlots
  <2>3. i # j + 1 => At(i - 1) # s
    BY <1>2, <2>2, Bounds, PosInjective, TxRingAssumption DEF At, Slots
  <2> QED BY <1>2, <1>4, <1>7, <2>1, <2>2, <2>3
<1>9. InFlight' = [InFlight EXCEPT ![j + 1].outcome = o]
  <2> DEFINE e == [Entry(s) EXCEPT !.outcome = o]
  <2>1. InFlight \in Seq(Entries) /\ Len(InFlight) = Submitted
    BY InFlightIsSeq DEF InFlightOK
  <2>2. InFlight' \in Seq(Entries) /\ Len(InFlight') = Submitted
    BY <1>1, InFlightIsSeqNext DEF InFlightOK
  <2>3. e \in Entries
    BY DEF IInv, TypeOK, Entry, Entries, Outcomes
  <2>4. [InFlight EXCEPT ![j + 1].outcome = o] = [InFlight EXCEPT ![j + 1] = e]
    BY <1>5
  <2>5. InFlight' = [InFlight EXCEPT ![j + 1] = e]
    <3> DEFINE t == [InFlight EXCEPT ![j + 1] = e]
    <3>1. /\ t \in Seq(Entries) /\ Len(t) = Submitted
          /\ \A i \in 1..Submitted : t[i] = IF i = j + 1 THEN e ELSE InFlight[i]
      BY <1>4, <2>1, <2>3, ExceptSeq
    <3>2. \A i \in 1..Submitted : InFlight'[i] = t[i]
      BY <1>7, <1>8, <3>1
    <3> HIDE DEF t
    <3>3. InFlight' = t
      BY <2>2, <3>1, <3>2, SeqEqual
    <3> QED BY <3>3 DEF t
  <2> QED BY <2>4, <2>5
<1> QED BY <1>4, <1>5, <1>9, InFlightIsSeq DEF Fifo!Complete, AcxComplete, InFlightOK

LEMMA CleanStartMaps ==
  ASSUME IInv, IInv', CleanStart
  PROVE  InFlight' = InFlight /\ reported' = reported
<1>1. Submitted' = Submitted /\ \A i : At(i)' = At(i)
  BY DEF CleanStart, Submitted, Used, At, Oldest, ringVars
<1> QED BY <1>1, SameEntries DEF Entry, CleanStart, hwVars

LEMMA CleanEndMaps ==
  ASSUME IInv, IInv', CleanEnd
  PROVE  InFlight' = InFlight /\ reported' = reported
<1>1. Submitted' = Submitted /\ \A i : At(i)' = At(i)
  BY DEF CleanEnd, Submitted, Used, At, Oldest
<1> QED BY <1>1, SameEntries DEF Entry, CleanEnd, hwVars

\* One turn of the clean loop reports the oldest frame, with its own outcome.
LEMMA CleanDescMaps ==
  ASSUME IInv, IInv', CleanDesc
  PROVE  Fifo!Report
<1>0. HostOwned # AcxOwned /\ HostOwned # AcxDoneHostOwn /\ AcxOwned # AcxDoneHostOwn
  BY DEF HostOwned, AcxOwned, AcxDoneHostOwn
<1>1. /\ Oldest = finger /\ Oldest' = Succ(finger) /\ finger \in Slots /\ op = "clean"
      /\ Submitted = Used /\ Submitted' = Used - 1
  BY Bounds, TxRingAssumption
  DEF CleanDesc, Finished, CleanedCtl, CleanedError, FreeAfterClean, Oldest, IInv, TypeOK,
      Submitted, Used
<1>2. At(0) = finger /\ Used # 0
  BY <1>1, Bounds, PosSucc, TxRingAssumption
    DEF CleanDesc, Finished, CleanedCtl, CleanedError, FreeAfterClean, At, Slots
<1>3. /\ InFlight \in Seq(Entries) /\ Len(InFlight) = Used /\ Used \in 1..TX_CNT
      /\ \A i \in 1..Used : InFlight[i] = Entry(At(i - 1))
  BY <1>1, <1>2, InFlightIsSeq DEF InFlightOK
<1>4. InFlight # << >> /\ Head(InFlight) = Entry(finger)
  BY <1>2, <1>3, EmptySeq
<1>5. /\ Tail(InFlight) \in Seq(Entries) /\ Len(Tail(InFlight)) = Used - 1
      /\ \A i \in 1..Used - 1 : Tail(InFlight)[i] = InFlight[i + 1]
  BY <1>3, <1>4, HeadTailProperties
<1>6. /\ InFlight' \in Seq(Entries) /\ Len(InFlight') = Used - 1
      /\ \A i \in 1..Used - 1 : InFlight'[i] = Entry(At(i - 1))'
  BY <1>1, InFlightIsSeqNext DEF InFlightOK
<1>7. ASSUME NEW i \in 1..Used - 1 PROVE InFlight'[i] = InFlight[i + 1]
  <2>1. i \in Slots /\ i - 1 \in Slots /\ i + 1 \in 1..Used /\ (i + 1) - 1 = i
    BY <1>3, TxRingAssumption DEF Slots
  <2>2. PICK u \in Slots : u = At(i)
    BY <2>1, Bounds
  <2>3. At(i - 1)' = u
    BY <1>1, <2>1, <2>2, PosSucc, TxRingAssumption DEF At, Slots
  <2>4. u # finger
    BY <1>1, <1>2, <2>1, <2>2, PosInjective, TxRingAssumption DEF At, Slots
  <2>5. InFlight[i + 1] = Entry(u)
    BY <1>3, <2>1, <2>2
  <2>6. Entry(u)' = Entry(u)
    BY <1>1, <2>4 DEF Entry, CleanDesc, Finished, CleanedCtl, CleanedError, FreeAfterClean,
        IInv, TypeOK
  <2> QED BY <1>6, <2>3, <2>5, <2>6
<1>8. InFlight' = Tail(InFlight)
  BY <1>5, <1>6, <1>7, SeqEqual
<1>9. /\ Entry(finger).outcome = air[finger] /\ Entry(finger).skb = skb[finger]
      /\ air[finger] # "pending"
      /\ (air[finger] = "acked") <=> (error[finger] \notin NoAckErrors)
  BY <1>0, <1>1 DEF Entry, CleanDesc, Finished, CleanedCtl, CleanedError, FreeAfterClean, IInv,
      TypeOK, StatusIsOfTheFrame, Claimed
<1>10. reported' = [skb |-> Entry(finger).skb,
                    acked |-> /\ Entry(finger).outcome = "acked"
                              /\ Entry(finger).skb \notin NoAckFrames]
  BY <1>9 DEF CleanDesc, Finished, CleanedCtl, CleanedError, FreeAfterClean
<1> QED BY <1>4, <1>8, <1>9, <1>10 DEF Fifo!Report

LEMMA ResetMaps ==
  ASSUME IInv, IInv', Reset
  PROVE  Fifo!Reset
<1>1. Submitted' = 0
  BY TxRingAssumption DEF Reset, CreateTxDescQueue, Submitted, Used, opVars
<1>2. InFlight' = << >>
  BY <1>1, InFlightIsSeqNext, EmptySeq DEF InFlightOK
<1> QED BY <1>2 DEF Fifo!Reset, Reset

\* The ring implements the queue: a status for every frame exactly once, in the
\* order of submission, and the right one; only a reset forgets frames.
THEOREM Refinement == Spec => ImplementsFifo
<1>1. Init => Fifo!Init
  <2> SUFFICES ASSUME Init PROVE Fifo!Init
    OBVIOUS
  <2>1. Submitted = 0
    BY TxRingAssumption DEF Init, Submitted, Used
  <2>2. InFlight = << >>
    BY <2>1, InitIInv, InFlightIsSeq, EmptySeq DEF InFlightOK
  <2> QED BY <2>2 DEF Init, Fifo!Init, Fifo!Nothing
<1>2. IInv /\ IInv' /\ [Next]_vars => [Fifo!Next]_(Fifo!fifoVars)
  <2> SUFFICES ASSUME IInv, IInv', [Next]_vars
               PROVE  Fifo!Next \/ (InFlight' = InFlight /\ reported' = reported)
    BY DEF Fifo!fifoVars
  <2>1. CASE \E f \in Frames : AllocTx(f)
    BY <2>1, AllocTxMaps
  <2>2. CASE TxDataRelease
    BY <2>2, TxDataReleaseMaps DEF Fifo!Next, IInv, TxdescIsYoungest, TxDataRelease
  <2>3. CASE TxDataStoreSkb
    BY <2>3, TxDataStoreSkbMaps
  <2>4. CASE \E s \in Slots : AcxComplete(s)
    BY <2>4, AcxCompleteMaps DEF Fifo!Next
  <2>5. CASE CleanStart
    BY <2>5, CleanStartMaps
  <2>6. CASE CleanDesc
    BY <2>6, CleanDescMaps DEF Fifo!Next
  <2>7. CASE CleanEnd
    BY <2>7, CleanEndMaps
  <2>8. CASE Reset
    BY <2>8, ResetMaps DEF Fifo!Next
  <2>9. CASE UNCHANGED vars
    <3>1. Submitted' = Submitted /\ \A i : At(i)' = At(i)
      BY <2>9 DEF vars, hwVars, ringVars, opVars, Submitted, Used, At, Oldest
    <3> QED BY <2>9, <3>1, SameEntries DEF Entry, vars, hwVars, opVars
  <2> QED BY <2>1, <2>2, <2>3, <2>4, <2>5, <2>6, <2>7, <2>8, <2>9 DEF Next
<1> QED BY <1>1, <1>2, Invariance, PTL DEF Spec, ImplementsFifo, Fifo!Spec
===============================================================================
