----------------------------- MODULE ReceiveProofs ----------------------------
(***************************************************************************)
(* What comes in is passed on once and in order, from the ring of a PCI or *)
(* slave memory adapter and from the stream of a USB device.               *)
(*                                                                         *)
(* The ring, of any size and with any number of frames: RxIInv is          *)
(* inductive.  What an action does to the frames that wait is stated once, *)
(* by the set Waiting of their descriptors: a reception adds one,          *)
(* ProcessRxbuf takes one away, a reset empties it, and every other action *)
(* leaves it alone.                                                        *)
(*                                                                         *)
(* The stream, of any number of packets and transfers of any size:         *)
(* StreamIInv says where in the stream the handler is.  Until it may have  *)
(* lost its place, it is between two packets or has the beginning of one   *)
(* in rxtruncbuf, and has handled in order what is whole and not missed.   *)
(***************************************************************************)
EXTENDS MCReceive, SequenceTheorems, FiniteSetTheorems, WellFoundedInduction, TLAPS

\* The frames that wait.
Frames(W, b) == {b[s] : s \in W} \ {0}

\* No two descriptors hold the same frame.
Distinct(W, b) == \A s, t \in W : b[s] = b[t] /\ b[s] # 0 => s = t

\* A new frame in a descriptor that is not waiting is one more frame that waits.
LEMMA FramesAdd ==
  ASSUME NEW W, NEW a, a \notin W, NEW b, NEW c, NEW f, c[a] = f,
         \A s \in W : c[s] = b[s], Distinct(W, b), f \notin Frames(W, b)
  PROVE  /\ Frames(W \cup {a}, c) = Frames(W, b) \cup ({f} \ {0})
         /\ Distinct(W \cup {a}, c)
  BY DEF Frames, Distinct

\* Taking a descriptor away takes its frame away, and no other.
LEMMA FramesRemove ==
  ASSUME NEW W, NEW a \in W, NEW b, Distinct(W, b)
  PROVE  /\ Frames(W \ {a}, b) = Frames(W, b) \ {b[a]}
         /\ Distinct(W \ {a}, b)
  BY DEF Frames, Distinct

\* (tail + 1) % RX_CNT is a descriptor of the ring.
LEMMA SuccInSlots == ASSUME NEW i \in Slots PROVE Succ(i) \in Slots
  BY RxRingAssumption DEF Slots, Succ

\* The invariant in the terms of these lemmas.
LEMMA IInvMeans ==
  RxIInv <=> /\ TypeOK /\ BufferIsOurs
             /\ Frames(Waiting, buf) = 1..received \ handled
             /\ Distinct(Waiting, buf)
             /\ at = "search" => count > 0
             /\ at = "rxbuf" => Full(hostdesc)
             /\ handled \subseteq 1..received
  BY DEF RxIInv, FramesConserved, Frames, Distinct

\* What the invariant says after a step.
LEMMA IInvMeansPrimed ==
  RxIInv' <=> /\ TypeOK' /\ BufferIsOurs'
              /\ Frames(Waiting', buf') = 1..received' \ handled'
              /\ Distinct(Waiting', buf')
              /\ at' = "search" => count' > 0
              /\ at' = "rxbuf" => Full(hostdesc)'
              /\ handled' \subseteq 1..received'
  BY DEF RxIInv, FramesConserved, Frames, Distinct
-------------------------------------------------------------------------------
\* A fresh ring has nothing waiting.
LEMMA InitIInv == Init => RxIInv
<1> SUFFICES ASSUME Init PROVE RxIInv
  OBVIOUS
<1>1. TypeOK
  <2>1. 0 \in Slots /\ RX_CNT \in Nat /\ MaxFrames \in Nat /\ MaxBurst \in Nat
    BY RxRingAssumption DEF Slots
  <2>2. /\ hostOwn \in [Slots -> BOOLEAN] /\ filled \in [Slots -> BOOLEAN]
        /\ buf \in [Slots -> 0..MaxFrames]
    BY <2>1 DEF Init
  <2>3. /\ acxNext \in Slots /\ queueTail \in Slots /\ tail \in Slots /\ hostdesc \in Slots
        /\ received \in 0..MaxFrames /\ count \in 0..RX_CNT /\ burst \in 0..MaxBurst
        /\ handled \subseteq 1..MaxFrames
    BY <2>1 DEF Init
  <2>4. SlaveMemory \in BOOLEAN /\ rxReason \in BOOLEAN /\ crowded \in BOOLEAN
    BY DEF Init
  <2>5. at = "idle"
    BY DEF Init
  <2> QED
    BY <2>2, <2>3, <2>4, <2>5 DEF TypeOK
<1>2. Waiting = {}
  BY DEF Init, Waiting, Full
<1>3. FramesConserved
  BY <1>1, <1>2 DEF Init, FramesConserved, BufferIsOurs, InHand
<1> QED
  BY <1>3 DEF Init, RxIInv

\* AcxReceive: the adapter fills a descriptor that is not the host's.
LEMMA FillIInv ==
  ASSUME RxIInv, NEW f \in Nat, Fill(f), f \in 0..MaxFrames,
         \/ f = received + 1 /\ received' = received + 1
         \/ f = 0 /\ received' = received
  PROVE  RxIInv'
<1>t. TypeOK /\ BufferIsOurs
  BY DEF RxIInv, FramesConserved
<1>1. /\ Frames(Waiting, buf) = 1..received \ handled
      /\ Distinct(Waiting, buf)
      /\ handled \subseteq 1..received
  BY IInvMeans
<1>2. /\ acxNext \in Slots /\ ~hostOwn[acxNext]
      /\ hostOwn \in [Slots -> BOOLEAN] /\ filled \in [Slots -> BOOLEAN]
      /\ hostOwn' = [hostOwn EXCEPT ![acxNext] = TRUE]
      /\ filled' = [filled EXCEPT ![acxNext] = TRUE]
      /\ buf' = [buf EXCEPT ![acxNext] = f] /\ buf \in [Slots -> 0..MaxFrames]
      /\ at' = at /\ hostdesc' = hostdesc /\ count' = count /\ handled' = handled
      /\ received \in Nat /\ hostdesc \in Slots
  BY <1>t DEF Fill, TypeOK, local
<1>3. InHand => acxNext # hostdesc
  BY <1>t, <1>2 DEF BufferIsOurs
<1>4. acxNext \notin Waiting
  BY <1>2 DEF Waiting, Full
<1>5. Waiting' = Waiting \cup {acxNext}
  <2>1. ASSUME NEW s \in Slots PROVE s \in Waiting' <=> s \in Waiting \/ s = acxNext
    <3>1. CASE s = acxNext
      <4>1. hostOwn'[s] /\ filled'[s]
        BY <3>1, <1>2
      <4>2. ~(InHand' /\ s = hostdesc')
        <5>1. at' = at /\ hostdesc' = hostdesc
          BY <1>2
        <5> QED
          BY <3>1, <5>1, <1>3 DEF InHand
      <4> QED
        BY <3>1, <4>1, <4>2 DEF Waiting, Full
    <3>2. CASE s # acxNext
      <4>1. hostOwn'[s] = hostOwn[s] /\ filled'[s] = filled[s]
        BY <3>2, <1>2
      <4>2. at' = at /\ hostdesc' = hostdesc
        BY <1>2
      <4> QED
        BY <3>2, <4>1, <4>2, Zenon DEF Waiting, Full, InHand
    <3> QED
      BY <3>1, <3>2
  <2> QED
    BY <2>1, <1>2 DEF Waiting
<1>6. f \notin Frames(Waiting, buf)
  <2>1. CASE f = 0
    BY <2>1 DEF Frames
  <2>2. CASE f = received + 1
    BY <2>2, <1>1, <1>2
  <2> QED
    BY <2>1, <2>2
<1>7. /\ Frames(Waiting', buf') = Frames(Waiting, buf) \cup ({f} \ {0})
      /\ Distinct(Waiting', buf')
  <2>1. buf'[acxNext] = f /\ \A s \in Waiting : buf'[s] = buf[s]
    BY <1>2, <1>4 DEF Waiting
  <2>2. Distinct(Waiting, buf)
    BY <1>1
  <2>3. /\ Frames(Waiting \cup {acxNext}, buf') = Frames(Waiting, buf) \cup ({f} \ {0})
        /\ Distinct(Waiting \cup {acxNext}, buf')
    BY <2>1, <2>2, <1>4, <1>6, FramesAdd
  <2> QED
    BY <2>3, <1>5
<1>8. Frames(Waiting', buf') = 1..received' \ handled'
  <2>1. CASE f = 0
    <3>1. received' = received /\ {f} \ {0} = {}
      BY <2>1, <1>2
    <3> QED
      BY <3>1, <1>1, <1>2, <1>7
  <2>2. CASE f = received + 1
    <3>1. received' = received + 1 /\ {f} \ {0} = {received + 1}
      BY <2>2, <1>2
    <3>2. 1..received' \ handled' = (1..received \ handled) \cup {received + 1}
      BY <3>1, <1>1, <1>2
    <3> QED
      BY <3>1, <3>2, <1>1, <1>7
  <2> QED
    BY <2>1, <2>2
<1>9. TypeOK'
  <2>1. burst' \in 0..MaxBurst
    BY <1>t, RxRingAssumption DEF Fill, TypeOK
  <2>2. crowded' \in BOOLEAN
    BY <1>t, Zenon DEF Fill, TypeOK
  <2>3. acxNext' \in Slots
    BY <1>2, SuccInSlots DEF Fill
  <2>4. received' \in 0..MaxFrames
    BY <1>t DEF TypeOK
  <2>5. hostOwn' \in [Slots -> BOOLEAN] /\ filled' \in [Slots -> BOOLEAN] /\ buf' \in [Slots -> 0..MaxFrames]
    BY <1>2
  <2> QED
    BY <1>t, <2>1, <2>2, <2>3, <2>4, <2>5 DEF Fill, TypeOK, local
<1>10. BufferIsOurs'
  BY <1>2, <1>3, <1>t DEF BufferIsOurs, InHand
<1>11. at' = "search" => count' > 0
  BY <1>2 DEF RxIInv
<1>12. at' = "rxbuf" => Full(hostdesc)'
  BY <1>2, <1>3 DEF RxIInv, Full, InHand
<1>13. handled' \subseteq 1..received'
  BY <1>1, <1>2
<1> QED
  BY <1>1, <1>7, <1>8, <1>9, <1>10, <1>11, <1>12, <1>13, IInvMeansPrimed

\* acx_process_rxbuf: the frame at hand, and no other, stops waiting.
LEMMA ProcessRxbufIInv == ASSUME RxIInv, ProcessRxbuf PROVE RxIInv'
<1>1. /\ TypeOK /\ BufferIsOurs
      /\ Frames(Waiting, buf) = 1..received \ handled
      /\ Distinct(Waiting, buf)
      /\ Full(hostdesc) /\ handled \subseteq 1..received
  BY IInvMeans DEF ProcessRxbuf, Step
<1>2. /\ at = "rxbuf" /\ at' = "write_first" /\ handled' = handled \cup ({buf[hostdesc]} \ {0})
      /\ hostOwn' = hostOwn /\ filled' = filled /\ buf' = buf /\ received' = received
      /\ hostdesc' = hostdesc /\ hostdesc \in Slots
  BY <1>1 DEF ProcessRxbuf, Step, acx, local, TypeOK
<1>3. hostdesc \in Waiting /\ Waiting' = Waiting \ {hostdesc}
  BY <1>1, <1>2 DEF Waiting, Full, InHand
<1>4. /\ Frames(Waiting', buf') = Frames(Waiting, buf) \ {buf[hostdesc]}
      /\ Distinct(Waiting', buf')
  BY <1>1, <1>2, <1>3, FramesRemove
<1>5. buf[hostdesc] # 0 => buf[hostdesc] \in 1..received
  BY <1>1, <1>3 DEF Frames
<1>6. Frames(Waiting', buf') = 1..received' \ handled'
  <2>1. 0 \notin 1..received
    OBVIOUS
  <2> QED
    BY <1>1, <1>2, <1>4, <2>1
<1>7. handled' \subseteq 1..received'
  BY <1>1, <1>2, <1>5
<1>8. TypeOK'
  <2>1. handled' \subseteq 1..MaxFrames
    BY <1>1, <1>2, <1>7 DEF TypeOK
  <2> QED
    BY <1>1, <2>1 DEF ProcessRxbuf, Step, acx, local, arrivals, TypeOK
<1>9. BufferIsOurs'
  BY <1>1, <1>2 DEF BufferIsOurs, InHand
<1> QED
  BY <1>2, <1>4, <1>6, <1>7, <1>8, <1>9, IInvMeansPrimed

\* The steps that leave the frames where they are.
LEMMA SameFrames ==
  ASSUME RxIInv, Waiting' = Waiting, buf' = buf, received' = received, handled' = handled,
         TypeOK', BufferIsOurs', at' = "search" => count' > 0, at' = "rxbuf" => Full(hostdesc)'
  PROVE  RxIInv'
  BY IInvMeans, IInvMeansPrimed

\* Looking for a full descriptor, finding one, finding the next one, giving up.
LEMMA SearchIInv ==
  ASSUME RxIInv, ProcessRxdesc \/ SearchFound \/ SearchNext \/ NextFull \/ NextEmpty
  PROVE  RxIInv'
<1>1. TypeOK /\ (at = "search" => count > 0)
  BY DEF RxIInv, FramesConserved
<1>2. /\ at \in {"idle", "search", "next"}
      /\ at' \in {"idle", "search", "next", "rxbuf"}
      /\ hostOwn' = hostOwn /\ filled' = filled /\ buf' = buf /\ received' = received
      /\ acxNext' = acxNext /\ SlaveMemory' = SlaveMemory /\ crowded' = crowded
      /\ handled' = handled
  BY <1>1 DEF ProcessRxdesc, SearchFound, SearchNext, NextFull, NextEmpty, Step, acx, arrivals
<1>3. Waiting' = Waiting
  BY <1>2 DEF Waiting, InHand, Full
<1>4. at' = "rxbuf" => Full(hostdesc)'
  BY <1>2 DEF ProcessRxdesc, SearchFound, SearchNext, NextFull, NextEmpty, Step, Full, GoesOn
<1>5. BufferIsOurs'
  BY <1>2, <1>4 DEF BufferIsOurs, InHand, Full
<1>6. at' = "search" => count' > 0
  BY <1>1, RxRingAssumption
     DEF ProcessRxdesc, SearchFound, SearchNext, NextFull, NextEmpty, Step, TypeOK, local
<1>7. TypeOK'
  <2>1. tail \in Slots /\ queueTail \in Slots /\ hostdesc \in Slots /\ Succ(tail) \in Slots
    BY <1>1, SuccInSlots DEF TypeOK
  <2>2. tail' \in Slots /\ queueTail' \in Slots /\ hostdesc' \in Slots
    BY <2>1 DEF ProcessRxdesc, SearchFound, SearchNext, NextFull, NextEmpty, Step, local, TailAtEnd
  <2>3. count' \in 0..RX_CNT /\ burst' \in 0..MaxBurst
    BY <1>1, RxRingAssumption
       DEF ProcessRxdesc, SearchFound, SearchNext, NextFull, NextEmpty, Step, local, arrivals, TypeOK
  <2>4. rxReason' \in BOOLEAN
    BY <1>1 DEF ProcessRxdesc, SearchFound, SearchNext, NextFull, NextEmpty, TypeOK
  <2> QED
    BY <1>1, <1>2, <2>2, <2>3, <2>4 DEF TypeOK
<1> QED
  BY <1>2, <1>3, <1>4, <1>5, <1>6, <1>7, SameFrames

\* Giving the descriptor back: it waits neither before nor after either write.
LEMMA WriteIInv == ASSUME RxIInv, WriteFirst \/ WriteLast PROVE RxIInv'
<1>1. TypeOK /\ BufferIsOurs
  BY DEF RxIInv, FramesConserved
<1>2. /\ hostOwn \in [Slots -> BOOLEAN] /\ filled \in [Slots -> BOOLEAN] /\ hostdesc \in Slots
      /\ buf' = buf /\ received' = received /\ handled' = handled /\ acxNext' = acxNext
      /\ SlaveMemory' = SlaveMemory /\ rxReason' = rxReason /\ queueTail' = queueTail
      /\ tail' = tail /\ count' = count /\ hostdesc' = hostdesc
      /\ burst' = burst /\ crowded' = crowded /\ SlaveMemory \in BOOLEAN
  BY <1>1 DEF WriteFirst, WriteLast, local, arrivals, TypeOK
<1>3. CASE WriteFirst
  <2>1. /\ at = "write_first" /\ at' = "write_last" /\ hostOwn' = hostOwn
        /\ filled' = [filled EXCEPT ![hostdesc] = @ /\ SlaveMemory]
    BY <1>3 DEF WriteFirst, Step, WriteBack, WriteOrder
  <2>2. filled' \in [Slots -> BOOLEAN]
    BY <2>1, <1>2
  <2>3. Waiting' = Waiting
    <3>1. ASSUME NEW s \in Slots, s # hostdesc PROVE filled'[s] = filled[s]
      BY <3>1, <2>1, <1>2
    <3> QED
      BY <3>1, <2>1, <1>2 DEF Waiting, InHand, Full
  <2>4. TypeOK'
    BY <1>1, <1>2, <2>1, <2>2 DEF TypeOK
  <2>5. BufferIsOurs'
    BY <1>1, <1>2, <2>1 DEF BufferIsOurs, InHand
  <2> QED
    BY <1>2, <2>1, <2>3, <2>4, <2>5, SameFrames
<1>4. CASE WriteLast
  <2>1. /\ at = "write_last" /\ at' = "next" /\ filled' = filled
        /\ hostOwn' = [hostOwn EXCEPT ![hostdesc] = FALSE]
    BY <1>4 DEF WriteLast, Step, WriteBack, WriteOrder
  <2>2. hostOwn' \in [Slots -> BOOLEAN] /\ ~hostOwn'[hostdesc]
    BY <2>1, <1>2
  <2>3. Waiting' = Waiting
    <3>1. ASSUME NEW s \in Slots, s # hostdesc PROVE hostOwn'[s] = hostOwn[s]
      BY <3>1, <2>1, <1>2
    <3> QED
      BY <3>1, <2>1, <2>2, <1>2 DEF Waiting, InHand, Full
  <2>4. TypeOK'
    BY <1>1, <1>2, <2>1, <2>2 DEF TypeOK
  <2>5. BufferIsOurs'
    BY <2>1 DEF BufferIsOurs, InHand
  <2> QED
    BY <1>2, <2>1, <2>3, <2>4, <2>5, SameFrames
<1> QED
  BY <1>3, <1>4

\* acx_create_rx_desc_queue: whatever waited is lost, and counted so.
LEMMA ResetIInv == ASSUME RxIInv, Reset PROVE RxIInv'
<1>1. TypeOK
  BY DEF RxIInv, FramesConserved
<1>2. /\ at' = "idle" /\ handled' = 1..received /\ received' = received
      /\ hostOwn' = [s \in Slots |-> FALSE]
  BY DEF Reset
<1>3. Waiting' = {}
  BY <1>2 DEF Waiting, Full
<1>4. TypeOK'
  <2>1. filled' \in [Slots -> BOOLEAN]
    BY <1>1, Zenon DEF Reset, TypeOK
  <2>2. hostOwn' \in [Slots -> BOOLEAN]
    BY <1>2
  <2>3. 0 \in Slots
    BY RxRingAssumption DEF Slots
  <2>4. queueTail' \in Slots /\ acxNext' \in Slots
    BY <2>3 DEF Reset
  <2>5. handled' \subseteq 1..MaxFrames
    BY <1>1, <1>2, RxRingAssumption DEF TypeOK
  <2> QED
    BY <1>1, <1>2, <2>1, <2>2, <2>4, <2>5 DEF Reset, TypeOK, local
<1> QED
  BY <1>2, <1>3, <1>4 DEF RxIInv, FramesConserved, BufferIsOurs, InHand
-------------------------------------------------------------------------------
\* The strengthening is an invariant of the ring and of process_rxdesc.
THEOREM RxInvariance == Spec => []RxIInv
<1>1. RxIInv /\ [Next]_vars => RxIInv'
  <2> SUFFICES ASSUME RxIInv, [Next]_vars PROVE RxIInv'
    OBVIOUS
  <2>t. TypeOK
    BY DEF RxIInv, FramesConserved
  <2>1. CASE AcxReceive
    <3>1. received \in Nat /\ received + 1 \in 0..MaxFrames
      BY <2>t, <2>1, RxRingAssumption DEF AcxReceive, TypeOK
    <3> QED
      BY <2>1, <3>1, FillIInv DEF AcxReceive
  <2>2. CASE AcxReclaimOnly
    BY <2>2, FillIInv, RxRingAssumption DEF AcxReclaimOnly
  <2>3. CASE IrqWork
    BY <2>3, SearchIInv, ProcessRxbufIInv, WriteIInv DEF IrqWork
  <2>4. CASE Reset
    BY <2>4, ResetIInv
  <2>5. CASE UNCHANGED vars
    BY <2>5 DEF vars, acx, local, arrivals, RxIInv, FramesConserved, TypeOK, BufferIsOurs,
                InHand, Waiting, Full
  <2> QED
    BY <2>1, <2>2, <2>3, <2>4, <2>5 DEF Next
<1> QED
  BY InitIInv, <1>1, PTL DEF Spec

\* Every frame the adapter has received waits in exactly one descriptor or has been
\* handled by acx_process_rxbuf, and is never overwritten or passed on twice.
THEOREM RxFramesConserved == Spec => []FramesConserved
<1>1. RxIInv => FramesConserved
  BY DEF RxIInv
<1> QED
  BY RxInvariance, <1>1, PTL
-------------------------------------------------------------------------------
(***************************************************************************)
(* The order: as long as no two frames come during one search, what has    *)
(* been handed over is a window of the ring that starts where the driver   *)
(* is.  A search that has gone past the first descriptor found the ring    *)
(* empty there, so what it finds later can only be that first descriptor   *)
(* again, after all others.                                                *)
(***************************************************************************)

\* Positions around the ring, counted from one of its descriptors.
LEMMA DistRange ==
  ASSUME NEW i \in Slots, NEW s \in Slots
  PROVE  Dist(i, s) \in 0 .. RX_CNT - 1 /\ (Dist(i, s) = 0 <=> s = i)
  BY RxRingAssumption DEF Slots, Dist

\* Counting on from a descriptor leads to one.
LEMMA PlusInSlots ==
  ASSUME NEW i \in Slots, NEW n \in 0..RX_CNT
  PROVE  /\ Plus(i, n) \in Slots
         /\ n < RX_CNT => Dist(i, Plus(i, n)) = n
         /\ n < RX_CNT => Succ(Plus(i, n)) = Plus(i, n + 1)
  BY RxRingAssumption DEF Slots, Dist, Plus, Succ

\* Counting none, and counting all of them.
LEMMA PlusEnds ==
  ASSUME NEW i \in Slots
  PROVE  Plus(i, 0) = i /\ Plus(i, RX_CNT) = i
  BY RxRingAssumption DEF Slots, Plus

\* Two descriptors at the same place are one.
LEMMA DistInjective ==
  ASSUME NEW i \in Slots, NEW s \in Slots, NEW t \in Slots, Dist(i, s) = Dist(i, t)
  PROVE  s = t
  BY RxRingAssumption DEF Slots, Dist

\* Counted from the next descriptor, all places are one less.
LEMMA DistFromSucc ==
  ASSUME NEW i \in Slots, NEW s \in Slots
  PROVE  Dist(Succ(i), s) = IF s = i THEN RX_CNT - 1 ELSE Dist(i, s) - 1
  BY RxRingAssumption DEF Slots, Dist, Succ

\* Counting on from the next descriptor.
LEMMA PlusFromSucc ==
  ASSUME NEW i \in Slots, NEW n \in 1..RX_CNT
  PROVE  Plus(i, n) = Plus(Succ(i), n - 1)
  BY RxRingAssumption DEF Slots, Plus, Succ

\* What is handed over, but not at hand, is full.
LEMMA OwnedIsFull ==
  ASSUME RxOrder, NEW s \in Slots, at # "write_last"
  PROVE  Full(s) <=> hostOwn[s]
  BY DEF RxOrder, Full

\* First is a descriptor.
LEMMA FirstInSlots == ASSUME TypeOK PROVE First \in Slots
  BY DEF TypeOK, First

\* Nothing waits yet.
LEMMA InitOrder == Init => RxOrder
<1> SUFFICES ASSUME Init PROVE RxOrder
  OBVIOUS
<1>1. 0 \in Slots /\ RX_CNT \in Nat
  BY RxRingAssumption DEF Slots
<1>2. Window(0)
  <2>1. First = 0 /\ acxNext = 0
    BY DEF Init, First
  <2>2. \A s \in Slots : ~(Dist(0, s) < 0) /\ ~hostOwn[s]
    BY <1>1, DistRange DEF Init
  <2> QED
    BY <1>1, <2>1, <2>2, PlusEnds DEF Window
<1>3. SearchWindow(0)
  BY DEF Init, SearchWindow
<1> QED
  BY <1>1, <1>2, <1>3 DEF Init, RxOrder, InHand

\* The adapter lengthens the window by one descriptor and puts the latest frame there.
LEMMA FillOrder ==
  ASSUME TypeOK, TypeOK', BufferIsOurs, RxOrder, NEW f \in Nat, Fill(f),
         \/ f = received + 1 /\ received' = received + 1
         \/ f = 0 /\ received' = received
  PROVE  RxOrder'
<1>1. /\ acxNext \in Slots /\ ~hostOwn[acxNext]
      /\ hostOwn' = [hostOwn EXCEPT ![acxNext] = TRUE]
      /\ filled' = [filled EXCEPT ![acxNext] = TRUE]
      /\ buf' = [buf EXCEPT ![acxNext] = f] /\ acxNext' = Succ(acxNext)
      /\ at' = at /\ hostdesc' = hostdesc /\ count' = count /\ tail' = tail
      /\ queueTail' = queueTail
  BY DEF Fill, TypeOK, local
<1>2. /\ hostOwn \in [Slots -> BOOLEAN] /\ filled \in [Slots -> BOOLEAN]
      /\ buf \in [Slots -> 0..MaxFrames] /\ received \in Nat /\ hostdesc \in Slots
      /\ RX_CNT \in Nat \ {0} /\ count \in 0..RX_CNT /\ burst \in Nat
  BY RxRingAssumption DEF TypeOK
<1>3. /\ \A s \in Slots \ {acxNext} : /\ hostOwn'[s] = hostOwn[s]
                                     /\ filled'[s] = filled[s] /\ buf'[s] = buf[s]
      /\ hostOwn'[acxNext] /\ filled'[acxNext] /\ buf'[acxNext] = f
  BY <1>1, <1>2
<1>4. First' = First /\ First \in Slots
  BY <1>1, FirstInSlots DEF First
<1>5. ASSUME NEW s \in Slots PROVE buf'[s] <= received'
  BY <1>2, <1>3 DEF RxOrder
<1>6. ASSUME NEW s \in Slots, hostOwn'[s], ~filled'[s] PROVE at' = "write_last" /\ s = hostdesc'
  BY <1>1, <1>3, <1>6 DEF RxOrder
<1>7. ASSUME ~crowded'
      PROVE  \E n \in 0..RX_CNT : Window(n)' /\ SearchWindow(n)'
  <2>1. ~crowded /\ ~(burst' > 1) /\ burst' = IF at = "search" THEN burst + 1 ELSE 0
    BY <1>7 DEF Fill
  <2>2. PICK n \in 0..RX_CNT : Window(n) /\ SearchWindow(n)
    BY <2>1 DEF RxOrder
  <2>3. n < RX_CNT
    <3>1. CASE n = RX_CNT
      <4>1. acxNext = First
        BY <3>1, <2>2, <1>4, PlusEnds DEF Window
      <4>2. Dist(First, acxNext) < n
        BY <4>1, <3>1, <1>2, <1>4, DistRange
      <4> QED
        BY <4>2, <2>2, <1>1 DEF Window
    <3> QED
      BY <3>1, <1>2
  <2>4. acxNext = Plus(First, n) /\ Dist(First, acxNext) = n /\ acxNext' = Plus(First, n + 1)
    BY <2>2, <2>3, <1>1, <1>4, PlusInSlots DEF Window
  <2>5. ASSUME NEW s \in Slots PROVE hostOwn'[s] <=> Dist(First, s) < n + 1
    <3>1. Dist(First, s) \in Nat
      BY <1>4, DistRange
    <3>2. s # acxNext => Dist(First, s) # n
      BY <2>4, <1>1, <1>4, DistInjective
    <3>3. s # acxNext => (hostOwn'[s] <=> Dist(First, s) < n)
      BY <1>3, <2>2 DEF Window
    <3> QED
      BY <1>3, <2>4, <3>1, <3>2, <3>3
  <2>6. ASSUME NEW s \in Slots, NEW t \in Slots, Dist(First, s) < Dist(First, t),
               Dist(First, t) < n + 1, buf'[s] # 0, buf'[t] # 0
        PROVE  buf'[s] < buf'[t]
    <3>1. Dist(First, s) \in Nat /\ Dist(First, t) \in Nat
      BY <1>4, DistRange
    <3>2. s # acxNext
      BY <2>4, <2>6, <3>1
    <3>3. CASE t = acxNext
      <4>1. buf[s] <= received /\ buf'[s] = buf[s] /\ buf'[t] = f /\ f = received + 1
        BY <3>2, <3>3, <1>3, <2>6 DEF RxOrder
      <4> QED
        BY <4>1, <1>2
    <3>4. CASE t # acxNext
      <4>1. Dist(First, t) # n
        BY <3>4, <2>4, <1>1, <1>4, DistInjective
      <4>2. Dist(First, t) < n
        BY <4>1, <2>6, <3>1
      <4> QED
        BY <3>2, <3>4, <4>2, <2>6, <1>3, <2>2 DEF Window
    <3> QED
      BY <3>3, <3>4
  <2>7. Window(n + 1)'
    BY <1>4, <2>4, <2>5, <2>6 DEF Window
  <2>8. SearchWindow(n + 1)'
    BY <1>1, <1>2, <2>1, <2>2 DEF SearchWindow
  <2> QED
    BY <2>3, <2>7, <2>8, <1>2
<1> QED
  BY <1>1, <1>5, <1>6, <1>7 DEF RxOrder, InHand

\* A window that stays where it is.
LEMMA SameWindow ==
  ASSUME NEW n \in 0..RX_CNT, Window(n), First' = First, acxNext' = acxNext,
         hostOwn' = hostOwn, buf' = buf
  PROVE  Window(n)'
  BY DEF Window

\* acx_irq_work begins a search where the driver is.
LEMMA ProcessRxdescOrder == ASSUME TypeOK, RxOrder, ProcessRxdesc PROVE RxOrder'
<1>1. /\ at = "idle" /\ at' = "search" /\ tail' = queueTail /\ count' = RX_CNT /\ burst' = 0
      /\ queueTail' = queueTail /\ hostOwn' = hostOwn /\ filled' = filled /\ buf' = buf
      /\ acxNext' = acxNext /\ received' = received /\ crowded' = crowded
      /\ RX_CNT \in Nat /\ queueTail \in Slots
  BY RxRingAssumption DEF ProcessRxdesc, Step, acx, TypeOK
<1>2. First' = First
  BY <1>1 DEF First
<1>3. tail' = Plus(queueTail', RX_CNT - count')
  BY <1>1, PlusEnds
<1>4. ASSUME NEW n \in 0..RX_CNT, Window(n) PROVE Window(n)' /\ SearchWindow(n)'
  BY <1>1, <1>2, <1>4, SameWindow DEF SearchWindow
<1> QED
  BY <1>1, <1>3, <1>4 DEF RxOrder, InHand

\* A search finds the first descriptor of the window, and no other.
LEMMA SearchFoundOrder == ASSUME TypeOK, RxIInv, RxOrder, SearchFound PROVE RxOrder'
<1>1. /\ at = "search" /\ at' = "rxbuf" /\ Full(tail) /\ hostdesc' = tail /\ tail' = Succ(tail)
      /\ hostOwn' = hostOwn /\ filled' = filled /\ buf' = buf
      /\ acxNext' = acxNext /\ received' = received /\ crowded' = crowded
      /\ RX_CNT \in Nat \ {0} /\ queueTail \in Slots /\ tail \in Slots
      /\ count \in 1..RX_CNT /\ burst \in Nat /\ tail = Plus(queueTail, RX_CNT - count)
  BY RxRingAssumption DEF SearchFound, Step, acx, arrivals, TypeOK, RxIInv, RxOrder
<1>2. ASSUME NEW n \in 0..RX_CNT, Window(n), SearchWindow(n) PROVE tail = queueTail
  <2>1. CASE count = RX_CNT
    BY <2>1, <1>1, PlusEnds
  <2>2. CASE count < RX_CNT
    <3>1. n <= 1
      BY <2>2, <1>1, <1>2 DEF SearchWindow
    <3>2. Dist(queueTail, tail) < n
      BY <1>1, <1>2 DEF Window, First, Full
    <3>3. Dist(queueTail, tail) = 0
      BY <3>1, <3>2, <1>1, DistRange
    <3> QED
      BY <3>3, <1>1, DistRange
  <2> QED
    BY <2>1, <2>2, <1>1
<1>3. ASSUME NEW n \in 0..RX_CNT, Window(n), SearchWindow(n) PROVE Window(n)' /\ SearchWindow(n)'
  <2>1. First' = First
    BY <1>1, <1>2, <1>3 DEF First
  <2> QED
    BY <2>1, <1>1, <1>3, SameWindow DEF SearchWindow
<1> QED
  BY <1>1, <1>3 DEF RxOrder

\* It goes past an empty descriptor, and ends where it began.
LEMMA SearchNextOrder == ASSUME TypeOK, RxIInv, RxOrder, SearchNext PROVE RxOrder'
<1>1. /\ at = "search" /\ ~Full(tail) /\ count' = count - 1 /\ tail' = Succ(tail)
      /\ hostOwn' = hostOwn /\ filled' = filled /\ buf' = buf /\ hostdesc' = hostdesc
      /\ acxNext' = acxNext /\ received' = received /\ crowded' = crowded /\ burst' = burst
      /\ RX_CNT \in Nat \ {0} /\ queueTail \in Slots /\ tail \in Slots
      /\ count \in 1..RX_CNT /\ burst \in Nat /\ tail = Plus(queueTail, RX_CNT - count)
  BY RxRingAssumption DEF SearchNext, acx, arrivals, TypeOK, RxIInv, RxOrder
<1>2. tail' = Plus(queueTail, RX_CNT - count')
  BY <1>1, PlusInSlots
<1>3. \/ count' > 0 /\ at' = "search" /\ queueTail' = queueTail
      \/ count' = 0 /\ at' = "idle" /\ queueTail' = tail'
  BY <1>1 DEF SearchNext
<1>4. First' = First
  BY <1>1, <1>2, <1>3, PlusEnds DEF First
<1>5. ASSUME NEW n \in 0..RX_CNT, Window(n), SearchWindow(n) PROVE n = burst
  <2>1. CASE count = RX_CNT
    <3>1. tail = queueTail /\ ~hostOwn[queueTail]
      BY <2>1, <1>1, PlusEnds, OwnedIsFull
    <3>2. ~(Dist(queueTail, queueTail) < n)
      BY <3>1, <1>1, <1>5 DEF Window, First
    <3> QED
      BY <3>2, <1>1, <1>5, DistRange DEF SearchWindow
  <2>2. CASE count < RX_CNT
    BY <2>2, <1>1, <1>5 DEF SearchWindow
  <2> QED
    BY <2>1, <2>2, <1>1
<1>6. ASSUME NEW n \in 0..RX_CNT, Window(n), SearchWindow(n) PROVE Window(n)' /\ SearchWindow(n)'
  BY <1>1, <1>4, <1>5, <1>6, SameWindow DEF SearchWindow
<1> QED
  BY <1>1, <1>2, <1>3, <1>6 DEF RxOrder, InHand

\* Frames are passed on, and descriptors written, where the window begins.
LEMMA HandleOrder ==
  ASSUME TypeOK, RxOrder, ProcessRxbuf \/ WriteFirst \/ NextFull \/ NextEmpty
  PROVE  RxOrder'
<1>1. /\ acxNext' = acxNext /\ received' = received /\ crowded' = crowded
      /\ hostOwn' = hostOwn /\ buf' = buf /\ queueTail \in Slots /\ hostdesc \in Slots
      /\ filled \in [Slots -> BOOLEAN] /\ received \in Nat
  BY DEF ProcessRxbuf, WriteFirst, WriteBack, WriteOrder, NextFull, NextEmpty, acx, arrivals,
         TypeOK
<1>2. \/ /\ InHand /\ at # "write_last" /\ at' \in {"write_first", "write_last"}
         /\ hostdesc' = hostdesc /\ tail' = tail
      \/ at = "next" /\ at' = "rxbuf" /\ hostdesc' = tail /\ tail' = Succ(tail)
      \/ at = "next" /\ at' = "idle" /\ queueTail' = tail /\ tail' = tail
  BY DEF ProcessRxbuf, WriteFirst, NextFull, NextEmpty, Step, InHand, local, TailAtEnd
<1>3. First' = First
  BY <1>2 DEF First, InHand
<1>4. ASSUME NEW s \in Slots, hostOwn'[s], ~filled'[s] PROVE at' = "write_last" /\ s = hostdesc'
  <2>1. CASE WriteFirst
    <3>1. /\ filled' = [filled EXCEPT ![hostdesc] = @ /\ SlaveMemory]
          /\ at = "write_first" /\ at' = "write_last" /\ hostdesc' = hostdesc
      BY <2>1 DEF WriteFirst, WriteBack, WriteOrder, Step, local
    <3> QED
      BY <3>1, <1>1, <1>4 DEF RxOrder
  <2>2. CASE filled' = filled
    BY <2>2, <1>1, <1>2, <1>4 DEF RxOrder, InHand
  <2> QED
    BY <2>1, <2>2 DEF ProcessRxbuf, NextFull, NextEmpty, acx
<1>5. InHand' \/ at' = "next" => tail' = Succ(hostdesc')
  BY <1>2 DEF RxOrder, InHand
<1>6. ASSUME NEW n \in 0..RX_CNT, Window(n) PROVE Window(n)' /\ SearchWindow(n)'
  BY <1>1, <1>2, <1>3, <1>6, SameWindow DEF SearchWindow
<1> QED
  BY <1>1, <1>2, <1>4, <1>5, <1>6 DEF RxOrder, InHand

\* Giving a descriptor back shortens the window by its first.
LEMMA WriteLastOrder ==
  ASSUME TypeOK, BufferIsOurs, RxOrder, WriteLast PROVE RxOrder'
<1>1. /\ at = "write_last" /\ at' = "next" /\ hostdesc' = hostdesc /\ tail' = tail
      /\ filled' = filled /\ hostOwn' = [hostOwn EXCEPT ![hostdesc] = FALSE]
      /\ acxNext' = acxNext /\ received' = received /\ crowded' = crowded /\ buf' = buf
      /\ hostOwn \in [Slots -> BOOLEAN] /\ hostdesc \in Slots /\ RX_CNT \in Nat \ {0}
      /\ tail = Succ(hostdesc) /\ hostOwn[hostdesc]
  BY RxRingAssumption
     DEF WriteLast, Step, WriteBack, WriteOrder, local, arrivals, TypeOK, RxOrder, InHand,
         BufferIsOurs
<1>2. First = hostdesc /\ First' = Succ(hostdesc)
  BY <1>1 DEF First
<1>3. ASSUME NEW n \in 0..RX_CNT, Window(n) PROVE n - 1 \in 0..RX_CNT /\ Window(n - 1)'
  <2>1. Dist(hostdesc, hostdesc) = 0 /\ n > 0
    BY <1>1, <1>2, <1>3, DistRange DEF Window
  <2>2. acxNext' = Plus(First', n - 1)
    BY <2>1, <1>1, <1>2, <1>3, PlusFromSucc DEF Window
  <2>3. ASSUME NEW s \in Slots
        PROVE  /\ Dist(First', s) \in Nat
               /\ s = hostdesc => ~(Dist(First', s) < n - 1)
               /\ s # hostdesc => Dist(First', s) = Dist(First, s) - 1
    <3>1. Dist(First, s) \in Nat /\ (s = hostdesc <=> Dist(First, s) = 0)
      BY <1>1, <1>2, DistRange
    <3>2. Dist(First', s) = IF s = hostdesc THEN RX_CNT - 1 ELSE Dist(First, s) - 1
      BY <1>1, <1>2, DistFromSucc
    <3> QED
      BY <3>1, <3>2, <1>1
  <2>4. ASSUME NEW s \in Slots PROVE hostOwn'[s] <=> Dist(First', s) < n - 1
    <3>1. CASE s = hostdesc
      BY <3>1, <2>3, <1>1
    <3>2. CASE s # hostdesc
      <4>1. Dist(First, s) \in Nat
        BY <1>1, <1>2, DistRange
      <4>2. hostOwn'[s] <=> Dist(First, s) < n
        BY <3>2, <1>1, <1>3 DEF Window
      <4> QED
        BY <3>2, <4>1, <4>2, <2>3
    <3> QED
      BY <3>1, <3>2
  <2>5. ASSUME NEW s \in Slots, NEW t \in Slots, Dist(First', s) < Dist(First', t),
               Dist(First', t) < n - 1, buf'[s] # 0, buf'[t] # 0
        PROVE  buf'[s] < buf'[t]
    <3>1. s # hostdesc /\ t # hostdesc
      BY <2>3, <2>5
    <3>2. Dist(First, s) \in Nat /\ Dist(First, t) \in Nat
      BY <1>1, <1>2, DistRange
    <3>3. Dist(First, s) < Dist(First, t) /\ Dist(First, t) < n
      BY <3>1, <3>2, <2>3, <2>5
    <3> QED
      BY <3>3, <2>5, <1>1, <1>3 DEF Window
  <2>6. n - 1 \in 0..RX_CNT
    BY <2>1, <1>1
  <2>7. Window(n - 1)'
    BY <2>2, <2>4, <2>5 DEF Window
  <2> QED
    BY <2>6, <2>7
<1>4. ASSUME NEW s \in Slots, hostOwn'[s] PROVE filled'[s]
  BY <1>1, <1>4 DEF RxOrder
<1>5. ASSUME NEW n \in 0..RX_CNT PROVE SearchWindow(n)'
  BY <1>1 DEF SearchWindow
<1>6. ~crowded' => \E n \in 0..RX_CNT : Window(n)' /\ SearchWindow(n)'
  BY <1>1, <1>3, <1>5 DEF RxOrder
<1> QED
  BY <1>1, <1>4, <1>6 DEF RxOrder

\* A reset empties the window and forgets that there was a crowd.
LEMMA ResetOrder == ASSUME TypeOK, RxOrder, Reset PROVE RxOrder'
<1>1. /\ at' = "idle" /\ queueTail' = 0 /\ acxNext' = 0 /\ received' = received /\ buf' = buf
      /\ hostOwn' = [s \in Slots |-> FALSE] /\ 0 \in Slots /\ RX_CNT \in Nat
  BY RxRingAssumption DEF Reset, Slots
<1>2. First' = 0
  BY <1>1 DEF First
<1>3. \A s \in Slots : ~hostOwn'[s] /\ Dist(0, s) \in Nat
  BY <1>1, DistRange
<1>4. Window(0)'
  BY <1>1, <1>2, <1>3, PlusEnds DEF Window
<1>5. SearchWindow(0)'
  BY <1>1 DEF SearchWindow
<1> QED
  BY <1>1, <1>3, <1>4, <1>5 DEF RxOrder, InHand

\* The window is an invariant.
THEOREM RxOrderInvariance == Spec => []RxOrder
<1>1. RxIInv /\ RxIInv' /\ RxOrder /\ [Next]_vars => RxOrder'
  <2> SUFFICES ASSUME RxIInv, RxIInv', RxOrder, [Next]_vars PROVE RxOrder'
    OBVIOUS
  <2>t. TypeOK /\ TypeOK' /\ BufferIsOurs /\ received \in Nat
    BY DEF RxIInv, FramesConserved, TypeOK
  <2>1. CASE AcxReceive
    BY <2>t, <2>1, FillOrder DEF AcxReceive
  <2>2. CASE AcxReclaimOnly
    BY <2>t, <2>2, FillOrder DEF AcxReclaimOnly
  <2>3. CASE IrqWork
    BY <2>t, <2>3, ProcessRxdescOrder, SearchFoundOrder, SearchNextOrder, HandleOrder,
       WriteLastOrder DEF IrqWork
  <2>4. CASE Reset
    BY <2>t, <2>4, ResetOrder
  <2>5. CASE UNCHANGED vars
    BY <2>5 DEF vars, acx, local, arrivals, RxOrder, Window, SearchWindow, First, InHand
  <2> QED
    BY <2>1, <2>2, <2>3, <2>4, <2>5 DEF Next
<1> QED
  BY InitOrder, RxInvariance, <1>1, PTL DEF Spec

\* As long as no two frames came during one search, process_rxdesc passes on the oldest
\* frame in the ring, and leaves hw_rx_queue.tail where the next one is or will be.
THEOREM RxFindsFirstFull == Spec => []FindsFirstFull
<1>1. RxIInv /\ RxOrder => FindsFirstFull
  <2> SUFFICES ASSUME RxIInv, RxOrder, ~crowded
               PROVE  /\ TailIsRight
                      /\ at = "rxbuf" /\ buf[hostdesc] # 0 =>
                           \A s \in Waiting : buf[s] = 0 \/ buf[hostdesc] <= buf[s]
    BY DEF FindsFirstFull
  <2>1. TypeOK /\ RX_CNT \in Nat
    BY RxRingAssumption DEF RxIInv, FramesConserved
  <2>2. PICK n \in 0..RX_CNT : Window(n)
    BY DEF RxOrder
  <2>3. ASSUME at = "idle" PROVE queueTail = acxNext \/ Full(queueTail)
    <3>1. First = queueTail /\ queueTail \in Slots
      BY <2>1, <2>3 DEF First, TypeOK
    <3>2. n = 0 => acxNext = queueTail
      BY <3>1, <2>2, PlusEnds DEF Window
    <3>3. n # 0 => Dist(First, queueTail) < n
      BY <3>1, DistRange
    <3> QED
      BY <3>1, <3>2, <3>3, <2>2, <2>3, OwnedIsFull DEF Window
  <2>4. ASSUME at = "rxbuf", buf[hostdesc] # 0, NEW s \in Waiting, buf[s] # 0
        PROVE  buf[hostdesc] <= buf[s]
    <3>1. First = hostdesc /\ hostdesc \in Slots /\ s \in Slots /\ hostOwn[s]
      BY <2>1, <2>4 DEF First, TypeOK, Waiting, Full
    <3>2. buf[s] \in Nat /\ buf[hostdesc] \in Nat
      BY <2>1, <3>1, RxRingAssumption DEF TypeOK
    <3>3. CASE s = hostdesc
      BY <3>2, <3>3
    <3>4. CASE s # hostdesc
      <4>1. Dist(First, hostdesc) < Dist(First, s) /\ Dist(First, s) < n
        BY <3>1, <3>4, <2>2, DistRange DEF Window
      <4> QED
        BY <4>1, <3>1, <3>2, <2>2, <2>4 DEF Window
    <3> QED
      BY <3>3, <3>4
  <2> QED
    BY <2>3, <2>4 DEF TailIsRight
<1> QED
  BY RxInvariance, RxOrderInvariance, <1>1, PTL
-------------------------------------------------------------------------------
(* The stream of a USB device *)

\* The last byte that the handler is done with.
Front == IF parsing /\ rxtruncbuf = << >> THEN ptr - 1 ELSE delivered

\* The packets that end by byte b, and those that begin before the next.
Whole(b) == {p \in DOMAIN stream : Usb!End(p) <= b}
Begun(b) == {p \in DOMAIN stream : Usb!End(p - 1) < b}

\* rxtruncbuf has the beginning of packet p, as far as it has come, and none is missed since.
CutIn(p) ==
  /\ rxtruncbuf = Usb!Bytes(Usb!End(p - 1) + 1, Len(rxtruncbuf))
  /\ Usb!End(p - 1) + Len(rxtruncbuf) = delivered
  /\ truncated = stream[p].size
  /\ missed \subseteq 1 .. p - 1

\* Between two packets, unless one is cut; nobody looks while the interface is down.
InPlace ==
  /\ (parsing \/ HW_UP) /\ rxtruncbuf # << >> => remsize = 0 /\ \E p \in DOMAIN stream : CutIn(p)
  /\ parsing /\ rxtruncbuf = << >> =>
       ptr \in Nat \ {0} /\ ptr + remsize = delivered + 1 /\ Usb!Boundary(ptr - 1)
  /\ ~parsing /\ HW_UP /\ rxtruncbuf = << >> => Usb!Boundary(delivered)
  /\ missed \subseteq Begun(Front)

\* The inductive invariant of UsbRxStream.
StreamIInv ==
  /\ Usb!TypeOK /\ Usb!TruncbufFits
  /\ ~derailed => InPlace /\ Usb!InOrder(usb_handled, Whole(Front) \ missed)

-------------------------------------------------------------------------------
(* The bytes of the stream. *)

\* The constants are natural numbers.
LEMMA StreamConstants ==
  /\ RXBUF_HDRSIZE \in Nat \ {0} /\ RXBUF_SIZE \in Nat
  /\ \A n \in FrameSizes : n \in Nat /\ RXBUF_HDRSIZE < n /\ n <= RXBUF_SIZE
  /\ MaxTransfer \in Nat /\ MaxPackets \in Nat
  BY UsbAssumption DEF Usb!UsbRxStreamAssumption

\* A set of naturals has a least element.
LEMMA LeastNat ==
  ASSUME NEW T, T \subseteq Nat, T # {}
  PROVE  \E x \in T : \A y \in T : x <= y
<1> DEFINE R == {ss \in Nat \X Nat : ss[1] < ss[2]}
<1>1. OpToRel(<, Nat) = R
  BY Zenon DEF OpToRel
<1>2. IsWellFoundedOn(R, Nat)
  BY NatLessThanWellFounded, <1>1
<1>3. \A x, y \in Nat : <<x, y>> \in R <=> x < y
  OBVIOUS
<1> HIDE DEF R
<1>4. PICK x \in T : \A y \in T : ~(<<y, x>> \in R)
  BY <1>2, WFMin
<1>5. ASSUME NEW y \in T PROVE x <= y
  <2>1. ~(y < x) /\ x \in Nat /\ y \in Nat
    BY <1>3, <1>4
  <2> QED
    BY <2>1
<1> QED
  BY <1>5

\* A packet has at least a byte; a status is as long as a header.
LEMMA PacketSizes ==
  ASSUME NEW s \in Seq(Usb!Packets), NEW p \in 1..Len(s)
  PROVE  /\ s[p] \in Usb!Packets
         /\ s[p].size \in Nat \ {0}
         /\ s[p].txstat \in BOOLEAN
         /\ s[p].txstat => s[p].size = RXBUF_HDRSIZE
         /\ ~s[p].txstat => s[p].size \in FrameSizes
  <1>1. s[p] \in Usb!Packets
    OBVIOUS
  <1>2. CASE s[p] \in [size : FrameSizes, txstat : {FALSE}]
    <2>1. s[p].size \in FrameSizes /\ s[p].txstat = FALSE
      BY <1>2
    <2>2. s[p].size \in Nat \ {0}
      BY <2>1, StreamConstants
    <2> QED BY <1>1, <2>1, <2>2, Zenon
  <1>3. CASE s[p] \in [size : {RXBUF_HDRSIZE}, txstat : {TRUE}]
    <2>1. s[p].size = RXBUF_HDRSIZE /\ s[p].txstat = TRUE
      BY <1>3
    <2>2. s[p].size \in Nat \ {0}
      BY <2>1, StreamConstants
    <2> QED BY <1>1, <2>1, <2>2, Zenon
  <1> QED BY <1>1, <1>2, <1>3 DEF Usb!Packets

\* The sum of the sizes is what its definition by recursion says.
LEMMA EndsAre ==
  ASSUME NEW s \in Seq(Usb!Packets)
  PROVE  Usb!Ends(s) = [p \in 0..Len(s) |-> IF p = 0 THEN 0 ELSE Usb!Ends(s)[p - 1] + s[p].size]
  <1> DEFINE Sums(f, n) == f = [p \in 0..n |-> IF p = 0 THEN 0 ELSE f[p - 1] + s[p].size]
             Bad == {n \in 0..Len(s) : ~ \E f : Sums(f, n)}
  <1>1. Sums([p \in 0..0 |-> 0], 0)
    OBVIOUS
  <1>2. ASSUME NEW n \in Nat, NEW f, Sums(f, n) PROVE \E g : Sums(g, n + 1)
    <2> DEFINE g == [p \in 0..n + 1 |-> IF p = n + 1 THEN f[n] + s[n + 1].size ELSE f[p]]
    <2>1. \A p \in 0..n : f[p] = IF p = 0 THEN 0 ELSE f[p - 1] + s[p].size
      BY <1>2
    <2>2. \A p \in 0..n : g[p] = f[p]
      OBVIOUS
    <2>3. g[n + 1] = f[n] + s[n + 1].size
      OBVIOUS
    <2>5. g = [p \in 0..n + 1 |-> g[p]]
      OBVIOUS
    <2> HIDE DEF g
    <2>4. \A p \in 0..n + 1 : g[p] = IF p = 0 THEN 0 ELSE g[p - 1] + s[p].size
      <3> SUFFICES ASSUME NEW p \in 0..n + 1
                   PROVE  g[p] = IF p = 0 THEN 0 ELSE g[p - 1] + s[p].size
        OBVIOUS
      <3>1. CASE p = n + 1
        BY <2>2, <2>3, <3>1
      <3>2. CASE p # n + 1
        <4>1. p \in 0..n /\ (p # 0 => p - 1 \in 0..n)
          BY <3>2
        <4> QED BY <4>1, <2>1, <2>2
      <3> QED BY <3>1, <3>2
    <2> QED BY <2>4, <2>5
  <1> HIDE DEF Sums
  <1>3. Bad = {}
    <2> SUFFICES ASSUME Bad # {} PROVE FALSE
      OBVIOUS
    <2>1. Bad \subseteq Nat
      OBVIOUS
    <2>2. PICK n \in Bad : \A m \in Bad : n <= m
      BY <2>1, LeastNat
    <2>3. n # 0
      BY <2>2, <1>1
    <2>4. n - 1 \in 0..Len(s) /\ n - 1 \notin Bad
      BY <2>1, <2>2, <2>3
    <2>5. PICK f : Sums(f, n - 1)
      BY <2>4
    <2>6. \E g : Sums(g, (n - 1) + 1)
      BY <2>4, <2>5, <1>2
    <2>7. (n - 1) + 1 = n
      BY <2>1
    <2> QED BY <2>2, <2>6, <2>7
  <1>4. PICK f : Sums(f, Len(s))
    <2>1. Len(s) \in 0..Len(s)
      OBVIOUS
    <2> QED BY <2>1, <1>3
  <1>5. Sums(Usb!Ends(s), Len(s))
    BY <1>4 DEF Usb!Ends, Sums
  <1> QED BY <1>5 DEF Sums

\* Each packet ends its own size behind the one before it.
LEMMA EndIs ==
  ASSUME stream \in Seq(Usb!Packets)
  PROVE  /\ Usb!End(0) = 0
         /\ \A p \in 1..Len(stream) : Usb!End(p) = Usb!End(p - 1) + stream[p].size
         /\ \A p \in 0..Len(stream) : Usb!End(p) \in Nat
  <1>1. Usb!End(0) = 0 /\ \A p \in 1..Len(stream) : Usb!End(p) = Usb!End(p - 1) + stream[p].size
    BY EndsAre DEF Usb!End
  <1> DEFINE Bad == {p \in 0..Len(stream) : Usb!End(p) \notin Nat}
  <1>2. Bad = {}
    <2> SUFFICES ASSUME Bad # {} PROVE FALSE
      OBVIOUS
    <2>1. Bad \subseteq Nat
      OBVIOUS
    <2>2. PICK p \in Bad : \A q \in Bad : p <= q
      BY <2>1, LeastNat
    <2>3. p # 0 /\ p \in 0..Len(stream)
      BY <2>2, <1>1
    <2>4. p - 1 \in 0..Len(stream) /\ p - 1 \notin Bad /\ p \in 1..Len(stream)
      BY <2>2, <2>3
    <2>5. Usb!End(p - 1) \in Nat /\ stream[p].size \in Nat
      BY <2>4, PacketSizes
    <2>6. Usb!End(p) \in Nat
      BY <2>4, <2>5, <1>1
    <2> QED BY <2>2, <2>6
  <1> QED BY <1>1, <1>2

\* Each packet ends behind the ones before it.
LEMMA EndsGrow ==
  ASSUME stream \in Seq(Usb!Packets), NEW p \in 0..Len(stream), NEW q \in 0..Len(stream), p < q
  PROVE  Usb!End(p) < Usb!End(q)
  <1> DEFINE Bad == {r \in 0..Len(stream) : p < r /\ ~(Usb!End(p) < Usb!End(r))}
  <1>1. Bad = {}
    <2> SUFFICES ASSUME Bad # {} PROVE FALSE
      OBVIOUS
    <2>1. Bad \subseteq Nat
      OBVIOUS
    <2>2. PICK r \in Bad : \A x \in Bad : r <= x
      BY <2>1, LeastNat
    <2>3. r \in 1..Len(stream) /\ r - 1 \in 0..Len(stream) /\ p < r /\ ~(Usb!End(p) < Usb!End(r))
          /\ r - 1 \notin Bad
      BY <2>2
    <2>4. Usb!End(r) = Usb!End(r - 1) + stream[r].size /\ stream[r].size \in Nat \ {0}
          /\ Usb!End(r) \in Nat /\ Usb!End(r - 1) \in Nat /\ Usb!End(p) \in Nat
      BY <2>3, EndIs, PacketSizes
    <2>5. r - 1 = p \/ Usb!End(p) < Usb!End(r - 1)
      BY <2>3
    <2> QED BY <2>3, <2>4, <2>5
  <1> QED BY <1>1

\* That many bytes.
LEMMA BytesAre ==
  ASSUME NEW a \in Nat, NEW n \in Nat
  PROVE  /\ Usb!Bytes(a, n) \in Seq(Nat) /\ Len(Usb!Bytes(a, n)) = n
         /\ Usb!Bytes(a, n) = << >> <=> n = 0
  <1>1. \A i \in 1..n : a + i - 1 \in Nat
    OBVIOUS
  <1>2. Usb!Bytes(a, n) \in Seq(Nat) /\ Len(Usb!Bytes(a, n)) = n
    BY <1>1 DEF Usb!Bytes
  <1>3. Usb!Bytes(a, n) = << >> <=> n = 0
    BY <1>2, EmptySeq
  <1> QED BY <1>2, <1>3

\* Bytes that follow one another.
LEMMA BytesFollow ==
  ASSUME NEW a \in Nat, NEW n \in Nat, NEW m \in Nat
  PROVE  Usb!Bytes(a, n) \o Usb!Bytes(a + n, m) = Usb!Bytes(a, n + m)
  <1> DEFINE both == Usb!Bytes(a, n) \o Usb!Bytes(a + n, m)
  <1>1. /\ Usb!Bytes(a, n) \in Seq(Nat) /\ Len(Usb!Bytes(a, n)) = n
        /\ Usb!Bytes(a + n, m) \in Seq(Nat) /\ Len(Usb!Bytes(a + n, m)) = m
        /\ Usb!Bytes(a, n + m) \in Seq(Nat) /\ Len(Usb!Bytes(a, n + m)) = n + m
    <2>1. a + n \in Nat /\ n + m \in Nat
      OBVIOUS
    <2> QED BY <2>1, BytesAre, Zenon
  <1>2. both \in Seq(Nat) /\ Len(both) = n + m
    <2>1. both \in Seq(Nat) /\ Len(both) = Len(Usb!Bytes(a, n)) + Len(Usb!Bytes(a + n, m))
      BY <1>1, ConcatProperties, Zenon
    <2> QED BY <1>1, <2>1
  <1>3. \A i \in 1..n + m : both[i] = Usb!Bytes(a, n + m)[i]
    BY <1>1 DEF Usb!Bytes
  <1> QED BY <1>1, <1>2, <1>3, SeqEqual

-------------------------------------------------------------------------------
(* Where in the stream a byte is. *)

\* The packets that have ended by a byte of p, begun before it, and hold it.
LEMMA Within ==
  ASSUME stream \in Seq(Usb!Packets), NEW p \in DOMAIN stream, NEW b \in Nat
  PROVE  /\ Usb!End(p - 1) \in Nat /\ Usb!End(p) \in Nat /\ Usb!End(p - 1) < Usb!End(p)
         /\ Usb!End(p) = Usb!End(p - 1) + stream[p].size
         /\ Usb!End(p - 1) <= b /\ b < Usb!End(p) => Whole(b) = 1 .. p - 1
         /\ b = Usb!End(p) => Whole(b) = 1 .. p
         /\ Usb!End(p - 1) < b /\ b <= Usb!End(p) => Begun(b) = 1 .. p /\ Usb!PacketsIn(b, b) = {p}
  <1>1. /\ DOMAIN stream = 1..Len(stream) /\ Len(stream) \in Nat
        /\ p \in 1..Len(stream) /\ p - 1 \in 0..Len(stream) /\ p \in 0..Len(stream)
    OBVIOUS
  <1>2. /\ Usb!End(p - 1) \in Nat /\ Usb!End(p) \in Nat /\ Usb!End(p - 1) < Usb!End(p)
        /\ Usb!End(p) = Usb!End(p - 1) + stream[p].size
    BY <1>1, EndIs, EndsGrow
  <1>3. \A q \in 1..Len(stream) :
          /\ q \in 0..Len(stream) /\ q - 1 \in 0..Len(stream)
          /\ Usb!End(q) \in Nat /\ Usb!End(q - 1) \in Nat
          /\ q < p => Usb!End(q) <= Usb!End(p - 1) /\ Usb!End(q - 1) < Usb!End(p - 1)
          /\ q > p => Usb!End(p) <= Usb!End(q - 1) /\ Usb!End(p) < Usb!End(q)
    <2> SUFFICES ASSUME NEW q \in 1..Len(stream)
                 PROVE  /\ q \in 0..Len(stream) /\ q - 1 \in 0..Len(stream)
                        /\ Usb!End(q) \in Nat /\ Usb!End(q - 1) \in Nat
                        /\ q < p => Usb!End(q) <= Usb!End(p - 1) /\ Usb!End(q - 1) < Usb!End(p - 1)
                        /\ q > p => Usb!End(p) <= Usb!End(q - 1) /\ Usb!End(p) < Usb!End(q)
      OBVIOUS
    <2>1. q \in 0..Len(stream) /\ q - 1 \in 0..Len(stream)
      OBVIOUS
    <2>2. Usb!End(q) \in Nat /\ Usb!End(q - 1) \in Nat
      BY <2>1, EndIs
    <2>3. CASE q < p
      <3>1. q = p - 1 \/ q < p - 1
        BY <1>1, <2>1, <2>3
      <3>2. q - 1 < p - 1
        BY <1>1, <2>1, <2>3
      <3>3. Usb!End(q - 1) < Usb!End(p - 1)
        BY <1>1, <2>1, <3>2, EndsGrow
      <3>4. Usb!End(q) <= Usb!End(p - 1)
        BY <1>1, <1>2, <2>1, <2>2, <3>1, EndsGrow
      <3> QED BY <1>1, <2>1, <2>2, <2>3, <3>3, <3>4
    <2>4. CASE q > p
      <3>1. p = q - 1 \/ p < q - 1
        BY <1>1, <2>1, <2>4
      <3>2. Usb!End(p) < Usb!End(q)
        BY <1>1, <2>1, <2>4, EndsGrow
      <3>3. Usb!End(p) <= Usb!End(q - 1)
        BY <1>1, <1>2, <2>1, <2>2, <3>1, EndsGrow
      <3> QED BY <1>1, <2>1, <2>2, <2>4, <3>2, <3>3
    <2> QED BY <1>1, <2>1, <2>2, <2>3, <2>4
  <1>4. ASSUME Usb!End(p - 1) <= b, b < Usb!End(p) PROVE Whole(b) = 1 .. p - 1
    <2>1. ASSUME NEW q \in 1..Len(stream) PROVE Usb!End(q) <= b <=> q < p
      <3>1. CASE q < p
        BY <1>1, <1>2, <1>3, <1>4, <3>1
      <3>2. CASE q = p
        BY <1>1, <1>2, <1>4, <3>2
      <3>3. CASE q > p
        BY <1>1, <1>2, <1>3, <1>4, <3>3
      <3> QED BY <1>1, <3>1, <3>2, <3>3
    <2>2. Whole(b) = {q \in 1..Len(stream) : q < p}
      BY <1>1, <2>1 DEF Whole
    <2> QED BY <1>1, <2>2
  <1>5. ASSUME b = Usb!End(p) PROVE Whole(b) = 1 .. p
    <2>1. ASSUME NEW q \in 1..Len(stream) PROVE Usb!End(q) <= b <=> q <= p
      <3>1. CASE q < p
        BY <1>1, <1>2, <1>3, <1>5, <3>1
      <3>2. CASE q = p
        BY <1>1, <1>2, <1>5, <3>2
      <3>3. CASE q > p
        BY <1>1, <1>2, <1>3, <1>5, <3>3
      <3> QED BY <1>1, <3>1, <3>2, <3>3
    <2>2. Whole(b) = {q \in 1..Len(stream) : q <= p}
      BY <1>1, <2>1 DEF Whole
    <2> QED BY <1>1, <2>2
  <1>6. ASSUME Usb!End(p - 1) < b, b <= Usb!End(p)
        PROVE  Begun(b) = 1 .. p /\ Usb!PacketsIn(b, b) = {p}
    <2>1. ASSUME NEW q \in 1..Len(stream) PROVE Usb!End(q - 1) < b <=> q <= p
      <3>1. CASE q < p
        BY <1>1, <1>2, <1>3, <1>6, <3>1
      <3>2. CASE q = p
        BY <1>1, <1>2, <1>6, <3>2
      <3>3. CASE q > p
        BY <1>1, <1>2, <1>3, <1>6, <3>3
      <3> QED BY <1>1, <3>1, <3>2, <3>3
    <2>2. ASSUME NEW q \in 1..Len(stream) PROVE Usb!End(q) >= b <=> q >= p
      <3>1. CASE q < p
        BY <1>1, <1>2, <1>3, <1>6, <3>1
      <3>2. CASE q = p
        BY <1>1, <1>2, <1>6, <3>2
      <3>3. CASE q > p
        BY <1>1, <1>2, <1>3, <1>6, <3>3
      <3> QED BY <1>1, <3>1, <3>2, <3>3
    <2>3. Begun(b) = {q \in 1..Len(stream) : q <= p}
      BY <1>1, <2>1 DEF Begun
    <2>4. Usb!PacketsIn(b, b) = {q \in 1..Len(stream) : q <= p /\ q >= p}
      BY <1>1, <2>1, <2>2 DEF Usb!PacketsIn
    <2>5. Begun(b) = 1 .. p /\ Usb!PacketsIn(b, b) = {p}
      BY <1>1, <2>3, <2>4
    <2> QED BY <2>5
  <1> QED BY <1>2, <1>4, <1>5, <1>6

\* A byte behind the end of a packet and within the stream is in the next one.
LEMMA NextPacket ==
  ASSUME stream \in Seq(Usb!Packets), NEW b \in Nat, b <= Usb!Length, Usb!Boundary(b - 1), b > 0
  PROVE  \E p \in DOMAIN stream : Usb!End(p - 1) = b - 1
  <1>1. PICK q \in 0..Len(stream) : Usb!End(q) = b - 1
    BY DEF Usb!Boundary
  <1>2. q # Len(stream)
    BY <1>1 DEF Usb!Length
  <1>3. q + 1 \in DOMAIN stream /\ (q + 1) - 1 = q
    BY <1>1, <1>2
  <1> QED BY <1>1, <1>3

\* The stream begins and ends between two packets.
LEMMA LengthIs ==
  ASSUME stream \in Seq(Usb!Packets)
  PROVE  /\ Usb!Length \in Nat /\ Usb!Boundary(Usb!Length) /\ Usb!Boundary(0)
         /\ \A p \in 0..Len(stream) : Usb!End(p) <= Usb!Length
  <1>1. Len(stream) \in 0..Len(stream) /\ 0 \in 0..Len(stream)
    OBVIOUS
  <1>2. Usb!Length \in Nat /\ Usb!Boundary(Usb!Length) /\ Usb!Boundary(0)
    BY <1>1, EndIs DEF Usb!Length, Usb!Boundary
  <1>3. ASSUME NEW p \in 0..Len(stream) PROVE Usb!End(p) <= Usb!Length
    <2>1. p = Len(stream) \/ p < Len(stream)
      OBVIOUS
    <2>2. Usb!End(p) \in Nat
      BY EndIs
    <2> QED BY <1>1, <1>2, <2>1, <2>2, EndsGrow DEF Usb!Length
  <1> QED BY <1>2, <1>3

-------------------------------------------------------------------------------
(* What has been handled, in order. *)

\* UsbRxStream counts as this module does.
LEMMA Counted == \A S : Usb!Cardinality(S) = Cardinality(S)
  BY DEF Usb!Cardinality, Cardinality

\* One more packet, behind the others.
LEMMA OrderGrows ==
  ASSUME NEW h \in Seq(Seq(Nat)), NEW P \in SUBSET Nat, IsFiniteSet(P), NEW p \in Nat,
         \A q \in P : q < p, Usb!InOrder(h, P)
  PROVE  Usb!InOrder(Append(h, Usb!Packet(p)), P \cup {p})
  <1>1. p \notin P
    OBVIOUS
  <1>2. /\ Cardinality(P \cup {p}) = Cardinality(P) + 1 /\ Cardinality(P) \in Nat
    BY <1>1, FS_AddElement, FS_CardinalityType
  <1>3. Len(h) = Cardinality(P)
    BY Counted DEF Usb!InOrder
  <1> DEFINE g == Append(h, Usb!Packet(p))
  <1>4. /\ Len(g) = Len(h) + 1 /\ g[Len(h) + 1] = Usb!Packet(p)
        /\ \A i \in 1..Len(h) : g[i] = h[i]
    OBVIOUS
  <1>5. ASSUME NEW r \in P \cup {p}
        PROVE  g[Cardinality({q \in P \cup {p} : q <= r})] = Usb!Packet(r)
    <2>1. CASE r = p
      <3>1. \A q \in P \cup {p} : q <= r
        BY <2>1
      <3>2. {q \in P \cup {p} : q <= r} = P \cup {p}
        BY <3>1
      <3> QED BY <1>2, <1>3, <1>4, <2>1, <3>2
    <2>2. CASE r \in P
      <3>1. {q \in P \cup {p} : q <= r} = {q \in P : q <= r}
        BY <2>2
      <3> DEFINE R == {q \in P : q <= r}
      <3>2. R \in SUBSET P /\ r \in R
        BY <2>2
      <3>3. IsFiniteSet(R) /\ Cardinality(R) <= Cardinality(P) /\ Cardinality(R) \in Nat
        BY <3>2, FS_Subset, FS_CardinalityType
      <3>4. Cardinality(R) # 0
        BY <3>2, <3>3, FS_EmptySet
      <3>5. Cardinality(R) \in 1..Len(h)
        BY <1>2, <1>3, <3>3, <3>4
      <3>6. h[Cardinality(R)] = Usb!Packet(r)
        BY <2>2, Counted DEF Usb!InOrder
      <3> QED BY <1>4, <3>1, <3>5, <3>6
    <2> QED BY <2>1, <2>2
  <1> QED BY <1>2, <1>3, <1>4, <1>5, Counted DEF Usb!InOrder

\* Nothing is handled in the order of no packets.
LEMMA NothingInOrder == Usb!InOrder(<< >>, {})
  BY FS_EmptySet, Counted DEF Usb!InOrder

\* What ends and begins where a packet ends, or where none has begun.
LEMMA AtBoundary ==
  ASSUME stream \in Seq(Usb!Packets), NEW q \in 0..Len(stream)
  PROVE  /\ Usb!End(q) \in Nat
         /\ Whole(Usb!End(q)) = 1..q /\ Begun(Usb!End(q)) = 1..q
         /\ \A r \in q..Len(stream) : Usb!PacketsIn(Usb!End(q) + 1, Usb!End(r)) = q + 1 .. r
  <1>1. DOMAIN stream = 1..Len(stream) /\ Len(stream) \in Nat /\ q \in Nat
    OBVIOUS
  <1>2. \A x \in 0..Len(stream) : Usb!End(x) \in Nat
    BY EndIs
  <1>3. \A x, y \in 0..Len(stream) : x < y => Usb!End(x) < Usb!End(y)
    BY EndsGrow
  <1>4. \A x \in 1..Len(stream) : x \in 0..Len(stream) /\ x - 1 \in 0..Len(stream)
    OBVIOUS
  <1>5. ASSUME NEW y \in 0..Len(stream), NEW x \in 1..Len(stream)
        PROVE  (Usb!End(x) <= Usb!End(y) <=> x <= y) /\ (Usb!End(x - 1) < Usb!End(y) <=> x <= y)
    <2>1. x \in Nat /\ y \in Nat /\ x - 1 \in Nat
      OBVIOUS
    <2>0. Usb!End(x) \in Nat /\ Usb!End(y) \in Nat /\ Usb!End(x - 1) \in Nat
      BY <1>2, <1>4
    <2>2. CASE x <= y
      <3>1. x = y \/ x < y
        BY <2>1, <2>2
      <3>2. x - 1 < y
        BY <2>1, <2>2
      <3>3. Usb!End(x - 1) < Usb!End(y)
        BY <1>3, <1>4, <3>2
      <3>4. x = y \/ Usb!End(x) < Usb!End(y)
        BY <1>3, <1>4, <3>1
      <3>5. Usb!End(x) <= Usb!End(y)
        BY <2>0, <3>4
      <3> QED BY <2>2, <3>3, <3>5
    <2>3. CASE y < x
      <3>1. y = x - 1 \/ y < x - 1
        BY <2>1, <2>3
      <3>2. Usb!End(y) < Usb!End(x)
        BY <1>3, <1>4, <2>3
      <3>3. y = x - 1 \/ Usb!End(y) < Usb!End(x - 1)
        BY <1>3, <1>4, <3>1
      <3>4. Usb!End(y) <= Usb!End(x - 1)
        BY <2>0, <3>3
      <3> QED BY <2>0, <2>1, <2>3, <3>2, <3>4
    <2> QED BY <2>1, <2>2, <2>3
  <1>6. Whole(Usb!End(q)) = {x \in 1..Len(stream) : x <= q}
    BY <1>1, <1>5 DEF Whole
  <1>7. Begun(Usb!End(q)) = {x \in 1..Len(stream) : x <= q}
    BY <1>1, <1>5 DEF Begun
  <1>8. ASSUME NEW r \in q..Len(stream) PROVE Usb!PacketsIn(Usb!End(q) + 1, Usb!End(r)) = q + 1 .. r
    <2>1. r \in 0..Len(stream)
      BY <1>1
    <2>2. \A x \in 1..Len(stream) : Usb!End(x) >= Usb!End(q) + 1 <=> ~(x <= q)
      BY <1>2, <1>4, <1>5
    <2>3. Usb!PacketsIn(Usb!End(q) + 1, Usb!End(r)) = {x \in 1..Len(stream) : x <= r /\ ~(x <= q)}
      BY <1>1, <1>5, <2>1, <2>2 DEF Usb!PacketsIn
    <2>4. r \in Nat /\ r <= Len(stream)
      BY <1>1
    <2>5. {x \in 1..Len(stream) : x <= r /\ ~(x <= q)} = q + 1 .. r
      BY <1>1, <2>4
    <2> QED BY <2>3, <2>5
  <1> QED BY <1>1, <1>2, <1>6, <1>7, <1>8

\* What passes unseen is missed: no more is whole but what is missed.
LEMMA MissedAreBetween ==
  ASSUME stream \in Seq(Usb!Packets), NEW d \in Nat, NEW e \in Nat, d <= e,
         NEW M, M \subseteq Begun(d)
  PROVE  /\ Whole(e) \ (M \cup Usb!PacketsIn(d + 1, e)) = Whole(d) \ M
         /\ M \cup Usb!PacketsIn(d + 1, e) \subseteq Begun(e)
  <1>1. \A x \in DOMAIN stream :
          Usb!End(x) \in Nat /\ Usb!End(x - 1) \in Nat /\ Usb!End(x - 1) < Usb!End(x)
    BY Within
  <1>2. \A x \in DOMAIN stream :
          Usb!End(x) <= d <=> Usb!End(x) <= e /\ ~(Usb!End(x - 1) < e /\ Usb!End(x) >= d + 1)
    BY <1>1
  <1>3. \A x \in Begun(d) : x \in Begun(e)
    BY <1>1 DEF Begun
  <1>4. Usb!PacketsIn(d + 1, e) \subseteq Begun(e)
    BY DEF Usb!PacketsIn, Begun
  <1> QED BY <1>2, <1>3, <1>4 DEF Whole, Usb!PacketsIn

-------------------------------------------------------------------------------
(* The stream does not change. *)

\* What is computed of the stream does not change.
LEMMA Frozen ==
  ASSUME stream' = stream
  PROVE  /\ \A q : Usb!End(q)' = Usb!End(q)
         /\ Usb!Length' = Usb!Length
  <1>1. \A q : Usb!End(q)' = Usb!End(q)
    BY DEF Usb!End
  <1>2. Usb!Length' = Usb!Length
    BY <1>1 DEF Usb!Length
  <1> QED BY <1>1, <1>2

\* TypeOK', conjunct by conjunct.
LEMMA FrozenTypes ==
  ASSUME stream' = stream, stream \in Seq(Usb!Packets), delivered' \in 0..Usb!Length,
         HW_UP' \in BOOLEAN, parsing' \in BOOLEAN, ptr' \in Nat, remsize' \in 0..MaxTransfer,
         rxtruncbuf' \in Seq(Nat), truncated' \in 0..RXBUF_SIZE,
         usb_handled' \in Seq(Seq(Nat)), missed' \subseteq DOMAIN stream, derailed' \in BOOLEAN
  PROVE  Usb!TypeOK'
  BY Frozen, Zenon DEF Usb!TypeOK

\* InPlace', conjunct by conjunct.
LEMMA FrozenPlace ==
  ASSUME stream' = stream
  PROVE  /\ Front' = IF parsing' /\ rxtruncbuf' = << >> THEN ptr' - 1 ELSE delivered'
         /\ InPlace' <=>
              /\ (parsing' \/ HW_UP') /\ rxtruncbuf' # << >> =>
                   /\ remsize' = 0
                   /\ \E p \in DOMAIN stream :
                        /\ rxtruncbuf' = Usb!Bytes(Usb!End(p - 1) + 1, Len(rxtruncbuf'))
                        /\ Usb!End(p - 1) + Len(rxtruncbuf') = delivered'
                        /\ truncated' = stream[p].size
                        /\ missed' \subseteq 1 .. p - 1
              /\ parsing' /\ rxtruncbuf' = << >> =>
                   ptr' \in Nat \ {0} /\ ptr' + remsize' = delivered' + 1 /\ Usb!Boundary(ptr' - 1)
              /\ ~parsing' /\ HW_UP' /\ rxtruncbuf' = << >> => Usb!Boundary(delivered')
              /\ missed' \subseteq Begun(Front')
         /\ Usb!InOrder(usb_handled, Whole(Front) \ missed)' <=>
              Usb!InOrder(usb_handled', Whole(Front') \ missed')
  <1>1. \A q : Usb!End(q)' = Usb!End(q)
    BY Frozen
  <1>2. Front' = IF parsing' /\ rxtruncbuf' = << >> THEN ptr' - 1 ELSE delivered'
    BY DEF Front
  <1>3. Usb!Boundary(ptr - 1)' <=> Usb!Boundary(ptr' - 1)
    BY <1>1 DEF Usb!Boundary
  <1>4. Usb!Boundary(delivered)' <=> Usb!Boundary(delivered')
    BY <1>1 DEF Usb!Boundary
  <1>5. Begun(Front)' = Begun(Front')
    BY <1>1 DEF Begun
  <1>6. Whole(Front)' = Whole(Front')
    BY <1>1 DEF Whole
  <1>7. \A p : CutIn(p)' <=>
          /\ rxtruncbuf' = Usb!Bytes(Usb!End(p - 1) + 1, Len(rxtruncbuf'))
          /\ Usb!End(p - 1) + Len(rxtruncbuf') = delivered'
          /\ truncated' = stream[p].size
          /\ missed' \subseteq 1 .. p - 1
    BY <1>1 DEF CutIn, Usb!Bytes
  <1>8. \A p : Usb!Packet(p)' = Usb!Packet(p)
    BY <1>1 DEF Usb!Packet, Usb!Bytes
  <1>9. Usb!InOrder(usb_handled, Whole(Front) \ missed)' <=>
          Usb!InOrder(usb_handled', Whole(Front') \ missed')
    BY <1>6, <1>8 DEF Usb!InOrder
  <1>10. InPlace' <=>
           /\ (parsing' \/ HW_UP') /\ rxtruncbuf' # << >> =>
                remsize' = 0 /\ \E p \in DOMAIN stream : CutIn(p)'
           /\ parsing' /\ rxtruncbuf' = << >> =>
                ptr' \in Nat \ {0} /\ ptr' + remsize' = delivered' + 1 /\ Usb!Boundary(ptr' - 1)
           /\ ~parsing' /\ HW_UP' /\ rxtruncbuf' = << >> => Usb!Boundary(delivered')
           /\ missed' \subseteq Begun(Front')
    BY <1>3, <1>4, <1>5 DEF InPlace
  <1> QED BY <1>2, <1>7, <1>9, <1>10
-------------------------------------------------------------------------------
(* Types, whatever is taken for a header. *)

\* A transfer does not go beyond the stream.
LEMMA SizesAre ==
  ASSUME Usb!TypeOK, NEW size \in Usb!Sizes
  PROVE  size \in 0..MaxTransfer /\ delivered + size \in 0..Usb!Length /\ delivered \in Nat
  <1>1. Usb!Length \in Nat
    BY LengthIs DEF Usb!TypeOK
  <1>2. size \in 0..MaxTransfer /\ delivered + size <= Usb!Length /\ delivered \in 0..Usb!Length
    BY DEF Usb!Sizes, Usb!TypeOK
  <1> QED BY <1>1, <1>2, StreamConstants

\* Whatever is taken for a header says that the packet has a size.
LEMMA HeadersAre ==
  ASSUME Usb!TypeOK, NEW b \in Nat, NEW header \in Usb!HeadersAt(b)
  PROVE  header.size \in Nat \ {0} /\ header.txstat \in BOOLEAN
  <1>1. CASE b <= Usb!Length /\ Usb!Boundary(b - 1)
    <2>1. PICK p \in Usb!PacketsIn(b, b) : header = stream[p]
      BY <1>1 DEF Usb!HeadersAt
    <2>2. p \in 1..Len(stream) /\ stream \in Seq(Usb!Packets)
      BY DEF Usb!PacketsIn, Usb!TypeOK
    <2> QED BY <2>1, <2>2, PacketSizes
  <1>2. CASE ~(b <= Usb!Length /\ Usb!Boundary(b - 1))
    <2>1. header \in [size : RXBUF_HDRSIZE .. RXBUF_SIZE + 1, txstat : BOOLEAN]
      BY <1>2, Zenon DEF Usb!HeadersAt
    <2>2. header.size \in RXBUF_HDRSIZE .. RXBUF_SIZE + 1
      BY <2>1
    <2>3. header.txstat \in BOOLEAN
      BY <2>1, Zenon
    <2>4. header.size \in Nat \ {0}
      BY <2>2, StreamConstants
    <2> QED BY <2>3, <2>4
  <1> QED BY <1>1, <1>2

\* A device that is booted again begins with the next packet.
LEMMA StartsAtBoundary ==
  ASSUME stream \in Seq(Usb!Packets), delivered \in 0..Usb!Length, Usb!OpStart
  PROVE  delivered' \in delivered..Usb!Length /\ Usb!Boundary(delivered')
  <1> DEFINE Starts == {b \in delivered..Usb!Length : Usb!Boundary(b)}
  <1>1. Usb!Length \in Nat /\ Usb!Boundary(Usb!Length) /\ delivered \in Nat
    BY LengthIs
  <1>2. Starts \subseteq Nat /\ Starts # {}
    BY <1>1
  <1>3. PICK x \in Starts : \A y \in Starts : x <= y
    BY <1>2, LeastNat
  <1>4. x \in delivered..Usb!Length /\ Usb!Boundary(x)
    BY <1>3
  <1>5. \A c \in delivered .. x - 1 : ~Usb!Boundary(c)
    <2>1. ASSUME NEW c \in delivered .. x - 1, Usb!Boundary(c) PROVE FALSE
      <3>1. c \in delivered..Usb!Length /\ c < x
        BY <1>1, <1>4
      <3>2. c \in Starts
        BY <2>1, <3>1
      <3>3. x <= c
        BY <1>3, <3>2
      <3> QED BY <1>1, <1>4, <3>1, <3>3
    <2> QED BY <2>1
  <1> DEFINE Earliest(b) == Usb!Boundary(b) /\ \A c \in delivered .. b - 1 : ~Usb!Boundary(c)
  <1>6. Earliest(x)
    BY <1>4, <1>5
  <1>7. delivered' = CHOOSE b \in delivered..Usb!Length : Earliest(b)
    BY DEF Usb!OpStart
  <1> HIDE DEF Earliest
  <1>8. delivered' \in delivered..Usb!Length /\ Earliest(delivered')
    BY <1>4, <1>6, <1>7
  <1> QED BY <1>8 DEF Earliest

\* What is handled are bytes.
LEMMA HandledAre ==
  ASSUME Usb!TypeOK, NEW bytes \in Seq(Nat), Usb!Handle(bytes) \/ UNCHANGED usb_handled
  PROVE  usb_handled' \in Seq(Seq(Nat))
  <1>1. usb_handled \in Seq(Seq(Nat))
    BY DEF Usb!TypeOK
  <1>2. Append(usb_handled, bytes) \in Seq(Seq(Nat))
    BY <1>1
  <1> QED BY <1>1, <1>2, Zenon DEF Usb!Handle

\* What is missed are packets of the stream.
LEMMA MissedAre ==
  ASSUME Usb!TypeOK, NEW a, NEW b, Usb!Miss(Usb!PacketsIn(a, b)) \/ UNCHANGED missed
  PROVE  missed' \subseteq DOMAIN stream
  BY DEF Usb!TypeOK, Usb!Miss, Usb!PacketsIn

\* Each step keeps the types, and rxtruncbuf fits.
LEMMA StreamTypes ==
  ASSUME Usb!TypeOK, Usb!TruncbufFits, Usb!Next
  PROVE  Usb!TypeOK' /\ Usb!TruncbufFits'
  <1>0. /\ Usb!Length \in Nat /\ delivered \in 0..Usb!Length /\ delivered \in Nat
        /\ ptr \in Nat /\ remsize \in 0..MaxTransfer /\ MaxTransfer \in Nat /\ remsize \in Nat
        /\ rxtruncbuf \in Seq(Nat) /\ Len(rxtruncbuf) \in Nat
        /\ truncated \in 0..RXBUF_SIZE /\ truncated \in Nat /\ RXBUF_SIZE \in Nat
        /\ stream \in Seq(Usb!Packets) /\ HW_UP \in BOOLEAN /\ parsing \in BOOLEAN
        /\ usb_handled \in Seq(Seq(Nat)) /\ missed \subseteq DOMAIN stream /\ derailed \in BOOLEAN
    BY LengthIs, StreamConstants DEF Usb!TypeOK
  <1>10. 0 \in 0..MaxTransfer
    BY StreamConstants
  <1>1. ASSUME NEW size \in Usb!Sizes, Usb!CompleteRx(size) PROVE Usb!TypeOK' /\ Usb!TruncbufFits'
    <2>0. size \in 0..MaxTransfer /\ delivered + size \in 0..Usb!Length
      BY SizesAre
    <2>1. stream' = stream /\ delivered' = delivered + size /\ parsing' = TRUE /\ HW_UP' = HW_UP
          /\ derailed' = derailed
      BY <1>1 DEF Usb!CompleteRx
    <2>2. CASE rxtruncbuf = << >>
      <3>1. ptr' = delivered + 1 /\ remsize' = size /\ UNCHANGED <<Usb!buffer, usb_handled, missed>>
        BY <1>1, <2>2 DEF Usb!CompleteRx
      <3>2. Usb!TypeOK'
        BY <1>0, <2>0, <2>1, <3>1, FrozenTypes DEF Usb!buffer
      <3> QED BY <3>1, <3>2 DEF Usb!TruncbufFits, Usb!buffer
    <2>3. CASE rxtruncbuf # << >>
      <3> DEFINE lacks == truncated - Len(rxtruncbuf)
      <3>1. Len(rxtruncbuf) < truncated /\ lacks \in Nat
        BY <1>0, <2>3 DEF Usb!TruncbufFits
      <3>2. Usb!CompleteCut(size)
        BY <1>1, <2>3 DEF Usb!CompleteRx
      <3>3. CASE size < lacks
        <4>1. /\ rxtruncbuf' = rxtruncbuf \o Usb!Bytes(delivered + 1, size)
              /\ remsize' = 0 /\ UNCHANGED <<ptr, truncated, usb_handled, missed>>
          BY <3>2, <3>3 DEF Usb!CompleteCut, Usb!NotEnough
        <4>2. /\ Usb!Bytes(delivered + 1, size) \in Seq(Nat)
              /\ Len(Usb!Bytes(delivered + 1, size)) = size
          <5>1. delivered + 1 \in Nat /\ size \in Nat
            BY <1>0, <2>0
          <5> QED BY <5>1, BytesAre
        <4>3. rxtruncbuf' \in Seq(Nat) /\ Len(rxtruncbuf') = Len(rxtruncbuf) + size
          BY <1>0, <4>1, <4>2, ConcatProperties
        <4>4. Usb!TypeOK'
          BY <1>0, <2>0, <2>1, <4>1, <4>3, FrozenTypes
        <4>5. Len(rxtruncbuf') < truncated' /\ Len(rxtruncbuf') # 0
          BY <1>0, <2>0, <2>3, <3>3, <4>1, <4>3, EmptySeq
        <4> QED BY <4>4, <4>5, EmptySeq DEF Usb!TruncbufFits
      <3>4. CASE ~(size < lacks)
        <4> DEFINE bytes == rxtruncbuf \o Usb!Bytes(delivered + 1, lacks)
        <4>1. /\ Usb!Handle(bytes) \/ UNCHANGED usb_handled
              /\ Usb!Miss(Usb!PacketsIn(delivered + lacks, delivered + lacks)) \/ UNCHANGED missed
              /\ rxtruncbuf' = << >> /\ truncated' = 0
              /\ ptr' = delivered + 1 + lacks /\ remsize' = size - lacks
          BY <3>2, <3>4 DEF Usb!CompleteCut, Usb!NotEnough
        <4>2. bytes \in Seq(Nat)
          BY <1>0, <3>1, BytesAre
        <4>3. usb_handled' \in Seq(Seq(Nat)) /\ missed' \subseteq DOMAIN stream
          BY <4>1, <4>2, HandledAre, MissedAre
        <4>4. ptr' \in Nat /\ remsize' \in 0..MaxTransfer /\ truncated' \in 0..RXBUF_SIZE
              /\ rxtruncbuf' \in Seq(Nat)
          BY <1>0, <2>0, <3>1, <3>4, <4>1
        <4>5. Usb!TypeOK'
          BY <1>0, <2>0, <2>1, <4>3, <4>4, FrozenTypes
        <4> QED BY <4>1, <4>5 DEF Usb!TruncbufFits
      <3> QED BY <3>3, <3>4
    <2> QED BY <2>2, <2>3
  <1>2. ASSUME NEW size \in Usb!Sizes, Usb!CompleteRxError(size)
        PROVE  Usb!TypeOK' /\ Usb!TruncbufFits'
    <2>1. delivered + size \in 0..Usb!Length
      BY SizesAre
    <2>2. /\ delivered' = delivered + size /\ rxtruncbuf' = << >> /\ truncated' = 0
          /\ UNCHANGED <<stream, HW_UP, Usb!local, usb_handled>>
          /\ derailed' = (derailed \/ ~Usb!Boundary(delivered'))
      BY <1>2 DEF Usb!CompleteRxError
    <2>3. missed' \subseteq DOMAIN stream
      BY <1>2, MissedAre DEF Usb!CompleteRxError
    <2>4. truncated' \in 0..RXBUF_SIZE /\ rxtruncbuf' \in Seq(Nat) /\ derailed' \in BOOLEAN
      BY <1>0, <2>2
    <2>5. Usb!TypeOK'
      BY <1>0, <2>1, <2>2, <2>3, <2>4, FrozenTypes DEF Usb!local
    <2> QED BY <2>2, <2>5 DEF Usb!TruncbufFits
  <1>3. ASSUME NEW size \in Usb!Sizes, Usb!CompleteRxDown(size)
        PROVE  Usb!TypeOK' /\ Usb!TruncbufFits'
    <2>1. delivered + size \in 0..Usb!Length
      BY SizesAre
    <2>2. /\ delivered' = delivered + size
          /\ UNCHANGED <<stream, HW_UP, Usb!local, Usb!buffer, usb_handled, derailed>>
      BY <1>3 DEF Usb!CompleteRxDown
    <2>3. missed' \subseteq DOMAIN stream
      BY <1>3, MissedAre DEF Usb!CompleteRxDown
    <2>4. Usb!TypeOK'
      BY <1>0, <2>1, <2>2, <2>3, FrozenTypes DEF Usb!local, Usb!buffer
    <2> QED BY <2>2, <2>4 DEF Usb!TruncbufFits, Usb!buffer
  <1>4. CASE Usb!LoopEnd \/ Usb!HeaderCut
    <2>1. /\ parsing' = FALSE /\ remsize' = 0 /\ UNCHANGED ptr
          /\ stream' = stream /\ delivered' = delivered
          /\ UNCHANGED <<HW_UP, Usb!buffer, usb_handled, missed>> /\ derailed' \in BOOLEAN
      BY <1>0, <1>4 DEF Usb!LoopEnd, Usb!HeaderCut, Usb!Break, Usb!device
    <2>2. Usb!TypeOK'
      BY <1>0, <1>10, <2>1, FrozenTypes, Zenon DEF Usb!buffer
    <2> QED BY <2>1, <2>2 DEF Usb!TruncbufFits, Usb!buffer
  <1>5. CASE Usb!Loop
    <2>1. /\ parsing /\ remsize >= RXBUF_HDRSIZE
          /\ stream' = stream /\ delivered' = delivered /\ UNCHANGED <<HW_UP, derailed>>
      BY <1>5 DEF Usb!Loop, Usb!device
    <2>2. PICK header \in Usb!HeadersAt(ptr) :
            \/ Usb!TxStatus(header) \/ Usb!TooLarge(header)
            \/ Usb!Truncate(header) \/ Usb!ProcessRxbuf(header)
      BY <1>5 DEF Usb!Loop
    <2>3. header.size \in Nat \ {0}
      BY <1>0, <2>2, HeadersAre
    <2>4. Usb!Bytes(ptr, header.size) \in Seq(Nat)
      BY <1>0, <2>3, BytesAre
    <2>5. CASE Usb!TxStatus(header) \/ Usb!TooLarge(header) \/ Usb!ProcessRxbuf(header)
      <3>1. /\ UNCHANGED Usb!buffer /\ parsing' \in BOOLEAN /\ ptr' \in Nat
            /\ remsize' \in 0..MaxTransfer
        <4>1. CASE Usb!GoOn(header.size) /\ UNCHANGED Usb!buffer
          BY <1>0, <2>3, <4>1 DEF Usb!GoOn
        <4>2. CASE Usb!Break /\ UNCHANGED Usb!buffer
          BY <1>0, <1>10, <4>2, Zenon DEF Usb!Break
        <4> QED BY <2>5, <4>1, <4>2 DEF Usb!TxStatus, Usb!TooLarge, Usb!ProcessRxbuf
      <3>2. usb_handled' \in Seq(Seq(Nat))
        BY <2>4, <2>5, HandledAre DEF Usb!TxStatus, Usb!TooLarge, Usb!ProcessRxbuf
      <3>3. missed' \subseteq DOMAIN stream
        BY <2>5, MissedAre DEF Usb!TxStatus, Usb!TooLarge, Usb!ProcessRxbuf
      <3>4. Usb!TypeOK'
        BY <1>0, <2>1, <3>1, <3>2, <3>3, FrozenTypes, Zenon DEF Usb!buffer
      <3> QED BY <3>1, <3>4 DEF Usb!TruncbufFits, Usb!buffer
    <2>6. CASE Usb!Truncate(header)
      <3>1. /\ header.size <= RXBUF_SIZE /\ header.size > remsize
            /\ rxtruncbuf' = Usb!Bytes(ptr, remsize) /\ truncated' = header.size
            /\ parsing' = FALSE /\ remsize' = 0 /\ UNCHANGED <<ptr, usb_handled, missed>>
        BY <2>6 DEF Usb!Truncate, Usb!Break
      <3>2. rxtruncbuf' \in Seq(Nat) /\ Len(rxtruncbuf') = remsize
        BY <1>0, <3>1, BytesAre
      <3>3. truncated' \in 0..RXBUF_SIZE
        BY <1>0, <2>3, <3>1
      <3>4. Usb!TypeOK'
        BY <1>0, <2>1, <3>1, <3>2, <3>3, <1>10, FrozenTypes, Zenon
      <3>5. Len(rxtruncbuf') < truncated' /\ Len(rxtruncbuf') # 0
        BY <1>0, <2>1, <2>3, <3>1, <3>2, StreamConstants
      <3> QED BY <3>2, <3>4, <3>5, EmptySeq DEF Usb!TruncbufFits
    <2> QED BY <2>2, <2>5, <2>6
  <1>6. CASE Usb!OpStop
    <2>1. /\ HW_UP' = FALSE
          /\ UNCHANGED <<Usb!device, Usb!local, Usb!buffer, usb_handled, missed, derailed>>
      BY <1>6 DEF Usb!OpStop
    <2>2. Usb!TypeOK'
      BY <1>0, <2>1, FrozenTypes DEF Usb!device, Usb!local, Usb!buffer
    <2> QED BY <2>1, <2>2 DEF Usb!TruncbufFits, Usb!buffer
  <1>7. CASE Usb!OpStart
    <2>1. /\ HW_UP' = TRUE /\ derailed' = (derailed \/ rxtruncbuf # << >>)
          /\ UNCHANGED <<stream, Usb!local, Usb!buffer, usb_handled>>
      BY <1>7 DEF Usb!OpStart
    <2>2. delivered' \in delivered..Usb!Length
      BY <1>0, <1>7, StartsAtBoundary DEF Usb!OpStart
    <2>3. missed' \subseteq DOMAIN stream
      BY <1>7, MissedAre DEF Usb!OpStart
    <2>4. delivered' \in 0..Usb!Length /\ derailed' \in BOOLEAN
      BY <1>0, <2>1, <2>2
    <2>5. Usb!TypeOK'
      BY <1>0, <2>1, <2>3, <2>4, FrozenTypes DEF Usb!local, Usb!buffer
    <2> QED BY <2>1, <2>5 DEF Usb!TruncbufFits, Usb!buffer
  <1> QED BY <1>1, <1>2, <1>3, <1>4, <1>5, <1>6, <1>7 DEF Usb!Next
-------------------------------------------------------------------------------
(* While its place in the stream is known, each step of the handler keeps it. *)

\* The next packet is whole: it is handled, or missed.
LEMMA OneMore ==
  ASSUME stream \in Seq(Usb!Packets), usb_handled \in Seq(Seq(Nat)), NEW p \in DOMAIN stream,
         missed \subseteq 1 .. p - 1, Usb!InOrder(usb_handled, (1 .. p - 1) \ missed)
  PROVE  /\ Usb!InOrder(Append(usb_handled, Usb!Packet(p)), (1 .. p) \ missed)
         /\ Usb!InOrder(usb_handled, (1 .. p) \ (missed \cup {p}))
         /\ missed \subseteq 1 .. p /\ missed \cup {p} \subseteq 1 .. p
  <1> DEFINE P == (1 .. p - 1) \ missed
  <1>1. p \in Nat \ {0}
    OBVIOUS
  <1>2. P \in SUBSET Nat /\ IsFiniteSet(P)
    <2>1. IsFiniteSet(1 .. p - 1)
      BY <1>1, FS_Interval
    <2>2. P \in SUBSET (1 .. p - 1)
      OBVIOUS
    <2>3. 1 .. p - 1 \subseteq Nat
      BY <1>1
    <2>4. IsFiniteSet(P)
      BY <2>1, <2>2, FS_Subset
    <2> QED BY <2>2, <2>3, <2>4
  <1>3. \A q \in P : q < p
    BY <1>1
  <1>0. 1 .. p = (1 .. p - 1) \cup {p} /\ p \notin 1 .. p - 1
    BY <1>1
  <1>4. P \cup {p} = (1 .. p) \ missed /\ P = (1 .. p) \ (missed \cup {p})
    BY <1>0
  <1>5. missed \subseteq 1 .. p /\ missed \cup {p} \subseteq 1 .. p
    BY <1>0
  <1>6. Usb!InOrder(usb_handled, P)
    OBVIOUS
  <1> HIDE DEF P
  <1>7. Usb!InOrder(Append(usb_handled, Usb!Packet(p)), P \cup {p})
    BY <1>1, <1>2, <1>3, <1>6, OrderGrows
  <1> QED BY <1>4, <1>5, <1>6, <1>7

\* Where the handler is, when a packet p has been handled or missed, and nothing waits.
LEMMA BehindPacket ==
  ASSUME Usb!TypeOK, NEW p \in DOMAIN stream, NEW b \in Nat,
         missed \subseteq 1 .. p - 1, Usb!InOrder(usb_handled, (1 .. p - 1) \ missed),
         Usb!End(p - 1) < b, b <= Usb!End(p), ~derailed, stream' = stream,
         \/ Usb!Handle(Usb!Packet(p)) /\ UNCHANGED missed
         \/ Usb!Miss(Usb!PacketsIn(b, b)) /\ UNCHANGED usb_handled,
         parsing', rxtruncbuf' = << >>, ptr' = Usb!End(p) + 1, ptr' + remsize' = delivered' + 1
  PROVE  InPlace' /\ Usb!InOrder(usb_handled, Whole(Front) \ missed)'
  <1>1. /\ stream \in Seq(Usb!Packets) /\ usb_handled \in Seq(Seq(Nat)) /\ p \in Nat
        /\ p \in 0..Len(stream)
    BY DEF Usb!TypeOK
  <1>2. /\ Usb!End(p) \in Nat /\ Whole(Usb!End(p)) = 1 .. p /\ Begun(Usb!End(p)) = 1 .. p
        /\ Usb!Boundary(Usb!End(p))
    BY <1>1, AtBoundary DEF Usb!Boundary
  <1>3. Usb!PacketsIn(b, b) = {p}
    BY <1>1, Within
  <1>4. missed' \subseteq 1 .. p /\ Usb!InOrder(usb_handled', (1 .. p) \ missed')
    <2>1. CASE Usb!Handle(Usb!Packet(p)) /\ UNCHANGED missed
      BY <1>1, <2>1, OneMore, Zenon DEF Usb!Handle
    <2>2. CASE Usb!Miss(Usb!PacketsIn(b, b)) /\ UNCHANGED usb_handled
      BY <1>1, <1>3, <2>2, OneMore, Zenon DEF Usb!Miss
    <2> QED BY <2>1, <2>2
  <1>5. ptr' - 1 = Usb!End(p) /\ ptr' \in Nat \ {0}
    BY <1>2
  <1>6. Front' = Usb!End(p)
    BY <1>5, FrozenPlace
  <1> QED BY <1>2, <1>4, <1>5, <1>6, FrozenPlace, Zenon

\* A transfer comes: it continues a cut packet, or begins with one.
LEMMA CompleteRxInPlace ==
  ASSUME StreamIInv, NEW size \in Usb!Sizes, Usb!CompleteRx(size), ~derailed'
  PROVE  InPlace' /\ Usb!InOrder(usb_handled, Whole(Front) \ missed)'
  <1>1. /\ ~parsing /\ HW_UP /\ parsing' = TRUE /\ delivered' = delivered + size
        /\ stream' = stream /\ HW_UP' = HW_UP /\ derailed' = derailed
    BY DEF Usb!CompleteRx
  <1>2. /\ Usb!TypeOK /\ Usb!TruncbufFits /\ ~derailed /\ InPlace
        /\ Usb!InOrder(usb_handled, Whole(Front) \ missed)
    BY <1>1 DEF StreamIInv
  <1>3. /\ stream \in Seq(Usb!Packets) /\ delivered \in Nat /\ size \in Nat
        /\ rxtruncbuf \in Seq(Nat) /\ Len(rxtruncbuf) \in Nat /\ truncated \in Nat
    BY <1>2, SizesAre DEF Usb!TypeOK
  <1>4. Front = delivered /\ missed \subseteq Begun(delivered)
    BY <1>1, <1>2 DEF Front, InPlace
  <1>5. CASE rxtruncbuf = << >>
    <2>1. ptr' = delivered + 1 /\ remsize' = size /\ UNCHANGED <<Usb!buffer, usb_handled, missed>>
      BY <1>5 DEF Usb!CompleteRx
    <2>2. Usb!Boundary(delivered)
      BY <1>1, <1>2, <1>5 DEF InPlace
    <2>3. /\ rxtruncbuf' = << >> /\ ptr' \in Nat \ {0} /\ ptr' - 1 = delivered
          /\ ptr' + remsize' = delivered' + 1
      BY <1>1, <1>3, <1>5, <2>1 DEF Usb!buffer
    <2>4. Front' = delivered
      BY <1>1, <2>3, FrozenPlace
    <2> QED BY <1>1, <1>2, <1>4, <2>1, <2>2, <2>3, <2>4, FrozenPlace, Zenon
  <1>6. CASE rxtruncbuf # << >>
    <2> DEFINE lacks == truncated - Len(rxtruncbuf)
               have == Len(rxtruncbuf)
    <2>1. PICK p \in DOMAIN stream : CutIn(p)
      BY <1>1, <1>2, <1>6 DEF InPlace
    <2>2. /\ rxtruncbuf = Usb!Bytes(Usb!End(p - 1) + 1, have) /\ Usb!End(p - 1) + have = delivered
          /\ truncated = stream[p].size /\ missed \subseteq 1 .. p - 1
      BY <2>1 DEF CutIn
    <2>10. Usb!End(p - 1) + have = delivered /\ truncated = stream[p].size
      BY <2>2
    <2>3. have < truncated /\ have # 0 /\ lacks \in Nat
      BY <1>2, <1>3, <1>6, EmptySeq DEF Usb!TruncbufFits
    <2>4. /\ Usb!End(p - 1) \in Nat /\ Usb!End(p) \in Nat
          /\ Usb!End(p) = Usb!End(p - 1) + stream[p].size
          /\ Whole(delivered) = 1 .. p - 1
      <3>1. /\ Usb!End(p - 1) \in Nat /\ Usb!End(p) \in Nat
            /\ Usb!End(p) = Usb!End(p - 1) + stream[p].size
        BY <1>3, Within
      <3>2. Usb!End(p - 1) <= delivered /\ delivered < Usb!End(p)
        <4>1. /\ Usb!End(p - 1) \in Nat /\ Usb!End(p) = Usb!End(p - 1) + truncated
              /\ Usb!End(p - 1) + have = delivered
              /\ have \in Nat /\ truncated \in Nat /\ have < truncated
          BY <1>3, <2>10, <2>3, <3>1
        <4> HIDE DEF have
        <4> QED BY <4>1
      <3> QED BY <1>3, <3>1, <3>2, Within
    <2>5. Usb!InOrder(usb_handled, (1 .. p - 1) \ missed)
      BY <1>2, <1>4, <2>4
    <2>6. Usb!CompleteCut(size)
      BY <1>6 DEF Usb!CompleteRx
    <2>7. \A m \in Nat :
            rxtruncbuf \o Usb!Bytes(delivered + 1, m) = Usb!Bytes(Usb!End(p - 1) + 1, have + m)
      <3> SUFFICES ASSUME NEW m \in Nat
                   PROVE  rxtruncbuf \o Usb!Bytes(delivered + 1, m)
                            = Usb!Bytes(Usb!End(p - 1) + 1, have + m)
        OBVIOUS
      <3>1. /\ Usb!End(p - 1) + 1 \in Nat /\ delivered + 1 \in Nat /\ have \in Nat
            /\ delivered + 1 = (Usb!End(p - 1) + 1) + have
        <4>1. /\ Usb!End(p - 1) \in Nat /\ delivered \in Nat /\ have \in Nat
              /\ Usb!End(p - 1) + have = delivered
          BY <1>3, <2>10, <2>4
        <4> HIDE DEF have
        <4> QED BY <4>1
      <3>2. Usb!Bytes(Usb!End(p - 1) + 1, have) \o Usb!Bytes(delivered + 1, m)
              = Usb!Bytes(Usb!End(p - 1) + 1, have + m)
        <4> DEFINE begin == Usb!End(p - 1) + 1
                   next == delivered + 1
        <4>1. begin \in Nat /\ have \in Nat /\ next \in Nat /\ next = begin + have
          BY <3>1
        <4> HIDE DEF begin, next, have
        <4>2. Usb!Bytes(begin, have) \o Usb!Bytes(next, m) = Usb!Bytes(begin, have + m)
          <5>1. Usb!Bytes(begin, have) \o Usb!Bytes(begin + have, m) = Usb!Bytes(begin, have + m)
            BY <4>1, BytesFollow, Zenon
          <5> QED BY <4>1, <5>1, Zenon
        <4> QED BY <4>2 DEF begin, next, have
      <3> QED BY <2>2, <3>2, Zenon
    <2>8. CASE size < lacks
      <3>1. /\ rxtruncbuf' = Usb!Bytes(Usb!End(p - 1) + 1, have + size)
            /\ remsize' = 0 /\ UNCHANGED <<ptr, truncated, usb_handled, missed>>
        BY <1>3, <2>6, <2>7, <2>8 DEF Usb!CompleteCut, Usb!NotEnough
      <3>2. Len(rxtruncbuf') = have + size /\ rxtruncbuf' # << >>
        <4>1. Usb!End(p - 1) + 1 \in Nat /\ have + size \in Nat /\ have + size # 0
          BY <1>3, <2>3, <2>4
        <4> QED BY <3>1, <4>1, BytesAre
      <3>3. /\ Usb!End(p - 1) + (have + size) = delivered' /\ delivered' \in Nat
            /\ Usb!End(p - 1) < delivered' /\ delivered' < Usb!End(p)
        <4>1. delivered' = delivered + size
          BY <1>1
        <4>2. Usb!End(p) = Usb!End(p - 1) + truncated
          BY <2>10, <2>4
        <4>3. /\ have \in Nat /\ size \in Nat /\ truncated \in Nat /\ Usb!End(p - 1) \in Nat
              /\ Usb!End(p - 1) + have = delivered /\ size < truncated - have /\ have # 0
          BY <1>3, <2>10, <2>3, <2>4, <2>8
        <4> HIDE DEF have
        <4> QED BY <4>1, <4>2, <4>3
      <3>4. Whole(delivered') = 1 .. p - 1 /\ Begun(delivered') = 1 .. p
        <4>1. Usb!End(p - 1) <= delivered' /\ delivered' <= Usb!End(p)
          BY <2>4, <3>3
        <4> QED BY <1>3, <3>3, <4>1, Within
      <3>5. missed' \subseteq Begun(delivered')
        BY <1>3, <2>2, <3>1, <3>4
      <3>6. Front' = delivered'
        BY <1>1, <3>2, FrozenPlace
      <3>7. Usb!InOrder(usb_handled', Whole(Front') \ missed')
        BY <2>5, <3>1, <3>4, <3>6
      <3>8. /\ remsize' = 0 /\ rxtruncbuf' = Usb!Bytes(Usb!End(p - 1) + 1, Len(rxtruncbuf'))
            /\ Usb!End(p - 1) + Len(rxtruncbuf') = delivered' /\ truncated' = stream[p].size
            /\ missed' \subseteq 1 .. p - 1
        BY <2>2, <3>1, <3>2, <3>3
      <3> QED BY <1>1, <3>2, <3>5, <3>6, <3>7, <3>8, FrozenPlace, Zenon
    <2>9. CASE ~(size < lacks)
      <3>1. have + lacks = stream[p].size /\ delivered + lacks = Usb!End(p)
        BY <1>3, <2>10, <2>4
      <3>2. rxtruncbuf \o Usb!Bytes(delivered + 1, lacks) = Usb!Packet(p)
        BY <2>3, <2>7, <3>1 DEF Usb!Packet
      <3>3. /\ \/ Usb!Handle(Usb!Packet(p)) /\ UNCHANGED missed
               \/ Usb!Miss(Usb!PacketsIn(Usb!End(p), Usb!End(p))) /\ UNCHANGED usb_handled
            /\ rxtruncbuf' = << >> /\ ptr' = delivered + 1 + lacks /\ remsize' = size - lacks
        BY <2>6, <2>9, <3>1, <3>2 DEF Usb!CompleteCut, Usb!NotEnough
      <3>4. ptr' = Usb!End(p) + 1 /\ ptr' + remsize' = delivered' + 1
        <4>1. /\ delivered' = delivered + size /\ ptr' = delivered + 1 + lacks
              /\ remsize' = size - lacks /\ delivered + lacks = Usb!End(p)
              /\ delivered \in Nat /\ size \in Nat /\ lacks \in Nat
          BY <1>1, <1>3, <2>3, <3>1, <3>3
        <4> HIDE DEF lacks
        <4> QED BY <4>1
      <3>5. Usb!End(p - 1) < Usb!End(p) /\ Usb!End(p) <= Usb!End(p)
        BY <1>3, Within
      <3> QED BY <1>1, <1>2, <2>2, <2>4, <2>5, <3>3, <3>4, <3>5, BehindPacket
    <2> QED BY <2>8, <2>9
  <1> QED BY <1>5, <1>6

\* A transfer fails: its packets, and the cut one, are missed.
LEMMA CompleteRxErrorInPlace ==
  ASSUME StreamIInv, NEW size \in Usb!Sizes, Usb!CompleteRxError(size), ~derailed'
  PROVE  InPlace' /\ Usb!InOrder(usb_handled, Whole(Front) \ missed)'
  <1>1. /\ ~parsing /\ HW_UP /\ delivered' = delivered + size /\ rxtruncbuf' = << >>
        /\ parsing' = parsing /\ usb_handled' = usb_handled /\ stream' = stream
        /\ Usb!Boundary(delivered') /\ ~derailed
    BY DEF Usb!CompleteRxError, Usb!local
  <1>2. /\ Usb!TypeOK /\ InPlace /\ Usb!InOrder(usb_handled, Whole(Front) \ missed)
    BY <1>1 DEF StreamIInv
  <1>3. /\ stream \in Seq(Usb!Packets) /\ delivered \in Nat /\ size \in Nat
        /\ rxtruncbuf \in Seq(Nat) /\ Len(rxtruncbuf) \in Nat
    BY <1>2, SizesAre DEF Usb!TypeOK
  <1>4. Front = delivered /\ missed \subseteq Begun(delivered)
    BY <1>1, <1>2 DEF Front, InPlace
  <1>5. PICK r \in 0..Len(stream) : Usb!End(r) = delivered'
    BY <1>1 DEF Usb!Boundary
  <1>6. PICK q \in 0..Len(stream) :
          /\ Usb!End(q) + Len(rxtruncbuf) = delivered
          /\ Whole(delivered) = 1..q /\ missed \subseteq 1..q
    <2>1. CASE rxtruncbuf = << >>
      <3>1. PICK q \in 0..Len(stream) : Usb!End(q) = delivered
        BY <1>1, <1>2, <2>1 DEF InPlace, Usb!Boundary
      <3>2. Whole(delivered) = 1..q /\ missed \subseteq 1..q
        BY <1>3, <1>4, <3>1, AtBoundary
      <3>3. Usb!End(q) + Len(rxtruncbuf) = delivered
        BY <1>3, <2>1, <3>1
      <3> QED BY <3>2, <3>3
    <2>2. CASE rxtruncbuf # << >>
      <3>1. PICK p \in DOMAIN stream : CutIn(p)
        BY <1>1, <1>2, <2>2 DEF InPlace
      <3>2. /\ Usb!End(p - 1) + Len(rxtruncbuf) = delivered /\ truncated = stream[p].size
            /\ missed \subseteq 1 .. p - 1
        BY <3>1 DEF CutIn
      <3>3. Len(rxtruncbuf) < truncated /\ truncated \in Nat
        BY <1>1, <2>2 DEF StreamIInv, Usb!TruncbufFits, Usb!TypeOK
      <3>4. /\ Usb!End(p - 1) \in Nat /\ Usb!End(p) = Usb!End(p - 1) + stream[p].size
            /\ Usb!End(p) \in Nat
        BY <1>3, Within
      <3>5. Usb!End(p - 1) <= delivered /\ delivered < Usb!End(p)
        BY <1>3, <3>2, <3>3, <3>4
      <3>6. Whole(delivered) = 1 .. p - 1
        BY <1>3, <3>5, Within
      <3>7. p - 1 \in 0..Len(stream)
        BY <1>3
      <3> QED BY <3>2, <3>6, <3>7
    <2> QED BY <2>1, <2>2
  <1>7. Usb!End(q) \in Nat /\ Usb!End(r) \in Nat /\ q \in Nat /\ r \in Nat
    BY <1>3, EndIs
  <1>8. r \in q..Len(stream)
    <2>1. Usb!End(q) <= Usb!End(r)
      <3>1. Usb!End(q) + Len(rxtruncbuf) = delivered /\ Usb!End(r) = delivered + size
        BY <1>1, <1>5, <1>6
      <3> QED BY <1>3, <1>7, <3>1
    <2>2. ~(r < q)
      <3>1. CASE r < q
        BY <1>3, <1>7, <2>1, <3>1, EndsGrow
      <3> QED BY <3>1
    <2> QED BY <1>7, <2>2
  <1>9. Usb!PacketsIn(delivered + 1 - Len(rxtruncbuf), delivered') = q + 1 .. r
    <2>1. delivered + 1 - Len(rxtruncbuf) = Usb!End(q) + 1
      BY <1>3, <1>6, <1>7
    <2> QED BY <1>3, <1>5, <1>8, <2>1, AtBoundary
  <1>10. missed' = missed \cup (q + 1 .. r)
    BY <1>1, <1>9 DEF Usb!CompleteRxError, Usb!Miss
  <1>11. (1..r) \ missed' = (1..q) \ missed /\ missed' \subseteq 1..r
    <2>1. 1..r = (1..q) \cup (q + 1 .. r) /\ (1..q) \cap (q + 1 .. r) = {}
      BY <1>7, <1>8
    <2> QED BY <1>6, <1>10, <2>1
  <1>12. Front' = delivered'
    BY <1>1, FrozenPlace
  <1>13. Whole(delivered') = 1..r /\ Begun(delivered') = 1..r
    BY <1>3, <1>5, AtBoundary
  <1>14. Usb!InOrder(usb_handled', Whole(Front') \ missed')
    BY <1>1, <1>2, <1>4, <1>6, <1>11, <1>12, <1>13
  <1> QED BY <1>1, <1>11, <1>12, <1>13, <1>14, FrozenPlace, Zenon

\* A transfer comes while the interface is down: its packets are missed.
LEMMA CompleteRxDownInPlace ==
  ASSUME StreamIInv, NEW size \in Usb!Sizes, Usb!CompleteRxDown(size), ~derailed'
  PROVE  InPlace' /\ Usb!InOrder(usb_handled, Whole(Front) \ missed)'
  <1>1. /\ ~parsing /\ ~HW_UP /\ delivered' = delivered + size /\ ~derailed
        /\ UNCHANGED <<parsing, HW_UP, usb_handled, stream>>
        /\ missed' = missed \cup Usb!PacketsIn(delivered + 1, delivered')
    BY DEF Usb!CompleteRxDown, Usb!local, Usb!Miss
  <1>2. /\ Usb!TypeOK /\ InPlace /\ Usb!InOrder(usb_handled, Whole(Front) \ missed)
    BY <1>1 DEF StreamIInv
  <1>3. Front = delivered /\ missed \subseteq Begun(delivered) /\ Front' = delivered'
    BY <1>1, <1>2, FrozenPlace DEF Front, InPlace
  <1>4. /\ stream \in Seq(Usb!Packets) /\ delivered \in Nat /\ delivered' \in Nat
        /\ delivered <= delivered'
    BY <1>1, <1>2, SizesAre DEF Usb!TypeOK
  <1>5. /\ Whole(delivered') \ missed' = Whole(delivered) \ missed
        /\ missed' \subseteq Begun(delivered')
    BY <1>1, <1>3, <1>4, MissedAreBetween
  <1>6. Usb!InOrder(usb_handled', Whole(Front') \ missed')
    BY <1>1, <1>2, <1>3, <1>5
  <1> QED BY <1>1, <1>3, <1>5, <1>6, FrozenPlace, Zenon

\* The device begins with the next packet: those in between are missed.
LEMMA OpStartInPlace ==
  ASSUME StreamIInv, Usb!OpStart, ~derailed'
  PROVE  InPlace' /\ Usb!InOrder(usb_handled, Whole(Front) \ missed)'
  <1>1. /\ ~parsing /\ ~HW_UP /\ ~derailed /\ rxtruncbuf = << >> /\ rxtruncbuf' = << >>
        /\ UNCHANGED <<parsing, usb_handled, stream>>
        /\ missed' = missed \cup Usb!PacketsIn(delivered + 1, delivered')
    BY DEF Usb!OpStart, Usb!local, Usb!buffer, Usb!Miss
  <1>2. /\ Usb!TypeOK /\ InPlace /\ Usb!InOrder(usb_handled, Whole(Front) \ missed)
    BY <1>1 DEF StreamIInv
  <1>3. Front = delivered /\ missed \subseteq Begun(delivered) /\ Front' = delivered'
    BY <1>1, <1>2, FrozenPlace DEF Front, InPlace
  <1>4. stream \in Seq(Usb!Packets) /\ delivered \in 0..Usb!Length /\ Usb!Length \in Nat
    BY <1>2, LengthIs DEF Usb!TypeOK
  <1>5. delivered' \in delivered..Usb!Length /\ Usb!Boundary(delivered')
    BY <1>4, StartsAtBoundary
  <1>6. delivered \in Nat /\ delivered' \in Nat /\ delivered <= delivered'
    BY <1>4, <1>5
  <1>7. /\ Whole(delivered') \ missed' = Whole(delivered) \ missed
        /\ missed' \subseteq Begun(delivered')
    BY <1>1, <1>3, <1>4, <1>6, MissedAreBetween
  <1>8. Usb!InOrder(usb_handled', Whole(Front') \ missed')
    BY <1>1, <1>2, <1>3, <1>7
  <1> QED BY <1>1, <1>3, <1>5, <1>7, <1>8, FrozenPlace, Zenon

\* The end of a transfer is the end of a packet, or of the part that has come.
LEMMA LoopEndInPlace ==
  ASSUME StreamIInv, Usb!LoopEnd, ~derailed'
  PROVE  InPlace' /\ Usb!InOrder(usb_handled, Whole(Front) \ missed)'
  <1>1. /\ parsing /\ remsize = 0 /\ ~parsing' /\ remsize' = 0 /\ ~derailed
        /\ UNCHANGED <<stream, delivered, HW_UP, rxtruncbuf, truncated, usb_handled, missed>>
    BY DEF Usb!LoopEnd, Usb!Break, Usb!device, Usb!buffer
  <1>2. /\ Usb!TypeOK /\ InPlace /\ Usb!InOrder(usb_handled, Whole(Front) \ missed)
    BY <1>1 DEF StreamIInv
  <1>3. rxtruncbuf = << >> => ptr - 1 = delivered /\ Usb!Boundary(delivered)
    <2>1. CASE rxtruncbuf = << >>
      <3>1. ptr \in Nat \ {0} /\ ptr + 0 = delivered + 1 /\ Usb!Boundary(ptr - 1)
        BY <1>1, <1>2, <2>1 DEF InPlace
      <3>2. delivered \in Nat
        BY <1>2, LengthIs DEF Usb!TypeOK
      <3>3. ptr - 1 = delivered
        BY <3>1, <3>2
      <3> QED BY <3>1, <3>3
    <2> QED BY <2>1
  <1>4. Front = delivered /\ Front' = delivered'
    BY <1>1, <1>3, FrozenPlace DEF Front
  <1>5. Usb!InOrder(usb_handled', Whole(Front') \ missed') /\ missed' \subseteq Begun(Front')
    BY <1>1, <1>2, <1>4 DEF InPlace
  <1>6. rxtruncbuf' # << >> => \E p \in DOMAIN stream : CutIn(p)
    BY <1>1, <1>2 DEF InPlace
  <1> QED BY <1>1, <1>3, <1>5, <1>6, FrozenPlace, Zenon DEF CutIn

\* Nothing is looked at once the interface is down.
LEMMA OpStopInPlace ==
  ASSUME StreamIInv, Usb!OpStop, ~derailed'
  PROVE  InPlace' /\ Usb!InOrder(usb_handled, Whole(Front) \ missed)'
  <1>1. /\ HW_UP /\ ~HW_UP' /\ ~derailed
        /\ UNCHANGED <<stream, delivered, parsing, ptr, remsize, rxtruncbuf, truncated, usb_handled,
                       missed>>
    BY DEF Usb!OpStop, Usb!device, Usb!local, Usb!buffer
  <1>2. /\ InPlace /\ Usb!InOrder(usb_handled, Whole(Front) \ missed)
    BY <1>1 DEF StreamIInv
  <1>3. Front' = Front
    BY <1>1, FrozenPlace DEF Front
  <1>4. Usb!InOrder(usb_handled', Whole(Front') \ missed') /\ missed' \subseteq Begun(Front')
    BY <1>1, <1>2, <1>3 DEF InPlace
  <1> QED BY <1>1, <1>2, <1>4, FrozenPlace, Zenon DEF InPlace, CutIn

\* The header at ptr is that of the next packet: it is handled, missed or cut.
LEMMA LoopInPlace ==
  ASSUME StreamIInv, Usb!Loop, ~derailed'
  PROVE  InPlace' /\ Usb!InOrder(usb_handled, Whole(Front) \ missed)'
  <1>1. /\ parsing /\ remsize >= RXBUF_HDRSIZE /\ ~derailed
        /\ UNCHANGED <<stream, delivered, HW_UP, derailed>>
    BY DEF Usb!Loop, Usb!device
  <1>2. /\ Usb!TypeOK /\ InPlace /\ Usb!InOrder(usb_handled, Whole(Front) \ missed)
    BY <1>1 DEF StreamIInv
  <1>3. /\ stream \in Seq(Usb!Packets) /\ delivered \in Nat /\ delivered <= Usb!Length
        /\ Usb!Length \in Nat /\ remsize \in Nat /\ remsize > 0 /\ usb_handled \in Seq(Seq(Nat))
    <2>1. stream \in Seq(Usb!Packets) /\ usb_handled \in Seq(Seq(Nat))
      BY <1>2 DEF Usb!TypeOK
    <2>2. Usb!Length \in Nat /\ delivered \in 0..Usb!Length /\ remsize \in 0..MaxTransfer
      BY <1>2, <2>1, LengthIs DEF Usb!TypeOK
    <2>3. delivered \in Nat /\ delivered <= Usb!Length
      BY <2>2
    <2>4. remsize \in Nat /\ remsize > 0
      BY <1>1, <2>2, StreamConstants
    <2> QED BY <2>1, <2>2, <2>3, <2>4
  <1>4. rxtruncbuf = << >>
    BY <1>1, <1>2, <1>3 DEF InPlace
  <1>5. /\ ptr \in Nat \ {0} /\ ptr + remsize = delivered + 1
        /\ Usb!Boundary(ptr - 1) /\ Front = ptr - 1
    BY <1>1, <1>2, <1>4 DEF InPlace, Front
  <1>6. ptr <= Usb!Length /\ ptr - 1 \in Nat /\ ptr > 0 /\ ptr \in Nat
    BY <1>3, <1>5
  <1>7. PICK p \in DOMAIN stream : Usb!End(p - 1) = ptr - 1
    BY <1>3, <1>5, <1>6, NextPacket
  <1>8. /\ p \in 1..Len(stream) /\ p - 1 \in 0..Len(stream) /\ p \in Nat
        /\ stream[p].size \in Nat \ {0} /\ stream[p].txstat \in BOOLEAN
        /\ stream[p].txstat => stream[p].size = RXBUF_HDRSIZE
        /\ ~stream[p].txstat => stream[p].size \in FrameSizes
    <2>1. p \in 1..Len(stream) /\ p - 1 \in 0..Len(stream) /\ p \in Nat
      BY <1>3
    <2> QED BY <1>3, <2>1, PacketSizes, Zenon
  <1>9. /\ Usb!End(p - 1) \in Nat /\ Usb!End(p) \in Nat
        /\ Usb!End(p) = Usb!End(p - 1) + stream[p].size
        /\ ptr = Usb!End(p - 1) + 1 /\ Usb!End(p - 1) < ptr /\ ptr <= Usb!End(p)
    <2>1. /\ Usb!End(p - 1) \in Nat /\ Usb!End(p) \in Nat
          /\ Usb!End(p) = Usb!End(p - 1) + stream[p].size
      BY <1>3, Within
    <2> QED BY <1>6, <1>7, <1>8, <2>1
  <1>10. Whole(Front) = 1 .. p - 1 /\ missed \subseteq 1 .. p - 1
    BY <1>2, <1>3, <1>5, <1>7, <1>8, AtBoundary DEF InPlace
  <1>11. Usb!PacketsIn(ptr, ptr) = {p}
    BY <1>3, <1>6, <1>9, Within
  <1>12. Usb!InOrder(usb_handled, (1 .. p - 1) \ missed)
    BY <1>2, <1>10
  <1>13. \A header \in Usb!HeadersAt(ptr) : header = stream[p]
    BY <1>5, <1>6, <1>11 DEF Usb!HeadersAt
  <1>14. \/ Usb!TxStatus(stream[p]) \/ Usb!TooLarge(stream[p])
         \/ Usb!Truncate(stream[p]) \/ Usb!ProcessRxbuf(stream[p])
    BY <1>13 DEF Usb!Loop
  <1>15. Usb!Bytes(ptr, stream[p].size) = Usb!Packet(p)
    BY <1>9 DEF Usb!Packet
  <1>16. ASSUME stream[p].size <= remsize, Usb!GoOn(stream[p].size), UNCHANGED Usb!buffer,
                \/ Usb!Handle(Usb!Packet(p)) /\ UNCHANGED missed
                \/ Usb!Miss(Usb!PacketsIn(ptr, ptr)) /\ UNCHANGED usb_handled
         PROVE  InPlace' /\ Usb!InOrder(usb_handled, Whole(Front) \ missed)'
    <2>1. parsing' /\ rxtruncbuf' = << >> /\ ptr' = ptr + stream[p].size
          /\ remsize' = remsize - stream[p].size
      BY <1>1, <1>3, <1>4, <1>8, <1>16 DEF Usb!GoOn, Usb!buffer
    <2>2. ptr' = Usb!End(p) + 1 /\ ptr' + remsize' = delivered' + 1
      <3>1. delivered' = delivered /\ ptr' = ptr + stream[p].size
            /\ remsize' = remsize - stream[p].size
        BY <1>1, <2>1
      <3>2. /\ stream[p].size \in Nat /\ remsize \in Nat /\ delivered \in Nat /\ Usb!End(p) \in Nat
            /\ ptr \in Nat /\ ptr + remsize = delivered + 1 /\ ptr = Usb!End(p - 1) + 1
            /\ Usb!End(p) = Usb!End(p - 1) + stream[p].size /\ Usb!End(p - 1) \in Nat
        BY <1>3, <1>5, <1>8, <1>9
      <3> QED BY <3>1, <3>2
    <2> QED BY <1>1, <1>2, <1>6, <1>9, <1>10, <1>12, <1>16, <2>1, <2>2, BehindPacket
  <1>17. CASE Usb!TxStatus(stream[p])
    <2>1. stream[p].size <= remsize
      BY <1>1, <1>3, <1>8, <1>17, StreamConstants DEF Usb!TxStatus
    <2> QED BY <1>15, <1>16, <1>17, <2>1 DEF Usb!TxStatus
  <1>18. CASE Usb!TooLarge(stream[p])
    BY <1>8, <1>18, StreamConstants DEF Usb!TooLarge
  <1>19. CASE Usb!ProcessRxbuf(stream[p])
    BY <1>15, <1>16, <1>19 DEF Usb!ProcessRxbuf
  <1>20. CASE Usb!Truncate(stream[p])
    <2>1. /\ stream[p].size > remsize /\ rxtruncbuf' = Usb!Bytes(ptr, remsize)
          /\ truncated' = stream[p].size /\ ~parsing' /\ remsize' = 0
          /\ UNCHANGED <<usb_handled, missed>>
      BY <1>20 DEF Usb!Truncate, Usb!Break
    <2>2. Len(rxtruncbuf') = remsize /\ rxtruncbuf' # << >>
      <3>1. Len(Usb!Bytes(ptr, remsize)) = remsize /\ Usb!Bytes(ptr, remsize) # << >>
        <4>1. remsize \in Nat /\ remsize # 0 /\ ptr \in Nat
          BY <1>3, <1>6
        <4> QED BY <4>1, BytesAre, Zenon
      <3> QED BY <2>1, <3>1
    <2>3. delivered' = Usb!End(p - 1) + remsize /\ delivered' \in Nat
          /\ Usb!End(p - 1) < delivered' /\ delivered' < Usb!End(p)
      <3>1. delivered' = delivered /\ stream[p].size > remsize
        BY <1>1, <2>1
      <3>2. /\ stream[p].size \in Nat /\ remsize \in Nat /\ delivered \in Nat /\ Usb!End(p) \in Nat
            /\ ptr \in Nat /\ ptr + remsize = delivered + 1 /\ ptr = Usb!End(p - 1) + 1
            /\ Usb!End(p) = Usb!End(p - 1) + stream[p].size /\ Usb!End(p - 1) \in Nat /\ remsize > 0
        BY <1>3, <1>5, <1>8, <1>9
      <3> QED BY <3>1, <3>2
    <2>4. Whole(delivered') = 1 .. p - 1 /\ Begun(delivered') = 1 .. p
      <3>1. Usb!End(p - 1) <= delivered' /\ delivered' <= Usb!End(p)
        BY <1>9, <2>3
      <3> QED BY <1>3, <2>3, <3>1, Within
    <2>5. Front' = delivered'
      BY <1>1, <2>1, FrozenPlace
    <2>6. missed' \subseteq Begun(Front') /\ missed' \subseteq 1 .. p - 1
      BY <1>8, <1>10, <2>1, <2>4, <2>5
    <2>7. Usb!InOrder(usb_handled', Whole(Front') \ missed')
      BY <1>12, <2>1, <2>4, <2>5
    <2>8. /\ rxtruncbuf' = Usb!Bytes(Usb!End(p - 1) + 1, Len(rxtruncbuf'))
          /\ Usb!End(p - 1) + Len(rxtruncbuf') = delivered'
      BY <1>9, <2>1, <2>2, <2>3
    <2> QED BY <1>1, <2>1, <2>2, <2>6, <2>7, <2>8, FrozenPlace, Zenon
  <1> QED BY <1>14, <1>17, <1>18, <1>19, <1>20
-------------------------------------------------------------------------------
(* StreamIInv holds of every behaviour. *)

\* Nothing is handled yet, and nothing has come.
LEMMA StreamInit == Usb!Init => StreamIInv
  <1> SUFFICES ASSUME Usb!Init PROVE StreamIInv
    OBVIOUS
  <1>1. stream \in Seq(Usb!Packets)
    BY StreamConstants DEF Usb!Init
  <1>2. /\ delivered = 0 /\ HW_UP = TRUE /\ parsing = FALSE /\ ptr = 1 /\ remsize = 0
        /\ rxtruncbuf = << >> /\ truncated = 0 /\ usb_handled = << >> /\ missed = {}
        /\ derailed = FALSE
    BY DEF Usb!Init
  <1>3. Usb!Length \in Nat /\ Usb!Boundary(0)
    BY <1>1, LengthIs
  <1>4. Usb!TypeOK /\ Usb!TruncbufFits
    <2>1. /\ delivered \in 0..Usb!Length /\ ptr \in Nat /\ remsize \in 0..MaxTransfer
          /\ truncated \in 0..RXBUF_SIZE
      BY <1>2, <1>3, StreamConstants
    <2>2. rxtruncbuf \in Seq(Nat) /\ usb_handled \in Seq(Seq(Nat)) /\ missed \subseteq DOMAIN stream
      BY <1>2
    <2>3. HW_UP \in BOOLEAN /\ parsing \in BOOLEAN /\ derailed \in BOOLEAN
      BY <1>2
    <2> QED BY <1>1, <1>2, <2>1, <2>2, <2>3, Zenon DEF Usb!TypeOK, Usb!TruncbufFits
  <1>5. InPlace
    BY <1>2, <1>3 DEF InPlace
  <1>6. Front = 0
    BY <1>2 DEF Front
  <1>7. 0 \in 0..Len(stream) /\ Usb!End(0) = 0
    BY <1>1, EndIs
  <1>8. Whole(0) = {}
    BY <1>1, <1>7, AtBoundary
  <1>9. Usb!InOrder(usb_handled, Whole(Front) \ missed)
    BY <1>2, <1>6, <1>8, NothingInOrder
  <1> QED BY <1>4, <1>5, <1>9 DEF StreamIInv

\* StreamIInv is inductive.
LEMMA StreamNext == StreamIInv /\ [Usb!Next]_usbVars => StreamIInv'
  <1> SUFFICES ASSUME StreamIInv, [Usb!Next]_usbVars PROVE StreamIInv'
    OBVIOUS
  <1>1. CASE Usb!Next
    <2>1. Usb!TypeOK' /\ Usb!TruncbufFits'
      BY <1>1, StreamTypes DEF StreamIInv
    <2>2. ASSUME ~derailed' PROVE InPlace' /\ Usb!InOrder(usb_handled, Whole(Front) \ missed)'
      <3>1. CASE \E size \in Usb!Sizes :
                   Usb!CompleteRx(size) \/ Usb!CompleteRxError(size) \/ Usb!CompleteRxDown(size)
        BY <2>2, <3>1, CompleteRxInPlace, CompleteRxErrorInPlace, CompleteRxDownInPlace
      <3>2. CASE Usb!HeaderCut
        BY <2>2, <3>2 DEF Usb!HeaderCut
      <3> QED BY <1>1, <2>2, <3>1, <3>2, LoopEndInPlace, LoopInPlace, OpStopInPlace,
                 OpStartInPlace DEF Usb!Next
    <2> QED BY <2>1, <2>2 DEF StreamIInv
  <1>2. CASE UNCHANGED usbVars
    <2>1. UNCHANGED <<stream, delivered, HW_UP, parsing, ptr, remsize, rxtruncbuf, truncated,
                      usb_handled, missed, derailed>>
      BY <1>2 DEF usbVars
    <2>2. Usb!TypeOK'
      BY <2>1, FrozenTypes, Zenon DEF StreamIInv, Usb!TypeOK
    <2>3. Usb!TruncbufFits'
      BY <2>1 DEF StreamIInv, Usb!TruncbufFits
    <2>4. ASSUME ~derailed' PROVE InPlace' /\ Usb!InOrder(usb_handled, Whole(Front) \ missed)'
      <3>1. InPlace /\ Usb!InOrder(usb_handled, Whole(Front) \ missed)
        BY <2>1, <2>4 DEF StreamIInv
      <3>2. Front' = Front
        BY <2>1, FrozenPlace DEF Front
      <3>3. Usb!InOrder(usb_handled', Whole(Front') \ missed')
        BY <2>1, <3>1, <3>2
      <3> QED BY <2>1, <3>1, <3>2, <3>3, FrozenPlace, Zenon DEF InPlace, CutIn
    <2> QED BY <2>2, <2>3, <2>4 DEF StreamIInv
  <1> QED BY <1>1, <1>2

\* Between two transfers the handler is done with all that has come.
LEMMA StreamFramed == StreamIInv => Usb!StreamIsFramed
  <1> SUFFICES ASSUME StreamIInv PROVE Usb!StreamIsFramed
    OBVIOUS
  <1>1. Usb!TypeOK /\ Usb!TruncbufFits
    BY DEF StreamIInv
  <1>2. ASSUME ~parsing, ~derailed PROVE Usb!InOrder(usb_handled, Usb!Complete \ missed)
    <2>1. Front = delivered /\ Usb!InOrder(usb_handled, Whole(Front) \ missed)
      BY <1>2 DEF StreamIInv, Front
    <2>2. Whole(delivered) = Usb!Complete
      BY DEF Whole, Usb!Complete
    <2> QED BY <2>1, <2>2
  <1> QED BY <1>1, <1>2 DEF Usb!StreamIsFramed
\* Whichever way the stream is cut into transfers, transfers fail and the interface goes
\* down and up: its frames and statuses are handled once, whole, and in order.
THEOREM StreamAlwaysFramed == SpecEither => []StreamIsFramed
  <1>1. InitEither => StreamIInv
    BY StreamInit DEF InitEither
  <1>2. StreamIInv /\ [NextEither]_all => StreamIInv'
    <2> SUFFICES ASSUME StreamIInv, [NextEither]_all PROVE StreamIInv'
      OBVIOUS
    <2>1. [Usb!Next]_usbVars
      BY DEF NextEither, all
    <2> QED BY <2>1, StreamNext
  <1>3. StreamIInv => StreamIsFramed
    BY StreamFramed DEF StreamIsFramed
  <1> QED BY <1>1, <1>2, <1>3, PTL DEF SpecEither
===============================================================================
