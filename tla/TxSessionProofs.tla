---------------------------- MODULE TxSessionProofs ----------------------------
(***************************************************************************)
(* What a stop, a start or a recovery at any moment leaves of the transmit *)
(* path, for every size of the ring and every number of callers, frames    *)
(* and stops.  R is the ring with its proofs, whose lemmas say what each of *)
(* its operations keeps; the session's Ring is the same ring.              *)
(***************************************************************************)
EXTENDS TxSession, SequenceTheorems, TLAPS

R == INSTANCE TxRingProofs

-------------------------------------------------------------------------------
(* The two names of the ring *)

\* What the ring's operators mean inside the session is what they mean in its proofs.
LEMMA SameNames ==
  /\ Ring!Slots = R!Slots
  /\ Ring!HostOwned = R!HostOwned
  /\ Ring!AcxDoneHostOwn = R!AcxDoneHostOwn
  /\ Ring!AcxOwned = R!AcxOwned
  /\ Ring!CleanedCtl = R!CleanedCtl
  /\ Ring!FreeAfterClean = R!FreeAfterClean
  /\ Ring!Used = R!Used
  /\ Ring!Oldest = R!Oldest
  /\ \A i : Ring!Succ(i) = R!Succ(i)
  /\ \A s : Ring!Finished(s) <=> R!Finished(s)
  /\ \A s : Ring!CleanedError(s) = R!CleanedError(s)
  /\ \A s : Ring!Claimed(s) <=> R!Claimed(s)
BY DEF Ring!Slots, R!Slots, Ring!HostOwned, R!HostOwned, Ring!AcxDoneHostOwn, R!AcxDoneHostOwn,
       Ring!AcxOwned, R!AcxOwned, Ring!CleanedCtl, R!CleanedCtl, Ring!FreeAfterClean,
       R!FreeAfterClean, Ring!Used, R!Used, Ring!Oldest, R!Oldest, Ring!Succ, R!Succ,
       Ring!Finished, R!Finished, Ring!CleanedError, R!CleanedError, Ring!Claimed, R!Claimed

\* Its operations are the ring's.
LEMMA SameActions ==
  /\ Ring!Init <=> R!Init
  /\ \A f : Ring!AllocTx(f) <=> R!AllocTx(f)
  /\ Ring!TxDataRelease <=> R!TxDataRelease
  /\ Ring!TxDataStoreSkb <=> R!TxDataStoreSkb
  /\ \A s : Ring!AcxComplete(s) <=> R!AcxComplete(s)
  /\ Ring!CleanStart <=> R!CleanStart
  /\ Ring!CleanDesc <=> R!CleanDesc
  /\ Ring!CleanEnd <=> R!CleanEnd
  /\ Ring!Reset <=> R!Reset
<1> USE SameNames
<1>1. Ring!Init <=> R!Init
  BY DEF Ring!Init, R!Init
<1>2. ASSUME NEW f PROVE Ring!AllocTx(f) <=> R!AllocTx(f)
  BY DEF Ring!AllocTx, R!AllocTx
<1>3. Ring!TxDataRelease <=> R!TxDataRelease
  BY DEF Ring!TxDataRelease, R!TxDataRelease, Ring!ringVars, R!ringVars
<1>4. Ring!TxDataStoreSkb <=> R!TxDataStoreSkb
  BY DEF Ring!TxDataStoreSkb, R!TxDataStoreSkb, Ring!hwVars, R!hwVars, Ring!ringVars, R!ringVars
<1>5. ASSUME NEW s PROVE Ring!AcxComplete(s) <=> R!AcxComplete(s)
  BY DEF Ring!AcxComplete, R!AcxComplete, Ring!ringVars, R!ringVars, Ring!opVars, R!opVars
<1>6. Ring!CleanStart <=> R!CleanStart
  BY DEF Ring!CleanStart, R!CleanStart, Ring!hwVars, R!hwVars, Ring!ringVars, R!ringVars
<1>7. Ring!CleanDesc <=> R!CleanDesc
  BY DEF Ring!CleanDesc, R!CleanDesc
<1>8. Ring!CleanEnd <=> R!CleanEnd
  BY DEF Ring!CleanEnd, R!CleanEnd, Ring!hwVars, R!hwVars
<1>9. Ring!Reset <=> R!Reset
  BY DEF Ring!Reset, R!Reset, Ring!CreateTxDescQueue, R!CreateTxDescQueue, Ring!opVars, R!opVars
<1> QED BY <1>1, <1>2, <1>3, <1>4, <1>5, <1>6, <1>7, <1>8, <1>9

\* Its invariant is the ring's.
LEMMA SameInvariant == Ring!IInv <=> R!IInv
<1> USE SameNames
<1>1. Ring!TypeOK <=> R!TypeOK
  BY DEF Ring!TypeOK, R!TypeOK, Ring!OwnBits, R!OwnBits, Ring!Ops, R!Ops
<1>2. \A i : Ring!At(i) = R!At(i)
  BY DEF Ring!At, R!At, Ring!Pos, R!Pos
<1>3. Ring!CountersAgree <=> R!CountersAgree
  BY <1>2 DEF Ring!CountersAgree, R!CountersAgree
<1>4. Ring!FreeMeansHostOwned <=> R!FreeMeansHostOwned
  BY <1>2 DEF Ring!FreeMeansHostOwned, R!FreeMeansHostOwned
<1>5. Ring!OwnerKnown <=> R!OwnerKnown
  BY DEF Ring!OwnerKnown, R!OwnerKnown
<1>6. Ring!TxdescIsYoungest <=> R!TxdescIsYoungest
  BY <1>2 DEF Ring!TxdescIsYoungest, R!TxdescIsYoungest
<1>7. Ring!StatusIsOfTheFrame <=> R!StatusIsOfTheFrame
  BY DEF Ring!StatusIsOfTheFrame, R!StatusIsOfTheFrame
<1> QED
  BY <1>1, <1>3, <1>4, <1>5, <1>6, <1>7 DEF Ring!IInv, R!IInv

-------------------------------------------------------------------------------
(* A workqueue without repetitions *)

Works == {"tx_work", "irq_work"}

Has(q, w) == \E i \in DOMAIN q : q[i] = w
OnceIn(q) == \A i, j \in DOMAIN q : q[i] = q[j] => i = j

\* queue_work keeps it so, and adds that work and no other.
LEMMA Enqueued ==
  ASSUME NEW q \in Seq(Works), OnceIn(q), NEW w \in Works, NEW p,
         p = IF Has(q, w) THEN q ELSE Append(q, w)
  PROVE  /\ p \in Seq(Works) /\ OnceIn(p)
         /\ Has(p, w)
         /\ \A v : v # w => (Has(p, v) <=> Has(q, v))
<1>1. CASE Has(q, w)
  BY <1>1
<1>2. CASE ~Has(q, w)
  <2>1. /\ p \in Seq(Works) /\ Len(p) = Len(q) + 1
        /\ \A i \in 1 .. Len(q) : p[i] = q[i]
        /\ p[Len(q) + 1] = w
    BY <1>2, AppendProperties
  <2>2. /\ Len(q) \in Nat /\ DOMAIN q = 1 .. Len(q)
        /\ DOMAIN p = 1 .. Len(q) + 1
    BY <2>1, LenProperties
  <2> QED BY <1>2, <2>1, <2>2 DEF Has, OnceIn
<1> QED BY <1>1, <1>2

\* So does taking the first work out, which is not queued any more.
LEMMA Dequeued ==
  ASSUME NEW q \in Seq(Works), OnceIn(q), q # << >>
  PROVE  /\ Head(q) \in Works /\ Tail(q) \in Seq(Works) /\ OnceIn(Tail(q))
         /\ Has(q, Head(q)) /\ ~Has(Tail(q), Head(q))
         /\ \A v : v # Head(q) => (Has(Tail(q), v) <=> Has(q, v))
<1>1. /\ Head(q) \in Works /\ Tail(q) \in Seq(Works)
      /\ Len(Tail(q)) = Len(q) - 1
      /\ \A i \in 1 .. Len(Tail(q)) : Tail(q)[i] = q[i + 1]
  BY HeadTailProperties
<1>2. /\ Len(q) \in Nat \ {0} /\ DOMAIN q = 1 .. Len(q)
      /\ DOMAIN Tail(q) = 1 .. Len(q) - 1
      /\ Head(q) = q[1]
  BY <1>1, LenProperties, EmptySeq
<1>3. \A i \in 2 .. Len(q) : i - 1 \in 1 .. Len(q) - 1 /\ Tail(q)[i - 1] = q[i]
  BY <1>1, <1>2
<1>4. OnceIn(Tail(q)) /\ ~Has(Tail(q), Head(q))
  BY <1>1, <1>2 DEF Has, OnceIn
<1>5. Has(q, Head(q))
  BY <1>2 DEF Has
<1>6. ASSUME NEW v, v # Head(q) PROVE Has(Tail(q), v) <=> Has(q, v)
  <2>1. ASSUME NEW i \in DOMAIN q, q[i] = v PROVE Has(Tail(q), v)
    <3>1. i - 1 \in DOMAIN Tail(q) /\ Tail(q)[i - 1] = v
      BY <1>2, <1>3, <1>6, <2>1
    <3> QED BY <3>1 DEF Has
  <2>2. ASSUME NEW i \in DOMAIN Tail(q), Tail(q)[i] = v PROVE Has(q, v)
    <3>1. i + 1 \in DOMAIN q /\ q[i + 1] = v
      BY <1>1, <1>2, <2>2
    <3> QED BY <3>1 DEF Has
  <2> QED BY <2>1, <2>2 DEF Has
<1> QED BY <1>1, <1>4, <1>5, <1>6

Without(q, k) == SubSeq(q, 1, k - 1) \o SubSeq(q, k + 1, Len(q))

\* And so does cancelling one of them, wherever it is.
LEMMA Cancelled ==
  ASSUME NEW q \in Seq(Works), OnceIn(q), NEW k \in DOMAIN q
  PROVE  /\ Without(q, k) \in Seq(Works) /\ OnceIn(Without(q, k))
         /\ ~Has(Without(q, k), q[k])
         /\ \A v : v # q[k] => (Has(Without(q, k), v) <=> Has(q, v))
<1> DEFINE p == Without(q, k)
           a == SubSeq(q, 1, k - 1)
           b == SubSeq(q, k + 1, Len(q))
<1>1. /\ Len(q) \in Nat /\ DOMAIN q = 1 .. Len(q) /\ k \in 1 .. Len(q)
      /\ \A i \in 1 .. Len(q) : q[i] \in Works
  BY LenProperties
<1>2. /\ a \in Seq(Works) /\ Len(a) = k - 1
      /\ \A i \in 1 .. k - 1 : a[i] = q[i]
  <2>1. \A i \in 1 .. k - 1 : q[i] \in Works
    BY <1>1
  <2>2. /\ a \in Seq(Works) /\ Len(a) = IF 1 <= k - 1 THEN (k - 1) - 1 + 1 ELSE 0
        /\ \A i \in 1 .. (k - 1) - 1 + 1 : a[i] = q[1 + i - 1]
    BY <1>1, <2>1, SubSeqProperties
  <2> QED BY <1>1, <2>2
<1>3. /\ b \in Seq(Works) /\ Len(b) = Len(q) - k
      /\ \A i \in 1 .. Len(q) - k : b[i] = q[i + k]
  <2>1. \A i \in k + 1 .. Len(q) : q[i] \in Works
    BY <1>1
  <2>2. /\ b \in Seq(Works)
        /\ Len(b) = IF k + 1 <= Len(q) THEN Len(q) - (k + 1) + 1 ELSE 0
        /\ \A i \in 1 .. Len(q) - (k + 1) + 1 : b[i] = q[(k + 1) + i - 1]
    BY <1>1, <2>1, SubSeqProperties
  <2> HIDE DEF a, b, p
  <2>3. Len(b) = Len(q) - k
    BY <1>1, <2>2
  <2>4. ASSUME NEW i \in 1 .. Len(q) - k PROVE b[i] = q[i + k]
    <3>1. i \in 1 .. Len(q) - (k + 1) + 1 /\ (k + 1) + i - 1 = i + k
      BY <1>1
    <3> QED BY <2>2, <3>1
  <2> QED BY <2>2, <2>3, <2>4
<1>4. p = a \o b
  BY DEF Without
<1> HIDE DEF a, b, p
<1>5. /\ p \in Seq(Works) /\ Len(p) = Len(q) - 1
      /\ \A i \in 1 .. k - 1 : p[i] = q[i]
      /\ \A i \in k .. Len(q) - 1 : p[i] = q[i + 1]
  <2>1. /\ p \in Seq(Works) /\ Len(p) = Len(a) + Len(b)
        /\ \A i \in 1 .. Len(a) + Len(b) :
             p[i] = IF i <= Len(a) THEN a[i] ELSE b[i - Len(a)]
    <3>1. /\ a \o b \in Seq(Works) /\ Len(a \o b) = Len(a) + Len(b)
          /\ \A i \in 1 .. Len(a) + Len(b) :
               (a \o b)[i] = IF i <= Len(a) THEN a[i] ELSE b[i - Len(a)]
      BY ONLY <1>2, <1>3, ConcatProperties
    <3> QED BY ONLY <1>4, <3>1
  <2>2. Len(a) + Len(b) = Len(q) - 1
    BY <1>1, <1>2, <1>3
  <2>3. ASSUME NEW i \in 1 .. k - 1 PROVE p[i] = q[i]
    <3>1. i \in 1 .. Len(a) + Len(b) /\ i <= Len(a)
      BY <1>1, <1>2, <2>2
    <3> QED BY <1>2, <2>1, <3>1
  <2>4. ASSUME NEW i \in k .. Len(q) - 1 PROVE p[i] = q[i + 1]
    <3>1. i \in 1 .. Len(a) + Len(b) /\ ~(i <= Len(a))
      BY <1>1, <1>2, <2>2
    <3>2. i - Len(a) \in 1 .. Len(q) - k /\ (i - Len(a)) + k = i + 1
      BY <1>1, <1>2
    <3>3. p[i] = b[i - Len(a)]
      BY <2>1, <3>1
    <3>4. b[i - Len(a)] = q[(i - Len(a)) + k]
      BY <1>3, <3>2
    <3> QED BY <3>2, <3>3, <3>4
  <2> QED BY <2>1, <2>2, <2>3, <2>4
<1>6. DOMAIN p = 1 .. Len(q) - 1
  BY <1>5, LenProperties
<1> DEFINE from(i) == IF i < k THEN i ELSE i + 1
<1>7. OnceIn(p) /\ ~Has(p, q[k])
  <2>1. ASSUME NEW i \in DOMAIN p PROVE from(i) \in DOMAIN q /\ from(i) # k /\ p[i] = q[from(i)]
    <3>1. CASE i < k
      <4>1. i \in 1 .. k - 1 /\ from(i) = i /\ i \in 1 .. Len(q)
        BY <1>1, <1>6, <3>1
      <4> QED BY <1>1, <1>5, <3>1, <4>1
    <3>2. CASE ~(i < k)
      <4>1. i \in k .. Len(q) - 1 /\ from(i) = i + 1 /\ i + 1 \in 1 .. Len(q)
        BY <1>1, <1>6, <3>2
      <4>2. from(i) # k
        BY <1>1, <3>2, <4>1
      <4>3. p[i] = q[i + 1]
        BY <1>5, <4>1
      <4> QED BY ONLY <1>1, <4>1, <4>2, <4>3
    <3> QED BY <3>1, <3>2
  <2>2. \A i, j \in DOMAIN p : from(i) = from(j) => i = j
    BY <1>1, <1>6
  <2> HIDE DEF from
  <2>3. OnceIn(p)
    BY ONLY OnceIn(q), <2>1, <2>2 DEF OnceIn
  <2>4. ~Has(p, q[k])
    BY ONLY OnceIn(q), k \in DOMAIN q, <2>1 DEF Has, OnceIn
  <2> QED BY <2>3, <2>4
<1>8. ASSUME NEW v, v # q[k] PROVE Has(p, v) <=> Has(q, v)
  <2>1. ASSUME NEW i \in DOMAIN q, q[i] = v PROVE Has(p, v)
    <3>1. CASE i < k
      <4>1. i \in 1 .. k - 1 /\ i \in DOMAIN p
        BY <1>1, <1>6, <3>1
      <4> QED BY <1>5, <2>1, <4>1 DEF Has
    <3>2. CASE i > k
      <4>1. i - 1 \in k .. Len(q) - 1 /\ i - 1 \in DOMAIN p /\ (i - 1) + 1 = i
        BY <1>1, <1>6, <3>2
      <4> QED BY <1>5, <2>1, <4>1 DEF Has
    <3> QED BY <1>1, <1>8, <2>1, <3>1, <3>2
  <2>2. ASSUME NEW i \in DOMAIN p, p[i] = v PROVE Has(q, v)
    <3>1. CASE i < k
      <4>1. i \in 1 .. k - 1 /\ i \in DOMAIN q
        BY <1>1, <1>6, <3>1
      <4> QED BY <1>5, <2>2, <4>1 DEF Has
    <3>2. CASE ~(i < k)
      <4>1. i \in k .. Len(q) - 1 /\ i + 1 \in DOMAIN q
        BY <1>1, <1>6, <3>2
      <4> QED BY <1>5, <2>2, <4>1 DEF Has
    <3> QED BY <3>1, <3>2
  <2> QED BY <2>1, <2>2 DEF Has
<1> QED BY <1>5, <1>7, <1>8 DEF p

\* The empty queue has none.
LEMMA NoWorks ==
  /\ << >> \in Seq(Works) /\ OnceIn(<< >>) /\ \A w : ~Has(<< >>, w)
BY EmptySeq DEF Has, OnceIn

-------------------------------------------------------------------------------
(* The ring *)

\* What a step of the session does to the ring: nothing, or one of its operations.
LEMMA RingSteps ==
  ASSUME [SessionNext]_sessionVars
  PROVE  \/ UNCHANGED R!vars
         \/ TxWorkAlloc /\ R!AllocTx(Head(tx_queue)) /\ UNCHANGED session
         \/ TxWorkRelease /\ R!TxDataRelease /\ UNCHANGED session
         \/ TxWorkStoreSkb /\ R!TxDataStoreSkb /\ UNCHANGED session
         \/ IrqWorkCleanStart /\ R!CleanStart /\ UNCHANGED session
         \/ IrqWorkCleanDesc /\ R!CleanDesc /\ UNCHANGED session
         \/ IrqWorkCleanEnd /\ R!CleanEnd /\ UNCHANGED session
         \/ \E s \in R!Slots : AcxComplete(s) /\ R!AcxComplete(s) /\ UNCHANGED session
         \/ OpStartReset /\ R!Reset
<1> USE DEF ring, vars, sessionVars, R!vars, R!hwVars, R!ringVars, R!opVars
<1>1. CASE \E c \in Cpus, f \in Frames : Call(c, f)
  BY <1>1 DEF Call, OpTxCall
<1>2. CASE \E c \in Cpus : Send(c)
  BY <1>2 DEF Send, OpTx, OpTxEnqueue, OpTxQueueWork, OpTxCheckLength, OpTxStop
<1>3. CASE Work
  <2>1. CASE StartWork
    BY <2>1 DEF StartWork
  <2>2. CASE TxWork
    BY <1>3, <2>2, SameActions
    DEF Work, TxWork, TxWorkEmpty, TxWorkAlloc, TxWorkBusy, TxWorkRelease,
        TxWorkStoreSkb, TxWorkLimit
  <2>3. CASE IrqWork
    BY <1>3, <2>3, SameActions
    DEF Work, IrqWork, IrqWorkRead, IrqWorkCleanStart, IrqWorkCleanDesc,
        IrqWorkCleanEnd, IrqWorkWake, IrqWorkUnmask
  <2> QED BY <1>3, <2>1, <2>2, <2>3 DEF Work
<1>4. CASE TxWorkDown
  BY <1>4 DEF TxWorkDown
<1>5. CASE Adapter
  BY <1>5, SameActions DEF Adapter, Acx, AcxComplete, OtherIrq, R!Slots
<1>6. CASE Interrupt
  BY <1>6 DEF Interrupt, AcxInterrupt
<1>7. CASE OpStop \/ RecoverHw \/ AcxStop
  BY <1>7 DEF OpStop, RecoverHw, AcxStop, StopIrqs, CancelWorks, Cancel,
              FlushLock, FlushFrame, FlushEnd
<1>8. CASE Open \/ Restart \/ OpStart
  BY <1>8, SameActions
  DEF Open, Restart, OpStart, OpStartReset, OpStartUp, FullReset, NoReset
<1>9. CASE UNCHANGED sessionVars
  BY <1>9
<1> QED BY <1>1, <1>2, <1>3, <1>4, <1>5, <1>6, <1>7, <1>8, <1>9 DEF SessionNext

\* So the ring keeps its invariant whenever the interface is stopped and started.
LEMMA RingIInv ==
  ASSUME SessionIInv, [SessionNext]_sessionVars
  PROVE  R!IInv'
<1>1. R!IInv
  BY SameInvariant DEF SessionIInv
<1>2. ASSUME R!AllocTx(Head(tx_queue)), TxWorkAlloc PROVE R!IInv'
  <2>1. Head(tx_queue) \in Frames
    BY <1>2, HeadTailProperties
    DEF SessionIInv, FramesConserved, SessionTypeOK, TypeOK, TxWorkAlloc
  <2> QED BY <1>1, <1>2, <2>1, R!AllocTxIInv, TxPathAssumption
<1> QED
  BY <1>1, <1>2, RingSteps, R!TxDataReleaseIInv, R!TxDataStoreSkbIInv, R!AcxCompleteIInv,
     R!CleanStartIInv, R!CleanDescIInv, R!CleanEndIInv, R!ResetIInv, R!StutterIInv,
     TxPathAssumption

\* The ring's part of a primed invariant, in the words of the session.
LEMMA SameNext ==
  /\ (Ring!IInv <=> R!IInv)'
  /\ (Ring!TypeOK <=> R!TypeOK)'
  /\ (Ring!Used = R!Used)'
  /\ (Ring!Oldest = R!Oldest)'
  /\ (\A s : Ring!Claimed(s) <=> R!Claimed(s))'
<1>1. Ring!TypeOK <=> R!TypeOK
  BY SameNames DEF Ring!TypeOK, R!TypeOK, Ring!OwnBits, R!OwnBits, Ring!Ops, R!Ops
<1>2. /\ Ring!Used = R!Used /\ Ring!Oldest = R!Oldest
      /\ \A s : Ring!Claimed(s) <=> R!Claimed(s)
  BY SameNames
<1>3. Ring!IInv <=> R!IInv
  BY SameInvariant
<1> QED BY <1>1, <1>2, <1>3, PTL

-------------------------------------------------------------------------------
(* The frames *)

\* Every variable of the session keeps its type.
LEMMA TypesKept ==
  ASSUME SessionIInv, [SessionNext]_sessionVars
  PROVE  SessionTypeOK'
<1> USE DEF ring, calls, works, irq, queue, vars, flags, fates, session,
            sessionVars, Move
<1> DEFINE MacTypeOK ==
             /\ tx_queue \in Seq(Frames) /\ stopped \in BOOLEAN /\ byLength \in BOOLEAN
             /\ op_tx \in [Cpus -> {"idle", "enqueue", "queue_work", "check", "stop"}]
             /\ sending \in [Cpus -> Frames \cup {"none"}]
             /\ sent \in Nat /\ statuses \in Nat
           WorkTypeOK ==
             /\ workqueue \in Seq(Works)
             /\ running \in {"none", "tx_work", "irq_work"}
             /\ step \in WorkSteps
             /\ txComplete \in BOOLEAN /\ otherIrq \in BOOLEAN /\ irqMasked \in BOOLEAN
           SwitchTypeOK ==
             /\ HW_UP \in BOOLEAN /\ irqs_active \in BOOLEAN
             /\ at \in Places /\ recovering \in BOOLEAN /\ stops \in Nat
             /\ forgotten \in Nat /\ lost \in Nat
<1>1. MacTypeOK /\ WorkTypeOK /\ SwitchTypeOK /\ SendingIsFrame /\ OnceIn(workqueue)
  BY DEF SessionIInv, FramesConserved, SessionTypeOK, TypeOK, Works, QueuedOnce,
         OnceIn
<1>2. R!IInv' /\ R!TypeOK' /\ R!Used \in Nat
  BY RingIInv, SameInvariant, R!Bounds, TxPathAssumption DEF SessionIInv, R!IInv
<1> SUFFICES (MacTypeOK /\ WorkTypeOK /\ SwitchTypeOK)'
  BY <1>2, SameNext DEF SessionTypeOK, TypeOK, Works
<1>3. ASSUME NEW w \in Works, QueueWork(w) PROVE workqueue' \in Seq(Works)
  BY <1>1, <1>3, Enqueued DEF QueueWork, Queued, Has
<1>4. CASE \E c \in Cpus, f \in Frames : Call(c, f)
  BY <1>1, <1>4 DEF Call, OpTxCall
<1>5. CASE \E c \in Cpus : Send(c)
  <2> PICK c \in Cpus : Send(c)
    BY <1>5
  <2>1. CASE OpTxEnqueue(c)
    <3>1. tx_queue' \in Seq(Frames)
      BY <1>1, <2>1, AppendProperties DEF OpTxEnqueue, SendingIsFrame
    <3> QED BY <1>1, <2>1, <3>1 DEF Send, OpTxEnqueue
  <2>2. CASE OpTxQueueWork(c)
    BY <1>1, <1>3, <2>2 DEF Send, OpTxQueueWork, Works
  <2>3. CASE OpTxCheckLength(c)
    BY <1>1, <2>3 DEF Send, OpTxCheckLength
  <2>4. CASE OpTxStop(c)
    BY <1>1, <2>4 DEF Send, OpTxStop
  <2> QED BY <2>1, <2>2, <2>3, <2>4 DEF Send, OpTx
<1>6. CASE Work
  <2>1. CASE StartWork
    <3>1. Head(workqueue) \in Works /\ Tail(workqueue) \in Seq(Works)
      BY <1>1, <2>1, Dequeued DEF StartWork
    <3> QED BY <1>1, <1>6, <2>1, <3>1 DEF Work, StartWork, Works, WorkSteps
  <2>2. CASE TxWork
    <3>1. tx_queue # << >> => Tail(tx_queue) \in Seq(Frames)
      BY <1>1, HeadTailProperties
    <3>2. MacTypeOK'
      BY <1>1, <2>2, <3>1
      DEF TxWork, TxWorkEmpty, TxWorkAlloc, TxWorkBusy, TxWorkRelease,
          TxWorkStoreSkb, TxWorkLimit, Requeued
    <3>3. WorkTypeOK'
      <4>1. UNCHANGED <<workqueue, irq>>
        BY <2>2
        DEF TxWork, TxWorkEmpty, TxWorkAlloc, TxWorkBusy, TxWorkRelease,
            TxWorkStoreSkb, TxWorkLimit, EndWork, GoTo
      <4>2. /\ running' = running \/ running' = "none"
            /\ step' \in {"start", "tx_data", "store_skb", "limit"}
        BY <2>2
        DEF TxWork, TxWorkEmpty, TxWorkAlloc, TxWorkBusy, TxWorkRelease,
            TxWorkStoreSkb, TxWorkLimit, EndWork, GoTo
      <4>3. WorkTypeOK
        BY <1>1
      <4> QED BY ONLY <4>1, <4>2, <4>3 DEF WorkSteps, irq
    <3> QED BY <1>1, <1>6, <3>2, <3>3 DEF Work
  <2>3. CASE IrqWork
    <3>1. RestartTx => workqueue' \in Seq(Works)
      BY <1>3 DEF RestartTx, Works
    <3>2. MacTypeOK'
      <4>1. CASE IrqWorkWake
        BY <1>1, <4>1 DEF IrqWorkWake
      <4>2. CASE IrqWorkCleanDesc
        BY <1>1, <4>2 DEF IrqWorkCleanDesc
      <4> QED BY <1>1, <2>3, <4>1, <4>2
          DEF IrqWork, IrqWorkRead, IrqWorkCleanStart, IrqWorkCleanEnd, IrqWorkUnmask
    <3>3. WorkTypeOK'
      <4>1. CASE IrqWorkWake
        BY <1>1, <3>1, <4>1 DEF IrqWorkWake, WorkSteps
      <4> QED BY <1>1, <2>3, <4>1
          DEF IrqWork, IrqWorkRead, IrqWorkCleanStart, IrqWorkCleanDesc,
              IrqWorkCleanEnd, IrqWorkUnmask, EndWork, GoTo, WorkSteps,
              ReasonAfterWork, MaskAfterWork
    <3> QED BY <1>1, <1>6, <3>2, <3>3 DEF Work
  <2> QED BY <1>6, <2>1, <2>2, <2>3 DEF Work
<1>7. CASE TxWorkDown
  BY <1>1, <1>7 DEF TxWorkDown, EndWork, WorkSteps
<1>8. CASE Adapter
  <2>1. CASE \E s \in 0 .. TX_CNT - 1 : AcxComplete(s) /\ UNCHANGED session
    <3>1. /\ UNCHANGED <<tx_queue, queue, calls, statuses, works, otherIrq, irqMasked, session>>
          /\ txComplete' = TRUE
      BY <2>1 DEF AcxComplete
    <3> QED BY <1>1, <3>1 DEF queue, calls, works, session, flags, fates
  <2>2. CASE OtherIrq /\ UNCHANGED session
    BY <1>1, <2>2 DEF OtherIrq
  <2> QED BY <1>8, <2>1, <2>2 DEF Adapter, Acx
<1>9. CASE Interrupt
  <2>1. workqueue' \in Seq(Works)
    BY <1>3, <1>9 DEF Interrupt, AcxInterrupt, Works
  <2>2. irqMasked' = TRUE
    BY <1>9 DEF Interrupt, AcxInterrupt
  <2>3. UNCHANGED <<tx_queue, stopped, byLength, calls, statuses, running, step, txComplete,
                    otherIrq, session>>
    BY <1>9 DEF Interrupt, AcxInterrupt
  <2> QED BY <1>1, <2>1, <2>2, <2>3
<1>10. CASE OpStop \/ RecoverHw
  <2>1. CASE OpStop
    <3>1. at' = "stop" /\ recovering' = FALSE /\ stops' = stops + 1
          /\ UNCHANGED <<vars, flags, fates>>
      BY <2>1 DEF OpStop
    <3>2. stops' \in Nat
      BY <1>1, <3>1
    <3>3. recovering' \in BOOLEAN
      BY <3>1, Zenon
    <3> QED BY <1>1, <3>1, <3>2, <3>3 DEF Places
  <2>2. CASE RecoverHw
    BY <1>1, <2>2 DEF RecoverHw, Places
  <2> QED BY <1>10, <2>1, <2>2
<1>11. CASE AcxStop
  <2>1. CASE CancelWorks
    <3>1. ASSUME NEW w, Cancel(w) PROVE workqueue' \in Seq(Works)
      <4>1. CASE \E i \in DOMAIN workqueue : workqueue' = Without(workqueue, i)
        BY <1>1, <4>1, Cancelled
      <4> QED BY <1>1, <3>1, <4>1 DEF Cancel, Without
    <3>2. PICK w : Cancel(w)
      BY <2>1 DEF CancelWorks
    <3>3. MacTypeOK' /\ WorkTypeOK'
      BY <1>1, <3>1, <3>2 DEF Cancel
    <3>4. SwitchTypeOK'
      BY <1>1, <2>1 DEF CancelWorks, Cancel, Places
    <3> QED BY <3>3, <3>4
  <2>2. CASE FlushFrame
    BY <1>1, <2>2, HeadTailProperties DEF FlushFrame
  <2>3. CASE StopIrqs
    BY <1>1, <2>3 DEF StopIrqs, Places
  <2>4. CASE FlushLock
    BY <1>1, <2>4 DEF FlushLock, Places
  <2>5. CASE FlushEnd
    BY <1>1, <2>5 DEF FlushEnd, Places
  <2> QED BY <1>11, <2>1, <2>2, <2>3, <2>4, <2>5 DEF AcxStop
<1>12. CASE Open \/ Restart \/ OpStart
  <2>1. CASE Open
    BY <1>1, <2>1 DEF Open, Places
  <2>2. CASE Restart
    BY <1>1, <2>2 DEF Restart, Places
  <2>3. CASE OpStartReset
    <3>1. \/ lost' = lost + R!Used /\ txComplete' = FALSE /\ otherIrq' = FALSE
          \/ UNCHANGED <<lost, txComplete, otherIrq>>
      BY <2>3, SameNames DEF OpStartReset, FullReset, NoReset
    <3>2. lost' \in Nat /\ txComplete' \in BOOLEAN /\ otherIrq' \in BOOLEAN
      <4>1. lost \in Nat /\ (lost' = lost + R!Used \/ lost' = lost)
        BY <1>1, <3>1
      <4>2. lost' \in Nat
        BY ONLY <1>2, <4>1
      <4>3. txComplete' \in BOOLEAN /\ otherIrq' \in BOOLEAN
        BY <1>1, <3>1, Zenon
      <4> QED BY <4>2, <4>3
    <3> QED BY <1>1, <2>3, <3>2 DEF OpStartReset, Places
  <2>4. CASE OpStartUp
    BY <1>1, <2>4 DEF OpStartUp, Places
  <2> QED BY <1>12, <2>1, <2>2, <2>3, <2>4 DEF OpStart
<1>13. CASE UNCHANGED sessionVars
  BY <1>1, <1>13
<1> QED
  BY <1>4, <1>5, <1>6, <1>7, <1>8, <1>9, <1>10, <1>11, <1>12, <1>13 DEF SessionNext

\* What a frame passes on its way; a step that leaves all of it alone keeps the sum.
Way == <<tx_queue, free, sent, statuses, forgotten, lost>>

\* Each step moves one frame one stage further or none; the reset moves all those in
\* the ring at once.
LEMMA FramesKept ==
  ASSUME SessionIInv, [SessionNext]_sessionVars
  PROVE  FramesConserved'
<1> USE DEF ring, calls, works, irq, queue, vars, flags, fates, session,
            sessionVars
<1> DEFINE Sum == sent = Len(tx_queue) + R!Used + (statuses + forgotten + lost)
           Numbers == /\ Len(tx_queue) \in Nat /\ R!Used \in Nat /\ sent \in Nat
                      /\ statuses \in Nat /\ forgotten \in Nat /\ lost \in Nat
<1>1. /\ tx_queue \in Seq(Frames) /\ SendingIsFrame
      /\ Sum /\ Numbers
      /\ free \in 0 .. TX_CNT /\ TX_CNT \in Nat
  <2>1. tx_queue \in Seq(Frames) /\ SendingIsFrame /\ Sum
    BY SameNames
    DEF SessionIInv, FramesConserved, SessionTypeOK, TypeOK, Gone
  <2>2. R!IInv /\ free \in 0 .. TX_CNT /\ TX_CNT \in Nat
    BY SameInvariant, TxPathAssumption DEF SessionIInv, R!IInv, R!TypeOK
  <2>3. R!Used \in Nat
    BY <2>2, R!Bounds, TxPathAssumption
  <2>4. sent \in Nat /\ statuses \in Nat /\ forgotten \in Nat /\ lost \in Nat
    BY DEF SessionIInv, FramesConserved, SessionTypeOK, TypeOK
  <2> QED BY <2>1, <2>2, <2>3, <2>4, LenProperties
<1> SUFFICES Sum'
  BY TypesKept, SameNext DEF FramesConserved, Gone
<1>2. CASE UNCHANGED Way
  BY <1>1, <1>2 DEF Way, R!Used
<1>3. CASE \E c \in Cpus : Send(c) /\ OpTxEnqueue(c)
  <2> PICK c \in Cpus : Send(c) /\ OpTxEnqueue(c)
    BY <1>3
  <2>1. Len(tx_queue') = Len(tx_queue) + 1
    BY <1>1, AppendProperties DEF OpTxEnqueue, SendingIsFrame
  <2>2. sent' = sent + 1 /\ UNCHANGED <<R!Used, statuses, forgotten, lost>>
    BY DEF OpTxEnqueue, Send, R!Used
  <2> QED BY <1>1, <2>1, <2>2
<1>4. CASE TxWorkAlloc /\ R!AllocTx(Head(tx_queue)) /\ UNCHANGED session
  <2>1. Len(tx_queue') = Len(tx_queue) - 1
    BY <1>1, <1>4, HeadTailProperties DEF TxWorkAlloc
  <2>2. R!Used' = R!Used + 1
    BY <1>1, <1>4 DEF R!AllocTx, R!Used
  <2>3. UNCHANGED <<sent, statuses, forgotten, lost>>
    BY <1>4 DEF TxWorkAlloc
  <2> QED BY <1>1, <2>1, <2>2, <2>3
<1>5. CASE IrqWorkCleanDesc /\ R!CleanDesc /\ UNCHANGED session
  <2>1. R!Used' = R!Used - 1
    BY <1>1, <1>5 DEF R!CleanDesc, R!FreeAfterClean, R!Used
  <2>2. statuses' = statuses + 1 /\ UNCHANGED <<tx_queue, sent, forgotten, lost>>
    BY <1>5 DEF IrqWorkCleanDesc
  <2> QED BY <1>1, <2>1, <2>2
<1>6. CASE FlushFrame
  <2>1. Len(tx_queue') = Len(tx_queue) - 1
    BY <1>1, <1>6, HeadTailProperties DEF FlushFrame
  <2>2. UNCHANGED <<R!Used, sent, lost>>
    BY <1>6 DEF FlushFrame, R!Used
  <2>3. \/ statuses' = statuses + 1 /\ forgotten' = forgotten
        \/ forgotten' = forgotten + 1 /\ statuses' = statuses
    BY <1>6 DEF FlushFrame
  <2> QED BY <1>1, <2>1, <2>2, <2>3
<1>7. CASE OpStartReset /\ FullReset
  <2>1. R!Used' = 0 /\ lost' = lost + R!Used
    BY <1>1, <1>7, SameActions, SameNames
    DEF FullReset, R!Reset, R!CreateTxDescQueue, R!Used
  <2>2. UNCHANGED <<tx_queue, sent, statuses, forgotten>>
    BY <1>7 DEF OpStartReset
  <2> QED BY <1>1, <2>1, <2>2
<1>8. ASSUME Work PROVE UNCHANGED Way \/ TxWorkAlloc \/ IrqWorkCleanDesc
  <2>1. ASSUME TxWork PROVE UNCHANGED Way \/ TxWorkAlloc
    BY <1>8, <2>1, SameActions
    DEF Way, Work, TxWork, TxWorkEmpty, TxWorkBusy, TxWorkRelease, TxWorkStoreSkb,
        TxWorkLimit, R!TxDataRelease, R!TxDataStoreSkb, R!ringVars, Requeued
  <2>2. ASSUME IrqWork PROVE UNCHANGED Way \/ IrqWorkCleanDesc
    BY <1>8, <2>2, SameActions
    DEF Way, Work, IrqWork, IrqWorkRead, IrqWorkCleanStart, IrqWorkCleanEnd,
        IrqWorkWake, IrqWorkUnmask, R!CleanStart, R!CleanEnd, R!ringVars
  <2>3. ASSUME StartWork PROVE UNCHANGED Way
    BY <1>8, <2>3 DEF Way, Work, StartWork
  <2> QED BY <1>8, <2>1, <2>2, <2>3 DEF Work
<1>9. ASSUME \E c \in Cpus, f \in Frames : Call(c, f) PROVE UNCHANGED Way
  BY <1>9 DEF Way, Call, OpTxCall
<1>10. ASSUME NEW c \in Cpus, Send(c) PROVE UNCHANGED Way \/ OpTxEnqueue(c)
  BY <1>10 DEF Way, Send, OpTx, OpTxQueueWork, OpTxCheckLength, OpTxStop
<1>11. ASSUME TxWorkDown \/ Adapter \/ Interrupt PROVE UNCHANGED Way
  BY <1>11, SameActions
  DEF Way, TxWorkDown, Adapter, Acx, AcxComplete, R!AcxComplete, R!ringVars, OtherIrq,
      Interrupt, AcxInterrupt
<1>12. ASSUME OpStop \/ RecoverHw \/ AcxStop PROVE UNCHANGED Way \/ FlushFrame
  BY <1>12
  DEF Way, OpStop, RecoverHw, AcxStop, StopIrqs, CancelWorks, Cancel,
      FlushLock, FlushEnd
<1>13. ASSUME Open \/ Restart \/ OpStart
       PROVE  UNCHANGED Way \/ (OpStartReset /\ FullReset)
  BY <1>13
  DEF Way, Open, Restart, OpStart, OpStartReset, OpStartUp, NoReset
<1>14. ASSUME UNCHANGED sessionVars PROVE UNCHANGED Way
  BY <1>14 DEF Way
<1>15. CASE Work
  <2>1. TxWorkAlloc => R!AllocTx(Head(tx_queue))
    BY SameActions DEF TxWorkAlloc
  <2>2. IrqWorkCleanDesc => R!CleanDesc
    BY SameActions DEF IrqWorkCleanDesc
  <2>3. UNCHANGED session
    BY <1>15 DEF Work
  <2> QED BY <1>2, <1>4, <1>5, <1>8, <1>15, <2>1, <2>2, <2>3
<1> QED
  BY <1>2, <1>3, <1>6, <1>7, <1>9, <1>10, <1>11, <1>12, <1>13, <1>14, <1>15
  DEF SessionNext

-------------------------------------------------------------------------------
(* The works and the callers *)

Waits(w) == Has(workqueue, w)
AllIdle == \A c \in Cpus : op_tx[c] = "idle"

LEMMA WaitsIsQueued ==
  /\ \A w : Queued(w) <=> Waits(w)
  /\ \A w : Idle(w) <=> ~Waits(w) /\ running # w
  /\ QueuedOnce <=> OnceIn(workqueue)
BY DEF Queued, Idle, QueuedOnce, Waits, Has, OnceIn

LEMMA WaitsIsQueuedNext ==
  /\ (\A w : Queued(w) <=> Waits(w))'
  /\ (\A w : Idle(w) <=> ~Waits(w) /\ running # w)'
  /\ (QueuedOnce <=> OnceIn(workqueue))'
<1>1. /\ \A w : Queued(w) <=> Waits(w)
      /\ \A w : Idle(w) <=> ~Waits(w) /\ running # w
      /\ QueuedOnce <=> OnceIn(workqueue)
  BY WaitsIsQueued
<1> QED BY <1>1, PTL

\* What the invariant says of them.
LEMMA WorksNow ==
  ASSUME SessionIInv
  PROVE  /\ workqueue \in Seq(Works) /\ OnceIn(workqueue)
         /\ running \in {"none", "tx_work", "irq_work"}
         /\ op_tx \in [Cpus -> {"idle", "enqueue", "queue_work", "check", "stop"}]
BY WaitsIsQueued
DEF SessionIInv, FramesConserved, SessionTypeOK, TypeOK, Works

\* Who queues a work, and who takes one out.
LEMMA QueueSteps ==
  ASSUME SessionIInv, [SessionNext]_sessionVars
  PROVE  \/ UNCHANGED <<workqueue, running>>
         \/ \E c \in Cpus : op_tx[c] = "queue_work" /\ QueueWork("tx_work") /\ UNCHANGED running
         \/ /\ running = "none" /\ workqueue # << >>
            /\ running' = Head(workqueue) /\ workqueue' = Tail(workqueue)
         \/ running = "tx_work" /\ running' = "none" /\ UNCHANGED workqueue
         \/ IrqWorkUnmask /\ running' = "none" /\ UNCHANGED workqueue
         \/ running = "irq_work" /\ QueueWork("tx_work") /\ UNCHANGED running
         \/ irqs_active /\ QueueWork("irq_work") /\ UNCHANGED <<running, irqs_active>>
         \/ at = "cancel_irq" /\ Cancel("irq_work")
         \/ at = "cancel_tx" /\ Cancel("tx_work")
<1> USE DEF ring, calls, works, irq, queue, vars, flags, fates, session,
            sessionVars, Move
<1>1. CASE \E c \in Cpus, f \in Frames : Call(c, f)
  BY <1>1 DEF Call, OpTxCall
<1>2. CASE \E c \in Cpus : Send(c)
  BY <1>2 DEF Send, OpTx, OpTxEnqueue, OpTxQueueWork, OpTxCheckLength, OpTxStop
<1>3. CASE Work
  <2>1. CASE StartWork
    BY <2>1 DEF StartWork
  <2>2. CASE TxWork
    BY <2>2
    DEF TxWork, TxWorkEmpty, TxWorkAlloc, TxWorkBusy, TxWorkRelease,
        TxWorkStoreSkb, TxWorkLimit, EndWork, GoTo
  <2>3. CASE IrqWork
    BY <2>3
    DEF IrqWork, IrqWorkRead, IrqWorkCleanStart, IrqWorkCleanDesc, IrqWorkCleanEnd,
        IrqWorkWake, IrqWorkUnmask, EndWork, GoTo, RestartTx
  <2> QED BY <1>3, <2>1, <2>2, <2>3 DEF Work
<1>4. CASE TxWorkDown
  BY <1>4 DEF TxWorkDown, EndWork
<1>5. CASE Adapter
  BY <1>5 DEF Adapter, Acx, AcxComplete, OtherIrq
<1>6. CASE Interrupt
  BY <1>6 DEF Interrupt, AcxInterrupt
<1>7. CASE OpStop \/ RecoverHw \/ AcxStop
  BY <1>7 DEF OpStop, RecoverHw, AcxStop, StopIrqs, CancelWorks, CancelOrder,
              FlushLock, FlushFrame, FlushEnd
<1>8. CASE Open \/ Restart \/ OpStart
  BY <1>8 DEF Open, Restart, OpStart, OpStartReset, OpStartUp
<1>9. CASE UNCHANGED sessionVars
  BY <1>9
<1> QED BY <1>1, <1>2, <1>3, <1>4, <1>5, <1>6, <1>7, <1>8, <1>9 DEF SessionNext

\* What queueing a work means for the works that wait.
LEMMA QueueWorkNext ==
  ASSUME SessionIInv, NEW w \in Works, QueueWork(w)
  PROVE  /\ Waits(w)' /\ OnceIn(workqueue')
         /\ \A v : v # w => (Waits(v)' <=> Waits(v))
<1>1. workqueue' = IF Has(workqueue, w) THEN workqueue ELSE Append(workqueue, w)
  BY WaitsIsQueued DEF QueueWork, Waits
<1> QED BY <1>1, WorksNow, Enqueued DEF Waits

\* What starting one means.
LEMMA StartNext ==
  ASSUME SessionIInv, workqueue # << >>, workqueue' = Tail(workqueue)
  PROVE  /\ Head(workqueue) \in Works
         /\ Waits(Head(workqueue)) /\ OnceIn(workqueue')
         /\ \A v : v # Head(workqueue) => (Waits(v)' <=> Waits(v))
         /\ \A v : Waits(v)' => Waits(v)
BY WorksNow, Dequeued DEF Waits

\* What cancelling one means.
LEMMA CancelNext ==
  ASSUME SessionIInv, NEW w, Cancel(w)
  PROVE  /\ ~Waits(w)' /\ running # w /\ UNCHANGED running
         /\ OnceIn(workqueue')
         /\ \A v : v # w => (Waits(v)' <=> Waits(v))
<1> USE DEF works, Waits
<1>1. running # w /\ UNCHANGED running
  BY DEF Cancel
<1>2. CASE ~Queued(w) /\ UNCHANGED workqueue
  BY <1>1, <1>2, WaitsIsQueued, WorksNow
<1>3. CASE \E i \in DOMAIN workqueue :
             workqueue[i] = w /\ workqueue' = Without(workqueue, i)
  BY <1>1, <1>3, WorksNow, Cancelled
<1> QED BY <1>2, <1>3 DEF Cancel, Without

\* The works once again, now by what becomes of one that waits or runs.
LEMMA WorkStays ==
  ASSUME SessionIInv, [SessionNext]_sessionVars
  PROVE  /\ OnceIn(workqueue')
         /\ ~irqs_active /\ Idle("irq_work") => Idle("irq_work")'
         /\ AllIdle /\ Idle("tx_work") /\ Idle("irq_work") => Idle("tx_work")'
         /\ Waits("irq_work") \/ running = "irq_work" =>
              Waits("irq_work")' \/ running' = "irq_work" \/ IrqWorkUnmask \/ at = "cancel_irq"
<1> DEFINE WaitsIdle(w) == ~Waits(w) /\ running # w
           Kept == /\ OnceIn(workqueue')
                   /\ ~irqs_active /\ WaitsIdle("irq_work") => WaitsIdle("irq_work")'
                   /\ AllIdle /\ WaitsIdle("tx_work") /\ WaitsIdle("irq_work") =>
                        WaitsIdle("tx_work")'
                   /\ Waits("irq_work") \/ running = "irq_work" =>
                        \/ Waits("irq_work")' \/ running' = "irq_work"
                        \/ IrqWorkUnmask \/ at = "cancel_irq"
<1>1. /\ \A w : Idle(w) <=> WaitsIdle(w)
      /\ \A w : Idle(w)' <=> WaitsIdle(w)'
  BY WaitsIsQueued, WaitsIsQueuedNext
<1> SUFFICES Kept
  BY <1>1
<1>2. OnceIn(workqueue) /\ "tx_work" \in Works /\ "irq_work" \in Works
  BY WorksNow DEF Works
<1>3. CASE UNCHANGED <<workqueue, running>>
  BY <1>2, <1>3 DEF Waits
<1>4. CASE \E c \in Cpus : op_tx[c] = "queue_work" /\ QueueWork("tx_work") /\ UNCHANGED running
  BY <1>2, <1>4, QueueWorkNext DEF AllIdle
<1>5. CASE /\ running = "none" /\ workqueue # << >>
           /\ running' = Head(workqueue) /\ workqueue' = Tail(workqueue)
  BY <1>5, StartNext
<1>6. CASE running = "tx_work" /\ running' = "none" /\ UNCHANGED workqueue
  BY <1>2, <1>6 DEF Waits
<1>7. CASE IrqWorkUnmask /\ running' = "none" /\ UNCHANGED workqueue
  BY <1>2, <1>7 DEF Waits
<1>8. CASE running = "irq_work" /\ QueueWork("tx_work") /\ UNCHANGED running
  BY <1>2, <1>8, QueueWorkNext
<1>9. CASE irqs_active /\ QueueWork("irq_work") /\ UNCHANGED <<running, irqs_active>>
  BY <1>2, <1>9, QueueWorkNext
<1>10. CASE at = "cancel_irq" /\ Cancel("irq_work")
  BY <1>10, CancelNext
<1>11. CASE at = "cancel_tx" /\ Cancel("tx_work")
  BY <1>11, CancelNext
<1> QED BY <1>3, <1>4, <1>5, <1>6, <1>7, <1>8, <1>9, <1>10, <1>11, QueueSteps

\* How the session itself moves.
LEMMA SwitchSteps ==
  ASSUME [SessionNext]_sessionVars
  PROVE  \/ /\ UNCHANGED <<at, irqs_active, recovering>>
            /\ at = "down" =>
                 \/ UNCHANGED tx_queue
                 \/ \E c \in Cpus : op_tx[c] = "enqueue"
                 \/ running = "tx_work"
         \/ at' = "stop" /\ recovering' = FALSE /\ AllIdle /\ UNCHANGED op_tx
         \/ at' = "stop" /\ recovering' = TRUE
         \/ /\ at = "stop" /\ at' = "cancel_irq" /\ irqs_active' = FALSE
            /\ UNCHANGED recovering
         \/ /\ at = "cancel_irq" /\ at' = "cancel_tx" /\ Cancel("irq_work")
            /\ UNCHANGED <<irqs_active, recovering>>
         \/ /\ at = "cancel_tx" /\ at' = "flush_lock" /\ Cancel("tx_work")
            /\ UNCHANGED <<irqs_active, recovering>>
         \/ at = "flush_lock" /\ at' = "flush" /\ UNCHANGED <<irqs_active, recovering>>
         \/ /\ at = "flush" /\ at' = "restart" /\ recovering
            /\ UNCHANGED <<irqs_active, recovering>>
         \/ /\ at = "flush" /\ at' = "down" /\ ~recovering
            /\ tx_queue = << >> /\ running' = running
            /\ UNCHANGED <<tx_queue, workqueue, irqs_active, recovering>>
         \/ /\ at \in {"down", "restart"} /\ at' = "start"
            /\ UNCHANGED <<irqs_active, recovering>>
         \/ at' \in {"start_up", "up"}
<1> USE DEF ring, calls, works, irq, queue, vars, flags, fates, session,
            sessionVars, Move
<1>1. CASE \E c \in Cpus, f \in Frames : Call(c, f)
  BY <1>1 DEF Call, OpTxCall
<1>2. CASE \E c \in Cpus : Send(c)
  BY <1>2 DEF Send, OpTx, OpTxEnqueue, OpTxQueueWork, OpTxCheckLength, OpTxStop
<1>3. CASE Work
  BY <1>3
  DEF Work, StartWork, TxWork, TxWorkEmpty, TxWorkAlloc, TxWorkBusy,
      TxWorkRelease, TxWorkStoreSkb, TxWorkLimit,
      IrqWork, IrqWorkRead, IrqWorkCleanStart, IrqWorkCleanDesc, IrqWorkCleanEnd,
      IrqWorkWake, IrqWorkUnmask
<1>4. CASE TxWorkDown \/ Adapter \/ Interrupt
  BY <1>4 DEF TxWorkDown, Adapter, Acx, AcxComplete, OtherIrq, Interrupt,
              AcxInterrupt
<1>5. CASE OpStop \/ RecoverHw
  BY <1>5 DEF OpStop, RecoverHw, AllIdle
<1>6. CASE AcxStop
  <2>1. ASSUME NEW w, Cancel(w) PROVE UNCHANGED <<irqs_active, recovering>>
    BY <2>1 DEF Cancel
  <2>2. CASE CancelWorks
    BY <2>1, <2>2 DEF CancelWorks, CancelOrder
  <2>3. CASE FlushEnd
    BY <2>3 DEF FlushEnd
  <2>4. CASE StopIrqs \/ FlushLock \/ FlushFrame
    BY <2>4 DEF StopIrqs, FlushLock, FlushFrame
  <2> QED BY <1>6, <2>2, <2>3, <2>4 DEF AcxStop
<1>7. CASE Open \/ Restart \/ OpStart
  BY <1>7 DEF Open, Restart, OpStart, OpStartReset, OpStartUp
<1>8. CASE UNCHANGED sessionVars
  BY <1>8
<1> QED BY <1>1, <1>2, <1>3, <1>4, <1>5, <1>6, <1>7, <1>8 DEF SessionNext

\* A caller starts only while mac80211 takes the interface for running.
LEMMA CallersSteps ==
  ASSUME SessionIInv, [SessionNext]_sessionVars
  PROVE  /\ SendingIsFrame'
         /\ AllIdle /\ ~MacUp => AllIdle'
<1> USE DEF ring, calls, works, irq, queue, vars, flags, fates, session,
            sessionVars
<1>1. /\ SendingIsFrame
      /\ op_tx \in [Cpus -> {"idle", "enqueue", "queue_work", "check", "stop"}]
      /\ sending \in [Cpus -> Frames \cup {"none"}]
  BY WorksNow DEF SessionIInv, FramesConserved, SessionTypeOK, TypeOK
<1>2. CASE \E c \in Cpus, f \in Frames : Call(c, f)
  BY <1>1, <1>2 DEF Call, OpTxCall, SendingIsFrame
<1>3. CASE \E c \in Cpus : Send(c)
  <2> PICK c \in Cpus : Send(c)
    BY <1>3
  <2>1. ~AllIdle
    BY DEF AllIdle, Send, OpTx, OpTxEnqueue, OpTxQueueWork, OpTxCheckLength, OpTxStop
  <2>2. CASE OpTxEnqueue(c)
    BY <1>1, <2>1, <2>2 DEF OpTxEnqueue, SendingIsFrame
  <2>3. CASE OpTxQueueWork(c) \/ OpTxCheckLength(c) \/ OpTxStop(c)
    <3>1. UNCHANGED sending /\ \A d \in Cpus : op_tx'[d] = "enqueue" => op_tx[d] = "enqueue"
      BY <1>1, <2>3 DEF OpTxQueueWork, OpTxCheckLength, OpTxStop
    <3> QED BY <1>1, <2>1, <3>1 DEF SendingIsFrame
  <2> QED BY <2>2, <2>3 DEF Send, OpTx
<1>4. ASSUME UNCHANGED <<op_tx, sending>> PROVE SendingIsFrame' /\ (AllIdle => AllIdle')
  BY <1>1, <1>4 DEF SendingIsFrame, AllIdle
<1>5. CASE Work \/ TxWorkDown \/ Adapter \/ Interrupt
  BY <1>4, <1>5
  DEF Work, StartWork, TxWork, TxWorkEmpty, TxWorkAlloc, TxWorkBusy,
      TxWorkRelease, TxWorkStoreSkb, TxWorkLimit,
      IrqWork, IrqWorkRead, IrqWorkCleanStart, IrqWorkCleanDesc, IrqWorkCleanEnd,
      IrqWorkWake, IrqWorkUnmask,
      TxWorkDown, Adapter, Acx, AcxComplete, OtherIrq, Interrupt, AcxInterrupt
<1>6. CASE OpStop \/ RecoverHw \/ AcxStop \/ Open \/ Restart \/ OpStart
  BY <1>4, <1>6
  DEF OpStop, RecoverHw, AcxStop, StopIrqs, CancelWorks, Cancel, FlushLock,
      FlushFrame, FlushEnd,
      Open, Restart, OpStart, OpStartReset, OpStartUp
<1>7. CASE UNCHANGED sessionVars
  BY <1>4, <1>7
<1> QED BY <1>2, <1>3, <1>5, <1>6, <1>7 DEF SessionNext

\* A queue none of the works waits in is empty.
LEMMA NobodyWaits ==
  ASSUME NEW q \in Seq(Works), ~Has(q, "tx_work"), ~Has(q, "irq_work")
  PROVE  q = << >>
<1> SUFFICES ASSUME q # << >> PROVE FALSE
  OBVIOUS
<1>1. Len(q) \in Nat \ {0} /\ DOMAIN q = 1 .. Len(q)
  BY EmptySeq, LenProperties
<1>2. 1 \in DOMAIN q /\ q[1] \in Works
  BY <1>1, LenProperties
<1> QED BY <1>2 DEF Has, Works

\* acx_stop does in its order what it does.
LEMMA StopsKept ==
  ASSUME SessionIInv, [SessionNext]_sessionVars
  PROVE  StopsInOrder'
<1> DEFINE NoIrq == Idle("irq_work")
           NoTx == Idle("tx_work")
           Order == /\ at \in IrqsOff => ~irqs_active
                    /\ at \in IrqsOff \ {"cancel_irq"} => NoIrq
                    /\ at = "down" => ~recovering
                    /\ /\ at \in {"stop", "cancel_irq", "cancel_tx", "flush_lock", "flush",
                                  "down"}
                       /\ ~recovering
                       => AllIdle
                    /\ at \in {"flush_lock", "flush", "down"} /\ ~recovering => NoTx
<1>1. Order
  BY DEF SessionIInv, StopsInOrder, AllIdle
<1>2. /\ ~irqs_active /\ NoIrq => NoIrq'
      /\ AllIdle /\ NoTx /\ NoIrq => NoTx'
  BY WorkStays
<1>3. AllIdle /\ ~MacUp => AllIdle'
  BY CallersSteps
<1>4. /\ Cancel("irq_work") => NoIrq'
      /\ Cancel("tx_work") => NoTx'
  BY CancelNext, WaitsIsQueuedNext
<1> SUFFICES Order'
  BY DEF StopsInOrder, AllIdle
<1> HIDE DEF NoIrq, NoTx
<1>5. CASE UNCHANGED <<at, irqs_active, recovering>>
  BY <1>1, <1>2, <1>3, <1>5 DEF IrqsOff, MacUp
<1>6. CASE at' = "stop" /\ recovering' = FALSE /\ AllIdle /\ UNCHANGED op_tx
  BY <1>6 DEF IrqsOff, AllIdle
<1>7. CASE at' = "stop" /\ recovering' = TRUE
  BY <1>7 DEF IrqsOff
<1>8. CASE /\ at = "stop" /\ at' = "cancel_irq" /\ irqs_active' = FALSE
           /\ UNCHANGED recovering
  BY <1>1, <1>3, <1>8 DEF IrqsOff, MacUp
<1>9. CASE /\ at = "cancel_irq" /\ at' = "cancel_tx" /\ Cancel("irq_work")
           /\ UNCHANGED <<irqs_active, recovering>>
  BY <1>1, <1>3, <1>4, <1>9 DEF IrqsOff, MacUp
<1>10. CASE /\ at = "cancel_tx" /\ at' = "flush_lock" /\ Cancel("tx_work")
            /\ UNCHANGED <<irqs_active, recovering>>
  BY <1>1, <1>2, <1>3, <1>4, <1>10 DEF IrqsOff, MacUp
<1>11. CASE at = "flush_lock" /\ at' = "flush" /\ UNCHANGED <<irqs_active, recovering>>
  BY <1>1, <1>2, <1>3, <1>11 DEF IrqsOff, MacUp
<1>12. CASE /\ at = "flush" /\ at' = "restart" /\ recovering
            /\ UNCHANGED <<irqs_active, recovering>>
  BY <1>1, <1>2, <1>3, <1>12 DEF IrqsOff, MacUp
<1>13. CASE /\ at = "flush" /\ at' = "down" /\ ~recovering
            /\ tx_queue = << >> /\ running' = running
            /\ UNCHANGED <<tx_queue, workqueue, irqs_active, recovering>>
  BY <1>1, <1>2, <1>3, <1>13 DEF IrqsOff, MacUp
<1>14. CASE /\ at \in {"down", "restart"} /\ at' = "start"
            /\ UNCHANGED <<irqs_active, recovering>>
  BY <1>1, <1>2, <1>14 DEF IrqsOff
<1>15. CASE at' \in {"start_up", "up"}
  BY <1>15 DEF IrqsOff
<1> HIDE DEF Order
<1>16. CASE at' \in {"stop", "down", "restart", "start", "start_up", "up"} /\ at' # at
  BY <1>6, <1>7, <1>12, <1>13, <1>14, <1>15, <1>16, SwitchSteps
<1>17. CASE at' \in {"cancel_irq", "cancel_tx", "flush_lock", "flush"} /\ at' # at
  BY <1>8, <1>9, <1>10, <1>11, <1>17, SwitchSteps
<1>18. CASE at' = at
  BY <1>5, <1>6, <1>7, <1>15, <1>18, SwitchSteps
<1> QED BY <1>16, <1>17, <1>18, TypesKept DEF SessionTypeOK, Places

\* An interface that is down stays empty: whatever could fill it has been stopped.
LEMMA DownKept ==
  ASSUME SessionIInv, [SessionNext]_sessionVars
  PROVE  DownIsEmpty'
<1> SUFFICES ASSUME at' = "down"
             PROVE  tx_queue' = << >> /\ workqueue' = << >> /\ running' = "none"
  BY DEF DownIsEmpty
<1>1. /\ workqueue' \in Seq(Works)
      /\ running' \in {"none", "tx_work", "irq_work"}
  BY TypesKept DEF SessionTypeOK, TypeOK, Works
<1>2. ~recovering' /\ Idle("tx_work")' /\ Idle("irq_work")'
  BY StopsKept DEF StopsInOrder, IrqsOff
<1>3. workqueue' = << >> /\ running' = "none"
  <2>1. \A w \in Works : ~Has(workqueue', w) /\ running' # w
    BY <1>2, WaitsIsQueuedNext DEF Waits, Works
  <2> QED BY <1>1, <2>1, NobodyWaits DEF Works
<1>4. CASE at = "down"
  <2>1. tx_queue = << >> /\ running = "none" /\ AllIdle
    BY <1>4 DEF SessionIInv, DownIsEmpty, StopsInOrder, AllIdle
  <2>2. UNCHANGED tx_queue
    BY <1>4, <2>1, SwitchSteps DEF AllIdle
  <2> QED BY <1>3, <2>1, <2>2
<1>5. CASE at # "down"
  <2>1. tx_queue' = << >>
    BY <1>5, SwitchSteps
  <2> QED BY <1>3, <2>1
<1> QED BY <1>4, <1>5

-------------------------------------------------------------------------------
(* The interrupt and the finished frames *)

\* Masked interrupts: what masks them queues acx_irq_work, and that work ends by
\* unmasking them; acx_stop takes it away only after it has switched them off.
LEMMA MaskedKept ==
  ASSUME SessionIInv, [SessionNext]_sessionVars
  PROVE  MaskedUntilIrqWork'
<1> USE DEF ring, calls, works, irq, queue, vars, flags, fates, session,
            sessionVars
<1> DEFINE Coming == Waits("irq_work") \/ running = "irq_work"
<1>1. /\ irqMasked => Coming \/ ~irqs_active
      /\ at = "cancel_irq" => ~irqs_active
  BY WaitsIsQueued
  DEF SessionIInv, CompletionNotForgotten, MaskedUntilIrqWork, StopsInOrder, IrqsOff
<1>2. Coming => Coming' \/ IrqWorkUnmask \/ at = "cancel_irq"
  BY WorkStays
<1> SUFFICES irqMasked' => Coming' \/ ~irqs_active'
  BY WaitsIsQueuedNext DEF MaskedUntilIrqWork
<1> HIDE DEF Coming
<1>3. CASE UNCHANGED <<irqMasked, irqs_active>>
  <2>1. ~IrqWorkUnmask \/ ~irqMasked'
    BY DEF IrqWorkUnmask, MaskAfterWork
  <2> QED BY <1>1, <1>2, <1>3, <2>1
<1>4. CASE ~irqMasked' \/ ~irqs_active'
  BY <1>4
<1>5. CASE Interrupt
  BY <1>5, QueueWorkNext DEF Interrupt, AcxInterrupt, Works, Coming
<1>6. ASSUME Work PROVE UNCHANGED <<irqMasked, irqs_active>> \/ ~irqMasked'
  BY <1>6
  DEF Work, StartWork, TxWork, TxWorkEmpty, TxWorkAlloc, TxWorkBusy,
      TxWorkRelease, TxWorkStoreSkb, TxWorkLimit,
      IrqWork, IrqWorkRead, IrqWorkCleanStart, IrqWorkCleanDesc, IrqWorkCleanEnd,
      IrqWorkWake, IrqWorkUnmask, MaskAfterWork
<1>7. ASSUME TxWorkDown \/ Adapter \/ (\E c \in Cpus : Send(c))
             \/ (\E c \in Cpus, f \in Frames : Call(c, f))
      PROVE  UNCHANGED <<irqMasked, irqs_active>>
  BY <1>7
  DEF TxWorkDown, Adapter, Acx, AcxComplete, OtherIrq, Call, OpTxCall, Send,
      OpTx, OpTxEnqueue, OpTxQueueWork, OpTxCheckLength, OpTxStop
<1>8. ASSUME OpStop \/ RecoverHw \/ AcxStop
      PROVE  UNCHANGED <<irqMasked, irqs_active>> \/ ~irqs_active'
  BY <1>8
  DEF OpStop, RecoverHw, AcxStop, StopIrqs, CancelWorks, Cancel, FlushLock,
      FlushFrame, FlushEnd
<1>9. ASSUME Open \/ Restart \/ OpStart
      PROVE  UNCHANGED <<irqMasked, irqs_active>> \/ ~irqMasked'
  BY <1>9 DEF Open, Restart, OpStart, OpStartReset, OpStartUp
<1>10. ASSUME UNCHANGED sessionVars PROVE UNCHANGED <<irqMasked, irqs_active>>
  BY <1>10
<1> QED BY <1>3, <1>4, <1>5, <1>6, <1>7, <1>8, <1>9, <1>10 DEF SessionNext

Forgettable ==
  /\ free # 0 /\ R!Used # 0
  /\ Ctl_8[R!Oldest] = R!AcxDoneHostOwn /\ ~R!Claimed(R!Oldest)
Seen == txComplete \/ (running = "irq_work" /\ step \in {"clean", "cleaning"})

\* FinishedIsSeen in the words of this module, now and after a step.
LEMMA SameFinished ==
  /\ FinishedIsSeen <=> (Forgettable => Seen)
  /\ (FinishedIsSeen <=> (Forgettable => Seen))'
<1>1. FinishedIsSeen <=> (Forgettable => Seen)
  <2>1. /\ Ring!Oldest = R!Oldest /\ Ring!Used = R!Used
        /\ Ring!AcxDoneHostOwn = R!AcxDoneHostOwn
    BY SameNames
  <2>2. Ring!Claimed(R!Oldest) <=> R!Claimed(R!Oldest)
    BY DEF Ring!Claimed, R!Claimed
  <2> QED BY <2>1, <2>2 DEF FinishedIsSeen, Forgettable, Seen
<1> QED BY <1>1, PTL

\* A finished frame: the clean loop stops only at a descriptor that is not finished
\* or at the head of the ring, where in a ring neither full nor empty none is finished.
LEMMA FinishedKept ==
  ASSUME SessionIInv, [SessionNext]_sessionVars
  PROVE  FinishedIsSeen'
<1>1. /\ Forgettable => Seen
      /\ R!IInv
  BY SameFinished, SameInvariant DEF SessionIInv, CompletionNotForgotten
<1> SUFFICES ASSUME Forgettable' PROVE Seen'
  BY SameFinished
<1> USE DEF Forgettable, Seen
<1>2. ASSUME UNCHANGED R!vars PROVE Seen
  <2>1. Forgettable
    BY <1>2 DEF R!vars, R!hwVars, R!ringVars, R!opVars, R!Used, R!Oldest, R!Claimed
  <2> QED BY <1>1, <2>1
<1>3. CASE UNCHANGED <<R!vars, txComplete, running, step>>
  BY <1>2, <1>3 DEF R!vars
<1>4. ASSUME Work PROVE Seen'
  <2>1. CASE StartWork
    <3>1. UNCHANGED R!vars /\ UNCHANGED txComplete /\ running = "none"
      BY <2>1 DEF StartWork, ring, irq, R!vars, R!hwVars, R!ringVars, R!opVars
    <3> QED BY <1>2, <3>1
  <2>2. CASE TxWork
    <3>1. UNCHANGED txComplete /\ running = "tx_work"
      BY <2>2
      DEF TxWork, TxWorkEmpty, TxWorkAlloc, TxWorkBusy, TxWorkRelease,
          TxWorkStoreSkb, TxWorkLimit, irq
    <3>2. Forgettable
      <4>1. CASE TxWorkAlloc
        <5>1. R!AllocTx(Head(tx_queue))
          BY <4>1, SameActions DEF TxWorkAlloc
        <5>2. R!Oldest' = R!Oldest /\ R!Used \in R!Slots /\ head = R!At(R!Used) /\ R!Oldest \in R!Slots
          BY <1>1, <5>1, R!Bounds, TxPathAssumption DEF R!AllocTx, R!Oldest, R!Slots
        <5>3. R!Oldest # head
          BY <5>1, <5>2 DEF R!AllocTx, R!Claimed
        <5>4. R!Used # 0
          BY <1>1, <5>2, <5>3, R!PosSucc, TxPathAssumption DEF R!At, R!Slots
        <5>5. free # 0 /\ ~R!Claimed(R!Oldest)
          BY <5>1 DEF R!AllocTx, R!Claimed
        <5>6. Ctl_8[R!Oldest] = Ctl_8'[R!Oldest']
          BY <1>1, <5>1, <5>2, <5>3 DEF R!AllocTx, R!IInv, R!TypeOK
        <5> QED BY <5>4, <5>5, <5>6
      <4>2. CASE TxWorkRelease
        <5>1. R!TxDataRelease
          BY <4>2, SameActions DEF TxWorkRelease
        <5>2. UNCHANGED <<R!Oldest, R!Used, free>> /\ R!Oldest \in R!Slots
          BY <1>1, <5>1, R!Bounds, TxPathAssumption DEF R!TxDataRelease, R!Oldest, R!Used, R!ringVars
        <5>3. Ctl_8' = [Ctl_8 EXCEPT ![txdesc] = R!AcxOwned] /\ R!AcxOwned # R!AcxDoneHostOwn
          BY <1>1, <5>1
          DEF R!TxDataRelease, R!AcxOwned, R!AcxDoneHostOwn, R!IInv, R!TypeOK, R!TxdescIsYoungest
        <5>4. R!Oldest # txdesc
          BY <1>1, <5>2, <5>3 DEF R!IInv, R!TypeOK
        <5>5. Ctl_8[R!Oldest] = R!AcxDoneHostOwn
          BY <1>1, <5>2, <5>3, <5>4 DEF R!IInv, R!TypeOK
        <5> QED BY <5>2, <5>4, <5>5 DEF R!Claimed
      <4>3. CASE TxWorkStoreSkb
        BY <4>3, SameActions
        DEF TxWorkStoreSkb, R!TxDataStoreSkb, R!hwVars, R!ringVars, R!Oldest, R!Used, R!Claimed
      <4>4. CASE TxWorkEmpty \/ TxWorkBusy \/ TxWorkLimit
        BY <4>4
        DEF TxWorkEmpty, TxWorkBusy, TxWorkLimit, ring, R!Oldest, R!Used, R!Claimed
      <4> QED BY <2>2, <4>1, <4>2, <4>3, <4>4 DEF TxWork
    <3> QED BY <1>1, <3>1, <3>2
  <2>3. CASE IrqWork
    <3>1. CASE IrqWorkRead
      <4>1. UNCHANGED R!vars /\ step = "start" /\ (txComplete => step' = "clean")
            /\ running = "irq_work" /\ running' = "irq_work"
        BY <3>1 DEF IrqWorkRead, GoTo, ring, R!vars, R!hwVars, R!ringVars, R!opVars
      <4> QED BY <1>2, <4>1
    <3>2. CASE IrqWorkCleanStart \/ IrqWorkCleanDesc
      BY <3>2 DEF IrqWorkCleanStart, IrqWorkCleanDesc, GoTo, works
    <3>3. CASE IrqWorkCleanEnd
      <4>1. R!CleanEnd
        BY <3>3, SameActions DEF IrqWorkCleanEnd
      <4>2. /\ R!Oldest' = finger /\ R!Oldest = finger
            /\ UNCHANGED <<Ctl_8, free, head, R!Used>>
        BY <4>1 DEF R!CleanEnd, R!Oldest, R!Used, R!hwVars
      <4>3. finger = head
        BY <4>1, <4>2 DEF R!CleanEnd, R!Finished
      <4>4. /\ R!Used # 0 /\ R!Used # TX_CNT /\ R!Used \in R!Slots
            /\ R!Oldest \in R!Slots /\ R!At(R!Used) = R!Oldest
        BY <1>1, <4>2, <4>3, R!Bounds, TxPathAssumption DEF R!Slots
      <4>5. 0 \in R!Slots /\ R!Pos(R!Oldest, 0) = R!Oldest
        BY <4>4, R!PosSucc, TxPathAssumption DEF R!Slots
      <4>6. R!Used = 0
        BY <4>4, <4>5, R!PosInjective, TxPathAssumption DEF R!At
      <4> QED BY <4>4, <4>6
    <3>4. CASE IrqWorkWake \/ IrqWorkUnmask
      <4>1. UNCHANGED R!vars /\ UNCHANGED txComplete /\ step \notin {"clean", "cleaning"}
        BY <3>4
        DEF IrqWorkWake, IrqWorkUnmask, ReasonAfterWork, irq, ring, R!vars, R!hwVars,
            R!ringVars, R!opVars
      <4> QED BY <1>2, <4>1
    <3> QED BY <2>3, <3>1, <3>2, <3>3, <3>4 DEF IrqWork
  <2> QED BY <1>4, <2>1, <2>2, <2>3 DEF Work
<1>5. ASSUME TxWorkDown PROVE Seen'
  <2>1. UNCHANGED R!vars /\ UNCHANGED txComplete /\ running = "tx_work"
    BY <1>5 DEF TxWorkDown, ring, irq, R!vars, R!hwVars, R!ringVars, R!opVars
  <2> QED BY <1>2, <2>1
<1>6. ASSUME Adapter PROVE txComplete' \/ UNCHANGED <<R!vars, txComplete, running, step>>
  BY <1>6
  DEF Adapter, Acx, AcxComplete, OtherIrq, ring, works, R!vars, R!hwVars, R!ringVars,
      R!opVars
<1> USE DEF ring, calls, works, irq, queue, vars, flags, fates, session,
            sessionVars, R!vars, R!hwVars, R!ringVars, R!opVars
<1>7. ASSUME Interrupt \/ (\E c \in Cpus : Send(c))
             \/ (\E c \in Cpus, f \in Frames : Call(c, f))
      PROVE  UNCHANGED <<R!vars, txComplete, running, step>>
  BY <1>7
  DEF Interrupt, AcxInterrupt, Call, OpTxCall, Send, OpTx, OpTxEnqueue,
      OpTxQueueWork, OpTxCheckLength, OpTxStop
<1>8. ASSUME OpStop \/ RecoverHw \/ AcxStop
      PROVE  UNCHANGED <<R!vars, txComplete, running, step>>
  BY <1>8
  DEF OpStop, RecoverHw, AcxStop, StopIrqs, CancelWorks, Cancel, FlushLock,
      FlushFrame, FlushEnd
<1>9. ASSUME OpStartReset, FullReset PROVE FALSE
  BY <1>9, SameActions, TxPathAssumption
  DEF FullReset, R!Reset, R!CreateTxDescQueue, R!Used
<1>10. ASSUME Open \/ Restart \/ OpStart, ~(OpStartReset /\ FullReset)
       PROVE  UNCHANGED <<R!vars, txComplete, running, step>>
  BY <1>10 DEF Open, Restart, OpStart, OpStartReset, OpStartUp, NoReset
<1>11. ASSUME UNCHANGED sessionVars PROVE UNCHANGED <<R!vars, txComplete, running, step>>
  BY <1>11
<1> HIDE DEF Forgettable, Seen
<1>12. txComplete' => Seen'
  BY DEF Seen
<1> QED
  BY <1>3, <1>4, <1>5, <1>6, <1>7, <1>8, <1>9, <1>10, <1>11, <1>12 DEF SessionNext

-------------------------------------------------------------------------------
(* The theorems *)

\* SessionIInv holds of a driver that has just been started.
LEMMA SessionInitIInv == SessionInit => SessionIInv
<1> SUFFICES ASSUME SessionInit PROVE SessionIInv
  OBVIOUS
<1> USE DEF SessionInit, Init
<1>1. R!Init /\ R!IInv /\ Ring!IInv /\ R!TypeOK
  BY SameActions, SameInvariant, R!InitIInv, TxPathAssumption DEF R!IInv
<1>2. R!Used = 0
  BY <1>1, TxPathAssumption DEF R!Init, R!Used
<1>3. SessionTypeOK
  <2>1. Ring!TypeOK
    BY <1>1, SameNames DEF Ring!IInv
  <2>2. tx_queue \in Seq(Frames) /\ workqueue \in Seq({"tx_work", "irq_work"})
    BY EmptySeq
  <2> QED BY <2>1, <2>2 DEF SessionTypeOK, TypeOK, WorkSteps, Places
<1>4. FramesConserved
  <2>1. Len(tx_queue) = 0
    BY EmptySeq
  <2> QED BY <1>2, <1>3, <2>1, SameNames DEF FramesConserved, Gone
<1>5. CompletionNotForgotten
  BY <1>2, SameFinished
  DEF CompletionNotForgotten, MaskedUntilIrqWork, Forgettable
<1>6. DownIsEmpty /\ SendingIsFrame /\ StopsInOrder
  BY DEF DownIsEmpty, SendingIsFrame, StopsInOrder, IrqsOff
<1>7. QueuedOnce
  BY NoWorks, WaitsIsQueued
<1> QED BY <1>1, <1>4, <1>5, <1>6, <1>7 DEF SessionIInv

\* And every step keeps it.
LEMMA SessionNextIInv ==
  ASSUME SessionIInv, [SessionNext]_sessionVars
  PROVE  SessionIInv'
<1>1. Ring!IInv'
  BY RingIInv, SameNext
<1>2. FramesConserved'
  BY FramesKept
<1>3. CompletionNotForgotten'
  BY MaskedKept, FinishedKept DEF CompletionNotForgotten
<1>4. DownIsEmpty'
  BY DownKept
<1>5. SendingIsFrame'
  BY CallersSteps
<1>6. QueuedOnce'
  BY WorkStays, WaitsIsQueuedNext
<1>7. StopsInOrder'
  BY StopsKept
<1> QED BY <1>1, <1>2, <1>3, <1>4, <1>5, <1>6, <1>7 DEF SessionIInv

\* The inductive invariant holds whatever is stopped, started and recovered.
THEOREM SessionInvariance == SessionSpec => []SessionIInv
<1>1. SessionInit => SessionIInv
  BY SessionInitIInv
<1>2. SessionIInv /\ [SessionNext]_sessionVars => SessionIInv'
  BY SessionNextIInv
<1> QED BY <1>1, <1>2, PTL DEF SessionSpec

\* No frame is lost or reported twice, but for the two ways a stop may lose one.
THEOREM FramesAlwaysConserved == SessionSpec => []FramesConserved
<1>1. SessionIInv => FramesConserved
  BY DEF SessionIInv
<1> QED BY <1>1, SessionInvariance, PTL

\* A completion is never forgotten while the ring is not full.
THEOREM CompletionNeverForgotten == SessionSpec => []CompletionNotForgotten
<1>1. SessionIInv => CompletionNotForgotten
  BY DEF SessionIInv
<1> QED BY <1>1, SessionInvariance, PTL

\* acx_op_stop always leaves the transmit path empty and its works idle.
THEOREM DownIsAlwaysEmpty == SessionSpec => []DownIsEmpty
<1>1. SessionIInv => DownIsEmpty
  BY DEF SessionIInv
<1> QED BY <1>1, SessionInvariance, PTL

\* The ring's own invariant survives stops and recoveries as well: its counters agree
\* and acxpci_alloc_tx fails only on a full ring.
THEOREM RingSurvivesStops == SessionSpec => [](Ring!CountersAgree /\ Ring!FreeMeansHostOwned)
<1>1. SessionIInv => Ring!CountersAgree /\ Ring!FreeMeansHostOwned
  BY DEF SessionIInv, Ring!IInv
<1> QED BY <1>1, SessionInvariance, PTL
===============================================================================
