-------------------------------- MODULE TxRing --------------------------------
(***************************************************************************)
(* The descriptor ring of one hardware transmit queue (hw_tx_queue[q]) of a*)
(* PCI adapter: acxpci_alloc_tx, _acx_tx_data and acx_tx_clean_txdesc on   *)
(* the driver's side, and the adapter, which works on the descriptors it   *)
(* owns at any moment.  The driver's operations run one at a time, under   *)
(* acx_sem; each is split where the adapter may act in between.            *)
(***************************************************************************)
EXTENDS Naturals, Sequences

CONSTANTS
  TX_CNT,     \* descriptors in the ring
  Frames,     \* socket buffers
  NoAckFrames, \* those that ask for no acknowledgement (IEEE80211_TX_CTL_NO_ACK)
  TxErrors,   \* nonzero values the adapter may leave in the error field
  NoAckErrors \* those of them with (error & 0x30) # 0: the frame was not acked

ASSUME TxRingAssumption ==
  /\ TX_CNT \in Nat \ {0}
  /\ NoAckErrors \subseteq TxErrors
  /\ TxErrors \subseteq Nat \ {0}
  /\ "none" \notin Frames /\ NoAckFrames \subseteq Frames

VARIABLES
  Ctl_8,      \* per descriptor, its ownership bits: a subset of OwnBits
  error,      \* per descriptor, the error field written by the adapter
  skb,        \* per descriptor, hostdesc1->skb ("none" until first used)
  head, tail, free,
  op,         \* the driver operation that holds acx_sem
  txdesc,     \* the descriptor that operation works on
  frame,      \* the skb being transmitted
  finger,     \* the clean loop's position
  air,        \* per descriptor, the fate of its last frame (kept by no code)
  reported    \* the last tx status given to mac80211

hwVars   == <<Ctl_8, error, air>>
ringVars == <<head, tail, free>>
opVars   == <<op, txdesc, frame, finger>>
vars     == <<hwVars, skb, ringVars, opVars, reported>>

Slots == 0 .. TX_CNT - 1

OwnBits == {"HOSTOWN", "ACXDONE"}
HostOwned == {"HOSTOWN"}              \* free for the next frame
AcxDoneHostOwn == {"HOSTOWN", "ACXDONE"}  \* finished, to be cleaned
AcxOwned == {}                        \* handed to the adapter

\* Mutant: the index is not wrapped.
SuccNoWrap(i) == i + 1

\* (i + 1) % TX_CNT
Succ(i) == IF i + 1 = TX_CNT THEN 0 ELSE i + 1

Ops == {"none", "alloc", "tx_data", "clean"}
-------------------------------------------------------------------------------
\* acx_create_tx_desc_queue: all descriptors owned by the host, ring empty.
CreateTxDescQueue ==
  /\ Ctl_8' = [s \in Slots |-> HostOwned]
  /\ error' = [s \in Slots |-> 0]
  /\ head' = 0
  /\ tail' = 0
  /\ free' = TX_CNT

Init ==
  /\ Ctl_8 = [s \in Slots |-> HostOwned]
  /\ error = [s \in Slots |-> 0]
  /\ skb = [s \in Slots |-> "none"]
  /\ head = 0 /\ tail = 0 /\ free = TX_CNT
  /\ op = "none" /\ txdesc = 0 /\ frame = "none" /\ finger = 0
  /\ air = [s \in Slots |-> "pending"]
  /\ reported = [skb |-> "none", acked |-> FALSE]

\* acxpci_alloc_tx succeeds: the next descriptor is marked as neither free nor
\* the adapter's, and taken out of the free count.
AllocTx(f) ==
  /\ op = "none"
  /\ free # 0
  /\ Ctl_8[head] = HostOwned
  /\ Ctl_8' = [Ctl_8 EXCEPT ![head] = AcxDoneHostOwn]
  /\ free' = free - 1
  /\ head' = Succ(head)
  /\ txdesc' = head
  /\ frame' = f
  /\ op' = "alloc"
  /\ UNCHANGED <<error, air, skb, tail, finger, reported>>

\* acxpci_alloc_tx fails, which acx_tx_frame returns as -EBUSY: no state changes
\* here, the caller deals with it.
AllocBusy ==
  /\ op = "none"
  /\ free = 0 \/ Ctl_8[head] # HostOwned

\* _acx_tx_data up to the INT_TRIG_TXPRC write: the descriptor is given to the
\* adapter, although hostdesc1->skb is not set yet.
TxDataRelease ==
  /\ op = "alloc"
  /\ Ctl_8' = [Ctl_8 EXCEPT ![txdesc] = @ \ AcxDoneHostOwn]
  /\ air' = [air EXCEPT ![txdesc] = "pending"]
  /\ op' = "tx_data"
  /\ UNCHANGED <<error, skb, ringVars, txdesc, frame, finger, reported>>

\* The rest of _acx_tx_data: the skb is remembered for its tx status.
TxDataStoreSkb ==
  /\ op = "tx_data"
  /\ skb' = [skb EXCEPT ![txdesc] = frame]
  /\ op' = "none"
  /\ UNCHANGED <<hwVars, ringVars, txdesc, frame, finger, reported>>

\* The adapter finishes a frame, in any order.  It writes the error field only
\* when there is an error: that is why the driver resets it.
AcxComplete(s) ==
  /\ Ctl_8[s] = AcxOwned
  /\ Ctl_8' = [Ctl_8 EXCEPT ![s] = AcxDoneHostOwn]
  /\ \/ /\ air' = [air EXCEPT ![s] = "acked"]
        /\ UNCHANGED error
     \/ \E e \in TxErrors :
          /\ air' = [air EXCEPT ![s] = IF e \in NoAckErrors THEN "failed" ELSE "acked"]
          /\ error' = [error EXCEPT ![s] = e]
  /\ UNCHANGED <<skb, ringVars, opVars, reported>>

\* Mutant: only the descriptors known to be free are left alone.
NotFree(s) == Ctl_8[s] # HostOwned

\* The clean loop goes on at a descriptor marked finished and host owned.
Finished(s) == Ctl_8[s] = AcxDoneHostOwn

\* Mutants: the loop leaves ownership, error field or free count as they are.
StaysFinished == AcxDoneHostOwn
ErrorKept(s) == error[s]
NotCounted == free

\* What the clean loop makes of a descriptor, and of the free count.
CleanedCtl == HostOwned
CleanedError(s) == 0
FreeAfterClean == free + 1

\* acx_tx_clean_txdesc: start at the oldest descriptor not free yet.
CleanStart ==
  /\ op = "none"
  /\ op' = "clean"
  /\ finger' = tail
  /\ UNCHANGED <<hwVars, skb, ringVars, txdesc, frame, reported>>

\* One turn of its loop: free the descriptor, then report the frame.
CleanDesc ==
  /\ op = "clean"
  /\ finger # head
  /\ Finished(finger)
  /\ error' = [error EXCEPT ![finger] = CleanedError(finger)]
  /\ Ctl_8' = [Ctl_8 EXCEPT ![finger] = CleanedCtl]
  /\ free' = FreeAfterClean
  /\ reported' = [skb |-> skb[finger],
                  acked |-> skb[finger] \notin NoAckFrames /\ error[finger] \notin NoAckErrors]
  /\ finger' = Succ(finger)
  /\ UNCHANGED <<air, skb, head, tail, op, txdesc, frame>>

\* The loop ends at head or at a descriptor the adapter has not finished.
CleanEnd ==
  /\ op = "clean"
  /\ finger = head \/ ~Finished(finger)
  /\ tail' = finger
  /\ op' = "none"
  /\ UNCHANGED <<hwVars, skb, head, free, txdesc, frame, finger, reported>>

\* acx_full_reset of a started interface recreates the descriptor queues; the
\* host descriptors, and the skb pointers in them, stay as they were.
Reset ==
  /\ op = "none"
  /\ CreateTxDescQueue
  /\ UNCHANGED <<air, skb, opVars, reported>>

Next ==
  \/ \E f \in Frames : AllocTx(f)
  \/ TxDataRelease
  \/ TxDataStoreSkb
  \/ \E s \in Slots : AcxComplete(s)
  \/ CleanStart
  \/ CleanDesc
  \/ CleanEnd
  \/ Reset

Spec == Init /\ [][Next]_vars
-------------------------------------------------------------------------------
TypeOK ==
  /\ Ctl_8 \in [Slots -> SUBSET OwnBits]
  /\ error \in [Slots -> TxErrors \cup {0}]
  /\ skb \in [Slots -> Frames \cup {"none"}]
  /\ head \in Slots /\ tail \in Slots /\ free \in 0..TX_CNT
  /\ op \in Ops
  /\ txdesc \in Slots /\ finger \in Slots
  /\ frame \in Frames \cup {"none"}
  /\ air \in [Slots -> {"pending", "acked", "failed"}]
  /\ reported \in [skb : Frames \cup {"none"}, acked : BOOLEAN]

\* The oldest descriptor in use: while the clean loop runs, tail lags behind.
Oldest == IF op = "clean" THEN finger ELSE tail

Used == TX_CNT - free

\* (b + i) % TX_CNT for a descriptor b and i < TX_CNT.
Pos(b, i) == IF b + i < TX_CNT THEN b + i ELSE b + i - TX_CNT

\* The i-th descriptor in use, counted from 0.
At(i) == Pos(Oldest, i)

\* The three counters agree at every moment, also in the middle of the clean
\* loop: head is free descriptors short of a full turn from the oldest one in
\* use.  The code maintains head, tail and free independently.
CountersAgree == head = IF Used = TX_CNT THEN Oldest ELSE At(Used)

\* The free count tells which descriptors are free: the Used ones from the
\* oldest on are the adapter's, finished or claimed, all others belong to the
\* host.  So a nonzero free count is enough for acxpci_alloc_tx to succeed.
FreeMeansHostOwned ==
  \A i \in 0 .. TX_CNT - 1 : (Ctl_8[At(i)] = HostOwned) <=> (i >= Used)

\* The branches of acxpci_alloc_tx logged as "BUG: ... failed to find free
\* txdesc" are dead: it returns NULL only when the free count is zero.
AllocFailsOnlyWhenFull == AllocBusy => free = 0

\* A descriptor given to the adapter changes hands only by the adapter's doing,
\* and nobody replaces the skb of a frame the adapter is done with before its
\* status is reported; only the reset of the whole adapter overrides this.
HandOver ==
  \A s \in Slots :
    /\ Ctl_8[s] = AcxOwned /\ Ctl_8'[s] # AcxOwned
         => Ctl_8'[s] = AcxDoneHostOwn /\ op' = op /\ skb'[s] = skb[s]
    /\ Ctl_8[s] = AcxDoneHostOwn /\ Ctl_8'[s] = HostOwned
         => op = "clean" /\ reported'.skb = skb[s]

OwnershipRespected == [][Reset \/ HandOver]_vars

-------------------------------------------------------------------------------
\* The inductive strengthening of the two invariants above.
\* Only three combinations of the ownership bits occur.
OwnerKnown == \A s \in Slots : Ctl_8[s] \in {HostOwned, AcxDoneHostOwn, AcxOwned}

\* Until acx_tx_frame returns, txdesc is the youngest descriptor in use.
TxdescIsYoungest ==
  op \in {"alloc", "tx_data"} =>
    /\ Used # 0
    /\ txdesc = At(Used - 1)
    /\ frame \in Frames
    /\ op = "alloc" => Ctl_8[txdesc] = AcxDoneHostOwn

Claimed(s) == op = "alloc" /\ s = txdesc

\* A status is in a descriptor exactly as long as its frame waits to be
\* reported, and it is the status of that frame.
StatusIsOfTheFrame ==
  \A s \in Slots :
    IF Ctl_8[s] = AcxDoneHostOwn /\ ~Claimed(s)
    THEN air[s] # "pending" /\ (air[s] = "failed" <=> error[s] \in NoAckErrors)
    ELSE error[s] = 0

IInv ==
  /\ TypeOK
  /\ CountersAgree
  /\ FreeMeansHostOwned
  /\ OwnerKnown
  /\ TxdescIsYoungest
  /\ StatusIsOfTheFrame

-------------------------------------------------------------------------------
\* Frames the adapter has been given and that are not reported, oldest first.
\* A descriptor claimed by alloc_tx does not count until it is released.
Submitted == IF op = "alloc" THEN Used - 1 ELSE Used

Entry(s) ==
  [skb     |-> IF op = "tx_data" /\ s = txdesc THEN frame ELSE skb[s],
   outcome |-> IF Ctl_8[s] = AcxOwned THEN "pending" ELSE air[s]]

InFlight == [i \in 1 .. Submitted |-> Entry(At(i - 1))]

Fifo == INSTANCE TxFifo WITH
  Capacity <- TX_CNT, inflight <- InFlight, reported <- reported

\* The ring implements the queue mac80211 relies on: one status per frame, in
\* order of submission, and never one left over from an earlier frame.
ImplementsFifo == Fifo!Spec
===============================================================================
