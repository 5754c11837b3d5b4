--------------------------------- MODULE MemTx ---------------------------------
(***************************************************************************)
(* Transmission on the memory-mapped (slave memory) adapters: the same     *)
(* descriptor ring as on PCI, TxRing, and next to it the transmit buffers  *)
(* in the adapter's memory, a free list of blocks that the driver keeps in *)
(* the blocks themselves.  Each frame holds a chain of blocks from         *)
(* _acx_tx_data until its descriptor is cleaned.                           *)
(***************************************************************************)
EXTENDS Naturals, FiniteSets

CONSTANTS
  TX_CNT, Frames, NoAckFrames, TxErrors, NoAckErrors,  \* as in TxRing
  numblocks,    \* adev->acx_txbuf_numblocks
  memblocksize, \* bytes per block, the first four of them its pointer
  Lengths,      \* lengths of frames
  MaxAttempts   \* 10: wake-ups of the adapter before the queue is flushed

ASSUME MemTxAssumption ==
  /\ TX_CNT \in Nat \ {0}
  /\ NoAckErrors \subseteq TxErrors /\ TxErrors \subseteq Nat \ {0}
  /\ "none" \notin Frames /\ NoAckFrames \subseteq Frames
  /\ numblocks \in Nat \ {0}
  /\ memblocksize \in Nat \ 0..4
  /\ Lengths \subseteq Nat \ {0}
  /\ MaxAttempts \in Nat

VARIABLES
  Ctl_8, error, skb, head, tail, free, op, txdesc, frame, finger, air, reported,
  word,        \* per block, its first word; a block is named by its address
  acx_txbuf_free, acx_txbuf_blocks_free,  \* of adev
  AcxMemPtr,   \* per descriptor, the first block of its chain, or 0
  len,         \* the length of the frame being transmitted
  txattempts   \* the static variable of acxmem_alloc_tx

ring == <<Ctl_8, error, skb, head, tail, free, op, txdesc, frame, finger, air, reported>>
pool == <<word, acx_txbuf_free, acx_txbuf_blocks_free>>
vars == <<ring, pool, AcxMemPtr, len, txattempts>>

Ring == INSTANCE TxRing

\* Block 0 is the address NULL.
Blocks == 1..numblocks

\* 0x02000000 in place of the address of a next block.
EndMark == numblocks + 1

\* word & 0x7ffff
Address(w) == IF w = EndMark THEN 0 ELSE w

\* acxmem_init_acx_txbuf2: all blocks in one list.  After a firmware reset the
\* memory is in the same state, and acxmem_init_acx_txbuf relies on that.
WholeList == [b \in 0..numblocks |-> IF b = numblocks THEN EndMark ELSE b + 1]

Init ==
  /\ Ring!Init
  /\ word = WholeList
  /\ acx_txbuf_free = 1 /\ acx_txbuf_blocks_free = numblocks
  /\ AcxMemPtr = [s \in Ring!Slots |-> 0]
  /\ len = 0 /\ txattempts = 0

\* acxmem_get_txbuf_space_needed
SpaceNeeded(n) ==
  n \div (memblocksize - 4) + (IF n % (memblocksize - 4) # 0 THEN 1 ELSE 0)

\* The blocks one comes to from block p, one after the other.
From(p) ==
  LET walk[i \in 0..numblocks] == IF i = 0 THEN p ELSE Address(word[walk[i - 1]])
  IN walk
-------------------------------------------------------------------------------
(* acxmem_alloc_tx *)

EnoughBlocks(n) == SpaceNeeded(n) <= acx_txbuf_blocks_free

AllocTx(f, n) ==
  /\ Ring!AllocTx(f)
  /\ EnoughBlocks(n)
  /\ len' = n
  /\ UNCHANGED <<pool, AcxMemPtr, txattempts>>

WakeUpAcx ==
  /\ op = "none" /\ free = 0
  /\ txattempts < MaxAttempts
  /\ txattempts' = txattempts + 1
  /\ UNCHANGED <<ring, pool, AcxMemPtr, len>>

\* Mutant: the emergency clean forgets the free count.
CountKept == free

FreeAfterFlush == TX_CNT

\* acx_clean_txdesc_emergency: all descriptors are freed where they are, and the
\* blocks with them.
FlushTransmitQueue ==
  /\ op = "none" /\ free = 0
  /\ txattempts >= MaxAttempts
  /\ txattempts' = 0
  /\ Ctl_8' = [s \in Ring!Slots |-> Ring!HostOwned]
  /\ error' = [s \in Ring!Slots |-> 0]
  /\ free' = FreeAfterFlush
  /\ AcxMemPtr' = [s \in Ring!Slots |-> 0]
  /\ word' = WholeList
  /\ acx_txbuf_free' = 1 /\ acx_txbuf_blocks_free' = numblocks
  /\ UNCHANGED <<skb, head, tail, op, txdesc, frame, finger, air, reported, len>>
-------------------------------------------------------------------------------
(* _acx_tx_data *)

\* Mutant: the allocation is not cut off from the free list.
NotMarked(b) == word[b]

LastWord(b) == EndMark

\* acxmem_allocate_acx_txbuf_space: the first blocks of the free list.
Allocate(n) ==
  LET taken == SpaceNeeded(n)
      walk  == From(acx_txbuf_free)
      last  == IF taken = 0 THEN acx_txbuf_free ELSE walk[taken - 1]
      left  == acx_txbuf_blocks_free - taken
  IN /\ word' = [word EXCEPT ![last] = LastWord(last)]
     /\ acx_txbuf_blocks_free' = left
     /\ acx_txbuf_free' = IF left = 0 THEN 0 ELSE walk[taken]
     /\ AcxMemPtr' = [AcxMemPtr EXCEPT ![txdesc] = acx_txbuf_free]

TxDataRelease ==
  /\ Ring!TxDataRelease
  /\ Allocate(len)
  /\ UNCHANGED <<len, txattempts>>

TxDataStoreSkb ==
  /\ Ring!TxDataStoreSkb
  /\ UNCHANGED <<pool, AcxMemPtr, len, txattempts>>
-------------------------------------------------------------------------------
(* acx_tx_clean_txdesc, and the adapter *)

AcxComplete(s) ==
  /\ Ring!AcxComplete(s)
  /\ UNCHANGED <<pool, AcxMemPtr, len, txattempts>>

CleanStart ==
  /\ Ring!CleanStart
  /\ UNCHANGED <<pool, AcxMemPtr, len, txattempts>>

\* The chain that starts at block p, up to the block marked as its end.
ChainLength(p) ==
  LET walk == From(p)
  IN CHOOSE n \in 1..numblocks :
       word[walk[n - 1]] = EndMark /\ \A i \in 1 .. n - 1 : word[walk[i - 1]] # EndMark

\* acxmem_reclaim_acx_txbuf_space: the chain goes to the front of the free list.
Reclaim(p) ==
  LET last == From(p)[ChainLength(p) - 1]
  IN /\ word' = [word EXCEPT ![last] = IF acx_txbuf_free # 0 THEN acx_txbuf_free ELSE EndMark]
     /\ acx_txbuf_blocks_free' = acx_txbuf_blocks_free + ChainLength(p)
     /\ acx_txbuf_free' = p

CleanDesc ==
  /\ Ring!CleanDesc
  /\ IF AcxMemPtr[finger] \in Blocks THEN Reclaim(AcxMemPtr[finger]) ELSE UNCHANGED pool
  /\ AcxMemPtr' = [AcxMemPtr EXCEPT ![finger] = 0]
  /\ UNCHANGED <<len, txattempts>>

CleanEnd ==
  /\ Ring!CleanEnd
  /\ UNCHANGED <<pool, AcxMemPtr, len, txattempts>>

Next ==
  \/ \E f \in Frames, n \in Lengths : AllocTx(f, n)
  \/ WakeUpAcx \/ FlushTransmitQueue
  \/ TxDataRelease \/ TxDataStoreSkb
  \/ \E s \in Ring!Slots : AcxComplete(s)
  \/ CleanStart \/ CleanDesc \/ CleanEnd

Spec == Init /\ [][Next]_vars
-------------------------------------------------------------------------------
TypeOK ==
  /\ Ring!TypeOK
  /\ word \in [0..numblocks -> 0..EndMark]
  /\ acx_txbuf_free \in 0..numblocks /\ acx_txbuf_blocks_free \in 0..numblocks
  /\ AcxMemPtr \in [Ring!Slots -> 0..numblocks]
  /\ len \in Lengths \cup {0}
  /\ txattempts \in 0..MaxAttempts

FreeBlocks == {From(acx_txbuf_free)[i] : i \in 0 .. acx_txbuf_blocks_free - 1}

Chain(s) ==
  IF AcxMemPtr[s] = 0 THEN {}
  ELSE {From(AcxMemPtr[s])[i] : i \in 0 .. ChainLength(AcxMemPtr[s]) - 1}

\* A chain belongs to a descriptor from the moment it is the adapter's until its
\* status is reported, and to no other.
ChainsAreInUse ==
  \A s \in Ring!Slots :
    AcxMemPtr[s] # 0 <=> Ctl_8[s] # Ring!HostOwned /\ ~Ring!Claimed(s)

\* "Bummer. We thought we might have enough room": the branch of _acx_tx_data that
\* takes a descriptor back is dead, for acxmem_alloc_tx has looked before.
NoBummer == op = "alloc" => SpaceNeeded(len) <= acx_txbuf_blocks_free

\* No block is lost or in two places: the free list is as long as its count says
\* and ends there, and every block is either on it or in the chain of one descriptor
\* that is in use.
BlocksConserved ==
  /\ TypeOK /\ ChainsAreInUse /\ NoBummer
  /\ Cardinality(FreeBlocks) = acx_txbuf_blocks_free
  /\ From(acx_txbuf_free)[acx_txbuf_blocks_free] = 0
  /\ \A b \in Blocks :
       Cardinality({s \in Ring!Slots : b \in Chain(s)}) = IF b \in FreeBlocks THEN 0 ELSE 1

(* The inductive invariant of the above. *)

\* The free list and the chain of each descriptor, which may be empty, by holder: the
\* descriptor, or FreeList.
FreeList == TX_CNT
Holders == 0..TX_CNT
First(h) == IF h = FreeList THEN acx_txbuf_free ELSE AcxMemPtr[h]

\* q lists the n blocks from block p on, the last of them marked as the end.
Lists(q, p, n) ==
  /\ p = IF n = 0 THEN 0 ELSE q[0]
  /\ \A i \in 0 .. n - 1 :
       q[i] \in Blocks /\ word[q[i]] = IF i = n - 1 THEN EndMark ELSE q[i + 1]

\* Every block has one place, on one list.
Accounted(n, q) ==
  /\ n[FreeList] = acx_txbuf_blocks_free
  /\ \A h \in Holders : Lists(q[h], First(h), n[h])
  /\ \A b \in Blocks : \E h \in Holders : \E i \in 0 .. n[h] - 1 : q[h][i] = b
  /\ \A g, h \in Holders : \A i \in 0 .. n[g] - 1, j \in 0 .. n[h] - 1 :
       q[g][i] = q[h][j] => g = h /\ i = j

\* The lists are those that From walks along.
PoolIInv ==
  /\ TypeOK /\ ChainsAreInUse /\ NoBummer
  /\ op = "alloc" => len \in Lengths
  /\ \E n \in [Holders -> 0..numblocks] : Accounted(n, [h \in Holders |-> From(First(h))])

\* Flushing the queue where it is, without resetting head and tail, leaves a ring
\* whose counters and ownership bits agree.
FlushedRingIsSound == Ring!CountersAgree /\ Ring!FreeMeansHostOwned
===============================================================================
