------------------------------ MODULE MemoryMap -------------------------------
(***************************************************************************)
(* The layout of the memory of an ACX100, which the driver computes from   *)
(* the memory map it interrogates (init.c): code, WEP cache, packet        *)
(* templates, descriptor queues with their indicator, and the block pools  *)
(* of reception and transmission.                                          *)
(***************************************************************************)
EXTENDS Integers

CONSTANTS
  TxBytes,  \* TX_CNT * sizeof(txacxdesc_t)
  RxBytes   \* RX_CNT * sizeof(rxacxdesc_t)

ASSUME MemoryMapAssumption == TxBytes \in Nat /\ RxBytes \in Nat

Address == Nat

\* acx_ie_memmap_t; addresses keep far away from 2^32.
MemMap ==
  [CodeEnd : Address, WEPCacheStart : Address, WEPCacheEnd : Address,
   PacketTemplateStart : Address, PacketTemplateEnd : Address,
   QueueStart : Address, QueueEnd : Address, PoolStart : Address, PoolEnd : Address]

\* (a + 0x1f) & ~0x1f
Align(a) == ((a + 31) \div 32) * 32

\* acx100_init_wep: "WEPCacheStart=WEPCacheEnd", and the templates "at that location".
WepCache(mm) == [mm EXCEPT !.WEPCacheStart = mm.CodeEnd + 4, !.WEPCacheEnd = mm.CodeEnd + 4]

TemplatesAt(mm) == [mm EXCEPT !.PacketTemplateStart = mm.WEPCacheEnd]

\* Mutant: the queues begin at the end of the code.
QueuesInTemplates(mm) == [mm EXCEPT !.QueueStart = mm.WEPCacheEnd + 4]

\* acx_init_packet_templates
QueuesAt(mm) == [mm EXCEPT !.QueueStart = mm.PacketTemplateEnd + 4]

\* acx100_create_dma_regions: acx100_ie_queueconfig_t
QueueConfig(mm) ==
  LET rx == mm.QueueStart + TxBytes
  IN  [TxQueueStart |-> mm.QueueStart, RxQueueStart |-> rx,
       QueueEnd |-> rx + RxBytes, HostQueueEnd |-> rx + RxBytes + 8]

PoolAt(mm) == [mm EXCEPT !.PoolStart = Align(mm.QueueEnd + 4)]

\* acx100_init_memory_pools, with blocks of memblocksize bytes.
Pools(mm, memblocksize) ==
  LET total == (mm.PoolEnd - mm.PoolStart) \div memblocksize
      tx    == total \div 2
      rx    == total - tx
  IN  [TxBlockNum |-> tx, RxBlockNum |-> rx,
       rx_mem |-> Align(mm.PoolStart),
       tx_mem |-> Align(mm.PoolStart + rx * memblocksize)]

\* Each area begins after the end of the one before it, and nothing goes
\* beyond the memory.
AreasAreOrdered(mm, pools, memblocksize) ==
  /\ mm.CodeEnd < mm.WEPCacheStart /\ mm.WEPCacheStart <= mm.WEPCacheEnd
  /\ mm.WEPCacheEnd <= mm.PacketTemplateStart
  /\ mm.PacketTemplateStart <= mm.PacketTemplateEnd
  /\ mm.PacketTemplateEnd < mm.QueueStart
  /\ mm.QueueStart <= mm.QueueEnd
  /\ mm.QueueEnd < pools.rx_mem
  /\ pools.rx_mem + pools.RxBlockNum * memblocksize <= pools.tx_mem
  /\ pools.tx_mem + pools.TxBlockNum * memblocksize <= mm.PoolEnd
===============================================================================
