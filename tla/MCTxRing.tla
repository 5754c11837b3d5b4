------------------------------- MODULE MCTxRing -------------------------------
(* TLC instance of TxRing: a small ring that fills, empties and wraps. *)
EXTENDS TxRing, TLC

CONSTANTS f1, f2

MCFrames == {f1, f2}

\* A multicast frame.
MCNoAckFrames == {f2}

\* 0x02 "Tx aborted", which leaves the ack flag set, and 0x20 "excessive Tx
\* retries", one of the two that clear it.
MCTxErrors == {2, 32}
MCNoAckErrors == {32}
===============================================================================
