------------------------------- MODULE MCTxPath -------------------------------
(* TLC instance of TxPath.  All frames are alike (TxRing's own run tells them *)
(* apart) and none fails, so the ring is told by its head and its ownership   *)
(* bits alone.                                                                *)
EXTENDS TxPath

CONSTANTS f1, c1

OneFrame == {f1}
OneCpu == {c1}
NoErrors == {}
NoFrames == {}
===============================================================================
