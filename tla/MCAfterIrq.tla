------------------------------ MODULE MCAfterIrq ------------------------------
(* TLC instance of AfterIrq, which is finite: only MAX_FAILURES is made small. *)
EXTENDS AfterIrq
===============================================================================
