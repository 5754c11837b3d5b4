----------------------------- MODULE MCCmdMailbox -----------------------------
(* TLC instance of CmdMailbox. *)
EXTENDS CmdMailbox
===============================================================================
