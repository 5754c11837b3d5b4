----------------------------- MODULE MCLifecycle -----------------------------
(* TLC instance of Lifecycle.  It is finite as it stands: nothing is bounded. *)
EXTENDS Lifecycle
===============================================================================
