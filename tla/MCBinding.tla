------------------------------ MODULE MCBinding -------------------------------
(* TLC instance of Binding, which is finite: all the buses. *)
EXTENDS Binding

AllBuses == {"pci", "vlynq", "mem", "usb"}
===============================================================================
