---------------------------- MODULE MCIrqTiming ----------------------------
(* Instances of IrqTiming for TLC: Period is the 10 ns of default_time in  *)
(* units of 5 ns, so that an expiry can fall on an instruction boundary or *)
(* strictly between two.                                                   *)
EXTENDS IrqTiming

(* Delta notification, between two instructions, on a boundary, later. *)
MCDelays == {0, 1, 2, 3}
=============================================================================
