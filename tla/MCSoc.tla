------------------------------- MODULE MCSoc -------------------------------
(* Instances of Soc for TLC: registers of 4 bits in two halves of 2, so    *)
(* that the low half rolls over within the explored time, and stored high  *)
(* halves that keep mtimecmp in the lower half of the range or do not.     *)
EXTENDS Soc

MCLoWords == {0, 1, 3}
MCHiLow == {0, 1}
MCHiAll == {0, 1, 3}
MCDelays == {}
=============================================================================
