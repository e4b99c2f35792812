---------------------------- MODULE MCSeatFocus ----------------------------
(* SeatInput, and with it SeatFocus, for TLC: surfaces are alike. *)
EXTENDS SeatInput, TLC

Alike == Permutations(Surfaces)
=============================================================================
