----------------------------- MODULE MCEasyLoop -----------------------------
(* SurfaceOutputs, and with it EasyLoop, for TLC. *)
EXTENDS SurfaceOutputs, TLC

Alike == Permutations(Outputs) \cup Permutations(Seats)
=============================================================================
