-------------------------- MODULE MCCairoRenderer --------------------------
(* CairoRenderer for TLC: a frame is `width * scale' units of memory, and the *)
(* extra space of a pool one more.                                            *)
EXTENDS CairoRenderer

MCGeometries == Sizes \X Scales
MCBytes == [g \in MCGeometries |-> g[1] * g[2]]
MCSpare == [g \in MCGeometries |-> 1]
=============================================================================
