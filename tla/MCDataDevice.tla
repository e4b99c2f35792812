---------------------------- MODULE MCDataDevice ----------------------------
(* DataDevice for TLC: the surfaces with an impl.dnd are alike, those without are, *)
(* and so are offers.                                                         *)
EXTENDS DataDevice, TLC

Alike ==
  Permutations(DndImpl) \cup Permutations(Surfaces \ DndImpl) \cup Permutations(Offers)
=============================================================================
