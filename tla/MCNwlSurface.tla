---------------------------- MODULE MCNwlSurface ----------------------------
(* NwlSurface for TLC: the surfaces are interchangeable. *)
EXTENDS NwlSurfaceService, TLC

SurfaceSymmetry == Permutations(Surfaces)

\* The liveness run leaves out the role_unset of a surface that drew without a role:
\* what fires afterwards is a further frame event.  The safety run has it.
NoStray == stray' \subseteq gone'
LiveSpec == Init /\ [][Next /\ NoStray]_vars /\ Fairness
=============================================================================
