------------------------ MODULE NwlSurfaceTreeProofs ------------------------
(* Who holds a surface, and how many the event loop counts: SurfaceCount and  *)
(* NoneLeftBehind, on top of the scheduling invariant of NwlSurfaceProofs.    *)
EXTENDS NwlSurfaceProofs

Roots == {r \in live : parent[r] = NoSurface}

Hereditary(C) == \A u \in live : parent[u] \in C => u \in C

\* A surface without a role hangs in core->surfaces, and the dead have none.
HomeInv ==
  \A s \in Surfaces :
    /\ s \notin live => role[s] = "none"
    /\ role[s] = "none" => parent[s] = NoSurface

\* Whatever holds the roots and the children of what it holds, holds everything.
ReachInv == \A C \in SUBSET Surfaces : Roots \subseteq C /\ Hereditary(C) => live \subseteq C

DoneInv == pc = "done" => live = {}

TreeInv == HomeInv /\ ReachInv /\ SurfaceCount /\ DoneInv

USE DEF lifeVars, stateVars, wlVars, passVars, dirtVars, easyVars

-----------------------------------------------------------------------------
LEMMA SubtreeHereditary ==
  ASSUME live \subseteq Surfaces, NEW s PROVE Hereditary(Subtree(s))
  BY DEF Hereditary, Subtree

LEMMA Shrink ==
  ASSUME TypeOK, NEW T \in SUBSET live, numSurfaces = Cardinality(CountedIn(live))
  PROVE  Minus(numSurfaces, Cardinality(CountedIn(T))) = Cardinality(CountedIn(live) \ CountedIn(T))
<1>1. live \in SUBSET Surfaces /\ T \in SUBSET Surfaces BY DEF TypeOK
<1>2. IsFiniteSet(CountedIn(live)) /\ IsFiniteSet(CountedIn(T)) BY <1>1, CardinalityNat
<1>3. CountedIn(T) \subseteq CountedIn(live) BY DEF CountedIn
<1>4. CountedIn(live) \cap CountedIn(T) = CountedIn(T) BY <1>3
<1>5. /\ Cardinality(CountedIn(T)) <= Cardinality(CountedIn(live))
      /\ Cardinality(CountedIn(T)) \in Nat /\ Cardinality(CountedIn(live)) \in Nat
  BY <1>1, <1>2, <1>3, FS_Subset, CardinalityNat
<1>6. Cardinality(CountedIn(live) \ CountedIn(T))
        = Cardinality(CountedIn(live)) - Cardinality(CountedIn(T))
  BY <1>2, <1>4, FS_Difference
<1> QED BY <1>5, <1>6 DEF Minus

LEMMA InitTree == Init => TreeInv
<1> SUFFICES ASSUME Init PROVE TreeInv OBVIOUS
<1>1. CountedIn(live) = {} BY DEF Init, CountedIn
<1> QED BY <1>1, FS_EmptySet DEF Init, TreeInv, HomeInv, ReachInv, SurfaceCount, DoneInv

LEMMA UnchangedTree ==
  ASSUME TreeInv, UNCHANGED <<live, role, parent, numSurfaces, errored>>, pc' # "done" \/ pc' = pc
  PROVE  TreeInv'
<1>1. CountedIn(live)' = CountedIn(live) BY DEF CountedIn
<1> QED BY <1>1 DEF TreeInv, HomeInv, ReachInv, Roots, Hereditary, SurfaceCount, DoneInv

LEMMA SurfaceInitTree ==
  ASSUME IInv, TreeInv, NEW s \in Surfaces, SurfaceInit(s) PROVE TreeInv'
<1> USE DEF SurfaceInit
<1>1. CountedIn(live)' = CountedIn(live)
  BY DEF CountedIn, CountedRoles, TreeInv, HomeInv
<1>2. ReachInv'
  <2> SUFFICES ASSUME NEW C \in SUBSET Surfaces, Roots' \subseteq C, Hereditary(C)'
               PROVE  live' \subseteq C
    BY DEF ReachInv
  <2>1. Roots \subseteq C /\ Hereditary(C) /\ s \in C
    BY DEF Roots, Hereditary, TreeInv, HomeInv
  <2> QED BY <2>1 DEF TreeInv, ReachInv
<1>3. pc # "done" BY DEF ClientTurn, IInv, PassInv
<1> QED BY <1>1, <1>2, <1>3 DEF TreeInv, HomeInv, SurfaceCount, DoneInv

LEMMA RoleCountedTree ==
  ASSUME IInv, TreeInv, NEW s \in Surfaces, RoleCounted(s) PROVE TreeInv'
<1> USE DEF RoleCounted, GiveRole
<1>0. PICK r \in CountedRoles : role' = [role EXCEPT ![s] = r] OBVIOUS
<1>1. s \notin CountedIn(live) /\ CountedIn(live)' = CountedIn(live) \cup {s}
  BY <1>0 DEF CountedIn, CountedRoles, IInv, TypeOK
<1>2. live \in SUBSET Surfaces BY DEF IInv, TypeOK
<1>3. /\ Cardinality(CountedIn(live)') = Cardinality(CountedIn(live)) + 1
      /\ Cardinality(CountedIn(live)) \in Nat
  BY <1>1, <1>2, CardinalityNat, FS_AddElement
<1>4. Cardinality(CountedIn(live)') <= Cardinality(Surfaces)
  <2>1. CountedIn(live)' \subseteq Surfaces BY <1>1, <1>2 DEF CountedIn
  <2> QED BY <2>1, SurfacesAssumption, FS_Subset
<1>5. Cardinality(Surfaces) \in Nat BY SurfacesAssumption, FS_CardinalityType
<1>6. SurfaceCount' BY <1>3, <1>4, <1>5, BoundsAssumption DEF SurfaceCount, TreeInv
<1>7. HomeInv' BY <1>0 DEF HomeInv, TreeInv, IInv, TypeOK, CountedRoles
<1> QED BY <1>6, <1>7 DEF TreeInv, ReachInv, Roots, Hereditary, DoneInv

LEMMA RolePopupTree ==
  ASSUME IInv, TreeInv, NEW s \in Surfaces, RolePopup(s) PROVE TreeInv'
<1> USE DEF RolePopup, GiveRole
<1>1. CountedIn(live)' = CountedIn(live)
  BY DEF CountedIn, CountedRoles, IInv, TypeOK
<1>2. HomeInv' BY DEF HomeInv, TreeInv, IInv, TypeOK
<1> QED BY <1>1, <1>2 DEF TreeInv, SurfaceCount, ReachInv, Roots, Hereditary, DoneInv

LEMMA RoleSubsurfaceTree ==
  ASSUME IInv, TreeInv, NEW s \in Surfaces, NEW p \in Surfaces, RoleSubsurface(s, p)
  PROVE  TreeInv'
<1> USE DEF RoleSubsurface, GiveRole
<1>1. CountedIn(live)' = CountedIn(live)
  BY DEF CountedIn, CountedRoles, IInv, TypeOK
<1>2. HomeInv' BY DEF HomeInv, TreeInv, IInv, TypeOK
<1>3. ReachInv'
  <2> SUFFICES ASSUME NEW C \in SUBSET Surfaces, Roots' \subseteq C, Hereditary(C)'
               PROVE  live' \subseteq C
    BY DEF ReachInv
  <2> DEFINE D == C \cup Subtree(s)
  <2>1. s \in Subtree(s) /\ Subtree(s) \subseteq live /\ live \subseteq Surfaces
    BY SubtreeFacts DEF IInv, TypeOK
  <2>2. Hereditary(Subtree(s)) BY <2>1, SubtreeHereditary
  <2>3. /\ p # NoSurface /\ parent[s] = NoSurface /\ parent'[s] = p
        /\ \A u \in live : u # s => parent'[u] = parent[u]
    BY SurfacesAssumption DEF TreeInv, HomeInv, IInv, TypeOK
  <2>4. Roots \subseteq D BY <2>1, <2>3 DEF Roots
  <2>5. Hereditary(D)
    <3> SUFFICES ASSUME NEW u \in live, parent[u] \in D PROVE u \in D BY DEF Hereditary
    <3>1. CASE parent[u] \in Subtree(s) BY <2>2, <3>1 DEF Hereditary
    <3>2. CASE parent[u] \in C /\ u # s BY <2>3, <3>2 DEF Hereditary
    <3>3. CASE u = s BY <2>1, <3>3
    <3> QED BY <3>1, <3>2, <3>3
  <2>6. live \subseteq D BY <2>1, <2>4, <2>5 DEF TreeInv, ReachInv
  <2>7. s \in C BY <2>3, <2>6 DEF Hereditary
  <2>8. Roots \subseteq C /\ Hereditary(C)
    BY <2>3, <2>7 DEF Roots, Hereditary
  <2> QED BY <2>8 DEF TreeInv, ReachInv
<1> QED BY <1>1, <1>2, <1>3 DEF TreeInv, SurfaceCount, DoneInv

LEMMA RoleSeatTree ==
  ASSUME IInv, TreeInv, NEW s \in Surfaces, RoleSeat(s) PROVE TreeInv'
<1> USE DEF RoleSeat
<1>1. CountedIn(live)' = CountedIn(live)
  BY DEF CountedIn, CountedRoles, IInv, TypeOK
<1>2. HomeInv' BY DEF HomeInv, TreeInv, IInv, TypeOK
<1> QED BY <1>1, <1>2 DEF TreeInv, SurfaceCount, ReachInv, Roots, Hereditary, DoneInv

LEMMA RoleUnsetTree ==
  ASSUME IInv, TreeInv, NEW s \in Surfaces, RoleUnset(s) PROVE TreeInv'
<1> USE DEF RoleUnset, DropCallbacks
<1>1. CountedIn(live)' = CountedIn(live) \ CountedIn({s})
  BY DEF CountedIn, CountedRoles, IInv, TypeOK
<1>2. {s} \in SUBSET live OBVIOUS
<1>3. SurfaceCount' BY <1>1, <1>2, Shrink DEF SurfaceCount, TreeInv, IInv
<1>4. HomeInv' BY DEF HomeInv, TreeInv, IInv, TypeOK
<1>5. ReachInv'
  <2> SUFFICES ASSUME NEW C \in SUBSET Surfaces, Roots' \subseteq C, Hereditary(C)'
               PROVE  live' \subseteq C
    BY DEF ReachInv
  <2>1. /\ parent'[s] = NoSurface /\ \A u \in live : u # s => parent'[u] = parent[u]
    BY DEF IInv, TypeOK
  <2>2. s \in C BY <2>1 DEF Roots
  <2>3. Roots \subseteq C /\ Hereditary(C) BY <2>1, <2>2 DEF Roots, Hereditary
  <2> QED BY <2>3 DEF TreeInv, ReachInv
<1> QED BY <1>3, <1>4, <1>5 DEF TreeInv, DoneInv

LEMMA DestroyTreeTree ==
  ASSUME IInv, TreeInv, NEW T \in SUBSET live, Hereditary(T), DestroyTree(T),
         errored' = errored, pc' # "done" \/ pc' = pc \/ T = live
  PROVE  TreeInv'
<1> USE DEF DestroyTree
<1>0. T \subseteq Surfaces BY DEF IInv, TypeOK
<1>1. CountedIn(live)' = CountedIn(live) \ CountedIn(T)
  BY <1>0 DEF CountedIn, CountedRoles, IInv, TypeOK
<1>2. SurfaceCount' BY <1>1, Shrink DEF SurfaceCount, TreeInv, IInv
<1>3. HomeInv' BY DEF HomeInv, TreeInv, IInv, TypeOK
<1>4. ReachInv'
  <2> SUFFICES ASSUME NEW C \in SUBSET Surfaces, Roots' \subseteq C, Hereditary(C)'
               PROVE  live' \subseteq C
    BY DEF ReachInv
  <2>1. \A u \in live \ T : u \in live' /\ parent'[u] = parent[u]
    BY DEF IInv, TypeOK
  <2>2. Roots \subseteq C \cup T BY <2>1 DEF Roots
  <2>3. Hereditary(C \cup T) BY <2>1 DEF Hereditary
  <2>4. live \subseteq C \cup T BY <1>0, <2>2, <2>3 DEF TreeInv, ReachInv
  <2> QED BY <2>4
<1>5. DoneInv' BY DEF DoneInv, TreeInv
<1> QED BY <1>2, <1>3, <1>4, <1>5 DEF TreeInv

LEMMA ForestFacts ==
  ASSUME live \subseteq Surfaces, NEW S \in SUBSET live
  PROVE  LET T == UNION {Subtree(s) : s \in S}
         IN  S \subseteq T /\ T \subseteq live /\ Hereditary(T)
<1> DEFINE T == UNION {Subtree(s) : s \in S}
<1>1. \A s \in S : s \in Subtree(s) /\ Subtree(s) \subseteq live /\ Hereditary(Subtree(s))
  BY SubtreeFacts, SubtreeHereditary
<1>2. S \subseteq T /\ T \subseteq live BY <1>1
<1>3. Hereditary(T) BY <1>1 DEF Hereditary
<1> QED BY <1>2, <1>3

LEMMA DestroySubtreeTree ==
  ASSUME IInv, TreeInv, NEW s \in live, DestroyTree(Subtree(s)), errored' = errored, pc' = pc
  PROVE  TreeInv'
<1>1. Subtree(s) \subseteq live /\ live \subseteq Surfaces
  BY SubtreeFacts DEF IInv, TypeOK
<1>2. Hereditary(Subtree(s)) BY <1>1, SubtreeHereditary
<1> QED BY <1>1, <1>2, DestroyTreeTree

LEMMA DirtDestroyTree ==
  ASSUME IInv, TreeInv, NEW s \in Surfaces, DirtDestroy(s) PROVE TreeInv'
<1>1. s \in live /\ live \subseteq Surfaces BY DEF DirtDestroy, IInv, TypeOK
<1>2. PICK others \in SUBSET (live \ {s}) :
        DestroyTree(UNION {Subtree(t) : t \in others \cup {s}})
  BY DEF DirtDestroy
<1> DEFINE T == UNION {Subtree(t) : t \in others \cup {s}}
<1>3. T \subseteq live /\ Hereditary(T)
  <2>1. others \cup {s} \in SUBSET live BY <1>1
  <2> QED BY <1>1, <2>1, ForestFacts
<1>4. DestroyTree(T) BY <1>2
<1>5. errored' = errored /\ pc' = pc BY DEF DirtDestroy, StartOver
<1> HIDE DEF T
<1> QED BY <1>3, <1>4, <1>5, DestroyTreeTree

\* What hangs below the surfaces of core->surfaces is everything.
LEMMA RootsReachAll ==
  ASSUME live \subseteq Surfaces, ReachInv
  PROVE  live = UNION {Subtree(s) : s \in Roots}
<1> DEFINE T == UNION {Subtree(s) : s \in Roots}
<1>1. Roots \in SUBSET live BY DEF Roots
<1>2. Roots \subseteq T /\ T \subseteq live /\ Hereditary(T) BY <1>1, ForestFacts
<1> HIDE DEF T
<1>3. live = T BY <1>2 DEF ReachInv
<1> QED BY <1>3 DEF T

LEMMA DeinitTree == ASSUME IInv, TreeInv, Deinit PROVE TreeInv'
<1>1. live = UNION {Subtree(s) : s \in Roots}
  BY RootsReachAll DEF IInv, TypeOK, TreeInv
<1>2. DestroyTree(live) BY <1>1 DEF Deinit, Roots
<1>3. Hereditary(live) BY DEF Hereditary
<1> QED BY <1>2, <1>3, DestroyTreeTree DEF Deinit

LEMMA StepTree == ASSUME NoNestedDestroy, IInv, TreeInv, [Next]_vars PROVE TreeInv'
<1>1. ASSUME NEW s \in Surfaces, ClientStep(s) PROVE TreeInv'
  <2>1. CASE SurfaceInit(s) \/ RoleCounted(s) \/ RolePopup(s) \/ RoleUnset(s)
    BY <2>1, SurfaceInitTree, RoleCountedTree, RolePopupTree, RoleUnsetTree
  <2>2. CASE RoleSeat(s) \/ \E p \in Surfaces : RoleSubsurface(s, p)
    BY <2>2, RoleSeatTree, RoleSubsurfaceTree
  <2>3. CASE Destroy(s) BY <2>3, DestroySubtreeTree DEF Destroy
  <2>4. CASE (\E now \in BOOLEAN : SetNeedUpdate(s, now)) \/ DestroyLater(s)
             \/ RequestCallback(s) \/ BufferSubmitted(s) \/ Defer(s)
    BY <2>4, UnchangedTree
    DEF SetNeedUpdate, DestroyLater, Doom, RequestCallback, BufferSubmitted, Defer
  <2> QED BY <1>1, <2>1, <2>2, <2>3, <2>4 DEF ClientStep
<1>2. ASSUME NEW s \in Surfaces, CompositorStep(s) PROVE TreeInv'
  <2>1. CASE PopupDone(s) BY <2>1, DestroySubtreeTree DEF PopupDone, Event
  <2>2. CASE (\E c \in BOOLEAN : LayerConfigure(s, c)) \/ XdgConfigure(s)
             \/ Closed(s) \/ FrameDone(s)
    BY <2>2, UnchangedTree DEF LayerConfigure, XdgConfigure, Closed, Doom, FrameDone, Event, EventTurn
  <2> QED BY <1>2, <2>1, <2>2 DEF CompositorStep
<1>3. ASSUME NEW s \in Surfaces, PassStep(s) PROVE TreeInv'
  <2>1. CASE DirtDestroy(s) BY <2>1, DirtDestroyTree
  <2>2. CASE DirtUpdate(s) \/ DirtSkip(s)
    BY <2>2, UnchangedTree DEF DirtUpdate, DirtSkip, Advance
  <2> QED BY <1>3, <2>1, <2>2 DEF PassStep
<1>4. CASE UpdateReturns \/ EndEvents \/ PassEnds \/ Finished \/ UNCHANGED vars
  BY <1>4, UnchangedTree
  DEF UpdateReturns, EndEvents, PassEnds, BeginPass, LoopCheck, Finished, vars
<1>5. CASE DisplayError
  BY <1>5 DEF DisplayError, TreeInv, HomeInv, ReachInv, Roots, Hereditary, SurfaceCount,
     DoneInv
<1>6. CASE Deinit BY <1>6, DeinitTree
<1> QED BY <1>1, <1>2, <1>3, <1>4, <1>5, <1>6 DEF Next, LoopStep

THEOREM TreeInvariance == ASSUME NoNestedDestroy PROVE Spec => []TreeInv
<1>1. Init => TreeInv BY InitTree
<1>2. IInv /\ TreeInv /\ [Next]_vars => TreeInv' BY StepTree
<1> QED BY <1>1, <1>2, Invariance, PTL DEF Spec

\* num_surfaces is exact until the display fails: nwl_easy_run neither stops
\* under a window nor runs on without one.
THEOREM CountIsExact == ASSUME NoNestedDestroy PROVE Spec => []SurfaceCount
<1>1. TreeInv => SurfaceCount BY DEF TreeInv
<1> QED BY <1>1, TreeInvariance, PTL

\* nwl_core_deinit, which only looks at core->surfaces, destroys every surface
\* with its dirty link.
THEOREM DeinitLeavesNothing == ASSUME NoNestedDestroy PROVE Spec => []NoneLeftBehind
<1>1. ASSUME IInv, TreeInv PROVE NoneLeftBehind
  <2>1. live = UNION {Subtree(s) : s \in Roots}
    BY <1>1, RootsReachAll DEF IInv, TypeOK, TreeInv
  <2>2. pc = "done" => live = {} /\ dirty = {}
    BY <1>1 DEF IInv, TypeOK, TreeInv, DoneInv
  <2> QED BY <2>1, <2>2 DEF NoneLeftBehind, Roots
<1> QED BY <1>1, Invariance, TreeInvariance, PTL

=============================================================================
