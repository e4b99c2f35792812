--------------------------- MODULE SurfaceOutputs ---------------------------
(***************************************************************************)
(* A surface's array of the outputs it is on and the scale it takes from   *)
(* them (src/surface.c), beside the outputs themselves, which come and go  *)
(* in EasyLoop.  One surface, and a subsurface that it is given at some    *)
(* time and to which the compositor sends no output events.                *)
(***************************************************************************)
EXTENDS EasyLoop, Sequences

CONSTANTS
  Scales,            \* the scales an output or the compositor may give
  Garbage,           \* an uninitialized pointer
  RemovedWhileShown, \* whether an output may be removed before the surface left it
  UnsetWhileShown    \* whether the surface may lose its role while it is on an output

ASSUME ScalesAssumption ==
  /\ Scales \subseteq Nat \ {0} /\ IsFiniteSet(Scales) /\ Garbage \notin Outputs
  /\ {RemovedWhileShown, UnsetWhileShown} \subseteq BOOLEAN

VARIABLES
  array,       \* surface->outputs
  scale, preferred,  \* the surface's, and its scale_preferred
  subScale,    \* the scale of the subsurface
  attachedAt,  \* the surface's scale when the subsurface came to it; 0: it has not
  outputScale, \* the outputs' scale
  shownOn,     \* where the compositor said the surface is
  unheeded     \* whether an output of the array changed its scale since it was looked at

surface == <<array, scale, preferred, subScale, attachedAt, outputScale, shownOn, unheeded>>
allVars == <<vars, surface>>

-----------------------------------------------------------------------------
\* The loop of surface_autoscale: the scale after the first i outputs of a
Largest(a) ==
  LET after[i \in 0 .. Len(a)] ==
        IF i = 0 THEN 1
        ELSE IF outputScale[a[i]] > after[i - 1] THEN outputScale[a[i]] ELSE after[i - 1]
  IN  after[Len(a)]

BadPushed(new) == IF attachedAt # 0 /\ new > scale THEN new ELSE subScale

\* ... and its loop over the subsurfaces, when outputs gave the scale new
Pushed(new) == IF attachedAt # 0 /\ new # scale THEN new ELSE subScale

\* surface_autoscale, which looks at the array a and at a preferred scale p
Autoscale(a, p) ==
  LET new == IF p # 0 THEN p ELSE IF a = <<>> THEN scale ELSE Largest(a)
  IN  /\ scale' = new
      /\ subScale' = IF p = 0 THEN Pushed(new) ELSE subScale
      /\ unheeded' = IF p = 0 THEN FALSE ELSE unheeded

\* handle_surface_enter
SurfaceEnter(o) ==
  /\ Handling /\ o \in outputs \ shownOn
  /\ array' = Append(array, o) /\ shownOn' = shownOn \cup {o}
  /\ Autoscale(array', preferred)
  /\ UNCHANGED <<vars, preferred, attachedAt, outputScale>>

BadWithout(o) == SubSeq(array, 1, Len(array) - 1)

\* what handle_surface_leave copies of the array: one place fewer, and the n-th of
\* the outputs that are not o at the n-th place, as far as there are any
Without(o) ==
  LET others == {j \in DOMAIN array : array[j] # o}
      Nth(n) == {j \in others : Cardinality({k \in others : k <= j}) = n}
  IN  [n \in 1 .. Len(array) - 1 |->
         IF Nth(n) = {} THEN Garbage ELSE array[CHOOSE j \in Nth(n) : TRUE]]

BadAfterLeave(a) == UNCHANGED <<scale, subScale, unheeded>>

\* The scale when the surface has left one output of several
AfterLeave(a) == Autoscale(a, preferred)

\* handle_surface_leave
SurfaceLeave(o) ==
  /\ Handling /\ o \in shownOn
  /\ shownOn' = shownOn \ {o}
  /\ IF Len(array) = 1
     THEN array' = <<>> /\ unheeded' = FALSE /\ UNCHANGED <<scale, subScale>>
     ELSE array' = Without(o) /\ AfterLeave(array')
  /\ UNCHANGED <<vars, preferred, attachedAt, outputScale>>

\* handle_preferred_scale
PreferredScale(n) ==
  /\ Handling
  /\ preferred' = n
  /\ Autoscale(array, n)
  /\ UNCHANGED <<vars, array, attachedAt, outputScale, shownOn>>

\* handle_output_scale: no surface is told.
OutputScale(o, n) ==
  /\ Handling /\ o \in outputs /\ outputScale[o] # n
  /\ outputScale' = [outputScale EXCEPT ![o] = n]
  /\ unheeded' = (unheeded \/ \E i \in DOMAIN array : array[i] = o)
  /\ UNCHANGED <<vars, array, scale, preferred, subScale, attachedAt, shownOn>>

\* nwl_surface_role_unset: a new wl_surface, and the array stays.
SurfaceRoleUnset ==
  /\ pc \in {"dispatch", "batch"}
  /\ shownOn = {} \/ UnsetWhileShown
  /\ shownOn' = {}
  /\ UNCHANGED <<vars, array, scale, preferred, subScale, attachedAt, outputScale,
                 unheeded>>

\* nwl_surface_role_subsurface, of a surface that has still the scale of
\* nwl_surface_init, and keeps it
AttachSubsurface ==
  /\ pc \in {"polling", "dispatch", "batch"} /\ attachedAt = 0
  /\ attachedAt' = scale
  /\ UNCHANGED <<vars, array, scale, preferred, subScale, outputScale, shownOn, unheeded>>

\* The globals' own steps.  A new output is zeroed; nwl_easy_deinit destroys the
\* surface with everything else.
GlobalsStep ==
  /\ Next
  /\ outputScale' = [o \in Outputs |-> IF o \in outputs' THEN outputScale[o] ELSE 0]
  /\ IF pc' = "done"
     THEN array' = <<>> /\ shownOn' = {} /\ unheeded' = FALSE
     ELSE /\ RemovedWhileShown \/ shownOn \subseteq outputs'
          /\ shownOn' = shownOn \cap outputs' /\ UNCHANGED <<array, unheeded>>
  /\ UNCHANGED <<scale, preferred, subScale, attachedAt>>

SurfaceInit ==
  /\ Init
  /\ array = <<>> /\ scale = 1 /\ preferred = 0 /\ subScale = 1 /\ attachedAt = 0
  /\ outputScale = [o \in Outputs |-> 0] /\ shownOn = {} /\ unheeded = FALSE

SurfaceNext ==
  \/ \E o \in Outputs :
       SurfaceEnter(o) \/ SurfaceLeave(o) \/ (\E n \in Scales : OutputScale(o, n))
  \/ \E n \in Scales : PreferredScale(n)
  \/ SurfaceRoleUnset \/ AttachSubsurface \/ GlobalsStep

SurfaceSpec == SurfaceInit /\ [][SurfaceNext]_allVars

-----------------------------------------------------------------------------
\* The array names each output the surface is on, once, and no other, so none that
\* is freed and none that was never written: through outputs that come and go while
\* others are announced.
ArrayIsShownOn ==
  /\ \A o \in shownOn : o \in outputs /\ \E i \in DOMAIN array : array[i] = o
  /\ Len(array) = Cardinality(shownOn)

\* n is the scale of an output of the array, or 1, and no output of it has a larger one.
IsLargest(n) ==
  LET given == {1} \cup {outputScale[array[i]] : i \in DOMAIN array}
  IN  n \in given /\ \A m \in given : m <= n

\* The surface has the scale the compositor prefers, or without one the largest of
\* its outputs.  A change of an output's scale is not heeded before the next enter
\* or leave, and with its last output the surface keeps what it had.
ScaleFollows ==
  IF preferred # 0 THEN scale = preferred
  ELSE array # <<>> /\ ~unheeded => IsLargest(scale)

\* As long as none is preferred, a subsurface has its surface's scale, or still its
\* first one while the surface has the scale it had when the subsurface came to it:
\* that is not handed down before it changes, and a preferred scale never is.
SubsurfaceFollows ==
  attachedAt # 0 /\ preferred = 0 =>
    subScale = scale \/ (subScale = 1 /\ scale = attachedAt)
=============================================================================
