------------------------- MODULE NwlSurfaceService -------------------------
(***************************************************************************)
(* NwlSurface implements UpdateService: the flags, the frame callback and  *)
(* the dirty list of src/surface.c and src/wayland.c bring about what the  *)
(* abstract specification promises.                                        *)
(***************************************************************************)
EXTENDS NwlSurface

Shown == {s \in live : role[s] # "none"}

\* What keeps an update from starting.
Held == frameCb \cup needConfigure \cup deferred

\* What the next pass, or the rest of this one, updates: the link of the surface
\* that the pass is updating now goes when that update returns.
Queued == (needUpdate \cap dirty) \ Serving

Service ==
  INSTANCE UpdateService WITH
    SelfServing <- ConfigureImpl, alive <- live, dead <- gone, shown <- Shown,
    wanted <- needUpdate, queued <- Queued, held <- Held, calls <- stack

\* Every step of nwl is a step of the abstract service or changes nothing there:
\* no update is lost, none starts under a callback, a configure or a deferral, and
\* a destroyed surface waits for nothing any more.
ServiceSafe == Service!Spec

\* The dirty pass serves its queue, and destroys what nwl_surface_destroy_later
\* doomed, whatever updates and destroys come in between.
ServiceLive == Service!Live
=============================================================================
