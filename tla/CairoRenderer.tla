--------------------------- MODULE CairoRenderer ---------------------------
(***************************************************************************)
(* The drawing side of a surface: its size and scale (src/surface.c,       *)
(* src/shell.c), the flag NEEDS_APPLY_SIZE that carries their changes to   *)
(* the renderer, and the renderer itself (src/cairo.c) on the buffers of   *)
(* ShmBuffers.  When the application draws is NwlSurface's subject; here   *)
(* it may draw and submit at any time.                                     *)
(***************************************************************************)
EXTENDS ShmBuffers

CONSTANTS
  Sizes,        \* surface->width and height together, as one number
  Scales,       \* scale factors of outputs and of preferred_buffer_scale
  SlotsAnyTime, \* the application calls nwl_shm_bufferman_set_slots also when
                \* the renderer has a geometry
  RoleReuse     \* the application unsets the role of a surface that was drawn

ASSUME SizeAssumption ==
  /\ Sizes \subseteq Nat \ {0} /\ Scales \subseteq Nat \ {0} /\ 1 \in Scales
  /\ Geometries = Sizes \X Scales
  /\ SlotsAnyTime \in BOOLEAN /\ RoleReuse \in BOOLEAN

VARIABLES
  width,       \* surface->width (and height)
  scale,       \* surface->scale
  preferred,   \* surface->scale_preferred
  needsApply,  \* NWL_SURFACE_STATE_NEEDS_APPLY_SIZE
  bm,          \* renderer->shm
  next,        \* renderer->next_buffer
  prev,        \* renderer->prev_buffer
  rerender,    \* the slots whose cairo_surfaces[].rerender is set
  shows,       \* what the memory of a slot holds: the frame submitted last,
               \* an older frame, or nothing that was submitted
  crashed      \* a wl_buffer was made in a pool that is NULL, or of no size, which
               \* the compositor answers with an error

surfaceVars == <<width, scale, preferred, needsApply>>
drawVars    == <<bm, next, prev, rerender, shows, crashed>>
vars == <<surfaceVars, drawVars>>

Geometry == <<width, scale>>

-----------------------------------------------------------------------------
(* Size and scale. *)

\* handle_toplevel_configure, handle_popup_configure, handle_layer_configure
Configure(w) ==
  /\ ~crashed
  /\ width' = w
  /\ needsApply' = (needsApply \/ w # width)
  /\ UNCHANGED <<scale, preferred, drawVars>>

\* nwl_surface_set_size of a subsurface
SetSize(w) ==
  /\ ~crashed
  /\ width' = w
  /\ needsApply' = TRUE
  /\ UNCHANGED <<scale, preferred, drawVars>>

BadRescale(s) == scale' = s /\ UNCHANGED needsApply

\* the end of surface_autoscale, on the surface or on its parent
Rescale(s) ==
  /\ scale' = s
  /\ needsApply' = (needsApply \/ s # scale)

\* handle_surface_enter or handle_surface_leave of the surface, where a
\* preferred scale, once sent, goes first, or of the parent of a subsurface; s
\* is the largest scale of the outputs that surface is on now.
OutputsChanged(s, ofParent) ==
  /\ ~crashed
  /\ ofParent \/ preferred = 0
  /\ Rescale(s)
  /\ UNCHANGED <<width, preferred, drawVars>>

\* handle_preferred_scale: surface_autoscale returns before NEEDS_APPLY_SIZE
PreferredScale(s) ==
  /\ ~crashed
  /\ preferred' = s
  /\ scale' = s
  /\ UNCHANGED <<width, needsApply, drawVars>>

\* nwl_surface_role_unset: states = 0, and width, height and scale stay
RoleUnset ==
  /\ ~crashed
  /\ RoleReuse \/ bm.geom = NoGeometry
  /\ needsApply' = FALSE
  /\ UNCHANGED <<width, scale, preferred, drawVars>>

-----------------------------------------------------------------------------
(* The renderer. *)

\* nwl_shm_bufferman_resize, when the surface has a size to apply
Applied == IF needsApply THEN Resize(bm, Geometry) ELSE bm

\* next_buffer and prev_buffer after that
Kept(slot) == IF needsApply THEN NoBuffer ELSE slot

BadGrown(b) == b

\* get_next_buffer: `Increase slots and try again..'
Grown(b) == IF NextSlot(b) = NoBuffer THEN SetSlots(b, b.slots + 1) ELSE b

BadPrevAfter(b) == Kept(prev)

\* prev_buffer after get_next_buffer
PrevAfter(b) == IF NextSlot(b) = NoBuffer THEN NoBuffer ELSE Kept(prev)

\* what slot i shows after the copy of slot p, made when they differ; what is
\* not mapped any more cannot be copied
Blit(i, p, taken) == IF taken.bufs[p].mapped THEN shows[p] ELSE "junk"

\* nwl_cairo_renderer_get_surface, the part after the size was applied: b is
\* the bufferman.  A slot whose wl_buffer is made again holds no frame.
TakeNext(b, copyprevious) ==
  LET grown == Grown(b)
      i     == NextSlot(grown)
      p     == PrevAfter(b)
      taken == Take(grown, i)
      fresh == IF Reusable(grown, i) THEN shows[i] ELSE "junk"
  IN IF i = NoBuffer
     THEN /\ bm' = grown /\ next' = NoBuffer /\ prev' = p
          /\ UNCHANGED <<rerender, shows, crashed>>
     ELSE /\ bm' = taken /\ next' = i /\ prev' = p
          /\ crashed' = (~Reusable(grown, i) /\ ~grown.open)
          /\ rerender' = IF copyprevious /\ p # NoBuffer THEN rerender ELSE rerender \cup {i}
          /\ shows' = [shows EXCEPT ![i] =
               IF copyprevious /\ p \notin {NoBuffer, i} THEN Blit(i, p, taken) ELSE fresh]

\* What get_surface is to make a buffer of has no size: the surface's is 0, or none
\* was applied since nwl_cairo_renderer_init.
Unsized == IF needsApply THEN width = 0 ELSE bm.geom = NoGeometry

\* nwl_cairo_renderer_get_surface
GetSurface(copyprevious) ==
  /\ ~crashed
  /\ needsApply' = FALSE
  /\ IF Unsized THEN crashed' = TRUE /\ UNCHANGED <<bm, next, prev, rerender, shows>>
     ELSE IF Kept(next) = NoBuffer THEN TakeNext(Applied, copyprevious)
     ELSE UNCHANGED drawVars
  /\ UNCHANGED <<width, scale, preferred>>

\* nwl_cairo_renderer_submit.  Until then the application draws the frame.
Submit ==
  /\ ~crashed
  /\ next # NoBuffer
  /\ bm' = Acquire(bm, next)
  /\ prev' = next /\ next' = NoBuffer
  /\ rerender' = rerender \ {next}
  /\ shows' = [i \in Slots |-> IF i = next THEN "last"
                               ELSE IF shows[i] = "last" THEN "older" ELSE shows[i]]
  /\ UNCHANGED <<surfaceVars, crashed>>

\* nwl_shm_bufferman_set_slots, called by the application
ChooseSlots(n) ==
  /\ ~crashed
  /\ SlotsAnyTime \/ bm.geom = NoGeometry
  /\ bm' = SetSlots(bm, n)
  /\ UNCHANGED <<surfaceVars, next, prev, rerender, shows, crashed>>

\* The compositor releases a wl_buffer that still exists.  It never tells when
\* it is done with one that was destroyed.
BufferRelease(i) ==
  /\ ~crashed
  /\ bm.bufs[i].held
  /\ bm' = Release(bm, i)
  /\ UNCHANGED <<surfaceVars, next, prev, rerender, shows, crashed>>

\* nwl_cairo_renderer_finish, and nwl_cairo_renderer_init for another use
FinishRenderer ==
  /\ ~crashed
  /\ bm' = FreshBufferman /\ next' = NoBuffer /\ prev' = NoBuffer
  /\ rerender' = {} /\ shows' = [i \in Slots |-> "junk"]
  /\ UNCHANGED <<surfaceVars, crashed>>

-----------------------------------------------------------------------------
Init ==
  /\ width = 0 /\ scale = 1 /\ preferred = 0 /\ needsApply = FALSE
  /\ bm = FreshBufferman /\ next = NoBuffer /\ prev = NoBuffer
  /\ rerender = {} /\ shows = [i \in Slots |-> "junk"] /\ crashed = FALSE

\* Nothing happens after a crash.
Crashed == crashed /\ UNCHANGED vars

Next ==
  \/ \E w \in Sizes \cup {0} : Configure(w) \/ SetSize(w)
  \/ \E s \in Scales : PreferredScale(s) \/ \E ofParent \in BOOLEAN : OutputsChanged(s, ofParent)
  \/ RoleUnset
  \/ \E copyprevious \in BOOLEAN : GetSurface(copyprevious)
  \/ Submit
  \/ \E n \in 1..MaxBuffers : ChooseSlots(n)
  \/ \E i \in Slots : BufferRelease(i)
  \/ FinishRenderer
  \/ Crashed

Spec == Init /\ [][Next]_vars

-----------------------------------------------------------------------------
TypeOK ==
  /\ width \in Sizes \cup {0} /\ scale \in Scales /\ preferred \in Scales \cup {0}
  /\ needsApply \in BOOLEAN /\ crashed \in BOOLEAN
  /\ bm \in Bufferman
  /\ next \in Slots \cup {NoBuffer} /\ prev \in Slots \cup {NoBuffer}
  /\ rerender \subseteq Slots /\ shows \in [Slots -> {"last", "older", "junk"}]

\* The memory the application draws into is mapped, has the renderer's geometry,
\* and no byte of it is in a buffer the compositor has not released, or still
\* reads through a wl_buffer that a resize destroyed.
DrawsIntoFreeMemory ==
  next # NoBuffer /\ ~crashed =>
    LET f == bm.bufs[next]
    IN  /\ f.made /\ f.mapped /\ ~f.held /\ f.geom = bm.geom
        /\ \A r \in ReadByCompositor(bm) : ~Overlap(f.off, f.geom, r.off, r.geom)

\* The wl_buffers that are not marked for destruction lie side by side in the
\* current file, whichever slots were made before and after it was resized.
SlotsFitPool ==
  ~crashed =>
    \A i \in Current(bm) :
      LET f == bm.bufs[i]
      IN  /\ f.kept /\ f.mapped /\ f.geom = bm.geom
          /\ f.off + Bytes[f.geom] <= bm.size
          /\ \A j \in Current(bm) \ {i} :
               ~Overlap(f.off, f.geom, bm.bufs[j].off, bm.bufs[j].geom)

\* When the application is not told to redraw everything, the buffer it was
\* given shows the frame submitted last, also after releases out of order,
\* resizes and growing slot counts.
ShowsLastFrame ==
  next # NoBuffer /\ ~crashed => next \in rerender \/ shows[next] = "last"

\* nwl_cairo_renderer_get_surface returns NULL only when the compositor holds
\* every buffer there can be.
NullOnlyWhenFull ==
  [][\A c \in BOOLEAN : GetSurface(c) /\ next' = NoBuffer /\ ~crashed'
       => \A i \in Slots : bm'.bufs[i].held]_vars

\* Whenever the renderer's geometry is not that of the surface, the change is
\* still flagged, as long as the scale comes from the outputs.
OutputChangesApplied ==
  ~crashed /\ preferred = 0 /\ bm.geom \notin {NoGeometry, Geometry} => needsApply

\* The same, wherever the scale comes from: `Prefer preferred scale, if set'.
ScaleApplied == ~crashed /\ bm.geom \notin {NoGeometry, Geometry} => needsApply

\* A resize that replaces the shared memory file leaves the bufferman with a
\* pool to make buffers in: `If any buffer is currently used by the compositor
\* create a new shm file instead..'
PoolReady == bm.geom # NoGeometry => bm.open
=============================================================================
