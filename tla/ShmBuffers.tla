----------------------------- MODULE ShmBuffers -----------------------------
(***************************************************************************)
(* struct nwl_shm_bufferman (src/shm.c) as a value: one shared memory pool *)
(* cut into slots, each slot's wl_buffer made on demand, and all of them   *)
(* marked for replacement when the pool is resized.                        *)
(*                                                                         *)
(* Besides the struct's own fields the value holds what the compositor     *)
(* does with the memory: which wl_buffers it has not released, and which   *)
(* parts of the current file it still reads through wl_buffers that are    *)
(* already destroyed.                                                      *)
(***************************************************************************)
EXTENDS Integers, FiniteSets

CONSTANTS
  Geometries,   \* what width, height, stride and format together may be
  NoGeometry,   \* the zero stride of a fresh bufferman
  Bytes,        \* stride * height of a geometry
  Spare,        \* stride * 30: `some extra so if the surface grows slightly
                \* the pool can be reused'
  ShrinkLimit,  \* 512 * 1024: a pool larger than needed by more is replaced
  MaxBuffers    \* NWL_SHM_BUFFERMAN_MAX_BUFFERS

ASSUME GeometryAssumption ==
  /\ NoGeometry \notin Geometries
  /\ Bytes \in [Geometries -> Nat \ {0}] /\ Spare \in [Geometries -> Nat \ {0}]
ASSUME LimitAssumption == ShrinkLimit \in Nat /\ MaxBuffers \in Nat \ {0}

Slots    == 0..(MaxBuffers - 1)
NoBuffer == -1

\* struct nwl_shm_buffer, with `held' for what its ACQUIRED flag should say,
\* `mapped' when bufferdata points into pool.data as it is mapped now, and
\* `kept' when its memory is in the file the pool has now
NoShmBuffer ==
  [made |-> FALSE, acquired |-> FALSE, doomed |-> FALSE, held |-> FALSE,
   mapped |-> FALSE, kept |-> FALSE, off |-> 0, geom |-> NoGeometry]

Buffers ==
  [made : BOOLEAN, acquired : BOOLEAN, doomed : BOOLEAN, held : BOOLEAN,
   mapped : BOOLEAN, kept : BOOLEAN, off : Nat, geom : Geometries \cup {NoGeometry}]

Regions == [off : Nat, geom : Geometries \cup {NoGeometry}]

Bufferman ==
  [open : BOOLEAN, size : Nat, slots : 1..MaxBuffers, geom : Geometries \cup {NoGeometry},
   bufs : [Slots -> Buffers], orphans : SUBSET Regions]

\* nwl_shm_bufferman_init
FreshBufferman ==
  [open |-> FALSE, size |-> 0, slots |-> 1, geom |-> NoGeometry,
   bufs |-> [i \in Slots |-> NoShmBuffer], orphans |-> {}]

-----------------------------------------------------------------------------
(* A Bad... definition is a faulty form of the one that follows it. *)

\* nwl_shm_pool_finish: a closed file is no longer anyone's memory but the
\* compositor's.  pool.size is not reset.
PoolFinish(b) ==
  IF ~b.open THEN b
  ELSE [b EXCEPT !.open = FALSE, !.orphans = {},
          !.bufs = [i \in Slots |-> [b.bufs[i] EXCEPT !.mapped = FALSE, !.kept = FALSE]]]

\* nwl_shm_set_size: a new file, or the same file truncated and mapped again
PoolSetSize(b, n) ==
  IF b.size = n THEN b
  ELSE [b EXCEPT !.open = TRUE, !.size = n,
          !.bufs = [i \in Slots |-> [b.bufs[i] EXCEPT !.mapped = FALSE]]]

BadInUse(b) == b.bufs[0].acquired

InUse(b) == \E i \in Slots : b.bufs[i].acquired

\* whether nwl_shm_bufferman_resize replaces the pool
Refits(b, need) == InUse(b) \/ need > b.size \/ need < b.size - ShrinkLimit

BadMarked(b) ==
  [i \in Slots |-> IF b.bufs[i].acquired THEN [b.bufs[i] EXCEPT !.doomed = TRUE] ELSE b.bufs[i]]

\* every buffer gets NWL_SHM_BUFFER_DESTROY
Marked(b) == [i \in Slots |-> [b.bufs[i] EXCEPT !.doomed = TRUE]]

\* nwl_shm_bufferman_resize
Resize(b, g) ==
  LET need    == Bytes[g] * b.slots
      marked  == [b EXCEPT !.bufs = Marked(b)]
      cleared == IF InUse(b) THEN PoolFinish(marked) ELSE marked
      fitted  == IF Refits(b, need) THEN PoolSetSize(cleared, need + Spare[g]) ELSE marked
  IN  [fitted EXCEPT !.geom = g]

\* nwl_shm_bufferman_set_slots
SetSlots(b, n) ==
  LET k == IF n < 1 THEN 1 ELSE IF n > MaxBuffers THEN MaxBuffers ELSE n
  IN  IF k = b.slots THEN b
      ELSE IF b.geom = NoGeometry THEN [b EXCEPT !.slots = k]
      ELSE Resize([b EXCEPT !.slots = k], b.geom)

\* the wl_buffer of slot i can be handed out as it is
Reusable(b, i) == b.bufs[i].made /\ ~b.bufs[i].doomed /\ ~b.bufs[i].acquired

\* try_check_buffer returns false
Busy(b, i) == b.bufs[i].made /\ ~b.bufs[i].doomed /\ b.bufs[i].acquired

\* the slot nwl_shm_bufferman_get_next returns: the first that is not busy
NextSlot(b) ==
  IF \A i \in 0..(b.slots - 1) : Busy(b, i) THEN NoBuffer
  ELSE CHOOSE i \in 0..(b.slots - 1) : ~Busy(b, i) /\ \A j \in 0..(i - 1) : Busy(b, j)

BadOffset(b, i) == (b.size \div b.slots) * (i - 1)

\* where the memory of slot i starts
Offset(b, i) == (b.size \div b.slots) * i

\* What try_check_buffer does to the slot it hands out: a buffer marked for
\* destruction is destroyed even when the compositor holds it, and a missing
\* one is made in the pool.
Take(b, i) ==
  IF Reusable(b, i) THEN b
  ELSE [b EXCEPT
          !.orphans = @ \cup {r \in {[off |-> b.bufs[i].off, geom |-> b.bufs[i].geom]} :
                                b.bufs[i].held /\ b.bufs[i].kept},
          !.bufs[i] = [made |-> TRUE, acquired |-> FALSE, doomed |-> FALSE, held |-> FALSE,
                       mapped |-> b.open, kept |-> b.open,
                       off |-> Offset(b, i), geom |-> b.geom]]

\* wl_surface.attach and the ACQUIRED flag of nwl_cairo_renderer_submit
Acquire(b, i) == [b EXCEPT !.bufs[i].acquired = TRUE, !.bufs[i].held = TRUE]

\* handle_buffer_release
Release(b, i) == [b EXCEPT !.bufs[i].acquired = FALSE, !.bufs[i].held = FALSE]

-----------------------------------------------------------------------------
Overlap(off1, g1, off2, g2) ==
  off1 < off2 + Bytes[g2] /\ off2 < off1 + Bytes[g1]

\* Buffers that may be handed out without being made again
Current(b) == {i \in 0..(b.slots - 1) : b.bufs[i].made /\ ~b.bufs[i].doomed}

\* the parts of the current file the compositor may read
ReadByCompositor(b) ==
  b.orphans \cup {[off |-> b.bufs[i].off, geom |-> b.bufs[i].geom] :
                    i \in {j \in Slots : b.bufs[j].held /\ b.bufs[j].kept}}
=============================================================================
