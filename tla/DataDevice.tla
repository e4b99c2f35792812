----------------------------- MODULE DataDevice -----------------------------
(***************************************************************************)
(* The wl_data_device of one seat (src/seat.c): the offer that has just    *)
(* been introduced, until the compositor says whether it is the selection  *)
(* or a drag, the offers of these two, and the surface drag events are     *)
(* sent to.                                                                *)
(***************************************************************************)

CONSTANTS
  Surfaces, NoSurface,
  DndImpl,      \* the surfaces with an impl.dnd
  Offers,       \* object ids of wl_data_offers; an id is used again
  NoOffer,
  Mimes

ASSUME SurfaceAssumption == NoSurface \notin Surfaces /\ DndImpl \subseteq Surfaces
ASSUME OfferAssumption == NoOffer \notin Offers

VARIABLES
  live,        \* the surfaces that exist
  bound,       \* data_device.wl is not NULL
  incoming, drop, selection,   \* struct nwl_data_offer: the offer, its mime types
  dndFocus,    \* data_device.event.focus_surface
  proxies,     \* the wl_data_offer objects of the client
  \* The compositor: the types each offer has told of, the offer that was
  \* introduced and not used yet, the selection, the drag's surface and offer,
  \* and whether it was dropped
  types, introduced, selected, dragAt, dragged, dropped

slots == <<incoming, drop, selection>>
drag  == <<dragAt, dragged, dropped>>
vars  == <<live, bound, slots, dndFocus, proxies, types, introduced, selected, drag>>

-----------------------------------------------------------------------------
Slot   == [offer : Offers \cup {NoOffer}, mimes : SUBSET Mimes]
NoSlot == [offer |-> NoOffer, mimes |-> {}]

\* What a callback on surface f may destroy, the surface a drag is over included
Ended(f) == IF f = NoSurface THEN {{}} ELSE SUBSET live

(* A Bad... definition is a faulty form of the one that follows it. *)
BadFreed(slot) == {}

\* destroy_offer: the objects it ends
Freed(slot) == {slot.offer} \ {NoOffer}

\* destroy_offer, on the slot: wl_array_release leaves the size of the array
Released(slot) == [slot EXCEPT !.offer = NoOffer]

BadMoved(slot) == Released(slot)

\* move_offer, on its source: memset
Moved(slot) == NoSlot

BadExpected(id) == id # NoOffer /\ incoming.offer = id

\* data_device_selection: is it the offer being introduced?  Without either, both
\* are NULL
Expected(id) == incoming.offer = id

\* data_device_enter: focus_surface is set for a surface with impl.dnd only
DragTarget(s, id) == IF s \in DndImpl THEN s ELSE dndFocus

BadDragOffer(id) == IF id = NoOffer \/ drop.offer # NoOffer THEN drop ELSE incoming

\* data_device_enter: the drop slot, whatever was in it
DragOffer(id) == IF id = NoOffer THEN drop ELSE incoming

-----------------------------------------------------------------------------
(* Offers and the selection. *)

\* data_device_offer: the object exists, also when the slot is taken
DataOffer(o) ==
  /\ bound /\ introduced = NoOffer /\ o \notin proxies
  /\ introduced' = o /\ types' = [types EXCEPT ![o] = {}]
  /\ proxies' = proxies \cup {o}
  /\ incoming' = IF incoming.offer = NoOffer THEN [offer |-> o, mimes |-> {}] ELSE incoming
  /\ UNCHANGED <<live, bound, drop, selection, dndFocus, selected, drag>>

\* handle_data_offer_offer
OfferMime(m) ==
  /\ introduced # NoOffer /\ m \notin types[introduced]
  /\ types' = [types EXCEPT ![introduced] = @ \cup {m}]
  /\ incoming' = IF incoming.offer = introduced
                 THEN [incoming EXCEPT !.mimes = @ \cup {m}] ELSE incoming
  /\ UNCHANGED <<live, bound, drop, selection, dndFocus, proxies, introduced, selected, drag>>

\* data_device_selection, of the offer introduced last or of NULL
Selection ==
  /\ bound
  /\ selected' = introduced /\ introduced' = NoOffer
  /\ IF Expected(introduced)
     THEN /\ proxies' = proxies \ Freed(selection)
          /\ selection' = incoming
          /\ incoming' = Moved(incoming)
     ELSE UNCHANGED <<proxies, selection, incoming>>
  /\ UNCHANGED <<live, bound, drop, dndFocus, types, drag>>

-----------------------------------------------------------------------------
(* Drag and drop. *)

\* Where drag events go
Target == IF dndFocus \in DndImpl THEN dndFocus ELSE NoSurface

\* data_device_enter, with the offer introduced last or with NULL, for a surface
\* that still exists
DragEnter(s) ==
  /\ bound /\ dragAt = NoSurface /\ s \in live
  /\ dragAt' = s /\ dragged' = introduced /\ dropped' = FALSE
  /\ introduced' = NoOffer
  /\ IF introduced # NoOffer /\ incoming.offer # introduced
     THEN UNCHANGED <<live, slots, dndFocus, proxies>>
     ELSE /\ proxies' = IF introduced = NoOffer THEN proxies ELSE proxies \ Freed(drop)
          /\ drop' = DragOffer(introduced)
          /\ incoming' = IF introduced = NoOffer THEN incoming ELSE Moved(incoming)
          /\ dndFocus' = DragTarget(s, introduced)
          /\ \E gone \in Ended(IF s \in DndImpl THEN s ELSE NoSurface) : live' = live \ gone
          /\ UNCHANGED selection
  /\ UNCHANGED <<bound, types, selected>>

\* data_device_motion; what a call through a pointer to a surface that is gone
\* does is not modelled
DragMotion ==
  /\ dragAt # NoSurface /\ Target # NoSurface
  /\ UNCHANGED drag
  /\ \E gone \in Ended(Target) : live' = live \ gone
  /\ UNCHANGED <<bound, slots, dndFocus, proxies, types, introduced, selected>>

\* data_device_drop
DragDrop ==
  /\ dragAt # NoSurface /\ ~dropped
  /\ dropped' = TRUE
  /\ UNCHANGED <<dragAt, dragged>>
  /\ \E gone \in Ended(Target) : live' = live \ gone
  /\ UNCHANGED <<bound, slots, dndFocus, proxies, types, introduced, selected>>

\* data_device_leave: the offer goes, focus_surface stays
DragLeave ==
  /\ dragAt # NoSurface
  /\ dragAt' = NoSurface /\ dragged' = NoOffer /\ dropped' = FALSE
  /\ \E gone \in Ended(Target) : live' = live \ gone
  /\ proxies' = proxies \ Freed(drop)
  /\ drop' = IF drop.offer = NoOffer THEN drop ELSE Released(drop)
  /\ UNCHANGED <<bound, incoming, selection, dndFocus, types, introduced, selected>>

\* A drop may end the drag without a leave
DragOver ==
  /\ dropped
  /\ dragAt' = NoSurface /\ dragged' = NoOffer /\ dropped' = FALSE
  /\ UNCHANGED <<live, bound, slots, dndFocus, proxies, types, introduced, selected>>

-----------------------------------------------------------------------------
(* Surfaces and the device itself. *)

\* nwl_surface_init: a new surface may have the address of an old one
SurfaceInit(s) ==
  /\ s \notin live \cup {dragAt}
  /\ live' = live \cup {s}
  /\ UNCHANGED <<bound, slots, dndFocus, proxies, types, introduced, selected, drag>>

\* nwl_surface_destroy: nwl_seat_clear_focus leaves focus_surface alone
SurfaceDestroy(s) ==
  /\ s \in live
  /\ live' = live \ {s}
  /\ UNCHANGED <<bound, slots, dndFocus, proxies, types, introduced, selected, drag>>

\* nwl_seat_init with a data device manager, nwl_seat_add_data_device
SeatInit ==
  /\ ~bound /\ bound' = TRUE
  /\ UNCHANGED <<live, slots, dndFocus, proxies, types, introduced, selected, drag>>

\* nwl_seat_deinit, and the memset of the next nwl_seat_init
SeatDeinit ==
  /\ bound /\ bound' = FALSE
  /\ proxies' = proxies \ (Freed(drop) \cup Freed(incoming) \cup Freed(selection))
  /\ incoming' = NoSlot /\ drop' = NoSlot /\ selection' = NoSlot
  /\ dndFocus' = NoSurface
  /\ introduced' = NoOffer /\ selected' = NoOffer
  /\ dragAt' = NoSurface /\ dragged' = NoOffer /\ dropped' = FALSE
  /\ UNCHANGED <<live, types>>

-----------------------------------------------------------------------------
Init ==
  /\ live = {} /\ bound = FALSE
  /\ incoming = NoSlot /\ drop = NoSlot /\ selection = NoSlot
  /\ dndFocus = NoSurface /\ proxies = {}
  /\ types = [o \in Offers |-> {}] /\ introduced = NoOffer /\ selected = NoOffer
  /\ dragAt = NoSurface /\ dragged = NoOffer /\ dropped = FALSE

Next ==
  \/ \E o \in Offers : DataOffer(o)
  \/ \E m \in Mimes : OfferMime(m)
  \/ Selection
  \/ \E s \in Surfaces : DragEnter(s) \/ SurfaceInit(s) \/ SurfaceDestroy(s)
  \/ DragMotion \/ DragDrop \/ DragLeave \/ DragOver
  \/ SeatInit \/ SeatDeinit

Spec == Init /\ [][Next]_vars

-----------------------------------------------------------------------------
\* Every variable keeps its type; a slot whose offer moved on holds no mime types
\* that a later offer would seem to have.
TypeOK ==
  /\ live \subseteq Surfaces /\ bound \in BOOLEAN
  /\ {incoming, drop, selection} \subseteq Slot
  /\ incoming.offer = NoOffer => incoming.mimes = {}
  /\ {dndFocus, dragAt} \subseteq Surfaces \cup {NoSurface}
  /\ proxies \subseteq Offers /\ types \in [Offers -> SUBSET Mimes]
  /\ {introduced, selected, dragged} \subseteq Offers \cup {NoOffer}
  /\ dropped \in BOOLEAN

\* Each wl_data_offer the compositor ever introduced is owned by exactly one slot
\* until it is destroyed: none leaks and none is destroyed twice, however drops,
\* leaves, new selections and the end of the seat follow one another.
OffersOwned ==
  /\ proxies = Freed(incoming) \cup Freed(drop) \cup Freed(selection)
  /\ \A o \in Offers :
       /\ ~(incoming.offer = o /\ drop.offer = o)
       /\ ~(incoming.offer = o /\ selection.offer = o)
       /\ ~(drop.offer = o /\ selection.offer = o)

\* The selection the application can read is the compositor's last one, with all
\* the types it was offered in, and there is none after the compositor withdrew
\* it, whatever drags came between.
SelectionKnown ==
  IF selected = NoOffer THEN selection = NoSlot
  ELSE selection = [offer |-> selected, mimes |-> types[selected]]

\* During a drag with an offer the drop slot holds that offer and its types, also
\* when an earlier drag ended without a leave.
DropKnown == dragged # NoOffer => drop = [offer |-> dragged, mimes |-> types[dragged]]

\* A destroyed surface is the target of no drag event: `clear any focuses' in
\* nwl_surface_destroy.
DragTargetLive == dragAt # NoSurface => dndFocus \in live \cup {NoSurface}
=============================================================================
