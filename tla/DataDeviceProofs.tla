-------------------------- MODULE DataDeviceProofs --------------------------
EXTENDS DataDevice, TLAPS

\* The slot of the offer being introduced follows what the compositor says of it
IncomingKnown ==
  incoming = IF introduced = NoOffer THEN NoSlot
             ELSE [offer |-> introduced, mimes |-> types[introduced]]

IInv == TypeOK /\ OffersOwned /\ IncomingKnown /\ SelectionKnown /\ DropKnown

LEMMA SlotFacts ==
  /\ NoSlot \in Slot
  /\ \A a \in Slot : /\ a.offer \in Offers \cup {NoOffer} /\ a.mimes \in SUBSET Mimes
                     /\ Released(a) \in Slot /\ Released(a).offer = NoOffer
  /\ \A o \in Offers \cup {NoOffer}, ms \in SUBSET Mimes :
       [offer |-> o, mimes |-> ms] \in Slot
  BY DEF Slot, NoSlot, Released

\* What IInv says of the offers, as the slots' offers alone
LEMMA OwnersOf ==
  ASSUME IInv
  PROVE  /\ incoming.offer = introduced /\ introduced \in Offers \cup {NoOffer}
         /\ selection.offer = selected /\ selected \in Offers \cup {NoOffer}
         /\ dragged # NoOffer => drop.offer = dragged /\ dragged \in Offers
         /\ \A o \in {incoming.offer, drop.offer, selection.offer} \ {NoOffer} :
              o \in proxies /\ o \in Offers
  BY OfferAssumption
  DEF IInv, TypeOK, IncomingKnown, SelectionKnown, DropKnown, OffersOwned, Freed, NoSlot, Slot

LEMMA EndedIsLive == ASSUME NEW f, NEW gone \in Ended(f) PROVE gone \in SUBSET live
  BY DEF Ended

\* The part of IInv that relates slots, proxies and the compositor
OffersInv == OffersOwned /\ IncomingKnown /\ SelectionKnown /\ DropKnown

LEMMA TypeStep == ASSUME IInv, [Next]_vars PROVE TypeOK'
<1>1. TypeOK BY DEF IInv
<1> USE SurfaceAssumption, OfferAssumption, SlotFacts, <1>1 DEF TypeOK
<1>2. ASSUME NEW o \in Offers, DataOffer(o) PROVE TypeOK'
  BY <1>2 DEF DataOffer, drag
<1>3. ASSUME NEW m \in Mimes, OfferMime(m) PROVE TypeOK'
  <2>1. introduced \in Offers /\ incoming.offer = introduced
    BY <1>3, OwnersOf DEF OfferMime
  <2>2. incoming' \in Slot /\ incoming'.offer # NoOffer
    BY <1>3, <2>1 DEF OfferMime, Slot
  <2> QED BY <1>3, <2>1, <2>2 DEF OfferMime, drag
<1>4. CASE Selection
  BY <1>4 DEF Selection, Moved, NoSlot, drag
<1>5. ASSUME NEW s \in Surfaces, DragEnter(s) PROVE TypeOK'
  <2>1. live' \subseteq Surfaces BY <1>5, EndedIsLive DEF DragEnter
  <2>2. /\ {incoming', drop', selection'} \subseteq Slot
        /\ incoming'.offer = NoOffer => incoming'.mimes = {}
        /\ dndFocus' \in Surfaces \cup {NoSurface} /\ proxies' \subseteq Offers
    BY <1>5 DEF DragEnter, DragOffer, DragTarget, Moved, NoSlot, slots
  <2> QED BY <1>5, <2>1, <2>2 DEF DragEnter
<1>6. CASE DragMotion BY <1>6, EndedIsLive DEF DragMotion, drag, slots
<1>7. CASE DragDrop BY <1>7, EndedIsLive DEF DragDrop, slots
<1>8. CASE DragLeave
  <2>1. live' \subseteq Surfaces BY <1>8, EndedIsLive DEF DragLeave
  <2>2. drop' \in Slot BY <1>8 DEF DragLeave
  <2> QED BY <1>8, <2>1, <2>2 DEF DragLeave
<1>9. CASE DragOver BY <1>9 DEF DragOver, slots
<1>10. ASSUME NEW s \in Surfaces, SurfaceInit(s) \/ SurfaceDestroy(s) PROVE TypeOK'
  BY <1>10 DEF SurfaceInit, SurfaceDestroy, drag, slots
<1>11. CASE SeatInit BY <1>11 DEF SeatInit, drag, slots
<1>12. CASE SeatDeinit BY <1>12 DEF SeatDeinit, NoSlot
<1>13. CASE UNCHANGED vars BY <1>13 DEF vars, drag, slots
<1> QED
  BY <1>2, <1>3, <1>4, <1>5, <1>6, <1>7, <1>8, <1>9, <1>10, <1>11, <1>12, <1>13 DEF Next

LEMMA OffersStep == ASSUME IInv, [Next]_vars PROVE OffersInv'
<1> USE OfferAssumption DEF OffersInv
<1>1. /\ OffersInv /\ TypeOK
      /\ {incoming.offer, drop.offer, selection.offer} \subseteq Offers \cup {NoOffer}
  BY SlotFacts DEF IInv, TypeOK
<1>2. ASSUME UNCHANGED <<slots, proxies, types, introduced, selected>>,
             dragged' = dragged \/ dragged' = NoOffer
      PROVE  OffersInv'
  BY <1>1, <1>2 DEF OffersOwned, IncomingKnown, SelectionKnown, DropKnown, slots
<1>3. ASSUME NEW o \in Offers, DataOffer(o) PROVE OffersInv'
  <2>1. /\ introduced = NoOffer /\ incoming.offer = NoOffer /\ o # NoOffer
        /\ o # drop.offer /\ o # selection.offer /\ o # selected /\ o # dragged
    BY <1>3, OwnersOf DEF DataOffer
  <2>2. incoming' = [offer |-> o, mimes |-> {}] /\ incoming'.offer = o
    BY <1>3, <2>1 DEF DataOffer
  <2>3. types'[o] = {} /\ \A x \in Offers \ {o} : types'[x] = types[x]
    BY <1>1, <1>3 DEF DataOffer, TypeOK
  <2>4. OffersOwned'
    BY <1>1, <1>3, <2>1, <2>2 DEF DataOffer, OffersOwned, Freed
  <2>5. IncomingKnown' BY <1>3, <2>1, <2>2, <2>3 DEF DataOffer, IncomingKnown
  <2>6. SelectionKnown' /\ DropKnown'
    BY <1>1, <1>3, <2>1, <2>3, OwnersOf DEF DataOffer, SelectionKnown, DropKnown, drag
  <2> QED BY <2>4, <2>5, <2>6
<1>4. ASSUME NEW m \in Mimes, OfferMime(m) PROVE OffersInv'
  <2> DEFINE o == introduced
  <2>1. /\ o \in Offers /\ o # NoOffer /\ incoming.offer = o
        /\ incoming = [offer |-> o, mimes |-> types[o]]
        /\ o # drop.offer /\ o # selection.offer /\ o # selected /\ o # dragged
    BY <1>1, <1>4, OwnersOf DEF OfferMime, OffersOwned, IncomingKnown
  <2>2. /\ types'[o] = types[o] \cup {m} /\ \A x \in Offers \ {o} : types'[x] = types[x]
        /\ incoming' = [offer |-> o, mimes |-> types[o] \cup {m}] /\ incoming'.offer = o
    BY <1>1, <1>4, <2>1 DEF OfferMime, TypeOK
  <2>3. OffersOwned' BY <1>1, <1>4, <2>1, <2>2 DEF OfferMime, OffersOwned, Freed
  <2>4. IncomingKnown' BY <1>4, <2>1, <2>2 DEF OfferMime, IncomingKnown
  <2>5. SelectionKnown' /\ DropKnown'
    BY <1>1, <1>4, <2>1, <2>2, OwnersOf DEF OfferMime, SelectionKnown, DropKnown, drag
  <2> QED BY <2>3, <2>4, <2>5
<1>5. CASE Selection
  <2>1. /\ Expected(introduced)
        /\ proxies' = proxies \ Freed(selection)
        /\ selection' = incoming /\ incoming' = NoSlot
        /\ selected' = introduced /\ introduced' = NoOffer
        /\ UNCHANGED <<drop, types, dragged>>
    BY <1>5, OwnersOf DEF Selection, Expected, Moved, drag
  <2>2. OffersOwned' BY <1>1, <2>1 DEF OffersOwned, Freed, NoSlot
  <2>3. IncomingKnown' /\ SelectionKnown' /\ DropKnown'
    BY <1>1, <2>1 DEF IncomingKnown, SelectionKnown, DropKnown
  <2> QED BY <2>2, <2>3
<1>6. ASSUME NEW s \in Surfaces, DragEnter(s) PROVE OffersInv'
  <2>1. /\ incoming.offer = introduced /\ dragged' = introduced /\ introduced' = NoOffer
        /\ UNCHANGED <<selection, selected, types>>
    BY <1>6, OwnersOf DEF DragEnter, slots
  <2>2. CASE introduced = NoOffer
    <3>1. UNCHANGED <<slots, proxies>> /\ introduced' = introduced
      BY <1>6, <2>1, <2>2 DEF DragEnter, DragOffer, slots
    <3> QED BY <1>2, <2>1, <2>2, <3>1
  <2>3. CASE introduced # NoOffer
    <3>1. drop' = incoming /\ incoming' = NoSlot /\ proxies' = proxies \ Freed(drop)
      BY <1>6, <2>1, <2>3 DEF DragEnter, DragOffer, Moved
    <3>2. OffersOwned' BY <1>1, <2>1, <3>1 DEF OffersOwned, Freed, NoSlot
    <3>3. IncomingKnown' /\ SelectionKnown' /\ DropKnown'
      BY <1>1, <2>1, <2>3, <3>1 DEF IncomingKnown, SelectionKnown, DropKnown
    <3> QED BY <3>2, <3>3
  <2> QED BY <2>2, <2>3
<1>7. CASE DragMotion \/ DragDrop BY <1>2, <1>7 DEF DragMotion, DragDrop, drag
<1>8. CASE DragLeave
  <2>1. /\ drop'.offer = NoOffer /\ dragged' = NoOffer /\ proxies' = proxies \ Freed(drop)
        /\ UNCHANGED <<incoming, selection, types, introduced, selected>>
    BY <1>1, <1>8, SlotFacts DEF DragLeave, TypeOK
  <2>2. OffersOwned' BY <1>1, <2>1 DEF OffersOwned, Freed
  <2>3. IncomingKnown' /\ SelectionKnown' /\ DropKnown'
    BY <1>1, <2>1 DEF IncomingKnown, SelectionKnown, DropKnown
  <2> QED BY <2>2, <2>3
<1>9. CASE DragOver BY <1>2, <1>9 DEF DragOver
<1>10. ASSUME NEW s \in Surfaces, SurfaceInit(s) \/ SurfaceDestroy(s) PROVE OffersInv'
  BY <1>2, <1>10 DEF SurfaceInit, SurfaceDestroy, drag
<1>11. CASE SeatInit \/ UNCHANGED vars BY <1>2, <1>11 DEF SeatInit, vars, drag
<1>12. CASE SeatDeinit
  BY <1>1, <1>12
  DEF SeatDeinit, OffersOwned, Freed, NoSlot, IncomingKnown, SelectionKnown, DropKnown
<1> QED
  BY <1>3, <1>4, <1>5, <1>6, <1>7, <1>8, <1>9, <1>10, <1>11, <1>12 DEF Next

LEMMA Invariance == Spec => []IInv
<1>1. Init => IInv
  <2> SUFFICES ASSUME Init PROVE IInv
    OBVIOUS
  <2>1. incoming = NoSlot /\ drop = NoSlot /\ selection = NoSlot BY DEF Init
  <2>2. NoSlot.offer = NoOffer /\ NoSlot.mimes = {} BY DEF NoSlot
  <2>3. TypeOK BY <2>1, <2>2, SlotFacts DEF Init, TypeOK
  <2>4. OffersOwned BY <2>1, <2>2, OfferAssumption DEF Init, OffersOwned, Freed
  <2> QED BY <2>1, <2>3, <2>4 DEF Init, IInv, IncomingKnown, SelectionKnown, DropKnown
<1>2. IInv /\ [Next]_vars => IInv'
  BY TypeStep, OffersStep DEF OffersInv, IInv
<1> QED BY <1>1, <1>2, PTL DEF Spec

\* Slots hold offers that exist or none, whatever the compositor sends and whenever
\* the seat ends, and the incoming slot keeps no types of an offer it gave up.
THEOREM SlotTypes == Spec => []TypeOK
<1>1. IInv => TypeOK BY DEF IInv
<1> QED BY <1>1, Invariance, PTL

\* Every wl_data_offer is in one slot until destroy_offer ends it: none leaks and
\* none is destroyed twice, over any number of offers, drags and selections.
THEOREM NoOfferLeaks == Spec => []OffersOwned
<1>1. IInv => OffersOwned BY DEF IInv
<1> QED BY <1>1, Invariance, PTL

\* data_device.selection is the compositor's, with exactly the types that were
\* offered, also when drags come between and when it is withdrawn.
THEOREM SelectionIsKnown == Spec => []SelectionKnown
<1>1. IInv => SelectionKnown BY DEF IInv
<1> QED BY <1>1, Invariance, PTL

\* data_device.drop is the offer of the drag under way, also when the drag before
\* it was dropped and never left.
THEOREM DropIsKnown == Spec => []DropKnown
<1>1. IInv => DropKnown BY DEF IInv
<1> QED BY <1>1, Invariance, PTL

-----------------------------------------------------------------------------
(* Where drag events go.  A surface without impl.dnd leaves focus_surface as it *)
(* was, and so does every leave.                                               *)

\* A drag over a surface that handles it is told to that surface
FollowInv == dragAt \in DndImpl => dndFocus = dragAt

LEMMA FollowStep == ASSUME IInv, FollowInv, [Next]_vars PROVE FollowInv'
<1> USE SurfaceAssumption DEF FollowInv
<1>1. ASSUME UNCHANGED <<dragAt, dndFocus>> PROVE FollowInv' BY <1>1
<1>2. ASSUME NEW s \in Surfaces, DragEnter(s) PROVE FollowInv'
  <2>1. incoming.offer = introduced BY OwnersOf
  <2>2. dndFocus' = DragTarget(s, introduced) /\ dragAt' = s BY <1>2, <2>1 DEF DragEnter
  <2> QED BY <2>2 DEF DragTarget
<1>3. CASE DragLeave \/ DragOver \/ SeatDeinit
  BY <1>3 DEF DragLeave, DragOver, SeatDeinit
<1>4. CASE Selection \/ SeatInit \/ DragMotion \/ DragDrop \/ UNCHANGED vars
  BY <1>1, <1>4 DEF Selection, SeatInit, DragMotion, DragDrop, vars, drag
<1>5. CASE \/ \E o \in Offers : DataOffer(o)
           \/ \E m \in Mimes : OfferMime(m)
           \/ \E s \in Surfaces : SurfaceInit(s) \/ SurfaceDestroy(s)
  BY <1>1, <1>5 DEF DataOffer, OfferMime, SurfaceInit, SurfaceDestroy, drag
<1> QED BY <1>2, <1>3, <1>4, <1>5 DEF Next

\* Whatever the application handles or destroys: over a surface with impl.dnd,
\* focus_surface is that surface, however stale it was before the enter.  (Over one
\* without, it is the surface with impl.dnd that was entered last, if any.)
THEOREM DragFollows == Spec => []FollowInv
<1>1. Init => FollowInv BY SurfaceAssumption DEF Init, FollowInv
<1>2. IInv /\ FollowInv /\ [Next]_vars => FollowInv' BY FollowStep
<1> QED BY <1>1, <1>2, Invariance, PTL DEF Spec
=============================================================================
