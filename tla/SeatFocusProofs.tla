-------------------------- MODULE SeatFocusProofs --------------------------
EXTENDS SeatFocus, TLAPS

-----------------------------------------------------------------------------
(* A seat points only at surfaces that exist, whatever the compositor does. *)

LiveInv == live \subseteq Surfaces /\ FocusLive

LEMMA DestroyedKeepsLive ==
  ASSUME LiveInv, NEW gone, NEW focus \in live \cup {NoSurface}, NEW tk, NEW tp,
         Destroyed(gone, focus, tk, tp)
  PROVE  live' \subseteq Surfaces /\ keyboardFocus' \in live' \cup {NoSurface}
  BY SurfaceAssumption DEF LiveInv, FocusLive, Destroyed, Forget

LEMMA ClearedKeepsLive ==
  ASSUME LiveInv, NEW gone, NEW focus, NEW tk, NEW tp,
         Destroyed(gone, focus, tk, tp), PointerCleared(gone)
  PROVE  {pointerFocus', prevFocus'} \subseteq live' \cup {NoSurface}
  BY SurfaceAssumption DEF LiveInv, FocusLive, Destroyed, PointerCleared, Forget

\* No step, of the application, of the compositor or inside a callback, leaves a
\* focus on a surface that is gone.
LEMMA LiveStep == LiveInv /\ [Next]_vars => LiveInv'
<1> SUFFICES ASSUME LiveInv, [Next]_vars PROVE LiveInv'
  OBVIOUS
<1> USE SurfaceAssumption
<1>1. ASSUME NEW s \in Surfaces, KeyboardEnter(s) PROVE LiveInv'
  BY <1>1, DestroyedKeepsLive, ClearedKeepsLive DEF KeyboardEnter, LiveInv, FocusLive
<1>2. CASE KeyboardLeave
  BY <1>2, DestroyedKeepsLive, ClearedKeepsLive
  DEF KeyboardLeave, LiveInv, FocusLive
<1>3. CASE KeyboardInput
  BY <1>3, DestroyedKeepsLive, ClearedKeepsLive DEF KeyboardInput, LiveInv, FocusLive
<1>4. ASSUME NEW s \in Surfaces, PointerEnter(s) PROVE LiveInv'
  BY <1>4 DEF PointerEnter, keyboardVars, LiveInv, FocusLive
<1>5. CASE PointerLeave BY <1>5 DEF PointerLeave, keyboardVars, LiveInv, FocusLive
<1>6. ASSUME NEW code \in ButtonCodes, NEW down \in BOOLEAN, PointerButton(code, down)
      PROVE  LiveInv'
  BY <1>6 DEF PointerButton, keyboardVars, LiveInv, FocusLive
<1>7. CASE PointerFrame
  <2>1. PICK gone \in Ended(FrameTarget) :
          /\ Destroyed(gone, keyboardFocus, keyboardTold, ToldByFrame)
          /\ \/ PointerCleared(gone)
             \/ pointerFocus' = NoSurface /\ prevFocus' = FocusLeft(gone)
    BY <1>7 DEF PointerFrame
  <2>2. FocusLeft(gone) \in live' \cup {NoSurface}
    BY <2>1 DEF FocusLeft, Forget, Destroyed, LiveInv, FocusLive
  <2> QED BY <2>1, <2>2, DestroyedKeepsLive, ClearedKeepsLive DEF LiveInv, FocusLive
<1>8. CASE StartDrag BY <1>8 DEF StartDrag, keyboardVars, LiveInv, FocusLive
<1>9. ASSUME NEW s \in Surfaces, SurfaceInit(s) PROVE LiveInv'
  BY <1>9 DEF SurfaceInit, keyboardVars, LiveInv, FocusLive
<1>10. ASSUME NEW s \in Surfaces, SurfaceDestroy(s) PROVE LiveInv'
  BY <1>10, DestroyedKeepsLive, ClearedKeepsLive DEF SurfaceDestroy, LiveInv, FocusLive
<1>11. CASE CompositorForgets BY <1>11 DEF CompositorForgets, LiveInv, FocusLive
<1>12. ASSUME NEW k \in BOOLEAN, NEW p \in BOOLEAN, Capabilities(k, p) PROVE LiveInv'
  BY <1>12 DEF Capabilities, LiveInv, FocusLive
<1>13. CASE SeatInit BY <1>13 DEF SeatInit, Zeroed, LiveInv, FocusLive
<1>14. CASE SeatDeinit BY <1>14 DEF SeatDeinit, Zeroed, LiveInv, FocusLive
<1>15. CASE UNCHANGED vars BY <1>15 DEF vars, keyboardVars, LiveInv, FocusLive
<1> QED
  BY <1>1, <1>2, <1>3, <1>4, <1>5, <1>6, <1>7, <1>8, <1>9, <1>10, <1>11, <1>12, <1>13,
     <1>14, <1>15 DEF Next

\* The keyboard focus, the pointer focus and the previous one are never pointers
\* to destroyed surfaces: nwl_seat_clear_focus and the handlers that run
\* callbacks agree on it, also when a capability goes without a leave and when a
\* frame is about several surfaces.
THEOREM FocusIsLive == Spec => []FocusLive
<1>1. Init => LiveInv BY DEF Init, LiveInv, FocusLive
<1>2. LiveInv /\ [Next]_vars => LiveInv' BY LiveStep
<1>3. LiveInv => FocusLive BY DEF LiveInv
<1> QED BY <1>1, <1>2, <1>3, PTL DEF Spec

-----------------------------------------------------------------------------
(* Types. *)

LEMMA TypeStep == ASSUME TypeOK, [Next]_vars PROVE TypeOK'
<1> USE SurfaceAssumption, ButtonAssumption DEF TypeOK, Pointers, history
<1>1. ASSUME NEW gone, NEW focus \in Pointers, NEW tk \in SUBSET Surfaces,
             NEW tp \in SUBSET Surfaces, Destroyed(gone, focus, tk, tp)
      PROVE  /\ live' \subseteq Surfaces /\ keyboardFocus' \in Pointers
             /\ keyboardTold' \subseteq Surfaces /\ pointerTold' \subseteq Surfaces
             /\ leftLast' \in Pointers /\ overtaken' \subseteq overtaken
  BY <1>1 DEF Destroyed, Forget
<1>2. ASSUME NEW gone, PointerCleared(gone)
      PROVE  {pointerFocus', prevFocus'} \subseteq Pointers /\ buttons' \subseteq Buttons
  BY <1>2 DEF PointerCleared, Forget, ButtonsKept
<1>3. ASSUME NEW s \in Surfaces, KeyboardEnter(s) PROVE TypeOK'
  <2>1. CASE s \in live
    <3>1. PICK gone : Destroyed(gone, s, keyboardTold \cup {s}, pointerTold)
                      /\ PointerCleared(gone)
      BY <1>3, <2>1 DEF KeyboardEnter
    <3> QED BY <1>1, <1>2, <1>3, <3>1 DEF KeyboardEnter, devices, event
  <2>2. CASE s \notin live BY <1>3, <2>2 DEF KeyboardEnter, devices, event, told
  <2> QED BY <2>1, <2>2
<1>4. CASE KeyboardLeave
  BY <1>1, <1>2, <1>4 DEF KeyboardLeave, devices, event
<1>5. CASE KeyboardInput BY <1>1, <1>2, <1>5 DEF KeyboardInput, devices, event
<1>6. ASSUME NEW s \in Surfaces, PointerEnter(s) PROVE TypeOK'
  BY <1>6 DEF PointerEnter, ButtonsOnEnter, devices, event, keyboardVars
<1>7. CASE PointerLeave BY <1>7 DEF PointerLeave, Forget, devices, event, keyboardVars
<1>8. ASSUME NEW code \in ButtonCodes, NEW down \in BOOLEAN, PointerButton(code, down)
      PROVE  TypeOK'
  BY <1>8 DEF PointerButton, Known, devices, event, keyboardVars
<1>9. CASE PointerFrame
  <2>1. ToldByFrame \in SUBSET Surfaces BY DEF ToldByFrame, FrameTarget
  <2>2. PICK gone \in Ended(FrameTarget) :
          /\ Destroyed(gone, keyboardFocus, keyboardTold, ToldByFrame)
          /\ \/ PointerCleared(gone)
             \/ /\ pointerFocus' = NoSurface /\ prevFocus' = FocusLeft(gone)
                /\ buttons' = ButtonsKept(gone)
    BY <1>9 DEF PointerFrame
  <2>3. {pointerFocus', prevFocus'} \subseteq Pointers /\ buttons' \subseteq Buttons
    BY <1>2, <2>2 DEF FocusLeft, Forget, ButtonsKept
  <2> QED BY <1>1, <1>9, <2>1, <2>2, <2>3 DEF PointerFrame, devices
<1>10. CASE StartDrag BY <1>10 DEF StartDrag, devices, event, keyboardVars, pointing
<1>11. ASSUME NEW s \in Surfaces, SurfaceInit(s) PROVE TypeOK'
  BY <1>11 DEF SurfaceInit, devices, event, keyboardVars, pointing
<1>12. ASSUME NEW s \in Surfaces, SurfaceDestroy(s) PROVE TypeOK'
  BY <1>1, <1>2, <1>12 DEF SurfaceDestroy, devices, event
<1>13. CASE CompositorForgets
  BY <1>13 DEF CompositorForgets, Forget, devices, event, told
<1>14. ASSUME NEW k \in BOOLEAN, NEW p \in BOOLEAN, Capabilities(k, p) PROVE TypeOK'
  BY <1>14 DEF Capabilities, event, told
<1>15. CASE SeatInit BY <1>15 DEF SeatInit, Zeroed
<1>16. CASE SeatDeinit BY <1>16 DEF SeatDeinit, Zeroed
<1>17. CASE UNCHANGED vars
  BY <1>17 DEF vars, devices, event, keyboardVars, pointing
<1> QED
  BY <1>3, <1>4, <1>5, <1>6, <1>7, <1>8, <1>9, <1>10, <1>11, <1>12, <1>13, <1>14, <1>15,
     <1>16, <1>17 DEF Next

\* The pointer's button mask holds nothing but buttons nwl names, and every focus
\* is a surface or NULL.
THEOREM SeatTypes == Spec => []TypeOK
<1>1. Init => TypeOK BY DEF Init, TypeOK, Pointers
<1>2. TypeOK /\ [Next]_vars => TypeOK' BY TypeStep
<1> QED BY <1>1, <1>2, PTL DEF Spec

-----------------------------------------------------------------------------
(* What the compositor promises: it leaves a surface before it withdraws a     *)
(* capability.                                                                 *)

LeavesFirst == ~SuddenLoss

\* A device that is absent is nowhere, and an open frame is a pointer's
AbsentInv ==
  /\ ~keyboard => keyboardAt = NoSurface
  /\ ~pointer => pointerAt = NoSurface /\ ~grouped

\* A focus about to end is one that this frame left, and the pointer is in no
\* surface that exists
AwayInv ==
  HasLeft => grouped /\ pointerAt \notin live /\ pointerFocus \in leaving \cup {NoSurface}

\* pointer_prev_focus, or what the next frame makes of it, is the surface the
\* compositor left last, unless it entered another in that frame
LeftInv == leftLast # NoSurface =>
             leftLast = IF HasLeft THEN pointerFocus ELSE prevFocus

\* What concerns the keyboard: no step of the pointer disturbs it but by what its
\* callback destroys
KeyboardInv ==
  /\ keyboardFocus \in live \cup {NoSurface}
  /\ keyboardAt \in live => keyboardFocus = keyboardAt
  /\ keyboardFocus \in {keyboardAt, NoSurface}
  /\ keyboardTold \subseteq {keyboardFocus}

\* ... and what concerns the pointer
PointerInv ==
  /\ {pointerFocus, prevFocus} \subseteq live \cup {NoSurface}
  /\ pointerAt \in live => pointerFocus = pointerAt
  /\ pointerFocus \in {pointerAt, NoSurface} \/ (grouped /\ HasLeft)
  /\ AwayInv
  /\ LeftInv
  /\ NoStaleButtons
  /\ pointerTold \subseteq {pointerFocus} \cup overtaken

IInv == TypeOK /\ AbsentInv /\ KeyboardInv /\ PointerInv

LEMMA Agrees == ASSUME IInv PROVE FocusAgrees
  BY DEF IInv, KeyboardInv, PointerInv, FocusAgrees

LEMMA DestroyedKeepsKeyboard ==
  ASSUME IInv, NEW gone \in SUBSET live, NEW tp,
         Destroyed(gone, keyboardFocus, keyboardTold, tp), UNCHANGED keyboardAt
  PROVE  KeyboardInv'
  BY SurfaceAssumption DEF Destroyed, Forget, IInv, KeyboardInv, TypeOK

LEMMA ClearedKeepsPointer ==
  ASSUME IInv, NEW gone \in SUBSET live, NEW focus, NEW tk,
         Destroyed(gone, focus, tk, pointerTold), PointerCleared(gone),
         UNCHANGED <<event, pointerAt, grouped, history>>
  PROVE  PointerInv'
<1>1. PointerInv BY DEF IInv
<1>2. UNCHANGED HasLeft BY DEF HasLeft, event
<1>3. gone \subseteq Surfaces /\ NoSurface \notin gone BY SurfaceAssumption DEF IInv, TypeOK
<1> QED
  BY <1>1, <1>2, <1>3, SurfaceAssumption
  DEF PointerInv, NoStaleButtons, AwayInv, LeftInv, Destroyed, PointerCleared,
      ButtonsKept, Forget, history

LEMMA EndedIsLive == ASSUME NEW f, NEW gone \in Ended(f) PROVE gone \in SUBSET live
  BY DEF Ended

LEMMA KeyboardStep ==
  ASSUME LeavesFirst, IInv, [Next]_vars
  PROVE  KeyboardInv' /\ (~keyboard' => keyboardAt' = NoSurface)
<1> DEFINE Goal == KeyboardInv' /\ (~keyboard' => keyboardAt' = NoSurface)
<1> USE SurfaceAssumption
<1>1. /\ KeyboardInv /\ AbsentInv /\ live \subseteq Surfaces
      /\ keyboardAt \in Surfaces \cup {NoSurface} /\ keyboardTold \subseteq Surfaces
  BY DEF IInv, TypeOK, Pointers
<1>2. ASSUME UNCHANGED <<keyboardVars, keyboard>>,
             live' = live \/ \E s \in Surfaces : s # keyboardAt /\ live' = live \cup {s}
      PROVE  Goal
  BY <1>1, <1>2 DEF KeyboardInv, AbsentInv, keyboardVars
<1>3. ASSUME NEW gone \in SUBSET live, NEW tp, UNCHANGED <<keyboardAt, keyboard>>,
             Destroyed(gone, keyboardFocus, keyboardTold, tp)
      PROVE  Goal
  BY <1>1, <1>3, DestroyedKeepsKeyboard DEF AbsentInv
<1>4. ASSUME NEW s \in Surfaces, KeyboardEnter(s) PROVE Goal
  <2>1. CASE s \in live
    BY <1>1, <1>4, <2>1 DEF KeyboardEnter, Destroyed, Forget, Ended, KeyboardInv, devices
  <2>2. CASE s \notin live
    BY <1>1, <1>4, <2>2 DEF KeyboardEnter, KeyboardInv, devices, told
  <2> QED BY <2>1, <2>2
<1>5. CASE KeyboardLeave
  BY <1>1, <1>5 DEF KeyboardLeave, Destroyed, Forget, Ended, KeyboardInv, devices
<1>6. CASE KeyboardInput BY <1>3, <1>6, EndedIsLive DEF KeyboardInput, devices
<1>7. CASE PointerFrame BY <1>3, <1>7, EndedIsLive DEF PointerFrame, devices
<1>8. ASSUME NEW s \in Surfaces, SurfaceDestroy(s) PROVE Goal
  BY <1>3, <1>8 DEF SurfaceDestroy, devices
<1>9. ASSUME NEW s \in Surfaces, PointerEnter(s) \/ SurfaceInit(s) PROVE Goal
  BY <1>2, <1>9 DEF PointerEnter, SurfaceInit, devices
<1>10. ASSUME NEW code \in ButtonCodes, NEW down \in BOOLEAN, PointerButton(code, down)
      PROVE  Goal
  BY <1>2, <1>10 DEF PointerButton, devices
<1>11. CASE PointerLeave \/ StartDrag \/ UNCHANGED vars
  BY <1>2, <1>11 DEF PointerLeave, StartDrag, vars, devices
<1>12. CASE CompositorForgets
  BY <1>1, <1>12 DEF CompositorForgets, Forget, KeyboardInv, AbsentInv, devices, told
<1>13. ASSUME NEW k \in BOOLEAN, NEW p \in BOOLEAN, Capabilities(k, p) PROVE Goal
  BY <1>1, <1>13 DEF Capabilities, LeavesFirst, KeyboardInv, AbsentInv, told
<1>14. CASE SeatInit \/ SeatDeinit
  BY <1>1, <1>14 DEF SeatInit, SeatDeinit, Zeroed, KeyboardInv
<1> QED
  BY <1>4, <1>5, <1>6, <1>7, <1>8, <1>9, <1>10, <1>11, <1>12, <1>13, <1>14 DEF Next

LEMMA PointerStep ==
  ASSUME LeavesFirst, IInv, [Next]_vars
  PROVE  PointerInv' /\ (~pointer' => pointerAt' = NoSurface /\ ~grouped')
<1> DEFINE Goal == PointerInv' /\ (~pointer' => pointerAt' = NoSurface /\ ~grouped')
<1> USE SurfaceAssumption
<1>1. /\ PointerInv /\ AbsentInv /\ live \subseteq Surfaces
      /\ pointerAt \in Surfaces \cup {NoSurface} /\ pointerTold \subseteq Surfaces
      /\ focusChanged \in BOOLEAN /\ focusFlag \in BOOLEAN /\ grouped \in BOOLEAN
      /\ buttons \subseteq Buttons
  BY DEF IInv, TypeOK, Pointers
<1> USE DEF HasLeft, history
<1>2. ASSUME UNCHANGED <<pointerFocus, prevFocus, event, pointing, pointerTold, pointer>>,
             buttons' \subseteq buttons,
             live' = live \/ \E s \in Surfaces : s # pointerAt /\ live' = live \cup {s}
      PROVE  Goal
  BY <1>1, <1>2 DEF PointerInv, NoStaleButtons, AwayInv, LeftInv, AbsentInv,
                    event, pointing
<1>3. ASSUME NEW gone \in SUBSET live, NEW focus, NEW tk,
             Destroyed(gone, focus, tk, pointerTold), PointerCleared(gone),
             UNCHANGED <<event, pointerAt, grouped, history, pointer>>
      PROVE  Goal
  BY <1>1, <1>3, ClearedKeepsPointer DEF AbsentInv
<1>4. ASSUME NEW s \in Surfaces, KeyboardEnter(s) PROVE Goal
  <2>1. CASE s \in live
    BY <1>3, <1>4, <2>1, EndedIsLive DEF KeyboardEnter, devices
  <2>2. CASE s \notin live
    BY <1>1, <1>4, <2>2 DEF KeyboardEnter, PointerInv, NoStaleButtons, AwayInv,
                            LeftInv, AbsentInv, devices, event, told
  <2> QED BY <2>1, <2>2
<1>5. CASE KeyboardLeave BY <1>3, <1>5, EndedIsLive DEF KeyboardLeave, devices
<1>6. CASE KeyboardInput BY <1>3, <1>6, EndedIsLive DEF KeyboardInput, devices
<1>7. ASSUME NEW s \in Surfaces, PointerEnter(s) PROVE Goal
  <2>1. /\ pointer /\ pointerAt = NoSurface
        /\ pointerFocus \in leaving \cup {NoSurface}
        /\ HasLeft => grouped
    BY <1>1, <1>7 DEF PointerEnter, PointerInv, AwayInv
  <2>2. CASE s \in live
    BY <1>1, <1>7, <2>1, <2>2 DEF PointerEnter, ButtonsOnEnter, PointerInv, NoStaleButtons,
                                  AwayInv, LeftInv, devices
  <2>3. CASE s \notin live
    BY <1>1, <1>7, <2>1, <2>3 DEF PointerEnter, PointerInv, NoStaleButtons, AwayInv,
                                  LeftInv, devices, event
  <2> QED BY <2>2, <2>3
<1>8. CASE PointerLeave
  <2> QED
    BY <1>1, <1>8 DEF PointerLeave, Forget, PointerInv, NoStaleButtons, AwayInv,
                            LeftInv, devices, event
<1>9. ASSUME NEW code \in ButtonCodes, NEW down \in BOOLEAN, PointerButton(code, down)
      PROVE  Goal
  BY <1>1, <1>9 DEF PointerButton, Known, PointerInv, NoStaleButtons, AwayInv,
                    LeftInv, AbsentInv, devices, event
<1>10. CASE PointerFrame
  <2>1. PICK gone \in Ended(FrameTarget) :
          /\ Destroyed(gone, keyboardFocus, keyboardTold, ToldByFrame)
          /\ \/ ~HasLeft /\ PointerCleared(gone)
             \/ /\ HasLeft
                /\ pointerFocus' = NoSurface /\ prevFocus' = FocusLeft(gone)
                /\ buttons' = ButtonsKept(gone)
    BY <1>10 DEF PointerFrame
  <2>2. gone \subseteq live BY EndedIsLive
  <2>3. pointer /\ UNCHANGED <<pointer, pointerAt, returned, pressed>> /\ ~focusChanged'
    BY <1>10 DEF PointerFrame, devices
  <2>4. CASE HasLeft
    BY <1>1, <2>1, <2>2, <2>3, <2>4
    DEF Destroyed, Forget, FocusLeft, ButtonsKept, ToldByFrame, FrameTarget, PointerInv,
        NoStaleButtons, AwayInv, LeftInv
  <2>5. CASE ~HasLeft
    <3>1. ToldByFrame \subseteq {pointerFocus} \cup overtaken
      BY <1>1, <2>5 DEF ToldByFrame, FrameTarget, PointerInv
    <3> QED
      BY <1>1, <2>1, <2>2, <2>3, <2>5, <3>1
      DEF Destroyed, PointerCleared, Forget, ButtonsKept, PointerInv, NoStaleButtons,
          AwayInv, LeftInv
  <2> QED BY <2>4, <2>5
<1>11. CASE StartDrag BY <1>2, <1>11 DEF StartDrag, devices
<1>12. ASSUME NEW s \in Surfaces, SurfaceInit(s) PROVE Goal
  BY <1>2, <1>12 DEF SurfaceInit, devices
<1>13. ASSUME NEW s \in Surfaces, SurfaceDestroy(s) PROVE Goal
  BY <1>3, <1>13 DEF SurfaceDestroy, devices
<1>14. CASE CompositorForgets
  BY <1>1, <1>14 DEF CompositorForgets, Forget, PointerInv, NoStaleButtons, AwayInv,
                     LeftInv, AbsentInv, devices, event, told
<1>15. ASSUME NEW k \in BOOLEAN, NEW p \in BOOLEAN, Capabilities(k, p) PROVE Goal
  BY <1>1, <1>15 DEF Capabilities, LeavesFirst, PointerInv, NoStaleButtons, AwayInv,
                     LeftInv, AbsentInv, event, told
<1>16. CASE SeatInit \/ SeatDeinit
  BY <1>16 DEF SeatInit, SeatDeinit, Zeroed, PointerInv, NoStaleButtons, AwayInv,
               LeftInv
<1>17. CASE UNCHANGED vars BY <1>2, <1>17 DEF vars, devices
<1> QED
  BY <1>4, <1>5, <1>6, <1>7, <1>8, <1>9, <1>10, <1>11, <1>12, <1>13, <1>14, <1>15, <1>16,
     <1>17 DEF Next

LEMMA Invariance == ASSUME LeavesFirst PROVE Spec => []IInv
<1>1. Init => IInv
  BY SurfaceAssumption
  DEF Init, IInv, TypeOK, Pointers, KeyboardInv, PointerInv, NoStaleButtons, AbsentInv,
      AwayInv, LeftInv, HasLeft
<1>2. IInv /\ [Next]_vars => IInv'
  <2> SUFFICES ASSUME IInv, [Next]_vars PROVE IInv'
    OBVIOUS
  <2>1. TypeOK' BY TypeStep DEF IInv
  <2>2. KeyboardInv' /\ PointerInv' /\ AbsentInv'
    BY KeyboardStep, PointerStep DEF AbsentInv
  <2> QED BY <2>1, <2>2 DEF IInv
<1> QED BY <1>1, <1>2, PTL DEF Spec

\* Key events and pointer events reach the surface the compositor sends them to,
\* whatever surfaces end on the way, and no focus outlives the frame of its
\* leave: also when a frame leaves one surface and enters another.
THEOREM FocusFollows == ASSUME LeavesFirst PROVE Spec => []FocusAgrees
<1> QED BY Agrees, Invariance, PTL

\* Each surface that was told of the keyboard's focus is told of its end, so at
\* most one believes it has the keyboard; of the pointer the same holds but for the
\* surfaces a frame left on the way to another, and for no others.
THEOREM FocusIsTold == ASSUME LeavesFirst PROVE Spec => []FocusTold
<1>1. IInv => FocusTold BY DEF IInv, KeyboardInv, PointerInv, FocusTold
<1> QED BY <1>1, Invariance, PTL

\* The pointer's return to the surface it left shows no press from before the
\* return, for any number of buttons, of surfaces and of drags in between, when its
\* leave had a frame without another enter, and nothing was entered since.
THEOREM ButtonsAreFresh == ASSUME LeavesFirst PROVE Spec => []NoStaleButtons
<1>1. IInv => NoStaleButtons BY DEF IInv, PointerInv
<1> QED BY <1>1, Invariance, PTL
=============================================================================
