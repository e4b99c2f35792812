-------------------------- MODULE SeatInputProofs --------------------------
EXTENDS SeatInput, SeatFocusProofs

-----------------------------------------------------------------------------
(* Input adds to the focus and does not change it, so what is proved of Spec *)
(* holds here.                                                               *)

LEMMA FocusStep == [InputNext]_inputVars => [Next]_vars
<1> USE DEF Next
<1>1. ASSUME NEW down \in BOOLEAN, Key(down) PROVE Next BY <1>1 DEF Key
<1>2. ASSUME NEW down \in BOOLEAN, NEW code \in ButtonCodes, Button(code, down) PROVE Next
  BY <1>2 DEF Button
<1>3. CASE Modifiers BY <1>3 DEF Modifiers
<1>4. CASE KeyRepeat BY <1>4 DEF KeyRepeat
<1>5. CASE SwitchRepeat BY <1>5 DEF SwitchRepeat
<1>6. CASE Leave BY <1>6 DEF Leave
<1>7. ASSUME NEW s \in Surfaces, Enter(s) PROVE Next BY <1>7 DEF Enter
<1>8. CASE Frame BY <1>8 DEF Frame
<1>9. CASE Drag BY <1>9 DEF Drag
<1>10. CASE Renewed BY <1>10 DEF Renewed
<1>11. CASE Else BY <1>11 DEF Else
<1>12. ASSUME NEW k \in BOOLEAN, NEW p \in BOOLEAN, Capable(k, p) PROVE Next
  BY <1>12 DEF Capable
<1>13. CASE UNCHANGED inputVars BY <1>13 DEF inputVars
<1> QED
  BY <1>1, <1>2, <1>3, <1>4, <1>5, <1>6, <1>7, <1>8, <1>9, <1>10, <1>11, <1>12, <1>13
  DEF InputNext

\* A seat with its timer and its button history does to the focuses what SeatFocus
\* says, so every theorem about those holds of it.
THEOREM InputRefinesFocus == InputSpec => Spec
<1>1. InputInit => Init BY DEF InputInit
<1> QED BY <1>1, FocusStep, PTL DEF InputSpec, Spec

-----------------------------------------------------------------------------
(* The timer. *)

\* What a callback or the application destroys takes the focus and the holder with
\* it alike.
LEMMA DestroyedKeepsHolder ==
  ASSUME RepeatHeld, NEW gone \in SUBSET live, NEW tk, NEW tp,
         Destroyed(gone, keyboardFocus, tk, tp), HolderKept, armed' => armed
  PROVE  RepeatHeld'
  BY SurfaceAssumption DEF RepeatHeld, Destroyed, Forget, HolderKept, Lost

LEMMA InputKeepsHolder ==
  ASSUME RepeatHeld, KeyboardInput, HolderKept, armed' => armed
  PROVE  RepeatHeld'
  BY DestroyedKeepsHolder, EndedIsLive DEF KeyboardInput

LEMMA StillKeepsHolder ==
  ASSUME RepeatHeld, UNCHANGED keyboardFocus, HolderKept, armed' => armed
  PROVE  RepeatHeld'
  BY DEF RepeatHeld, HolderKept

LEMMA HolderStep ==
  ASSUME IInv, RepeatHeld, [InputNext]_inputVars
  PROVE  RepeatHeld'
<1> USE DEF TimerKept
<1>1. ASSUME NEW down \in BOOLEAN, Key(down) PROVE RepeatHeld'
  <2>1. CASE UNCHANGED armed /\ HolderKept BY <1>1, <2>1, InputKeepsHolder DEF Key
  <2>2. CASE /\ armed' = down
             /\ holder' = IF down /\ keyboardFocus \notin Lost THEN keyboardFocus
                          ELSE NoSurface
    <3>1. PICK gone \in SUBSET live :
            Destroyed(gone, keyboardFocus, keyboardTold, pointerTold)
      BY <1>1, EndedIsLive DEF Key, KeyboardInput
    <3> QED BY <2>2, <3>1 DEF Destroyed, Forget, Lost, RepeatHeld
  <2> QED BY <1>1, <2>1, <2>2 DEF Key
<1>2. CASE Modifiers BY <1>2, InputKeepsHolder DEF Modifiers
<1>3. CASE KeyRepeat
  <2>1. CASE KeyboardInput /\ TimerKept BY <2>1, InputKeepsHolder
  <2>2. CASE armed' = FALSE BY <2>2 DEF RepeatHeld
  <2> QED BY <1>3, <2>1, <2>2 DEF KeyRepeat
<1>4. CASE SwitchRepeat
  BY <1>4 DEF SwitchRepeat, RepeatHeld, vars, keyboardVars
<1>5. CASE Leave
  <2>1. CASE keyboardFocus = NoSurface
    <3>1. armed' => holder = NoSurface /\ armed
      BY <1>5, <2>1 DEF Leave, ArmedAfterLeave, RepeatHeld
    <3> QED BY <1>5, <3>1 DEF Leave, HolderKept, RepeatHeld
  <2>2. CASE keyboardFocus # NoSurface
    BY <1>5, <2>2 DEF Leave, ArmedAfterLeave, RepeatHeld
  <2> QED BY <2>1, <2>2
<1>6. ASSUME NEW s \in Surfaces, Enter(s) PROVE RepeatHeld'
  BY <1>6, StillKeepsHolder DEF Enter, PointerEnter, keyboardVars
<1>7. ASSUME NEW code \in ButtonCodes, NEW down \in BOOLEAN, Button(code, down)
      PROVE  RepeatHeld'
  BY <1>7, StillKeepsHolder DEF Button, PointerButton, keyboardVars
<1>8. CASE Frame
  BY <1>8, DestroyedKeepsHolder, EndedIsLive DEF Frame, PointerFrame
<1>9. CASE Drag
  BY <1>9 DEF Drag, StartDrag, keyboardVars, timer, RepeatHeld
<1>10. CASE Renewed BY <1>10 DEF Renewed, RepeatHeld
<1>11. CASE Else
  <2>1. ASSUME NEW s \in Surfaces, KeyboardEnter(s) PROVE RepeatHeld'
    <3>1. keyboardFocus = NoSurface
      BY <2>1, Agrees DEF KeyboardEnter, FocusAgrees
    <3> QED BY <1>11, <3>1 DEF Else, HolderKept, RepeatHeld
  <2>2. ASSUME NEW s \in Surfaces, SurfaceDestroy(s) PROVE RepeatHeld'
    BY <1>11, <2>2, DestroyedKeepsHolder DEF Else, SurfaceDestroy
  <2>3. CASE UNCHANGED keyboardFocus BY <1>11, <2>3, StillKeepsHolder DEF Else
  <2> QED
    BY <1>11, <2>1, <2>2, <2>3
    DEF Else, SurfaceInit, PointerLeave, CompositorForgets, keyboardVars
<1>12. ASSUME NEW k \in BOOLEAN, NEW p \in BOOLEAN, Capable(k, p) PROVE RepeatHeld'
  BY <1>12, StillKeepsHolder DEF Capable, Capabilities
<1>13. CASE UNCHANGED inputVars
  BY <1>13 DEF inputVars, timer, vars, keyboardVars, RepeatHeld
<1> QED
  BY <1>1, <1>2, <1>3, <1>4, <1>5, <1>6, <1>7, <1>8, <1>9, <1>10, <1>11, <1>12, <1>13
  DEF InputNext

\* A repeat goes to nobody but the surface that was told of the press, for as long
\* as that surface exists.  FocusAgrees is what makes it so: a keyboard enters only
\* when no focus is left, and then the timer belongs to a surface that is gone.
THEOREM RepeatIsHeld == ASSUME LeavesFirst PROVE InputSpec => []RepeatHeld
<1>1. InputSpec => []IInv BY Invariance, InputRefinesFocus
<1>2. InputInit => RepeatHeld BY DEF InputInit, RepeatHeld
<1>3. IInv /\ RepeatHeld /\ [InputNext]_inputVars => RepeatHeld' BY HolderStep
<1> QED BY <1>1, <1>2, <1>3, PTL DEF InputSpec

-----------------------------------------------------------------------------
(* The buttons of the frame before. *)

LEMMA ClearedTogether ==
  ASSUME PreviousFollows, NEW gone \in SUBSET live, live' = live \ gone,
         buttons' = ButtonsKept(gone), ButtonsGathered
  PROVE  PreviousFollows'
  BY DEF PreviousFollows, ButtonsKept, ButtonsGathered, PreviousLeft, Lost

LEMMA InputKeepsPrevious ==
  ASSUME PreviousFollows, KeyboardInput, ButtonsGathered
  PROVE  PreviousFollows'
  BY ClearedTogether, EndedIsLive DEF KeyboardInput, Destroyed, PointerCleared

LEMMA StillKeepsPrevious ==
  ASSUME PreviousFollows, UNCHANGED buttons, live \subseteq live', ButtonsGathered
  PROVE  PreviousFollows'
  BY DEF PreviousFollows, ButtonsGathered, PreviousLeft, Lost

LEMMA PreviousStep ==
  ASSUME PreviousFollows, [InputNext]_inputVars
  PROVE  PreviousFollows'
<1>1. ASSUME NEW down \in BOOLEAN, Key(down) PROVE PreviousFollows'
  BY <1>1, InputKeepsPrevious DEF Key
<1>2. CASE Modifiers BY <1>2, InputKeepsPrevious DEF Modifiers
<1>3. CASE KeyRepeat
  <2>1. CASE KeyboardInput /\ ButtonsGathered BY <2>1, InputKeepsPrevious
  <2>2. CASE UNCHANGED <<vars, gathered>> BY <2>2 DEF vars, gathered, PreviousFollows
  <2> QED BY <1>3, <2>1, <2>2 DEF KeyRepeat
<1>4. CASE SwitchRepeat BY <1>4 DEF SwitchRepeat, vars, gathered, PreviousFollows
<1>5. CASE Leave
  BY <1>5, ClearedTogether, EndedIsLive
  DEF Leave, KeyboardLeave, Destroyed, PointerCleared
<1>6. ASSUME NEW s \in Surfaces, Enter(s) PROVE PreviousFollows'
  BY <1>6 DEF Enter, PreviousFollows
<1>7. ASSUME NEW code \in ButtonCodes, NEW down \in BOOLEAN, Button(code, down)
      PROVE  PreviousFollows'
  BY <1>7 DEF Button, PreviousFollows
<1>8. CASE Frame
  <2>1. CASE buttonFlag BY <1>8, <2>1 DEF Frame, PreviousFollows
  <2>2. CASE ~buttonFlag
    BY <1>8, <2>2, ClearedTogether, EndedIsLive
    DEF Frame, PointerFrame, Destroyed, PointerCleared
  <2> QED BY <2>1, <2>2
<1>9. CASE Drag BY <1>9 DEF Drag, StartDrag, PreviousFollows
<1>10. CASE Renewed BY <1>10 DEF Renewed, SeatInit, SeatDeinit, Zeroed, PreviousFollows
<1>11. CASE Else
  <2>1. ASSUME NEW s \in Surfaces, KeyboardEnter(s) PROVE PreviousFollows'
    <3>1. CASE s \in live
      BY <1>11, <2>1, <3>1, ClearedTogether, EndedIsLive
      DEF Else, KeyboardEnter, Destroyed, PointerCleared
    <3>2. CASE s \notin live
      BY <1>11, <2>1, <3>2, StillKeepsPrevious DEF Else, KeyboardEnter
    <3> QED BY <3>1, <3>2
  <2>2. ASSUME NEW s \in Surfaces, SurfaceDestroy(s) PROVE PreviousFollows'
    BY <1>11, <2>2, ClearedTogether DEF Else, SurfaceDestroy, Destroyed, PointerCleared
  <2>3. CASE UNCHANGED buttons /\ live \subseteq live'
    BY <1>11, <2>3, StillKeepsPrevious DEF Else
  <2> QED
    BY <1>11, <2>1, <2>2, <2>3 DEF Else, SurfaceInit, PointerLeave, CompositorForgets
<1>12. ASSUME NEW k \in BOOLEAN, NEW p \in BOOLEAN, Capable(k, p) PROVE PreviousFollows'
  BY <1>12 DEF Capable, Capabilities, gathered, PreviousFollows
<1>13. CASE UNCHANGED inputVars BY <1>13 DEF inputVars, vars, gathered, PreviousFollows
<1> QED
  BY <1>1, <1>2, <1>3, <1>4, <1>5, <1>6, <1>7, <1>8, <1>9, <1>10, <1>11, <1>12, <1>13
  DEF InputNext

\* buttons_prev is right for every compositor and every application, except after
\* an enter that cleared the buttons.
THEOREM PreviousIsFollowed == InputSpec => []PreviousFollows
<1>1. InputInit => PreviousFollows BY DEF InputInit, Init, PreviousFollows
<1>2. PreviousFollows /\ [InputNext]_inputVars => PreviousFollows' BY PreviousStep
<1> QED BY <1>1, <1>2, PTL DEF InputSpec
=============================================================================
