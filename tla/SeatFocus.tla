----------------------------- MODULE SeatFocus -----------------------------
(***************************************************************************)
(* What one seat remembers of the application's surfaces (src/seat.c): the *)
(* keyboard focus, the pointer focus with the event that is gathered until *)
(* the next frame, and the surface the pointer left last.  Surfaces come   *)
(* and go meanwhile, also inside the callbacks a seat makes; a seat, its   *)
(* keyboard and its pointer come and go with the compositor's globals and  *)
(* capabilities.                                                           *)
(***************************************************************************)

CONSTANTS
  Surfaces, NoSurface,
  Buttons,      \* enum nwl_pointer_buttons
  ButtonCodes,  \* the buttons of linux/input-event-codes.h
  SuddenLoss    \* may a compositor withdraw a capability whose device is in a
                \* surface?

ASSUME SurfaceAssumption == NoSurface \notin Surfaces
ASSUME ButtonAssumption == Buttons \subseteq ButtonCodes
ASSUME CompositorAssumption == SuddenLoss \in BOOLEAN

VARIABLES
  live,           \* the surfaces that exist
  present,        \* the seat is in core->seats
  keyboard, pointer,            \* seat->keyboard, seat->pointer are not NULL
  keyboardFocus,
  pointerFocus, prevFocus,      \* pointer_focus, pointer_prev_focus
  focusChanged,   \* NWL_POINTER_EVENT_FOCUS in pointer_event.changed
  focusFlag,      \* pointer_event.focus
  buttons,        \* pointer_event.buttons
  \* The compositor: the surface each device is in, whether the frame that is being
  \* sent has told of a change of it, and which surfaces that frame left
  keyboardAt, pointerAt, grouped, leaving,
  \* What has been said so far, by the events alone: the surface that was left last,
  \* with no other entered before that frame ended; whether the pointer came back
  \* to it; the buttons pressed since the last enter; and the surfaces
  \* left in a frame that went on to enter another, and not entered since
  leftLast, returned, pressed, overtaken,
  \* the surfaces told that they have the focus and not that they lost it
  keyboardTold, pointerTold

devices      == <<present, keyboard, pointer>>
keyboardVars == <<keyboardFocus, keyboardAt, keyboardTold>>
event        == <<focusChanged, focusFlag>>
history      == <<leaving, returned, pressed>>
pointing     == <<pointerAt, grouped, leftLast, overtaken, history>>
told         == <<keyboardTold, pointerTold>>
vars == <<live, devices, keyboardVars, pointerFocus, prevFocus, event, buttons, pointing,
          pointerTold>>

-----------------------------------------------------------------------------
Forget(p, gone) == IF p \in gone THEN NoSurface ELSE p

\* nwl_surface_destroy of the surfaces `gone', which calls nwl_seat_clear_focus.
\* The first operator takes the keyboard focus as it is at that moment and
\* what has been said by then, the second is for the pointer.
Destroyed(gone, focus, toldKeyboard, toldPointer) ==
  /\ live' = live \ gone
  /\ keyboardFocus' = Forget(focus, gone)
  /\ keyboardTold' = toldKeyboard \ gone
  /\ pointerTold' = toldPointer \ gone
  /\ leftLast' = Forget(leftLast, gone)
  /\ overtaken' = overtaken \ gone

ButtonsKept(gone) == IF pointerFocus \in gone THEN {} ELSE buttons

PointerCleared(gone) ==
  /\ pointerFocus' = Forget(pointerFocus, gone)
  /\ prevFocus' = Forget(prevFocus, gone)
  /\ buttons' = ButtonsKept(gone)

\* What a callback on surface f may destroy: f, others, or several
Ended(f) == IF f = NoSurface THEN {{}} ELSE SUBSET live

(* A Bad... definition is a faulty form of the one that follows it. *)
BadKnown(code) == {code}

\* map_linuxmbutton_to_nwl: a code nwl has no name for is no button
Known(code) == {code} \cap Buttons

BadButtonsOnEnter(s) == IF s = pointerFocus THEN {} ELSE buttons

\* handle_pointer_enter: `Clear button state if entering the same surface that
\* was last focused'
ButtonsOnEnter(s) == IF s = prevFocus THEN {} ELSE buttons

BadFrameTarget == IF focusFlag THEN pointerFocus ELSE NoSurface

\* handle_pointer_frame: whose impl.input_pointer is called
FrameTarget == pointerFocus

BadFocusLeft(gone) == pointerFocus

\* handle_pointer_frame: pointer_focus as it is after the callback
FocusLeft(gone) == Forget(pointerFocus, gone)

BadHasLeft == focusChanged

\* handle_pointer_frame: does this frame end the focus?
HasLeft == focusChanged /\ ~focusFlag

-----------------------------------------------------------------------------
(* The keyboard. *)

\* handle_keyboard_enter: the wl_surface of a surface that was destroyed while
\* the event was under way arrives as NULL
KeyboardEnter(s) ==
  /\ keyboard /\ keyboardAt = NoSurface
  /\ keyboardAt' = s
  /\ \/ /\ s \in live
        /\ \E gone \in Ended(s) :
             /\ Destroyed(gone, s, keyboardTold \cup {s}, pointerTold)
             /\ PointerCleared(gone)
     \/ /\ s \notin live
        /\ UNCHANGED <<live, keyboardFocus, pointerFocus, prevFocus, buttons, leftLast, overtaken,
                       told>>
  /\ UNCHANGED <<devices, event, pointerAt, grouped, history>>

\* handle_keyboard_leave: tells keyboard_focus, whichever surface the event
\* names, and forgets it after the callback
KeyboardLeave ==
  /\ keyboard /\ keyboardAt # NoSurface
  /\ keyboardAt' = NoSurface
  /\ \E gone \in Ended(keyboardFocus) :
       /\ Destroyed(gone, NoSurface, keyboardTold \ {keyboardFocus}, pointerTold)
       /\ PointerCleared(gone)
  /\ UNCHANGED <<devices, event, pointerAt, grouped, history>>

\* handle_keyboard_key, handle_keyboard_modifiers, nwl_seat_handle_repeat: with a
\* focus, the event is dispatched to it
KeyboardInput ==
  /\ keyboard /\ keyboardFocus # NoSurface
  /\ \E gone \in Ended(keyboardFocus) :
       /\ Destroyed(gone, keyboardFocus, keyboardTold, pointerTold)
       /\ PointerCleared(gone)
  /\ UNCHANGED <<devices, keyboardAt, event, pointerAt, grouped, history>>

-----------------------------------------------------------------------------
(* The pointer. *)

\* handle_pointer_enter: what the frame left before this is pointer_focus no more
\* when the frame ends.
PointerEnter(s) ==
  /\ pointer /\ pointerAt = NoSurface
  /\ pointerAt' = s /\ grouped' = TRUE
  /\ \/ /\ s \in live
        /\ pointerFocus' = s
        /\ focusFlag' = TRUE /\ focusChanged' = TRUE
        /\ buttons' = ButtonsOnEnter(s)
        /\ pressed' = {}
        /\ returned' = (s = leftLast /\ ~grouped)
        /\ leftLast' = IF grouped THEN NoSurface ELSE leftLast
        /\ overtaken' = (overtaken \cup leaving) \ {s}
     \/ /\ s \notin live
        /\ UNCHANGED <<pointerFocus, event, buttons, pressed, returned, leftLast, overtaken>>
  /\ UNCHANGED <<live, devices, keyboardVars, prevFocus, leaving, pointerTold>>

\* handle_pointer_leave: pointer_focus stays until the frame
PointerLeave ==
  /\ pointer /\ pointerAt # NoSurface
  /\ pointerAt' = NoSurface /\ grouped' = TRUE
  /\ leftLast' = Forget(pointerAt, Surfaces \ live)
  /\ leaving' = leaving \cup ({pointerAt} \cap live)
  /\ \/ /\ pointerFocus # NoSurface
        /\ focusFlag' = FALSE /\ focusChanged' = TRUE
     \/ /\ pointerFocus = NoSurface
        /\ UNCHANGED event
  /\ UNCHANGED <<live, devices, keyboardVars, pointerFocus, prevFocus, buttons, returned,
                 pressed, overtaken, pointerTold>>

\* handle_pointer_button
PointerButton(code, down) ==
  /\ pointer /\ pointerAt # NoSurface
  /\ buttons' = IF down THEN buttons \cup Known(code) ELSE buttons \ Known(code)
  /\ pressed' = IF down THEN pressed \cup ({code} \cap Buttons) ELSE pressed \ {code}
  /\ UNCHANGED <<live, devices, keyboardVars, pointerFocus, prevFocus, event, pointerAt,
                 grouped, leaving, leftLast, returned, overtaken, pointerTold>>

\* What the frame's target knows after its callback
ToldByFrame ==
  IF ~focusChanged THEN pointerTold
  ELSE IF focusFlag THEN pointerTold \cup ({FrameTarget} \ {NoSurface})
  ELSE pointerTold \ {FrameTarget}

\* handle_pointer_frame
PointerFrame ==
  /\ pointer
  /\ grouped' = FALSE /\ leaving' = {}
  /\ \E gone \in Ended(FrameTarget) :
       /\ Destroyed(gone, keyboardFocus, keyboardTold, ToldByFrame)
       /\ \/ ~HasLeft /\ PointerCleared(gone)
          \/ /\ HasLeft
             /\ pointerFocus' = NoSurface
             /\ prevFocus' = FocusLeft(gone)
             /\ buttons' = ButtonsKept(gone)
  /\ focusChanged' = FALSE
  /\ UNCHANGED <<devices, keyboardAt, focusFlag, pointerAt, returned, pressed>>

\* nwl_seat_start_drag, its drag granted: clears the buttons, as the compositor
\* takes the pointer over
StartDrag ==
  /\ pointerFocus # NoSurface
  /\ buttons' = {}
  /\ UNCHANGED <<live, devices, keyboardVars, pointerFocus, prevFocus, event, pointing,
                 pointerTold>>

-----------------------------------------------------------------------------
(* Surfaces, capabilities and the seat itself. *)

\* nwl_surface_init: a new wl_surface, in which no device is yet
SurfaceInit(s) ==
  /\ s \notin live \cup {keyboardAt, pointerAt}
  /\ live' = live \cup {s}
  /\ UNCHANGED <<devices, keyboardVars, pointerFocus, prevFocus, event, buttons, pointing,
                 pointerTold>>

\* nwl_surface_destroy, called by the application outside a callback of the seat
SurfaceDestroy(s) ==
  /\ s \in live
  /\ Destroyed({s}, keyboardFocus, keyboardTold, pointerTold)
  /\ PointerCleared({s})
  /\ UNCHANGED <<devices, keyboardAt, event, pointerAt, grouped, history>>

\* The compositor may drop a destroyed surface without a leave
CompositorForgets ==
  /\ ~({keyboardAt, pointerAt} \subseteq live \cup {NoSurface})
  /\ keyboardAt' = Forget(keyboardAt, Surfaces \ live)
  /\ pointerAt' = Forget(pointerAt, Surfaces \ live)
  /\ UNCHANGED <<live, devices, keyboardFocus, pointerFocus, prevFocus, event, buttons,
                 grouped, leftLast, overtaken, history, told>>

\* handle_seat_capabilities: the focuses are left alone, a new pointer starts
\* with an empty event
Capabilities(hasKeyboard, hasPointer) ==
  /\ present
  /\ keyboard /\ ~hasKeyboard => SuddenLoss \/ keyboardAt = NoSurface
  /\ pointer /\ ~hasPointer => SuddenLoss \/ (pointerAt = NoSurface /\ ~grouped)
  /\ keyboard' = hasKeyboard /\ pointer' = hasPointer
  /\ keyboardAt' = IF hasKeyboard THEN keyboardAt ELSE NoSurface
  /\ pointerAt' = IF hasPointer THEN pointerAt ELSE NoSurface
  /\ grouped' = (hasPointer /\ grouped)
  /\ leaving' = IF hasPointer THEN leaving ELSE {}
  /\ IF hasPointer /\ ~pointer
     THEN focusChanged' = FALSE /\ focusFlag' = FALSE /\ buttons' = {}
     ELSE UNCHANGED <<event, buttons>>
  /\ UNCHANGED <<live, present, keyboardFocus, pointerFocus, prevFocus, leftLast, returned,
                 pressed, overtaken, told>>

\* Everything a struct nwl_seat holds here is zero
Zeroed ==
  /\ keyboard' = FALSE /\ pointer' = FALSE
  /\ keyboardFocus' = NoSurface /\ pointerFocus' = NoSurface /\ prevFocus' = NoSurface
  /\ focusChanged' = FALSE /\ focusFlag' = FALSE /\ buttons' = {}
  /\ keyboardAt' = NoSurface /\ pointerAt' = NoSurface /\ grouped' = FALSE
  /\ keyboardTold' = {} /\ pointerTold' = {}
  /\ leaving' = {} /\ leftLast' = NoSurface /\ returned' = FALSE
  /\ pressed' = {} /\ overtaken' = {}

\* nwl_seat_init, for a wl_seat the registry announces
SeatInit == ~present /\ present' = TRUE /\ Zeroed /\ UNCHANGED live

\* nwl_seat_deinit, before the struct is freed: the application is told that the
\* seat is gone, so nothing it was told of the seat's focus stands
SeatDeinit == present /\ present' = FALSE /\ Zeroed /\ UNCHANGED live

-----------------------------------------------------------------------------
Init ==
  /\ live = {} /\ present = FALSE /\ keyboard = FALSE /\ pointer = FALSE
  /\ keyboardFocus = NoSurface /\ pointerFocus = NoSurface /\ prevFocus = NoSurface
  /\ focusChanged = FALSE /\ focusFlag = FALSE /\ buttons = {}
  /\ keyboardAt = NoSurface /\ pointerAt = NoSurface /\ grouped = FALSE
  /\ keyboardTold = {} /\ pointerTold = {}
  /\ leaving = {} /\ leftLast = NoSurface /\ returned = FALSE
  /\ pressed = {} /\ overtaken = {}

Next ==
  \/ \E s \in Surfaces :
       SurfaceInit(s) \/ SurfaceDestroy(s) \/ KeyboardEnter(s) \/ PointerEnter(s)
  \/ KeyboardLeave \/ KeyboardInput
  \/ PointerLeave \/ PointerFrame \/ StartDrag
  \/ \E code \in ButtonCodes, down \in BOOLEAN : PointerButton(code, down)
  \/ \E k, p \in BOOLEAN : Capabilities(k, p)
  \/ CompositorForgets \/ SeatInit \/ SeatDeinit

Spec == Init /\ [][Next]_vars

-----------------------------------------------------------------------------
Pointers == Surfaces \cup {NoSurface}

\* Every variable keeps its type: the button mask holds only buttons nwl has a
\* name for, whatever codes arrive.
TypeOK ==
  /\ live \subseteq Surfaces
  /\ {present, keyboard, pointer, focusChanged, focusFlag, grouped, returned} \subseteq BOOLEAN
  /\ {keyboardFocus, pointerFocus, prevFocus, keyboardAt, pointerAt, leftLast} \subseteq Pointers
  /\ keyboardTold \subseteq Surfaces /\ pointerTold \subseteq Surfaces
  /\ leaving \subseteq Surfaces /\ overtaken \subseteq Surfaces
  /\ buttons \subseteq Buttons /\ pressed \subseteq Buttons

\* The focuses of a seat are surfaces that exist, also after a callback of its own
\* destroyed the surface it was about: nwl_seat_clear_focus reaches keyboard_focus,
\* pointer_focus and pointer_prev_focus, and no handler writes back one that it read
\* before the callback.  (It does not reach pointer_surface.nwl, which nwl writes and
\* never reads.)
FocusLive == {keyboardFocus, pointerFocus, prevFocus} \subseteq live \cup {NoSurface}

\* The focuses are the compositor's: keyboard and pointer events reach the
\* surface it is in, if that still exists, and a focus that stays behind after a
\* leave is one whose frame has still to end.
FocusAgrees ==
  /\ keyboardAt \in live => keyboardFocus = keyboardAt
  /\ pointerAt \in live => pointerFocus = pointerAt
  /\ keyboardFocus \in {keyboardAt, NoSurface}
  /\ pointerFocus \in {pointerAt, NoSurface} \/ (grouped /\ HasLeft)

\* A surface that was told it has the focus, and never that it lost it, has it: at
\* most one surface at a time believes so of the keyboard.  Of the pointer only a
\* surface may believe it wrongly that was left in a frame which then entered another:
\* handle_pointer_frame tells the new focus only.
FocusTold ==
  /\ keyboardTold \subseteq {keyboardFocus}
  /\ pointerTold \subseteq {pointerFocus} \cup overtaken

\* A surface the pointer comes back to, with no other entered since its leave was
\* framed, shows no button as pressed that was not pressed since: a press
\* from before, whose release went to someone else (an interactive move, a drag), is
\* gone.  (On the way over another surface it may be shown still.)
NoStaleButtons == returned /\ pointerAt \in live => buttons \subseteq pressed
=============================================================================
