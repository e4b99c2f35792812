----------------------------- MODULE SeatInput -----------------------------
(***************************************************************************)
(* What a seat makes of its devices' events besides the focus (src/seat.c):*)
(* the timer that repeats a key, and pointer_event.buttons_prev, with which*)
(* an application finds the buttons that changed.  Every step is one of    *)
(* SeatFocus, or leaves that as it is.                                     *)
(***************************************************************************)
EXTENDS SeatFocus

VARIABLES
  repeats,     \* keyboard_repeat_enabled, set by the application
  armed,       \* keyboard_repeat_fd is set
  previous,    \* pointer_event.buttons_prev
  buttonFlag,  \* NWL_POINTER_EVENT_BUTTON in pointer_event.changed
  \* The surface that was told of the key the timer repeats, while it exists; and
  \* whether an enter cleared buttons that were shown as pressed
  holder, cleared

timer    == <<repeats, armed, holder>>
gathered == <<previous, buttonFlag, cleared>>
inputVars == <<vars, timer, gathered>>

Lost == live \ live'

HolderKept == holder' = IF holder \in Lost THEN NoSurface ELSE holder

BadPreviousLeft == previous

\* nwl_seat_clear_focus: buttons_prev after what this step destroyed
PreviousLeft == IF pointerFocus \in Lost THEN {} ELSE previous

\* A step that sets no timer, and one that gathers no button
TimerKept == HolderKept /\ UNCHANGED <<repeats, armed>>

ButtonsGathered ==
  /\ previous' = PreviousLeft
  /\ cleared' = (cleared /\ pointerFocus \notin Lost)
  /\ UNCHANGED buttonFlag

-----------------------------------------------------------------------------
(* The keyboard. *)

\* handle_keyboard_key: when a key that repeats is pressed the timer is set, after
\* the callback, which may have destroyed the surface; its release unsets it.
Key(down) ==
  /\ KeyboardInput /\ ButtonsGathered
  /\ UNCHANGED repeats
  /\ \/ UNCHANGED armed /\ HolderKept
     \/ /\ repeats
        /\ armed' = down
        /\ holder' = IF down /\ keyboardFocus \notin Lost THEN keyboardFocus ELSE NoSurface

\* handle_keyboard_modifiers
Modifiers == KeyboardInput /\ TimerKept /\ ButtonsGathered

\* nwl_seat_handle_repeat.  The timer may have been unset since epoll_wait found it
\* expired: the read fails then, and the count it should have filled is anything.
KeyRepeat ==
  /\ keyboard
  /\ \/ repeats /\ KeyboardInput /\ TimerKept /\ ButtonsGathered
     \/ ~repeats /\ armed' = FALSE /\ UNCHANGED <<vars, repeats, holder, gathered>>

\* the application sets keyboard_repeat_enabled
SwitchRepeat ==
  /\ present
  /\ repeats' = ~repeats
  /\ UNCHANGED <<vars, armed, holder, gathered>>

BadArmedAfterLeave == armed

\* handle_keyboard_leave: without a focus it returns before it unsets the timer.
ArmedAfterLeave == armed /\ keyboardFocus = NoSurface

Leave ==
  /\ KeyboardLeave /\ ButtonsGathered
  /\ armed' = ArmedAfterLeave
  /\ HolderKept /\ UNCHANGED repeats

-----------------------------------------------------------------------------
(* The pointer. *)

\* handle_pointer_enter leaves buttons_prev alone.
Enter(s) ==
  /\ PointerEnter(s) /\ TimerKept
  /\ cleared' = (cleared \/ buttons' # buttons)
  /\ UNCHANGED <<previous, buttonFlag>>

Button(code, down) ==
  /\ PointerButton(code, down) /\ TimerKept
  /\ buttonFlag' = TRUE
  /\ UNCHANGED <<previous, cleared>>

\* handle_pointer_frame: buttons_prev follows in a frame with a button event.
Frame ==
  /\ PointerFrame /\ TimerKept
  /\ IF buttonFlag
     THEN previous' = buttons' /\ buttonFlag' = FALSE /\ cleared' = FALSE
     ELSE ButtonsGathered

\* nwl_seat_start_drag
Drag ==
  /\ StartDrag
  /\ previous' = {} /\ cleared' = FALSE
  /\ UNCHANGED <<timer, buttonFlag>>

-----------------------------------------------------------------------------
\* handle_seat_capabilities: a new pointer's event is empty, and no timer is unset.
Capable(hasKeyboard, hasPointer) ==
  /\ Capabilities(hasKeyboard, hasPointer) /\ TimerKept
  /\ IF hasPointer /\ ~pointer
     THEN previous' = {} /\ buttonFlag' = FALSE /\ cleared' = FALSE
     ELSE UNCHANGED gathered

\* nwl_seat_init and nwl_seat_deinit
Renewed ==
  /\ SeatInit \/ SeatDeinit
  /\ repeats' = FALSE /\ armed' = FALSE /\ holder' = NoSurface
  /\ previous' = {} /\ buttonFlag' = FALSE /\ cleared' = FALSE

\* what else happens in SeatFocus
Else ==
  /\ \/ \E s \in Surfaces : SurfaceInit(s) \/ SurfaceDestroy(s) \/ KeyboardEnter(s)
     \/ PointerLeave \/ CompositorForgets
  /\ TimerKept /\ ButtonsGathered

InputInit ==
  /\ Init
  /\ repeats = FALSE /\ armed = FALSE /\ holder = NoSurface
  /\ previous = {} /\ buttonFlag = FALSE /\ cleared = FALSE

InputNext ==
  \/ \E down \in BOOLEAN : Key(down) \/ \E code \in ButtonCodes : Button(code, down)
  \/ Modifiers \/ KeyRepeat \/ SwitchRepeat \/ Leave
  \/ \E s \in Surfaces : Enter(s)
  \/ Frame \/ Drag \/ Renewed \/ Else
  \/ \E k, p \in BOOLEAN : Capable(k, p)

InputSpec == InputInit /\ [][InputNext]_inputVars

-----------------------------------------------------------------------------
\* A key is repeated to the surface that was told of its press and to no other, as
\* long as that surface exists: the focus that moves on does not take the timer
\* along.  (The timer of a surface that was destroyed with the key down is left
\* running, and repeats the key to the next focus.)
RepeatHeld == armed => holder \in {keyboardFocus, NoSurface}

\* Between frames with button events buttons_prev is what the buttons are, so each
\* press and release shows as a difference, unless an enter cleared the buttons:
\* that leaves the former ones in buttons_prev, and the next press of one of them
\* shows no difference.
PreviousFollows == buttonFlag \/ cleared \/ previous = buttons
=============================================================================
