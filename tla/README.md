# TLA+ verification of nwl

nwl is a small C library between an application and a Wayland compositor. It
creates surfaces and gives them shell roles, schedules when the application's
`impl.update` draws them, hands out shared-memory buffers to draw into, keeps
the state of seats (keyboard, pointer, clipboard), and offers an event loop
(`nwl_easy_run`). Everything runs in one thread. What makes it hard is not
parallelism but re-entry: a handler of a compositor event calls the application,
which calls back into nwl, which may call the application again, while a list
pass or a count further down the stack is half done.

Paths below are relative to the repository.

## The system

| Component | Where | State | Operations | Talks to |
|---|---|---|---|---|
| Surface lifetime and update scheduling | `src/surface.c`, `nwl/surface.h` | `states` (NEEDS_UPDATE, NEEDS_CONFIGURE, DESTROY, NEEDS_APPLY_SIZE), `frame_cb`, `configure_serial`, `defer_update`, `dirtlink`, `link`/`subsurfaces` | init, destroy, destroy_later, set_need_update, request_callback, buffer_submitted, role_unset, role_subsurface, `cb_done` | calls `impl.update`; puts surfaces on the core's dirty list |
| Shell roles | `src/shell.c` | `role_id`, width/height, toplevel bits | role_toplevel, role_layershell, role_popup; configure, close and done handlers | sets sizes, asks for updates, counts `num_surfaces` |
| Dirty pass and loop | `src/wayland.c:374-467` | `surfaces_dirty`, `has_dirty_surfaces`, `num_surfaces`, `has_errored`, `run_with_zero_surfaces` | mark_dirty, handle_dirt, dispatch, run, display error, core deinit | updates and destroys surfaces |
| Size, scale and outputs of a surface | `src/surface.c:39-130` | `scale`, `scale_preferred`, `outputs` | autoscale, enter, leave, preferred scale | flags NEEDS_APPLY_SIZE for the renderer |
| Shared-memory buffers | `src/shm.c` | pool, slots with ACQUIRED and DESTROY flags, slot count, geometry | resize, set_slots, get_next, release | cairo renderer; the compositor reads the memory |
| Cairo renderer | `src/cairo.c` | `next_buffer`, `prev_buffer`, `rerender` | get_surface, submit, init, finish | bufferman below, application above |
| Globals, outputs, polling | `src/wayland.c` | `globals`, outputs, `has_new_outputs`, epoll data | registry add and remove, announce_outputs, add_fd, del_fd | application's `events` callbacks |
| Keyboard | `src/seat.c:1-283` | focus, event, repeat timer, compose state | enter, leave, key, repeat | `impl.input_keyboard` |
| Pointer | `src/seat.c:285-670` | focus, accumulated event, cursor | enter, leave, motion, axis, frame | `impl.input_pointer` |
| Data device | `src/seat.c:731-965` | incoming offer, selection, drag | data_offer, enter, leave, drop, selection, start_drag | `impl.dnd` |
| Seat lifetime | `src/seat.c` | bound devices | capabilities, clear_focus, init, deinit | called by surface destruction |

What makes each correct: a wanted update is not forgotten and does not run too
early; a doomed surface is destroyed once, with everything below it and nothing
else; the loop runs exactly as long as there is something to show; memory the
compositor reads is never drawn into; a frame starts from the last one or is
marked to be redrawn; a seat never points at a destroyed surface; events arrive
in the groups and order the protocol promises.

The hard behaviours are listed with their lines as `hazards` in `PROJECT.json`.
Nearly all are of two kinds: state that is stale after a callback (a list
successor, a flag, a buffer index), and sequences of legal calls that leave two
pieces of state disagreeing (dirty flag and list, pool size and pool, scale and
buffers).

## Modules

| Module | Models |
|---|---|
| `NwlSurface` | surface lifetime, roles, update scheduling, the dirty pass, the loop |
| `MCNwlSurface` | its symmetry set for TLC |
| `NwlSurfaceProofs` | scheduling theorems: the inductive invariant `IInv` and its consequences |
| `NwlSurfaceTreeProofs` | counting and ownership theorems: `TreeInv`, on top of `IInv` |
| `UpdateService` | what nwl promises about updates and destruction, without flags, lists or callbacks |
| `NwlSurfaceService` | the mapping by which `NwlSurface` implements it |
| `NwlSurfaceServiceProofs` | the proof that it does |
| `ShmBuffers` | the bufferman as a value and each function of `src/shm.c` as an operator on it |
| `CairoRenderer` | size, scale, renderer and releases as a state machine over `ShmBuffers` |
| `MCCairoRenderer` | memory sizes of the small geometries for TLC |
| `CairoRendererProofs` | the layout of buffers in the pool, and the renderer's theorems on top of it |
| `SeatFocus`, `MCSeatFocus` | keyboard and pointer focus of a seat, pointer frames, buttons, capabilities, seat init and deinit |
| `SeatInput`, `SeatInputProofs` | the repeat timer and `buttons_prev` on top of `SeatFocus`, and their theorems |
| `SeatFocusProofs` | its types, `FocusLive`, and with a compositor that keeps to what is said of it, the rest |
| `DataDevice`, `MCDataDevice` | data offers, selection and drag and drop of a seat |
| `DataDeviceProofs` | ownership and knowledge of offers, and where drags go |
| `EasyLoop` | globals, outputs and their announcement, seats' descriptors, batches of epoll events |
| `SurfaceOutputs`, `MCEasyLoop` | a surface's array of outputs and its scale, composed with `EasyLoop` |
| `EasyLoopProofs` | the inductive invariant of `EasyLoop`, that `SurfaceOutputs` refines it, and the theorems on a surface's outputs and scale |

A definition whose name starts with `Bad` is a faulty form of the definition that
follows it (a dropped guard, a swapped order). No action uses it. It stands there
to show that a property notices the fault.

### NwlSurface

Flags in `states` and NULL-able pointers are sets of surfaces (`needUpdate`,
`needConfigure`, `doomed`, `deferred`, `frameCb`); `parent` says whose list holds
`surface->link`. `stray` holds the surfaces that some existing `wl_callback` names
which no `frame_cb` points at: a callback that outlived the pointer or the surface
is visible there. `serial` distinguishes a configure serial of the present role
(`fresh`) from one of a role that was unset (`stale`).

The call structure is explicit. `stack` is the chain of running `impl.update`
calls. Every function the application may call is an action that is enabled when
application code runs (`ClientTurn`: during event handling or inside an update),
and `UpdateReturns` ends the topmost update. So nesting, and every order of calls
inside an update, is explored up to `MaxDepth`. `pc` tells whether the loop is
handling events, is in the dirty pass, has stopped or has been deinitialised.
The pass follows `wl_list_for_each_safe`: `nxt` is the successor that was loaded
in advance and is not corrected when links change; `todo` is the part of the list
the cursor has still to reach (new links go to the head, behind the cursor).
`handle_dirty_surfaces` unlinks the surface after its update: that is part of
`UpdateReturns` when the returning call is the pass's own.

| Action | Code |
|---|---|
| `SurfaceInit`, `RoleCounted`, `RolePopup`, `RoleSubsurface`, `RoleUnset` | `nwl_surface_init`, the role functions, `nwl_surface_role_unset` |
| `RoleSeat` | the cursor and drag icon roles of `nwl_seat_set_pointer_surface` and `nwl_seat_start_drag`, which also ask for an update |
| `SetNeedUpdate`, `DestroyLater`, `Destroy` | the functions of those names, called by the application |
| `RequestCallback`, `BufferSubmitted`, `Defer`, `UpdateReturns` | what an `impl.update` does to its surface, and its end |
| `LayerConfigure`, `XdgConfigure`, `Closed`, `PopupDone`, `FrameDone`, `DisplayError` | handlers of compositor events |
| `EndEvents`, `DirtDestroy`, `DirtUpdate`, `DirtSkip`, `PassEnds`, `Deinit` | `nwl_easy_dispatch`, the dirty pass, the loop condition, `nwl_core_deinit` |

None of the calls needs a role. A surface may be asked for updates, draw, wait for a
frame callback and be doomed before it has one, or after it lost it. That is also how
callbacks are left behind: `nwl_surface_destroy_role` returns at once for a surface
without a role, and the callback goes on naming a surface that is gone. The model
keeps it in `stray`. What `cb_done` does with freed memory is not modelled
(`FrameDone` is for living surfaces, stray callbacks included, for which `cb_done`
clears the pointer to the present one). `CallbackOwned` says that this is the only
way in which a callback is left behind.

`impl.destroy` runs application code in the middle of a destroy. What it does in the
dirty pass that the code's comment speaks of ("This might have destroyed other
surfaces") is modelled: `DirtDestroy` takes any `others` with it.

**Contract.** Three things an application can do break the code, and each is a
constant: `AskAgain` (inside an update that the pass runs, ask for an update or a
destroy of that same surface), `RoleWhileWaiting` (give a shell role, whose first
configure is to be awaited, to a surface that has a dirty link or for which a frame
event may come), `DestroyInUpdate` (call `nwl_surface_destroy` from a pass update).
With all three FALSE the properties hold; each set to TRUE gives one of the
violation runs below. Nothing in the headers forbids these calls. `cb_done` tests
NEEDS_CONFIGURE no more than the pass does, so a surface that drew without a role
and is given a shell role too early is the second clause's case too. Three
assumptions hold in every run: an update that defers itself and finds, at its
end, that an update was asked for, has requested a frame callback (nothing else
would bring the update); no update gives a shell role to its own surface; and
no surface is destroyed under its own running update. The compositor sends events
only to live objects.

### UpdateService

The abstract specification knows per surface whether an update is `wanted`,
whether the next pass has it in its queue, whether something `held` it back, and
whether it is `doomed`; `calls` are the running updates. Its steps say what may
happen: an update that is asked for is queued or held (`Kept`), starts only when
nothing holds it back, and stops being wanted only by starting or by losing its
surface or role; a destroy removes every trace of a surface.

`NwlSurfaceService` maps `NwlSurface` to it: `wanted` is NEEDS_UPDATE; `queued`
is NEEDS_UPDATE and a dirty link, without the link the pass is about to remove;
`held` is a frame callback, NEEDS_CONFIGURE or `defer_update`; `calls` is the
stack. `ServiceSafe` says that every step of the code is a step of the service or
a stutter; `ServiceLive`, under the loop's fairness, that a queued update is
served or held back, and that a doomed surface is destroyed. The list, the flag
`has_dirty_surfaces`, the saved successor and the reasons to start over are
hidden: they are the implementation. Surfaces without a role ask and are served
like others; `shown` only says that a role, once lost, takes what was asked with it.

### ShmBuffers and CairoRenderer

`bm` is `struct nwl_shm_bufferman` plus what it is about: for each slot, whether
the compositor holds its wl_buffer (`held`, next to the `acquired` flag that
should say so), whether its memory is mapped now (`mapped`) and is part of the
present file (`kept`), and `orphans`, the regions of the present file the
compositor may still read through wl_buffers that were destroyed. Geometries are
pairs of size and scale; `Bytes` and `Spare` give `stride * height` and
`stride * 30` for each. `shows` abstracts pixels: the memory of a slot holds the
frame submitted last, an older frame, or neither.

`GetSurface` is the whole of `nwl_cairo_renderer_get_surface`: applying a pending
size, taking a buffer, growing the slots when there is none, copying the previous
frame. It has no guard of its own: a surface may be drawn that has no size, had none
applied since the renderer was initialised (`Unsized`), or was given the size 0.
`crashed` is set when one of these leaves nothing to make a buffer of, or a wl_buffer
is made in a pool that is NULL after a resize, and nothing happens afterwards; the other properties
speak about states before it, and `PoolReady` about every state that has a geometry.
With `SlotsAnyTime` FALSE the application chooses the slot count only before the
renderer has a geometry; with `RoleReuse` FALSE a role is unset only of a surface
that was not drawn since the renderer was initialised. Both TRUE settings lead to
states where `DrawsIntoFreeMemory` and `OutputChangesApplied` fail; no text of the
repository says what should happen, so they are listed as hazards and not as
findings.

### SeatFocus and DataDevice

Both are about one seat (`src/seat.c`) and the surfaces that come and go beside
it; a surface is only its address here, in `live` while it exists. They do not
share state, except that `nwl_surface_destroy` disturbs both, and are separate
modules for that reason. Every callback of a seat may destroy any set of surfaces
(`Ended`), the one it is about included, and the handler goes on with what it
reads after the callback, as the code does.

In `SeatFocus`, `keyboardAt` and `pointerAt` are where the compositor has the
devices. An enter for a surface that was destroyed meanwhile arrives with a NULL
`wl_surface`; the compositor may send a leave for such a surface or not
(`CompositorForgets`). `grouped` says that the pointer frame being sent has told
of a change of focus. `SurfaceDestroy`, `StartDrag` and `KeyboardInput` are calls of
the application and dispatched events; the other actions carry the handler's
name.

The rest serves the properties and is moved by events only, not by what nwl keeps of
them: `keyboardTold` and `pointerTold` are what the application heard; `leaving` are
the surfaces the present frame left, `overtaken` those whose leave came in a frame
that went on to enter another surface; `leftLast` is the surface left last, as long
as no other was entered, `returned` says that the pointer came back to it, and
`pressed` are the buttons pressed since the last enter.

A frame may leave one surface and enter another, as often as it likes.
handle_pointer_frame then calls only the surface that is the focus at its end (a
comment there asks how that behaves), so `FocusTold` allows a wrong belief to the
surfaces in `overtaken`, and to no others; and `NoStaleButtons` is about a return
whose leave had a frame to itself. One constant says what the compositor may do:
`SuddenLoss` (withdraw a capability while the device is in a surface, without a
leave). It is FALSE in the run, because handle_seat_capabilities leaves the focuses
as they are; with TRUE, `FocusTold`, `NoStaleButtons` and `FocusAgrees` fail.
`FocusLive` needs no restriction. It is about the three focuses that are read again;
`pointer_surface.nwl`, the cursor's surface, is written by
nwl_seat_set_pointer_surface and never read, and stays out.

`SeatInput` extends `SeatFocus` and adds variables: `armed` (the repeat timer is
set), `repeats` (`keyboard_repeat_enabled`), `previous` (`buttons_prev`) and
`buttonFlag` (the BUTTON bit of `pointer_event.changed`). Each of its actions is
one of `SeatFocus`, or leaves that alone, with what the same handler does to the
new variables. `holder` is the surface that was told of the key the timer
repeats, while it exists; `cleared` records an enter that cleared `buttons` but
not `buttons_prev`. Both serve the properties. `KeyRepeat` may happen whenever the
seat has a keyboard: epoll may have found the timer expired before a handler of
the same batch disarmed it, and then nwl_seat_handle_repeat reads nothing and
looks at an uninitialised count. It dispatches to the present focus without
asking whose key it was, so what matters is that a timer is never left set for
another focus (`RepeatHeld`). One case is left open by the code: when the focus
was destroyed, handle_keyboard_leave returns before it disarms the timer, and the
key is repeated to the next focus; `holder` is `NoSurface` then. The time between
expirations and the conversion of the repeat rate are left out.

In `DataDevice`, `proxies` are the existing `wl_data_offer` objects; `types`,
`introduced`, `selected`, `dragAt` and `dragged` say what the compositor last
said. It introduces an offer and uses it before it introduces the next, as the
protocol demands; a drop may end the drag with or without a leave. A drag enters
only surfaces that exist: data_device_enter, unlike the enters of keyboard and
pointer, would take a NULL surface apart. Surfaces may end at any time, also under a
drag. `DndImpl` are the surfaces with an `impl.dnd`; one of three has none in the
runs. Entered after a surface with one, it sees its drag's events go there, because
focus_surface is set by enters to surfaces with `impl.dnd` only and never reset; no
property says otherwise, since nothing in the repository does.

### EasyLoop and SurfaceOutputs

`pc` says where nwl_easy is: in the first roundtrip of nwl_easy_init (`init`) or
the second (`filling`), walking the outputs (`announcing`), in the roundtrip that
announce_outputs makes on its way (`roundtrip`), waiting (`polling`), between the
events of a batch (`batch`) or in wl_display_dispatch (`dispatch`). Handlers of the
compositor's events run in four of these (`Handling`), so an output may come, be
described or go in the middle of the walk that announces outputs.

| Action | Code |
|---|---|
| `OutputAdd`, `SeatAdd`, `ManagerAdd`, `OutputRemove`, `SeatRemove` | handle_global_add and handle_global_remove |
| `OutputDone`, `OutputChanged` | the done events of an output, as an answer or by themselves |
| `GlobalsListed`, `InitEnds` | nwl_easy_init after its first and second roundtrip |
| `BeginRoundtrip`, `EndRoundtrip`, `Announce`, `AnnounceEnds` | announce_outputs |
| `Poll`, `NextEvent`, `DispatchEnds`, `BatchEnds`, `Deinit` | nwl_easy_dispatch, nwl_easy_deinit |

`isDone` is the counter `is_done`; `owed` are the done events the compositor has
still to send for what it was asked. The two differ: a done event for another
reason counts as an answer. `cursor` and `ahead` are the walk: the output whose
turn it is and those after it. wl_list_for_each reads the successor after the
roundtrip, so a new output, linked at the head, is behind the walk; `late` are
those outputs. `polled` are the descriptors with a `nwl_poll_data`, `reported` the
events in `poll.ev` whose turn is still to come. `devices` are the seats with a data
device, `listened` those whose data device has the listener: nwl_easy_init makes one
without it for the seats the registry listed before the manager (`listed`). A seat
may be removed at any time, also while the event of its timer is in the batch; its
poll data is freed then, and the model reads it as it was (hazard H33).

About the compositor it is assumed that it answers requests in order, so that a
roundtrip brings the answers to what was asked before it (`RoundtripOver`), that
answers to requests sent together come together, and that managers are announced in
the first roundtrip. `SurfaceOutputs` adds one surface and a subsurface that is
attached to it at some time (`attachedAt` keeps the surface's scale at that moment;
nwl_surface_role_subsurface does not pass it on): the surface's `array` of outputs,
`scale` and `preferred`, and `shownOn`, where the compositor said the surface is.
Its steps are handlers that run at `Handling` too, or a step of `EasyLoop`
(`GlobalsStep`), so enters, leaves and removals come between any two steps of an
announcement.

Three constants name what the code does not withstand. All are FALSE in the run;
no text of the repository excludes them, so they are hazards and not findings.

- `WalkedMayLeave`: an output is removed during the roundtrip of its own
  announcement. The walk goes on from freed memory, and `TypeOK` fails.
- `RemovedWhileShown`: an output is removed that the surface has not left. The
  array keeps the freed output, and `ArrayIsShownOn` fails.
- `UnsetWhileShown`: a role is unset while the surface is on an output. The new
  wl_surface is on none, the array still is, and `ArrayIsShownOn` fails.

## Runs

| Run | Question | Instance |
|---|---|---|
| `surface_safety` | Does an application that keeps the contract lose an update or a destroy, see an update too early, or leave counts, links or callbacks behind? | 2 surfaces, nesting 2, all roles and none; 2.3 million states |
| `surface_live` | Does the code implement the service: are doomed and marked surfaces served, and does the loop end? | 2 surfaces, nesting 1, layer roles and none, one with `impl.configure`; 78 thousand states |
| `surface_ask_again` | as above, with `AskAgain` | violation |
| `surface_role_change` | with `RoleWhileWaiting` | violation |
| `surface_nested_destroy` | with `DestroyInUpdate` | violation |
| `renderer` | Is the memory drawn into free and mapped, and is the last frame kept? | 3 buffers, 2 sizes and 0, 2 scales; 616 thousand states |
| `renderer_pool` | Is there always a pool after a resize? | violation |
| `renderer_scale` | Is every scale change applied? | violation |
| `seat_focus` | Are a seat's focuses live, the compositor's, and told of, are keys repeated to the focus that holds them, and do changed buttons show? | 3 surfaces, 1 button, 1 unknown button; 1.6 million states |
| `data_device` | Is each offer owned once, and do the slots hold what was said last? | 3 surfaces, 2 of them with `impl.dnd`, 4 offers, 2 types; 149 thousand states |
| `easy_loop` | Is each output announced once it is described, do the managers' objects reach all, and do the outputs and the scale of a surface and its subsurface follow? | 2 outputs, 2 seats, 2 scales, 1 surface with a subsurface; 6.9 million states |
| `drop_target` | Do drag events go to surfaces that exist? | violation |

Properties of the surface runs:

- `NoLostUpdate`, `NoLostDestroy`: what was asked for always has something that
  will bring it (callback, configure, deferral, dirty link).
- `LinkedMeansFlagged`, `PassCursorLinked`: the flag and the list agree, and the
  iterator's saved successor is still linked.
- `SurfaceCount`, `NoneLeftBehind`: counts and ownership through destroys of whole
  trees.
- `CallbackOwned` (about steps): a frame callback is left behind only by the end or
  role_unset of a surface that drew without a role.
- `Throttled`, `MapsConfigured` (about steps): no update under a pending callback,
  configure or deferral; no buffer before the configure of the role, and no
  acknowledge with a serial of a former one.
- `ServiceSafe`, `ServiceLive` (in `surface_live`): `NwlSurface` implements
  `UpdateService`.
- `LoopStops` (liveness), for applications that at some time give no further roles:
  each toplevel counts in `num_surfaces` again.

Properties of the renderer runs: `DrawsIntoFreeMemory`, `SlotsFitPool`,
`ShowsLastFrame`, `NullOnlyWhenFull`, `OutputChangesApplied`.

Properties of the seat runs: `FocusLive` (no pointer of the seat to a destroyed
surface), `FocusAgrees` (events reach the surface the compositor means), `FocusTold`
(each told focus is told to end, but for pointer focuses that were left and replaced
in one frame), `NoStaleButtons` (no press from before the pointer left, when it
comes straight back); `OffersOwned` (no leak, no double destroy), `SelectionKnown`,
`DropKnown` (the slots are what the compositor last said, with its types),
`DragTargetLive` (the violation run's); `RepeatHeld` (the timer repeats to the
surface that holds the key), `PreviousFollows` (`buttons_prev` shows each change).

Properties of the loop's run: `DescribedWhenAnnounced`, `NoneForgotten` (no output
is left unannounced when the loop waits; the exception it names is an output bound
during an announcement, which waits for the next because has_new_outputs is
cleared at the end), `ManagersReachAll` (with the exception it names: seats of the
first roundtrip may have a data device that nobody listens to), `ArrayIsShownOn`,
`ScaleFollows` (the surface's scale), `SubsurfaceFollows` (the subsurface's, as far
as it is told of changes: a preferred scale is not passed on, and the parent's
scale at the time of attachment neither).

**Bounds.** Two surfaces give a parent and a child, the current and the next element
of a pass, and a destroy that takes the cursor's element. Nesting 2 gives an update
inside the pass's own update. The safety theorems hold for any number of surfaces
and any nesting, so the small instance is only a first check of them. The liveness
run has one level of nesting and layer roles only, because TLC checks liveness
without symmetry; layer surfaces have both kinds of configure. There
`nwl_surface_role_unset` is not called for a surface that drew without a role
(`NoStray`: a callback that was left behind is one of a surface that is gone); the
safety run has no such bound. `UIntRange = 3` stands for 2^32: small enough to wrap,
larger than the number of surfaces. In the renderer three buffers (the code has
four) allow one held, one kept from before a resize and one new; sizes and scales of
1 and 2 give geometries of 1, 2 and 4 units, of which two coincide in bytes but not
in geometry, and `ShrinkLimit = 2` makes both outcomes of the shrink test happen.
Three surfaces give a focus, a previous focus and one more, which a callback
destroys or the keyboard is in; one named button is enough, since buttons do not
affect one another; of the three surfaces of a drag one has no `impl.dnd`; four
offers fill the three slots and leave one to arrive. The seat's theorems hold for
any number of each. Two outputs are one the walk of announce_outputs is at and one
ahead of it, behind it, or bound meanwhile; two seats give one the registry lists
before the manager and one after, and a batch with the display and two timers. Two
scales and one subsurface suffice for a scale that changes, before or after the
subsurface is attached, is preferred, or is the larger of two. The theorems on
`EasyLoop` hold for any number of outputs and seats.

**Fairness.** Weak fairness for the pass's own steps and for deinit (`LoopStep`):
the code runs on. Strong fairness for the end of a batch of events (a batch is
finite) and for the return of an update at each depth (the application's callback
returns, however often it calls nwl). An update that deferred itself requests its
callback before it returns. After a display error the descriptor stays readable, so
the error is reported again at the next poll. No fairness is assumed for the
compositor or for any request of the application: `ServiceLive` therefore ends when
a frame callback or a configure is awaited, and `LoopStops` assumes that the
application does not keep the dirty pass busy for ever.

## Findings

1. `surface_ask_again` (`src/wayland.c:405`): a `destroy_later` or
   `set_need_update` by the update the pass is running is unlinked when the update
   returns. Shown on a surface that destroys itself later from its own update: it
   never is.
2. `surface_role_change` (`src/wayland.c:402`): the pass does not look at
   NEEDS_CONFIGURE, and a dirty link survives `role_unset`.
3. `surface_nested_destroy` (`src/wayland.c:396`): only the destroy branch of the
   pass starts over.
4. `renderer_pool` (`src/shm.c:36`): `pool.size` outlives the pool. Setting a
   subsurface to the size it has, while a buffer is with the compositor, makes the
   next buffer in a NULL pool.
5. `renderer_scale` (`src/surface.c:43`): a preferred scale does not set
   NEEDS_APPLY_SIZE.
6. `drop_target` (`src/seat.c:878`): the "clear any focuses" of
   `nwl_surface_destroy` (`src/surface.c:200`) does not clear
   `data_device.event.focus_surface`.

## Proofs

`NwlSurfaceProofs` and `NwlSurfaceTreeProofs` prove the safety properties of
`NwlSurface` for every finite set of surfaces, every `MaxDepth`, `Globals` and
`ConfigureImpl`, each under as little of the contract as it needs:

| Hypothesis | Properties |
|---|---|
| none | `CallbackOwned` |
| `~DestroyInUpdate` | `TypeOK`, `LinkedMeansFlagged`, `PassCursorLinked`, `SurfaceCount`, `NoneLeftBehind` |
| `~DestroyInUpdate`, `~AskAgain` | `NoLostUpdate`, `NoLostDestroy` |
| `~DestroyInUpdate`, `~RoleWhileWaiting` | `Throttled`, `MapsConfigured` |
| all three | `ServiceSafe` |

So each clause of the contract protects exactly what its violation run
(findings 1 to 3) shows broken. `~DestroyInUpdate` stays in all but one: after a
destroy under the pass's cursor the code reads freed memory, and the model says
nothing of what comes then.

The properties are not inductive alone. `NoLostUpdate` speaks of the surface the
pass serves, so the invariant has to say what a running update is: that of a live
surface (`UpdatingInv`). `PassInv` ties `nxt`, `todo` and `dirty`
together: the saved successor is one of the surfaces to do, and those are linked.
`AwaitInv` says that a surface which awaits its configure is drawing nothing, that
no frame callback names it, pending or left behind, and that a link it has is there
to destroy it (otherwise the pass or `cb_done` could start an update before the
configure), and `SerialInv` that the serial of a former role waits for the next
configure; a shell role for a surface that is linked or awaits a frame breaks the
first, so they hold under `~RoleWhileWaiting`, and
`NoLostUpdate` and `NoLostDestroy` under `~AskAgain`. `IInv` is the conjunction,
with these implications in it: the proof that a step preserves it is one proof,
with a step for each action, and never uses a clause for a part that does not
need it.

`TreeInv` adds the tree. `Subtree(s)` is defined as the smallest set that holds s
and the children of what it holds, without recursion, so it can be reasoned about
directly. `ReachInv` says the same of the roots: whatever contains the roots and
is closed under children contains every live surface. This is what a destroy, a
role change or a re-parenting has to preserve, and from it `nwl_core_deinit`
leaves nothing. Counting uses the cardinality theorems of the library on
`CountedIn`.

`NwlSurfaceServiceProofs` proves the refinement (`Implements`): lemmas show which
abstract step each handler, call and pass step of the code is, under `IInv` and
`HomeInv`. `NoLostUpdate` is what makes the return of an update a legal `Return`;
`AwaitInv` what makes the pass's update a legal `Serve`; and the clause
`~AskAgain` what lets a request made during a pass reach the queue.

`SeatFocusProofs` proves `TypeOK` and `FocusLive` of every compositor and
application: `FocusLive` is inductive with the type of `live`, since each pointer
is forgotten by the destroy itself and PointerFrame reads its own after the
callback. `FocusAgrees` is proved under `~SuddenLoss`, with two facts more: a
device that is absent is nowhere (`AbsentInv`), and a focus about to end belongs
to an open frame, with the pointer in no surface that exists (`AwayInv`).
`FocusTold` and `NoStaleButtons` follow with it, for frames of any
shape: a focus about to end is one this frame left (`AwayInv` again), so a surface
that is replaced within a frame is in `overtaken`; and `pointer_prev_focus`, or the
focus that the open frame will make it, is the surface the compositor left last
unless another was entered in that frame (`LeftInv`), which is what lets
handle_pointer_enter decide about the buttons.

`DataDeviceProofs` proves `TypeOK`, `OffersOwned`, `SelectionKnown` and `DropKnown`
without a contract, with one fact more: the incoming slot is the offer the
compositor introduced, with its types (`IncomingKnown`). With none either,
`DragFollows`: a drag over a surface with `impl.dnd` is told to that surface, so a
stale focus_surface is used only over surfaces without one.

`SeatInputProofs` shows first that `SeatInput` refines `SeatFocus`
(`InputRefinesFocus`), so the theorems above hold there, and then proves
`RepeatHeld` under `~SuddenLoss` and `PreviousFollows` with no hypothesis. `RepeatHeld`
rests on `FocusAgrees`: a keyboard enters only when no focus is left, and a timer
that is still set then belongs to a surface that is gone.

`EasyLoopProofs` proves `TypeOK`, `DescribedWhenAnnounced`, `NoneForgotten` and
`ManagersReachAll` for any finite sets of outputs and seats under `~WalkedMayLeave`.
`IInv` says which variables are
empty where (`PhaseInv`), that `is_done` is no less than the answers under way
except in the second roundtrip of nwl_easy_init (`DoneInv`), that a walk which
has made its roundtrip has all answers for the outputs ahead (`TrippedInv`, why
one roundtrip is enough), and that an output which is not announced is known to
the flag or the walk, or late (`PendingInv`). `OutputsRefineLoop` shows that
`SurfaceOutputs` takes nothing from the loop, so the same holds beside it.

The same module proves `ArrayIsShownOn`, `ScaleFollows` and `SubsurfaceFollows` of
`SurfaceOutputs`, for any finite set of outputs and any scales, under
`~RemovedWhileShown /\ ~UnsetWhileShown`; they need nothing of the loop but that its
steps bring no output of another name. `ArrayInv` adds that no output is in the
array twice. That makes the copy loop of handle_surface_leave right: what it leaves
out is one place (`WithoutShape`), so what it allocates, one place less, is filled
to the end. `ScaleInv` adds that a subsurface that is not attached has the scale it
began with. `LoopFindsLargest` is about the loop of surface_autoscale, a recursive
function over the array: that it is defined for every array and ends with the
largest scale, each by the least round of which that is false.

`CairoRendererProofs` is in two layers, for every table of geometries (`Bytes`,
`Spare`), every number of slots and every shrink limit.

- `Layout` says where memory is: the slots that may be handed out (`Current`) are
  in the present file, mapped, at the place their index and geometry give, and
  the pool is as large as all of them (`Fits`). Each operator of `ShmBuffers` has a
  lemma that says what it makes of this: `PoolFinishShape`, `PoolSetSizeShape`,
  `ResizeShape`, `SetSlotsShape`, `TakeShape`. The layer needs no hypothesis, and
  gives `TypeOK` and `SlotsFitPool` also for applications that choose slot counts
  or unset roles whenever they like. The arithmetic (products are monotone, one
  slot fits before the next begins, a free slot has a first one) is in lemmas of
  its own.
- `IInv` says whose memory it is: the `acquired` flag is set exactly where the
  compositor has the wl_buffer, what it has of the present file is a current slot
  and not an orphan (`Owned`), the buffer being drawn is current and not held
  (`NextIsFree`), and the previous buffer is current and shows the frame submitted
  last (`PrevIsLast`), which is what a copy from it starts from. From it follow
  `DrawsIntoFreeMemory`, `ShowsLastFrame` and `NullOnlyWhenFull`, under
  `~SlotsAnyTime` only: a slot count chosen between get_surface and submit remaps
  the memory being drawn into, and then `NextIsFree` is false.

`OutputChangesApplied` needs `~RoleReuse`: a role_unset of a surface that has
buffers would break it. What all of these say is said of states before `crashed`, so
`FailuresAreKnown` states when that can be: where the surface's size is 0, where no
size was applied since the renderer was initialised, or where the compositor has a
buffer, so that a resize closes the pool, and the new size is exactly the old
`pool.size`. For surfaces with a size that was applied, finding 4 is thus the only way to a
missing pool.

What is not proved is checked by TLC only: `ServiceLive` and `LoopStops`, which
are about fairness, out of the prover's reach. Every invariant and action
property of a passing run is the conclusion of a theorem.

## Plan

Done: every module of the table, checked and proved.

Next: the handshake of a role (configure, acknowledge, first buffer) as an abstract
specification of its own that `NwlSurface` refines, which would state
`MapsConfigured` and `Throttled` as one protocol; and, of the renderer, that a
resize with no buffer in use leaves no orphan and no larger pool than the shrink
test asks for.

## Not modelled

What other calls to nwl an `impl.destroy` makes in the middle of a destroy, and that
of deinit or of a destroy by the application (the surfaces it destroys in the dirty
pass are modelled); `cb_done` on the memory of a surface that is gone; the resize of
a cursor or drag icon to its desired size (`src/seat.c:378`); drawing, titles, app
ids, decoration modes, toplevel state bits, bounds and popup positions (data without
control); `nwl_surface_update` called directly by the application (it bypasses the
scheduling it would be checked against); the NO_AUTOSCALE flag; motion and axis
values; the application's own descriptors and its filter of globals
(`events.global_add`); failing roundtrips and poll errors; the mode, name and
position of outputs; failures of memfd and mmap; the list of shm formats; cursor
themes and shapes; touch; several seats at once; a surface that loses its role while
it has a focus; xkb keymaps and compose tables; `nwl_core_sub` lists; the Zig
bindings; build files. libwayland, the compositor and the application appear through
the events and calls they make.
