----------------------------- MODULE NwlSurface -----------------------------
(***************************************************************************)
(* Surface lifetime, update scheduling and the dirty-list pass of nwl      *)
(* (src/surface.c, src/shell.c and the loop of src/wayland.c).             *)
(*                                                                         *)
(* One thread runs everything, so the interleavings are those of           *)
(* callbacks: the event loop calls a handler or visits a dirty surface,    *)
(* the handler runs a surface's impl.update, and that application code     *)
(* calls back into nwl, which may run a further impl.update inside it.     *)
(* `stack' holds the surfaces whose impl.update is running.                *)
(***************************************************************************)
EXTENDS Naturals, Sequences, FiniteSets

CONSTANTS
  Surfaces,        \* the struct nwl_surface objects; each is initialised once
  NoSurface,       \* NULL
  MaxDepth,        \* bound on nested impl.update calls
  UIntRange,       \* stands for 2^32, the range of core->num_surfaces
  Globals,         \* the globals the compositor announced and nwl bound
  RunWithZero,     \* what the application sets run_with_zero_surfaces to
  ConfigureImpl,   \* the surfaces whose application sets impl.configure
  \* What the application is allowed to do.  With all three FALSE it keeps
  \* the contract under which the invariants hold; each TRUE drops one clause.
  AskAgain,        \* ask for an update or a destroy of the surface the dirty
                   \* pass is updating right now
  RoleWhileWaiting, \* give a role that awaits a configure event to a surface
                   \* that is linked or waits for a frame event
  DestroyInUpdate  \* call nwl_surface_destroy inside a dirty-pass update

ASSUME SurfacesAssumption == IsFiniteSet(Surfaces) /\ NoSurface \notin Surfaces
ASSUME BoundsAssumption ==
  /\ MaxDepth \in Nat \ {0}
  /\ UIntRange \in Nat /\ UIntRange > Cardinality(Surfaces)
ASSUME ContractAssumption ==
  /\ ConfigureImpl \subseteq Surfaces /\ RunWithZero \in BOOLEAN
  /\ Globals \subseteq {"xdg_wm_base", "layer_shell", "wl_subcompositor", "wl_seat"}
  /\ AskAgain \in BOOLEAN /\ RoleWhileWaiting \in BOOLEAN /\ DestroyInUpdate \in BOOLEAN

VARIABLES
  live,            \* initialised and not yet destroyed
  gone,            \* destroyed
  role,            \* surface->role_id
  parent,          \* the surface whose subsurfaces list holds surface->link;
                   \* NoSurface: core->surfaces holds it
  needUpdate,      \* NWL_SURFACE_STATE_NEEDS_UPDATE
  needConfigure,   \* NWL_SURFACE_STATE_NEEDS_CONFIGURE
  doomed,          \* NWL_SURFACE_STATE_DESTROY
  deferred,        \* surface->defer_update
  frameCb,         \* surface->wl.frame_cb is not NULL
  stray,           \* a wl_callback that names the surface, and that its frame_cb
                   \* does not name, still exists.  Of several only that there
                   \* is one is kept.
  serial,          \* surface->configure_serial: 0, of this role, of an old role
  dirty,           \* surface->dirtlink is in core->surfaces_dirty
  hasDirty,        \* core->has_dirty_surfaces
  todo,            \* dirty surfaces that this pass has not visited
  nxt,             \* `stmp' of wl_list_for_each_safe: the surface to visit next
  stack,           \* running impl.update calls, the outermost first
  pc,              \* where nwl_easy_run is
  numSurfaces,     \* core->num_surfaces
  runWithZero,     \* easy->run_with_zero_surfaces
  errored          \* easy->has_errored

lifeVars  == <<live, gone, role, parent, numSurfaces>>
stateVars == <<needUpdate, needConfigure, doomed, deferred>>
wlVars    == <<frameCb, stray, serial>>
passVars  == <<todo, nxt, pc>>
dirtVars  == <<dirty, hasDirty>>
easyVars  == <<runWithZero, errored>>
vars == <<lifeVars, stateVars, wlVars, passVars, dirtVars, easyVars, stack>>

ShellRoles   == {"toplevel", "popup", "layer"}
CountedRoles == {"toplevel", "layer"}

\* "seat" is NWL_SURFACE_ROLE_CURSOR or NWL_SURFACE_ROLE_DRAGICON.
Roles        == ShellRoles \cup {"none", "sub", "seat"}

-----------------------------------------------------------------------------
(* Who runs. *)

\* The loop is reading events and no handler is running.
EventTurn == pc = "events" /\ stack = <<>>

\* Application code is running: in a handler, between nwl calls, or in an
\* impl.update.
ClientTurn == pc = "events" \/ stack # <<>>

Running == stack[Len(stack)]

\* the surfaces whose impl.update is running
Updating == {stack[i] : i \in DOMAIN stack}

\* the surface whose impl.update the dirty pass called: when that returns, the
\* pass unlinks the surface
Serving == IF pc = "dirt" /\ stack # <<>> THEN {stack[1]} ELSE {}

-----------------------------------------------------------------------------
(* A Bad... definition is a faulty form of the one that follows it; no action *)
(* uses it.  It shows that a property can see the fault.                      *)

(* surface.c: asking for an update or a destroy. *)

\* nwl_surface_update
Update(s) ==
  /\ Len(stack) < MaxDepth
  /\ needUpdate' = needUpdate \ {s}
  /\ stack' = Append(stack, s)

\* surface_mark_dirty.  A new link goes to the head of the list, behind the
\* pass's cursor, so `todo' never gains a surface.
MarkDirty(s) == dirty' = dirty \cup {s} /\ hasDirty' = TRUE

BadBlockedIgnoresDefer(s, awaiting) == s \in frameCb \cup awaiting

\* The early return of nwl_surface_set_need_update; `awaiting' are the surfaces
\* with NEEDS_CONFIGURE at the time of the call.
Blocked(s, awaiting) == s \in frameCb \cup deferred \cup awaiting

\* nwl_surface_set_need_update
RequestUpdate(s, now, awaiting) ==
  \/ /\ Blocked(s, awaiting)
     /\ needUpdate' = needUpdate \cup {s}
     /\ UNCHANGED <<stack, dirtVars>>
  \/ /\ ~Blocked(s, awaiting) /\ now
     /\ Update(s)
     /\ UNCHANGED dirtVars
  \/ /\ ~Blocked(s, awaiting) /\ ~now
     /\ needUpdate' = needUpdate \cup {s}
     /\ MarkDirty(s)
     /\ UNCHANGED stack

BadForgetCallback(s) == frameCb' = frameCb \ {s} /\ stray' = stray \cup (frameCb \cap {s})

\* wl_callback_destroy(frame_cb); frame_cb = NULL
CancelCallback(s) == frameCb' = frameCb \ {s} /\ UNCHANGED stray

\* frame_cb goes, in the surfaces of T, without wl_callback_destroy where
\* nwl_surface_destroy_role returned at once: where there is no role.
DropCallbacks(T) ==
  /\ frameCb' = frameCb \ T
  /\ stray' = stray \cup {t \in T \cap frameCb : role[t] = "none"}

\* nwl_surface_destroy_later, which returns at once for a doomed surface
Doom(s) ==
  /\ s \notin doomed
  /\ doomed' = doomed \cup {s}
  /\ CancelCallback(s)
  /\ MarkDirty(s)
  /\ UNCHANGED <<lifeVars, needUpdate, needConfigure, deferred, serial,
                 passVars, easyVars, stack>>

-----------------------------------------------------------------------------
(* surface.c: destruction. *)

BadOnlyItself(s) == {s}

\* s, its subsurfaces, theirs, and so on: what nwl_surface_destroy takes
Subtree(s) ==
  {t \in Surfaces : \A C \in SUBSET Surfaces :
     (s \in C /\ \A u \in live : parent[u] \in C => u \in C) => t \in C}

BadCountPopups(T) == {t \in T : role[t] \in ShellRoles}

\* the surfaces whose role nwl_surface_destroy_role takes off num_surfaces
CountedIn(T) == {t \in T : role[t] \in CountedRoles}

BadSignedMinus(n, k) == n - k

\* num_surfaces is a uint32_t: it wraps
Minus(n, k) == IF k <= n THEN n - k ELSE n + UIntRange - k

\* nwl_surface_destroy and nwl_surface_destroy_role of every surface in T.
\* The pass's cursor is not adjusted, only the links are.
DestroyTree(T) ==
  /\ live' = live \ T
  /\ gone' = gone \cup T
  /\ role' = [t \in Surfaces |-> IF t \in T THEN "none" ELSE role[t]]
  /\ parent' = [t \in Surfaces |-> IF t \in T THEN NoSurface ELSE parent[t]]
  /\ needUpdate' = needUpdate \ T
  /\ needConfigure' = needConfigure \ T
  /\ doomed' = doomed \ T
  /\ deferred' = deferred \ T
  /\ DropCallbacks(T)
  /\ serial' = [t \in Surfaces |-> IF t \in T THEN "none" ELSE serial[t]]
  /\ dirty' = dirty \ T
  /\ numSurfaces' = Minus(numSurfaces, Cardinality(CountedIn(T)))

-----------------------------------------------------------------------------
(* What the application calls. *)

\* Clause 1 of the contract: the pass unlinks the surface it serves when the
\* update returns, so a request to link it again is not made meanwhile.
MayAskAgain(s) == AskAgain \/ s \notin Serving

\* Clause 2: nothing that would start an update before the configure event, a link
\* or a frame event, is older than the shell role.  No impl.update gives its own
\* surface such a role, only to draw on.
MayAwait(s) ==
  s \notin Updating /\ (RoleWhileWaiting \/ s \notin dirty \cup frameCb \cup stray)

\* Clause 3: no destroy under the pass's cursor, nor under a running update.
MayDestroy(s) ==
  \/ pc = "events" /\ Subtree(s) \cap Updating = {}
  \/ DestroyInUpdate /\ ClientTurn

\* nwl_surface_init
SurfaceInit(s) ==
  /\ ClientTurn
  /\ s \notin live \cup gone
  /\ live' = live \cup {s}
  /\ UNCHANGED <<gone, role, parent, numSurfaces, stateVars, wlVars, passVars,
                 dirtVars, easyVars, stack>>

ShellOf(r) == IF r = "layer" THEN "layer_shell" ELSE "xdg_wm_base"

\* The common part of the role functions: they return false when the surface
\* has a role.
GiveRole(s, r) ==
  /\ ClientTurn
  /\ s \in live /\ role[s] = "none"
  /\ role' = [role EXCEPT ![s] = r]
  /\ UNCHANGED <<live, gone, needUpdate, doomed, deferred, wlVars, passVars,
                 dirtVars, easyVars, stack>>

BadAssumeConfigured(s) == UNCHANGED needConfigure

AwaitConfigure(s) == MayAwait(s) /\ needConfigure' = needConfigure \cup {s}

\* nwl_surface_role_toplevel, nwl_surface_role_layershell
RoleCounted(s) ==
  /\ \E r \in CountedRoles : ShellOf(r) \in Globals /\ GiveRole(s, r)
  /\ AwaitConfigure(s)
  /\ numSurfaces' = IF numSurfaces + 1 = UIntRange THEN 0 ELSE numSurfaces + 1
  /\ UNCHANGED parent

\* nwl_surface_role_popup: the xdg parent has to be an xdg or layer surface,
\* but the popup's link stays in core->surfaces.
RolePopup(s) ==
  /\ ShellOf("popup") \in Globals
  /\ \E p \in live \cup {NoSurface} : p # NoSurface => role[p] \in ShellRoles
  /\ GiveRole(s, "popup")
  /\ AwaitConfigure(s)
  /\ UNCHANGED <<numSurfaces, parent>>

\* nwl_surface_role_subsurface.  The compositor refuses a surface's own
\* descendant as its parent (bad_parent).
RoleSubsurface(s, p) ==
  /\ "wl_subcompositor" \in Globals
  /\ p \in live \ Subtree(s)
  /\ GiveRole(s, "sub")
  /\ parent' = [parent EXCEPT ![s] = p]
  /\ UNCHANGED <<numSurfaces, needConfigure>>

\* The role of nwl_seat_set_pointer_surface or nwl_seat_start_drag, which take a
\* surface without one or with the one they gave it, and update it.
RoleSeat(s) ==
  /\ "wl_seat" \in Globals
  /\ ClientTurn
  /\ s \in live /\ role[s] \in {"none", "seat"}
  /\ role' = [role EXCEPT ![s] = "seat"]
  /\ RequestUpdate(s, TRUE, needConfigure)
  /\ UNCHANGED <<live, gone, parent, numSurfaces, needConfigure, doomed, deferred,
                 wlVars, passVars, easyVars>>

\* nwl_surface_role_unset.  states = 0, but configure_serial and the dirty link
\* stay; a subsurface's link goes back to core->surfaces.  It does not ask whether
\* there is a role: the memset of surface->wl is what drops frame_cb.
RoleUnset(s) ==
  /\ ClientTurn
  /\ s \in live
  /\ role' = [role EXCEPT ![s] = "none"]
  /\ parent' = [parent EXCEPT ![s] = NoSurface]
  /\ numSurfaces' = Minus(numSurfaces, Cardinality(CountedIn({s})))
  /\ needUpdate' = needUpdate \ {s}
  /\ needConfigure' = needConfigure \ {s}
  /\ doomed' = doomed \ {s}
  /\ DropCallbacks({s})
  /\ serial' = [serial EXCEPT ![s] = IF @ = "none" THEN @ ELSE "stale"]
  /\ UNCHANGED <<live, gone, deferred, passVars, dirtVars, easyVars, stack>>

\* nwl_surface_set_need_update, called by the application
SetNeedUpdate(s, now) ==
  /\ ClientTurn
  /\ s \in live
  /\ MayAskAgain(s) \/ now \/ Blocked(s, needConfigure)
  /\ RequestUpdate(s, now, needConfigure)
  /\ UNCHANGED <<lifeVars, needConfigure, doomed, deferred, wlVars, passVars,
                 easyVars>>

\* nwl_surface_destroy_later, called by the application
DestroyLater(s) ==
  /\ ClientTurn
  /\ s \in live
  /\ MayAskAgain(s)
  /\ Doom(s)

\* nwl_surface_destroy, called by the application
Destroy(s) ==
  /\ ClientTurn
  /\ s \in live
  /\ MayDestroy(s)
  /\ DestroyTree(Subtree(s))
  /\ UNCHANGED <<hasDirty, passVars, easyVars, stack>>

-----------------------------------------------------------------------------
(* What an impl.update does to its own surface. *)

\* The topmost callback is that of s, and s was not destroyed under it.
InUpdateOf(s) == stack # <<>> /\ Running = s /\ s \in live

\* nwl_surface_request_callback, without a buffer
RequestCallback(s) ==
  /\ InUpdateOf(s)
  /\ frameCb' = frameCb \cup {s}
  /\ UNCHANGED <<lifeVars, stateVars, stray, serial, passVars, dirtVars, easyVars, stack>>

\* nwl_surface_buffer_submitted, and the wl_surface.commit that follows it:
\* frame callback, then the acknowledge when a serial is held
BufferSubmitted(s) ==
  /\ InUpdateOf(s)
  /\ frameCb' = frameCb \cup {s}
  /\ serial' = [serial EXCEPT ![s] = "none"]
  /\ UNCHANGED <<lifeVars, stateVars, stray, passVars, dirtVars, easyVars, stack>>

\* defer_update = true, `for preventing recursive calls into the update
\* function'
Defer(s) ==
  /\ InUpdateOf(s)
  /\ s \notin deferred
  /\ deferred' = deferred \cup {s}
  /\ UNCHANGED <<lifeVars, needUpdate, needConfigure, doomed, wlVars, passVars,
                 dirtVars, easyVars, stack>>

\* The topmost impl.update returns.  It drops its deferral, and an update asked
\* for meanwhile needs a frame callback: nothing else will bring it.  When it
\* was the pass's own call, handle_dirty_surfaces now unlinks the surface.
UpdateReturns ==
  /\ stack # <<>>
  /\ Running \in deferred \cap needUpdate => Running \in frameCb
  /\ stack' = SubSeq(stack, 1, Len(stack) - 1)
  /\ deferred' = deferred \ {Running}
  /\ dirty' = IF pc = "dirt" /\ Len(stack) = 1 THEN dirty \ {Running} ELSE dirty
  /\ UNCHANGED <<lifeVars, needUpdate, needConfigure, doomed, wlVars, passVars,
                 hasDirty, easyVars>>

-----------------------------------------------------------------------------
(* What the compositor sends. *)

Event(s) == EventTurn /\ ~errored /\ s \in live

BadPointless(s, sizeChanged) == ~sizeChanged

\* `Pointless configure? No need to do an update! ... unless an update was
\* explicitly requested.'
Pointless(s, sizeChanged) == ~sizeChanged /\ s \notin needUpdate

\* handle_layer_configure
LayerConfigure(s, sizeChanged) ==
  /\ Event(s) /\ role[s] = "layer"
  /\ serial' = [serial EXCEPT ![s] = "fresh"]
  /\ needConfigure' = needConfigure \ {s}
  /\ IF s \in ConfigureImpl \/ Pointless(s, sizeChanged)
     THEN UNCHANGED <<needUpdate, stack, dirtVars>>
     ELSE RequestUpdate(s, TRUE, needConfigure \ {s})
  /\ UNCHANGED <<lifeVars, doomed, deferred, frameCb, stray, passVars, easyVars>>

\* handle_surface_configure
XdgConfigure(s) ==
  /\ Event(s) /\ role[s] \in {"toplevel", "popup"}
  /\ serial' = [serial EXCEPT ![s] = "fresh"]
  /\ needConfigure' = needConfigure \ {s}
  /\ RequestUpdate(s, TRUE, needConfigure \ {s})
  /\ UNCHANGED <<lifeVars, doomed, deferred, frameCb, stray, passVars, easyVars>>

\* handle_layer_closed, and handle_toplevel_close without an impl.close
Closed(s) == Event(s) /\ role[s] \in CountedRoles /\ Doom(s)

\* handle_popup_done: destroyed at once
PopupDone(s) ==
  /\ Event(s) /\ role[s] = "popup"
  /\ DestroyTree(Subtree(s))
  /\ UNCHANGED <<hasDirty, passVars, easyVars, stack>>

\* What is left behind when a callback of s fires.  cb_done sets frame_cb to NULL
\* whichever callback it is called for: if it is a stray one, the callback that
\* frame_cb named is stray now.
LeftAfterDone(s) ==
  \/ s \in frameCb /\ stray' = stray
  \/ s \in stray \ frameCb /\ stray' \in {stray, stray \ {s}}

\* cb_done.  With a surface that is gone it works on freed memory: the model has
\* no such step, CallbackOwned is about how far the code goes to prevent it.
FrameDone(s) ==
  /\ Event(s)
  /\ frameCb' = frameCb \ {s}
  /\ LeftAfterDone(s)
  /\ IF s \in needUpdate THEN Update(s) ELSE UNCHANGED <<needUpdate, stack>>
  /\ UNCHANGED <<lifeVars, needConfigure, doomed, deferred, serial, passVars,
                 dirtVars, easyVars>>

BadKeepRunning == UNCHANGED runWithZero

StopRunningWithZero == runWithZero' = FALSE

\* nwl_wayland_poll_display when wl_display_dispatch fails
DisplayError ==
  /\ EventTurn
  /\ errored' = TRUE
  /\ numSurfaces' = 0
  /\ StopRunningWithZero
  /\ UNCHANGED <<live, gone, role, parent, stateVars, wlVars, passVars,
                 dirtVars, stack>>

-----------------------------------------------------------------------------
(* The event loop and the dirty pass. *)

\* `stmp' when the elements still to visit are `rest'
Cursor(rest) == IF rest = {} THEN {NoSurface} ELSE rest

\* handle_dirty_surfaces is entered
BeginPass ==
  /\ pc' = "dirt"
  /\ hasDirty' = FALSE
  /\ todo' = dirty
  /\ nxt' \in Cursor(dirty)

\* the while condition of nwl_easy_run
LoopCheck ==
  /\ pc' = IF runWithZero \/ numSurfaces # 0 THEN "events" ELSE "stopped"
  /\ UNCHANGED <<hasDirty, todo, nxt>>

\* The batch of poll events is over: nwl_easy_dispatch looks at the flag.
EndEvents ==
  /\ EventTurn
  /\ IF hasDirty THEN BeginPass ELSE LoopCheck
  /\ UNCHANGED <<lifeVars, stateVars, wlVars, dirty, easyVars, stack>>

\* The pass reaches s, and loads `stmp' before it does anything with s.
Advance(s) ==
  /\ todo' = todo \ {s}
  /\ nxt' \in Cursor(todo \ {s})
  /\ UNCHANGED pc

Visit(s) == pc = "dirt" /\ stack = <<>> /\ nxt = s

BadLeavePass(s) == todo' = {} /\ nxt' = NoSurface /\ UNCHANGED <<pc, hasDirty>>

BadContinuePass(s) == Advance(s) /\ hasDirty' = TRUE

\* `This might have destroyed other surfaces. Start over to be safe!': the
\* impl.destroy of s may destroy any of `others'.
StartOver(s) == todo' = {} /\ nxt' = NoSurface /\ hasDirty' = TRUE /\ UNCHANGED pc

DirtDestroy(s) ==
  /\ Visit(s)
  /\ s \in doomed
  /\ \E others \in SUBSET (live \ {s}) : DestroyTree(UNION {Subtree(t) : t \in others \cup {s}})
  /\ StartOver(s)
  /\ UNCHANGED <<easyVars, stack>>

BadDueDoomed(s) == s \in needUpdate \ frameCb

BadDueWithCallback(s) == s \in needUpdate \ doomed

\* the else-if of handle_dirty_surfaces
Due(s) == s \in (needUpdate \ frameCb) \ doomed

DirtUpdate(s) ==
  /\ Visit(s)
  /\ Due(s)
  /\ Update(s)
  /\ Advance(s)
  /\ UNCHANGED <<lifeVars, needConfigure, doomed, deferred, wlVars, dirtVars, easyVars>>

DirtSkip(s) ==
  /\ Visit(s)
  /\ s \notin doomed /\ ~Due(s)
  /\ dirty' = dirty \ {s}
  /\ Advance(s)
  /\ UNCHANGED <<lifeVars, stateVars, wlVars, hasDirty, easyVars, stack>>

\* The list is exhausted: nwl_core_handle_dirt looks at the flag again.
PassEnds ==
  /\ pc = "dirt" /\ stack = <<>> /\ nxt = NoSurface
  /\ IF hasDirty THEN BeginPass ELSE LoopCheck
  /\ UNCHANGED <<lifeVars, stateVars, wlVars, dirty, easyVars, stack>>

\* nwl_core_deinit: every surface core->surfaces holds
Deinit ==
  /\ pc = "stopped"
  /\ DestroyTree(UNION {Subtree(s) : s \in {r \in live : parent[r] = NoSurface}})
  /\ pc' = "done"
  /\ UNCHANGED <<hasDirty, todo, nxt, easyVars, stack>>

Finished == pc = "done" /\ UNCHANGED vars

-----------------------------------------------------------------------------
Init ==
  /\ live = {} /\ gone = {}
  /\ role = [s \in Surfaces |-> "none"]
  /\ parent = [s \in Surfaces |-> NoSurface]
  /\ needUpdate = {} /\ needConfigure = {} /\ doomed = {} /\ deferred = {}
  /\ frameCb = {} /\ stray = {}
  /\ serial = [s \in Surfaces |-> "none"]
  /\ dirty = {} /\ hasDirty = FALSE
  /\ todo = {} /\ nxt = NoSurface /\ stack = <<>> /\ pc = "events"
  /\ numSurfaces = 0 /\ runWithZero = RunWithZero /\ errored = FALSE

ClientStep(s) ==
  \/ SurfaceInit(s)
  \/ RoleCounted(s)
  \/ RolePopup(s)
  \/ \E p \in Surfaces : RoleSubsurface(s, p)
  \/ RoleSeat(s)
  \/ RoleUnset(s)
  \/ \E now \in BOOLEAN : SetNeedUpdate(s, now)
  \/ DestroyLater(s)
  \/ Destroy(s)
  \/ BufferSubmitted(s)
  \/ RequestCallback(s)
  \/ Defer(s)

CompositorStep(s) ==
  \/ \E sizeChanged \in BOOLEAN : LayerConfigure(s, sizeChanged)
  \/ XdgConfigure(s)
  \/ Closed(s)
  \/ PopupDone(s)
  \/ FrameDone(s)

PassStep(s) == DirtDestroy(s) \/ DirtUpdate(s) \/ DirtSkip(s)

\* What the loop does of itself: when one of these may happen, nothing else may.
LoopStep == (\E s \in Surfaces : PassStep(s)) \/ PassEnds \/ Deinit

Next ==
  \/ \E s \in Surfaces : ClientStep(s) \/ CompositorStep(s)
  \/ UpdateReturns
  \/ DisplayError
  \/ EndEvents
  \/ LoopStep
  \/ Finished

Spec == Init /\ [][Next]_vars

\* The loop's own steps always go on; a batch of events is finite and every
\* impl.update returns, however often nwl is called in between; an update that
\* deferred itself asks for a frame callback before it returns; a dead display
\* keeps its descriptor readable, so the next poll reports it again.
Fairness ==
  /\ WF_vars(LoopStep)
  /\ SF_vars(EndEvents)
  /\ \A d \in 1..MaxDepth : SF_vars(UpdateReturns /\ Len(stack) = d)
  /\ \A s \in Surfaces : SF_vars(RequestCallback(s) /\ s \in deferred)
  /\ SF_vars(DisplayError /\ errored)

FairSpec == Spec /\ Fairness

-----------------------------------------------------------------------------
(* Properties. *)

TypeOK ==
  /\ live \subseteq Surfaces /\ gone \subseteq Surfaces /\ live \cap gone = {}
  /\ role \in [Surfaces -> Roles]
  /\ parent \in [Surfaces -> Surfaces \cup {NoSurface}]
  /\ needUpdate \subseteq live /\ needConfigure \subseteq live
  /\ doomed \subseteq live /\ deferred \subseteq live
  /\ frameCb \subseteq live /\ stray \subseteq Surfaces /\ dirty \subseteq live
  /\ serial \in [Surfaces -> {"none", "fresh", "stale"}]
  /\ hasDirty \in BOOLEAN /\ runWithZero \in BOOLEAN /\ errored \in BOOLEAN
  /\ todo \subseteq Surfaces /\ nxt \in Surfaces \cup {NoSurface}
  /\ stack \in Seq(Surfaces) /\ Len(stack) <= MaxDepth
  /\ pc \in {"events", "dirt", "stopped", "done"}
  /\ numSurfaces \in 0..(UIntRange - 1)

\* An update that was asked for is never forgotten: a surface with NEEDS_UPDATE
\* has a pending frame callback, configure event or deferral that brings it, or
\* it is on the dirty list and the pass is not about to unlink it.  (A layer
\* surface with an impl.configure asks for its own update.)
NoLostUpdate ==
  \A s \in needUpdate :
    \/ s \in frameCb \cup needConfigure \cup deferred
    \/ s \in dirty /\ s \notin Serving
    \/ s \in ConfigureImpl /\ role[s] = "layer"

\* A surface given to nwl_surface_destroy_later stays on the dirty list until it
\* is destroyed: the flag makes every later call return early, so a lost link
\* would never be made again.
NoLostDestroy == \A s \in doomed : s \in dirty /\ s \notin Serving

\* nwl_core's has_dirty_surfaces (`When true, call nwl_core_handle_dirt') is
\* never false while a dirty surface waits that the current pass will not reach.
LinkedMeansFlagged ==
  \A s \in dirty : hasDirty \/ s \in todo \/ s \in Serving

\* The element wl_list_for_each_safe loaded in advance is still linked when the
\* pass gets to it, whatever the update callback in between did.
PassCursorLinked ==
  /\ nxt # NoSurface => nxt \in todo
  /\ todo \subseteq dirty
  /\ pc # "dirt" => todo = {}

\* Until the display fails, num_surfaces is the number of live toplevels and
\* layer surfaces, so nwl_easy_run stops with the last of them and not before.
SurfaceCount ==
  ~errored => numSurfaces = Cardinality(CountedIn(live))

\* Every live surface hangs below a surface of core->surfaces, so what
\* nwl_core_deinit finds there is everything, and no surface outlives it.
NoneLeftBehind ==
  /\ \A s \in live : \E r \in live : parent[r] = NoSurface /\ s \in Subtree(r)
  /\ pc = "done" => live = {} /\ dirty = {}

\* No step leaves behind a wl_callback that still names a surface, with one
\* exception: destroying a surface without a role, or unsetting the role it does
\* not have, forgets the callback it drew with (nwl_surface_destroy_role returns
\* before wl_callback_destroy).  A surface that got its role before it drew is
\* reached by no frame event after its end.
CallbackOwned == [][\A s \in stray' \ stray : s \in frameCb /\ role[s] = "none"]_vars

\* No impl.update starts for a surface whose frame callback is pending, whose
\* role waits for its first configure, or that deferred its updates.
StartsUpdate == Len(stack') > Len(stack)
Throttled ==
  [][StartsUpdate => LET s == stack'[Len(stack')]
                     IN s \notin frameCb' \cup needConfigure' \cup deferred]_vars

\* A shell surface gets a buffer only after its role was configured, and never
\* acknowledges the serial of a role it lost.
MapsConfigured ==
  [][\A s \in live : BufferSubmitted(s) /\ role[s] \in ShellRoles
        => s \notin needConfigure /\ serial[s] # "stale"]_vars

\* After a fatal display error nwl_easy_run returns, provided the update
\* callbacks do not keep the dirty pass busy for ever, and the application does
\* not give roles for ever: each toplevel counts in num_surfaces again.
NoNewRole == \A s \in Surfaces : role'[s] \in CountedRoles => role[s] = role'[s]
LoopStops ==
  []<>EventTurn /\ <>[][NoNewRole]_vars => (errored ~> pc \in {"stopped", "done"})

=============================================================================
