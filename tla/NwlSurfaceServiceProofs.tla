---------------------- MODULE NwlSurfaceServiceProofs ----------------------
(* Each step of NwlSurface is a step of UpdateService or changes nothing there, *)
(* for any number of surfaces: the simulation behind ServiceSafe.               *)
EXTENDS NwlSurfaceService, NwlSurfaceTreeProofs

(* What the steps of the service look at, where nothing serves a surface anew. *)
LEMMA SameStack == ASSUME UNCHANGED <<stack, pc>> PROVE Serving' = Serving
  BY DEF Serving

LEMMA EventServes == ASSUME pc = "events", pc' = pc PROVE Serving = {} /\ Serving' = {}
  BY DEF Serving

-----------------------------------------------------------------------------
(* Destruction. *)

LEMMA KillStep ==
  ASSUME TypeOK, NEW T \in SUBSET live, DestroyTree(T),
         Serving = {}, Serving' = {}, UNCHANGED stack
  PROVE  Service!Next
<1>1. T \in SUBSET Surfaces BY DEF TypeOK
<1>2. Shown' = Shown \ T BY DEF DestroyTree, Shown, TypeOK
<1>3. Queued' = Queued \ T /\ Held' = Held \ T
  BY DEF DestroyTree, DropCallbacks, Queued, Held
<1>4. Service!Kill(T) BY <1>2, <1>3 DEF DestroyTree, Service!Kill
<1> QED BY <1>1, <1>4 DEF Service!Next

LEMMA DestroyIsKill ==
  ASSUME NoNestedDestroy, IInv, NEW s \in Surfaces, Destroy(s) \/ PopupDone(s)
  PROVE  Service!Next
<1>1. s \in live BY DEF Destroy, PopupDone, Event
<1>2. Subtree(s) \in SUBSET live BY <1>1, SubtreeFacts DEF IInv, TypeOK
<1>3. DestroyTree(Subtree(s)) /\ UNCHANGED <<stack, pc>> /\ pc = "events"
  BY DEF Destroy, PopupDone, MayDestroy, NoNestedDestroy, Event, EventTurn, passVars
<1>4. Serving = {} /\ Serving' = {} BY <1>3 DEF Serving
<1> QED BY <1>2, <1>3, <1>4, KillStep DEF IInv

LEMMA DirtDestroyIsKill ==
  ASSUME IInv, NEW s \in Surfaces, DirtDestroy(s) PROVE Service!Next
<1>1. s \in live /\ live \subseteq Surfaces BY DEF DirtDestroy, IInv, TypeOK
<1>2. PICK others \in SUBSET (live \ {s}) :
        DestroyTree(UNION {Subtree(t) : t \in others \cup {s}})
  BY DEF DirtDestroy
<1> DEFINE T == UNION {Subtree(t) : t \in others \cup {s}}
<1>3. T \in SUBSET live
  <2>1. others \cup {s} \in SUBSET live BY <1>1
  <2> QED BY <1>1, <2>1, ForestFacts
<1>4. DestroyTree(T) /\ UNCHANGED stack /\ Serving = {} /\ Serving' = {}
  BY <1>2 DEF DirtDestroy, Visit, Serving
<1> HIDE DEF T
<1> QED BY <1>3, <1>4, KillStep DEF IInv

LEMMA DeinitIsKill == ASSUME IInv, Deinit PROVE Service!Next
<1> DEFINE T == UNION {Subtree(s) : s \in {r \in live : parent[r] = NoSurface}}
<1>1. T \in SUBSET live BY SubtreeFacts DEF IInv, TypeOK
<1>2. DestroyTree(T) /\ UNCHANGED stack /\ Serving = {} /\ Serving' = {}
  BY DEF Deinit, Serving
<1> HIDE DEF T
<1> QED BY <1>1, <1>2, KillStep DEF IInv

-----------------------------------------------------------------------------
(* Roles. *)

LEMMA InitIsCreate ==
  ASSUME HomeInv, NEW s \in Surfaces, SurfaceInit(s)
  PROVE  Service!Create(s)
<1>1. Serving' = Serving BY SameStack DEF SurfaceInit, passVars
<1>2. Shown' = Shown BY DEF SurfaceInit, Shown, HomeInv
<1> QED
  BY <1>1, <1>2
  DEF SurfaceInit, Service!Create, Queued, Held, stateVars, wlVars, dirtVars

LEMMA RoleIsShow ==
  ASSUME TypeOK, NEW s \in Surfaces,
         RoleCounted(s) \/ RolePopup(s) \/ \E p \in Surfaces : RoleSubsurface(s, p)
  PROVE  Service!Show(s)
<1>1. PICK r \in Roles \ {"none"} : GiveRole(s, r)
  BY DEF RoleCounted, RolePopup, RoleSubsurface, Roles, CountedRoles, ShellRoles
<1>2. needConfigure' \in {needConfigure, needConfigure \cup {s}}
  BY DEF RoleCounted, RolePopup, RoleSubsurface, AwaitConfigure
<1>3. Serving' = Serving BY <1>1, SameStack DEF GiveRole, passVars
<1>4. s \in live \ Shown /\ Shown' = Shown \cup {s}
  BY <1>1 DEF GiveRole, Shown, TypeOK
<1>5. Queued' = Queued /\ Held' \in {Held, Held \cup {s}}
  BY <1>1, <1>2, <1>3 DEF GiveRole, Queued, Held, wlVars, dirtVars
<1> QED BY <1>1, <1>4, <1>5 DEF GiveRole, Service!Show

LEMMA UnsetIsWithdraw ==
  ASSUME IInv, NEW s \in Surfaces, RoleUnset(s)
  PROVE  Service!Withdraw(s)
<1>1. Serving' = Serving BY SameStack DEF RoleUnset, passVars
<1>2. s \in live /\ Shown' = Shown \ {s} BY DEF RoleUnset, Shown, IInv, TypeOK
<1>3. Queued' = Queued \ {s} BY <1>1 DEF RoleUnset, Queued, dirtVars
<1>4. Held' = Held \/ Held' = Held \ {s} BY DEF RoleUnset, DropCallbacks, Held
<1> QED BY <1>2, <1>3, <1>4 DEF RoleUnset, Service!Withdraw, Service!MayOpen

-----------------------------------------------------------------------------
(* Requests. *)

LEMMA DoomIsDoom ==
  ASSUME NEW s \in live, Doom(s), s \notin Serving
  PROVE  Service!Doom(s)
<1>1. Serving' = Serving BY SameStack DEF Doom, passVars
<1>2. Queued' = Queued \cup ({s} \cap needUpdate)
  BY <1>1 DEF Doom, MarkDirty, Queued
<1>3. Held' = Held \/ Held' = Held \ {s} BY DEF Doom, CancelCallback, Held
<1>4. Shown' = Shown BY DEF Doom, Shown, lifeVars
<1> QED BY <1>2, <1>3, <1>4 DEF Doom, lifeVars, Service!Doom, Service!MayOpen

\* nwl_surface_set_need_update, where NEEDS_CONFIGURE may just have been cleared,
\* or a role of the seat given
LEMMA RequestIsAskOrServe ==
  ASSUME IInv, NEW s \in live, NEW now \in BOOLEAN,
         pc' = pc, ClientTurn, UNCHANGED <<live, gone, doomed, deferred, frameCb>>,
         role' = role \/ role' = [role EXCEPT ![s] = "seat"],
         needConfigure' = needConfigure \/ (now /\ needConfigure' = needConfigure \ {s}),
         RequestUpdate(s, now, needConfigure'),
         now \/ Blocked(s, needConfigure') \/ s \notin Serving
  PROVE  Service!Ask(s) \/ Service!Serve(s)
<1>1. Shown' \in {Shown, Shown \cup {s}} /\ s \in Surfaces BY DEF Shown, IInv, TypeOK
<1>2. Held' = Held \/ (Held' = Held \ {s} /\ s \notin Held') BY DEF Held
<1>3. CASE ~Blocked(s, needConfigure') /\ Update(s) /\ UNCHANGED dirtVars
  <2>1. Serving' = Serving BY <1>1, <1>3, UpdateKeepsServing DEF IInv
  <2>2. s \notin Held' BY <1>3 DEF Blocked, Held
  <2>3. Queued' = Queued \ {s} BY <1>3, <2>1 DEF Update, Queued, dirtVars
  <2>4. Service!Serve(s)
    BY <1>1, <1>2, <1>3, <2>2, <2>3
    DEF Update, Service!Serve, Service!MayOpen, Service!MayShow
  <2> QED BY <2>4
<1>4. CASE Blocked(s, needConfigure') /\ needUpdate' = needUpdate \cup {s}
           /\ UNCHANGED <<stack, dirtVars>>
  <2>1. Serving' = Serving BY <1>4, SameStack
  <2>2. s \in Held' /\ Held' = Held BY <1>2, <1>4 DEF Blocked, Held
  <2>3. Queued' \in {Queued, Queued \cup {s}} BY <1>4, <2>1 DEF Queued, dirtVars
  <2>4. Service!Ask(s)
    BY <1>1, <1>4, <2>2, <2>3 DEF Service!Ask, Service!Kept, Service!MayShow
  <2> QED BY <2>4
<1>5. CASE ~Blocked(s, needConfigure') /\ ~now /\ needUpdate' = needUpdate \cup {s}
           /\ MarkDirty(s) /\ UNCHANGED <<stack, needConfigure>>
  <2>1. Serving' = Serving BY <1>5, SameStack
  <2>2. Held' = Held BY <1>5 DEF Held
  <2>3. Queued' = Queued \cup {s} BY <1>5, <2>1 DEF Queued, MarkDirty
  <2>4. Service!Ask(s)
    BY <1>1, <1>5, <2>2, <2>3 DEF Service!Ask, Service!Kept, Service!MayShow
  <2> QED BY <2>4
<1> QED BY <1>3, <1>4, <1>5 DEF RequestUpdate

LEMMA SetNeedUpdateIsRequest ==
  ASSUME AsksOnce, IInv, NEW s \in Surfaces, NEW now \in BOOLEAN, SetNeedUpdate(s, now)
  PROVE  Service!Ask(s) \/ Service!Serve(s)
<1>1. s \in live BY DEF SetNeedUpdate
<1>2. now \/ Blocked(s, needConfigure') \/ s \notin Serving
  BY DEF SetNeedUpdate, AsksOnce, MayAskAgain
<1> QED
  BY <1>1, <1>2, RequestIsAskOrServe DEF SetNeedUpdate, lifeVars, passVars, wlVars

LEMMA RoleSeatIsRequest ==
  ASSUME IInv, NEW s \in Surfaces, RoleSeat(s)
  PROVE  Service!Ask(s) \/ Service!Serve(s)
<1>1. s \in live /\ TRUE \in BOOLEAN BY DEF RoleSeat
<1> QED BY <1>1, RequestIsAskOrServe DEF RoleSeat, passVars, wlVars

-----------------------------------------------------------------------------
(* Events. *)

LEMMA ConfigureIsService ==
  ASSUME IInv, NEW s \in Surfaces,
         XdgConfigure(s) \/ \E sizeChanged \in BOOLEAN : LayerConfigure(s, sizeChanged)
  PROVE  Service!Ask(s) \/ Service!Serve(s) \/ Service!Open(s) \/ UNCHANGED Service!vars
<1>1. /\ s \in live /\ pc = "events" /\ pc' = pc
      /\ UNCHANGED <<lifeVars, doomed, deferred, frameCb>>
      /\ needConfigure' = needConfigure \ {s}
  BY DEF XdgConfigure, LayerConfigure, Event, EventTurn, passVars
<1>2. CASE RequestUpdate(s, TRUE, needConfigure \ {s})
  <2>1. RequestUpdate(s, TRUE, needConfigure') /\ TRUE \in BOOLEAN BY <1>1, <1>2
  <2> QED BY <1>1, <2>1, RequestIsAskOrServe DEF ClientTurn, lifeVars
<1>3. CASE /\ s \in ConfigureImpl \/ s \notin needUpdate
           /\ UNCHANGED <<needUpdate, stack, dirtVars>>
  <2>1. Serving' = Serving BY <1>1, <1>3, SameStack
  <2>2. Shown' = Shown /\ Queued' = Queued
    BY <1>1, <1>3, <2>1 DEF lifeVars, dirtVars, Shown, Queued
  <2>3. Held' = Held \/ Held' = Held \ {s} BY <1>1 DEF Held
  <2> QED
    BY <1>1, <1>3, <2>2, <2>3
    DEF lifeVars, Service!Open, Service!Kept, Service!vars
<1> QED BY <1>2, <1>3 DEF XdgConfigure, LayerConfigure, Pointless

LEMMA ClosedIsDoom ==
  ASSUME NEW s \in Surfaces, Closed(s)
  PROVE  Service!Doom(s)
  BY DoomIsDoom, EmptyStack DEF Closed, Event, EventTurn

LEMMA FrameDoneIsService ==
  ASSUME RolesSettled, IInv, NEW s \in Surfaces, FrameDone(s)
  PROVE  Service!Serve(s) \/ Service!Open(s)
<1>1. s \in live /\ s \notin needConfigure /\ deferred = {}
  BY EmptyStack
  DEF FrameDone, LeftAfterDone, Event, EventTurn, IInv, AwaitInv, DeferInv
<1>2. Shown' = Shown BY DEF FrameDone, lifeVars, Shown
<1>3. Held' = Held \ {s} BY <1>1 DEF FrameDone, Held
<1>4. Serving = {} /\ Serving' = {}
  BY DEF FrameDone, Event, EventTurn, passVars, Serving
<1>5. CASE s \in needUpdate /\ Update(s)
  <2>1. Queued' = Queued \ {s}
    BY <1>4, <1>5 DEF FrameDone, Update, Queued, dirtVars
  <2> QED
    BY <1>1, <1>2, <1>3, <1>5, <2>1
    DEF FrameDone, Update, lifeVars, Service!Serve, Service!MayOpen, Service!MayShow
<1>6. CASE s \notin needUpdate /\ UNCHANGED <<needUpdate, stack>>
  <2>1. Queued' = Queued BY <1>4, <1>6 DEF FrameDone, Queued, dirtVars
  <2> QED
    BY <1>2, <1>3, <1>6, <2>1 DEF FrameDone, lifeVars, Service!Open, Service!Kept
<1> QED BY <1>5, <1>6 DEF FrameDone

-----------------------------------------------------------------------------
(* What an update does, and its end. *)

LEMMA UpdateHolds ==
  ASSUME IInv, NEW s \in Surfaces, BufferSubmitted(s) \/ RequestCallback(s) \/ Defer(s)
  PROVE  Service!Hold(s)
<1>1. s \in live BY DEF BufferSubmitted, RequestCallback, Defer, InUpdateOf
<1>2. UNCHANGED <<lifeVars, needUpdate, needConfigure, doomed, dirtVars, passVars, stack>>
  BY DEF BufferSubmitted, RequestCallback, Defer, stateVars
<1>3. Serving' = Serving BY <1>2, SameStack DEF passVars
<1>4. Shown' = Shown /\ Queued' = Queued
  BY <1>2, <1>3 DEF lifeVars, dirtVars, Shown, Queued
<1>5. Held' = Held \cup {s}
  BY DEF BufferSubmitted, RequestCallback, Defer, stateVars, wlVars, Held
<1> QED BY <1>1, <1>2, <1>4, <1>5 DEF lifeVars, Service!Hold

LEMMA ReturnIsReturn ==
  ASSUME AsksOnce, IInv, IInv', UpdateReturns
  PROVE  Service!Return
<1>1. Shown' = Shown BY DEF UpdateReturns, lifeVars, Shown
<1>2. Held' = Held \/ Held' = Held \ {Running} BY DEF UpdateReturns, wlVars, Held
<1>3. Queued' = Queued
  <2>1. CASE pc = "dirt" /\ Len(stack) = 1
    <3>1. Serving = {Running} /\ Serving' = {}
      BY <2>1, ReturnPops DEF IInv, UpdateReturns, passVars, Serving
    <3> QED BY <2>1, <3>1 DEF UpdateReturns, Queued
  <2>2. CASE ~(pc = "dirt" /\ Len(stack) = 1)
    <3>1. Serving' = Serving
      BY <2>2, ReturnPops DEF IInv, UpdateReturns, passVars, Serving
    <3> QED BY <2>2, <3>1 DEF UpdateReturns, Queued
  <2> QED BY <2>1, <2>2
<1>4. Running \in needUpdate' => Running \in Queued' \cup Held' \cup ConfigureImpl
  BY DEF IInv, NoLostUpdate, Queued, Held
<1> QED
  BY <1>1, <1>2, <1>3, <1>4
  DEF UpdateReturns, lifeVars, Running, Service!Return, Service!MayOpen, Service!Kept

-----------------------------------------------------------------------------
(* The pass. *)

LEMMA PassIsService ==
  ASSUME RolesSettled, IInv, NEW s \in Surfaces, DirtUpdate(s) \/ DirtSkip(s)
  PROVE  Service!Serve(s) \/ Service!Park(s) \/ UNCHANGED Service!vars
<1>1. /\ pc = "dirt" /\ stack = <<>> /\ s \in dirty /\ Serving = {} /\ deferred = {}
  BY EmptyStack, SurfacesAssumption
  DEF DirtUpdate, DirtSkip, Visit, IInv, PassInv, PassCursorLinked, DeferInv
<1>2. Shown' = Shown BY DEF DirtUpdate, DirtSkip, lifeVars, Shown
<1>3. CASE DirtUpdate(s)
  <2>1. Serving' = {s} BY <1>1, <1>3, UpdatePushes DEF DirtUpdate, Advance, IInv, Serving
  <2>2. s \in live BY <1>3 DEF DirtUpdate, Due, IInv, TypeOK
  <2>3. Held' = Held /\ s \notin Held
    BY <1>1, <1>3 DEF DirtUpdate, Due, wlVars, Held, IInv, AwaitInv
  <2>4. Queued' = Queued \ {s}
    BY <1>1, <1>3, <2>1 DEF DirtUpdate, Update, dirtVars, Queued
  <2> QED
    BY <1>2, <1>3, <2>2, <2>3, <2>4
    DEF DirtUpdate, Update, lifeVars, Service!Serve, Service!MayOpen, Service!MayShow
<1>4. CASE DirtSkip(s)
  <2>1. Serving' = {} BY <1>1, <1>4 DEF DirtSkip, Serving
  <2>2. Held' = Held BY <1>4 DEF DirtSkip, stateVars, wlVars, Held
  <2>3. Queued' = Queued \ {s}
    BY <1>1, <1>4, <2>1 DEF DirtSkip, stateVars, Queued
  <2>4. s \in Held \/ s \notin Queued BY <1>4 DEF DirtSkip, Due, Held, Queued
  <2> QED
    BY <1>2, <1>4, <2>2, <2>3, <2>4
    DEF DirtSkip, lifeVars, stateVars, Service!Park, Service!vars
<1> QED BY <1>3, <1>4

LEMMA LoopIsStutter ==
  ASSUME DisplayError \/ EndEvents \/ PassEnds \/ UNCHANGED vars
  PROVE  UNCHANGED Service!vars
<1>1. UNCHANGED <<live, gone, role, stateVars, frameCb, dirty, stack>>
  BY DEF DisplayError, EndEvents, PassEnds, vars, lifeVars, wlVars, dirtVars
<1>2. Serving' = Serving
  BY <1>1 DEF DisplayError, EndEvents, PassEnds, EventTurn, passVars, vars, Serving
<1> QED
  BY <1>1, <1>2 DEF stateVars, Shown, Held, Queued, Service!vars

-----------------------------------------------------------------------------
LEMMA InitIsInit == Init => Service!Init
  BY DEF Init, Service!Init, Shown, Held, Queued

LEMMA StepIsService ==
  ASSUME Contract, IInv, TreeInv, [Next]_vars
  PROVE  [Service!Next]_(Service!vars)
<1>0. NoNestedDestroy /\ RolesSettled /\ AsksOnce BY DEF Contract
<1>1. IInv' BY <1>0, StepIInv
<1> USE DEF Service!Next
<1>2. ASSUME NEW s \in Surfaces, ClientStep(s) PROVE Service!Next
  <2>1. CASE SurfaceInit(s) BY <2>1, InitIsCreate DEF TreeInv
  <2>2. CASE RoleCounted(s) \/ RolePopup(s) \/ \E p \in Surfaces : RoleSubsurface(s, p)
    BY <2>2, RoleIsShow DEF IInv
  <2>3. CASE RoleUnset(s) BY <2>3, UnsetIsWithdraw
  <2>4. CASE RoleSeat(s) \/ \E now \in BOOLEAN : SetNeedUpdate(s, now)
    BY <1>0, <2>4, SetNeedUpdateIsRequest, RoleSeatIsRequest
  <2>5. CASE DestroyLater(s)
    BY <1>0, <2>5, DoomIsDoom DEF DestroyLater, MayAskAgain, AsksOnce
  <2>6. CASE Destroy(s) BY <1>0, <2>6, DestroyIsKill
  <2>7. CASE BufferSubmitted(s) \/ RequestCallback(s) \/ Defer(s) BY <2>7, UpdateHolds
  <2> QED BY <1>2, <2>1, <2>2, <2>3, <2>4, <2>5, <2>6, <2>7 DEF ClientStep
<1>3. ASSUME NEW s \in Surfaces, CompositorStep(s) PROVE [Service!Next]_(Service!vars)
  <2>1. CASE XdgConfigure(s) \/ \E sizeChanged \in BOOLEAN : LayerConfigure(s, sizeChanged)
    BY <2>1, ConfigureIsService
  <2>2. CASE Closed(s) BY <2>2, ClosedIsDoom
  <2>3. CASE PopupDone(s) BY <1>0, <2>3, DestroyIsKill
  <2>4. CASE FrameDone(s) BY <1>0, <2>4, FrameDoneIsService
  <2> QED BY <1>3, <2>1, <2>2, <2>3, <2>4 DEF CompositorStep
<1>4. ASSUME NEW s \in Surfaces, PassStep(s) PROVE [Service!Next]_(Service!vars)
  <2>1. CASE DirtDestroy(s) BY <2>1, DirtDestroyIsKill
  <2>2. CASE DirtUpdate(s) \/ DirtSkip(s) BY <1>0, <2>2, PassIsService
  <2> QED BY <1>4, <2>1, <2>2 DEF PassStep
<1>5. CASE UpdateReturns BY <1>0, <1>1, <1>5, ReturnIsReturn
<1>6. CASE DisplayError \/ EndEvents \/ PassEnds \/ UNCHANGED vars
  BY <1>6, LoopIsStutter
<1>7. CASE Deinit BY <1>7, DeinitIsKill
<1> QED BY <1>2, <1>3, <1>4, <1>5, <1>6, <1>7 DEF Next, LoopStep, Finished

(* nwl implements the service it is meant to be, for any number of surfaces and *)
(* any nesting of updates: no update that was asked for is dropped but with its *)
(* surface or role, none starts while something holds it back, and what is      *)
(* destroyed is wanted, waited for and doomed no more.                          *)
THEOREM Implements == ASSUME Contract PROVE Spec => ServiceSafe
<1>0. NoNestedDestroy BY DEF Contract
<1>1. Spec => []IInv BY <1>0, Invariance
<1>2. Spec => []TreeInv BY <1>0, TreeInvariance
<1>3. IInv /\ TreeInv /\ [Next]_vars => [Service!Next]_(Service!vars) BY StepIsService
<1> QED BY <1>1, <1>2, <1>3, InitIsInit, PTL DEF Spec, ServiceSafe, Service!Spec
=============================================================================
