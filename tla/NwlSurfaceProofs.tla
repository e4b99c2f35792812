-------------------------- MODULE NwlSurfaceProofs --------------------------
EXTENDS NwlSurface, FiniteSetTheorems, SequenceTheorems, TLAPS

-----------------------------------------------------------------------------
(* Arithmetic of num_surfaces. *)

LEMMA RangePositive == UIntRange \in Nat \ {0}
  BY BoundsAssumption, SurfacesAssumption, FS_CardinalityType

LEMMA CardinalityNat ==
  ASSUME NEW T \in SUBSET Surfaces
  PROVE  /\ IsFiniteSet(CountedIn(T))
         /\ Cardinality(CountedIn(T)) \in Nat
         /\ Cardinality(CountedIn(T)) <= Cardinality(Surfaces)
<1>1. CountedIn(T) \subseteq Surfaces BY DEF CountedIn
<1>2. IsFiniteSet(Surfaces) BY SurfacesAssumption
<1> QED BY <1>1, <1>2, FS_Subset, FS_CardinalityType

LEMMA MinusRange ==
  ASSUME TypeOK, NEW T \in SUBSET Surfaces
  PROVE  Minus(numSurfaces, Cardinality(CountedIn(T))) \in 0..(UIntRange - 1)
  BY CardinalityNat, RangePositive, BoundsAssumption, SurfacesAssumption,
     FS_CardinalityType DEF TypeOK, Minus

-----------------------------------------------------------------------------
(* The stack of running updates. *)

LEMMA EmptyStack == ASSUME stack = <<>> PROVE Updating = {} /\ Serving = {}
  BY DEF Updating, Serving

LEMMA RunningUpdates ==
  ASSUME TypeOK, stack # <<>>
  PROVE  Running \in Updating /\ Running \in Surfaces /\ Len(stack) \in DOMAIN stack
<1>1. Len(stack) \in Nat \ {0} /\ DOMAIN stack = 1..Len(stack)
  BY DEF TypeOK
<1>2. Len(stack) \in DOMAIN stack BY <1>1
<1> QED BY <1>2 DEF Running, Updating, TypeOK

LEMMA UpdatePushes ==
  ASSUME TypeOK, NEW s \in Surfaces, Update(s)
  PROVE  /\ stack' \in Seq(Surfaces) /\ Len(stack') <= MaxDepth
         /\ Len(stack') = Len(stack) + 1 /\ stack' # <<>>
         /\ stack'[Len(stack')] = s
         /\ stack'[1] = IF stack = <<>> THEN s ELSE stack[1]
         /\ Updating' = Updating \cup {s}
<1>1. /\ stack \in Seq(Surfaces) /\ Len(stack) \in Nat /\ Len(stack) < MaxDepth
      /\ MaxDepth \in Nat /\ stack' = Append(stack, s)
  BY BoundsAssumption DEF TypeOK, Update
<1>2. /\ stack' \in Seq(Surfaces) /\ Len(stack') = Len(stack) + 1
      /\ stack'[Len(stack) + 1] = s
      /\ \A i \in 1..Len(stack) : stack'[i] = stack[i]
  BY <1>1
<1>3. DOMAIN stack' = 1..(Len(stack) + 1) /\ DOMAIN stack = 1..Len(stack)
  BY <1>1, <1>2
<1>4. Updating' = Updating \cup {s}
  <2>1. Updating' = {stack'[i] : i \in 1..(Len(stack) + 1)} BY <1>3 DEF Updating
  <2>2. Updating = {stack[i] : i \in 1..Len(stack)} BY <1>3 DEF Updating
  <2>3. 1..(Len(stack) + 1) = 1..Len(stack) \cup {Len(stack) + 1} BY <1>1
  <2> QED BY <2>1, <2>2, <2>3, <1>2
<1>5. stack'[1] = IF stack = <<>> THEN s ELSE stack[1]
  BY <1>1, <1>2
<1> QED BY <1>1, <1>2, <1>4, <1>5

LEMMA ReturnPops ==
  ASSUME TypeOK, UpdateReturns
  PROVE  /\ stack' \in Seq(Surfaces) /\ Len(stack') <= MaxDepth
         /\ Len(stack') = Len(stack) - 1
         /\ Updating \subseteq Updating' \cup {Running} /\ Updating' \subseteq Updating
         /\ Len(stack) = 1 => stack' = <<>> /\ Running = stack[1]
         /\ Len(stack) # 1 => stack' # <<>> /\ stack'[1] = stack[1]
<1> DEFINE n == Len(stack)
<1>1. /\ stack \in Seq(Surfaces) /\ n \in Nat \ {0} /\ n <= MaxDepth
      /\ MaxDepth \in Nat /\ stack' = SubSeq(stack, 1, n - 1)
  BY BoundsAssumption DEF TypeOK, UpdateReturns
<1>2. /\ stack' \in Seq(Surfaces) /\ Len(stack') = n - 1
      /\ \A i \in 1..(n - 1) : stack'[i] = stack[i]
  <2>1. \A i \in 1..(n - 1) : stack[i] \in Surfaces BY <1>1
  <2>2. n - 1 \in Int /\ 1 <= n BY <1>1
  <2> HIDE DEF n
  <2> QED BY <1>1, <2>1, <2>2, SubSeqProperties
<1>3. DOMAIN stack' = 1..(n - 1) /\ DOMAIN stack = 1..n BY <1>1, <1>2
<1>4. Updating \subseteq Updating' \cup {Running} /\ Updating' \subseteq Updating
  <2>1. Updating' = {stack'[i] : i \in 1..(n - 1)} BY <1>3 DEF Updating
  <2>2. Updating = {stack[i] : i \in 1..n} BY <1>3 DEF Updating
  <2>3. 1..n = 1..(n - 1) \cup {n} BY <1>1
  <2> QED BY <2>1, <2>2, <2>3, <1>2 DEF Running
<1>5. n = 1 => stack' = <<>> /\ Running = stack[1] BY <1>1, <1>2 DEF Running
<1>6. n # 1 => stack' # <<>> /\ stack'[1] = stack[1] BY <1>1, <1>2
<1> QED BY <1>1, <1>2, <1>4, <1>5, <1>6

-----------------------------------------------------------------------------
(* What nwl_surface_destroy takes. *)

LEMMA SubtreeFacts ==
  ASSUME NEW s \in live, live \subseteq Surfaces
  PROVE  s \in Subtree(s) /\ Subtree(s) \subseteq live
  BY DEF Subtree

-----------------------------------------------------------------------------
(* The inductive invariant. *)

\* What the application promises, clause by clause (see MayDestroy, MayAwait,
\* MayAskAgain).  After a destroy under the pass's cursor nothing can be said: the
\* code reads freed memory.  Each other clause protects something of its own.
NoNestedDestroy == ~DestroyInUpdate
RolesSettled    == ~RoleWhileWaiting
AsksOnce        == ~AskAgain
Contract        == NoNestedDestroy /\ RolesSettled /\ AsksOnce

\* A running update belongs to a live surface.
UpdatingInv == Updating \subseteq live

\* Deferrals do not outlive the update that made them.
DeferInv == deferred \subseteq Updating

\* The pass visits what is linked, its cursor is empty only when nothing is
\* left to visit, and what it serves is behind the cursor.
PassInv ==
  /\ PassCursorLinked
  /\ nxt = NoSurface => todo = {}
  /\ pc # "dirt" => nxt = NoSurface
  /\ Serving \cap todo = {}
  /\ pc \in {"stopped", "done"} => stack = <<>>

\* A surface that waits for its configure event draws nothing, is reached by no frame
\* event, and is on the dirty list only to be destroyed.
AwaitInv ==
  /\ needConfigure \cap (Updating \cup frameCb \cup stray) = {}
  /\ dirty \cap needConfigure \subseteq doomed

\* A serial of a former role is overwritten by the configure event of the next.
SerialInv ==
  \A s \in Surfaces : role[s] \in ShellRoles /\ serial[s] = "stale" => s \in needConfigure

IInv ==
  /\ TypeOK
  /\ UpdatingInv /\ DeferInv
  /\ PassInv /\ LinkedMeansFlagged
  /\ RolesSettled => AwaitInv /\ SerialInv
  /\ AsksOnce => NoLostUpdate /\ NoLostDestroy

-----------------------------------------------------------------------------
USE DEF lifeVars, stateVars, wlVars, passVars, dirtVars, easyVars

(* Each step below has to show every part of IInv again. *)
USE DEF UpdatingInv, DeferInv, AwaitInv, SerialInv,
        PassInv, PassCursorLinked, LinkedMeansFlagged, NoLostUpdate, NoLostDestroy,
        RolesSettled, AsksOnce

LEMMA InitIInv == Init => IInv
<1> SUFFICES ASSUME Init PROVE IInv OBVIOUS
<1>1. Updating = {} /\ Serving = {} BY EmptyStack DEF Init
<1>2. TypeOK
  <2>1. numSurfaces \in 0..(UIntRange - 1) BY RangePositive DEF Init
  <2>2. stack \in Seq(Surfaces) /\ Len(stack) <= MaxDepth
    BY BoundsAssumption DEF Init
  <2>3. live \cap gone = {} /\ runWithZero \in BOOLEAN BY ContractAssumption DEF Init
  <2> QED BY <2>1, <2>2, <2>3 DEF Init, TypeOK, Roles
<1> QED BY <1>1, <1>2 DEF ShellRoles, Init, IInv

LEMMA SurfaceInitStep ==
  ASSUME IInv, NEW s \in Surfaces, SurfaceInit(s) PROVE IInv'
<1>1. TypeOK'
  BY DEF IInv, TypeOK, SurfaceInit
<1>2. Updating' = Updating /\ Serving' = Serving
  BY DEF Updating, Serving, SurfaceInit
<1> QED
  BY <1>1, <1>2 DEF SurfaceInit, IInv

LEMMA RoleCountedStep ==
  ASSUME IInv, NEW s \in Surfaces, RoleCounted(s) PROVE IInv'
<1>0. numSurfaces' \in 0..(UIntRange - 1)
  BY RangePositive DEF IInv, TypeOK, RoleCounted
<1>1. TypeOK'
  BY <1>0
  DEF IInv, TypeOK, RoleCounted, GiveRole, AwaitConfigure, Roles, ShellRoles, CountedRoles
<1>2. Updating' = Updating /\ Serving' = Serving
  BY DEF Updating, Serving, RoleCounted, GiveRole, AwaitConfigure
<1> QED
  BY <1>1, <1>2 DEF RoleCounted, GiveRole, AwaitConfigure, MayAwait, IInv

LEMMA RolePopupStep ==
  ASSUME IInv, NEW s \in Surfaces, RolePopup(s) PROVE IInv'
<1>1. TypeOK'
  BY DEF IInv, TypeOK, RolePopup, GiveRole, AwaitConfigure, Roles, ShellRoles
<1>2. Updating' = Updating /\ Serving' = Serving
  BY DEF Updating, Serving, RolePopup, GiveRole, AwaitConfigure
<1> QED
  BY <1>1, <1>2 DEF RolePopup, GiveRole, AwaitConfigure, MayAwait, IInv

LEMMA RoleSubsurfaceStep ==
  ASSUME IInv, NEW s \in Surfaces, NEW p \in Surfaces, RoleSubsurface(s, p) PROVE IInv'
<1>1. TypeOK'
  BY DEF IInv, TypeOK, RoleSubsurface, GiveRole, Roles, ShellRoles
<1>2. Updating' = Updating /\ Serving' = Serving
  BY DEF Updating, Serving, RoleSubsurface, GiveRole
<1> QED
  BY <1>1, <1>2 DEF RoleSubsurface, GiveRole, ShellRoles, IInv

LEMMA RoleUnsetStep ==
  ASSUME IInv, NEW s \in Surfaces, RoleUnset(s) PROVE IInv'
<1>0. Minus(numSurfaces, Cardinality(CountedIn({s}))) \in 0..(UIntRange - 1)
  BY MinusRange DEF IInv
<1>1. TypeOK'
  BY <1>0 DEF IInv, TypeOK, RoleUnset, DropCallbacks, Roles
<1>2. Updating' = Updating /\ Serving' = Serving
  BY DEF Updating, Serving, RoleUnset, DropCallbacks
<1> QED
  BY <1>1, <1>2 DEF RoleUnset, DropCallbacks, ShellRoles, TypeOK, IInv

LEMMA DestroyLaterStep ==
  ASSUME IInv, NEW s \in Surfaces, DestroyLater(s) PROVE IInv'
<1>1. TypeOK'
  BY DEF IInv, TypeOK, DestroyLater, Doom, CancelCallback, MarkDirty
<1>2. Updating' = Updating /\ Serving' = Serving
  BY DEF Updating, Serving, DestroyLater, Doom, CancelCallback, MarkDirty
<1> QED
  BY <1>1, <1>2 DEF DestroyLater, Doom, CancelCallback, MarkDirty, MayAskAgain, IInv

LEMMA ClosedStep ==
  ASSUME IInv, NEW s \in Surfaces, Closed(s) PROVE IInv'
<1>0. Serving = {} BY EmptyStack DEF Closed, Event, EventTurn
<1>1. TypeOK'
  BY DEF IInv, TypeOK, Closed, Event, EventTurn, Doom, CancelCallback, MarkDirty
<1>2. Updating' = Updating /\ Serving' = Serving
  BY DEF Updating, Serving, Closed, Event, EventTurn, Doom, CancelCallback, MarkDirty
<1> QED
  BY <1>0, <1>1, <1>2 DEF Closed, Event, EventTurn, Doom, CancelCallback, MarkDirty, IInv

LEMMA RequestCallbackStep ==
  ASSUME IInv, NEW s \in Surfaces, RequestCallback(s) PROVE IInv'
<1>0. s \in Updating BY RunningUpdates DEF IInv, RequestCallback, InUpdateOf
<1>1. TypeOK'
  BY DEF IInv, TypeOK, RequestCallback, InUpdateOf
<1>2. Updating' = Updating /\ Serving' = Serving
  BY DEF Updating, Serving, RequestCallback, InUpdateOf
<1> QED
  BY <1>1, <1>2, <1>0 DEF RequestCallback, InUpdateOf, IInv

LEMMA BufferSubmittedStep ==
  ASSUME IInv, NEW s \in Surfaces, BufferSubmitted(s) PROVE IInv'
<1>0. s \in Updating BY RunningUpdates DEF IInv, BufferSubmitted, InUpdateOf
<1>1. TypeOK'
  BY DEF IInv, TypeOK, BufferSubmitted, InUpdateOf
<1>2. Updating' = Updating /\ Serving' = Serving
  BY DEF Updating, Serving, BufferSubmitted, InUpdateOf
<1> QED
  BY <1>1, <1>2, <1>0 DEF BufferSubmitted, InUpdateOf, TypeOK, IInv

LEMMA DeferStep ==
  ASSUME IInv, NEW s \in Surfaces, Defer(s) PROVE IInv'
<1>0. s \in Updating BY RunningUpdates DEF IInv, Defer, InUpdateOf
<1>1. TypeOK'
  BY DEF IInv, TypeOK, Defer, InUpdateOf
<1>2. Updating' = Updating /\ Serving' = Serving
  BY DEF Updating, Serving, Defer, InUpdateOf
<1> QED
  BY <1>1, <1>2, <1>0 DEF Defer, InUpdateOf, IInv

LEMMA DisplayErrorStep ==
  ASSUME IInv, DisplayError PROVE IInv'
<1>0. numSurfaces' \in 0..(UIntRange - 1) BY RangePositive DEF DisplayError
<1>1. TypeOK'
  BY <1>0 DEF IInv, TypeOK, DisplayError, StopRunningWithZero
<1>2. Updating' = Updating /\ Serving' = Serving
  BY DEF Updating, Serving, DisplayError, StopRunningWithZero
<1> QED
  BY <1>1, <1>2 DEF DisplayError, StopRunningWithZero, IInv

(* An update started by the application or by an event handler is pushed on   *)
(* top of those that run: the dirty pass goes on serving what it serves.      *)
LEMMA UpdateKeepsServing ==
  ASSUME TypeOK, NEW s \in Surfaces, Update(s), ClientTurn, pc' = pc
  PROVE  Serving' = Serving
<1>1. stack' # <<>> /\ stack'[1] = IF stack = <<>> THEN s ELSE stack[1]
  BY UpdatePushes
<1>2. stack = <<>> => pc # "dirt" BY DEF ClientTurn
<1> QED BY <1>1, <1>2 DEF Serving

(* nwl_surface_set_need_update, called by the application or, with another role  *)
(* for s, by nwl_seat_set_pointer_surface and nwl_seat_start_drag.               *)
LEMMA RequestStep ==
  ASSUME IInv, NEW s \in live, NEW now \in BOOLEAN, ClientTurn,
         MayAskAgain(s) \/ now \/ Blocked(s, needConfigure),
         RequestUpdate(s, now, needConfigure),
         role' = role \/ (role[s] \notin ShellRoles /\ role' = [role EXCEPT ![s] = "seat"]),
         UNCHANGED <<live, gone, parent, numSurfaces, needConfigure, doomed, deferred,
                     wlVars, passVars, easyVars>>
  PROVE  IInv'
<1>a. /\ s \in Surfaces /\ role' \in [Surfaces -> Roles]
      /\ \A t \in Surfaces : role'[t] \in ShellRoles => role[t] \in ShellRoles
      /\ \A t \in Surfaces : role'[t] = "layer" <=> role[t] = "layer"
  BY DEF IInv, TypeOK, Roles, ShellRoles
<1>1. CASE Blocked(s, needConfigure) /\ needUpdate' = needUpdate \cup {s}
           /\ UNCHANGED <<stack, dirtVars>>
  <2>1. TypeOK' BY <1>a, <1>1 DEF IInv, TypeOK
  <2>2. Updating' = Updating /\ Serving' = Serving BY <1>1 DEF Updating, Serving
  <2> QED BY <1>a, <1>1, <2>1, <2>2 DEF Blocked, TypeOK, IInv
<1>2. CASE ~Blocked(s, needConfigure) /\ Update(s) /\ UNCHANGED dirtVars
  <2>1. TypeOK' BY <1>a, <1>2, UpdatePushes DEF IInv, TypeOK, Update
  <2>2. Updating' = Updating \cup {s} /\ Serving' = Serving
    BY <1>a, <1>2, UpdatePushes, UpdateKeepsServing DEF IInv
  <2>3. pc \notin {"stopped", "done"}
    BY DEF ClientTurn, IInv
  <2> QED BY <1>a, <1>2, <2>1, <2>2, <2>3 DEF Blocked, Update, TypeOK, IInv
<1>3. CASE ~Blocked(s, needConfigure) /\ ~now /\ needUpdate' = needUpdate \cup {s}
           /\ MarkDirty(s) /\ UNCHANGED stack
  <2>1. TypeOK' BY <1>a, <1>3 DEF IInv, TypeOK, MarkDirty
  <2>2. Updating' = Updating /\ Serving' = Serving BY <1>3 DEF Updating, Serving
  <2>3. AsksOnce => s \notin Serving BY <1>3 DEF MayAskAgain
  <2> QED BY <1>a, <1>3, <2>1, <2>2, <2>3 DEF Blocked, MarkDirty, TypeOK, IInv
<1> QED BY <1>1, <1>2, <1>3 DEF RequestUpdate

LEMMA SetNeedUpdateStep ==
  ASSUME IInv, NEW s \in Surfaces, NEW now \in BOOLEAN, SetNeedUpdate(s, now)
  PROVE  IInv'
<1>1. s \in live /\ role' = role BY DEF SetNeedUpdate
<1> QED BY <1>1, RequestStep DEF SetNeedUpdate

LEMMA RoleSeatStep ==
  ASSUME IInv, NEW s \in Surfaces, RoleSeat(s) PROVE IInv'
<1>1. s \in live /\ role[s] \notin ShellRoles /\ role' = [role EXCEPT ![s] = "seat"]
  BY DEF RoleSeat, ShellRoles
<1>2. TRUE \in BOOLEAN OBVIOUS
<1> QED BY <1>1, <1>2, RequestStep DEF RoleSeat

(* The configure events of the shell have one proof: with or without the call *)
(* of nwl_surface_set_need_update, s no longer waits for a configure event.   *)
LEMMA ConfigureStep ==
  ASSUME IInv, NEW s \in Surfaces, Event(s), role[s] \in ShellRoles,
         serial' = [serial EXCEPT ![s] = "fresh"],
         needConfigure' = needConfigure \ {s},
         \/ /\ (s \in ConfigureImpl /\ role[s] = "layer") \/ s \notin needUpdate
            /\ UNCHANGED <<needUpdate, stack, dirtVars>>
         \/ RequestUpdate(s, TRUE, needConfigure \ {s}),
         UNCHANGED <<lifeVars, doomed, deferred, frameCb, stray, passVars, easyVars>>
  PROVE  IInv'
<1>0. /\ s \in live /\ stack = <<>> /\ pc = "events" /\ ClientTurn
      /\ Updating = {} /\ Serving = {} /\ role[s] # "none"
  BY EmptyStack DEF Event, EventTurn, ClientTurn, ShellRoles
<1>1. CASE ((s \in ConfigureImpl /\ role[s] = "layer") \/ s \notin needUpdate)
           /\ UNCHANGED <<needUpdate, stack, dirtVars>>
  <2>1. TypeOK' BY <1>0, <1>1 DEF IInv, TypeOK
  <2>2. Updating' = Updating /\ Serving' = Serving BY <1>1 DEF Updating, Serving
  <2> QED BY <1>0, <1>1, <2>1, <2>2 DEF TypeOK, IInv
<1>2. CASE Blocked(s, needConfigure \ {s}) /\ needUpdate' = needUpdate \cup {s}
           /\ UNCHANGED <<stack, dirtVars>>
  <2>1. TypeOK' BY <1>0, <1>2 DEF IInv, TypeOK
  <2>2. Updating' = Updating /\ Serving' = Serving BY <1>2 DEF Updating, Serving
  <2> QED BY <1>0, <1>2, <2>1, <2>2 DEF Blocked, TypeOK, IInv
<1>3. CASE Update(s) /\ UNCHANGED dirtVars
  <2>1. TypeOK' BY <1>0, <1>3, UpdatePushes DEF IInv, TypeOK, Update
  <2>2. Updating' = Updating \cup {s} /\ Serving' = Serving
    BY <1>0, <1>3, UpdatePushes, UpdateKeepsServing DEF IInv
  <2> QED BY <1>0, <1>3, <2>1, <2>2 DEF Update, TypeOK, IInv
<1> QED BY <1>1, <1>2, <1>3 DEF RequestUpdate

LEMMA LayerConfigureStep ==
  ASSUME IInv, NEW s \in Surfaces, NEW sizeChanged \in BOOLEAN,
         LayerConfigure(s, sizeChanged)
  PROVE  IInv'
  BY ConfigureStep DEF LayerConfigure, Pointless, ShellRoles

LEMMA XdgConfigureStep ==
  ASSUME IInv, NEW s \in Surfaces, XdgConfigure(s) PROVE IInv'
  BY ConfigureStep DEF XdgConfigure, ShellRoles

LEMMA FrameDoneStep ==
  ASSUME IInv, NEW s \in Surfaces, FrameDone(s) PROVE IInv'
<1> USE DEF FrameDone
<1>0. /\ stack = <<>> /\ pc = "events" /\ ClientTurn /\ Updating = {} /\ Serving = {}
      /\ s \in frameCb \cup stray /\ s \in live /\ stray' \subseteq stray
  BY EmptyStack DEF LeftAfterDone, Event, EventTurn, ClientTurn, TypeOK, IInv
<1>1. CASE s \in needUpdate /\ Update(s)
  <2>1. TypeOK' BY <1>0, <1>1, UpdatePushes DEF IInv, TypeOK, Update
  <2>2. Updating' = Updating \cup {s} /\ Serving' = Serving
    BY <1>0, <1>1, UpdatePushes, UpdateKeepsServing DEF IInv
  <2> QED BY <1>0, <1>1, <2>1, <2>2 DEF Update, IInv
<1>2. CASE s \notin needUpdate /\ UNCHANGED <<needUpdate, stack>>
  <2>1. TypeOK' BY <1>0, <1>2 DEF IInv, TypeOK
  <2>2. Updating' = Updating /\ Serving' = Serving BY <1>2 DEF Updating, Serving
  <2> QED BY <1>0, <1>2, <2>1, <2>2 DEF IInv
<1> QED BY <1>1, <1>2

(* A surface and its subsurfaces vanish from every set at once, while nothing  *)
(* of theirs runs and the pass, if there is one, starts over.                  *)
LEMMA DestroyKeepsInv ==
  ASSUME IInv, NEW T \in SUBSET live, DestroyTree(T),
         T \cap Updating = {}, pc # "dirt" \/ (stack = <<>> /\ hasDirty' = TRUE),
         todo' = {}, nxt' = NoSurface,
         pc' = pc \/ (pc' = "done" /\ stack = <<>>),
         UNCHANGED <<easyVars, stack>>,
         hasDirty' \in {TRUE, hasDirty}
  PROVE  IInv'
<1>1. TypeOK'
  <2>1. T \in SUBSET Surfaces BY DEF IInv, TypeOK
  <2>2. numSurfaces' \in 0..(UIntRange - 1)
    BY <2>1, MinusRange DEF IInv, DestroyTree
  <2> QED BY <2>2 DEF DestroyTree, DropCallbacks, IInv, TypeOK, Roles
<1>2. Updating' = Updating /\ Serving = {} /\ Serving' = {}
  BY EmptyStack DEF Updating, Serving
<1>3. \A t \in T : t \in Surfaces BY DEF TypeOK, IInv
<1>4. /\ UpdatingInv' /\ DeferInv'
      /\ RolesSettled => AwaitInv' /\ SerialInv'
  BY <1>2, <1>3 DEF DestroyTree, DropCallbacks, TypeOK, ShellRoles, IInv
<1>5. /\ PassInv' /\ LinkedMeansFlagged'
      /\ AsksOnce => NoLostUpdate' /\ NoLostDestroy'
  BY <1>2, <1>3 DEF DestroyTree, DropCallbacks, TypeOK, IInv
<1> QED BY <1>1, <1>4, <1>5 DEF IInv

LEMMA DestroyStep ==
  ASSUME NoNestedDestroy, IInv, NEW s \in Surfaces, Destroy(s) PROVE IInv'
<1>1. pc = "events" /\ Subtree(s) \cap Updating = {} /\ s \in live
  BY DEF NoNestedDestroy, Destroy, MayDestroy
<1>2. Subtree(s) \subseteq live BY <1>1, SubtreeFacts DEF IInv, TypeOK
<1>3. todo = {} /\ nxt = NoSurface /\ hasDirty \in BOOLEAN BY <1>1 DEF TypeOK, IInv
<1>4. DestroyTree(Subtree(s)) /\ UNCHANGED <<hasDirty, passVars, easyVars, stack>>
  BY DEF Destroy
<1>5. todo' = {} /\ nxt' = NoSurface /\ pc' = pc /\ hasDirty' = hasDirty
      /\ UNCHANGED <<easyVars, stack>>
  BY <1>3, <1>4
<1> QED BY <1>1, <1>2, <1>4, <1>5, DestroyKeepsInv

LEMMA PopupDoneStep ==
  ASSUME IInv, NEW s \in Surfaces, PopupDone(s) PROVE IInv'
<1>1. pc = "events" /\ Updating = {} /\ s \in live
  BY EmptyStack DEF PopupDone, Event, EventTurn
<1>2. Subtree(s) \subseteq live BY <1>1, SubtreeFacts DEF IInv, TypeOK
<1>3. todo = {} /\ nxt = NoSurface /\ hasDirty \in BOOLEAN BY <1>1 DEF TypeOK, IInv
<1>4. DestroyTree(Subtree(s)) /\ UNCHANGED <<hasDirty, passVars, easyVars, stack>>
  BY DEF PopupDone
<1>5. todo' = {} /\ nxt' = NoSurface /\ pc' = pc /\ hasDirty' = hasDirty
      /\ UNCHANGED <<easyVars, stack>>
  BY <1>3, <1>4
<1> QED BY <1>1, <1>2, <1>4, <1>5, DestroyKeepsInv

LEMMA DirtDestroyStep ==
  ASSUME IInv, NEW s \in Surfaces, DirtDestroy(s) PROVE IInv'
<1>1. stack = <<>> /\ Updating = {} /\ s \in live
  BY EmptyStack DEF DirtDestroy, Visit, IInv, TypeOK
<1>2. PICK others \in SUBSET (live \ {s}) :
        DestroyTree(UNION {Subtree(t) : t \in others \cup {s}})
  BY DEF DirtDestroy
<1> DEFINE T == UNION {Subtree(t) : t \in others \cup {s}}
<1>3. T \subseteq live BY <1>1, SubtreeFacts DEF IInv, TypeOK
<1>4. DestroyTree(T) BY <1>2
<1>5. StartOver(s) /\ UNCHANGED <<easyVars, stack>> BY DEF DirtDestroy
<1> HIDE DEF T
<1> QED BY <1>1, <1>3, <1>4, <1>5, DestroyKeepsInv DEF StartOver

LEMMA DeinitStep == ASSUME IInv, Deinit PROVE IInv'
<1> DEFINE T == UNION {Subtree(s) : s \in {r \in live : parent[r] = NoSurface}}
<1>1. T \subseteq live BY SubtreeFacts DEF IInv, TypeOK
<1>2. /\ pc = "stopped" /\ stack = <<>> /\ todo = {} /\ nxt = NoSurface
  BY DEF Deinit, TypeOK, IInv
<1>3. Updating = {} BY <1>2, EmptyStack
<1>4. DestroyTree(T) BY DEF Deinit
<1>5. todo' = {} /\ nxt' = NoSurface /\ pc' = "done" /\ hasDirty' = hasDirty
      /\ UNCHANGED <<easyVars, stack>>
  BY <1>2 DEF Deinit
<1> HIDE DEF T
<1> QED BY <1>1, <1>2, <1>3, <1>4, <1>5, DestroyKeepsInv

LEMMA BeginPassStep ==
  ASSUME IInv, stack = <<>>, BeginPass,
         UNCHANGED <<lifeVars, stateVars, wlVars, dirty, easyVars, stack>>
  PROVE  IInv'
<1>1. TypeOK' BY DEF BeginPass, Cursor, IInv, TypeOK
<1>2. Updating' = {} /\ Serving' = {} /\ Updating = {} /\ Serving = {}
  BY EmptyStack DEF Updating, Serving
<1>3. NoSurface \notin dirty BY SurfacesAssumption DEF IInv, TypeOK
<1> QED BY <1>1, <1>2, <1>3 DEF BeginPass, Cursor, TypeOK, IInv

LEMMA LoopCheckStep ==
  ASSUME IInv, stack = <<>>, nxt = NoSurface, LoopCheck,
         UNCHANGED <<lifeVars, stateVars, wlVars, dirty, easyVars, stack>>
  PROVE  IInv'
<1>1. TypeOK' BY DEF LoopCheck, IInv, TypeOK
<1>2. Updating' = {} /\ Serving' = {} /\ Updating = {} /\ Serving = {}
  BY EmptyStack DEF Updating, Serving
<1> QED BY <1>1, <1>2 DEF LoopCheck, TypeOK, IInv

LEMMA EndEventsStep == ASSUME IInv, EndEvents PROVE IInv'
<1>1. stack = <<>> /\ nxt = NoSurface BY DEF EndEvents, EventTurn, IInv
<1> QED BY <1>1, BeginPassStep, LoopCheckStep DEF EndEvents

LEMMA PassEndsStep == ASSUME IInv, PassEnds PROVE IInv'
  BY BeginPassStep, LoopCheckStep DEF PassEnds

LEMMA DirtUpdateStep ==
  ASSUME IInv, NEW s \in Surfaces, DirtUpdate(s) PROVE IInv'
<1>1. /\ stack = <<>> /\ pc = "dirt" /\ nxt = s /\ Update(s)
      /\ s \in todo /\ s \in dirty /\ s \in live /\ Updating = {} /\ Serving = {}
  BY EmptyStack, SurfacesAssumption DEF DirtUpdate, Visit, TypeOK, IInv
<1>2. Updating' = {s} /\ Serving' = {s}
  BY <1>1, UpdatePushes DEF Serving, IInv, DirtUpdate, Advance
<1>3. TypeOK' BY <1>1, UpdatePushes DEF DirtUpdate, Advance, Cursor, Update, IInv, TypeOK
<1>4. /\ s \notin doomed /\ s \notin frameCb
      /\ RolesSettled => s \notin needConfigure
  BY <1>1 DEF DirtUpdate, Due, IInv
<1>5. NoSurface \notin todo BY SurfacesAssumption DEF IInv, TypeOK
<1> QED BY <1>1, <1>2, <1>3, <1>4, <1>5 DEF DirtUpdate, Advance, Cursor, Update, IInv

LEMMA DirtSkipStep ==
  ASSUME IInv, NEW s \in Surfaces, DirtSkip(s) PROVE IInv'
<1>1. /\ stack = <<>> /\ pc = "dirt" /\ s \in todo /\ Updating = {} /\ Serving = {}
  BY EmptyStack, SurfacesAssumption DEF DirtSkip, Visit, IInv
<1>2. Updating' = {} /\ Serving' = {}
  BY <1>1 DEF Updating, Serving, DirtSkip
<1>3. TypeOK' BY DEF DirtSkip, Advance, Cursor, IInv, TypeOK
<1>4. NoSurface \notin todo BY SurfacesAssumption DEF IInv, TypeOK
<1> QED BY <1>1, <1>2, <1>3, <1>4 DEF DirtSkip, Due, Advance, Cursor, IInv

LEMMA UpdateReturnsStep == ASSUME IInv, UpdateReturns PROVE IInv'
<1> USE DEF UpdateReturns
<1>0. Running \in Updating /\ Running \in Surfaces BY RunningUpdates DEF IInv
<1>1. TypeOK' BY ReturnPops DEF IInv, TypeOK
<1>2. Updating \subseteq Updating' \cup {Running} /\ Updating' \subseteq Updating
  BY ReturnPops DEF IInv
<1>3. CASE pc = "dirt" /\ Len(stack) = 1
  <2>1. Serving = {Running} /\ Serving' = {} BY <1>3, ReturnPops DEF Serving, IInv
  <2> QED BY <1>0, <1>1, <1>2, <1>3, <2>1 DEF IInv
<1>4. CASE ~(pc = "dirt" /\ Len(stack) = 1)
  <2>1. Serving' = Serving BY <1>4, ReturnPops DEF Serving, IInv
  <2> QED BY <1>0, <1>1, <1>2, <1>4, <2>1 DEF IInv
<1> QED BY <1>3, <1>4

LEMMA StutterStep == ASSUME IInv, UNCHANGED vars PROVE IInv'
<1>1. TypeOK' BY DEF vars, IInv, TypeOK
<1>2. Updating' = Updating /\ Serving' = Serving BY DEF vars, Updating, Serving
<1> QED BY <1>1, <1>2 DEF vars, IInv

HIDE DEF UpdatingInv, DeferInv, AwaitInv, SerialInv,
         PassInv, PassCursorLinked, LinkedMeansFlagged, NoLostUpdate, NoLostDestroy,
         RolesSettled, AsksOnce

-----------------------------------------------------------------------------
LEMMA StepIInv == ASSUME NoNestedDestroy, IInv, [Next]_vars PROVE IInv'
<1>1. CASE \E s \in Surfaces : ClientStep(s)
  BY <1>1, SurfaceInitStep, RoleCountedStep, RolePopupStep, RoleSubsurfaceStep,
     RoleSeatStep, RoleUnsetStep, SetNeedUpdateStep, DestroyLaterStep, DestroyStep,
     RequestCallbackStep, BufferSubmittedStep, DeferStep DEF ClientStep
<1>2. CASE \E s \in Surfaces : CompositorStep(s)
  BY <1>2, LayerConfigureStep, XdgConfigureStep, ClosedStep, PopupDoneStep,
     FrameDoneStep DEF CompositorStep
<1>3. CASE LoopStep
  BY <1>3, DirtDestroyStep, DirtUpdateStep, DirtSkipStep, PassEndsStep, DeinitStep
  DEF LoopStep, PassStep
<1>4. CASE UpdateReturns \/ DisplayError \/ EndEvents
  BY <1>4, UpdateReturnsStep, DisplayErrorStep, EndEventsStep
<1>5. CASE Finished \/ UNCHANGED vars BY <1>5, StutterStep DEF Finished
<1> QED BY <1>1, <1>2, <1>3, <1>4, <1>5 DEF Next

THEOREM Invariance == ASSUME NoNestedDestroy PROVE Spec => []IInv
<1>1. Init => IInv BY InitIInv
<1>2. IInv /\ [Next]_vars => IInv' BY StepIInv
<1> QED BY <1>1, <1>2, PTL DEF Spec

-----------------------------------------------------------------------------
(* What follows from it. *)

\* The state of every variable is of its type, and what a flag is set on lives.
THEOREM TypeCorrect == ASSUME NoNestedDestroy PROVE Spec => []TypeOK
  BY Invariance, PTL DEF IInv

\* set_need_update, frame_cb, NEEDS_CONFIGURE, defer_update and the dirty list
\* between them never forget an update, however the updates nest.
THEOREM UpdatesAreNotLost ==
  ASSUME NoNestedDestroy, AsksOnce PROVE Spec => []NoLostUpdate
<1>1. IInv => NoLostUpdate BY DEF IInv
<1> QED BY <1>1, Invariance, PTL

\* A surface given to nwl_surface_destroy_later stays linked until a pass
\* destroys it.
THEOREM DestroysAreNotLost ==
  ASSUME NoNestedDestroy, AsksOnce PROVE Spec => []NoLostDestroy
<1>1. IInv => NoLostDestroy BY DEF IInv
<1> QED BY <1>1, Invariance, PTL

\* has_dirty_surfaces is set whenever the current pass leaves a link behind.
THEOREM DirtIsFlagged == ASSUME NoNestedDestroy PROVE Spec => []LinkedMeansFlagged
  BY Invariance, PTL DEF IInv

\* The successor wl_list_for_each_safe loaded in advance is never destroyed
\* before the pass gets to it.
THEOREM CursorIsLinked == ASSUME NoNestedDestroy PROVE Spec => []PassCursorLinked
<1>1. IInv => PassCursorLinked BY DEF IInv, PassInv
<1> QED BY <1>1, Invariance, PTL

LEMMA CallbackStep ==
  ASSUME [Next]_vars, NEW s \in stray' \ stray PROVE s \in frameCb /\ role[s] = "none"
<1>1. ASSUME NEW u, CancelCallback(u) PROVE FALSE BY <1>1 DEF CancelCallback
<1>2. ASSUME NEW T, DropCallbacks(T) PROVE s \in frameCb /\ role[s] = "none"
  BY <1>2 DEF DropCallbacks
<1>3. ASSUME NEW u \in Surfaces, ClientStep(u) PROVE s \in frameCb /\ role[s] = "none"
  BY <1>1, <1>2, <1>3
  DEF ClientStep, SurfaceInit, RoleCounted, RolePopup, RoleSubsurface, GiveRole, RoleSeat,
      RoleUnset, SetNeedUpdate, DestroyLater, Doom, Destroy, DestroyTree,
      RequestCallback, BufferSubmitted, Defer
<1>4. ASSUME NEW u \in Surfaces, CompositorStep(u) PROVE s \in frameCb /\ role[s] = "none"
  BY <1>1, <1>2, <1>4
  DEF CompositorStep, LayerConfigure, XdgConfigure, Closed, Doom, PopupDone, DestroyTree,
      FrameDone, LeftAfterDone
<1>5. ASSUME LoopStep PROVE s \in frameCb /\ role[s] = "none"
  BY <1>2, <1>5
  DEF LoopStep, PassStep, DirtDestroy, DestroyTree, DirtUpdate, DirtSkip, PassEnds, Deinit
<1> QED
  BY <1>3, <1>4, <1>5
  DEF Next, UpdateReturns, DisplayError, EndEvents, Finished, vars

\* Whatever the application does, a wl_callback is left behind only by a surface
\* that drew without a role.
THEOREM CallbacksAreOwned == Spec => CallbackOwned
<1>1. [Next]_vars => [\A s \in stray' \ stray : s \in frameCb /\ role[s] = "none"]_vars
  BY CallbackStep
<1> QED BY <1>1, PTL DEF Spec, CallbackOwned

LEMMA ThrottledStep ==
  ASSUME RolesSettled, IInv, [Next]_vars, StartsUpdate
  PROVE  LET s == stack'[Len(stack')]
         IN  s \notin frameCb' \cup needConfigure' \cup deferred
<1> DEFINE Free(s) == s \notin frameCb' \cup needConfigure' \cup deferred
<1>1. stack' # stack /\ ~UpdateReturns
  BY ReturnPops DEF StartsUpdate, IInv, TypeOK
<1>2. ASSUME NEW s \in Surfaces, Update(s), Free(s) PROVE Free(stack'[Len(stack')])
  BY <1>2, UpdatePushes DEF IInv
<1>3. ASSUME NEW s \in Surfaces, NEW now \in BOOLEAN, SetNeedUpdate(s, now)
      PROVE  Free(stack'[Len(stack')])
  BY <1>1, <1>2, <1>3 DEF SetNeedUpdate, RequestUpdate, Blocked
<1>11. ASSUME NEW s \in Surfaces, RoleSeat(s) PROVE Free(stack'[Len(stack')])
  BY <1>1, <1>2, <1>11 DEF RoleSeat, RequestUpdate, Blocked
<1>4. ASSUME NEW s \in Surfaces,
             XdgConfigure(s) \/ \E c \in BOOLEAN : LayerConfigure(s, c)
      PROVE  Free(stack'[Len(stack')])
  BY <1>1, <1>2, <1>4 DEF XdgConfigure, LayerConfigure, RequestUpdate, Blocked
<1>5. ASSUME NEW s \in Surfaces, FrameDone(s) PROVE Free(stack'[Len(stack')])
  <2>1. s \in frameCb \cup stray /\ Updating = {}
    BY <1>5, EmptyStack DEF FrameDone, LeftAfterDone, Event, EventTurn
  <2>2. Free(s) BY <1>5, <2>1 DEF FrameDone, IInv, AwaitInv, DeferInv
  <2> QED BY <1>1, <1>2, <1>5, <2>2 DEF FrameDone
<1>6. ASSUME NEW s \in Surfaces, DirtUpdate(s) PROVE Free(stack'[Len(stack')])
  <2>1. s \in dirty /\ s \notin doomed /\ s \notin frameCb /\ Updating = {}
    BY <1>6, EmptyStack, SurfacesAssumption
    DEF DirtUpdate, Visit, Due, IInv, TypeOK, PassInv, PassCursorLinked
  <2>2. Free(s) BY <1>6, <2>1 DEF DirtUpdate, IInv, AwaitInv, DeferInv
  <2> QED BY <1>2, <1>6, <2>2 DEF DirtUpdate
<1>7. ASSUME NEW s \in Surfaces, ClientStep(s)
      PROVE  RoleSeat(s) \/ \E now \in BOOLEAN : SetNeedUpdate(s, now)
  BY <1>1, <1>7
  DEF ClientStep, SurfaceInit, RoleCounted, RolePopup, RoleSubsurface, GiveRole,
      RoleUnset, DestroyLater, Doom, Destroy, RequestCallback, BufferSubmitted, Defer
<1>8. ASSUME NEW s \in Surfaces, CompositorStep(s)
      PROVE  FrameDone(s) \/ XdgConfigure(s) \/ \E c \in BOOLEAN : LayerConfigure(s, c)
  BY <1>1, <1>8 DEF CompositorStep, Closed, Doom, PopupDone
<1>9. ASSUME NEW s \in Surfaces, PassStep(s) PROVE DirtUpdate(s)
  BY <1>1, <1>9 DEF PassStep, DirtDestroy, DirtSkip
<1>10. \E s \in Surfaces : ClientStep(s) \/ CompositorStep(s) \/ PassStep(s)
  BY <1>1
  DEF Next, LoopStep, DisplayError, EndEvents, PassEnds, Deinit, Finished, vars
<1> QED BY <1>3, <1>4, <1>5, <1>6, <1>7, <1>8, <1>9, <1>10, <1>11

\* The update callback is called only where it can draw: not while a frame
\* callback or the first configure event is pending, and not recursively into a
\* callback that set defer_update.
THEOREM UpdatesAreThrottled ==
  ASSUME NoNestedDestroy, RolesSettled PROVE Spec => Throttled
<1>1. IInv /\ [Next]_vars =>
        [StartsUpdate => LET s == stack'[Len(stack')]
                         IN  s \notin frameCb' \cup needConfigure' \cup deferred]_vars
  BY ThrottledStep
<1> QED BY <1>1, Invariance, PTL DEF Spec, Throttled

\* A shell surface is given a buffer only after the configure event of its
\* present role, whose serial and no older one it acknowledges.
THEOREM MapsAfterConfigure ==
  ASSUME NoNestedDestroy, RolesSettled PROVE Spec => MapsConfigured
<1>1. ASSUME IInv, [Next]_vars, NEW s \in live, BufferSubmitted(s), role[s] \in ShellRoles
      PROVE  s \notin needConfigure /\ serial[s] # "stale"
  <2>1. s \in Updating BY <1>1, RunningUpdates DEF BufferSubmitted, InUpdateOf, IInv
  <2> QED BY <1>1, <2>1 DEF IInv, TypeOK, AwaitInv, SerialInv
<1>2. IInv /\ [Next]_vars =>
        [\A s \in live : BufferSubmitted(s) /\ role[s] \in ShellRoles
           => s \notin needConfigure /\ serial[s] # "stale"]_vars
  BY <1>1
<1> QED BY <1>2, Invariance, PTL DEF Spec, MapsConfigured

=============================================================================
