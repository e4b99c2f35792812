--------------------------- MODULE UpdateService ---------------------------
(***************************************************************************)
(* What nwl promises an application about updates and destruction, whatever*)
(* lists, flags and callbacks bring it about.  An update that was asked for*)
(* waits either in the queue of the next pass or for an event that is sure *)
(* to raise it; it starts only when nothing holds it back; calls of        *)
(* impl.update nest; a doomed surface is destroyed.                        *)
(***************************************************************************)
EXTENDS Sequences, Naturals

CONSTANTS
  Surfaces,
  SelfServing  \* the surfaces whose application asks again after a configure

VARIABLES
  alive, dead,
  shown,    \* has a role
  wanted,   \* an update was asked for and has not started
  queued,   \* those of `wanted' that the next pass takes
  held,     \* no update may start: a frame, a configure or the surface's own
            \* update is awaited
  doomed,   \* to be destroyed by the next pass
  calls     \* the surfaces whose update runs, the outermost first

vars == <<alive, dead, shown, wanted, queued, held, doomed, calls>>

\* s keeps what it was promised in the next state
Kept(s) == s \in wanted' => s \in queued' \cup held' \cup SelfServing

\* s may get a role with it
MayShow(s) == shown' \in {shown, shown \cup {s}}

\* what holds s back may end
MayOpen(s) == held' = held \/ held' = held \ {s}

-----------------------------------------------------------------------------
Create(s) ==
  /\ s \notin alive \cup dead
  /\ alive' = alive \cup {s}
  /\ UNCHANGED <<dead, shown, wanted, queued, held, doomed, calls>>

\* s gets a role, which may have to be configured first.
Show(s) ==
  /\ s \in alive \ shown
  /\ shown' = shown \cup {s}
  /\ held' \in {held, held \cup {s}}
  /\ UNCHANGED <<alive, dead, wanted, queued, doomed, calls>>

\* An update is asked for and cannot start now.
Ask(s) ==
  /\ s \in alive
  /\ wanted' = wanted \cup {s}
  /\ queued' \in {queued, queued \cup {s}}
  /\ Kept(s) /\ MayShow(s)
  /\ UNCHANGED <<alive, dead, held, doomed, calls>>

\* An update starts: at the call that asks for it, at the event that was awaited
\* or in the pass.
Serve(s) ==
  /\ s \in alive
  /\ MayOpen(s) /\ s \notin held' /\ MayShow(s)
  /\ wanted' = wanted \ {s} /\ queued' = queued \ {s}
  /\ calls' = Append(calls, s)
  /\ UNCHANGED <<alive, dead, doomed>>

\* The innermost update returns.
Return ==
  /\ calls # <<>>
  /\ calls' = SubSeq(calls, 1, Len(calls) - 1)
  /\ MayOpen(calls[Len(calls)]) /\ Kept(calls[Len(calls)])
  /\ UNCHANGED <<alive, dead, shown, wanted, queued, doomed>>

Hold(s) ==
  /\ s \in alive
  /\ held' = held \cup {s}
  /\ UNCHANGED <<alive, dead, shown, wanted, queued, doomed, calls>>

\* The event that was awaited comes, and no update with it.
Open(s) ==
  /\ held' = held \ {s} /\ Kept(s)
  /\ UNCHANGED <<alive, dead, shown, wanted, queued, doomed, calls>>

\* The pass drops a surface that is held back.
Park(s) ==
  /\ s \in held
  /\ queued' = queued \ {s}
  /\ UNCHANGED <<alive, dead, shown, wanted, held, doomed, calls>>

Doom(s) ==
  /\ s \in alive \ doomed
  /\ doomed' = doomed \cup {s}
  /\ queued' = queued \cup ({s} \cap wanted)
  /\ MayOpen(s)
  /\ UNCHANGED <<alive, dead, shown, wanted, calls>>

\* s loses its role if it has one, and what was asked of it in that role.  A surface
\* without a role is promised nothing beyond that.
Withdraw(s) ==
  /\ s \in alive
  /\ shown' = shown \ {s}
  /\ wanted' = wanted \ {s} /\ queued' = queued \ {s} /\ doomed' = doomed \ {s}
  /\ MayOpen(s)
  /\ UNCHANGED <<alive, dead, calls>>

\* Surfaces are destroyed together, and nothing of them is left.
Kill(T) ==
  /\ T \subseteq alive
  /\ alive' = alive \ T /\ dead' = dead \cup T
  /\ shown' = shown \ T /\ wanted' = wanted \ T /\ queued' = queued \ T
  /\ held' = held \ T /\ doomed' = doomed \ T
  /\ UNCHANGED calls

-----------------------------------------------------------------------------
Init ==
  /\ alive = {} /\ dead = {}
  /\ shown = {} /\ wanted = {} /\ queued = {} /\ held = {} /\ doomed = {}
  /\ calls = <<>>

Next ==
  \/ \E s \in Surfaces :
       \/ Create(s) \/ Show(s) \/ Ask(s) \/ Serve(s) \/ Hold(s) \/ Open(s) \/ Park(s)
       \/ Doom(s) \/ Withdraw(s)
  \/ \E T \in SUBSET Surfaces : Kill(T)
  \/ Return

Spec == Init /\ [][Next]_vars

\* What is queued is served, or held back by an event to come, or dropped with its
\* role; what is doomed is destroyed.
Live ==
  \A s \in Surfaces :
    (s \in queued ~> s \notin wanted \/ s \in held) /\ (s \in doomed ~> s \notin doomed)
=============================================================================
