------------------------------ MODULE EasyLoop ------------------------------
(***************************************************************************)
(* The globals of nwl_easy (src/wayland.c): outputs and seats that come and*)
(* go with the registry, outputs that are announced to the application once*)
(* the compositor described them, and the descriptors nwl_easy_dispatch    *)
(* polls.  Handlers run in four places: in the two roundtrips of           *)
(* nwl_easy_init, in the display's poll callback, and in the roundtrip that*)
(* announce_outputs makes in the middle of its walk.                       *)
(***************************************************************************)
EXTENDS Naturals, FiniteSets

CONSTANTS
  Outputs, Seats,   \* the registry names of wl_output and wl_seat globals
  Display,          \* the display's descriptor; a seat stands for its timer's
  NoOutput,
  WalkedMayLeave     \* whether an output may be removed while it is being announced

ASSUME NamesAssumption ==
  /\ IsFiniteSet(Outputs) /\ IsFiniteSet(Seats) /\ Outputs \cap Seats = {}
  /\ Display \notin Seats /\ NoOutput \notin Outputs
  /\ WalkedMayLeave \in BOOLEAN

VARIABLES
  pc,         \* where nwl_easy is
  managers,   \* those of core->wl that are bound
  outputs,    \* core->outputs, each also in easy->globals
  seats,      \* core->seats, each also in easy->globals
  announced,  \* nwl_easy_output.announced
  isDone,     \* nwl_output.is_done
  described,  \* nwl_output.xdg_output is not NULL
  devices,    \* the seats whose data_device.wl is not NULL
  listened,   \* those of them whose data device has data_device_listener
  hasNew,     \* easy->has_new_outputs
  polled,     \* the descriptors with a nwl_poll_data, numfds of them
  reported,   \* the events in poll.ev whose turn is still to come
  ahead,      \* the outputs to announce that announce_outputs has not reached
  cursor,     \* the output whose turn it is, during the roundtrip
  tripped,    \* `roundtripped' of announce_outputs
  \* The compositor: the names it has used, the done events it will send for
  \* each output because of what it was asked, and the outputs whose
  \* descriptions the present roundtrip waits for
  used, owed, awaited,
  late,       \* the outputs bound while others were being announced
  listed      \* the seats of the first roundtrip of nwl_easy_init

registry == <<managers, outputs, seats, announced, isDone, described, devices, listened,
              hasNew>>
polling  == <<polled, reported>>
walk     == <<ahead, cursor, tripped>>
vars     == <<pc, registry, polling, walk, used, owed, awaited, late, listed>>

Managers == {"xdg_output_manager", "data_device_manager"}

\* a handler of the compositor's events may run
Handling == pc \in {"init", "filling", "dispatch", "roundtrip"}

-----------------------------------------------------------------------------
(* A Bad... definition is a faulty form of the one that follows it. *)

\* nwl_output_init: how many done events a new output waits for
Requests == IF "xdg_output_manager" \in managers THEN 2 ELSE 1

\* handle_global_add of a wl_output.  The link goes to the head of core->outputs,
\* behind the walk of announce_outputs.
OutputAdd(o) ==
  /\ Handling /\ o \notin used
  /\ used' = used \cup {o}
  /\ outputs' = outputs \cup {o}
  /\ isDone' = [isDone EXCEPT ![o] = Requests]
  /\ described' = IF "xdg_output_manager" \in managers THEN described \cup {o} ELSE described
  /\ owed' = [owed EXCEPT ![o] = Requests]
  /\ hasNew' = TRUE
  /\ late' = IF pc = "roundtrip" THEN late \cup {o} ELSE late
  /\ UNCHANGED <<pc, managers, seats, announced, devices, listened, polling, walk, awaited,
                 listed>>

\* handle_global_add of a wl_seat
SeatAdd(t) ==
  /\ Handling /\ t \notin used
  /\ used' = used \cup {t}
  /\ seats' = seats \cup {t}
  /\ IF "data_device_manager" \in managers
     THEN devices' = devices \cup {t} /\ listened' = listened \cup {t}
     ELSE UNCHANGED <<devices, listened>>
  /\ polled' = polled \cup {t}
  /\ UNCHANGED <<pc, managers, outputs, announced, isDone, described, hasNew, reported, walk,
                 owed, awaited, late, listed>>

\* nwl_core_handle_global; a compositor has its managers from the start
ManagerAdd(m) ==
  /\ pc = "init" /\ m \notin managers
  /\ managers' = managers \cup {m}
  /\ UNCHANGED <<pc, outputs, seats, announced, isDone, described, devices, listened, hasNew,
                 polling, walk, used, owed, awaited, late, listed>>

\* handle_global_remove of a wl_output.  From the output that is being announced
\* the walk of announce_outputs goes on, also when it was freed.
OutputRemove(o) ==
  /\ Handling /\ o \in outputs
  /\ WalkedMayLeave \/ o # cursor
  /\ outputs' = outputs \ {o} /\ announced' = announced \ {o} /\ described' = described \ {o}
  /\ ahead' = ahead \ {o}
  /\ late' = late \ {o}
  /\ isDone' = [isDone EXCEPT ![o] = 0] /\ owed' = [owed EXCEPT ![o] = 0]
  /\ awaited' = awaited \ {o}
  /\ UNCHANGED <<pc, managers, seats, devices, listened, hasNew, polling, cursor, tripped,
                 used, listed>>

\* handle_global_remove of a wl_seat.  nwl_easy_del_fd frees the data of an event that
\* may be in poll.ev; as far as the model goes, the memory is read as it was.
SeatRemove(t) ==
  /\ Handling /\ t \in seats
  /\ seats' = seats \ {t} /\ devices' = devices \ {t} /\ listened' = listened \ {t}
  /\ polled' = polled \ {t} /\ listed' = listed \ {t}
  /\ UNCHANGED <<pc, managers, outputs, announced, isDone, described, hasNew, reported, walk,
                 used, owed, awaited, late>>

BadCountDone(o) == isDone' = [isDone EXCEPT ![o] = @ - 1]

\* handle_output_done
CountDone(o) == isDone' = [isDone EXCEPT ![o] = IF @ > 0 THEN @ - 1 ELSE 0]

\* ... in answer to a request.  What is asked for while the display's events are
\* handled is sent at the next poll or roundtrip, and answered after it.
OutputDone(o) ==
  /\ Handling /\ o \in outputs /\ owed[o] > 0
  /\ pc = "dispatch" => o \in announced \cup late
  /\ owed' = [owed EXCEPT ![o] = @ - 1]
  /\ CountDone(o)
  /\ UNCHANGED <<pc, managers, outputs, seats, announced, described, devices, listened, hasNew,
                 polling, walk, used, awaited, late, listed>>

\* ... because the output changed.  The answers to requests that were sent
\* together come together; those of nwl_easy_init are not.
OutputChanged(o) ==
  /\ Handling /\ o \in outputs
  /\ owed[o] = 0 \/ (pc = "filling" /\ o \in awaited)
  /\ CountDone(o)
  /\ UNCHANGED <<pc, managers, outputs, seats, announced, described, devices, listened, hasNew,
                 polling, walk, used, owed, awaited, late, listed>>

-----------------------------------------------------------------------------
(* nwl_easy_init *)

\* What a wl_display_roundtrip that begins now waits for
Awaited(answers) == {o \in outputs : answers[o] > 0}

RoundtripOver == \A o \in awaited : owed[o] = 0

BadUndescribed == {}

\* the outputs sent before the manager: nwl_easy_init asks for their xdg_output
Undescribed == IF "xdg_output_manager" \in managers THEN outputs \ described ELSE {}

\* The first roundtrip of nwl_easy_init ends; what follows up to the second.
GlobalsListed ==
  /\ pc = "init"
  /\ pc' = "filling"
  /\ polled' = polled \cup {Display}
  /\ isDone' = [o \in Outputs |-> IF o \in Undescribed THEN 2 ELSE isDone[o]]
  /\ owed' = [o \in Outputs |-> IF o \in Undescribed THEN owed[o] + 1 ELSE owed[o]]
  /\ described' = described \cup Undescribed
  /\ devices' = IF "data_device_manager" \in managers THEN seats ELSE devices
  /\ awaited' = Awaited(owed')
  /\ listed' = seats
  /\ UNCHANGED <<managers, outputs, seats, announced, listened, hasNew, reported, walk, used,
                 late>>

-----------------------------------------------------------------------------
(* announce_outputs *)

ToAnnounce == outputs \ announced

\* has_new_outputs is looked at: `Let them know there are outputs!'
AnnounceOrPoll ==
  IF hasNew
  THEN pc' = "announcing" /\ ahead' = ToAnnounce /\ tripped' = FALSE /\ UNCHANGED cursor
  ELSE pc' = "polling" /\ UNCHANGED walk

\* The second roundtrip of nwl_easy_init ends.
InitEnds ==
  /\ pc = "filling" /\ RoundtripOver
  /\ AnnounceOrPoll
  /\ awaited' = {}
  /\ UNCHANGED <<registry, polling, used, owed, late, listed>>

BadNeedsRoundtrip(o) == FALSE

\* `Roundtrip to ensure it's done.'
NeedsRoundtrip(o) == isDone[o] # 0 /\ ~tripped

BeginRoundtrip(o) ==
  /\ pc = "announcing" /\ o \in ahead /\ NeedsRoundtrip(o)
  /\ pc' = "roundtrip" /\ cursor' = o /\ tripped' = TRUE
  /\ awaited' = Awaited(owed)
  /\ UNCHANGED <<registry, polling, ahead, used, owed, late, listed>>

\* o is marked as announced and the application's global_bound is called.
Announced(o) ==
  /\ announced' = announced \cup {o}
  /\ late' = late \ {o}
  /\ UNCHANGED <<managers, outputs, seats, isDone, described, devices, listened, hasNew,
                 polling, tripped, used, owed, listed>>

Announce(o) ==
  /\ pc = "announcing" /\ o \in ahead /\ ~NeedsRoundtrip(o)
  /\ ahead' = ahead \ {o}
  /\ Announced(o)
  /\ UNCHANGED <<pc, cursor, awaited>>

BadNextOutputs(o) == {}

\* the rest of the list, behind the output o
NextOutputs(o) == ahead \ {o}

EndRoundtrip ==
  /\ pc = "roundtrip" /\ RoundtripOver
  /\ pc' = "announcing" /\ cursor' = NoOutput /\ awaited' = {}
  /\ ahead' = NextOutputs(cursor)
  /\ Announced(cursor)

\* ... and has_new_outputs = false, also for those bound during the roundtrip
AnnounceEnds ==
  /\ pc = "announcing" /\ ahead = {}
  /\ pc' = "polling" /\ hasNew' = FALSE
  /\ UNCHANGED <<managers, outputs, seats, announced, isDone, described, devices, listened,
                 polling, walk, used, owed, awaited, late, listed>>

-----------------------------------------------------------------------------
(* nwl_easy_dispatch and nwl_easy_deinit *)

\* epoll_wait returns.
Poll ==
  /\ pc = "polling"
  /\ pc' = "batch"
  /\ reported' \in SUBSET polled \ {{}}
  /\ UNCHANGED <<registry, walk, polled, used, owed, awaited, late, listed>>

\* The next event of the batch: easy_handle_repeat, or the display's.
NextEvent(d) ==
  /\ pc = "batch" /\ d \in reported
  /\ reported' = reported \ {d}
  /\ pc' = IF d = Display THEN "dispatch" ELSE "batch"
  /\ UNCHANGED <<registry, polled, walk, used, owed, awaited, late, listed>>

\* wl_display_dispatch has handled what it read.
DispatchEnds ==
  /\ pc = "dispatch"
  /\ pc' = "batch"
  /\ UNCHANGED <<registry, polling, walk, used, owed, awaited, late, listed>>

BatchEnds ==
  /\ pc = "batch" /\ reported = {}
  /\ AnnounceOrPoll
  /\ UNCHANGED <<registry, polling, used, owed, awaited, late, listed>>

\* nwl_easy_deinit, when nwl_easy_run returned: every global, then the descriptors
Deinit ==
  /\ pc = "polling"
  /\ pc' = "done"
  /\ managers' = {} /\ outputs' = {} /\ seats' = {} /\ announced' = {}
  /\ described' = {} /\ devices' = {} /\ listened' = {}
  /\ isDone' = [o \in Outputs |-> 0] /\ owed' = [o \in Outputs |-> 0]
  /\ polled' = {} /\ late' = {} /\ listed' = {}
  /\ UNCHANGED <<hasNew, reported, walk, used, awaited>>

Finished == pc = "done" /\ UNCHANGED vars

-----------------------------------------------------------------------------
Init ==
  /\ pc = "init" /\ managers = {}
  /\ outputs = {} /\ seats = {} /\ announced = {} /\ described = {}
  /\ devices = {} /\ listened = {}
  /\ isDone = [o \in Outputs |-> 0] /\ hasNew = FALSE
  /\ polled = {} /\ reported = {}
  /\ ahead = {} /\ cursor = NoOutput /\ tripped = FALSE
  /\ used = {} /\ owed = [o \in Outputs |-> 0] /\ awaited = {}
  /\ late = {} /\ listed = {}

Next ==
  \/ \E o \in Outputs :
       OutputAdd(o) \/ OutputRemove(o) \/ OutputDone(o) \/ OutputChanged(o)
         \/ BeginRoundtrip(o) \/ Announce(o)
  \/ \E t \in Seats : SeatAdd(t) \/ SeatRemove(t)
  \/ \E m \in Managers : ManagerAdd(m)
  \/ GlobalsListed \/ InitEnds \/ EndRoundtrip \/ AnnounceEnds
  \/ Poll \/ BatchEnds \/ DispatchEnds \/ Deinit \/ Finished
  \/ \E d \in Seats \cup {Display} : NextEvent(d)

Spec == Init /\ [][Next]_vars

-----------------------------------------------------------------------------
TypeOK ==
  /\ pc \in {"init", "filling", "announcing", "roundtrip", "polling", "batch", "dispatch",
             "done"}
  /\ managers \subseteq Managers
  /\ outputs \subseteq Outputs /\ seats \subseteq Seats /\ used \subseteq Outputs \cup Seats
  /\ announced \subseteq outputs /\ described \subseteq outputs
  /\ devices \subseteq seats /\ listened \subseteq devices /\ listed \subseteq seats
  /\ isDone \in [Outputs -> 0..2] /\ owed \in [Outputs -> 0..2]
  /\ ahead \subseteq outputs \ announced /\ cursor \in outputs \cup {NoOutput}
  /\ awaited \subseteq outputs /\ late \subseteq outputs
  /\ {hasNew, tripped} \subseteq BOOLEAN
  /\ polled \subseteq seats \cup {Display} /\ reported \subseteq Seats \cup {Display}

\* The application is told of an output when all that was asked about it has come,
\* its logical size too, also when it was bound before the manager, or while
\* another output was being announced.
DescribedWhenAnnounced == \A o \in announced : owed[o] = 0

\* When the loop waits again, every output has been announced but those bound in the
\* roundtrip of an announcement: has_new_outputs is cleared after that, and such an
\* output waits until another one comes.
NoneForgotten == pc = "polling" => outputs \ announced \subseteq late

\* Globals that depend on a manager have its object, in whichever order the registry
\* listed them.  That a seat hears of its data device is said only of those that
\* came after the first roundtrip: nwl_easy_init adds no listener for one that was
\* listed before the manager.
ManagersReachAll ==
  pc # "init" =>
    /\ "xdg_output_manager" \in managers => described = outputs
    /\ "data_device_manager" \in managers => devices = seats /\ seats \ listened \subseteq listed
=============================================================================
