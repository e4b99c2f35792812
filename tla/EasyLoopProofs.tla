--------------------------- MODULE EasyLoopProofs ---------------------------
EXTENDS SurfaceOutputs, FiniteSetTheorems, TLAPS

(* No output goes during the roundtrip of its own announcement: the walk would *)
(* go on from freed memory, and nothing can be said after that.                  *)
WalkedStays == ~WalkedMayLeave

\* What is set aside only at certain places of the loop
PhaseInv ==
  /\ pc \in {"init", "filling"} => announced = {}
  /\ pc \notin {"announcing", "roundtrip"} => ahead = {}
  /\ pc = "roundtrip" <=> cursor # NoOutput
  /\ pc = "roundtrip" => cursor \in ahead
  /\ pc \notin {"filling", "roundtrip"} => awaited = {}
  /\ pc = "announcing" => cursor \notin ahead
  /\ outputs \cup seats \subseteq used

\* is_done counts at least the answers under way, where no other done event may
\* be taken for one
DoneInv ==
  \A o \in outputs :
    /\ owed[o] <= isDone[o] \/ (pc = "filling" /\ o \in awaited)
    /\ o \notin described => owed[o] <= 1

\* What the present or the last roundtrip of the walk answers
TrippedInv ==
  /\ pc = "roundtrip" => \A o \in ahead : owed[o] > 0 => o \in awaited
  /\ pc = "announcing" /\ tripped => \A o \in ahead : owed[o] = 0

\* An output that is not announced is one the flag, the walk, or nobody knows of
PendingInv ==
  /\ hasNew \/ outputs \ announced \subseteq late
  /\ pc = "polling" => ~hasNew
  /\ pc \in {"announcing", "roundtrip"} => outputs \ announced \subseteq late \cup ahead

IInv ==
  /\ TypeOK /\ PhaseInv /\ DoneInv /\ TrippedInv /\ PendingInv
  /\ DescribedWhenAnnounced /\ ManagersReachAll

-----------------------------------------------------------------------------
LEMMA TypeStep ==
  ASSUME WalkedStays, IInv, [Next]_vars
  PROVE  TypeOK'
<1> USE NamesAssumption
<1>1. TypeOK /\ PhaseInv /\ DoneInv BY DEF IInv
<1> USE <1>1 DEF TypeOK, registry, polling, walk
<1>2. ASSUME NEW o \in Outputs, OutputAdd(o) PROVE TypeOK'
  BY <1>2 DEF OutputAdd, Requests
<1>3. ASSUME NEW o \in Outputs, OutputRemove(o) PROVE TypeOK'
  BY <1>3 DEF OutputRemove, WalkedStays
<1>4. ASSUME NEW o \in Outputs, OutputDone(o) PROVE TypeOK'
  BY <1>4 DEF OutputDone, CountDone
<1>5. ASSUME NEW o \in Outputs, OutputChanged(o) PROVE TypeOK'
  BY <1>5 DEF OutputChanged, CountDone
<1>6. ASSUME NEW o \in Outputs, BeginRoundtrip(o) PROVE TypeOK'
  BY <1>6 DEF BeginRoundtrip, Awaited
<1>7. ASSUME NEW o \in Outputs, Announce(o) PROVE TypeOK'
  BY <1>7 DEF Announce, Announced
<1>8. ASSUME NEW t \in Seats, SeatAdd(t) PROVE TypeOK' BY <1>8 DEF SeatAdd
<1>9. ASSUME NEW t \in Seats, SeatRemove(t) PROVE TypeOK' BY <1>9 DEF SeatRemove
<1>10. ASSUME NEW m \in Managers, ManagerAdd(m) PROVE TypeOK' BY <1>10 DEF ManagerAdd
<1>11. CASE GlobalsListed
  <2>1. owed' \in [Outputs -> 0..2]
    <3>1. ASSUME NEW o \in Undescribed PROVE o \in Outputs /\ owed[o] + 1 \in 0..2
      BY <3>1 DEF Undescribed, DoneInv
    <3> QED BY <1>11, <3>1 DEF GlobalsListed
  <2>2. isDone' \in [Outputs -> 0..2] BY <1>11 DEF GlobalsListed
  <2>3. /\ described' \subseteq outputs' /\ devices' \subseteq seats'
        /\ awaited' \subseteq outputs'
    BY <1>11 DEF GlobalsListed, Undescribed, Awaited
  <2> QED BY <1>11, <2>1, <2>2, <2>3 DEF GlobalsListed
<1>12. CASE InitEnds BY <1>12 DEF InitEnds, AnnounceOrPoll, ToAnnounce
<1>13. CASE EndRoundtrip
  BY <1>13 DEF EndRoundtrip, Announced, NextOutputs, PhaseInv
<1>14. CASE AnnounceEnds BY <1>14 DEF AnnounceEnds
<1>15. CASE Poll BY <1>15 DEF Poll
<1>16. CASE BatchEnds BY <1>16 DEF BatchEnds, AnnounceOrPoll, ToAnnounce
<1>17. CASE DispatchEnds BY <1>17 DEF DispatchEnds
<1>18. CASE Deinit BY <1>18 DEF Deinit, PhaseInv
<1>19. ASSUME NEW d \in Seats \cup {Display}, NextEvent(d) PROVE TypeOK'
  BY <1>19 DEF NextEvent
<1>20. CASE UNCHANGED vars BY <1>20 DEF vars
<1> QED
  BY <1>2, <1>3, <1>4, <1>5, <1>6, <1>7, <1>8, <1>9, <1>10, <1>11, <1>12, <1>13, <1>14,
     <1>15, <1>16, <1>17, <1>18, <1>19, <1>20 DEF Next, Finished

LEMMA PhaseStep ==
  ASSUME WalkedStays, IInv, [Next]_vars
  PROVE  PhaseInv'
<1> USE NamesAssumption
    DEF IInv, TypeOK, PhaseInv, registry, polling, walk
<1>1. ASSUME NEW o \in Outputs, OutputAdd(o) PROVE PhaseInv'
  BY <1>1 DEF OutputAdd, Requests
<1>2. ASSUME NEW o \in Outputs, OutputRemove(o) PROVE PhaseInv'
  BY <1>2 DEF OutputRemove, WalkedStays
<1>3. ASSUME NEW o \in Outputs, OutputDone(o) PROVE PhaseInv'
  BY <1>3 DEF OutputDone, CountDone
<1>4. ASSUME NEW o \in Outputs, OutputChanged(o) PROVE PhaseInv'
  BY <1>4 DEF OutputChanged, CountDone
<1>5. ASSUME NEW o \in Outputs, BeginRoundtrip(o) PROVE PhaseInv'
  BY <1>5 DEF BeginRoundtrip, Awaited
<1>6. ASSUME NEW o \in Outputs, Announce(o) PROVE PhaseInv'
  BY <1>6 DEF Announce, Announced, NeedsRoundtrip
<1>7. ASSUME NEW t \in Seats, SeatAdd(t) PROVE PhaseInv'
  BY <1>7 DEF SeatAdd
<1>8. ASSUME NEW t \in Seats, SeatRemove(t) PROVE PhaseInv'
  BY <1>8 DEF SeatRemove
<1>9. ASSUME NEW m \in Managers, ManagerAdd(m) PROVE PhaseInv'
  BY <1>9 DEF ManagerAdd
<1>10. CASE GlobalsListed
  BY <1>10 DEF GlobalsListed, Undescribed, Awaited
<1>11. CASE InitEnds
  BY <1>11 DEF InitEnds, AnnounceOrPoll, ToAnnounce, RoundtripOver
<1>12. CASE EndRoundtrip
  BY <1>12 DEF EndRoundtrip, Announced, NextOutputs, RoundtripOver
<1>13. CASE AnnounceEnds
  BY <1>13 DEF AnnounceEnds
<1>14. CASE Poll
  BY <1>14 DEF Poll
<1>15. CASE BatchEnds
  BY <1>15 DEF BatchEnds, AnnounceOrPoll, ToAnnounce
<1>16. CASE DispatchEnds
  BY <1>16 DEF DispatchEnds
<1>17. CASE Deinit
  BY <1>17 DEF Deinit
<1>18. ASSUME NEW d \in Seats \cup {Display}, NextEvent(d) PROVE PhaseInv'
  BY <1>18 DEF NextEvent
<1>19. CASE UNCHANGED vars
  BY <1>19 DEF vars
<1> QED
  BY <1>1, <1>2, <1>3, <1>4, <1>5, <1>6, <1>7, <1>8, <1>9, <1>10, <1>11, <1>12, <1>13, <1>14,
     <1>15, <1>16, <1>17, <1>18, <1>19 DEF Next, Finished

LEMMA DoneStep ==
  ASSUME WalkedStays, IInv, [Next]_vars
  PROVE  DoneInv'
<1> USE NamesAssumption
    DEF IInv, TypeOK, PhaseInv, DoneInv, registry, polling, walk, Handling
<1>1. ASSUME NEW o \in Outputs, OutputAdd(o) PROVE DoneInv'
  BY <1>1 DEF OutputAdd, Requests
<1>2. ASSUME NEW o \in Outputs, OutputRemove(o) PROVE DoneInv'
  BY <1>2 DEF OutputRemove
<1>3. ASSUME NEW o \in Outputs, OutputDone(o) PROVE DoneInv'
  BY <1>3 DEF OutputDone, CountDone
<1>4. ASSUME NEW o \in Outputs, OutputChanged(o) PROVE DoneInv'
  BY <1>4 DEF OutputChanged, CountDone
<1>5. ASSUME NEW o \in Outputs, BeginRoundtrip(o) PROVE DoneInv'
  BY <1>5 DEF BeginRoundtrip, Awaited
<1>6. ASSUME NEW o \in Outputs, Announce(o) PROVE DoneInv'
  BY <1>6 DEF Announce, Announced, NeedsRoundtrip
<1>7. ASSUME NEW t \in Seats, SeatAdd(t) PROVE DoneInv'
  BY <1>7 DEF SeatAdd
<1>8. ASSUME NEW t \in Seats, SeatRemove(t) PROVE DoneInv'
  BY <1>8 DEF SeatRemove
<1>9. ASSUME NEW m \in Managers, ManagerAdd(m) PROVE DoneInv'
  BY <1>9 DEF ManagerAdd
<1>10. CASE GlobalsListed
  BY <1>10 DEF GlobalsListed, Undescribed, Awaited
<1>11. CASE InitEnds
  BY <1>11 DEF InitEnds, AnnounceOrPoll, ToAnnounce, RoundtripOver
<1>12. CASE EndRoundtrip
  BY <1>12 DEF EndRoundtrip, Announced, NextOutputs, RoundtripOver
<1>13. CASE AnnounceEnds
  BY <1>13 DEF AnnounceEnds
<1>14. CASE Poll
  BY <1>14 DEF Poll
<1>15. CASE BatchEnds
  BY <1>15 DEF BatchEnds, AnnounceOrPoll, ToAnnounce
<1>16. CASE DispatchEnds
  BY <1>16 DEF DispatchEnds
<1>17. CASE Deinit
  BY <1>17 DEF Deinit
<1>18. ASSUME NEW d \in Seats \cup {Display}, NextEvent(d) PROVE DoneInv'
  BY <1>18 DEF NextEvent
<1>19. CASE UNCHANGED vars
  BY <1>19 DEF vars
<1> QED
  BY <1>1, <1>2, <1>3, <1>4, <1>5, <1>6, <1>7, <1>8, <1>9, <1>10, <1>11, <1>12, <1>13, <1>14,
     <1>15, <1>16, <1>17, <1>18, <1>19 DEF Next, Finished

LEMMA TrippedStep ==
  ASSUME WalkedStays, IInv, [Next]_vars
  PROVE  TrippedInv'
<1> USE NamesAssumption
    DEF IInv, TypeOK, PhaseInv, TrippedInv, registry, polling, walk, Handling
<1>1. ASSUME NEW o \in Outputs, OutputAdd(o) PROVE TrippedInv'
  BY <1>1 DEF OutputAdd, Requests
<1>2. ASSUME NEW o \in Outputs, OutputRemove(o) PROVE TrippedInv'
  BY <1>2 DEF OutputRemove
<1>3. ASSUME NEW o \in Outputs, OutputDone(o) PROVE TrippedInv'
  BY <1>3 DEF OutputDone, CountDone
<1>4. ASSUME NEW o \in Outputs, OutputChanged(o) PROVE TrippedInv'
  BY <1>4 DEF OutputChanged, CountDone
<1>5. ASSUME NEW o \in Outputs, BeginRoundtrip(o) PROVE TrippedInv'
  BY <1>5 DEF BeginRoundtrip, Awaited
<1>6. ASSUME NEW o \in Outputs, Announce(o) PROVE TrippedInv'
  BY <1>6 DEF Announce, Announced, NeedsRoundtrip
<1>7. ASSUME NEW t \in Seats, SeatAdd(t) PROVE TrippedInv'
  BY <1>7 DEF SeatAdd
<1>8. ASSUME NEW t \in Seats, SeatRemove(t) PROVE TrippedInv'
  BY <1>8 DEF SeatRemove
<1>9. ASSUME NEW m \in Managers, ManagerAdd(m) PROVE TrippedInv'
  BY <1>9 DEF ManagerAdd
<1>10. CASE GlobalsListed
  BY <1>10 DEF GlobalsListed, Undescribed, Awaited
<1>11. CASE InitEnds
  BY <1>11 DEF InitEnds, AnnounceOrPoll, ToAnnounce, RoundtripOver
<1>12. CASE EndRoundtrip
  BY <1>12 DEF EndRoundtrip, Announced, NextOutputs, RoundtripOver
<1>13. CASE AnnounceEnds
  BY <1>13 DEF AnnounceEnds
<1>14. CASE Poll
  BY <1>14 DEF Poll
<1>15. CASE BatchEnds
  BY <1>15 DEF BatchEnds, AnnounceOrPoll, ToAnnounce
<1>16. CASE DispatchEnds
  BY <1>16 DEF DispatchEnds
<1>17. CASE Deinit
  BY <1>17 DEF Deinit
<1>18. ASSUME NEW d \in Seats \cup {Display}, NextEvent(d) PROVE TrippedInv'
  BY <1>18 DEF NextEvent
<1>19. CASE UNCHANGED vars
  BY <1>19 DEF vars
<1> QED
  BY <1>1, <1>2, <1>3, <1>4, <1>5, <1>6, <1>7, <1>8, <1>9, <1>10, <1>11, <1>12, <1>13, <1>14,
     <1>15, <1>16, <1>17, <1>18, <1>19 DEF Next, Finished

LEMMA PendingStep ==
  ASSUME WalkedStays, IInv, [Next]_vars
  PROVE  PendingInv'
<1> USE NamesAssumption
    DEF IInv, TypeOK, PhaseInv, PendingInv, registry, polling, walk, Handling
<1>1. ASSUME NEW o \in Outputs, OutputAdd(o) PROVE PendingInv'
  BY <1>1 DEF OutputAdd, Requests
<1>2. ASSUME NEW o \in Outputs, OutputRemove(o) PROVE PendingInv'
  BY <1>2 DEF OutputRemove
<1>3. ASSUME NEW o \in Outputs, OutputDone(o) PROVE PendingInv'
  BY <1>3 DEF OutputDone, CountDone
<1>4. ASSUME NEW o \in Outputs, OutputChanged(o) PROVE PendingInv'
  BY <1>4 DEF OutputChanged, CountDone
<1>5. ASSUME NEW o \in Outputs, BeginRoundtrip(o) PROVE PendingInv'
  BY <1>5 DEF BeginRoundtrip, Awaited
<1>6. ASSUME NEW o \in Outputs, Announce(o) PROVE PendingInv'
  BY <1>6 DEF Announce, Announced, NeedsRoundtrip
<1>7. ASSUME NEW t \in Seats, SeatAdd(t) PROVE PendingInv'
  BY <1>7 DEF SeatAdd
<1>8. ASSUME NEW t \in Seats, SeatRemove(t) PROVE PendingInv'
  BY <1>8 DEF SeatRemove
<1>9. ASSUME NEW m \in Managers, ManagerAdd(m) PROVE PendingInv'
  BY <1>9 DEF ManagerAdd
<1>10. CASE GlobalsListed
  BY <1>10 DEF GlobalsListed, Undescribed, Awaited
<1>11. CASE InitEnds
  BY <1>11 DEF InitEnds, AnnounceOrPoll, ToAnnounce, RoundtripOver
<1>12. CASE EndRoundtrip
  BY <1>12 DEF EndRoundtrip, Announced, NextOutputs, RoundtripOver
<1>13. CASE AnnounceEnds
  BY <1>13 DEF AnnounceEnds
<1>14. CASE Poll
  BY <1>14 DEF Poll
<1>15. CASE BatchEnds
  BY <1>15 DEF BatchEnds, AnnounceOrPoll, ToAnnounce
<1>16. CASE DispatchEnds
  BY <1>16 DEF DispatchEnds
<1>17. CASE Deinit
  BY <1>17 DEF Deinit
<1>18. ASSUME NEW d \in Seats \cup {Display}, NextEvent(d) PROVE PendingInv'
  BY <1>18 DEF NextEvent
<1>19. CASE UNCHANGED vars
  BY <1>19 DEF vars
<1> QED
  BY <1>1, <1>2, <1>3, <1>4, <1>5, <1>6, <1>7, <1>8, <1>9, <1>10, <1>11, <1>12, <1>13, <1>14,
     <1>15, <1>16, <1>17, <1>18, <1>19 DEF Next, Finished

LEMMA DescribedStep ==
  ASSUME WalkedStays, IInv, [Next]_vars
  PROVE  DescribedWhenAnnounced'
<1> USE NamesAssumption
    DEF IInv, TypeOK, PhaseInv, DescribedWhenAnnounced, registry, polling, walk, Handling
<1>1. ASSUME NEW o \in Outputs, OutputAdd(o) PROVE DescribedWhenAnnounced'
  BY <1>1 DEF OutputAdd, Requests
<1>2. ASSUME NEW o \in Outputs, OutputRemove(o) PROVE DescribedWhenAnnounced'
  BY <1>2 DEF OutputRemove
<1>3. ASSUME NEW o \in Outputs, OutputDone(o) PROVE DescribedWhenAnnounced'
  BY <1>3 DEF OutputDone, CountDone
<1>4. ASSUME NEW o \in Outputs, OutputChanged(o) PROVE DescribedWhenAnnounced'
  BY <1>4 DEF OutputChanged, CountDone
<1>5. ASSUME NEW o \in Outputs, BeginRoundtrip(o) PROVE DescribedWhenAnnounced'
  BY <1>5 DEF BeginRoundtrip, Awaited
<1>6. ASSUME NEW o \in Outputs, Announce(o) PROVE DescribedWhenAnnounced'
  BY <1>6 DEF Announce, Announced, NeedsRoundtrip, DoneInv, TrippedInv
<1>7. ASSUME NEW t \in Seats, SeatAdd(t) PROVE DescribedWhenAnnounced'
  BY <1>7 DEF SeatAdd
<1>8. ASSUME NEW t \in Seats, SeatRemove(t) PROVE DescribedWhenAnnounced'
  BY <1>8 DEF SeatRemove
<1>9. ASSUME NEW m \in Managers, ManagerAdd(m) PROVE DescribedWhenAnnounced'
  BY <1>9 DEF ManagerAdd
<1>10. CASE GlobalsListed
  BY <1>10 DEF GlobalsListed, Undescribed, Awaited
<1>11. CASE InitEnds
  BY <1>11 DEF InitEnds, AnnounceOrPoll, ToAnnounce, RoundtripOver
<1>12. CASE EndRoundtrip
  BY <1>12 DEF EndRoundtrip, Announced, NextOutputs, RoundtripOver, DoneInv, TrippedInv
<1>13. CASE AnnounceEnds
  BY <1>13 DEF AnnounceEnds
<1>14. CASE Poll
  BY <1>14 DEF Poll
<1>15. CASE BatchEnds
  BY <1>15 DEF BatchEnds, AnnounceOrPoll, ToAnnounce
<1>16. CASE DispatchEnds
  BY <1>16 DEF DispatchEnds
<1>17. CASE Deinit
  BY <1>17 DEF Deinit
<1>18. ASSUME NEW d \in Seats \cup {Display}, NextEvent(d) PROVE DescribedWhenAnnounced'
  BY <1>18 DEF NextEvent
<1>19. CASE UNCHANGED vars
  BY <1>19 DEF vars
<1> QED
  BY <1>1, <1>2, <1>3, <1>4, <1>5, <1>6, <1>7, <1>8, <1>9, <1>10, <1>11, <1>12, <1>13, <1>14,
     <1>15, <1>16, <1>17, <1>18, <1>19 DEF Next, Finished

LEMMA ManagersStep ==
  ASSUME WalkedStays, IInv, [Next]_vars
  PROVE  ManagersReachAll'
<1> USE NamesAssumption
    DEF IInv, TypeOK, PhaseInv, ManagersReachAll, registry, polling, walk
<1>1. ASSUME NEW o \in Outputs, OutputAdd(o) PROVE ManagersReachAll'
  BY <1>1 DEF OutputAdd, Requests
<1>2. ASSUME NEW o \in Outputs, OutputRemove(o) PROVE ManagersReachAll'
  BY <1>2 DEF OutputRemove
<1>3. ASSUME NEW o \in Outputs, OutputDone(o) PROVE ManagersReachAll'
  BY <1>3 DEF OutputDone, CountDone
<1>4. ASSUME NEW o \in Outputs, OutputChanged(o) PROVE ManagersReachAll'
  BY <1>4 DEF OutputChanged, CountDone
<1>5. ASSUME NEW o \in Outputs, BeginRoundtrip(o) PROVE ManagersReachAll'
  BY <1>5 DEF BeginRoundtrip, Awaited
<1>6. ASSUME NEW o \in Outputs, Announce(o) PROVE ManagersReachAll'
  BY <1>6 DEF Announce, Announced, NeedsRoundtrip
<1>7. ASSUME NEW t \in Seats, SeatAdd(t) PROVE ManagersReachAll'
  BY <1>7 DEF SeatAdd
<1>8. ASSUME NEW t \in Seats, SeatRemove(t) PROVE ManagersReachAll'
  BY <1>8 DEF SeatRemove
<1>9. ASSUME NEW m \in Managers, ManagerAdd(m) PROVE ManagersReachAll'
  BY <1>9 DEF ManagerAdd
<1>10. CASE GlobalsListed
  BY <1>10 DEF GlobalsListed, Undescribed, Awaited
<1>11. CASE InitEnds
  BY <1>11 DEF InitEnds, AnnounceOrPoll, ToAnnounce, RoundtripOver
<1>12. CASE EndRoundtrip
  BY <1>12 DEF EndRoundtrip, Announced, NextOutputs, RoundtripOver
<1>13. CASE AnnounceEnds
  BY <1>13 DEF AnnounceEnds
<1>14. CASE Poll
  BY <1>14 DEF Poll
<1>15. CASE BatchEnds
  BY <1>15 DEF BatchEnds, AnnounceOrPoll, ToAnnounce
<1>16. CASE DispatchEnds
  BY <1>16 DEF DispatchEnds
<1>17. CASE Deinit
  BY <1>17 DEF Deinit
<1>18. ASSUME NEW d \in Seats \cup {Display}, NextEvent(d) PROVE ManagersReachAll'
  BY <1>18 DEF NextEvent
<1>19. CASE UNCHANGED vars
  BY <1>19 DEF vars
<1> QED
  BY <1>1, <1>2, <1>3, <1>4, <1>5, <1>6, <1>7, <1>8, <1>9, <1>10, <1>11, <1>12, <1>13, <1>14,
     <1>15, <1>16, <1>17, <1>18, <1>19 DEF Next, Finished

-----------------------------------------------------------------------------
LEMMA Invariance == ASSUME WalkedStays PROVE Spec => []IInv
<1>1. ASSUME Init PROVE IInv
  <2>1. TypeOK
    <3>1. isDone \in [Outputs -> 0..2] /\ owed \in [Outputs -> 0..2] BY <1>1 DEF Init
    <3>2. {hasNew, tripped} \subseteq BOOLEAN BY <1>1, Zenon DEF Init
    <3> QED BY <1>1, <3>1, <3>2 DEF Init, TypeOK
  <2>2. PhaseInv /\ DoneInv /\ TrippedInv /\ PendingInv
    BY <1>1, NamesAssumption
       DEF Init, PhaseInv, DoneInv, TrippedInv, PendingInv
  <2>3. DescribedWhenAnnounced /\ ManagersReachAll
    BY <1>1 DEF Init, DescribedWhenAnnounced, ManagersReachAll
  <2> QED BY <2>1, <2>2, <2>3 DEF IInv
<1>2. ASSUME IInv, [Next]_vars PROVE IInv'
  <2>1. TypeOK' /\ PhaseInv' /\ DoneInv' /\ TrippedInv'
    BY <1>2, TypeStep, PhaseStep, DoneStep, TrippedStep
  <2>2. PendingInv' /\ DescribedWhenAnnounced' /\ ManagersReachAll'
    BY <1>2, PendingStep, DescribedStep, ManagersStep
  <2> QED BY <2>1, <2>2 DEF IInv
<1> QED BY <1>1, <1>2, PTL DEF Spec

(* Each variable keeps its type, so what refers to an output or a seat refers *)
(* to one that exists, the cursor of announce_outputs included.               *)
THEOREM LoopTypes == ASSUME WalkedStays PROVE Spec => []TypeOK
<1>1. IInv => TypeOK BY DEF IInv
<1> QED BY <1>1, Invariance, PTL

(* global_bound is called for outputs only that have all of their answers: a  *)
(* walk that skipped its own roundtrip because of an earlier one skipped      *)
(* nothing that the earlier one did not wait for.                             *)
THEOREM Described == ASSUME WalkedStays PROVE Spec => []DescribedWhenAnnounced
<1>1. IInv => DescribedWhenAnnounced BY DEF IInv
<1> QED BY <1>1, Invariance, PTL

(* The loop does not wait while an output is to be announced, but for those   *)
(* bound during an announcement, which the code does forget.                  *)
THEOREM NoOutputForgotten == ASSUME WalkedStays PROVE Spec => []NoneForgotten
<1>1. IInv => NoneForgotten BY DEF IInv, PendingInv, NoneForgotten
<1> QED BY <1>1, Invariance, PTL

(* Outputs and seats have their xdg_output and data device from the end of    *)
(* the first roundtrip, in whichever order the registry listed the globals,   *)
(* and a data device without its listener belongs to a seat that the first    *)
(* roundtrip listed.                                                          *)
THEOREM ManagersReach == ASSUME WalkedStays PROVE Spec => []ManagersReachAll
<1>1. IInv => ManagersReachAll BY DEF IInv
<1> QED BY <1>1, Invariance, PTL

(* A surface and its outputs take nothing from the globals: each of their     *)
(* steps is one of EasyLoop or none, so all of the above holds with them.     *)
THEOREM OutputsRefineLoop == SurfaceSpec => Spec
<1>1. SurfaceInit => Init BY DEF SurfaceInit
<1>2. ASSUME [SurfaceNext]_allVars PROVE [Next]_vars
  <2>1. ASSUME NEW o \in Outputs, SurfaceEnter(o) \/ SurfaceLeave(o) PROVE UNCHANGED vars
    BY <2>1 DEF SurfaceEnter, SurfaceLeave
  <2>2. ASSUME NEW o \in Outputs, NEW n \in Scales, OutputScale(o, n)
        PROVE UNCHANGED vars
    BY <2>2 DEF OutputScale
  <2>3. ASSUME NEW n \in Scales, PreferredScale(n) PROVE UNCHANGED vars
    BY <2>3 DEF PreferredScale
  <2>4. CASE SurfaceRoleUnset BY <2>4 DEF SurfaceRoleUnset
  <2>5. CASE GlobalsStep BY <2>5 DEF GlobalsStep
  <2>6. CASE AttachSubsurface BY <2>6 DEF AttachSubsurface
  <2>7. CASE UNCHANGED allVars BY <2>7 DEF allVars
  <2> QED BY <1>2, <2>1, <2>2, <2>3, <2>4, <2>5, <2>6, <2>7 DEF SurfaceNext
<1> QED BY <1>1, <1>2, PTL DEF SurfaceSpec, Spec

-----------------------------------------------------------------------------
(* The surface's outputs and its scale. *)

\* The compositor tells that a surface left an output before the output goes, or
\* the surface's role.
SurfaceContract == ~RemovedWhileShown /\ ~UnsetWhileShown

\* The array lists the outputs the surface is on, each once.
ArrayInv ==
  /\ array \in Seq(Outputs) /\ outputs \subseteq Outputs
  /\ \A i \in DOMAIN array : array[i] \in shownOn
  /\ \A i, j \in DOMAIN array : array[i] = array[j] => i = j
  /\ ArrayIsShownOn

\* The subsurface's scale is the one it was made with until it is attached.
ScaleInv ==
  /\ outputScale \in [Outputs -> Nat] /\ preferred \in Nat
  /\ attachedAt = 0 => subScale = 1
  /\ ScaleFollows /\ SubsurfaceFollows

\* A set of numbers up to n that is not empty has a smallest one: of the sets of its
\* elements up to some element, one contains no other.
LEMMA SmallestNumber ==
  ASSUME NEW n \in Nat, NEW S \in SUBSET (0..n), S # {}
  PROVE  \E m \in S : \A k \in S : m <= k
<1> DEFINE T == {{k \in S : k <= j} : j \in S}
<1>0. S \subseteq Nat /\ IsFiniteSet(S)
  <2>1. IsFiniteSet(0..n) BY FS_Interval
  <2>2. IsFiniteSet(S) BY <2>1, FS_Subset
  <2> QED BY <2>2
<1>1. T \subseteq FiniteSubsetsOf(S) /\ T # {}
  <2>1. ASSUME NEW j \in S PROVE {k \in S : k <= j} \in FiniteSubsetsOf(S)
    BY <1>0, FS_Subset DEF FiniteSubsetsOf
  <2> QED BY <2>1
<1>2. IsWellFoundedOn(StrictSubsetOrdering(S), FiniteSubsetsOf(S))
  BY FS_StrictSubsetOrderingWellFounded
<1>3. PICK X \in T : \A Y \in T : <<Y, X>> \notin StrictSubsetOrdering(S)
  <2> HIDE DEF T
  <2> QED BY <1>1, <1>2, WFMin
<1>4. PICK m \in S : X = {k \in S : k <= m} BY <1>3
<1>5. ASSUME NEW j \in S, j < m PROVE FALSE
  <2> DEFINE Y == {k \in S : k <= j}
  <2>1. Y \subseteq X /\ Y # X
    <3>1. m \in X /\ m \notin Y BY <1>0, <1>4, <1>5
    <3>2. \A k \in Y : k \in X BY <1>0, <1>4, <1>5
    <3> QED BY <3>1, <3>2
  <2>2. <<Y, X>> \in StrictSubsetOrdering(S)
    BY <1>4, <2>1 DEF StrictSubsetOrdering
  <2> QED BY <1>3, <2>2
<1> QED BY <1>0, <1>4, <1>5

\* The loop of surface_autoscale finds the scale of an output, or 1, such that no
\* output has a larger one: by the first place where it would have something else.
THEOREM LoopFindsLargest ==
  ASSUME outputScale \in [Outputs -> Nat], NEW a \in Seq(Outputs)
  PROVE  /\ Largest(a) \in {1} \cup {outputScale[a[i]] : i \in DOMAIN a}
         /\ 1 <= Largest(a) /\ \A i \in DOMAIN a : outputScale[a[i]] <= Largest(a)
<1> DEFINE len == Len(a)
           given(k) == {1} \cup {outputScale[a[i]] : i \in 1..k}
           Step(g, i) == IF i = 0 THEN 1
                         ELSE IF outputScale[a[i]] > g[i - 1] THEN outputScale[a[i]]
                                                              ELSE g[i - 1]
           Is(g, k) == g = [i \in 0..k |-> Step(g, i)]
<1>1. /\ len \in Nat /\ DOMAIN a = 1..len
      /\ \A i \in 1..len : outputScale[a[i]] \in Nat
  OBVIOUS
<1> HIDE DEF len
\* the function exists
<1>2. \E g : Is(g, len)
  <2> DEFINE missing == {k \in 0..len : ~\E g : Is(g, k)}
  <2>1. CASE missing = {}
    <3> HIDE DEF Is
    <3>1. len \in 0..len BY <1>1
    <3>2. len \notin missing BY <2>1
    <3> QED BY <3>1, <3>2
  <2>2. CASE missing # {}
    <3>1. PICK k \in missing : \A j \in missing : k <= j
      <4> HIDE DEF missing
      <4>1. missing \in SUBSET (0..len) BY DEF missing
      <4> QED BY <1>1, <2>2, <4>1, SmallestNumber
    <3>2. k \in 0..len BY <3>1
    <3>3. CASE k = 0
      <4> DEFINE g == [i \in 0..0 |-> 1]
      <4>1. Is(g, 0) OBVIOUS
      <4> QED BY <3>1, <3>3, <4>1
    <3>4. CASE k # 0
      <4>1. k - 1 \in 0..len /\ ~(k <= k - 1) BY <1>1, <3>2, <3>4
      <4>2. PICK h : Is(h, k - 1) BY <3>1, <4>1
      <4> DEFINE g == [i \in 0..k |-> IF i = k THEN Step(h, k) ELSE h[i]]
      <4>3. ASSUME NEW i \in 0..k PROVE g[i] = Step(g, i)
        <5>1. CASE i = k
          <6>1. k - 1 \in 0..k /\ k - 1 # k BY <3>2, <3>4
          <6>2. g[k - 1] = h[k - 1] BY <1>1, <3>2, <3>4, <6>1
          <6> QED BY <5>1, <6>2
        <5>2. CASE i # k
          <6>1. i \in 0 .. k - 1 BY <3>2, <5>2
          <6>2. h[i] = Step(h, i) BY <4>2, <6>1
          <6>3. i # 0 => i - 1 \in 0..k /\ i - 1 # k BY <3>2, <6>1
          <6>4. i # 0 => g[i - 1] = h[i - 1] BY <6>3
          <6>5. g[i] = h[i] BY <5>2
          <6> QED BY <6>2, <6>4, <6>5
        <5> QED BY <5>1, <5>2
      <4>4. Is(g, k)
        <5>1. g = [i \in 0..k |-> g[i]] OBVIOUS
        <5> HIDE DEF g
        <5> QED BY <4>3, <5>1
      <4> QED BY <3>1, <4>4
    <3> QED BY <3>3, <3>4
  <2> QED BY <2>1, <2>2
<1> DEFINE f == CHOOSE g : Is(g, len)
<1>3. Is(f, len) BY <1>2
<1>4. Largest(a) = f[len] BY DEF Largest, len
<1> HIDE DEF f
\* what it is after k outputs
<1> DEFINE Right(k) == /\ f[k] \in given(k) /\ f[k] \in Nat /\ 1 <= f[k]
                       /\ \A i \in 1..k : outputScale[a[i]] <= f[k]
           wrong == {k \in 0..len : ~Right(k)}
<1>5. wrong = {}
  <2>1. SUFFICES ASSUME wrong # {} PROVE FALSE OBVIOUS
  <2>2. PICK k \in wrong : \A j \in wrong : k <= j
    <3> HIDE DEF wrong
    <3>1. wrong \in SUBSET (0..len) BY DEF wrong
    <3> QED BY <1>1, <2>1, <3>1, SmallestNumber
  <2>3. k \in 0..len /\ ~Right(k) BY <2>2
  <2>4. f[k] = Step(f, k) BY <1>3, <2>3
  <2>5. CASE k = 0
    <3>1. f[0] = 1 BY <2>4, <2>5
    <3> QED BY <2>3, <2>5, <3>1
  <2>6. CASE k # 0
    <3>1. k \in 1..len /\ k - 1 \in 0..len /\ ~(k <= k - 1) BY <1>1, <2>3, <2>6
    <3>2. Right(k - 1) BY <2>2, <3>1
    <3>3. f[k] = IF outputScale[a[k]] > f[k - 1] THEN outputScale[a[k]] ELSE f[k - 1]
      BY <2>4, <2>6
    <3>4. outputScale[a[k]] \in Nat BY <1>1, <3>1
    <3>5. f[k] \in given(k)
      <4>1. given(k - 1) \subseteq given(k) BY <1>1, <3>1
      <4>2. outputScale[a[k]] \in given(k) BY <1>1, <3>1
      <4> QED BY <3>2, <3>3, <4>1, <4>2
    <3>6. f[k] \in Nat /\ 1 <= f[k] BY <3>2, <3>3, <3>4
    <3>7. ASSUME NEW i \in 1..k PROVE outputScale[a[i]] <= f[k]
      <4>1. i = k \/ i \in 1 .. k - 1 BY <1>1, <3>1
      <4>2. i \in 1..len BY <1>1, <3>1
      <4>3. outputScale[a[i]] \in Nat BY <1>1, <4>2
      <4>4. i # k => outputScale[a[i]] <= f[k - 1] BY <3>2, <4>1
      <4> QED BY <3>2, <3>3, <3>4, <4>3, <4>4
    <3> QED BY <2>3, <3>5, <3>6, <3>7
  <2> QED BY <2>5, <2>6
<1>6. Right(len) BY <1>1, <1>5
<1> QED BY <1>1, <1>4, <1>6

\* Leaving one output of several takes its place out of the array, and no other.
LEMMA WithoutShape ==
  ASSUME NEW k \in 1..Len(array), array \in Seq(Outputs),
         \A i, j \in DOMAIN array : array[i] = array[j] => i = j
  PROVE  Without(array[k]) =
           [n \in 1 .. Len(array) - 1 |-> IF n < k THEN array[n] ELSE array[n + 1]]
<1> DEFINE len == Len(array)
           others == {j \in DOMAIN array : array[j] # array[k]}
           upto(j) == {i \in others : i <= j}
           Nth(n) == {j \in others : Cardinality(upto(j)) = n}
<1>1. len \in Nat /\ DOMAIN array = 1..len /\ k \in 1..len OBVIOUS
<1>2. others = 1..len \ {k} BY <1>1
<1> HIDE DEF len, others
\* how many others there are up to the j-th place
<1>3. ASSUME NEW j \in others
      PROVE  Cardinality(upto(j)) = IF j < k THEN j ELSE j - 1
  <2>0. j \in Nat /\ k \in Nat /\ j <= len /\ 1 <= j /\ 1 <= k /\ j # k BY <1>1, <1>2
  <2>1. CASE j < k
    <3>1. upto(j) = 1..j BY <1>1, <1>2, <2>0, <2>1
    <3>2. Cardinality(1..j) = j BY <2>0, FS_Interval
    <3> HIDE DEF upto
    <3> QED BY <2>1, <3>1, <3>2
  <2>2. CASE ~(j < k)
    <3>1. upto(j) = 1..j \ {k} BY <1>1, <1>2, <2>0, <2>2
    <3>2. k \in 1..j /\ IsFiniteSet(1..j) /\ Cardinality(1..j) = j
      BY <2>0, <2>2, FS_Interval
    <3> QED BY <2>0, <2>2, <3>1, <3>2, FS_RemoveElement
  <2> QED BY <2>1, <2>2
<1>4. ASSUME NEW n \in 1 .. len - 1
      PROVE  Nth(n) = {IF n < k THEN n ELSE n + 1}
  <2> DEFINE m == IF n < k THEN n ELSE n + 1
  <2>1. m \in others BY <1>1, <1>2
  <2>2. Cardinality(upto(m)) = n
    <3> HIDE DEF upto
    <3> QED BY <1>1, <1>3, <2>1
  <2>3. ASSUME NEW j \in others, Cardinality(upto(j)) = n PROVE j = m
    <3> HIDE DEF upto
    <3> QED BY <1>1, <1>2, <1>3, <2>3
  <2> HIDE DEF upto
  <2> QED BY <2>1, <2>2, <2>3
<1>5. Without(array[k]) =
        [n \in 1 .. len - 1 |->
           IF Nth(n) = {} THEN Garbage ELSE array[CHOOSE j \in Nth(n) : TRUE]]
  BY DEF Without, len, others
<1> HIDE DEF Nth
<1>6. ASSUME NEW n \in 1 .. len - 1
      PROVE  (IF Nth(n) = {} THEN Garbage ELSE array[CHOOSE j \in Nth(n) : TRUE])
               = IF n < k THEN array[n] ELSE array[n + 1]
  <2> DEFINE m == IF n < k THEN n ELSE n + 1
  <2>1. Nth(n) = {m} BY <1>4, <1>6
  <2> HIDE DEF m
  <2>2. Nth(n) # {} /\ (CHOOSE j \in Nth(n) : TRUE) = m BY <2>1
  <2>3. array[m] = IF n < k THEN array[n] ELSE array[n + 1] BY DEF m
  <2> QED BY <2>2, <2>3
<1> QED BY <1>5, <1>6 DEF len

LEMMA GlobalsKeepOutputs ==
  ASSUME Next, outputs \subseteq Outputs
  PROVE  outputs' \subseteq Outputs
<1>1. ASSUME NEW o \in Outputs,
             \/ OutputAdd(o) \/ OutputRemove(o) \/ OutputDone(o) \/ OutputChanged(o)
             \/ BeginRoundtrip(o) \/ Announce(o)
      PROVE  outputs' \subseteq Outputs
  BY <1>1 DEF OutputAdd, OutputRemove, OutputDone, OutputChanged, BeginRoundtrip, Announce,
              Announced, registry
<1>2. ASSUME NEW t \in Seats, SeatAdd(t) \/ SeatRemove(t) PROVE outputs' \subseteq Outputs
  BY <1>2 DEF SeatAdd, SeatRemove
<1>3. ASSUME NEW m \in Managers, ManagerAdd(m) PROVE outputs' \subseteq Outputs
  BY <1>3 DEF ManagerAdd
<1>4. CASE GlobalsListed \/ InitEnds \/ EndRoundtrip \/ AnnounceEnds
  BY <1>4 DEF GlobalsListed, InitEnds, EndRoundtrip, Announced, AnnounceEnds, registry
<1>5. CASE Poll \/ BatchEnds \/ DispatchEnds \/ Deinit \/ Finished
  BY <1>5 DEF Poll, BatchEnds, DispatchEnds, Deinit, Finished, registry, vars
<1>6. ASSUME NEW d \in Seats \cup {Display}, NextEvent(d) PROVE outputs' \subseteq Outputs
  BY <1>6 DEF NextEvent, registry
<1> QED BY <1>1, <1>2, <1>3, <1>4, <1>5, <1>6 DEF Next

LEMMA ShownOnIsFinite == ASSUME ArrayInv PROVE IsFiniteSet(shownOn)
<1>1. shownOn \subseteq Outputs BY DEF ArrayInv, ArrayIsShownOn
<1> QED BY <1>1, NamesAssumption, FS_Subset

\* The new output takes the last place.
LEMMA EnterKeepsArray ==
  ASSUME ArrayInv, NEW o \in Outputs, SurfaceEnter(o)
  PROVE  ArrayInv'
<1>1. /\ o \notin shownOn /\ o \in outputs /\ outputs' = outputs
      /\ array' = Append(array, o) /\ shownOn' = shownOn \cup {o}
  BY DEF SurfaceEnter, vars, registry
<1>2. /\ array \in Seq(Outputs) /\ outputs \subseteq Outputs
      /\ \A i \in DOMAIN array : array[i] \in shownOn
      /\ \A i, j \in DOMAIN array : array[i] = array[j] => i = j
      /\ \A q \in shownOn : q \in outputs /\ \E i \in DOMAIN array : array[i] = q
      /\ Len(array) = Cardinality(shownOn)
  BY DEF ArrayInv, ArrayIsShownOn
<1>3. /\ array' \in Seq(Outputs) /\ Len(array') = Len(array) + 1
      /\ DOMAIN array' = 1..Len(array) + 1 /\ DOMAIN array = 1..Len(array)
      /\ \A i \in DOMAIN array : array'[i] = array[i]
      /\ array'[Len(array) + 1] = o /\ Len(array) \in Nat
  BY <1>1, <1>2
<1>4. Cardinality(shownOn') = Cardinality(shownOn) + 1
  BY <1>1, ShownOnIsFinite, FS_AddElement
<1>5. \A i \in DOMAIN array' : i \in DOMAIN array \/ i = Len(array) + 1 BY <1>3
<1>6. \A i \in DOMAIN array' : array'[i] \in shownOn' BY <1>1, <1>2, <1>3, <1>5
<1>7. ASSUME NEW i \in DOMAIN array', NEW j \in DOMAIN array', array'[i] = array'[j]
      PROVE  i = j
  BY <1>1, <1>2, <1>3, <1>5, <1>7
<1>8. ASSUME NEW q \in shownOn'
      PROVE  q \in outputs' /\ \E i \in DOMAIN array' : array'[i] = q
  <2>1. CASE q = o BY <1>1, <1>3, <2>1
  <2>2. CASE q # o
    <3>1. PICK i \in DOMAIN array : array[i] = q BY <1>1, <1>2, <1>8, <2>2
    <3>2. i \in DOMAIN array' /\ array'[i] = q BY <1>3, <3>1
    <3> QED BY <1>1, <1>2, <1>8, <2>2, <3>2
  <2> QED BY <2>1, <2>2
<1> QED BY <1>1, <1>2, <1>3, <1>4, <1>6, <1>7, <1>8 DEF ArrayInv, ArrayIsShownOn

\* What was behind the output's place moves up by one.
LEMMA LeaveKeepsArray ==
  ASSUME ArrayInv, NEW o \in Outputs, SurfaceLeave(o)
  PROVE  ArrayInv'
<1>1. o \in shownOn /\ outputs' = outputs /\ shownOn' = shownOn \ {o}
  BY DEF SurfaceLeave, vars, registry
<1>2. /\ array \in Seq(Outputs) /\ outputs \subseteq Outputs
      /\ \A i \in DOMAIN array : array[i] \in shownOn
      /\ \A i, j \in DOMAIN array : array[i] = array[j] => i = j
      /\ \A q \in shownOn : q \in outputs /\ \E i \in DOMAIN array : array[i] = q
      /\ Len(array) = Cardinality(shownOn)
  BY DEF ArrayInv, ArrayIsShownOn
<1>3. PICK k \in DOMAIN array : array[k] = o BY <1>1, <1>2
<1>4. DOMAIN array = 1..Len(array) /\ Len(array) \in Nat /\ k \in 1..Len(array)
  BY <1>2, <1>3
<1>5. Cardinality(shownOn') = Len(array) - 1 /\ IsFiniteSet(shownOn')
  BY <1>1, <1>2, ShownOnIsFinite, FS_RemoveElement
<1>6. array' = [n \in 1 .. Len(array) - 1 |-> IF n < k THEN array[n] ELSE array[n + 1]]
  <2>1. CASE Len(array) = 1
    <3>1. array' = <<>> BY <2>1 DEF SurfaceLeave
    <3> QED BY <2>1, <3>1
  <2>2. CASE Len(array) # 1
    <3>1. array' = Without(array[k]) BY <1>3, <2>2 DEF SurfaceLeave
    <3> QED BY <1>2, <1>4, <3>1, WithoutShape
  <2> QED BY <2>1, <2>2
<1>7. /\ array' \in Seq(Outputs) /\ Len(array') = Len(array) - 1
      /\ DOMAIN array' = 1 .. Len(array) - 1
  BY <1>2, <1>4, <1>6
\* where the n-th output of the new array was
<1> DEFINE From(n) == IF n < k THEN n ELSE n + 1
<1>8. ASSUME NEW n \in DOMAIN array'
      PROVE  From(n) \in DOMAIN array \ {k} /\ array'[n] = array[From(n)]
  BY <1>4, <1>6, <1>7
<1>9. ASSUME NEW i \in DOMAIN array' PROVE array'[i] \in shownOn'
  <2> HIDE DEF From
  <2>1. array'[i] = array[From(i)] /\ From(i) \in DOMAIN array /\ From(i) # k BY <1>8
  <2> QED BY <1>1, <1>2, <1>3, <2>1
<1>10. ASSUME NEW i \in DOMAIN array', NEW j \in DOMAIN array', array'[i] = array'[j]
       PROVE  i = j
  <2>1. From(i) = From(j)
    <3> HIDE DEF From
    <3> QED BY <1>2, <1>8, <1>10
  <2> QED BY <1>4, <1>7, <2>1
<1>11. ASSUME NEW q \in shownOn'
       PROVE  q \in outputs' /\ \E i \in DOMAIN array' : array'[i] = q
  <2>1. PICK j \in DOMAIN array : array[j] = q BY <1>1, <1>2, <1>11
  <2>2. j # k BY <1>1, <1>3, <1>11, <2>1
  <2>3. PICK i \in DOMAIN array' : From(i) = j
    <3>1. CASE j < k BY <1>4, <1>7, <2>1, <3>1
    <3>2. CASE k < j
      <4>1. j - 1 \in DOMAIN array' /\ From(j - 1) = j BY <1>4, <1>7, <2>1, <3>2
      <4> QED BY <4>1
    <3> QED BY <1>4, <2>1, <2>2, <3>1, <3>2
  <2>4. array'[i] = q
    <3> HIDE DEF From
    <3> QED BY <1>8, <2>1, <2>3
  <2> QED BY <1>1, <1>2, <1>11, <2>4
<1> QED BY <1>1, <1>2, <1>5, <1>7, <1>9, <1>10, <1>11 DEF ArrayInv, ArrayIsShownOn

LEMMA ArrayStep ==
  ASSUME SurfaceContract, ArrayInv, [SurfaceNext]_allVars
  PROVE  ArrayInv'
<1>1. ASSUME UNCHANGED <<array, shownOn, outputs>> PROVE ArrayInv'
  BY <1>1 DEF ArrayInv, ArrayIsShownOn
<1>2. ASSUME NEW o \in Outputs, SurfaceEnter(o) PROVE ArrayInv'
  BY <1>2, EnterKeepsArray
<1>3. ASSUME NEW o \in Outputs, SurfaceLeave(o) PROVE ArrayInv'
  BY <1>3, LeaveKeepsArray
<1>4. ASSUME NEW o \in Outputs, NEW n \in Scales, OutputScale(o, n) PROVE ArrayInv'
  BY <1>1, <1>4 DEF OutputScale, vars, registry
<1>5. ASSUME NEW n \in Scales, PreferredScale(n) PROVE ArrayInv'
  BY <1>1, <1>5 DEF PreferredScale, vars, registry
<1>6. CASE SurfaceRoleUnset
  BY <1>1, <1>6 DEF SurfaceRoleUnset, SurfaceContract, vars, registry
<1>7. CASE AttachSubsurface
  BY <1>1, <1>7 DEF AttachSubsurface, vars, registry
<1>8. CASE GlobalsStep
  <2>1. Next /\ outputs' \subseteq Outputs
    BY <1>8, GlobalsKeepOutputs DEF GlobalsStep, ArrayInv
  <2>2. CASE pc' = "done"
    <3>1. array' = <<>> /\ shownOn' = {} BY <1>8, <2>2 DEF GlobalsStep
    <3> QED BY <2>1, <3>1, FS_EmptySet DEF ArrayInv, ArrayIsShownOn
  <2>3. CASE pc' # "done"
    <3>1. array' = array /\ shownOn' = shownOn /\ shownOn \subseteq outputs'
      BY <1>8, <2>3 DEF GlobalsStep, SurfaceContract
    <3> QED BY <2>1, <3>1 DEF ArrayInv, ArrayIsShownOn
  <2> QED BY <2>2, <2>3
<1>9. CASE UNCHANGED allVars
  BY <1>1, <1>9 DEF allVars, surface, vars, registry
<1> QED BY <1>2, <1>3, <1>4, <1>5, <1>6, <1>7, <1>8, <1>9 DEF SurfaceNext

\* Only the scales of the outputs in the array count.
LEMMA SameLargest ==
  ASSUME array' = array, NEW n,
         \A i \in DOMAIN array : outputScale'[array[i]] = outputScale[array[i]]
  PROVE  IsLargest(n)' <=> IsLargest(n)
<1>1. {outputScale'[array'[i]] : i \in DOMAIN array'}
        = {outputScale[array[i]] : i \in DOMAIN array}
  OBVIOUS
<1> QED BY <1>1 DEF IsLargest

\* surface_autoscale, after an enter or a leave
LEMMA AutoscaleStep ==
  ASSUME ScaleInv, array' \in Seq(Outputs), Autoscale(array', preferred),
         UNCHANGED <<preferred, attachedAt, outputScale>>
  PROVE  ScaleInv'
<1>1. CASE preferred # 0
  BY <1>1 DEF Autoscale, ScaleInv, ScaleFollows, SubsurfaceFollows
<1>2. CASE preferred = 0
  <2>1. scale' = (IF array' = <<>> THEN scale ELSE Largest(array'))
    BY <1>2 DEF Autoscale
  <2>2. ASSUME array' # <<>> PROVE IsLargest(scale)'
    <3>1. /\ Largest(array') \in {1} \cup {outputScale[array'[i]] : i \in DOMAIN array'}
          /\ 1 <= Largest(array')
          /\ \A i \in DOMAIN array' : outputScale[array'[i]] <= Largest(array')
      BY LoopFindsLargest DEF ScaleInv
    <3>2. scale' = Largest(array') BY <2>1, <2>2
    <3> HIDE DEF Largest
    <3> QED BY <3>1, <3>2 DEF IsLargest
  <2>3. subScale' = IF attachedAt # 0 /\ scale' # scale THEN scale' ELSE subScale
    BY <1>2 DEF Autoscale, Pushed
  <2>4. SubsurfaceFollows' /\ (attachedAt' = 0 => subScale' = 1)
    BY <1>2, <2>3 DEF ScaleInv, SubsurfaceFollows
  <2> QED BY <1>2, <2>2, <2>4 DEF ScaleInv, ScaleFollows
<1> QED BY <1>1, <1>2

LEMMA ScaleStep ==
  ASSUME SurfaceContract, ArrayInv, ArrayInv', ScaleInv, [SurfaceNext]_allVars
  PROVE  ScaleInv'
<1> USE DEF ScaleFollows, SubsurfaceFollows
<1>1. ASSUME UNCHANGED <<array, scale, preferred, subScale, attachedAt, unheeded>>,
             outputScale' \in [Outputs -> Nat],
             \A i \in DOMAIN array : outputScale'[array[i]] = outputScale[array[i]]
      PROVE  ScaleInv'
  <2>1. IsLargest(scale)' <=> IsLargest(scale) BY <1>1, SameLargest DEF IsLargest
  <2> QED BY <1>1, <2>1 DEF ScaleInv
<1>2. ASSUME NEW o \in Outputs, SurfaceEnter(o) PROVE ScaleInv'
  BY <1>2, AutoscaleStep DEF SurfaceEnter, ArrayInv
<1>3. ASSUME NEW o \in Outputs, SurfaceLeave(o) PROVE ScaleInv'
  <2>1. CASE Len(array) = 1
    BY <1>3, <2>1 DEF SurfaceLeave, ScaleInv
  <2>2. CASE Len(array) # 1
    BY <1>3, <2>2, AutoscaleStep DEF SurfaceLeave, AfterLeave, ArrayInv
  <2> QED BY <2>1, <2>2
<1>4. ASSUME NEW o \in Outputs, NEW n \in Scales, OutputScale(o, n) PROVE ScaleInv'
  <2>1. /\ outputScale' = [outputScale EXCEPT ![o] = n]
        /\ UNCHANGED <<array, scale, preferred, subScale, attachedAt>>
    BY <1>4 DEF OutputScale
  <2>2. outputScale' \in [Outputs -> Nat] BY <2>1, ScalesAssumption DEF ScaleInv
  <2>3. CASE \E i \in DOMAIN array : array[i] = o
    <3>1. unheeded' BY <1>4, <2>3 DEF OutputScale
    <3> QED BY <2>1, <2>2, <3>1 DEF ScaleInv
  <2>4. CASE \A i \in DOMAIN array : array[i] # o
    <3>1. unheeded' <=> unheeded BY <1>4, <2>4 DEF OutputScale
    <3>2. IsLargest(scale)' <=> IsLargest(scale)
      BY <2>1, <2>4, SameLargest DEF ScaleInv, IsLargest
    <3> QED BY <2>1, <2>2, <3>1, <3>2 DEF ScaleInv
  <2> QED BY <2>3, <2>4
<1>5. ASSUME NEW n \in Scales, PreferredScale(n) PROVE ScaleInv'
  <2>1. n \in Nat /\ n # 0 BY ScalesAssumption
  <2>2. /\ preferred' = n /\ scale' = n /\ subScale' = subScale
        /\ UNCHANGED <<outputScale, attachedAt>>
    BY <1>5, <2>1 DEF PreferredScale, Autoscale
  <2> QED BY <2>1, <2>2 DEF ScaleInv
<1>6. CASE SurfaceRoleUnset
  BY <1>1, <1>6 DEF SurfaceRoleUnset, ScaleInv
<1>7. CASE AttachSubsurface
  <2>1. subScale' = 1 /\ attachedAt' = scale' BY <1>7 DEF AttachSubsurface, ScaleInv
  <2>2. UNCHANGED <<array, scale, preferred, outputScale, unheeded>>
    BY <1>7 DEF AttachSubsurface
  <2>3. IsLargest(scale)' <=> IsLargest(scale) BY <2>2 DEF IsLargest
  <2>4. SubsurfaceFollows' BY <2>1
  <2>5. ScaleFollows' BY <2>2, <2>3 DEF ScaleInv
  <2> QED BY <2>1, <2>2, <2>4, <2>5 DEF ScaleInv
<1>8. CASE GlobalsStep
  <2>1. /\ UNCHANGED <<scale, preferred, subScale, attachedAt>>
        /\ outputScale' \in [Outputs -> Nat]
    BY <1>8 DEF GlobalsStep, ScaleInv
  <2>2. CASE pc' = "done"
    BY <1>8, <2>1, <2>2 DEF GlobalsStep, ScaleInv
  <2>3. CASE pc' # "done"
    <3>1. UNCHANGED <<array, unheeded>> BY <1>8, <2>3 DEF GlobalsStep
    <3>2. ASSUME NEW i \in DOMAIN array
          PROVE  outputScale'[array[i]] = outputScale[array[i]]
      <4>1. array[i] \in outputs' /\ array[i] \in Outputs
        BY <3>1 DEF ArrayInv, ArrayIsShownOn
      <4> QED BY <1>8, <4>1 DEF GlobalsStep
    <3> QED BY <1>1, <2>1, <3>1, <3>2
  <2> QED BY <2>2, <2>3
<1>9. CASE UNCHANGED allVars
  BY <1>1, <1>9 DEF allVars, surface, ScaleInv
<1> QED BY <1>2, <1>3, <1>4, <1>5, <1>6, <1>7, <1>8, <1>9 DEF SurfaceNext

LEMMA SurfaceInvariance == ASSUME SurfaceContract PROVE SurfaceSpec => [](ArrayInv /\ ScaleInv)
<1>1. SurfaceInit => ArrayInv /\ ScaleInv
  BY FS_EmptySet
     DEF SurfaceInit, Init, ArrayInv, ArrayIsShownOn, ScaleInv, ScaleFollows,
         SubsurfaceFollows
<1>2. ArrayInv /\ ScaleInv /\ [SurfaceNext]_allVars => ArrayInv' /\ ScaleInv'
  BY ArrayStep, ScaleStep
<1> QED BY <1>1, <1>2, PTL DEF SurfaceSpec

(* surface->outputs holds the outputs the surface is on, each once, none of   *)
(* them freed, and no place that handle_surface_leave did not write.          *)
THEOREM ArrayNamesOutputs == ASSUME SurfaceContract PROVE SurfaceSpec => []ArrayIsShownOn
<1>1. ArrayInv => ArrayIsShownOn BY DEF ArrayInv
<1> QED BY <1>1, SurfaceInvariance, PTL

(* surface->scale is the preferred scale, or the largest of the outputs in    *)
(* the array, whatever the order of enter, leave and scale events.            *)
THEOREM ScaleIsFollowed == ASSUME SurfaceContract PROVE SurfaceSpec => []ScaleFollows
<1>1. ScaleInv => ScaleFollows BY DEF ScaleInv
<1> QED BY <1>1, SurfaceInvariance, PTL

(* Without a preferred scale a subsurface has its surface's scale, or its     *)
(* first one until the surface's changes after it came to it.                 *)
THEOREM SubsurfaceIsScaled == ASSUME SurfaceContract PROVE SurfaceSpec => []SubsurfaceFollows
<1>1. ScaleInv => SubsurfaceFollows BY DEF ScaleInv
<1> QED BY <1>1, SurfaceInvariance, PTL
=============================================================================
