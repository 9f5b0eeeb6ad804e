---------------------------- MODULE SimulationProofs ---------------------------
(***************************************************************************)
(* Proofs about Simulation, for any number of starts and of requests:      *)
(* its states are well typed, a running simulation has a timer that will   *)
(* end it, nothing polls unattended, and no request waits for a timer that *)
(* may sleep on.                                                           *)
(***************************************************************************)
EXTENDS Simulation, TLAPS

-----------------------------------------------------------------------------
(***************************************************************************)
(* The values the actions write.                                           *)
(***************************************************************************)

\* A start's number names its timer and its loop; that of no task is none of them.
LEMMA Ids == SimulationAssumption =>
    /\ Starts \subseteq TaskIds /\ NoTask \in TaskIds /\ NoTask \notin Starts
  BY DEF SimulationAssumption, Starts, TaskIds, NoTask

\* The values that the actions write are of their types, ...
LEMMA Values ==
    ASSUME SimulationAssumption
    PROVE  /\ NoTimer \in Timer /\ NewTimer \in Timer /\ TimerDone \in Timer
           /\ NoLoop \in Loop /\ NewLoop \in Loop /\ LoopDone \in Loop
           /\ NoStop \in Stop
  BY Ids DEF NoTimer, NewTimer, TimerDone, NoLoop, NewLoop, LoopDone, NoStop,
             Timer, Loop, Stop

\* Writing the fields of a timer, a loop or a request keeps its type.
LEMMA TimerFields ==
    ASSUME SimulationAssumption, NEW x \in Timer, NEW l \in Starts,
           NEW pc \in {"broadcast", "done"}
    PROVE  /\ [x EXCEPT !.cancelled = TRUE] \in Timer
           /\ [NewTimer EXCEPT !.pc = pc] \in Timer
           /\ [NewTimer EXCEPT !.pc = "stopping", !.awaits = l] \in Timer
  BY Ids DEF NewTimer, Timer

\* also when one field of a loop is set, ...
LEMMA LoopFields ==
    ASSUME NEW x \in Loop, NEW pc \in {"poll", "sleep", "done"}
    PROVE  [x EXCEPT !.cancelled = TRUE] \in Loop /\ [x EXCEPT !.pc = pc] \in Loop
  BY DEF Loop

\* or when a stop goes on to what it awaits.
LEMMA StopFields ==
    ASSUME SimulationAssumption, NEW s \in Starts, NEW pc \in {"timer", "loop"}
    PROVE  [pc |-> pc, awaits |-> s] \in Stop
  BY Ids DEF Stop

\* What the two halves of TopologyPoller.stop write is well typed.
LEMMA StopPollerTypes ==
    ASSUME SimulationAssumption, TypeOK, NothingToStop \/ \E s \in Starts : CancelLoop(s)
    PROVE  polling' = FALSE /\ task' \in TaskIds /\ loops' \in [Starts -> Loop]
  <1>1. CASE NothingToStop
    BY <1>1, Ids DEF NothingToStop, TypeOK
  <1>2. CASE \E s \in Starts : CancelLoop(s)
    <2>1. PICK s \in Starts : CancelLoop(s)
      BY <1>2
    <2>2. [loops[s] EXCEPT !.cancelled = TRUE] \in Loop
      BY LoopFields DEF TypeOK
    <2> QED BY <2>1, <2>2 DEF CancelLoop, TypeOK
  <1> QED BY <1>1, <1>2

-----------------------------------------------------------------------------
(***************************************************************************)
(* Typing.                                                                 *)
(***************************************************************************)

\* The manager begins well typed.
LEMMA TypeInit == SimulationAssumption /\ Init => TypeOK
  BY Ids, Values DEF Init, TypeOK

\* Every step keeps the types.
LEMMA TypeStep == SimulationAssumption /\ TypeOK /\ [Next]_vars => TypeOK'
  <1> SUFFICES ASSUME SimulationAssumption, TypeOK, [Next]_vars
               PROVE  TypeOK'
    OBVIOUS
  <1> USE Ids, Values
  <1>1. ASSUME NEW s \in Starts, start(s) PROVE TypeOK'
    <2>1. timers' \in [Starts -> Timer]
      BY <1>1, TimerFields DEF start, TimersAfterStart, TypeOK
    <2>2. polling' \in BOOLEAN /\ task' \in TaskIds /\ loops' \in [Starts -> Loop]
      BY <1>1 DEF start, poller_start, TypeOK
    <2> QED BY <1>1, <2>1, <2>2 DEF start, TypeOK
  <1>2. ASSUME NEW h \in Handlers, NEW s \in Starts, StopTimer(h, s) PROVE TypeOK'
    <2>1. timers' \in [Starts -> Timer]
      BY <1>2, TimerFields DEF StopTimer, TypeOK
    <2>2. stops' \in [Handlers -> Stop]
      BY <1>2, StopFields DEF StopTimer, TypeOK
    <2> QED BY <1>2, <2>1, <2>2 DEF StopTimer, TypeOK
  <1>3. ASSUME NEW h \in Handlers, StopPoller(h)
        PROVE  /\ polling' \in BOOLEAN /\ task' \in TaskIds
               /\ loops' \in [Starts -> Loop] /\ stops' \in [Handlers -> Stop]
    <2>1. polling' = FALSE /\ task' \in TaskIds /\ loops' \in [Starts -> Loop]
      BY <1>3, StopPollerTypes DEF StopPoller
    <2>2. stops' \in [Handlers -> Stop]
      BY <1>3, StopFields DEF StopPoller, TypeOK
    <2> QED BY <2>1, <2>2
  <1>4. ASSUME NEW h \in Handlers, StopNow(h) PROVE TypeOK'
    BY <1>3, <1>4 DEF StopNow, TypeOK
  <1>5. ASSUME NEW h \in Handlers, StopTimerDone(h) PROVE TypeOK'
    BY <1>3, <1>5 DEF StopTimerDone, TypeOK
  <1>6. ASSUME NEW h \in Handlers, StopLoopDone(h) PROVE TypeOK'
    BY <1>6 DEF StopLoopDone, TypeOK
  <1>7. ASSUME NEW s \in Starts, TimerFires(s) PROVE TypeOK'
    <2>1. polling' = FALSE /\ task' \in TaskIds /\ loops' \in [Starts -> Loop]
      BY <1>7, StopPollerTypes DEF TimerFires
    <2>2. timers' \in [Starts -> Timer]
      BY <1>7, TimerFields DEF TimerFires, Broadcasts, TypeOK
    <2> QED BY <1>7, <2>1, <2>2 DEF TimerFires, ManagerStopped, TypeOK
  <1>8. ASSUME NEW s \in Starts, TimerLoopDone(s) PROVE TypeOK'
    <2>1. timers' \in [Starts -> Timer]
      BY <1>8, TimerFields DEF TimerLoopDone, Broadcasts, TypeOK
    <2> QED BY <1>8, <2>1 DEF TimerLoopDone, TypeOK
  <1>9. ASSUME NEW s \in Starts, TimerEnds(s) PROVE TypeOK'
    BY <1>9 DEF TimerEnds, TypeOK
  <1>10. ASSUME NEW s \in Starts, NEW pc \in {"poll", "sleep", "done"}, LoopMoves(s, pc)
         PROVE  TypeOK'
    <2>1. [loops[s] EXCEPT !.pc = pc] \in Loop
      BY LoopFields DEF TypeOK
    <2>2. loops' \in [Starts -> Loop]
      BY <1>10, <2>1 DEF LoopMoves, TypeOK
    <2> QED BY <1>10, <2>2 DEF LoopMoves, TypeOK
  <1>11. ASSUME NEW s \in Starts, LoopCancelled(s) PROVE TypeOK'
    BY <1>11 DEF LoopCancelled, TypeOK
  <1>12. ASSUME NEW s \in Starts, LoopStep(s) PROVE TypeOK'
    BY <1>10, <1>11, <1>12 DEF LoopStep, LoopTest, LoopPolled
  <1>13. CASE UNCHANGED vars
    BY <1>13 DEF vars, TypeOK
  <1> QED
    BY <1>1, <1>2, <1>4, <1>5, <1>6, <1>7, <1>8, <1>9, <1>12, <1>13
       DEF Next, StopStep, TimerStep

\* Simulation's states are well typed.
THEOREM Typing == ASSUME SimulationAssumption PROVE Spec => []TypeOK
  BY TypeInit, TypeStep, PTL DEF Spec

-----------------------------------------------------------------------------
(***************************************************************************)
(* A running simulation has a timer, and nothing polls unattended.         *)
(***************************************************************************)

\* Only a timer that fires or is stopped, with the simulation, ceases to be
\* pending: no other step takes the last pending timer away.
LEMMA PendingStep ==
    ASSUME SimulationAssumption, TypeOK, AutoShutdownPending, [Next]_vars
    PROVE  AutoShutdownPending'
  <1>1. ASSUME NEW s \in Starts, start(s) PROVE AutoShutdownPending'
    <2>1. timers'[s].pc = "sleep" /\ ~timers'[s].cancelled
      BY <1>1 DEF start, TimersAfterStart, NewTimer
    <2> QED BY <2>1 DEF AutoShutdownPending, Pending
  <1>2. ASSUME NEW h \in Handlers, NEW s \in Starts, StopTimer(h, s)
        PROVE  AutoShutdownPending'
    BY <1>2 DEF StopTimer, AutoShutdownPending
  <1>3. ASSUME NEW h \in Handlers, StopNow(h) \/ StopStep(h) PROVE AutoShutdownPending'
    BY <1>3 DEF StopNow, StopStep, StopTimerDone, StopLoopDone, AutoShutdownPending, Pending
  <1>4. ASSUME NEW s \in Starts, TimerFires(s) PROVE AutoShutdownPending'
    BY <1>4 DEF TimerFires, ManagerStopped, AutoShutdownPending
  <1>5. ASSUME NEW s \in Starts, TimerLoopDone(s) \/ TimerEnds(s)
        PROVE  AutoShutdownPending'
    <2>1. running' = running /\ ~Pending(s)
      BY <1>5 DEF TimerLoopDone, TimerEnds, Pending
    <2>2. \A r \in Starts : r # s => timers'[r] = timers[r]
      BY <1>5 DEF TimerLoopDone, TimerEnds, Broadcasts, TypeOK
    <2> QED BY <2>1, <2>2 DEF AutoShutdownPending, Pending
  <1>6. ASSUME NEW s \in Starts, LoopStep(s) PROVE AutoShutdownPending'
    BY <1>6 DEF LoopStep, LoopTest, LoopPolled, LoopCancelled, LoopMoves,
                AutoShutdownPending, Pending
  <1>7. CASE UNCHANGED vars
    BY <1>7 DEF vars, AutoShutdownPending, Pending
  <1> QED
    BY <1>1, <1>2, <1>3, <1>4, <1>5, <1>6, <1>7 DEF Next, TimerStep

\* Whoever clears _is_running reaches the poller, at once or after the timer
\* it cancelled.
LEMMA AttendedStep ==
    ASSUME SimulationAssumption, TypeOK, PollingIsAttended, [Next]_vars
    PROVE  PollingIsAttended'
  <1>1. ASSUME NEW s \in Starts, start(s) PROVE PollingIsAttended'
    BY <1>1 DEF start, PollingIsAttended
  <1>2. ASSUME NEW h \in Handlers, NEW s \in Starts, StopTimer(h, s)
        PROVE  PollingIsAttended'
    <2>1. stops'[h].pc = "timer"
      BY <1>2 DEF StopTimer, TypeOK
    <2> QED BY <2>1 DEF PollingIsAttended
  <1>3. ASSUME NEW h \in Handlers, StopNow(h) \/ StopTimerDone(h)
        PROVE  PollingIsAttended'
    <2>1. ~polling'
      BY <1>3, StopPollerTypes DEF StopNow, StopTimerDone, StopPoller
    <2> QED BY <2>1 DEF PollingIsAttended
  <1>4. ASSUME NEW h \in Handlers, StopLoopDone(h) PROVE PollingIsAttended'
    <2>1. \A g \in Handlers : stops[g].pc = "timer" => stops'[g] = stops[g]
      BY <1>4 DEF StopLoopDone, TypeOK
    <2> QED BY <1>4, <2>1 DEF StopLoopDone, PollingIsAttended
  <1>5. ASSUME NEW s \in Starts, TimerFires(s) PROVE PollingIsAttended'
    <2>1. ~polling'
      BY <1>5, StopPollerTypes DEF TimerFires
    <2> QED BY <2>1 DEF PollingIsAttended
  <1>6. ASSUME NEW s \in Starts, TimerLoopDone(s) \/ TimerEnds(s) PROVE PollingIsAttended'
    BY <1>6 DEF TimerLoopDone, TimerEnds, PollingIsAttended
  <1>7. ASSUME NEW s \in Starts, LoopStep(s) PROVE PollingIsAttended'
    BY <1>7 DEF LoopStep, LoopTest, LoopPolled, LoopCancelled, LoopMoves, PollingIsAttended
  <1>8. CASE UNCHANGED vars
    BY <1>8 DEF vars, PollingIsAttended
  <1> QED
    BY <1>1, <1>2, <1>3, <1>4, <1>5, <1>6, <1>7, <1>8 DEF Next, StopStep, TimerStep

\* A running simulation has a timer that will end it.
THEOREM RunningEnds ==
    ASSUME SimulationAssumption PROVE Spec => []AutoShutdownPending
  <1>1. Init => AutoShutdownPending
    BY DEF Init, AutoShutdownPending
  <1>2. TypeOK /\ AutoShutdownPending /\ [Next]_vars => AutoShutdownPending'
    BY PendingStep
  <1> QED BY <1>1, <1>2, Typing, PTL DEF Spec

\* The poller is told to poll only while the simulation runs or is being
\* stopped.
THEOREM NothingPollsUnattended ==
    ASSUME SimulationAssumption PROVE Spec => []PollingIsAttended
  <1>1. Init => PollingIsAttended
    BY DEF Init, PollingIsAttended
  <1>2. TypeOK /\ PollingIsAttended /\ [Next]_vars => PollingIsAttended'
    BY AttendedStep
  <1> QED BY <1>1, <1>2, Typing, PTL DEF Spec

-----------------------------------------------------------------------------
(***************************************************************************)
(* No request waits for what may go on.  A request's wait ends because a   *)
(* timer or a loop told to end is never revived: a start makes a new timer *)
(* and a new loop, and a loop has the number of a timer.                   *)
(***************************************************************************)

TimerEnding(s) == timers[s].pc # "none" /\ ~Pending(s)
LoopEnding(s) == loops[s].pc # "none" /\ (LoopLive(s) => loops[s].cancelled)

LoopsHaveTimers == \A s \in Starts : timers[s].pc = "none" => loops[s].pc = "none"

AwaitedEnds(h) ==
    /\ stops[h].pc = "timer" => stops[h].awaits \in Starts /\ TimerEnding(stops[h].awaits)
    /\ stops[h].pc = "loop" => stops[h].awaits \in Starts /\ LoopEnding(stops[h].awaits)

AwaitInv == TypeOK /\ LoopsHaveTimers /\ \A h \in Handlers : AwaitedEnds(h)

\* What stopping the poller does to the loops.
LEMMA StopPollerEffect ==
    ASSUME TypeOK, NEW l \in Starts, CancelLoop(l)
    PROVE  /\ \A r \in Starts : loops'[r].pc = loops[r].pc
           /\ \A r \in Starts : r # l => loops'[r] = loops[r]
           /\ loops'[l].cancelled /\ loops[l].pc # "none"
  BY DEF CancelLoop, LoopLive, TypeOK, Loop

\* One step of a timer leaves the others and keeps one told to end so.
LEMMA TimersNeverRevive ==
    ASSUME SimulationAssumption, AwaitInv, [Next]_vars, NEW r \in Starts
    PROVE  /\ TimerEnding(r) => TimerEnding(r)'
           /\ timers[r].pc # "none" => timers'[r].pc # "none"
  <1> USE DEF TimerEnding, Pending
  <1>1. ASSUME NEW s \in Starts, start(s)
        PROVE  timers[r].pc # "none" =>
                  timers'[r].pc = timers[r].pc /\ (timers[r].cancelled => timers'[r].cancelled)
    <2>1. timers[s].pc = "none"
      BY <1>1 DEF start, NextStart, Starts, SimulationAssumption
    <2>2. timers[r] \in Timer
      BY DEF AwaitInv, TypeOK
    <2> QED BY <1>1, <2>1, <2>2 DEF start, TimersAfterStart, Timer
  <1>2. ASSUME NEW h \in Handlers, NEW s \in Starts, StopTimer(h, s)
        PROVE  timers'[r].pc = timers[r].pc /\ (timers[r].cancelled => timers'[r].cancelled)
    BY <1>2 DEF StopTimer, AwaitInv, TypeOK, Timer
  <1>3. ASSUME NEW s \in Starts, TimerStep(s)
        PROVE  (timers'[r] = timers[r]) \/ timers'[r].pc \in {"stopping", "broadcast", "done"}
    <2>1. ASSUME NEW pc \in {"broadcast", "done"}, Broadcasts(s, pc)
          PROVE  timers'[r] = timers[r] \/ timers'[r].pc = pc
      BY <2>1 DEF Broadcasts, NewTimer, AwaitInv, TypeOK
    <2>2. CASE TimerFires(s)
      <3>1. CASE \E pc \in {"broadcast", "done"} : Broadcasts(s, pc)
        BY <2>1, <3>1
      <3>2. CASE \E l \in Starts :
                   timers' = [timers EXCEPT ![s] =
                                [NewTimer EXCEPT !.pc = "stopping", !.awaits = l]]
        BY <3>2 DEF NewTimer, AwaitInv, TypeOK
      <3> QED BY <2>2, <3>1, <3>2 DEF TimerFires
    <2>3. CASE TimerLoopDone(s)
      BY <2>1, <2>3 DEF TimerLoopDone
    <2>4. CASE TimerEnds(s)
      BY <2>4 DEF TimerEnds, TimerDone, AwaitInv, TypeOK
    <2> QED BY <1>3, <2>2, <2>3, <2>4 DEF TimerStep
  <1>4. ASSUME NEW h \in Handlers, StopNow(h) \/ StopStep(h) PROVE timers' = timers
    BY <1>4 DEF StopNow, StopStep, StopTimerDone, StopLoopDone
  <1>5. ASSUME NEW s \in Starts, LoopStep(s) PROVE timers' = timers
    BY <1>5 DEF LoopStep, LoopTest, LoopPolled, LoopCancelled, LoopMoves
  <1>6. CASE UNCHANGED vars
    BY <1>6 DEF vars
  <1> QED
    BY <1>1, <1>2, <1>3, <1>4, <1>5, <1>6 DEF Next

\* Nor is a loop that was told to end, and a new loop has a new timer.
LEMMA LoopsNeverRevive ==
    ASSUME SimulationAssumption, AwaitInv, [Next]_vars, NEW r \in Starts
    PROVE  /\ LoopEnding(r) => LoopEnding(r)'
           /\ loops'[r].pc # "none" => loops[r].pc # "none" \/ timers'[r].pc # "none"
  <1> USE DEF LoopEnding, LoopLive
  <1>0. timers[r].pc = "none" => loops[r].pc = "none"
    BY DEF AwaitInv, LoopsHaveTimers
  <1>1. ASSUME NEW s \in Starts, start(s)
        PROVE  loops'[r] = loops[r] \/ (r = s /\ timers[r].pc = "none" /\ timers'[r].pc # "none")
    <2>1. timers[s].pc = "none"
      BY <1>1 DEF start, NextStart, Starts, SimulationAssumption
    <2>2. timers'[s].pc # "none"
      BY <1>1 DEF start, TimersAfterStart, NewTimer
    <2> QED BY <1>1, <2>1, <2>2 DEF start, poller_start, AwaitInv, TypeOK
  <1>2. ASSUME NEW l \in Starts, CancelLoop(l)
        PROVE  loops'[r].pc = loops[r].pc /\ (loops'[r] = loops[r] \/ loops'[r].cancelled)
    BY <1>2, StopPollerEffect DEF AwaitInv
  <1>3. ASSUME NEW h \in Handlers, StopPoller(h)
        PROVE  loops'[r].pc = loops[r].pc /\ (loops'[r] = loops[r] \/ loops'[r].cancelled)
    BY <1>2, <1>3 DEF StopPoller, NothingToStop
  <1>4. ASSUME NEW h \in Handlers, StopNow(h) \/ StopTimerDone(h)
        PROVE  loops'[r].pc = loops[r].pc /\ (loops'[r] = loops[r] \/ loops'[r].cancelled)
    BY <1>3, <1>4 DEF StopNow, StopTimerDone
  <1>5. ASSUME NEW s \in Starts, TimerFires(s)
        PROVE  loops'[r].pc = loops[r].pc /\ (loops'[r] = loops[r] \/ loops'[r].cancelled)
    BY <1>2, <1>5 DEF TimerFires, NothingToStop
  <1>6. ASSUME \/ \E h \in Handlers, s \in Starts : StopTimer(h, s)
               \/ \E h \in Handlers : StopLoopDone(h)
               \/ \E s \in Starts : TimerLoopDone(s) \/ TimerEnds(s)
        PROVE  loops' = loops
    BY <1>6 DEF StopTimer, StopLoopDone, TimerLoopDone, TimerEnds
  <1>7. ASSUME NEW s \in Starts, LoopStep(s)
        PROVE  \/ loops'[r] = loops[r]
               \/ loops[r].pc # "none" /\ loops'[r].pc = "done"
               \/ ~LoopEnding(r) /\ loops[r].pc # "none"
    <2>1. \/ loops'[r] = loops[r]
          \/ r = s /\ LoopLive(s) /\ ~loops[s].cancelled
          \/ r = s /\ LoopLive(s) /\ loops'[s].pc = "done"
      BY <1>7 DEF LoopStep, LoopTest, LoopPolled, LoopCancelled, LoopMoves, LoopDone,
                  AwaitInv, TypeOK
    <2> QED BY <2>1
  <1>8. CASE UNCHANGED vars
    BY <1>8 DEF vars
  <1> QED
    BY <1>0, <1>1, <1>4, <1>5, <1>6, <1>7, <1>8 DEF Next, StopStep, TimerStep

\* A request waits for what it has just told to end, or goes on waiting.
LEMMA AwaitsStep ==
    ASSUME SimulationAssumption, AwaitInv, [Next]_vars, NEW h \in Handlers
    PROVE  \/ stops'[h] = stops[h] \/ stops'[h].pc = "idle"
           \/ \E s \in Starts : stops'[h] = [pc |-> "timer", awaits |-> s] /\ TimerEnding(s)'
           \/ \E s \in Starts : stops'[h] = [pc |-> "loop", awaits |-> s] /\ LoopEnding(s)'
  <1>1. ASSUME NEW g \in Handlers, NEW s \in Starts, StopTimer(g, s)
        PROVE  TimerEnding(s)' /\ stops' = [stops EXCEPT ![g] = [pc |-> "timer", awaits |-> s]]
    BY <1>1 DEF StopTimer, TimerLive, TimerEnding, Pending, AwaitInv, TypeOK, Timer
  <1>2. ASSUME NEW g \in Handlers, StopPoller(g)
        PROVE  \/ stops' = [stops EXCEPT ![g] = NoStop]
               \/ \E s \in Starts :
                    LoopEnding(s)' /\ stops' = [stops EXCEPT ![g] = [pc |-> "loop", awaits |-> s]]
    BY <1>2, StopPollerEffect DEF StopPoller, LoopEnding, AwaitInv
  <1>3. ASSUME NEW g \in Handlers, StopNow(g) \/ StopTimerDone(g) PROVE StopPoller(g)
    BY <1>3 DEF StopNow, StopTimerDone
  <1>4. ASSUME NEW g \in Handlers, StopLoopDone(g)
        PROVE  stops' = [stops EXCEPT ![g] = NoStop]
    BY <1>4 DEF StopLoopDone
  <1>5. ASSUME \E s \in Starts : start(s) \/ TimerStep(s) \/ LoopStep(s) PROVE stops' = stops
    BY <1>5 DEF start, TimerStep, TimerFires, TimerLoopDone, TimerEnds, LoopStep, LoopTest,
                LoopPolled, LoopCancelled, LoopMoves
  <1>6. CASE UNCHANGED vars
    BY <1>6 DEF vars
  <1>7. stops \in [Handlers -> Stop]
    BY DEF AwaitInv, TypeOK
  <1>8. CASE \E g \in Handlers, s \in Starts : StopTimer(g, s)
    BY <1>1, <1>7, <1>8
  <1>9. CASE \E g \in Handlers : StopNow(g) \/ StopStep(g)
    <2>1. PICK g \in Handlers : StopPoller(g) \/ stops' = [stops EXCEPT ![g] = NoStop]
      BY <1>3, <1>4, <1>9 DEF StopStep
    <2> QED BY <1>2, <1>7, <2>1 DEF NoStop
  <1> QED BY <1>5, <1>6, <1>8, <1>9 DEF Next

\* No request waits out a timer's whole sleep or a loop nobody cancelled.
THEOREM WaitsAreShort ==
    ASSUME SimulationAssumption PROVE Spec => []StopsAwaitTheEnding
  <1>1. Init => AwaitInv
    BY TypeInit DEF Init, AwaitInv, LoopsHaveTimers, AwaitedEnds, NoStop, NoLoop
  <1>2. AwaitInv /\ [Next]_vars => AwaitInv'
    <2> SUFFICES ASSUME AwaitInv, [Next]_vars PROVE AwaitInv'
      OBVIOUS
    <2>1. TypeOK'
      BY TypeStep DEF AwaitInv
    <2>2. LoopsHaveTimers'
      BY TimersNeverRevive, LoopsNeverRevive DEF AwaitInv, LoopsHaveTimers
    <2>3. ASSUME NEW h \in Handlers PROVE AwaitedEnds(h)'
      <3>1. AwaitedEnds(h)
        BY <2>3 DEF AwaitInv
      <3>2. \A r \in Starts : /\ TimerEnding(r) => TimerEnding(r)'
                              /\ LoopEnding(r) => LoopEnding(r)'
        BY TimersNeverRevive, LoopsNeverRevive
      <3>3. CASE stops'[h] = stops[h]
        <4>1. stops'[h].pc = "timer" =>
                 stops'[h].awaits \in Starts /\ TimerEnding(stops[h].awaits)'
          BY <3>1, <3>2, <3>3 DEF AwaitedEnds
        <4>2. stops'[h].pc = "loop" =>
                 stops'[h].awaits \in Starts /\ LoopEnding(stops[h].awaits)'
          BY <3>1, <3>2, <3>3 DEF AwaitedEnds
        <4> QED BY <3>3, <4>1, <4>2 DEF AwaitedEnds, TimerEnding, LoopEnding, Pending, LoopLive
      <3>4. CASE stops'[h].pc = "idle"
        BY <3>4 DEF AwaitedEnds
      <3>5. ASSUME NEW s \in Starts, TimerEnding(s)',
                   stops'[h] = [pc |-> "timer", awaits |-> s]
            PROVE  AwaitedEnds(h)'
        BY <3>5 DEF AwaitedEnds, TimerEnding, Pending
      <3>6. ASSUME NEW s \in Starts, LoopEnding(s)',
                   stops'[h] = [pc |-> "loop", awaits |-> s]
            PROVE  AwaitedEnds(h)'
        BY <3>6 DEF AwaitedEnds, LoopEnding, LoopLive
      <3> QED BY <2>3, <3>3, <3>4, <3>5, <3>6, AwaitsStep
    <2> QED BY <2>1, <2>2, <2>3 DEF AwaitInv
  <1>3. AwaitInv => StopsAwaitTheEnding
    BY DEF AwaitInv, AwaitedEnds, TimerEnding, LoopEnding, StopsAwaitTheEnding
  <1> QED BY <1>1, <1>2, <1>3, PTL DEF Spec
=============================================================================
