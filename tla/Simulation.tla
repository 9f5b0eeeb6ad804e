------------------------------ MODULE Simulation -------------------------------
(***************************************************************************)
(* Starting and stopping the simulation: SimulationManager with its        *)
(* auto-shutdown timer (server/routes/simulation.py) over the polling loop *)
(* of TopologyPoller (collector/poller.py).                                *)
(*                                                                         *)
(* Everything runs on one event loop.  start() never suspends; stop()      *)
(* suspends while it awaits the timer it cancelled and while the poller's  *)
(* stop() awaits the loop it cancelled; the timer suspends in the same     *)
(* stop().  An action is what runs between two of these points.  The n-th  *)
(* successful start creates timer n and, if it creates one, loop n.  What  *)
(* a loop polls is the subject of TopologyPush.                            *)
(***************************************************************************)
EXTENDS Integers

CONSTANTS MaxStarts,  (* bound: successful starts                          *)
          Handlers    (* POST /stop requests that may be in progress       *)

ASSUME SimulationAssumption == MaxStarts \in Nat \ {0}

Starts == 1 .. MaxStarts
NoTask == 0
TaskIds == Starts \cup {NoTask}

VARIABLES
    running,   \* SimulationManager._is_running
    shutdown,  \* SimulationManager._shutdown_task
    timers,    \* the tasks running _auto_shutdown
    polling,   \* TopologyPoller._running
    task,      \* TopologyPoller._task
    loops,     \* the tasks running _poll_loop
    stops      \* the requests inside stop()

vars == <<running, shutdown, timers, polling, task, loops, stops>>

\* cancelled: cancel() was called and has not been delivered yet.
Timer == [pc : {"none", "sleep", "stopping", "broadcast", "done"},
          cancelled : BOOLEAN, awaits : TaskIds]
Loop == [pc : {"none", "check", "poll", "sleep", "done"}, cancelled : BOOLEAN]
Stop == [pc : {"idle", "timer", "loop"}, awaits : TaskIds]

NoTimer == [pc |-> "none", cancelled |-> FALSE, awaits |-> NoTask]
NewTimer == [pc |-> "sleep", cancelled |-> FALSE, awaits |-> NoTask]
TimerDone == [pc |-> "done", cancelled |-> FALSE, awaits |-> NoTask]
NoLoop == [pc |-> "none", cancelled |-> FALSE]
NewLoop == [pc |-> "check", cancelled |-> FALSE]
LoopDone == [pc |-> "done", cancelled |-> FALSE]
NoStop == [pc |-> "idle", awaits |-> NoTask]

TypeOK ==
    /\ running \in BOOLEAN
    /\ shutdown \in TaskIds
    /\ timers \in [Starts -> Timer]
    /\ polling \in BOOLEAN
    /\ task \in TaskIds
    /\ loops \in [Starts -> Loop]
    /\ stops \in [Handlers -> Stop]

Init ==
    /\ running = FALSE
    /\ shutdown = NoTask
    /\ timers = [s \in Starts |-> NoTimer]
    /\ polling = FALSE
    /\ task = NoTask
    /\ loops = [s \in Starts |-> NoLoop]
    /\ stops = [h \in Handlers |-> NoStop]

TimerLive(s) == timers[s].pc \in {"sleep", "stopping", "broadcast"}
LoopLive(s) == loops[s].pc \in {"check", "poll", "sleep"}

\* Asleep and not told otherwise: the timer will stop the simulation.
Pending(s) == timers[s].pc = "sleep" /\ ~timers[s].cancelled

-----------------------------------------------------------------------------
(***************************************************************************)
(* TopologyPoller.start and stop.                                          *)
(***************************************************************************)

poller_start(s) ==
    IF polling
      THEN UNCHANGED <<polling, task, loops>>
      ELSE /\ polling' = TRUE
           /\ task' = s
           /\ loops' = [loops EXCEPT ![s] = NewLoop]

\* A slip: with nothing to cancel, stop() returns before it clears _running.
NothingToStopKeeps ==
    /\ \A s \in Starts : task = s => ~LoopLive(s)
    /\ task' = NoTask
    /\ UNCHANGED <<polling, loops>>

\* stop() has no task, or one that is done, and returns without suspending.
NothingToStop ==
    /\ \A s \in Starts : task = s => ~LoopLive(s)
    /\ polling' = FALSE
    /\ task' = NoTask
    /\ UNCHANGED loops

\* A slip: the loop is awaited without having been cancelled.
CancelLoopForgotten(s) ==
    /\ task = s /\ LoopLive(s)
    /\ polling' = FALSE
    /\ UNCHANGED <<task, loops>>

\* stop() cancels the loop s and suspends until it is done.
CancelLoop(s) ==
    /\ task = s /\ LoopLive(s)
    /\ polling' = FALSE
    /\ loops' = [loops EXCEPT ![s].cancelled = TRUE]
    /\ UNCHANGED task

-----------------------------------------------------------------------------
(***************************************************************************)
(* SimulationManager.start and stop.                                       *)
(***************************************************************************)

NextStart(s) == \A r \in Starts : r >= s <=> timers[r].pc = "none"

\* A slip: the old timer is cancelled and taken for the new one.
TimersAfterStartReused(s) ==
    [r \in Starts |-> IF r = s THEN TimerDone ELSE timers[r]]

\* The timer of the last start is cancelled, if it lives, and a new one made.
TimersAfterStart(s) ==
    [r \in Starts |->
       IF r = s THEN NewTimer
       ELSE IF r = shutdown /\ TimerLive(r) THEN [timers[r] EXCEPT !.cancelled = TRUE]
       ELSE timers[r]]

\* POST /start, the simulation not running.
start(s) ==
    /\ ~running
    /\ NextStart(s)
    /\ running' = TRUE
    /\ poller_start(s)
    /\ timers' = TimersAfterStart(s)
    /\ shutdown' = s
    /\ UNCHANGED stops

\* POST /stop, the simulation running and its timer alive: the timer is
\* cancelled and awaited.
StopTimer(h, s) ==
    /\ stops[h].pc = "idle"
    /\ running
    /\ running' = FALSE
    /\ shutdown = s /\ TimerLive(s)
    /\ timers' = [timers EXCEPT ![s].cancelled = TRUE]
    /\ stops' = [stops EXCEPT ![h] = [pc |-> "timer", awaits |-> s]]
    /\ UNCHANGED <<shutdown, polling, task, loops>>

\* The poller is stopped, at once or with a wait for its loop.
StopPoller(h) ==
    \/ /\ NothingToStop
       /\ stops' = [stops EXCEPT ![h] = NoStop]
    \/ \E s \in Starts :
         /\ CancelLoop(s)
         /\ stops' = [stops EXCEPT ![h] = [pc |-> "loop", awaits |-> s]]

\* POST /stop, the simulation running and no timer alive in _shutdown_task.
StopNow(h) ==
    /\ stops[h].pc = "idle"
    /\ running
    /\ running' = FALSE
    /\ \A s \in Starts : shutdown = s => ~TimerLive(s)
    /\ StopPoller(h)
    /\ UNCHANGED <<shutdown, timers>>

\* The awaited timer is done: _shutdown_task is forgotten, whichever it is
\* now, and the poller stopped.
StopTimerDone(h) ==
    /\ stops[h].pc = "timer"
    /\ ~TimerLive(stops[h].awaits)
    /\ shutdown' = NoTask
    /\ StopPoller(h)
    /\ UNCHANGED <<running, timers>>

\* The awaited loop is done: _task is forgotten, whichever it is now.
StopLoopDone(h) ==
    /\ stops[h].pc = "loop"
    /\ ~LoopLive(stops[h].awaits)
    /\ task' = NoTask
    /\ stops' = [stops EXCEPT ![h] = NoStop]
    /\ UNCHANGED <<running, shutdown, timers, polling, loops>>

-----------------------------------------------------------------------------
(***************************************************************************)
(* _auto_shutdown.                                                         *)
(***************************************************************************)

\* What the timer makes of _is_running.
ManagerStopped == FALSE

\* With the poller stopped the timer broadcasts, which suspends if a client
\* is connected.
Broadcasts(s, pc) == timers' = [timers EXCEPT ![s] = [NewTimer EXCEPT !.pc = pc]]

\* The sleep is over.  All timers sleep equally long.
TimerFires(s) ==
    /\ Pending(s)
    /\ \A r \in Starts : r < s => ~Pending(r)
    /\ running' = ManagerStopped
    /\ \/ /\ NothingToStop
          /\ \E pc \in {"broadcast", "done"} : Broadcasts(s, pc)
       \/ \E l \in Starts :
            /\ CancelLoop(l)
            /\ timers' = [timers EXCEPT ![s] = [NewTimer EXCEPT !.pc = "stopping", !.awaits = l]]
    /\ UNCHANGED <<shutdown, stops>>

\* The loop it awaited is done.  A cancel() that arrived meanwhile is
\* swallowed by the except clause of TopologyPoller.stop.
TimerLoopDone(s) ==
    /\ timers[s].pc = "stopping"
    /\ ~LoopLive(timers[s].awaits)
    /\ task' = NoTask
    /\ \E pc \in {"broadcast", "done"} : Broadcasts(s, pc)
    /\ UNCHANGED <<running, shutdown, polling, loops, stops>>

\* A timer cancelled in its sleep, or done with or cancelled in its broadcast.
TimerEnds(s) ==
    /\ \/ timers[s].pc = "sleep" /\ timers[s].cancelled
       \/ timers[s].pc = "broadcast"
    /\ timers' = [timers EXCEPT ![s] = TimerDone]
    /\ UNCHANGED <<running, shutdown, polling, task, loops, stops>>

-----------------------------------------------------------------------------
(***************************************************************************)
(* _poll_loop.                                                             *)
(***************************************************************************)

\* A slip: while True.
KeepPollingAlways == TRUE

\* The loop's condition.
KeepPolling == polling

LoopMoves(s, pc) ==
    /\ loops' = [loops EXCEPT ![s].pc = pc]
    /\ UNCHANGED <<running, shutdown, timers, polling, task, stops>>

\* The condition is tested, by a new loop or by one that slept.
LoopTest(s) ==
    /\ loops[s].pc \in {"check", "sleep"} /\ ~loops[s].cancelled
    /\ \/ KeepPolling /\ LoopMoves(s, "poll")
       \/ ~KeepPolling /\ LoopMoves(s, "done")

\* poll_once returns and the loop sleeps.
LoopPolled(s) ==
    /\ loops[s].pc = "poll" /\ ~loops[s].cancelled
    /\ LoopMoves(s, "sleep")

\* CancelledError: caught around the sleep, raised by poll_once; the task is
\* done either way.
LoopCancelled(s) ==
    /\ LoopLive(s) /\ loops[s].cancelled
    /\ loops' = [loops EXCEPT ![s] = LoopDone]
    /\ UNCHANGED <<running, shutdown, timers, polling, task, stops>>

-----------------------------------------------------------------------------
StopStep(h) == StopTimerDone(h) \/ StopLoopDone(h)
TimerStep(s) == TimerFires(s) \/ TimerLoopDone(s) \/ TimerEnds(s)
LoopStep(s) == LoopTest(s) \/ LoopPolled(s) \/ LoopCancelled(s)

Next ==
    \/ \E s \in Starts : start(s)
    \/ \E h \in Handlers, s \in Starts : StopTimer(h, s)
    \/ \E h \in Handlers : StopNow(h) \/ StopStep(h)
    \/ \E s \in Starts : TimerStep(s) \/ LoopStep(s)

Spec == Init /\ [][Next]_vars

\* Sleeps elapse, a poll returns (every SNMP request has a timeout), and the
\* event loop resumes what can be resumed.  Requests are optional.
Fairness ==
    /\ \A h \in Handlers : WF_vars(StopStep(h))
    /\ \A s \in Starts : WF_vars(TimerStep(s)) /\ WF_vars(LoopStep(s))

FairSpec == Spec /\ Fairness

-----------------------------------------------------------------------------
(***************************************************************************)
(* Properties.                                                             *)
(***************************************************************************)

\* A running simulation has a timer that will end it, however starts, stops
\* and earlier timers interleave (start, stop, _auto_shutdown).
AutoShutdownPending == running => \E s \in Starts : Pending(s)

\* The poller is told to poll only while the simulation runs, or while a stop
\* that began has yet to reach the poller.
PollingIsAttended ==
    polling => running \/ \E h \in Handlers : stops[h].pc = "timer"

\* A request waits only for a timer or a loop that has been cancelled or is
\* past its sleep, so it cannot wait out a whole timeout.
StopsAwaitTheEnding ==
    \A h \in Handlers :
        /\ stops[h].pc = "timer" => ~Pending(stops[h].awaits)
        /\ stops[h].pc = "loop" /\ LoopLive(stops[h].awaits)
             => loops[stops[h].awaits].cancelled

\* When nobody starts it any more, everything comes to rest: no loop polls,
\* no request waits.
EverythingComesToRest ==
    <>[](/\ ~running
         /\ \A s \in Starts : ~LoopLive(s)
         /\ \A h \in Handlers : stops[h].pc = "idle")

-----------------------------------------------------------------------------
(***************************************************************************)
(* What the docstrings say and two overlapping requests break.             *)
(***************************************************************************)

\* No request and no timer is in the middle of a stop.
Quiet ==
    /\ \A h \in Handlers : stops[h].pc = "idle"
    /\ \A s \in Starts : timers[s].pc # "stopping"

\* simulation.py, is_running: "Return True if the simulation is currently
\* active."  A start during a stop leaves it true with the poller stopped.
RunningMeansPolling == Quiet /\ running => polling

\* poller.py, is_running: "Return True if the poller is actively running."  A
\* start during a stop loses the new loop: it polls, unknown to its poller.
PollerKnowsItsLoop == Quiet /\ polling => task # NoTask /\ LoopLive(task)

\* simulation.py, stop: "Stop the simulation and cancel the auto-shutdown
\* timer."  A start during a stop loses the new timer, which then outlives
\* the next stop and ends a later simulation early.
StoppedMeansNoTimer == Quiet /\ ~running => \A s \in Starts : ~Pending(s)
=============================================================================
