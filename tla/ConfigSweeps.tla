---------------------------- MODULE ConfigSweeps -----------------------------
(***************************************************************************)
(* Baseline and anti-drift sweeps of one organisation: the handlers that   *)
(* queue them (server/routes/config.py), the background tasks that run     *)
(* them (server/config_collector/scanner.py over targeted_puller.py), and  *)
(* the crashes and restarts of the server (server/main.py).                *)
(*                                                                         *)
(* The server is one event loop: a task keeps the loop from one await to   *)
(* the next, so an action is what a task does between two awaits, or less  *)
(* where a crash can fall between two commits.  The awaits that matter are *)
(* those of an HTTP call: between Fetch, where Meraki answers, and Store,  *)
(* where the answer is written, every other task may run.  The order in    *)
(* which expand_for_org lists the jobs is abstracted to any order, and the *)
(* organisation keeps its composition (Keys) for as long as a sweep lasts, *)
(* so total_calls is the constant Cardinality(Keys) and is not a field.    *)
(***************************************************************************)
EXTENDS ConfigStore, FiniteSets

CONSTANTS Tasks,        (* slots for the asyncio tasks alive at one time    *)
          MaxRuns,      (* bound: rows of config_sweep_runs                 *)
          CHUNK,        (* jobs of a baseline between two counter updates   *)
          None,         (* no key, no response                              *)
          Budget        (* bound: how often each external event may happen  *)

Events == {"post", "crash", "change", "miss", "fault"}

ASSUME SweepAssumption ==
    /\ IsFiniteSet(Keys)
    /\ None \notin Keys /\ None \notin Hashes
    /\ MaxRuns \in Nat \ {0}
    /\ CHUNK \in Nat \ {0}
    /\ Budget \in [Events -> Nat]

RunIds == 1 .. MaxRuns
Kinds == {"baseline", "anti_drift"}
Statuses == {"none", "queued", "running", "complete", "failed"}

VARIABLES
    up,       \* the server process is running
    meraki,   \* the configuration behind each endpoint, as its hash
    obs,      \* config_observations
    runs,     \* config_sweep_runs; status "none": no such row yet
    tasks,    \* the background tasks
    shared,   \* history: the runs on which two tasks were alive at once
    launches, \* history: the tasks ever created for each run
    budget    \* what is left of Budget

vars == <<up, meraki, obs, runs, tasks, shared, launches, budget>>

Run == [kind : Kinds, status : Statuses, completed : Nat, failed : Nat]

\* fn is the function the task runs, run the row it works on, todo the jobs
\* left, key and resp the call in flight, ok and bad what it has not counted.
Task == [pc : {"idle", "enumerate", "pull", "reply"}, fn : Kinds, run : RunIds,
         todo : SUBSET Keys, key : Keys \cup {None}, resp : Hashes \cup {None},
         ok : Nat, bad : Nat]

NewTask(pc, fn, r) ==
    [pc |-> pc, fn |-> fn, run |-> r, todo |-> {}, key |-> None, resp |-> None,
     ok |-> 0, bad |-> 0]

Idle == NewTask("idle", "baseline", 1)

TypeOK ==
    /\ up \in BOOLEAN
    /\ meraki \in [Keys -> Hashes]
    /\ obs \in Seq(Row)
    /\ runs \in [RunIds -> Run]
    /\ tasks \in [Tasks -> Task]
    /\ shared \in SUBSET RunIds
    /\ launches \in [RunIds -> Nat]
    /\ budget \in [Events -> Nat]

Init ==
    /\ up = TRUE
    /\ meraki \in [Keys -> Hashes]
    /\ obs = <<>>
    /\ runs = [r \in RunIds |-> [kind |-> "baseline", status |-> "none",
                                 completed |-> 0, failed |-> 0]]
    /\ tasks = [t \in Tasks |-> Idle]
    /\ shared = {}
    /\ launches = [r \in RunIds |-> 0]
    /\ budget = Budget

Spend(e) ==
    /\ budget[e] > 0
    /\ budget' = [budget EXCEPT ![e] = @ - 1]

-----------------------------------------------------------------------------
(***************************************************************************)
(* The handlers.                                                           *)
(***************************************************************************)

Alive(t, r) == tasks[t].pc # "idle" /\ tasks[t].run = r

\* A slip: a failed run is taken up again under its old id.
ActiveOrFailed(r) == runs[r].status \in {"queued", "running", "failed"}

Active(r) == runs[r].status \in {"queued", "running"}

\* r is what get_active_sweep_run returns: the active run of highest id.
get_active_sweep_run(kind, r) ==
    /\ runs[r].kind = kind /\ Active(r)
    /\ \A s \in RunIds : runs[s].kind = kind /\ Active(s) => s <= r

NoActive(kind) == \A r \in RunIds : runs[r].kind = kind => ~Active(r)

\* r is the id create_sweep_run assigns: one above every row there is.
NextRunId(r) ==
    \A s \in RunIds : s >= r <=> runs[s].status = "none"

create_sweep_run(kind, r) ==
    runs' = [runs EXCEPT ![r] = [kind |-> kind, status |-> "queued",
                                 completed |-> 0, failed |-> 0]]

\* asyncio.create_task: slot t runs fn on row r.
Launch(t, fn, r) ==
    /\ tasks[t].pc = "idle"
    /\ tasks' = [tasks EXCEPT ![t] = NewTask("enumerate", fn, r)]
    /\ shared' = shared \cup IF \E u \in Tasks : Alive(u, r) THEN {r} ELSE {}
    /\ launches' = [launches EXCEPT ![r] = @ + 1]

\* POST /orgs/{org_id}/baseline: a task is created whether the run is new
\* or was already active.
start_baseline ==
    /\ up
    /\ Spend("post")
    /\ \E t \in Tasks, r \in RunIds :
         /\ \/ get_active_sweep_run("baseline", r) /\ UNCHANGED runs
            \/ NoActive("baseline") /\ NextRunId(r) /\ create_sweep_run("baseline", r)
         /\ Launch(t, "baseline", r)
    /\ UNCHANGED <<up, meraki, obs>>

\* A slip: an active anti-drift run is launched again, as start_baseline does.
start_sweepRelaunch ==
    /\ up
    /\ Spend("post")
    /\ \E t \in Tasks, r \in RunIds :
         /\ \/ get_active_sweep_run("anti_drift", r) /\ UNCHANGED runs
            \/ NoActive("anti_drift") /\ NextRunId(r) /\ create_sweep_run("anti_drift", r)
         /\ Launch(t, "anti_drift", r)
    /\ UNCHANGED <<up, meraki, obs>>

\* POST /orgs/{org_id}/sweep: an active run is returned as it is, with or
\* without a task behind it.
start_sweep ==
    /\ up
    /\ Spend("post")
    /\ \/ /\ ~NoActive("anti_drift")
          /\ UNCHANGED <<runs, tasks, shared, launches>>
       \/ /\ NoActive("anti_drift")
          /\ \E t \in Tasks, r \in RunIds :
               /\ NextRunId(r) /\ create_sweep_run("anti_drift", r)
               /\ Launch(t, "anti_drift", r)
    /\ UNCHANGED <<up, meraki, obs>>

-----------------------------------------------------------------------------
(***************************************************************************)
(* The steps of run_baseline and run_anti_drift_sweep.                     *)
(***************************************************************************)

SetStatus(r, s) == runs' = [runs EXCEPT ![r] = [@ EXCEPT !.status = s]]

EndTask(t) == tasks' = [tasks EXCEPT ![t] = Idle]

\* A slip: a resumed baseline starts over.
JobsLeftAll(t) == Keys

\* The jobs left when the enumeration is done: a baseline skips those its run
\* already has a row for, an anti-drift sweep skips none.
JobsLeft(t) ==
    IF tasks[t].fn = "baseline"
      THEN Keys \ list_completed_entity_areas(obs, tasks[t].run)
      ELSE Keys

\* A slip: a task that finds no job left returns at once.
BeginReturnsEarly(t) ==
    /\ tasks[t].pc = "enumerate"
    /\ IF JobsLeft(t) = {}
         THEN EndTask(t)
         ELSE tasks' = [tasks EXCEPT ![t] = [@ EXCEPT !.pc = "pull", !.todo = JobsLeft(t)]]
    /\ SetStatus(tasks[t].run, "running")
    /\ UNCHANGED <<up, meraki, obs, shared, launches, budget>>

\* enumerate_org_composition has returned: the run is marked running.
Begin(t) ==
    /\ tasks[t].pc = "enumerate"
    /\ tasks' = [tasks EXCEPT ![t] = [@ EXCEPT !.pc = "pull", !.todo = JobsLeft(t)]]
    /\ SetStatus(tasks[t].run, "running")
    /\ UNCHANGED <<up, meraki, obs, shared, launches, budget>>

\* The enumeration raises.  It stands outside the try: the task is over and
\* the row keeps its status.
EnumerateFails(t) ==
    /\ tasks[t].pc = "enumerate"
    /\ Spend("fault")
    /\ EndTask(t)
    /\ UNCHANGED <<up, meraki, obs, runs, shared, launches>>

Uncounted(t) == tasks[t].ok + tasks[t].bad

\* The counters are due: at the end of a chunk of a baseline, and at the end
\* of either sweep.
CountDue(t) ==
    /\ Uncounted(t) > 0
    /\ \/ tasks[t].todo = {}
       \/ tasks[t].fn = "baseline" /\ Uncounted(t) = CHUNK

\* Meraki answers the GET of job k with what is configured now.
Fetch(t, k) ==
    /\ tasks[t].pc = "pull" /\ ~CountDue(t)
    /\ k \in tasks[t].todo
    /\ tasks' = [tasks EXCEPT ![t] =
                    [@ EXCEPT !.pc = "reply", !.key = k, !.resp = meraki[k]]]
    /\ UNCHANGED <<up, meraki, obs, runs, shared, launches, budget>>

\* The GET of job k fails: the job is counted as failed and dropped.
FetchFails(t, k) ==
    /\ tasks[t].pc = "pull" /\ ~CountDue(t)
    /\ k \in tasks[t].todo
    /\ Spend("miss")
    /\ tasks' = [tasks EXCEPT ![t] = [@ EXCEPT !.todo = tasks[t].todo \ {k}, !.bad = tasks[t].bad + 1]]
    /\ UNCHANGED <<up, meraki, obs, runs, shared, launches>>

\* The source_event of the row a task is about to write.
SourceEvent(t) ==
    IF tasks[t].fn = "baseline" THEN "baseline"
    ELSE IF LatestHashIs(obs, tasks[t].key, tasks[t].resp) THEN "anti_drift_confirm"
    ELSE "anti_drift_discrepancy"

\* The response of the call in flight is redacted and stored.
Store(t) ==
    /\ tasks[t].pc = "reply"
    /\ obs' = insert_observation_if_changed(obs,
                 [key |-> tasks[t].key, hash |-> tasks[t].resp,
                  source |-> SourceEvent(t), run |-> tasks[t].run, event |-> NoEvent])
    /\ tasks' = [tasks EXCEPT ![t] =
                    [@ EXCEPT !.pc = "pull", !.todo = tasks[t].todo \ {tasks[t].key},
                              !.key = None, !.resp = None, !.ok = tasks[t].ok + 1]]
    /\ UNCHANGED <<up, meraki, runs, shared, launches, budget>>

\* A slip: the counters are set, not added to.
set_sweep_counters(r, completed, failed) ==
    runs' = [runs EXCEPT ![r] = [@ EXCEPT !.completed = completed, !.failed = failed]]

\* What one chunk did is added to the counters of its run.
increment_sweep_counters(r, completed, failed) ==
    runs' = [runs EXCEPT ![r] = [@ EXCEPT !.completed = runs[r].completed + completed,
                                          !.failed = runs[r].failed + failed]]

\* The jobs done since the last update are added to the counters of the run.
Count(t) ==
    /\ tasks[t].pc = "pull" /\ CountDue(t)
    /\ increment_sweep_counters(tasks[t].run, tasks[t].ok, tasks[t].bad)
    /\ tasks' = [tasks EXCEPT ![t] = [@ EXCEPT !.ok = 0, !.bad = 0]]
    /\ UNCHANGED <<up, meraki, obs, shared, launches, budget>>

\* No job left and all counted: mark_sweep_complete, and the task returns.
Finish(t) ==
    /\ tasks[t].pc = "pull" /\ tasks[t].todo = {} /\ Uncounted(t) = 0
    /\ SetStatus(tasks[t].run, "complete")
    /\ EndTask(t)
    /\ UNCHANGED <<up, meraki, obs, shared, launches, budget>>

\* Something inside the try raises (the redactor, or SQLite while it writes a
\* row, the counters or the status): the task ends and the run is marked
\* failed, unless that update raises as well.
Raise(t) ==
    /\ \/ tasks[t].pc = "reply"
       \/ tasks[t].pc = "pull" /\ (CountDue(t) \/ tasks[t].todo = {})
    /\ Spend("fault")
    /\ SetStatus(tasks[t].run, "failed") \/ UNCHANGED runs
    /\ EndTask(t)
    /\ UNCHANGED <<up, meraki, obs, shared, launches>>

-----------------------------------------------------------------------------
(***************************************************************************)
(* Crashes, restarts, and the administrators of the Meraki organisation.   *)
(***************************************************************************)

\* The process dies: the tasks are gone, the database stays.
Crash ==
    /\ up
    /\ Spend("crash")
    /\ up' = FALSE
    /\ tasks' = [t \in Tasks |-> Idle]
    /\ UNCHANGED <<meraki, obs, runs, shared, launches>>

\* The server starts, and resumes no sweep: _start_config_pollers, which would,
\* is a handler of the "startup" event, and an application built with a
\* lifespan runs the lifespan in the place of those handlers.
Restart ==
    /\ ~up
    /\ up' = TRUE
    /\ UNCHANGED <<meraki, obs, runs, tasks, shared, launches, budget>>

\* An administrator changes what is behind k.
AdminChange(k) ==
    /\ Spend("change")
    /\ \E h \in Hashes \ {meraki[k]} : meraki' = [meraki EXCEPT ![k] = h]
    /\ UNCHANGED <<up, obs, runs, tasks, shared, launches>>

-----------------------------------------------------------------------------
TaskStep(t) ==
    \/ Begin(t)
    \/ \E k \in Keys : Fetch(t, k) \/ FetchFails(t, k)
    \/ Store(t)
    \/ Count(t)
    \/ Finish(t)

TaskFault(t) == EnumerateFails(t) \/ Raise(t)

Next ==
    \/ start_baseline
    \/ start_sweep
    \/ \E t \in Tasks : TaskStep(t) \/ TaskFault(t)
    \/ Crash
    \/ Restart
    \/ \E k \in Keys : AdminChange(k)

Spec == Init /\ [][Next]_vars

\* The event loop runs every task that can run, every HTTP call returns or
\* times out, and a server that is down is started again.  Requests, faults,
\* crashes and configuration changes are under no obligation to happen.
Fairness ==
    /\ \A t \in Tasks : WF_vars(TaskStep(t))
    /\ WF_vars(Restart)

FairSpec == Spec /\ Fairness

-----------------------------------------------------------------------------
(***************************************************************************)
(* Invariants.                                                             *)
(***************************************************************************)

\* A baseline row is written only when the configuration differs from the
\* latest row of its key, however the tasks interleave: no await separates
\* the comparison from the insert (insert_observation_if_changed).
BaselineRowsRecordChanges == RowsRecordChanges(obs)

\* A confirm repeats the row before it and a discrepancy does not, even when
\* other sweeps wrote while the call was in flight (run_anti_drift_sweep).
DriftLabelsMatchHistory == DriftLabelsAgree(obs)

Observed(k) == \E i \in DOMAIN obs : obs[i].key = k

CompleteRunsCovered ==
    \A r \in RunIds : runs[r].status = "complete" /\ runs[r].failed = 0
                        => \A k \in Keys : Observed(k)

OneRowPerJob ==
    \A i, j \in DOMAIN obs :
        obs[i].run = obs[j].run /\ obs[i].key = obs[j].key /\ obs[i].run \notin shared
            => i = j

\* A resumption skips what its run had stored and nothing else.  A run that is
\* complete without a failed call has left no endpoint unobserved, through
\* crashes, resumptions and concurrent tasks; and one that never had two tasks
\* at once has at most one row for each job.
ResumptionIsExact == CompleteRunsCovered /\ OneRowPerJob

\* An anti-drift sweep always writes: a run that is complete without a failed
\* call has a row of its own for every endpoint, the unchanged ones included.
AntiDriftAlwaysWrites ==
    \A r \in RunIds :
        runs[r].kind = "anti_drift" /\ runs[r].status = "complete" /\ runs[r].failed = 0
            => list_completed_entity_areas(obs, r) = Keys

\* The counters of a run that one task carried from start to end add up to
\* the number of its jobs.
CountersAddUp ==
    \A r \in RunIds : runs[r].status = "complete" /\ launches[r] = 1
                        => runs[r].completed + runs[r].failed = Cardinality(Keys)

-----------------------------------------------------------------------------
(***************************************************************************)
(* What a step may never do, and what must happen.                         *)
(***************************************************************************)

Finished(r) == runs[r].status \in {"complete", "failed"}

\* A finished run that never had two tasks at once keeps its row for ever.
FinishedRunsAreFinal ==
    [][\A r \in RunIds : Finished(r) /\ r \notin shared' => runs'[r] = runs[r]]_vars

\* The anti-drift rows of config_sweep_runs follow the lifecycle of
\* SweepLifecycle: one active run at a time, nothing reopened.
AntiDrift == INSTANCE SweepLifecycle WITH
    status <- [r \in RunIds |-> IF runs[r].kind = "anti_drift" THEN runs[r].status
                                                              ELSE "none"]
AntiDriftLifecycle == AntiDrift!Spec

\* Without exceptions, a sweep under way is finished some day, the resumption
\* of an interrupted one included, unless the server goes down first.
SweepsUnderWayEnd ==
    \A r \in RunIds : (\E t \in Tasks : Alive(t, r)) ~> (Finished(r) \/ ~up)

-----------------------------------------------------------------------------
(***************************************************************************)
(* What the documentation says of sweeps and the code does not do.         *)
(***************************************************************************)

\* README: "sweep lifecycle (queued -> running -> complete/failed)".  Two
\* POSTs of a baseline make two tasks; the slower one reopens the run.
FinishedRunsStayFinished ==
    [][\A r \in RunIds : Finished(r) => runs'[r].status = runs[r].status]_vars

\* main.py: "Resume any sweeps interrupted by a server restart".  A run that
\* was running at a crash has a task again some day; but nothing resumes it.
InterruptedSweepsResume ==
    \A r \in RunIds : (~up /\ runs[r].status = "running") ~> \E t \in Tasks : Alive(t, r)

\* Design document, Flow A: "On failure: status='failed'".  A run whose
\* enumeration raised keeps its status, though no task is left to finish it.
FailedTasksFailTheRun ==
    [][up' => \A r \in RunIds, t \in Tasks :
                 Alive(t, r) /\ ~Alive(t, r)' => Finished(r)']_vars
=============================================================================
