-------------------------- MODULE ConfigSweepsProofs -------------------------
(***************************************************************************)
(* Proofs about ConfigSweeps, for every set of endpoints and hashes, every *)
(* number of tasks and runs, every CHUNK and every Budget.                 *)
(***************************************************************************)
EXTENDS ConfigSweeps, ConfigStoreProofs, FiniteSetTheorems

-----------------------------------------------------------------------------
(***************************************************************************)
(* Types.                                                                  *)
(***************************************************************************)

USE DEF RunIds, Kinds, Statuses, Events

\* A task that is created, or enters another step, is one.
LEMMA NewTaskType ==
    ASSUME SweepAssumption, NEW pc \in {"idle", "enumerate", "pull", "reply"},
           NEW fn \in Kinds, NEW r \in RunIds
    PROVE  NewTask(pc, fn, r) \in Task
BY DEF NewTask, Task

\* So is a task that does nothing.
LEMMA IdleType == SweepAssumption => Idle \in Task
BY NewTaskType DEF Idle, SweepAssumption

\* A budget that is spent is a budget.
LEMMA SpendType ==
    ASSUME TypeOK, NEW e \in Events, Spend(e)
    PROVE  budget' \in [Events -> Nat]
BY DEF TypeOK, Spend

\* create_sweep_run writes a row of the table.
LEMMA CreateType ==
    ASSUME TypeOK, NEW r \in RunIds, NEW kind \in Kinds, create_sweep_run(kind, r)
    PROVE  runs' \in [RunIds -> Run]
BY DEF TypeOK, create_sweep_run, Run

\* What SetStatus does to the table of runs.
LEMMA SetStatusEffect ==
    ASSUME TypeOK, NEW r \in RunIds, NEW s \in Statuses, SetStatus(r, s)
    PROVE  /\ runs' \in [RunIds -> Run]
           /\ runs'[r] = [runs[r] EXCEPT !.status = s]
           /\ runs'[r].status = s /\ runs'[r].kind = runs[r].kind
           /\ runs'[r].completed = runs[r].completed /\ runs'[r].failed = runs[r].failed
           /\ \A q \in RunIds : q # r => runs'[q] = runs[q]
<1> DEFINE new == [runs[r] EXCEPT !.status = s]
<1>1. runs[r] \in Run /\ runs \in [RunIds -> Run]
  BY DEF TypeOK
<1>2. /\ new \in Run
      /\ new.status = s /\ new.kind = runs[r].kind
      /\ new.completed = runs[r].completed /\ new.failed = runs[r].failed
  BY <1>1 DEF Run
<1>3. runs' = [runs EXCEPT ![r] = new]
  BY DEF SetStatus
<1> HIDE DEF new
<1>4. /\ runs' \in [RunIds -> Run]
      /\ runs'[r] = new
      /\ \A q \in RunIds : q # r => runs'[q] = runs[q]
  BY <1>1, <1>2, <1>3
<1>5. QED
  BY <1>2, <1>4 DEF new

\* What an update of one task does to the table of tasks.
LEMMA UpdateTask ==
    ASSUME TypeOK, NEW t \in Tasks, NEW new \in Task,
           tasks' = [tasks EXCEPT ![t] = new]
    PROVE  /\ tasks' \in [Tasks -> Task]
           /\ tasks'[t] = new
           /\ \A u \in Tasks : u # t => tasks'[u] = tasks[u]
BY DEF TypeOK

\* The task after Begin.
LEMMA BeginEffect ==
    ASSUME TypeOK, NEW t \in Tasks, Begin(t)
    PROVE  /\ tasks' \in [Tasks -> Task]
           /\ tasks'[t].pc = "pull" /\ tasks'[t].todo = JobsLeft(t)
           /\ tasks'[t].fn = tasks[t].fn /\ tasks'[t].run = tasks[t].run
           /\ tasks'[t].ok = tasks[t].ok /\ tasks'[t].bad = tasks[t].bad
           /\ \A u \in Tasks : u # t => tasks'[u] = tasks[u]
<1> DEFINE new == [tasks[t] EXCEPT !.pc = "pull", !.todo = JobsLeft(t)]
<1>1. tasks[t] \in Task /\ JobsLeft(t) \in SUBSET Keys
  BY DEF TypeOK, JobsLeft
<1>2. /\ new \in Task
      /\ new.pc = "pull" /\ new.todo = JobsLeft(t)
      /\ new.fn = tasks[t].fn /\ new.run = tasks[t].run
      /\ new.ok = tasks[t].ok /\ new.bad = tasks[t].bad
  BY <1>1 DEF Task
<1>3. tasks' = [tasks EXCEPT ![t] = new]
  BY DEF Begin
<1> HIDE DEF new
<1>4. QED
  BY <1>2, <1>3, UpdateTask

\* The task after Fetch.
LEMMA FetchEffect ==
    ASSUME TypeOK, NEW t \in Tasks, NEW k \in Keys, Fetch(t, k)
    PROVE  /\ tasks' \in [Tasks -> Task]
           /\ tasks'[t].pc = "reply" /\ tasks'[t].key = k /\ tasks'[t].resp \in Hashes
           /\ tasks'[t].todo = tasks[t].todo
           /\ tasks'[t].fn = tasks[t].fn /\ tasks'[t].run = tasks[t].run
           /\ tasks'[t].ok = tasks[t].ok /\ tasks'[t].bad = tasks[t].bad
           /\ \A u \in Tasks : u # t => tasks'[u] = tasks[u]
<1> DEFINE new == [tasks[t] EXCEPT !.pc = "reply", !.key = k, !.resp = meraki[k]]
<1>1. tasks[t] \in Task /\ meraki[k] \in Hashes
  BY DEF TypeOK
<1>2. /\ new \in Task
      /\ new.pc = "reply" /\ new.key = k /\ new.resp \in Hashes
      /\ new.todo = tasks[t].todo
      /\ new.fn = tasks[t].fn /\ new.run = tasks[t].run
      /\ new.ok = tasks[t].ok /\ new.bad = tasks[t].bad
  BY <1>1 DEF Task
<1>3. tasks' = [tasks EXCEPT ![t] = new]
  BY DEF Fetch
<1> HIDE DEF new
<1>4. QED
  BY <1>2, <1>3, UpdateTask

\* The task after FetchFails.
LEMMA FetchFailsEffect ==
    ASSUME TypeOK, NEW t \in Tasks, NEW k \in Keys, FetchFails(t, k)
    PROVE  /\ tasks' \in [Tasks -> Task]
           /\ tasks'[t].pc = "pull" /\ tasks'[t].todo = tasks[t].todo \ {k}
           /\ tasks'[t].fn = tasks[t].fn /\ tasks'[t].run = tasks[t].run
           /\ tasks'[t].ok = tasks[t].ok /\ tasks'[t].bad = tasks[t].bad + 1
           /\ \A u \in Tasks : u # t => tasks'[u] = tasks[u]
<1> DEFINE new == [tasks[t] EXCEPT !.todo = tasks[t].todo \ {k}, !.bad = tasks[t].bad + 1]
<1>1. /\ tasks[t] \in Task /\ tasks[t].pc = "pull"
      /\ tasks[t].todo \ {k} \in SUBSET Keys /\ tasks[t].bad + 1 \in Nat
  BY DEF TypeOK, Task, FetchFails
<1>2. /\ new \in Task
      /\ new.pc = "pull" /\ new.todo = tasks[t].todo \ {k}
      /\ new.fn = tasks[t].fn /\ new.run = tasks[t].run
      /\ new.ok = tasks[t].ok /\ new.bad = tasks[t].bad + 1
  BY <1>1 DEF Task
<1>3. tasks' = [tasks EXCEPT ![t] = new]
  BY DEF FetchFails
<1> HIDE DEF new
<1>4. QED
  BY <1>2, <1>3, UpdateTask

\* The task after Store.
LEMMA StoreEffect ==
    ASSUME TypeOK, NEW t \in Tasks, Store(t)
    PROVE  /\ tasks' \in [Tasks -> Task]
           /\ tasks'[t].pc = "pull" /\ tasks'[t].todo = tasks[t].todo \ {tasks[t].key}
           /\ tasks'[t].fn = tasks[t].fn /\ tasks'[t].run = tasks[t].run
           /\ tasks'[t].ok = tasks[t].ok + 1 /\ tasks'[t].bad = tasks[t].bad
           /\ \A u \in Tasks : u # t => tasks'[u] = tasks[u]
<1> DEFINE new == [tasks[t] EXCEPT !.pc = "pull", !.todo = tasks[t].todo \ {tasks[t].key},
                                   !.key = None, !.resp = None, !.ok = tasks[t].ok + 1]
<1>1. /\ tasks[t] \in Task
      /\ tasks[t].todo \ {tasks[t].key} \in SUBSET Keys /\ tasks[t].ok + 1 \in Nat
  BY DEF TypeOK, Task
<1>2. /\ new \in Task
      /\ new.pc = "pull" /\ new.todo = tasks[t].todo \ {tasks[t].key}
      /\ new.fn = tasks[t].fn /\ new.run = tasks[t].run
      /\ new.ok = tasks[t].ok + 1 /\ new.bad = tasks[t].bad
  BY <1>1 DEF Task
<1>3. tasks' = [tasks EXCEPT ![t] = new]
  BY DEF Store
<1> HIDE DEF new
<1>4. QED
  BY <1>2, <1>3, UpdateTask

\* The task after Count.
LEMMA CountTaskEffect ==
    ASSUME TypeOK, NEW t \in Tasks, Count(t)
    PROVE  /\ tasks' \in [Tasks -> Task]
           /\ tasks'[t].pc = "pull" /\ tasks'[t].todo = tasks[t].todo
           /\ tasks'[t].fn = tasks[t].fn /\ tasks'[t].run = tasks[t].run
           /\ tasks'[t].ok = 0 /\ tasks'[t].bad = 0
           /\ \A u \in Tasks : u # t => tasks'[u] = tasks[u]
<1> DEFINE new == [tasks[t] EXCEPT !.ok = 0, !.bad = 0]
<1>1. tasks[t] \in Task /\ tasks[t].pc = "pull"
  BY DEF TypeOK, Count
<1>2. /\ new \in Task
      /\ new.pc = "pull" /\ new.todo = tasks[t].todo
      /\ new.fn = tasks[t].fn /\ new.run = tasks[t].run
      /\ new.ok = 0 /\ new.bad = 0
  BY <1>1 DEF Task
<1>3. tasks' = [tasks EXCEPT ![t] = new]
  BY DEF Count
<1> HIDE DEF new
<1>4. QED
  BY <1>2, <1>3, UpdateTask

\* The tasks after a task ends.
LEMMA EndTaskEffect ==
    ASSUME SweepAssumption, TypeOK, NEW t \in Tasks, EndTask(t)
    PROVE  /\ tasks' \in [Tasks -> Task]
           /\ tasks'[t].pc = "idle"
           /\ \A u \in Tasks : u # t => tasks'[u] = tasks[u]
<1>1. Idle.pc = "idle"
  BY DEF Idle, NewTask
<1>2. QED
  BY <1>1, IdleType, UpdateTask DEF EndTask

\* The tasks and the histories after a task is created.
LEMMA LaunchEffect ==
    ASSUME SweepAssumption, TypeOK, NEW t \in Tasks, NEW r \in RunIds,
           NEW fn \in Kinds, Launch(t, fn, r)
    PROVE  /\ tasks' \in [Tasks -> Task]
           /\ shared' \in SUBSET RunIds
           /\ launches' \in [RunIds -> Nat]
           /\ tasks[t].pc = "idle"
           /\ tasks'[t].pc = "enumerate" /\ tasks'[t].fn = fn /\ tasks'[t].run = r
           /\ tasks'[t].ok = 0 /\ tasks'[t].bad = 0
           /\ \A u \in Tasks : u # t => tasks'[u] = tasks[u]
           /\ shared' = shared \cup IF \E u \in Tasks : Alive(u, r) THEN {r} ELSE {}
<1> DEFINE new == NewTask("enumerate", fn, r)
<1>1. /\ new \in Task /\ new.pc = "enumerate" /\ new.fn = fn /\ new.run = r
      /\ new.ok = 0 /\ new.bad = 0
  BY NewTaskType DEF NewTask
<1>2. tasks' = [tasks EXCEPT ![t] = new]
  BY DEF Launch
<1>3. shared' \in SUBSET RunIds /\ launches' \in [RunIds -> Nat]
  <2>1. launches' = [launches EXCEPT ![r] = launches[r] + 1]
    BY DEF Launch
  <2>0. launches \in [RunIds -> Nat]
    BY DEF TypeOK
  <2>2. launches[r] + 1 \in Nat
    BY <2>0
  <2>3. launches' \in [RunIds -> Nat]
    BY <2>0, <2>1, <2>2
  <2>4. shared' \in SUBSET RunIds
    <3>1. shared' = shared \cup IF \E u \in Tasks : Alive(u, r) THEN {r} ELSE {}
      BY DEF Launch
    <3>2. shared \in SUBSET RunIds
      BY DEF TypeOK
    <3>3. QED
      BY <3>1, <3>2, Zenon
  <2>5. QED
    BY <2>3, <2>4
<1> HIDE DEF new
<1>4. /\ tasks' \in [Tasks -> Task] /\ tasks'[t] = new
      /\ \A u \in Tasks : u # t => tasks'[u] = tasks[u]
  BY <1>1, <1>2, UpdateTask
<1>5. /\ tasks[t].pc = "idle"
      /\ shared' = shared \cup IF \E u \in Tasks : Alive(u, r) THEN {r} ELSE {}
  BY DEF Launch
<1>6. QED
  BY <1>1, <1>3, <1>4, <1>5

\* What Count does to the table of runs.
LEMMA CountEffect ==
    ASSUME TypeOK, NEW t \in Tasks, Count(t)
    PROVE  /\ runs' \in [RunIds -> Run]
           /\ runs'[tasks[t].run].status = runs[tasks[t].run].status
           /\ runs'[tasks[t].run].kind = runs[tasks[t].run].kind
           /\ runs'[tasks[t].run].completed = runs[tasks[t].run].completed + tasks[t].ok
           /\ runs'[tasks[t].run].failed = runs[tasks[t].run].failed + tasks[t].bad
           /\ \A q \in RunIds : q # tasks[t].run => runs'[q] = runs[q]
<1> DEFINE r == tasks[t].run
           new == [runs[r] EXCEPT !.completed = runs[r].completed + tasks[t].ok,
                                  !.failed = runs[r].failed + tasks[t].bad]
<1>1. /\ r \in RunIds /\ tasks[t].ok \in Nat /\ tasks[t].bad \in Nat
      /\ runs[r] \in Run /\ runs \in [RunIds -> Run]
      /\ runs[r].completed + tasks[t].ok \in Nat
      /\ runs[r].failed + tasks[t].bad \in Nat
  <2>1. tasks[t] \in Task /\ runs \in [RunIds -> Run]
    BY DEF TypeOK
  <2>2. r \in RunIds /\ tasks[t].ok \in Nat /\ tasks[t].bad \in Nat
    BY <2>1 DEF Task
  <2> HIDE DEF r
  <2>3. runs[r] \in Run
    BY <2>1, <2>2
  <2>4. runs[r].completed \in Nat /\ runs[r].failed \in Nat
    BY <2>3 DEF Run
  <2>5. QED
    BY <2>1, <2>2, <2>3, <2>4
<1>2. /\ new \in Run
      /\ new.status = runs[r].status /\ new.kind = runs[r].kind
      /\ new.completed = runs[r].completed + tasks[t].ok
      /\ new.failed = runs[r].failed + tasks[t].bad
  <2> DEFINE x == runs[r]
             c == runs[r].completed + tasks[t].ok
             f == runs[r].failed + tasks[t].bad
  <2>1. new = [x EXCEPT !.completed = c, !.failed = f]
    OBVIOUS
  <2>2. c \in Nat /\ f \in Nat /\ x \in Run
    BY <1>1
  <2> HIDE DEF new, r, x, c, f
  <2>3. /\ new \in Run /\ new.status = x.status /\ new.kind = x.kind
        /\ new.completed = c /\ new.failed = f
    BY <2>1, <2>2 DEF Run
  <2>4. QED
    BY <2>3 DEF x, c, f
<1>3. runs' = [runs EXCEPT ![r] = new]
  BY DEF Count, increment_sweep_counters
<1> HIDE DEF new, r
<1>4. /\ runs' \in [RunIds -> Run]
      /\ runs'[r] = new
      /\ \A q \in RunIds : q # r => runs'[q] = runs[q]
  BY <1>1, <1>2, <1>3
<1>5. QED
  BY <1>2, <1>4 DEF r

\* The types of the row Store hands to insert_observation_if_changed.
LEMMA StoreRowType ==
    ASSUME SweepAssumption, TypeOK, NEW t \in Tasks,
           tasks[t].key \in Keys, tasks[t].resp \in Hashes
    PROVE  [key |-> tasks[t].key, hash |-> tasks[t].resp,
            source |-> SourceEvent(t), run |-> tasks[t].run, event |-> NoEvent] \in Row
<1>1. tasks[t].run \in Nat
  <2>1. tasks[t].run \in RunIds
    BY DEF TypeOK, Task
  <2>2. QED
    BY <2>1 DEF RunIds, SweepAssumption
<1>2. SourceEvent(t) \in SourceEvents
  BY DEF SourceEvent, SourceEvents, ALWAYS_WRITE_SOURCE_EVENTS
<1>3. tasks[t].key \in Keys /\ tasks[t].resp \in Hashes /\ NoEvent \in Nat
  BY DEF NoEvent
<1>4. QED
  BY <1>1, <1>2, <1>3, Zenon DEF Row

\* A task has a call in flight exactly when it waits for the reply.
InFlight ==
    \A t \in Tasks : tasks[t].pc = "reply" =>
        tasks[t].key \in Keys /\ tasks[t].resp \in Hashes /\ tasks[t].key \in tasks[t].todo

TypeInv == TypeOK /\ InFlight

\* The sweeps begin well typed.
LEMMA TypeInvInit == SweepAssumption /\ Init => TypeInv
<1> SUFFICES ASSUME SweepAssumption, Init PROVE TypeInv
  OBVIOUS
<1>1. tasks \in [Tasks -> Task]
  BY IdleType DEF Init
<1>2. \A t \in Tasks : tasks[t].pc = "idle"
  BY DEF Init, Idle, NewTask
<1>3. obs \in Seq(Row)
  BY DEF Init
<1>4. runs \in [RunIds -> Run]
  BY DEF Init, Run
<1>5. QED
  BY <1>1, <1>2, <1>3, <1>4 DEF Init, TypeInv, TypeOK, InFlight, SweepAssumption

\* Every step keeps the types, and the call in flight.
LEMMA TypeInvStep == SweepAssumption /\ TypeInv /\ [Next]_vars => TypeInv'
<1> SUFFICES ASSUME SweepAssumption, TypeInv, [Next]_vars
             PROVE  TypeInv'
  OBVIOUS
<1>0. TypeOK /\ InFlight
  BY DEF TypeInv
<1>1. CASE start_baseline
  <2> PICK t \in Tasks, r \in RunIds :
         /\ \/ get_active_sweep_run("baseline", r) /\ UNCHANGED runs
            \/ NoActive("baseline") /\ NextRunId(r) /\ create_sweep_run("baseline", r)
         /\ Launch(t, "baseline", r)
    BY <1>1 DEF start_baseline
  <2>1. /\ tasks' \in [Tasks -> Task] /\ shared' \in SUBSET RunIds
        /\ launches' \in [RunIds -> Nat]
    BY <1>0, LaunchEffect
  <2>2. runs' \in [RunIds -> Run]
    BY <1>0, CreateType DEF TypeOK
  <2>3. InFlight'
    BY <1>0, LaunchEffect DEF InFlight
  <2>4. budget' \in [Events -> Nat]
    BY <1>0, <1>1, SpendType DEF start_baseline
  <2>5. QED
    BY <1>0, <1>1, <2>1, <2>2, <2>3, <2>4 DEF TypeInv, TypeOK, start_baseline
<1>2. CASE start_sweep
  <2>1. budget' \in [Events -> Nat]
    BY <1>0, <1>2, SpendType DEF start_sweep
  <2>2. CASE UNCHANGED <<runs, tasks, shared, launches>>
    BY <1>0, <1>2, <2>1, <2>2 DEF TypeInv, TypeOK, InFlight, start_sweep
  <2>3. CASE \E t \in Tasks, r \in RunIds :
               /\ NextRunId(r) /\ create_sweep_run("anti_drift", r)
               /\ Launch(t, "anti_drift", r)
    <3> PICK t \in Tasks, r \in RunIds :
           create_sweep_run("anti_drift", r) /\ Launch(t, "anti_drift", r)
      BY <2>3
    <3>1. /\ tasks' \in [Tasks -> Task] /\ shared' \in SUBSET RunIds
          /\ launches' \in [RunIds -> Nat]
      BY <1>0, LaunchEffect
    <3>2. runs' \in [RunIds -> Run]
      BY <1>0, CreateType DEF TypeOK
    <3>3. InFlight'
      BY <1>0, LaunchEffect DEF InFlight
    <3>4. QED
      BY <1>0, <1>2, <2>1, <3>1, <3>2, <3>3 DEF TypeInv, TypeOK, start_sweep
  <2>4. QED
    BY <1>2, <2>2, <2>3 DEF start_sweep
<1>3. CASE \E t \in Tasks : Begin(t)
  <2> PICK t \in Tasks : Begin(t)
    BY <1>3
  <2>2. tasks' \in [Tasks -> Task]
    BY <1>0, BeginEffect
  <2>3. runs' \in [RunIds -> Run]
    BY <1>0, SetStatusEffect DEF Begin, TypeOK, Task
  <2>4. InFlight'
    BY <1>0, BeginEffect DEF InFlight
  <2>5. QED
    BY <1>0, <2>2, <2>3, <2>4 DEF Begin, TypeInv, TypeOK
<1>4. CASE \E t \in Tasks : EnumerateFails(t)
  <2> PICK t \in Tasks : EnumerateFails(t)
    BY <1>4
  <2>1. budget' \in [Events -> Nat]
    BY <1>0, SpendType DEF EnumerateFails
  <2>2. tasks' \in [Tasks -> Task] /\ InFlight'
    BY <1>0, EndTaskEffect DEF EnumerateFails, InFlight
  <2>3. QED
    BY <1>0, <2>1, <2>2 DEF EnumerateFails, TypeInv, TypeOK
<1>5. CASE \E t \in Tasks, k \in Keys : Fetch(t, k)
  <2> PICK t \in Tasks, k \in Keys : Fetch(t, k)
    BY <1>5
  <2>2. tasks' \in [Tasks -> Task]
    BY <1>0, FetchEffect
  <2>3. InFlight'
    <3>1. k \in tasks[t].todo
      BY DEF Fetch
    <3>2. QED
      BY <1>0, <3>1, FetchEffect DEF InFlight
  <2>4. QED
    BY <1>0, <2>2, <2>3 DEF Fetch, TypeInv, TypeOK
<1>6. CASE \E t \in Tasks, k \in Keys : FetchFails(t, k)
  <2> PICK t \in Tasks, k \in Keys : FetchFails(t, k)
    BY <1>6
  <2>1. budget' \in [Events -> Nat]
    BY <1>0, SpendType DEF FetchFails
  <2>2. tasks' \in [Tasks -> Task]
    BY <1>0, FetchFailsEffect
  <2>3. InFlight'
    BY <1>0, FetchFailsEffect DEF InFlight
  <2>4. QED
    BY <1>0, <2>1, <2>2, <2>3 DEF FetchFails, TypeInv, TypeOK
<1>7. CASE \E t \in Tasks : Store(t)
  <2> PICK t \in Tasks : Store(t)
    BY <1>7
  <2>1. obs' \in Seq(Row)
    BY <1>0, InsertType, StoreRowType DEF Store, InFlight, TypeOK
  <2>2. tasks' \in [Tasks -> Task]
    BY <1>0, StoreEffect
  <2>3. InFlight'
    BY <1>0, StoreEffect DEF InFlight
  <2>4. QED
    BY <1>0, <2>1, <2>2, <2>3 DEF Store, TypeInv, TypeOK
<1>8. CASE \E t \in Tasks : Count(t)
  <2> PICK t \in Tasks : Count(t)
    BY <1>8
  <2>1. runs' \in [RunIds -> Run]
    BY <1>0, CountEffect
  <2>2. tasks' \in [Tasks -> Task]
    BY <1>0, CountTaskEffect
  <2>3. InFlight'
    BY <1>0, CountTaskEffect DEF InFlight
  <2>4. QED
    BY <1>0, <2>1, <2>2, <2>3 DEF Count, TypeInv, TypeOK
<1>9. CASE \E t \in Tasks : Finish(t)
  <2> PICK t \in Tasks : Finish(t)
    BY <1>9
  <2>1. runs' \in [RunIds -> Run]
    BY <1>0, SetStatusEffect DEF Finish, TypeOK, Task
  <2>2. tasks' \in [Tasks -> Task] /\ InFlight'
    BY <1>0, EndTaskEffect DEF Finish, InFlight
  <2>3. QED
    BY <1>0, <2>1, <2>2 DEF Finish, TypeInv, TypeOK
<1>10. CASE \E t \in Tasks : Raise(t)
  <2> PICK t \in Tasks : Raise(t)
    BY <1>10
  <2>1. budget' \in [Events -> Nat]
    BY <1>0, SpendType DEF Raise
  <2>2. runs' \in [RunIds -> Run]
    <3>1. CASE SetStatus(tasks[t].run, "failed")
      BY <1>0, <3>1, SetStatusEffect DEF TypeOK, Task
    <3>2. CASE UNCHANGED runs
      BY <1>0, <3>2 DEF TypeOK
    <3>3. QED
      BY <3>1, <3>2 DEF Raise
  <2>3. tasks' \in [Tasks -> Task] /\ InFlight'
    BY <1>0, EndTaskEffect DEF Raise, InFlight
  <2>4. QED
    BY <1>0, <2>1, <2>2, <2>3 DEF Raise, TypeInv, TypeOK
<1>11. CASE Crash
  <2>1. budget' \in [Events -> Nat]
    BY <1>0, <1>11, SpendType DEF Crash
  <2>2. tasks' \in [Tasks -> Task] /\ InFlight'
    BY <1>11, IdleType DEF Crash, InFlight, Idle, NewTask
  <2>3. QED
    BY <1>0, <1>11, <2>1, <2>2 DEF Crash, TypeInv, TypeOK
<1>12. CASE Restart
  BY <1>0, <1>12 DEF Restart, TypeInv, TypeOK, InFlight
<1>13. CASE \E k \in Keys : AdminChange(k)
  <2> PICK k \in Keys : AdminChange(k)
    BY <1>13
  <2>1. budget' \in [Events -> Nat]
    BY <1>0, SpendType DEF AdminChange
  <2>2. meraki' \in [Keys -> Hashes]
    BY <1>0 DEF AdminChange, TypeOK
  <2>3. QED
    BY <1>0, <2>1, <2>2 DEF AdminChange, TypeInv, TypeOK, InFlight
<1>14. CASE UNCHANGED vars
  BY <1>0, <1>14 DEF vars, TypeInv, TypeOK, InFlight
<1>15. QED
  BY <1>1, <1>2, <1>3, <1>4, <1>5, <1>6, <1>7, <1>8, <1>9, <1>10, <1>11,
     <1>12, <1>13, <1>14 DEF Next, TaskStep, TaskFault

\* Every reachable state of the sweeps is well typed.
THEOREM Typing == Spec => []TypeOK
<1>1. Spec => []TypeInv
  BY SweepAssumption, TypeInvInit, TypeInvStep, PTL DEF Spec
<1>2. TypeInv => TypeOK
  BY DEF TypeInv
<1>3. QED
  BY <1>1, <1>2, PTL

-----------------------------------------------------------------------------
(***************************************************************************)
(* The history of every endpoint.  Only Store adds rows; the label it      *)
(* writes is computed from the table it appends to, not from the table at  *)
(* the time of the fetch.                                                  *)
(***************************************************************************)

\* Only the insert of pull_many writes observations.
LEMMA OnlyStoreAddsRows ==
    ASSUME [Next]_vars
    PROVE  (\E t \in Tasks : Store(t)) \/ obs' = obs
BY DEF Next, TaskStep, TaskFault, vars, start_baseline, start_sweep, Begin,
       EnumerateFails, Fetch, FetchFails, Count, Finish, Raise, Crash, Restart,
       AdminChange

\* What is said of the history outlives every step: the insert compares and
\* writes at once, and no other step writes.
LEMMA HistoryStep ==
    ASSUME SweepAssumption, TypeInv, [Next]_vars,
           RowsRecordChanges(obs), DriftLabelsAgree(obs)
    PROVE  RowsRecordChanges(obs') /\ DriftLabelsAgree(obs')
<1>1. CASE \E t \in Tasks : Store(t)
  <2> PICK t \in Tasks : Store(t)
    BY <1>1
  <2> DEFINE row == [key |-> tasks[t].key, hash |-> tasks[t].resp,
                     source |-> SourceEvent(t), run |-> tasks[t].run, event |-> NoEvent]
  <2>1. obs \in Seq(Row) /\ row \in Row
    BY StoreRowType DEF TypeInv, TypeOK, InFlight, Store
  <2>2. /\ row.source = "anti_drift_confirm" => LatestHashIs(obs, row.key, row.hash)
        /\ row.source = "anti_drift_discrepancy" => ~LatestHashIs(obs, row.key, row.hash)
    BY DEF SourceEvent
  <2>3. obs' = insert_observation_if_changed(obs, row)
    BY DEF Store
  <2> HIDE DEF row
  <2>4. QED
    BY <2>1, <2>2, <2>3, InsertRecordsChanges, InsertLabelsAgree
<1>2. CASE obs' = obs
  BY <1>2
<1>3. QED
  BY <1>1, <1>2, OnlyStoreAddsRows

HistoryInv == TypeInv /\ RowsRecordChanges(obs) /\ DriftLabelsAgree(obs)

\* The history is right in every reachable state.
LEMMA HistoryInvariant == Spec => []HistoryInv
<1>1. SweepAssumption /\ Init => HistoryInv
  BY TypeInvInit DEF Init, HistoryInv, RowsRecordChanges, DriftLabelsAgree
<1>2. SweepAssumption /\ HistoryInv /\ [Next]_vars => HistoryInv'
  BY TypeInvStep, HistoryStep DEF HistoryInv
<1>3. QED
  BY <1>1, <1>2, SweepAssumption, PTL DEF Spec

\* However sweeps, crashes and configuration changes interleave, a baseline
\* row differs from the row before it (insert_observation_if_changed).
THEOREM BaselineHistory == Spec => []BaselineRowsRecordChanges
<1>1. HistoryInv => BaselineRowsRecordChanges
  BY DEF HistoryInv, BaselineRowsRecordChanges
<1>2. QED
  BY <1>1, HistoryInvariant, PTL

\* However they interleave, the label of an anti-drift row agrees with the row
\* before it (run_anti_drift_sweep).
THEOREM DriftHistory == Spec => []DriftLabelsMatchHistory
<1>1. HistoryInv => DriftLabelsMatchHistory
  BY DEF HistoryInv, DriftLabelsMatchHistory
<1>2. QED
  BY <1>1, HistoryInvariant, PTL

-----------------------------------------------------------------------------
(***************************************************************************)
(* Runs and their tasks.                                                   *)
(***************************************************************************)

\* A server that is down has no tasks.
DownIdle == ~up => \A t \in Tasks : tasks[t].pc = "idle"

\* A task works on a row that exists; a row exists when it has had a task, ...
AliveExists ==
    \A t \in Tasks : tasks[t].pc # "idle" => runs[tasks[t].run].status # "none"

FreshRuns == \A r \in RunIds : runs[r].status = "none" <=> launches[r] = 0

\* ... and a run without a task has written no observation.
RowsCounted ==
    \A i \in DOMAIN obs : obs[i].run \in RunIds /\ launches[obs[i].run] >= 1

\* It takes two tasks to share a run.
SharedCounted == \A r \in shared : launches[r] >= 2

\* A run that was never shared has one task at most, ...
OneTask ==
    \A t, u \in Tasks :
        /\ tasks[t].pc # "idle" /\ tasks[u].pc # "idle"
        /\ tasks[t].run = tasks[u].run /\ tasks[t].run \notin shared
        => t = u

\* ... which has the row to itself: it finds it as it left it.
AliveRunning ==
    \A t \in Tasks : tasks[t].pc # "idle" /\ tasks[t].run \notin shared =>
        /\ Active(tasks[t].run)
        /\ tasks[t].pc # "enumerate" => runs[tasks[t].run].status = "running"

\* Anti-drift runs are never shared.
DriftUnshared == \A r \in RunIds : runs[r].kind = "anti_drift" => r \notin shared

RunInv ==
    /\ DownIdle /\ AliveExists /\ FreshRuns /\ RowsCounted /\ SharedCounted
    /\ OneTask /\ AliveRunning /\ DriftUnshared


-----------------------------------------------------------------------------
(***************************************************************************)
(* The kinds of steps.  For what follows a step is one of seven: a task is *)
(* created, begins, works or ends; the server crashes or restarts; or      *)
(* neither tasks nor runs nor rows change.                                 *)
(***************************************************************************)

OtherTasks(t) == \A u \in Tasks : u # t => tasks'[u] = tasks[u]
OtherRuns(r) == \A q \in RunIds : q # r => runs'[q] = runs[q]

\* Of a row that already exists, or of a new one.
Relaunched(fn, r) ==
    fn = "baseline" /\ runs[r].kind = "baseline" /\ Active(r) /\ runs' = runs

NewRun(fn, r) ==
    /\ runs[r].status = "none"
    /\ runs'[r].status = "queued" /\ runs'[r].kind = fn
    /\ runs'[r].completed = 0 /\ runs'[r].failed = 0
    /\ OtherRuns(r)

Created(t, fn, r) ==
    /\ up /\ UNCHANGED <<up, obs>>
    /\ tasks[t].pc = "idle"
    /\ tasks'[t].pc = "enumerate" /\ tasks'[t].fn = fn /\ tasks'[t].run = r
    /\ tasks'[t].ok = 0 /\ tasks'[t].bad = 0
    /\ OtherTasks(t)
    /\ shared' = shared \cup IF \E u \in Tasks : Alive(u, r) THEN {r} ELSE {}
    /\ launches'[r] = launches[r] + 1
    /\ \A q \in RunIds : q # r => launches'[q] = launches[q]
    /\ Relaunched(fn, r) \/ NewRun(fn, r)

Begun(t) ==
    /\ UNCHANGED <<up, obs, shared, launches>>
    /\ tasks[t].pc = "enumerate"
    /\ tasks'[t].pc = "pull" /\ tasks'[t].todo = JobsLeft(t)
    /\ tasks'[t].fn = tasks[t].fn /\ tasks'[t].run = tasks[t].run
    /\ tasks'[t].ok = tasks[t].ok /\ tasks'[t].bad = tasks[t].bad
    /\ OtherTasks(t)
    /\ runs'[tasks[t].run].status = "running"
    /\ runs'[tasks[t].run].kind = runs[tasks[t].run].kind
    /\ runs'[tasks[t].run].completed = runs[tasks[t].run].completed
    /\ runs'[tasks[t].run].failed = runs[tasks[t].run].failed
    /\ OtherRuns(tasks[t].run)

Worked(t) ==
    /\ UNCHANGED <<up, shared, launches>>
    /\ tasks[t].pc \in {"pull", "reply"}
    /\ tasks'[t].pc \in {"pull", "reply"}
    /\ tasks'[t].fn = tasks[t].fn /\ tasks'[t].run = tasks[t].run
    /\ OtherTasks(t)
    /\ runs'[tasks[t].run].status = runs[tasks[t].run].status
    /\ runs'[tasks[t].run].kind = runs[tasks[t].run].kind
    /\ OtherRuns(tasks[t].run)
    /\ \/ \E k \in Keys : Fetch(t, k) \/ FetchFails(t, k)
       \/ Store(t)
       \/ Count(t)

RunEnded(r) ==
    /\ runs'[r].status \in {"complete", "failed"}
    /\ runs'[r].kind = runs[r].kind
    /\ runs'[r].completed = runs[r].completed /\ runs'[r].failed = runs[r].failed
    /\ OtherRuns(r)

Ended(t) ==
    /\ UNCHANGED <<up, obs, shared, launches>>
    /\ tasks[t].pc # "idle" /\ tasks'[t].pc = "idle"
    /\ OtherTasks(t)
    /\ \/ runs' = runs
       \/ tasks[t].pc # "enumerate" /\ RunEnded(tasks[t].run)
    /\ runs'[tasks[t].run].status # "complete" \/ runs' = runs \/ Finish(t)

Still == (up => up') /\ UNCHANGED <<obs, runs, tasks, shared, launches>>

\* _run_baseline_bg and _run_sweep_bg create a task, ...
LEMMA LaunchCreates ==
    ASSUME SweepAssumption, TypeOK, NEW t \in Tasks, NEW r \in RunIds, NEW fn \in Kinds,
           up, UNCHANGED <<up, obs>>, Launch(t, fn, r), Relaunched(fn, r) \/ NewRun(fn, r)
    PROVE  Created(t, fn, r)
<1>1. /\ launches'[r] = launches[r] + 1
      /\ \A q \in RunIds : q # r => launches'[q] = launches[q]
  <2>1. launches' = [launches EXCEPT ![r] = launches[r] + 1]
    BY DEF Launch
  <2>2. QED
    BY <2>1 DEF TypeOK
<1>2. QED
  BY <1>1, LaunchEffect DEF Created, OtherTasks

\* create_sweep_run a run that is new, ...
LEMMA CreateNew ==
    ASSUME TypeOK, NEW r \in RunIds, NEW fn \in Kinds, NextRunId(r), create_sweep_run(fn, r)
    PROVE  NewRun(fn, r)
<1>1. runs[r].status = "none"
  <2>1. r >= r
    OBVIOUS
  <2>2. QED
    BY <2>1 DEF NextRunId
<1>2. QED
  BY <1>1 DEF TypeOK, create_sweep_run, NewRun, OtherRuns

\* the end of the enumeration begins one, ...
LEMMA BeginBegins ==
    ASSUME TypeOK, NEW t \in Tasks, Begin(t)
    PROVE  Begun(t)
<1>1. tasks[t].run \in RunIds
  BY DEF TypeOK, Task
<1>2. QED
  BY <1>1, BeginEffect, SetStatusEffect DEF Begin, Begun, OtherTasks, OtherRuns

\* the turns of pull_many and the counting are its work, ...
LEMMA WorkWorks ==
    ASSUME SweepAssumption, TypeOK, NEW t \in Tasks,
           (\E k \in Keys : Fetch(t, k) \/ FetchFails(t, k)) \/ Store(t) \/ Count(t)
    PROVE  Worked(t)
<1>1. tasks[t].run \in RunIds
  BY DEF TypeOK, Task
<1>2. ASSUME NEW k \in Keys, Fetch(t, k)
      PROVE  Worked(t)
  BY <1>2, FetchEffect DEF Worked, OtherTasks, OtherRuns, Fetch
<1>3. ASSUME NEW k \in Keys, FetchFails(t, k)
      PROVE  Worked(t)
  BY <1>3, FetchFailsEffect DEF Worked, OtherTasks, OtherRuns, FetchFails
<1>4. CASE Store(t)
  BY <1>4, StoreEffect DEF Worked, OtherTasks, OtherRuns, Store
<1>5. CASE Count(t)
  <2>1. UNCHANGED <<up, shared, launches>> /\ tasks[t].pc = "pull"
    BY <1>5 DEF Count
  <2>2. QED
    BY <1>5, <2>1, CountTaskEffect, CountEffect DEF Worked, OtherTasks, OtherRuns
<1>6. QED
  BY <1>2, <1>3, <1>4, <1>5

\* and the three ways out of run_baseline and run_anti_drift_sweep end it.
LEMMA EndEnds ==
    ASSUME SweepAssumption, TypeOK, NEW t \in Tasks,
           EnumerateFails(t) \/ Finish(t) \/ Raise(t)
    PROVE  Ended(t)
<1>1. tasks[t].run \in RunIds /\ EndTask(t) /\ tasks[t].pc # "idle"
  BY DEF TypeOK, Task, EnumerateFails, Finish, Raise
<1>2. tasks'[t].pc = "idle" /\ OtherTasks(t)
  BY <1>1, EndTaskEffect DEF OtherTasks
<1>3. UNCHANGED <<up, obs, shared, launches>>
  BY DEF EnumerateFails, Finish, Raise
<1>4. ASSUME NEW s \in {"complete", "failed"}, SetStatus(tasks[t].run, s)
      PROVE  RunEnded(tasks[t].run) /\ runs'[tasks[t].run].status = s
  BY <1>1, <1>4, SetStatusEffect DEF RunEnded, OtherRuns
<1>5. CASE EnumerateFails(t)
  <2>1. runs' = runs
    BY <1>5 DEF EnumerateFails
  <2>2. QED
    BY <1>1, <1>2, <1>3, <2>1 DEF Ended
<1>6. CASE Finish(t)
  <2>0. SetStatus(tasks[t].run, "complete")
    BY <1>6, Zenon DEF Finish
  <2>1. RunEnded(tasks[t].run) /\ tasks[t].pc # "enumerate"
    BY <1>4, <1>6, <2>0 DEF Finish
  <2>2. QED
    BY <1>1, <1>2, <1>3, <1>6, <2>1 DEF Ended
<1>7. CASE Raise(t)
  <2>0. SetStatus(tasks[t].run, "failed") \/ UNCHANGED runs
    BY <1>7, Zenon DEF Raise
  <2>1. \/ runs' = runs
        \/ RunEnded(tasks[t].run) /\ runs'[tasks[t].run].status = "failed"
    BY <1>4, <2>0, Zenon
  <2>2. tasks[t].pc # "enumerate"
    BY <1>7 DEF Raise
  <2>3. QED
    BY <1>1, <1>2, <1>3, <2>1, <2>2 DEF Ended
<1>8. QED
  BY <1>5, <1>6, <1>7

\* Every step is of one of the kinds.
LEMMA Shapes ==
    ASSUME SweepAssumption, TypeOK, [Next]_vars
    PROVE  \/ \E t \in Tasks, fn \in Kinds, r \in RunIds : Created(t, fn, r)
           \/ \E t \in Tasks : Begun(t) \/ Worked(t) \/ Ended(t)
           \/ Crash
           \/ Still
<1>1. CASE start_baseline
  <2> PICK t \in Tasks, r \in RunIds :
         /\ \/ get_active_sweep_run("baseline", r) /\ UNCHANGED runs
            \/ NoActive("baseline") /\ NextRunId(r) /\ create_sweep_run("baseline", r)
         /\ Launch(t, "baseline", r)
    BY <1>1 DEF start_baseline
  <2>1. Relaunched("baseline", r) \/ NewRun("baseline", r)
    BY CreateNew DEF get_active_sweep_run, Relaunched
  <2>2. Created(t, "baseline", r)
    BY <1>1, <2>1, LaunchCreates DEF start_baseline
  <2>3. QED
    BY <2>2
<1>2. CASE start_sweep
  <2>1. CASE UNCHANGED <<runs, tasks, shared, launches>>
    BY <1>2, <2>1 DEF start_sweep, Still
  <2>2. CASE \E t \in Tasks, r \in RunIds :
               /\ NextRunId(r) /\ create_sweep_run("anti_drift", r)
               /\ Launch(t, "anti_drift", r)
    <3> PICK t \in Tasks, r \in RunIds :
               /\ NextRunId(r) /\ create_sweep_run("anti_drift", r)
               /\ Launch(t, "anti_drift", r)
      BY <2>2
    <3>1. Created(t, "anti_drift", r)
      BY <1>2, CreateNew, LaunchCreates DEF start_sweep
    <3>2. QED
      BY <3>1
  <2>3. QED
    BY <1>2, <2>1, <2>2 DEF start_sweep
<1>3. CASE \E t \in Tasks : Begin(t)
  BY <1>3, BeginBegins
<1>4. CASE \E t \in Tasks :
             (\E k \in Keys : Fetch(t, k) \/ FetchFails(t, k)) \/ Store(t) \/ Count(t)
  BY <1>4, WorkWorks
<1>5. CASE \E t \in Tasks : EnumerateFails(t) \/ Finish(t) \/ Raise(t)
  BY <1>5, EndEnds
<1>6. CASE \E k \in Keys : AdminChange(k)
  BY <1>6 DEF AdminChange, Still
<1>7. CASE Restart
  BY <1>7 DEF Restart, Still
<1>8. CASE UNCHANGED vars
  BY <1>8 DEF vars, Still
<1>9. QED
  BY <1>1, <1>2, <1>3, <1>4, <1>5, <1>6, <1>7, <1>8 DEF Next, TaskStep, TaskFault

\* A task is created.
LEMMA CreatedRuns ==
    ASSUME SweepAssumption, TypeOK, TypeOK', RunInv,
           NEW t \in Tasks, NEW fn \in Kinds, NEW r \in RunIds, Created(t, fn, r)
    PROVE  RunInv'
<1>0. /\ tasks \in [Tasks -> Task] /\ tasks' \in [Tasks -> Task]
      /\ launches \in [RunIds -> Nat] /\ shared \in SUBSET RunIds
      /\ \A u \in Tasks : tasks[u].run \in RunIds /\ tasks'[u].run \in RunIds
      /\ \A q \in RunIds : launches[q] \in Nat
  BY DEF TypeOK, Task
<1>1. /\ DownIdle /\ AliveExists /\ FreshRuns /\ RowsCounted /\ SharedCounted
      /\ OneTask /\ AliveRunning /\ DriftUnshared
  BY DEF RunInv
<1>2. /\ up /\ up' = up /\ obs' = obs
      /\ tasks[t].pc = "idle" /\ tasks'[t].pc = "enumerate" /\ tasks'[t].run = r
      /\ \A u \in Tasks : u # t => tasks'[u] = tasks[u]
      /\ launches'[r] = launches[r] + 1
      /\ \A q \in RunIds : q # r => launches'[q] = launches[q]
  BY DEF Created, OtherTasks
<1>3. /\ \A q \in shared' : q \in shared \/ (q = r /\ \E u \in Tasks : Alive(u, r))
      /\ shared \subseteq shared'
      /\ r \notin shared' => ~\E u \in Tasks : Alive(u, r)
  <2>1. shared' = shared \cup IF \E u \in Tasks : Alive(u, r) THEN {r} ELSE {}
    BY DEF Created
  <2>2. CASE \E u \in Tasks : Alive(u, r)
    BY <2>1, <2>2
  <2>3. CASE ~\E u \in Tasks : Alive(u, r)
    BY <2>1, <2>3
  <2>4. QED
    BY <2>2, <2>3
<1>4. \A q \in RunIds : q # r => runs'[q] = runs[q]
  BY DEF Created, Relaunched, NewRun, OtherRuns
<1>5. runs'[r].status \in {"queued", "running"}
  BY DEF Created, Relaunched, NewRun, Active
<1>6. DownIdle'
  BY <1>2 DEF DownIdle
<1>7. AliveExists'
  <2> SUFFICES ASSUME NEW u \in Tasks, tasks'[u].pc # "idle"
               PROVE  runs'[tasks'[u].run].status # "none"
    BY DEF AliveExists
  <2>1. CASE tasks'[u].run = r
    BY <1>5, <2>1
  <2>2. CASE tasks'[u].run # r
    <3>1. u # t /\ tasks'[u] = tasks[u] /\ tasks[u].run \in RunIds
      BY <1>0, <1>2, <2>2
    <3>2. runs[tasks[u].run].status # "none"
      BY <1>1, <3>1 DEF AliveExists
    <3>3. QED
      BY <1>4, <2>2, <3>1, <3>2
  <2>3. QED
    BY <2>1, <2>2
<1>8. FreshRuns'
  <2> SUFFICES ASSUME NEW q \in RunIds
               PROVE  runs'[q].status = "none" <=> launches'[q] = 0
    BY DEF FreshRuns
  <2>1. CASE q = r
    <3>1. launches'[q] # 0
      BY <1>0, <1>2, <2>1
    <3>2. QED
      BY <1>5, <2>1, <3>1
  <2>2. CASE q # r
    BY <1>1, <1>2, <1>4, <2>2 DEF FreshRuns
  <2>3. QED
    BY <2>1, <2>2
<1>9. RowsCounted'
  <2>1. ASSUME NEW q \in RunIds, launches[q] >= 1
        PROVE  launches'[q] >= 1
    <3>1. launches[q] \in Nat
      BY <1>0
    <3>2. launches'[q] = launches[q] \/ launches'[q] = launches[q] + 1
      BY <1>2
    <3>3. QED
      BY <2>1, <3>1, <3>2
  <2>2. QED
    BY <1>1, <1>2, <2>1 DEF RowsCounted
<1>10. SharedCounted'
  <2> SUFFICES ASSUME NEW q \in shared' PROVE launches'[q] >= 2
    BY DEF SharedCounted
  <2>1. CASE q \in shared
    BY <1>0, <1>1, <1>2, <2>1 DEF SharedCounted
  <2>2. CASE q = r /\ \E u \in Tasks : Alive(u, r)
    <3>1. runs[r].status # "none"
      BY <1>1, <2>2 DEF AliveExists, Alive
    <3>2. launches[r] # 0
      BY <1>1, <3>1 DEF FreshRuns
    <3>3. QED
      BY <1>0, <1>2, <2>2, <3>2
  <2>3. QED
    BY <1>3, <2>1, <2>2
<1>11. OneTask'
  <2> SUFFICES ASSUME NEW u \in Tasks, NEW w \in Tasks,
                      tasks'[u].pc # "idle", tasks'[w].pc # "idle",
                      tasks'[u].run = tasks'[w].run, tasks'[u].run \notin shared'
               PROVE  u = w
    BY DEF OneTask
  <2>1. CASE u # t /\ w # t
    BY <1>1, <1>2, <1>3, <2>1 DEF OneTask
  <2>2. CASE u = t \/ w = t
    BY <1>2, <1>3, <2>2 DEF Alive
  <2>3. QED
    BY <2>1, <2>2
<1>12. AliveRunning'
  <2> SUFFICES ASSUME NEW u \in Tasks, tasks'[u].pc # "idle", tasks'[u].run \notin shared'
               PROVE  /\ runs'[tasks'[u].run].status \in {"queued", "running"}
                      /\ tasks'[u].pc # "enumerate" => runs'[tasks'[u].run].status = "running"
    BY DEF AliveRunning, Active
  <2>1. CASE u = t
    BY <1>2, <1>5, <2>1
  <2>2. CASE u # t
    <3>1. tasks'[u] = tasks[u] /\ tasks[u].run \in RunIds /\ tasks[u].run # r
      BY <1>0, <1>2, <1>3, <2>2 DEF Alive
    <3>2. tasks[u].run \notin shared
      BY <1>3, <3>1
    <3>3. runs'[tasks[u].run] = runs[tasks[u].run]
      BY <1>4, <3>1
    <3>4. QED
      BY <1>1, <3>1, <3>2, <3>3 DEF AliveRunning, Active
  <2>3. QED
    BY <2>1, <2>2
<1>13. DriftUnshared'
  <2> SUFFICES ASSUME NEW q \in RunIds, runs'[q].kind = "anti_drift"
               PROVE  q \notin shared'
    BY DEF DriftUnshared
  <2>1. CASE q # r
    BY <1>1, <1>3, <1>4, <2>1 DEF DriftUnshared
  <2>2. CASE q = r
    <3>1. CASE Relaunched(fn, r)
      BY <2>2, <3>1 DEF Relaunched
    <3>2. CASE NewRun(fn, r)
      <4>1. ~\E u \in Tasks : Alive(u, r)
        BY <1>1, <3>2 DEF NewRun, AliveExists, Alive
      <4>2. launches[r] = 0
        BY <1>1, <3>2 DEF NewRun, FreshRuns
      <4>3. r \notin shared
        BY <1>1, <4>2 DEF SharedCounted
      <4>4. QED
        BY <1>3, <2>2, <4>1, <4>3
    <3>3. QED
      BY <3>1, <3>2 DEF Created
  <2>3. QED
    BY <2>1, <2>2
<1>14. QED
  BY <1>6, <1>7, <1>8, <1>9, <1>10, <1>11, <1>12, <1>13 DEF RunInv

\* A task begins, works or ends: what it does to its run it does alone.
LEMMA TaskRuns ==
    ASSUME SweepAssumption, TypeOK, TypeOK', RunInv, NEW t \in Tasks,
           UNCHANGED <<up, shared, launches>>,
           tasks[t].pc # "idle", OtherTasks(t), OtherRuns(tasks[t].run),
           runs'[tasks[t].run].status # "none",
           runs'[tasks[t].run].kind = runs[tasks[t].run].kind,
           \/ tasks'[t].pc = "idle"
           \/ /\ tasks'[t].pc # "enumerate" /\ tasks'[t].run = tasks[t].run
              /\ \/ runs'[tasks[t].run].status = "running"
                 \/ /\ tasks[t].pc # "enumerate"
                    /\ runs'[tasks[t].run].status = runs[tasks[t].run].status,
           \A i \in DOMAIN obs' : \/ obs'[i].run = tasks[t].run
                                  \/ i \in DOMAIN obs /\ obs'[i] = obs[i]
    PROVE  RunInv'
<1> DEFINE r == tasks[t].run
<1>0. /\ r \in RunIds
      /\ \A u \in Tasks : tasks[u].run \in RunIds /\ tasks'[u].run \in RunIds
      /\ \A q \in RunIds : launches[q] \in Nat
  BY DEF TypeOK, Task
<1>1. /\ DownIdle /\ AliveExists /\ FreshRuns /\ RowsCounted /\ SharedCounted
      /\ OneTask /\ AliveRunning /\ DriftUnshared
  BY DEF RunInv
<1>2. /\ \A u \in Tasks : u # t => tasks'[u] = tasks[u]
      /\ \A q \in RunIds : q # r => runs'[q] = runs[q]
  BY DEF OtherTasks, OtherRuns
<1>3. \A u \in Tasks : tasks'[u].pc # "idle" => tasks[u].pc # "idle" /\ tasks'[u].run = tasks[u].run
  BY <1>2
<1>4. runs[r].status # "none"
  BY <1>1 DEF AliveExists
<1>5. DownIdle'
  BY <1>1, <1>3 DEF DownIdle
<1>6. AliveExists'
  BY <1>0, <1>1, <1>2, <1>3 DEF AliveExists
<1>7. FreshRuns'
  BY <1>1, <1>2, <1>4 DEF FreshRuns
<1>8. RowsCounted'
  <2>1. launches[r] # 0
    BY <1>0, <1>1, <1>4 DEF FreshRuns
  <2>2. launches[r] >= 1
    BY <1>0, <2>1
  <2>3. QED
    BY <1>0, <1>1, <2>2 DEF RowsCounted
<1>9. SharedCounted'
  BY <1>1 DEF SharedCounted
<1>10. OneTask'
  BY <1>1, <1>3 DEF OneTask
<1>11. AliveRunning'
  <2> SUFFICES ASSUME NEW u \in Tasks, tasks'[u].pc # "idle", tasks'[u].run \notin shared
               PROVE  /\ runs'[tasks'[u].run].status \in {"queued", "running"}
                      /\ tasks'[u].pc # "enumerate" => runs'[tasks'[u].run].status = "running"
    BY DEF AliveRunning, Active
  <2>1. CASE u = t
    BY <1>1, <1>3, <2>1 DEF AliveRunning, Active
  <2>2. CASE u # t
    <3>1. tasks'[u] = tasks[u] /\ tasks[u].pc # "idle" /\ tasks[u].run \in RunIds
      BY <1>0, <1>2, <2>2
    <3>2. tasks[u].run # r
      BY <1>1, <2>2, <3>1 DEF OneTask
    <3>3. runs'[tasks[u].run] = runs[tasks[u].run]
      BY <1>2, <3>1, <3>2
    <3>4. QED
      BY <1>1, <3>1, <3>3 DEF AliveRunning, Active
  <2>3. QED
    BY <2>1, <2>2
<1>12. DriftUnshared'
  BY <1>1, <1>2 DEF DriftUnshared
<1>13. QED
  BY <1>5, <1>6, <1>7, <1>8, <1>9, <1>10, <1>11, <1>12 DEF RunInv

\* The rows that Store adds are rows of the task's run.
LEMMA StoreAdds ==
    ASSUME SweepAssumption, TypeInv, NEW t \in Tasks, Store(t)
    PROVE  /\ \A i \in DOMAIN obs : i \in DOMAIN obs' /\ obs'[i] = obs[i]
           /\ \A i \in DOMAIN obs' : i \notin DOMAIN obs =>
                obs'[i].run = tasks[t].run /\ obs'[i].key = tasks[t].key
           /\ \A i, j \in DOMAIN obs' : i \notin DOMAIN obs /\ j \notin DOMAIN obs => i = j
           /\ \E i \in DOMAIN obs' : obs'[i].key = tasks[t].key
<1> DEFINE row == [key |-> tasks[t].key, hash |-> tasks[t].resp,
                   source |-> SourceEvent(t), run |-> tasks[t].run, event |-> NoEvent]
<1>1. obs \in Seq(Row) /\ row \in Row
  BY StoreRowType DEF TypeInv, TypeOK, InFlight, Store
<1>2. obs' = insert_observation_if_changed(obs, row)
  BY DEF Store
<1>3. row.run = tasks[t].run /\ row.key = tasks[t].key
  OBVIOUS
<1> HIDE DEF row
<1>4. /\ \A i \in DOMAIN obs : i \in DOMAIN obs' /\ obs'[i] = obs[i]
      /\ \A i \in DOMAIN obs' : i \notin DOMAIN obs => obs'[i] = row
  BY <1>1, <1>2, InsertRows
<1>5. \A i, j \in DOMAIN obs' : i \notin DOMAIN obs /\ j \notin DOMAIN obs => i = j
  <2>1. /\ Len(obs') \in Nat /\ Len(obs) \in Nat
        /\ DOMAIN obs = 1 .. Len(obs) /\ DOMAIN obs' = 1 .. Len(obs')
        /\ Len(obs') = Len(obs) \/ Len(obs') = Len(obs) + 1
    BY <1>1, <1>2, InsertShape
  <2>2. \A m, n \in Nat : m = n \/ m = n + 1 =>
          \A i \in 1 .. m : i \notin 1 .. n => i = m
    OBVIOUS
  <2>3. QED
    BY <2>1, <2>2
<1>6. \E i \in DOMAIN obs' : obs'[i].key = row.key
  BY <1>1, <1>2, InsertObserves
<1>7. QED
  BY <1>3, <1>4, <1>5, <1>6

\* The rows that a working task adds are rows of its run.
LEMMA WorkAdds ==
    ASSUME SweepAssumption, TypeInv, NEW t \in Tasks, Worked(t)
    PROVE  \A i \in DOMAIN obs' : \/ obs'[i].run = tasks[t].run
                                  \/ i \in DOMAIN obs /\ obs'[i] = obs[i]
<1>1. CASE Store(t)
  BY <1>1, StoreAdds
<1>2. CASE obs' = obs
  BY <1>2
<1>3. QED
  BY <1>1, <1>2 DEF Worked, Fetch, FetchFails, Count

\* What is said of tasks and runs outlives every step.
LEMMA RunStep ==
    ASSUME SweepAssumption, TypeInv, RunInv, [Next]_vars
    PROVE  RunInv'
<1>0. /\ TypeOK /\ TypeOK'
      /\ \A u \in Tasks : tasks[u].run \in RunIds /\ tasks'[u].run \in RunIds
  <2>1. TypeOK /\ TypeOK'
    BY TypeInvStep DEF TypeInv
  <2>2. QED
    BY <2>1 DEF TypeOK, Task
<1>1. /\ DownIdle /\ AliveExists /\ FreshRuns /\ RowsCounted /\ SharedCounted
      /\ OneTask /\ AliveRunning /\ DriftUnshared
  BY DEF RunInv
<1>2. CASE \E t \in Tasks, fn \in Kinds, r \in RunIds : Created(t, fn, r)
  BY <1>0, <1>2, CreatedRuns
<1>3. CASE \E t \in Tasks : Begun(t)
  <2> PICK t \in Tasks : Begun(t)
    BY <1>3
  <2>1. /\ UNCHANGED <<up, shared, launches>> /\ obs' = obs
        /\ tasks[t].pc # "idle" /\ OtherTasks(t) /\ OtherRuns(tasks[t].run)
        /\ runs'[tasks[t].run].status = "running"
        /\ runs'[tasks[t].run].kind = runs[tasks[t].run].kind
        /\ tasks'[t].pc # "enumerate" /\ tasks'[t].run = tasks[t].run
    BY DEF Begun
  <2>2. QED
    BY <1>0, <2>1, TaskRuns
<1>4. CASE \E t \in Tasks : Worked(t)
  <2> PICK t \in Tasks : Worked(t)
    BY <1>4
  <2>1. /\ UNCHANGED <<up, shared, launches>>
        /\ tasks[t].pc # "idle" /\ OtherTasks(t) /\ OtherRuns(tasks[t].run)
        /\ runs'[tasks[t].run].status = runs[tasks[t].run].status
        /\ runs'[tasks[t].run].kind = runs[tasks[t].run].kind
        /\ tasks[t].pc # "enumerate"
        /\ tasks'[t].pc # "enumerate" /\ tasks'[t].run = tasks[t].run
    BY DEF Worked
  <2>2. runs[tasks[t].run].status # "none"
    BY <1>1, <2>1 DEF AliveExists
  <2>3. QED
    BY <1>0, <2>1, <2>2, WorkAdds, TaskRuns
<1>5. CASE \E t \in Tasks : Ended(t)
  <2> PICK t \in Tasks : Ended(t)
    BY <1>5
  <2>1. /\ UNCHANGED <<up, shared, launches>> /\ obs' = obs
        /\ tasks[t].pc # "idle" /\ OtherTasks(t) /\ tasks'[t].pc = "idle"
        /\ runs' = runs \/ RunEnded(tasks[t].run)
    BY DEF Ended
  <2>2. runs[tasks[t].run].status # "none"
    BY <1>1, <2>1 DEF AliveExists
  <2>3. /\ runs'[tasks[t].run].status # "none"
        /\ runs'[tasks[t].run].kind = runs[tasks[t].run].kind
        /\ OtherRuns(tasks[t].run)
    BY <2>1, <2>2 DEF RunEnded, OtherRuns
  <2>4. QED
    BY <1>0, <2>1, <2>3, TaskRuns
<1>6. CASE Crash
  <2>1. /\ \A t \in Tasks : tasks'[t].pc = "idle"
        /\ UNCHANGED <<obs, runs, shared, launches>>
    BY <1>6 DEF Crash, Idle, NewTask
  <2>2. /\ DownIdle' /\ AliveExists' /\ OneTask' /\ AliveRunning'
    BY <2>1 DEF DownIdle, AliveExists, OneTask, AliveRunning
  <2>3. /\ FreshRuns' /\ RowsCounted' /\ SharedCounted' /\ DriftUnshared'
    BY <1>1, <2>1 DEF FreshRuns, RowsCounted, SharedCounted, DriftUnshared
  <2>4. QED
    BY <2>2, <2>3 DEF RunInv
<1>7. CASE Still
  <2>1. DownIdle' /\ AliveExists' /\ OneTask' /\ AliveRunning'
    BY <1>1, <1>7 DEF Still, DownIdle, AliveExists, OneTask, AliveRunning, Active
  <2>2. FreshRuns' /\ RowsCounted' /\ SharedCounted' /\ DriftUnshared'
    BY <1>1, <1>7 DEF Still, FreshRuns, RowsCounted, SharedCounted, DriftUnshared
  <2>3. QED
    BY <2>1, <2>2 DEF RunInv
<1>8. QED
  BY <1>0, <1>2, <1>3, <1>4, <1>5, <1>6, <1>7, Shapes

\* It holds in every reachable state.
LEMMA RunInvariant == Spec => [](TypeInv /\ RunInv)
<1>1. Init => TypeInv /\ RunInv
  <2> SUFFICES ASSUME Init PROVE TypeInv /\ RunInv
    OBVIOUS
  <2>1. \A t \in Tasks : tasks[t].pc = "idle"
    BY DEF Init, Idle, NewTask
  <2>2. /\ DownIdle /\ AliveExists /\ FreshRuns /\ RowsCounted /\ SharedCounted
        /\ OneTask /\ AliveRunning /\ DriftUnshared
    BY <2>1 DEF Init, DownIdle, AliveExists, FreshRuns, RowsCounted, SharedCounted,
                OneTask, AliveRunning, DriftUnshared
  <2>3. QED
    BY <2>2, SweepAssumption, TypeInvInit DEF RunInv
<1>2. TypeInv /\ RunInv /\ [Next]_vars => (TypeInv /\ RunInv)'
  BY SweepAssumption, TypeInvStep, RunStep
<1>3. QED
  BY <1>1, <1>2, PTL DEF Spec

-----------------------------------------------------------------------------
(***************************************************************************)
(* Finished runs, resumption, and the lifecycle of the anti-drift runs.    *)
(***************************************************************************)

\* A finished run that never had two tasks at once keeps its row for ever: a
\* task that changes a row is alive, and finds it queued or running.
THEOREM FinishedFinal == Spec => FinishedRunsAreFinal
<1>1. TypeInv /\ RunInv /\ [Next]_vars =>
        [\A r \in RunIds : Finished(r) /\ r \notin shared' => runs'[r] = runs[r]]_vars
  <2> SUFFICES ASSUME TypeInv, RunInv, [Next]_vars,
                      NEW r \in RunIds, Finished(r), r \notin shared'
               PROVE  runs'[r] = runs[r]
    OBVIOUS
  <2>0. TypeOK /\ AliveRunning /\ SweepAssumption
    BY SweepAssumption DEF TypeInv, RunInv
  <2>1. r \notin shared
    <3>1. \/ UNCHANGED shared
          \/ \E t \in Tasks, fn \in Kinds, q \in RunIds : Created(t, fn, q)
      BY <2>0, Shapes DEF Begun, Worked, Ended, Crash, Still
    <3>2. QED
      BY <3>1 DEF Created
  <2>2. \A t \in Tasks : tasks[t].pc # "idle" => tasks[t].run # r
    BY <2>0, <2>1 DEF AliveRunning, Active, Finished
  <2>3. ASSUME NEW t \in Tasks, NEW fn \in Kinds, NEW q \in RunIds, Created(t, fn, q)
        PROVE  runs'[r] = runs[r]
    BY <2>3 DEF Created, Relaunched, NewRun, OtherRuns, Finished
  <2>4. ASSUME NEW t \in Tasks, Begun(t) \/ Worked(t) \/ Ended(t)
        PROVE  runs'[r] = runs[r]
    BY <2>2, <2>4 DEF Begun, Worked, Ended, RunEnded, OtherRuns
  <2>5. QED
    BY <2>0, <2>3, <2>4, Shapes DEF Crash, Still
<1>2. QED
  BY <1>1, RunInvariant, PTL DEF Spec, FinishedRunsAreFinal

\* The state of the anti-drift rows, as SweepLifecycle sees it.
DriftStatus ==
    [r \in RunIds |-> IF runs[r].kind = "anti_drift" THEN runs[r].status ELSE "none"]

\* A step that changes the status of one anti-drift row changes that of the
\* abstract one in the same way.
LEMMA DriftStatusSet ==
    ASSUME NEW r \in RunIds, OtherRuns(r), runs'[r].kind = "anti_drift"
    PROVE  DriftStatus' = [DriftStatus EXCEPT ![r] = runs'[r].status]
BY DEF DriftStatus, OtherRuns

\* The abstract lifecycle sees kinds and statuses only.
LEMMA DriftStatusKept ==
    ASSUME \A r \in RunIds : /\ runs'[r].kind = runs[r].kind
                             /\ runs'[r].status = runs[r].status
    PROVE  DriftStatus' = DriftStatus
BY DEF DriftStatus

\* An anti-drift row is created when no anti-drift row is active.
LEMMA DriftCreated ==
    ASSUME SweepAssumption, TypeOK, [Next]_vars,
           NEW t \in Tasks, NEW r \in RunIds, Created(t, "anti_drift", r)
    PROVE  /\ \A s \in RunIds : ~AntiDrift!Active(s)
           /\ \A s \in RunIds : s >= r => DriftStatus[s] = "none"
<1>0. tasks[t].pc = "idle" /\ tasks'[t].pc = "enumerate" /\ tasks'[t].run = r
      /\ tasks'[t].fn = "anti_drift"
  BY DEF Created
<1>1. start_sweep
  <2>1. ASSUME start_baseline PROVE FALSE
    <3> PICK u \in Tasks, q \in RunIds : Launch(u, "baseline", q)
      BY <2>1 DEF start_baseline
    <3>1. tasks'[u].fn = "baseline" /\ \A w \in Tasks : w # u => tasks'[w] = tasks[w]
      BY LaunchEffect
    <3>2. QED
      BY <1>0, <3>1
  <2>2. ASSUME NEW u \in Tasks, Begun(u) \/ Worked(u) \/ Ended(u) PROVE FALSE
    <3>1. tasks[u].pc # "idle" /\ \A w \in Tasks : w # u => tasks'[w] = tasks[w]
      BY <2>2 DEF Begun, Worked, Ended, OtherTasks
    <3>2. QED
      BY <1>0, <3>1
  <2>3. ASSUME NEW u \in Tasks, TaskStep(u) \/ TaskFault(u) PROVE FALSE
    BY <2>2, <2>3, BeginBegins, WorkWorks, EndEnds DEF TaskStep, TaskFault
  <2>4. ~Crash /\ ~Restart /\ ~UNCHANGED vars /\ ~\E k \in Keys : AdminChange(k)
    <3>1. ~Crash
      BY <1>0 DEF Crash, Idle, NewTask
    <3>2. tasks' # tasks
      BY <1>0
    <3>3. QED
      BY <3>1, <3>2 DEF vars, AdminChange, Restart
  <2>5. QED
    BY <2>1, <2>3, <2>4 DEF Next
<1>2. tasks' # tasks
  BY <1>0
<1>3. PICK u \in Tasks, q \in RunIds :
        /\ NoActive("anti_drift") /\ NextRunId(q) /\ Launch(u, "anti_drift", q)
  BY <1>1, <1>2 DEF start_sweep
<1>4. /\ tasks'[u].run = q /\ \A w \in Tasks : w # u => tasks'[w] = tasks[w]
  BY <1>3, LaunchEffect
<1>5. q = r
  BY <1>0, <1>4
<1>6. \A s \in RunIds : s >= r => runs[s].status = "none"
  BY <1>3, <1>5 DEF NextRunId
<1>7. \A s \in RunIds : DriftStatus[s] # "none" => ~Active(s) /\ DriftStatus[s] = runs[s].status
  BY <1>3 DEF DriftStatus, NoActive
<1>8. \A s \in RunIds : ~AntiDrift!Active(s)
  <2>1. \A s \in RunIds : DriftStatus[s] \notin {"queued", "running"}
    BY <1>7 DEF Active
  <2>2. QED
    BY <2>1 DEF AntiDrift!Active, DriftStatus
<1>9. QED
  BY <1>6, <1>8 DEF DriftStatus

\* Every step of the sweeps is a step of the lifecycle, or none.
LEMMA LifecycleStep ==
    ASSUME SweepAssumption, TypeInv, RunInv, [Next]_vars
    PROVE  [AntiDrift!Next]_DriftStatus
<1>0. /\ TypeOK /\ FreshRuns /\ AliveExists /\ AliveRunning /\ DriftUnshared
      /\ \A t \in Tasks : tasks[t].run \in RunIds
  <2>1. TypeOK
    BY DEF TypeInv
  <2>2. QED
    BY <2>1 DEF RunInv, TypeOK, Task
<1>1. ASSUME NEW t \in Tasks, NEW fn \in Kinds, NEW r \in RunIds, Created(t, fn, r)
      PROVE  [AntiDrift!Next]_DriftStatus
  <2>1. CASE Relaunched(fn, r)
    BY <2>1, DriftStatusKept DEF Relaunched
  <2>2. CASE NewRun(fn, r) /\ fn = "anti_drift"
    <3>1. DriftStatus' = [DriftStatus EXCEPT ![r] = "queued"]
      BY <2>2, DriftStatusSet DEF NewRun
    <3>2. /\ \A s \in RunIds : ~AntiDrift!Active(s)
          /\ \A s \in RunIds : s >= r => DriftStatus[s] = "none"
      BY <1>0, <1>1, <2>2, DriftCreated
    <3>3. AntiDrift!Queue(r)
      BY <3>1, <3>2 DEF AntiDrift!Queue, DriftStatus
    <3>4. QED
      BY <3>3 DEF AntiDrift!Next
  <2>3. CASE NewRun(fn, r) /\ fn = "baseline"
    <3>1. runs[r].status = "none" /\ runs'[r].kind = "baseline" /\ OtherRuns(r)
      BY <2>3 DEF NewRun
    <3>2. \A q \in RunIds : DriftStatus'[q] = DriftStatus[q]
      BY <3>1 DEF DriftStatus, OtherRuns
    <3>3. DriftStatus' = DriftStatus
      BY <3>2 DEF DriftStatus
    <3>4. QED
      BY <3>3
  <2>4. QED
    BY <1>1, <2>1, <2>2, <2>3 DEF Created
<1>2. ASSUME NEW t \in Tasks, Begun(t)
      PROVE  [AntiDrift!Next]_DriftStatus
  <2> DEFINE r == tasks[t].run
  <2>0. /\ r \in RunIds /\ tasks[t].pc = "enumerate" /\ OtherRuns(r)
        /\ runs'[r].status = "running" /\ runs'[r].kind = runs[r].kind
    BY <1>0, <1>2 DEF Begun
  <2>1. CASE runs[r].kind # "anti_drift"
    <3>1. \A q \in RunIds : DriftStatus'[q] = DriftStatus[q]
      BY <2>0, <2>1 DEF DriftStatus, OtherRuns
    <3>2. QED
      BY <3>1 DEF DriftStatus
  <2>2. CASE runs[r].kind = "anti_drift"
    <3>1. r \notin shared
      BY <1>0, <2>0, <2>2 DEF DriftUnshared
    <3>2. runs[r].status \in {"queued", "running"}
      BY <1>0, <2>0, <3>1 DEF AliveRunning, Active
    <3>3. DriftStatus' = [DriftStatus EXCEPT ![r] = "running"] /\ DriftStatus[r] = runs[r].status
      BY <2>0, <2>2, DriftStatusSet DEF DriftStatus
    <3>4. CASE runs[r].status = "queued"
      BY <2>0, <3>3, <3>4 DEF AntiDrift!Next, AntiDrift!Start, DriftStatus
    <3>5. CASE runs[r].status = "running"
      BY <2>0, <3>3, <3>5 DEF DriftStatus
    <3>6. QED
      BY <3>2, <3>4, <3>5
  <2>3. QED
    BY <2>1, <2>2
<1>3. ASSUME NEW t \in Tasks, Worked(t)
      PROVE  [AntiDrift!Next]_DriftStatus
  <2>1. \A q \in RunIds : runs'[q].kind = runs[q].kind /\ runs'[q].status = runs[q].status
    BY <1>0, <1>3 DEF Worked, OtherRuns
  <2>2. QED
    BY <2>1, DriftStatusKept
<1>4. ASSUME NEW t \in Tasks, Ended(t)
      PROVE  [AntiDrift!Next]_DriftStatus
  <2> DEFINE r == tasks[t].run
  <2>0. r \in RunIds /\ tasks[t].pc # "idle"
    BY <1>0, <1>4 DEF Ended
  <2>1. CASE runs' = runs
    BY <2>1, DriftStatusKept
  <2>2. CASE RunEnded(r) /\ tasks[t].pc # "enumerate" /\ runs[r].kind # "anti_drift"
    <3>1. \A q \in RunIds : DriftStatus'[q] = DriftStatus[q]
      BY <2>0, <2>2 DEF DriftStatus, RunEnded, OtherRuns
    <3>2. QED
      BY <3>1 DEF DriftStatus
  <2>3. CASE RunEnded(r) /\ tasks[t].pc # "enumerate" /\ runs[r].kind = "anti_drift"
    <3>1. r \notin shared
      BY <1>0, <2>0, <2>3 DEF DriftUnshared
    <3>2. runs[r].status = "running"
      BY <1>0, <2>0, <2>3, <3>1 DEF AliveRunning
    <3>3. /\ DriftStatus' = [DriftStatus EXCEPT ![r] = runs'[r].status]
          /\ DriftStatus[r] = "running" /\ runs'[r].status \in {"complete", "failed"}
      BY <2>0, <2>3, <3>2, DriftStatusSet DEF DriftStatus, RunEnded
    <3>4. PICK q \in RunIds : q = r
      BY <2>0
    <3>5. AntiDrift!End(q)
      BY <3>3, <3>4 DEF AntiDrift!End, DriftStatus
    <3>6. QED
      BY <3>5 DEF AntiDrift!Next
  <2>4. QED
    BY <1>4, <2>1, <2>2, <2>3 DEF Ended
<1>5. CASE runs' = runs
  BY <1>5, DriftStatusKept
<1>6. QED
  BY <1>0, <1>1, <1>2, <1>3, <1>4, <1>5, Shapes DEF Crash, Still

\* The sweeps implement SweepLifecycle for the anti-drift rows: a row is queued
\* when no other is queued or running, it runs once, and is not reopened.
THEOREM DriftLifecycle == Spec => AntiDriftLifecycle
<1>1. Init => AntiDrift!Init
  BY DEF Init, AntiDrift!Init
<1>2. TypeInv /\ RunInv /\ [Next]_vars => [AntiDrift!Next]_DriftStatus
  BY SweepAssumption, LifecycleStep
<1>3. QED
  BY <1>1, <1>2, RunInvariant, PTL DEF Spec, AntiDriftLifecycle, AntiDrift!Spec, DriftStatus

-----------------------------------------------------------------------------
(***************************************************************************)
(* What a run has covered.  Rows stay, failed calls stay counted, and what *)
(* a task has neither observed nor failed is in its todo.                  *)
(***************************************************************************)

\* What a task has still to pull, has failed to pull, or is observed.
CoverInv ==
    \A t \in Tasks : tasks[t].pc \in {"pull", "reply"} =>
        \/ \A k \in Keys : k \in tasks[t].todo \/ Observed(k)
        \/ tasks[t].bad > 0
        \/ runs[tasks[t].run].failed > 0

\* What is observed stays observed: no row is ever removed.
LEMMA ObservedStays ==
    ASSUME SweepAssumption, TypeInv, [Next]_vars, NEW k, Observed(k)
    PROVE  Observed(k)'
<1>1. \A i \in DOMAIN obs : i \in DOMAIN obs' /\ obs'[i] = obs[i]
  BY OnlyStoreAddsRows, StoreAdds
<1>2. QED
  BY <1>1 DEF Observed

\* The failed calls of a run are never forgotten.
LEMMA FailedStays ==
    ASSUME SweepAssumption, TypeOK, [Next]_vars, NEW r \in RunIds,
           runs[r].status # "none", runs[r].failed > 0
    PROVE  runs'[r].failed > 0
<1>1. ASSUME NEW t \in Tasks, Worked(t)
      PROVE  runs'[r].failed > 0
  <2>1. CASE Count(t)
    <3>1. tasks[t].bad \in Nat /\ runs[r].failed \in Nat
      BY DEF TypeOK, Task, Run
    <3>2. \A m, n \in Nat : m > 0 => m + n > 0
      OBVIOUS
    <3>3. CASE r = tasks[t].run
      BY <2>1, <3>1, <3>2, <3>3, CountEffect
    <3>4. CASE r # tasks[t].run
      BY <1>1, <3>4 DEF Worked, OtherRuns
    <3>5. QED
      BY <3>3, <3>4
  <2>2. CASE runs' = runs
    BY <2>2
  <2>3. QED
    BY <1>1, <2>1, <2>2 DEF Worked, Fetch, FetchFails, Store
<1>2. ASSUME NEW t \in Tasks, Begun(t) \/ Ended(t)
      PROVE  runs'[r].failed > 0
  BY <1>2 DEF Begun, Ended, RunEnded, OtherRuns
<1>3. ASSUME NEW t \in Tasks, NEW fn \in Kinds, NEW q \in RunIds, Created(t, fn, q)
      PROVE  runs'[r].failed > 0
  BY <1>3 DEF Created, Relaunched, NewRun, OtherRuns
<1>4. QED
  BY <1>1, <1>2, <1>3, Shapes DEF Crash, Still

\* What a working task does to its share of the jobs.
LEMMA WorkCovers ==
    ASSUME SweepAssumption, TypeInv, RunInv, CoverInv, [Next]_vars,
           NEW t \in Tasks, Worked(t)
    PROVE  \/ \A k \in Keys : k \in tasks'[t].todo \/ Observed(k)'
           \/ tasks'[t].bad > 0
           \/ runs'[tasks[t].run].failed > 0
<1>0. /\ TypeOK /\ tasks[t].run \in RunIds /\ tasks[t].bad \in Nat
      /\ runs[tasks[t].run].failed \in Nat /\ runs[tasks[t].run].status # "none"
      /\ tasks[t].pc \in {"pull", "reply"}
  BY DEF TypeInv, TypeOK, Task, Run, RunInv, AliveExists, Worked
<1>1. CASE runs[tasks[t].run].failed > 0
  BY <1>0, <1>1, FailedStays
<1>2. CASE tasks[t].bad > 0
  <2>1. CASE Count(t)
    <3>1. runs'[tasks[t].run].failed = runs[tasks[t].run].failed + tasks[t].bad
      BY <1>0, <2>1, CountEffect, Zenon
    <3>2. QED
      BY <1>0, <1>2, <3>1
  <2>2. CASE Store(t)
    BY <1>0, <1>2, <2>2, StoreEffect
  <2>3. ASSUME NEW k \in Keys, Fetch(t, k) \/ FetchFails(t, k)
        PROVE  tasks'[t].bad > 0
    BY <1>0, <1>2, <2>3, FetchEffect, FetchFailsEffect
  <2>4. QED
    BY <2>1, <2>2, <2>3 DEF Worked
<1>3. CASE \A k \in Keys : k \in tasks[t].todo \/ Observed(k)
  <2>1. \A k \in Keys : k \in tasks[t].todo \/ Observed(k)'
    BY <1>3, ObservedStays
  <2>2. CASE Count(t)
    BY <1>0, <2>1, <2>2, CountTaskEffect
  <2>3. CASE Store(t)
    <3>1. \A k \in Keys : k = tasks[t].key => Observed(k)'
      BY <2>3, StoreAdds DEF Observed
    <3>2. QED
      BY <1>0, <2>1, <2>3, <3>1, StoreEffect
  <2>4. ASSUME NEW k \in Keys, Fetch(t, k)
        PROVE  \A j \in Keys : j \in tasks'[t].todo \/ Observed(j)'
    BY <1>0, <2>1, <2>4, FetchEffect
  <2>5. ASSUME NEW k \in Keys, FetchFails(t, k)
        PROVE  tasks'[t].bad > 0
    <3>1. \A n \in Nat : n + 1 > 0
      OBVIOUS
    <3>2. QED
      BY <1>0, <2>5, <3>1, FetchFailsEffect
  <2>6. QED
    BY <2>2, <2>3, <2>4, <2>5 DEF Worked
<1>4. QED
  BY <1>0, <1>1, <1>2, <1>3 DEF CoverInv

\* No step loses an endpoint: what leaves the todo is observed or has failed.
LEMMA CoverStep ==
    ASSUME SweepAssumption, TypeInv, RunInv, CoverInv, [Next]_vars
    PROVE  CoverInv'
<1>0. TypeOK /\ TypeOK' /\ AliveExists
  BY TypeInvStep DEF TypeInv, RunInv
<1> SUFFICES ASSUME NEW u \in Tasks, tasks'[u].pc \in {"pull", "reply"}
             PROVE  \/ \A k \in Keys : k \in tasks'[u].todo \/ Observed(k)'
                    \/ tasks'[u].bad > 0
                    \/ runs'[tasks'[u].run].failed > 0
  BY DEF CoverInv
\* A task that does not move keeps what it has.
<1>1. CASE tasks'[u] = tasks[u]
  <2>1. tasks[u].run \in RunIds /\ runs[tasks[u].run].status # "none"
    BY <1>0, <1>1 DEF AliveExists, TypeOK, Task
  <2>2. runs[tasks[u].run].failed > 0 => runs'[tasks[u].run].failed > 0
    BY <1>0, <2>1, FailedStays
  <2>3. QED
    BY <1>1, <2>2, ObservedStays DEF CoverInv
<1>2. CASE Worked(u)
  BY <1>2, WorkCovers DEF Worked
<1>3. CASE Begun(u)
  <2>1. tasks'[u].todo = JobsLeft(u) /\ obs' = obs
    BY <1>3 DEF Begun
  <2>2. \A k \in Keys : k \in JobsLeft(u) \/ Observed(k)
    BY DEF JobsLeft, list_completed_entity_areas, Observed
  <2>3. \A k \in Keys : k \in tasks'[u].todo \/ Observed(k)'
    BY <2>1, <2>2, ObservedStays
  <2>4. QED
    BY <2>3
<1>4. ~Crash /\ ~Ended(u)
  BY DEF Crash, Idle, NewTask, Ended
<1>5. ASSUME NEW t \in Tasks, NEW fn \in Kinds, NEW r \in RunIds, Created(t, fn, r)
      PROVE  tasks'[u] = tasks[u]
  BY <1>5 DEF Created, OtherTasks
<1>6. ASSUME NEW t \in Tasks, t # u, Begun(t) \/ Worked(t) \/ Ended(t)
      PROVE  tasks'[u] = tasks[u]
  BY <1>6 DEF Begun, Worked, Ended, OtherTasks
<1>7. QED
  BY <1>0, <1>1, <1>2, <1>3, <1>4, <1>5, <1>6, Shapes DEF Still

\* A run is marked complete by a task that has nothing left to pull or count.
LEMMA CompleteStep ==
    ASSUME SweepAssumption, TypeInv, RunInv, CoverInv, CompleteRunsCovered, [Next]_vars
    PROVE  CompleteRunsCovered'
<1>0. TypeOK /\ TypeOK'
  BY TypeInvStep DEF TypeInv
<1> SUFFICES ASSUME NEW r \in RunIds, runs'[r].status = "complete", runs'[r].failed = 0
             PROVE  \A k \in Keys : Observed(k)
  BY ObservedStays DEF CompleteRunsCovered
<1>1. CASE runs[r].status = "complete"
  <2>1. ~(runs[r].failed > 0)
    BY <1>0, <1>1, FailedStays
  <2>2. runs[r].failed = 0
    <3>1. runs[r].failed \in Nat
      BY <1>0 DEF TypeOK, Run
    <3>2. \A n \in Nat : ~(n > 0) => n = 0
      OBVIOUS
    <3>3. QED
      BY <2>1, <3>1, <3>2
  <2>3. QED
    BY <1>1, <2>2 DEF CompleteRunsCovered
<1>2. CASE \E t \in Tasks : Finish(t) /\ tasks[t].run = r
  <2> PICK t \in Tasks : Finish(t) /\ tasks[t].run = r
    BY <1>2
  <2>1. /\ tasks[t].pc = "pull" /\ tasks[t].todo = {} /\ tasks[t].ok + tasks[t].bad = 0
        /\ tasks[t].ok \in Nat /\ tasks[t].bad \in Nat
    BY <1>0 DEF Finish, Uncounted, TypeOK, Task
  <2>2. ~(tasks[t].bad > 0)
    <3>1. \A m, n \in Nat : m + n = 0 => ~(n > 0)
      OBVIOUS
    <3>2. QED
      BY <2>1, <3>1
  <2>3. runs'[r].failed = runs[r].failed
    BY <1>0, SetStatusEffect DEF Finish
  <2>4. QED
    BY <2>1, <2>2, <2>3 DEF CoverInv
<1>3. ASSUME runs[r].status # "complete"
      PROVE  \E t \in Tasks : Finish(t) /\ tasks[t].run = r
  <2>1. ASSUME NEW t \in Tasks, Begun(t) \/ Worked(t)
        PROVE  FALSE
    BY <1>3, <2>1 DEF Begun, Worked, OtherRuns
  <2>2. ASSUME NEW t \in Tasks, NEW fn \in Kinds, NEW q \in RunIds, Created(t, fn, q)
        PROVE  FALSE
    BY <1>3, <2>2 DEF Created, Relaunched, NewRun, OtherRuns
  <2>3. ASSUME NEW t \in Tasks, Ended(t)
        PROVE  Finish(t) /\ tasks[t].run = r
    BY <1>3, <2>3 DEF Ended, RunEnded, OtherRuns
  <2>4. QED
    BY <1>0, <1>3, <2>1, <2>2, <2>3, Shapes DEF Crash, Still
<1>4. QED
  BY <1>1, <1>2, <1>3

-----------------------------------------------------------------------------
(***************************************************************************)
(* One row per job.  A run that was never shared has one task at a time,   *)
(* and what is left to it has no row of the run yet.                       *)
(***************************************************************************)

NoRows(r, jobs) == \A i \in DOMAIN obs : obs[i].run = r => obs[i].key \notin jobs

\* The task of a run that was never shared has no row yet of a job that is left
\* to it, and none at all before its enumeration if it will skip none.
JobsInv ==
    \A t \in Tasks : tasks[t].run \notin shared =>
        /\ tasks[t].pc \in {"pull", "reply"} => NoRows(tasks[t].run, tasks[t].todo)
        /\ tasks[t].pc = "enumerate" /\ tasks[t].fn = "anti_drift"
             => NoRows(tasks[t].run, Keys)

\* Rows are added by the task of their run only.
LEMMA NoRowsStays ==
    ASSUME SweepAssumption, TypeInv, RunInv, [Next]_vars,
           NEW u \in Tasks, tasks[u].pc # "idle", tasks[u].run \notin shared,
           tasks'[u] = tasks[u], NEW jobs, NoRows(tasks[u].run, jobs)
    PROVE  \A i \in DOMAIN obs' : obs'[i].run = tasks[u].run => obs'[i].key \notin jobs
<1>1. CASE obs' = obs
  BY <1>1 DEF NoRows
<1>2. CASE \E t \in Tasks : Store(t)
  <2> PICK t \in Tasks : Store(t)
    BY <1>2
  <2>1. tasks[t].pc = "reply" /\ tasks'[t].pc = "pull"
    BY StoreEffect DEF Store, TypeInv
  <2>2. t # u
    BY <2>1
  <2>3. tasks[t].run # tasks[u].run
    BY <2>1, <2>2 DEF RunInv, OneTask
  <2>4. QED
    BY <2>3, StoreAdds DEF NoRows
<1>3. QED
  BY <1>1, <1>2, OnlyStoreAddsRows

\* A run that has had no task has no rows.
LEMMA FreshNoRows ==
    ASSUME RunInv, NEW r \in RunIds, runs[r].status = "none"
    PROVE  NoRows(r, Keys) /\ launches[r] = 0
<1>1. launches[r] = 0
  BY DEF RunInv, FreshRuns
<1>2. \A i \in DOMAIN obs : obs[i].run # r
  BY <1>1 DEF RunInv, RowsCounted
<1>3. QED
  BY <1>1, <1>2 DEF NoRows

\* The jobs a working task has left have no row of its run.
LEMMA WorkJobs ==
    ASSUME SweepAssumption, TypeInv, NEW t \in Tasks, Worked(t),
           NoRows(tasks[t].run, tasks[t].todo)
    PROVE  \A i \in DOMAIN obs' : obs'[i].run = tasks[t].run => obs'[i].key \notin tasks'[t].todo
<1>0. TypeOK
  BY DEF TypeInv
<1>1. CASE Store(t)
  <2>1. tasks'[t].todo = tasks[t].todo \ {tasks[t].key}
    BY <1>0, <1>1, StoreEffect
  <2>2. QED
    BY <1>1, <2>1, StoreAdds DEF NoRows
<1>2. CASE Count(t)
  <2>1. tasks'[t].todo = tasks[t].todo /\ obs' = obs
    BY <1>0, <1>2, CountTaskEffect DEF Count
  <2>2. QED
    BY <2>1 DEF NoRows
<1>3. ASSUME NEW k \in Keys, Fetch(t, k) \/ FetchFails(t, k)
      PROVE  tasks'[t].todo \subseteq tasks[t].todo /\ obs' = obs
  <2>1. CASE Fetch(t, k)
    BY <1>0, <2>1, FetchEffect DEF Fetch
  <2>2. CASE FetchFails(t, k)
    BY <1>0, <2>2, FetchFailsEffect DEF FetchFails
  <2>3. QED
    BY <1>3, <2>1, <2>2
<1>4. QED
  BY <1>1, <1>2, <1>3 DEF Worked, NoRows

\* What moves a given task.
LEMMA Moves ==
    ASSUME SweepAssumption, TypeOK, [Next]_vars, NEW u \in Tasks, tasks'[u].pc # "idle"
    PROVE  \/ tasks'[u] = tasks[u]
           \/ Begun(u)
           \/ Worked(u)
           \/ \E fn \in Kinds, r \in RunIds : Created(u, fn, r)
<1>1. ~Crash /\ ~Ended(u)
  BY DEF Crash, Idle, NewTask, Ended
<1>2. ASSUME NEW t \in Tasks, NEW fn \in Kinds, NEW r \in RunIds, Created(t, fn, r), t # u
      PROVE  tasks'[u] = tasks[u]
  BY <1>2 DEF Created, OtherTasks
<1>3. ASSUME NEW t \in Tasks, t # u, Begun(t) \/ Worked(t) \/ Ended(t)
      PROVE  tasks'[u] = tasks[u]
  BY <1>3 DEF Begun, Worked, Ended, OtherTasks
<1>4. QED
  BY <1>1, <1>2, <1>3, Shapes DEF Still

\* A run that was shared once counts as shared for ever.
LEMMA SharedGrows ==
    ASSUME SweepAssumption, TypeOK, [Next]_vars
    PROVE  shared \subseteq shared'
<1>1. ASSUME NEW t \in Tasks, NEW fn \in Kinds, NEW q \in RunIds, Created(t, fn, q)
      PROVE  shared \subseteq shared'
  BY <1>1 DEF Created
<1>2. QED
  BY <1>1, Shapes DEF Begun, Worked, Ended, Crash, Still

\* No step leaves a task a job that its run has stored: the enumeration skips
\* those, and a job is dropped when it is stored.
LEMMA JobsStep ==
    ASSUME SweepAssumption, TypeInv, RunInv, JobsInv, [Next]_vars
    PROVE  JobsInv'
<1>0. TypeOK /\ TypeOK' /\ shared \subseteq shared'
  BY TypeInvStep, SharedGrows DEF TypeInv
<1> SUFFICES ASSUME NEW u \in Tasks, tasks'[u].run \notin shared', tasks'[u].pc # "idle"
             PROVE  /\ tasks'[u].pc \in {"pull", "reply"} =>
                         NoRows(tasks[u].run, tasks[u].todo)'
                    /\ tasks'[u].pc = "enumerate" /\ tasks'[u].fn = "anti_drift" =>
                         NoRows(tasks[u].run, Keys)'
  BY DEF JobsInv
<1>1. CASE tasks'[u] = tasks[u]
  <2>1. tasks[u].pc # "idle" /\ tasks[u].run \notin shared
    BY <1>0, <1>1
  <2>2. QED
    BY <1>1, <2>1, NoRowsStays DEF JobsInv, NoRows
<1>2. CASE Begun(u)
  <2>1. /\ tasks[u].pc = "enumerate" /\ tasks'[u].pc = "pull"
        /\ tasks'[u].todo = JobsLeft(u) /\ tasks'[u].run = tasks[u].run
        /\ obs' = obs /\ tasks[u].run \notin shared
    BY <1>0, <1>2 DEF Begun
  <2>2. CASE tasks[u].fn = "baseline"
    BY <2>1, <2>2 DEF JobsLeft, list_completed_entity_areas, NoRows
  <2>3. CASE tasks[u].fn = "anti_drift"
    BY <2>1, <2>3 DEF JobsLeft, JobsInv, NoRows
  <2>4. QED
    BY <1>0, <2>2, <2>3 DEF TypeOK, Task
<1>3. CASE Worked(u)
  <2>1. /\ tasks[u].pc \in {"pull", "reply"} /\ tasks'[u].pc \in {"pull", "reply"}
        /\ tasks'[u].run = tasks[u].run /\ tasks[u].run \notin shared
    BY <1>0, <1>3 DEF Worked
  <2>2. NoRows(tasks[u].run, tasks[u].todo)
    BY <2>1 DEF JobsInv
  <2>3. QED
    BY <1>3, <2>1, <2>2, WorkJobs DEF NoRows
<1>4. ASSUME NEW fn \in Kinds, NEW r \in RunIds, Created(u, fn, r)
      PROVE  tasks'[u].pc = "enumerate" /\ (fn = "anti_drift" => NoRows(tasks[u].run, Keys)')
             /\ tasks'[u].fn = fn
  <2>1. /\ tasks'[u].pc = "enumerate" /\ tasks'[u].fn = fn /\ tasks'[u].run = r /\ obs' = obs
        /\ Relaunched(fn, r) \/ NewRun(fn, r)
    BY <1>4 DEF Created
  <2>2. fn = "anti_drift" => runs[r].status = "none"
    BY <2>1 DEF Relaunched, NewRun
  <2>3. QED
    BY <2>1, <2>2, FreshNoRows DEF NoRows
<1>5. QED
  BY <1>0, <1>1, <1>2, <1>3, <1>4, Moves

\* A run that was never shared does not get a second row for a job.
LEMMA OneRowStep ==
    ASSUME SweepAssumption, TypeInv, JobsInv, OneRowPerJob, [Next]_vars
    PROVE  OneRowPerJob'
<1>0. shared \subseteq shared'
  BY SharedGrows DEF TypeInv
<1>1. CASE obs' = obs
  BY <1>0, <1>1 DEF OneRowPerJob
<1>2. CASE \E t \in Tasks : Store(t)
  <2> PICK t \in Tasks : Store(t)
    BY <1>2
  <2>1. tasks[t].pc = "reply" /\ tasks[t].key \in tasks[t].todo
    BY DEF Store, TypeInv, InFlight
  <2>2. tasks[t].run \notin shared =>
          \A i \in DOMAIN obs : obs[i].run = tasks[t].run => obs[i].key # tasks[t].key
    BY <2>1 DEF JobsInv, NoRows
  <2>3. QED
    BY <1>0, <2>2, StoreAdds DEF OneRowPerJob
<1>3. QED
  BY <1>1, <1>2, OnlyStoreAddsRows

ResumptionInv == CoverInv /\ JobsInv /\ CompleteRunsCovered /\ OneRowPerJob

\* Resumptions are exact in every reachable state.
LEMMA ResumptionInvariant == Spec => [](TypeInv /\ RunInv /\ ResumptionInv)
<1>1. Init => ResumptionInv
  <2> SUFFICES ASSUME Init PROVE ResumptionInv
    OBVIOUS
  <2>1. \A t \in Tasks : tasks[t].pc = "idle"
    BY DEF Init, Idle, NewTask
  <2>2. obs = <<>> /\ \A r \in RunIds : runs[r].status = "none"
    BY DEF Init
  <2>3. QED
    BY <2>1, <2>2 DEF ResumptionInv, CoverInv, JobsInv, CompleteRunsCovered, OneRowPerJob
<1>2. TypeInv /\ RunInv /\ ResumptionInv /\ [Next]_vars => ResumptionInv'
  BY SweepAssumption, CoverStep, JobsStep, CompleteStep, OneRowStep DEF ResumptionInv
<1>3. QED
  BY <1>1, <1>2, RunInvariant, PTL DEF Spec

\* A resumption skips what its run had stored and nothing else: a run complete
\* without a failed call has left no endpoint unobserved, and a run that never
\* had two tasks at once has at most one row for each job.
THEOREM Resumptions == Spec => []ResumptionIsExact
<1>1. ResumptionInv => ResumptionIsExact
  BY DEF ResumptionInv, ResumptionIsExact
<1>2. QED
  BY <1>1, ResumptionInvariant, PTL

-----------------------------------------------------------------------------
(***************************************************************************)
(* Counters.  A run with one task ever is that task's alone, so what the   *)
(* row has, what the task has not counted and what it has left add up.     *)
(***************************************************************************)

\* What has been counted, is to be counted and is left to do.
JobSum(t) ==
    runs[tasks[t].run].completed + runs[tasks[t].run].failed
      + tasks[t].ok + tasks[t].bad + Cardinality(tasks[t].todo)

Untouched(t) ==
    /\ NoRows(tasks[t].run, Keys)
    /\ tasks[t].ok = 0 /\ tasks[t].bad = 0
    /\ runs[tasks[t].run].completed = 0 /\ runs[tasks[t].run].failed = 0

\* The only task a run ever had finds the run untouched, and then what it has
\* counted, will count and has left to do adds up to the number of the jobs.
CountInv ==
    \A t \in Tasks : launches[tasks[t].run] = 1 =>
        /\ tasks[t].pc = "enumerate" => Untouched(t)
        /\ tasks[t].pc \in {"pull", "reply"} => JobSum(t) = Cardinality(Keys)

\* The jobs left are finitely many, and one less when one is done.
LEMMA TodoCard ==
    ASSUME SweepAssumption, TypeOK, NEW t \in Tasks
    PROVE  /\ IsFiniteSet(tasks[t].todo) /\ Cardinality(tasks[t].todo) \in Nat
           /\ \A k \in tasks[t].todo :
                Cardinality(tasks[t].todo \ {k}) = Cardinality(tasks[t].todo) - 1
<1>1. tasks[t].todo \subseteq Keys /\ IsFiniteSet(Keys)
  BY DEF TypeOK, Task, SweepAssumption
<1>2. IsFiniteSet(tasks[t].todo)
  BY <1>1, FS_Subset
<1>3. QED
  BY <1>2, FS_CardinalityType, FS_RemoveElement

\* A working task keeps the sum.
LEMMA WorkSum ==
    ASSUME SweepAssumption, TypeInv, NEW t \in Tasks, Worked(t)
    PROVE  JobSum(t)' = JobSum(t)
<1> DEFINE c == runs[tasks[t].run].completed
           f == runs[tasks[t].run].failed
           o == tasks[t].ok
           b == tasks[t].bad
           n == Cardinality(tasks[t].todo)
<1>0. /\ TypeOK /\ tasks[t].run \in RunIds /\ tasks'[t].run = tasks[t].run
      /\ c \in Nat /\ f \in Nat /\ o \in Nat /\ b \in Nat /\ n \in Nat
  <2>1. n \in Nat
    BY TodoCard DEF TypeInv
  <2>2. QED
    BY <2>1 DEF TypeInv, TypeOK, Task, Run, Worked
<1>1. JobSum(t) = c + f + o + b + n
  BY DEF JobSum
<1>2. CASE Store(t)
  <2>1. tasks[t].key \in tasks[t].todo /\ runs' = runs
    BY <1>2 DEF TypeInv, InFlight, Store
  <2>2. Cardinality(tasks'[t].todo) = n - 1
    <3>1. tasks'[t].todo = tasks[t].todo \ {tasks[t].key}
      BY <1>0, <1>2, StoreEffect, Zenon
    <3>2. QED
      BY <1>0, <2>1, <3>1, TodoCard
  <2>3. tasks'[t].ok = o + 1 /\ tasks'[t].bad = b
    BY <1>0, <1>2, StoreEffect
  <2>4. JobSum(t)' = c + f + (o + 1) + b + (n - 1)
    BY <1>0, <2>1, <2>2, <2>3 DEF JobSum
  <2> HIDE DEF c, f, o, b, n
  <2>5. QED
    BY <1>0, <1>1, <2>4
<1>3. CASE Count(t)
  <2>1. Cardinality(tasks'[t].todo) = n /\ tasks'[t].ok = 0 /\ tasks'[t].bad = 0
    BY <1>0, <1>3, CountTaskEffect
  <2>2. runs'[tasks[t].run].completed = c + o /\ runs'[tasks[t].run].failed = f + b
    BY <1>0, <1>3, CountEffect
  <2>3. JobSum(t)' = (c + o) + (f + b) + 0 + 0 + n
    BY <1>0, <2>1, <2>2 DEF JobSum
  <2> HIDE DEF c, f, o, b, n
  <2>4. QED
    BY <1>0, <1>1, <2>3
<1>4. ASSUME NEW k \in Keys, Fetch(t, k)
      PROVE  JobSum(t)' = JobSum(t)
  <2>1. runs' = runs
    BY <1>4 DEF Fetch
  <2>2. tasks'[t].todo = tasks[t].todo /\ tasks'[t].ok = o /\ tasks'[t].bad = b
    BY <1>0, <1>4, FetchEffect
  <2>3. QED
    BY <1>0, <2>1, <2>2 DEF JobSum
<1>5. ASSUME NEW k \in Keys, FetchFails(t, k)
      PROVE  JobSum(t)' = JobSum(t)
  <2>1. runs' = runs /\ k \in tasks[t].todo
    BY <1>5 DEF FetchFails
  <2>2. tasks'[t].todo = tasks[t].todo \ {k} /\ tasks'[t].ok = o /\ tasks'[t].bad = b + 1
    BY <1>0, <1>5, FetchFailsEffect
  <2>3. Cardinality(tasks'[t].todo) = n - 1
    BY <1>0, <2>1, <2>2, TodoCard
  <2>4. JobSum(t)' = c + f + o + (b + 1) + (n - 1)
    BY <1>0, <2>1, <2>2, <2>3 DEF JobSum
  <2> HIDE DEF c, f, o, b, n
  <2>5. QED
    BY <1>0, <1>1, <2>4
<1>6. QED
  BY <1>2, <1>3, <1>4, <1>5 DEF Worked

\* A run that one task ever had is not shared.
LEMMA AloneUnshared ==
    ASSUME RunInv, TypeOK, NEW r \in RunIds, launches[r] = 1
    PROVE  r \notin shared
BY DEF RunInv, SharedCounted

\* While its task rests, a run that only this task ever had stays as it is.
LEMMA AloneRunStays ==
    ASSUME SweepAssumption, TypeInv, RunInv, [Next]_vars, NEW u \in Tasks,
           tasks'[u] = tasks[u], tasks[u].pc # "idle", ~Worked(u),
           launches'[tasks[u].run] = 1
    PROVE  launches[tasks[u].run] = 1 /\ runs'[tasks[u].run] = runs[tasks[u].run]
<1> DEFINE r == tasks[u].run
<1>0. TypeOK /\ r \in RunIds /\ launches[r] \in Nat
  BY DEF TypeInv, TypeOK, Task
<1>1. launches[r] # 0
  BY <1>0 DEF RunInv, AliveExists, FreshRuns
<1>2. ASSUME NEW t \in Tasks, NEW fn \in Kinds, NEW q \in RunIds, Created(t, fn, q)
      PROVE  launches[r] = 1 /\ runs'[r] = runs[r]
  <2>1. r # q
    <3>1. \A n \in Nat : n # 0 => n + 1 # 1
      OBVIOUS
    <3>2. r = q => launches'[r] = launches[r] + 1
      BY <1>2 DEF Created
    <3>3. QED
      BY <1>0, <1>1, <3>1, <3>2
  <2>2. QED
    BY <1>0, <1>2, <2>1 DEF Created, Relaunched, NewRun, OtherRuns
<1>3. ASSUME NEW t \in Tasks, Begun(t) \/ Worked(t) \/ Ended(t)
      PROVE  launches[r] = 1 /\ runs'[r] = runs[r]
  <2>1. launches' = launches /\ tasks[t].pc # "idle" /\ t # u
    BY <1>3 DEF Begun, Worked, Ended
  <2>2. launches[r] = 1 /\ r \notin shared
    BY <1>0, <2>1, AloneUnshared
  <2>3. r # tasks[t].run
    BY <1>0, <2>1, <2>2 DEF RunInv, OneTask
  <2>4. OtherRuns(tasks[t].run) \/ runs' = runs
    BY <1>3 DEF Begun, Worked, Ended, RunEnded
  <2>5. QED
    BY <1>0, <2>2, <2>3, <2>4 DEF OtherRuns
<1>4. ~Crash
  BY DEF Crash, Idle, NewTask
<1>5. QED
  BY <1>0, <1>2, <1>3, <1>4, Shapes DEF Still

\* The sum of a run with one task is kept by every step.
LEMMA CountStep ==
    ASSUME SweepAssumption, TypeInv, RunInv, CountInv, [Next]_vars
    PROVE  CountInv'
<1>0. TypeOK /\ TypeOK' /\ RunInv'
  BY TypeInvStep, RunStep DEF TypeInv
<1> SUFFICES ASSUME NEW u \in Tasks, launches'[tasks'[u].run] = 1, tasks'[u].pc # "idle"
             PROVE  /\ tasks'[u].pc = "enumerate" => Untouched(u)'
                    /\ tasks'[u].pc \in {"pull", "reply"} => JobSum(u)' = Cardinality(Keys)
  BY DEF CountInv
<1>1. CASE Worked(u)
  <2>1. /\ tasks[u].pc \in {"pull", "reply"} /\ tasks'[u].pc \in {"pull", "reply"}
        /\ launches[tasks[u].run] = 1
    BY <1>1 DEF Worked
  <2>2. JobSum(u) = Cardinality(Keys)
    BY <2>1 DEF CountInv
  <2>3. QED
    BY <1>1, <2>1, <2>2, WorkSum
<1>2. CASE tasks'[u] = tasks[u] /\ ~Worked(u)
  <2>1. /\ launches[tasks[u].run] = 1 /\ runs'[tasks[u].run] = runs[tasks[u].run]
        /\ tasks[u].pc # "idle"
    BY <1>2, AloneRunStays
  <2>2. tasks[u].run \in RunIds /\ tasks[u].run \notin shared
    BY <1>0, <2>1, AloneUnshared DEF TypeOK, Task
  <2>3. tasks[u].pc = "enumerate" => Untouched(u)'
    <3>1. SUFFICES ASSUME tasks[u].pc = "enumerate" PROVE Untouched(u)'
      OBVIOUS
    <3>2. Untouched(u)
      BY <2>1, <3>1 DEF CountInv
    <3>3. NoRows(tasks[u].run, Keys)'
      BY <1>2, <2>1, <2>2, <3>2, NoRowsStays DEF Untouched, NoRows
    <3>4. QED
      BY <1>2, <2>1, <3>2, <3>3 DEF Untouched
  <2>4. tasks[u].pc \in {"pull", "reply"} => JobSum(u)' = Cardinality(Keys)
    <3>1. JobSum(u)' = JobSum(u)
      BY <1>2, <2>1 DEF JobSum
    <3>2. QED
      BY <2>1, <3>1 DEF CountInv
  <2>5. QED
    BY <1>2, <2>3, <2>4
<1>3. CASE Begun(u)
  <2>1. /\ tasks[u].pc = "enumerate" /\ launches[tasks[u].run] = 1
        /\ tasks'[u].pc = "pull" /\ tasks'[u].run = tasks[u].run
        /\ tasks'[u].todo = JobsLeft(u)
        /\ tasks'[u].ok = tasks[u].ok /\ tasks'[u].bad = tasks[u].bad
        /\ runs'[tasks[u].run].completed = runs[tasks[u].run].completed
        /\ runs'[tasks[u].run].failed = runs[tasks[u].run].failed
    BY <1>3 DEF Begun
  <2>2. Untouched(u)
    BY <2>1 DEF CountInv
  <2>3. JobsLeft(u) = Keys
    BY <2>2 DEF Untouched, NoRows, JobsLeft, list_completed_entity_areas
  <2>4. JobSum(u)' = 0 + 0 + 0 + 0 + Cardinality(Keys)
    BY <2>1, <2>2, <2>3 DEF JobSum, Untouched
  <2>5. Cardinality(Keys) \in Nat
    BY FS_CardinalityType DEF SweepAssumption
  <2>6. JobSum(u)' = Cardinality(Keys)
    BY <2>4, <2>5
  <2>7. QED
    BY <2>1, <2>6
<1>4. ASSUME NEW fn \in Kinds, NEW r \in RunIds, Created(u, fn, r)
      PROVE  tasks'[u].pc = "enumerate" /\ Untouched(u)'
  <2>1. /\ tasks'[u].pc = "enumerate" /\ tasks'[u].run = r /\ obs' = obs
        /\ tasks'[u].ok = 0 /\ tasks'[u].bad = 0
        /\ launches'[r] = launches[r] + 1 /\ launches'[r] = 1
        /\ Relaunched(fn, r) \/ NewRun(fn, r)
    BY <1>4 DEF Created
  <2>2. runs[r].status = "none"
    <3>1. launches[r] \in Nat
      BY <1>0 DEF TypeOK
    <3>2. launches[r] = 0
      BY <2>1, <3>1
    <3>3. QED
      BY <3>2 DEF RunInv, FreshRuns
  <2>3. runs'[r].completed = 0 /\ runs'[r].failed = 0
    BY <2>1, <2>2 DEF Relaunched, Active, NewRun
  <2>4. NoRows(r, Keys)
    BY <2>2, FreshNoRows
  <2>5. QED
    BY <2>1, <2>3, <2>4 DEF Untouched, NoRows
<1>5. QED
  BY <1>0, <1>1, <1>2, <1>3, <1>4, Moves

\* When the only task of a run finishes, everything is counted.
LEMMA CountersStep ==
    ASSUME SweepAssumption, TypeInv, RunInv, CountInv, CountersAddUp, [Next]_vars
    PROVE  CountersAddUp'
<1>0. TypeOK /\ TypeOK'
  BY TypeInvStep DEF TypeInv
<1> SUFFICES ASSUME NEW r \in RunIds, runs'[r].status = "complete", launches'[r] = 1
             PROVE  runs'[r].completed + runs'[r].failed = Cardinality(Keys)
  BY DEF CountersAddUp
<1>1. CASE \E t \in Tasks : Finish(t) /\ tasks[t].run = r
  <2> PICK t \in Tasks : Finish(t) /\ tasks[t].run = r
    BY <1>1
  <2>1. /\ tasks[t].pc = "pull" /\ tasks[t].todo = {} /\ tasks[t].ok + tasks[t].bad = 0
        /\ tasks[t].ok \in Nat /\ tasks[t].bad \in Nat /\ launches[r] = 1
    BY <1>0 DEF Finish, Uncounted, TypeOK, Task
  <2>2. tasks[t].ok = 0 /\ tasks[t].bad = 0
    <3>1. \A m, n \in Nat : m + n = 0 => m = 0 /\ n = 0
      OBVIOUS
    <3>2. QED
      BY <2>1, <3>1
  <2>3. /\ runs'[r].completed = runs[r].completed /\ runs'[r].failed = runs[r].failed
        /\ runs[r].completed \in Nat /\ runs[r].failed \in Nat
    BY <1>0, SetStatusEffect DEF Finish, TypeOK, Run
  <2>4. JobSum(t) = Cardinality(Keys)
    BY <2>1 DEF CountInv
  <2>5. JobSum(t) = runs[r].completed + runs[r].failed + 0 + 0 + 0
    BY <2>1, <2>2, FS_EmptySet DEF JobSum
  <2>6. \A m, n \in Nat : m + n + 0 + 0 + 0 = m + n
    OBVIOUS
  <2>7. QED
    BY <2>3, <2>4, <2>5, <2>6
<1>2. CASE ~\E t \in Tasks : Finish(t) /\ tasks[t].run = r
  <2>1. ASSUME NEW t \in Tasks, NEW fn \in Kinds, NEW q \in RunIds, Created(t, fn, q)
        PROVE  runs'[r] = runs[r] /\ launches'[r] = launches[r]
    BY <2>1 DEF Created, Relaunched, NewRun, OtherRuns, Active
  <2>2. ASSUME NEW t \in Tasks, Begun(t) \/ Worked(t) \/ Ended(t)
        PROVE  runs'[r] = runs[r] /\ launches'[r] = launches[r]
    <3>1. launches' = launches /\ tasks[t].pc # "idle"
      BY <2>2 DEF Begun, Worked, Ended
    <3>2. CASE r # tasks[t].run
      BY <2>2, <3>1, <3>2 DEF Begun, Worked, Ended, RunEnded, OtherRuns
    <3>3. CASE r = tasks[t].run
      <4>1. r \notin shared
        BY <1>0, <3>1, AloneUnshared
      <4>2. runs[r].status # "complete"
        BY <3>1, <3>3, <4>1 DEF RunInv, AliveRunning, Active
      <4>3. Ended(t) /\ runs' = runs
        BY <1>2, <2>2, <3>3, <4>2 DEF Begun, Worked, Ended
      <4>4. QED
        BY <3>1, <4>3
    <3>4. QED
      BY <3>2, <3>3
  <2>3. runs'[r] = runs[r] /\ launches'[r] = launches[r]
    BY <1>0, <2>1, <2>2, Shapes DEF Crash, Still
  <2>4. QED
    BY <2>3 DEF CountersAddUp
<1>3. QED
  BY <1>1, <1>2

\* The counters of a run that one task carried from start to end add up to the
\* number of its jobs, however its chunks end and whichever calls fail.
THEOREM Counters == Spec => []CountersAddUp
<1>1. Init => CountInv /\ CountersAddUp
  <2> SUFFICES ASSUME Init PROVE CountInv /\ CountersAddUp
    OBVIOUS
  <2>1. \A t \in Tasks : tasks[t].pc = "idle"
    BY DEF Init, Idle, NewTask
  <2>2. \A r \in RunIds : runs[r].status = "none"
    BY DEF Init
  <2>3. QED
    BY <2>1, <2>2 DEF CountInv, CountersAddUp
<1>2. TypeInv /\ RunInv /\ CountInv /\ CountersAddUp /\ [Next]_vars
        => (CountInv /\ CountersAddUp)'
  BY SweepAssumption, CountStep, CountersStep
<1>3. QED
  BY <1>1, <1>2, RunInvariant, PTL DEF Spec
=============================================================================
