---------------------------- MODULE TargetedPulls ----------------------------
(***************************************************************************)
(* The targeted pulls of one organisation: the change-log poller           *)
(* (server/config_collector/change_log_poller.py) and the manual refreshes *)
(* (manual_refresh.py, routes/config.py), which both fetch, redact and     *)
(* store through pull_many, each on an SQLite connection of its own.       *)
(*                                                                         *)
(* Every other writer commits before its next await, so only the poller    *)
(* can hold the write lock of the database from one action to the next:    *)
(* an INSERT that fails on the UNIQUE constraint leaves the transaction it *)
(* opened, and the lock, until the poller's connection commits again.      *)
(*                                                                         *)
(* Time is counted in intervals of the poller.  An event is in the answer  *)
(* of the first poll after it; whether it is in a later one, POLLS at the  *)
(* most, depends on how long the polls take, and is left open.             *)
(***************************************************************************)
EXTENDS ConfigStore, FiniteSets

CONSTANTS Scopes,    (* what a refresh may ask for, as its set of jobs      *)
          Slots,     (* slots for the refreshes in flight at one time       *)
          AreaSets,  (* the job sets that change events are mapped to       *)
          POLLS,     (* timespan \div interval                              *)
          MaxDown,   (* bound: intervals the server is down at a time       *)
          None,
          Budgets    (* bounds: how often the external events may happen    *)

Events == {"start", "post", "crash", "change", "null", "miss", "fault"}

ASSUME PullAssumption ==
    /\ Scopes \subseteq (SUBSET Keys) \ {{}}
    /\ AreaSets \subseteq SUBSET Keys
    /\ POLLS \in Nat \ {0}
    /\ MaxDown \in Nat
    /\ None \notin Keys \cup Hashes \cup Scopes \cup Slots
    /\ Budgets \subseteq [Events -> Nat]

VARIABLES
    up,        \* the server process is running
    meraki,    \* the configuration behind each endpoint, as its hash
    clog,      \* Meraki's change log, oldest first
    age,       \* for each entry, the intervals since it was logged
    rows,      \* config_change_events: the entry each row holds
    obs,       \* config_observations
    poller,    \* the task of run_poller
    refreshes, \* the tasks of refresh_entity
    registry,  \* _active_refreshes
    lock,      \* the poller's connection holds the write lock
    budget     \* how often each external event may still happen

vars == <<up, meraki, clog, age, rows, obs, poller, refreshes, registry, lock, budget>>

\* An entry of the log has the key and hash of a change, the set of areas its
\* page maps to, and what its UNIQUE columns hold together: None when one of
\* them is NULL, which SQL holds distinct from every other.

\* batch is what the poll returned and has not inserted; cite is
\* change_id_by_key, with NoEvent for a key it lacks; todo the jobs left.
PollerAt(pc) == [pc |-> pc, batch |-> {}, cite |-> [k \in Keys |-> NoEvent],
                 todo |-> {}, key |-> None, resp |-> None]

NoRefresh == [scope |-> None, todo |-> {}, key |-> None, resp |-> None]

Init ==
    /\ up = TRUE
    /\ meraki \in [Keys -> Hashes]
    /\ clog = <<>> /\ age = <<>> /\ rows = <<>> /\ obs = <<>>
    /\ poller = PollerAt("off")
    /\ refreshes = [t \in Slots |-> NoRefresh]
    /\ registry = [s \in Scopes |-> None]
    /\ lock = FALSE
    /\ budget \in Budgets

Spend(e) ==
    /\ budget[e] > 0
    /\ budget' = [budget EXCEPT ![e] = @ - 1]

-----------------------------------------------------------------------------
(***************************************************************************)
(* The poller.                                                             *)
(***************************************************************************)

\* _poller_for_org makes the task of run_poller.  Its caller is outside of the
\* program as it is built, where budget["start"] is 0: main.py calls it from a
\* handler of the "startup" event, and an application with a lifespan has none.
StartPoller ==
    /\ up
    /\ poller.pc = "off"
    /\ Spend("start")
    /\ poller' = PollerAt("poll")
    /\ UNCHANGED <<up, meraki, clog, age, rows, obs, refreshes, registry, lock>>

\* The entries every answer holds, and those an answer may hold.
InWindow == {e \in DOMAIN clog : age[e] <= 1}
NearWindow == {e \in DOMAIN clog : age[e] <= POLLS}

\* get_org_configuration_changes returns.
Poll ==
    /\ poller.pc = "poll"
    /\ \E batch \in SUBSET NearWindow :
         /\ InWindow \subseteq batch
         /\ poller' = [PollerAt("insert") EXCEPT !.batch = batch]
    /\ UNCHANGED <<up, meraki, clog, age, rows, obs, refreshes, registry, lock, budget>>

\* It raises: the cycle is over.
PollFails ==
    /\ poller.pc = "poll"
    /\ Spend("miss")
    /\ poller' = PollerAt("sleep")
    /\ UNCHANGED <<up, meraki, clog, age, rows, obs, refreshes, registry, lock>>

Stored(e) == \E i \in DOMAIN rows : rows[i] = e

\* insert_change_event finds a row with the same UNIQUE columns, which leave
\* out the SSID and the page: that of e, or of another change of that second.
Duplicate(e) ==
    \E i \in DOMAIN rows :
        clog[rows[i]].columns = clog[e].columns /\ clog[e].columns # None

Duplicates == {e \in poller.batch : Duplicate(e)}

\* A slip: the row id is read before the insert.
InsertEventIdBefore(e) ==
    /\ poller.pc = "insert"
    /\ e \in poller.batch \ Duplicates
    /\ rows' = Append(rows, e)
    /\ lock' = FALSE
    /\ \E skipped \in SUBSET Duplicates :
         poller' = [poller EXCEPT
                      !.batch = poller.batch \ (skipped \cup {e}),
                      !.todo = poller.todo \cup clog[e].areas,
                      !.cite = [k \in Keys |->
                                  IF k \in clog[e].areas /\ poller.cite[k] = NoEvent
                                    THEN Len(rows) ELSE poller.cite[k]]]
    /\ UNCHANGED <<up, meraki, clog, age, obs, refreshes, registry, budget>>

\* The first new entry is inserted and committed, and reported; the skipped
\* duplicates came before it.  Its jobs are what _build_jobs_from_events makes
\* of it, an area already asked for keeping its first row id.
InsertEvent(e) ==
    /\ poller.pc = "insert"
    /\ e \in poller.batch \ Duplicates
    /\ rows' = Append(rows, e)
    /\ lock' = FALSE
    /\ \E skipped \in SUBSET Duplicates :
         poller' = [poller EXCEPT
                      !.batch = poller.batch \ (skipped \cup {e}),
                      !.todo = poller.todo \cup clog[e].areas,
                      !.cite = [k \in Keys |->
                                  IF k \in clog[e].areas /\ poller.cite[k] = NoEvent
                                    THEN Len(rows) + 1 ELSE poller.cite[k]]]
    /\ UNCHANGED <<up, meraki, clog, age, obs, refreshes, registry, budget>>

\* What is left of the batch are duplicates.  The failed INSERT of one leaves
\* the write lock with the poller.
InsertDone ==
    /\ poller.pc = "insert"
    /\ poller.batch = Duplicates
    /\ lock' = (lock \/ Duplicates # {})
    /\ poller' = [poller EXCEPT !.batch = {},
                                !.pc = IF poller.todo = {} THEN "sleep" ELSE "pull"]
    /\ UNCHANGED <<up, meraki, clog, age, rows, obs, refreshes, registry, budget>>

PullFetch(k) ==
    /\ poller.pc = "pull"
    /\ k \in poller.todo
    /\ poller' = [poller EXCEPT !.pc = "reply", !.key = k, !.resp = meraki[k]]
    /\ UNCHANGED <<up, meraki, clog, age, rows, obs, refreshes, registry, lock, budget>>

\* The poller without job k; it sleeps when that was the last one.
Without(k) ==
    IF poller.todo = {k}
      THEN PollerAt("sleep")
      ELSE [poller EXCEPT !.pc = "pull", !.todo = poller.todo \ {k},
                          !.key = None, !.resp = None]

PullFails(k) ==
    /\ poller.pc = "pull"
    /\ k \in poller.todo
    /\ Spend("miss")
    /\ poller' = Without(k)
    /\ UNCHANGED <<up, meraki, clog, age, rows, obs, refreshes, registry, lock>>

\* upsert_blob commits on the poller's connection before the row is compared.
PullStore ==
    /\ poller.pc = "reply"
    /\ obs' = insert_observation_if_changed(obs,
                 [key |-> poller.key, hash |-> poller.resp, source |-> "change_log",
                  run |-> NoRun, event |-> poller.cite[poller.key]])
    /\ poller' = Without(poller.key)
    /\ lock' = FALSE
    /\ UNCHANGED <<up, meraki, clog, age, rows, refreshes, registry, budget>>

\* redact raises: run_poller logs it, and the jobs left are dropped.
PullRaises ==
    /\ poller.pc = "reply"
    /\ Spend("fault")
    /\ poller' = PollerAt("sleep")
    /\ UNCHANGED <<up, meraki, clog, age, rows, obs, refreshes, registry, lock>>

\* n intervals later.  Ages above POLLS are not told apart.
Older(n) == [e \in DOMAIN clog |-> IF age[e] + n > POLLS THEN POLLS + 1 ELSE age[e] + n]

\* The interval is over.
Wake ==
    /\ poller.pc = "sleep"
    /\ poller' = PollerAt("poll")
    /\ age' = Older(1)
    /\ UNCHANGED <<up, meraki, clog, rows, obs, refreshes, registry, lock, budget>>

-----------------------------------------------------------------------------
(***************************************************************************)
(* The refreshes.                                                          *)
(***************************************************************************)

Running(t) == refreshes[t].scope # None

\* A slip: a second request pulls the same scope again.
InFlightNever(s) == FALSE

\* existing is not None and not existing.done()
InFlight(s) == registry[s] # None /\ refreshes[registry[s]].scope = s

\* POST /orgs/{org_id}/refresh
refresh_entity(s) ==
    /\ up
    /\ Spend("post")
    /\ \/ InFlight(s) /\ UNCHANGED <<refreshes, registry>>
       \/ /\ ~InFlight(s)
          /\ \E t \in Slots :
               /\ ~Running(t)
               /\ refreshes' = [refreshes EXCEPT ![t] =
                                   [NoRefresh EXCEPT !.scope = s, !.todo = s]]
               /\ registry' = [registry EXCEPT ![s] = t]
    /\ UNCHANGED <<up, meraki, clog, age, rows, obs, poller, lock>>

RefreshFetch(t, k) ==
    /\ refreshes[t].key = None
    /\ k \in refreshes[t].todo
    /\ refreshes' = [refreshes EXCEPT ![t] = [@ EXCEPT !.key = k, !.resp = meraki[k]]]
    /\ UNCHANGED <<up, meraki, clog, age, rows, obs, poller, registry, lock, budget>>

\* The finally of _run: the task ends and leaves the registry.
EndRefresh(t) ==
    /\ refreshes' = [refreshes EXCEPT ![t] = NoRefresh]
    /\ registry' = [registry EXCEPT ![refreshes[t].scope] = None]

\* Job k of the refresh in slot t is done; the task ends with its last job.
JobDone(t, k) ==
    IF refreshes[t].todo = {k}
      THEN EndRefresh(t)
      ELSE /\ refreshes' = [refreshes EXCEPT ![t] =
                               [@ EXCEPT !.todo = refreshes[t].todo \ {k},
                                         !.key = None, !.resp = None]]
           /\ UNCHANGED registry

RefreshFails(t, k) ==
    /\ refreshes[t].key = None
    /\ k \in refreshes[t].todo
    /\ Spend("miss")
    /\ JobDone(t, k)
    /\ UNCHANGED <<up, meraki, clog, age, rows, obs, poller, lock>>

RefreshStore(t) ==
    /\ refreshes[t].key # None
    /\ ~lock
    /\ obs' = insert_observation_if_changed(obs,
                 [key |-> refreshes[t].key, hash |-> refreshes[t].resp,
                  source |-> "manual_refresh", run |-> NoRun, event |-> NoEvent])
    /\ JobDone(t, refreshes[t].key)
    /\ UNCHANGED <<up, meraki, clog, age, rows, poller, lock, budget>>

\* "database is locked", after five seconds without an await: the refresh ends
\* with the jobs it has left.
RefreshLocked(t) ==
    /\ refreshes[t].key # None
    /\ lock
    /\ EndRefresh(t)
    /\ UNCHANGED <<up, meraki, clog, age, rows, obs, poller, lock, budget>>

\* redact raises.
RefreshRaises(t) ==
    /\ refreshes[t].key # None
    /\ Spend("fault")
    /\ EndRefresh(t)
    /\ UNCHANGED <<up, meraki, clog, age, rows, obs, poller, lock>>

-----------------------------------------------------------------------------
(***************************************************************************)
(* Crashes, restarts, and the administrators of the Meraki organisation.   *)
(***************************************************************************)

Crash ==
    /\ up
    /\ Spend("crash")
    /\ up' = FALSE
    /\ poller' = PollerAt("off")
    /\ refreshes' = [t \in Slots |-> NoRefresh]
    /\ registry' = [s \in Scopes |-> None]
    /\ lock' = FALSE
    /\ UNCHANGED <<meraki, clog, age, rows, obs>>

\* The server was down for n intervals.
Restart ==
    /\ ~up
    /\ up' = TRUE
    /\ \E n \in 0 .. MaxDown : age' = Older(n)
    /\ UNCHANGED <<meraki, clog, rows, obs, poller, refreshes, registry, lock, budget>>

\* What the UNIQUE columns of a change of k may hold: values of their own, or
\* those of a change of another key that may be of the same second.
ColumnsOf(k) ==
    {Len(clog) + 1} \cup
    {clog[e].columns : e \in {f \in DOMAIN clog : age[f] = 0 /\ clog[f].key # k}}

\* k is changed.  The change log maps the change to jobs that show it, or, for
\* a page that _PAGE_PREFIX_MAP lacks, to none.
Change(k, columns) ==
    /\ \E h \in Hashes \ {meraki[k]}, areas \in AreaSets :
         /\ k \in areas \/ areas = {}
         /\ meraki' = [meraki EXCEPT ![k] = h]
         /\ clog' = Append(clog, [key |-> k, hash |-> h, areas |-> areas, columns |-> columns])
         /\ age' = Append(age, 0)
    /\ UNCHANGED <<up, rows, obs, poller, refreshes, registry, lock>>

AdminChange(k) ==
    \/ Spend("change") /\ \E columns \in ColumnsOf(k) : Change(k, columns)
    \/ Spend("null") /\ Change(k, None)

-----------------------------------------------------------------------------
PollerStep ==
    \/ Poll
    \/ \E e \in DOMAIN clog : InsertEvent(e)
    \/ InsertDone
    \/ \E k \in Keys : PullFetch(k)
    \/ PullStore
    \/ Wake

PollerFault == PollFails \/ (\E k \in Keys : PullFails(k)) \/ PullRaises

RefreshStep(t) ==
    \/ \E k \in Keys : RefreshFetch(t, k)
    \/ RefreshStore(t)
    \/ RefreshLocked(t)

RefreshFault(t) == (\E k \in Keys : RefreshFails(t, k)) \/ RefreshRaises(t)

Next ==
    \/ StartPoller
    \/ PollerStep
    \/ PollerFault
    \/ \E s \in Scopes : refresh_entity(s)
    \/ \E t \in Slots : RefreshStep(t) \/ RefreshFault(t)
    \/ Crash
    \/ Restart
    \/ \E k \in Keys : AdminChange(k)

Spec == Init /\ [][Next]_vars

\* The event loop runs the tasks, every call returns or times out, sleep ends,
\* and a server that is down is started again.
Fairness ==
    /\ WF_vars(PollerStep)
    /\ \A t \in Slots : WF_vars(RefreshStep(t))
    /\ WF_vars(Restart)

FairSpec == Spec /\ Fairness

-----------------------------------------------------------------------------
(***************************************************************************)
(* Properties.                                                             *)
(***************************************************************************)

\* An observation of the poller cites a stored event that asked for its key
\* (_build_jobs_from_events), and not one that an earlier observation of the
\* key cites: a cycle answers for the events it has stored itself.
CitationsFresh ==
    \A i \in DOMAIN obs : obs[i].source = "change_log" =>
        /\ obs[i].event \in DOMAIN rows
        /\ obs[i].key \in clog[rows[obs[i].event]].areas
        /\ \A j \in 1 .. i - 1 : obs[j].key = obs[i].key => obs[j].event < obs[i].event

\* change_log rows record changes, though refreshes write in between.
ChangeRowsRecordChanges == RowsRecordChanges(obs)

\* _active_refreshes names the running task of every scope that has one, so
\* that two refreshes of one scope never run at once, and names none that has
\* ended, through failed calls and exceptions.
RefreshesRegistered ==
    /\ \A t \in Slots : Running(t) => registry[refreshes[t].scope] = t
    /\ \A s \in Scopes : registry[s] # None => refreshes[registry[s]].scope = s

-----------------------------------------------------------------------------
(***************************************************************************)
(* What the documentation says and the code does not do.                   *)
(***************************************************************************)

\* Design document, Flow B: "Duplicate events are skipped."  An entry with a
\* NULL among the UNIQUE columns is stored by every poll that returns it.
EveryEventStoredOnce == \A i, j \in DOMAIN rows : rows[i] = rows[j] => i = j

\* Schema plan: the constraint is there "to dedupe events observed across
\* overlapping poll windows".  It also drops the second of two changes that
\* differ in nothing but their SSID or page, and its pull with it.
DuplicatesAreStored == \A e \in DOMAIN clog : Duplicate(e) => Stored(e)

\* The last change of k is mapped to the job of k.
Mapped(k) ==
    \E e \in DOMAIN clog :
        /\ clog[e].key = k /\ k \in clog[e].areas
        /\ \A f \in DOMAIN clog : f > e => clog[f].key # k

\* README: the poller "reactively re-pulls affected areas".  Nothing starts it;
\* and a change it has dropped as a duplicate, or lost to a failed call or a
\* crash, is not pulled again.
ChangesAreObserved ==
    \A k \in Keys : <>[](Mapped(k) => LatestHashIs(obs, k, meraki[k]))

\* Design document, manual refresh: "Observation rows written with
\* source_event='manual_refresh'".  A poll that ends with a duplicate keeps
\* the write lock while it sleeps, and the answer of a refresh is lost.
RefreshAnswersStored ==
    [][up' => \A t \in Slots :
                 refreshes[t].key # None /\ refreshes'[t].key = None => obs' # obs]_vars
=============================================================================
