# Topology Maps, specified in TLA+

This directory holds TLA+ specifications of Topology Maps: its configuration
collector and what reads the history, the Meraki routes, their cache and their
page, the simulated network with its discovery, and the way of a topology to the
screen. It says what each module models, what the model-checking runs and the
proofs show, what disagrees with the documentation, and what is left.

Paths are relative to `src/`.

## 1. The system

Topology Maps draws network topologies. It gets them from two sources: a
simulated network that is discovered over SNMP, and Meraki organisations that
are read over their HTTP API. For Meraki it also keeps a history of
configurations. One FastAPI process (`server/`) does all of this on one asyncio
event loop; a second process (`simulator/`) plays the network; a React
application (`ui/`) draws; scripts (`nr_ingest/`) push to New Relic, where a
nerdpack (`nerdpack/`) draws the same data again.

### 1.1 Components

| Component | Code | State | Made correct by | Module |
|---|---|---|---|---|
| Configuration sweeps | `server/config_collector/scanner.py`, `targeted_puller.py`, `server/routes/config.py:159-215`, `server/main.py:147-182` | `config_sweep_runs`, `config_observations`; the asyncio tasks | a sweep under way ends; a resumption stores what is missing and nothing twice; an anti-drift sweep writes every endpoint; a row records a change, and a label is true of the history; counters add up | `ConfigSweeps` |
| Change-log poller | `change_log_poller.py`, `targeted_puller.py` | `config_change_events`, `config_observations` | a row records a change, and cites a stored event that asked for it and was not cited before | `TargetedPulls` |
| Manual refresh | `manual_refresh.py` | `_active_refreshes` | one task per scope; its answers are stored | `TargetedPulls` |
| Observation store | `store.py` | the `config_*` tables | rows are in the order of their stamps; latest means latest; a window is the state at its two ends | `ConfigStore`, `ConfigHistory` |
| Redaction and hashing | `redactor.py`, `redaction_catalog.py`, `hashing.py` | none | a secret never reaches a row and is seen to rotate | `Redactor` |
| Diff engine | `diff_engine.py` | none | what differs shows | `DiffEngine` |
| Configuration endpoints | `server/routes/config.py:217-920` | templates; the cursor of a client | pages tell each row once; scores, comparison and coverage agree | `ConfigReaders`, `ConfigLibrary` |
| New Relic ingestion | `nr_ingest/config_ingest.py`, `delete_old_config_events.py` | the marker; what New Relic holds | what is due is delivered, and once | `ConfigIngest` |
| Simulation manager | `server/routes/simulation.py` | `_is_running`, `_shutdown_task` | a running simulation ends; nothing polls unattended | `Simulation` |
| Topology poller | `collector/poller.py`, `server/routes/system.py` | `_running`, `_task`, the snapshot and its version | the snapshot becomes what the agents tell | `Simulation`, `TopologyPush` |
| Topology WebSocket | `server/websocket.py`, `server/main.py:91-104` | the list of connections | every connection gets every version in order | `TopologyPush` |
| Topology page | `ui/src/hooks/useTopology.ts`, `useWebSocket.ts` | what is drawn | a page converges to the snapshot | `TopologyPages` |
| Simulator | `simulator/topology_state.py`, `main.py`, `roaming.py`, `api.py` | neighbours, hosts, associations, counters | counters agree; a device is where its port says | `SimulatedNetwork` |
| Simulated devices | `simulator/devices/`, `agent.py` | the tables of each agent | tables tell the network | `DeviceMibs` |
| Discovery, topology builder | `collector/discovery.py`, `topology_builder.py`, `snmp_client.py` | queue, visited, found | edges are real; a poll that hears all shows all | `Discovery` |
| Meraki client, rate limiter | `server/meraki_client.py`, `rate_limiter.py` | tokens, waiters | the rate is kept, nobody waits for ever | `RateLimiter` |
| Meraki routes, transformer | `server/routes/meraki.py`, `meraki_transformer.py` | the requests in progress | routes agree; what is streamed adds up | `MerakiRequests`, `MerakiTransformer` |
| Snapshot cache | `server/db.py` | `orgs`, `meta`, `networks`, `topology_cache`, the open transaction | what is on disk is one snapshot | `SnapshotCache` |
| Meraki page | `ui/src/hooks/useMerakiTopology.ts`, `ui/src/App.tsx` | cache, controller, selection, localStorage | the screen shows the selection; an entry is of its site | `MerakiPage` |
| Others | configuration hub, endpoints catalog, configuration browser, New Relic entities, device routes, rendering, nerdpack | | | not modelled, or in part: section 5 |

### 1.2 How they interact

* Sweeps, poller and refreshes share the tables and `pull_many`
  (`targeted_puller.py`): fetch, redact, store, one job after the other. Each
  task has its own SQLite connection; there is one write lock. The routes of the
  history read the same tables while they grow, and `config_ingest` reads a copy.
* The simulation manager owns the poller: start and stop of the one call those
  of the other, and the auto-shutdown is a task that calls both.
* The poller discovers what the simulator's agents answer, and broadcasts through
  the WebSocket manager; `POST /api/collector/poll` calls the same `poll_once`
  beside the loop. A page fetches over HTTP once and then lives on messages.
* All Meraki routes share one client with one limiter. The Meraki page gathers
  a topology answer by answer and posts it to the snapshot cache, from which the
  next page boots; `localStorage` is a second copy.

### 1.3 Where the difficulty is

Nothing runs in parallel inside the server, and nearly nothing is atomic: every
`await` lets every other task run. The behaviours that tests hardly reach are

1. state read before an `await` and used after it (`pull_many` between fetch and
   store, `stop()` between `_is_running = False` and the poller's stop,
   `broadcast` iterating over a list that others shrink, a React callback that
   awaits one fetch after the other while the user selects something else);
2. the death of the process between two commits, or of a script between two
   batches, and what the next start or request makes of what it finds;
3. overlap: two sweeps, a refresh beside the poller, two polls, two broadcasts,
   two requests in one limiter, a load beside a save on one connection;
4. one call of many that fails, or one answer of a walk that is lost;
5. messages lost with a connection, answers lost after the work was done.

`PROJECT.json` lists them with their lines under `hazards`, each with the
properties that would catch it.

## 2. Modules

    ConfigStore ─┬─ ConfigSweeps ── MCConfigSweeps
    (operators)  │      └ implements SweepLifecycle
                 ├─ TargetedPulls ── MCTargetedPulls
                 └─ ConfigHistory ── ConfigIngest ── ConfigReaders ─┐
    Redactor ── DiffEngine ────────────────────────────────────────┴─ ConfigLibrary ── MCConfigReaders

    Simulation ── MCSimulation
    TopologyPush ── TopologyPages ── MCTopologyPages
    SimulatedNetwork ─┬─ DeviceMibs ── Discovery ── MCDiscovery
    Listing ──────────┘

    RateLimiter ──────────────────┬─ MerakiRequests ── MCMerakiRequests
    Listing ── MerakiTransformer ─┘
    SnapshotCache ── MerakiPage ── MCMerakiPage

A module extends those to its left. `Listing` has the sorts, comprehensions and nested
lists of the code, as functions of a place in the result: the prover knows neither
`SortSeq` nor `SelectSeq`. The proofs are in modules of their own:

    ConfigStoreProofs        lemmas about ConfigStore, used by the next three
      ConfigSweepsProofs     over ConfigSweeps
      TargetedPullsProofs    over TargetedPulls
      ConfigHistoryProofs    over ConfigReaders, with ConfigHistory and ConfigIngest
    SimulationProofs         over Simulation
    TopologyProofs           over Discovery, with its network, and TopologyPages
    MerakiRequestsProofs     over MerakiRequests, with RateLimiter
    MerakiPageProofs         over MerakiPage, with SnapshotCache

An action is what runs from one `await` to the next, or less where a crash may
fall between two commits. A state variable names the attribute, table or task it
stands for; a comment beside each says which. Definitions keep the names of the
functions they model (`start_baseline`, `build_l2`, `selectNetwork`), and `map`
in `PROJECT.json` gives the lines of each. Definitions that begin with *A slip:*
are plausible mistakes in the code, used to see that each property can fail.
Payloads, names and addresses are model values, or records of what a property
tells apart.

### 2.1 ConfigSweeps

A key stands for `(entity_type, entity_id, config_area, sub_key)`, a hash for a
redacted, canonical payload. `obs` is the table of observations in insertion
order, `runs` that of sweeps, `tasks` the background tasks: what each works on,
the jobs it has left, the call in flight and the results not yet counted.

| Action | Code |
|---|---|
| `start_baseline`, `start_sweep` | the POST handlers; the first launches a task for an active run, the second does not |
| `Begin`, `EnumerateFails` | enumeration, totals, `mark_sweep_running`, the filter of what a resumed run has stored |
| `Fetch`, `FetchFails`, `Store` | one turn of `pull_many`: the call answers, or fails; the answer is redacted, compared and stored |
| `Count` | the counters, after each `CHUNK` of a baseline and at the end of an anti-drift sweep |
| `Raise`, `Finish` | the `except` and the end of the task functions |
| `Crash`, `Restart` | the process dies; it comes up again, and no task with it |
| `AdminChange` | somebody changes a configuration at Meraki |

Nothing resumes a sweep when the server comes up. The code has a handler for it,
`_start_config_pollers` (`server/main.py:165`), and registers it with
`on_event("startup")` on an application that has a `lifespan` (`main.py:59-63`), for
which the pinned FastAPI never calls it; so `Restart` brings the server up and no more.
An interrupted baseline is taken up by the next POST, which launches a task for the
active row; this is the resumption that `ResumptionIsExact` is about. An interrupted
anti-drift sweep is left `running`: its POST returns the active row and launches nothing
(finding `sweeps_interrupted`). `shared` and `launches` are history: on which runs two
tasks were alive at once, and how many each ever had. Properties about the work of one
task need them because the code lets a second POST put a second task on a baseline.

### 2.2 TargetedPulls

The poller and the refreshes both run `pull_many`. The poller of the built program is
never started: the only caller of `_poller_for_org` is the startup handler of 2.1. It is
`"off"` at first, and `StartPoller`, which stands for the call that the code has and never
makes, may happen as often as `Budgets` says. With 0 starts the module is the program as
it is built; the profiles of `Pulls.cfg` start it, since there is nothing else to say of its
code. Nothing here claims that the poller runs, or that a change is pulled.

Time is counted in intervals of the poller: an entry of the change log is in the first
answer after it and may be in later ones, `POLLS` at the most (`timespan / interval`).
An INSERT that fails on a UNIQUE constraint leaves the transaction Python's `sqlite3`
opened, and with it the write lock, to a connection that never rolls back: `lock`. An
entry carries `columns`, what its UNIQUE columns (`database.py:122`) hold together.
These leave out `ssid_number` and the page, so that two changes of one second may hold
the same and the second is a `Duplicate` of the first, and is not stored; a NULL among
them (`None`) makes an entry distinct from itself. The jobs of a refresh and of an event
are sets of keys; how a page of the dashboard maps to a job (`_PAGE_PREFIX_MAP`) is left
open: an event may map to any of `AreaSets`.

### 2.3 The history and its readers

`Redactor` and `DiffEngine` compute on JSON trees: scalars, objects, arrays and the
digest that stands for a redacted secret. A redacted tree stands for its canonical
string and for the SHA-256 sum of it. `ConfigHistory` adds to the rows of `ConfigStore`
the second of each: rows are ordered by microseconds, and a bound of a query is written
in seconds and includes its whole second. Its operators are the queries of `store.py`; a
page is the set of its rows. What is stored of an answer, `redacted`, is a parameter,
which `Readers.cfg` gives the value `redact` of `Redactor`: a reader does not care what
a redaction does, so what is proved of the readers holds of every one, and their modules
reach no `RECURSIVE` operator. `ConfigIngest` is the script: it copies the database,
asks New Relic for what it has (each question may fail), pushes batch by batch (a batch
may be refused, or taken with its answer lost) and writes the marker. The purge may come
at any time; it has a job for each type of event, and either may fail alone. Its queue
is a set of events with the order `Precedes`: snapshots first, by entity and area, then
changes by their time. `ConfigReaders` puts beside it a client that follows
`next_cursor` while rows are stored. `ConfigLibrary` adds the templates, and the other
routes as operators over the table, because each reads in one go. The newest row of an
area is found by queries of their own in the code, and so here: `template_rows` and
`net_rows` (by area and sub key of one entity), `compared_map` (by key), `get_coverage`
(by area alone), and the window of `get_org_diff` (by rank and second). Every step of
its `LibrarySpec` is one of `ConfigReaders` or leaves the variables of that module
alone.

### 2.4 Simulation

The *n*-th successful start makes timer *n* and, when the poller was not running,
loop *n*. `_shutdown_task` and `_task` are the number they hold. `stop()` suspends
twice (for the timer it cancelled, for the loop the poller cancelled) and each time
overwrites a variable that may by then hold a newer task. A `cancel()` is delivered
at the next step of its task, so `cancelled` is a field. All timers sleep equally
long, so they fire in the order of their starts.

### 2.5 TopologyPush and TopologyPages

A topology is a model value. The MIB trees of the agents are built once
(`simulator/main.py:311`; `update_mib_tree` has no caller), so `agents`, the topology they tell,
is chosen in `Init` and never changes, whatever is edited. A discovery returns it, or any
other topology when a walk of it was cut short (`Returned`), which happens at most `MaxLossy`
times. `poll_once` replaces the snapshot and counts the version with no
`await` in between, then awaits a `send_text` per connection over the live list;
the list is a set, because connections are numbered in the order of their `append`, and
`Index` is a connection's place in it. `polls[p].next` is the index of the list's iterator,
so removals make it skip. A broken
connection makes the send raise or is not noticed at all. `shaken` is history: the
versions during whose broadcast the list lost an element. `TopologyPages` adds what
is on its way to each page and what the page shows. Its initial fetch may be
answered before a message and arrive after it (`late`).

### 2.6 SimulatedNetwork, DeviceMibs and Discovery

`SimulatedNetwork` is the `TopologyState`: what `main.py` builds at the start, the
batches in which clients roam, and the moves, creations and deletions of the REST
API. No handler awaits between its reads and its writes, so each is one step.
`DeviceMibs` is what the agents answer, as sequences of rows in the order of a walk,
and what a walk hears: any prefix, because a lost request ends it as if the table
ended. `Discovery` is `discover_from_seed` device by device, `build_l2`, `build_l3`
and the snapshot that a finished poll replaces. The agents build their tables once,
so a walk does not see edits: `update_mib_tree` has no caller.

A table is a set of rows put in the order of their index (`InOrder`). A step of the
builder that skips what it has seen (`seen_node_ids`, `seen_edge_ids`) takes, of the
places of a list, the first with each key (`Firsts`). `Hearings` are the ways in which so
many of the walks of a device may be cut short.

Things a reader of the code may not expect, and which the model has: a walk of
wireless stations that is cut short makes an access point with an empty name, and
one of the access point table shows access points as down; edges may lead to a device
that did not answer and has no node; the ports of a firewall come out under their
position in its interface table (`port3` for `port5`); routes by policy for guests
are constant. The two address ranges of guests that may collide are not modelled.

### 2.7 RateLimiter, MerakiTransformer and MerakiRequests

Time is in ticks, `Token` of them to a token. The asyncio lock is fair: `waiters` is
its queue; its head holds it, awake or in a nap. A request is a list of stages, each
a `gather` of calls; a call waits in the limiter, is sent, and is answered, refused
or timed out. `gather` raises the first failure and leaves the other calls running;
their answers are ignored. A page that goes away cancels the stage awaited.
`MerakiTransformer` computes what a request is answered with from what was heard: devices
and nodes are sets, and of a list only the order that decides something is kept.

The bucket is per client object; the routes share one. The refresh fetches no stacks.
The routes do not ask the same networks: the refresh lists all of the organisation, while
the L2, L3 and sites routes take those that have devices (`meraki.py:154`, `:332`), so that only
the refresh sees the VLANs of a network without devices, and the order in which a link that
two networks report is met is that of a list in the one and of a Python set in the others.
Asked for a network that does not exist, the refresh answers for all networks and
the GET routes with nothing. The clients route gives a client that two access points
list two nodes. Pages of `_get_paginated` are not modelled.

### 2.8 SnapshotCache and MerakiPage

All threads share one SQLite connection, and writers a lock. `work` is what the
connection sees, an open transaction included, `durable` what is committed. A save is
six statements and a commit; a load is four reads, without the lock, so any
statement of a save may fall between them. A table holds the rows of one snapshot,
which is named by it.

`MerakiPage` is the hook with the handlers of `App`: each call of `refresh` that has
not returned is a task that awaits its next fetch, `current` the one that
`abortControllerRef` would abort. An abort rejects the fetch its task awaits, and the
task ends in a step of its own, whenever the browser gets to it: its `finally` clears
the controller and the flag whoever's they are. Of a topology, only the sites are told
apart that its devices and its subnets belong to. `boot` is the effect of `App` that
asks for the snapshot, then for the networks; `local` the copy in `localStorage`, kept
by an effect that does not depend on the cache; `strayed` is history: a refresh that
nothing can abort draws, or the boot has moved the selection under what is drawn.

The following behaviours are in the model and excluded by `ShowsSelected`, whose comment
says so: a refresh whose controller was taken by the end of an aborted one goes on
(finding `page_refreshes`); an answer of the boot replaces the cache or the selection
under a refresh of the user, `fetchNetworks` with the selection of the first rendering;
a refresh of the map pressed during the 400 ms in which the view changes draws all
networks in the view of a site.

## 3. Runs

Runs of kind *pass* terminate without error. `CHECK_DEADLOCK FALSE` appears where
external events are bounded (`Budget`, `MaxStarts`, ...), so that the model may stop
when they are used up.

| Run | Question | Properties |
|---|---|---|
| `sweeps` | two tasks, on one run or on two, with everything that can fail | `BaselineRowsRecordChanges`, `DriftLabelsMatchHistory`, `ResumptionIsExact`, `AntiDriftLifecycle`, `FinishedRunsAreFinal`, `AntiDriftAlwaysWrites` |
| `sweeps_end` | does a sweep under way end, and did it count everything? | `CountersAddUp`, `SweepsUnderWayEnd` |
| `pulls` | the poller, if it is started, beside refreshes of the same endpoints, with everything that can fail | `ChangeRowsRecordChanges`, `CitationsFresh`, `RefreshesRegistered` |
| `readers` | pages, differences, reports and pushes over a history that grows | `PagesTellAll`, `HistoryReplays`, `ReportsAgree`, `SecretsShowAsRotations`, `PushDelivers`, `ChangesSentOnce` |
| `simulation` | starts, stops and timers in any order | `AutoShutdownPending`, `PollingIsAttended`, `StopsAwaitTheEnding`, `EverythingComesToRest` |
| `pages` | overlapping polls, discoveries that lose answers, connections that break: does everybody end up with what the agents tell? | `BroadcastReachesAll`, `VersionsInOrder`, `PagesConverge`, `SnapshotRecovers` |
| `network` | discoveries with lost answers; edits of the network | `CountsMatchClients`, `ParentListsAp`, `SnapshotSound`, `CompleteWhenHeard`, `Recovers` |
| `meraki` | two requests in one limiter, a failure and a page that leaves | `WindowBound`, `PartialsAddUp`, `RoutesAgree`, `RequestsEnd` |
| `meraki_page` | a page over its tables; savers and a loader of other pages | `StoredIsOneSave`, `QuietLoads`, `ShowsSelected`, `EntriesOfTheirSites` |
| `sweeps_interrupted` | violation | `InterruptedSweepsResume` |
| `page_refreshes` | violation | `AtMostOneRefresh` |
| `history_lost` | violation | `HistoryPopulated` |

`AntiDriftLifecycle` is a refinement: the anti-drift rows of `ConfigSweeps`, every
other row seen as absent, implement `SweepLifecycle`. Baseline rows do not
(`FinishedRunsStayFinished`, section 3.3).

`WindowBound` is about every stretch of time that ends now, by way of `excess`, a
history that the limiter does not read. `RoutesAgree` compares answers to two requests,
with nothing refused, on the networks that both are about: the devices, the links that
the refresh streamed of these networks, their subnets, the number of routes between them
and the gateway, and the health of a site. Where the routes do differ, in the networks
without devices and in the direction of a link that two networks report, see
`SubnetsAgree` and `EdgesAgree` in section 3.3. `ReportsAgree` compares what queries of
their own tell of the same rows: one that a template has frozen, one by rank, two by
group and one by area. `SnapshotRecovers` is about the agents and not about the network
they were built from: an edit never reaches the snapshot (`AgentsServeState`).
`HistoryReplays` compares the query of a window and the timeline with the rows at the
end of each second.

### 3.1 Bounds

| Bound | Value | Why it is enough |
|---|---|---|
| `Keys`, `Hashes` | 2, 2; 3 keys and 1 hash in `sweeps_end` | an endpoint and another one; a hash that comes back after another is the hard case of deduplication |
| `Tasks`, `MaxRuns` | 2, 2; 1 run in `sweeps_end` | the interference of two tasks on one run or on two; every property is about a pair at most |
| `CHUNK` | 2 | a full chunk with 2 keys, a full and a partial one with 3 |
| `Budget` of sweeps | `sweeps`: 2 requests, 1 crash, 2 changes, 1 failed call, 1 exception; `sweeps_end`: 2 requests, 1 crash, 1 failed call | one of each kind before, during and after each step; a configuration that goes away and comes back |
| `POLLS`, `MaxDown` | 2, 1 | an event arrives again once; the server is down for longer than an answer reaches back |
| `Budgets` of pulls | 2 starts, 2 requests, a crash, a change, a failed call and an exception; 2 starts, 1 request, a crash and 2 changes; the poller and 3 changes; the poller, a change and one with a NULL | the requests overlap each other and the poller, before and after a crash; the changes go back and forth, alone, several in one answer, or one a duplicate of the other |
| `Slots` of pulls | 2 | two refreshes would run at once if the registry let them |
| `MaxStarts`, `Handlers` | 3, 2 | a start inside each of two overlapping stops; the safety properties are proved for any number |
| `Pages`, `MaxSockets`, `MaxDrops`, `Triggers`, `MaxLossy` | 1, 2, 1, 1, 2 | one lost connection and its successor; two polls and two broadcasts at once; a version that overtakes another; a discovery that lost answers and ends after one that lost none |
| `MaxEvents` | 3 | of discoveries that lose answers, lost connections, requests and slow fetches together, any three |
| `TOTAL_FLOORS`, `APS_PER_FLOOR` and endpoints | 2, 2, 3 wired and 2 wireless | a switch behind another; an access point that others resemble |
| `Profiles` of `Network.cfg` | 2 lost answers, or 2 edits | two tables of one device, or of two; a move and what undoes it. Losses and edits do not meet in the code: the agents do not see edits |
| `Capacity`, `Token` | 2, 2 | a burst, and a nap that a refill ends half-way |
| `Mixes`, `MaxFailures`, `MaxLeavings` | 10 pairs of kinds, 1, 1 | a refresh beside each route that draws the same; one network, all of them, one without devices or one that does not exist; the organisation known or asked by both |
| Networks of `Meraki.cfg` | 3 | two with a link that both report, and one with a VLAN and no devices |
| `Profiles` of `Readers.cfg` | 5 rows and a client with pages; 4 rows in 3 seconds; 3 rows and a template; 3 rows in 2 seconds and 3 pushes | what the four groups of properties read does not overlap, so they need not meet in one behaviour |
| `Limit`, `BatchSize`, `Overrides` | 2, 1, second 0 | a full page, a partial one and an empty one; a push may fail between any two events; `--since` or not |
| `Sites`, `Slots` of the page | 2, 3 | a site and another; two refreshes that draw and one that is aborted |
| `Budgets` of the page | 3 selections and a refresh; 2 of each with a way back to the map or a fetch that fails; saves and reloads; or none and other pages instead | three selections are what it takes to lose a controller |
| `MaxCrashes`, `MaxSites`, `Savers`, `Loaders` | 1, 1, 2, 1 | a save before and one behind the crash; the sites list is one statement |

Symmetry is used in safety runs only (`sweeps`, `pulls`), over model values that no
definition tells apart.

### 3.2 Fairness

* Tasks of the server: weak fairness of each task's next step. The event loop runs
  every task that is ready; every HTTP call and SNMP request has a timeout; every
  `sleep` ends.
* `Restart` is weakly fair: a server that is down is started again (`sweeps_end`,
  `sweeps_interrupted`).
* The topology poller's loop polls again and again; sends end; in `TopologyPages`
  a page connects again (the three-second timer of `useWebSocket.ts`) and its
  answers and messages arrive.
* `Discovery`: the loop of the poller goes on. Lost answers are a budget under no
  fairness, here and in `TopologyPush`: `Recovers` and `SnapshotRecovers` are about what
  follows when answers are lost no more.
* `MerakiRequests`: time passes and the head of the queue gets on (one step of the limiter
  is always possible, and never two), and a call that was sent is answered, fails or is
  cancelled: the client waits 30 seconds at the most.
* Requests, crashes, failed calls, exceptions, dropped connections, edits and changes
  are under no fairness: they may happen or not.
* `ConfigReaders`, `SnapshotCache` and `MerakiPage` have no liveness and state none.

### 3.3 What disagrees with the documentation

Three runs state what a comment or a document says, and TLC shows a behaviour of the
code that breaks it. The quotations are under `findings`.

| Run | Property | The code |
|---|---|---|
| `sweeps_interrupted` | `InterruptedSweepsResume` | the handler that resumes sweeps is registered for an event that never comes; an anti-drift sweep that was running at a crash has no task and blocks later ones |
| `page_refreshes` | `AtMostOneRefresh` | the `finally` of an aborted refresh sets `abortControllerRef.current` to null although it is its successor's by now; the next refresh does not abort that one, and both draw |
| `history_lost` | `HistoryPopulated` | a push begins at the time of the newest snapshot that New Relic has, although the changes may not have followed it |

The modules define more statements of this kind, marked *Refuted* or under *What the
documentation says*. They are not among the runs; TLC refutes each when it is put in
the place of the properties (and of the symmetry) of the configuration named here.

| Statement | Configuration | The code |
|---|---|---|
| `FinishedRunsStayFinished` | `Sweeps.cfg` | two POSTs of a baseline put two tasks on one run; the slower one moves a finished run back to running |
| `FailedTasksFailTheRun` | `Sweeps.cfg` | an enumeration that raises leaves its run queued |
| `RefreshAnswersStored` | `Pulls.cfg` | a poll that ends with a duplicate keeps the write lock while it sleeps; a refresh loses its answer |
| `EveryEventStoredOnce` | `Pulls.cfg` | an event with a NULL in a UNIQUE column is stored by every poll that returns it |
| `DuplicatesAreStored` | `Pulls.cfg` | of two changes that differ in the SSID or the page only, the second is dropped, and its pull with it |
| `ChangesAreObserved` | `Pulls.cfg` with `FairSpec` | nothing starts the poller; and a dropped, failed or interrupted pull is not repeated |
| `PollerKnowsItsLoop` | `Simulation.cfg` | a start while a stop awaits the old loop: the new loop polls, and its poller does not know it |
| `RunningMeansPolling`, `StoppedMeansNoTimer` | `Simulation.cfg` | a start while a stop awaits the timer: running without polling; a timer nobody knows |
| `ReachesAllConnected` | `Pages.cfg` | a list of connections that shrinks under a broadcast: a client is skipped |
| `BrokenAreRemoved` | `Pages.cfg` with `MaxDrops = 2` | `list.remove` raises for a connection that is gone, and the other broken ones stay |
| `ConnectedPagesConverge` | `Pages.cfg` | a page that reconnects fetches nothing and shows what it had |
| `AgentsServeState` | `Network.cfg` | an edit of the network changes no agent's answers |
| `EndsWithAnEvent` | `Meraki.cfg` | a stream may break off with neither the topology nor an error |
| `SubnetsAgree` | `Meraki.cfg` | the refresh asks networks without devices for their VLANs, the L3 route does not |
| `EdgesAgree` | `Meraki.cfg` | of a link that two networks report, the L2 route draws the report that a Python set puts first, with its direction and ports |
| `RoutesStayInNetwork` | `Meraki.cfg` | a route may join subnets of two networks: subnets are looked up by VLAN |
| `LoadsWhole` | `MerakiPage.cfg` | a load beside a save answers with parts of two snapshots |
| `OrgOfSnapshot` | `MerakiPage.cfg` | `SELECT id FROM orgs LIMIT 1` names any organisation that was ever saved |
| `AllIsPersisted` | `MerakiPage.cfg` | the effect that writes `localStorage` does not run for what an aborted or failed refresh of all networks has put into the cache |
| `DifferenceShows` | `Readers.cfg` | beside a table no field of an object is compared, and an emptied table shows no change |
| `MissingAreasLowerScores` | `Readers.cfg` | an area that a network lacks is left out of its score; lacking all of them scores 100 |
| `HistoryOfAnArea` | `Readers.cfg` | the filter by area takes only rows without a sub key: none of an SSID |

Seen on the way, in the model, and part of no statement: a row observed between the
copy of the database and the push is older than the stamp of the push and is skipped
by the next incremental one; the id of a change is of its two hashes, so a change that
goes back and forth is taken for a repetition; pages of change events, whose cursor is
a second, skip events of one second at the end of a page; a rounded score may be 100
with changes; the registry of identity fields never matches the names of the areas.

## 4. Proofs

TLC checks the instances above. The following hold for every value of the
constants that satisfies the named assumptions.

| Theorem | States |
|---|---|
| `ConfigSweepsProofs!Typing` | `Spec => []TypeOK` |
| `ConfigSweepsProofs!BaselineHistory` | `Spec => []BaselineRowsRecordChanges` |
| `ConfigSweepsProofs!DriftHistory` | `Spec => []DriftLabelsMatchHistory` |
| `ConfigSweepsProofs!FinishedFinal` | `Spec => FinishedRunsAreFinal` |
| `ConfigSweepsProofs!DriftLifecycle` | `Spec => AntiDriftLifecycle`: `SweepLifecycle` is implemented |
| `ConfigSweepsProofs!Resumptions` | `Spec => []ResumptionIsExact` |
| `ConfigSweepsProofs!Counters` | `Spec => []CountersAddUp` |
| `TargetedPullsProofs!ChangeRows` | `Spec => []ChangeRowsRecordChanges` |
| `TargetedPullsProofs!Registry` | `Spec => []RefreshesRegistered` |
| `TargetedPullsProofs!FreshCitations` | `Spec => []CitationsFresh` |
| `ConfigHistoryProofs!Replays` | `Spec => []HistoryReplays`, of `ConfigReaders` as the next three |
| `ConfigHistoryProofs!Pages` | `Spec => []PagesTellAll` |
| `ConfigHistoryProofs!SentOnce` | `Spec => []ChangesSentOnce` |
| `ConfigHistoryProofs!Delivers` | `Spec => []PushDelivers` |
| `SimulationProofs!Typing` | `Spec => []TypeOK` |
| `SimulationProofs!RunningEnds` | `Spec => []AutoShutdownPending` |
| `SimulationProofs!NothingPollsUnattended` | `Spec => []PollingIsAttended` |
| `SimulationProofs!WaitsAreShort` | `Spec => []StopsAwaitTheEnding` |
| `TopologyProofs!Counts` | `Spec => []CountsMatchClients`, of `Discovery` as the next three |
| `TopologyProofs!RecordedPlaces` | `Spec => []ParentListsAp` |
| `TopologyProofs!Snapshots` | `Spec => []SnapshotSound` |
| `TopologyProofs!Completeness` | `Spec => CompleteWhenHeard` |
| `TopologyProofs!PagesOfPush` | `PagesSpec => PushSpec`: with the pages, the server is the same |
| `TopologyProofs!Reaching` | `PushSpec => []BroadcastReachesAll` |
| `TopologyProofs!Orderly` | `PushSpec => VersionsInOrder` |
| `MerakiRequestsProofs!Bound` | `Spec => []WindowBound` |
| `MerakiRequestsProofs!AddUp` | `Spec => []PartialsAddUp` |
| `MerakiRequestsProofs!Agreement` | `Spec => []RoutesAgree` |
| `MerakiPageProofs!OneSave` | `Spec => []StoredIsOneSave`, of `SnapshotCache` as the next |
| `MerakiPageProofs!LoadsOfDisk` | `Spec => []QuietLoads` |
| `MerakiPageProofs!OneSaveOfPages` | `PageSpec => []StoredIsOneSave` |
| `MerakiPageProofs!QuietPages` | `PageSpec => []QuietLoads` |
| `MerakiPageProofs!Entries` | `PageSpec => []EntriesOfTheirSites` |
| `MerakiPageProofs!Overlay` | `PageSpec => []OverlayMeansWork` |
| `MerakiPageProofs!Shows` | `PageSpec => []ShowsSelected` |

### 4.1 Assumptions

All are about constants, and TLC evaluates each on the values of a run.

| Assumption | Says |
|---|---|
| `SweepAssumption`, `PullAssumption` | finite keys (sweeps), `None` apart from what is modelled, positive bounds, budgets are numbers |
| `HistoryAssumption` | what is stored of an answer is a hash; a page has a row at least |
| `IngestAssumption` | New Relic tells endpoints apart by entity and area: the id of an entity tells its type, and the id of an SSID, the only entity with a sub key, ends with it (`endpoints_catalog.py`) |
| `ReadersAssumption` | the model value for *no entity* is not one |
| `SimulationAssumption` | `MaxStarts` is positive; the set of handlers is arbitrary |
| `NetworkAssumption`, `EditsAssumption` | positive numbers of floors and access points, finitely many wireless VLANs; an edit names known switches (the API answers 404 to others) |
| `MibsAssumption` | VLANs are numbers, wired or wireless and not both, and finitely many are wired; a wired VLAN has ports; a value that was not heard is no name, address, mask or VLAN |
| `DiscoveryAssumption` | the empty id is no device and no access point; losses are a number |
| `PushAssumption` | the value for *no topology* is not one; the loop is not a request; bounds are numbers |
| `LimiterAssumption` | positive capacity and rate |
| `DashboardAssumption` | what the Dashboard answers with are lists; it lists a network once, and *all* is none; the order of a set of networks is one of those that have devices, and these are listed |
| `CacheAssumption`, `PageAssumption` | `Nothing` is no thread and no task; a thread saves; finitely many sites, and *all networks* is none of them; budgets are numbers |
| `SeedsAssumption` | what earlier pages saved was in order |

### 4.2 Arguments

**Store.** `ConfigStoreProofs` says what appending a row does to the latest row of each
key and what `insert_observation_if_changed` appends. Sweeps, pulls and readers rest on
these lemmas.

**Sweeps.** `TypeOK` is not inductive alone: `Store` writes the key and answer of
the call in flight, and their types allow `None`. `TypeInv` adds `InFlight` (a
task waiting for its reply holds a key and a hash). For the history,
`HistoryInv` joins both statements about the table: each is preserved by
appending one row because the row's place in the history of its key depends only
on the rows before it, and because the comparison and the insert are one step.

What is about runs rests on `RunInv`: a server that is down has no task, a row of a run
exists once a task was launched for it, a run that never was shared has one task at
most, which finds the row as it left it, and anti-drift runs are never shared. With it
every step is of one of six kinds (a task is created, begins, works or ends; a crash;
anything else), and each further proof goes through these instead of the thirteen
actions. `FinishedRunsAreFinal` and the lifecycle follow from `RunInv` alone.
`ResumptionIsExact` has two halves: `CoverInv` (an endpoint is left to do, observed, or
its call failed) for what a resumption may not miss, `JobsInv` (a job that is left has
no row of this run) for what it may not repeat. `CountersAddUp` needs that what is
counted, what is to be counted and what is left make the total throughout (`CountInv`),
which a resumption would break: its statement is about runs that had one task.

**Pulls.** `TypeInv` types tables, poller and refreshes. `RefreshesRegistered` is
inductive given it, because no `await` is between the look-up and the registration.
`ChangeRowsRecordChanges` is the argument of the sweeps. `CitationsFresh` needs
`CiteInv`: what the poller is about to cite is stored, asked for the key, and is later
than all that rows of the key cite.

**History and its readers.** The table only grows (`Grows`), and `HistoryType` orders
the seconds of its rows. A difference replays because the newest row up to a moment,
which the window ranks first, is what `HashAt` means. For the pages, `PagerInv` says that a
client has been told exactly the rows down to its cursor; a page is the newest rows
before the cursor, and a page that is not full has all of them (`PageIsNewest`,
`PageIsFullOrAll`). The largest and the smallest row of a page exist because finite sets
of numbers are well founded. For the script, `SentInv` (what the queue has, New Relic has
not, if it was asked) and `DeliveryInv` (what is due is in the queue or has arrived) are
stated for the copy the run works on, about which nothing changes while the table grows
(`CopyStable`).

**Simulation.** `AutoShutdownPending` and `PollingIsAttended` are inductive given
`TypeOK`: a timer stops being pending only in a step that clears `_is_running`,
and a request that clears it holds `pc = "timer"` until it has reached the poller.
`StopsAwaitTheEnding` is not inductive: that the awaited timer is not pending must
survive a start. `AwaitInv` adds that what is awaited exists and that a loop has
the number of an existing timer, so that a start, whose timer and loop are
new, is never what somebody waits for; two lemmas show that a timer or a loop
told to end is never revived.

**Network.** `NetInv` types the network and joins both statements (`Roams`, `Lists`),
which steps disturb apart: a move of a client takes one from the counter of an access
point and adds it to that of another, and an edit removes rows of the device it edits and
of the two places only, and records the place with the row it adds.

**Discovery.** `SnapshotSound` says nothing of the discovery that is under way, so the
invariant is about what that one has collected. `DiscoveryInv`: the agents answer for
`InitialNetwork`, whatever was edited, and what is collected is of it (`Collected`).
That is, every neighbor is a row of the agent that reported it, its name or its port
perhaps unheard; an address table is a beginning of the agent's; a port in a bridge
table is one of that table; a station is a client, without its VLAN or its access point
at the worst. For this the tables of the agents are shown to list what the network has
(`NeighborTables`, `HostTables`, `Stations`), each host and client once, from a lemma about
sorts (`Ordered`: sorting is one-to-one because two elements have different ranks). An edge
is then real because a name tells the one device or access point that has it (`Resolving`,
`ApsResolved`), because neighbors of the initial network list each other
(`NeighborsMutual`), and because a host has one port, so that it does not matter in which
of the two tables it was found (`BridgePorts`). The layers agree because places in the
tables and nodes of a VLAN correspond one to one.

`CompleteWhenHeard` is the other half, and needs to know what was *not* missed. `HeardInv`:
as long as nothing was lost, every row of the devices visited was heard (`HeardOf`), the
primary firewall is visited or queued, and so is every device that a visited one lists
(`Followed`). When the queue is empty all devices were visited, since the core is next to
the primary firewall and all others are next to the core (`AllFound`). What is built of
that is then compared with the network, node by node (`WholeNodes`) and link by link: each
link is an edge, and two edges have different ends, because the first report of a link is
the edge, whichever end it came from (`WholeDeviceLinks` to `WholeLinks`). The numbers of
the third layer are those that were configured because dealing them out to the floors,
the remainder to the first ones, leaves none out and none twice (`Dealt`, `WiredCounts`).

**Push.** `PushInv` types the polls and connections and says three things. Open
connections are listed, and one that a broadcast found broken never opens again, so the
removals hit none that is open (`ListInv`). What a broadcast has still to send to has
nothing newer (`TurnInv`), which a removal keeps, because it only moves connections
towards what is sent already. What an open connection lacks is on its way: a broadcast of
the current version has it ahead (`ReachInv`), unless the connection was accepted under
that version or the list shrank under its broadcast. The pages add variables and no step
of the server: `PagesSpec` implements `PushSpec`.

**Limiter.** `excess` alone is not inductive: what the bucket holds, or has earned and
not yet counted, may be spent at once. `BucketInv` says that both together are no more
than a full bucket.

**Requests.** `RequestsInv` says of each request that the calls it awaits are those of its
stage (`RequestInv`), that what it has heard is of this stage and those before, and that
something was heard of every stage that is over unless something failed; and that what it
has streamed of each network is what was heard of that (`StreamInv`). A union over the
networks of what each partial answer draws is then what the last answer draws from all
lists, in which the order of the networks only tells the first of two reports of a link,
and both are the same pair. For `RoutesAgree`, a request of which nothing was refused has
heard of all that it asked (`AllHeard`), and the refresh asks all networks that the other
does (`Covers`, `SameAsked`). Links are asked for each network that has devices (`LinksAsked`),
and what was streamed of a network is what its list draws alone (`LinksStreamed`), whichever
report of a link the last answer keeps. The subnets of a network, and the routes that join
two of them, depend on the lists of the networks in question and not on the others, which the
refresh may have beside them (`SameL3`).

**Snapshot cache.** `StoredIsOneSave` is about the committed tables and not inductive:
`Commit` publishes whatever the connection sees. `CacheInv` says what that is. A saver
that is at work holds the lock, so there is at most one (`Locked`); the tables are one
snapshot while it has not written the first of them, and are its own snapshot as far
as it has come (`Progress`, `AsFarAs`), so that all are at the commit; and they are
those on disk when nobody is at work, whether the last save committed, was refused and
rolled back, or died. `QuietInv` adds, for `QuietLoads`, what a load that met no save has
read so far.

**Meraki page.** The page does to the tables no more than `Begin` and the reads of a
loader, for which `CacheInv` is already proved. `EntriesOfTheirSites` needs all the
places a cache goes through: `Kept` (the cache, its copy in `localStorage`, the bodies
on their way) and `Tabled` (what a saver writes, the tables it writes to, what a loader
has seen), and that a step moves a cache from one to another or stores under a site what
was filtered by it. For the overlay, `OverlayInv` says that it is shown for the very task
that `abortControllerRef` holds: whatever takes the controller away clears the flag too.
`ShownInv` adds to these that, while a site is shown or about to be, every refresh that
draws is the site's, and that what a refresh of a site has gathered is of it; a selection
finds the task to abort in the controller as long as nothing has strayed.

### 4.3 What is only model-checked

* Liveness (`SweepsUnderWayEnd`, `EverythingComesToRest`, `PagesConverge`,
  `SnapshotRecovers`, `Recovers`, `RequestsEnd`): fairness and `ENABLED` are beyond the prover.
* `AntiDriftAlwaysWrites`.
* `ReportsAgree`, `SecretsShowAsRotations`: `Redactor` and `DiffEngine` are the two modules
  with `RECURSIVE` operators; they are checked on the trees of `Readers.cfg`, and nothing
  is proved about `ConfigLibrary`, which uses them.

## 5. What is not modelled

* In what is modelled: payloads, names, logging, progress messages and HTTP
  status codes; `name_hint` and `enabled_hint`; the order of jobs within a sweep
  (any order); an organisation that changes its composition during a sweep; the
  `l3` half of a topology in `TopologyPages`, which is fetched, sent and drawn like
  `l2`; in `MerakiPage`, the details of devices, the drill-down, the other data
  sources and `useMerakiSites`, which fetches once.
* Routes that ask the Dashboard and read the history in one go (the list of
  entities, the grouping of device scores by network), the pages of change events,
  and `_get_paginated`.
* *Configuration hub* (`routes/config.py:925-958`): it copies the set of its clients
  before it sends, and no other state depends on its messages.
* *Configuration browser* (`useOrgDiff.ts`, `useNetworkCompare.ts`): hooks that show
  what is answered last; no document says of which question that must be.
* *Endpoints catalog*: tables of endpoints and their expansion into jobs, which the
  models take as constants.
* *New Relic entities* (`create_*.py`, `scheduler.py`): one-shot scripts over one read.
* Schema creation, device profiles, rendering and the nerdpack: tables, layout and
  drawing; they have no state whose order matters.

## 6. Plan

Done: the modules of section 2.

Left, in this order:

1. Proofs: `AntiDriftAlwaysWrites`; `ReportsAgree` over recursive functions instead of
   `RECURSIVE` operators.
2. Mounting and unmounting of pages in `TopologyPages`: the socket that the cleanup
   of `useWebSocket.ts` opens again.
3. An organisation whose keys change between a start and a resumption; the expansion of
   the endpoints catalog.
4. `_get_paginated`, the pages of change events, the configuration hub.

## 7. Running

    tlc -workers 2 -config Sweeps.cfg MCConfigSweeps.tla
    tlapm SimulationProofs.tla

Each `.cfg` begins with a line on its instance; `runs` in `PROJECT.json` pairs
configurations with modules.
