------------------------------ MODULE ConfigIngest ------------------------------
(***************************************************************************)
(* nr_ingest/config_ingest.py: a script that copies the database and       *)
(* pushes to New Relic the newest payloads and the changes since the last  *)
(* push, in batches that New Relic takes or refuses; and                   *)
(* delete_old_config_events.py, which empties it.                          *)
(***************************************************************************)
EXTENDS ConfigHistory

CONSTANTS BatchSize,  (* events of a batch                        *)
          Overrides,  (* the seconds --since may name             *)
          SortsBefore(_, _)  (* ORDER BY entity_type, entity_id, config_area *)

\* No time: before every second.
Never == -1

VARIABLES push,    \* the run of the script, in progress or the last
          marker,  \* the second of the last successful push, in a file
          nr,      \* what New Relic holds
          pushes   \* runs of the scripts so far

ingestVars == <<push, marker, nr, pushes>>

\* copied: the rows of the copy; since: where changes begin; queue: the events
\* left, each a type and a row.  History: looked, the changes in New Relic were
\* looked up; purged, New Relic was emptied meanwhile.
NoPush == [at |-> "idle", copied |-> 0, since |-> Never, queue |-> {},
           looked |-> FALSE, purged |-> FALSE]

\* latest: latest(config_hash) by entity and area; stamp: max(timestamp) of
\* the snapshots; changes: the rows of the changes that came.  History: twice,
\* those that came again from a run that had looked them up.
EmptyNr == [latest |-> <<>>, stamp |-> Never, changes |-> {}, twice |-> {}]

IngestInit == push = NoPush /\ marker = Never /\ nr = EmptyNr /\ pushes = 0

-----------------------------------------------------------------------------
\* How New Relic tells payloads apart.
Facet(k) == <<k.entity, k.area>>

\* The id of an entity tells its type; that of an SSID ends with its sub key
\* (endpoints_catalog.py).
ASSUME IngestAssumption ==
    /\ \A k, l \in Keys : Facet(k) = Facet(l) => k = l
    /\ BatchSize \in Nat \ {0} /\ Overrides \subseteq Nat

\* build_snapshot_events: the newest row of each key in a copy of n rows.
Newest(n) ==
    {i \in 1 .. n : \A j \in i + 1 .. n : obs[j].key # obs[i].key}

\* A slip: payloads that New Relic ever had are filtered, not the latest ones.
filter_known(rows, latest) == {i \in rows : Facet(obs[i].key) \notin DOMAIN latest}

filter_new_snapshots(rows, latest) ==
    {i \in rows : ~(/\ Facet(obs[i].key) \in DOMAIN latest
                    /\ latest[Facet(obs[i].key)] = obs[i].hash)}

\* The row before i of the same key; its hash is the from_hash of the change.
Prior(i) ==
    LET older == {j \in 1 .. i - 1 : obs[j].key = obs[i].key}
    IN IF older = {} THEN {} ELSE {Max(older)}

\* build_change_events, in a copy of n rows.
Changes(n, since) ==
    {i \in 1 .. n : /\ \E j \in Prior(i) : obs[j].hash # obs[i].hash
                    /\ seconds[i] > since}

\* _make_change_id.
change_id(i) == <<Facet(obs[i].key), {obs[j].hash : j \in Prior(i)}, obs[i].hash>>

Ids(rows) == {change_id(i) : i \in rows}

\* The ids New Relic holds.
Held == Ids(nr.changes)

\* A slip: changes are not looked up in New Relic.
NotHeld(rows, held) == rows

\* The changes that New Relic does not hold.
Fresh(rows, held) == {i \in rows : change_id(i) \notin held}

Events(type, rows) == {[type |-> type, row |-> i] : i \in rows}

\* main, up to the pushes.  override: --since, or Never.  key: NR_USER_API_KEY
\* is set, and each query is answered or fails.  A New Relic without a stamp
\* is taken for empty.
Start(override, key, stampFails, hashesFail, idsFail) ==
    /\ push.at # "push" /\ pushes < bounds.pushes
    /\ ~key => ~stampFails /\ ~hashesFail /\ ~idsFail
    /\ LET stamp == IF key /\ ~stampFails THEN nr.stamp ELSE Never
           since == CASE override # Never -> override
                      [] override = Never /\ stamp # Never -> stamp
                      [] OTHER -> IF key THEN Never ELSE marker
           latest == IF key /\ ~hashesFail THEN nr.latest ELSE <<>>
           held == IF key /\ ~idsFail THEN Held ELSE {}
       IN push' = [at |-> "push", copied |-> Len(obs), since |-> since,
                   queue |-> Events("MerakiConfigSnapshot",
                                    filter_new_snapshots(Newest(Len(obs)), latest))
                             \cup Events("MerakiConfigChange", Fresh(Changes(Len(obs), since), held)),
                   looked |-> key /\ ~idsFail, purged |-> FALSE]
    /\ pushes' = pushes + 1
    /\ UNCHANGED <<marker, nr>>

\* Snapshots go before changes; among themselves snapshots go by entity and
\* area, and changes by the time they were observed.
Precedes(e, f) ==
    \/ e.type = "MerakiConfigSnapshot" /\ f.type = "MerakiConfigChange"
    \/ e.type = "MerakiConfigSnapshot" /\ f.type = e.type /\ SortsBefore(obs[e.row].key, obs[f.row].key)
    \/ e.type = "MerakiConfigChange" /\ f.type = e.type /\ e.row < f.row

\* The first events of the queue.
Batch == {e \in push.queue : Cardinality({f \in push.queue : Precedes(f, e)}) < BatchSize}

Sent(type) == {e.row : e \in {f \in Batch : f.type = type}}

\* New Relic takes the events of a batch, which has one snapshot at most of a
\* facet.
Taken ==
    LET snapshots == Sent("MerakiConfigSnapshot")
        changes == Sent("MerakiConfigChange")
        shown == {Facet(obs[i].key) : i \in snapshots}
        Newer(f) == obs[CHOOSE i \in snapshots : Facet(obs[i].key) = f].hash
    IN [latest |-> [f \in shown \cup DOMAIN nr.latest |-> IF f \in shown THEN Newer(f) ELSE nr.latest[f]],
        stamp |-> IF snapshots = {} THEN nr.stamp ELSE now,
        changes |-> nr.changes \cup changes,
        twice |-> IF push.looked THEN nr.twice \cup (nr.changes \cap changes) ELSE nr.twice]

\* The next batch is accepted.
post_events_batch ==
    /\ push.at = "push" /\ push.queue # {}
    /\ nr' = Taken
    /\ push' = [push EXCEPT !.queue = @ \ Batch]
    /\ UNCHANGED <<marker, pushes>>

\* A batch is refused, or taken and its answer lost: the script ends.
BatchFails ==
    /\ push.at = "push" /\ push.queue # {}
    /\ nr' \in {nr, Taken}
    /\ push' = NoPush
    /\ UNCHANGED <<marker, pushes>>

\* Nothing is left to push: the marker is written and the script ends.
Finish ==
    /\ push.at = "push" /\ push.queue = {}
    /\ marker' = now
    /\ push' = [push EXCEPT !.at = "done"]
    /\ UNCHANGED <<nr, pushes>>

EventTypes == {"MerakiConfigSnapshot", "MerakiConfigChange"}

\* delete_old_config_events.py has one job for each type; New Relic has carried
\* out those for these types, and the others failed.
Purge(types) ==
    /\ nr # EmptyNr /\ pushes < bounds.pushes
    /\ pushes' = pushes + 1
    /\ LET snapshots == IF "MerakiConfigSnapshot" \in types THEN EmptyNr ELSE nr
           changes == IF "MerakiConfigChange" \in types THEN EmptyNr ELSE nr
       IN nr' = [latest |-> snapshots.latest, stamp |-> snapshots.stamp,
                 changes |-> changes.changes, twice |-> changes.twice]
    /\ push' = [push EXCEPT !.purged = TRUE]
    /\ UNCHANGED marker

Ingest ==
    \/ \E override \in {Never} \cup {s \in Overrides : s <= now}, key, f, g, h \in BOOLEAN :
          Start(override, key, f, g, h)
    \/ post_events_batch \/ BatchFails \/ Finish
    \/ \E types \in (SUBSET EventTypes) \ {{}} : Purge(types)

-----------------------------------------------------------------------------
(***************************************************************************)
(* Properties.                                                             *)
(***************************************************************************)

\* The rows of a copy that differ from the row before them.
ChangesOf(n) ==
    {i \in 1 .. n : \E j \in 1 .. i - 1 :
        /\ obs[j].key = obs[i].key /\ obs[j].hash # obs[i].hash
        /\ \A x \in j + 1 .. i - 1 : obs[x].key # obs[i].key}

\* New Relic has the newest payload of each endpoint of the copy.
MirrorsLatest ==
    \A i \in 1 .. push.copied :
        (\A j \in i + 1 .. push.copied : obs[j].key # obs[i].key) =>
            Facet(obs[i].key) \in DOMAIN nr.latest /\ nr.latest[Facet(obs[i].key)] = obs[i].hash

\* New Relic has every change of the copy since the time the run began at.
ChangesArrived ==
    \A i \in ChangesOf(push.copied) : seconds[i] > push.since => change_id(i) \in Held

\* A run that ends well has delivered what it was to deliver, whatever runs
\* before it left undone, and all changes when it found New Relic empty.
PushDelivers == push.at = "done" /\ ~push.purged => MirrorsLatest /\ ChangesArrived

\* A change is not sent again by a run that could look up what New Relic has,
\* although answers are lost and runs fail half-way.
ChangesSentOnce == nr.twice = {}

-----------------------------------------------------------------------------
(***************************************************************************)
(* What the documentation says and the code does not do.                   *)
(***************************************************************************)

\* main: the change history is fetched "so the history tab is always
\* populated after a gap of any length".  A run begins at the time of the
\* newest snapshot, whether or not the changes before it were sent.
HistoryPopulated ==
    push.at = "done" /\ ~push.purged /\ Overrides = {} =>
        \A i \in ChangesOf(push.copied) : change_id(i) \in Held
=============================================================================
