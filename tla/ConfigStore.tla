----------------------------- MODULE ConfigStore -----------------------------
(***************************************************************************)
(* The observation table of the configuration collector, as the data       *)
(* access layer server/config_collector/store.py reads and writes it.      *)
(*                                                                         *)
(* A row of config_observations is a record; the table is the sequence of  *)
(* its rows in insertion order.  "Latest" is by observed_at in the code    *)
(* and by position here: every row is stamped with the clock at its        *)
(* insertion, and the clock is taken to move forward between two inserts.  *)
(* A key stands for (entity_type, entity_id, config_area, sub_key) inside  *)
(* one organisation; name_hint and enabled_hint are left out.              *)
(***************************************************************************)
EXTENDS Integers, Sequences

CONSTANTS Keys,     (* what one Meraki endpoint configures: a job's key     *)
          Hashes    (* canonical hashes of redacted payloads                *)

\* sweep_run_id IS NULL, change_event_id IS NULL: the row was not written by
\* a sweep, not because of a change event.
NoRun == 0
NoEvent == 0

\* A slip: a confirmation is deduplicated like any other row.
WRITE_UNLESS_CONFIRMED == {"anti_drift_discrepancy", "manual_refresh"}

\* The source_event values insert_observation_if_changed never skips.
ALWAYS_WRITE_SOURCE_EVENTS ==
    {"anti_drift_confirm", "anti_drift_discrepancy", "manual_refresh"}

SourceEvents == ALWAYS_WRITE_SOURCE_EVENTS \cup {"baseline", "change_log"}

Row == [key : Keys, hash : Hashes, source : SourceEvents, run : Nat, event : Nat]

-----------------------------------------------------------------------------
\* The positions at or below n that hold a row of k.
RowsUpTo(obs, k, n) == {i \in DOMAIN obs : i <= n /\ obs[i].key = k}

\* i is the last row of k at or below n.
IsLatestUpTo(obs, k, n, i) ==
    /\ i \in RowsUpTo(obs, k, n)
    /\ \A j \in RowsUpTo(obs, k, n) : j <= i

\* A slip of the query: the latest row of the table, whatever its endpoint.
LastHashIs(obs, k, h) == Len(obs) > 0 /\ obs[Len(obs)].hash = h

\* get_latest_observation finds a row of k and that row has hash h.
LatestHashIs(obs, k, h) ==
    \E i \in DOMAIN obs : IsLatestUpTo(obs, k, Len(obs), i) /\ obs[i].hash = h

\* A slip: nothing is deduplicated.
InsertAlways(obs, row) == Append(obs, row)

\* The table after insert_observation_if_changed is called with row.
insert_observation_if_changed(obs, row) ==
    IF row.source \notin ALWAYS_WRITE_SOURCE_EVENTS
         /\ LatestHashIs(obs, row.key, row.hash)
      THEN obs
      ELSE Append(obs, row)

\* The keys with at least one row under sweep r; resumption skips them.
list_completed_entity_areas(obs, r) ==
    {obs[i].key : i \in {j \in DOMAIN obs : obs[j].run = r}}

-----------------------------------------------------------------------------
(***************************************************************************)
(* What the history of a key must look like.                               *)
(***************************************************************************)

\* The row at i repeats the hash of the previous row of its key.
RepeatsPrevious(obs, i) ==
    \E j \in DOMAIN obs :
        /\ IsLatestUpTo(obs, obs[i].key, i - 1, j)
        /\ obs[j].hash = obs[i].hash

\* A row that baseline or change_log wrote records a change: the previous
\* row of the key, if there is one, has another hash.
RowsRecordChanges(obs) ==
    \A i \in DOMAIN obs :
        obs[i].source \notin ALWAYS_WRITE_SOURCE_EVENTS => ~RepeatsPrevious(obs, i)

\* The label of an anti-drift row agrees with the row before it.
DriftLabelsAgree(obs) ==
    \A i \in DOMAIN obs :
        /\ obs[i].source = "anti_drift_confirm" => RepeatsPrevious(obs, i)
        /\ obs[i].source = "anti_drift_discrepancy" => ~RepeatsPrevious(obs, i)
=============================================================================
