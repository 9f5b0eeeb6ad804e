---------------------------- MODULE SnapshotCache ----------------------------
(***************************************************************************)
(* The topology cache of server/db.py: one SQLite connection that all      *)
(* threads of the pool share, writes serialised by _write_lock.            *)
(*                                                                         *)
(* A statement is atomic and between two of them any thread may run.  What *)
(* an open transaction wrote is seen by every statement, whoever runs it:  *)
(* it is the same connection.  A table holds the rows of one snapshot,     *)
(* named by it, or Nothing; orgs only grows.                               *)
(***************************************************************************)
EXTENDS Naturals, TLC

CONSTANTS Savers, Loaders,
          Snapshots,     (* what pages save; .org may be Nothing              *)
          Broken,        (* snapshots with a row that the schema refuses      *)
          Nothing,
          MaxCrashes, MaxSites

ASSUME CacheAssumption == Nothing \notin Savers

VARIABLES durable,  (* the tables as they were committed                      *)
          work,     (* the tables as the connection sees them                 *)
          holder,   (* the thread that has _write_lock, or Nothing            *)
          saver,    (* [at, snapshot] of each saver                           *)
          loader,   (* [at, seen] of each loader                              *)
          quiet,    (* loaders that met no save: a history                    *)
          crashes, siteSaves

vars == <<durable, work, holder, saver, loader, quiet, crashes, siteSaves>>

Empty == [orgs |-> {}, meta |-> Nothing, networks |-> Nothing, topology |-> Nothing, sites |-> 0]
Stored(s) == [orgs |-> {s.org} \ {Nothing}, meta |-> s, networks |-> s, topology |-> s, sites |-> 0]

Idle == [at |-> "idle", snapshot |-> Nothing]
Unread == [at |-> "idle", seen |-> Empty, org |-> Nothing]

Init ==
    /\ durable \in {Empty} \cup {Stored(s) : s \in Snapshots \ Broken}
    /\ work = durable /\ holder = Nothing
    /\ saver = [t \in Savers |-> Idle] /\ loader = [t \in Loaders |-> Unread]
    /\ quiet = {} /\ crashes = 0 /\ siteSaves = 0

-----------------------------------------------------------------------------
(***************************************************************************)
(* save_snapshot                                                           *)
(***************************************************************************)
Writing == {t \in Savers : saver[t].at # "idle"}

Step(t, at) == saver' = [saver EXCEPT ![t].at = at]

\* A slip: no transaction is begun, every statement commits.
WriteThrough(tables) == work' = tables /\ durable' = tables

Write(tables) == work' = tables /\ UNCHANGED durable

\* with _write_lock, BEGIN; a loader that is at work is not alone any more.
Begin(t, s) ==
    /\ saver[t].at = "idle" /\ holder = Nothing
    /\ holder' = t /\ saver' = [saver EXCEPT ![t] = [at |-> "org", snapshot |-> s]]
    /\ quiet' = {} /\ UNCHANGED <<durable, work, loader, crashes, siteSaves>>

Statement(t) ==
    LET s == saver[t].snapshot
    IN CASE saver[t].at = "org" -> Write([work EXCEPT !.orgs = @ \cup ({s.org} \ {Nothing})]) /\ Step(t, "meta")
         [] saver[t].at = "meta" -> Write([work EXCEPT !.meta = s]) /\ Step(t, "delete networks")
         [] saver[t].at = "delete networks" -> Write([work EXCEPT !.networks = Nothing]) /\ Step(t, "networks")
         [] saver[t].at = "networks" /\ s \notin Broken ->
              Write([work EXCEPT !.networks = s]) /\ Step(t, "delete topology")
         [] saver[t].at = "delete topology" -> Write([work EXCEPT !.topology = Nothing]) /\ Step(t, "topology")
         [] saver[t].at = "topology" -> Write([work EXCEPT !.topology = s]) /\ Step(t, "commit")
         [] OTHER -> FALSE

Save(t) == Statement(t) /\ UNCHANGED <<holder, loader, quiet, crashes, siteSaves>>

Released(t) == holder' = Nothing /\ saver' = [saver EXCEPT ![t] = Idle]

\* A slip: the error is raised and the transaction left open.
LeftOpen(t) == Released(t) /\ UNCHANGED work

\* A row was refused.
Rollback(t) == work' = durable /\ Released(t)

Refused(t) ==
    /\ saver[t].at = "networks" /\ saver[t].snapshot \in Broken
    /\ Rollback(t)
    /\ UNCHANGED <<durable, loader, quiet, crashes, siteSaves>>

Commit(t) ==
    /\ saver[t].at = "commit"
    /\ durable' = work /\ Released(t)
    /\ UNCHANGED <<work, loader, quiet, crashes, siteSaves>>

\* save_sites_snapshot: one statement under the lock, committed at once.
save_sites_snapshot ==
    /\ holder = Nothing /\ siteSaves < MaxSites /\ siteSaves' = siteSaves + 1
    /\ work' = [work EXCEPT !.sites = siteSaves'] /\ durable' = work'
    /\ UNCHANGED <<holder, saver, loader, quiet, crashes>>

-----------------------------------------------------------------------------
(***************************************************************************)
(* load_snapshot: four statements without the lock.                        *)
(***************************************************************************)
Read(t, at, seen, org) ==
    /\ loader' = [loader EXCEPT ![t] = [at |-> at, seen |-> seen, org |-> org]]
    /\ UNCHANGED <<durable, work, holder, saver, crashes, siteSaves>>

ReadMeta(t) ==
    /\ loader[t].at = "idle"
    /\ quiet' = IF Writing = {} THEN quiet \cup {t} ELSE quiet \ {t}
    /\ Read(t, "org", [Empty EXCEPT !.meta = work.meta], Nothing)

\* SELECT id FROM orgs LIMIT 1: any of them.
ReadOrg(t) ==
    /\ loader[t].at = "org" /\ UNCHANGED quiet
    /\ \E o \in IF work.orgs = {} THEN {Nothing} ELSE work.orgs : Read(t, "networks", loader[t].seen, o)

ReadNetworks(t) ==
    /\ loader[t].at = "networks" /\ UNCHANGED quiet
    /\ Read(t, "topology", [loader[t].seen EXCEPT !.networks = work.networks], loader[t].org)

ReadTopology(t) ==
    /\ loader[t].at = "topology" /\ UNCHANGED quiet
    /\ Read(t, "loaded", [loader[t].seen EXCEPT !.topology = work.topology], loader[t].org)

\* The answer is sent, or none: a cache with no network and no topology.
Answer(t) ==
    /\ loader[t].at = "loaded" /\ quiet' = quiet \ {t}
    /\ Read(t, "idle", Empty, Nothing)

-----------------------------------------------------------------------------
\* The server dies: what was not committed is gone.
Crash ==
    /\ crashes < MaxCrashes /\ crashes' = crashes + 1
    /\ work' = durable /\ holder' = Nothing
    /\ saver' = [t \in Savers |-> Idle] /\ loader' = [t \in Loaders |-> Unread] /\ quiet' = {}
    /\ UNCHANGED <<durable, siteSaves>>

SaverStep(t) == Save(t) \/ Refused(t) \/ Commit(t)

Next ==
    \/ \E t \in Savers : SaverStep(t) \/ \E s \in Snapshots : Begin(t, s)
    \/ \E t \in Loaders : ReadMeta(t) \/ ReadOrg(t) \/ ReadNetworks(t) \/ ReadTopology(t) \/ Answer(t)
    \/ save_sites_snapshot
    \/ Crash

Spec == Init /\ [][Next]_vars

-----------------------------------------------------------------------------
Whole(tables) == tables.meta = tables.networks /\ tables.networks = tables.topology

\* Whatever a save meets, a refused row, a crash or another save, what is on
\* disk is one snapshot, whole.
StoredIsOneSave == Whole(durable)

\* A load that met no save returns what is on disk, however the saves before
\* it ended.
QuietLoads ==
    \A t \in quiet :
        loader[t].at = "loaded" =>
            /\ loader[t].seen.meta = durable.meta
            /\ loader[t].seen.networks = durable.networks
            /\ loader[t].seen.topology = durable.topology

\* Refuted: reads need no lock, a load returns one snapshot.
LoadsWhole == \A t \in Loaders : loader[t].at = "loaded" => Whole(loader[t].seen)

\* Refuted: a load that met no save names the organization of its snapshot.
OrgOfSnapshot ==
    \A t \in quiet : loader[t].at = "loaded" /\ loader[t].seen.meta # Nothing => loader[t].org = loader[t].seen.meta.org
=============================================================================
