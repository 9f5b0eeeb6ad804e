--------------------------- MODULE MerakiPageProofs ---------------------------
(***************************************************************************)
(* What is on disk is one snapshot, whole, and what is loaded was on disk: *)
(* for any number of savers, of loaders and of crashes, and any snapshots; *)
(* and the page over those tables: what it stores is one snapshot, whole,  *)
(* what it shows is the selected site, and the entries of a site are of    *)
(* that site, for any number of sites, of refreshes at work and of acts of *)
(* the user.                                                               *)
(***************************************************************************)
EXTENDS MerakiPage, FiniteSetTheorems, TLAPS

Fields == {"orgs", "meta", "networks", "topology", "sites"}
Stages == {"idle", "org", "meta", "delete networks", "networks", "delete topology", "topology", "commit"}

IsTables(w) == w = [f \in Fields |-> w[f]]

Types ==
    /\ IsTables(work)
    /\ saver = [t \in Savers |-> saver[t]]
    /\ \A t \in Savers : /\ saver[t] = [at |-> saver[t].at, snapshot |-> saver[t].snapshot]
                         /\ saver[t].at \in Stages

\* A saver is at work only while it has the lock.
Locked == \A t \in Savers : saver[t].at # "idle" => holder = t

\* The tables are one snapshot until a saver writes them, and are that of the
\* saver as far as it has come.
AsFarAs(t) ==
    /\ saver[t].at \in {"delete networks", "networks", "delete topology", "topology", "commit"} =>
           work.meta = saver[t].snapshot
    /\ saver[t].at \in {"delete topology", "topology", "commit"} => work.networks = saver[t].snapshot
    /\ saver[t].at = "commit" => work.topology = saver[t].snapshot

Progress ==
    /\ (\A t \in Savers : saver[t].at \in {"idle", "org", "meta"}) => Whole(work)
    /\ \A t \in Savers : AsFarAs(t)

CacheInv == Types /\ Locked /\ IsTables(durable) /\ Whole(durable) /\ Progress

-----------------------------------------------------------------------------
\* A statement writes one table and leaves the others, ...
LEMMA Columns ==
    ASSUME NEW w, IsTables(w), NEW v
    PROVE  /\ IsTables([w EXCEPT !.orgs = v]) /\ [w EXCEPT !.orgs = v].meta = w.meta
           /\ [w EXCEPT !.orgs = v].networks = w.networks /\ [w EXCEPT !.orgs = v].topology = w.topology
           /\ IsTables([w EXCEPT !.sites = v]) /\ [w EXCEPT !.sites = v].meta = w.meta
           /\ [w EXCEPT !.sites = v].networks = w.networks /\ [w EXCEPT !.sites = v].topology = w.topology
  BY DEF IsTables, Fields

\* the last one included.
LEMMA LastColumn ==
    ASSUME NEW w, IsTables(w), NEW v
    PROVE  /\ IsTables([w EXCEPT !.topology = v]) /\ [w EXCEPT !.topology = v].topology = v
           /\ [w EXCEPT !.topology = v].meta = w.meta /\ [w EXCEPT !.topology = v].networks = w.networks
  BY DEF IsTables, Fields

\* The same of the two that a load reads first.
LEMMA OneColumn ==
    ASSUME NEW w, IsTables(w), NEW v
    PROVE  /\ IsTables([w EXCEPT !.meta = v]) /\ [w EXCEPT !.meta = v].meta = v
           /\ IsTables([w EXCEPT !.networks = v]) /\ [w EXCEPT !.networks = v].networks = v
           /\ [w EXCEPT !.networks = v].meta = w.meta
  BY DEF IsTables, Fields

\* The columns that make a snapshot are the same without these two.
LEMMA WholeStill ==
    ASSUME NEW w, IsTables(w), Whole(w), NEW v
    PROVE  /\ IsTables([w EXCEPT !.orgs = v]) /\ Whole([w EXCEPT !.orgs = v])
           /\ IsTables([w EXCEPT !.sites = v]) /\ Whole([w EXCEPT !.sites = v])
  <1> DEFINE o == [w EXCEPT !.orgs = v]
             i == [w EXCEPT !.sites = v]
  <1>1. /\ o.meta = w.meta /\ o.networks = w.networks /\ o.topology = w.topology
        /\ i.meta = w.meta /\ i.networks = w.networks /\ i.topology = w.topology
    BY Columns
  <1>2. Whole(o) /\ Whole(i)
    BY <1>1 DEF Whole
  <1> QED BY <1>2, Columns

\* A saver goes on with the snapshot it has.
LEMMA Saver ==
    ASSUME NEW r, r = [at |-> r.at, snapshot |-> r.snapshot], NEW v
    PROVE  /\ [r EXCEPT !.at = v] = [at |-> v, snapshot |-> r.snapshot]
           /\ [r EXCEPT !.at = v].at = v /\ [r EXCEPT !.at = v].snapshot = r.snapshot
  OBVIOUS

\* A saver at rest is one.
LEMMA Rest == Idle = [at |-> Idle.at, snapshot |-> Idle.snapshot] /\ Idle.at = "idle"
  BY DEF Idle

\* The tables begin with one snapshot, or none.
LEMMA Starting == Init => CacheInv
  <1> SUFFICES ASSUME Init PROVE CacheInv
    OBVIOUS
  <1>1. IsTables(Empty) /\ Whole(Empty)
    BY DEF Empty, IsTables, Fields, Whole
  <1>2. ASSUME NEW s PROVE IsTables(Stored(s)) /\ Whole(Stored(s))
    BY DEF Stored, IsTables, Fields, Whole
  <1>3. IsTables(durable) /\ Whole(durable) /\ work = durable
    BY <1>1, <1>2 DEF Init
  <1>4. \A t \in Savers : saver[t] = Idle
    BY DEF Init
  <1>5. Types
    BY <1>3, <1>4 DEF Init, Types, Idle, Stages
  <1>6. \A t \in Savers : saver[t].at = "idle"
    BY <1>4, Rest
  <1>7. Locked /\ \A t \in Savers : AsFarAs(t)
    BY <1>6 DEF Locked, AsFarAs
  <1> QED BY <1>3, <1>5, <1>7 DEF CacheInv, Progress

\* A step that leaves the tables and the savers alone.
LEMMA Idling ==
    ASSUME CacheInv, UNCHANGED <<durable, work, holder, saver>>
    PROVE  CacheInv'
  BY DEF CacheInv, Types, IsTables, Fields, Locked, Progress, AsFarAs, Whole

\* A save begins when no other is at work.
LEMMA Beginning ==
    ASSUME CacheAssumption, CacheInv, NEW t \in Savers, NEW s, Begin(t, s)
    PROVE  CacheInv'
  <1>1. \A u \in Savers : saver[u].at = "idle"
    BY DEF CacheInv, Locked, Begin, CacheAssumption
  <1>2. \A u \in Savers : saver'[u] = IF u = t THEN [at |-> "org", snapshot |-> s] ELSE saver[u]
    BY DEF CacheInv, Types, Begin
  <1>3. \A u \in Savers : saver'[u].at \in {"idle", "org"} /\ (saver'[u].at = "org" => u = t)
    BY <1>1, <1>2
  <1>4. work' = work /\ durable' = durable /\ holder' = t
    BY DEF Begin
  <1>5. saver' = [u \in Savers |-> saver'[u]]
    BY DEF CacheInv, Types, Begin
  <1>6. Types'
    <2>1. \A u \in Savers : saver'[u] = [at |-> saver'[u].at, snapshot |-> saver'[u].snapshot]
      BY <1>2 DEF CacheInv, Types
    <2>2. IsTables(work)'
      BY <1>4 DEF CacheInv, Types, IsTables
    <2> QED BY <1>3, <1>5, <2>1, <2>2 DEF Types, Stages
  <1>7. Whole(work)
    BY <1>1 DEF CacheInv, Progress
  <1>8. Locked' /\ Progress'
    BY <1>3, <1>4, <1>7 DEF Locked, Progress, AsFarAs, Whole
  <1> QED BY <1>4, <1>6, <1>8 DEF CacheInv, IsTables, Fields, Whole

\* What a saver at stage at does to the tables, on its way to stage next.
LEMMA Stepping ==
    ASSUME CacheInv, NEW t \in Savers, saver[t].at # "idle", NEW w, IsTables(w), work' = w,
           NEW next \in Stages \ {"idle"}, Step(t, next), UNCHANGED <<durable, holder>>,
           next \in {"org", "meta"} => Whole(w),
           next \in {"delete networks", "networks", "delete topology", "topology", "commit"} =>
               w.meta = saver[t].snapshot,
           next \in {"delete topology", "topology", "commit"} => w.networks = saver[t].snapshot,
           next = "commit" => w.topology = saver[t].snapshot
    PROVE  CacheInv'
  <1>0. \A u \in Savers : saver'[u] = IF u = t THEN [saver[t] EXCEPT !.at = next] ELSE saver[u]
    BY DEF CacheInv, Types, Step
  <1>a. saver[t] = [at |-> saver[t].at, snapshot |-> saver[t].snapshot]
    BY DEF CacheInv, Types
  <1>b. [saver[t] EXCEPT !.at = next].at = next /\ [saver[t] EXCEPT !.at = next].snapshot = saver[t].snapshot
    BY <1>a, Saver
  <1>1. \A u \in Savers : saver'[u].at = (IF u = t THEN next ELSE saver[u].at) /\ saver'[u].snapshot = saver[u].snapshot
    BY <1>0, <1>b
  <1>2. \A u \in Savers \ {t} : saver[u].at = "idle"
    BY DEF CacheInv, Locked
  <1>3. Types'
    BY <1>1 DEF CacheInv, Types, Step, IsTables, Fields
  <1>4. Locked'
    BY <1>1, <1>2 DEF CacheInv, Locked
  <1>5. \A u \in Savers : AsFarAs(u)'
    BY <1>1, <1>2 DEF AsFarAs
  <1>6. Progress'
    BY <1>1, <1>5 DEF Progress, Whole, Stages
  <1> QED BY <1>3, <1>4, <1>6 DEF CacheInv, IsTables, Fields, Whole

\* A statement brings the tables as far as their saver.
LEMMA Saving ==
    ASSUME CacheInv, NEW t \in Savers, Save(t)
    PROVE  CacheInv'
  <1> DEFINE s == saver[t].snapshot
  <1>0. UNCHANGED <<durable, holder>> /\ Statement(t) /\ IsTables(work) /\ AsFarAs(t)
    BY DEF Save, Statement, Write, CacheInv, Types, Progress
  <1>a. \A u \in Savers : saver[u].at # "idle" /\ saver[t].at # "idle" => u = t
    BY DEF CacheInv, Locked
  <1>1. CASE saver[t].at = "org"
    <2>1. work' = [work EXCEPT !.orgs = @ \cup ({s.org} \ {Nothing})] /\ Step(t, "meta")
      BY <1>0, <1>1 DEF Statement, Write
    <2>2. Whole(work)
      BY <1>1, <1>a DEF CacheInv, Progress
    <2>3. IsTables(work') /\ Whole(work')
      BY <1>0, <2>1, <2>2, WholeStill
    <2> QED BY <1>0, <1>1, <2>1, <2>3, Stepping DEF Stages
  <1>2. CASE saver[t].at = "meta"
    <2>1. work' = [work EXCEPT !.meta = s] /\ Step(t, "delete networks")
      BY <1>0, <1>2 DEF Statement, Write
    <2>2. IsTables(work') /\ work'.meta = s
      BY <1>0, <2>1, OneColumn
    <2> QED BY <1>0, <1>2, <2>1, <2>2, Stepping DEF Stages
  <1>3. CASE saver[t].at = "delete networks"
    <2>1. work' = [work EXCEPT !.networks = Nothing] /\ Step(t, "networks")
      BY <1>0, <1>3 DEF Statement, Write
    <2>2. work.meta = s
      BY <1>0, <1>3 DEF AsFarAs
    <2>3. IsTables(work') /\ work'.meta = work.meta
      BY <1>0, <2>1, OneColumn
    <2> QED BY <1>0, <1>3, <2>1, <2>2, <2>3, Stepping DEF Stages
  <1>4. CASE saver[t].at = "networks"
    <2>1. work' = [work EXCEPT !.networks = s] /\ Step(t, "delete topology")
      BY <1>0, <1>4 DEF Statement, Write
    <2>2. work.meta = s
      BY <1>0, <1>4 DEF AsFarAs
    <2>3. IsTables(work') /\ work'.meta = work.meta /\ work'.networks = s
      BY <1>0, <2>1, OneColumn
    <2> QED BY <1>0, <1>4, <2>1, <2>2, <2>3, Stepping DEF Stages
  <1>5. CASE saver[t].at = "delete topology"
    <2>1. work' = [work EXCEPT !.topology = Nothing] /\ Step(t, "topology")
      BY <1>0, <1>5 DEF Statement, Write
    <2>2. work.meta = s /\ work.networks = s
      BY <1>0, <1>5 DEF AsFarAs
    <2>3. IsTables(work') /\ work'.meta = work.meta /\ work'.networks = work.networks
      BY <1>0, <2>1, LastColumn
    <2> QED BY <1>0, <1>5, <2>1, <2>2, <2>3, Stepping DEF Stages
  <1>6. CASE saver[t].at = "topology"
    <2>1. work' = [work EXCEPT !.topology = s] /\ Step(t, "commit")
      BY <1>0, <1>6 DEF Statement, Write
    <2>2. work.meta = s /\ work.networks = s
      BY <1>0, <1>6 DEF AsFarAs
    <2>3. /\ IsTables(work') /\ work'.topology = s
          /\ work'.meta = work.meta /\ work'.networks = work.networks
      BY <1>0, <2>1, LastColumn
    <2> QED BY <1>0, <1>6, <2>1, <2>2, <2>3, Stepping DEF Stages
  <1> QED BY <1>0, <1>1, <1>2, <1>3, <1>4, <1>5, <1>6 DEF Statement

\* A saver that is done, or refused, leaves tables that are whole.
LEMMA Releasing ==
    ASSUME CacheInv, NEW t \in Savers, saver[t].at # "idle", Released(t),
           IsTables(work'), IsTables(durable'), Whole(work'), Whole(durable')
    PROVE  CacheInv'
  <1>1. \A u \in Savers \ {t} : saver[u].at = "idle"
    BY DEF CacheInv, Locked
  <1>2. \A u \in Savers : saver'[u] = IF u = t THEN Idle ELSE saver[u]
    BY DEF CacheInv, Types, Released
  <1>3. \A u \in Savers : saver'[u].at = "idle"
    BY <1>1, <1>2, Rest
  <1>4. Types'
    <2>1. saver' = [u \in Savers |-> saver'[u]]
      BY DEF CacheInv, Types, Released
    <2> QED BY <1>2, <2>1, Rest DEF CacheInv, Types, IsTables, Fields, Stages
  <1>5. Locked' /\ Progress'
    BY <1>3 DEF Locked, Progress, AsFarAs, Whole
  <1> QED BY <1>4, <1>5 DEF CacheInv, IsTables, Fields, Whole

\* A commit publishes one snapshot; a rollback leaves the one on disk.
LEMMA Ending ==
    ASSUME CacheInv, NEW t \in Savers, Refused(t) \/ Commit(t)
    PROVE  CacheInv'
  <1>1. CASE Refused(t)
    <2>1. saver[t].at # "idle" /\ Released(t) /\ work' = durable /\ durable' = durable
      BY <1>1 DEF Refused, Rollback
    <2> QED BY <2>1, Releasing DEF CacheInv
  <1>2. CASE Commit(t)
    <2>1. saver[t].at = "commit" /\ Released(t) /\ work' = work /\ durable' = work
      BY <1>2 DEF Commit
    <2>2. IsTables(work) /\ Whole(work)
      BY <2>1 DEF CacheInv, Types, Progress, AsFarAs, Whole
    <2> QED BY <2>1, <2>2, Releasing
  <1> QED BY <1>1, <1>2

\* The sites list is saved between two saves.
LEMMA SavingSites ==
    ASSUME CacheAssumption, CacheInv, save_sites_snapshot
    PROVE  CacheInv'
  <1>1. \A t \in Savers : saver[t].at = "idle"
    BY DEF CacheInv, Locked, save_sites_snapshot, CacheAssumption
  <1>2. work' = [work EXCEPT !.sites = siteSaves'] /\ durable' = work' /\ UNCHANGED <<saver, holder>>
    BY DEF save_sites_snapshot
  <1>3. IsTables(work) /\ Whole(work)
    BY <1>1 DEF CacheInv, Types, Progress
  <1>4. IsTables(work') /\ Whole(work')
    BY <1>2, <1>3, WholeStill
  <1>5. Types' /\ Locked' /\ Progress'
    BY <1>1, <1>2, <1>4 DEF CacheInv, Types, Locked, Progress, AsFarAs, IsTables, Fields
  <1> QED BY <1>2, <1>4, <1>5 DEF CacheInv, IsTables, Fields, Whole

\* A crash leaves what is on disk.
LEMMA Crashing ==
    ASSUME CacheInv, Crash
    PROVE  CacheInv'
  <1>1. saver' = [t \in Savers |-> Idle] /\ work' = durable /\ durable' = durable
    BY DEF Crash
  <1>2. \A t \in Savers : saver'[t] = Idle /\ saver'[t].at = "idle"
    BY <1>1, Rest
  <1>3. Types'
    BY <1>1, <1>2, Rest DEF CacheInv, Types, IsTables, Fields, Stages
  <1>4. Locked' /\ \A t \in Savers : AsFarAs(t)'
    BY <1>2 DEF Locked, AsFarAs
  <1> QED BY <1>1, <1>3, <1>4 DEF CacheInv, Progress, IsTables, Fields, Whole

\* Every step of the server keeps the tables right.
LEMMA CacheStep ==
    ASSUME CacheAssumption, CacheInv, [Next]_vars
    PROVE  CacheInv'
  <1>1. ASSUME NEW t \in Savers, SaverStep(t) PROVE CacheInv'
    BY <1>1, Saving, Ending DEF SaverStep
  <1>2. ASSUME NEW t \in Savers, NEW s \in Snapshots, Begin(t, s) PROVE CacheInv'
    BY <1>2, Beginning
  <1>3. ASSUME NEW t \in Loaders, ReadMeta(t) \/ ReadOrg(t) \/ ReadNetworks(t) \/ ReadTopology(t) \/ Answer(t)
        PROVE  CacheInv'
    BY <1>3, Idling DEF ReadMeta, ReadOrg, ReadNetworks, ReadTopology, Answer, Read
  <1>4. CASE UNCHANGED vars
    BY <1>4, Idling DEF vars
  <1> QED BY <1>1, <1>2, <1>3, <1>4, SavingSites, Crashing DEF Next

\* StoredIsOneSave: whatever a save meets, a refused row, a crash or another
\* save, the tables on disk are one snapshot of save_snapshot.
THEOREM OneSave == Spec => []StoredIsOneSave
  <1>1. CacheInv => StoredIsOneSave
    BY DEF CacheInv, StoredIsOneSave
  <1>2. CacheAssumption
    BY CacheAssumption
  <1>3. CacheInv /\ [Next]_vars => CacheInv'
    BY <1>2, CacheStep
  <1> QED BY Starting, <1>1, <1>3, PTL DEF Spec

-----------------------------------------------------------------------------
(***************************************************************************)
(* Loads that meet no save: while no saver is at work the tables are those *)
(* on disk, and what such a load has read so far is what they have.        *)
(***************************************************************************)
Alike(v, w) == v.meta = w.meta /\ v.networks = w.networks /\ v.topology = w.topology

ReadSoFar(t) ==
    LET seen == loader[t].seen
    IN /\ loader[t].at \in {"org", "networks", "topology", "loaded"} => seen.meta = durable.meta
       /\ loader[t].at \in {"topology", "loaded"} => seen.networks = durable.networks
       /\ loader[t].at = "loaded" => seen.topology = durable.topology

QuietInv ==
    /\ loader = [t \in Loaders |-> loader[t]]
    /\ \A t \in Loaders : IsTables(loader[t].seen)
    /\ Writing = {} => Alike(work, durable)
    /\ quiet \subseteq Loaders
    /\ quiet # {} => Writing = {}
    /\ \A t \in quiet : ReadSoFar(t)

\* A step that touches none of their variables disturbs no load.
LEMMA QuietIdling ==
    ASSUME QuietInv, UNCHANGED <<durable, work, saver, loader, quiet>>
    PROVE  QuietInv'
  BY DEF QuietInv, Writing, Alike, ReadSoFar, IsTables, Fields

\* A saver at work has made every load unquiet.
LEMMA QuietSaving ==
    ASSUME CacheInv, QuietInv, NEW t \in Savers, SaverStep(t)
    PROVE  QuietInv'
  <1>1. saver[t].at # "idle" /\ UNCHANGED <<loader, quiet>>
    BY DEF SaverStep, Save, Statement, Refused, Commit
  <1>2. quiet = {} /\ quiet' = {}
    BY <1>1 DEF QuietInv, Writing
  <1>3. Writing' = {} => Alike(work, durable)'
    <2>1. CASE Save(t)
      <3>1. PICK at \in Stages \ {"idle"} : saver' = [saver EXCEPT ![t].at = at]
        BY <2>1 DEF Save, Statement, Step, Stages
      <3>2. saver'[t] = [saver[t] EXCEPT !.at = at]
        BY <3>1 DEF CacheInv, Types
      <3>3. saver'[t].at = at
        BY <3>2, Saver DEF CacheInv, Types
      <3> QED BY <3>1, <3>3 DEF Writing
    <2>2. CASE Refused(t)
      BY <2>2 DEF Refused, Rollback, Alike
    <2>3. CASE Commit(t)
      BY <2>3 DEF Commit, Alike
    <2> QED BY <2>1, <2>2, <2>3 DEF SaverStep
  <1> QED BY <1>1, <1>2, <1>3 DEF QuietInv, IsTables, Fields

\* What a read does to its loader.
LEMMA Reads ==
    ASSUME QuietInv, NEW t \in Loaders, NEW at, NEW seen, NEW org, Read(t, at, seen, org)
    PROVE  /\ loader'[t].at = at /\ loader'[t].seen = seen
           /\ \A u \in Loaders : u # t => loader'[u] = loader[u]
           /\ loader' = [u \in Loaders |-> loader'[u]]
           /\ UNCHANGED <<durable, work, saver>>
  BY DEF QuietInv, Read

\* A read that adds what is on disk to what was seen of it.
LEMMA QuietReading ==
    ASSUME QuietInv, NEW t \in Loaders, NEW at, NEW seen, NEW org, Read(t, at, seen, org),
           IsTables(seen), quiet' = quiet \/ quiet' = quiet \cup {t} \/ quiet' = quiet \ {t},
           quiet' # {} => Writing = {},
           t \in quiet' =>
             /\ at \in {"org", "networks", "topology", "loaded"} => seen.meta = durable.meta
             /\ at \in {"topology", "loaded"} => seen.networks = durable.networks
             /\ at = "loaded" => seen.topology = durable.topology
    PROVE  QuietInv'
  <1>1. \A u \in quiet' : ReadSoFar(u)'
    BY Reads DEF QuietInv, ReadSoFar
  <1>2. \A u \in Loaders : IsTables(loader'[u].seen)
    BY Reads DEF QuietInv
  <1>3. Writing' = Writing /\ quiet' \subseteq Loaders
    BY Reads DEF QuietInv, Writing
  <1>4. Alike(work, durable)' <=> Alike(work, durable)
    BY Reads DEF Alike
  <1>5. \A u \in Loaders : IsTables(loader[u].seen)'
    BY <1>2 DEF IsTables, Fields
  <1> QED BY <1>1, <1>3, <1>4, <1>5, Reads DEF QuietInv

\* Each of the four reads does that, while nobody writes.
LEMMA QuietLoading ==
    ASSUME QuietInv, NEW t \in Loaders,
           ReadMeta(t) \/ ReadOrg(t) \/ ReadNetworks(t) \/ ReadTopology(t) \/ Answer(t)
    PROVE  QuietInv'
  <1>0. /\ IsTables(Empty) /\ IsTables(loader[t].seen)
        /\ Writing = {} => Alike(work, durable)
        /\ quiet # {} => Writing = {}
        /\ t \in quiet => ReadSoFar(t)
    BY DEF QuietInv, Empty, IsTables, Fields
  <1>1. ASSUME NEW w, IsTables(w), NEW v
        PROVE  /\ IsTables([w EXCEPT !.meta = v]) /\ [w EXCEPT !.meta = v].meta = v
               /\ IsTables([w EXCEPT !.networks = v]) /\ [w EXCEPT !.networks = v].networks = v
               /\ [w EXCEPT !.networks = v].meta = w.meta
    BY <1>1, OneColumn
  <1>2. CASE ReadMeta(t)
    <2> DEFINE seen == [Empty EXCEPT !.meta = work.meta]
    <2>1. IsTables(seen) /\ seen.meta = work.meta
      BY DEF Empty, IsTables, Fields
    <2> HIDE DEF seen
    <2>2. Read(t, "org", seen, Nothing) /\ quiet' = IF Writing = {} THEN quiet \cup {t} ELSE quiet \ {t}
      BY <1>2 DEF ReadMeta, seen
    <2>3. quiet' # {} => Writing = {}
      BY <1>0, <2>2
    <2> QED BY <1>0, <2>1, <2>2, <2>3, QuietReading DEF Alike
  <1>3. CASE ReadOrg(t)
    <2>1. PICK o : Read(t, "networks", loader[t].seen, o)
      BY <1>3 DEF ReadOrg
    <2>2. quiet' = quiet /\ loader[t].at = "org"
      BY <1>3 DEF ReadOrg
    <2> QED BY <1>0, <2>1, <2>2, QuietReading DEF ReadSoFar
  <1>4. CASE ReadNetworks(t)
    <2> DEFINE seen == [loader[t].seen EXCEPT !.networks = work.networks]
    <2>1. IsTables(seen) /\ seen.networks = work.networks /\ seen.meta = loader[t].seen.meta
      BY <1>0, <1>1
    <2> HIDE DEF seen
    <2>2. Read(t, "topology", seen, loader[t].org) /\ quiet' = quiet /\ loader[t].at = "networks"
      BY <1>4 DEF ReadNetworks, seen
    <2> QED BY <1>0, <2>1, <2>2, QuietReading DEF ReadSoFar, Alike
  <1>5. CASE ReadTopology(t)
    <2> DEFINE seen == [loader[t].seen EXCEPT !.topology = work.topology]
    <2>1. /\ IsTables(seen) /\ seen.topology = work.topology
          /\ seen.meta = loader[t].seen.meta /\ seen.networks = loader[t].seen.networks
      BY <1>0, LastColumn
    <2> HIDE DEF seen
    <2>2. Read(t, "loaded", seen, loader[t].org) /\ quiet' = quiet /\ loader[t].at = "topology"
      BY <1>5 DEF ReadTopology, seen
    <2> QED BY <1>0, <2>1, <2>2, QuietReading DEF ReadSoFar, Alike
  <1>6. CASE Answer(t)
    <2>1. Read(t, "idle", Empty, Nothing) /\ quiet' = quiet \ {t}
      BY <1>6 DEF Answer
    <2> QED BY <1>0, <2>1, QuietReading
  <1> QED BY <1>2, <1>3, <1>4, <1>5, <1>6

\* The sites list is none of the tables that a load reads.
LEMMA QuietSites ==
    ASSUME CacheAssumption, CacheInv, QuietInv, save_sites_snapshot
    PROVE  QuietInv'
  <1>1. Writing = {} /\ UNCHANGED <<saver, loader, quiet>>
    BY DEF CacheInv, Locked, save_sites_snapshot, CacheAssumption, Writing
  <1>2. Alike(work, durable) /\ IsTables(work)
    BY <1>1 DEF QuietInv, CacheInv, Types
  <1>3. work' = [work EXCEPT !.sites = siteSaves'] /\ durable' = work'
    BY DEF save_sites_snapshot
  <1>4. work'.meta = work.meta /\ work'.networks = work.networks /\ work'.topology = work.topology
    BY <1>2, <1>3, Columns
  <1>5. durable'.meta = durable.meta /\ durable'.networks = durable.networks /\ durable'.topology = durable.topology
    BY <1>2, <1>3, <1>4 DEF Alike
  <1>6. \A t \in quiet : ReadSoFar(t)'
    BY <1>1, <1>5 DEF QuietInv, ReadSoFar
  <1> QED BY <1>1, <1>3, <1>6 DEF QuietInv, Writing, Alike, IsTables, Fields

\* A loader that has read nothing has seen empty tables.
LEMMA UnreadTables == IsTables(Unread.seen)
  BY DEF Unread, Empty, IsTables, Fields

\* A crash ends every load.
LEMMA QuietCrashing ==
    ASSUME QuietInv, Crash
    PROVE  QuietInv'
  <1>1. quiet' = {} /\ work' = durable' /\ loader' = [t \in Loaders |-> Unread]
    BY DEF Crash
  <1>2. \A t \in Loaders : IsTables(loader'[t].seen)
    BY <1>1, UnreadTables
  <1> QED BY <1>1, <1>2 DEF QuietInv, Alike, IsTables, Fields

\* A load that meets a save is quiet no more.
LEMMA QuietBeginning ==
    ASSUME CacheInv, QuietInv, NEW t \in Savers, NEW s, Begin(t, s)
    PROVE  QuietInv'
  <1>1. quiet' = {} /\ UNCHANGED loader /\ saver' = [saver EXCEPT ![t] = [at |-> "org", snapshot |-> s]]
    BY DEF Begin
  <1>2. Writing' # {}
    BY <1>1 DEF CacheInv, Types, Writing
  <1> QED BY <1>1, <1>2 DEF QuietInv, IsTables, Fields

\* Every step of the server keeps quiet loads right.
LEMMA QuietStep ==
    ASSUME CacheAssumption, CacheInv, QuietInv, [Next]_vars
    PROVE  QuietInv'
  <1>1. ASSUME NEW t \in Savers, SaverStep(t) PROVE QuietInv'
    BY <1>1, QuietSaving
  <1>2. ASSUME NEW t \in Savers, NEW s \in Snapshots, Begin(t, s) PROVE QuietInv'
    BY <1>2, QuietBeginning
  <1>3. ASSUME NEW t \in Loaders, ReadMeta(t) \/ ReadOrg(t) \/ ReadNetworks(t) \/ ReadTopology(t) \/ Answer(t)
        PROVE  QuietInv'
    BY <1>3, QuietLoading
  <1>4. CASE UNCHANGED vars
    BY <1>4, QuietIdling DEF vars
  <1> QED BY <1>1, <1>2, <1>3, <1>4, QuietSites, QuietCrashing DEF Next

\* No load is under way at the beginning.
LEMMA QuietStarting == Init => QuietInv
  <1> SUFFICES ASSUME Init PROVE QuietInv
    OBVIOUS
  <1>1. quiet = {} /\ work = durable /\ loader = [t \in Loaders |-> Unread]
    BY DEF Init
  <1>2. \A t \in Loaders : IsTables(loader[t].seen)
    BY <1>1, UnreadTables
  <1> QED BY <1>1, <1>2 DEF QuietInv, Alike

\* A quiet load that has read all has read what is on disk.
LEMMA QuietReadings == QuietInv => QuietLoads
  BY DEF QuietInv, QuietLoads, ReadSoFar

\* QuietLoads: a load_snapshot that met no save_snapshot returns what is on
\* disk, however the saves before it ended, although it takes no lock.
THEOREM LoadsOfDisk == Spec => []QuietLoads
  <1>1. CacheInv /\ QuietInv /\ [Next]_vars => (CacheInv /\ QuietInv)'
    BY CacheAssumption, CacheStep, QuietStep
  <1> QED BY Starting, QuietStarting, QuietReadings, <1>1, PTL DEF Spec

-----------------------------------------------------------------------------
\* The page does no more to the tables than other pages do.
LEMMA CachePageStep ==
    ASSUME CacheAssumption, PageAssumption, CacheInv, [PageNext]_allVars
    PROVE  CacheInv'
  <1>1. CASE UNCHANGED vars
    BY <1>1, Idling DEF vars
  <1>2. CASE Tables
    <2>1. ASSUME NEW t \in Savers, SaverStep(t) PROVE CacheInv'
      BY <2>1, Saving, Ending DEF SaverStep
    <2>2. ASSUME NEW l \in Loaders, ReadOrg(l) \/ ReadNetworks(l) \/ ReadTopology(l) PROVE CacheInv'
      BY <2>2, Idling DEF ReadOrg, ReadNetworks, ReadTopology, Read
    <2>3. ASSUME Next PROVE CacheInv'
      BY <2>3, CacheStep
    <2> QED BY <1>2, <2>1, <2>2, <2>3 DEF Tables
  <1>3. CASE Page
    <2>1. CASE User
      <3>1. Reload => UNCHANGED <<durable, work, holder, saver>>
        BY DEF Reload
      <3>2. User => Reload \/ UNCHANGED vars
        BY DEF User, handleSelectSite, handleNetworkChange, ViewTimer, handleBackToMap, RefreshButton, SaveButton
      <3> QED BY <1>1, <2>1, <3>1, <3>2, Idling
    <2>2. ASSUME NEW t \in Slots, Goes(t) \/ Aborted(t) PROVE CacheInv'
      BY <1>1, <2>2 DEF Goes, Aborted
    <2>3. ASSUME NEW l \in Loaders, AskSeed(l) \/ loadSeedFile(l) PROVE CacheInv'
      BY <2>3, Idling DEF AskSeed, loadSeedFile, ReadMeta, Answer, Read
    <2>4. ASSUME fetchNetworks PROVE CacheInv'
      BY <1>1, <2>4 DEF fetchNetworks
    <2>5. ASSUME NEW s \in posts, Post(CHOOSE t \in Savers : TRUE, s) PROVE CacheInv'
      <3>1. (CHOOSE t \in Savers : TRUE) \in Savers
        BY DEF PageAssumption
      <3> QED BY <2>5, <3>1, Beginning DEF Post
    <2> QED BY <1>3, <2>1, <2>2, <2>3, <2>4, <2>5 DEF Page
  <1> QED BY <1>1, <1>2, <1>3 DEF PageNext, allVars

\* StoredIsOneSave, for a page that boots, refreshes, saves and reloads.
THEOREM OneSaveOfPages == PageSpec => []StoredIsOneSave
  <1>1. PageInit => CacheInv
    BY Starting DEF PageInit
  <1>2. CacheInv /\ [PageNext]_allVars => CacheInv'
    BY CachePageStep, CacheAssumption, PageAssumption
  <1>3. CacheInv => StoredIsOneSave
    BY DEF CacheInv, StoredIsOneSave
  <1> QED BY <1>1, <1>2, <1>3, PTL DEF PageSpec

\* The same under a page, whose reload gives a load up.
LEMMA QuietPageStep ==
    ASSUME CacheAssumption, PageAssumption, CacheInv, QuietInv, [PageNext]_allVars
    PROVE  QuietInv'
  <1>1. CASE UNCHANGED vars
    BY <1>1, QuietIdling DEF vars
  <1>2. CASE Tables
    BY <1>2, QuietSaving, QuietLoading, QuietStep DEF Tables
  <1>3. CASE Page
    <2>1. CASE Reload
      <3>1. /\ loader' = [l \in Loaders |-> Unread] /\ quiet' = {}
            /\ UNCHANGED <<durable, work, saver>>
        BY <2>1 DEF Reload
      <3>2. \A l \in Loaders : IsTables(loader'[l].seen)
        BY <3>1, UnreadTables
      <3> QED BY <3>1, <3>2 DEF QuietInv, Writing, Alike, IsTables, Fields
    <2>2. User => Reload \/ UNCHANGED vars
      BY DEF User, handleSelectSite, handleNetworkChange, ViewTimer, handleBackToMap, RefreshButton, SaveButton
    <2>3. ASSUME NEW t \in Slots, Goes(t) \/ Aborted(t) PROVE UNCHANGED vars
      BY <2>3 DEF Goes, Aborted
    <2>4. ASSUME NEW l \in Loaders, AskSeed(l) \/ loadSeedFile(l) PROVE QuietInv'
      BY <2>4, QuietLoading DEF AskSeed, loadSeedFile
    <2>5. ASSUME fetchNetworks PROVE UNCHANGED vars
      BY <2>5 DEF fetchNetworks
    <2>6. ASSUME NEW s \in posts, Post(CHOOSE t \in Savers : TRUE, s) PROVE QuietInv'
      <3>1. (CHOOSE t \in Savers : TRUE) \in Savers
        BY DEF PageAssumption
      <3> QED BY <2>6, <3>1, QuietBeginning DEF Post
    <2> QED BY <1>1, <1>3, <2>1, <2>2, <2>3, <2>4, <2>5, <2>6 DEF Page
  <1> QED BY <1>1, <1>2, <1>3 DEF PageNext, allVars

\* QuietLoads, for the loads of a page that boots, also when it is reloaded
\* with a load on its way.
THEOREM QuietPages == PageSpec => []QuietLoads
  <1>1. PageInit => CacheInv /\ QuietInv
    BY Starting, QuietStarting DEF PageInit
  <1>2. CacheInv /\ QuietInv /\ [PageNext]_allVars => (CacheInv /\ QuietInv)'
    BY CachePageStep, QuietPageStep, CacheAssumption, PageAssumption
  <1> QED BY <1>1, <1>2, QuietReadings, PTL DEF PageSpec

-----------------------------------------------------------------------------
(***************************************************************************)
(* Entries: wherever a cache is on its way, it holds of a site what is of  *)
(* that site.                                                              *)
(***************************************************************************)
Good(entries) == entries = [k \in Targets |-> entries[k]] /\ OfTheirSites(entries)
Proper(s) == s # Nothing => Good(s.topology)

Kept ==
    /\ Good(cache)
    /\ local # Nothing => Good(local.cache)
    /\ \A s \in posts : Good(s.topology)

Tabled ==
    /\ Proper(durable.topology) /\ Proper(work.topology)
    /\ \A t \in Savers : Proper(saver[t].snapshot)
    /\ loader = [l \in Loaders |-> loader[l]]
    /\ \A l \in Loaders : IsTables(loader[l].seen) /\ Proper(loader[l].seen.topology)

EntriesInv ==
    /\ CacheInv
    /\ budget = [e \in Acts |-> budget[e]]
    /\ Kept
    /\ ~others => Tabled

\* An empty cache holds nothing of a site.
LEMMA Nowhere == Good(NoCache) /\ Proper(Nothing)
  BY DEF Good, Proper, NoCache, OfTheirSites, Targets

\* filterByNetwork leaves what is of the network.
LEMMA Filtered ==
    ASSUME PageAssumption, NEW c, Good(c), NEW k, NEW n, NEW entry, n = k \/ k \notin Sites
    PROVE  Good([c EXCEPT ![k] = filterByNetwork(entry, n)])
  BY DEF Good, OfTheirSites, filterByNetwork, Targets, PageAssumption

\* The entry of all networks is no entry of a site.
LEMMA Whatever ==
    ASSUME PageAssumption, NEW c, Good(c), NEW entry
    PROVE  Good([c EXCEPT ![All] = entry])
  BY DEF Good, OfTheirSites, Targets, PageAssumption

\* What a page may still do says throughout whether other pages act instead.
LEMMA BudgetStep ==
    ASSUME EntriesInv, NEW e \in Acts \ {"others"}, Spend(e)
    PROVE  budget' = [x \in Acts |-> budget'[x]] /\ budget'["others"] = budget["others"]
  BY DEF EntriesInv, Spend, Acts

-----------------------------------------------------------------------------
\* Of the statements of a save only the last two write the topology.
LEMMA TopologyColumn ==
    ASSUME NEW w, IsTables(w), NEW v
    PROVE  /\ [w EXCEPT !.orgs = v].topology = w.topology
           /\ [w EXCEPT !.meta = v].topology = w.topology
           /\ [w EXCEPT !.networks = v].topology = w.topology
           /\ [w EXCEPT !.topology = v].topology = v
  BY DEF IsTables, Fields

\* What a saver leaves in the tables comes from them or from its snapshot.
LEMMA SaverTopology ==
    ASSUME CacheInv, Tabled, NEW t \in Savers, SaverStep(t)
    PROVE  Tabled'
  <1>0. IsTables(work) /\ IsTables(durable) /\ saver = [u \in Savers |-> saver[u]]
        /\ saver[t] = [at |-> saver[t].at, snapshot |-> saver[t].snapshot]
    BY DEF CacheInv, Types
  <1>1. UNCHANGED loader
    BY DEF SaverStep, Save, Refused, Commit
  <1>2. Proper(durable'.topology) /\ Proper(work'.topology)
    <2>1. CASE Refused(t)
      BY <2>1 DEF Refused, Rollback, Tabled
    <2>2. CASE Commit(t)
      BY <2>2 DEF Commit, Tabled
    <2>3. CASE Save(t)
      <3> DEFINE s == saver[t].snapshot
      <3>1. UNCHANGED durable
        BY <2>3 DEF Save, Statement, Write
      <3>2. \/ \E v : work' \in {[work EXCEPT !.orgs = v], [work EXCEPT !.meta = v], [work EXCEPT !.networks = v]}
            \/ \E v \in {s, Nothing} : work' = [work EXCEPT !.topology = v]
        <4>1. CASE saver[t].at = "org"
          BY <2>3, <4>1 DEF Save, Statement, Write
        <4>2. CASE saver[t].at = "meta"
          BY <2>3, <4>2 DEF Save, Statement, Write
        <4>3. CASE saver[t].at \in {"delete networks", "networks"}
          BY <2>3, <4>3 DEF Save, Statement, Write
        <4>4. CASE saver[t].at \in {"delete topology", "topology"}
          BY <2>3, <4>4 DEF Save, Statement, Write
        <4> QED BY <2>3, <4>1, <4>2, <4>3, <4>4 DEF Save, Statement
      <3>3. ASSUME NEW v
            PROVE  /\ [work EXCEPT !.orgs = v].topology = work.topology
                   /\ [work EXCEPT !.meta = v].topology = work.topology
                   /\ [work EXCEPT !.networks = v].topology = work.topology
                   /\ [work EXCEPT !.topology = v].topology = v
        BY <1>0, TopologyColumn
      <3>4. work'.topology \in {work.topology, s, Nothing}
        <4>1. ASSUME NEW v, work' \in {[work EXCEPT !.orgs = v], [work EXCEPT !.meta = v], [work EXCEPT !.networks = v]}
              PROVE  work'.topology = work.topology
          BY <3>3, <4>1
        <4>2. ASSUME NEW v \in {s, Nothing}, work' = [work EXCEPT !.topology = v]
              PROVE  work'.topology = v
          BY <3>3, <4>2
        <4> HIDE DEF s
        <4> QED BY <3>2, <4>1, <4>2
      <3> QED BY <3>1, <3>4, Nowhere DEF Tabled
    <2> QED BY <2>1, <2>2, <2>3 DEF SaverStep
  <1>3. ASSUME NEW u \in Savers PROVE Proper(saver'[u].snapshot)
    <2>1. saver'[u].snapshot \in {saver[u].snapshot, Nothing}
      <3>1. CASE Refused(t) \/ Commit(t)
        <4>1. saver' = [saver EXCEPT ![t] = Idle] /\ Idle.snapshot = Nothing
          BY <3>1 DEF Refused, Rollback, Commit, Released, Idle
        <4> QED BY <1>0, <4>1
      <3>2. CASE Save(t)
        <4>1. PICK at : saver' = [saver EXCEPT ![t].at = at]
          BY <3>2 DEF Save, Statement, Step
        <4>2. saver'[u] = IF u = t THEN [saver[t] EXCEPT !.at = at] ELSE saver[u]
          BY <1>0, <4>1
        <4> QED BY <1>0, <4>2, Saver
      <3> QED BY <3>1, <3>2 DEF SaverStep
    <2> QED BY <2>1, Nowhere DEF Tabled
  <1> QED BY <1>1, <1>2, <1>3 DEF Tabled

\* A loader sees what the tables have.
LEMMA LoaderTopology ==
    ASSUME CacheInv, Tabled, NEW l \in Loaders,
           ReadMeta(l) \/ ReadOrg(l) \/ ReadNetworks(l) \/ ReadTopology(l) \/ Answer(l)
    PROVE  Tabled'
  <1>1. IsTables(Empty) /\ Empty.topology = Nothing
    BY DEF IsTables, Fields, Empty
  <1>2. ASSUME NEW w, IsTables(w), NEW v
        PROVE  /\ IsTables([w EXCEPT !.meta = v]) /\ [w EXCEPT !.meta = v].topology = w.topology
               /\ IsTables([w EXCEPT !.networks = v]) /\ [w EXCEPT !.networks = v].topology = w.topology
               /\ IsTables([w EXCEPT !.topology = v]) /\ [w EXCEPT !.topology = v].topology = v
    BY <1>2 DEF IsTables, Fields
  <1>3. UNCHANGED <<durable, work, saver>>
    BY DEF ReadMeta, ReadOrg, ReadNetworks, ReadTopology, Answer, Read
  <1>4. PICK r : /\ loader' = [loader EXCEPT ![l] = r]
                 /\ IsTables(r.seen)
                 /\ r.seen.topology \in {Nothing, loader[l].seen.topology, work.topology}
    <2> DEFINE Seen(seen) == IsTables(seen) /\ seen.topology \in {Nothing, loader[l].seen.topology, work.topology}
    <2>0. IsTables(loader[l].seen)
      BY DEF Tabled
    <2>1. ASSUME NEW at, NEW seen, NEW org, Read(l, at, seen, org), Seen(seen)
          PROVE  \E r : loader' = [loader EXCEPT ![l] = r] /\ Seen(r.seen)
      <3> DEFINE q == [at |-> at, seen |-> seen, org |-> org]
      <3>1. loader' = [loader EXCEPT ![l] = q] /\ q.seen = seen
        BY <2>1 DEF Read
      <3>2. Seen(q.seen)
        BY <2>1, <3>1
      <3> HIDE DEF q, Seen
      <3> QED BY <3>1, <3>2
    <2>2. CASE ReadMeta(l)
      <3>1. Seen([Empty EXCEPT !.meta = work.meta])
        BY <1>1, <1>2
      <3> QED BY <2>1, <2>2, <3>1 DEF ReadMeta
    <2>3. CASE ReadOrg(l)
      <3>1. Seen(loader[l].seen)
        BY <2>0
      <3> QED BY <2>1, <2>3, <3>1 DEF ReadOrg
    <2>4. CASE ReadNetworks(l)
      <3>1. Seen([loader[l].seen EXCEPT !.networks = work.networks])
        BY <1>2, <2>0
      <3> QED BY <2>1, <2>4, <3>1 DEF ReadNetworks
    <2>5. CASE ReadTopology(l)
      <3>1. Seen([loader[l].seen EXCEPT !.topology = work.topology])
        BY <1>2, <2>0
      <3> QED BY <2>1, <2>5, <3>1 DEF ReadTopology
    <2>6. CASE Answer(l)
      <3>1. Seen(Empty)
        BY <1>1
      <3> QED BY <2>1, <2>6, <3>1 DEF Answer
    <2> QED BY <2>2, <2>3, <2>4, <2>5, <2>6
  <1>5. /\ loader' = [k \in Loaders |-> loader'[k]]
        /\ \A k \in Loaders : loader'[k] = IF k = l THEN r ELSE loader[k]
    BY <1>4 DEF Tabled
  <1>6. Proper(r.seen.topology)
    BY <1>4, Nowhere DEF Tabled
  <1> QED BY <1>3, <1>4, <1>5, <1>6 DEF Tabled

-----------------------------------------------------------------------------
\* What the page keeps and posts are copies of its cache.
LEMMA Copies ==
    ASSUME Kept, Good(cache'), local' = local \/ local'.cache = cache',
           \A s \in posts' : s \in posts \/ s.topology = cache'
    PROVE  Kept'
  BY DEF Kept, Good, OfTheirSites

\* What is kept in localStorage is what was there, or the cache.
LEMMA Persisted == ASSUME NEW stamped, Persist(stamped) PROVE local' = local \/ local'.cache = cache'
  BY DEF Persist

\* saveSnapshot posts the cache, ...
LEMMA SavedCopies == ASSUME NEW selected PROVE \A s \in Saved(selected) : s \in posts \/ s.topology = cache'
  BY DEF Saved, Body

\* also when it runs at the end of a refresh.
LEMMA Resolved == ASSUME NEW t, Resolve(t) PROVE \A s \in posts' : s \in posts \/ s.topology = cache'
  BY SavedCopies DEF Resolve

\* A selection changes the cache only by what was filtered for its site.
LEMMA Selecting ==
    ASSUME PageAssumption, Kept, NEW page, selectNetwork(page)
    PROVE  Good(cache')
  <1> DEFINE id == page.selected
  <1>1. CASE UNCHANGED cache
    BY <1>1 DEF Kept, Good, OfTheirSites
  <1>2. CASE cache' = [cache EXCEPT ![id] = filterByNetwork(cache[All], id)]
    BY <1>2, Filtered DEF Kept
  <1> QED BY <1>1, <1>2 DEF selectNetwork, refresh

\* What a refresh stores under a site is of the site, whichever is selected.
LEMMA Going ==
    ASSUME PageAssumption, Kept, NEW t \in Slots, Goes(t)
    PROVE  Kept'
  <1>1. CASE Fails(t)
    <2>1. UNCHANGED cache /\ (UNCHANGED posts \/ Resolve(t))
      BY <1>1 DEF Fails
    <2> QED BY <2>1, Copies, Persisted, Resolved DEF Goes, Kept, Good, OfTheirSites
  <1>2. CASE GotL2(t) \/ GotL3(t) \/ GotClients(t)
    <2>1. UNCHANGED <<cache, posts>>
      BY <1>2 DEF GotL2, GotL3, GotClients, Await
    <2> QED BY <2>1, Copies, Persisted DEF Goes, Kept, Good, OfTheirSites
  <1>3. CASE GotDetails(t)
    <2> DEFINE got == [l2 |-> tasks[t].l2, l3 |-> tasks[t].l3]
               stored == [cache EXCEPT ![cacheKey(t)] = filterByNetwork(got, Site(t))]
    <2>1. Good(stored)
      BY Filtered DEF Kept, cacheKey
    <2>2. cache' = stored \/ cache' = [stored EXCEPT ![All] = got]
      BY <1>3 DEF GotDetails
    <2> HIDE DEF stored
    <2>3. Good(cache')
      BY <1>3, <2>1, <2>2, Whatever DEF Kept
    <2>4. UNCHANGED posts \/ Resolve(t)
      BY <1>3 DEF GotDetails
    <2> QED BY <2>3, <2>4, Copies, Persisted, Resolved DEF Goes
  <1> QED BY <1>1, <1>2, <1>3 DEF Goes

\* Whatever the page does, its cache and the copies of it are right.
LEMMA Keeping ==
    ASSUME PageAssumption, Kept, Tabled, Page
    PROVE  Kept'
  <1>0. Good(cache)
    BY DEF Kept
  <1>1. ASSUME NEW page, NEW stamped, selectNetwork(page), Persist(stamped), UNCHANGED posts PROVE Kept'
    BY <1>1, Selecting, Copies, Persisted
  <1>2. ASSUME UNCHANGED <<cache, local, posts>> PROVE Kept'
    BY <1>2 DEF Kept, Good, OfTheirSites
  <1>3. ASSUME UNCHANGED cache PROVE Good(cache')
    BY <1>0, <1>3 DEF Good, OfTheirSites
  <1>4. CASE User
    <2>1. ASSUME NEW n \in Sites, handleSelectSite(n) PROVE Kept'
      BY <1>1, <2>1 DEF handleSelectSite
    <2>2. ASSUME NEW id \in Targets, handleNetworkChange(id) PROVE Kept'
      BY <1>1, <2>2 DEF handleNetworkChange
    <2>3. ASSUME NEW v, ViewTimer(v) \/ handleBackToMap PROVE Kept'
      BY <1>2, <2>3 DEF ViewTimer, handleBackToMap
    <2>4. ASSUME RefreshButton PROVE Kept'
      <3>1. UNCHANGED <<cache, posts>> /\ Persist(FALSE)
        BY <2>4 DEF RefreshButton, refresh
      <3> QED BY <1>3, <3>1, Copies, Persisted
    <2>5. ASSUME SaveButton PROVE Kept'
      <3>1. UNCHANGED <<cache, local>> /\ posts' = Saved(ui.selected)
        BY <2>5 DEF SaveButton
      <3> QED BY <1>3, <3>1, Copies, SavedCopies
    <2>6. ASSUME Reload PROVE Kept'
      <3>1. Good(cache')
        BY <2>6, Nowhere DEF Reload, Kept
      <3> QED BY <2>6, <3>1, Copies DEF Reload
    <2> QED BY <1>4, <2>1, <2>2, <2>3, <2>4, <2>5, <2>6 DEF User
  <1>5. ASSUME NEW t \in Slots, Aborted(t) PROVE Kept'
    BY <1>3, <1>5, Copies, Resolved DEF Aborted
  <1>6. ASSUME NEW l \in Loaders, AskSeed(l) PROVE Kept'
    BY <1>2, <1>6 DEF AskSeed
  <1>7. ASSUME NEW l \in Loaders, loadSeedFile(l) PROVE Kept'
    <2> DEFINE kept == IF loader[l].seen.topology = Nothing THEN NoCache ELSE loader[l].seen.topology.topology
    <2>1. Good(kept)
      BY Nowhere DEF Tabled, Proper
    <2>2. cache' \in {cache, kept} /\ UNCHANGED posts /\ \E stamped : Persist(stamped)
      BY <1>7 DEF loadSeedFile
    <2> HIDE DEF kept
    <2>3. Good(cache')
      BY <1>0, <2>1, <2>2
    <2> QED BY <2>2, <2>3, Copies, Persisted
  <1>8. ASSUME fetchNetworks PROVE Kept'
    BY <1>3, <1>8, Copies, Persisted DEF fetchNetworks
  <1>9. ASSUME NEW s \in posts, NEW t, Post(t, s) PROVE Kept'
    BY <1>3, <1>9, Copies DEF Post
  <1> QED BY <1>4, <1>5, <1>6, <1>7, <1>8, <1>9, Going DEF Page

\* What the page does to the tables, its reads and its posts, carries its cache.
LEMMA Tabling ==
    ASSUME PageAssumption, CacheInv, Kept, Tabled, Page
    PROVE  Tabled'
  <1>1. ASSUME UNCHANGED vars PROVE Tabled'
    BY <1>1 DEF Tabled, Proper, Good, OfTheirSites, IsTables, Fields, vars
  <1>2. CASE User
    <2>1. CASE Reload
      <3>1. loader' = [l \in Loaders |-> Unread] /\ UNCHANGED <<durable, work, saver>>
        BY <2>1 DEF Reload
      <3>2. IsTables(Unread.seen) /\ Unread.seen.topology = Nothing
        BY DEF Unread, Empty, IsTables, Fields
      <3> QED BY <3>1, <3>2, Nowhere DEF Tabled
    <2>2. User => Reload \/ UNCHANGED vars
      BY DEF User, handleSelectSite, handleNetworkChange, ViewTimer, handleBackToMap, RefreshButton, SaveButton
    <2> QED BY <1>1, <1>2, <2>1, <2>2
  <1>3. ASSUME NEW t \in Slots, Goes(t) \/ Aborted(t) PROVE Tabled'
    BY <1>1, <1>3 DEF Goes, Aborted
  <1>4. ASSUME NEW l \in Loaders, AskSeed(l) \/ loadSeedFile(l) PROVE Tabled'
    BY <1>4, LoaderTopology DEF AskSeed, loadSeedFile
  <1>5. ASSUME fetchNetworks PROVE Tabled'
    BY <1>1, <1>5 DEF fetchNetworks
  <1>6. ASSUME NEW s \in posts, NEW t, Post(t, s) PROVE Tabled'
    <2>1. /\ saver' = [saver EXCEPT ![t] = [at |-> "org", snapshot |-> s]]
          /\ UNCHANGED <<durable, work, loader>>
      BY <1>6 DEF Post, Begin
    <2>2. \A u \in Savers : saver'[u].snapshot \in {saver[u].snapshot, s}
      BY <2>1 DEF CacheInv, Types
    <2>3. Proper(s)
      BY <1>6 DEF Kept, Proper
    <2> QED BY <2>1, <2>2, <2>3 DEF Tabled
  <1> QED BY <1>2, <1>3, <1>4, <1>5, <1>6 DEF Page

-----------------------------------------------------------------------------
\* A behaviour is one of this page or of others, from its beginning.
LEMMA OthersStay ==
    ASSUME EntriesInv, [PageNext]_allVars
    PROVE  budget' = [e \in Acts |-> budget'[e]] /\ budget'["others"] = budget["others"]
  <1>1. CASE UNCHANGED budget
    BY <1>1 DEF EntriesInv
  <1>2. CASE \E e \in Acts \ {"others"} : Spend(e)
    BY <1>2, BudgetStep
  <1>3. CASE User
    BY <1>1, <1>2, <1>3 DEF User, Acts, handleSelectSite, handleNetworkChange, ViewTimer, handleBackToMap,
                            RefreshButton, SaveButton, Reload
  <1>4. ASSUME NEW t \in Slots, Goes(t) PROVE UNCHANGED budget \/ \E e \in Acts \ {"others"} : Spend(e)
    BY <1>4 DEF Goes, Acts, Fails, GotL2, GotL3, GotClients, GotDetails, Await
  <1>5. ASSUME NEW l \in Loaders, AskSeed(l) \/ loadSeedFile(l) PROVE UNCHANGED budget
    BY <1>5 DEF AskSeed, loadSeedFile
  <1>6. CASE fetchNetworks
    BY <1>1, <1>2, <1>6 DEF fetchNetworks, Acts
  <1>7. ASSUME NEW s, NEW t, Post(t, s) PROVE UNCHANGED budget
    BY <1>7 DEF Post
  <1>8. ASSUME NEW t, Aborted(t) PROVE UNCHANGED budget
    BY <1>8 DEF Aborted
  <1>9. Page \/ UNCHANGED budget
    BY DEF PageNext, Tables, allVars, pageVars
  <1> QED BY <1>1, <1>2, <1>3, <1>4, <1>5, <1>6, <1>7, <1>8, <1>9 DEF Page

\* A page is opened on what earlier pages saved.
LEMMA EntriesStart == ASSUME PageAssumption, SeedsAssumption, PageInit PROVE EntriesInv
  <1>1. CacheInv
    BY Starting DEF PageInit
  <1>2. budget \in [Acts -> Nat]
    BY DEF PageInit, PageAssumption
  <1>3. Kept
    BY Nowhere DEF PageInit, Kept
  <1>4. ASSUME ~others PROVE Tabled
    <2>1. Proper(Empty.topology)
      BY Nowhere DEF Empty
    <2>2. ASSUME NEW s \in Seeds PROVE Proper(Stored(s).topology)
      BY <2>2, SeedsAssumption DEF Stored, Proper, Good
    <2>3. Proper(durable.topology) /\ work = durable
      BY <1>4, <2>1, <2>2 DEF PageInit, Init
    <2>4. saver = [t \in Savers |-> Idle] /\ loader = [l \in Loaders |-> Unread]
      BY DEF PageInit, Init
    <2>5. Idle.snapshot = Nothing /\ IsTables(Unread.seen) /\ Unread.seen.topology = Nothing
      BY DEF Idle, Unread, Empty, IsTables, Fields
    <2> QED BY <2>3, <2>4, <2>5, Nowhere DEF Tabled
  <1> QED BY <1>1, <1>2, <1>3, <1>4 DEF EntriesInv

\* No step puts anything of one site under another.
LEMMA EntriesStep ==
    ASSUME CacheAssumption, PageAssumption, EntriesInv, [PageNext]_allVars
    PROVE  EntriesInv'
  <1>1. CacheInv'
    BY CachePageStep DEF EntriesInv
  <1>2. budget' = [e \in Acts |-> budget'[e]] /\ (others' <=> others)
    BY OthersStay DEF others
  <1>3. Kept' /\ (~others => Tabled')
    <2>1. CASE ~others /\ Page
      BY <2>1, Keeping, Tabling DEF EntriesInv
    <2>2. CASE Tables
      <3>1. Kept'
        BY <2>2 DEF EntriesInv, Tables, pageVars, Kept, Good, OfTheirSites
      <3>2. ASSUME ~others PROVE Tabled'
        BY <2>2, <3>2, SaverTopology, LoaderTopology DEF EntriesInv, Tables
      <3> QED BY <3>1, <3>2
    <2>3. CASE UNCHANGED allVars
      <3>1. Kept'
        BY <2>3 DEF EntriesInv, allVars, pageVars, Kept, Good, OfTheirSites
      <3>2. Tabled => Tabled'
        BY <2>3 DEF allVars, vars, Tabled, Proper, Good, OfTheirSites, IsTables, Fields
      <3> QED BY <3>1, <3>2 DEF EntriesInv
    <2> QED BY <2>1, <2>2, <2>3 DEF PageNext
  <1> QED BY <1>1, <1>2, <1>3 DEF EntriesInv

\* EntriesOfTheirSites: however refreshes, selections, answers of the boot,
\* reloads and saves interleave, the entry of a site holds nothing of another.
THEOREM Entries == PageSpec => []EntriesOfTheirSites
  <1>1. PageInit => EntriesInv
    BY EntriesStart, PageAssumption, SeedsAssumption
  <1>2. EntriesInv /\ [PageNext]_allVars => EntriesInv'
    BY EntriesStep, CacheAssumption, PageAssumption
  <1>3. EntriesInv => EntriesOfTheirSites
    BY DEF EntriesInv, EntriesOfTheirSites, Kept, Tabled, Proper, Good
  <1> QED BY <1>1, <1>2, <1>3, PTL DEF PageSpec

-----------------------------------------------------------------------------
(***************************************************************************)
(* The overlay: it is shown for the task that abortControllerRef holds.    *)
(***************************************************************************)
UiFields == {"selected", "known", "l2", "l3", "refreshing", "view", "timers"}
TaskFields == {"at", "target", "site", "aborted", "l2", "l3", "after"}
IsUi(page) == page = [f \in UiFields |-> page[f]]
IsTask(task) == task = [f \in TaskFields |-> task[f]]

OverlayInv ==
    /\ IsUi(ui)
    /\ tasks = [t \in Slots |-> tasks[t]] /\ \A t \in Slots : IsTask(tasks[t])
    /\ ui.refreshing => current \in Drawing(tasks)

\* A state of the page with one field set is one, ...
LEMMA Pages ==
    ASSUME NEW page, IsUi(page), NEW v
    PROVE  /\ IsUi([page EXCEPT !.selected = v]) /\ [page EXCEPT !.selected = v].refreshing = page.refreshing
           /\ IsUi([page EXCEPT !.known = v]) /\ [page EXCEPT !.known = v].refreshing = page.refreshing
           /\ IsUi([page EXCEPT !.view = v]) /\ [page EXCEPT !.view = v].refreshing = page.refreshing
           /\ IsUi([page EXCEPT !.timers = v]) /\ [page EXCEPT !.timers = v].refreshing = page.refreshing
  BY DEF IsUi, UiFields

\* whether drawn or refreshing.
LEMMA Drawn ==
    ASSUME NEW page, IsUi(page), NEW v
    PROVE  /\ IsUi([page EXCEPT !.l2 = v]) /\ [page EXCEPT !.l2 = v].refreshing = page.refreshing
           /\ IsUi([page EXCEPT !.l3 = v]) /\ [page EXCEPT !.l3 = v].refreshing = page.refreshing
           /\ IsUi([page EXCEPT !.refreshing = v]) /\ [page EXCEPT !.refreshing = v].refreshing = v
  BY DEF IsUi, UiFields

\* A refresh that goes on to its next fetch is one, ...
LEMMA NextAwait ==
    ASSUME NEW task, IsTask(task), NEW v
    PROVE  /\ IsTask([task EXCEPT !.at = v]) /\ [task EXCEPT !.at = v].at = v
           /\ [task EXCEPT !.at = v].aborted = task.aborted
  BY DEF IsTask, TaskFields

\* so is one that is aborted, ...
LEMMA AbortedTask == ASSUME NEW task, IsTask(task), NEW v PROVE IsTask([task EXCEPT !.aborted = v])
  BY DEF IsTask, TaskFields

\* and one that has gathered more.
LEMMA Fetched ==
    ASSUME NEW task, IsTask(task), NEW v
    PROVE  /\ IsTask([task EXCEPT !.l2 = v]) /\ [task EXCEPT !.l2 = v].at = task.at
           /\ [task EXCEPT !.l2 = v].aborted = task.aborted
           /\ IsTask([task EXCEPT !.l3 = v]) /\ [task EXCEPT !.l3 = v].at = task.at
           /\ [task EXCEPT !.l3 = v].aborted = task.aborted
  BY DEF IsTask, TaskFields

\* A refresh begins with its first fetch, not aborted.
LEMMA TaskOfRefresh ==
    /\ IsTask(NoTask)
    /\ \A target, after : /\ IsTask(Begun(target, after)) /\ Begun(target, after).at = "l2"
                          /\ Begun(target, after).aborted = FALSE
  <1>1. IsTask(NoTask)
    BY DEF IsTask, TaskFields, NoTask
  <1>2. ASSUME NEW target, NEW after
        PROVE  /\ IsTask(Begun(target, after)) /\ Begun(target, after).at = "l2"
               /\ Begun(target, after).aborted = FALSE
    <2>1. Begun(target, after) = [NoTask EXCEPT !.at = "l2", !.target = target, !.after = after]
      BY DEF Begun
    <2>2. NoTask.aborted = FALSE
      BY DEF NoTask
    <2> QED BY <1>1, <2>1, <2>2 DEF IsTask, TaskFields
  <1> QED BY <1>1, <1>2

\* An abort leaves refreshes.
LEMMA AbortTasks ==
    ASSUME OverlayInv
    PROVE  Abort(tasks) = [t \in Slots |-> Abort(tasks)[t]] /\ \A t \in Slots : IsTask(Abort(tasks)[t])
  <1>1. CASE current = Nothing
    BY <1>1 DEF Abort, OverlayInv
  <1>2. CASE current # Nothing
    <2>1. Abort(tasks) = [tasks EXCEPT ![current].aborted = TRUE]
      BY <1>2 DEF Abort
    <2>2. \A t \in Slots : Abort(tasks)[t] = IF t = current THEN [tasks[t] EXCEPT !.aborted = TRUE] ELSE tasks[t]
      BY <2>1 DEF OverlayInv
    <2>3. \A t \in Slots : IsTask([tasks[t] EXCEPT !.aborted = TRUE])
      BY AbortedTask DEF OverlayInv
    <2>4. \A t \in Slots : IsTask(Abort(tasks)[t])
      BY <2>2, <2>3 DEF OverlayInv
    <2> QED BY <2>1, <2>4 DEF OverlayInv
  <1> QED BY <1>1, <1>2

\* refresh shows the overlay for the task that the controller will abort.
LEMMA Refreshing ==
    ASSUME OverlayInv, NEW page, IsUi(page), NEW target, NEW after, refresh(page, target, after)
    PROVE  OverlayInv'
  <1> DEFINE fits == target # All \/ page.known
             slot == CHOOSE t \in Slots : ~Live(t)
             a == [page EXCEPT !.l2 = {}]
             b == [a EXCEPT !.l3 = {}]
             c == [b EXCEPT !.refreshing = fits]
  <1>1. IsUi(a)
    BY Drawn
  <1>2. IsUi(b)
    <2> HIDE DEF a
    <2> QED BY <1>1, Drawn
  <1>3. IsUi(c) /\ c.refreshing = fits
    <2> HIDE DEF b, fits
    <2> QED BY <1>2, Drawn
  <1>4. ui' = c
    BY DEF refresh
  <1>5. slot \in Slots
    BY DEF refresh
  <1>6. CASE fits
    <2>1. tasks' = [Abort(tasks) EXCEPT ![slot] = Begun(target, after)] /\ current' = slot
      BY <1>6 DEF refresh
    <2> HIDE DEF slot
    <2>2. tasks' = [t \in Slots |-> tasks'[t]]
      BY <2>1, AbortTasks
    <2>3. \A t \in Slots : tasks'[t] = IF t = slot THEN Begun(target, after) ELSE Abort(tasks)[t]
      BY <2>1, AbortTasks
    <2>4. slot \in Drawing(tasks')
      BY <1>5, <2>3, TaskOfRefresh DEF Drawing
    <2> HIDE DEF c
    <2> QED BY <1>3, <1>4, <2>1, <2>2, <2>3, <2>4, AbortTasks, TaskOfRefresh DEF OverlayInv
  <1>7. CASE ~fits
    <2>1. tasks' = Abort(tasks)
      BY <1>7 DEF refresh
    <2> HIDE DEF c
    <2> QED BY <1>3, <1>4, <1>7, <2>1, AbortTasks DEF OverlayInv
  <1> QED BY <1>6, <1>7

\* A selection from the cache ends the overlay and takes the controller away.
LEMMA Hydrating ==
    ASSUME OverlayInv, NEW page, IsUi(page), NEW entry, hydrate(page, entry)
    PROVE  OverlayInv'
  <1> DEFINE a == [page EXCEPT !.l2 = entry.l2]
             b == [a EXCEPT !.l3 = entry.l3]
             c == [b EXCEPT !.refreshing = FALSE]
  <1>1. IsUi(a)
    BY Drawn
  <1>2. IsUi(b)
    <2> HIDE DEF a
    <2> QED BY <1>1, Drawn
  <1>3. IsUi(c) /\ c.refreshing = FALSE
    <2> HIDE DEF b
    <2> QED BY <1>2, Drawn
  <1>4. ui' = c /\ tasks' = Abort(tasks)
    BY DEF hydrate
  <1> HIDE DEF c
  <1> QED BY <1>3, <1>4, AbortTasks DEF OverlayInv

\* A selection draws from the cache or refreshes.
LEMMA OverlaySelecting ==
    ASSUME OverlayInv, NEW page, IsUi(page), selectNetwork(page)
    PROVE  OverlayInv'
  BY Hydrating, Refreshing DEF selectNetwork

\* A task that goes on keeps the overlay as it is.
LEMMA Awaiting ==
    ASSUME OverlayInv, NEW t \in Slots, NEW task, IsTask(task), task.at # "idle", task.aborted = tasks[t].aborted,
           tasks' = [tasks EXCEPT ![t] = task], UNCHANGED current, IsUi(ui'), ui'.refreshing = ui.refreshing
    PROVE  OverlayInv'
  <1>1. \A u \in Slots : tasks'[u] = IF u = t THEN task ELSE tasks[u]
    BY DEF OverlayInv
  <1>2. Drawing(tasks) \subseteq Drawing(tasks')
    BY <1>1 DEF Drawing
  <1>3. tasks' = [u \in Slots |-> tasks'[u]]
    BY DEF OverlayInv
  <1> QED BY <1>1, <1>2, <1>3 DEF OverlayInv

\* The end of a refresh clears flag and controller at once.
LEMMA Finishing ==
    ASSUME OverlayInv, NEW t \in Slots, End(t, ui)
    PROVE  OverlayInv'
  <1>1. tasks' = [tasks EXCEPT ![t] = NoTask] /\ ui' = [ui EXCEPT !.refreshing = FALSE]
    BY DEF End
  <1>2. \A u \in Slots : tasks'[u] = IF u = t THEN NoTask ELSE tasks[u]
    BY <1>1 DEF OverlayInv
  <1>3. IsUi(ui') /\ ui'.refreshing = FALSE
    BY <1>1, Drawn DEF OverlayInv
  <1> QED BY <1>1, <1>2, <1>3, TaskOfRefresh DEF OverlayInv

\* A refresh that goes on stays at work or ends.
LEMMA OverlayGoing ==
    ASSUME OverlayInv, NEW t \in Slots, Goes(t)
    PROVE  OverlayInv'
  <1>0. IsTask(tasks[t]) /\ IsUi(ui)
    BY DEF OverlayInv
  <1>1. CASE GotL2(t)
    <2> DEFINE l2 == tasks[t].l2 \cup {Site(t)}
               one == [tasks[t] EXCEPT !.at = "l3"]
               two == [one EXCEPT !.l2 = l2]
    <2>1. tasks' = [tasks EXCEPT ![t] = two] /\ ui' = [ui EXCEPT !.l2 = l2] /\ UNCHANGED current
      BY <1>1 DEF GotL2, Await
    <2>2. IsTask(one) /\ one.at = "l3" /\ one.aborted = tasks[t].aborted
      BY <1>0, NextAwait
    <2> HIDE DEF one, l2
    <2>3. IsTask(two) /\ two.at = "l3" /\ two.aborted = tasks[t].aborted
      BY <2>2, Fetched
    <2>4. IsUi(ui') /\ ui'.refreshing = ui.refreshing
      BY <1>0, <2>1, Drawn
    <2> HIDE DEF two
    <2> QED BY <2>1, <2>3, <2>4, Awaiting
  <1>2. CASE GotL3(t)
    <2> DEFINE l3 == tasks[t].l3 \cup {Site(t)}
               one == [tasks[t] EXCEPT !.at = "clients"]
               two == [one EXCEPT !.l3 = l3]
    <2>1. tasks' = [tasks EXCEPT ![t] = two] /\ ui' = [ui EXCEPT !.l3 = l3] /\ UNCHANGED current
      BY <1>2 DEF GotL3, Await
    <2>2. IsTask(one) /\ one.at = "clients" /\ one.aborted = tasks[t].aborted
      BY <1>0, NextAwait
    <2> HIDE DEF one, l3
    <2>3. IsTask(two) /\ two.at = "clients" /\ two.aborted = tasks[t].aborted
      BY <2>2, Fetched
    <2>4. IsUi(ui') /\ ui'.refreshing = ui.refreshing
      BY <1>0, <2>1, Drawn
    <2> HIDE DEF two
    <2> QED BY <2>1, <2>3, <2>4, Awaiting
  <1>3. CASE GotClients(t)
    <2>1. PICK l2, draws : /\ tasks' = [tasks EXCEPT ![t] = [[tasks[t] EXCEPT !.at = "details"] EXCEPT !.l2 = l2]]
                           /\ ui' = IF draws THEN [ui EXCEPT !.l2 = l2] ELSE ui
                           /\ UNCHANGED current
      BY <1>3 DEF GotClients, Await
    <2> DEFINE one == [tasks[t] EXCEPT !.at = "details"]
               two == [one EXCEPT !.l2 = l2]
    <2>2. IsTask(one) /\ one.at = "details" /\ one.aborted = tasks[t].aborted
      BY <1>0, NextAwait
    <2>3. tasks' = [tasks EXCEPT ![t] = two]
      BY <2>1
    <2> HIDE DEF one
    <2>4. IsTask(two) /\ two.at = "details" /\ two.aborted = tasks[t].aborted
      BY <2>2, Fetched
    <2>5. IsUi(ui') /\ ui'.refreshing = ui.refreshing
      BY <1>0, <2>1, Drawn
    <2> HIDE DEF two
    <2> QED BY <2>1, <2>3, <2>4, <2>5, Awaiting
  <1>4. CASE Fails(t)
    <2>1. CASE tasks[t].target # All
      BY <1>4, <2>1, Finishing DEF Fails
    <2>2. CASE tasks[t].target = All
      <3> DEFINE at == IF tasks[t].at = "l2" THEN "l3" ELSE "clients"
                 one == [tasks[t] EXCEPT !.at = at]
      <3>1. tasks' = [tasks EXCEPT ![t] = one] /\ UNCHANGED current
        BY <1>4, <2>2 DEF Fails
      <3>2. IsUi(ui') /\ ui'.refreshing = ui.refreshing
        <4>1. ui' = [ui EXCEPT !.l2 = tasks[t].l2] \/ ui' = [ui EXCEPT !.l3 = tasks[t].l3]
          BY <1>4, <2>2 DEF Fails
        <4>2. CASE ui' = [ui EXCEPT !.l2 = tasks[t].l2]
          BY <1>0, <4>2, Drawn
        <4>3. CASE ui' = [ui EXCEPT !.l3 = tasks[t].l3]
          BY <1>0, <4>3, Drawn
        <4> QED BY <4>1, <4>2, <4>3
      <3>3. at # "idle"
        OBVIOUS
      <3> HIDE DEF at
      <3>4. IsTask(one) /\ one.at = at /\ one.aborted = tasks[t].aborted
        BY <1>0, NextAwait
      <3> HIDE DEF one
      <3> QED BY <3>1, <3>2, <3>3, <3>4, Awaiting
    <2> QED BY <2>1, <2>2
  <1>5. CASE GotDetails(t)
    <2> DEFINE more == tasks[t].target = All /\ tasks[t].site < Len(Order)
    <2>1. CASE more
      <3> DEFINE one == [tasks[t] EXCEPT !.site = @ + 1]
                 two == [one EXCEPT !.at = "l2"]
      <3>1. tasks' = [tasks EXCEPT ![t] = two] /\ UNCHANGED <<ui, current>>
        BY <1>5, <2>1 DEF GotDetails, OverlayInv
      <3>2. IsTask(one) /\ one.aborted = tasks[t].aborted
        BY <1>0 DEF IsTask, TaskFields
      <3> HIDE DEF one
      <3>3. IsTask(two) /\ two.at = "l2" /\ two.aborted = tasks[t].aborted
        BY <3>2, NextAwait
      <3> HIDE DEF two
      <3> QED BY <1>0, <3>1, <3>3, Awaiting
    <2>2. CASE ~more
      BY <1>5, <2>2, Finishing DEF GotDetails
    <2> QED BY <2>1, <2>2
  <1> QED BY <1>1, <1>2, <1>3, <1>4, <1>5 DEF Goes

\* Every step keeps what is said of the overlay.
LEMMA OverlayStep == ASSUME OverlayInv, [PageNext]_allVars PROVE OverlayInv'
  <1>0. IsUi(ui)
    BY DEF OverlayInv
  <1>1. ASSUME UNCHANGED <<tasks, current>>, IsUi(ui'), ui'.refreshing = ui.refreshing PROVE OverlayInv'
    BY <1>1 DEF OverlayInv, Drawing
  <1>2. CASE UNCHANGED <<tasks, current, ui>>
    BY <1>0, <1>1, <1>2 DEF IsUi
  <1>3. CASE User
    <2>1. ASSUME NEW n \in Sites, handleSelectSite(n) PROVE OverlayInv'
      <3> DEFINE one == [ui EXCEPT !.selected = n]
                 two == [one EXCEPT !.timers = @ \cup {"site"}]
      <3>1. IsUi(one)
        BY <1>0, Pages
      <3>2. IsUi(two)
        BY <3>1, Pages
      <3>3. selectNetwork(two)
        BY <2>1 DEF handleSelectSite
      <3> HIDE DEF two
      <3> QED BY <3>2, <3>3, OverlaySelecting
    <2>2. ASSUME NEW id \in Targets, handleNetworkChange(id) PROVE OverlayInv'
      <3> DEFINE one == [ui EXCEPT !.selected = id]
                 two == [one EXCEPT !.view = IF id = All THEN @ ELSE "site"]
      <3>1. IsUi(one)
        BY <1>0, Pages
      <3>2. IsUi(two)
        BY <3>1, Pages
      <3>3. selectNetwork(two)
        BY <2>2 DEF handleNetworkChange
      <3> HIDE DEF two
      <3> QED BY <3>2, <3>3, OverlaySelecting
    <2>3. ASSUME NEW v, ViewTimer(v) PROVE OverlayInv'
      <3> DEFINE one == [ui EXCEPT !.view = v]
                 two == [one EXCEPT !.timers = @ \ {v}]
      <3>1. IsUi(one) /\ one.refreshing = ui.refreshing
        BY <1>0, Pages
      <3>2. IsUi(two) /\ two.refreshing = ui.refreshing
        BY <3>1, Pages
      <3>3. ui' = two /\ UNCHANGED <<tasks, current>>
        BY <2>3 DEF ViewTimer
      <3> HIDE DEF two
      <3> QED BY <1>1, <3>2, <3>3
    <2>4. ASSUME handleBackToMap PROVE OverlayInv'
      <3>1. ui' = [ui EXCEPT !.timers = @ \cup {"map"}] /\ UNCHANGED <<tasks, current>>
        BY <2>4 DEF handleBackToMap
      <3> QED BY <1>0, <1>1, <3>1, Pages
    <2>5. ASSUME RefreshButton PROVE OverlayInv'
      <3>1. \E target, after : refresh(ui, target, after)
        BY <2>5 DEF RefreshButton
      <3> QED BY <1>0, <3>1, Refreshing
    <2>6. ASSUME SaveButton PROVE OverlayInv'
      BY <1>2, <2>6 DEF SaveButton
    <2>7. ASSUME Reload PROVE OverlayInv'
      <3>1. tasks' = [t \in Slots |-> NoTask] /\ ui' = Opened(local)
        BY <2>7 DEF Reload
      <3>2. IsUi(Opened(local)) /\ Opened(local).refreshing = FALSE
        BY DEF Opened, IsUi, UiFields
      <3> QED BY <3>1, <3>2, TaskOfRefresh DEF OverlayInv
    <2> QED BY <1>3, <2>1, <2>2, <2>3, <2>4, <2>5, <2>6, <2>7 DEF User
  <1>4. ASSUME NEW t \in Slots, Goes(t) \/ Aborted(t) PROVE OverlayInv'
    BY <1>4, OverlayGoing, Finishing DEF Aborted
  <1>5. ASSUME NEW l \in Loaders, AskSeed(l) PROVE OverlayInv'
    BY <1>2, <1>5 DEF AskSeed
  <1>6. ASSUME NEW l \in Loaders, loadSeedFile(l) PROVE OverlayInv'
    <2>1. UNCHANGED <<tasks, current>>
      BY <1>6 DEF loadSeedFile
    <2>2. CASE UNCHANGED ui
      BY <1>2, <2>1, <2>2
    <2>3. CASE \E k, n, p, q : ui' = [ui EXCEPT !.known = k, !.selected = n, !.l2 = p, !.l3 = q]
      <3>1. PICK k, n, p, q : ui' = [[[[ui EXCEPT !.known = k] EXCEPT !.selected = n] EXCEPT !.l2 = p] EXCEPT !.l3 = q]
        BY <2>3
      <3> DEFINE one == [ui EXCEPT !.known = k]
                 two == [one EXCEPT !.selected = n]
                 three == [two EXCEPT !.l2 = p]
                 four == [three EXCEPT !.l3 = q]
      <3>2. IsUi(one) /\ one.refreshing = ui.refreshing
        BY <1>0, Pages
      <3>3. IsUi(two) /\ two.refreshing = ui.refreshing
        BY <3>2, Pages
      <3>4. IsUi(three) /\ three.refreshing = ui.refreshing
        BY <3>3, Drawn
      <3>5. IsUi(four) /\ four.refreshing = ui.refreshing
        BY <3>4, Drawn
      <3>6. ui' = four
        BY <3>1
      <3> HIDE DEF four
      <3> QED BY <1>1, <2>1, <3>5, <3>6
    <2>4. ASSUME ~UNCHANGED ui PROVE \E k, n, p, q : ui' = [ui EXCEPT !.known = k, !.selected = n, !.l2 = p, !.l3 = q]
      <3> DEFINE seen == loader[l].seen
                 entry == (IF seen.topology = Nothing THEN NoCache ELSE seen.topology.topology)[seen.meta.selected]
      <3>1. ui' = [ui EXCEPT !.known = seen.networks # Nothing, !.selected = seen.meta.selected,
                             !.l2 = IF entry = Nothing THEN @ ELSE entry.l2,
                             !.l3 = IF entry = Nothing THEN @ ELSE entry.l3]
        BY <1>6, <2>4 DEF loadSeedFile
      <3> DEFINE k == seen.networks # Nothing
                 n == seen.meta.selected
                 p == IF entry = Nothing THEN ui.l2 ELSE entry.l2
                 q == IF entry = Nothing THEN ui.l3 ELSE entry.l3
      <3>2. ui' = [ui EXCEPT !.known = k, !.selected = n, !.l2 = p, !.l3 = q]
        BY <1>0, <3>1 DEF IsUi, UiFields
      <3> HIDE DEF k, n, p, q
      <3> QED BY <3>2
    <2> QED BY <2>2, <2>3, <2>4
  <1>7. ASSUME fetchNetworks PROVE OverlayInv'
    <2>1. UNCHANGED <<tasks, current>>
      BY <1>7 DEF fetchNetworks
    <2>2. CASE UNCHANGED ui
      BY <1>2, <2>1, <2>2
    <2>3. CASE \E k, n : ui' = [ui EXCEPT !.known = k, !.selected = n]
      <3>1. PICK k, n : ui' = [[ui EXCEPT !.known = k] EXCEPT !.selected = n]
        BY <2>3
      <3> DEFINE one == [ui EXCEPT !.known = k]
                 two == [one EXCEPT !.selected = n]
      <3>2. IsUi(one) /\ one.refreshing = ui.refreshing
        BY <1>0, Pages
      <3>3. IsUi(two) /\ two.refreshing = ui.refreshing
        BY <3>2, Pages
      <3>4. ui' = two
        BY <3>1
      <3> HIDE DEF two
      <3> QED BY <1>1, <2>1, <3>3, <3>4
    <2> QED BY <1>7, <2>2, <2>3 DEF fetchNetworks
  <1>8. ASSUME NEW s, NEW t, Post(t, s) PROVE OverlayInv'
    BY <1>2, <1>8 DEF Post
  <1>9. CASE Tables \/ UNCHANGED allVars
    BY <1>2, <1>9 DEF Tables, pageVars, allVars
  <1> QED BY <1>3, <1>4, <1>5, <1>6, <1>7, <1>8, <1>9 DEF PageNext, Page

\* OverlayMeansWork: an overlay that is shown, with its button disabled, has a
\* refresh at work, although any refresh ends the overlay of any other.
THEOREM Overlay == PageSpec => []OverlayMeansWork
  <1>1. PageInit => OverlayInv
    <2>1. IsUi(Opened(Nothing)) /\ Opened(Nothing).refreshing = FALSE
      BY DEF Opened, IsUi, UiFields
    <2> QED BY <2>1, TaskOfRefresh DEF PageInit, OverlayInv
  <1>2. OverlayInv /\ [PageNext]_allVars => OverlayInv'
    BY OverlayStep
  <1>3. OverlayInv => OverlayMeansWork
    BY DEF OverlayInv, OverlayMeansWork
  <1> QED BY <1>1, <1>2, <1>3, PTL DEF PageSpec
-----------------------------------------------------------------------------
(***************************************************************************)
(* Selections: wherever one is on its way, in the page, in a snapshot or   *)
(* in the tables, it is a network or all of them.                          *)
(***************************************************************************)
Chosen(s) == s # Nothing => s.selected \in Targets

Selects ==
    /\ ui.selected \in Targets
    /\ local # Nothing => local.selected \in Targets
    /\ \A s \in posts : s.selected \in Targets

MetaSelects ==
    /\ Chosen(durable.meta) /\ Chosen(work.meta)
    /\ \A t \in Savers : Chosen(saver[t].snapshot)
    /\ \A l \in Loaders : Chosen(loader[l].seen.meta)

\* A saver writes the selection of its snapshot, ...
LEMMA SaverSelection ==
    ASSUME CacheInv, MetaSelects, NEW t \in Savers, SaverStep(t)
    PROVE  MetaSelects'
  <1>0. /\ IsTables(work) /\ IsTables(durable) /\ saver = [u \in Savers |-> saver[u]]
        /\ saver[t] = [at |-> saver[t].at, snapshot |-> saver[t].snapshot]
    BY DEF CacheInv, Types
  <1>1. UNCHANGED loader
    BY DEF SaverStep, Save, Refused, Commit
  <1>2. Chosen(durable'.meta) /\ Chosen(work'.meta)
    <2>1. CASE Refused(t)
      BY <2>1 DEF Refused, Rollback, MetaSelects
    <2>2. CASE Commit(t)
      BY <2>2 DEF Commit, MetaSelects
    <2>3. CASE Save(t)
      <3> DEFINE s == saver[t].snapshot
      <3>1. UNCHANGED durable
        BY <2>3 DEF Save, Statement, Write
      <3>2. \/ \E v : work' \in {[work EXCEPT !.orgs = v], [work EXCEPT !.networks = v], [work EXCEPT !.topology = v]}
            \/ work' = [work EXCEPT !.meta = s]
        <4>1. CASE saver[t].at = "org"
          BY <2>3, <4>1 DEF Save, Statement, Write
        <4>2. CASE saver[t].at = "meta"
          BY <2>3, <4>2 DEF Save, Statement, Write
        <4>3. CASE saver[t].at \in {"delete networks", "networks"}
          BY <2>3, <4>3 DEF Save, Statement, Write
        <4>4. CASE saver[t].at \in {"delete topology", "topology"}
          BY <2>3, <4>4 DEF Save, Statement, Write
        <4> QED BY <2>3, <4>1, <4>2, <4>3, <4>4 DEF Save, Statement
      <3>3. ASSUME NEW v
            PROVE  /\ [work EXCEPT !.orgs = v].meta = work.meta
                   /\ [work EXCEPT !.meta = v].meta = v
                   /\ [work EXCEPT !.networks = v].meta = work.meta
                   /\ [work EXCEPT !.topology = v].meta = work.meta
        BY <1>0 DEF IsTables, Fields
      <3>4. work'.meta \in {work.meta, s}
        BY <3>2, <3>3
      <3> QED BY <3>1, <3>4 DEF MetaSelects
    <2> QED BY <2>1, <2>2, <2>3 DEF SaverStep
  <1>3. ASSUME NEW u \in Savers PROVE Chosen(saver'[u].snapshot)
    <2>1. saver'[u].snapshot \in {saver[u].snapshot, Nothing}
      <3>1. CASE Refused(t) \/ Commit(t)
        <4>1. saver' = [saver EXCEPT ![t] = Idle] /\ Idle.snapshot = Nothing
          BY <3>1 DEF Refused, Rollback, Commit, Released, Idle
        <4> QED BY <1>0, <4>1
      <3>2. CASE Save(t)
        <4>1. PICK at : saver' = [saver EXCEPT ![t].at = at]
          BY <3>2 DEF Save, Statement, Step
        <4>2. saver'[u] = IF u = t THEN [saver[t] EXCEPT !.at = at] ELSE saver[u]
          BY <1>0, <4>1
        <4> QED BY <1>0, <4>2, Saver
      <3> QED BY <3>1, <3>2 DEF SaverStep
    <2> QED BY <2>1 DEF MetaSelects, Chosen
  <1> QED BY <1>1, <1>2, <1>3 DEF MetaSelects, Chosen

\* and a loader reads one that was saved.
LEMMA LoaderSelection ==
    ASSUME CacheInv, Tabled, MetaSelects, NEW l \in Loaders,
           ReadMeta(l) \/ ReadOrg(l) \/ ReadNetworks(l) \/ ReadTopology(l) \/ Answer(l)
    PROVE  MetaSelects'
  <1>1. IsTables(Empty) /\ Empty.meta = Nothing
    BY DEF IsTables, Fields, Empty
  <1>2. ASSUME NEW w, IsTables(w), NEW v
        PROVE  /\ [w EXCEPT !.meta = v].meta = v
               /\ [w EXCEPT !.networks = v].meta = w.meta
               /\ [w EXCEPT !.topology = v].meta = w.meta
    BY <1>2 DEF IsTables, Fields
  <1>3. UNCHANGED <<durable, work, saver>>
    BY DEF ReadMeta, ReadOrg, ReadNetworks, ReadTopology, Answer, Read
  <1>4. IsTables(loader[l].seen)
    BY DEF Tabled
  <1>5. PICK at, seen, org : /\ Read(l, at, seen, org)
                             /\ seen.meta \in {Nothing, loader[l].seen.meta, work.meta}
    <2> DEFINE Seen(seen) == seen.meta \in {Nothing, loader[l].seen.meta, work.meta}
    <2>1. CASE ReadMeta(l)
      <3>1. Seen([Empty EXCEPT !.meta = work.meta])
        BY <1>1, <1>2
      <3> QED BY <2>1, <3>1 DEF ReadMeta
    <2>2. CASE ReadOrg(l)
      BY <2>2 DEF ReadOrg
    <2>3. CASE ReadNetworks(l)
      <3>1. Seen([loader[l].seen EXCEPT !.networks = work.networks])
        BY <1>2, <1>4
      <3> QED BY <2>3, <3>1 DEF ReadNetworks
    <2>4. CASE ReadTopology(l)
      <3>1. Seen([loader[l].seen EXCEPT !.topology = work.topology])
        BY <1>2, <1>4
      <3> QED BY <2>4, <3>1 DEF ReadTopology
    <2>5. CASE Answer(l)
      BY <1>1, <2>5 DEF Answer
    <2> QED BY <2>1, <2>2, <2>3, <2>4, <2>5
  <1>6. \A k \in Loaders : loader'[k] = IF k = l THEN [at |-> at, seen |-> seen, org |-> org] ELSE loader[k]
    BY <1>5 DEF Read, Tabled
  <1>7. \A k \in Loaders : loader'[k].seen.meta \in {Nothing, loader[k].seen.meta, work.meta}
    BY <1>5, <1>6
  <1> QED BY <1>3, <1>7 DEF MetaSelects, Chosen

-----------------------------------------------------------------------------
\* What a step does to the tasks and to what is shown.
Alters(task, new) == /\ new.target = task.target /\ new.after = task.after
                     /\ new.l2 = task.l2 /\ new.l3 = task.l3

Stays(page) == ui'.selected = page.selected /\ ui'.view = page.view /\ ui'.timers = page.timers

\* What a step sets of a refresh, and what it leaves.
LEMMA Tasks ==
    ASSUME NEW task, IsTask(task), NEW v
    PROVE  /\ Alters(task, [task EXCEPT !.aborted = v]) /\ Alters(task, [task EXCEPT !.at = v])
           /\ [task EXCEPT !.at = v].aborted = task.aborted /\ [task EXCEPT !.at = v].l3 = task.l3
           /\ [task EXCEPT !.at = v].l2 = task.l2
           /\ Alters(task, [task EXCEPT !.site = v]) /\ [task EXCEPT !.site = v].aborted = task.aborted
           /\ [task EXCEPT !.l2 = v].target = task.target /\ [task EXCEPT !.l2 = v].after = task.after
           /\ [task EXCEPT !.l2 = v].l2 = v /\ [task EXCEPT !.l2 = v].l3 = task.l3
           /\ [task EXCEPT !.l3 = v].target = task.target /\ [task EXCEPT !.l3 = v].after = task.after
           /\ [task EXCEPT !.l3 = v].l3 = v /\ [task EXCEPT !.l3 = v].l2 = task.l2
  BY DEF IsTask, TaskFields, Alters

\* An abort changes neither the target of a refresh nor what it has gathered.
LEMMA Aborting ==
    ASSUME OverlayInv, NEW t \in Slots
    PROVE  Alters(tasks[t], Abort(tasks)[t])
  <1>1. CASE current = Nothing
    BY <1>1 DEF Abort, Alters
  <1>2. CASE current # Nothing
    <2>1. Abort(tasks)[t] = IF t = current THEN [tasks[t] EXCEPT !.aborted = TRUE] ELSE tasks[t]
      BY <1>2 DEF Abort, OverlayInv
    <2>2. Alters(tasks[t], [tasks[t] EXCEPT !.aborted = TRUE])
      BY Tasks DEF OverlayInv
    <2> QED BY <2>1, <2>2 DEF Alters
  <1> QED BY <1>1, <1>2

\* What refresh does: one new task, and nothing drawn.
LEMMA OfRefresh ==
    ASSUME OverlayInv, NEW page, IsUi(page), NEW target, NEW after, refresh(page, target, after)
    PROVE  /\ \A t \in Slots : Alters(tasks[t], tasks'[t]) \/ tasks'[t] = Begun(target, after)
           /\ Stays(page) /\ ui'.l2 = {} /\ ui'.l3 = {}
           /\ current' # Nothing => tasks'[current'] = Begun(target, after)
  <1> DEFINE fits == target # All \/ page.known
             slot == CHOOSE t \in Slots : ~Live(t)
             a == [page EXCEPT !.l2 = {}]
             b == [a EXCEPT !.l3 = {}]
             c == [b EXCEPT !.refreshing = fits]
  <1>0. ui' = c
    BY DEF refresh
  <1>1. IsUi(a) /\ a.l2 = {} /\ a.selected = page.selected /\ a.view = page.view /\ a.timers = page.timers
    BY DEF IsUi, UiFields
  <1> HIDE DEF a
  <1>2. IsUi(b) /\ b.l2 = {} /\ b.l3 = {} /\ b.selected = page.selected /\ b.view = page.view /\ b.timers = page.timers
    BY <1>1 DEF IsUi, UiFields
  <1> HIDE DEF b
  <1>3. c.l2 = {} /\ c.l3 = {} /\ c.selected = page.selected /\ c.view = page.view /\ c.timers = page.timers
    BY <1>2 DEF IsUi, UiFields
  <1>4. slot \in Slots
    BY DEF refresh
  <1>5. IF fits THEN tasks' = [Abort(tasks) EXCEPT ![slot] = Begun(target, after)] /\ current' = slot
                ELSE tasks' = Abort(tasks) /\ current' = Nothing
    BY DEF refresh
  <1> HIDE DEF slot, fits, c
  <1>6. \A t \in Slots : tasks'[t] = Abort(tasks)[t] \/ tasks'[t] = Begun(target, after)
    BY <1>5, AbortTasks
  <1>7. fits => tasks'[slot] = Begun(target, after)
    BY <1>4, <1>5, AbortTasks
  <1> QED BY <1>0, <1>3, <1>5, <1>6, <1>7, Aborting DEF Stays

\* What a selection from the cache does: the entry is drawn.
LEMMA OfHydrate ==
    ASSUME OverlayInv, NEW page, IsUi(page), NEW entry, hydrate(page, entry)
    PROVE  /\ \A t \in Slots : Alters(tasks[t], tasks'[t])
           /\ Stays(page) /\ ui'.l2 = entry.l2 /\ ui'.l3 = entry.l3
  <1> DEFINE a == [page EXCEPT !.l2 = entry.l2]
             b == [a EXCEPT !.l3 = entry.l3]
             c == [b EXCEPT !.refreshing = FALSE]
  <1>0. ui' = c /\ tasks' = Abort(tasks)
    BY DEF hydrate
  <1>1. IsUi(a) /\ a.l2 = entry.l2 /\ a.selected = page.selected /\ a.view = page.view /\ a.timers = page.timers
    BY DEF IsUi, UiFields
  <1> HIDE DEF a
  <1>2. /\ IsUi(b) /\ b.l2 = entry.l2 /\ b.l3 = entry.l3
        /\ b.selected = page.selected /\ b.view = page.view /\ b.timers = page.timers
    BY <1>1 DEF IsUi, UiFields
  <1> HIDE DEF b
  <1>3. /\ c.l2 = entry.l2 /\ c.l3 = entry.l3
        /\ c.selected = page.selected /\ c.view = page.view /\ c.timers = page.timers
    BY <1>2 DEF IsUi, UiFields
  <1> HIDE DEF c
  <1> QED BY <1>0, <1>3, Aborting DEF Stays

\* A task that goes on adds what is of its site, to what it has got and to
\* what is shown.
Adds(new, old, t) ==
    /\ new.l2 \subseteq old.l2 \cup tasks[t].l2 \cup {Site(t)}
    /\ new.l3 \subseteq old.l3 \cup tasks[t].l3 \cup {Site(t)}

\* What the end of a refresh does: it draws nothing.
LEMMA OfEnd ==
    ASSUME OverlayInv, NEW t \in Slots, End(t, ui)
    PROVE  /\ \A u \in Slots : tasks'[u] = IF u = t THEN NoTask ELSE tasks[u]
           /\ Stays(ui) /\ ui'.l2 = ui.l2 /\ ui'.l3 = ui.l3
  BY DEF OverlayInv, End, IsUi, UiFields, Stays

\* What a refresh that goes on does: it draws, and gathers, what is of its site.
LEMMA OfGoing ==
    ASSUME OverlayInv, NEW t \in Slots, Goes(t)
    PROVE  /\ \A u \in Slots : u # t => tasks'[u] = tasks[u]
           /\ \/ tasks'[t] = NoTask
              \/ /\ tasks'[t].target = tasks[t].target /\ tasks'[t].after = tasks[t].after
                 /\ Adds(tasks'[t], tasks[t], t)
           /\ Stays(ui) /\ Adds(ui', ui, t)
  <1>0. IsTask(tasks[t]) /\ IsUi(ui)
    BY DEF OverlayInv
  <1>1. ASSUME NEW new, tasks' = [tasks EXCEPT ![t] = new]
        PROVE  tasks'[t] = new /\ \A u \in Slots : u # t => tasks'[u] = tasks[u]
    BY <1>1 DEF OverlayInv
  <1>2. CASE GotL2(t)
    <2> DEFINE l2 == tasks[t].l2 \cup {Site(t)}
               one == [tasks[t] EXCEPT !.at = "l3"]
               two == [one EXCEPT !.l2 = l2]
    <2>1. tasks' = [tasks EXCEPT ![t] = two] /\ ui' = [ui EXCEPT !.l2 = l2]
      BY <1>2 DEF GotL2, Await
    <2>2. IsTask(one) /\ Alters(tasks[t], one)
      BY <1>0, NextAwait, Tasks
    <2> HIDE DEF one
    <2>3. two.target = one.target /\ two.after = one.after /\ two.l2 = l2 /\ two.l3 = one.l3
      BY <2>2, Tasks
    <2> HIDE DEF two
    <2>4. tasks'[t] = two /\ \A u \in Slots : u # t => tasks'[u] = tasks[u]
      BY <1>1, <2>1
    <2>5. Stays(ui) /\ ui'.l2 = l2 /\ ui'.l3 = ui.l3
      BY <1>0, <2>1 DEF IsUi, UiFields, Stays
    <2> QED BY <2>2, <2>3, <2>4, <2>5 DEF Adds, Alters
  <1>3. CASE GotL3(t)
    <2> DEFINE l3 == tasks[t].l3 \cup {Site(t)}
               one == [tasks[t] EXCEPT !.at = "clients"]
               two == [one EXCEPT !.l3 = l3]
    <2>1. tasks' = [tasks EXCEPT ![t] = two] /\ ui' = [ui EXCEPT !.l3 = l3]
      BY <1>3 DEF GotL3, Await
    <2>2. IsTask(one) /\ Alters(tasks[t], one)
      BY <1>0, NextAwait, Tasks
    <2> HIDE DEF one
    <2>3. two.target = one.target /\ two.after = one.after /\ two.l3 = l3 /\ two.l2 = one.l2
      BY <2>2, Tasks
    <2> HIDE DEF two
    <2>4. tasks'[t] = two /\ \A u \in Slots : u # t => tasks'[u] = tasks[u]
      BY <1>1, <2>1
    <2>5. Stays(ui) /\ ui'.l3 = l3 /\ ui'.l2 = ui.l2
      BY <1>0, <2>1 DEF IsUi, UiFields, Stays
    <2> QED BY <2>2, <2>3, <2>4, <2>5 DEF Adds, Alters
  <1>4. CASE GotClients(t)
    <2>1. PICK l2 \in {tasks[t].l2, tasks[t].l2 \cup {Site(t)}}, draws \in BOOLEAN :
            /\ tasks' = [tasks EXCEPT ![t] = [[tasks[t] EXCEPT !.at = "details"] EXCEPT !.l2 = l2]]
            /\ ui' = IF draws THEN [ui EXCEPT !.l2 = l2] ELSE ui
      BY <1>4 DEF GotClients, Await
    <2> DEFINE one == [tasks[t] EXCEPT !.at = "details"]
               two == [one EXCEPT !.l2 = l2]
    <2>2. IsTask(one) /\ Alters(tasks[t], one)
      BY <1>0, NextAwait, Tasks
    <2>3. tasks' = [tasks EXCEPT ![t] = two]
      BY <2>1
    <2> HIDE DEF one
    <2>4. two.target = one.target /\ two.after = one.after /\ two.l2 = l2 /\ two.l3 = one.l3
      BY <2>2, Tasks
    <2> HIDE DEF two
    <2>5. tasks'[t] = two /\ \A u \in Slots : u # t => tasks'[u] = tasks[u]
      BY <1>1, <2>3
    <2>6. Stays(ui) /\ ui'.l2 \in {l2, ui.l2} /\ ui'.l3 = ui.l3
      BY <1>0, <2>1 DEF IsUi, UiFields, Stays
    <2>7. l2 \subseteq tasks[t].l2 \cup {Site(t)}
      OBVIOUS
    <2> QED BY <2>2, <2>4, <2>5, <2>6, <2>7 DEF Adds, Alters
  <1>5. CASE Fails(t)
    <2>1. CASE tasks[t].target # All
      BY <1>5, <2>1, OfEnd DEF Fails, Adds
    <2>2. CASE tasks[t].target = All
      <3> DEFINE at == IF tasks[t].at = "l2" THEN "l3" ELSE "clients"
                 one == [tasks[t] EXCEPT !.at = at]
      <3>1. tasks' = [tasks EXCEPT ![t] = one]
        BY <1>5, <2>2 DEF Fails
      <3>2. ui' = [ui EXCEPT !.l2 = tasks[t].l2] \/ ui' = [ui EXCEPT !.l3 = tasks[t].l3]
        BY <1>5, <2>2 DEF Fails
      <3>3. Stays(ui) /\ ui'.l2 \in {ui.l2, tasks[t].l2} /\ ui'.l3 \in {ui.l3, tasks[t].l3}
        BY <1>0, <3>2 DEF IsUi, UiFields, Stays
      <3> HIDE DEF at
      <3>4. Alters(tasks[t], one)
        BY <1>0, Tasks
      <3> HIDE DEF one
      <3>5. tasks'[t] = one /\ \A u \in Slots : u # t => tasks'[u] = tasks[u]
        BY <1>1, <3>1
      <3> QED BY <3>3, <3>4, <3>5 DEF Adds, Alters
    <2> QED BY <2>1, <2>2
  <1>6. CASE GotDetails(t)
    <2> DEFINE more == tasks[t].target = All /\ tasks[t].site < Len(Order)
    <2>1. CASE more
      <3> DEFINE one == [tasks[t] EXCEPT !.site = @ + 1]
                 two == [one EXCEPT !.at = "l2"]
      <3>1. tasks' = [tasks EXCEPT ![t] = two] /\ UNCHANGED ui
        BY <1>6, <2>1 DEF GotDetails, OverlayInv
      <3>2. IsTask(one) /\ Alters(tasks[t], one)
        BY <1>0 DEF IsTask, TaskFields, Alters
      <3> HIDE DEF one
      <3>3. Alters(one, two)
        BY <3>2, Tasks
      <3> HIDE DEF two
      <3>4. tasks'[t] = two /\ \A u \in Slots : u # t => tasks'[u] = tasks[u]
        BY <1>1, <3>1
      <3> QED BY <3>1, <3>2, <3>3, <3>4 DEF Adds, Alters, Stays
    <2>2. CASE ~more
      BY <1>6, <2>2, OfEnd DEF GotDetails, Adds
    <2> QED BY <2>1, <2>2
  <1> QED BY <1>2, <1>3, <1>4, <1>5, <1>6 DEF Goes

-----------------------------------------------------------------------------
(***************************************************************************)
(* What is shown: a site has its own devices and subnets, and a refresh    *)
(* that draws while the site is shown, or about to be, is the site's.      *)
(***************************************************************************)
Fine(task) ==
    /\ task.after # Nothing => task.after \in Targets
    /\ task.target # All => task.l2 \cup task.l3 \subseteq {task.target}

SiteShown == ui.selected # All /\ (ui.view = "site" \/ "site" \in ui.timers)

Shown ==
    ~strayed /\ SiteShown =>
        /\ ui.l2 \cup ui.l3 \subseteq {ui.selected}
        /\ \A t \in Drawing(tasks) : tasks[t].target = ui.selected

ShownInv ==
    /\ Selects /\ (~others => MetaSelects)
    /\ \A t \in Slots : Fine(tasks[t])
    /\ Shown

\* Refreshes that begin or are aborted are fine.
LEMMA FineTasks ==
    /\ Fine(NoTask)
    /\ \A target, after : after \in Targets \cup {Nothing} => Fine(Begun(target, after))
    /\ \A target, after : Begun(target, after).target = target
    /\ \A task, new : Fine(task) /\ Alters(task, new) => Fine(new)
  BY DEF Fine, NoTask, Begun, Alters

\* The first network in the list is one.
LEMMA FirstNetwork == ASSUME PageAssumption, Sites # {} PROVE Order[1] \in Sites
  <1>1. Cardinality(Sites) \in Nat /\ Cardinality(Sites) # 0 /\ ExistsBijection(1..Cardinality(Sites), Sites)
    BY FS_CardinalityType, FS_EmptySet DEF PageAssumption
  <1>2. \E f \in [1..Cardinality(Sites) -> Sites] : IsInjective(f)
    BY <1>1 DEF ExistsBijection, Bijection, Injection
  <1>3. Order \in [1..Cardinality(Sites) -> Sites]
    BY <1>2 DEF Order, SetToSeq
  <1> QED BY <1>1, <1>3

\* What a page keeps and saves carries its selections.
LEMMA KeptSelections ==
    ASSUME Selects, ui'.selected \in Targets, local' = local \/ local'.selected = ui'.selected,
           \A s \in posts' : s \in posts \/ s.selected \in Targets
    PROVE  Selects'
  BY DEF Selects, Targets

\* localStorage has the selection that was there, or the present one.
LEMMA PersistedSelection == ASSUME NEW stamped, Persist(stamped) PROVE local' = local \/ local'.selected = ui'.selected
  BY DEF Persist

\* saveSnapshot posts the selection it is given.
LEMMA SavedSelection ==
    ASSUME NEW selected \in Targets
    PROVE  \A s \in Saved(selected) : s \in posts \/ s.selected \in Targets
  BY DEF Saved, Body

\* A drawing that begins or ends leaves what is shown to the selection.
LEMMA RefreshShows ==
    ASSUME PageAssumption, OverlayInv, NEW page, IsUi(page), NEW target, NEW after, refresh(page, target, after),
           page.view # "site" \/ target = page.selected
    PROVE  Shown'
  <1>1. Stays(page) /\ ui'.l2 = {} /\ ui'.l3 = {}
    BY OfRefresh
  <1>2. ASSUME ~strayed', SiteShown', NEW t \in Drawing(tasks') PROVE tasks'[t].target = ui'.selected
    <2>1. ~Astray /\ ("site" \in page.timers => target = page.selected)
      BY <1>2 DEF refresh
    <2>2. target = ui'.selected
      BY <1>1, <1>2, <2>1 DEF SiteShown, Stays
    <2>3. t = current' /\ t # Nothing
      BY <1>2, <2>1 DEF Astray, Drawing, PageAssumption
    <2> QED BY <2>2, <2>3, OfRefresh, FineTasks
  <1> QED BY <1>1, <1>2 DEF Shown, SiteShown

\* A selection from the cache shows the selected site, and nothing draws.
LEMMA HydrateShows ==
    ASSUME PageAssumption, OverlayInv, NEW page, IsUi(page), NEW entry, hydrate(page, entry),
           page.selected # All => entry.l2 \cup entry.l3 \subseteq {page.selected}
    PROVE  Shown'
  <1>1. Stays(page) /\ ui'.l2 = entry.l2 /\ ui'.l3 = entry.l3
    BY OfHydrate
  <1>2. ~strayed' => Drawing(tasks') = {}
    BY DEF hydrate, Astray, Drawing, PageAssumption
  <1> QED BY <1>1, <1>2 DEF Shown, SiteShown, Stays

\* So does any selection; one that refreshes draws for the selected site only.
LEMMA SelectionShows ==
    ASSUME PageAssumption, Kept, OverlayInv, NEW page, IsUi(page), page.selected \in Targets, selectNetwork(page)
    PROVE  Shown' /\ ui'.selected = page.selected
  <1> DEFINE id == page.selected
  <1>1. CASE cache[id] # Nothing
    <2>1. hydrate(page, cache[id])
      BY <1>1 DEF selectNetwork
    <2>2. id # All => cache[id].l2 \cup cache[id].l3 \subseteq {id}
      BY <1>1 DEF Kept, Good, OfTheirSites, Targets
    <2> QED BY <2>1, <2>2, HydrateShows, OfHydrate DEF Stays
  <1>2. CASE cache[id] = Nothing /\ id # All /\ cache[All] # Nothing
    <2> DEFINE entry == filterByNetwork(cache[All], id)
    <2>1. cache' = [cache EXCEPT ![id] = entry] /\ hydrate(page, cache'[id])
      BY <1>2 DEF selectNetwork
    <2>2. cache'[id] = entry
      BY <2>1 DEF Kept, Good
    <2>3. entry.l2 \cup entry.l3 \subseteq {id}
      BY DEF filterByNetwork
    <2> HIDE DEF entry
    <2> QED BY <2>1, <2>2, <2>3, HydrateShows, OfHydrate DEF Stays
  <1>3. CASE cache[id] = Nothing /\ (id = All \/ cache[All] = Nothing)
    BY <1>3, RefreshShows, OfRefresh DEF selectNetwork, Stays
  <1> QED BY <1>1, <1>2, <1>3

\* A selection leaves refreshes that are fine.
LEMMA SelectionTasks ==
    ASSUME OverlayInv, \A t \in Slots : Fine(tasks[t]), NEW page, IsUi(page),
           \/ selectNetwork(page)
           \/ \E target, after : after \in Targets \cup {Nothing} /\ refresh(page, target, after)
    PROVE  \A t \in Slots : Fine(tasks'[t])
  <1>1. ASSUME NEW entry, hydrate(page, entry) PROVE \A t \in Slots : Fine(tasks'[t])
    BY <1>1, OfHydrate, FineTasks
  <1>2. ASSUME NEW target, NEW after \in Targets \cup {Nothing}, refresh(page, target, after)
        PROVE  \A t \in Slots : Fine(tasks'[t])
    BY <1>2, OfRefresh, FineTasks
  <1> QED BY <1>1, <1>2 DEF selectNetwork

\* A refresh that ends posts the selection it was begun with.
LEMMA ResolvedSelection ==
    ASSUME Selects, NEW t \in Slots, Fine(tasks[t]), Resolve(t) \/ UNCHANGED posts
    PROVE  \A s \in posts' : s \in posts \/ s.selected \in Targets
  BY SavedSelection DEF Fine, Resolve

\* A refresh that draws while a site is shown draws what is of the site.
LEMMA GoingShows ==
    ASSUME OverlayInv, ShownInv, NEW t \in Slots, Goes(t)
    PROVE  Selects' /\ (\A u \in Slots : Fine(tasks'[u])) /\ Shown'
  <1>1. Fine(tasks[t]) /\ t \in Drawing(tasks)
    BY DEF ShownInv, Goes, Live, Drawing
  <1>2. Stays(ui) /\ UNCHANGED strayed
    BY OfGoing DEF Goes
  <1>3. Selects'
    <2>1. Resolve(t) \/ UNCHANGED posts
      BY DEF Goes, Fails, GotL2, GotL3, GotClients, GotDetails, Await
    <2>2. \E stamped : Persist(stamped)
      BY DEF Goes
    <2> QED BY <1>1, <1>2, <2>1, <2>2, ResolvedSelection, PersistedSelection, KeptSelections DEF ShownInv, Selects, Stays
  <1>4. tasks[t].target # All => Site(t) = tasks[t].target
    BY DEF Site
  <1>5. \A u \in Slots : Fine(tasks'[u])
    <2>1. Fine(tasks'[t])
      BY <1>1, <1>4, OfGoing, FineTasks DEF Fine, Adds
    <2> QED BY <2>1, OfGoing DEF ShownInv
  <1>6. Shown'
    <2> SUFFICES ASSUME ~strayed', SiteShown' PROVE Shown'
      BY DEF Shown
    <2>1. ui.l2 \cup ui.l3 \subseteq {ui.selected} /\ \A u \in Drawing(tasks) : tasks[u].target = ui.selected
      BY <1>2 DEF ShownInv, Shown, SiteShown, Stays
    <2>2. tasks[t].target = ui.selected /\ ui.selected # All
      BY <1>1, <1>2, <2>1 DEF SiteShown, Stays
    <2>3. ui'.l2 \cup ui'.l3 \subseteq {ui'.selected}
      BY <1>1, <1>2, <1>4, <2>1, <2>2, OfGoing DEF Fine, Adds, Stays
    <2>4. \A u \in Drawing(tasks') : tasks'[u].target = ui'.selected
      <3>1. t \notin Drawing(tasks') \/ tasks'[t].target = tasks[t].target
        BY OfGoing DEF Drawing, NoTask
      <3>2. \A u \in Drawing(tasks') : u = t \/ (u \in Drawing(tasks) /\ tasks'[u] = tasks[u])
        BY OfGoing DEF Drawing
      <3> QED BY <1>2, <2>1, <2>2, <3>1, <3>2 DEF Stays
    <2> QED BY <2>3, <2>4 DEF Shown
  <1> QED BY <1>3, <1>5, <1>6

\* The end of an aborted refresh draws nothing, whoever's flag it clears.
LEMMA AbortedShows ==
    ASSUME OverlayInv, ShownInv, NEW t \in Slots, Aborted(t)
    PROVE  Selects' /\ (\A u \in Slots : Fine(tasks'[u])) /\ Shown'
  <1>1. /\ \A u \in Slots : tasks'[u] = IF u = t THEN NoTask ELSE tasks[u]
        /\ Stays(ui) /\ ui'.l2 = ui.l2 /\ ui'.l3 = ui.l3
    BY OfEnd DEF Aborted
  <1>2. UNCHANGED <<local, strayed>> /\ Resolve(t) /\ Fine(tasks[t])
    BY DEF Aborted, ShownInv
  <1>3. Selects'
    BY <1>1, <1>2, ResolvedSelection, KeptSelections DEF ShownInv, Selects, Stays
  <1>4. \A u \in Slots : Fine(tasks'[u])
    BY <1>1, FineTasks DEF ShownInv
  <1>5. \A u \in Drawing(tasks') : u \in Drawing(tasks) /\ tasks'[u] = tasks[u]
    BY <1>1 DEF Drawing, NoTask
  <1>6. Shown'
    BY <1>1, <1>2, <1>5 DEF ShownInv, Shown, SiteShown, Stays
  <1> QED BY <1>3, <1>4, <1>6

\* The boot: a snapshot that is loaded beside a drawing strays, and the first
\* network moves the selection.
LEMMA BootShows ==
    ASSUME PageAssumption, Tabled, OverlayInv, ShownInv, MetaSelects, NEW l \in Loaders, loadSeedFile(l)
    PROVE  Selects' /\ Shown'
  <1> DEFINE seen == loader[l].seen
             kept == IF seen.topology = Nothing THEN NoCache ELSE seen.topology.topology
             entry == kept[seen.meta.selected]
             found == seen.meta # Nothing /\ (seen.networks # Nothing \/ seen.topology # Nothing)
  <1>1. UNCHANGED <<tasks, posts>> /\ \E stamped : Persist(stamped)
    BY DEF loadSeedFile
  <1>2. CASE ~found
    <2>1. UNCHANGED <<ui, strayed>>
      BY <1>2 DEF loadSeedFile
    <2> QED BY <1>1, <2>1, PersistedSelection, KeptSelections DEF ShownInv, Selects, Shown, SiteShown, Drawing
  <1>3. CASE found
    <2>1. ui' = [ui EXCEPT !.known = seen.networks # Nothing, !.selected = seen.meta.selected,
                           !.l2 = IF entry = Nothing THEN @ ELSE entry.l2,
                           !.l3 = IF entry = Nothing THEN @ ELSE entry.l3]
      BY <1>3 DEF loadSeedFile
    <2>2. strayed' = (Drawing(tasks) # {} \/ (entry = Nothing /\ ui.l2 \cup ui.l3 # {}))
      BY <1>3 DEF loadSeedFile
    <2>3. seen.meta.selected \in Targets
      BY <1>3 DEF MetaSelects, Chosen
    <2>4. Good(kept)
      BY Nowhere DEF Tabled, Proper
    <2>5. seen.meta.selected # All /\ entry # Nothing => entry.l2 \cup entry.l3 \subseteq {seen.meta.selected}
      BY <2>3, <2>4 DEF Good, OfTheirSites, Targets
    <2> HIDE DEF entry, found
    <2>6. ui'.selected = seen.meta.selected
      BY <2>1 DEF OverlayInv, IsUi, UiFields
    <2>7. /\ ui'.l2 = IF entry = Nothing THEN ui.l2 ELSE entry.l2
          /\ ui'.l3 = IF entry = Nothing THEN ui.l3 ELSE entry.l3
      BY <2>1 DEF OverlayInv, IsUi, UiFields
    <2> HIDE DEF seen
    <2>8. Selects'
      BY <1>1, <2>3, <2>6, PersistedSelection, KeptSelections DEF ShownInv
    <2>9. Shown'
      BY <1>1, <2>2, <2>5, <2>6, <2>7 DEF Shown, SiteShown, Drawing
    <2> QED BY <2>8, <2>9
  <1> QED BY <1>2, <1>3

\* fetchNetworks moves a selection astray, or where nothing is shown.
LEMMA NetworksShow ==
    ASSUME PageAssumption, OverlayInv, ShownInv, fetchNetworks
    PROVE  Selects' /\ Shown'
  <1>1. UNCHANGED <<tasks, posts>> /\ Persist(FALSE) /\ strayed' = (strayed \/ ui'.selected # ui.selected)
    BY DEF fetchNetworks
  <1>2. PICK k : \/ ui' = [ui EXCEPT !.known = k, !.selected = IF boot.selected = All /\ Sites # {} THEN Order[1] ELSE @]
                 \/ ui' = ui
    BY DEF fetchNetworks
  <1>3. /\ ui'.selected = ui.selected \/ (Sites # {} /\ ui'.selected = Order[1])
        /\ ui'.l2 = ui.l2 /\ ui'.l3 = ui.l3 /\ ui'.view = ui.view /\ ui'.timers = ui.timers
    BY <1>2 DEF OverlayInv, IsUi, UiFields
  <1>4. ui'.selected \in Targets
    BY <1>3, FirstNetwork DEF ShownInv, Selects, Targets
  <1>5. Selects'
    BY <1>1, <1>4, PersistedSelection, KeptSelections DEF ShownInv
  <1>6. Shown'
    BY <1>1, <1>3 DEF ShownInv, Shown, SiteShown, Drawing
  <1> QED BY <1>5, <1>6

\* Whatever the user does, a site that is shown is the selected one.
LEMMA UserShows ==
    ASSUME PageAssumption, Kept, OverlayInv, ShownInv, User
    PROVE  Selects' /\ (\A t \in Slots : Fine(tasks'[t])) /\ Shown'
  <1> DEFINE Goal == Selects' /\ (\A t \in Slots : Fine(tasks'[t])) /\ Shown'
  <1>0. IsUi(ui) /\ ui.selected \in Targets /\ All \in Targets
    BY DEF OverlayInv, ShownInv, Selects, Targets
  <1>1. ASSUME NEW page, IsUi(page), page.selected \in Targets,
               selectNetwork(page), Persist(FALSE), UNCHANGED posts
        PROVE  Goal
    <2>1. Shown' /\ ui'.selected = page.selected
      BY <1>1, SelectionShows
    <2>2. Selects'
      BY <1>1, <2>1, PersistedSelection, KeptSelections DEF ShownInv
    <2> QED BY <1>1, <2>1, <2>2, SelectionTasks DEF ShownInv
  <1>3. ASSUME NEW n \in Sites, handleSelectSite(n) PROVE Goal
    <2> DEFINE page == [ui EXCEPT !.selected = n, !.timers = @ \cup {"site"}]
    <2>1. IsUi(page) /\ page.selected \in Targets
      BY <1>0 DEF IsUi, UiFields, Targets
    <2>2. selectNetwork(page) /\ Persist(FALSE) /\ UNCHANGED posts
      BY <1>3 DEF handleSelectSite
    <2> HIDE DEF page
    <2> QED BY <1>1, <2>1, <2>2
  <1>4. ASSUME NEW id \in Targets, handleNetworkChange(id) PROVE Goal
    <2> DEFINE page == [ui EXCEPT !.selected = id, !.view = IF id = All THEN @ ELSE "site"]
    <2>1. IsUi(page) /\ page.selected \in Targets
      BY <1>0 DEF IsUi, UiFields
    <2>2. selectNetwork(page) /\ Persist(FALSE) /\ UNCHANGED posts
      BY <1>4 DEF handleNetworkChange
    <2> HIDE DEF page
    <2> QED BY <1>1, <2>1, <2>2
  <1>5. ASSUME NEW v \in {"map", "site"}, ViewTimer(v) \/ handleBackToMap PROVE Goal
    <2>1. /\ ui'.selected = ui.selected /\ ui'.l2 = ui.l2 /\ ui'.l3 = ui.l3
          /\ ui'.view = "site" \/ "site" \in ui'.timers => ui.view = "site" \/ "site" \in ui.timers
      BY <1>0, <1>5 DEF ViewTimer, handleBackToMap, IsUi, UiFields
    <2>2. UNCHANGED <<local, tasks, posts, strayed>>
      BY <1>5 DEF ViewTimer, handleBackToMap
    <2>3. Selects'
      BY <2>1, <2>2 DEF ShownInv, Selects
    <2>4. Shown'
      BY <2>1, <2>2 DEF ShownInv, Shown, SiteShown, Drawing
    <2> QED BY <2>2, <2>3, <2>4 DEF ShownInv
  <1>6. ASSUME RefreshButton PROVE Goal
    <2>1. PICK target, after : /\ refresh(ui, target, after)
                               /\ after \in Targets \cup {Nothing}
                               /\ ui.view # "site" \/ target = ui.selected
      BY <1>0, <1>6 DEF RefreshButton
    <2>2. Persist(FALSE) /\ UNCHANGED posts
      BY <1>6 DEF RefreshButton
    <2>3. Selects'
      BY <1>0, <2>1, <2>2, OfRefresh, PersistedSelection, KeptSelections DEF ShownInv, Stays
    <2> QED BY <1>0, <2>1, <2>3, RefreshShows, SelectionTasks DEF ShownInv
  <1>7. ASSUME SaveButton PROVE Goal
    <2>1. UNCHANGED <<local, tasks, ui, strayed>> /\ posts' = Saved(ui.selected)
      BY <1>7 DEF SaveButton
    <2>2. Selects'
      BY <1>0, <2>1, SavedSelection, KeptSelections DEF ShownInv
    <2> QED BY <2>1, <2>2 DEF ShownInv, Shown, SiteShown, Drawing
  <1>8. ASSUME Reload PROVE Goal
    <2>1. /\ ui' = Opened(local) /\ tasks' = [t \in Slots |-> NoTask]
          /\ UNCHANGED <<local, posts>>
      BY <1>8 DEF Reload
    <2>2. ui'.selected = (IF local = Nothing THEN All ELSE local.selected) /\ ui'.view = "map" /\ ui'.timers = {}
      BY <2>1 DEF Opened
    <2>3. Selects'
      BY <1>0, <2>1, <2>2, KeptSelections DEF ShownInv, Selects
    <2> QED BY <2>1, <2>2, <2>3, FineTasks DEF Shown, SiteShown
  <1> QED BY <1>3, <1>4, <1>5, <1>6, <1>7, <1>8 DEF User

\* What is saved, posted and loaded under a page has a selection.
LEMMA MetaPageStep ==
    ASSUME PageAssumption, EntriesInv, ShownInv, ~others, [PageNext]_allVars
    PROVE  MetaSelects'
  <1>0. CacheInv /\ Tabled /\ MetaSelects /\ Selects
    BY DEF EntriesInv, ShownInv
  <1>1. ASSUME UNCHANGED <<durable, work, saver, loader>> PROVE MetaSelects'
    BY <1>0, <1>1 DEF MetaSelects, Chosen
  <1>2. CASE Tables
    BY <1>0, <1>2, SaverSelection, LoaderSelection DEF Tables
  <1>3. CASE User
    <2>1. CASE Reload
      <3>1. loader' = [l \in Loaders |-> Unread] /\ UNCHANGED <<durable, work, saver>>
        BY <2>1 DEF Reload
      <3>2. Unread.seen.meta = Nothing
        BY DEF Unread, Empty
      <3> QED BY <1>0, <3>1, <3>2 DEF MetaSelects, Chosen
    <2>2. User => Reload \/ UNCHANGED vars
      BY DEF User, handleSelectSite, handleNetworkChange, ViewTimer, handleBackToMap, RefreshButton, SaveButton
    <2> QED BY <1>1, <1>3, <2>1, <2>2 DEF vars
  <1>4. ASSUME NEW t \in Slots, Goes(t) \/ Aborted(t) PROVE MetaSelects'
    BY <1>1, <1>4 DEF Goes, Aborted, vars
  <1>5. ASSUME NEW l \in Loaders, AskSeed(l) \/ loadSeedFile(l) PROVE MetaSelects'
    BY <1>0, <1>5, LoaderSelection DEF AskSeed, loadSeedFile
  <1>6. ASSUME fetchNetworks PROVE MetaSelects'
    BY <1>1, <1>6 DEF fetchNetworks, vars
  <1>7. ASSUME NEW s \in posts, NEW t, Post(t, s) PROVE MetaSelects'
    <2>1. saver' = [saver EXCEPT ![t] = [at |-> "org", snapshot |-> s]] /\ UNCHANGED <<durable, work, loader>>
      BY <1>7 DEF Post, Begin
    <2>2. \A u \in Savers : saver'[u].snapshot \in {saver[u].snapshot, s}
      BY <1>0, <2>1 DEF CacheInv, Types
    <2>3. Chosen(s)
      BY <1>0, <1>7 DEF Selects, Chosen
    <2> QED BY <1>0, <2>1, <2>2, <2>3 DEF MetaSelects, Chosen
  <1> QED BY <1>1, <1>2, <1>3, <1>4, <1>5, <1>6, <1>7 DEF PageNext, Page, allVars, vars

\* Every step keeps what is said of the view.
LEMMA ShownStep ==
    ASSUME PageAssumption, EntriesInv, OverlayInv, ShownInv, [PageNext]_allVars
    PROVE  ShownInv'
  <1> DEFINE Goal == Selects' /\ (\A t \in Slots : Fine(tasks'[t])) /\ Shown'
  <1>0. Kept /\ (~others => Tabled /\ MetaSelects)
    BY DEF EntriesInv, ShownInv
  <1>1. ASSUME UNCHANGED <<local, tasks, ui, posts, strayed>> PROVE Goal
    BY <1>1 DEF ShownInv, Selects, Shown, SiteShown, Drawing
  <1>2. ASSUME ~others, Page PROVE Goal
    <2>1. ASSUME NEW t \in Slots, Goes(t) \/ Aborted(t) PROVE Goal
      BY <2>1, GoingShows, AbortedShows
    <2>2. ASSUME NEW l \in Loaders, loadSeedFile(l) PROVE Goal
      <3>1. UNCHANGED tasks
        BY <2>2 DEF loadSeedFile
      <3> QED BY <1>0, <1>2, <2>2, <3>1, BootShows DEF ShownInv
    <2>3. ASSUME fetchNetworks PROVE Goal
      <3>1. UNCHANGED tasks
        BY <2>3 DEF fetchNetworks
      <3> QED BY <2>3, <3>1, NetworksShow DEF ShownInv
    <2>4. ASSUME NEW l, AskSeed(l) PROVE Goal
      BY <1>1, <2>4 DEF AskSeed
    <2>5. ASSUME NEW s \in posts, NEW t, Post(t, s) PROVE Goal
      <3>1. UNCHANGED <<local, tasks, ui, strayed>> /\ posts' = posts \ {s}
        BY <2>5 DEF Post
      <3>2. Selects'
        BY <3>1 DEF ShownInv, Selects
      <3> QED BY <3>1, <3>2 DEF ShownInv, Shown, SiteShown, Drawing
    <2> QED BY <1>0, <1>2, <2>1, <2>2, <2>3, <2>4, <2>5, UserShows DEF Page
  <1>3. ASSUME Tables \/ UNCHANGED allVars PROVE Goal
    BY <1>1, <1>3 DEF Tables, pageVars, allVars
  <1>4. Goal
    BY <1>2, <1>3 DEF PageNext
  <1>5. (others' <=> others) /\ (~others => MetaSelects')
    BY OthersStay, MetaPageStep DEF others
  <1> QED BY <1>4, <1>5 DEF ShownInv

\* A page opens with nothing drawn.
LEMMA ShownStart == ASSUME PageAssumption, SeedsAssumption, PageInit PROVE ShownInv
  <1>1. ui = Opened(Nothing) /\ local = Nothing /\ posts = {} /\ tasks = [t \in Slots |-> NoTask]
    BY DEF PageInit
  <1>2. ui.selected = All /\ ui.view = "map" /\ ui.timers = {}
    BY <1>1 DEF Opened
  <1>3. Selects /\ Shown
    BY <1>1, <1>2 DEF Selects, Shown, SiteShown, Targets
  <1>4. ASSUME ~others PROVE MetaSelects
    <2>1. Chosen(Empty.meta)
      BY DEF Empty, Chosen
    <2>2. ASSUME NEW s \in Seeds PROVE Chosen(Stored(s).meta)
      BY <2>2, SeedsAssumption DEF Stored, Chosen
    <2>3. Chosen(durable.meta) /\ work = durable
      BY <1>4, <2>1, <2>2 DEF PageInit, Init
    <2>4. saver = [t \in Savers |-> Idle] /\ loader = [l \in Loaders |-> Unread]
      BY DEF PageInit, Init
    <2>5. Idle.snapshot = Nothing /\ Unread.seen.meta = Nothing
      BY DEF Idle, Unread, Empty
    <2> QED BY <2>3, <2>4, <2>5 DEF MetaSelects, Chosen
  <1> QED BY <1>1, <1>3, <1>4, FineTasks DEF ShownInv

\* ShowsSelected: the view of a site shows what is of the selected network,
\* although refreshes are begun, aborted and replaced on the way and a
\* selection may be moved under them, unless a drawing has strayed.
THEOREM Shows == PageSpec => []ShowsSelected
  <1>1. PageInit => EntriesInv /\ OverlayInv /\ ShownInv
    <2>1. IsUi(Opened(Nothing)) /\ Opened(Nothing).refreshing = FALSE
      BY DEF Opened, IsUi, UiFields
    <2>2. PageInit => OverlayInv
      BY <2>1, TaskOfRefresh DEF PageInit, OverlayInv
    <2> QED BY <2>2, EntriesStart, ShownStart, PageAssumption, SeedsAssumption
  <1>2. EntriesInv /\ OverlayInv /\ ShownInv /\ [PageNext]_allVars => (EntriesInv /\ OverlayInv /\ ShownInv)'
    BY EntriesStep, OverlayStep, ShownStep, CacheAssumption, PageAssumption
  <1>3. ShownInv => ShowsSelected
    BY DEF ShownInv, Shown, SiteShown, ShowsSelected
  <1> QED BY <1>1, <1>2, <1>3, PTL DEF PageSpec
=============================================================================
