------------------------- MODULE TargetedPullsProofs -------------------------
(***************************************************************************)
(* Proofs about TargetedPulls, for every set of endpoints, hashes, scopes  *)
(* and slots, every way the change log maps to jobs, and every POLLS,      *)
(* MaxDown and Budgets.                                                    *)
(***************************************************************************)
EXTENDS TargetedPulls, ConfigStoreProofs

-----------------------------------------------------------------------------
(***************************************************************************)
(* Types.                                                                  *)
(***************************************************************************)

PollerStates == {"off", "poll", "sleep", "insert", "pull", "reply"}

Poller == [pc : PollerStates, batch : SUBSET Nat, cite : [Keys -> Nat],
           todo : SUBSET Keys, key : Keys \cup {None}, resp : Hashes \cup {None}]

Refresh == [scope : Scopes \cup {None}, todo : SUBSET Keys,
            key : Keys \cup {None}, resp : Hashes \cup {None}]

Entry == [key : Keys, hash : Hashes, areas : SUBSET Keys, columns : Nat \cup {None}]

\* What the store hands out.
TablesTyped ==
    /\ meraki \in [Keys -> Hashes]
    /\ clog \in Seq(Entry)
    /\ rows \in Seq(Nat) /\ \A i \in DOMAIN rows : rows[i] \in DOMAIN clog
    /\ obs \in Seq(Row)

\* The poller that awaits an answer awaits that of a job it has left.
PollerTyped ==
    /\ poller \in Poller
    /\ poller.pc = "reply" => poller.key \in poller.todo /\ poller.resp \in Hashes

\* A refresh that awaits no answer holds none; a slot without a refresh has no job.
RefreshesTyped ==
    /\ refreshes \in [Slots -> Refresh]
    /\ \A t \in Slots : /\ refreshes[t].key # None => refreshes[t].resp \in Hashes
                        /\ ~Running(t) => refreshes[t].key = None /\ refreshes[t].todo = {}
    /\ registry \in [Scopes -> Slots \cup {None}]

TypeInv == TablesTyped /\ PollerTyped /\ RefreshesTyped

\* The poller between two polls, or at the beginning of one, cites nothing.
LEMMA PollerAtType ==
    ASSUME NEW pc \in PollerStates
    PROVE  /\ PollerAt(pc) \in Poller
           /\ PollerAt(pc).pc = pc /\ PollerAt(pc).todo = {}
           /\ PollerAt(pc).cite = [k \in Keys |-> NoEvent]
BY DEF PollerAt, Poller, NoEvent

\* A free slot is a refresh that has no scope and no job.
LEMMA NoRefreshType ==
    /\ NoRefresh \in Refresh
    /\ NoRefresh.scope = None /\ NoRefresh.key = None /\ NoRefresh.todo = {}
BY DEF NoRefresh, Refresh

\* The poller that is done with job k has fewer jobs left, and cites for them
\* what it cited.
LEMMA WithoutEffect ==
    ASSUME PollerTyped, NEW k \in Keys
    PROVE  /\ Without(k) \in Poller
           /\ Without(k).pc \in {"sleep", "pull"}
           /\ Without(k).todo = poller.todo \ {k}
           /\ Without(k).cite \in {poller.cite, [q \in Keys |-> NoEvent]}
           /\ Without(k).todo # {} => Without(k).cite = poller.cite
<1>1. CASE poller.todo = {k}
  BY <1>1, PollerAtType DEF Without, PollerStates
<1>2. CASE poller.todo # {k}
  <2> DEFINE new == [poller EXCEPT !.pc = "pull", !.todo = poller.todo \ {k},
                                   !.key = None, !.resp = None]
  <2>1. poller \in Poller
    BY DEF PollerTyped
  <2>2. new \in Poller /\ new.pc = "pull" /\ new.todo = poller.todo \ {k} /\ new.cite = poller.cite
    BY <2>1 DEF Poller, PollerStates
  <2>3. Without(k) = new
    BY <1>2 DEF Without
  <2> HIDE DEF new
  <2>4. QED
    BY <2>2, <2>3
<1>3. QED
  BY <1>1, <1>2

\* The poller after the insertion of an event.
LEMMA InsertEventEffect ==
    ASSUME TablesTyped, PollerTyped, NEW e \in DOMAIN clog, InsertEvent(e)
    PROVE  /\ poller' \in Poller
           /\ poller.pc = "insert" /\ poller'.pc = "insert"
           /\ poller'.todo = poller.todo \cup clog[e].areas
           /\ poller'.cite = [k \in Keys |-> IF k \in clog[e].areas /\ poller.cite[k] = NoEvent
                                               THEN Len(rows) + 1 ELSE poller.cite[k]]
<1> DEFINE cites == [k \in Keys |-> IF k \in clog[e].areas /\ poller.cite[k] = NoEvent
                                      THEN Len(rows) + 1 ELSE poller.cite[k]]
           jobs == poller.todo \cup clog[e].areas
<1> PICK skipped \in SUBSET Duplicates :
      poller' = [poller EXCEPT !.batch = poller.batch \ (skipped \cup {e}),
                               !.todo = jobs, !.cite = cites]
  BY DEF InsertEvent
<1>1. clog[e] \in Entry /\ Len(rows) \in Nat
  BY DEF TablesTyped
<1>2. cites \in [Keys -> Nat] /\ jobs \in SUBSET Keys
  BY <1>1 DEF PollerTyped, Poller, Entry
<1> HIDE DEF cites, jobs
<1>3. /\ poller' \in Poller /\ poller'.pc = poller.pc
      /\ poller'.todo = jobs /\ poller'.cite = cites
  BY <1>2 DEF PollerTyped, Poller
<1>4. QED
  BY <1>3 DEF InsertEvent, cites, jobs

\* Every step keeps the poller typed.
LEMMA PollerTypedStep ==
    ASSUME PullAssumption, TypeInv, [Next]_vars
    PROVE  PollerTyped'
<1>0. TablesTyped /\ PollerTyped /\ poller \in Poller
  BY DEF TypeInv, PollerTyped
<1>1. ASSUME NEW pc \in PollerStates, pc # "reply", poller' = PollerAt(pc)
      PROVE  PollerTyped'
  BY <1>1, PollerAtType DEF PollerTyped
<1>2. ASSUME NEW k \in Keys, poller' = Without(k)
      PROVE  PollerTyped'
  BY <1>0, <1>2, WithoutEffect DEF PollerTyped
<1>3. CASE Poll
  <2> PICK batch \in SUBSET NearWindow : poller' = [PollerAt("insert") EXCEPT !.batch = batch]
    BY <1>3 DEF Poll
  <2>1. batch \in SUBSET Nat
    BY <1>0 DEF NearWindow, TablesTyped
  <2>2. PollerAt("insert") \in Poller /\ PollerAt("insert").pc = "insert"
    BY PollerAtType DEF PollerStates
  <2>3. poller' \in Poller /\ poller'.pc = "insert"
    BY <2>1, <2>2 DEF Poller
  <2>4. QED
    BY <2>3 DEF PollerTyped
<1>4. CASE \E e \in DOMAIN clog : InsertEvent(e)
  BY <1>0, <1>4, InsertEventEffect DEF PollerTyped
<1>5. CASE InsertDone
  <2> DEFINE pc == IF poller.todo = {} THEN "sleep" ELSE "pull"
  <2>1. poller' = [poller EXCEPT !.batch = {}, !.pc = pc]
    BY <1>5 DEF InsertDone
  <2>2. pc \in PollerStates /\ pc # "reply"
    BY DEF PollerStates
  <2> HIDE DEF pc
  <2>3. poller' \in Poller /\ poller'.pc = pc
    BY <1>0, <2>1, <2>2 DEF Poller
  <2>4. QED
    BY <2>2, <2>3 DEF PollerTyped
<1>6. CASE \E k \in Keys : PullFetch(k)
  <2> PICK k \in Keys : PullFetch(k)
    BY <1>6
  <2>1. meraki[k] \in Hashes
    BY <1>0 DEF TablesTyped
  <2>2. /\ poller' \in Poller
        /\ poller'.key = k /\ poller'.resp = meraki[k] /\ poller'.todo = poller.todo
    BY <1>0, <2>1 DEF PullFetch, Poller, PollerStates
  <2>3. QED
    BY <2>1, <2>2 DEF PollerTyped, PullFetch
<1>7. CASE PullStore
  BY <1>0, <1>2, <1>7 DEF PullStore, PollerTyped, Poller
<1>8. CASE (\E k \in Keys : PullFails(k))
  BY <1>2, <1>8 DEF PullFails
<1>9. CASE StartPoller \/ PollFails \/ PullRaises \/ Wake \/ Crash
  BY <1>1, <1>9 DEF StartPoller, PollFails, PullRaises, Wake, Crash, PollerStates
<1>10. CASE UNCHANGED poller
  BY <1>0, <1>10 DEF PollerTyped
<1>11. QED
  BY <1>3, <1>4, <1>5, <1>6, <1>7, <1>8, <1>9, <1>10
     DEF Next, StartPoller, PollerStep, PollerFault, RefreshStep, RefreshFault, vars, refresh_entity,
         RefreshFetch, RefreshStore, RefreshLocked, RefreshFails, RefreshRaises, Restart,
         AdminChange, Change

\* Whatever a refresh does, the slot it is in holds a refresh, or none.
SlotTyped(r) ==
    /\ r \in Refresh
    /\ r.key # None => r.resp \in Hashes
    /\ r.scope = None => r.key = None /\ r.todo = {}

\* A step of one refresh leaves the others alone.
LEMMA SlotSet ==
    ASSUME RefreshesTyped, NEW t \in Slots, NEW new, SlotTyped(new),
           refreshes' = [refreshes EXCEPT ![t] = new],
           registry' \in [Scopes -> Slots \cup {None}]
    PROVE  /\ RefreshesTyped'
           /\ refreshes'[t] = new
           /\ \A u \in Slots : u # t => refreshes'[u] = refreshes[u]
BY DEF RefreshesTyped, SlotTyped, Running

\* The end of a refresh.
LEMMA EndRefreshEffect ==
    ASSUME PullAssumption, RefreshesTyped, NEW t \in Slots, Running(t), EndRefresh(t)
    PROVE  /\ RefreshesTyped'
           /\ refreshes'[t].scope = None
           /\ \A u \in Slots : u # t => refreshes'[u] = refreshes[u]
           /\ registry' = [registry EXCEPT ![refreshes[t].scope] = None]
<1>1. SlotTyped(NoRefresh) /\ NoRefresh.scope = None
  BY NoRefreshType DEF SlotTyped
<1>2. registry' \in [Scopes -> Slots \cup {None}]
  BY DEF EndRefresh, RefreshesTyped
<1>3. QED
  BY <1>1, <1>2, SlotSet DEF EndRefresh

\* A refresh that is done with a job is over, or goes on with the others.
LEMMA JobDoneEffect ==
    ASSUME PullAssumption, RefreshesTyped, NEW t \in Slots, Running(t), NEW k, JobDone(t, k)
    PROVE  /\ RefreshesTyped'
           /\ \A u \in Slots : u # t => refreshes'[u] = refreshes[u]
           /\ \/ EndRefresh(t)
              \/ refreshes'[t].scope = refreshes[t].scope /\ registry' = registry
<1>1. CASE refreshes[t].todo = {k}
  BY <1>1, EndRefreshEffect DEF JobDone
<1>2. CASE refreshes[t].todo # {k}
  <2> DEFINE new == [refreshes[t] EXCEPT !.todo = refreshes[t].todo \ {k},
                                         !.key = None, !.resp = None]
  <2>1. refreshes[t] \in Refresh
    BY DEF RefreshesTyped
  <2>2. /\ new \in Refresh /\ new.scope = refreshes[t].scope /\ new.key = None
        /\ refreshes[t].scope # None
    <3>1. ASSUME NEW r \in Refresh, NEW todo \in SUBSET Keys
          PROVE  LET y == [r EXCEPT !.todo = todo, !.key = None, !.resp = None]
                 IN  y \in Refresh /\ y.scope = r.scope /\ y.key = None
      BY DEF Refresh
    <3>2. refreshes[t].todo \ {k} \in SUBSET Keys
      BY <2>1 DEF Refresh
    <3>3. new \in Refresh /\ new.scope = refreshes[t].scope /\ new.key = None
      BY <2>1, <3>1, <3>2, Zenon
    <3>4. QED
      BY <3>3 DEF Running
  <2>3. refreshes' = [refreshes EXCEPT ![t] = new] /\ registry' = registry
    BY <1>2 DEF JobDone
  <2> HIDE DEF new
  <2>4. SlotTyped(new)
    BY <2>2 DEF SlotTyped
  <2>5. registry' \in [Scopes -> Slots \cup {None}]
    BY <2>3 DEF RefreshesTyped
  <2>6. /\ RefreshesTyped' /\ refreshes'[t] = new
        /\ \A u \in Slots : u # t => refreshes'[u] = refreshes[u]
    BY <2>3, <2>4, <2>5, SlotSet
  <2>7. QED
    BY <2>2, <2>3, <2>6
<1>3. QED
  BY <1>1, <1>2

\* A refresh that starts takes a slot.
Start(s, t) ==
    /\ refreshes' = [refreshes EXCEPT ![t] = [NoRefresh EXCEPT !.scope = s, !.todo = s]]
    /\ registry' = [registry EXCEPT ![s] = t]

\* refresh_entity puts a task for its scope into one slot.
LEMMA StartEffect ==
    ASSUME PullAssumption, RefreshesTyped, NEW s \in Scopes, NEW t \in Slots, Start(s, t)
    PROVE  /\ RefreshesTyped'
           /\ refreshes'[t].scope = s
           /\ \A u \in Slots : u # t => refreshes'[u] = refreshes[u]
<1> DEFINE new == [NoRefresh EXCEPT !.scope = s, !.todo = s]
<1>1. s \in SUBSET Keys /\ s # None
  BY DEF PullAssumption
<1>2. new \in Refresh /\ new.scope = s /\ new.key = None
  BY <1>1, NoRefreshType DEF Refresh
<1>3. refreshes' = [refreshes EXCEPT ![t] = new]
  BY DEF Start
<1> HIDE DEF new
<1>4. SlotTyped(new)
  BY <1>1, <1>2 DEF SlotTyped
<1>5. registry' \in [Scopes -> Slots \cup {None}]
  BY DEF RefreshesTyped, Start
<1>6. QED
  BY <1>2, <1>3, <1>4, <1>5, SlotSet

\* Every step keeps the refreshes typed.
LEMMA RefreshesTypedStep ==
    ASSUME PullAssumption, TypeInv, [Next]_vars
    PROVE  RefreshesTyped'
<1>0. RefreshesTyped /\ TablesTyped
  BY DEF TypeInv
<1>1. CASE \E s \in Scopes : refresh_entity(s)
  <2> PICK s \in Scopes : refresh_entity(s)
    BY <1>1
  <2>1. CASE UNCHANGED <<refreshes, registry>>
    BY <1>0, <2>1 DEF RefreshesTyped, Running
  <2>2. CASE \E t \in Slots : Start(s, t)
    BY <1>0, <2>2, StartEffect
  <2>3. QED
    BY <2>1, <2>2 DEF refresh_entity, Start
<1>2. CASE \E t \in Slots, k \in Keys : RefreshFetch(t, k)
  <2> PICK t \in Slots, k \in Keys : RefreshFetch(t, k)
    BY <1>2
  <2> DEFINE new == [refreshes[t] EXCEPT !.key = k, !.resp = meraki[k]]
  <2>1. refreshes[t] \in Refresh /\ meraki[k] \in Hashes /\ k # None
    BY <1>0 DEF RefreshesTyped, TablesTyped, PullAssumption
  <2>2. new \in Refresh /\ new.scope = refreshes[t].scope /\ new.resp = meraki[k]
    BY <2>1 DEF Refresh
  <2>3. refreshes[t].scope # None
    BY <1>0 DEF RefreshFetch, RefreshesTyped, Running
  <2>4. refreshes' = [refreshes EXCEPT ![t] = new] /\ registry' = registry
    BY DEF RefreshFetch
  <2> HIDE DEF new
  <2>5. SlotTyped(new)
    BY <2>1, <2>2, <2>3 DEF SlotTyped
  <2>6. QED
    BY <1>0, <2>4, <2>5, SlotSet DEF RefreshesTyped
<1>3. CASE \E t \in Slots, k \in Keys : RefreshFails(t, k)
  BY <1>0, <1>3, JobDoneEffect DEF RefreshFails, RefreshesTyped
<1>4. CASE \E t \in Slots : RefreshStore(t)
  BY <1>0, <1>4, JobDoneEffect DEF RefreshStore, RefreshesTyped
<1>5. CASE \E t \in Slots : RefreshLocked(t) \/ RefreshRaises(t)
  BY <1>0, <1>5, EndRefreshEffect DEF RefreshLocked, RefreshRaises, RefreshesTyped
<1>6. CASE Crash
  BY <1>6, NoRefreshType DEF Crash, RefreshesTyped, Running
<1>7. CASE UNCHANGED <<refreshes, registry>>
  BY <1>0, <1>7 DEF RefreshesTyped, Running
<1>8. QED
  BY <1>1, <1>2, <1>3, <1>4, <1>5, <1>6, <1>7
     DEF Next, StartPoller, PollerStep, PollerFault, RefreshStep, RefreshFault, vars, Poll, PollFails,
         InsertEvent, InsertDone, PullFetch, PullFails, PullStore, PullRaises, Wake, Restart,
         AdminChange, Change

\* What the poller and a refresh hand to insert_observation_if_changed is a row.
PollerRow == [key |-> poller.key, hash |-> poller.resp, source |-> "change_log",
              run |-> NoRun, event |-> poller.cite[poller.key]]

RefreshRow(t) == [key |-> refreshes[t].key, hash |-> refreshes[t].resp,
                  source |-> "manual_refresh", run |-> NoRun, event |-> NoEvent]

\* The poller inserts rows, ...
LEMMA PollerRowType ==
    ASSUME PollerTyped, poller.pc = "reply"
    PROVE  PollerRow \in Row
BY DEF PollerTyped, Poller, PollerRow, Row, NoRun, SourceEvents

\* and so does a refresh.
LEMMA RefreshRowType ==
    ASSUME RefreshesTyped, NEW t \in Slots, refreshes[t].key # None
    PROVE  RefreshRow(t) \in Row
BY DEF RefreshesTyped, Refresh, RefreshRow, Row, NoRun, NoEvent, SourceEvents,
       ALWAYS_WRITE_SOURCE_EVENTS

\* The observations change by one insertion, that of the poller or of a refresh.
LEMMA ObsStep ==
    ASSUME TypeInv, [Next]_vars
    PROVE  \/ UNCHANGED obs
           \/ /\ PullStore /\ PollerRow \in Row
              /\ obs' = insert_observation_if_changed(obs, PollerRow)
           \/ \E t \in Slots :
                /\ RefreshStore(t) /\ RefreshRow(t) \in Row
                /\ obs' = insert_observation_if_changed(obs, RefreshRow(t))
<1>1. CASE PullStore
  BY <1>1, PollerRowType DEF PullStore, PollerRow, TypeInv
<1>2. CASE \E t \in Slots : RefreshStore(t)
  BY <1>2, RefreshRowType DEF RefreshStore, RefreshRow, TypeInv
<1>3. QED
  BY <1>1, <1>2
     DEF Next, StartPoller, PollerStep, PollerFault, RefreshStep, RefreshFault, vars, Poll, PollFails,
         InsertEvent, InsertDone, PullFetch, PullFails, PullRaises, Wake, refresh_entity,
         RefreshFetch, RefreshLocked, RefreshFails, RefreshRaises, Crash, Restart, AdminChange, Change

\* The change log and the stored events grow at their ends.
LEMMA LogStep ==
    ASSUME PullAssumption, TypeInv, [Next]_vars
    PROVE  /\ clog' \in Seq(Entry) /\ rows' \in Seq(Nat)
           /\ \A e \in DOMAIN clog : e \in DOMAIN clog' /\ clog'[e] = clog[e]
           /\ \/ UNCHANGED rows
              \/ \E e \in DOMAIN clog : InsertEvent(e) /\ rows' = Append(rows, e) /\ UNCHANGED clog
<1>0. clog \in Seq(Entry) /\ rows \in Seq(Nat) /\ meraki \in [Keys -> Hashes]
  BY DEF TypeInv, TablesTyped
<1>1. CASE \E k \in Keys : AdminChange(k)
  <2> PICK k \in Keys : AdminChange(k)
    BY <1>1
  <2> PICK columns \in ColumnsOf(k) \cup {None} : Change(k, columns)
    BY DEF AdminChange
  <2> PICK h \in Hashes, areas \in AreaSets :
        clog' = Append(clog, [key |-> k, hash |-> h, areas |-> areas, columns |-> columns])
    BY DEF Change
  <2> DEFINE new == [key |-> k, hash |-> h, areas |-> areas, columns |-> columns]
  <2>1. new \in Entry
    <3>1. Len(clog) + 1 \in Nat /\ \A e \in DOMAIN clog : clog[e].columns \in Nat \cup {None}
      <4>1. \A e \in DOMAIN clog : clog[e] \in Entry
        BY <1>0
      <4>2. QED
        BY <1>0, <4>1 DEF Entry
    <3>2. columns \in Nat \cup {None}
      BY <3>1 DEF ColumnsOf
    <3>3. QED
      BY <3>2 DEF Entry, PullAssumption
  <2>2. clog' = Append(clog, new)
    OBVIOUS
  <2> HIDE DEF new
  <2>3. /\ clog' \in Seq(Entry)
        /\ \A e \in DOMAIN clog : e \in DOMAIN clog' /\ clog'[e] = clog[e]
    BY <1>0, <2>1, <2>2
  <2>4. QED
    BY <1>0, <1>1, <2>3 DEF AdminChange, Change
<1>2. CASE \E e \in DOMAIN clog : InsertEvent(e)
  <2> PICK e \in DOMAIN clog : InsertEvent(e)
    BY <1>2
  <2>1. rows' = Append(rows, e) /\ clog' = clog /\ e \in Nat
    BY <1>0 DEF InsertEvent
  <2>2. rows' \in Seq(Nat)
    BY <1>0, <2>1
  <2>3. QED
    BY <1>0, <2>1, <2>2
<1>3. CASE UNCHANGED <<clog, rows>>
  BY <1>0, <1>3
<1>4. QED
  BY <1>1, <1>2, <1>3
     DEF Next, StartPoller, PollerStep, PollerFault, RefreshStep, RefreshFault, vars, Poll, PollFails,
         InsertDone, PullFetch, PullFails, PullStore, PullRaises, Wake, refresh_entity,
         RefreshFetch, RefreshStore, RefreshLocked, RefreshFails, RefreshRaises, Crash, Restart

\* The tables keep their types.
LEMMA TablesTypedStep ==
    ASSUME PullAssumption, TypeInv, [Next]_vars
    PROVE  TablesTyped'
<1>0. TablesTyped
  BY DEF TypeInv
<1>1. obs' \in Seq(Row)
  BY <1>0, ObsStep, InsertType DEF TablesTyped
<1>2. meraki' \in [Keys -> Hashes]
  <2>1. CASE \E k \in Keys : AdminChange(k)
    <3> PICK k \in Keys, h \in Hashes : meraki' = [meraki EXCEPT ![k] = h]
      BY <2>1 DEF AdminChange, Change
    <3>1. QED
      BY <1>0 DEF TablesTyped
  <2>2. CASE UNCHANGED meraki
    BY <1>0, <2>2 DEF TablesTyped
  <2>3. QED
    BY <2>1, <2>2
       DEF Next, StartPoller, PollerStep, PollerFault, RefreshStep, RefreshFault, vars, Poll, PollFails,
           InsertEvent, InsertDone, PullFetch, PullFails, PullStore, PullRaises, Wake,
           refresh_entity, RefreshFetch, RefreshStore, RefreshLocked, RefreshFails,
           RefreshRaises, Crash, Restart
<1>3. \A i \in DOMAIN rows' : rows'[i] \in DOMAIN clog'
  <2>0. \A e \in DOMAIN clog : e \in DOMAIN clog'
    BY LogStep
  <2>1. CASE UNCHANGED rows
    BY <1>0, <2>0, <2>1 DEF TablesTyped
  <2>2. CASE \E e \in DOMAIN clog : rows' = Append(rows, e)
    BY <1>0, <2>0, <2>2 DEF TablesTyped
  <2>3. QED
    BY <2>1, <2>2, LogStep
<1>4. QED
  BY <1>1, <1>2, <1>3, LogStep DEF TablesTyped

\* Poller, refreshes and tables are well typed in every reachable state.
LEMMA TypeInvariant == Spec => []TypeInv
<1>1. Init => TypeInv
  <2> SUFFICES ASSUME Init PROVE TypeInv
    OBVIOUS
  <2>1. TablesTyped
    BY DEF Init, TablesTyped
  <2>2. PollerTyped
    BY PollerAtType DEF Init, PollerTyped, PollerStates
  <2>3. RefreshesTyped
    BY NoRefreshType DEF Init, RefreshesTyped, Running
  <2>4. QED
    BY <2>1, <2>2, <2>3 DEF TypeInv
<1>2. TypeInv /\ [Next]_vars => TypeInv'
  BY PullAssumption, PollerTypedStep, RefreshesTypedStep, TablesTypedStep DEF TypeInv
<1>3. QED
  BY <1>1, <1>2, PTL DEF Spec

-----------------------------------------------------------------------------
(***************************************************************************)
(* The history of the observations and of the stored events.               *)
(***************************************************************************)

\* A change_log row records a change, however many refreshes store theirs
\* between two polls and whichever calls fail: the comparison and the insert
\* of insert_observation_if_changed are one step.
THEOREM ChangeRows == Spec => []ChangeRowsRecordChanges
<1>1. Init => ChangeRowsRecordChanges
  BY DEF Init, ChangeRowsRecordChanges, RowsRecordChanges
<1>2. TypeInv /\ ChangeRowsRecordChanges /\ [Next]_vars => ChangeRowsRecordChanges'
  <2> SUFFICES ASSUME TypeInv, ChangeRowsRecordChanges, [Next]_vars
               PROVE  ChangeRowsRecordChanges'
    OBVIOUS
  <2>1. obs \in Seq(Row) /\ RowsRecordChanges(obs)
    BY DEF TypeInv, TablesTyped, ChangeRowsRecordChanges
  <2>2. RowsRecordChanges(obs')
    BY <2>1, ObsStep, InsertRecordsChanges
  <2>3. QED
    BY <2>2 DEF ChangeRowsRecordChanges
<1>3. QED
  BY <1>1, <1>2, TypeInvariant, PTL DEF Spec

-----------------------------------------------------------------------------
(***************************************************************************)
(* The registry of the refreshes.                                          *)
(***************************************************************************)

\* The end of a refresh takes it out of the registry and leaves the others in.
LEMMA EndKeepsRegistry ==
    ASSUME PullAssumption, RefreshesTyped, RefreshesRegistered,
           NEW t \in Slots, Running(t), EndRefresh(t)
    PROVE  RefreshesRegistered'
<1> DEFINE s == refreshes[t].scope
<1>1. s \in Scopes /\ registry[s] = t
  BY DEF RefreshesTyped, Refresh, Running, RefreshesRegistered
<1>2. /\ refreshes'[t].scope = None
      /\ \A u \in Slots : u # t => refreshes'[u] = refreshes[u]
      /\ registry'[s] = None
      /\ \A r \in Scopes : r # s => registry'[r] = registry[r]
  BY <1>1, EndRefreshEffect DEF RefreshesTyped
<1>3. ASSUME NEW u \in Slots, Running(u)'
      PROVE  registry'[refreshes'[u].scope] = u
  <2>1. u # t /\ refreshes'[u] = refreshes[u] /\ Running(u)
    BY <1>2, <1>3 DEF Running
  <2>2. registry[refreshes[u].scope] = u /\ refreshes[u].scope \in Scopes
    BY <2>1 DEF RefreshesRegistered, RefreshesTyped, Refresh, Running
  <2>3. refreshes[u].scope # s
    BY <1>1, <2>1, <2>2
  <2>4. QED
    BY <1>2, <2>1, <2>2, <2>3
<1>4. ASSUME NEW r \in Scopes, registry'[r] # None
      PROVE  refreshes'[registry'[r]].scope = r
  <2>1. r # s /\ registry'[r] = registry[r]
    BY <1>2, <1>4
  <2>2. refreshes[registry[r]].scope = r /\ registry[r] \in Slots
    BY <1>4, <2>1 DEF RefreshesRegistered, RefreshesTyped
  <2>3. QED
    BY <1>1, <1>2, <2>1, <2>2
<1>5. QED
  BY <1>3, <1>4 DEF RefreshesRegistered

\* _active_refreshes names the running refresh of every scope that has one, and
\* none that has ended: two refreshes of one scope never run at the same time.
THEOREM Registry == Spec => []RefreshesRegistered
<1>1. Init => RefreshesRegistered
  BY NoRefreshType DEF Init, RefreshesRegistered, Running
<1>2. TypeInv /\ RefreshesRegistered /\ [Next]_vars => RefreshesRegistered'
  <2> SUFFICES ASSUME TypeInv, RefreshesRegistered, [Next]_vars
               PROVE  RefreshesRegistered'
    OBVIOUS
  <2>0. RefreshesTyped /\ PullAssumption
    BY PullAssumption DEF TypeInv
  <2>1. CASE UNCHANGED <<refreshes, registry>>
    BY <2>1 DEF RefreshesRegistered, Running
  <2>2. ASSUME NEW t \in Slots, Running(t), EndRefresh(t)
        PROVE  RefreshesRegistered'
    BY <2>0, <2>2, EndKeepsRegistry
  <2>3. ASSUME NEW t \in Slots, Running(t), RefreshesTyped',
               \A u \in Slots : u # t => refreshes'[u] = refreshes[u],
               refreshes'[t].scope = refreshes[t].scope, registry' = registry
        PROVE  RefreshesRegistered'
    <3>1. \A u \in Slots : refreshes'[u].scope = refreshes[u].scope
      BY <2>3
    <3>2. \A s \in Scopes : registry[s] # None => registry[s] \in Slots
      BY <2>0 DEF RefreshesTyped
    <3>3. QED
      BY <2>3, <3>1, <3>2 DEF RefreshesRegistered, Running
  <2>4. CASE \E s \in Scopes : refresh_entity(s)
    <3> PICK s \in Scopes : refresh_entity(s)
      BY <2>4
    <3>1. CASE ~InFlight(s) /\ ~UNCHANGED <<refreshes, registry>>
      <4> PICK t \in Slots : ~Running(t) /\ Start(s, t)
        BY <3>1 DEF refresh_entity, Start
      <4>1. /\ refreshes'[t].scope = s
            /\ \A u \in Slots : u # t => refreshes'[u] = refreshes[u]
            /\ registry'[s] = t /\ \A r \in Scopes : r # s => registry'[r] = registry[r]
        <5>1. /\ refreshes'[t].scope = s
              /\ \A u \in Slots : u # t => refreshes'[u] = refreshes[u]
          BY <2>0, StartEffect
        <5>2. registry'[s] = t /\ \A r \in Scopes : r # s => registry'[r] = registry[r]
          BY <2>0 DEF RefreshesTyped, Start
        <5>3. QED
          BY <5>1, <5>2
      <4>2. ASSUME NEW u \in Slots, Running(u)'
            PROVE  registry'[refreshes'[u].scope] = u
        <5>1. CASE u = t
          BY <4>1, <5>1
        <5>2. CASE u # t
          <6>1. refreshes'[u] = refreshes[u] /\ Running(u)
            BY <4>1, <4>2, <5>2 DEF Running
          <6>2. registry[refreshes[u].scope] = u /\ refreshes[u].scope \in Scopes
            BY <2>0, <6>1 DEF RefreshesRegistered, RefreshesTyped, Refresh, Running
          <6>3. refreshes[u].scope # s
            BY <2>0, <3>1, <6>2 DEF InFlight, PullAssumption
          <6>4. QED
            BY <4>1, <6>1, <6>2, <6>3
        <5>3. QED
          BY <5>1, <5>2
      <4>3. ASSUME NEW r \in Scopes, registry'[r] # None
            PROVE  refreshes'[registry'[r]].scope = r
        <5>1. CASE r = s
          BY <4>1, <5>1
        <5>2. CASE r # s
          <6>1. registry'[r] = registry[r] /\ registry[r] \in Slots
            BY <2>0, <4>1, <4>3, <5>2 DEF RefreshesTyped
          <6>2. refreshes[registry[r]].scope = r
            BY <4>3, <6>1 DEF RefreshesRegistered
          <6>3. registry[r] # t
            BY <2>0, <6>2 DEF Running, PullAssumption
          <6>4. QED
            BY <4>1, <6>1, <6>2, <6>3
        <5>3. QED
          BY <5>1, <5>2
      <4>4. QED
        BY <4>2, <4>3 DEF RefreshesRegistered
    <3>2. QED
      BY <2>1, <3>1 DEF refresh_entity
  <2>5. CASE \E t \in Slots, k \in Keys : RefreshFetch(t, k)
    <3> PICK t \in Slots, k \in Keys : RefreshFetch(t, k)
      BY <2>5
    <3>1. refreshes' = [refreshes EXCEPT ![t] = [refreshes[t] EXCEPT !.key = k, !.resp = meraki[k]]]
          /\ registry' = registry
      BY DEF RefreshFetch
    <3>2. Running(t)
      BY <2>0 DEF RefreshFetch, RefreshesTyped
    <3>3. refreshes'[t].scope = refreshes[t].scope
      BY <2>0, <3>1 DEF RefreshesTyped, Refresh
    <3>4. \A u \in Slots : u # t => refreshes'[u] = refreshes[u]
      BY <2>0, <3>1 DEF RefreshesTyped
    <3>5. QED
      BY <2>3, <3>1, <3>2, <3>3, <3>4, <2>0, RefreshesTypedStep
  <2>6. ASSUME NEW t \in Slots, NEW k, Running(t), JobDone(t, k)
        PROVE  RefreshesRegistered'
    BY <2>0, <2>2, <2>3, <2>6, JobDoneEffect
  <2>7. CASE \E t \in Slots, k \in Keys : RefreshFails(t, k)
    BY <2>0, <2>6, <2>7 DEF RefreshFails, RefreshesTyped
  <2>8. CASE \E t \in Slots : RefreshStore(t)
    BY <2>0, <2>6, <2>8 DEF RefreshStore, RefreshesTyped
  <2>9. CASE \E t \in Slots : RefreshLocked(t) \/ RefreshRaises(t)
    BY <2>0, <2>2, <2>9 DEF RefreshLocked, RefreshRaises, RefreshesTyped
  <2>10. CASE Crash
    BY <2>10, NoRefreshType DEF Crash, RefreshesRegistered, Running
  <2>11. QED
    BY <2>1, <2>4, <2>5, <2>7, <2>8, <2>9, <2>10
       DEF Next, StartPoller, PollerStep, PollerFault, RefreshStep, RefreshFault, vars, Poll, PollFails,
           InsertEvent, InsertDone, PullFetch, PullFails, PullStore, PullRaises, Wake, Restart,
           AdminChange, Change
<1>3. QED
  BY <1>1, <1>2, TypeInvariant, PTL DEF Spec

-----------------------------------------------------------------------------
(***************************************************************************)
(* The citations.                                                          *)
(***************************************************************************)

\* No observation cites a row that is not there yet.
CitesBounded == \A i \in DOMAIN obs : obs[i].event <= Len(rows)

\* What the poller will cite is a stored event that asked for the key.
CitesStored ==
    \A k \in Keys : poller.cite[k] # NoEvent =>
        poller.cite[k] \in DOMAIN rows /\ k \in clog[rows[poller.cite[k]]].areas

\* While the poller inserts, the keys with a citation are those it will pull.
CitesPulled ==
    poller.pc = "insert" => \A k \in Keys : poller.cite[k] # NoEvent => k \in poller.todo

\* Of a key that the poller has still to pull, no observation cites the event
\* it will cite, or a later one.
RoomLeft ==
    \A k \in poller.todo :
        /\ poller.cite[k] # NoEvent
        /\ \A j \in DOMAIN obs : obs[j].key = k => obs[j].event < poller.cite[k]

\* CitationsFresh is not inductive: the observation that a poll will write is
\* fresh only because of what its poller has collected.
CiteInv == CitesBounded /\ CitesStored /\ CitesPulled /\ RoomLeft /\ CitationsFresh

\* A row that cites nothing new leaves the citations as they are; so does one
\* that cites an event later than every event cited for its key.
LEMMA InsertCites ==
    ASSUME TablesTyped, NEW row \in Row,
           CitationsFresh,
           row.source = "change_log" =>
             /\ row.event \in DOMAIN rows
             /\ row.key \in clog[rows[row.event]].areas
             /\ \A j \in DOMAIN obs : obs[j].key = row.key => obs[j].event < row.event,
           obs' = insert_observation_if_changed(obs, row),
           UNCHANGED <<rows, clog>>
    PROVE  CitationsFresh'
<1>1. /\ \A i \in DOMAIN obs : i \in DOMAIN obs' /\ obs'[i] = obs[i]
      /\ \A i \in DOMAIN obs' : i \notin DOMAIN obs => obs'[i] = row
      /\ \A i \in DOMAIN obs' : \A j \in 1 .. i - 1 : j \in DOMAIN obs
  BY InsertRows DEF TablesTyped
<1>2. SUFFICES ASSUME NEW i \in DOMAIN obs', obs'[i].source = "change_log"
               PROVE  /\ obs'[i].event \in DOMAIN rows
                      /\ obs'[i].key \in clog[rows[obs'[i].event]].areas
                      /\ \A j \in 1 .. i - 1 : obs'[j].key = obs'[i].key
                                                 => obs'[j].event < obs'[i].event
  BY DEF CitationsFresh
<1>3. \A j \in 1 .. i - 1 : j \in DOMAIN obs /\ obs'[j] = obs[j]
  BY <1>1
<1>4. CASE i \in DOMAIN obs
  BY <1>1, <1>2, <1>3, <1>4 DEF CitationsFresh
<1>5. CASE i \notin DOMAIN obs
  BY <1>1, <1>2, <1>3, <1>5
<1>6. QED
  BY <1>4, <1>5

\* What holds of every row of the table, and of the row that is inserted, holds
\* of every row afterwards: of the bound on the events cited, and of the room
\* that is left for the citation c of key k.
LEMMA InsertBounded ==
    ASSUME TablesTyped, NEW row \in Row, row.event <= Len(rows),
           \A i \in DOMAIN obs : obs[i].event <= Len(rows),
           obs' = insert_observation_if_changed(obs, row)
    PROVE  \A i \in DOMAIN obs' : obs'[i].event <= Len(rows)
<1>1. /\ \A i \in DOMAIN obs : obs'[i] = obs[i]
      /\ \A i \in DOMAIN obs' : i \notin DOMAIN obs => obs'[i] = row
  BY InsertRows DEF TablesTyped
<1>2. QED
  BY <1>1

\* A row of another key, or one that cites an earlier event, leaves room for
\* the citation c.
LEMMA InsertLeavesRoom ==
    ASSUME TablesTyped, NEW row \in Row, NEW k, NEW c,
           row.key = k => row.event < c,
           \A j \in DOMAIN obs : obs[j].key = k => obs[j].event < c,
           obs' = insert_observation_if_changed(obs, row)
    PROVE  \A j \in DOMAIN obs' : obs'[j].key = k => obs'[j].event < c
<1>1. /\ \A i \in DOMAIN obs : obs'[i] = obs[i]
      /\ \A i \in DOMAIN obs' : i \notin DOMAIN obs => obs'[i] = row
  BY InsertRows DEF TablesTyped
<1>2. QED
  BY <1>1

\* A step that writes no row, and after which the poller has the citations it
\* had, for the jobs it had or fewer, or none at all.
LEMMA CitesKept ==
    ASSUME TypeInv, CiteInv, UNCHANGED <<rows, obs, clog>>,
           poller'.todo \subseteq poller.todo,
           poller'.cite \in {poller.cite, [q \in Keys |-> NoEvent]},
           poller'.todo # {} => poller'.cite = poller.cite,
           poller'.pc = "insert" =>
             \/ poller'.cite = [q \in Keys |-> NoEvent]
             \/ poller.pc = "insert" /\ poller'.todo = poller.todo /\ poller'.cite = poller.cite
    PROVE  CiteInv'
<1>1. CitesBounded' /\ CitationsFresh'
  BY DEF CiteInv, CitesBounded, CitationsFresh
<1>2. CitesStored'
  BY DEF CiteInv, CitesStored
<1>3. CitesPulled'
  BY DEF CiteInv, CitesPulled
<1>4. RoomLeft'
  BY DEF CiteInv, RoomLeft
<1>5. QED
  BY <1>1, <1>2, <1>3, <1>4 DEF CiteInv

\* The poller starts afresh.
LEMMA CitesDropped ==
    ASSUME TypeInv, CiteInv, UNCHANGED <<rows, obs, clog>>,
           NEW pc \in PollerStates, poller' = PollerAt(pc)
    PROVE  CiteInv'
BY PollerAtType, CitesKept

\* The insertion of an event: its keys get a citation above all there are,
\* unless they have one from this cycle.
LEMMA InsertEventCites ==
    ASSUME PullAssumption, TypeInv, CiteInv, NEW e \in DOMAIN clog, InsertEvent(e)
    PROVE  CiteInv'
<1> DEFINE n == Len(rows) + 1
<1>0. /\ rows \in Seq(Nat) /\ \A i \in DOMAIN rows : rows[i] \in DOMAIN clog
      /\ TablesTyped /\ PollerTyped /\ obs \in Seq(Row)
      /\ poller.cite \in [Keys -> Nat] /\ poller.todo \in SUBSET Keys
      /\ clog[e].areas \in SUBSET Keys
  <2>1. TablesTyped /\ PollerTyped
    BY DEF TypeInv
  <2>2. rows \in Seq(Nat) /\ obs \in Seq(Row) /\ \A i \in DOMAIN rows : rows[i] \in DOMAIN clog
    BY <2>1 DEF TablesTyped
  <2>3. clog[e] \in Entry
    BY <2>1 DEF TablesTyped
  <2>4. poller.cite \in [Keys -> Nat] /\ poller.todo \in SUBSET Keys
    BY <2>1 DEF PollerTyped, Poller
  <2>5. QED
    BY <2>1, <2>2, <2>3, <2>4 DEF Entry
<1>1. /\ poller.pc = "insert" /\ poller'.pc = "insert"
      /\ poller'.todo = poller.todo \cup clog[e].areas
      /\ poller'.cite = [k \in Keys |-> IF k \in clog[e].areas /\ poller.cite[k] = NoEvent
                                          THEN n ELSE poller.cite[k]]
  BY <1>0, InsertEventEffect
<1>2. rows' = Append(rows, e) /\ UNCHANGED <<clog, obs>>
  BY DEF InsertEvent
<1>3. /\ Len(rows) \in Nat /\ n \in Nat /\ n # NoEvent /\ Len(rows') = n
      /\ \A i \in DOMAIN rows : i \in DOMAIN rows' /\ rows'[i] = rows[i]
      /\ n \in DOMAIN rows' /\ rows'[n] = e
  BY <1>0, <1>2 DEF NoEvent
<1>4. \A i \in DOMAIN obs : obs[i].event \in Nat /\ obs[i].event <= Len(rows) /\ obs[i].event < n
  <2>1. \A i \in DOMAIN obs : obs[i].event \in Nat
    <3>1. \A i \in DOMAIN obs : obs[i] \in Row
      BY <1>0
    <3>2. QED
      BY <3>1 DEF Row
  <2>2. QED
    BY <1>3, <2>1 DEF CiteInv, CitesBounded
<1> HIDE DEF n
<1>5. \A k \in Keys : \/ poller'.cite[k] = poller.cite[k]
                      \/ k \in clog[e].areas /\ poller'.cite[k] = n
  BY <1>1
<1>6. CitesBounded'
  BY <1>2, <1>3, <1>4 DEF CitesBounded, n
<1>7. CitesStored'
  <2> SUFFICES ASSUME NEW k \in Keys, poller'.cite[k] # NoEvent
               PROVE  poller'.cite[k] \in DOMAIN rows' /\ k \in clog[rows'[poller'.cite[k]]].areas
    BY <1>2 DEF CitesStored
  <2>1. CASE poller'.cite[k] = poller.cite[k]
    BY <1>3, <2>1 DEF CiteInv, CitesStored
  <2>2. CASE k \in clog[e].areas /\ poller'.cite[k] = n
    BY <1>3, <2>2
  <2>3. QED
    BY <1>5, <2>1, <2>2
<1>8. CitesPulled'
  BY <1>1, <1>5 DEF CiteInv, CitesPulled
<1>9. RoomLeft'
  <2> SUFFICES ASSUME NEW k \in poller'.todo
               PROVE  /\ poller'.cite[k] # NoEvent
                      /\ \A j \in DOMAIN obs : obs[j].key = k => obs[j].event < poller'.cite[k]
    BY <1>2 DEF RoomLeft
  <2>1. k \in Keys /\ (k \in poller.todo \/ k \in clog[e].areas)
    BY <1>0, <1>1
  <2>2. CASE k \in poller.todo
    <3>1. poller.cite[k] # NoEvent
      BY <2>2 DEF CiteInv, RoomLeft
    <3>2. poller'.cite[k] = poller.cite[k]
      BY <1>1, <2>1, <3>1
    <3>3. QED
      BY <2>2, <3>2 DEF CiteInv, RoomLeft
  <2>3. CASE k \notin poller.todo
    <3>1. poller.cite[k] = NoEvent
      BY <1>1, <2>1, <2>3 DEF CiteInv, CitesPulled
    <3>2. poller'.cite[k] = n
      BY <1>1, <2>1, <2>3, <3>1
    <3>3. QED
      BY <1>3, <1>4, <3>2
  <2>4. QED
    BY <2>2, <2>3
<1>10. CitationsFresh'
  <2>1. CitationsFresh
    BY DEF CiteInv
  <2>2. \A i \in DOMAIN obs : obs[i].event \in DOMAIN rows
                                => /\ obs[i].event \in DOMAIN rows'
                                   /\ rows'[obs[i].event] = rows[obs[i].event]
    BY <1>3
  <2>3. QED
    BY <1>2, <2>1, <2>2 DEF CitationsFresh
<1>11. QED
  BY <1>6, <1>7, <1>8, <1>9, <1>10 DEF CiteInv

\* The answer of a pull is stored with the citation of its key, which the
\* poller then has no more.
LEMMA PullStoreCites ==
    ASSUME PullAssumption, TypeInv, CiteInv, PullStore
    PROVE  CiteInv'
<1> DEFINE k == poller.key
           c == poller.cite[k]
<1>0. /\ TablesTyped /\ PollerTyped /\ poller \in Poller
      /\ k \in poller.todo /\ k \in Keys
  BY DEF TypeInv, PollerTyped, PullStore, Poller
<1>1. /\ obs' = insert_observation_if_changed(obs, PollerRow)
      /\ PollerRow \in Row /\ PollerRow.key = k /\ PollerRow.event = c
      /\ UNCHANGED <<rows, clog>> /\ poller' = Without(k)
  BY <1>0, PollerRowType DEF PullStore, PollerRow
<1>2. /\ c # NoEvent /\ c \in DOMAIN rows /\ k \in clog[rows[c]].areas
      /\ \A j \in DOMAIN obs : obs[j].key = k => obs[j].event < c
  BY <1>0 DEF CiteInv, RoomLeft, CitesStored
<1>3. /\ poller'.todo = poller.todo \ {k}
      /\ poller'.pc # "insert"
      /\ poller'.cite \in {poller.cite, [q \in Keys |-> NoEvent]}
      /\ poller'.todo # {} => poller'.cite = poller.cite
  BY <1>0, <1>1, WithoutEffect
<1> HIDE DEF k, c
<1>4. c <= Len(rows)
  BY <1>0, <1>2 DEF TablesTyped
<1>5. CitesBounded'
  BY <1>0, <1>1, <1>4, InsertBounded DEF CiteInv, CitesBounded
<1>6. CitesStored'
  BY <1>1, <1>3 DEF CiteInv, CitesStored
<1>7. CitesPulled'
  BY <1>3 DEF CitesPulled
<1>8. RoomLeft'
  <2> SUFFICES ASSUME NEW q \in poller'.todo
               PROVE  /\ poller'.cite[q] # NoEvent
                      /\ \A j \in DOMAIN obs' : obs'[j].key = q => obs'[j].event < poller'.cite[q]
    BY DEF RoomLeft
  <2>1. q # k /\ q \in poller.todo /\ poller'.cite = poller.cite
    BY <1>3
  <2>2. /\ poller.cite[q] # NoEvent
        /\ \A j \in DOMAIN obs : obs[j].key = q => obs[j].event < poller.cite[q]
    BY <2>1 DEF CiteInv, RoomLeft
  <2>3. QED
    BY <1>0, <1>1, <2>1, <2>2, InsertLeavesRoom
<1>9. CitationsFresh'
  BY <1>0, <1>1, <1>2, InsertCites DEF CiteInv
<1>10. QED
  BY <1>5, <1>6, <1>7, <1>8, <1>9 DEF CiteInv

\* The answer of a refresh is stored and cites no event.
LEMMA RefreshStoreCites ==
    ASSUME PullAssumption, TypeInv, CiteInv, NEW t \in Slots, RefreshStore(t)
    PROVE  CiteInv'
<1>0. TablesTyped /\ RefreshesTyped /\ PollerTyped
  BY DEF TypeInv
<1>1. /\ obs' = insert_observation_if_changed(obs, RefreshRow(t))
      /\ RefreshRow(t) \in Row /\ RefreshRow(t).event = NoEvent
      /\ RefreshRow(t).source # "change_log"
      /\ UNCHANGED <<rows, clog, poller>>
  BY <1>0, RefreshRowType DEF RefreshStore, RefreshRow
<1>2. CitesBounded'
  <2>1. NoEvent <= Len(rows)
    BY <1>0 DEF TablesTyped, NoEvent
  <2>2. QED
    BY <1>0, <1>1, <2>1, InsertBounded DEF CiteInv, CitesBounded
<1>3. CitesStored' /\ CitesPulled'
  BY <1>1 DEF CiteInv, CitesStored, CitesPulled
<1>4. RoomLeft'
  <2> SUFFICES ASSUME NEW q \in poller.todo
               PROVE  /\ poller.cite[q] # NoEvent
                      /\ \A j \in DOMAIN obs' : obs'[j].key = q => obs'[j].event < poller.cite[q]
    BY <1>1 DEF RoomLeft
  <2>1. /\ poller.cite[q] # NoEvent
        /\ \A j \in DOMAIN obs : obs[j].key = q => obs[j].event < poller.cite[q]
    BY DEF CiteInv, RoomLeft
  <2>2. poller.cite[q] \in Nat
    BY <1>0 DEF PollerTyped, Poller
  <2>3. NoEvent < poller.cite[q]
    BY <2>1, <2>2 DEF NoEvent
  <2>4. QED
    BY <1>0, <1>1, <2>1, <2>3, InsertLeavesRoom
<1>5. CitationsFresh'
  BY <1>0, <1>1, InsertCites DEF CiteInv
<1>6. QED
  BY <1>2, <1>3, <1>4, <1>5 DEF CiteInv

\* A change of the configuration adds to the log and changes nothing in it.
LEMMA ChangeCites ==
    ASSUME PullAssumption, TypeInv, CiteInv, [Next]_vars, NEW k \in Keys, AdminChange(k)
    PROVE  CiteInv'
<1>1. UNCHANGED <<rows, obs, poller>>
  BY DEF AdminChange, Change
<1>2. \A i \in DOMAIN rows : clog'[rows[i]] = clog[rows[i]]
  BY LogStep DEF TypeInv, TablesTyped
<1>3. CitesBounded' /\ CitesPulled' /\ RoomLeft'
  BY <1>1 DEF CiteInv, CitesBounded, CitesPulled, RoomLeft
<1>4. CitesStored' /\ CitationsFresh'
  BY <1>1, <1>2 DEF CiteInv, CitesStored, CitationsFresh
<1>5. QED
  BY <1>3, <1>4 DEF CiteInv

\* What is said of the citations outlives every step.
LEMMA CiteStep ==
    ASSUME PullAssumption, TypeInv, CiteInv, [Next]_vars
    PROVE  CiteInv'
<1>0. PollerTyped /\ poller \in Poller
  BY DEF TypeInv, PollerTyped
<1>1. CASE Poll
  <2> PICK batch \in SUBSET NearWindow : poller' = [PollerAt("insert") EXCEPT !.batch = batch]
    BY <1>1 DEF Poll
  <2>1. /\ PollerAt("insert") \in Poller /\ PollerAt("insert").todo = {}
        /\ PollerAt("insert").cite = [q \in Keys |-> NoEvent]
    BY PollerAtType DEF PollerStates
  <2>2. poller'.todo = {} /\ poller'.cite = [q \in Keys |-> NoEvent]
    BY <2>1 DEF Poller
  <2>3. UNCHANGED <<rows, obs, clog>>
    BY <1>1 DEF Poll
  <2>4. QED
    BY <2>2, <2>3, CitesKept
<1>2. CASE \E e \in DOMAIN clog : InsertEvent(e)
  BY <1>2, InsertEventCites
<1>3. CASE InsertDone
  <2> DEFINE pc == IF poller.todo = {} THEN "sleep" ELSE "pull"
  <2>1. poller' = [poller EXCEPT !.batch = {}, !.pc = pc] /\ UNCHANGED <<rows, obs, clog>>
    BY <1>3 DEF InsertDone
  <2>2. pc # "insert"
    OBVIOUS
  <2> HIDE DEF pc
  <2>3. poller'.pc = pc /\ poller'.todo = poller.todo /\ poller'.cite = poller.cite
    BY <1>0, <2>1 DEF Poller
  <2>4. QED
    BY <2>1, <2>2, <2>3, CitesKept
<1>4. CASE \E k \in Keys : PullFetch(k)
  <2> PICK k \in Keys : PullFetch(k)
    BY <1>4
  <2>1. poller'.pc = "reply" /\ poller'.todo = poller.todo /\ poller'.cite = poller.cite
    BY <1>0 DEF PullFetch, Poller
  <2>2. UNCHANGED <<rows, obs, clog>>
    BY DEF PullFetch
  <2>3. QED
    BY <2>1, <2>2, CitesKept
<1>5. CASE \E k \in Keys : PullFails(k)
  <2> PICK k \in Keys : PullFails(k)
    BY <1>5
  <2>1. poller' = Without(k) /\ UNCHANGED <<rows, obs, clog>>
    BY DEF PullFails
  <2>2. QED
    BY <1>0, <2>1, WithoutEffect, CitesKept
<1>6. CASE PullStore
  BY <1>6, PullStoreCites
<1>7. CASE StartPoller \/ PollFails \/ PullRaises \/ Wake \/ Crash
  BY <1>7, CitesDropped DEF StartPoller, PollFails, PullRaises, Wake, Crash, PollerStates
<1>8. CASE \E t \in Slots : RefreshStore(t)
  BY <1>8, RefreshStoreCites
<1>9. CASE \E k \in Keys : AdminChange(k)
  BY <1>9, ChangeCites
<1>10. CASE UNCHANGED <<poller, rows, obs, clog>>
  BY <1>10, CitesKept
<1>11. QED
  BY <1>1, <1>2, <1>3, <1>4, <1>5, <1>6, <1>7, <1>8, <1>9, <1>10
     DEF Next, StartPoller, PollerStep, PollerFault, RefreshStep, RefreshFault, vars, refresh_entity,
         RefreshFetch, RefreshLocked, RefreshFails, RefreshRaises, Restart

\* An observation of the poller cites a stored event that asked for its key,
\* and never one that an earlier observation of the key cites.
THEOREM FreshCitations == Spec => []CitationsFresh
<1>1. Init => CiteInv
  <2> SUFFICES ASSUME Init PROVE CiteInv
    OBVIOUS
  <2>1. obs = <<>> /\ poller.todo = {} /\ poller.cite = [q \in Keys |-> NoEvent]
    BY PollerAtType DEF Init, PollerStates
  <2>2. QED
    BY <2>1 DEF CiteInv, CitesBounded, CitesStored, CitesPulled, RoomLeft, CitationsFresh
<1>2. TypeInv /\ CiteInv /\ [Next]_vars => CiteInv'
  BY PullAssumption, CiteStep
<1>3. CiteInv => CitationsFresh
  BY DEF CiteInv
<1>4. QED
  BY <1>1, <1>2, <1>3, TypeInvariant, PTL DEF Spec
=============================================================================
