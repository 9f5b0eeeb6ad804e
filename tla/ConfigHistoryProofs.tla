------------------------- MODULE ConfigHistoryProofs -------------------------
(***************************************************************************)
(* The history of the configurations, for every set of keys and answers,   *)
(* every redaction, and however long the history grows while it is read: a *)
(* client that pages through it, its timelines and the difference of two   *)
(* moments, and what the pushes to New Relic deliver.                      *)
(***************************************************************************)
EXTENDS ConfigReaders, ConfigStoreProofs, FiniteSetTheorems, WellFoundedInduction

-----------------------------------------------------------------------------
(***************************************************************************)
(* Finite sets of positions: they have a first and a last one.             *)
(***************************************************************************)

\* Min of a set of naturals is its least element.
LEMMA MinIsLeast ==
    ASSUME NEW S \in SUBSET Nat, S # {}
    PROVE  Min(S) \in S /\ \A x \in S : Min(S) <= x
  <1>1. PICK x \in S : \A y \in S : <<y, x>> \notin OpToRel(<, Nat)
    BY NatLessThanWellFounded, WFMin
  <1>2. \A m, n \in Nat : <<m, n>> \in OpToRel(<, Nat) <=> m < n
    BY SMT DEF OpToRel
  <1>3. \A y \in S : ~(y < x)
    BY <1>1, <1>2
  <1>4. \A y \in S : x <= y
    BY <1>3
  <1> DEFINE Least(z) == z \in S /\ \A y \in S : z <= y
  <1>5. Least(Min(S))
    <2>1. Min(S) = CHOOSE z : Least(z)
      BY DEF Min
    <2>2. Least(x)
      BY <1>4
    <2>3. QED
      BY <2>1, <2>2
  <1>6. QED
    BY <1>5

\* Max of a bounded set of naturals is its greatest element.
LEMMA MaxIsGreatest ==
    ASSUME NEW n \in Nat, NEW S \in SUBSET (0 .. n), S # {}
    PROVE  Max(S) \in S /\ \A x \in S : x <= Max(S)
  <1> DEFINE T == {n - x : x \in S}
  <1>1. T \in SUBSET Nat /\ T # {}
    <2>1. \A x \in S : x \in 0 .. n
      OBVIOUS
    <2>2. \A x \in 0 .. n : n - x \in Nat
      OBVIOUS
    <2>3. \A y \in T : y \in Nat
      BY <2>1, <2>2
    <2>4. QED
      BY <2>3
  <1>2. Min(T) \in T /\ \A y \in T : Min(T) <= y
    BY <1>1, MinIsLeast
  <1>3. PICK x \in S : Min(T) = n - x
    BY <1>2
  <1>4. \A y \in S : n - x <= n - y
    BY <1>2, <1>3
  <1>5. \A y \in S : y <= x
    BY <1>4
  <1> DEFINE Greatest(z) == z \in S /\ \A y \in S : z >= y
  <1>6. Greatest(Max(S))
    <2>1. Max(S) = CHOOSE z : Greatest(z)
      BY DEF Max
    <2>2. Greatest(x)
      BY <1>5
    <2>3. QED
      BY <2>1, <2>2
  <1>7. QED
    BY <1>6

\* The greatest element is told by being it.
LEMMA MaxIsUnique ==
    ASSUME NEW S \in SUBSET Nat, NEW x \in S, \A y \in S : y <= x
    PROVE  Max(S) = x
  <1> DEFINE Greatest(z) == z \in S /\ \A y \in S : z >= y
  <1>1. Greatest(Max(S))
    <2>1. Max(S) = CHOOSE z : Greatest(z)
      BY DEF Max
    <2>2. Greatest(x)
      <3>1. \A y \in S : y \in Nat /\ x \in Nat /\ y <= x
        OBVIOUS
      <3>2. QED
        BY <3>1
    <2>3. QED
      BY <2>1, <2>2
  <1>2. x >= Max(S) /\ Max(S) >= x /\ Max(S) \in Nat /\ x \in Nat
    BY <1>1
  <1>3. QED
    BY <1>2

-----------------------------------------------------------------------------
(***************************************************************************)
(* The history grows at its end.                                           *)
(***************************************************************************)

\* The table, its seconds and the clock; a second for each row.
HistoryType ==
    /\ obs \in Seq(Row) /\ seconds \in Seq(Nat) /\ Len(seconds) = Len(obs)
    /\ now \in Nat
    /\ bounds \in Profiles

\* The rows there were keep their positions and their seconds.
Grows ==
    /\ Len(obs) <= Len(obs')
    /\ \A i \in 1 .. Len(obs) : obs'[i] = obs[i] /\ seconds'[i] = seconds[i]
    /\ bounds' = bounds

\* What an answer is stored as is a row.
LEMMA StoredIsRow ==
    ASSUME HistoryType, NEW k \in bounds.keys, NEW source \in bounds.sources,
           NEW answer \in Answers[k.area]
    PROVE  [key |-> k, hash |-> redacted(answer, k.area), source |-> source,
            run |-> NoRun, event |-> NoEvent] \in Row
  <1>1. k \in Keys /\ source \in SourceEvents
    BY HistoryAssumption DEF HistoryType
  <1>2. k.area \in DOMAIN Answers
    BY <1>1, HistoryAssumption
  <1>3. redacted(answer, k.area) \in Hashes
    BY <1>2, HistoryAssumption
  <1>4. QED
    BY <1>1, <1>3 DEF Row, NoRun, NoEvent

\* A step of the collector lets the history grow.
LEMMA CollectGrows ==
    ASSUME HistoryType, Collect
    PROVE  HistoryType' /\ Grows
  <1>1. CASE Tick
    BY <1>1 DEF Tick, HistoryType, Grows
  <1>2. ASSUME NEW k \in bounds.keys, NEW source \in bounds.sources,
               NEW answer \in Answers[k.area], Observe(k, answer, source)
        PROVE  HistoryType' /\ Grows
    <2> DEFINE row == [key |-> k, hash |-> redacted(answer, k.area), source |-> source,
                       run |-> NoRun, event |-> NoEvent]
    <2>1. row \in Row
      BY StoredIsRow
    <2> HIDE DEF row
    <2>2. obs' = insert_observation_if_changed(obs, row) /\ obs' # obs
          /\ seconds' = Append(seconds, now) /\ now' = now /\ bounds' = bounds
      BY <1>2 DEF Observe, row
    <2>3. obs' = Append(obs, row)
      BY <2>2 DEF insert_observation_if_changed
    <2>4. QED
      BY <2>1, <2>2, <2>3 DEF HistoryType, Grows
  <1>3. QED
    BY <1>1, <1>2 DEF Collect

\* What every step of the readers does to the history.
LEMMA HistorySteps ==
    ASSUME HistoryType, [Next]_vars
    PROVE  HistoryType' /\ Grows
  <1>1. CASE UNCHANGED historyVars
    BY <1>1 DEF historyVars, HistoryType, Grows
  <1>2. CASE Collect
    BY <1>2, CollectGrows
  <1>3. QED
    BY <1>1, <1>2 DEF Next, vars

\* The history begins empty.
LEMMA HistoryStarts == Init => HistoryType
  BY DEF Init, HistoryInit, HistoryType

\* The history is always a table of rows with a second each.
LEMMA HistoryTyped == Spec => []HistoryType
  <1>1. HistoryType /\ [Next]_vars => HistoryType'
    BY HistorySteps
  <1>2. QED
    BY <1>1, HistoryStarts, PTL DEF Spec

-----------------------------------------------------------------------------
(***************************************************************************)
(* The difference of two moments.                                          *)
(***************************************************************************)

\* The positions of the rows of a key, and those up to a second.
RowsOfKey(k) == {i \in DOMAIN obs : obs[i].key = k}
RowsAt(k, t) == {i \in DOMAIN obs : obs[i].key = k /\ seconds[i] <= t}

\* A set of rows has a first and a last one.
LEMMA RowsArePositions ==
    ASSUME HistoryType, NEW S \in SUBSET DOMAIN obs, S # {}
    PROVE  /\ Max(S) \in S /\ Min(S) \in S
           /\ \A x \in S : x <= Max(S) /\ Min(S) <= x
  <1>1. Len(obs) \in Nat /\ DOMAIN obs = 1 .. Len(obs)
    BY DEF HistoryType
  <1>2. S \in SUBSET (0 .. Len(obs)) /\ S \in SUBSET Nat
    BY <1>1
  <1>3. QED
    BY <1>1, <1>2, MinIsLeast, MaxIsGreatest

\* The row that ROW_NUMBER ranks first is the last one up to t, if one is.
LEMMA RankedIsLatest ==
    ASSUME HistoryType, NEW t \in Nat, NEW k, RowsOfKey(k) # {}
    PROVE  /\ Ranked(k, t) \in RowsOfKey(k)
           /\ seconds[Ranked(k, t)] <= t <=> RowsAt(k, t) # {}
           /\ RowsAt(k, t) # {} => obs[Ranked(k, t)].hash = HashAt(k, t)
           /\ RowsAt(k, t) = {} => HashAt(k, t) = NoHash
  <1> DEFINE early == {i \in RowsOfKey(k) : seconds[i] <= t}
  <1>1. early = RowsAt(k, t)
    BY DEF RowsOfKey, RowsAt
  <1>2. Ranked(k, t) = IF early # {} THEN Max(early) ELSE Max(RowsOfKey(k))
    BY DEF Ranked, RowsOfKey
  <1>3. HashAt(k, t) = IF RowsAt(k, t) = {} THEN NoHash ELSE obs[Max(RowsAt(k, t))].hash
    BY DEF HashAt, RowsAt
  <1>4. RowsOfKey(k) \in SUBSET DOMAIN obs /\ early \in SUBSET DOMAIN obs
    BY DEF RowsOfKey
  <1>5. early # {} => Max(early) \in early
    BY <1>4, RowsArePositions
  <1>6. Max(RowsOfKey(k)) \in RowsOfKey(k)
    BY <1>4, RowsArePositions
  <1>7. CASE early # {}
    <2>1. Ranked(k, t) \in early /\ Ranked(k, t) = Max(RowsAt(k, t))
      BY <1>1, <1>2, <1>5, <1>7
    <2>2. QED
      BY <1>1, <1>3, <1>7, <2>1
  <1>8. CASE early = {}
    <2>1. Ranked(k, t) \in RowsOfKey(k)
      BY <1>2, <1>6, <1>8
    <2>2. QED
      BY <1>1, <1>3, <1>8, <2>1
  <1>9. QED
    BY <1>7, <1>8

\* The pair of a key in the difference of two moments.
LEMMA WindowReplays ==
    ASSUME HistoryType, NEW to \in 0 .. now, NEW from \in 0 .. to, NEW k \in Keys,
           NEW pairs, pairs = {p \in get_observations_in_window(from, to) : p.key = k}
    PROVE  IF HashAt(k, from) = HashAt(k, to) THEN pairs = {}
           ELSE \E p \in pairs : p.from = HashAt(k, from) /\ p.to = HashAt(k, to)
  <1> DEFINE known == {obs[i].key : i \in DOMAIN obs}
             Snap(t) == [x \in {y \in known : seconds[Ranked(y, t)] <= t} |-> obs[Ranked(x, t)].hash]
             FromHash(x) == IF x \in DOMAIN Snap(from) THEN Snap(from)[x] ELSE NoHash
             Pair(x) == [key |-> x, from |-> FromHash(x), to |-> Snap(to)[x]]
  <1>1. from \in Nat /\ to \in Nat /\ from <= to
    BY DEF HistoryType
  <1>2. get_observations_in_window(from, to) =
            {p \in {Pair(x) : x \in DOMAIN Snap(to)} : p.from # p.to}
    BY DEF get_observations_in_window
  <1>3. k \in known <=> RowsOfKey(k) # {}
    BY DEF RowsOfKey
  <1>4. ASSUME NEW t \in Nat
        PROVE  /\ k \in DOMAIN Snap(t) <=> RowsAt(k, t) # {}
               /\ k \in DOMAIN Snap(t) => Snap(t)[k] = HashAt(k, t)
               /\ k \notin DOMAIN Snap(t) => HashAt(k, t) = NoHash
    <2>1. CASE RowsOfKey(k) # {}
      <3>1. k \in DOMAIN Snap(t) <=> RowsAt(k, t) # {}
        BY <1>3, <2>1, RankedIsLatest
      <3>2. k \in DOMAIN Snap(t) => Snap(t)[k] = obs[Ranked(k, t)].hash
        OBVIOUS
      <3>3. QED
        BY <2>1, <3>1, <3>2, RankedIsLatest
    <2>2. CASE RowsOfKey(k) = {}
      <3>1. RowsAt(k, t) = {}
        BY <2>2 DEF RowsOfKey, RowsAt
      <3>2. k \notin DOMAIN Snap(t)
        BY <1>3, <2>2
      <3>3. HashAt(k, t) = NoHash
        BY <3>1 DEF HashAt, RowsAt
      <3>4. QED
        BY <3>1, <3>2, <3>3
    <2>3. QED
      BY <2>1, <2>2
  <1>5. RowsAt(k, from) # {} => RowsAt(k, to) # {}
    <2>1. \A i \in DOMAIN obs : seconds[i] \in Nat
      BY DEF HistoryType
    <2>2. QED
      BY <1>1, <2>1 DEF RowsAt
  <1>6. FromHash(k) = HashAt(k, from)
    BY <1>1, <1>4
  <1>7. k \notin DOMAIN Snap(to) => HashAt(k, from) = NoHash /\ HashAt(k, to) = NoHash
    BY <1>1, <1>4, <1>5
  <1>8. k \in DOMAIN Snap(to) => Snap(to)[k] = HashAt(k, to)
    BY <1>1, <1>4
  <1> HIDE DEF Snap, FromHash, known
  <1>9. \A p \in pairs : p = Pair(k) /\ k \in DOMAIN Snap(to) /\ p.from # p.to
    BY <1>2
  <1>10. k \in DOMAIN Snap(to) /\ FromHash(k) # Snap(to)[k] => Pair(k) \in pairs
    BY <1>2
  <1>11. CASE HashAt(k, from) = HashAt(k, to)
    BY <1>6, <1>8, <1>9, <1>11
  <1>12. CASE HashAt(k, from) # HashAt(k, to)
    <2>1. k \in DOMAIN Snap(to)
      BY <1>7, <1>12
    <2>2. Pair(k) \in pairs
      BY <1>6, <1>8, <1>10, <1>12, <2>1
    <2>3. Pair(k).from = HashAt(k, from) /\ Pair(k).to = HashAt(k, to)
      BY <1>6, <1>8, <2>1
    <2>4. QED
      BY <1>12, <2>2, <2>3
  <1>13. QED
    BY <1>11, <1>12

-----------------------------------------------------------------------------
(***************************************************************************)
(* The pages of a history.                                                 *)
(***************************************************************************)

\* The rows a page is cut from, for every area.
Asked(e, cursor) == {i \in DOMAIN obs : Entity(obs[i].key) = e /\ Before(i, cursor)}

\* get_observation_history without an area: the newest Limit of the rows asked.
LEMMA PageOfAsked ==
    ASSUME NEW e, NEW cursor
    PROVE  get_observation_history(e, AnyArea, Limit, cursor) =
             {i \in Asked(e, cursor) : Cardinality({j \in Asked(e, cursor) : j > i}) < Limit}
  BY DEF get_observation_history, Asked

\* The rows behind a row, of a finite set.
LEMMA RowsBehind ==
    ASSUME HistoryType, NEW S \in SUBSET DOMAIN obs
    PROVE  /\ IsFiniteSet(S) /\ Cardinality(S) \in Nat
           /\ \A i \in S : /\ IsFiniteSet({j \in S : j > i})
                           /\ Cardinality({j \in S : j > i}) \in Nat
  <1>1. Len(obs) \in Nat /\ DOMAIN obs = 1 .. Len(obs)
    BY DEF HistoryType
  <1>2. IsFiniteSet(1 .. Len(obs))
    BY <1>1, FS_Interval
  <1>3. IsFiniteSet(S)
    BY <1>1, <1>2, FS_Subset
  <1>4. \A T \in SUBSET S : IsFiniteSet(T) /\ Cardinality(T) \in Nat
    BY <1>3, FS_Subset, FS_CardinalityType
  <1>5. QED
    BY <1>4

\* A page is the newest rows of those it is cut from.
LEMMA PageIsNewest ==
    ASSUME HistoryType, NEW S \in SUBSET DOMAIN obs,
           NEW page, page = {i \in S : Cardinality({j \in S : j > i}) < Limit},
           NEW i \in page, NEW x \in S, x > i
    PROVE  x \in page
  <1> DEFINE Behind(y) == {j \in S : j > y}
  <1>1. Len(obs) \in Nat /\ DOMAIN obs = 1 .. Len(obs) /\ Limit \in Nat
    BY HistoryAssumption DEF HistoryType
  <1>2. \A j \in S : j \in Nat
    BY <1>1
  <1>3. Behind(x) \subseteq Behind(i)
    BY <1>2
  <1>4. IsFiniteSet(Behind(i)) /\ Cardinality(Behind(i)) \in Nat
        /\ Cardinality(Behind(x)) \in Nat
    BY RowsBehind
  <1>5. Cardinality(Behind(x)) <= Cardinality(Behind(i))
    BY <1>3, <1>4, FS_Subset
  <1>6. Cardinality(Behind(i)) < Limit
    OBVIOUS
  <1>7. QED
    BY <1>1, <1>4, <1>5, <1>6

\* A page that is full has Limit rows, one that is not has all there are.
LEMMA PageIsFullOrAll ==
    ASSUME HistoryType, NEW S \in SUBSET DOMAIN obs,
           NEW page, page = {i \in S : Cardinality({j \in S : j > i}) < Limit}
    PROVE  Cardinality(page) # Limit => page = S
  <1> DEFINE Behind(y) == {j \in S : j > y}
  <1>1. Len(obs) \in Nat /\ DOMAIN obs = 1 .. Len(obs) /\ Limit \in Nat \ {0}
    BY HistoryAssumption DEF HistoryType
  <1>2. \A j \in S : j \in Nat
    BY <1>1
  <1>3. page \in SUBSET DOMAIN obs /\ page \subseteq S
    OBVIOUS
  <1>4. IsFiniteSet(page) /\ Cardinality(page) \in Nat
    BY <1>3, RowsBehind
  <1>5. SUFFICES ASSUME page # S
                 PROVE  Cardinality(page) = Limit
    OBVIOUS
  <1>6. PICK x \in S \ page : \A y \in S \ page : y <= x
    <2>1. S \ page \in SUBSET DOMAIN obs /\ S \ page # {}
      BY <1>3, <1>5
    <2>2. QED
      BY <2>1, RowsArePositions
  <1>7. \A y \in Behind(x) : y \in page
    BY <1>2, <1>6
  <1>8. Cardinality(Behind(x)) \in Nat /\ ~(Cardinality(Behind(x)) < Limit)
    BY <1>6, RowsBehind
  <1>9. Cardinality(Behind(x)) <= Cardinality(page)
    BY <1>4, <1>7, FS_Subset
  <1>10. page # {}
    <2>1. Cardinality(page) # 0
      BY <1>1, <1>4, <1>8, <1>9
    <2>2. QED
      BY <2>1, FS_EmptySet
  <1>11. PICK m \in page : \A y \in page : m <= y
    BY <1>3, <1>10, RowsArePositions
  <1>12. page \ {m} \subseteq Behind(m)
    <2>1. ASSUME NEW y \in page, y # m
          PROVE  y \in S /\ y > m
      <3>1. y \in Nat /\ m \in Nat /\ m <= y /\ y \in S
        BY <1>2, <1>3, <1>11
      <3>2. QED
        BY <2>1, <3>1
    <2>2. QED
      BY <2>1
  <1>13. IsFiniteSet(Behind(m)) /\ Cardinality(Behind(m)) \in Nat
         /\ Cardinality(Behind(m)) < Limit
    BY <1>11, RowsBehind
  <1>14. Cardinality(page \ {m}) <= Cardinality(Behind(m))
    BY <1>12, <1>13, FS_Subset
  <1>15. Cardinality(page \ {m}) = Cardinality(page) - 1
    BY <1>4, <1>11, FS_RemoveElement
  <1>16. QED
    BY <1>1, <1>4, <1>8, <1>9, <1>13, <1>14, <1>15

\* An entry of a timeline differs from the one before it, as far as the
\* timeline reaches.
LEMMA TimelineReplays ==
    ASSUME HistoryType, NEW e, NEW entry \in get_entity_timeline(e),
           NEW entries, entries = get_entity_timeline(e),
           NEW reach, reach = Min({x.row : x \in entries}),
           NEW before, before = {j \in reach .. entry.row - 1 : obs[j].key = obs[entry.row].key}
    PROVE  entry.has_diff <=> (before # {} /\ obs[Max(before)].hash # obs[entry.row].hash)
  <1> DEFINE S == Asked(e, NoCursor)
             rows == {i \in S : Cardinality({j \in S : j > i}) < Limit}
             Entry(i) == [row |-> i, has_diff |-> \E j \in Previous(rows, i) : obs[j].hash # obs[i].hash]
             i == entry.row
             older == {j \in rows : j < i /\ obs[j].key = obs[i].key}
  <1>1. Len(obs) \in Nat /\ DOMAIN obs = 1 .. Len(obs)
    BY DEF HistoryType
  <1>2. S \in SUBSET DOMAIN obs /\ rows \subseteq S
    BY DEF Asked
  <1>3. entries = {Entry(x) : x \in rows}
    <2>1. get_observation_history(e, AnyArea, Limit, NoCursor) = rows
      BY PageOfAsked
    <2>2. QED
      BY <2>1 DEF get_entity_timeline
  <1> HIDE DEF S, rows
  <1>4. i \in rows /\ entry = Entry(i)
    BY <1>3
  <1>5. {x.row : x \in entries} = rows
    <2>1. \A x \in rows : Entry(x).row = x /\ Entry(x) \in entries
      BY <1>3
    <2> HIDE DEF Entry
    <2>2. QED
      BY <1>3, <2>1
  <1>6. reach \in rows /\ \A x \in rows : reach <= x
    <2>1. rows \in SUBSET DOMAIN obs /\ rows # {}
      BY <1>2, <1>4
    <2>2. QED
      BY <1>5, <2>1, RowsArePositions
  <1>7. older \subseteq before
    <2>1. \A j \in rows : j \in 1 .. Len(obs)
      BY <1>1, <1>2
    <2>2. QED
      BY <1>4, <1>6, <2>1
  <1>8. ASSUME NEW j \in before
        PROVE  j \in older
    <2>1. i \in 1 .. Len(obs) /\ reach \in 1 .. Len(obs)
      BY <1>1, <1>2, <1>4, <1>6
    <2>2. j \in 1 .. Len(obs) /\ reach <= j /\ j < i /\ obs[j].key = obs[i].key
      BY <2>1
    <2>3. j \in S
      BY <1>1, <1>4, <2>2, <1>2 DEF S, Asked, Before
    <2>4. j \in rows
      <3>1. CASE j = reach
        BY <1>6, <3>1
      <3>2. CASE j > reach
        BY <1>2, <1>6, <2>3, <3>2, PageIsNewest DEF rows
      <3>3. QED
        BY <2>1, <2>2, <3>1, <3>2
    <2>5. QED
      BY <2>2, <2>4
  <1>9. older = before
    BY <1>7, <1>8
  <1>10. Previous(rows, i) = IF before = {} THEN {} ELSE {Max(before)}
    BY <1>9 DEF Previous
  <1>11. entry.has_diff <=> \E j \in Previous(rows, i) : obs[j].hash # obs[i].hash
    BY <1>4
  <1>12. QED
    BY <1>10, <1>11

\* HistoryReplays: the difference of two moments, replayed on the first, gives
\* the second, and a timeline marks the entries that differ from the ones
\* before them: get_observations_in_window and get_entity_timeline, for every
\* history the collector can have stored.
THEOREM Replays == Spec => []HistoryReplays
  <1>1. HistoryType => HistoryReplays
    <2> SUFFICES ASSUME HistoryType
                 PROVE  HistoryReplays
      OBVIOUS
    <2>1. ASSUME NEW e \in Entities, NEW entry \in get_entity_timeline(e)
          PROVE  LET reach == Min({x.row : x \in get_entity_timeline(e)})
                     i == entry.row
                     before == {j \in reach .. i - 1 : obs[j].key = obs[i].key}
                 IN entry.has_diff <=> (before # {} /\ obs[Max(before)].hash # obs[i].hash)
      BY TimelineReplays
    <2>2. ASSUME NEW to \in 0 .. now, NEW from \in 0 .. to, NEW k \in Keys
          PROVE  LET pairs == {p \in get_observations_in_window(from, to) : p.key = k}
                 IN IF HashAt(k, from) = HashAt(k, to) THEN pairs = {}
                    ELSE \E p \in pairs : p.from = HashAt(k, from) /\ p.to = HashAt(k, to)
      <3> DEFINE d == {p \in get_observations_in_window(from, to) : p.key = k}
      <3>1. PICK pairs : pairs = d
        OBVIOUS
      <3>2. IF HashAt(k, from) = HashAt(k, to) THEN pairs = {}
            ELSE \E p \in pairs : p.from = HashAt(k, from) /\ p.to = HashAt(k, to)
        BY <3>1, WindowReplays
      <3> HIDE DEF d
      <3>3. IF HashAt(k, from) = HashAt(k, to) THEN d = {}
            ELSE \E p \in d : p.from = HashAt(k, from) /\ p.to = HashAt(k, to)
        BY <3>1, <3>2
      <3>4. QED
        BY <3>3 DEF d
    <2>3. QED
      BY <2>1, <2>2, Zenon DEF HistoryReplays
  <1>2. QED
    BY <1>1, HistoryTyped, PTL

-----------------------------------------------------------------------------
(***************************************************************************)
(* A client that follows the cursors.                                      *)
(***************************************************************************)
Told(pages) == UNION {pages[n] : n \in DOMAIN pages}

Descending(pages) ==
    \A m, n \in DOMAIN pages : m < n => \A i \in pages[m], j \in pages[n] : j < i

\* What a client has been told is what was there when it began, down to its
\* cursor: a page begins where the one before it ended.
PagerInv ==
    /\ pager.told \in Seq(SUBSET Nat) /\ pager.start \in Nat /\ pager.cursor \in Nat
    /\ pager.entity = NoOne => pager = NoPager
    /\ pager.entity # NoOne =>
          /\ pager.start <= Len(obs)
          /\ pager.cursor # NoCursor => pager.cursor \in 1 .. pager.start
          /\ Told(pager.told) =
                {i \in RowsOfEntity(pager.entity, pager.start) :
                    pager.cursor = NoCursor \/ pager.cursor <= i}
          /\ Descending(pager.told)

\* One more page.
LEMMA OneMorePage ==
    ASSUME NEW pages \in Seq(SUBSET Nat), NEW page \in SUBSET Nat
    PROVE  /\ Append(pages, page) \in Seq(SUBSET Nat)
           /\ Told(Append(pages, page)) = Told(pages) \cup page
           /\ Descending(pages) /\ (\A i \in Told(pages), j \in page : j < i)
                => Descending(Append(pages, page))
  <1> DEFINE more == Append(pages, page)
  <1>1. /\ more \in Seq(SUBSET Nat) /\ Len(more) = Len(pages) + 1 /\ Len(pages) \in Nat
        /\ DOMAIN more = 1 .. Len(pages) + 1 /\ DOMAIN pages = 1 .. Len(pages)
        /\ \A n \in DOMAIN pages : more[n] = pages[n]
        /\ more[Len(pages) + 1] = page
    OBVIOUS
  <1> HIDE DEF more
  <1>2. DOMAIN more = DOMAIN pages \cup {Len(pages) + 1} /\ Len(pages) + 1 \notin DOMAIN pages
    BY <1>1
  <1>3. Told(more) = Told(pages) \cup page
    BY <1>1, <1>2 DEF Told
  <1>4. ASSUME Descending(pages), \A i \in Told(pages), j \in page : j < i,
               NEW m \in DOMAIN more, NEW n \in DOMAIN more, m < n,
               NEW i \in more[m], NEW j \in more[n]
        PROVE  j < i
    <2>1. m \in DOMAIN pages
      BY <1>1, <1>4
    <2>2. i \in pages[m] /\ i \in Told(pages)
      BY <1>1, <1>4, <2>1 DEF Told
    <2>3. CASE n \in DOMAIN pages
      <3>1. j \in pages[n]
        BY <1>1, <1>4, <2>3
      <3>2. QED
        BY <1>4, <2>1, <2>2, <2>3, <3>1 DEF Descending
    <2>4. CASE n = Len(pages) + 1
      BY <1>1, <1>4, <2>2, <2>4
    <2>5. QED
      BY <1>2, <2>3, <2>4
  <1>5. QED
    BY <1>1, <1>3, <1>4 DEF more, Descending

\* The rows of an entity that were there stay what they are.
LEMMA RowsOfEntityStable ==
    ASSUME HistoryType, HistoryType', Grows, NEW e, NEW n \in 0 .. Len(obs)
    PROVE  RowsOfEntity(e, n)' = RowsOfEntity(e, n)
  <1>1. \A i \in 1 .. n : i \in 1 .. Len(obs)
    BY DEF HistoryType
  <1>2. \A i \in 1 .. n : obs'[i] = obs[i]
    BY <1>1 DEF Grows
  <1>3. QED
    BY <1>2 DEF RowsOfEntity, Entity

\* The history grows, and the client is where it was.
LEMMA PagerWaits ==
    ASSUME HistoryType, HistoryType', Grows, PagerInv, pager' = pager
    PROVE  PagerInv'
  <1>1. Len(obs) \in Nat /\ Len(obs') \in Nat /\ Len(obs) <= Len(obs')
    BY DEF HistoryType, Grows
  <1>2. CASE pager.entity = NoOne
    BY <1>2 DEF PagerInv
  <1>3. CASE pager.entity # NoOne
    <2>1. pager.start \in 0 .. Len(obs) /\ pager.start <= Len(obs')
      BY <1>1, <1>3 DEF PagerInv
    <2>2. RowsOfEntity(pager.entity, pager.start)' = RowsOfEntity(pager.entity, pager.start)
      BY <2>1, RowsOfEntityStable
    <2>3. QED
      BY <1>3, <2>1, <2>2 DEF PagerInv
  <1>4. QED
    BY <1>2, <1>3

\* The rows a page is cut from are those the client has not been told.
LEMMA AskedIsRest ==
    ASSUME HistoryType, NEW e, NEW cursor \in 0 .. Len(obs),
           NEW n \in 0 .. Len(obs), cursor <= n, cursor = NoCursor => n = Len(obs)
    PROVE  Asked(e, cursor) =
             {i \in RowsOfEntity(e, n) : cursor = NoCursor \/ i < cursor}
  <1>1. Len(obs) \in Nat /\ DOMAIN obs = 1 .. Len(obs)
    BY DEF HistoryType
  <1>0. /\ Len(obs) \in Nat /\ n \in Nat /\ cursor \in Nat
        /\ cursor <= n /\ n <= Len(obs)
    BY DEF HistoryType
  <1>2. CASE cursor = NoCursor
    BY <1>1, <1>2 DEF Asked, Before, RowsOfEntity
  <1>3. CASE cursor # NoCursor
    <2>1. ASSUME NEW i \in 1 .. Len(obs), i < cursor
          PROVE  i \in 1 .. n
      <3>1. i \in Nat /\ 1 <= i /\ i <= n
        BY <1>0, <2>1
      <3>2. QED
        BY <1>0, <3>1
    <2>2. ASSUME NEW i \in 1 .. n
          PROVE  i \in 1 .. Len(obs)
      <3>1. i \in Nat /\ 1 <= i /\ i <= Len(obs)
        BY <1>0
      <3>2. QED
        BY <1>0, <3>1
    <2>3. QED
      BY <1>1, <1>3, <2>1, <2>2 DEF Asked, Before, RowsOfEntity
  <1>4. QED
    BY <1>2, <1>3

\* What a page tells, and where it leaves the client.
LEMMA PageExtends ==
    ASSUME HistoryType, NEW e, NEW cursor \in 0 .. Len(obs),
           NEW n \in 0 .. Len(obs), cursor <= n, cursor = NoCursor => n = Len(obs),
           NEW page, page = get_observation_history(e, AnyArea, Limit, cursor),
           NEW next, next = IF Cardinality(page) = Limit THEN Min(page) ELSE NoCursor
    PROVE  /\ page \in SUBSET Nat
           /\ \A i \in page : i \in RowsOfEntity(e, n) /\ (cursor # NoCursor => i < cursor)
           /\ next \in Nat
           /\ next # NoCursor => next \in 1 .. n /\ next \in page
           /\ \A i \in RowsOfEntity(e, n) :
                 (cursor = NoCursor \/ i < cursor) /\ (next = NoCursor \/ next <= i) => i \in page
           /\ \A i \in page : next = NoCursor \/ next <= i
  <1> DEFINE S == Asked(e, cursor)
  <1>1. Len(obs) \in Nat /\ DOMAIN obs = 1 .. Len(obs)
    BY DEF HistoryType
  <1>0. /\ Len(obs) \in Nat /\ n \in Nat /\ cursor \in Nat
        /\ cursor <= n /\ n <= Len(obs)
    BY DEF HistoryType
  <1>2. S = {i \in RowsOfEntity(e, n) : cursor = NoCursor \/ i < cursor}
    BY AskedIsRest
  <1>3. page = {i \in S : Cardinality({j \in S : j > i}) < Limit}
    BY PageOfAsked
  <1>4. S \in SUBSET DOMAIN obs
    BY DEF Asked
  <1> HIDE DEF S
  <1>5. page \subseteq S /\ \A i \in RowsOfEntity(e, n) : i \in 1 .. n
    BY <1>3 DEF RowsOfEntity
  <1>6. page \in SUBSET Nat
        /\ \A i \in page : i \in RowsOfEntity(e, n) /\ (cursor # NoCursor => i < cursor)
    BY <1>0, <1>2, <1>5
  <1>7. CASE Cardinality(page) = Limit
    <2>1. page # {}
      <3>1. Cardinality(page) # 0
        BY <1>7, HistoryAssumption
      <3>2. QED
        BY <3>1, FS_EmptySet
    <2>2. next \in page /\ \A i \in page : next <= i
      BY <1>4, <1>5, <1>7, <2>1, RowsArePositions
    <2>3. next \in 1 .. n
      BY <1>5, <1>6, <2>2
    <2>4. ASSUME NEW i \in RowsOfEntity(e, n),
                 cursor = NoCursor \/ i < cursor, next <= i
          PROVE  i \in page
      <3>1. i \in S /\ i \in Nat /\ next \in Nat
        BY <1>0, <1>2, <1>5, <2>3, <2>4
      <3>2. CASE i = next
        BY <2>2, <3>2
      <3>3. CASE i > next
        BY <1>3, <1>4, <2>2, <3>1, <3>3, PageIsNewest
      <3>4. QED
        BY <2>4, <3>1, <3>2, <3>3
    <2>5. next # NoCursor
      BY <1>0, <2>3 DEF NoCursor
    <2>6. QED
      BY <1>0, <1>6, <2>2, <2>3, <2>4, <2>5
  <1>8. CASE Cardinality(page) # Limit
    <2>1. page = S
      BY <1>3, <1>4, <1>8, PageIsFullOrAll
    <2>2. next = NoCursor
      BY <1>8
    <2>3. next \in Nat
      BY <2>2 DEF NoCursor
    <2>4. \A i \in RowsOfEntity(e, n) : cursor = NoCursor \/ i < cursor => i \in page
      BY <1>2, <2>1
    <2>5. QED
      BY <1>6, <2>2, <2>3, <2>4
  <1>9. QED
    BY <1>7, <1>8

\* A page of get_history.
LEMMA PagerReads ==
    ASSUME HistoryType, PagerInv, NEW e \in Entities, get_history(e), UNCHANGED historyVars
    PROVE  PagerInv'
  <1> DEFINE first == pager.entity = NoOne
             start == IF first THEN Len(obs) ELSE pager.start
             page == get_observation_history(e, AnyArea, Limit, pager.cursor)
             next == IF Cardinality(page) = Limit THEN Min(page) ELSE NoCursor
  <1>1. Len(obs) \in Nat /\ obs' = obs /\ bounds' = bounds
    BY DEF HistoryType, historyVars
  <1>2. pager' = [entity |-> e, start |-> start, cursor |-> next, told |-> Append(pager.told, page)]
        /\ (first \/ (pager.entity = e /\ pager.cursor # NoCursor))
    BY DEF get_history
  <1>3. e # NoOne
    BY HistoryAssumption, ReadersAssumption DEF Entities, HistoryType
  <1>4. /\ start \in 0 .. Len(obs) /\ pager.cursor \in 0 .. Len(obs)
        /\ pager.cursor <= start /\ (pager.cursor = NoCursor => start = Len(obs))
    BY <1>1, <1>2 DEF PagerInv, NoPager, NoCursor
  <1>5. /\ pager.told \in Seq(SUBSET Nat)
        /\ Descending(pager.told)
        /\ \A i : i \in Told(pager.told)
                    <=> i \in RowsOfEntity(e, start) /\ pager.cursor # NoCursor /\ pager.cursor <= i
    <2>1. CASE first
      <3>1. pager.told = <<>> /\ pager.cursor = NoCursor
        BY <2>1 DEF PagerInv, NoPager
      <3>2. Told(<<>>) = {} /\ Descending(<<>>)
        BY DEF Told, Descending
      <3>3. QED
        BY <3>1, <3>2
    <2>2. CASE ~first
      BY <1>2, <2>2 DEF PagerInv
    <2>3. QED
      BY <2>1, <2>2 DEF PagerInv
  <1> HIDE DEF start, page, next
  <1>6. /\ page \in SUBSET Nat
        /\ \A i \in page : i \in RowsOfEntity(e, start) /\ (pager.cursor # NoCursor => i < pager.cursor)
        /\ next \in Nat
        /\ next # NoCursor => next \in 1 .. start /\ next \in page
        /\ \A i \in RowsOfEntity(e, start) :
              (pager.cursor = NoCursor \/ i < pager.cursor) /\ (next = NoCursor \/ next <= i)
                => i \in page
        /\ \A i \in page : next = NoCursor \/ next <= i
    BY <1>4, PageExtends DEF page, next
  <1>7. /\ Append(pager.told, page) \in Seq(SUBSET Nat)
        /\ Told(Append(pager.told, page)) = Told(pager.told) \cup page
        /\ (\A i \in Told(pager.told), j \in page : j < i) => Descending(Append(pager.told, page))
    BY <1>5, <1>6, OneMorePage
  <1>8. \A i \in RowsOfEntity(e, start) : i \in 1 .. start
    BY DEF RowsOfEntity
  <1>9. \A i \in Told(pager.told), j \in page : j < i
    <2>1. \A i \in Told(pager.told), j \in page :
             i \in Nat /\ j \in Nat /\ pager.cursor \in Nat /\ pager.cursor <= i /\ j < pager.cursor
      BY <1>1, <1>4, <1>5, <1>6, <1>8
    <2>2. QED
      BY <2>1
  <1>10. \A i : i \in Told(pager.told) \cup page
                  <=> i \in RowsOfEntity(e, start) /\ (next = NoCursor \/ next <= i)
    <2>1. ASSUME NEW i \in Told(pager.told), next # NoCursor
          PROVE  next <= i
      <3>1. i \in Nat /\ pager.cursor # NoCursor /\ pager.cursor <= i
        BY <1>4, <1>5, <1>8
      <3>2. next \in Nat
        BY <1>6
      <3>3. next < i
        BY <1>6, <1>9, <2>1
      <3>4. QED
        BY <3>1, <3>2, <3>3
    <2>2. ASSUME NEW i \in Told(pager.told) \cup page
          PROVE  i \in RowsOfEntity(e, start) /\ (next = NoCursor \/ next <= i)
      BY <1>5, <1>6, <2>1
    <2>3. ASSUME NEW i \in RowsOfEntity(e, start), next = NoCursor \/ next <= i
          PROVE  i \in Told(pager.told) \cup page
      <3>1. i \in Nat /\ pager.cursor \in Nat
        BY <1>1, <1>4, <1>8
      <3>2. CASE pager.cursor = NoCursor \/ i < pager.cursor
        BY <1>6, <2>3, <3>2
      <3>3. CASE pager.cursor # NoCursor /\ pager.cursor <= i
        BY <1>5, <3>3
      <3>4. QED
        BY <3>1, <3>2, <3>3
    <2>4. QED
      BY <2>2, <2>3
  <1>11. /\ pager'.entity = e /\ pager'.start = start /\ pager'.cursor = next
         /\ pager'.told = Append(pager.told, page)
    BY <1>2
  <1>12. RowsOfEntity(pager.entity, pager.start)' = RowsOfEntity(e, start)
    BY <1>1, <1>11 DEF RowsOfEntity, Entity
  <1>13. Told(pager.told)' = Told(pager.told) \cup page
         /\ Descending(pager.told)' /\ pager'.told \in Seq(SUBSET Nat)
    BY <1>7, <1>9, <1>11 DEF Told, Descending
  <1>14. Told(pager.told)' = {i \in RowsOfEntity(pager.entity, pager.start) :
                                 pager.cursor = NoCursor \/ pager.cursor <= i}'
    BY <1>10, <1>11, <1>12, <1>13
  <1>15. QED
    BY <1>1, <1>3, <1>4, <1>6, <1>11, <1>13, <1>14 DEF PagerInv

\* PagesTellAll: a client that follows the cursors of get_history to the end has
\* been told each row that was there when it began, once, newest first,
\* whatever the collector stores between two pages, for every page length.
THEOREM Pages == Spec => []PagesTellAll
  <1>1. Init => HistoryType /\ PagerInv
    <2>1. ASSUME pager = NoPager
          PROVE  PagerInv
      <3>1. /\ pager.told = <<>> /\ pager.start = 0 /\ pager.cursor = 0
            /\ pager.entity = NoOne
        BY <2>1 DEF NoPager, NoCursor
      <3>2. <<>> \in Seq(SUBSET Nat)
        OBVIOUS
      <3>3. QED
        BY <2>1, <3>1, <3>2 DEF PagerInv
    <2>2. Init => HistoryType
      BY HistoryStarts
    <2>3. QED
      BY <2>1, <2>2 DEF Init
  <1>2. HistoryType /\ PagerInv /\ [Next]_vars => HistoryType' /\ PagerInv'
    <2> SUFFICES ASSUME HistoryType, PagerInv, [Next]_vars
                 PROVE  HistoryType' /\ PagerInv'
      OBVIOUS
    <2>1. HistoryType' /\ Grows
      BY HistorySteps
    <2>2. CASE pager' = pager
      BY <2>1, <2>2, PagerWaits
    <2>3. CASE \E e \in Entities : get_history(e) /\ UNCHANGED <<historyVars, ingestVars>>
      BY <2>1, <2>3, PagerReads
    <2>4. QED
      BY <2>1, <2>2, <2>3 DEF Next, vars
  <1>3. HistoryType /\ PagerInv => PagesTellAll
    BY DEF PagerInv, PagesTellAll, Told, Descending, NoCursor
  <1>4. QED
    BY <1>1, <1>2, <1>3, PTL DEF Spec

-----------------------------------------------------------------------------
(***************************************************************************)
(* What a push finds in a copy does not change while the history grows.    *)
(***************************************************************************)
LEMMA PriorStable ==
    ASSUME HistoryType, HistoryType', Grows, NEW i \in 1 .. Len(obs)
    PROVE  /\ Prior(i)' = Prior(i) /\ Prior(i) \subseteq 1 .. i - 1
           /\ change_id(i)' = change_id(i)
  <1> DEFINE older == {j \in 1 .. i - 1 : obs[j].key = obs[i].key}
  <1>1. Len(obs) \in Nat /\ i \in Nat /\ i <= Len(obs)
    BY DEF HistoryType
  <1>2. ASSUME NEW j \in 1 .. i - 1
        PROVE  j \in 1 .. Len(obs)
    BY <1>1
  <1>3. \A j \in 1 .. Len(obs) : obs'[j] = obs[j]
    BY DEF Grows
  <1>4. {j \in 1 .. i - 1 : obs'[j].key = obs'[i].key} = older
    BY <1>2, <1>3
  <1>5. Prior(i)' = Prior(i)
    BY <1>4 DEF Prior
  <1>6. older # {} => Max(older) \in older
    <2>1. older \in SUBSET (0 .. Len(obs))
      BY <1>1, <1>2
    <2>2. QED
      BY <1>1, <2>1, MaxIsGreatest
  <1>7. Prior(i) \subseteq 1 .. i - 1
    BY <1>6 DEF Prior
  <1>8. \A j \in Prior(i) : obs'[j] = obs[j]
    BY <1>2, <1>3, <1>7
  <1>9. {obs'[j].hash : j \in Prior(i)} = {obs[j].hash : j \in Prior(i)}
    BY <1>8
  <1>10. change_id(i)' = change_id(i)
    BY <1>3, <1>5, <1>9 DEF change_id, Facet
  <1>11. QED
    BY <1>5, <1>7, <1>10

\* What build_snapshot_events and build_change_events find in a copy of n rows.
LEMMA CopyStable ==
    ASSUME HistoryType, HistoryType', Grows, NEW n \in 0 .. Len(obs), NEW since
    PROVE  Newest(n)' = Newest(n) /\ Changes(n, since)' = Changes(n, since)
  <1>1. Len(obs) \in Nat /\ n \in Nat /\ n <= Len(obs)
    BY DEF HistoryType
  <1>2. ASSUME NEW i \in 1 .. n
        PROVE  /\ i \in 1 .. Len(obs) /\ obs'[i] = obs[i] /\ seconds'[i] = seconds[i]
               /\ \A j \in i + 1 .. n : j \in 1 .. Len(obs) /\ obs'[j] = obs[j]
    <2>1. i \in 1 .. Len(obs) /\ \A j \in i + 1 .. n : j \in 1 .. Len(obs)
      BY <1>1
    <2>2. QED
      BY <2>1 DEF Grows
  <1>3. Newest(n)' = Newest(n)
    BY <1>2 DEF Newest
  <1>4. ASSUME NEW i \in 1 .. n
        PROVE  (\E j \in Prior(i)' : obs'[j].hash # obs'[i].hash)
                 <=> \E j \in Prior(i) : obs[j].hash # obs[i].hash
    <2>1. i \in 1 .. Len(obs)
      BY <1>2
    <2>2. Prior(i)' = Prior(i) /\ Prior(i) \subseteq 1 .. i - 1
      BY <2>1, PriorStable
    <2>3. \A j \in Prior(i) : j \in 1 .. Len(obs)
      BY <1>1, <2>1, <2>2
    <2>4. \A j \in Prior(i) : obs'[j] = obs[j]
      BY <2>3 DEF Grows
    <2>5. QED
      BY <1>2, <2>2, <2>4
  <1>5. Changes(n, since)' = Changes(n, since)
    BY <1>2, <1>4 DEF Changes
  <1>6. QED
    BY <1>3, <1>5

\* Two newest rows of one facet are one row.
LEMMA NewestIsOne ==
    ASSUME HistoryType, NEW n \in 0 .. Len(obs), NEW i \in Newest(n), NEW j \in Newest(n),
           Facet(obs[i].key) = Facet(obs[j].key)
    PROVE  i = j
  <1>1. Len(obs) \in Nat /\ n \in Nat /\ n <= Len(obs)
    BY DEF HistoryType
  <1>2. i \in 1 .. n /\ j \in 1 .. n
    BY DEF Newest
  <1>3. obs[i] \in Row /\ obs[j] \in Row
    <2>1. i \in 1 .. Len(obs) /\ j \in 1 .. Len(obs)
      BY <1>1, <1>2
    <2>2. QED
      BY <2>1 DEF HistoryType
  <1>4. obs[i].key = obs[j].key
    BY <1>3, IngestAssumption DEF Row
  <1>5. ~(j \in i + 1 .. n) /\ ~(i \in j + 1 .. n)
    BY <1>4 DEF Newest
  <1>6. QED
    BY <1>1, <1>2, <1>5

-----------------------------------------------------------------------------
(***************************************************************************)
(* The invariant of the pushes.                                            *)
(***************************************************************************)
Snapshot(i) == [type |-> "MerakiConfigSnapshot", row |-> i]
Change(i) == [type |-> "MerakiConfigChange", row |-> i]

\* What a run may have to send: the newest rows and the changes of its copy.
Sendable(n, since) ==
    Events("MerakiConfigSnapshot", Newest(n)) \cup Events("MerakiConfigChange", Changes(n, since))

Pushes == [at : {"idle", "push", "done"}, copied : Nat, since : Int,
           queue : SUBSET [type : {"MerakiConfigSnapshot", "MerakiConfigChange"}, row : Nat],
           looked : BOOLEAN, purged : BOOLEAN]

IngestType ==
    /\ push \in Pushes
    /\ push.copied <= Len(obs)
    /\ push.queue \subseteq Sendable(push.copied, push.since)
    /\ marker \in Int /\ nr.stamp \in Int
    /\ nr.changes \subseteq 1 .. Len(obs)

\* New Relic shows the payload of row i.
Mirrored(i, latest) ==
    Facet(obs[i].key) \in DOMAIN latest /\ latest[Facet(obs[i].key)] = obs[i].hash

\* A run that looked up the changes has none to send that New Relic holds.
SentInv ==
    /\ nr.twice = {}
    /\ push.at = "push" /\ push.looked => \A i \in nr.changes : Change(i) \notin push.queue

\* What a run is to deliver is in its queue or in New Relic.
DeliveryInv ==
    /\ push.at = "done" => push.queue = {}
    /\ push.at # "idle" /\ ~push.purged =>
          /\ \A i \in Newest(push.copied) : Snapshot(i) \in push.queue \/ Mirrored(i, nr.latest)
          /\ \A i \in Changes(push.copied, push.since) :
                Change(i) \in push.queue \/ change_id(i) \in Held

IngestInv == IngestType /\ SentInv /\ DeliveryInv

\* The events of a copy, one by one.
LEMMA SendableEvents ==
    ASSUME NEW n, NEW since
    PROVE  /\ \A e \in Sendable(n, since) :
                 \/ \E i \in Newest(n) : e = Snapshot(i)
                 \/ \E i \in Changes(n, since) : e = Change(i)
           /\ \A i : Snapshot(i) \in Sendable(n, since) => i \in Newest(n)
           /\ \A i : Change(i) \in Sendable(n, since) => i \in Changes(n, since)
           /\ \A i \in Newest(n) : i \in 1 .. n
           /\ \A i \in Changes(n, since) : i \in 1 .. n
           /\ \A i, j : Snapshot(i) # Change(j)
           /\ \A i, j : Snapshot(i) = Snapshot(j) => i = j
           /\ \A i, j : Change(i) = Change(j) => i = j
  BY DEF Sendable, Events, Snapshot, Change, Newest, Changes

\* The history grows, and the script and New Relic are where they were.
LEMMA IngestWaits ==
    ASSUME HistoryType, HistoryType', Grows, IngestInv, UNCHANGED ingestVars
    PROVE  IngestInv'
  <1> USE DEF IngestInv
  <1>1. push' = push /\ marker' = marker /\ nr' = nr
    BY DEF ingestVars
  <1>2. PICK n, since, changes :
           n = push.copied /\ since = push.since /\ changes = nr.changes
    OBVIOUS
  <1>3. Len(obs) \in Nat /\ Len(obs') \in Nat /\ Len(obs) <= Len(obs')
    BY DEF HistoryType, Grows
  <1>4. n \in 0 .. Len(obs) /\ changes \subseteq 1 .. Len(obs)
    BY <1>2, <1>3 DEF IngestType, Pushes
  <1>5. Newest(n)' = Newest(n) /\ Changes(n, since)' = Changes(n, since)
    BY <1>4, CopyStable
  <1>6. Sendable(n, since)' = Sendable(n, since)
    BY <1>5 DEF Sendable, Events
  <1>7. IngestType'
    <2>1. \A i \in changes : i \in 1 .. Len(obs')
      BY <1>3, <1>4
    <2>2. push.copied <= Len(obs')
      BY <1>2, <1>3, <1>4
    <2>3. push.queue \subseteq Sendable(push.copied, push.since)'
      BY <1>1, <1>2, <1>6 DEF IngestType
    <2>4. QED
      BY <1>1, <1>2, <2>1, <2>2, <2>3 DEF IngestType
  <1>8. SentInv'
    BY <1>1 DEF SentInv, Change
  <1>9. \A i \in 1 .. Len(obs) : change_id(i)' = change_id(i) /\ obs'[i] = obs[i]
    BY PriorStable DEF Grows
  <1>10. Held' = Held
    BY <1>1, <1>2, <1>4, <1>9 DEF Held, Ids
  <1>11. \A i \in 1 .. n : i \in 1 .. Len(obs)
    BY <1>3, <1>4
  <1>12. \A i \in Newest(n) : Mirrored(i, nr.latest)' <=> Mirrored(i, nr.latest)
    <2>1. \A i \in Newest(n) : obs'[i] = obs[i]
      BY <1>9, <1>11, SendableEvents
    <2>2. QED
      BY <1>1, <2>1 DEF Mirrored, Facet
  <1>13. \A i \in Changes(n, since) : change_id(i)' = change_id(i)
    BY <1>9, <1>11, SendableEvents
  <1>14. DeliveryInv'
    <2>1. push.at # "idle" /\ ~push.purged =>
             \A i \in Newest(push.copied)' :
                Snapshot(i) \in push.queue \/ Mirrored(i, nr.latest)'
      BY <1>1, <1>2, <1>5, <1>12 DEF DeliveryInv
    <2>2. push.at # "idle" /\ ~push.purged =>
             \A i \in Changes(push.copied, push.since)' :
                Change(i) \in push.queue \/ change_id(i)' \in Held'
      BY <1>1, <1>2, <1>5, <1>10, <1>13 DEF DeliveryInv
    <2>3. QED
      BY <1>1, <2>1, <2>2 DEF DeliveryInv, Snapshot, Change
  <1>15. QED
    BY <1>7, <1>8, <1>14

\* The invariant of a run p and what New Relic holds, r, over one history.
InvOf(p, r) ==
    /\ p \in Pushes /\ p.copied <= Len(obs)
    /\ p.queue \subseteq Sendable(p.copied, p.since)
    /\ r.stamp \in Int /\ r.changes \subseteq 1 .. Len(obs)
    /\ r.twice = {}
    /\ p.at = "push" /\ p.looked => \A i \in r.changes : Change(i) \notin p.queue
    /\ p.at = "done" => p.queue = {}
    /\ p.at # "idle" /\ ~p.purged =>
          /\ \A i \in Newest(p.copied) : Snapshot(i) \in p.queue \/ Mirrored(i, r.latest)
          /\ \A i \in Changes(p.copied, p.since) :
                Change(i) \in p.queue \/ change_id(i) \in Ids(r.changes)

\* A step of the scripts leaves the history alone, so that the invariant after it
\* is about the run and New Relic only.
LEMMA SameHistory ==
    ASSUME UNCHANGED historyVars, InvOf(push', nr'), marker' \in Int
    PROVE  IngestInv'
  <1>1. obs' = obs /\ seconds' = seconds
    BY DEF historyVars
  <1>2. /\ \A i : Prior(i)' = Prior(i) /\ change_id(i)' = change_id(i)
        /\ \A i, l : Mirrored(i, l)' <=> Mirrored(i, l)
        /\ \A n : Newest(n)' = Newest(n)
    BY <1>1 DEF Prior, change_id, Mirrored, Newest, Facet
  <1>3. \A n, since : Changes(n, since)' = Changes(n, since)
    BY <1>1, <1>2 DEF Changes
  <1>4. \A rows : Ids(rows)' = Ids(rows)
    BY <1>2 DEF Ids
  <1>5. \A n, since : Sendable(n, since)' = Sendable(n, since)
    BY <1>2, <1>3 DEF Sendable, Events
  <1>6. QED
    BY <1>1, <1>2, <1>3, <1>4, <1>5
       DEF InvOf, IngestInv, IngestType, SentInv, DeliveryInv, Held, Snapshot, Change

\* The invariant of the run in progress and of what New Relic holds now.
LEMMA SameInv == IngestInv <=> InvOf(push, nr) /\ marker \in Int
  BY DEF InvOf, IngestInv, IngestType, SentInv, DeliveryInv, Held

-----------------------------------------------------------------------------
(***************************************************************************)
(* The steps of the scripts.                                               *)
(***************************************************************************)

\* A run begins: what it does not send, New Relic has.
LEMMA StartDelivers ==
    ASSUME HistoryType, IngestInv,
           NEW override \in {Never} \cup {s \in Overrides : s <= now},
           NEW key \in BOOLEAN, NEW f \in BOOLEAN, NEW g \in BOOLEAN, NEW h \in BOOLEAN,
           Start(override, key, f, g, h), UNCHANGED historyVars
    PROVE  IngestInv'
  <1> DEFINE stamp == IF key /\ ~f THEN nr.stamp ELSE Never
             since == CASE override # Never -> override
                        [] override = Never /\ stamp # Never -> stamp
                        [] OTHER -> IF key THEN Never ELSE marker
             latest == IF key /\ ~g THEN nr.latest ELSE <<>>
             held == IF key /\ ~h THEN Held ELSE {}
             n == Len(obs)
             first == filter_new_snapshots(Newest(n), latest)
             then == Fresh(Changes(n, since), held)
             queue == Events("MerakiConfigSnapshot", first) \cup Events("MerakiConfigChange", then)
  <1>1. push' = [at |-> "push", copied |-> n, since |-> since, queue |-> queue,
                 looked |-> key /\ ~h, purged |-> FALSE]
        /\ nr' = nr /\ marker' = marker
    BY DEF Start
  <1>2. n \in Nat /\ InvOf(push, nr) /\ marker \in Int
    BY SameInv DEF HistoryType
  <1>3. since \in Int
    <2>1. stamp \in Int /\ override \in Int
      BY <1>2, IngestAssumption DEF InvOf, Never
    <2>2. QED
      BY <1>2, <2>1 DEF Never
  <1> HIDE DEF since
  <1>4. \A i \in Newest(n) : i \in 1 .. n
    BY SendableEvents
  <1>5. \A i \in Changes(n, since) : i \in 1 .. n
    BY SendableEvents
  <1>6. first \subseteq Newest(n) /\ then \subseteq Changes(n, since)
    BY DEF filter_new_snapshots, Fresh
  <1>7. queue \subseteq Sendable(n, since)
    BY <1>6 DEF Sendable, Events
  <1>8. queue \in SUBSET [type : {"MerakiConfigSnapshot", "MerakiConfigChange"}, row : Nat]
    <2>1. \A i \in first : i \in Nat
      BY <1>2, <1>4, <1>6
    <2>2. \A i \in then : i \in Nat
      BY <1>2, <1>5, <1>6
    <2>3. QED
      BY <2>1, <2>2 DEF Events
  <1>9. ASSUME NEW i \in Newest(n)
        PROVE  Snapshot(i) \in queue \/ Mirrored(i, nr.latest)
    <2>1. CASE i \in first
      BY <2>1 DEF Events, Snapshot
    <2>2. CASE i \notin first
      <3>1. Mirrored(i, latest)
        BY <2>2 DEF filter_new_snapshots, Mirrored
      <3>2. latest # <<>>
        BY <3>1 DEF Mirrored
      <3>3. QED
        BY <3>1, <3>2
    <2>3. QED
      BY <2>1, <2>2
  <1>10. ASSUME NEW i \in Changes(n, since)
         PROVE  Change(i) \in queue \/ change_id(i) \in Ids(nr.changes)
    <2>1. CASE i \in then
      BY <2>1 DEF Events, Change
    <2>2. CASE i \notin then
      BY <2>2 DEF Fresh, Held
    <2>3. QED
      BY <2>1, <2>2
  <1>11. ASSUME key /\ ~h, NEW i \in nr.changes
         PROVE  Change(i) \notin queue
    <2>1. change_id(i) \in held
      BY <1>11 DEF Held, Ids
    <2>2. i \notin then
      BY <2>1 DEF Fresh
    <2>3. QED
      BY <2>2 DEF Events, Change
  <1> HIDE DEF queue
  <1>12. push' \in Pushes
    BY <1>1, <1>2, <1>3, <1>8 DEF Pushes
  <1>13. /\ push'.at = "push" /\ push'.copied = n /\ push'.since = since
         /\ push'.queue = queue /\ (push'.looked <=> key /\ ~h)
    BY <1>1
  <1>14. nr'.stamp \in Int /\ nr'.changes \subseteq 1 .. n /\ nr'.twice = {}
    BY <1>1, <1>2 DEF InvOf
  <1>15. n <= n
    BY <1>2
  <1> HIDE DEF n
  <1>16. InvOf(push', nr')
    BY <1>1, <1>7, <1>9, <1>10, <1>11, <1>12, <1>13, <1>14, <1>15 DEF InvOf, n
  <1>17. QED
    BY <1>1, <1>2, <1>16, SameHistory

\* The run ends well.
LEMMA FinishDelivers ==
    ASSUME HistoryType, IngestInv, Finish, UNCHANGED historyVars
    PROVE  IngestInv'
  <1>1. /\ push.at = "push" /\ push.queue = {}
        /\ marker' = now /\ nr' = nr /\ push' = [push EXCEPT !.at = "done"]
    BY DEF Finish
  <1>2. InvOf(push, nr) /\ marker' \in Int
    BY <1>1, SameInv DEF HistoryType
  <1>3. InvOf(push', nr')
    BY <1>1, <1>2 DEF InvOf, Pushes
  <1>4. QED
    BY <1>2, <1>3, SameHistory

\* delete_old_config_events.py empties New Relic of some types of events.
LEMMA PurgeDelivers ==
    ASSUME HistoryType, IngestInv, NEW types, Purge(types), UNCHANGED historyVars
    PROVE  IngestInv'
  <1>1. /\ nr'.stamp \in {nr.stamp, Never} /\ nr'.changes \in {nr.changes, {}}
        /\ nr'.twice \in {nr.twice, {}}
        /\ marker' = marker /\ push' = [push EXCEPT !.purged = TRUE]
    BY DEF Purge, EmptyNr
  <1>2. InvOf(push, nr) /\ marker' \in Int
    BY <1>1, SameInv
  <1>3. /\ push' \in Pushes /\ push'.purged /\ push'.copied = push.copied
        /\ push'.since = push.since /\ push'.queue = push.queue /\ push'.at = push.at
        /\ push'.looked = push.looked
    BY <1>1, <1>2 DEF InvOf, Pushes
  <1>4. nr'.stamp \in Int /\ nr'.changes \subseteq nr.changes /\ nr'.twice = {}
    BY <1>1, <1>2 DEF InvOf, Never
  <1>5. InvOf(push', nr')
    BY <1>2, <1>3, <1>4 DEF InvOf
  <1>6. QED
    BY <1>2, <1>5, SameHistory

-----------------------------------------------------------------------------
\* New Relic takes the first events of the queue.
LEMMA TakenDelivers ==
    ASSUME HistoryType, InvOf(push, nr), push.at = "push",
           NEW rest, rest = [push EXCEPT !.queue = push.queue \ Batch]
    PROVE  InvOf(rest, Taken)
  <1> DEFINE snapshots == Sent("MerakiConfigSnapshot")
             changes == Sent("MerakiConfigChange")
             shown == {Facet(obs[i].key) : i \in snapshots}
             Newer(x) == obs[CHOOSE i \in snapshots : Facet(obs[i].key) = x].hash
             n == push.copied
  <1>1. /\ Taken.latest = [x \in shown \cup DOMAIN nr.latest |->
                            IF x \in shown THEN Newer(x) ELSE nr.latest[x]]
        /\ Taken.stamp = IF snapshots = {} THEN nr.stamp ELSE now
        /\ Taken.changes = nr.changes \cup changes
        /\ Taken.twice = IF push.looked THEN nr.twice \cup (nr.changes \cap changes) ELSE nr.twice
    BY DEF Taken
  <1>2. /\ push \in Pushes /\ n \in 0 .. Len(obs) /\ Len(obs) \in Nat
        /\ push.queue \subseteq Sendable(n, push.since)
    BY DEF InvOf, HistoryType, Pushes
  <1>3. /\ rest \in Pushes /\ rest.at = push.at /\ rest.copied = n /\ rest.since = push.since
        /\ rest.looked = push.looked /\ rest.purged = push.purged
        /\ rest.queue = push.queue \ Batch
    BY <1>2 DEF Pushes
  <1>4. Batch \subseteq push.queue
    BY DEF Batch
  <1>5. \A i : i \in snapshots <=> Snapshot(i) \in Batch
    <2>1. ASSUME NEW i, Snapshot(i) \in Batch
          PROVE  i \in snapshots
      <3>1. Snapshot(i).type = "MerakiConfigSnapshot" /\ Snapshot(i).row = i
        BY DEF Snapshot
      <3>2. QED
        BY <2>1, <3>1 DEF Sent
    <2>2. ASSUME NEW i \in snapshots
          PROVE  Snapshot(i) \in Batch
      <3>1. PICK e \in Batch : e.type = "MerakiConfigSnapshot" /\ e.row = i
        BY DEF Sent
      <3>2. e = Snapshot(i)
        BY <1>2, <1>4, <3>1, SendableEvents DEF Snapshot, Change
      <3>3. QED
        BY <3>1, <3>2
    <2>3. QED
      BY <2>1, <2>2
  <1>6. \A i : i \in changes <=> Change(i) \in Batch
    <2>1. ASSUME NEW i, Change(i) \in Batch
          PROVE  i \in changes
      <3>1. Change(i).type = "MerakiConfigChange" /\ Change(i).row = i
        BY DEF Change
      <3>2. QED
        BY <2>1, <3>1 DEF Sent
    <2>2. ASSUME NEW i \in changes
          PROVE  Change(i) \in Batch
      <3>1. PICK e \in Batch : e.type = "MerakiConfigChange" /\ e.row = i
        BY DEF Sent
      <3>2. e = Change(i)
        BY <1>2, <1>4, <3>1, SendableEvents DEF Snapshot, Change
      <3>3. QED
        BY <3>1, <3>2
    <2>3. QED
      BY <2>1, <2>2
  <1> HIDE DEF snapshots, changes, n
  <1>7. snapshots \subseteq Newest(n) /\ changes \subseteq Changes(n, push.since)
    BY <1>2, <1>4, <1>5, <1>6, SendableEvents
  <1>8. Taken.changes \subseteq 1 .. Len(obs) /\ Taken.stamp \in Int
    <2>1. \A i \in changes : i \in 1 .. n
      BY <1>7, SendableEvents
    <2>2. \A i \in changes : i \in 1 .. Len(obs)
      BY <1>2, <2>1
    <2>3. nr.changes \subseteq 1 .. Len(obs) /\ nr.stamp \in Int /\ now \in Int
      BY DEF InvOf, HistoryType
    <2>4. QED
      BY <1>1, <2>2, <2>3
  <1>9. Taken.twice = {}
    <2>1. push.looked => nr.changes \cap changes = {}
      BY <1>4, <1>6 DEF InvOf
    <2>2. nr.twice = {}
      BY DEF InvOf
    <2>3. QED
      BY <1>1, <2>1, <2>2
  <1>10. ASSUME push.looked, NEW i \in Taken.changes
         PROVE  Change(i) \notin rest.queue
    BY <1>1, <1>3, <1>6, <1>10 DEF InvOf
  <1>11. ASSUME NEW i \in Newest(n), Snapshot(i) \in push.queue \/ Mirrored(i, nr.latest)
         PROVE  Snapshot(i) \in rest.queue \/ Mirrored(i, Taken.latest)
    <2> DEFINE x == Facet(obs[i].key)
    <2>1. DOMAIN Taken.latest = shown \cup DOMAIN nr.latest
          /\ (x \in shown => Taken.latest[x] = Newer(x))
          /\ (x \in DOMAIN nr.latest /\ x \notin shown => Taken.latest[x] = nr.latest[x])
      BY <1>1
    <2>2. CASE x \in shown
      <3>1. PICK j \in snapshots : Facet(obs[j].key) = x
        BY <2>2
      <3> DEFINE c == CHOOSE l \in snapshots : Facet(obs[l].key) = x
      <3>2. c \in snapshots /\ Facet(obs[c].key) = x
        BY <3>1
      <3> HIDE DEF c
      <3>3. c = i
        BY <1>2, <1>7, <3>2, NewestIsOne
      <3>4. Newer(x) = obs[c].hash
        BY DEF c
      <3>5. QED
        BY <2>1, <2>2, <3>3, <3>4 DEF Mirrored
    <2>3. CASE x \notin shown
      <3>1. i \notin snapshots
        BY <2>3
      <3>2. CASE Snapshot(i) \in push.queue
        BY <1>3, <1>5, <3>1, <3>2
      <3>3. CASE Mirrored(i, nr.latest)
        BY <2>1, <2>3, <3>3 DEF Mirrored
      <3>4. QED
        BY <1>11, <3>2, <3>3
    <2>4. QED
      BY <2>2, <2>3
  <1>12. ASSUME NEW i \in Changes(n, push.since),
                Change(i) \in push.queue \/ change_id(i) \in Ids(nr.changes)
         PROVE  Change(i) \in rest.queue \/ change_id(i) \in Ids(Taken.changes)
    BY <1>1, <1>3, <1>6, <1>12 DEF Ids
  <1>13. QED
    BY <1>2, <1>3, <1>8, <1>9, <1>10, <1>11, <1>12 DEF InvOf, n

\* A batch is accepted.
LEMMA BatchDelivers ==
    ASSUME HistoryType, IngestInv, post_events_batch, UNCHANGED historyVars
    PROVE  IngestInv'
  <1>1. /\ push.at = "push" /\ nr' = Taken /\ marker' = marker
        /\ push' = [push EXCEPT !.queue = push.queue \ Batch]
    BY DEF post_events_batch
  <1>2. InvOf(push, nr) /\ marker' \in Int
    BY <1>1, SameInv
  <1>3. InvOf(push', nr')
    <2>1. PICK rest : rest = [push EXCEPT !.queue = push.queue \ Batch]
      OBVIOUS
    <2>2. InvOf(rest, Taken)
      BY <1>1, <1>2, <2>1, TakenDelivers
    <2>3. QED
      BY <1>1, <2>1, <2>2
  <1>4. QED
    BY <1>2, <1>3, SameHistory

\* A batch is refused, or taken and its answer lost.
LEMMA LostBatchDelivers ==
    ASSUME HistoryType, IngestInv, BatchFails, UNCHANGED historyVars
    PROVE  IngestInv'
  <1>1. /\ push.at = "push" /\ nr' \in {nr, Taken} /\ marker' = marker /\ push' = NoPush
    BY DEF BatchFails
  <1>2. InvOf(push, nr) /\ marker' \in Int
    BY <1>1, SameInv
  <1>3. PICK rest : rest = [push EXCEPT !.queue = push.queue \ Batch]
    OBVIOUS
  <1>4. InvOf(rest, Taken)
    BY <1>1, <1>2, <1>3, TakenDelivers
  <1>5. nr'.stamp \in Int /\ nr'.changes \subseteq 1 .. Len(obs) /\ nr'.twice = {}
    BY <1>1, <1>2, <1>4 DEF InvOf
  <1>6. /\ push' \in Pushes /\ push'.at = "idle" /\ push'.copied = 0 /\ push'.queue = {}
    BY <1>1 DEF NoPush, Pushes, Never
  <1>7. 0 <= Len(obs)
    BY DEF HistoryType
  <1>8. InvOf(push', nr')
    BY <1>5, <1>6, <1>7 DEF InvOf
  <1>9. QED
    BY <1>2, <1>8, SameHistory

\* A push begins with nothing sent.
LEMMA IngestStarts == Init => IngestInv
  <1> SUFFICES ASSUME Init
               PROVE  IngestInv
    OBVIOUS
  <1>1. obs = <<>> /\ push = NoPush /\ marker = Never /\ nr = EmptyNr
    BY DEF Init, HistoryInit, IngestInit
  <1>2. /\ push \in Pushes /\ push.at = "idle" /\ push.copied = 0 /\ push.queue = {}
    BY <1>1 DEF NoPush, Pushes, Never
  <1>3. nr.stamp \in Int /\ nr.changes = {} /\ nr.twice = {} /\ marker \in Int
    BY <1>1 DEF EmptyNr, Never
  <1>4. Len(obs) = 0
    BY <1>1
  <1>5. InvOf(push, nr)
    BY <1>2, <1>3, <1>4 DEF InvOf
  <1>6. QED
    BY <1>3, <1>5, SameInv

\* Every step of the readers keeps the invariant of the pushes.
LEMMA IngestSteps ==
    ASSUME HistoryType, IngestInv, [Next]_vars
    PROVE  IngestInv'
  <1>1. HistoryType' /\ Grows
    BY HistorySteps
  <1>2. CASE UNCHANGED ingestVars
    BY <1>1, <1>2, IngestWaits
  <1>3. CASE Ingest /\ UNCHANGED historyVars
    <2>1. CASE \E override \in {Never} \cup {s \in Overrides : s <= now},
                  key, f, g, h \in BOOLEAN : Start(override, key, f, g, h)
      BY <1>3, <2>1, StartDelivers
    <2>2. CASE post_events_batch
      BY <1>3, <2>2, BatchDelivers
    <2>3. CASE BatchFails
      BY <1>3, <2>3, LostBatchDelivers
    <2>4. CASE Finish
      BY <1>3, <2>4, FinishDelivers
    <2>5. CASE \E types \in (SUBSET EventTypes) \ {{}} : Purge(types)
      BY <1>3, <2>5, PurgeDelivers
    <2>6. QED
      BY <1>3, <2>1, <2>2, <2>3, <2>4, <2>5 DEF Ingest
  <1>4. QED
    BY <1>2, <1>3 DEF Next, vars

\* The invariant of the pushes holds always.
LEMMA IngestInvariant == Spec => [](HistoryType /\ IngestInv)
  <1>1. Init => HistoryType /\ IngestInv
    BY HistoryStarts, IngestStarts
  <1>2. HistoryType /\ IngestInv /\ [Next]_vars => HistoryType' /\ IngestInv'
    BY HistorySteps, IngestSteps
  <1>3. QED
    BY <1>1, <1>2, PTL DEF Spec

\* ChangesSentOnce: a run of config_ingest.py that looked up the changes in New
\* Relic does not send one that is there, although answers are lost, runs fail
\* half-way and New Relic is emptied, for every length of a batch.
THEOREM SentOnce == Spec => []ChangesSentOnce
  <1>1. HistoryType /\ IngestInv => ChangesSentOnce
    BY DEF IngestInv, SentInv, ChangesSentOnce
  <1>2. QED
    BY <1>1, IngestInvariant, PTL

\* A change of a copy is one that build_change_events finds.
LEMMA ChangesFound ==
    ASSUME HistoryType, NEW n \in 0 .. Len(obs), NEW since,
           NEW i \in ChangesOf(n), seconds[i] > since
    PROVE  i \in Changes(n, since)
  <1>1. PICK j \in 1 .. i - 1 :
           /\ obs[j].key = obs[i].key /\ obs[j].hash # obs[i].hash
           /\ \A x \in j + 1 .. i - 1 : obs[x].key # obs[i].key
    BY DEF ChangesOf
  <1>2. i \in 1 .. n /\ i \in Nat /\ j \in Nat
    BY DEF ChangesOf, HistoryType
  <1> DEFINE older == {x \in 1 .. i - 1 : obs[x].key = obs[i].key}
  <1>3. j \in older
    BY <1>1
  <1>4. ASSUME NEW x \in older
        PROVE  x \in Nat /\ x <= j
    BY <1>1, <1>2
  <1>5. Max(older) = j
    BY <1>3, <1>4, MaxIsUnique
  <1>6. j \in Prior(i)
    BY <1>3, <1>5 DEF Prior
  <1>7. QED
    BY <1>1, <1>2, <1>6 DEF Changes

\* PushDelivers: a run of config_ingest.py that ends well leaves New Relic with
\* the newest payload of each endpoint of its copy, and with every change
\* since the time it began at, whatever runs before it left undone.
THEOREM Delivers == Spec => []PushDelivers
  <1>1. ASSUME HistoryType, IngestInv, push.at = "done", ~push.purged
        PROVE  MirrorsLatest /\ ChangesArrived
    <2>1. push.copied \in 0 .. Len(obs) /\ push.queue = {}
      BY <1>1 DEF IngestInv, IngestType, DeliveryInv, Pushes, HistoryType
    <2>2. \A i \in Newest(push.copied) : Mirrored(i, nr.latest)
      BY <1>1, <2>1 DEF IngestInv, DeliveryInv
    <2>3. MirrorsLatest
      BY <2>2 DEF MirrorsLatest, Newest, Mirrored
    <2>4. \A i \in Changes(push.copied, push.since) : change_id(i) \in Held
      BY <1>1, <2>1 DEF IngestInv, DeliveryInv
    <2>5. ChangesArrived
      BY <1>1, <2>1, <2>4, ChangesFound DEF ChangesArrived
    <2>6. QED
      BY <2>3, <2>5
  <1>2. HistoryType /\ IngestInv => PushDelivers
    BY <1>1 DEF PushDelivers
  <1>3. QED
    BY <1>2, IngestInvariant, PTL
=============================================================================
