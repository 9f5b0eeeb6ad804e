-------------------------- MODULE ConfigStoreProofs --------------------------
(***************************************************************************)
(* What one insertion does to the observation table, for every table and   *)
(* every row: the lemmas that the proofs about the sweeps                  *)
(* (ConfigSweepsProofs) and about the targeted pulls (TargetedPullsProofs) *)
(* share.                                                                  *)
(***************************************************************************)
EXTENDS ConfigStore, TLAPS

\* insert_observation_if_changed leaves a table of rows.
LEMMA InsertType ==
    ASSUME NEW o \in Seq(Row), NEW row \in Row
    PROVE  insert_observation_if_changed(o, row) \in Seq(Row)
BY DEF insert_observation_if_changed

\* What insert_observation_if_changed returns: the rows there were keep
\* their positions, and at most one row is added, at the end.
LEMMA InsertShape ==
    ASSUME NEW o \in Seq(Row), NEW row \in Row,
           NEW p, p = insert_observation_if_changed(o, row)
    PROVE  /\ Len(p) \in Nat /\ Len(o) \in Nat
           /\ DOMAIN o = 1 .. Len(o) /\ DOMAIN p = 1 .. Len(p)
           /\ Len(p) = Len(o) \/ Len(p) = Len(o) + 1
           /\ \A i \in DOMAIN o : i \in DOMAIN p /\ p[i] = o[i]
           /\ Len(p) = Len(o) + 1 => p[Len(p)] = row
           /\ Len(p) = Len(o) => p = o
<1>1. CASE p = o
  BY <1>1
<1>2. CASE p = Append(o, row)
  BY <1>2
<1>3. QED
  BY <1>1, <1>2 DEF insert_observation_if_changed

\* The same without lengths: the rows there were stay, whatever is added is the
\* row, and what stands before a row was there.
LEMMA InsertRows ==
    ASSUME NEW o \in Seq(Row), NEW row \in Row,
           NEW p, p = insert_observation_if_changed(o, row)
    PROVE  /\ \A i \in DOMAIN o : i \in DOMAIN p /\ p[i] = o[i]
           /\ \A i \in DOMAIN p : i \notin DOMAIN o => p[i] = row
           /\ \A i \in DOMAIN p : \A j \in 1 .. i - 1 : j \in DOMAIN o
<1>1. /\ Len(p) \in Nat /\ Len(o) \in Nat
      /\ DOMAIN o = 1 .. Len(o) /\ DOMAIN p = 1 .. Len(p)
      /\ \A i \in DOMAIN o : i \in DOMAIN p /\ p[i] = o[i]
  BY InsertShape
<1>2. CASE Len(p) = Len(o)
  BY <1>1, <1>2
<1>3. CASE Len(p) = Len(o) + 1
  <2>1. p[Len(p)] = row
    BY <1>3, InsertShape
  <2>2. \A i \in 1 .. Len(p) : i \in 1 .. Len(o) \/ i = Len(p)
    BY <1>1, <1>3
  <2>3. QED
    BY <1>1, <1>3, <2>1, <2>2
<1>4. QED
  BY <1>2, <1>3, InsertShape

\* The row before a position does not depend on what is appended later.
LEMMA RepeatsPreviousStable ==
    ASSUME NEW o \in Seq(Row), NEW row \in Row, NEW i \in DOMAIN o
    PROVE  RepeatsPrevious(insert_observation_if_changed(o, row), i)
             <=> RepeatsPrevious(o, i)
<1> DEFINE p == insert_observation_if_changed(o, row)
<1> HIDE DEF p
<1>1. /\ Len(p) \in Nat /\ Len(o) \in Nat
      /\ DOMAIN o = 1 .. Len(o) /\ DOMAIN p = 1 .. Len(p)
      /\ Len(p) = Len(o) \/ Len(p) = Len(o) + 1
      /\ \A j \in DOMAIN o : j \in DOMAIN p /\ p[j] = o[j]
  BY InsertShape DEF p
<1>2. RowsUpTo(p, p[i].key, i - 1) = RowsUpTo(o, o[i].key, i - 1)
  <2>1. p[i] = o[i] /\ i \in 1 .. Len(o)
    BY <1>1
  <2>2. ASSUME NEW j \in 1 .. Len(p), j <= i - 1
        PROVE  j \in 1 .. Len(o)
    <3>1. Len(o) \in Nat /\ Len(p) \in Nat /\ i \in 1 .. Len(o)
      BY <1>1, <2>1
    <3>2. QED
      BY <2>2, <3>1
  <2>3. \A j \in DOMAIN o : p[j] = o[j]
    BY <1>1
  <2>4. QED
    BY <1>1, <2>1, <2>2, <2>3 DEF RowsUpTo
<1>3. \A j \in RowsUpTo(o, o[i].key, i - 1) : j \in DOMAIN o /\ j \in DOMAIN p
  BY <1>1 DEF RowsUpTo
<1>4. RepeatsPrevious(p, i) <=> RepeatsPrevious(o, i)
  BY <1>1, <1>2, <1>3 DEF RepeatsPrevious, IsLatestUpTo
<1>5. QED
  BY <1>4 DEF p

\* A row that is added repeats the row before it exactly when
\* get_latest_observation found the same hash.
LEMMA RepeatsPreviousNew ==
    ASSUME NEW o \in Seq(Row), NEW row \in Row,
           NEW p, p = insert_observation_if_changed(o, row),
           Len(p) = Len(o) + 1
    PROVE  RepeatsPrevious(p, Len(p)) <=> LatestHashIs(o, row.key, row.hash)
<1>1. /\ Len(p) \in Nat /\ Len(o) \in Nat
      /\ DOMAIN o = 1 .. Len(o) /\ DOMAIN p = 1 .. Len(p)
      /\ \A j \in DOMAIN o : j \in DOMAIN p /\ p[j] = o[j]
      /\ p[Len(p)] = row
  BY InsertShape
<1>2. Len(p) - 1 = Len(o)
  BY <1>1
<1>3. RowsUpTo(p, row.key, Len(o)) = RowsUpTo(o, row.key, Len(o))
  BY <1>1 DEF RowsUpTo
<1>4. \A j : IsLatestUpTo(p, row.key, Len(o), j) <=> IsLatestUpTo(o, row.key, Len(o), j)
  BY <1>3 DEF IsLatestUpTo
<1>5. \A j : IsLatestUpTo(o, row.key, Len(o), j) => j \in DOMAIN o
  BY DEF IsLatestUpTo, RowsUpTo
<1>6. QED
  BY <1>1, <1>2, <1>4, <1>5 DEF RepeatsPrevious, LatestHashIs

\* insert_observation_if_changed keeps the history free of rows that record
\* no change.
LEMMA InsertRecordsChanges ==
    ASSUME NEW o \in Seq(Row), NEW row \in Row, RowsRecordChanges(o)
    PROVE  RowsRecordChanges(insert_observation_if_changed(o, row))
<1> DEFINE p == insert_observation_if_changed(o, row)
<1>1. SUFFICES ASSUME NEW i \in DOMAIN p,
                      p[i].source \notin ALWAYS_WRITE_SOURCE_EVENTS
               PROVE  ~RepeatsPrevious(p, i)
  BY DEF RowsRecordChanges
<1>2. CASE i \in DOMAIN o
  BY <1>1, <1>2, InsertShape, RepeatsPreviousStable DEF RowsRecordChanges
<1>3. CASE i \notin DOMAIN o
  <2>1. i = Len(p) /\ Len(p) = Len(o) + 1 /\ p[i] = row
    BY <1>3, InsertShape
  <2>2. ~LatestHashIs(o, row.key, row.hash)
    BY <1>1, <2>1 DEF insert_observation_if_changed
  <2>3. QED
    BY <2>1, <2>2, RepeatsPreviousNew
<1>4. QED
  BY <1>2, <1>3

\* insert_observation_if_changed keeps the anti-drift labels right, provided
\* the label of the row agrees with the latest row at the time of the insert.
LEMMA InsertLabelsAgree ==
    ASSUME NEW o \in Seq(Row), NEW row \in Row, DriftLabelsAgree(o),
           row.source = "anti_drift_confirm" => LatestHashIs(o, row.key, row.hash),
           row.source = "anti_drift_discrepancy" => ~LatestHashIs(o, row.key, row.hash)
    PROVE  DriftLabelsAgree(insert_observation_if_changed(o, row))
<1> DEFINE p == insert_observation_if_changed(o, row)
<1>1. SUFFICES ASSUME NEW i \in DOMAIN p
               PROVE  /\ p[i].source = "anti_drift_confirm" => RepeatsPrevious(p, i)
                      /\ p[i].source = "anti_drift_discrepancy" => ~RepeatsPrevious(p, i)
  BY DEF DriftLabelsAgree
<1>2. CASE i \in DOMAIN o
  BY <1>2, InsertShape, RepeatsPreviousStable DEF DriftLabelsAgree
<1>3. CASE i \notin DOMAIN o
  <2>1. i = Len(p) /\ Len(p) = Len(o) + 1 /\ p[i] = row
    BY <1>3, InsertShape
  <2>2. RepeatsPrevious(p, i) <=> LatestHashIs(o, row.key, row.hash)
    BY <2>1, RepeatsPreviousNew
  <2>3. QED
    BY <2>1, <2>2
<1>4. QED
  BY <1>2, <1>3

\* After the call the key of the row is observed, written or not.
LEMMA InsertObserves ==
    ASSUME NEW o \in Seq(Row), NEW row \in Row,
           NEW p, p = insert_observation_if_changed(o, row)
    PROVE  \E i \in DOMAIN p : p[i].key = row.key
<1>1. CASE p = o /\ LatestHashIs(o, row.key, row.hash)
  BY <1>1 DEF LatestHashIs, IsLatestUpTo, RowsUpTo
<1>2. CASE p = Append(o, row)
  <2>1. Len(o) + 1 \in DOMAIN p /\ p[Len(o) + 1] = row
    BY <1>2
  <2>2. QED
    BY <2>1
<1>3. QED
  BY <1>1, <1>2 DEF insert_observation_if_changed
=============================================================================
