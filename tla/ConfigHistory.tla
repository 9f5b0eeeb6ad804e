----------------------------- MODULE ConfigHistory -----------------------------
(***************************************************************************)
(* The observation table as its readers see it: rows with the second of    *)
(* their observed_at, and the queries of store.py over them.  Two rows     *)
(* never have the same observed_at, whose microseconds order them as they  *)
(* were inserted; bounds of a query are written in seconds, with a Z that  *)
(* sorts behind every fraction, so a bound includes its whole second.      *)
(***************************************************************************)
EXTENDS ConfigStore, FiniteSetsExt

CONSTANTS redacted(_, _), (* what is stored of an answer for an area: redact *)
          Answers,  (* what Meraki may answer, for each config area      *)
          Limit,    (* rows of a page and of a timeline                  *)
          Profiles  (* the bounds of a behaviour: which keys are observed
                       by what, how many rows, seconds, templates and pushes there may be,
                       and whether a client reads pages                   *)

\* sub_key IS NULL.
NoSub == "no sub key"

ASSUME HistoryAssumption ==
    /\ \A k \in Keys : k.area \in DOMAIN Answers
    /\ Hashes = UNION {{redacted(a, area) : a \in Answers[area]} : area \in DOMAIN Answers}
    /\ Profiles \subseteq [keys : SUBSET Keys, sources : SUBSET SourceEvents, rows : Nat,
                           seconds : Nat, pages : BOOLEAN, templates : Nat, pushes : Nat]
    /\ Limit \in Nat \ {0}

VARIABLES obs,      \* config_observations
          seconds,  \* the second of each row
          now,      \* the clock, in seconds
          bounds    \* the bounds of this behaviour

historyVars == <<obs, seconds, now, bounds>>

HistoryInit == obs = <<>> /\ seconds = <<>> /\ now = 0 /\ bounds \in Profiles

\* A sweep ("baseline") or a refresh stores the answer to a call.
Observe(k, answer, source) ==
    /\ Len(obs) < bounds.rows
    /\ obs' = insert_observation_if_changed(obs,
                  [key |-> k, hash |-> redacted(answer, k.area), source |-> source,
                   run |-> NoRun, event |-> NoEvent])
    /\ obs' # obs
    /\ seconds' = Append(seconds, now)
    /\ UNCHANGED <<now, bounds>>

Tick ==
    /\ now < bounds.seconds
    /\ now' = now + 1
    /\ UNCHANGED <<obs, seconds, bounds>>

Collect ==
    \/ \E k \in bounds.keys, source \in bounds.sources :
          \E answer \in Answers[k.area] : Observe(k, answer, source)
    \/ Tick

-----------------------------------------------------------------------------
Entity(k) == <<k.type, k.entity>>
Entities == {Entity(k) : k \in bounds.keys}
Observed(type) == {e \in {Entity(obs[i].key) : i \in DOMAIN obs} : e[1] = type}

AnyArea == "any area"
NoCursor == 0

\* A slip: the cursor's own row belongs to the next page.
BeforeOrAt(i, cursor) == cursor = NoCursor \/ i <= cursor

Before(i, cursor) == cursor = NoCursor \/ i < cursor

\* The newest rows of e before the cursor, limit of them at most.  Asking for
\* an area asks for rows without a sub key.
get_observation_history(e, area, limit, cursor) ==
    LET asked == {i \in DOMAIN obs :
                    /\ Entity(obs[i].key) = e
                    /\ area # AnyArea => obs[i].key.area = area /\ obs[i].key.sub = NoSub
                    /\ Before(i, cursor)}
    IN {i \in asked : Cardinality({j \in asked : j > i}) < limit}

\* A slip: ROW_NUMBER without the CASE: the newest row, whenever it is from.
RankedNewest(k, t) == Max({i \in DOMAIN obs : obs[i].key = k})

\* ROW_NUMBER() = 1: rows up to t come before the others, the newest first.
Ranked(k, t) ==
    LET rows == {i \in DOMAIN obs : obs[i].key = k}
        early == {i \in rows : seconds[i] <= t}
    IN IF early # {} THEN Max(early) ELSE Max(rows)

\* from_hash of a key that has no row yet.
NoHash == [digest |-> "none"]

get_observations_in_window(from, to) ==
    LET known == {obs[i].key : i \in DOMAIN obs}
        Snap(t) == [k \in {x \in known : seconds[Ranked(x, t)] <= t} |-> obs[Ranked(k, t)].hash]
        FromHash(k) == IF k \in DOMAIN Snap(from) THEN Snap(from)[k] ELSE NoHash
    IN {p \in {[key |-> k, from |-> FromHash(k), to |-> Snap(to)[k]] : k \in DOMAIN Snap(to)} :
          p.from # p.to}

\* The row before i of its key, as far as rows reach back.
Previous(rows, i) ==
    LET older == {j \in rows : j < i /\ obs[j].key = obs[i].key}
    IN IF older = {} THEN {} ELSE {Max(older)}

\* GET .../timeline: the entries, and whether each shows a difference.
get_entity_timeline(e) ==
    LET rows == get_observation_history(e, AnyArea, Limit, NoCursor)
    IN {[row |-> i, has_diff |-> \E j \in Previous(rows, i) : obs[j].hash # obs[i].hash] : i \in rows}

-----------------------------------------------------------------------------
\* The configuration of k at the end of second t.
HashAt(k, t) ==
    LET rows == {i \in DOMAIN obs : obs[i].key = k /\ seconds[i] <= t}
    IN IF rows = {} THEN NoHash ELSE obs[Max(rows)].hash

\* The difference of two moments, replayed on the first, gives the second; and
\* a timeline marks an entry exactly when it differs from the one before it,
\* as far as the timeline reaches back.
HistoryReplays ==
    /\ \A to \in 0 .. now : \A from \in 0 .. to :
          LET window == get_observations_in_window(from, to)
          IN \A k \in Keys :
               LET pairs == {p \in window : p.key = k}
               IN IF HashAt(k, from) = HashAt(k, to) THEN pairs = {}
                  ELSE \E p \in pairs : p.from = HashAt(k, from) /\ p.to = HashAt(k, to)
    /\ \A e \in Entities :
          LET entries == get_entity_timeline(e)
              reach == Min({entry.row : entry \in entries})
          IN \A entry \in entries :
               LET i == entry.row
                   before == {j \in reach .. i - 1 : obs[j].key = obs[i].key}
               IN entry.has_diff <=> (before # {} /\ obs[Max(before)].hash # obs[i].hash)

\* get_observation_history: "Optional filter by config_area."  It is a filter
\* by sub_key as well, and every area of an SSID has one.
HistoryOfAnArea ==
    \A i \in DOMAIN obs :
        get_observation_history(Entity(obs[i].key), obs[i].key.area, Limit, NoCursor) # {}
=============================================================================
