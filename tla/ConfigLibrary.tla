----------------------------- MODULE ConfigLibrary -----------------------------
(***************************************************************************)
(* The other routes of routes/config.py that read the history: the         *)
(* differences of two moments, templates and how networks score against    *)
(* them, comparison and coverage.  Each route reads the database in one    *)
(* go, so a route is an operator over the table; and each has a query of   *)
(* its own for the areas of an entity, which is an operator of its own.    *)
(***************************************************************************)
EXTENDS ConfigReaders, DiffEngine

CONSTANT Secrets  (* the secrets among the answers *)

VARIABLE templates  \* config_templates and config_template_areas

libraryVars == <<vars, templates>>

-----------------------------------------------------------------------------
\* The areas that no template takes.
_TEMPLATE_EXCLUDED_AREAS == {"device_metadata"}

SameArea(i, j) == obs[i].key.area = obs[j].key.area /\ obs[i].key.sub = obs[j].key.sub

\* The rows of an entity that create_template copies: GROUP BY config_area,
\* sub_key HAVING MAX(observed_at), which keeps the newest row of a group.
template_rows(e) ==
    LET selected == {i \in DOMAIN obs : Entity(obs[i].key) = e /\ e[1] \in {"network", "device"}}
    IN {i \in selected : \A j \in selected : SameArea(i, j) => j <= i}

\* POST /templates: a network or a device is promoted.  created is the moment
\* of it, told by the last row before it and by its second.
create_template(e) ==
    /\ Len(templates) < bounds.templates /\ e[1] \in {"network", "device"}
    /\ LET copied == {i \in template_rows(e) : obs[i].key.area \notin _TEMPLATE_EXCLUDED_AREAS}
       IN templates' = Append(templates,
             [source |-> e, live |-> TRUE, created |-> [row |-> Len(obs), second |-> now],
              areas |-> [k \in {obs[i].key : i \in copied} |->
                            obs[CHOOSE i \in copied : obs[i].key = k].hash]])

\* DELETE /templates/{id}, and by ON DELETE CASCADE its areas.
delete_template(t) ==
    /\ templates[t].live
    /\ templates' = [templates EXCEPT ![t] = [@ EXCEPT !.source = NoOne, !.live = FALSE, !.areas = <<>>]]

Library ==
    \/ \E e \in Entities : create_template(e)
    \/ \E t \in DOMAIN templates : delete_template(t)

LibraryInit == Init /\ templates = <<>>

LibraryNext == (Next /\ UNCHANGED templates) \/ (Library /\ UNCHANGED vars)

LibrarySpec == LibraryInit /\ [][LibraryNext]_libraryVars

-----------------------------------------------------------------------------
\* GET /diff/org.
get_org_diff(from, to) ==
    {[key |-> p.key,
      diff |-> compute_diff(IF p.from = NoHash THEN Object(<<>>) ELSE p.from, p.to)] :
        p \in get_observations_in_window(from, to)}

\* key of a, seen in an entity b: the same area and sub key.
Counterpart(k, b) == [k EXCEPT !.type = b[1], !.entity = b[2]]

\* map_a or map_b of a comparison: the newest hash of each key of a network.
compared_map(n) ==
    LET keys == {obs[i].key : i \in {j \in DOMAIN obs : Entity(obs[j].key) = n}}
    IN [k \in keys |-> obs[Max({i \in DOMAIN obs : obs[i].key = k})].hash]

\* GET /compare/networks.
compare_networks(a, b) ==
    LET map_a == compared_map(a)
        map_b == compared_map(b)
        both == {k \in DOMAIN map_a : Counterpart(k, b) \in DOMAIN map_b}
        differences == [k \in both |-> Cardinality(compute_diff(map_a[k], map_b[Counterpart(k, b)]).changes)]
    IN [only_in_a |-> DOMAIN map_a \ both,
        only_in_b |-> {k \in DOMAIN map_b : Counterpart(k, a) \notin DOMAIN map_a},
        differs |-> {k \in both : differences[k] > 0},
        total_changes |-> SumFunction(differences)]

\* Python's round of 100 * n / d: to the nearest, and to the even of two.
Percent(n, d) ==
    LET q == (100 * n) \div d
        r == (100 * n) % d
    IN IF 2 * r > d \/ (2 * r = d /\ q % 2 = 1) THEN q + 1 ELSE q

\* A slip: the query of the score has no HAVING MAX(observed_at).
net_rowsOldest(e) ==
    {i \in DOMAIN obs : Entity(obs[i].key) = e
                        /\ ~\E j \in 1 .. i - 1 : Entity(obs[j].key) = e /\ SameArea(i, j)}

\* The rows that score reads of a network or device: the newest of each group.
net_rows(e) ==
    {i \in DOMAIN obs : Entity(obs[i].key) = e
                        /\ ~\E j \in i + 1 .. Len(obs) : Entity(obs[j].key) = e /\ SameArea(i, j)}

\* A score: the share of the compared fields that are as in the template, and
\* the areas that are missing.
Scored(diffs, missing) ==
    LET changes == MapThenSumSet(LAMBDA k : Cardinality(diffs[k].changes), DOMAIN diffs)
        unchanged == MapThenSumSet(LAMBDA k : diffs[k].unchanged, DOMAIN diffs)
        fields == changes + unchanged
    IN [score_pct |-> IF fields = 0 THEN 100 ELSE Percent(unchanged, fields),
        change_count |-> changes,
        missing_areas |-> {k.area : k \in missing}]

\* The score of e, a network or a device, against the areas of a template.
score(areas, e) ==
    LET rows == net_rows(e)
        there == {k \in DOMAIN areas : \E i \in rows : obs[i].key = Counterpart(k, e)}
        Blob(k) == obs[CHOOSE i \in rows : obs[i].key = Counterpart(k, e)].hash
    IN Scored([k \in there |-> compute_diff(areas[k], Blob(k))], DOMAIN areas \ there)

\* GET /coverage: the networks that lack each area some network has.
get_coverage ==
    LET area_rows == {[area |-> k.area, network |-> Entity(k)] :
                         k \in {obs[i].key : i \in {j \in DOMAIN obs : obs[j].key.type = "network"}}}
    IN [area \in {r.area : r \in area_rows} |->
           Observed("network") \ {r.network : r \in {x \in area_rows : x.area = area}}]

-----------------------------------------------------------------------------
(***************************************************************************)
(* Properties.                                                             *)
(***************************************************************************)
\* No row of the source was stored since the template was made, or none in
\* the second it was made in: a difference of moments knows seconds only.
Untouched(t) ==
    \A i \in templates[t].created.row + 1 .. Len(obs) : Entity(obs[i].key) # templates[t].source
Separable(t) ==
    \A i \in templates[t].created.row + 1 .. Len(obs) :
        Entity(obs[i].key) = templates[t].source => seconds[i] > templates[t].created.second

\* What the source of a template scores against it is what GET /diff/org tells
\* of these areas from the second of the template to now.
ScoreTellsDrift(t) ==
    LET areas == templates[t].areas
        drift == {p \in get_org_diff(templates[t].created.second, now) : p.key \in DOMAIN areas}
    IN score(areas, templates[t].source).change_count
         = MapThenSumSet(LAMBDA p : Cardinality(p.diff.changes), drift)

\* What a network scores against the template is what comparing it with the
\* source tells, and what it lacks is what the coverage tells.
ScoresTellReports(t) ==
    LET areas == templates[t].areas
        a == templates[t].source
    IN \A b \in Observed("network") :
          LET scored == score(areas, b)
              compared == compare_networks(a, b)
          IN /\ scored.change_count = compared.total_changes
             /\ scored.missing_areas = {k.area : k \in compared.only_in_a}
             /\ scored.missing_areas =
                   {k.area : k \in {x \in DOMAIN areas : b \in get_coverage[x.area]}}

\* The reports find the newest row of an area in queries of their own: one
\* frozen when the template was made, one by rank and second, one by group and
\* one without the sub key.  Through later observations of any network they
\* tell the same: the score against the source's own template is its drift,
\* and while the source stays as it was, the scores of the others are what
\* comparison and coverage tell.
ReportsAgree ==
    \A t \in DOMAIN templates : templates[t].live /\ templates[t].source[1] = "network" =>
        /\ Separable(t) => ScoreTellsDrift(t)
        /\ Untouched(t) => ScoresTellReports(t)

\* A table inside an object, the only part of it that is compared.
HasTable(v) == IsObject(v) /\ \E k \in DOMAIN v.fields : is_row_list(v.fields[k])

\* The changes of a difference, those inside rows included.
Leaves(diff) ==
    UNION {IF c.type = "RowChanged" THEN c.fields ELSE {c} : c \in diff.changes}

\* No secret is ever stored; and of two payloads of an area that differ in
\* secrets only, the difference tells that secrets changed, and nothing else.
SecretsShowAsRotations ==
    /\ \A i \in DOMAIN obs : \A x \in Secrets : ~Shows(obs[i].hash, x)
    /\ \A i, j \in DOMAIN obs :
          /\ obs[i].key = obs[j].key /\ obs[i].hash # obs[j].hash
          /\ Blanked(obs[i].hash) = Blanked(obs[j].hash) /\ ~HasTable(obs[i].hash)
          => LET leaves == Leaves(compute_diff(obs[i].hash, obs[j].hash))
             IN leaves # {} /\ \A c \in leaves : c.type = "SecretChanged"

-----------------------------------------------------------------------------
(***************************************************************************)
(* What the documentation says and the code does not do.                   *)
(***************************************************************************)

\* Design of phase 2: "Emit only changed, added, or removed keys".  Beside a
\* table no field of an object is compared, and of two tables one is not.
DifferenceShows ==
    \A i, j \in DOMAIN obs :
        obs[i].key = obs[j].key /\ obs[i].hash # obs[j].hash
            => compute_diff(obs[i].hash, obs[j].hash).changes # {}

\* Design of phase 6: "A network missing a config area that exists in the
\* template contributes 0% for that area".  It is left out of the score.
MissingAreasLowerScores ==
    \A t \in DOMAIN templates : \A b \in Observed("network") :
        score(templates[t].areas, b).missing_areas # {}
            => score(templates[t].areas, b).score_pct < 100
=============================================================================
