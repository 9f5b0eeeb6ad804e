------------------------------- MODULE DiffEngine -------------------------------
(***************************************************************************)
(* diff_engine.py: the comparison of two stored payloads, field by field   *)
(* or row by row.  Changes are a set; a path, an identity or a position    *)
(* tells any two apart.                                                    *)
(***************************************************************************)
EXTENDS Redactor

CONSTANTS FieldOrder, (* the field names, in the order of a canonical object *)
          Suffix      (* the suffix of a field name that _get_identity_key knows *)

\* No identity key: rows are matched by their positions.
ByPosition == "by position"

HasChanged(key, old, new) == [type |-> "FieldChanged", key |-> key, before |-> old, after |-> new]
FieldAdded(key, v) == [type |-> "FieldAdded", key |-> key, value |-> v]
FieldRemoved(key, v) == [type |-> "FieldRemoved", key |-> key, value |-> v]
SecretChanged(key) == [type |-> "SecretChanged", key |-> key]
RowAdded(id, row) == [type |-> "RowAdded", identity |-> id, row |-> row]
RowRemoved(id, row) == [type |-> "RowRemoved", identity |-> id, row |-> row]
RowChanged(id, changes) == [type |-> "RowChanged", identity |-> id, fields |-> changes]

is_secret_key(k) == k = "_hash"

\* A slip: a secret is a field like others.
FieldChangedPlain(key, k, old, new) == HasChanged(key, old, new)

\* The change of a field that is no object on both sides.
FieldChanged(key, k, old, new) ==
    IF is_secret_key(k) THEN SecretChanged(key) ELSE HasChanged(key, old, new)

RECURSIVE object_diff(_, _, _)
object_diff(a, b, prefix) ==
    LET Key(k) == Append(prefix, k)
        both == DOMAIN a \cap DOMAIN b
        nested == {k \in both : IsObject(a[k]) /\ IsObject(b[k])}
        sub == [k \in nested |-> object_diff(a[k].fields, b[k].fields, Key(k))]
        differ == {k \in both \ nested : a[k] # b[k]}
    IN [changes |-> {FieldAdded(Key(k), b[k]) : k \in DOMAIN b \ DOMAIN a}
                    \cup {FieldRemoved(Key(k), a[k]) : k \in DOMAIN a \ DOMAIN b}
                    \cup {FieldChanged(Key(k), k, a[k], b[k]) : k \in differ}
                    \cup UNION {sub[k].changes : k \in nested},
        unchanged |-> Cardinality(both \ (nested \cup differ))
                      + MapThenSumSet(LAMBDA k : sub[k].unchanged, nested)]

FirstOf(names) == FieldOrder[Min({i \in DOMAIN FieldOrder : FieldOrder[i] \in names})]

\* The registry is asked for "items" or for the name of a field, never for a
\* configuration area.
get_identity_key(sample) ==
    LET EndIn(s) == {k \in DOMAIN sample : k \in DOMAIN Suffix /\ Suffix[k] = s}
        found == {s \in {"Id", "id", "number"} : EndIn(s) # {}}
    IN IF found = {} THEN ByPosition
       ELSE FirstOf(EndIn(CHOOSE s \in found : \A t \in found \ {s} :
                             <<s, t>> \in {<<"Id", "id">>, <<"Id", "number">>, <<"id", "number">>}))

\* Rows of one identity: the last one counts; rows without one do not.
RowsById(rows, key) ==
    LET identified == {i \in DOMAIN rows : key \in DOMAIN rows[i].fields}
        ids == {rows[i].fields[key] : i \in identified}
    IN [id \in ids |-> rows[Max({i \in identified : rows[i].fields[key] = id})]]

RowsByPosition(rows) == [p \in {Scalar(i) : i \in DOMAIN rows} |-> rows[p.scalar]]

array_diff(rowsA, rowsB) ==
    LET sample == Head(rowsA \o rowsB \o <<Object(<<>>)>>).fields
        key == get_identity_key(sample)
        Matched(rows) == IF key = ByPosition THEN RowsByPosition(rows) ELSE RowsById(rows, key)
        a == Matched(rowsA)
        b == Matched(rowsB)
        both == DOMAIN a \cap DOMAIN b
        sub == [id \in both |-> object_diff(a[id].fields, b[id].fields, <<>>).changes]
        differ == {id \in both : sub[id] # {}}
    IN [shape |-> "array",
        changes |-> {RowAdded(id, b[id]) : id \in DOMAIN b \ DOMAIN a}
                    \cup {RowRemoved(id, a[id]) : id \in DOMAIN a \ DOMAIN b}
                    \cup {RowChanged(id, sub[id]) : id \in differ},
        unchanged |-> Cardinality(both \ differ)]

is_row_list(v) == IsArray(v) /\ v.items # <<>> /\ IsObject(v.items[1])

\* The first table of {**a, **b}, the fields of a before those b adds; without
\* one, the first field.
TableName(a, b) ==
    LET merged == b @@ a
        Tables(names) == {k \in names : is_row_list(merged[k])}
    IN CASE Tables(DOMAIN a) # {} -> FirstOf(Tables(DOMAIN a))
         [] Tables(DOMAIN a) = {} /\ Tables(DOMAIN b) # {} -> FirstOf(Tables(DOMAIN b))
         [] OTHER -> FirstOf(IF b = <<>> THEN DOMAIN a ELSE DOMAIN b)

RowsOf(f, name) == IF name \in DOMAIN f /\ IsArray(f[name]) THEN f[name].items ELSE <<>>

compute_diff(u, v) ==
    LET a == u.fields
        b == v.fields
        Items(w) == IF IsArray(w) THEN w.items ELSE <<>>
        HasTable(f) == \E k \in DOMAIN f : is_row_list(f[k])
        diff == object_diff(a, b, <<>>)
    IN CASE IsArray(u) \/ IsArray(v) -> array_diff(Items(u), Items(v))
         [] ~(IsArray(u) \/ IsArray(v)) /\ (HasTable(a) \/ HasTable(b)) ->
              array_diff(RowsOf(a, TableName(a, b)), RowsOf(b, TableName(a, b)))
         [] OTHER -> [shape |-> "object", changes |-> diff.changes, unchanged |-> diff.unchanged]
=============================================================================
