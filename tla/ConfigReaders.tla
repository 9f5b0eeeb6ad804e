----------------------------- MODULE ConfigReaders -----------------------------
(***************************************************************************)
(* Who reads the configuration history while it grows: a client that pages *)
(* through it, following next_cursor (routes/config.py), and the script    *)
(* that pushes it to New Relic.                                            *)
(***************************************************************************)
EXTENDS ConfigIngest

VARIABLE pager   \* a client that reads the history of an entity

vars == <<historyVars, ingestVars, pager>>

NoOne == <<"nothing", "nothing">>

ASSUME ReadersAssumption == \A k \in Keys : Entity(k) # NoOne

\* start: the rows at the first page; told: the pages so far, each a set of
\* rows, which the page has newest first.
NoPager == [entity |-> NoOne, start |-> 0, cursor |-> NoCursor, told |-> <<>>]

Init == HistoryInit /\ IngestInit /\ pager = NoPager

\* GET .../history without a cursor, then with the next_cursor of each page.
get_history(e) ==
    LET first == pager.entity = NoOne
        page == get_observation_history(e, AnyArea, Limit, pager.cursor)
    IN /\ bounds.pages
       /\ first \/ (pager.entity = e /\ pager.cursor # NoCursor)
       /\ pager' = [entity |-> e,
                    start |-> IF first THEN Len(obs) ELSE pager.start,
                    cursor |-> IF Cardinality(page) = Limit THEN Min(page) ELSE NoCursor,
                    told |-> Append(pager.told, page)]

Next ==
    \/ Collect /\ UNCHANGED <<ingestVars, pager>>
    \/ Ingest /\ UNCHANGED <<historyVars, pager>>
    \/ \E e \in Entities : get_history(e) /\ UNCHANGED <<historyVars, ingestVars>>

Spec == Init /\ [][Next]_vars

-----------------------------------------------------------------------------
RowsOfEntity(e, n) == {i \in 1 .. n : Entity(obs[i].key) = e}

\* A client that follows the cursors to the end has been told each row that
\* was there when it began, once, newest first, whatever was stored meanwhile.
PagesTellAll ==
    pager.entity # NoOne /\ pager.cursor = NoCursor =>
        /\ UNION {pager.told[n] : n \in DOMAIN pager.told} = RowsOfEntity(pager.entity, pager.start)
        /\ \A m, n \in DOMAIN pager.told : m < n => \A i \in pager.told[m], j \in pager.told[n] : j < i
=============================================================================
