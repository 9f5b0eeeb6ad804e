--------------------------- MODULE MCTargetedPulls ---------------------------
(***************************************************************************)
(* A small instance of TargetedPulls: which jobs a change event and a      *)
(* refresh ask for, and how often the external events happen.              *)
(***************************************************************************)
EXTENDS TargetedPulls, TLC

CONSTANTS k1, k2

MCKeys == {k1, k2}

\* All keys, or (for events) none: a page that is not mapped.
WideScope == {MCKeys}
WideAreaSets == {MCKeys, {}}

Times(start, post, crash, change, null, miss, fault) ==
    [e \in Events |-> CASE e = "start" -> start [] e = "post" -> post
                        [] e = "crash" -> crash [] e = "change" -> change
                        [] e = "null" -> null [] e = "miss" -> miss
                        [] e = "fault" -> fault]

\* Everything happens, with one change; two changes beside a refresh and a
\* crash; three changes and the poller alone; a change and one with a NULL.
BudgetsPulls == {Times(2, 2, 1, 1, 0, 1, 1), Times(2, 1, 1, 2, 0, 0, 0),
                 Times(1, 0, 0, 3, 0, 0, 0), Times(1, 0, 0, 1, 1, 0, 0)}

Symmetry == Permutations(Keys) \cup Permutations(Hashes) \cup Permutations(Slots)
=============================================================================
