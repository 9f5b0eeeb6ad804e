--------------------------- MODULE MCConfigSweeps ----------------------------
(***************************************************************************)
(* Small instances of ConfigSweeps: how often each external event happens, *)
(* and the symmetry of the model values.                                   *)
(***************************************************************************)
EXTENDS ConfigSweeps, TLC

Times(post, crash, change, miss, fault) ==
    [e \in Events |-> CASE e = "post" -> post [] e = "crash" -> crash
                        [] e = "change" -> change [] e = "miss" -> miss
                        [] e = "fault" -> fault]

BudgetSafety == Times(2, 1, 2, 1, 1)
BudgetEnd == Times(2, 1, 0, 1, 0)

Symmetry == Permutations(Keys) \cup Permutations(Hashes) \cup Permutations(Tasks)
=============================================================================
