--------------------------- MODULE SweepLifecycle ----------------------------
(***************************************************************************)
(* What the sweeps of one kind promise of their rows in config_sweep_runs: *)
(* a sweep is queued, then running, then complete or failed; a finished    *)
(* sweep never changes again; and a new sweep of the kind is created only  *)
(* when none is queued or running.  Nothing is said of tasks, restarts or  *)
(* what a sweep writes.                                                    *)
(***************************************************************************)
EXTENDS Integers

CONSTANT RunIds
VARIABLE status

Active(r) == status[r] \in {"queued", "running"}

Init == status = [r \in RunIds |-> "none"]

\* A row is created with an id above every earlier one, none being active.
Queue(r) ==
    /\ \A s \in RunIds : ~Active(s)
    /\ \A s \in RunIds : s >= r => status[s] = "none"
    /\ status' = [status EXCEPT ![r] = "queued"]

Start(r) ==
    /\ status[r] = "queued"
    /\ status' = [status EXCEPT ![r] = "running"]

End(r) ==
    /\ status[r] = "running"
    /\ \E s \in {"complete", "failed"} : status' = [status EXCEPT ![r] = s]

Next == \E r \in RunIds : Queue(r) \/ Start(r) \/ End(r)

Spec == Init /\ [][Next]_status
=============================================================================
