---------------------------- MODULE MCTopologyPages -----------------------------
(***************************************************************************)
(* A small instance of TopologyPages: the loop, at most one request, one   *)
(* page.                                                                   *)
(***************************************************************************)
EXTENDS TopologyPages

CONSTANTS p1, trigger,
          MaxEvents  (* bound: losses, lost connections, requests and slow fetches *)

OnePage == {p1}
OneTrigger == {trigger}

\* None of what MaxEvents bounds is under fairness.
FewEvents ==
    LET requested == {p \in Triggers : polls[p].pc # "idle"}
        slow == {c \in Pages : screens[c].fetch # "done" /\ version > 0}
    IN lossy + drops + Cardinality(requested) + Cardinality(slow) <= MaxEvents

BoundedSpec ==
    PagesInit /\ [][PagesNext /\ FewEvents']_allVars /\ PagesFairness
=============================================================================
