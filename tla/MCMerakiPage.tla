----------------------------- MODULE MCMerakiPage -----------------------------
(***************************************************************************)
(* Two sites; a page over tables that an earlier one may have filled, or   *)
(* two savers and a loader of other pages, with snapshots of two           *)
(* organizations, of none, and one that the schema refuses.                *)
(***************************************************************************)
EXTENDS MerakiPage

CONSTANTS n1, n2, o1, o2

Plain(n, org) == [org |-> org, name |-> n]
MCBroken == {Plain(3, o2)}

Entry(n) == [l2 |-> {n}, l3 |-> {n}]
MCSeeds == {[org |-> o1, selected |-> n1, topology |-> (n1 :> Entry(n1) @@ n2 :> Nothing @@ All :> Nothing)]}
MCSnapshots == {Plain(1, o2), Plain(2, Nothing)} \cup MCSeeds \cup MCBroken

Times(select, button, miss, back, save, reload, other) ==
    [select |-> select, button |-> button, miss |-> miss, back |-> back, save |-> save, reload |-> reload,
     others |-> other]
SelectionsOnly == {Times(3, 0, 0, 0, 0, 0, 0)}
MCBudgets == {Times(3, 1, 0, 0, 0, 0, 0), Times(2, 1, 0, 1, 0, 0, 0), Times(2, 1, 1, 0, 0, 0, 0),
              Times(1, 1, 0, 0, 1, 1, 0), Times(2, 0, 1, 0, 0, 1, 0), Times(0, 0, 0, 0, 0, 0, 1)}
=============================================================================
