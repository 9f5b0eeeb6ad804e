-------------------------------- MODULE Listing --------------------------------
(***************************************************************************)
(* The list comprehensions and sorts of the code, as functions of a place  *)
(* in the result.  SelectSeq and SortSeq compute the same lists, but the   *)
(* proof system knows neither.                                             *)
(***************************************************************************)
EXTENDS Naturals, FiniteSets, Functions

\* The elements of a finite set in an order: a set of pairs.
InOrder(S, order) ==
    [k \in 1 .. Cardinality(S) |->
        CHOOSE x \in S : Cardinality({y \in S : <<y, x>> \in order}) = k - 1]

\* The elements of the sequence s that are in T, in their order.
Filter(s, T) ==
    [k \in 1 .. Cardinality({i \in DOMAIN s : s[i] \in T}) |->
        s[CHOOSE i \in DOMAIN s : s[i] \in T /\ Cardinality({j \in 1 .. i : s[j] \in T}) = k]]

\* A list of lists is read list by list: the places in it, and their order.
Places(lists) == UNION {{<<i, j>> : j \in DOMAIN lists[i]} : i \in DOMAIN lists}

Before(p, q) == p[1] < q[1] \/ (p[1] = q[1] /\ p[2] < q[2])
================================================================================
