---------------------------- MODULE MCDiscovery ----------------------------
EXTENDS Discovery

MCEndpointCounts == [v \in {10, 30} |-> IF v = 10 THEN 3 ELSE 2]
MCPortRanges == [v \in {10} |-> <<3, 3>>]

\* An access point and a switch, on two ports of one switch and one of another.
MCEditDevices == {Ap(1, 1), FloorSw(2)}
MCEditPlaces == {<<FloorSw(1), Port(1)>>, <<FloorSw(1), Port(3)>>, <<FloorSw(2), Port(1)>>}

\* Two lost answers and a fixed network; two edits and no loss.
MCProfiles == {[edits |-> 0, losses |-> 2], [edits |-> 2, losses |-> 0]}
============================================================================
