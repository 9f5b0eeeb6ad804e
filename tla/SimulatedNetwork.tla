-------------------------- MODULE SimulatedNetwork --------------------------
(***************************************************************************)
(* The network that simulator/ keeps in memory: the TopologyState that     *)
(* simulator/main.py fills at the start, that clients roam in              *)
(* (roaming.py) and that the REST API edits (api.py).                      *)
(*                                                                         *)
(* A device, an access point, a wired host or a wireless client is a       *)
(* tuple: its kind and its numbers.  Addresses and names are functions of  *)
(* these, so a row that holds an address holds the tuple.  The handlers    *)
(* and the roaming task run on one event loop and await nothing between    *)
(* their first read and their last write: each is one step.  Left out:     *)
(* interfaces, PoE, signal strength, and _version, which nothing reads but *)
(* the debugging summary.                                                  *)
(***************************************************************************)
EXTENDS Integers, FiniteSets

CONSTANTS TOTAL_FLOORS, APS_PER_FLOOR,
          UPLINK,             (* the port of a floor switch to the core      *)
          WIRED_VLANS, WIRELESS_VLANS,
          ENDPOINT_COUNTS,    (* endpoints of each VLAN, all floors          *)
          PORT_RANGES,        (* <<first, last>> port of each wired VLAN     *)
          EditDevices, EditPlaces     (* devices and <<switch, port>> places *)
                                      (* that the requests of a run name     *)

ASSUME NetworkAssumption ==
    /\ TOTAL_FLOORS \in Nat \ {0} /\ APS_PER_FLOOR \in Nat \ {0}
    /\ ENDPOINT_COUNTS \in [WIRED_VLANS \cup WIRELESS_VLANS -> Nat]
    /\ IsFiniteSet(WIRELESS_VLANS)

Floors == 1 .. TOTAL_FLOORS
VLANS == WIRED_VLANS \cup WIRELESS_VLANS

FgPrimary == <<"fg-primary", 0>>
FgStandby == <<"fg-standby", 0>>
Firewalls == {FgPrimary, FgStandby}
CoreSw == <<"core-sw", 0>>
FloorSw(f) == <<"floor-sw", f>>
FloorSwitches == {FloorSw(f) : f \in Floors}
Devices == Firewalls \cup {CoreSw} \cup FloorSwitches

\* A request that names an unknown switch is answered with 404.
ASSUME EditsAssumption == \A p \in EditPlaces : p[1] \in Devices

Ap(f, i) == <<"ap", f, i>>
APs == {Ap(f, i) : f \in Floors, i \in 1 .. APS_PER_FLOOR}
FloorOf(ap) == ap[2]

\* Ports are named: "port<n>", or "HA-link" between the firewalls.
Port(n) == <<"port", n>>
HALink == <<"HA-link", 0>>
NoPort == <<"", 0>>

NoParent == [switch |-> <<"", 0>>, port |-> NoPort]

\* A row of lldp_neighbors.
Neighbor(port, dev, remote) == [port |-> port, dev |-> dev, remote |-> remote]
Eth0 == <<"eth0", 0>>

-----------------------------------------------------------------------------
(***************************************************************************)
(* What the simulator starts with.                                         *)
(***************************************************************************)
CorePort(f) == Port(f + 2)

\* init_topology_state, per device: the two firewalls, the core, the floors.
FirewallNeighbors(d) ==
    LET uplink == IF d = FgPrimary THEN Port(1) ELSE Port(2)
        peer == CHOOSE p \in Firewalls : p # d
    IN {Neighbor(Port(5), CoreSw, uplink), Neighbor(HALink, peer, HALink)}

CoreNeighbors ==
    {Neighbor(Port(1), FgPrimary, Port(5)), Neighbor(Port(2), FgStandby, Port(5))}
    \cup {Neighbor(CorePort(f), FloorSw(f), Port(UPLINK)) : f \in Floors}

FloorNeighbors(f) ==
    {Neighbor(Port(UPLINK), CoreSw, CorePort(f))}
    \cup {Neighbor(Port(i), Ap(f, i), Eth0) : i \in 1 .. APS_PER_FLOOR}

\* The remainder of an uneven division goes to the first floors.
per_floor_count(v, f) ==
    LET total == ENDPOINT_COUNTS[v]
    IN (total \div TOTAL_FLOORS) + IF f <= total % TOTAL_FLOORS THEN 1 ELSE 0

Host(v, f, i) == <<"ep", v, f, i>>

\* Hosts wrap around the ports of their VLAN; several may share one.  A row
\* stands for the ARP and the MAC entry of the host: the code adds, moves and
\* removes the two together.
populate_wired_endpoints(f) ==
    UNION {{[port |-> Port(PORT_RANGES[v][1] + (i % (PORT_RANGES[v][2] - PORT_RANGES[v][1] + 1))),
             host |-> Host(v, f, i)] : i \in 0 .. per_floor_count(v, f) - 1} : v \in WIRED_VLANS}

\* Access points in the order they are registered, floor by floor.
ApNumber(f, i) == (f - 1) * APS_PER_FLOOR + i
ApAt(n) == Ap(((n - 1) \div APS_PER_FLOOR) + 1, ((n - 1) % APS_PER_FLOOR) + 1)
TotalAps == TOTAL_FLOORS * APS_PER_FLOOR

Client(v, i) == <<"wl", v, i>>
Clients == UNION {{Client(v, i) : i \in 0 .. ENDPOINT_COUNTS[v] - 1} : v \in WIRELESS_VLANS}

\* The clients of each wireless VLAN are dealt out to the access points in turn.
InitialAp(c) == ApAt((c[3] % TotalAps) + 1)

InitialNetwork ==
    [lldp   |-> [d \in Devices |->
                    IF d \in Firewalls THEN FirewallNeighbors(d)
                    ELSE IF d = CoreSw THEN CoreNeighbors
                    ELSE FloorNeighbors(d[2])],
     hosts  |-> [d \in Devices |->
                    IF d \in FloorSwitches THEN populate_wired_endpoints(d[2]) ELSE {}],
     parent |-> [ap \in APs |-> [switch |-> FloorSw(FloorOf(ap)), port |-> Port(ap[3])]],
     assoc  |-> [c \in Clients |-> InitialAp(c)],
     count  |-> [ap \in APs |-> Cardinality({c \in Clients : InitialAp(c) = ap})]]

-----------------------------------------------------------------------------
VARIABLES net,      (* the TopologyState                                     *)
          edits     (* edits and batches left: a bound of the model          *)

NetInit(n) == net = InitialNetwork /\ edits = n

Spend == edits > 0 /\ edits' = edits - 1

\* A slip: the counter of the access point left behind is not updated.
move_wireless_clientKeepsCount(n, c, ap) ==
    IF n.assoc[c] = ap THEN n
    ELSE [n EXCEPT !.assoc[c] = ap, !.count[ap] = @ + 1]

move_wireless_client(n, c, ap) ==
    LET old == n.assoc[c]
        count == [n.count EXCEPT ![old] = IF @ > 0 THEN @ - 1 ELSE 0, ![ap] = @ + 1]
    IN IF old = ap THEN n ELSE [n EXCEPT !.assoc[c] = ap, !.count = count]

\* A client roams to another access point of the floor that is drawn: its own
\* or one next to it.  With no other access point there, it stays.
RoamTargets(n, c, f) == {ap \in APs \ {n.assoc[c]} : FloorOf(ap) = f}

roam_client(n, c) ==
    UNION {IF RoamTargets(n, c, f) = {} THEN {n}
           ELSE {move_wireless_client(n, c, ap) : ap \in RoamTargets(n, c, f)} :
             f \in {g \in Floors : g - FloorOf(n.assoc[c]) \in {-1, 0, 1}}}

\* A batch of two: ROAMING_BATCH_MIN.
roam_batch ==
    /\ Spend
    /\ \E c, d \in Clients :
           /\ c # d
           /\ \E n \in roam_client(net, c) : net' \in roam_client(n, d)

\* The rows of device dev on port of the neighbors rows.
RowsOn(rows, port, dev) == {r \in rows : r.port = port /\ r.dev = dev}

\* POST /simulator/connections, move: the neighbor row goes to the new switch,
\* the hosts behind the port go along, an access point records its new place.
\* An unknown device or switch is answered with 404 and changes nothing.
move_connection(dev, from, fp, to, tp) ==
    /\ Spend
    /\ dev \in APs \cup Devices
    /\ LET lldp == [net.lldp EXCEPT ![from] = @ \ RowsOn(@, fp, dev)]
           moved == {h \in net.hosts[from] : h.port = fp}
           hosts == [net.hosts EXCEPT ![from] = @ \ moved]
       IN net' = [net EXCEPT
             !.lldp = [lldp EXCEPT ![to] = @ \cup {Neighbor(tp, dev, Eth0)}],
             !.hosts = [hosts EXCEPT ![to] = @ \cup {[h EXCEPT !.port = tp] : h \in moved}],
             !.parent = [ap \in APs |-> IF ap = dev THEN [switch |-> to, port |-> tp] ELSE @[ap]]]

\* create: nothing is removed from where the device was.
action_create(dev, to, tp) ==
    /\ Spend
    /\ dev \in APs \cup Devices
    /\ net' = [net EXCEPT
          !.lldp[to] = @ \cup {Neighbor(tp, dev, Eth0)},
          !.parent = [ap \in APs |-> IF ap = dev THEN [switch |-> to, port |-> tp] ELSE @[ap]]]

\* A slip: the place of the access point is cleared only where it was created.
action_deleteKeepsParent(dev, from, fp) ==
    /\ Spend
    /\ net' = [net EXCEPT
          !.lldp[from] = @ \ RowsOn(@, fp, dev),
          !.hosts[from] = {h \in @ : h.port # fp}]

\* delete: the place is cleared when the switch is the recorded one, whatever
\* the port.
action_delete(dev, from, fp) ==
    /\ Spend
    /\ net' = [net EXCEPT
          !.lldp[from] = @ \ RowsOn(@, fp, dev),
          !.hosts[from] = {h \in @ : h.port # fp},
          !.parent = [ap \in APs |-> IF ap = dev /\ @[ap].switch = from THEN NoParent ELSE @[ap]]]

NetNext ==
    \/ roam_batch
    \/ \E d \in EditDevices, p, q \in EditPlaces :
           \/ move_connection(d, p[1], p[2], q[1], q[2])
           \/ action_create(d, p[1], p[2])
           \/ action_delete(d, p[1], p[2])

-----------------------------------------------------------------------------
(***************************************************************************)
(* What must hold of the network.                                          *)
(***************************************************************************)

\* However clients roam, an access point counts the clients that are on it.
CountsMatchClients ==
    \A ap \in APs : net.count[ap] = Cardinality({c \in Clients : net.assoc[c] = ap})

\* Whatever is moved, created and deleted, in whatever order and from
\* whatever port: where an access point records that it hangs, the switch
\* lists it on that port.
ParentListsAp ==
    \A ap \in APs :
        net.parent[ap] # NoParent =>
            RowsOn(net.lldp[net.parent[ap].switch], net.parent[ap].port, ap) # {}
=============================================================================
