------------------------------ MODULE DeviceMibs ------------------------------
(***************************************************************************)
(* What the simulated agents answer (simulator/devices/, agent.py) and     *)
(* what a walk of the collector hears of it (collector/snmp_client.py,     *)
(* the _walk functions of collector/discovery.py).                         *)
(*                                                                         *)
(* A table is the sequence of its rows in the order of their index, which  *)
(* is the order of a walk.  A column that the collector drops is left out, *)
(* but for its place in the order where a walk covers several columns.  A  *)
(* request or an answer that is lost ends the walk after three seconds     *)
(* with what was heard so far: a walk of n values may hear any prefix.     *)
(***************************************************************************)
EXTENDS SimulatedNetwork, Sequences, Listing

CONSTANT Unknown        (* a value that was not heard                       *)

\* sysName of a device; the name of an access point in the wireless tables.
\* Upper case is one-to-one on the devices and no access point has it.
SysName(d) == <<"sys", d>>
ApName(ap) == <<"FortiAP", ApNumber(ap[2], ap[3])>>
Upper(name) == IF name[1] = "FortiAP" THEN <<"FORTIAP", name[2]>> ELSE name
NameOf(dev) == IF dev \in APs THEN ApName(dev) ELSE SysName(dev)

\* No name, address, mask or VLAN is one that was not heard.  A VLAN is a number,
\* wired or wireless, and a wired one has ports.
ASSUME MibsAssumption ==
    /\ VLANS \subseteq Nat /\ IsFiniteSet(WIRED_VLANS) /\ WIRED_VLANS \cap WIRELESS_VLANS = {}
    /\ \A v \in WIRED_VLANS :
          PORT_RANGES[v][1] \in Nat /\ PORT_RANGES[v][2] \in Nat /\ PORT_RANGES[v][1] <= PORT_RANGES[v][2]
    /\ Unknown \notin VLANS /\ Unknown \notin APs /\ Unknown # "mask"
    /\ \A d \in Devices \cup APs : Unknown # NameOf(d)

\* Numbers of ports in a table; a name that is not "port<n>" has none.
HasIndex(port) == port[1] = "port"

LldpRow(i, name, remote) == [index |-> i, name |-> name, remote |-> remote]

Ascending(numbers) == InOrder(numbers, {p \in numbers \X numbers : p[1] < p[2]})

\* Rows in the order of their index, which no two rows share.
SortLldp(rows) == InOrder(rows, {p \in rows \X rows : p[1].index < p[2].index})

-----------------------------------------------------------------------------
\* A firewall: its ports have names of their own in the interface table.
FirewallIndex(port) == CASE port = Port(5) -> 3 [] port = HALink -> 4 [] OTHER -> 0

build_fortigate_lldp(n, d) ==
    IF n.lldp[d] = {}
      THEN <<LldpRow(3, SysName(CoreSw), IF d = FgPrimary THEN Port(1) ELSE Port(2))>>
      ELSE SortLldp({LldpRow(FirewallIndex(r.port), NameOf(r.dev), r.remote) :
                        r \in {q \in n.lldp[d] : FirewallIndex(q.port) # 0}})

\* The core: from its neighbors, or the static ones when it has none.
build_core_lldp(n) ==
    SortLldp({LldpRow(r.port[2], Upper(NameOf(r.dev)), r.remote) :
                 r \in {q \in IF n.lldp[CoreSw] = {} THEN CoreNeighbors ELSE n.lldp[CoreSw] :
                            HasIndex(q.port)}})

\* A floor: not from its neighbors.  The uplink and the access point ports are
\* fixed; a port shows the access point of this floor that records it, the one
\* registered last, and a made-up one when there is none.
build_floor_lldp(n, f) ==
    LET Here(i) == {j \in 1 .. APS_PER_FLOOR : n.parent[Ap(f, j)].port = Port(i)}
        Name(i) == IF Here(i) = {} THEN <<"AP", f, i>>
                   ELSE ApName(Ap(f, CHOOSE j \in Here(i) : \A k \in Here(i) : k <= j))
    IN [i \in 1 .. APS_PER_FLOOR |-> LldpRow(i, Name(i), Eth0)]
       \o <<LldpRow(UPLINK, SysName(CoreSw), CorePort(f))>>

\* ARP: the access points on their first ports, then the hosts, by port and
\* address: the VLAN and the number of the host.  The firewalls list a sample
\* host of each VLAN.
HostBefore(a, b) ==
    \/ a.index < b.index
    \/ a.index = b.index /\ a.host[2] < b.host[2]
    \/ a.index = b.index /\ a.host[2] = b.host[2] /\ a.host[4] < b.host[4]

HostRows(n, d) ==
    LET rows == {[index |-> h.port[2], host |-> h.host] : h \in n.hosts[d]}
    IN InOrder(rows, {p \in rows \X rows : HostBefore(p[1], p[2])})

ApRows(f) == [i \in 1 .. APS_PER_FLOOR |-> [index |-> i, host |-> Ap(f, i)]]

\* Both tables of a floor switch list these.  The bridge table is in the order
\* of its addresses, which are hashes: another order loses other rows, but a
\* row without a port falls back on the address table, which has the same one.
\* A bridge table that is empty is answered with made-up hosts, and so is that
\* of the core: no address table lists them and nothing reads them.
build_floor_hosts(n, f) == ApRows(f) \o HostRows(n, FloorSw(f))

build_fortigate_arp(d) ==
    LET vlans == Ascending(VLANS)
    IN [k \in DOMAIN vlans |-> [index |-> 4 + k, host |-> <<"sample", vlans[k], d>>]]

\* The wireless controller: access points and stations in the order they were
\* registered, with the name of the access point a station is on.
build_wireless_ap_entries == [i \in 1 .. TotalAps |-> [name |-> ApName(ApAt(i)), ip |-> ApAt(i)]]

ClientBefore(c, d) == c[2] < d[2] \/ (c[2] = d[2] /\ c[3] < d[3])

build_wireless_sta_entries(n) ==
    LET clients == InOrder(Clients, {p \in Clients \X Clients : ClientBefore(p[1], p[2])})
    IN [i \in DOMAIN clients |->
           [mac |-> clients[i], ap_name |-> ApName(n.assoc[clients[i]]), vlan |-> clients[i][2]]]

\* Routes by destination: the default route, then the VLANs.
Default == 0
build_route_entries == <<Default>> \o Ascending(VLANS)

build_mib_trees(n) ==
    [d \in Devices |->
        [lldp   |-> IF d \in Firewalls THEN build_fortigate_lldp(n, d)
                    ELSE IF d = CoreSw THEN build_core_lldp(n)
                    ELSE build_floor_lldp(n, d[2]),
         arp    |-> IF d \in Firewalls THEN build_fortigate_arp(d)
                    ELSE IF d = CoreSw THEN <<>> ELSE build_floor_hosts(n, d[2]),
         fdb    |-> IF d \in FloorSwitches THEN build_floor_hosts(n, d[2]) ELSE <<>>,
         aps    |-> IF d = FgPrimary THEN build_wireless_ap_entries ELSE <<>>,
         stas   |-> IF d = FgPrimary THEN build_wireless_sta_entries(n) ELSE <<>>,
         routes |-> IF d \in Firewalls THEN build_route_entries ELSE <<>>]]

-----------------------------------------------------------------------------
(***************************************************************************)
(* What a walk hears: the first h values of a subtree of columns * rows.   *)
(***************************************************************************)

\* The walk goes down the first column, then the next.
Heard(h, rows, column, i) == (column - 1) * Len(rows) + i <= h

Cell(h, rows, column, i, value) == IF Heard(h, rows, column, i) THEN value ELSE Unknown

\* Three walks of one column each: chassis, port, name.  The chassis decides
\* which neighbors there are.
walk_lldp_neighbors(rows, chassis, ports, names) ==
    [i \in 1 .. chassis |->
        [local  |-> Port(rows[i].index),
         remote |-> Cell(ports, rows, 1, i, rows[i].remote),
         name   |-> Cell(names, rows, 1, i, rows[i].name)]]

\* The address of a row is in its index: a lost second column changes nothing.
walk_arp_table(rows, phys) == [i \in 1 .. phys |-> rows[i]]

\* Three walks: address, port, status.  A port that was not heard is 0.
walk_mac_table(rows, addrs, ports) ==
    [i \in 1 .. addrs |-> [mac |-> rows[i].host, port |-> IF i <= ports THEN rows[i].index ELSE 0]]

\* One walk of five columns: serial, name, ip, status, station count.
walk_ap_table(rows, h) ==
    [i \in 1 .. (IF h < Len(rows) THEN h ELSE Len(rows)) |->
        [name |-> Cell(h, rows, 2, i, rows[i].name),
         ip   |-> Cell(h, rows, 3, i, rows[i].ip),
         up   |-> Heard(h, rows, 4, i)]]

\* One walk of five columns: mac, ip, ssid, ap_name, vlan.
walk_sta_table(rows, h) ==
    [i \in 1 .. (IF h < Len(rows) THEN h ELSE Len(rows)) |->
        [mac     |-> rows[i].mac,
         ap_name |-> Cell(h, rows, 4, i, rows[i].ap_name),
         vlan    |-> Cell(h, rows, 5, i, rows[i].vlan)]]

\* One walk of five columns: dest, ifIndex, nextHop, type, mask.
walk_route_table(rows, h) ==
    [i \in 1 .. (IF h < Len(rows) THEN h ELSE Len(rows)) |->
        [dest |-> rows[i], mask |-> Cell(h, rows, 5, i, "mask")]]
=============================================================================
