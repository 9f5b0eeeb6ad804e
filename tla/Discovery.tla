------------------------------ MODULE Discovery ------------------------------
(***************************************************************************)
(* Discovery over SNMP and the topology built from it: discover_from_seed  *)
(* of collector/discovery.py, build_l2 and build_l3 of                     *)
(* collector/topology_builder.py and the snapshot that poll_once replaces. *)
(*                                                                         *)
(* Every request has a socket of its own, so a late answer is never taken  *)
(* for another: a request is answered or it is lost.  The answers of the   *)
(* agents never change (AgentsServeState), so a device is walked in one    *)
(* step.  Losses are a budget; a walk that is cut short costs one, a       *)
(* device that does not answer its two identity requests costs two.        *)
(***************************************************************************)
EXTENDS DeviceMibs

CONSTANTS NoId,         (* the empty id, of an access point without a name   *)
          Profiles      (* [edits, losses] budgets of the instances of a run *)

ASSUME DiscoveryAssumption == NoId \notin Devices \cup APs /\ \A p \in Profiles : p.losses \in Nat

VARIABLES mib,          (* what the agents answer                            *)
          queue, visited, found,    (* the discovery that is under way       *)
          l2, l3,       (* the snapshot; <<>> before the first poll          *)
          losses, lost  (* losses left, and in the discovery under way       *)

discoveryVars == <<queue, visited, found, l2, l3, losses, lost>>
vars == <<net, edits, mib, queue, visited, found, l2, l3, losses, lost>>

Seed == FgPrimary
NothingFound == [devices |-> <<>>, edges |-> <<>>, aps |-> <<>>, stas |-> <<>>, routes |-> <<>>,
                 arp |-> [d \in Devices |-> <<>>], mac |-> [d \in Devices |-> <<>>]]

\* The device whose name a neighbor gives; NoId for an access point.
_resolve_device_id(name) ==
    IF \E d \in Devices : Upper(SysName(d)) = name
      THEN CHOOSE d \in Devices : Upper(SysName(d)) = name ELSE NoId

-----------------------------------------------------------------------------
(***************************************************************************)
(* build_l2                                                                *)
(***************************************************************************)
\* A slip: access points are numbered from zero in their names.
_ap_device_id_from_nameFromZero(name) ==
    IF name # Unknown /\ name[1] = "FortiAP" THEN ApAt((name[2] % TotalAps) + 1) ELSE NoId

_ap_device_id_from_name(name) ==
    IF name # Unknown /\ name[1] = "FortiAP" THEN ApAt(name[2]) ELSE NoId

_ap_floor_from_ip(ip) == IF ip = Unknown THEN Unknown ELSE FloorOf(ip)

Floor(d) == IF d \in FloorSwitches THEN d[2] ELSE Unknown

Node(id, floor, up, vlan, ap) == [id |-> id, floor |-> floor, up |-> up, vlan |-> vlan, ap |-> ap]

\* Of the places of a list, the first one with each Key.
Firsts(places, Key(_)) == {i \in places : \A j \in places : j < i => Key(j) # Key(i)}

InfraNodes(f) == {Node(d, Floor(d), TRUE, Unknown, NoId) : d \in Range(f.devices)}

ApNodes(f) ==
    {Node(_ap_device_id_from_name(f.aps[i].name), _ap_floor_from_ip(f.aps[i].ip), f.aps[i].up, Unknown, NoId) :
        i \in Firsts(DOMAIN f.aps, LAMBDA i : _ap_device_id_from_name(f.aps[i].name))}

ap_name_to_id(f, name) ==
    IF \E a \in Range(f.aps) : a.name = name THEN _ap_device_id_from_name(name) ELSE NoId

Link(source, sport, target, tport) ==
    [source |-> source, sport |-> sport, target |-> target, tport |-> tport]

\* A slip: the two ends of a link are two edges.
LldpEdgesTwice(f) ==
    {Link(e.source, e.sport, e.target, e.tport) : e \in {d \in Range(f.edges) : d.target # NoId}}

\* The first report of a link, from either end, is the edge.
LldpEdges(f) ==
    LET known == {i \in DOMAIN f.edges : f.edges[i].target # NoId}
        Ends(i) == {f.edges[i].source, f.edges[i].target}
    IN {Link(f.edges[i].source, f.edges[i].sport, f.edges[i].target, f.edges[i].tport) : i \in Firsts(known, Ends)}

ApEdges(f) ==
    LET Id(i) == ap_name_to_id(f, f.edges[i].name)
        named == {i \in DOMAIN f.edges : f.edges[i].source \in FloorSwitches /\ Id(i) # NoId}
    IN {Link(f.edges[i].source, f.edges[i].sport, Id(i), f.edges[i].tport) :
           i \in Firsts(named, LAMBDA i : <<f.edges[i].source, Id(i)>>)}

\* ARP rows of the floor switches, without the access points of the range.
WiredRows(f, d) == {r \in Range(f.arp[d]) : r.host \notin APs}

\* The port of the MAC table; that of the ARP row when it was not heard.
bridge_port(f, d, row) ==
    LET heard == {m \in Range(f.mac[d]) : m.mac = row.host /\ m.port # 0}
    IN IF heard = {} THEN Port(row.index) ELSE Port((CHOOSE m \in heard : TRUE).port)

WiredNodes(f) ==
    UNION {{Node(r.host, d[2], TRUE, r.host[2], NoId) : r \in WiredRows(f, d)} : d \in FloorSwitches}
WiredEdges(f) ==
    UNION {{Link(d, bridge_port(f, d, r), r.host, Unknown) : r \in WiredRows(f, d)} : d \in FloorSwitches}

\* The floor of a client is that of the row with the name of its access point.
ClientFloor(f, name) ==
    LET rows == {a \in Range(f.aps) : name # Unknown /\ a.name = name}
    IN IF rows = {} THEN Unknown ELSE _ap_floor_from_ip((CHOOSE a \in rows : TRUE).ip)

ClientNodes(f) ==
    {Node(c.mac, ClientFloor(f, c.ap_name), TRUE, c.vlan, ap_name_to_id(f, c.ap_name)) : c \in Range(f.stas)}
ClientEdges(f) ==
    {Link(ap_name_to_id(f, c.ap_name), Unknown, c.mac, Unknown) :
        c \in {s \in Range(f.stas) : ap_name_to_id(f, s.ap_name) # NoId}}

build_l2(f) ==
    [nodes |-> InfraNodes(f) \cup ApNodes(f) \cup WiredNodes(f) \cup ClientNodes(f),
     edges |-> LldpEdges(f) \cup ApEdges(f) \cup WiredEdges(f) \cup ClientEdges(f)]

-----------------------------------------------------------------------------
(***************************************************************************)
(* build_l3: the devices of each VLAN and the routes of the firewall.  The *)
(* policies between VLANs are constants.                                   *)
(***************************************************************************)
\* Every row of every switch counts.
WiredCount(f, v) ==
    LET At(d) == {i \in DOMAIN f.arp[d] : f.arp[d][i].host \notin APs /\ f.arp[d][i].host[2] = v}
    IN Cardinality(UNION {{d} \X At(d) : d \in FloorSwitches})

\* A route is known by its destination and mask together.
build_l3(f) ==
    [count |-> [v \in VLANS |->
        IF v \in WIRED_VLANS THEN WiredCount(f, v)
        ELSE Cardinality({i \in DOMAIN f.stas : f.stas[i].vlan = v})],
     routes |-> {r.dest : r \in {q \in Range(f.routes) : q.mask # Unknown}}]

-----------------------------------------------------------------------------
\* What the routes answer from the snapshot: the members of a VLAN, the
\* devices next to one.
get_vlan_members(v) == {n \in l2.nodes : n.vlan = v}

get_l2_device_detail(id) ==
    LET connected == {e \in l2.edges : id \in {e.source, e.target}}
    IN {n \in l2.nodes \ {m \in l2.nodes : m.id = id} : \E e \in connected : n.id \in {e.source, e.target}}

-----------------------------------------------------------------------------
Begin == queue' = <<Seed>> /\ visited' = {} /\ found' = NothingFound /\ lost' = 0

Init ==
    /\ \E p \in Profiles : NetInit(p.edits) /\ losses = p.losses
    /\ mib = build_mib_trees(net)
    /\ queue = <<Seed>> /\ visited = {} /\ found = NothingFound
    /\ l2 = <<>> /\ l3 = <<>> /\ lost = 0

\* What is heard of each walk: all of it, or what came before a lost answer.
Lengths(d) ==
    LET n == Len(mib[d].lldp)
    IN [chassis |-> n, ports |-> n, names |-> n, arp |-> Len(mib[d].arp),
        addrs |-> Len(mib[d].fdb), bridge |-> Len(mib[d].fdb),
        aps |-> 5 * Len(mib[d].aps), stas |-> 5 * Len(mib[d].stas), routes |-> 5 * Len(mib[d].routes)]

\* What may be heard of the walks of a device when cut of them are cut short.
Hearings(d, cut) ==
    LET n == Lengths(d)
        Shorter(W) == {h \in [W -> UNION {0 .. n[w] - 1 : w \in W}] : \A w \in W : h[w] < n[w]}
    IN UNION {{[w \in DOMAIN n |-> IF w \in W THEN h[w] ELSE n[w]] : h \in Shorter(W)} :
                 W \in {V \in SUBSET DOMAIN n : Cardinality(V) = cut}}

Current == Head(queue)

\* The neighbors of a device; a known one that was not visited is queued.
Edges(d, neighbors) ==
    [i \in DOMAIN neighbors |->
        [source |-> d, sport |-> neighbors[i].local, tport |-> neighbors[i].remote,
         name |-> neighbors[i].name, target |-> _resolve_device_id(neighbors[i].name)]]

Queued(edges, seen) == Filter([i \in DOMAIN edges |-> edges[i].target], Devices \ seen)

WalkDevice ==
    /\ queue # <<>> /\ Current \notin visited
    /\ \E cut \in 0 .. losses : \E h \in Hearings(Current, cut) :
           LET tree == mib[Current]
               edges == Edges(Current, walk_lldp_neighbors(tree.lldp, h.chassis, h.ports, h.names))
           IN /\ found' = [found EXCEPT
                     !.devices = Append(@, Current),
                     !.edges = @ \o edges,
                     !.arp[Current] = walk_arp_table(tree.arp, h.arp),
                     !.mac[Current] = walk_mac_table(tree.fdb, h.addrs, h.bridge),
                     !.aps = IF Current = FgPrimary THEN walk_ap_table(tree.aps, h.aps) ELSE @,
                     !.stas = IF Current = FgPrimary THEN walk_sta_table(tree.stas, h.stas) ELSE @,
                     !.routes = IF Current = FgPrimary THEN walk_route_table(tree.routes, h.routes) ELSE @]
              /\ queue' = Tail(queue) \o Queued(edges, visited \cup {Current})
              /\ losses' = losses - cut /\ lost' = lost + cut
    /\ visited' = visited \cup {Current}
    /\ UNCHANGED <<net, edits, mib, l2, l3>>

\* Both identity requests are lost: the device is left out and not retried.
Unreachable ==
    /\ queue # <<>> /\ Current \notin visited /\ losses > 1
    /\ queue' = Tail(queue) /\ visited' = visited \cup {Current}
    /\ losses' = losses - 2 /\ lost' = lost + 2
    /\ UNCHANGED <<net, edits, mib, found, l2, l3>>

SkipVisited ==
    /\ queue # <<>> /\ Current \in visited
    /\ queue' = Tail(queue)
    /\ UNCHANGED <<net, edits, mib, visited, found, l2, l3, losses, lost>>

\* A slip: the devices that were visited are remembered by the next poll.
FinishPollKeepsVisited ==
    /\ queue = <<>>
    /\ l2' = build_l2(found) /\ l3' = build_l3(found)
    /\ queue' = <<Seed>> /\ found' = NothingFound /\ lost' = 0
    /\ UNCHANGED <<net, edits, mib, visited, losses>>

\* poll_once: the snapshot is replaced whatever was lost; the next discovery
\* starts from nothing.
FinishPoll ==
    /\ queue = <<>>
    /\ l2' = build_l2(found) /\ l3' = build_l3(found)
    /\ Begin
    /\ UNCHANGED <<net, edits, mib, losses>>

poll_once == WalkDevice \/ Unreachable \/ SkipVisited \/ FinishPoll

\* Editing the network leaves the agents' answers alone: update_mib_tree of an
\* agent has no caller.
EditNetwork == NetNext /\ UNCHANGED <<mib, discoveryVars>>

Next == poll_once \/ EditNetwork

\* The poller's loop calls poll_once again and again.
Spec == Init /\ [][Next]_vars /\ WF_vars(poll_once)

-----------------------------------------------------------------------------
(***************************************************************************)
(* What must hold of the snapshot.  The agents answer for the network that *)
(* they were started with: InitialNetwork.                                 *)
(***************************************************************************)
\* A link as the network has it: the two ends, and the port of a switch.
Hangs(d, x, port) ==
    \/ \E r \in InitialNetwork.lldp[d] : r.dev = x /\ r.port = port
    \/ \E h \in InitialNetwork.hosts[d] : h.host = x /\ h.port = port

Linked(x, y) ==
    \/ x \in Devices /\ y \in {r.dev : r \in InitialNetwork.lldp[x]} \cup {h.host : h \in InitialNetwork.hosts[x]}
    \/ y \in Clients /\ InitialNetwork.assoc[y] = x

\* An edge of the snapshot is a link of the network, on the port that the
\* switch has it on (a firewall's ports are named after their place in its
\* interface table).
EdgesAreReal ==
    \A e \in l2.edges :
        /\ Linked(e.source, e.target)
        /\ e.source \in Devices \ Firewalls => Hangs(e.source, e.target, e.sport)
        /\ e.target \in Devices /\ e.tport # Unknown => Hangs(e.target, e.source, e.tport)

\* A VLAN has as many members in the first layer as the third layer counts.
LayersAgree == \A v \in VLANS : l3.count[v] = Cardinality(get_vlan_members(v))

\* Whatever answers were lost, the snapshot shows nothing that is not there,
\* and its two layers, built from different tables, agree.
SnapshotSound == l2 # <<>> => EdgesAreReal /\ LayersAgree

RealNodes ==
    {Node(d, Floor(d), TRUE, Unknown, NoId) : d \in Devices}
    \cup {Node(ap, FloorOf(ap), TRUE, Unknown, NoId) : ap \in APs}
    \cup (UNION {{Node(h.host, d[2], TRUE, h.host[2], NoId) : h \in InitialNetwork.hosts[d]} : d \in FloorSwitches})
    \cup {Node(c, FloorOf(InitialNetwork.assoc[c]), TRUE, c[2], InitialNetwork.assoc[c]) : c \in Clients}

RealLinks == {{p[1], p[2]} : p \in {q \in {n.id : n \in RealNodes} \X {n.id : n \in RealNodes} : Linked(q[1], q[2])}}

\* The snapshot is the whole network, each link once.
Complete ==
    /\ l2 # <<>> /\ l2.nodes = RealNodes
    /\ {{e.source, e.target} : e \in l2.edges} = RealLinks
    /\ Cardinality(l2.edges) = Cardinality(RealLinks)
    /\ \A n \in l2.nodes : {n.id} \cup {m.id : m \in get_l2_device_detail(n.id)} = UNION {k \in RealLinks : n.id \in k}
    /\ l3.count = ENDPOINT_COUNTS
    /\ l3.routes = VLANS \cup {Default}

\* A poll that lost no answer shows the whole network, in both layers.
CompleteWhenHeard == [][FinishPoll /\ lost = 0 => Complete']_vars

\* Once answers are no longer lost, the snapshot is the whole network and
\* stays so: a poll carries nothing over from an incomplete one.
Recovers == <>[]Complete

\* Refuted: an agent answers for the network as it was edited last.
AgentsServeState == mib = build_mib_trees(net)
=============================================================================
