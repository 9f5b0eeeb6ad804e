-------------------------- MODULE MerakiTransformer --------------------------
(***************************************************************************)
(* What server/meraki_transformer.py makes of the answers of the Meraki    *)
(* Dashboard.  A device is [serial, network, product, core, placed], a     *)
(* link a pair of ends [serial, port].  Names, addresses and firmware are  *)
(* left out; core is a switch with "core" in its name, placed a device     *)
(* with a position.                                                        *)
(***************************************************************************)
EXTENDS Integers, FiniteSets, SequencesExt, Listing

CONSTANT NoSerial

DEVICE_TYPE_MAP == [appliance |-> "firewall", switch |-> "floor_switch", wireless |-> "access_point"]
STATUS_MAP == [online |-> "up", offline |-> "down", alerting |-> "alerting", dormant |-> "down"]

\* dict.get with a default.
Get(dict, key, default) == IF key \in DOMAIN dict THEN dict[key] ELSE default

DeviceTypeOf(d) ==
    IF d.product = "switch" /\ d.core THEN "core_switch" ELSE Get(DEVICE_TYPE_MAP, d.product, "endpoint")

Pair(link) == {link[1].serial, link[2].serial}

\* Links between known ends, the first of each pair whatever its direction.
_build_edges(layers) ==
    LET Link(p) == layers[p[1]][p[2]]
        known == {p \in Places(layers) : NoSerial \notin Pair(Link(p))}
    IN {Link(p) : p \in {q \in known : \A o \in known : Before(o, q) => Pair(Link(o)) # Pair(Link(q))}}

\* The last stack that a switch is listed in counts; its first switch is active.
StackOf(stacks, serial) ==
    LET mine == SelectSeq(stacks, LAMBDA s : serial \in Range(s))
    IN IF mine = <<>> THEN <<>> ELSE Last(mine)

RoleOf(stacks, serial) ==
    LET stack == StackOf(stacks, serial)
    IN IF stack = <<>> THEN "none" ELSE IF Head(stack) = serial THEN "active" ELSE "member"

\* devices is a set, as nothing depends on their order; clients is a sequence
\* of <<access point, its clients>>: a client that two list becomes two nodes.
build_l2(devices, availabilities, layers, clients, stacks) ==
    LET known == {d \in devices : d.serial # NoSerial}
        serials == {d.serial : d \in known}
        members == {s \in serials : RoleOf(stacks, s) = "member" /\ Head(StackOf(stacks, s)) \in serials}
        ofClients == FlattenSeq([i \in DOMAIN clients |->
                        [j \in DOMAIN clients[i][2] |-> [id |-> clients[i][2][j], connected_ap |-> clients[i][1]]]])
    IN [nodes |-> {[id |-> d.serial, network |-> d.network, type |-> DeviceTypeOf(d),
                    status |-> Get(STATUS_MAP, Get(availabilities, d.serial, "offline"), "down"),
                    role |-> RoleOf(stacks, d.serial)] : d \in known},
        edges |-> _build_edges(layers),
        stacked |-> {<<Head(StackOf(stacks, s)), s>> : s \in members},
        clients |-> ofClients]

\* networks is a sequence, ids the VLANs of each.  A subnet is known by its
\* place.  The first appliance of all networks routes between all their VLANs.
build_l3(networks, ids, devices) ==
    LET gateways == SelectSeq(devices, LAMBDA d : d.product = "appliance" /\ d.serial # NoSerial)
        subnets == [p \in Places(ids) |-> [network |-> networks[p[1]], vlan |-> ids[p[1]][p[2]]]]
    IN [subnets |-> subnets,
        routes |-> IF gateways = <<>> THEN {}
                   ELSE {[from |-> p[1], to |-> p[2], via |-> Head(gateways).serial] :
                            p \in {q \in (DOMAIN subnets) \X (DOMAIN subnets) : Before(q[1], q[2])}}]

\* unhealthy of counted, against 25% and 60%.
_health_bucket(unhealthy, counted) ==
    CASE counted = 0 -> "unknown"
      [] unhealthy = 0 -> "green"
      [] 4 * unhealthy <= counted -> "yellow"
      [] 5 * unhealthy <= 3 * counted -> "orange"
      [] OTHER -> "red"

build_sites(networks, devices, availabilities) ==
    [i \in DOMAIN networks |->
        LET here == {k \in DOMAIN devices : devices[k].network = networks[i]}
            With(statuses) == Cardinality({k \in here : Get(availabilities, devices[k].serial, "") \in statuses})
        IN [network |-> networks[i], device_count |-> Cardinality(here),
            mapped |-> \E k \in here : devices[k].placed,
            bucket |-> _health_bucket(With({"alerting", "offline"}), With({"online", "alerting", "offline"}))]]
=============================================================================
