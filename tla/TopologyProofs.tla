---------------------------- MODULE TopologyProofs ----------------------------
(***************************************************************************)
(* The topology at both ends.  The simulated network, for any number of    *)
(* floors, access points and clients, however clients roam in it and it is *)
(* edited while it is discovered; the snapshot that a discovery makes of   *)
(* it, sound whatever answers are lost and the whole network when none is; *)
(* and the broadcasts, which reach the open connections, each in the order *)
(* of the versions, for any number of connections, requests, losses and    *)
(* lost connections, with or without the pages at the other end.           *)
(***************************************************************************)
EXTENDS Discovery, TopologyPages, FiniteSetTheorems, FunctionTheorems, SequenceTheorems,
        WellFoundedInduction, TLAPS

-----------------------------------------------------------------------------
(***************************************************************************)
(* The access points: by their numbers, they are all there.                *)
(***************************************************************************)
LEMMA Quotients ==
    ASSUME NEW n \in Nat, NEW d \in Nat \ {0}
    PROVE  /\ n % d \in 0 .. d - 1
           /\ \A m \in Nat : n < m * d => n \div d \in 0 .. m - 1
  <1>1. n % d \in 0 .. d - 1
    OBVIOUS
  <1>2. ASSUME NEW m \in Nat, n < m * d
        PROVE  n \div d \in 0 .. m - 1
    <2> DEFINE q == n \div d
    <2>1. q \in Nat /\ q * d <= n
      OBVIOUS
    <2> HIDE DEF q
    <2>2. ~ q >= m
      <3> SUFFICES ASSUME q >= m PROVE FALSE
        OBVIOUS
      <3>1. q * d >= m * d
        BY <2>1
      <3>2. m * d \in Nat /\ q * d \in Nat
        BY <2>1
      <3> QED BY <1>2, <2>1, <3>1, <3>2
    <2> QED BY <2>1, <2>2 DEF q
  <1> QED BY <1>1, <1>2

\* init_topology_state numbers the access points.
LEMMA ApsAreNumbered ==
    ASSUME NEW n \in 1 .. TotalAps
    PROVE  ApAt(n) \in APs
  <1>1. n - 1 \in Nat /\ APS_PER_FLOOR \in Nat \ {0} /\ TOTAL_FLOORS \in Nat /\ n - 1 < TOTAL_FLOORS * APS_PER_FLOOR
    BY NetworkAssumption DEF TotalAps
  <1>2. (n - 1) \div APS_PER_FLOOR \in 0 .. TOTAL_FLOORS - 1 /\ (n - 1) % APS_PER_FLOOR \in 0 .. APS_PER_FLOOR - 1
    BY <1>1, Quotients
  <1>3. ((n - 1) \div APS_PER_FLOOR) + 1 \in Floors /\ ((n - 1) % APS_PER_FLOOR) + 1 \in 1 .. APS_PER_FLOOR
    BY <1>1, <1>2 DEF Floors
  <1> QED BY <1>3 DEF ApAt, APs

\* It deals each client to one of them.
LEMMA Dealing ==
    ASSUME NEW c \in Clients
    PROVE  InitialAp(c) \in APs
  <1>1. PICK v \in WIRELESS_VLANS : \E i \in 0 .. ENDPOINT_COUNTS[v] - 1 : c = Client(v, i)
    BY DEF Clients
  <1>2. ENDPOINT_COUNTS[v] \in Nat
    BY NetworkAssumption
  <1>3. c[3] \in Nat
    <2>1. PICK i \in 0 .. ENDPOINT_COUNTS[v] - 1 : c = Client(v, i)
      BY <1>1
    <2>2. i \in Nat /\ c[3] = i
      BY <1>2, <2>1 DEF Client
    <2> QED BY <2>2
  <1>4. TotalAps \in Nat \ {0}
    BY NetworkAssumption DEF TotalAps
  <1>5. (c[3] % TotalAps) + 1 \in 1 .. TotalAps
    <2>1. c[3] % TotalAps \in 0 .. TotalAps - 1
      BY <1>3, <1>4, Quotients
    <2> QED BY <1>4, <2>1
  <1> QED BY <1>5, ApsAreNumbered DEF InitialAp

\* There are finitely many clients.
LEMMA ClientsAreFinite == IsFiniteSet(Clients)
  <1> DEFINE Of(v) == {Client(v, i) : i \in 0 .. ENDPOINT_COUNTS[v] - 1}
             groups == {Of(v) : v \in WIRELESS_VLANS}
  <1>1. IsFiniteSet(groups)
    <2> DEFINE f == [v \in WIRELESS_VLANS |-> Of(v)]
    <2>1. f \in Surjection(WIRELESS_VLANS, groups)
      BY DEF Surjection
    <2> QED BY <2>1, FS_Surjection, NetworkAssumption
  <1>2. ASSUME NEW v \in WIRELESS_VLANS
        PROVE  IsFiniteSet(Of(v))
    <2> DEFINE numbers == 0 .. ENDPOINT_COUNTS[v] - 1
               f == [i \in numbers |-> Client(v, i)]
    <2>1. ENDPOINT_COUNTS[v] - 1 \in Int
      BY NetworkAssumption
    <2>2. IsFiniteSet(numbers)
      BY <2>1, FS_Interval
    <2>3. f \in Surjection(numbers, Of(v))
      BY DEF Surjection
    <2> QED BY <2>2, <2>3, FS_Surjection
  <1>3. Clients = UNION groups
    BY DEF Clients
  <1> QED BY <1>1, <1>2, <1>3, FS_UNION

-----------------------------------------------------------------------------
(***************************************************************************)
(* Roaming.                                                                *)
(***************************************************************************)
On(assoc, ap) == {c \in Clients : assoc[c] = ap}

\* The clients and the counts of a network, and how they agree.
Roams(n) ==
    /\ n = [lldp |-> n.lldp, hosts |-> n.hosts, parent |-> n.parent, assoc |-> n.assoc, count |-> n.count]
    /\ n.assoc \in [Clients -> APs] /\ n.count \in [APs -> Nat]
    /\ \A ap \in APs : n.count[ap] = Cardinality(On(n.assoc, ap))

\* A move keeps the counters right, and touches no connection.
LEMMA Moving ==
    ASSUME NEW n, Roams(n), NEW c \in Clients, NEW ap \in APs
    PROVE  LET moved == move_wireless_client(n, c, ap)
           IN Roams(moved) /\ moved.lldp = n.lldp /\ moved.parent = n.parent
  <1> DEFINE old == n.assoc[c]
             assoc == [n.assoc EXCEPT ![c] = ap]
             count == [n.count EXCEPT ![old] = IF @ > 0 THEN @ - 1 ELSE 0, ![ap] = @ + 1]
  <1>1. CASE old = ap
    BY <1>1 DEF move_wireless_client
  <1>2. CASE old # ap
    <2>1. move_wireless_client(n, c, ap) =
              [lldp |-> n.lldp, hosts |-> n.hosts, parent |-> n.parent, assoc |-> assoc, count |-> count]
      BY <1>2 DEF move_wireless_client, Roams
    <2>2. old \in APs /\ assoc \in [Clients -> APs] /\ count \in [APs -> Nat]
      BY DEF Roams
    <2>3. \A a \in APs : IsFiniteSet(On(n.assoc, a)) /\ Cardinality(On(n.assoc, a)) \in Nat
      BY ClientsAreFinite, FS_Subset, FS_CardinalityType DEF On
    <2>4. count[ap] = Cardinality(On(assoc, ap))
      <3>1. On(assoc, ap) = On(n.assoc, ap) \cup {c} /\ c \notin On(n.assoc, ap)
        BY <1>2 DEF On, Roams
      <3>2. Cardinality(On(assoc, ap)) = Cardinality(On(n.assoc, ap)) + 1
        BY <2>3, <3>1, FS_AddElement
      <3>3. count[ap] = n.count[ap] + 1
        BY <1>2, <2>2 DEF Roams
      <3> QED BY <3>2, <3>3 DEF Roams
    <2>5. count[old] = Cardinality(On(assoc, old))
      <3>1. On(assoc, old) = On(n.assoc, old) \ {c} /\ c \in On(n.assoc, old)
        BY <1>2 DEF On, Roams
      <3>2. Cardinality(On(assoc, old)) = Cardinality(On(n.assoc, old)) - 1
        BY <2>2, <2>3, <3>1, FS_RemoveElement
      <3>3. n.count[old] = Cardinality(On(n.assoc, old)) /\ n.count[old] > 0
        <4>1. Cardinality(On(n.assoc, old)) # 0
          BY <2>2, <2>3, <3>1, FS_EmptySet
        <4> QED BY <2>2, <2>3, <4>1 DEF Roams
      <3>4. count[old] = n.count[old] - 1
        BY <1>2, <2>2, <3>3 DEF Roams
      <3> QED BY <3>2, <3>3, <3>4
    <2>6. ASSUME NEW a \in APs \ {ap, old}
          PROVE  count[a] = Cardinality(On(assoc, a))
      <3>1. On(assoc, a) = On(n.assoc, a)
        BY <2>6 DEF On, Roams
      <3>2. count[a] = n.count[a]
        BY <2>2, <2>6 DEF Roams
      <3> QED BY <3>1, <3>2 DEF Roams
    <2>7. \A a \in APs : count[a] = Cardinality(On(assoc, a))
      BY <2>4, <2>5, <2>6
    <2> HIDE DEF assoc, count, old
    <2> QED BY <2>1, <2>2, <2>7 DEF Roams
  <1> QED BY <1>1, <1>2

\* So does a client that roams.
LEMMA Roaming ==
    ASSUME NEW n, Roams(n), NEW c \in Clients, NEW m \in roam_client(n, c)
    PROVE  Roams(m) /\ m.lldp = n.lldp /\ m.parent = n.parent
  <1>1. m = n \/ \E ap \in APs : m = move_wireless_client(n, c, ap)
    BY DEF roam_client, RoamTargets
  <1> QED BY <1>1, Moving

-----------------------------------------------------------------------------
(***************************************************************************)
(* Edits.                                                                  *)
(***************************************************************************)
\* Where an access point of a network records that it hangs, it is listed.
Lists(n) ==
    /\ n.lldp = [d \in Devices |-> n.lldp[d]] /\ n.parent = [ap \in APs |-> n.parent[ap]]
    /\ \A ap \in APs : n.parent[ap] # NoParent =>
           /\ n.parent[ap].switch \in Devices
           /\ RowsOn(n.lldp[n.parent[ap].switch], n.parent[ap].port, ap) # {}

\* Rows of one device come and go: those of the others stay.
LEMMA RowsGone ==
    ASSUME NEW rows, NEW fp, NEW dev, NEW port, NEW ap, ap # dev
    PROVE  RowsOn(rows \ RowsOn(rows, fp, dev), port, ap) = RowsOn(rows, port, ap)
  BY DEF RowsOn

\* A row that is added hides no other.
LEMMA RowsMore ==
    ASSUME NEW rows, NEW row, NEW port, NEW ap
    PROVE  RowsOn(rows, port, ap) \subseteq RowsOn(rows \cup {row}, port, ap)
  BY DEF RowsOn

\* An edit that adds a connection makes the place list the device.
LEMMA RowAdded ==
    ASSUME NEW rows, NEW tp, NEW dev
    PROVE  RowsOn(rows \cup {Neighbor(tp, dev, Eth0)}, tp, dev) # {}
  <1>1. Neighbor(tp, dev, Eth0) \in RowsOn(rows \cup {Neighbor(tp, dev, Eth0)}, tp, dev)
    BY DEF RowsOn, Neighbor
  <1> QED BY <1>1

\* No edit touches the clients.
LEMMA ShapeOfRoams ==
    ASSUME NEW n, Roams(n), NEW lldp, NEW hosts, NEW parent
    PROVE  Roams([lldp |-> lldp, hosts |-> hosts, parent |-> parent, assoc |-> n.assoc, count |-> n.count])
  BY DEF Roams

\* The move of a connection keeps counters and places right, ...
LEMMA MovingConnections ==
    ASSUME Roams(net), Lists(net), NEW dev, NEW from, NEW fp, NEW to \in Devices, NEW tp,
           move_connection(dev, from, fp, to, tp)
    PROVE  Roams(net') /\ Lists(net')
  <1> DEFINE lldp == [net.lldp EXCEPT ![from] = @ \ RowsOn(@, fp, dev)]
             moved == {h \in net.hosts[from] : h.port = fp}
             hosts == [net.hosts EXCEPT ![from] = @ \ moved]
             after == [lldp EXCEPT ![to] = @ \cup {Neighbor(tp, dev, Eth0)}]
             behind == [hosts EXCEPT ![to] = @ \cup {[h EXCEPT !.port = tp] : h \in moved}]
             parent == [ap \in APs |-> IF ap = dev THEN [switch |-> to, port |-> tp] ELSE net.parent[ap]]
  <1>1. net' = [lldp |-> after, hosts |-> behind, parent |-> parent, assoc |-> net.assoc, count |-> net.count]
    BY DEF move_connection, Roams
  <1>2. Roams(net')
    BY <1>1, ShapeOfRoams
  <1>3. after = [d \in Devices |-> after[d]] /\ lldp = [d \in Devices |-> lldp[d]]
    BY DEF Lists
  <1>4. ASSUME NEW ap \in APs, parent[ap] # NoParent
        PROVE  parent[ap].switch \in Devices /\ RowsOn(after[parent[ap].switch], parent[ap].port, ap) # {}
    <2>1. CASE ap = dev
      <3>1. parent[ap].switch = to /\ parent[ap].port = tp
        BY <2>1
      <3>2. after[to] = lldp[to] \cup {Neighbor(tp, dev, Eth0)}
        BY <1>3
      <3> HIDE DEF after, parent, lldp
      <3> QED BY <2>1, <3>1, <3>2, RowAdded
    <2>2. CASE ap # dev
      <3> DEFINE d == net.parent[ap].switch
                 port == net.parent[ap].port
      <3>1. parent[ap].switch = d /\ parent[ap].port = port /\ d \in Devices /\ RowsOn(net.lldp[d], port, ap) # {}
        BY <1>4, <2>2 DEF Lists
      <3>2. RowsOn(lldp[d], port, ap) = RowsOn(net.lldp[d], port, ap)
        <4> HIDE DEF port
        <4>1. net.lldp = [x \in Devices |-> net.lldp[x]]
          BY DEF Lists
        <4>2. lldp[d] = IF d = from THEN net.lldp[d] \ RowsOn(net.lldp[d], fp, dev) ELSE net.lldp[d]
          BY <3>1, <4>1
        <4> HIDE DEF d, lldp
        <4>3. d = from => RowsOn(lldp[d], port, ap) = RowsOn(net.lldp[d], port, ap)
          BY <2>2, <4>2, RowsGone
        <4> QED BY <4>2, <4>3
      <3>3. RowsOn(lldp[d], port, ap) \subseteq RowsOn(after[d], port, ap)
        <4> HIDE DEF port
        <4>1. after[d] = IF d = to THEN lldp[d] \cup {Neighbor(tp, dev, Eth0)} ELSE lldp[d]
          <5> HIDE DEF lldp
          <5> QED BY <1>3, <3>1
        <4> HIDE DEF d, lldp, after
        <4>2. d = to => RowsOn(lldp[d], port, ap) \subseteq RowsOn(after[d], port, ap)
          BY <4>1, RowsMore
        <4> QED BY <4>1, <4>2
      <3> HIDE DEF d, port, lldp, after, parent
      <3> QED BY <3>1, <3>2, <3>3
    <2> QED BY <2>1, <2>2
  <1>5. net'.lldp = after /\ net'.parent = parent /\ parent = [ap \in APs |-> parent[ap]]
    <2> HIDE DEF after, behind
    <2> QED BY <1>1
  <1> HIDE DEF after, behind, parent, lldp
  <1> QED BY <1>2, <1>3, <1>4, <1>5 DEF Lists

\* so does its creation, ...
LEMMA CreatingConnections ==
    ASSUME Roams(net), Lists(net), NEW dev, NEW to \in Devices, NEW tp, action_create(dev, to, tp)
    PROVE  Roams(net') /\ Lists(net')
  <1> DEFINE after == [net.lldp EXCEPT ![to] = @ \cup {Neighbor(tp, dev, Eth0)}]
             parent == [ap \in APs |-> IF ap = dev THEN [switch |-> to, port |-> tp] ELSE net.parent[ap]]
  <1>1. net' = [lldp |-> after, hosts |-> net.hosts, parent |-> parent, assoc |-> net.assoc, count |-> net.count]
    BY DEF action_create, Roams
  <1>2. Roams(net')
    BY <1>1, ShapeOfRoams
  <1>3. after = [d \in Devices |-> after[d]]
        /\ \A d \in Devices : after[d] = IF d = to THEN net.lldp[d] \cup {Neighbor(tp, dev, Eth0)} ELSE net.lldp[d]
    BY DEF Lists
  <1>4. ASSUME NEW ap \in APs, parent[ap] # NoParent
        PROVE  parent[ap].switch \in Devices /\ RowsOn(after[parent[ap].switch], parent[ap].port, ap) # {}
    <2>1. CASE ap = dev
      <3>1. parent[ap].switch = to /\ parent[ap].port = tp
        BY <2>1
      <3> HIDE DEF after, parent
      <3> QED BY <1>3, <2>1, <3>1, RowAdded
    <2>2. CASE ap # dev
      <3> DEFINE d == net.parent[ap].switch
                 port == net.parent[ap].port
      <3>1. parent[ap].switch = d /\ parent[ap].port = port /\ d \in Devices /\ RowsOn(net.lldp[d], port, ap) # {}
        BY <1>4, <2>2 DEF Lists
      <3> HIDE DEF d, port, after, parent
      <3>2. RowsOn(net.lldp[d], port, ap) \subseteq RowsOn(after[d], port, ap)
        <4>1. CASE d = to
          <5>1. after[d] = net.lldp[d] \cup {Neighbor(tp, dev, Eth0)}
            BY <1>3, <3>1, <4>1
          <5> QED BY <5>1, RowsMore
        <4>2. CASE d # to
          BY <1>3, <3>1, <4>2
        <4> QED BY <4>1, <4>2
      <3> QED BY <3>1, <3>2
    <2> QED BY <2>1, <2>2
  <1>5. parent = [ap \in APs |-> parent[ap]]
    OBVIOUS
  <1> HIDE DEF after, parent
  <1>6. net'.lldp = after /\ net'.parent = parent
    BY <1>1
  <1>7. Lists(net')
    BY <1>3, <1>4, <1>5, <1>6 DEF Lists
  <1> QED BY <1>2, <1>7

\* and its deletion.
LEMMA DeletingConnections ==
    ASSUME Roams(net), Lists(net), NEW dev, NEW from, NEW fp, action_delete(dev, from, fp)
    PROVE  Roams(net') /\ Lists(net')
  <1> DEFINE after == [net.lldp EXCEPT ![from] = @ \ RowsOn(@, fp, dev)]
             behind == [net.hosts EXCEPT ![from] = {h \in @ : h.port # fp}]
             parent == [ap \in APs |-> IF ap = dev /\ net.parent[ap].switch = from THEN NoParent ELSE net.parent[ap]]
  <1>1. net' = [lldp |-> after, hosts |-> behind, parent |-> parent, assoc |-> net.assoc, count |-> net.count]
    BY DEF action_delete, Roams
  <1>2. Roams(net')
    BY <1>1, ShapeOfRoams
  <1>3. after = [d \in Devices |-> after[d]]
        /\ \A d \in Devices : after[d] = IF d = from THEN net.lldp[d] \ RowsOn(net.lldp[d], fp, dev) ELSE net.lldp[d]
    BY DEF Lists
  <1>4. ASSUME NEW ap \in APs, parent[ap] # NoParent
        PROVE  parent[ap].switch \in Devices /\ RowsOn(after[parent[ap].switch], parent[ap].port, ap) # {}
    <2> DEFINE d == net.parent[ap].switch
               port == net.parent[ap].port
    <2>1. parent[ap].switch = d /\ parent[ap].port = port /\ d \in Devices /\ RowsOn(net.lldp[d], port, ap) # {}
      BY <1>4 DEF Lists
    <2>2. ap # dev \/ d # from
      BY <1>4
    <2> HIDE DEF d, port, after, parent
    <2>3. RowsOn(net.lldp[d], port, ap) = RowsOn(after[d], port, ap)
      <3>1. d = from => RowsOn(after[d], port, ap) = RowsOn(net.lldp[d], port, ap)
        BY <1>3, <2>1, <2>2, RowsGone
      <3> QED BY <1>3, <2>1, <3>1
    <2> QED BY <2>1, <2>3
  <1>5. net'.lldp = after /\ net'.parent = parent /\ parent = [ap \in APs |-> parent[ap]]
    <2> HIDE DEF after, behind
    <2> QED BY <1>1
  <1> HIDE DEF after, behind, parent
  <1> QED BY <1>2, <1>3, <1>4, <1>5 DEF Lists

-----------------------------------------------------------------------------
\* init_topology_state counts the clients that it deals, ...
LEMMA InitialCounts == Roams(InitialNetwork)
  <1>1. \A c \in Clients : InitialAp(c) \in APs
    BY Dealing
  <1> DEFINE assoc == [c \in Clients |-> InitialAp(c)]
             count == [ap \in APs |-> Cardinality({c \in Clients : InitialAp(c) = ap})]
  <1>2. \A ap \in APs : On(assoc, ap) = {c \in Clients : InitialAp(c) = ap}
    BY DEF On
  <1>3. \A ap \in APs : count[ap] = Cardinality(On(assoc, ap)) /\ count[ap] \in Nat
    <2>1. \A ap \in APs : IsFiniteSet(On(assoc, ap))
      BY ClientsAreFinite, FS_Subset DEF On
    <2> QED BY <1>2, <2>1, FS_CardinalityType
  <1>4. assoc \in [Clients -> APs] /\ count = [ap \in APs |-> count[ap]]
    BY <1>1
  <1>5. /\ InitialNetwork.assoc = assoc /\ InitialNetwork.count = count
        /\ InitialNetwork = [lldp |-> InitialNetwork.lldp, hosts |-> InitialNetwork.hosts,
                             parent |-> InitialNetwork.parent, assoc |-> assoc, count |-> count]
    BY DEF InitialNetwork
  <1> HIDE DEF assoc, count
  <1> QED BY <1>3, <1>4, <1>5 DEF Roams

\* and connects each access point where it records it.
LEMMA InitialLists == Lists(InitialNetwork)
  <1>1. ASSUME NEW ap \in APs
        PROVE  LET hangs == InitialNetwork.parent[ap]
               IN hangs.switch \in Devices /\ RowsOn(InitialNetwork.lldp[hangs.switch], hangs.port, ap) # {}
    <2>1. PICK f \in Floors, i \in 1 .. APS_PER_FLOOR : ap = Ap(f, i)
      BY DEF APs
    <2>2. InitialNetwork.parent[ap] = [switch |-> FloorSw(f), port |-> Port(i)]
      BY <2>1 DEF InitialNetwork, Ap, FloorOf
    <2>3. FloorSw(f) \in Devices /\ FloorSw(f) \notin Firewalls /\ FloorSw(f) # CoreSw /\ FloorSw(f)[2] = f
      BY DEF Devices, FloorSwitches, FloorSw, Firewalls, FgPrimary, FgStandby, CoreSw
    <2>4. InitialNetwork.lldp[FloorSw(f)] = FloorNeighbors(f)
      BY <2>3 DEF InitialNetwork
    <2>5. Neighbor(Port(i), ap, Eth0) \in RowsOn(FloorNeighbors(f), Port(i), ap)
      BY <2>1 DEF FloorNeighbors, RowsOn, Neighbor
    <2> QED BY <2>2, <2>3, <2>4, <2>5
  <1>2. /\ InitialNetwork.lldp = [d \in Devices |-> InitialNetwork.lldp[d]]
        /\ InitialNetwork.parent = [ap \in APs |-> InitialNetwork.parent[ap]]
    BY DEF InitialNetwork
  <1> HIDE DEF InitialNetwork
  <1> QED BY <1>1, <1>2 DEF Lists

NetInv == Roams(net) /\ Lists(net)

\* The network begins right.
LEMMA NetInitially == Init => NetInv
  <1>1. Init => net = InitialNetwork
    BY DEF Init, NetInit
  <1> QED BY <1>1, InitialCounts, InitialLists DEF NetInv

\* Roaming and edits keep it right; a discovery only reads it.
LEMMA NetStep ==
    ASSUME NetInv, [Next]_vars
    PROVE  NetInv'
  <1>1. CASE roam_batch
    <2>1. PICK c \in Clients, d \in Clients : \E n \in roam_client(net, c) : net' \in roam_client(n, d)
      BY <1>1 DEF roam_batch
    <2>2. PICK n \in roam_client(net, c) : net' \in roam_client(n, d)
      BY <2>1
    <2>3. Roams(n) /\ n.lldp = net.lldp /\ n.parent = net.parent
      BY Roaming DEF NetInv
    <2>4. Roams(net') /\ net'.lldp = net.lldp /\ net'.parent = net.parent
      BY <2>2, <2>3, Roaming
    <2> QED BY <2>4 DEF NetInv, Lists
  <1>2. ASSUME NEW d \in EditDevices, NEW p \in EditPlaces, NEW q \in EditPlaces,
               \/ move_connection(d, p[1], p[2], q[1], q[2])
               \/ action_create(d, p[1], p[2])
               \/ action_delete(d, p[1], p[2])
        PROVE  NetInv'
    <2>1. p[1] \in Devices /\ q[1] \in Devices
      BY EditsAssumption
    <2> QED BY <1>2, <2>1, MovingConnections, CreatingConnections, DeletingConnections DEF NetInv
  <1>3. CASE UNCHANGED net
    BY <1>3 DEF NetInv, Roams, Lists
  <1>4. poll_once => UNCHANGED net
    BY DEF poll_once, WalkDevice, Unreachable, SkipVisited, FinishPoll
  <1>5. UNCHANGED vars => UNCHANGED net
    BY DEF vars
  <1> QED BY <1>1, <1>2, <1>3, <1>4, <1>5 DEF Next, EditNetwork, NetNext

\* However clients roam and connections are edited, the counter that an access
\* point keeps (roaming.py) is the number of the clients on it.
THEOREM Counts == Spec => []CountsMatchClients
  <1>1. NetInv => CountsMatchClients
    BY DEF NetInv, Roams, CountsMatchClients, On
  <1> QED BY <1>1, NetInitially, NetStep, PTL DEF Spec

\* Whatever connections are moved, created and deleted (api.py), the place that
\* an access point records lists it.
THEOREM RecordedPlaces == Spec => []ParentListsAp
  <1>1. NetInv => ParentListsAp
    BY DEF NetInv, Lists, ParentListsAp
  <1> QED BY <1>1, NetInitially, NetStep, PTL DEF Spec

-----------------------------------------------------------------------------
(***************************************************************************)
(* Lists in an order.                                                      *)
(***************************************************************************)
\* Of two different elements of S one comes before the other, and only one.
IsOrder(S, order) ==
    /\ \A x, y \in S : x # y => <<x, y>> \in order \/ <<y, x>> \in order
    /\ \A x, y, z \in S : <<x, y>> \in order /\ <<y, z>> \in order => <<x, z>> \in order
    /\ \A x \in S : <<x, x>> \notin order

\* A set of n elements has one for each of n ranks, if no two share one.
LEMMA EveryRank ==
    ASSUME NEW S, IsFiniteSet(S), NEW rank \in [S -> 1 .. Cardinality(S)],
           \A x, y \in S : x # y => rank[x] # rank[y]
    PROVE  \A k \in 1 .. Cardinality(S) : \E x \in S : rank[x] = k
  <1> DEFINE n == Cardinality(S)
  <1>1. n \in Nat
    BY FS_CardinalityType
  <1>2. IsFiniteSet(1 .. n) /\ Cardinality(1 .. n) = n
    BY <1>1, FS_Interval
  <1>3. rank \in Injection(S, 1 .. n)
    BY Fun_IsInj
  <1> HIDE DEF n
  <1>4. rank \in Surjection(S, 1 .. n)
    BY <1>2, <1>3, FS_Injection DEF n
  <1> QED BY <1>4 DEF Surjection, n

\* An ordered list has each element of the set once.
LEMMA Ordered ==
    ASSUME NEW S, IsFiniteSet(S), NEW order, IsOrder(S, order)
    PROVE  InOrder(S, order) \in Bijection(1 .. Cardinality(S), S)
  <1> DEFINE n == Cardinality(S)
             Below(x) == {y \in S : <<y, x>> \in order}
             rank == [x \in S |-> Cardinality(Below(x)) + 1]
             list == InOrder(S, order)
  <1>1. \A x \in S : IsFiniteSet(Below(x)) /\ Cardinality(Below(x)) \in Nat
    BY FS_Subset, FS_CardinalityType
  <1>2. n \in Nat
    BY FS_CardinalityType
  <1>3. \A x \in S : Cardinality(Below(x)) < n
    <2> SUFFICES ASSUME NEW x \in S PROVE Cardinality(Below(x)) < n
      OBVIOUS
    <2>1. Below(x) # S
      BY DEF IsOrder
    <2>2. Cardinality(Below(x)) <= n /\ Cardinality(Below(x)) # n
      BY <2>1, FS_Subset
    <2> QED BY <1>1, <1>2, <2>2
  <1>4. \A x, y \in S : <<x, y>> \in order => Cardinality(Below(x)) < Cardinality(Below(y))
    <2> SUFFICES ASSUME NEW x \in S, NEW y \in S, <<x, y>> \in order
                 PROVE  Cardinality(Below(x)) < Cardinality(Below(y))
      OBVIOUS
    <2>1. Below(x) \in SUBSET Below(y)
      BY DEF IsOrder
    <2>2. Below(x) # Below(y)
      BY DEF IsOrder
    <2>3. Cardinality(Below(x)) <= Cardinality(Below(y)) /\ Cardinality(Below(x)) # Cardinality(Below(y))
      BY <1>1, <2>1, <2>2, FS_Subset
    <2> QED BY <1>1, <2>3
  <1>5. \A x, y \in S : x # y => Cardinality(Below(x)) # Cardinality(Below(y))
    <2> SUFFICES ASSUME NEW x \in S, NEW y \in S, x # y PROVE Cardinality(Below(x)) # Cardinality(Below(y))
      OBVIOUS
    <2>1. <<x, y>> \in order \/ <<y, x>> \in order
      BY DEF IsOrder
    <2>2. \A c, d \in Nat : c < d => c # d /\ d # c
      OBVIOUS
    <2> HIDE DEF Below
    <2> QED BY <1>1, <1>4, <2>1, <2>2
  <1>6. \A x \in S : list[Cardinality(Below(x)) + 1] = x /\ Cardinality(Below(x)) + 1 \in 1 .. n
    <2> SUFFICES ASSUME NEW x \in S
                 PROVE  list[Cardinality(Below(x)) + 1] = x /\ Cardinality(Below(x)) + 1 \in 1 .. n
      OBVIOUS
    <2>1. Cardinality(Below(x)) + 1 \in 1 .. n /\ (Cardinality(Below(x)) + 1) - 1 = Cardinality(Below(x))
      <3> HIDE DEF Below, n
      <3> QED BY <1>1, <1>2, <1>3
    <2>2. list[Cardinality(Below(x)) + 1] = CHOOSE z \in S : Cardinality(Below(z)) = Cardinality(Below(x))
      BY <2>1 DEF InOrder
    <2> HIDE DEF Below, list
    <2> QED BY <1>5, <2>1, <2>2
  <1>7. \A k \in 1 .. n : \E x \in S : Cardinality(Below(x)) + 1 = k
    <2>1. rank \in [S -> 1 .. n] /\ \A x, y \in S : x # y => rank[x] # rank[y]
      <3> HIDE DEF Below, n
      <3> QED BY <1>1, <1>2, <1>3, <1>5
    <2>2. \A k \in 1 .. n : \E x \in S : rank[x] = k
      <3> HIDE DEF rank
      <3> QED BY <2>1, EveryRank
    <2> QED BY <2>2
  <1>8. list = [k \in 1 .. n |-> list[k]]
    <2> DEFINE Nth(k) == CHOOSE x \in S : Cardinality({y \in S : <<y, x>> \in order}) = k - 1
    <2>1. list = [k \in 1 .. n |-> Nth(k)]
      BY Zenon DEF InOrder
    <2> HIDE DEF Nth, list
    <2> QED BY <2>1
  <1> HIDE DEF Below, n, list
  <1>9. list \in [1 .. n -> S]
    BY <1>6, <1>7, <1>8
  <1>10. \A a, b \in 1 .. n : list[a] = list[b] => a = b
    BY <1>6, <1>7
  <1>11. \A x \in S : \E k \in 1 .. n : list[k] = x
    BY <1>6
  <1>12. list \in Bijection(1 .. n, S)
    BY <1>9, <1>10, <1>11, Fun_IsBij
  <1> QED BY <1>12 DEF n, list

\* A list, and the set of what it lists.
ListOfAll(s, S) == s \in Seq(S) /\ Len(s) \in Nat /\ DOMAIN s = 1 .. Len(s) /\ Range(s) = S

\* So it is a list of all of them, as long as there are elements.
LEMMA OrderedList ==
    ASSUME NEW S, IsFiniteSet(S), NEW order, IsOrder(S, order)
    PROVE  /\ ListOfAll(InOrder(S, order), S) /\ Len(InOrder(S, order)) = Cardinality(S)
           /\ \A a, b \in DOMAIN InOrder(S, order) : InOrder(S, order)[a] = InOrder(S, order)[b] => a = b
  <1> DEFINE list == InOrder(S, order)
             n == Cardinality(S)
  <1>1. n \in Nat
    BY FS_CardinalityType
  <1>2. list \in Bijection(1 .. n, S)
    BY Ordered
  <1> HIDE DEF list, n
  <1>3. list \in [1 .. n -> S] /\ (\A x \in S : \E k \in 1 .. n : list[k] = x)
        /\ \A a, b \in 1 .. n : list[a] = list[b] => a = b
    <2>1. list \in [1 .. n -> S] /\ IsInjective(list) /\ \A x \in S : \E k \in 1 .. n : list[k] = x
      BY <1>2 DEF Bijection, Injection, Surjection
    <2>2. DOMAIN list = 1 .. n
      BY <2>1
    <2> QED BY <2>1, <2>2 DEF IsInjective
  <1>4. list \in Seq(S)
    BY <1>1, <1>3
  <1>5. Len(list) \in Nat /\ DOMAIN list = 1 .. Len(list) /\ Len(list) = n
    <2>1. Len(list) \in Nat /\ DOMAIN list = 1 .. Len(list)
      BY <1>4, LenProperties
    <2>2. DOMAIN list = 1 .. n
      BY <1>3
    <2>3. \A m \in Nat : 1 .. m = 1 .. n => m = n
      BY <1>1
    <2>4. Len(list) = n
      BY <2>1, <2>2, <2>3
    <2> QED BY <2>1, <2>4
  <1>6. Range(list) = S
    BY <1>3 DEF Range
  <1> QED BY <1>3, <1>4, <1>5, <1>6 DEF list, n, ListOfAll

\* A filtered list is a list of what it was filtered by, and of all of it.
LEMMA Filtered ==
    ASSUME NEW s, NEW n \in Nat, DOMAIN s = 1 .. n, NEW T
    PROVE  /\ Filter(s, T) \in Seq(T)
           /\ \A i \in 1 .. n : s[i] \in T => s[i] \in Range(Filter(s, T))
  <1> DEFINE places == {i \in DOMAIN s : s[i] \in T}
             Until(i) == {j \in 1 .. i : s[j] \in T}
             rank == [i \in places |-> Cardinality(Until(i))]
             m == Cardinality(places)
             list == Filter(s, T)
  <1>1. IsFiniteSet(places) /\ m \in Nat
    <2>1. IsFiniteSet(1 .. n) /\ places \in SUBSET (1 .. n)
      BY FS_Interval
    <2> HIDE DEF places
    <2> QED BY <2>1, FS_Subset, FS_CardinalityType
  <1>2. \A i \in 1 .. n : IsFiniteSet(Until(i)) /\ Cardinality(Until(i)) \in Nat
    <2> SUFFICES ASSUME NEW i \in 1 .. n PROVE IsFiniteSet(Until(i)) /\ Cardinality(Until(i)) \in Nat
      OBVIOUS
    <2>1. IsFiniteSet(1 .. i) /\ Until(i) \in SUBSET (1 .. i)
      BY FS_Interval
    <2> QED BY <2>1, FS_Subset, FS_CardinalityType
  <1>3. \A i \in places : Cardinality(Until(i)) \in 1 .. m
    <2> SUFFICES ASSUME NEW i \in places PROVE Cardinality(Until(i)) \in 1 .. m
      OBVIOUS
    <2>1. Until(i) \in SUBSET places /\ i \in Until(i)
      OBVIOUS
    <2>2. Cardinality(Until(i)) <= m
      BY <1>1, <2>1, FS_Subset
    <2>3. Cardinality(Until(i)) # 0
      BY <1>2, <2>1, FS_EmptySet
    <2>4. Cardinality(Until(i)) \in Nat
      BY <1>2
    <2> HIDE DEF Until, m
    <2> QED BY <1>1, <2>2, <2>3, <2>4
  <1>4. \A i, j \in places : i < j => Cardinality(Until(i)) # Cardinality(Until(j))
    <2> SUFFICES ASSUME NEW i \in places, NEW j \in places, i < j PROVE Cardinality(Until(i)) # Cardinality(Until(j))
      OBVIOUS
    <2>1. Until(i) \in SUBSET Until(j) /\ j \in Until(j) /\ j \notin Until(i)
      OBVIOUS
    <2> QED BY <1>2, <2>1, FS_Subset
  <1>5. \A k \in 1 .. m : \E i \in places : rank[i] = k
    <2>1. \A i, j \in places : i # j => i < j \/ j < i
      OBVIOUS
    <2>2. rank \in [places -> 1 .. m] /\ \A i, j \in places : i # j => rank[i] # rank[j]
      <3> HIDE DEF places, Until, m
      <3> QED BY <1>3, <1>4, <2>1
    <2> HIDE DEF rank, places
    <2> QED BY <1>1, <2>2, EveryRank
  <1>6. \A k \in 1 .. m : list[k] \in T
    <2> SUFFICES ASSUME NEW k \in 1 .. m PROVE list[k] \in T
      OBVIOUS
    <2>1. \E i \in DOMAIN s : s[i] \in T /\ Cardinality(Until(i)) = k
      BY <1>5
    <2>2. list[k] = s[CHOOSE i \in DOMAIN s : s[i] \in T /\ Cardinality(Until(i)) = k]
      BY DEF Filter
    <2> HIDE DEF Until, list
    <2> QED BY <2>1, <2>2
  <1>7. list = [k \in 1 .. m |-> list[k]]
    BY DEF Filter
  <1>8. ASSUME NEW i \in 1 .. n, s[i] \in T
        PROVE  list[Cardinality(Until(i))] = s[i] /\ Cardinality(Until(i)) \in 1 .. m
    <2> DEFINE k == Cardinality(Until(i))
               Fits(j) == j \in DOMAIN s /\ s[j] \in T /\ Cardinality(Until(j)) = k
    <2>1. i \in places /\ k \in 1 .. m
      BY <1>3, <1>8
    <2>2. list[k] = s[CHOOSE j \in DOMAIN s : s[j] \in T /\ Cardinality(Until(j)) = k]
      BY <2>1 DEF Filter
    <2>3. \A j \in DOMAIN s : s[j] \in T /\ Cardinality(Until(j)) = k => j = i
      <3> SUFFICES ASSUME NEW j \in places, Cardinality(Until(j)) = k PROVE j = i
        OBVIOUS
      <3>1. ~ i < j /\ ~ j < i
        BY <1>4, <2>1
      <3>2. i \in Nat /\ j \in Nat
        OBVIOUS
      <3> QED BY <3>1, <3>2
    <2>4. (CHOOSE j \in DOMAIN s : s[j] \in T /\ Cardinality(Until(j)) = k) = i
      <3> HIDE DEF Until, k
      <3>1. i \in DOMAIN s /\ s[i] \in T /\ Cardinality(Until(i)) = k
        BY <2>1 DEF k
      <3> QED BY <2>3, <3>1
    <2> HIDE DEF list, Until
    <2> QED BY <2>1, <2>2, <2>4
  <1>9. \A i \in 1 .. n : s[i] \in T => s[i] \in Range(list)
    <2> HIDE DEF list, Until
    <2>1. DOMAIN list = 1 .. m
      BY <1>7
    <2> QED BY <1>8, <2>1 DEF Range
  <1> HIDE DEF list, m
  <1>10. list \in [1 .. m -> T]
    BY <1>6, <1>7
  <1>11. list \in Seq(T)
    BY <1>1, <1>10
  <1> QED BY <1>9, <1>11 DEF list

-----------------------------------------------------------------------------
(***************************************************************************)
(* What the network starts with.                                           *)
(***************************************************************************)
\* What the agents answer, from the start to the end.
Mibs == build_mib_trees(InitialNetwork)

\* Devices, access points, hosts and clients are told apart by their kinds.
LEMMA Kinds ==
    /\ \A x \in APs : x[1] = "ap" /\ Len(x) = 3
    /\ \A x \in Devices : x[1] # "ap"
    /\ \A x \in Clients : x[1] = "wl"
    /\ \A x \in Devices : x[1] # "wl" /\ x[1] # "ep"
    /\ Devices \cap APs = {}
    /\ Firewalls \cap FloorSwitches = {} /\ CoreSw \notin Firewalls /\ CoreSw \notin FloorSwitches
    /\ \A d \in FloorSwitches : d = FloorSw(d[2]) /\ d[2] \in Floors
  <1>1. \A x \in APs : x[1] = "ap" /\ Len(x) = 3
    BY DEF APs, Ap
  <1>2. \A x \in Devices : x[1] \in {"fg-primary", "fg-standby", "core-sw", "floor-sw"}
    BY DEF Devices, Firewalls, FgPrimary, FgStandby, CoreSw, FloorSwitches, FloorSw
  <1>3. \A x \in Clients : x[1] = "wl"
    BY DEF Clients, Client
  <1>4. Firewalls \cap FloorSwitches = {} /\ CoreSw \notin Firewalls /\ CoreSw \notin FloorSwitches
    BY DEF Firewalls, FgPrimary, FgStandby, CoreSw, FloorSwitches, FloorSw
  <1>5. \A d \in FloorSwitches : d = FloorSw(d[2]) /\ d[2] \in Floors
    BY DEF FloorSwitches, FloorSw
  <1> QED BY <1>1, <1>2, <1>3, <1>4, <1>5

\* What the network starts with, device by device.
LEMMA Starting ==
    /\ \A d \in Devices : InitialNetwork.lldp[d] =
          IF d \in Firewalls THEN FirewallNeighbors(d) ELSE IF d = CoreSw THEN CoreNeighbors ELSE FloorNeighbors(d[2])
    /\ \A d \in Devices : InitialNetwork.hosts[d] =
          IF d \in FloorSwitches THEN populate_wired_endpoints(d[2]) ELSE {}
    /\ \A ap \in APs : InitialNetwork.parent[ap] = [switch |-> FloorSw(FloorOf(ap)), port |-> Port(ap[3])]
    /\ \A c \in Clients : InitialNetwork.assoc[c] = InitialAp(c)
  BY DEF InitialNetwork

\* The neighbors of each device.
LEMMA NeighborsOfFirewalls ==
    ASSUME NEW d \in Firewalls
    PROVE  \E peer \in Firewalls, uplink \in {Port(1), Port(2)} :
             /\ peer # d
             /\ FirewallNeighbors(d) = {Neighbor(Port(5), CoreSw, uplink), Neighbor(HALink, peer, HALink)}
             /\ uplink = IF d = FgPrimary THEN Port(1) ELSE Port(2)
             /\ d = FgPrimary => peer = FgStandby
             /\ d = FgStandby => peer = FgPrimary
  <1>1. FgPrimary # FgStandby
    BY DEF FgPrimary, FgStandby
  <1>2. PICK peer \in Firewalls : peer # d
    BY <1>1 DEF Firewalls
  <1>3. peer = CHOOSE p \in Firewalls : p # d
    BY <1>2 DEF Firewalls
  <1>4. FirewallNeighbors(d) = {Neighbor(Port(5), CoreSw, IF d = FgPrimary THEN Port(1) ELSE Port(2)), Neighbor(HALink, peer, HALink)}
    BY <1>3 DEF FirewallNeighbors
  <1> QED BY <1>1, <1>2, <1>4 DEF Firewalls

\* A device that another lists as its neighbor lists it back, on the port told.
LEMMA NeighborsMutual ==
    ASSUME NEW d \in Devices, NEW r \in InitialNetwork.lldp[d]
    PROVE  /\ r = Neighbor(r.port, r.dev, r.remote) /\ r.dev \in Devices \cup APs
           /\ d \notin Firewalls => r.port = Port(r.port[2])
           /\ r.dev \in APs => d \in FloorSwitches
           /\ r.dev \in Devices => \E s \in InitialNetwork.lldp[r.dev] : s.dev = d /\ s.port = r.remote
  <1>1. CASE d \in Firewalls
    <2>1. PICK peer \in Firewalls, uplink \in {Port(1), Port(2)} :
             /\ FirewallNeighbors(d) = {Neighbor(Port(5), CoreSw, uplink), Neighbor(HALink, peer, HALink)}
             /\ uplink = IF d = FgPrimary THEN Port(1) ELSE Port(2)
             /\ d = FgPrimary => peer = FgStandby
             /\ d = FgStandby => peer = FgPrimary
      BY <1>1, NeighborsOfFirewalls
    <2>2. r \in {Neighbor(Port(5), CoreSw, uplink), Neighbor(HALink, peer, HALink)}
      BY <1>1, <2>1, Starting
    <2>3. r = Neighbor(r.port, r.dev, r.remote) /\ r.dev \in Devices
      BY <2>2 DEF Neighbor, Devices
    <2>4. CASE r = Neighbor(Port(5), CoreSw, uplink)
      <3>1. r.dev = CoreSw /\ r.remote = uplink
        BY <2>4 DEF Neighbor
      <3>2. InitialNetwork.lldp[CoreSw] = CoreNeighbors
        BY Starting, Kinds DEF Devices
      <3>3. Neighbor(uplink, d, Port(5)) \in CoreNeighbors
        BY <1>1, <2>1 DEF CoreNeighbors, Firewalls
      <3> QED BY <1>1, <2>3, <3>1, <3>2, <3>3, Kinds DEF Neighbor
    <2>5. CASE r = Neighbor(HALink, peer, HALink)
      <3>1. r.dev = peer /\ r.remote = HALink
        BY <2>5 DEF Neighbor
      <3>2. InitialNetwork.lldp[peer] = FirewallNeighbors(peer)
        BY Starting DEF Devices
      <3>3. Neighbor(HALink, d, HALink) \in FirewallNeighbors(peer)
        <4>1. PICK q \in Firewalls, up \in {Port(1), Port(2)} :
                 /\ FirewallNeighbors(peer) = {Neighbor(Port(5), CoreSw, up), Neighbor(HALink, q, HALink)}
                 /\ peer = FgPrimary => q = FgStandby
                 /\ peer = FgStandby => q = FgPrimary
          BY NeighborsOfFirewalls
        <4>2. q = d
          BY <1>1, <2>1, <4>1 DEF Firewalls
        <4> QED BY <4>1, <4>2
      <3> QED BY <1>1, <2>3, <3>1, <3>2, <3>3, Kinds DEF Neighbor
    <2> QED BY <2>2, <2>4, <2>5
  <1>2. CASE d = CoreSw
    <2>1. r \in CoreNeighbors
      BY <1>2, Starting, Kinds
    <2>2. CASE r \in {Neighbor(Port(1), FgPrimary, Port(5)), Neighbor(Port(2), FgStandby, Port(5))}
      <3>1. r = Neighbor(r.port, r.dev, r.remote) /\ r.dev \in Firewalls /\ r.remote = Port(5) /\ r.port = Port(r.port[2])
        BY <2>2 DEF Neighbor, Firewalls, Port
      <3>2. PICK peer, uplink :
               FirewallNeighbors(r.dev) = {Neighbor(Port(5), CoreSw, uplink), Neighbor(HALink, peer, HALink)}
        BY <3>1, NeighborsOfFirewalls
      <3>3. InitialNetwork.lldp[r.dev] = FirewallNeighbors(r.dev) /\ r.dev \in Devices
        BY <3>1, Starting DEF Devices
      <3>4. Neighbor(Port(5), CoreSw, uplink).dev = CoreSw /\ Neighbor(Port(5), CoreSw, uplink).port = Port(5)
        BY DEF Neighbor
      <3> QED BY <1>2, <3>1, <3>2, <3>3, <3>4, Kinds
    <2>3. ASSUME NEW f \in Floors, r = Neighbor(CorePort(f), FloorSw(f), Port(UPLINK))
          PROVE  /\ r = Neighbor(r.port, r.dev, r.remote) /\ r.dev \in Devices /\ r.port = Port(r.port[2])
                 /\ \E s \in InitialNetwork.lldp[r.dev] : s.dev = d /\ s.port = r.remote
      <3>1. r = Neighbor(r.port, r.dev, r.remote) /\ r.dev = FloorSw(f) /\ r.port = Port(r.port[2]) /\ r.remote = Port(UPLINK)
        BY <2>3 DEF Neighbor, Port, CorePort
      <3>2. FloorSw(f) \in FloorSwitches /\ FloorSw(f) \in Devices /\ FloorSw(f)[2] = f
        BY DEF FloorSwitches, Devices, FloorSw
      <3>3. InitialNetwork.lldp[FloorSw(f)] = FloorNeighbors(f)
        BY <3>2, Starting, Kinds
      <3>4. Neighbor(Port(UPLINK), CoreSw, CorePort(f)) \in FloorNeighbors(f)
        BY DEF FloorNeighbors
      <3> QED BY <1>2, <3>1, <3>2, <3>3, <3>4 DEF Neighbor
    <2> QED BY <1>2, <2>1, <2>2, <2>3, Kinds DEF CoreNeighbors
  <1>3. CASE d \in FloorSwitches
    <2> DEFINE f == d[2]
    <2>1. r \in FloorNeighbors(f) /\ f \in Floors /\ d = FloorSw(f)
      BY <1>3, Starting, Kinds
    <2>2. CASE r = Neighbor(Port(UPLINK), CoreSw, CorePort(f))
      <3>1. r = Neighbor(r.port, r.dev, r.remote) /\ r.dev = CoreSw /\ r.port = Port(r.port[2]) /\ r.remote = CorePort(f)
        BY <2>2 DEF Neighbor, Port, CorePort
      <3>2. InitialNetwork.lldp[CoreSw] = CoreNeighbors /\ CoreSw \in Devices
        BY Starting, Kinds DEF Devices
      <3>3. Neighbor(CorePort(f), d, Port(UPLINK)) \in CoreNeighbors
        BY <2>1 DEF CoreNeighbors
      <3> QED BY <3>1, <3>2, <3>3, Kinds DEF Neighbor
    <2>3. ASSUME NEW i \in 1 .. APS_PER_FLOOR, r = Neighbor(Port(i), Ap(f, i), Eth0)
          PROVE  r = Neighbor(r.port, r.dev, r.remote) /\ r.dev \in APs /\ r.port = Port(r.port[2])
      BY <2>1, <2>3 DEF Neighbor, Port, APs
    <2> QED BY <1>3, <2>1, <2>2, <2>3, Kinds DEF FloorNeighbors
  <1> QED BY <1>1, <1>2, <1>3 DEF Devices

\* The row of a neighbor table for a neighbor.
RowOf(d, r) == LldpRow(IF d \in Firewalls THEN FirewallIndex(r.port) ELSE r.port[2], NameOf(r.dev), r.remote)

\* Rows with different indexes are listed by their index.
LEMMA SortedRows ==
    ASSUME NEW rows, IsFiniteSet(rows), \A x \in rows : x.index \in Nat,
           \A x, y \in rows : x.index = y.index => x = y
    PROVE  ListOfAll(SortLldp(rows), rows)
  <1> DEFINE order == {p \in rows \X rows : p[1].index < p[2].index}
  <1>1. IsOrder(rows, order)
    <2>1. \A x, y \in rows : <<x, y>> \in order <=> x.index < y.index
      OBVIOUS
    <2>2. \A a, b \in Nat : a # b => a < b \/ b < a
      OBVIOUS
    <2>3. \A a, b, c \in Nat : a < b /\ b < c => a < c
      OBVIOUS
    <2>4. \A a \in Nat : ~(a < a)
      OBVIOUS
    <2> HIDE DEF order
    <2>5. \A x, y \in rows : x # y => <<x, y>> \in order \/ <<y, x>> \in order
      BY <2>1, <2>2
    <2>6. \A x, y, z \in rows : <<x, y>> \in order /\ <<y, z>> \in order => <<x, z>> \in order
      BY <2>1, <2>3
    <2>7. \A x \in rows : <<x, x>> \notin order
      BY <2>1, <2>4
    <2> QED BY <2>5, <2>6, <2>7 DEF IsOrder
  <1> HIDE DEF order
  <1> QED BY <1>1, OrderedList DEF order, SortLldp

-----------------------------------------------------------------------------
(***************************************************************************)
(* The neighbor tables of the agents list the neighbors, each once.        *)
(***************************************************************************)
\* The names of the devices keep their case, and are not those of access points.
LEMMA DeviceNames ==
    ASSUME NEW d \in Devices
    PROVE  NameOf(d) = SysName(d) /\ Upper(NameOf(d)) = SysName(d)
  <1>1. NameOf(d) = SysName(d)
    BY Kinds DEF NameOf
  <1> QED BY <1>1 DEF SysName, Upper

\* Firewalls list their neighbors.
LEMMA FirewallTables ==
    ASSUME NEW d \in Firewalls
    PROVE  ListOfAll(Mibs[d].lldp, {RowOf(d, r) : r \in InitialNetwork.lldp[d]})
  <1> DEFINE rows == {LldpRow(FirewallIndex(r.port), NameOf(r.dev), r.remote) :
                        r \in {q \in InitialNetwork.lldp[d] : FirewallIndex(q.port) # 0}}
             all == {RowOf(d, r) : r \in InitialNetwork.lldp[d]}
  <1>1. d \in Devices
    BY DEF Devices
  <1>2. PICK peer, uplink :
           FirewallNeighbors(d) = {Neighbor(Port(5), CoreSw, uplink), Neighbor(HALink, peer, HALink)}
    BY NeighborsOfFirewalls
  <1>3. InitialNetwork.lldp[d] = {Neighbor(Port(5), CoreSw, uplink), Neighbor(HALink, peer, HALink)}
    BY <1>1, <1>2, Starting
  <1>4. FirewallIndex(Port(5)) = 3 /\ FirewallIndex(HALink) = 4
    BY DEF FirewallIndex, Port, HALink
  <1>5. Mibs[d].lldp = SortLldp(rows)
    <2>1. Mibs[d].lldp = build_fortigate_lldp(InitialNetwork, d)
      BY <1>1 DEF Mibs, build_mib_trees
    <2>2. InitialNetwork.lldp[d] # {}
      BY <1>3
    <2> QED BY <2>1, <2>2 DEF build_fortigate_lldp
  <1> DEFINE one == LldpRow(3, NameOf(CoreSw), uplink)
             two == LldpRow(4, NameOf(peer), HALink)
  <1>6. rows = {one, two}
    <2>1. \A q \in InitialNetwork.lldp[d] : FirewallIndex(q.port) # 0
      BY <1>3, <1>4 DEF Neighbor
    <2>2. rows = {LldpRow(FirewallIndex(r.port), NameOf(r.dev), r.remote) : r \in InitialNetwork.lldp[d]}
      BY <2>1
    <2> HIDE DEF rows
    <2> QED BY <1>3, <1>4, <2>2 DEF Neighbor
  <1>7. all = {one, two}
    BY <1>3, <1>4 DEF RowOf, Neighbor
  <1>8. one.index = 3 /\ two.index = 4
    BY DEF LldpRow
  <1>9. IsFiniteSet({one, two})
    <2>1. IsFiniteSet({one}) /\ {one} \cup {two} = {one, two}
      BY FS_Singleton
    <2> HIDE DEF one, two
    <2> QED BY <2>1, FS_AddElement
  <1> HIDE DEF rows, all, one, two
  <1>10. \A x \in rows : x.index \in Nat
    BY <1>6, <1>8
  <1>11. \A x, y \in rows : x.index = y.index => x = y
    BY <1>6, <1>8
  <1>12. ListOfAll(SortLldp(rows), rows)
    BY <1>6, <1>9, <1>10, <1>11, SortedRows
  <1> QED BY <1>5, <1>6, <1>7, <1>12 DEF all

\* So does the core.
LEMMA CoreTable == ListOfAll(Mibs[CoreSw].lldp, {RowOf(CoreSw, r) : r \in InitialNetwork.lldp[CoreSw]})
  <1> DEFINE rows == {LldpRow(r.port[2], Upper(NameOf(r.dev)), r.remote) : r \in {q \in CoreNeighbors : HasIndex(q.port)}}
  <1>1. CoreSw \in Devices /\ CoreSw \notin Firewalls /\ InitialNetwork.lldp[CoreSw] = CoreNeighbors
    BY Starting, Kinds DEF Devices
  <1>2. CoreNeighbors # {}
    BY DEF CoreNeighbors
  <1>3. Mibs[CoreSw].lldp = SortLldp(rows)
    <2>1. Mibs[CoreSw].lldp = build_core_lldp(InitialNetwork)
      BY <1>1 DEF Mibs, build_mib_trees
    <2> QED BY <1>1, <1>2, <2>1 DEF build_core_lldp
  <1>4. \A r \in CoreNeighbors : HasIndex(r.port) /\ r.dev \in Devices /\ r.port[2] \in Nat
    <2>1. \A f \in Floors : FloorSw(f) \in Devices /\ f + 2 \in Nat
      BY NetworkAssumption DEF Floors, Devices, FloorSwitches
    <2> QED BY <2>1 DEF CoreNeighbors, Neighbor, HasIndex, Port, CorePort, Devices, Firewalls
  <1>5. rows = {RowOf(CoreSw, r) : r \in CoreNeighbors}
    <2>1. \A r \in CoreNeighbors :
             LldpRow(r.port[2], Upper(NameOf(r.dev)), r.remote) = RowOf(CoreSw, r) /\ HasIndex(r.port)
      BY <1>1, <1>4, DeviceNames DEF RowOf
    <2> HIDE DEF RowOf, HasIndex
    <2> QED BY <2>1
  <1>6. \A r, s \in CoreNeighbors : r.port[2] = s.port[2] => r = s
    <2>1. \A r \in CoreNeighbors :
             \/ r = Neighbor(Port(1), FgPrimary, Port(5)) /\ r.port[2] = 1
             \/ r = Neighbor(Port(2), FgStandby, Port(5)) /\ r.port[2] = 2
             \/ \E f \in Floors : r = Neighbor(CorePort(f), FloorSw(f), Port(UPLINK)) /\ r.port[2] = f + 2
      BY DEF CoreNeighbors, Neighbor, Port, CorePort
    <2>2. \A f, g \in Floors : f + 2 # 1 /\ f + 2 # 2 /\ (f + 2 = g + 2 => f = g)
      BY NetworkAssumption DEF Floors
    <2> QED BY <2>1, <2>2
  <1>7. IsFiniteSet(CoreNeighbors)
    <2> DEFINE link == [f \in Floors |-> Neighbor(CorePort(f), FloorSw(f), Port(UPLINK))]
               links == {Neighbor(CorePort(f), FloorSw(f), Port(UPLINK)) : f \in Floors}
    <2>1. IsFiniteSet(Floors)
      BY NetworkAssumption, FS_Interval DEF Floors
    <2>2. link \in Surjection(Floors, links)
      BY DEF Surjection
    <2>3. IsFiniteSet(links)
      BY <2>1, <2>2, FS_Surjection
    <2>4. CoreNeighbors = (links \cup {Neighbor(Port(1), FgPrimary, Port(5))}) \cup {Neighbor(Port(2), FgStandby, Port(5))}
      BY DEF CoreNeighbors
    <2> HIDE DEF links
    <2> QED BY <2>3, <2>4, FS_AddElement
  <1>8. IsFiniteSet(rows)
    <2> DEFINE row == [r \in CoreNeighbors |-> RowOf(CoreSw, r)]
               all == {RowOf(CoreSw, r) : r \in CoreNeighbors}
    <2>1. row \in Surjection(CoreNeighbors, all)
      BY DEF Surjection
    <2>2. IsFiniteSet(all)
      BY <1>7, <2>1, FS_Surjection
    <2> QED BY <1>5, <2>2
  <1> HIDE DEF rows
  <1>9. \A x \in rows : \E r \in CoreNeighbors : x = RowOf(CoreSw, r) /\ x.index = r.port[2]
    BY <1>1, <1>5 DEF RowOf, LldpRow
  <1>10. ListOfAll(SortLldp(rows), rows)
    BY <1>4, <1>6, <1>8, <1>9, SortedRows
  <1> QED BY <1>1, <1>3, <1>5, <1>10

\* So do the floor switches.
LEMMA FloorTables ==
    ASSUME NEW d \in FloorSwitches
    PROVE  ListOfAll(Mibs[d].lldp, {RowOf(d, r) : r \in InitialNetwork.lldp[d]})
  <1> DEFINE f == d[2]
             first == [i \in 1 .. APS_PER_FLOOR |-> LldpRow(i, ApName(Ap(f, i)), Eth0)]
             last == <<LldpRow(UPLINK, SysName(CoreSw), CorePort(f))>>
             table == first \o last
             A == APS_PER_FLOOR
  <1>1. d \in Devices /\ d \notin Firewalls /\ d # CoreSw /\ f \in Floors /\ d = FloorSw(f)
    BY Kinds DEF Devices
  <1>2. InitialNetwork.lldp[d] = FloorNeighbors(f)
    BY <1>1, Starting
  <1>3. A \in Nat
    BY NetworkAssumption
  <1>4. Mibs[d].lldp = table
    <2>1. Mibs[d].lldp = build_floor_lldp(InitialNetwork, f)
      BY <1>1 DEF Mibs, build_mib_trees
    <2> DEFINE Here(i) == {j \in 1 .. APS_PER_FLOOR : InitialNetwork.parent[Ap(f, j)].port = Port(i)}
               Name(i) == IF Here(i) = {} THEN <<"AP", f, i>>
                          ELSE ApName(Ap(f, CHOOSE j \in Here(i) : \A k \in Here(i) : k <= j))
    <2>2. ASSUME NEW i \in 1 .. APS_PER_FLOOR
          PROVE  Name(i) = ApName(Ap(f, i))
      <3>1. ASSUME NEW j \in 1 .. APS_PER_FLOOR
            PROVE  InitialNetwork.parent[Ap(f, j)].port = Port(j)
        <4>1. Ap(f, j) \in APs /\ Ap(f, j)[3] = j
          BY <1>1 DEF APs, Ap
        <4>2. InitialNetwork.parent[Ap(f, j)] = [switch |-> FloorSw(FloorOf(Ap(f, j))), port |-> Port(Ap(f, j)[3])]
          BY <4>1, Starting
        <4> QED BY <4>1, <4>2
      <3>2. Here(i) = {i}
        <4>1. \A j \in 1 .. APS_PER_FLOOR : Port(j) = Port(i) => j = i
          BY DEF Port
        <4> QED BY <3>1, <4>1
      <3>3. i <= i
        BY <1>3
      <3> HIDE DEF Here
      <3>4. (CHOOSE j \in Here(i) : \A k \in Here(i) : k <= j) = i
        BY <3>2, <3>3
      <3>5. Name(i) = IF Here(i) = {} THEN <<"AP", f, i>>
                      ELSE ApName(Ap(f, CHOOSE j \in Here(i) : \A k \in Here(i) : k <= j))
        BY DEF Here
      <3> HIDE DEF Name
      <3> QED BY <3>2, <3>4, <3>5
    <2>3. build_floor_lldp(InitialNetwork, f) = [i \in 1 .. APS_PER_FLOOR |-> LldpRow(i, Name(i), Eth0)] \o last
      BY DEF build_floor_lldp
    <2> HIDE DEF Name
    <2>4. [i \in 1 .. APS_PER_FLOOR |-> LldpRow(i, Name(i), Eth0)] = first
      BY <2>2
    <2> QED BY <2>1, <2>3, <2>4
  <1> DEFINE all == {RowOf(d, r) : r \in InitialNetwork.lldp[d]}
             low == {LldpRow(i, ApName(Ap(f, i)), Eth0) : i \in 1 .. A}
             top == LldpRow(UPLINK, SysName(CoreSw), CorePort(f))
  <1>5. all = low \cup {top}
    <2>1. RowOf(d, Neighbor(Port(UPLINK), CoreSw, CorePort(f))) = top
      <3>1. NameOf(CoreSw) = SysName(CoreSw)
        BY DeviceNames DEF Devices
      <3> QED BY <1>1, <3>1 DEF RowOf, Neighbor, Port
    <2>2. ASSUME NEW i \in 1 .. A
          PROVE  RowOf(d, Neighbor(Port(i), Ap(f, i), Eth0)) = LldpRow(i, ApName(Ap(f, i)), Eth0)
      <3>1. Ap(f, i) \in APs
        BY <1>1 DEF APs
      <3> QED BY <1>1, <3>1 DEF RowOf, Neighbor, Port, NameOf
    <2>3. InitialNetwork.lldp[d] = {Neighbor(Port(UPLINK), CoreSw, CorePort(f))}
                                   \cup {Neighbor(Port(i), Ap(f, i), Eth0) : i \in 1 .. A}
      BY <1>2 DEF FloorNeighbors
    <2> HIDE DEF RowOf, f, top
    <2> QED BY <2>1, <2>2, <2>3
  <1> DEFINE set == low \cup {top}
  <1>6. first \in Seq(set) /\ last \in Seq(set) /\ Len(last) = 1 /\ last[1] = top
    <2>1. first \in [1 .. A -> set] /\ last = <<top>> /\ top \in set
      OBVIOUS
    <2> HIDE DEF first, last, set, top
    <2>2. first \in Seq(set)
      BY <1>3, <2>1
    <2> QED BY <2>1, <2>2
  <1>7. Range(first) = low
    BY DEF Range
  <1>8. Range(last) = {top}
    <2>1. last = <<top>>
      OBVIOUS
    <2> HIDE DEF top, last
    <2> QED BY <2>1 DEF Range
  <1> HIDE DEF first, last, set
  <1>9. table \in Seq(low \cup {top}) /\ Range(table) = low \cup {top}
    BY <1>6, <1>7, <1>8, ConcatProperties, RangeConcatenation DEF set
  <1> HIDE DEF table, low, top, all
  <1>10. ListOfAll(table, low \cup {top})
    BY <1>9, LenProperties DEF ListOfAll
  <1> QED BY <1>4, <1>5, <1>10 DEF all

\* Every agent lists the neighbors that its device started with.
LEMMA NeighborTables ==
    ASSUME NEW d \in Devices
    PROVE  ListOfAll(Mibs[d].lldp, {RowOf(d, r) : r \in InitialNetwork.lldp[d]})
  BY FirewallTables, CoreTable, FloorTables DEF Devices

\* The number of an access point is its place.
LEMMA ApsByNumber ==
    ASSUME NEW ap \in APs
    PROVE  /\ ApNumber(ap[2], ap[3]) \in 1 .. TotalAps
           /\ ApAt(ApNumber(ap[2], ap[3])) = ap
  <1>1. PICK f \in Floors, i \in 1 .. APS_PER_FLOOR : ap = Ap(f, i)
    BY DEF APs
  <1> DEFINE A == APS_PER_FLOOR
             g == f - 1
             j == i - 1
  <1>2. A \in Nat \ {0} /\ TOTAL_FLOORS \in Nat \ {0} /\ g \in Nat /\ g <= TOTAL_FLOORS - 1 /\ j \in 0 .. A - 1
    BY NetworkAssumption DEF Floors
  <1>3. ap[2] = f /\ ap[3] = i /\ ApNumber(f, i) - 1 = g * A + j /\ ApNumber(f, i) \in Int
    BY <1>1, <1>2 DEF Ap, ApNumber
  <1> HIDE DEF g, j, A
  <1>4. (g * A + j) % A = j /\ (g * A + j) \div A = g
    BY <1>2, Z3
  <1>5. g * A + j \in Nat /\ g * A + j < TOTAL_FLOORS * A
    <2>1. g * A \in Nat /\ TOTAL_FLOORS * A \in Nat
      BY <1>2
    <2>2. g * A <= (TOTAL_FLOORS - 1) * A
      BY <1>2
    <2>3. (TOTAL_FLOORS - 1) * A = TOTAL_FLOORS * A - A
      BY <1>2
    <2> QED BY <1>2, <2>1, <2>2, <2>3
  <1>6. ApNumber(f, i) \in 1 .. TotalAps
    BY <1>2, <1>3, <1>5 DEF TotalAps, A
  <1>7. ApAt(ApNumber(f, i)) = Ap(g + 1, j + 1)
    BY <1>3, <1>4 DEF ApAt, A
  <1>8. g + 1 = f /\ j + 1 = i
    BY NetworkAssumption DEF g, j, Floors
  <1> QED BY <1>1, <1>3, <1>6, <1>7, <1>8

-----------------------------------------------------------------------------
(***************************************************************************)
(* The names in them tell the neighbors.                                   *)
(***************************************************************************)
\* A name that was heard, if at all, of the device or access point x.
Named(name, x) == name \in {NameOf(x), Unknown}

\* A neighbor is taken for the device whose name was heard, or for none.
LEMMA Resolving ==
    ASSUME NEW x \in Devices \cup APs, NEW name, Named(name, x), _resolve_device_id(name) # NoId
    PROVE  x \in Devices /\ _resolve_device_id(name) = x
  <1> DEFINE d == _resolve_device_id(name)
  <1>1. d \in Devices /\ Upper(SysName(d)) = name
    BY DEF _resolve_device_id
  <1>2. name = SysName(d)
    BY <1>1 DEF SysName, Upper
  <1>3. name = NameOf(x)
    <2>1. NameOf(d) = SysName(d) /\ Unknown # NameOf(d)
      BY <1>1, DeviceNames, MibsAssumption
    <2> QED BY <1>2, <2>1 DEF Named
  <1>4. x \notin APs
    BY <1>2, <1>3 DEF NameOf, ApName, SysName
  <1>5. NameOf(x) = SysName(x)
    BY <1>4, DeviceNames
  <1> HIDE DEF d
  <1> QED BY <1>2, <1>3, <1>4, <1>5 DEF SysName, d

\* So is an access point.
LEMMA ApsResolved ==
    ASSUME NEW x \in Devices \cup APs, NEW name, Named(name, x), _ap_device_id_from_name(name) # NoId
    PROVE  x \in APs /\ _ap_device_id_from_name(name) = x
  <1>1. name # Unknown /\ name[1] = "FortiAP" /\ _ap_device_id_from_name(name) = ApAt(name[2])
    BY DEF _ap_device_id_from_name
  <1>2. name = NameOf(x)
    BY <1>1 DEF Named
  <1>3. x \in APs
    BY <1>1, <1>2 DEF NameOf, SysName
  <1>4. name[2] = ApNumber(x[2], x[3])
    BY <1>2, <1>3 DEF NameOf, ApName
  <1> QED BY <1>1, <1>3, <1>4, ApsByNumber

\* The hosts of a floor are finitely many, each on one port, of a wired VLAN.
LEMMA HostsOfFloor ==
    ASSUME NEW f \in Floors
    PROVE  /\ IsFiniteSet(populate_wired_endpoints(f))
           /\ \A h \in populate_wired_endpoints(f) :
                 /\ h = [port |-> h.port, host |-> h.host]
                 /\ h.port = Port(h.port[2]) /\ h.port[2] \in Nat
                 /\ h.host = Host(h.host[2], f, h.host[4]) /\ h.host[2] \in WIRED_VLANS /\ h.host[4] \in Nat
           /\ \A g, h \in populate_wired_endpoints(f) : g.host = h.host => g = h
  <1> DEFINE Count(v) == per_floor_count(v, f)
             first(v) == PORT_RANGES[v][1]
             ports(v) == PORT_RANGES[v][2] - PORT_RANGES[v][1] + 1
             number(v, i) == first(v) + (i % ports(v))
             RowAt(v, i) == [port |-> Port(number(v, i)), host |-> Host(v, f, i)]
             Of(v) == {RowAt(v, i) : i \in 0 .. Count(v) - 1}
             groups == {Of(v) : v \in WIRED_VLANS}
             all == populate_wired_endpoints(f)
  <1>1. all = UNION groups
    BY DEF populate_wired_endpoints
  <1>2. ASSUME NEW v \in WIRED_VLANS
        PROVE  Count(v) \in Nat
    <2>1. ENDPOINT_COUNTS[v] \in Nat /\ TOTAL_FLOORS \in Nat \ {0}
      BY NetworkAssumption
    <2>2. ENDPOINT_COUNTS[v] \div TOTAL_FLOORS \in Nat
      BY <2>1
    <2> QED BY <2>2 DEF per_floor_count
  <1>3. ASSUME NEW v \in WIRED_VLANS, NEW i \in Nat
        PROVE  number(v, i) \in Nat
    <2>1. first(v) \in Nat /\ ports(v) \in Nat \ {0}
      BY MibsAssumption
    <2> HIDE DEF first, ports
    <2>2. i % ports(v) \in Nat
      BY <2>1, Quotients
    <2> QED BY <2>1, <2>2
  <1> HIDE DEF Count, number
  <1>4. IsFiniteSet(groups)
    <2> DEFINE group == [v \in WIRED_VLANS |-> Of(v)]
    <2>1. group \in Surjection(WIRED_VLANS, groups)
      BY DEF Surjection
    <2> QED BY <2>1, FS_Surjection, MibsAssumption
  <1>5. ASSUME NEW v \in WIRED_VLANS
        PROVE  IsFiniteSet(Of(v))
    <2> DEFINE numbers == 0 .. Count(v) - 1
               row == [i \in numbers |-> RowAt(v, i)]
    <2>1. IsFiniteSet(numbers)
      BY <1>2, FS_Interval
    <2>2. row \in Surjection(numbers, Of(v))
      BY DEF Surjection
    <2> QED BY <2>1, <2>2, FS_Surjection
  <1>6. IsFiniteSet(all)
    <2> HIDE DEF Of, groups
    <2>1. \A group \in groups : IsFiniteSet(group)
      BY <1>5 DEF groups
    <2> QED BY <1>1, <1>4, <2>1, FS_UNION
  <1>7. ASSUME NEW h \in all
        PROVE  \E v \in WIRED_VLANS, i \in Nat : h = RowAt(v, i)
    <2>1. PICK v \in WIRED_VLANS : h \in Of(v)
      BY <1>1
    <2>2. PICK i \in 0 .. Count(v) - 1 : h = RowAt(v, i)
      BY <2>1
    <2> QED BY <1>2, <2>2
  <1>8. ASSUME NEW h \in all
        PROVE  /\ h = [port |-> h.port, host |-> h.host]
               /\ h.port = Port(h.port[2]) /\ h.port[2] \in Nat
               /\ h.host = Host(h.host[2], f, h.host[4]) /\ h.host[2] \in WIRED_VLANS /\ h.host[4] \in Nat
               /\ h.port = Port(number(h.host[2], h.host[4]))
    <2>1. PICK v \in WIRED_VLANS, i \in Nat : h = RowAt(v, i)
      BY <1>7
    <2>2. h.port = Port(number(v, i)) /\ h.host = Host(v, f, i) /\ h = [port |-> h.port, host |-> h.host]
      BY <2>1
    <2>3. h.host[2] = v /\ h.host[4] = i
      BY <2>2 DEF Host
    <2>4. h.port[2] = number(v, i)
      BY <2>2 DEF Port
    <2> QED BY <1>3, <2>2, <2>3, <2>4
  <1>9. \A g, h \in all : g.host = h.host => g = h
    <2> HIDE DEF all
    <2> QED BY <1>8
  <1> HIDE DEF all
  <1> QED BY <1>6, <1>8, <1>9 DEF all

-----------------------------------------------------------------------------
(***************************************************************************)
(* The address tables of the floor switches list the hosts, each once.     *)
(***************************************************************************)
\* The row of a host, in the address and in the bridge table.
HostRow(h) == [index |-> h.port[2], host |-> h.host]

\* The hosts of a floor are listed, each once.
LEMMA HostsListed ==
    ASSUME NEW d \in FloorSwitches
    PROVE  LET list == HostRows(InitialNetwork, d)
               rows == {HostRow(h) : h \in InitialNetwork.hosts[d]}
           IN /\ ListOfAll(list, rows)
              /\ \A i, j \in DOMAIN list : list[i] = list[j] => i = j
  <1> DEFINE hosts == InitialNetwork.hosts[d]
             rows == {HostRow(h) : h \in hosts}
             order == {p \in rows \X rows : HostBefore(p[1], p[2])}
             list == HostRows(InitialNetwork, d)
  <1>1. d \in Devices /\ d[2] \in Floors /\ hosts = populate_wired_endpoints(d[2])
    BY Kinds, Starting DEF Devices
  <1>2. IsFiniteSet(hosts)
    BY <1>1, HostsOfFloor
  <1>3. ASSUME NEW h \in hosts
        PROVE  /\ h.port[2] \in Nat /\ h.host = Host(h.host[2], d[2], h.host[4])
               /\ h.host[2] \in Nat /\ h.host[4] \in Nat
    <2>1. h.host[2] \in WIRED_VLANS /\ h.port[2] \in Nat /\ h.host[4] \in Nat /\ h.host = Host(h.host[2], d[2], h.host[4])
      BY <1>1, HostsOfFloor
    <2>2. WIRED_VLANS \subseteq Nat
      BY MibsAssumption DEF VLANS
    <2> QED BY <2>1, <2>2
  <1> HIDE DEF hosts
  <1>4. IsFiniteSet(rows)
    <2> DEFINE row == [h \in hosts |-> HostRow(h)]
    <2>1. row \in Surjection(hosts, rows)
      BY DEF Surjection
    <2> QED BY <1>2, <2>1, FS_Surjection
  <1>5. ASSUME NEW x \in rows
        PROVE  /\ x = [index |-> x.index, host |-> x.host] /\ x.index \in Nat
               /\ x.host = Host(x.host[2], d[2], x.host[4]) /\ x.host[2] \in Nat /\ x.host[4] \in Nat
    <2>1. PICK h \in hosts : x = HostRow(h)
      OBVIOUS
    <2>2. x.index = h.port[2] /\ x.host = h.host /\ x = [index |-> x.index, host |-> x.host]
      BY <2>1 DEF HostRow
    <2> QED BY <1>3, <2>2
  <1> HIDE DEF rows
  <1>6. IsOrder(rows, order)
    <2>1. \A x, y \in rows : <<x, y>> \in order <=> HostBefore(x, y)
      OBVIOUS
    <2> HIDE DEF order
    <2>2. ASSUME NEW x \in rows, NEW y \in rows, x # y
          PROVE  HostBefore(x, y) \/ HostBefore(y, x)
      <3>1. x.index # y.index \/ x.host[2] # y.host[2] \/ x.host[4] # y.host[4]
        BY <1>5, <2>2
      <3>2. /\ x.index \in Nat /\ x.host[2] \in Nat /\ x.host[4] \in Nat
            /\ y.index \in Nat /\ y.host[2] \in Nat /\ y.host[4] \in Nat
        BY <1>5
      <3> QED BY <3>1, <3>2 DEF HostBefore
    <2>3. ASSUME NEW x \in rows, NEW y \in rows, NEW z \in rows, HostBefore(x, y), HostBefore(y, z)
          PROVE  HostBefore(x, z)
      <3>1. /\ x.index \in Nat /\ x.host[2] \in Nat /\ x.host[4] \in Nat
            /\ y.index \in Nat /\ y.host[2] \in Nat /\ y.host[4] \in Nat
            /\ z.index \in Nat /\ z.host[2] \in Nat /\ z.host[4] \in Nat
        BY <1>5
      <3> QED BY <2>3, <3>1 DEF HostBefore
    <2>4. ASSUME NEW x \in rows
          PROVE  ~HostBefore(x, x)
      <3>1. x.index \in Nat /\ x.host[2] \in Nat /\ x.host[4] \in Nat
        BY <1>5
      <3> QED BY <3>1 DEF HostBefore
    <2>5. \A x, y \in rows : x # y => <<x, y>> \in order \/ <<y, x>> \in order
      BY <2>1, <2>2
    <2>6. \A x, y, z \in rows : <<x, y>> \in order /\ <<y, z>> \in order => <<x, z>> \in order
      BY <2>1, <2>3
    <2>7. \A x \in rows : <<x, x>> \notin order
      BY <2>1, <2>4
    <2> QED BY <2>5, <2>6, <2>7 DEF IsOrder
  <1>7. list = InOrder(rows, order)
    BY DEF HostRows, HostRow, rows, hosts
  <1> HIDE DEF order, list
  <1>8. ListOfAll(list, rows) /\ \A i, j \in DOMAIN list : list[i] = list[j] => i = j
    BY <1>4, <1>6, <1>7, OrderedList
  <1> QED BY <1>8 DEF list, rows, hosts

\* Both tables of a floor switch list its access points, and each of its hosts
\* once.
LEMMA HostTables ==
    ASSUME NEW d \in FloorSwitches
    PROVE  /\ Mibs[d].arp = Mibs[d].fdb /\ Len(Mibs[d].arp) \in Nat
           /\ \A h \in InitialNetwork.hosts[d] : \E i \in 1 .. Len(Mibs[d].arp) : Mibs[d].arp[i] = HostRow(h)
           /\ \A i \in 1 .. Len(Mibs[d].arp) :
                 \/ Mibs[d].arp[i].host \in APs
                 \/ \E h \in InitialNetwork.hosts[d] : Mibs[d].arp[i] = HostRow(h)
           /\ \A i, j \in 1 .. Len(Mibs[d].arp) :
                 Mibs[d].arp[i].host \notin APs /\ Mibs[d].arp[i].host = Mibs[d].arp[j].host => i = j
  <1> DEFINE f == d[2]
             low == ApRows(f)
             high == HostRows(InitialNetwork, d)
             table == low \o high
             A == APS_PER_FLOOR
             m == Len(high)
             rows == {HostRow(h) : h \in InitialNetwork.hosts[d]}
  <1>1. d \in Devices /\ d = FloorSw(f) /\ f \in Floors /\ d \notin Firewalls /\ d # CoreSw
        /\ InitialNetwork.hosts[d] = populate_wired_endpoints(f)
    BY Kinds, Starting DEF Devices
  <1>2. Mibs[d].arp = table /\ Mibs[d].fdb = table
    BY <1>1 DEF Mibs, build_mib_trees, build_floor_hosts
  <1>3. A \in Nat
    BY NetworkAssumption
  <1>4. ListOfAll(high, rows) /\ \A i, j \in DOMAIN high : high[i] = high[j] => i = j
    BY HostsListed
  <1>5. low \in [1 .. A -> Range(low)] /\ \A i \in 1 .. A : low[i].host = Ap(f, i)
    BY DEF ApRows, Range
  <1>6. \A g, h \in InitialNetwork.hosts[d] : HostRow(g).host = HostRow(h).host => HostRow(g) = HostRow(h)
    <2>1. \A h \in InitialNetwork.hosts[d] : HostRow(h).host = h.host
      BY DEF HostRow
    <2>2. \A g, h \in InitialNetwork.hosts[d] : g.host = h.host => g = h
      BY <1>1, HostsOfFloor
    <2> QED BY <2>1, <2>2
  <1>7. \A h \in InitialNetwork.hosts[d] : HostRow(h).host \notin APs
    <2>1. \A h \in InitialNetwork.hosts[d] : HostRow(h).host[1] = "ep"
      BY <1>1, HostsOfFloor DEF Host, HostRow
    <2> QED BY <2>1, Kinds
  <1> HIDE DEF low, high
  <1>8. low \in Seq(Range(low)) /\ Len(low) = A
    <2>1. low \in Seq(Range(low)) /\ DOMAIN low = 1 .. A
      BY <1>3, <1>5
    <2>2. DOMAIN low = 1 .. Len(low) /\ Len(low) \in Nat
      BY <2>1, LenProperties
    <2>3. \A k \in Nat : 1 .. k = 1 .. A => k = A
      BY <1>3
    <2> QED BY <2>1, <2>2, <2>3
  <1>9. high \in Seq(rows) /\ m \in Nat /\ DOMAIN high = 1 .. m /\ \A i \in 1 .. m : high[i] \in rows
    <2>1. high \in Seq(rows) /\ m \in Nat /\ DOMAIN high = 1 .. m
      BY <1>4 DEF ListOfAll
    <2> QED BY <2>1
  <1> DEFINE set == Range(low) \cup rows
  <1>10. low \in Seq(set) /\ high \in Seq(set)
    BY <1>8, <1>9
  <1> HIDE DEF rows, set
  <1>11. Len(table) = A + m /\ \A i \in 1 .. A + m : table[i] = IF i <= A THEN low[i] ELSE high[i - A]
    BY <1>8, <1>10, ConcatProperties
  <1> HIDE DEF table
  <1>12. \A i \in 1 .. A : table[i].host \in APs
    <2>1. ASSUME NEW i \in 1 .. A
          PROVE  table[i].host = Ap(f, i)
      <3>1. i \in 1 .. A + m /\ i <= A
        BY <1>3, <1>9
      <3> QED BY <1>5, <1>11, <3>1
    <2> QED BY <1>1, <2>1 DEF APs
  <1>13. ASSUME NEW i \in 1 .. A + m, ~(i <= A)
         PROVE  i - A \in 1 .. m /\ table[i] = high[i - A] /\ \E h \in InitialNetwork.hosts[d] : table[i] = HostRow(h)
    <2>1. i - A \in 1 .. m /\ table[i] = high[i - A]
      BY <1>3, <1>9, <1>11, <1>13
    <2>2. high[i - A] \in rows
      BY <1>9, <2>1
    <2> QED BY <2>1, <2>2 DEF rows
  <1>14. \A i \in 1 .. A + m : table[i].host \in APs \/ \E h \in InitialNetwork.hosts[d] : table[i] = HostRow(h)
    <2> SUFFICES ASSUME NEW i \in 1 .. A + m, ~(i <= A)
                 PROVE  \E h \in InitialNetwork.hosts[d] : table[i] = HostRow(h)
      BY <1>3, <1>9, <1>12
    <2> QED BY <1>13
  <1>15. ASSUME NEW i \in 1 .. A + m, NEW j \in 1 .. A + m, table[i].host \notin APs, table[i].host = table[j].host
         PROVE  i = j
    <2>1. ~(i <= A) /\ ~(j <= A)
      BY <1>3, <1>9, <1>12, <1>15
    <2>2. i - A \in 1 .. m /\ j - A \in 1 .. m /\ table[i] = high[i - A] /\ table[j] = high[j - A]
      BY <1>13, <2>1
    <2>3. table[i] = table[j]
      BY <1>6, <1>13, <1>15, <2>1
    <2>4. i - A = j - A
      BY <1>4, <1>9, <2>2, <2>3
    <2> QED BY <1>3, <2>4
  <1>16. A + m \in Nat
    BY <1>3, <1>9
  <1>17. ASSUME NEW h \in InitialNetwork.hosts[d]
         PROVE  \E i \in 1 .. A + m : table[i] = HostRow(h)
    <2>1. Range(high) = rows
      BY <1>4 DEF ListOfAll
    <2>2. HostRow(h) \in rows
      BY DEF rows
    <2>3. PICK k \in 1 .. m : high[k] = HostRow(h)
      BY <1>9, <2>1, <2>2 DEF Range
    <2>4. A + k \in 1 .. A + m /\ ~(A + k <= A) /\ (A + k) - A = k
      BY <1>3, <1>9
    <2>5. table[A + k] = HostRow(h)
      BY <1>11, <2>3, <2>4
    <2> QED BY <2>4, <2>5
  <1> QED BY <1>2, <1>11, <1>14, <1>15, <1>16, <1>17

-----------------------------------------------------------------------------
(***************************************************************************)
(* The stations, and what a walk hears.                                    *)
(***************************************************************************)
\* The stations are the clients, each once, with the access point it started on.
LEMMA Stations ==
    LET stas == Mibs[FgPrimary].stas
    IN /\ Len(stas) \in Nat
       /\ \A i \in 1 .. Len(stas) :
             /\ stas[i].mac \in Clients /\ stas[i].vlan = stas[i].mac[2]
             /\ stas[i].ap_name = NameOf(InitialNetwork.assoc[stas[i].mac])
       /\ \A i, j \in 1 .. Len(stas) : stas[i].mac = stas[j].mac => i = j
       /\ \A c \in Clients : \E i \in 1 .. Len(stas) : stas[i].mac = c
  <1> DEFINE order == {p \in Clients \X Clients : ClientBefore(p[1], p[2])}
             list == InOrder(Clients, order)
             n == Len(list)
             stas == Mibs[FgPrimary].stas
             Row(i) == [mac |-> list[i], ap_name |-> ApName(InitialNetwork.assoc[list[i]]), vlan |-> list[i][2]]
  <1>1. ASSUME NEW c \in Clients
        PROVE  c = Client(c[2], c[3]) /\ c[2] \in Nat /\ c[3] \in Nat
    <2>1. PICK v \in WIRELESS_VLANS : \E i \in 0 .. ENDPOINT_COUNTS[v] - 1 : c = Client(v, i)
      BY DEF Clients
    <2> PICK i \in 0 .. ENDPOINT_COUNTS[v] - 1 : c = Client(v, i)
      BY <2>1
    <2>2. i \in Nat /\ v \in Nat
      BY NetworkAssumption, MibsAssumption DEF VLANS
    <2>3. c[2] = v /\ c[3] = i
      BY DEF Client
    <2> QED BY <2>2, <2>3
  <1>2. IsOrder(Clients, order)
    <2>1. \A x, y \in Clients : <<x, y>> \in order <=> ClientBefore(x, y)
      OBVIOUS
    <2> HIDE DEF order
    <2>2. ASSUME NEW x \in Clients, NEW y \in Clients, x # y
          PROVE  ClientBefore(x, y) \/ ClientBefore(y, x)
      BY <1>1, <2>2 DEF ClientBefore
    <2>3. ASSUME NEW x \in Clients, NEW y \in Clients, NEW z \in Clients, ClientBefore(x, y), ClientBefore(y, z)
          PROVE  ClientBefore(x, z)
      <3>1. x[2] \in Nat /\ x[3] \in Nat /\ y[2] \in Nat /\ y[3] \in Nat /\ z[2] \in Nat /\ z[3] \in Nat
        BY <1>1
      <3> QED BY <2>3, <3>1 DEF ClientBefore
    <2>4. ASSUME NEW x \in Clients
          PROVE  ~ClientBefore(x, x)
      BY <1>1 DEF ClientBefore
    <2>5. \A x, y \in Clients : x # y => <<x, y>> \in order \/ <<y, x>> \in order
      BY <2>1, <2>2
    <2>6. \A x, y, z \in Clients : <<x, y>> \in order /\ <<y, z>> \in order => <<x, z>> \in order
      BY <2>1, <2>3
    <2>7. \A x \in Clients : <<x, x>> \notin order
      BY <2>1, <2>4
    <2> QED BY <2>5, <2>6, <2>7 DEF IsOrder
  <1>3. stas = [i \in DOMAIN list |-> Row(i)]
    <2>1. FgPrimary \in Devices
      BY DEF Devices, Firewalls
    <2>2. Mibs[FgPrimary].stas = build_wireless_sta_entries(InitialNetwork)
      BY <2>1 DEF Mibs, build_mib_trees
    <2> QED BY <2>2 DEF build_wireless_sta_entries
  <1> HIDE DEF order, list, stas
  <1>4. ListOfAll(list, Clients) /\ \A i, j \in DOMAIN list : list[i] = list[j] => i = j
    BY <1>2, ClientsAreFinite, OrderedList DEF list
  <1>5. n \in Nat /\ DOMAIN list = 1 .. n /\ \A i \in 1 .. n : list[i] \in Clients
    BY <1>4 DEF ListOfAll
  <1>6. \A i \in 1 .. n : stas[i] = Row(i)
    BY <1>3, <1>5
  <1>7. Len(stas) = n
    <2> DEFINE all == {Row(i) : i \in 1 .. n}
    <2> HIDE DEF Row
    <2>1. stas \in [1 .. n -> all]
      BY <1>3, <1>5
    <2> HIDE DEF all, n
    <2>2. stas \in Seq(all) /\ DOMAIN stas = 1 .. n
      BY <1>5, <2>1
    <2>3. DOMAIN stas = 1 .. Len(stas) /\ Len(stas) \in Nat
      BY <2>2, LenProperties
    <2>4. \A k \in Nat : 1 .. k = 1 .. n => k = n
      BY <1>5
    <2> QED BY <2>2, <2>3, <2>4
  <1> HIDE DEF n
  <1>8. ASSUME NEW i \in 1 .. n
        PROVE  /\ stas[i].mac = list[i] /\ stas[i].vlan = stas[i].mac[2] /\ stas[i].mac \in Clients
               /\ stas[i].ap_name = NameOf(InitialNetwork.assoc[stas[i].mac])
    <2>1. InitialNetwork.assoc[list[i]] \in APs
      BY <1>5, Starting, Dealing
    <2>2. NameOf(InitialNetwork.assoc[list[i]]) = ApName(InitialNetwork.assoc[list[i]])
      BY <2>1 DEF NameOf
    <2>3. stas[i] = [mac |-> list[i], ap_name |-> ApName(InitialNetwork.assoc[list[i]]), vlan |-> list[i][2]]
      BY <1>6
    <2>4. stas[i].mac = list[i] /\ stas[i].ap_name = ApName(InitialNetwork.assoc[list[i]]) /\ stas[i].vlan = list[i][2]
      BY <2>3
    <2> QED BY <1>5, <2>2, <2>4
  <1> HIDE DEF Row
  <1>9. \A i, j \in 1 .. n : stas[i].mac = stas[j].mac => i = j
    BY <1>4, <1>5, <1>8
  <1>10. \A c \in Clients : \E i \in 1 .. n : stas[i].mac = c
    <2>1. Range(list) = Clients
      BY <1>4 DEF ListOfAll
    <2> QED BY <1>5, <1>8, <2>1 DEF Range
  <1> QED BY <1>5, <1>7, <1>8, <1>9, <1>10 DEF stas

\* A walk hears at most all of its table.
LEMMA Walks ==
    ASSUME NEW d, NEW cut, NEW h \in Hearings(d, cut), NEW w \in DOMAIN Lengths(d), Lengths(d)[w] \in Nat
    PROVE  h[w] \in 0 .. Lengths(d)[w]
  <1> DEFINE n == Lengths(d)
             Below(W) == {g \in [W -> UNION {0 .. n[x] - 1 : x \in W}] : \A x \in W : g[x] < n[x]}
  <1> DEFINE HeardWith(W) == {[x \in DOMAIN n |-> IF x \in W THEN g[x] ELSE n[x]] : g \in Below(W)}
             cuts == {V \in SUBSET DOMAIN n : Cardinality(V) = cut}
  <1>0. Hearings(d, cut) = UNION {HeardWith(W) : W \in cuts}
    BY DEF Hearings
  <1>1. PICK W \in SUBSET DOMAIN n : \E g \in Below(W) : h = [x \in DOMAIN n |-> IF x \in W THEN g[x] ELSE n[x]]
    <2>1. PICK W \in cuts : h \in HeardWith(W)
      <3> HIDE DEF HeardWith, cuts
      <3> QED BY <1>0
    <2> QED BY <2>1
  <1> PICK g \in Below(W) : h = [x \in DOMAIN n |-> IF x \in W THEN g[x] ELSE n[x]]
    BY <1>1
  <1> HIDE DEF n
  <1>2. CASE w \in W
    <2>1. h[w] = g[w] /\ g[w] < n[w] /\ g[w] \in UNION {0 .. n[x] - 1 : x \in W}
      BY <1>2 DEF n
    <2>2. g[w] \in Nat
      BY <2>1
    <2> QED BY <2>1, <2>2 DEF n
  <1>3. CASE w \notin W
    BY <1>3 DEF n
  <1> QED BY <1>2, <1>3

-----------------------------------------------------------------------------
(***************************************************************************)
(* What a discovery collects is of the network that the agents answer for. *)
(***************************************************************************)
\* What device d may have reported of its neighbor r.
Reported(d, r, remote, name) ==
    [source |-> d, sport |-> Port(RowOf(d, r).index), tport |-> remote,
     name |-> name, target |-> _resolve_device_id(name)]

ReportsOf(d) ==
    UNION {{Reported(d, r, remote, name) : remote \in {r.remote, Unknown}, name \in {NameOf(r.dev), Unknown}} :
              r \in InitialNetwork.lldp[d]}

Reports == UNION {ReportsOf(d) : d \in Devices}

\* The first rows of a table.
FirstRows(t, rows) == \E n \in 0 .. Len(rows) : t = [i \in 1 .. n |-> rows[i]]

\* Ports of hosts as a table lists them.
PortsOf(t, rows) ==
    \A m \in Range(t) :
        m.port # 0 => \E i \in 1 .. Len(rows) : m.mac = rows[i].host /\ m.port = rows[i].index

\* The first stations of a table, each perhaps without its VLAN or its access
\* point.
FirstStations(s, rows) ==
    \E n \in 0 .. Len(rows) :
        /\ DOMAIN s = 1 .. n
        /\ \A i \in 1 .. n :
              /\ s[i].mac = rows[i].mac
              /\ s[i].ap_name \in {rows[i].ap_name, Unknown} /\ s[i].vlan \in {rows[i].vlan, Unknown}

\* What a discovery has collected is of the network.
Collected(f) ==
    /\ f.edges \in Seq(Reports)
    /\ \A d \in FloorSwitches : FirstRows(f.arp[d], Mibs[d].arp) /\ PortsOf(f.mac[d], Mibs[d].arp)
    /\ FirstStations(f.stas, Mibs[FgPrimary].stas)

\* A walk of the neighbors of a device collects reports of it.
LEMMA NeighborsWalked ==
    ASSUME NEW d \in Devices, NEW chassis \in 0 .. Len(Mibs[d].lldp), NEW ports, NEW names
    PROVE  Edges(d, walk_lldp_neighbors(Mibs[d].lldp, chassis, ports, names)) \in Seq(Reports)
  <1> DEFINE t == Mibs[d].lldp
             walked == walk_lldp_neighbors(t, chassis, ports, names)
             edges == Edges(d, walked)
  <1>1. ListOfAll(t, {RowOf(d, r) : r \in InitialNetwork.lldp[d]})
    BY NeighborTables
  <1> HIDE DEF t
  <1>2. ASSUME NEW i \in 1 .. chassis
        PROVE  edges[i] \in Reports
    <2>1. i \in DOMAIN t
      BY <1>1 DEF ListOfAll, t
    <2>2. PICK r \in InitialNetwork.lldp[d] : t[i] = RowOf(d, r)
      BY <1>1, <2>1 DEF ListOfAll, Range
    <2> DEFINE remote == Cell(ports, t, 1, i, t[i].remote)
               name == Cell(names, t, 1, i, t[i].name)
    <2>3. edges[i] = [source |-> d, sport |-> Port(t[i].index), tport |-> remote,
                      name |-> name, target |-> _resolve_device_id(name)]
      <3>1. walked[i] = [local |-> Port(t[i].index), remote |-> remote, name |-> name]
        BY DEF walk_lldp_neighbors
      <3>2. i \in DOMAIN walked
        BY DEF walk_lldp_neighbors
      <3> HIDE DEF remote, name, walked
      <3> QED BY <3>1, <3>2 DEF Edges
    <2>4. t[i].remote = r.remote /\ t[i].name = NameOf(r.dev)
      BY <2>2 DEF RowOf, LldpRow
    <2>5. remote \in {r.remote, Unknown} /\ name \in {NameOf(r.dev), Unknown}
      BY <2>4 DEF Cell
    <2> HIDE DEF remote, name, edges
    <2>6. edges[i] = Reported(d, r, remote, name)
      BY <2>2, <2>3 DEF Reported
    <2>7. Reported(d, r, remote, name) \in ReportsOf(d)
      BY <2>5 DEF ReportsOf
    <2> QED BY <2>6, <2>7 DEF Reports
  <1>3. edges = [i \in 1 .. chassis |-> edges[i]]
    BY DEF Edges, walk_lldp_neighbors
  <1>4. chassis \in Nat
    BY <1>1 DEF ListOfAll, t
  <1> HIDE DEF edges
  <1>5. edges \in [1 .. chassis -> Reports]
    BY <1>2, <1>3
  <1>6. edges \in Seq(Reports)
    BY <1>4, <1>5
  <1> QED BY <1>6 DEF edges, t

\* A walk of the stations hears of the first ones.
LEMMA StationsWalked ==
    ASSUME NEW h \in Nat
    PROVE  FirstStations(walk_sta_table(Mibs[FgPrimary].stas, h), Mibs[FgPrimary].stas)
  <1> DEFINE rows == Mibs[FgPrimary].stas
             n == IF h < Len(rows) THEN h ELSE Len(rows)
             s == walk_sta_table(rows, h)
  <1>1. n \in 0 .. Len(rows)
    BY Stations
  <1> HIDE DEF rows
  <1>2. DOMAIN s = 1 .. n
    BY DEF walk_sta_table
  <1>3. ASSUME NEW i \in 1 .. n
        PROVE  /\ s[i].mac = rows[i].mac
               /\ s[i].ap_name \in {rows[i].ap_name, Unknown} /\ s[i].vlan \in {rows[i].vlan, Unknown}
    <2> DEFINE ap_name == Cell(h, rows, 4, i, rows[i].ap_name)
               vlan == Cell(h, rows, 5, i, rows[i].vlan)
    <2>1. s[i] = [mac |-> rows[i].mac, ap_name |-> ap_name, vlan |-> vlan]
      BY DEF walk_sta_table
    <2>2. ap_name \in {rows[i].ap_name, Unknown} /\ vlan \in {rows[i].vlan, Unknown}
      BY DEF Cell
    <2> HIDE DEF ap_name, vlan
    <2> QED BY <2>1, <2>2
  <1> HIDE DEF n, s
  <1> QED BY <1>1, <1>2, <1>3 DEF rows, s, FirstStations

\* The agents answer for the network that they were started with, devices are
\* queued, and what is collected is of that network.
FoundFields == {"devices", "edges", "aps", "stas", "routes", "arp", "mac"}

DiscoveryInv ==
    /\ mib = Mibs /\ queue \in Seq(Devices)
    /\ found = [w \in FoundFields |-> found[w]]
    /\ found.arp = [d \in Devices |-> found.arp[d]] /\ found.mac = [d \in Devices |-> found.mac[d]]
    /\ Collected(found)

\* Nothing is collected at first.
LEMMA NothingCollected ==
    /\ <<Seed>> \in Seq(Devices)
    /\ NothingFound = [w \in FoundFields |-> NothingFound[w]]
    /\ NothingFound.arp = [d \in Devices |-> NothingFound.arp[d]]
    /\ NothingFound.mac = [d \in Devices |-> NothingFound.mac[d]]
    /\ Collected(NothingFound)
  <1>1. Seed \in Devices
    BY DEF Seed, Devices, Firewalls
  <1>2. \A s : <<>> = [i \in 1 .. 0 |-> s[i]]
    OBVIOUS
  <1>3. 0 \in 0 .. Len(Mibs[FgPrimary].stas)
    BY Stations
  <1>4. ASSUME NEW d \in FloorSwitches
        PROVE  FirstRows(NothingFound.arp[d], Mibs[d].arp) /\ PortsOf(NothingFound.mac[d], Mibs[d].arp)
    <2>1. 0 \in 0 .. Len(Mibs[d].arp)
      BY HostTables
    <2>2. NothingFound.arp[d] = <<>> /\ NothingFound.mac[d] = <<>>
      BY DEF NothingFound, Devices
    <2>3. NothingFound.arp[d] = [i \in 1 .. 0 |-> Mibs[d].arp[i]]
      BY <1>2, <2>2
    <2>4. Range(NothingFound.mac[d]) = {}
      BY <2>2 DEF Range
    <2> QED BY <2>1, <2>3, <2>4 DEF FirstRows, PortsOf
  <1>5. NothingFound.edges = <<>> /\ NothingFound.stas = <<>>
    BY DEF NothingFound
  <1>6. Collected(NothingFound)
    <2>1. DOMAIN NothingFound.stas = 1 .. 0 /\ NothingFound.edges \in Seq(Reports)
      BY <1>5
    <2>2. FirstStations(NothingFound.stas, Mibs[FgPrimary].stas)
      BY <1>3, <2>1 DEF FirstStations
    <2> QED BY <1>4, <2>1, <2>2 DEF Collected
  <1>7. /\ NothingFound.arp = [d \in Devices |-> NothingFound.arp[d]]
        /\ NothingFound.mac = [d \in Devices |-> NothingFound.mac[d]]
    BY DEF NothingFound
  <1>8. NothingFound = [w \in FoundFields |-> NothingFound[w]]
    BY DEF NothingFound, FoundFields
  <1> QED BY <1>1, <1>6, <1>7, <1>8

\* The first discovery starts so.
LEMMA DiscoveryStarting == Init => DiscoveryInv
  BY NothingCollected DEF Init, DiscoveryInv, NetInit, Mibs

\* A walk of a device collects what its agent answers.
LEMMA Walking == ASSUME DiscoveryInv, WalkDevice PROVE DiscoveryInv'
  <1> DEFINE d == Current
             tree == Mibs[d]
  <1>1. d \in Devices /\ Tail(queue) \in Seq(Devices)
    BY DEF DiscoveryInv, WalkDevice, Current
  <1>2. PICK cut \in 0 .. losses : \E h \in Hearings(d, cut) :
           LET edges == Edges(d, walk_lldp_neighbors(tree.lldp, h.chassis, h.ports, h.names))
           IN /\ found' = [found EXCEPT
                     !.devices = Append(@, d),
                     !.edges = @ \o edges,
                     !.arp[d] = walk_arp_table(tree.arp, h.arp),
                     !.mac[d] = walk_mac_table(tree.fdb, h.addrs, h.bridge),
                     !.aps = IF d = FgPrimary THEN walk_ap_table(tree.aps, h.aps) ELSE @,
                     !.stas = IF d = FgPrimary THEN walk_sta_table(tree.stas, h.stas) ELSE @,
                     !.routes = IF d = FgPrimary THEN walk_route_table(tree.routes, h.routes) ELSE @]
              /\ queue' = Tail(queue) \o Queued(edges, visited \cup {d})
    BY DEF WalkDevice, DiscoveryInv
  <1> PICK h \in Hearings(d, cut) :
           LET edges == Edges(d, walk_lldp_neighbors(tree.lldp, h.chassis, h.ports, h.names))
           IN /\ found' = [found EXCEPT
                     !.devices = Append(@, d),
                     !.edges = @ \o edges,
                     !.arp[d] = walk_arp_table(tree.arp, h.arp),
                     !.mac[d] = walk_mac_table(tree.fdb, h.addrs, h.bridge),
                     !.aps = IF d = FgPrimary THEN walk_ap_table(tree.aps, h.aps) ELSE @,
                     !.stas = IF d = FgPrimary THEN walk_sta_table(tree.stas, h.stas) ELSE @,
                     !.routes = IF d = FgPrimary THEN walk_route_table(tree.routes, h.routes) ELSE @]
              /\ queue' = Tail(queue) \o Queued(edges, visited \cup {d})
    BY <1>2
  <1> DEFINE edges == Edges(d, walk_lldp_neighbors(tree.lldp, h.chassis, h.ports, h.names))
             arp == walk_arp_table(tree.arp, h.arp)
             mac == walk_mac_table(tree.fdb, h.addrs, h.bridge)
             stas == walk_sta_table(tree.stas, h.stas)
  <1>3. /\ found' = [w \in FoundFields |-> found'[w]]
        /\ found'.edges = found.edges \o edges
        /\ found'.arp = [found.arp EXCEPT ![d] = arp]
        /\ found'.mac = [found.mac EXCEPT ![d] = mac]
        /\ found'.stas = IF d = FgPrimary THEN stas ELSE found.stas
        /\ queue' = Tail(queue) \o Queued(edges, visited \cup {d})
    <2>1. found = [w \in FoundFields |-> found[w]]
      BY DEF DiscoveryInv
    <2> HIDE DEF d, tree, edges, arp, mac, stas
    <2> QED BY <2>1 DEF FoundFields, edges, arp, mac, stas
  <1>4. /\ DOMAIN Lengths(d) = {"chassis", "ports", "names", "arp", "addrs", "bridge", "aps", "stas", "routes"}
        /\ Lengths(d).chassis = Len(tree.lldp) /\ Lengths(d).arp = Len(tree.arp)
        /\ Lengths(d).addrs = Len(tree.fdb) /\ Lengths(d).stas = 5 * Len(tree.stas)
    BY DEF Lengths, DiscoveryInv
  <1> HIDE DEF d
  <1>5. edges \in Seq(Reports) /\ DOMAIN edges = 1 .. Len(edges) /\ Len(edges) \in Nat
    <2>1. Len(tree.lldp) \in Nat
      BY <1>1, NeighborTables DEF ListOfAll
    <2>2. h.chassis \in 0 .. Len(tree.lldp)
      BY <1>4, <2>1, Walks
    <2> HIDE DEF edges
    <2>3. edges \in Seq(Reports)
      BY <1>1, <2>2, NeighborsWalked DEF edges
    <2> QED BY <2>3, LenProperties
  <1> HIDE DEF edges, tree, arp, mac, stas
  <1>6. queue' \in Seq(Devices)
    <2> DEFINE targets == [i \in DOMAIN edges |-> edges[i].target]
               seen == visited \cup {d}
    <2>1. Queued(edges, seen) = Filter(targets, Devices \ seen)
      BY DEF Queued
    <2>2. DOMAIN targets = 1 .. Len(edges)
      BY <1>5
    <2> HIDE DEF targets, seen
    <2>3. Filter(targets, Devices \ seen) \in Seq(Devices \ seen)
      BY <1>5, <2>2, Filtered
    <2>4. Queued(edges, seen) \in Seq(Devices)
      BY <2>1, <2>3
    <2>5. queue' = Tail(queue) \o Queued(edges, seen)
      BY <1>3 DEF seen
    <2> QED BY <1>1, <2>4, <2>5, ConcatProperties
  <1>7. found'.edges \in Seq(Reports)
    <2> DEFINE old == found.edges
    <2>1. old \in Seq(Reports)
      BY DEF DiscoveryInv, Collected
    <2>2. found'.edges = old \o edges
      BY <1>3
    <2> HIDE DEF old
    <2>3. old \o edges \in Seq(Reports)
      BY <1>5, <2>1, ConcatProperties
    <2> QED BY <2>2, <2>3
  <1>8. ASSUME NEW e \in FloorSwitches
        PROVE  FirstRows(found'.arp[e], Mibs[e].arp) /\ PortsOf(found'.mac[e], Mibs[e].arp)
    <2>1. CASE e # d
      <3>1. e \in DOMAIN found.arp /\ e \in DOMAIN found.mac
        BY DEF DiscoveryInv, Devices
      <3>2. found'.arp[e] = found.arp[e] /\ found'.mac[e] = found.mac[e]
        <4>1. found'.arp = [found.arp EXCEPT ![d] = arp] /\ found'.mac = [found.mac EXCEPT ![d] = mac]
          BY <1>3
        <4> QED BY <2>1, <3>1, <4>1
      <3>3. FirstRows(found.arp[e], Mibs[e].arp) /\ PortsOf(found.mac[e], Mibs[e].arp)
        BY DEF DiscoveryInv, Collected
      <3> QED BY <3>2, <3>3
    <2>2. CASE e = d
      <3>1. found'.arp[e] = arp /\ found'.mac[e] = mac
        BY <1>1, <1>3, <2>2 DEF DiscoveryInv
      <3>2. tree.arp = tree.fdb /\ Len(tree.arp) \in Nat
        BY <2>2, HostTables DEF tree
      <3>3. h.arp \in 0 .. Len(tree.arp) /\ h.addrs \in 0 .. Len(tree.arp)
        BY <1>4, <3>2, Walks
      <3>4. arp = [i \in 1 .. h.arp |-> tree.arp[i]]
        BY DEF arp, walk_arp_table
      <3>5. \A m \in Range(mac) : \E i \in 1 .. h.addrs : m.mac = tree.arp[i].host /\ m.port \in {tree.arp[i].index, 0}
        <4>1. mac = [i \in 1 .. h.addrs |->
                        [mac |-> tree.arp[i].host, port |-> IF i <= h.bridge THEN tree.arp[i].index ELSE 0]]
          BY <3>2 DEF mac, walk_mac_table
        <4> QED BY <4>1 DEF Range
      <3>6. \A i \in 1 .. h.addrs : i \in 1 .. Len(tree.arp)
        BY <3>2, <3>3
      <3>7. FirstRows(arp, tree.arp)
        BY <3>3, <3>4 DEF FirstRows
      <3>8. PortsOf(mac, tree.arp)
        BY <3>5, <3>6 DEF PortsOf
      <3> QED BY <2>2, <3>1, <3>7, <3>8 DEF tree
    <2> QED BY <2>1, <2>2
  <1>9. FirstStations(found'.stas, Mibs[FgPrimary].stas)
    <2>1. CASE d = FgPrimary
      <3>1. 5 * Len(tree.stas) \in Nat
        BY <2>1, Stations DEF tree
      <3>2. h.stas \in Nat
        BY <1>4, <3>1, Walks
      <3>3. found'.stas = walk_sta_table(Mibs[FgPrimary].stas, h.stas)
        BY <1>3, <2>1 DEF stas, tree
      <3> QED BY <3>2, <3>3, StationsWalked
    <2>2. CASE d # FgPrimary
      BY <1>3, <2>2 DEF DiscoveryInv, Collected
    <2> QED BY <2>1, <2>2
  <1>10. Collected(found')
    BY <1>7, <1>8, <1>9 DEF Collected
  <1>11. /\ found'.arp = [e \in Devices |-> found'.arp[e]]
         /\ found'.mac = [e \in Devices |-> found'.mac[e]]
    <2>1. found'.arp = [found.arp EXCEPT ![d] = arp] /\ found'.mac = [found.mac EXCEPT ![d] = mac]
      BY <1>3
    <2>2. found.arp = [e \in Devices |-> found.arp[e]] /\ found.mac = [e \in Devices |-> found.mac[e]]
      BY DEF DiscoveryInv
    <2> QED BY <2>1, <2>2
  <1>12. mib' = Mibs
    BY DEF WalkDevice, DiscoveryInv
  <1> QED BY <1>3, <1>6, <1>10, <1>11, <1>12 DEF DiscoveryInv, Collected

\* No other step collects anything but the start of the next discovery.
LEMMA DiscoveryStep == ASSUME DiscoveryInv, [Next]_vars PROVE DiscoveryInv'
  <1>1. CASE WalkDevice
    BY <1>1, Walking
  <1>2. CASE Unreachable \/ SkipVisited
    <2>1. queue' = Tail(queue) /\ queue # <<>> /\ UNCHANGED <<mib, found>>
      BY <1>2 DEF Unreachable, SkipVisited
    <2>2. queue' \in Seq(Devices)
      BY <2>1 DEF DiscoveryInv
    <2> QED BY <2>1, <2>2 DEF DiscoveryInv, Collected
  <1>3. CASE FinishPoll
    <2>1. queue' = <<Seed>> /\ found' = NothingFound /\ mib' = mib
      BY <1>3 DEF FinishPoll, Begin
    <2> QED BY <2>1, NothingCollected DEF DiscoveryInv, Collected
  <1>4. CASE EditNetwork \/ UNCHANGED vars
    <2>1. UNCHANGED <<mib, queue, found>>
      BY <1>4 DEF EditNetwork, discoveryVars, vars
    <2> QED BY <2>1 DEF DiscoveryInv, Collected
  <1> QED BY <1>1, <1>2, <1>3, <1>4 DEF Next, poll_once

-----------------------------------------------------------------------------
(***************************************************************************)
(* The edges built from it are links of the network.                       *)
(***************************************************************************)
\* An edge is a link of the network, on the ports that it names.
Real(e) ==
    /\ Linked(e.source, e.target)
    /\ e.source \in Devices \ Firewalls => Hangs(e.source, e.target, e.sport)
    /\ e.target \in Devices /\ e.tport # Unknown => Hangs(e.target, e.source, e.tport)

\* A report is of a neighbor.
LEMMA OfNeighbor ==
    ASSUME NEW e \in Reports
    PROVE  \E d \in Devices : \E r \in InitialNetwork.lldp[d] :
              /\ r.dev \in Devices \cup APs /\ (r.dev \in APs => d \in FloorSwitches)
              /\ e.source = d /\ (d \notin Firewalls => e.sport = r.port)
              /\ e.tport \in {r.remote, Unknown}
              /\ Named(e.name, r.dev) /\ e.target = _resolve_device_id(e.name)
  <1>1. PICK d \in Devices : e \in ReportsOf(d)
    BY DEF Reports
  <1> DEFINE Of(r) == {Reported(d, r, remote, name) : remote \in {r.remote, Unknown}, name \in {NameOf(r.dev), Unknown}}
  <1>2. PICK r \in InitialNetwork.lldp[d] : e \in Of(r)
    <2>1. e \in UNION {Of(r) : r \in InitialNetwork.lldp[d]}
      BY <1>1 DEF ReportsOf
    <2> HIDE DEF Of
    <2> QED BY <2>1
  <1>3. PICK remote \in {r.remote, Unknown}, name \in {NameOf(r.dev), Unknown} : e = Reported(d, r, remote, name)
    BY <1>2
  <1>4. /\ e.source = d /\ e.sport = Port(RowOf(d, r).index) /\ e.tport = remote
        /\ e.name = name /\ e.target = _resolve_device_id(name)
    BY <1>3 DEF Reported
  <1>5. r.dev \in Devices \cup APs /\ (r.dev \in APs => d \in FloorSwitches) /\ (d \notin Firewalls => r.port = Port(r.port[2]))
    BY NeighborsMutual
  <1>6. d \notin Firewalls => RowOf(d, r).index = r.port[2]
    BY DEF RowOf, LldpRow
  <1> HIDE DEF Of
  <1> QED BY <1>3, <1>4, <1>5, <1>6 DEF Named

\* So a link between devices is one,
LEMMA DeviceLinks ==
    ASSUME NEW f, Collected(f), NEW e \in LldpEdges(f)
    PROVE  Real(e)
  <1>1. PICK i \in DOMAIN f.edges :
           /\ f.edges[i].target # NoId
           /\ e = Link(f.edges[i].source, f.edges[i].sport, f.edges[i].target, f.edges[i].tport)
    BY DEF LldpEdges, Firsts
  <1> DEFINE heard == f.edges[i]
  <1>2. heard \in Reports
    BY DEF Collected
  <1> HIDE DEF heard
  <1>3. PICK d \in Devices : \E r \in InitialNetwork.lldp[d] :
           /\ r.dev \in Devices \cup APs /\ (r.dev \in APs => d \in FloorSwitches)
           /\ heard.source = d /\ (d \notin Firewalls => heard.sport = r.port)
           /\ heard.tport \in {r.remote, Unknown}
           /\ Named(heard.name, r.dev) /\ heard.target = _resolve_device_id(heard.name)
    BY <1>2, OfNeighbor
  <1> PICK r \in InitialNetwork.lldp[d] :
           /\ r.dev \in Devices \cup APs /\ (r.dev \in APs => d \in FloorSwitches)
           /\ heard.source = d /\ (d \notin Firewalls => heard.sport = r.port)
           /\ heard.tport \in {r.remote, Unknown}
           /\ Named(heard.name, r.dev) /\ heard.target = _resolve_device_id(heard.name)
    BY <1>3
  <1>4. r.dev \in Devices /\ heard.target = r.dev
    BY <1>1, Resolving DEF heard
  <1>5. e.source = d /\ e.target = r.dev /\ e.sport = heard.sport /\ e.tport = heard.tport
    BY <1>1, <1>4 DEF Link, heard
  <1>6. Linked(d, r.dev)
    BY DEF Linked
  <1>7. d \notin Firewalls => Hangs(d, r.dev, heard.sport)
    BY DEF Hangs
  <1>8. heard.tport # Unknown => Hangs(r.dev, d, heard.tport)
    <2>1. \E s \in InitialNetwork.lldp[r.dev] : s.dev = d /\ s.port = r.remote
      BY <1>4, NeighborsMutual
    <2> QED BY <2>1 DEF Hangs
  <1> QED BY <1>5, <1>6, <1>7, <1>8 DEF Real

\* a link of an access point,
LEMMA ApLinks ==
    ASSUME NEW f, Collected(f), NEW e \in ApEdges(f)
    PROVE  Real(e)
  <1>1. PICK i \in DOMAIN f.edges :
           /\ ap_name_to_id(f, f.edges[i].name) # NoId
           /\ e = Link(f.edges[i].source, f.edges[i].sport, ap_name_to_id(f, f.edges[i].name), f.edges[i].tport)
    BY DEF ApEdges, Firsts
  <1> DEFINE heard == f.edges[i]
  <1>2. heard \in Reports
    BY DEF Collected
  <1> HIDE DEF heard
  <1>3. PICK d \in Devices : \E r \in InitialNetwork.lldp[d] :
           /\ r.dev \in Devices \cup APs /\ (r.dev \in APs => d \in FloorSwitches)
           /\ heard.source = d /\ (d \notin Firewalls => heard.sport = r.port)
           /\ heard.tport \in {r.remote, Unknown}
           /\ Named(heard.name, r.dev) /\ heard.target = _resolve_device_id(heard.name)
    BY <1>2, OfNeighbor
  <1> PICK r \in InitialNetwork.lldp[d] :
           /\ r.dev \in Devices \cup APs /\ (r.dev \in APs => d \in FloorSwitches)
           /\ heard.source = d /\ (d \notin Firewalls => heard.sport = r.port)
           /\ heard.tport \in {r.remote, Unknown}
           /\ Named(heard.name, r.dev) /\ heard.target = _resolve_device_id(heard.name)
    BY <1>3
  <1>4. ap_name_to_id(f, heard.name) = _ap_device_id_from_name(heard.name) /\ _ap_device_id_from_name(heard.name) # NoId
    BY <1>1 DEF ap_name_to_id, heard
  <1>5. r.dev \in APs /\ ap_name_to_id(f, heard.name) = r.dev
    BY <1>4, ApsResolved
  <1>6. e.source = d /\ e.target = r.dev /\ e.sport = heard.sport
    BY <1>1, <1>5 DEF Link, heard
  <1>7. r.dev \notin Devices
    BY <1>5, Kinds
  <1>8. Linked(d, r.dev)
    BY DEF Linked
  <1>9. d \notin Firewalls => Hangs(d, r.dev, heard.sport)
    BY DEF Hangs
  <1> QED BY <1>6, <1>7, <1>8, <1>9 DEF Real

\* A row that was heard of is that of a host of the floor,
LEMMA RowsOfHosts ==
    ASSUME NEW f, Collected(f), NEW d \in FloorSwitches
    PROVE  \E n \in Nat :
              /\ DOMAIN f.arp[d] = 1 .. n
              /\ \A i \in 1 .. n : f.arp[d][i].host \notin APs =>
                    \E h \in InitialNetwork.hosts[d] : f.arp[d][i] = HostRow(h)
              /\ \A i, j \in 1 .. n :
                    f.arp[d][i].host \notin APs /\ f.arp[d][i].host = f.arp[d][j].host => i = j
  <1> DEFINE rows == Mibs[d].arp
  <1>1. PICK n \in 0 .. Len(rows) : f.arp[d] = [i \in 1 .. n |-> rows[i]]
    BY DEF Collected, FirstRows
  <1>2. /\ Len(rows) \in Nat
        /\ \A i \in 1 .. Len(rows) : rows[i].host \in APs \/ \E h \in InitialNetwork.hosts[d] : rows[i] = HostRow(h)
        /\ \A i, j \in 1 .. Len(rows) : rows[i].host \notin APs /\ rows[i].host = rows[j].host => i = j
    BY HostTables
  <1> HIDE DEF rows
  <1>3. n \in Nat /\ \A i \in 1 .. n : i \in 1 .. Len(rows) /\ f.arp[d][i] = rows[i]
    BY <1>1, <1>2
  <1>4. DOMAIN f.arp[d] = 1 .. n
    BY <1>1
  <1>5. \A i \in 1 .. n : f.arp[d][i].host \notin APs => \E h \in InitialNetwork.hosts[d] : f.arp[d][i] = HostRow(h)
    BY <1>2, <1>3
  <1>6. \A i, j \in 1 .. n : f.arp[d][i].host \notin APs /\ f.arp[d][i].host = f.arp[d][j].host => i = j
    BY <1>2, <1>3
  <1> QED BY <1>3, <1>4, <1>5, <1>6

\* and shows it on its port: the bridge table has no other.
LEMMA BridgePorts ==
    ASSUME NEW f, Collected(f), NEW d \in FloorSwitches, NEW r \in WiredRows(f, d)
    PROVE  \E h \in InitialNetwork.hosts[d] : r = HostRow(h) /\ bridge_port(f, d, r) = h.port
  <1>1. PICK h \in InitialNetwork.hosts[d] : r = HostRow(h)
    BY RowsOfHosts DEF WiredRows, Range
  <1>2. d[2] \in Floors /\ InitialNetwork.hosts[d] = populate_wired_endpoints(d[2])
    BY Kinds, Starting DEF Devices
  <1>3. h.port = Port(h.port[2]) /\ \A g \in InitialNetwork.hosts[d] : g.host = h.host => g = h
    BY <1>2, HostsOfFloor
  <1>4. r.host = h.host /\ r.index = h.port[2]
    BY <1>1 DEF HostRow
  <1>5. r.host \notin APs
    BY DEF WiredRows
  <1> DEFINE heard == {m \in Range(f.mac[d]) : m.mac = r.host /\ m.port # 0}
  <1>6. ASSUME NEW m \in heard
        PROVE  Port(m.port) = h.port
    <2>1. PICK i \in 1 .. Len(Mibs[d].arp) : m.mac = Mibs[d].arp[i].host /\ m.port = Mibs[d].arp[i].index
      BY DEF Collected, PortsOf
    <2>2. PICK g \in InitialNetwork.hosts[d] : Mibs[d].arp[i] = HostRow(g)
      BY <1>5, <2>1, HostTables
    <2>3. g.host = h.host /\ m.port = g.port[2]
      BY <1>4, <2>1, <2>2 DEF HostRow
    <2> QED BY <1>3, <2>3
  <1>7. bridge_port(f, d, r) = h.port
    <2>1. CASE heard = {}
      BY <1>3, <1>4, <2>1 DEF bridge_port
    <2>2. CASE heard # {}
      <3>1. bridge_port(f, d, r) = Port((CHOOSE m \in heard : TRUE).port)
        BY <2>2 DEF bridge_port
      <3>2. (CHOOSE m \in heard : TRUE) \in heard
        BY <2>2
      <3> HIDE DEF heard
      <3> QED BY <1>6, <3>1, <3>2
    <2> QED BY <2>1, <2>2
  <1> QED BY <1>1, <1>7

\* So is a link of a wired host one,
LEMMA HostLinks ==
    ASSUME NEW f, Collected(f), NEW e \in WiredEdges(f)
    PROVE  Real(e)
  <1>1. PICK d \in FloorSwitches : e \in {Link(d, bridge_port(f, d, r), r.host, Unknown) : r \in WiredRows(f, d)}
    BY DEF WiredEdges
  <1>2. PICK r \in WiredRows(f, d) : e = Link(d, bridge_port(f, d, r), r.host, Unknown)
    BY <1>1
  <1>3. PICK h \in InitialNetwork.hosts[d] : r = HostRow(h) /\ bridge_port(f, d, r) = h.port
    BY BridgePorts
  <1>4. e.source = d /\ e.sport = h.port /\ e.target = h.host /\ e.tport = Unknown
    BY <1>2, <1>3 DEF Link, HostRow
  <1>5. d \in Devices
    BY DEF Devices
  <1>6. Linked(d, h.host) /\ Hangs(d, h.host, h.port)
    BY <1>5 DEF Linked, Hangs
  <1> QED BY <1>4, <1>6 DEF Real

\* and that of a client.
LEMMA ClientLinks ==
    ASSUME NEW f, Collected(f), NEW e \in ClientEdges(f)
    PROVE  Real(e)
  <1> DEFINE rows == Mibs[FgPrimary].stas
  <1>1. PICK c \in Range(f.stas) :
           ap_name_to_id(f, c.ap_name) # NoId /\ e = Link(ap_name_to_id(f, c.ap_name), Unknown, c.mac, Unknown)
    BY DEF ClientEdges
  <1>2. PICK n \in 0 .. Len(rows) :
           /\ DOMAIN f.stas = 1 .. n
           /\ \A i \in 1 .. n : f.stas[i].mac = rows[i].mac /\ f.stas[i].ap_name \in {rows[i].ap_name, Unknown}
    BY DEF Collected, FirstStations
  <1>3. PICK i \in 1 .. n : c = f.stas[i]
    BY <1>1, <1>2 DEF Range
  <1>4. i \in 1 .. Len(rows)
    BY <1>2, <1>3, Stations
  <1>5. rows[i].mac \in Clients /\ rows[i].ap_name = NameOf(InitialNetwork.assoc[rows[i].mac])
    BY <1>4, Stations
  <1> DEFINE ap == InitialNetwork.assoc[c.mac]
  <1>6. c.mac \in Clients /\ Named(c.ap_name, ap)
    BY <1>2, <1>3, <1>5 DEF Named
  <1>7. ap \in APs
    BY <1>6, Starting, Dealing
  <1>8. ap_name_to_id(f, c.ap_name) = _ap_device_id_from_name(c.ap_name) /\ _ap_device_id_from_name(c.ap_name) # NoId
    BY <1>1 DEF ap_name_to_id
  <1>9. ap_name_to_id(f, c.ap_name) = ap
    BY <1>6, <1>7, <1>8, ApsResolved
  <1>10. e.source = ap /\ e.target = c.mac
    BY <1>1, <1>9 DEF Link
  <1>11. ap \notin Devices /\ c.mac \notin Devices
    BY <1>6, <1>7, Kinds
  <1>12. Linked(ap, c.mac)
    BY <1>6 DEF Linked
  <1> QED BY <1>10, <1>11, <1>12 DEF Real

\* There is no other edge.
LEMMA RealEdges ==
    ASSUME NEW f, Collected(f)
    PROVE  \A e \in build_l2(f).edges : Real(e)
  BY DeviceLinks, ApLinks, HostLinks, ClientLinks DEF build_l2

-----------------------------------------------------------------------------
(***************************************************************************)
(* Its layers count the same members.                                      *)
(***************************************************************************)
\* What is counted one for one is as many.
LEMMA OneForOne ==
    ASSUME NEW S, IsFiniteSet(S), NEW T, NEW g \in [S -> T],
           \A x, y \in S : g[x] = g[y] => x = y, \A t \in T : \E x \in S : g[x] = t
    PROVE  Cardinality(T) = Cardinality(S)
  <1>1. g \in Bijection(S, T)
    BY Fun_IsBij
  <1>2. ExistsBijection(S, T)
    BY <1>1 DEF ExistsBijection
  <1> QED BY <1>2, FS_Bijection

\* The nodes of a VLAN are wired hosts or clients.
LEMMA Members ==
    ASSUME NEW f, NEW v \in VLANS
    PROVE  {n \in build_l2(f).nodes : n.vlan = v}
              = {n \in WiredNodes(f) : n.vlan = v} \cup {n \in ClientNodes(f) : n.vlan = v}
  <1>1. Unknown # v
    BY MibsAssumption
  <1>2. \A n \in InfraNodes(f) \cup ApNodes(f) : n.vlan = Unknown
    <2>1. \A id, floor, up, ap : Node(id, floor, up, Unknown, ap).vlan = Unknown
      BY DEF Node
    <2>2. \A n \in InfraNodes(f) : n.vlan = Unknown
      BY <2>1 DEF InfraNodes
    <2>3. \A n \in ApNodes(f) : n.vlan = Unknown
      BY <2>1, Zenon DEF ApNodes
    <2> QED BY <2>2, <2>3
  <1>3. build_l2(f).nodes = InfraNodes(f) \cup ApNodes(f) \cup WiredNodes(f) \cup ClientNodes(f)
    BY DEF build_l2
  <1> DEFINE I == InfraNodes(f)
             A == ApNodes(f)
             W == WiredNodes(f)
             C == ClientNodes(f)
  <1>4. \A n \in I \cup A : n.vlan # v
    BY <1>1, <1>2
  <1> HIDE DEF I, A, W, C
  <1>5. {n \in I \cup A \cup W \cup C : n.vlan = v} = {n \in W : n.vlan = v} \cup {n \in C : n.vlan = v}
    BY <1>4
  <1> QED BY <1>3, <1>5 DEF I, A, W, C

\* A wired host is on a wired VLAN, a client on a wireless one if it is known.
LEMMA VlansOfHosts ==
    ASSUME NEW f, Collected(f), NEW n \in WiredNodes(f)
    PROVE  n.vlan \in WIRED_VLANS
  <1>1. PICK d \in FloorSwitches : n \in {Node(r.host, d[2], TRUE, r.host[2], NoId) : r \in WiredRows(f, d)}
    BY DEF WiredNodes
  <1>2. PICK r \in WiredRows(f, d) : n = Node(r.host, d[2], TRUE, r.host[2], NoId)
    BY <1>1
  <1>3. PICK h \in InitialNetwork.hosts[d] : r = HostRow(h)
    BY BridgePorts
  <1>4. h.host[2] \in WIRED_VLANS
    BY Kinds, Starting, HostsOfFloor DEF Devices
  <1> QED BY <1>2, <1>3, <1>4 DEF Node, HostRow

\* The stations that were heard of.
LEMMA HeardStations ==
    ASSUME NEW f, Collected(f)
    PROVE  \E n \in Nat :
              /\ DOMAIN f.stas = 1 .. n
              /\ \A i \in 1 .. n : f.stas[i].vlan \in WIRELESS_VLANS \cup {Unknown}
              /\ \A i, j \in 1 .. n : f.stas[i].mac = f.stas[j].mac => i = j
  <1> DEFINE rows == Mibs[FgPrimary].stas
  <1>1. PICK n \in 0 .. Len(rows) :
           /\ DOMAIN f.stas = 1 .. n
           /\ \A i \in 1 .. n : f.stas[i].mac = rows[i].mac /\ f.stas[i].vlan \in {rows[i].vlan, Unknown}
    BY DEF Collected, FirstStations
  <1>2. /\ Len(rows) \in Nat
        /\ \A i \in 1 .. Len(rows) : rows[i].mac \in Clients /\ rows[i].vlan = rows[i].mac[2]
        /\ \A i, j \in 1 .. Len(rows) : rows[i].mac = rows[j].mac => i = j
    BY Stations
  <1> HIDE DEF rows
  <1>3. n \in Nat /\ \A i \in 1 .. n : i \in 1 .. Len(rows)
    BY <1>1, <1>2
  <1>4. \A c \in Clients : c[2] \in WIRELESS_VLANS
    BY DEF Clients, Client
  <1>5. \A i \in 1 .. n : f.stas[i].vlan \in WIRELESS_VLANS \cup {Unknown}
    BY <1>1, <1>2, <1>3, <1>4
  <1>6. \A i, j \in 1 .. n : f.stas[i].mac = f.stas[j].mac => i = j
    BY <1>1, <1>2, <1>3
  <1> QED BY <1>1, <1>3, <1>5, <1>6

\* So the VLAN of a client, if it was heard of, is a wireless one.
LEMMA VlansOfClients ==
    ASSUME NEW f, Collected(f), NEW n \in ClientNodes(f)
    PROVE  n.vlan \in WIRELESS_VLANS \cup {Unknown}
  <1>1. PICK c \in Range(f.stas) : n = Node(c.mac, ClientFloor(f, c.ap_name), TRUE, c.vlan, ap_name_to_id(f, c.ap_name))
    BY DEF ClientNodes
  <1>2. c.vlan \in WIRELESS_VLANS \cup {Unknown}
    BY HeardStations DEF Range
  <1> QED BY <1>1, <1>2 DEF Node

\* Each client that was heard of on a VLAN is a node of it.
LEMMA CountedClients ==
    ASSUME NEW f, Collected(f), NEW v \in WIRELESS_VLANS
    PROVE  build_l3(f).count[v] = Cardinality({n \in build_l2(f).nodes : n.vlan = v})
  <1> DEFINE places == {i \in DOMAIN f.stas : f.stas[i].vlan = v}
             NodeAt(i) == Node(f.stas[i].mac, ClientFloor(f, f.stas[i].ap_name), TRUE, f.stas[i].vlan,
                               ap_name_to_id(f, f.stas[i].ap_name))
             members == {n \in ClientNodes(f) : n.vlan = v}
             nodes == [i \in places |-> NodeAt(i)]
  <1>1. v \in VLANS /\ v \notin WIRED_VLANS
    BY MibsAssumption DEF VLANS
  <1>2. {n \in build_l2(f).nodes : n.vlan = v} = members
    <2>1. {n \in WiredNodes(f) : n.vlan = v} = {}
      BY <1>1, VlansOfHosts
    <2> QED BY <1>1, <2>1, Members
  <1>3. build_l3(f).count[v] = Cardinality(places)
    BY <1>1 DEF build_l3
  <1>4. PICK n \in Nat : DOMAIN f.stas = 1 .. n /\ \A i, j \in 1 .. n : f.stas[i].mac = f.stas[j].mac => i = j
    BY HeardStations
  <1>5. IsFiniteSet(places)
    <2>1. IsFiniteSet(1 .. n) /\ places \in SUBSET (1 .. n)
      BY <1>4, FS_Interval
    <2> QED BY <2>1, FS_Subset
  <1>6. \A i \in DOMAIN f.stas : NodeAt(i).id = f.stas[i].mac /\ NodeAt(i).vlan = f.stas[i].vlan
    BY DEF Node
  <1>7. ClientNodes(f) = {NodeAt(i) : i \in DOMAIN f.stas}
    BY DEF ClientNodes, Range
  <1> HIDE DEF NodeAt
  <1>8. members = {NodeAt(i) : i \in places}
    BY <1>6, <1>7
  <1>9. /\ nodes \in [places -> members]
        /\ \A i, j \in places : nodes[i] = nodes[j] => i = j
        /\ \A m \in members : \E i \in places : nodes[i] = m
    BY <1>4, <1>6, <1>8
  <1> HIDE DEF nodes, members, places
  <1> QED BY <1>2, <1>3, <1>5, <1>9, OneForOne

\* So is each wired host.
LEMMA CountedHosts ==
    ASSUME NEW f, Collected(f), NEW v \in WIRED_VLANS
    PROVE  build_l3(f).count[v] = Cardinality({n \in build_l2(f).nodes : n.vlan = v})
  <1> DEFINE PlacesOf(d) == {i \in DOMAIN f.arp[d] : f.arp[d][i].host \notin APs /\ f.arp[d][i].host[2] = v}
             Of(d) == {d} \X PlacesOf(d)
             groups == {Of(d) : d \in FloorSwitches}
             pairs == UNION groups
             NodeAt(p) == Node(f.arp[p[1]][p[2]].host, p[1][2], TRUE, f.arp[p[1]][p[2]].host[2], NoId)
             members == {n \in WiredNodes(f) : n.vlan = v}
             nodes == [p \in pairs |-> NodeAt(p)]
  <1>1. v \in VLANS /\ v \notin WIRELESS_VLANS /\ Unknown # v
    BY MibsAssumption DEF VLANS
  <1>2. {n \in build_l2(f).nodes : n.vlan = v} = members
    <2>1. {n \in ClientNodes(f) : n.vlan = v} = {}
      BY <1>1, VlansOfClients
    <2> QED BY <1>1, <2>1, Members
  <1>3. build_l3(f).count[v] = Cardinality(pairs)
    BY <1>1 DEF build_l3, WiredCount
  <1>4. IsFiniteSet(groups)
    <2> DEFINE group == [d \in FloorSwitches |-> Of(d)]
               switch == [i \in Floors |-> FloorSw(i)]
    <2>1. IsFiniteSet(Floors)
      BY NetworkAssumption, FS_Interval DEF Floors
    <2>2. switch \in Surjection(Floors, FloorSwitches)
      BY DEF Surjection, FloorSwitches
    <2>3. IsFiniteSet(FloorSwitches)
      BY <2>1, <2>2, FS_Surjection
    <2>4. group \in Surjection(FloorSwitches, groups)
      BY DEF Surjection
    <2> QED BY <2>3, <2>4, FS_Surjection
  <1>5. ASSUME NEW d \in FloorSwitches
        PROVE  IsFiniteSet(Of(d))
    <2>1. PICK n \in Nat : DOMAIN f.arp[d] = 1 .. n
      BY RowsOfHosts
    <2>2. IsFiniteSet(1 .. n) /\ PlacesOf(d) \in SUBSET (1 .. n)
      BY <2>1, FS_Interval
    <2> HIDE DEF PlacesOf
    <2>3. IsFiniteSet(PlacesOf(d))
      BY <2>2, FS_Subset
    <2> QED BY <2>3, FS_Singleton, FS_Product
  <1>6. IsFiniteSet(pairs)
    <2> HIDE DEF Of, groups
    <2>1. \A group \in groups : IsFiniteSet(group)
      BY <1>5 DEF groups
    <2> QED BY <1>4, <2>1, FS_UNION
  <1>7. \A p : p \in pairs <=> \E d \in FloorSwitches : \E i \in PlacesOf(d) : p = <<d, i>>
    <2> HIDE DEF PlacesOf
    <2> QED OBVIOUS
  <1>8. \A p \in pairs : p[1] \in FloorSwitches /\ p[2] \in PlacesOf(p[1]) /\ p = <<p[1], p[2]>>
    <2> HIDE DEF PlacesOf, pairs
    <2> QED BY <1>7
  <1>9. ASSUME NEW d \in FloorSwitches, NEW i \in PlacesOf(d)
        PROVE  /\ f.arp[d][i].host[3] = d[2] /\ f.arp[d][i].host[2] = v /\ f.arp[d][i] \in WiredRows(f, d)
    <2>1. f.arp[d][i] \in WiredRows(f, d) /\ f.arp[d][i].host[2] = v
      BY DEF WiredRows, Range
    <2>2. PICK h \in InitialNetwork.hosts[d] : f.arp[d][i] = HostRow(h)
      BY <2>1, BridgePorts
    <2>3. h.host = Host(h.host[2], d[2], h.host[4])
      BY Kinds, Starting, HostsOfFloor DEF Devices
    <2>4. h.host[3] = d[2]
      BY <2>3 DEF Host
    <2> QED BY <2>1, <2>2, <2>4 DEF HostRow
  <1>10. \A p : NodeAt(p).id = f.arp[p[1]][p[2]].host /\ NodeAt(p).vlan = f.arp[p[1]][p[2]].host[2]
    BY DEF Node
  <1>11. \A p \in pairs : NodeAt(p) \in members
    <2> SUFFICES ASSUME NEW p \in pairs PROVE NodeAt(p) \in members
      OBVIOUS
    <2> DEFINE d == p[1]
               r == f.arp[p[1]][p[2]]
    <2>1. d \in FloorSwitches /\ r \in WiredRows(f, d) /\ r.host[2] = v
      BY <1>8, <1>9
    <2>2. NodeAt(p) = Node(r.host, d[2], TRUE, r.host[2], NoId)
      OBVIOUS
    <2> HIDE DEF d, r, NodeAt
    <2> DEFINE OfSwitch(e) == {Node(q.host, e[2], TRUE, q.host[2], NoId) : q \in WiredRows(f, e)}
    <2>3. NodeAt(p) \in WiredNodes(f)
      <3>1. NodeAt(p) \in OfSwitch(d)
        BY <2>1, <2>2
      <3>2. WiredNodes(f) = UNION {OfSwitch(e) : e \in FloorSwitches}
        BY DEF WiredNodes
      <3> HIDE DEF OfSwitch
      <3> QED BY <2>1, <3>1, <3>2
    <2> QED BY <1>10, <2>1, <2>3 DEF d, r
  <1>12. \A n \in members : \E p \in pairs : NodeAt(p) = n
    <2> SUFFICES ASSUME NEW n \in members PROVE \E p \in pairs : NodeAt(p) = n
      OBVIOUS
    <2>1. PICK d \in FloorSwitches : n \in {Node(r.host, d[2], TRUE, r.host[2], NoId) : r \in WiredRows(f, d)}
      BY DEF WiredNodes
    <2>2. PICK r \in WiredRows(f, d) : n = Node(r.host, d[2], TRUE, r.host[2], NoId)
      BY <2>1
    <2>3. PICK i \in DOMAIN f.arp[d] : f.arp[d][i] = r
      BY DEF WiredRows, Range
    <2>4. r.host \notin APs /\ r.host[2] = v
      BY <2>2 DEF WiredRows, Node
    <2>5. i \in PlacesOf(d)
      BY <2>3, <2>4
    <2>6. <<d, i>> \in pairs
      <3> HIDE DEF pairs, PlacesOf
      <3> QED BY <1>7, <2>5
    <2>7. NodeAt(<<d, i>>) = n
      BY <2>2, <2>3
    <2> QED BY <2>6, <2>7
  <1>13. \A p, q \in pairs : NodeAt(p) = NodeAt(q) => p = q
    <2> SUFFICES ASSUME NEW p \in pairs, NEW q \in pairs, NodeAt(p) = NodeAt(q) PROVE p = q
      OBVIOUS
    <2>1. f.arp[p[1]][p[2]].host = f.arp[q[1]][q[2]].host
      BY <1>10
    <2>2. p[1][2] = q[1][2] /\ p[1] = q[1]
      <3> DEFINE d == p[1]
                 e == q[1]
                 i == p[2]
                 j == q[2]
      <3>1. d \in FloorSwitches /\ e \in FloorSwitches /\ i \in PlacesOf(d) /\ j \in PlacesOf(e)
        BY <1>8
      <3>2. f.arp[d][i].host = f.arp[e][j].host
        BY <2>1
      <3> HIDE DEF d, e, i, j, PlacesOf
      <3>3. f.arp[d][i].host[3] = d[2] /\ f.arp[e][j].host[3] = e[2]
        BY <1>9, <3>1
      <3>4. d[2] = e[2] /\ d = FloorSw(d[2]) /\ e = FloorSw(e[2])
        BY <3>1, <3>2, <3>3, Kinds
      <3> QED BY <3>4 DEF d, e
    <2>3. p[2] = q[2]
      <3> DEFINE d == p[1]
      <3>1. d \in FloorSwitches /\ p[2] \in PlacesOf(d) /\ q[2] \in PlacesOf(d)
        <4> HIDE DEF PlacesOf
        <4> QED BY <1>8, <2>2
      <3>2. f.arp[d][p[2]].host = f.arp[d][q[2]].host
        BY <2>1, <2>2
      <3> HIDE DEF d
      <3>3. PICK n \in Nat :
              /\ DOMAIN f.arp[d] = 1 .. n
              /\ \A i, j \in 1 .. n :
                    f.arp[d][i].host \notin APs /\ f.arp[d][i].host = f.arp[d][j].host => i = j
        BY <3>1, RowsOfHosts
      <3>4. p[2] \in 1 .. n /\ q[2] \in 1 .. n /\ f.arp[d][p[2]].host \notin APs
        BY <3>1, <3>3
      <3> QED BY <3>2, <3>3, <3>4
    <2> QED BY <1>8, <2>2, <2>3
  <1> HIDE DEF pairs, members, NodeAt
  <1>14. nodes \in [pairs -> members] /\ (\A p, q \in pairs : nodes[p] = nodes[q] => p = q)
         /\ \A n \in members : \E p \in pairs : nodes[p] = n
    BY <1>11, <1>12, <1>13
  <1> HIDE DEF nodes
  <1> QED BY <1>2, <1>3, <1>6, <1>14, OneForOne

\* So a snapshot is sound as soon as what it is built from was collected.
LEMMA SnapshotsBuilt == ASSUME DiscoveryInv, SnapshotSound, [Next]_vars PROVE SnapshotSound'
  <1>1. CASE FinishPoll
    <2>1. l2' = build_l2(found) /\ l3' = build_l3(found) /\ Collected(found)
      BY <1>1 DEF FinishPoll, DiscoveryInv
    <2> DEFINE l2p == build_l2(found)
               l3p == build_l3(found)
    <2>2. \A e \in l2p.edges : Real(e)
      BY <2>1, RealEdges
    <2>3. \A v \in VLANS : l3p.count[v] = Cardinality({n \in l2p.nodes : n.vlan = v})
      BY <2>1, CountedHosts, CountedClients DEF VLANS
    <2> HIDE DEF l2p, l3p
    <2>4. l2' = l2p /\ l3' = l3p
      BY <2>1 DEF l2p, l3p
    <2>5. EdgesAreReal'
      BY <2>2, <2>4 DEF EdgesAreReal, Real
    <2>6. LayersAgree'
      BY <2>3, <2>4 DEF LayersAgree, get_vlan_members
    <2> QED BY <2>5, <2>6 DEF SnapshotSound
  <1>2. CASE ~FinishPoll
    <2>1. UNCHANGED <<l2, l3>>
      BY <1>2 DEF Next, poll_once, WalkDevice, Unreachable, SkipVisited, EditNetwork, discoveryVars, vars
    <2> QED BY <2>1 DEF SnapshotSound, EdgesAreReal, LayersAgree, get_vlan_members
  <1> QED BY <1>1, <1>2

\* Whatever answers a discovery of the simulated network loses, its snapshot
\* has no link that is not there, and its layers count the same members of
\* each VLAN: whatever the numbers of floors, access points, hosts, clients and
\* losses (collector/topology_builder.py).
THEOREM Snapshots == Spec => []SnapshotSound
  <1>1. Init => DiscoveryInv /\ SnapshotSound
    BY DiscoveryStarting DEF Init, SnapshotSound
  <1>2. DiscoveryInv /\ SnapshotSound /\ [Next]_vars => DiscoveryInv' /\ SnapshotSound'
    BY DiscoveryStep, SnapshotsBuilt
  <1> QED BY <1>1, <1>2, PTL DEF Spec

-----------------------------------------------------------------------------
(***************************************************************************)
(* A discovery that loses nothing hears all that the agents answer.        *)
(***************************************************************************)
\* What the wireless controller answers about its access points, the clients
\* and the routes.
ControllerHeard(f) ==
    /\ DOMAIN f.aps \subseteq Nat
    /\ Range(f.aps) = {[name |-> ApName(ap), ip |-> ap, up |-> TRUE] : ap \in APs}
    /\ Range(f.stas) = {[mac |-> c, ap_name |-> ApName(InitialNetwork.assoc[c]), vlan |-> c[2]] : c \in Clients}
    /\ Range(f.routes) = {[dest |-> v, mask |-> "mask"] : v \in VLANS \cup {Default}}

\* The neighbors of device d, the hosts of floor switch d.
NeighborsHeard(edges, d) ==
    \A r \in InitialNetwork.lldp[d] : Reported(d, r, r.remote, NameOf(r.dev)) \in Range(edges)

HostsHeard(arp, d) == \A h \in InitialNetwork.hosts[d] : HostRow(h) \in Range(arp)

\* A walk that is not cut short hears everything.
LEMMA NothingCut ==
    ASSUME NEW d, NEW h \in Hearings(d, 0)
    PROVE  h = Lengths(d)
  <1> DEFINE n == Lengths(d)
             Below(W) == {g \in [W -> UNION {0 .. n[x] - 1 : x \in W}] : \A x \in W : g[x] < n[x]}
             HeardWith(W) == {[x \in DOMAIN n |-> IF x \in W THEN g[x] ELSE n[x]] : g \in Below(W)}
             cuts == {V \in SUBSET DOMAIN n : Cardinality(V) = 0}
  <1>1. Hearings(d, 0) = UNION {HeardWith(W) : W \in cuts}
    BY DEF Hearings
  <1>2. PICK W \in cuts : h \in HeardWith(W)
    <2> HIDE DEF HeardWith, cuts
    <2> QED BY <1>1
  <1>3. IsFiniteSet(DOMAIN n)
    <2> DEFINE a == {"chassis", "ports", "names"}
               b == {"arp", "addrs", "bridge"}
               c == {"aps", "stas", "routes"}
    <2>1. IsFiniteSet(a) /\ IsFiniteSet(b) /\ IsFiniteSet(c)
      <3>1. ASSUME NEW x, NEW y, NEW z
            PROVE  IsFiniteSet({x, y, z})
        <4>1. IsFiniteSet({x})
          BY FS_Singleton
        <4>2. IsFiniteSet({x} \cup {y})
          BY <4>1, FS_AddElement
        <4>3. IsFiniteSet(({x} \cup {y}) \cup {z})
          BY <4>2, FS_AddElement
        <4>4. ({x} \cup {y}) \cup {z} = {x, y, z}
          OBVIOUS
        <4> QED BY <4>3, <4>4
      <3> QED BY <3>1
    <2>2. DOMAIN n = a \cup b \cup c
      BY DEF Lengths
    <2> HIDE DEF a, b, c, n
    <2>3. IsFiniteSet(a \cup b)
      BY <2>1, FS_Union
    <2>4. IsFiniteSet(a \cup b \cup c)
      BY <2>1, <2>3, FS_Union
    <2> QED BY <2>2, <2>4
  <1>4. W = {}
    <2> HIDE DEF n
    <2>1. W \in SUBSET DOMAIN n /\ Cardinality(W) = 0
      OBVIOUS
    <2>2. IsFiniteSet(W)
      BY <1>3, <2>1, FS_Subset
    <2> QED BY <2>1, <2>2, FS_EmptySet
  <1>5. h = [x \in DOMAIN n |-> n[x]]
    <2> HIDE DEF n
    <2> QED BY <1>2, <1>4
  <1>6. n = [x \in DOMAIN n |-> n[x]]
    BY DEF Lengths
  <1> QED BY <1>5, <1>6

\* It hears of every neighbor,
LEMMA AllNeighbors ==
    ASSUME NEW d \in Devices
    PROVE  LET n == Len(Mibs[d].lldp)
           IN NeighborsHeard(Edges(d, walk_lldp_neighbors(Mibs[d].lldp, n, n, n)), d)
  <1> DEFINE t == Mibs[d].lldp
             n == Len(t)
             walked == walk_lldp_neighbors(t, n, n, n)
             edges == Edges(d, walked)
  <1>1. ListOfAll(t, {RowOf(d, r) : r \in InitialNetwork.lldp[d]})
    BY NeighborTables
  <1> HIDE DEF t
  <1>2. n \in Nat /\ DOMAIN t = 1 .. n /\ Range(t) = {RowOf(d, r) : r \in InitialNetwork.lldp[d]}
    BY <1>1 DEF ListOfAll
  <1> HIDE DEF n
  <1>3. ASSUME NEW r \in InitialNetwork.lldp[d]
        PROVE  Reported(d, r, r.remote, NameOf(r.dev)) \in Range(edges)
    <2>1. PICK i \in 1 .. n : t[i] = RowOf(d, r)
      BY <1>2 DEF Range
    <2>2. Heard(n, t, 1, i)
      <3>1. Len(t) = n
        BY DEF n
      <3> QED BY <1>2, <2>1, <3>1 DEF Heard
    <2>3. t[i].remote = r.remote /\ t[i].name = NameOf(r.dev) /\ t[i].index = RowOf(d, r).index
      BY <2>1 DEF RowOf, LldpRow
    <2>4. walked[i] = [local |-> Port(t[i].index), remote |-> r.remote, name |-> NameOf(r.dev)] /\ DOMAIN walked = 1 .. n
      BY <2>2, <2>3 DEF walk_lldp_neighbors, Cell
    <2> HIDE DEF walked
    <2>5. edges[i] = Reported(d, r, r.remote, NameOf(r.dev)) /\ i \in DOMAIN edges
      BY <2>3, <2>4 DEF Edges, Reported
    <2> QED BY <2>5 DEF Range
  <1> QED BY <1>3 DEF NeighborsHeard, n, t

\* of every host,
LEMMA AllHosts ==
    ASSUME NEW d \in FloorSwitches
    PROVE  HostsHeard(walk_arp_table(Mibs[d].arp, Len(Mibs[d].arp)), d)
  <1> DEFINE t == Mibs[d].arp
             n == Len(t)
  <1> SUFFICES ASSUME NEW h \in InitialNetwork.hosts[d]
               PROVE  HostRow(h) \in Range(walk_arp_table(t, n))
    BY DEF HostsHeard
  <1>1. PICK i \in 1 .. n : t[i] = HostRow(h)
    BY HostTables
  <1> HIDE DEF t, n
  <1> QED BY <1>1 DEF walk_arp_table, Range

\* A walk of five columns of a table of n rows hears each of them.
LEMMA FiveColumns ==
    ASSUME NEW t, Len(t) \in Nat, NEW column \in 1 .. 5, NEW i \in 1 .. Len(t)
    PROVE  /\ Heard(5 * Len(t), t, column, i)
           /\ (IF 5 * Len(t) < Len(t) THEN 5 * Len(t) ELSE Len(t)) = Len(t)
  <1> DEFINE n == Len(t)
  <1>1. n \in Nat /\ (column - 1) * n <= 4 * n /\ (column - 1) * n \in Int
    <2> SUFFICES (column - 1) * n <= 4 * n
      OBVIOUS
    <2> HIDE DEF n
    <2>1. column = 1 \/ column = 2 \/ column = 3 \/ column = 4 \/ column = 5
      OBVIOUS
    <2>2. n \in Nat
      BY DEF n
    <2> QED BY <2>1, <2>2
  <1>2. (column - 1) * n + i <= 5 * n
    <2> HIDE DEF n
    <2> QED BY <1>1 DEF n
  <1>3. ~ 5 * n < n
    OBVIOUS
  <1> QED BY <1>2, <1>3 DEF Heard

\* of every client,
LEMMA AllStations ==
    LET t == Mibs[FgPrimary].stas
    IN Range(walk_sta_table(t, 5 * Len(t)))
          = {[mac |-> c, ap_name |-> ApName(InitialNetwork.assoc[c]), vlan |-> c[2]] : c \in Clients}
  <1> DEFINE t == Mibs[FgPrimary].stas
             n == Len(t)
             s == walk_sta_table(t, 5 * n)
             Row(c) == [mac |-> c, ap_name |-> ApName(InitialNetwork.assoc[c]), vlan |-> c[2]]
  <1>1. /\ n \in Nat
        /\ \A i \in 1 .. n : t[i].mac \in Clients /\ t[i].vlan = t[i].mac[2]
                             /\ t[i].ap_name = NameOf(InitialNetwork.assoc[t[i].mac])
        /\ \A c \in Clients : \E i \in 1 .. n : t[i].mac = c
    BY Stations
  <1> HIDE DEF t
  <1>2. ASSUME NEW i \in 1 .. n
        PROVE  s[i] = Row(t[i].mac) /\ i \in DOMAIN s
    <2>1. Heard(5 * n, t, 4, i) /\ Heard(5 * n, t, 5, i) /\ (IF 5 * n < n THEN 5 * n ELSE n) = n
      BY <1>1, FiveColumns
    <2>2. InitialNetwork.assoc[t[i].mac] \in APs
      BY <1>1, Starting, Dealing
    <2>3. t[i].ap_name = ApName(InitialNetwork.assoc[t[i].mac]) /\ t[i].vlan = t[i].mac[2]
      BY <1>1, <2>2 DEF NameOf
    <2>4. DOMAIN s = 1 .. n
      BY <2>1 DEF walk_sta_table
    <2>5. s[i] = [mac |-> t[i].mac, ap_name |-> Cell(5 * n, t, 4, i, t[i].ap_name), vlan |-> Cell(5 * n, t, 5, i, t[i].vlan)]
      BY <2>4 DEF walk_sta_table
    <2>6. Cell(5 * n, t, 4, i, t[i].ap_name) = t[i].ap_name /\ Cell(5 * n, t, 5, i, t[i].vlan) = t[i].vlan
      BY <2>1 DEF Cell
    <2> HIDE DEF s
    <2> QED BY <2>3, <2>4, <2>5, <2>6
  <1>3. ASSUME NEW i \in DOMAIN s
        PROVE  i \in 1 .. n
    BY <1>1, <1>3 DEF walk_sta_table
  <1> HIDE DEF s, n
  <1>4. Range(s) = {s[i] : i \in DOMAIN s}
    BY DEF Range
  <1>5. \A x \in Range(s) : x \in {Row(c) : c \in Clients}
    <2> HIDE DEF Row
    <2>1. \A i \in DOMAIN s : s[i] \in {Row(c) : c \in Clients}
      BY <1>1, <1>2, <1>3
    <2> QED BY <1>4, <2>1
  <1>6. \A c \in Clients : Row(c) \in Range(s)
    <2> SUFFICES ASSUME NEW c \in Clients PROVE Row(c) \in Range(s)
      OBVIOUS
    <2>1. PICK i \in 1 .. n : t[i].mac = c
      BY <1>1
    <2> HIDE DEF Row
    <2> QED BY <1>2, <1>4, <2>1
  <1> QED BY <1>5, <1>6 DEF s, n, t

\* of every access point and of every route.
LEMMA AllApsAndRoutes ==
    LET aps == Mibs[FgPrimary].aps
        routes == Mibs[FgPrimary].routes
    IN /\ Range(walk_ap_table(aps, 5 * Len(aps))) = {[name |-> ApName(ap), ip |-> ap, up |-> TRUE] : ap \in APs}
       /\ Range(walk_route_table(routes, 5 * Len(routes))) = {[dest |-> v, mask |-> "mask"] : v \in VLANS \cup {Default}}
  <1>1. FgPrimary \in Devices /\ FgPrimary \in Firewalls
    BY DEF Devices, Firewalls
  <1>2. ASSUME NEW t, t = Mibs[FgPrimary].aps
        PROVE  Range(walk_ap_table(t, 5 * Len(t))) = {[name |-> ApName(ap), ip |-> ap, up |-> TRUE] : ap \in APs}
    <2> DEFINE n == TotalAps
               s == walk_ap_table(t, 5 * Len(t))
               Row(ap) == [name |-> ApName(ap), ip |-> ap, up |-> TRUE]
    <2>1. t = [i \in 1 .. n |-> [name |-> ApName(ApAt(i)), ip |-> ApAt(i)]]
      BY <1>1, <1>2 DEF Mibs, build_mib_trees, build_wireless_ap_entries
    <2>2. n \in Nat
      BY NetworkAssumption DEF TotalAps
    <2> HIDE DEF n
    <2>3. Len(t) = n
      <3> DEFINE all == {[name |-> ApName(ApAt(i)), ip |-> ApAt(i)] : i \in 1 .. n}
      <3>1. t \in [1 .. n -> all]
        BY <2>1
      <3> HIDE DEF all
      <3>2. t \in Seq(all) /\ DOMAIN t = 1 .. n
        BY <2>2, <3>1
      <3>3. DOMAIN t = 1 .. Len(t) /\ Len(t) \in Nat
        BY <3>2, LenProperties
      <3>4. \A k \in Nat : 1 .. k = 1 .. n => k = n
        BY <2>2
      <3> QED BY <3>2, <3>3, <3>4
    <2>4. DOMAIN s = 1 .. n
      BY <2>2, <2>3 DEF walk_ap_table
    <2>5. ASSUME NEW i \in 1 .. n
          PROVE  s[i] = Row(ApAt(i))
      <3>1. Heard(5 * n, t, 2, i) /\ Heard(5 * n, t, 3, i) /\ Heard(5 * n, t, 4, i)
        BY <2>2, <2>3, FiveColumns
      <3>2. s[i] = [name |-> Cell(5 * n, t, 2, i, t[i].name), ip |-> Cell(5 * n, t, 3, i, t[i].ip),
                    up |-> Heard(5 * n, t, 4, i)]
        BY <2>3, <2>4 DEF walk_ap_table
      <3>3. t[i].name = ApName(ApAt(i)) /\ t[i].ip = ApAt(i)
        BY <2>1
      <3>4. Cell(5 * n, t, 2, i, t[i].name) = ApName(ApAt(i)) /\ Cell(5 * n, t, 3, i, t[i].ip) = ApAt(i)
        BY <3>1, <3>3 DEF Cell
      <3>5. Heard(5 * n, t, 4, i) = TRUE
        BY <3>1 DEF Heard
      <3> HIDE DEF s
      <3> QED BY <3>2, <3>4, <3>5
    <2> HIDE DEF s, Row
    <2>6. Range(s) = {s[i] : i \in 1 .. n}
      BY <2>4 DEF Range
    <2>7. \A i \in 1 .. n : ApAt(i) \in APs
      BY ApsAreNumbered DEF n
    <2>8. \A ap \in APs : \E i \in 1 .. n : ApAt(i) = ap
      BY ApsByNumber DEF n
    <2>9. Range(s) = {Row(ap) : ap \in APs}
      BY <2>5, <2>6, <2>7, <2>8
    <2> QED BY <2>9 DEF s, Row
  <1>3. ASSUME NEW t, t = Mibs[FgPrimary].routes
        PROVE  Range(walk_route_table(t, 5 * Len(t))) = {[dest |-> v, mask |-> "mask"] : v \in VLANS \cup {Default}}
    <2> DEFINE n == Len(t)
               s == walk_route_table(t, 5 * n)
               order == {p \in VLANS \X VLANS : p[1] < p[2]}
               vlans == Ascending(VLANS)
    <2>1. t = <<Default>> \o vlans
      BY <1>1, <1>3 DEF Mibs, build_mib_trees, build_route_entries
    <2>2. IsOrder(VLANS, order)
      <3>1. \A x, y \in VLANS : <<x, y>> \in order <=> x < y
        OBVIOUS
      <3>2. \A x \in VLANS : x \in Nat
        BY MibsAssumption
      <3> HIDE DEF order
      <3> QED BY <3>1, <3>2 DEF IsOrder
    <2>3. IsFiniteSet(VLANS)
      BY NetworkAssumption, MibsAssumption, FS_Union DEF VLANS
    <2>4. vlans \in Seq(VLANS) /\ Range(vlans) = VLANS
      BY <2>2, <2>3, OrderedList DEF Ascending, ListOfAll
    <2> HIDE DEF vlans
    <2> DEFINE all == VLANS \cup {Default}
               head == <<Default>>
    <2>5. head \in Seq(all) /\ vlans \in Seq(all) /\ Range(head) = {Default}
      BY <2>4 DEF Range
    <2> HIDE DEF all, head
    <2>6. t \in Seq(all) /\ Range(t) = all
      <3>1. t = head \o vlans
        BY <2>1 DEF head
      <3>2. head \o vlans \in Seq(all) /\ Range(head \o vlans) = Range(head) \cup Range(vlans)
        BY <2>5, ConcatProperties, RangeConcatenation
      <3> QED BY <2>4, <2>5, <3>1, <3>2 DEF all
    <2>7. n \in Nat /\ DOMAIN t = 1 .. n
      BY <2>6, LenProperties
    <2>8. DOMAIN s = 1 .. n
      <3>1. DOMAIN s = 1 .. (IF 5 * n < n THEN 5 * n ELSE n)
        BY DEF walk_route_table
      <3> HIDE DEF s, n
      <3> QED BY <2>7, <3>1
    <2>9. ASSUME NEW i \in 1 .. n
          PROVE  s[i] = [dest |-> t[i], mask |-> "mask"]
      <3>1. Heard(5 * n, t, 5, i)
        BY <2>7, FiveColumns
      <3>2. s[i] = [dest |-> t[i], mask |-> Cell(5 * n, t, 5, i, "mask")]
        BY <2>8 DEF walk_route_table
      <3>3. Cell(5 * n, t, 5, i, "mask") = "mask"
        BY <3>1 DEF Cell
      <3> QED BY <3>2, <3>3
    <2> HIDE DEF s, n
    <2>10. Range(s) = {[dest |-> t[i], mask |-> "mask"] : i \in 1 .. n}
      BY <2>8, <2>9 DEF Range
    <2>11. Range(t) = {t[i] : i \in 1 .. n}
      BY <2>7 DEF Range
    <2>12. Range(s) = {[dest |-> v, mask |-> "mask"] : v \in all}
      BY <2>6, <2>10, <2>11
    <2> QED BY <2>12 DEF s, n, all
  <1> QED BY <1>2, <1>3

-----------------------------------------------------------------------------
(***************************************************************************)
(* So it finds every device.                                               *)
(***************************************************************************)
\* What the agents of the devices seen answer was heard.
HeardOf(f, seen) ==
    /\ f.devices \in Seq(Devices) /\ Range(f.devices) = seen
    /\ \A d \in seen : NeighborsHeard(f.edges, d) /\ (d \in FloorSwitches => HostsHeard(f.arp[d], d))
    /\ FgPrimary \in seen => ControllerHeard(f)

\* The neighbors of the devices visited were visited or are queued.
Followed(seen, next) ==
    /\ Seed \in seen \cup Range(next)
    /\ \A d \in seen : \A r \in InitialNetwork.lldp[d] : r.dev \in Devices => r.dev \in seen \cup Range(next)

\* While nothing was lost, all was heard, and all that it led to is followed.
HeardInv ==
    /\ losses \in Nat /\ lost \in Nat
    /\ lost = 0 => HeardOf(found, visited) /\ Followed(visited, queue)

\* Nothing was heard at first, and the primary firewall is queued.
LEMMA NothingHeard == HeardOf(NothingFound, {}) /\ Followed({}, <<Seed>>)
  <1>1. NothingFound.devices \in Seq(Devices) /\ Range(NothingFound.devices) = {}
    BY DEF NothingFound, Range
  <1>2. Range(<<Seed>>) = {Seed}
    BY DEF Range
  <1> QED BY <1>1, <1>2 DEF HeardOf, Followed

LEMMA HeardStarting == Init => HeardInv
  <1> SUFFICES ASSUME Init PROVE HeardInv
    OBVIOUS
  <1>1. PICK p \in Profiles : losses = p.losses
    BY DEF Init
  <1>2. losses \in Nat /\ lost = 0 /\ found = NothingFound /\ visited = {} /\ queue = <<Seed>>
    BY <1>1, DiscoveryAssumption DEF Init
  <1> QED BY <1>2, NothingHeard DEF HeardInv

\* The name of a device is that of the device.
LEMMA Resolved ==
    ASSUME NEW d \in Devices
    PROVE  _resolve_device_id(NameOf(d)) = d
  <1>1. NameOf(d) = SysName(d) /\ Upper(SysName(d)) = SysName(d)
    BY DeviceNames
  <1>2. _resolve_device_id(SysName(d)) \in Devices /\ Upper(SysName(_resolve_device_id(SysName(d)))) = SysName(d)
    BY <1>1 DEF _resolve_device_id
  <1> QED BY <1>1, <1>2 DEF SysName, Upper

\* The step to the next device of the queue.
LEMMA QueueSplit ==
    ASSUME NEW q \in Seq(Devices), q # <<>>
    PROVE  Range(q) = {Head(q)} \cup Range(Tail(q)) /\ Tail(q) \in Seq(Devices) /\ Head(q) \in Devices
  <1> DEFINE n == Len(q)
             rest == Tail(q)
  <1>1. /\ Head(q) \in Devices /\ rest \in Seq(Devices)
        /\ Len(rest) = n - 1 /\ \A i \in 1 .. Len(rest) : rest[i] = q[i + 1]
    BY HeadTailProperties
  <1>2. n \in Nat /\ n # 0 /\ DOMAIN q = 1 .. n /\ DOMAIN rest = 1 .. Len(rest) /\ Head(q) = q[1]
    BY <1>1
  <1> HIDE DEF n, rest
  <1>3. DOMAIN rest = 1 .. n - 1 /\ \A i \in 1 .. n - 1 : rest[i] = q[i + 1]
    BY <1>1, <1>2
  <1>4. ASSUME NEW i \in 1 .. n, i # 1
        PROVE  i - 1 \in 1 .. n - 1 /\ q[i] = rest[i - 1]
    <2>1. i - 1 \in 1 .. n - 1 /\ (i - 1) + 1 = i
      BY <1>2, <1>4
    <2> QED BY <1>3, <2>1
  <1>5. Range(q) = {q[i] : i \in 1 .. n} /\ Range(rest) = {rest[i] : i \in 1 .. n - 1}
    BY <1>2, <1>3 DEF Range
  <1>6. ASSUME NEW x \in Range(q)
        PROVE  x \in {Head(q)} \cup Range(rest)
    <2>1. PICK i \in 1 .. n : x = q[i]
      BY <1>5
    <2> QED BY <1>2, <1>4, <1>5, <2>1
  <1>7. ASSUME NEW x \in {Head(q)} \cup Range(rest)
        PROVE  x \in Range(q)
    <2>1. CASE x = Head(q)
      <3>1. 1 \in 1 .. n
        BY <1>2
      <3> QED BY <1>2, <1>5, <2>1, <3>1
    <2>2. CASE x \in Range(rest)
      <3>1. PICK i \in 1 .. n - 1 : x = rest[i]
        BY <1>5, <2>2
      <3>2. i + 1 \in 1 .. n /\ x = q[i + 1]
        BY <1>2, <1>3, <3>1
      <3> QED BY <1>5, <3>2
    <2> QED BY <2>1, <2>2
  <1>8. Range(q) = {Head(q)} \cup Range(rest)
    BY <1>6, <1>7
  <1> QED BY <1>1, <1>8 DEF rest

\* A device that is walked without a loss was heard, and what it names is
\* queued.
LEMMA HeardWalking == ASSUME DiscoveryInv, HeardInv, WalkDevice PROVE HeardInv'
  <1> DEFINE d == Current
             tree == Mibs[d]
             edges(h) == Edges(d, walk_lldp_neighbors(tree.lldp, h.chassis, h.ports, h.names))
             seen == visited \cup {d}
  <1>1. d \in Devices /\ d \notin visited /\ visited' = seen /\ mib = Mibs /\ queue # <<>> /\ queue \in Seq(Devices)
        /\ Range(queue) = {d} \cup Range(Tail(queue)) /\ Tail(queue) \in Seq(Devices)
    BY QueueSplit DEF DiscoveryInv, WalkDevice, Current
  <1>2. PICK cut \in 0 .. losses : \E h \in Hearings(d, cut) :
           /\ found' = [found EXCEPT
                     !.devices = Append(@, d),
                     !.edges = @ \o edges(h),
                     !.arp[d] = walk_arp_table(tree.arp, h.arp),
                     !.mac[d] = walk_mac_table(tree.fdb, h.addrs, h.bridge),
                     !.aps = IF d = FgPrimary THEN walk_ap_table(tree.aps, h.aps) ELSE @,
                     !.stas = IF d = FgPrimary THEN walk_sta_table(tree.stas, h.stas) ELSE @,
                     !.routes = IF d = FgPrimary THEN walk_route_table(tree.routes, h.routes) ELSE @]
           /\ queue' = Tail(queue) \o Queued(edges(h), seen)
           /\ losses' = losses - cut /\ lost' = lost + cut
    BY DEF WalkDevice, DiscoveryInv
  <1> PICK h \in Hearings(d, cut) :
           /\ found' = [found EXCEPT
                     !.devices = Append(@, d),
                     !.edges = @ \o edges(h),
                     !.arp[d] = walk_arp_table(tree.arp, h.arp),
                     !.mac[d] = walk_mac_table(tree.fdb, h.addrs, h.bridge),
                     !.aps = IF d = FgPrimary THEN walk_ap_table(tree.aps, h.aps) ELSE @,
                     !.stas = IF d = FgPrimary THEN walk_sta_table(tree.stas, h.stas) ELSE @,
                     !.routes = IF d = FgPrimary THEN walk_route_table(tree.routes, h.routes) ELSE @]
           /\ queue' = Tail(queue) \o Queued(edges(h), seen)
           /\ losses' = losses - cut /\ lost' = lost + cut
    BY <1>2
  <1>3. losses' \in Nat /\ lost' \in Nat /\ (lost' = 0 => cut = 0 /\ lost = 0)
    BY DEF HeardInv
  <1> HIDE DEF d
  <1> SUFFICES ASSUME lost' = 0 PROVE HeardOf(found', visited') /\ Followed(visited', queue')
    BY <1>3 DEF HeardInv
  <1>4. HeardOf(found, visited) /\ Followed(visited, queue)
    BY <1>3 DEF HeardInv
  <1>5. /\ h.chassis = Len(tree.lldp) /\ h.ports = Len(tree.lldp) /\ h.names = Len(tree.lldp)
        /\ h.arp = Len(tree.arp) /\ h.aps = 5 * Len(tree.aps) /\ h.stas = 5 * Len(tree.stas)
        /\ h.routes = 5 * Len(tree.routes)
    <2>1. h = Lengths(d)
      BY <1>3, NothingCut
    <2> QED BY <1>1, <2>1 DEF Lengths
  <1> DEFINE news == edges(h)
             arp == walk_arp_table(tree.arp, h.arp)
             mac == walk_mac_table(tree.fdb, h.addrs, h.bridge)
  <1>6. /\ found'.devices = Append(found.devices, d)
        /\ found'.edges = found.edges \o news
        /\ found'.arp = [found.arp EXCEPT ![d] = arp]
        /\ found'.aps = IF d = FgPrimary THEN walk_ap_table(tree.aps, h.aps) ELSE found.aps
        /\ found'.stas = IF d = FgPrimary THEN walk_sta_table(tree.stas, h.stas) ELSE found.stas
        /\ found'.routes = IF d = FgPrimary THEN walk_route_table(tree.routes, h.routes) ELSE found.routes
        /\ queue' = Tail(queue) \o Queued(news, seen)
    <2>1. found = [w \in FoundFields |-> found[w]]
      BY DEF DiscoveryInv
    <2> HIDE DEF tree, edges, arp, mac, seen
    <2> QED BY <2>1 DEF FoundFields, news, edges, arp, mac
  <1>7. news \in Seq(Reports) /\ NeighborsHeard(news, d)
    <2>1. Len(tree.lldp) \in Nat
      BY <1>1, NeighborTables DEF ListOfAll
    <2>2. h.chassis \in 0 .. Len(tree.lldp)
      BY <1>5, <2>1
    <2> HIDE DEF tree
    <2>3. news \in Seq(Reports)
      BY <1>1, <2>2, NeighborsWalked DEF edges, tree
    <2>4. NeighborsHeard(news, d)
      BY <1>1, <1>5, AllNeighbors DEF tree
    <2> QED BY <2>3, <2>4
  <1> HIDE DEF news, edges, tree, arp, mac, seen
  <1>8. found'.devices \in Seq(Devices) /\ Range(found'.devices) = seen
    <2>1. found.devices \in Seq(Devices) /\ Range(found.devices) = visited
      BY <1>4 DEF HeardOf
    <2> DEFINE old == found.devices
               one == <<d>>
    <2>2. Append(old, d) = old \o one /\ one \in Seq(Devices) /\ Append(old, d) \in Seq(Devices)
      BY <1>1, <2>1
    <2>3. Range(one) = {d}
      BY DEF Range
    <2> HIDE DEF old, one
    <2>4. Range(old \o one) = Range(old) \cup Range(one)
      BY <2>1, <2>2, RangeConcatenation DEF old
    <2> QED BY <1>6, <2>1, <2>2, <2>3, <2>4 DEF old, seen
  <1>9. Range(found'.edges) = Range(found.edges) \cup Range(news)
    <2> DEFINE old == found.edges
    <2>1. old \in Seq(Reports)
      BY DEF DiscoveryInv, Collected
    <2>2. found'.edges = old \o news
      BY <1>6
    <2> HIDE DEF old
    <2>3. Range(old \o news) = Range(old) \cup Range(news)
      BY <1>7, <2>1, RangeConcatenation
    <2> QED BY <2>2, <2>3 DEF old
  <1>10. ASSUME NEW e \in seen
         PROVE  NeighborsHeard(found'.edges, e)
    <2>1. CASE e = d
      BY <1>7, <1>9, <2>1 DEF NeighborsHeard
    <2>2. CASE e # d
      <3>1. NeighborsHeard(found.edges, e)
        BY <1>4, <2>2 DEF HeardOf, seen
      <3> QED BY <1>9, <3>1 DEF NeighborsHeard
    <2> QED BY <2>1, <2>2
  <1>11. ASSUME NEW e \in seen, e \in FloorSwitches
         PROVE  HostsHeard(found'.arp[e], e)
    <2>1. found.arp = [x \in Devices |-> found.arp[x]] /\ e \in Devices
      BY <1>11 DEF DiscoveryInv, Devices
    <2>2. CASE e = d
      <3>1. found'.arp[e] = walk_arp_table(Mibs[d].arp, Len(Mibs[d].arp))
        BY <1>5, <1>6, <2>1, <2>2 DEF arp, tree
      <3> QED BY <1>11, <2>2, <3>1, AllHosts
    <2>3. CASE e # d
      <3>1. found'.arp[e] = found.arp[e]
        BY <1>6, <2>1, <2>3
      <3>2. HostsHeard(found.arp[e], e)
        BY <1>4, <1>11, <2>3 DEF HeardOf, seen
      <3> QED BY <3>1, <3>2
    <2> QED BY <2>2, <2>3
  <1>12. ASSUME FgPrimary \in seen
         PROVE  ControllerHeard(found')
    <2>1. CASE d = FgPrimary
      <3>1. /\ found'.aps = walk_ap_table(Mibs[FgPrimary].aps, 5 * Len(Mibs[FgPrimary].aps))
            /\ found'.stas = walk_sta_table(Mibs[FgPrimary].stas, 5 * Len(Mibs[FgPrimary].stas))
            /\ found'.routes = walk_route_table(Mibs[FgPrimary].routes, 5 * Len(Mibs[FgPrimary].routes))
        BY <1>5, <1>6, <2>1 DEF tree
      <3>2. DOMAIN found'.aps \subseteq Nat
        BY <3>1 DEF walk_ap_table
      <3> QED BY <3>1, <3>2, AllStations, AllApsAndRoutes DEF ControllerHeard
    <2>2. CASE d # FgPrimary
      <3>1. ControllerHeard(found)
        BY <1>4, <1>12, <2>2 DEF HeardOf, seen
      <3> QED BY <1>6, <2>2, <3>1 DEF ControllerHeard
    <2> QED BY <2>1, <2>2
  <1>13. HeardOf(found', visited')
    BY <1>1, <1>8, <1>10, <1>11, <1>12 DEF HeardOf
  <1> DEFINE targets == [i \in DOMAIN news |-> news[i].target]
             more == Queued(news, seen)
  <1>14. /\ more \in Seq(Devices)
         /\ \A i \in DOMAIN news : news[i].target \in Devices \ seen => news[i].target \in Range(more)
    <2>1. DOMAIN news = 1 .. Len(news) /\ Len(news) \in Nat
      BY <1>7, LenProperties
    <2>2. more = Filter(targets, Devices \ seen)
      BY DEF Queued
    <2>3. DOMAIN targets = 1 .. Len(news) /\ \A i \in DOMAIN news : targets[i] = news[i].target
      BY <2>1
    <2> HIDE DEF targets, more
    <2>4. /\ Filter(targets, Devices \ seen) \in Seq(Devices \ seen)
          /\ \A i \in 1 .. Len(news) : targets[i] \in Devices \ seen => targets[i] \in Range(Filter(targets, Devices \ seen))
      BY <2>1, <2>3, Filtered
    <2>5. more \in Seq(Devices)
      BY <2>2, <2>4
    <2> QED BY <2>1, <2>2, <2>3, <2>4, <2>5
  <1> HIDE DEF targets, more
  <1>15. Range(queue') = Range(Tail(queue)) \cup Range(more)
    <2> DEFINE rest == Tail(queue)
    <2>1. rest \in Seq(Devices) /\ queue' = rest \o more
      BY <1>1, <1>6 DEF more
    <2> HIDE DEF rest
    <2>2. Range(rest \o more) = Range(rest) \cup Range(more)
      BY <1>14, <2>1, RangeConcatenation
    <2> QED BY <2>1, <2>2 DEF rest
  <1>16. \A x : x \in visited \cup Range(queue) => x \in seen \cup Range(queue')
    BY <1>1, <1>15 DEF seen
  <1>17. ASSUME NEW r \in InitialNetwork.lldp[d], r.dev \in Devices
         PROVE  r.dev \in seen \cup Range(queue')
    <2>1. Reported(d, r, r.remote, NameOf(r.dev)) \in Range(news)
      BY <1>7 DEF NeighborsHeard
    <2>2. Reported(d, r, r.remote, NameOf(r.dev)).target = r.dev
      BY <1>17, Resolved DEF Reported
    <2>3. PICK i \in DOMAIN news : news[i].target = r.dev
      BY <2>1, <2>2 DEF Range
    <2> QED BY <1>14, <1>15, <1>17, <2>3
  <1>18. Followed(visited', queue')
    <2>1. Seed \in seen \cup Range(queue')
      BY <1>4, <1>16 DEF Followed
    <2>2. ASSUME NEW e \in seen, NEW r \in InitialNetwork.lldp[e], r.dev \in Devices
          PROVE  r.dev \in seen \cup Range(queue')
      <3>1. CASE e = d
        BY <1>17, <2>2, <3>1
      <3>2. CASE e # d
        <4>1. r.dev \in visited \cup Range(queue)
          BY <1>4, <2>2, <3>2 DEF Followed, seen
        <4> QED BY <1>16, <4>1
      <3> QED BY <3>1, <3>2
    <2> QED BY <1>1, <2>1, <2>2 DEF Followed
  <1> QED BY <1>13, <1>18

\* No other step hears of anything; one that leaves a device out loses answers.
LEMMA HeardStep == ASSUME DiscoveryInv, HeardInv, [Next]_vars PROVE HeardInv'
  <1>1. CASE WalkDevice
    BY <1>1, HeardWalking
  <1>2. CASE Unreachable
    <2>1. losses' = losses - 2 /\ lost' = lost + 2 /\ losses > 1
      BY <1>2 DEF Unreachable
    <2>2. losses' \in Nat /\ lost' \in Nat /\ lost' # 0
      BY <2>1 DEF HeardInv
    <2> QED BY <2>2 DEF HeardInv
  <1>3. CASE SkipVisited
    <2>1. queue' = Tail(queue) /\ queue # <<>> /\ Head(queue) \in visited /\ UNCHANGED <<visited, found, losses, lost>>
      BY <1>3 DEF SkipVisited, Current
    <2>2. Range(queue) = {Head(queue)} \cup Range(queue')
      BY <2>1, QueueSplit DEF DiscoveryInv
    <2>3. visited \cup Range(queue) = visited \cup Range(queue')
      BY <2>1, <2>2
    <2>4. Followed(visited, queue) => Followed(visited', queue')
      BY <2>1, <2>3 DEF Followed
    <2>5. HeardOf(found, visited) => HeardOf(found', visited')
      BY <2>1
    <2> QED BY <2>1, <2>4, <2>5 DEF HeardInv
  <1>4. CASE FinishPoll
    <2>1. queue' = <<Seed>> /\ visited' = {} /\ found' = NothingFound /\ lost' = 0 /\ losses' = losses
      BY <1>4 DEF FinishPoll, Begin
    <2>2. HeardOf(found', visited') /\ Followed(visited', queue')
      BY <2>1, NothingHeard
    <2> QED BY <2>1, <2>2 DEF HeardInv
  <1>5. CASE EditNetwork \/ UNCHANGED vars
    <2>1. UNCHANGED <<queue, visited, found, losses, lost>>
      BY <1>5 DEF EditNetwork, discoveryVars, vars
    <2> QED BY <2>1 DEF HeardInv
  <1> QED BY <1>1, <1>2, <1>3, <1>4, <1>5 DEF Next, poll_once

\* With an empty queue every device was found: the core is next to the primary
\* firewall, and all others are next to the core.
LEMMA AllFound ==
    ASSUME NEW seen \in SUBSET Devices, Followed(seen, <<>>)
    PROVE  seen = Devices
  <1>1. /\ FgPrimary \in Devices /\ FgPrimary \in Firewalls /\ FgStandby \in Devices /\ CoreSw \in Devices
        /\ CoreSw \notin Firewalls
        /\ \A f \in Floors : FloorSw(f) \in Devices
    BY Kinds DEF Devices, Firewalls, FloorSwitches
  <1>2. Range(<<>>) = {}
    BY DEF Range
  <1>3. FgPrimary \in seen /\ \A d \in seen : \A r \in InitialNetwork.lldp[d] : r.dev \in Devices => r.dev \in seen
    BY <1>2 DEF Followed, Seed
  <1>4. CoreSw \in seen
    <2>1. PICK peer \in Firewalls, uplink \in {Port(1), Port(2)} :
             FirewallNeighbors(FgPrimary) = {Neighbor(Port(5), CoreSw, uplink), Neighbor(HALink, peer, HALink)}
      BY <1>1, NeighborsOfFirewalls
    <2>2. Neighbor(Port(5), CoreSw, uplink) \in InitialNetwork.lldp[FgPrimary]
      BY <1>1, <2>1, Starting
    <2>3. Neighbor(Port(5), CoreSw, uplink).dev = CoreSw
      BY DEF Neighbor
    <2> QED BY <1>1, <1>3, <2>2, <2>3
  <1>5. InitialNetwork.lldp[CoreSw] = CoreNeighbors
    BY <1>1, Starting
  <1>6. FgStandby \in seen
    <2>1. Neighbor(Port(2), FgStandby, Port(5)) \in InitialNetwork.lldp[CoreSw]
      BY <1>5 DEF CoreNeighbors
    <2>2. Neighbor(Port(2), FgStandby, Port(5)).dev = FgStandby
      BY DEF Neighbor
    <2> QED BY <1>1, <1>3, <1>4, <2>1, <2>2
  <1>7. ASSUME NEW f \in Floors
        PROVE  FloorSw(f) \in seen
    <2>1. Neighbor(CorePort(f), FloorSw(f), Port(UPLINK)) \in InitialNetwork.lldp[CoreSw]
      BY <1>5 DEF CoreNeighbors
    <2>2. Neighbor(CorePort(f), FloorSw(f), Port(UPLINK)).dev = FloorSw(f)
      BY DEF Neighbor
    <2> QED BY <1>1, <1>3, <1>4, <2>1, <2>2
  <1> QED BY <1>3, <1>4, <1>6, <1>7 DEF Devices, Firewalls, FloorSwitches

-----------------------------------------------------------------------------
(***************************************************************************)
(* What is built of all that is node by node the network.                  *)
(***************************************************************************)
\* All was heard, and nothing else.
Whole(f) == Collected(f) /\ HeardOf(f, Devices)

\* The access point behind a name, and the id that the builder looks up.
LEMMA NamesOfAps ==
    ASSUME NEW f, Whole(f), NEW ap \in APs
    PROVE  /\ _ap_device_id_from_name(ApName(ap)) = ap /\ ap_name_to_id(f, ApName(ap)) = ap
           /\ ApName(ap) # Unknown /\ ap # NoId /\ ap # Unknown
  <1>1. ap # NoId /\ ap # Unknown /\ ApName(ap) # Unknown
    BY DiscoveryAssumption, MibsAssumption DEF NameOf
  <1>2. _ap_device_id_from_name(ApName(ap)) = ap
    BY <1>1, ApsByNumber DEF _ap_device_id_from_name, ApName
  <1>3. [name |-> ApName(ap), ip |-> ap, up |-> TRUE] \in Range(f.aps)
    <2>1. FgPrimary \in Devices
      BY DEF Devices, Firewalls
    <2> QED BY <2>1 DEF Whole, HeardOf, ControllerHeard
  <1>4. \E a \in Range(f.aps) : a.name = ApName(ap)
    <2>1. [name |-> ApName(ap), ip |-> ap, up |-> TRUE].name = ApName(ap)
      OBVIOUS
    <2> QED BY <1>3, <2>1
  <1> QED BY <1>1, <1>2, <1>4 DEF ap_name_to_id

\* Of the places with one key there is a first.
LEMMA FirstPlace ==
    ASSUME NEW places \in SUBSET Nat, NEW key, NEW i \in places
    PROVE  \E j \in places : key[j] = key[i] /\ \A k \in places : k < j => key[k] # key[j]
  <1> DEFINE same == {j \in places : key[j] = key[i]}
  <1>1. same \in SUBSET Nat /\ same # {}
    OBVIOUS
  <1> HIDE DEF same
  <1>2. PICK j \in same : \A k \in same : <<k, j>> \notin OpToRel(<, Nat)
    BY <1>1, NatLessThanWellFounded, WFMin
  <1>3. \A m, n \in Nat : <<m, n>> \in OpToRel(<, Nat) <=> m < n
    BY SMT DEF OpToRel
  <1>4. \A k \in same : ~(k < j)
    BY <1>1, <1>2, <1>3
  <1> QED BY <1>4 DEF same

\* One node for each access point,
LEMMA WholeAps ==
    ASSUME NEW f, Whole(f)
    PROVE  ApNodes(f) = {Node(ap, FloorOf(ap), TRUE, Unknown, NoId) : ap \in APs}
  <1> DEFINE places == DOMAIN f.aps
             Id(i) == _ap_device_id_from_name(f.aps[i].name)
             NodeAt(i) == Node(Id(i), _ap_floor_from_ip(f.aps[i].ip), f.aps[i].up, Unknown, NoId)
             firsts == {i \in places : \A j \in places : j < i => Id(j) # Id(i)}
             NodeOf(ap) == Node(ap, FloorOf(ap), TRUE, Unknown, NoId)
  <1>1. ApNodes(f) = {NodeAt(i) : i \in firsts}
    BY DEF ApNodes, Firsts
  <1>2. places \in SUBSET Nat /\ Range(f.aps) = {[name |-> ApName(ap), ip |-> ap, up |-> TRUE] : ap \in APs}
    <2>1. FgPrimary \in Devices
      BY DEF Devices, Firewalls
    <2> QED BY <2>1 DEF Whole, HeardOf, ControllerHeard
  <1>3. ASSUME NEW i \in places
        PROVE  Id(i) \in APs /\ NodeAt(i) = NodeOf(Id(i))
    <2>1. PICK ap \in APs : f.aps[i] = [name |-> ApName(ap), ip |-> ap, up |-> TRUE]
      BY <1>2 DEF Range
    <2>2. f.aps[i].name = ApName(ap) /\ f.aps[i].ip = ap /\ f.aps[i].up = TRUE
      BY <2>1
    <2>3. Id(i) = ap /\ ap # Unknown
      BY <2>2, NamesOfAps
    <2>4. _ap_floor_from_ip(f.aps[i].ip) = FloorOf(ap)
      BY <2>2, <2>3 DEF _ap_floor_from_ip
    <2> HIDE DEF Id
    <2> QED BY <2>2, <2>3, <2>4
  <1>4. ASSUME NEW ap \in APs
        PROVE  \E i \in firsts : Id(i) = ap
    <2> DEFINE row == [name |-> ApName(ap), ip |-> ap, up |-> TRUE]
               key == [i \in places |-> Id(i)]
    <2>1. row \in Range(f.aps) /\ row.name = ApName(ap)
      BY <1>2
    <2> HIDE DEF row
    <2>2. PICK i \in places : f.aps[i].name = ApName(ap)
      BY <2>1 DEF Range
    <2>3. Id(i) = ap
      BY <2>2, NamesOfAps
    <2> HIDE DEF Id, places, key
    <2>4. PICK j \in places : key[j] = key[i] /\ \A k \in places : k < j => key[k] # key[j]
      BY <1>2, FirstPlace
    <2>5. \A k \in places : key[k] = Id(k)
      BY DEF key
    <2>6. j \in firsts /\ Id(j) = ap
      BY <2>3, <2>4, <2>5
    <2> QED BY <2>6
  <1> HIDE DEF Id, NodeAt, NodeOf, places
  <1>5. {NodeAt(i) : i \in firsts} = {NodeOf(ap) : ap \in APs}
    <2>1. \A i \in firsts : i \in places
      OBVIOUS
    <2> HIDE DEF firsts
    <2> QED BY <1>3, <1>4, <2>1
  <1> QED BY <1>1, <1>5 DEF NodeOf

\* for each wired host,
LEMMA WholeHosts ==
    ASSUME NEW f, Whole(f), NEW d \in FloorSwitches
    PROVE  /\ WiredRows(f, d) = {HostRow(h) : h \in InitialNetwork.hosts[d]}
           /\ {Node(r.host, d[2], TRUE, r.host[2], NoId) : r \in WiredRows(f, d)}
                 = {Node(h.host, d[2], TRUE, h.host[2], NoId) : h \in InitialNetwork.hosts[d]}
  <1>1. \A r \in WiredRows(f, d) : \E h \in InitialNetwork.hosts[d] : r = HostRow(h)
    BY BridgePorts DEF Whole
  <1>2. ASSUME NEW h \in InitialNetwork.hosts[d]
        PROVE  HostRow(h) \in WiredRows(f, d) /\ HostRow(h).host = h.host
    <2>1. HostRow(h) \in Range(f.arp[d])
      BY DEF Whole, HeardOf, HostsHeard, Devices
    <2>2. HostRow(h).host = h.host
      BY DEF HostRow
    <2>3. h.host[1] = "ep"
      BY Kinds, Starting, HostsOfFloor DEF Host, Devices
    <2>4. h.host \notin APs
      BY <2>3, Kinds
    <2> QED BY <2>1, <2>2, <2>4 DEF WiredRows
  <1>3. WiredRows(f, d) = {HostRow(h) : h \in InitialNetwork.hosts[d]}
    BY <1>1, <1>2
  <1> HIDE DEF HostRow
  <1>4. {Node(r.host, d[2], TRUE, r.host[2], NoId) : r \in WiredRows(f, d)}
           = {Node(h.host, d[2], TRUE, h.host[2], NoId) : h \in InitialNetwork.hosts[d]}
    BY <1>1, <1>2
  <1> QED BY <1>3, <1>4

\* for each client,
LEMMA WholeClients ==
    ASSUME NEW f, Whole(f)
    PROVE  /\ ClientNodes(f)
                 = {Node(c, FloorOf(InitialNetwork.assoc[c]), TRUE, c[2], InitialNetwork.assoc[c]) : c \in Clients}
           /\ ClientEdges(f) = {Link(InitialNetwork.assoc[c], Unknown, c, Unknown) : c \in Clients}
  <1> DEFINE ApOf(c) == InitialNetwork.assoc[c]
             Row(c) == [mac |-> c, ap_name |-> ApName(ApOf(c)), vlan |-> c[2]]
  <1>1. FgPrimary \in Devices
    BY DEF Devices, Firewalls
  <1>2. Range(f.stas) = {Row(c) : c \in Clients}
    BY <1>1 DEF Whole, HeardOf, ControllerHeard
  <1>3. \A c \in Clients : ApOf(c) \in APs /\ Row(c).mac = c /\ Row(c).ap_name = ApName(ApOf(c)) /\ Row(c).vlan = c[2]
    BY Starting, Dealing
  <1> HIDE DEF Row, ApOf
  <1>4. ASSUME NEW c \in Clients
        PROVE  ClientFloor(f, Row(c).ap_name) = FloorOf(ApOf(c))
    <2> DEFINE name == ApName(ApOf(c))
               rows == {a \in Range(f.aps) : name # Unknown /\ a.name = name}
    <2>1. Range(f.aps) = {[name |-> ApName(ap), ip |-> ap, up |-> TRUE] : ap \in APs}
      BY <1>1 DEF Whole, HeardOf, ControllerHeard
    <2>2. ASSUME NEW a \in rows
          PROVE  a.ip = ApOf(c)
      <3>1. PICK ap \in APs : a = [name |-> ApName(ap), ip |-> ap, up |-> TRUE]
        BY <2>1
      <3>2. a.name = ApName(ap) /\ a.ip = ap /\ a.name = name
        BY <3>1
      <3>3. _ap_device_id_from_name(ApName(ap)) = ap /\ _ap_device_id_from_name(name) = ApOf(c)
        BY <1>3, NamesOfAps
      <3> QED BY <3>2, <3>3
    <2>3. rows # {}
      <3>1. [name |-> ApName(ApOf(c)), ip |-> ApOf(c), up |-> TRUE] \in Range(f.aps)
        BY <1>3, <2>1
      <3>2. [name |-> ApName(ApOf(c)), ip |-> ApOf(c), up |-> TRUE].name = name
        OBVIOUS
      <3>3. name # Unknown
        BY <1>3, NamesOfAps
      <3> QED BY <3>1, <3>2, <3>3
    <2>4. ClientFloor(f, name) = _ap_floor_from_ip((CHOOSE a \in rows : TRUE).ip)
      BY <2>3 DEF ClientFloor
    <2>5. (CHOOSE a \in rows : TRUE) \in rows
      BY <2>3
    <2> HIDE DEF rows, name
    <2>6. ClientFloor(f, name) = _ap_floor_from_ip(ApOf(c))
      BY <2>2, <2>4, <2>5
    <2>7. ApOf(c) # Unknown
      BY <1>3, NamesOfAps
    <2> QED BY <1>3, <2>6, <2>7 DEF _ap_floor_from_ip, name
  <1>5. \A c \in Clients : ap_name_to_id(f, Row(c).ap_name) = ApOf(c) /\ ApOf(c) # NoId
    BY <1>3, NamesOfAps
  <1>6. ClientNodes(f) = {Node(c, FloorOf(ApOf(c)), TRUE, c[2], ApOf(c)) : c \in Clients}
    <2>1. ClientNodes(f) = {Node(r.mac, ClientFloor(f, r.ap_name), TRUE, r.vlan, ap_name_to_id(f, r.ap_name)) : r \in {Row(c) : c \in Clients}}
      BY <1>2 DEF ClientNodes
    <2>2. \A c \in Clients : Node(Row(c).mac, ClientFloor(f, Row(c).ap_name), TRUE, Row(c).vlan, ap_name_to_id(f, Row(c).ap_name))
                                = Node(c, FloorOf(ApOf(c)), TRUE, c[2], ApOf(c))
      BY <1>3, <1>4, <1>5
    <2> QED BY <2>1, <2>2
  <1>7. ClientEdges(f) = {Link(ApOf(c), Unknown, c, Unknown) : c \in Clients}
    <2>1. {s \in Range(f.stas) : ap_name_to_id(f, s.ap_name) # NoId} = {Row(c) : c \in Clients}
      BY <1>2, <1>5
    <2>2. ClientEdges(f) = {Link(ap_name_to_id(f, r.ap_name), Unknown, r.mac, Unknown) : r \in {Row(c) : c \in Clients}}
      BY <2>1 DEF ClientEdges
    <2>3. \A c \in Clients : Link(ap_name_to_id(f, Row(c).ap_name), Unknown, Row(c).mac, Unknown) = Link(ApOf(c), Unknown, c, Unknown)
      BY <1>3, <1>5
    <2> QED BY <2>2, <2>3
  <1> QED BY <1>6, <1>7 DEF ApOf

\* and for each device: these are the nodes.
LEMMA WholeNodes ==
    ASSUME NEW f, Whole(f)
    PROVE  build_l2(f).nodes = RealNodes
  <1> DEFINE Built(d) == {Node(r.host, d[2], TRUE, r.host[2], NoId) : r \in WiredRows(f, d)}
             There(d) == {Node(h.host, d[2], TRUE, h.host[2], NoId) : h \in InitialNetwork.hosts[d]}
  <1>1. \A d \in FloorSwitches : Built(d) = There(d)
    BY WholeHosts
  <1>2. InfraNodes(f) = {Node(d, Floor(d), TRUE, Unknown, NoId) : d \in Devices}
    BY DEF InfraNodes, Whole, HeardOf
  <1>3. build_l2(f).nodes = InfraNodes(f) \cup ApNodes(f) \cup WiredNodes(f) \cup ClientNodes(f)
    BY DEF build_l2
  <1>4. WiredNodes(f) = UNION {Built(d) : d \in FloorSwitches}
    BY DEF WiredNodes
  <1> HIDE DEF Built
  <1>5. WiredNodes(f) = UNION {There(d) : d \in FloorSwitches}
    <2> HIDE DEF There
    <2> QED BY <1>1, <1>4
  <1> DEFINE infra == {Node(d, Floor(d), TRUE, Unknown, NoId) : d \in Devices}
             aps == {Node(ap, FloorOf(ap), TRUE, Unknown, NoId) : ap \in APs}
             hosts == UNION {There(d) : d \in FloorSwitches}
             clients == {Node(c, FloorOf(InitialNetwork.assoc[c]), TRUE, c[2], InitialNetwork.assoc[c]) : c \in Clients}
  <1>6. RealNodes = infra \cup aps \cup hosts \cup clients
    BY DEF RealNodes
  <1>7. InfraNodes(f) = infra /\ WiredNodes(f) = hosts
    BY <1>2, <1>5
  <1>8. ApNodes(f) = aps
    BY WholeAps
  <1>9. ClientNodes(f) = clients
    BY WholeClients
  <1> HIDE DEF infra, aps, hosts, clients
  <1> QED BY <1>3, <1>6, <1>7, <1>8, <1>9

-----------------------------------------------------------------------------
(***************************************************************************)
(* It is the network link by link.                                         *)
(***************************************************************************)
WiredHosts == UNION {{h.host : h \in InitialNetwork.hosts[d]} : d \in FloorSwitches}

Ids == (Devices \cup APs) \cup (WiredHosts \cup Clients)

Ends(e) == {e.source, e.target}

\* The hosts of a floor switch.
LEMMA HostsOf ==
    ASSUME NEW d \in FloorSwitches, NEW h \in InitialNetwork.hosts[d]
    PROVE  h.host \in WiredHosts /\ h.host[1] = "ep" /\ h.host[3] = d[2] /\ h.host[2] \in WIRED_VLANS
  <1>1. d[2] \in Floors /\ d \in Devices /\ InitialNetwork.hosts[d] = populate_wired_endpoints(d[2])
    BY Kinds, Starting DEF Devices
  <1>2. h.host = Host(h.host[2], d[2], h.host[4]) /\ h.host[2] \in WIRED_VLANS
    BY <1>1, HostsOfFloor
  <1>3. h.host[1] = "ep" /\ h.host[3] = d[2]
    BY <1>2 DEF Host
  <1>4. h.host \in WiredHosts
    <2> DEFINE Of(e) == {g.host : g \in InitialNetwork.hosts[e]}
    <2>1. h.host \in Of(d)
      OBVIOUS
    <2>2. WiredHosts = UNION {Of(e) : e \in FloorSwitches}
      BY DEF WiredHosts
    <2> HIDE DEF Of
    <2> QED BY <2>1, <2>2
  <1> QED BY <1>2, <1>3, <1>4

\* Whoever has wired hosts is a floor switch.
LEMMA OnFloors ==
    /\ \A d \in Devices : InitialNetwork.hosts[d] # {} => d \in FloorSwitches
    /\ \A x \in WiredHosts : \E d \in FloorSwitches : \E h \in InitialNetwork.hosts[d] : h.host = x
    /\ \A x \in WiredHosts : x[1] = "ep"
  <1>1. \A d \in Devices : InitialNetwork.hosts[d] # {} => d \in FloorSwitches
    BY Starting
  <1>2. \A x \in WiredHosts : \E d \in FloorSwitches : \E h \in InitialNetwork.hosts[d] : h.host = x
    <2> DEFINE Of(e) == {g.host : g \in InitialNetwork.hosts[e]}
    <2>1. WiredHosts = UNION {Of(e) : e \in FloorSwitches}
      BY DEF WiredHosts
    <2> SUFFICES ASSUME NEW x \in WiredHosts
                 PROVE  \E d \in FloorSwitches : \E h \in InitialNetwork.hosts[d] : h.host = x
      OBVIOUS
    <2>2. PICK d \in FloorSwitches : x \in Of(d)
      <3> HIDE DEF Of
      <3> QED BY <2>1
    <2> QED BY <2>2
  <1> QED BY <1>1, <1>2, HostsOf

\* The nodes have these ids.
LEMMA IdsOfNodes == {n.id : n \in RealNodes} = Ids
  <1> DEFINE infra == {Node(d, Floor(d), TRUE, Unknown, NoId) : d \in Devices}
             aps == {Node(ap, FloorOf(ap), TRUE, Unknown, NoId) : ap \in APs}
             Of(d) == {Node(h.host, d[2], TRUE, h.host[2], NoId) : h \in InitialNetwork.hosts[d]}
             hosts == UNION {Of(d) : d \in FloorSwitches}
             clients == {Node(c, FloorOf(InitialNetwork.assoc[c]), TRUE, c[2], InitialNetwork.assoc[c]) : c \in Clients}
  <1>1. RealNodes = infra \cup aps \cup hosts \cup clients
    BY DEF RealNodes
  <1> DEFINE InfraAt(d) == Node(d, Floor(d), TRUE, Unknown, NoId)
             WirelessAt(ap) == Node(ap, FloorOf(ap), TRUE, Unknown, NoId)
             ClientAt(c) == Node(c, FloorOf(InitialNetwork.assoc[c]), TRUE, c[2], InitialNetwork.assoc[c])
  <1>2. /\ infra = {InfraAt(d) : d \in Devices} /\ \A d : InfraAt(d).id = d
        /\ aps = {WirelessAt(ap) : ap \in APs} /\ \A ap : WirelessAt(ap).id = ap
        /\ clients = {ClientAt(c) : c \in Clients} /\ \A c : ClientAt(c).id = c
    BY DEF Node
  <1> HIDE DEF infra, aps, clients, InfraAt, WirelessAt, ClientAt
  <1>3. {n.id : n \in infra} = Devices
    BY <1>2
  <1>4. {n.id : n \in aps} = APs
    BY <1>2
  <1>5. {n.id : n \in clients} = Clients
    BY <1>2
  <1>6. {n.id : n \in hosts} = WiredHosts
    <2>1. ASSUME NEW n \in hosts
          PROVE  n.id \in WiredHosts
      <3>1. PICK d \in FloorSwitches : n \in Of(d)
        <4> HIDE DEF Of
        <4> QED OBVIOUS
      <3>2. PICK h \in InitialNetwork.hosts[d] : n = Node(h.host, d[2], TRUE, h.host[2], NoId)
        BY <3>1
      <3>3. n.id = h.host
        BY <3>2 DEF Node
      <3> QED BY <3>3, HostsOf
    <2>2. ASSUME NEW x \in WiredHosts
          PROVE  \E n \in hosts : n.id = x
      <3>1. PICK d \in FloorSwitches : \E h \in InitialNetwork.hosts[d] : h.host = x
        BY OnFloors
      <3>2. PICK h \in InitialNetwork.hosts[d] : h.host = x
        BY <3>1
      <3> DEFINE n == Node(h.host, d[2], TRUE, h.host[2], NoId)
      <3>3. n \in Of(d) /\ n.id = x
        BY <3>2 DEF Node
      <3> HIDE DEF Of, n
      <3> QED BY <3>3
    <2> HIDE DEF hosts
    <2> QED BY <2>1, <2>2
  <1> HIDE DEF hosts
  <1> QED BY <1>1, <1>3, <1>4, <1>5, <1>6 DEF Ids

\* What is linked are nodes,
LEMMA LinkedNodes ==
    ASSUME NEW x, NEW y, Linked(x, y)
    PROVE  x \in Ids /\ y \in Ids
  <1>1. CASE x \in Devices /\ \E r \in InitialNetwork.lldp[x] : r.dev = y
    BY <1>1, NeighborsMutual DEF Ids
  <1>2. CASE x \in Devices /\ \E h \in InitialNetwork.hosts[x] : h.host = y
    <2>1. x \in FloorSwitches
      BY <1>2, OnFloors
    <2> QED BY <1>2, <2>1, HostsOf DEF Ids
  <1>3. CASE y \in Clients /\ InitialNetwork.assoc[y] = x
    <2>1. x \in APs
      BY <1>3, Starting, Dealing
    <2> QED BY <1>3, <2>1 DEF Ids
  <1> QED BY <1>1, <1>2, <1>3 DEF Linked

\* and every node is linked.
LEMMA NodesLinked ==
    ASSUME NEW x \in Ids
    PROVE  \E y : Linked(x, y) \/ Linked(y, x)
  <1>0. CoreSw \in Devices /\ InitialNetwork.lldp[CoreSw] = CoreNeighbors
    BY Kinds, Starting DEF Devices
  <1>1. CASE x \in Devices
    <2>1. CASE x = CoreSw
      <3>1. Neighbor(Port(1), FgPrimary, Port(5)) \in InitialNetwork.lldp[CoreSw]
        BY <1>0 DEF CoreNeighbors
      <3>2. Neighbor(Port(1), FgPrimary, Port(5)).dev = FgPrimary
        BY DEF Neighbor
      <3>3. Linked(CoreSw, FgPrimary)
        BY <1>0, <3>1, <3>2 DEF Linked
      <3> QED BY <2>1, <3>3
    <2>2. CASE x # CoreSw
      <3>1. \E r \in InitialNetwork.lldp[CoreSw] : r.dev = x
        <4>1. CASE x \in {FgPrimary, FgStandby}
          <5>1. /\ Neighbor(Port(1), FgPrimary, Port(5)) \in InitialNetwork.lldp[CoreSw]
                /\ Neighbor(Port(2), FgStandby, Port(5)) \in InitialNetwork.lldp[CoreSw]
            BY <1>0 DEF CoreNeighbors
          <5> QED BY <4>1, <5>1 DEF Neighbor
        <4>2. CASE x \in FloorSwitches
          <5>1. PICK f \in Floors : x = FloorSw(f)
            BY <4>2 DEF FloorSwitches
          <5>2. Neighbor(CorePort(f), FloorSw(f), Port(UPLINK)) \in InitialNetwork.lldp[CoreSw]
            BY <1>0 DEF CoreNeighbors
          <5> QED BY <5>1, <5>2 DEF Neighbor
        <4> QED BY <1>1, <2>2, <4>1, <4>2 DEF Devices, Firewalls
      <3> QED BY <1>0, <3>1 DEF Linked
    <2> QED BY <2>1, <2>2
  <1>2. CASE x \in APs
    <2>1. PICK f \in Floors, i \in 1 .. APS_PER_FLOOR : x = Ap(f, i)
      BY <1>2 DEF APs
    <2>2. FloorSw(f) \in FloorSwitches /\ FloorSw(f) \in Devices /\ FloorSw(f)[2] = f
      BY DEF FloorSwitches, Devices, FloorSw
    <2>3. InitialNetwork.lldp[FloorSw(f)] = FloorNeighbors(f)
      BY <2>2, Kinds, Starting
    <2>4. Neighbor(Port(i), Ap(f, i), Eth0) \in InitialNetwork.lldp[FloorSw(f)]
      BY <2>3 DEF FloorNeighbors
    <2>5. Linked(FloorSw(f), x)
      BY <2>1, <2>2, <2>4 DEF Linked, Neighbor
    <2> QED BY <2>5
  <1>3. CASE x \in WiredHosts
    <2>1. PICK d \in FloorSwitches : \E h \in InitialNetwork.hosts[d] : h.host = x
      BY <1>3, OnFloors
    <2>2. Linked(d, x)
      BY <2>1 DEF Linked, Devices
    <2> QED BY <2>2
  <1>4. CASE x \in Clients
    BY <1>4 DEF Linked
  <1> QED BY <1>1, <1>2, <1>3, <1>4 DEF Ids

\* The links of the network are these pairs.
LEMMA LinksOfNodes ==
    /\ \A x, y : Linked(x, y) => {x, y} \in RealLinks
    /\ \A k \in RealLinks : \E x, y \in Ids : k = {x, y} /\ Linked(x, y)
  <1>1. RealLinks = {{p[1], p[2]} : p \in {q \in Ids \X Ids : Linked(q[1], q[2])}}
    BY IdsOfNodes DEF RealLinks
  <1> HIDE DEF Linked
  <1>2. ASSUME NEW x, NEW y, Linked(x, y)
        PROVE  {x, y} \in RealLinks
    <2>1. <<x, y>> \in Ids \X Ids
      BY <1>2, LinkedNodes
    <2>2. {<<x, y>>[1], <<x, y>>[2]} = {x, y} /\ Linked(<<x, y>>[1], <<x, y>>[2])
      BY <1>2
    <2> QED BY <1>1, <2>1, <2>2
  <1>3. ASSUME NEW k \in RealLinks
        PROVE  \E x, y \in Ids : k = {x, y} /\ Linked(x, y)
    <2>1. PICK p \in Ids \X Ids : k = {p[1], p[2]} /\ Linked(p[1], p[2])
      BY <1>1
    <2> QED BY <2>1
  <1> QED BY <1>2, <1>3

\* What was reported of a neighbor, in short.
LEMMA Reporting ==
    ASSUME NEW f, Whole(f)
    PROVE  /\ DOMAIN f.edges \in SUBSET Nat
           /\ \A i \in DOMAIN f.edges : \E d \in Devices : \E r \in InitialNetwork.lldp[d] :
                 /\ r.dev \in Devices \cup APs /\ (r.dev \in APs => d \in FloorSwitches)
                 /\ f.edges[i].source = d /\ Named(f.edges[i].name, r.dev)
                 /\ f.edges[i].target = _resolve_device_id(f.edges[i].name)
           /\ \A d \in Devices : \A r \in InitialNetwork.lldp[d] : \E i \in DOMAIN f.edges :
                 f.edges[i].source = d /\ f.edges[i].name = NameOf(r.dev)
                 /\ f.edges[i].target = _resolve_device_id(NameOf(r.dev))
  <1> DEFINE edges == f.edges
  <1>1. edges \in Seq(Reports)
    BY DEF Whole, Collected
  <1>2. ASSUME NEW d \in Devices, NEW r \in InitialNetwork.lldp[d]
        PROVE  \E i \in DOMAIN edges : edges[i].source = d /\ edges[i].name = NameOf(r.dev)
                                       /\ edges[i].target = _resolve_device_id(NameOf(r.dev))
    <2> DEFINE report == Reported(d, r, r.remote, NameOf(r.dev))
    <2>1. report.source = d /\ report.name = NameOf(r.dev) /\ report.target = _resolve_device_id(NameOf(r.dev))
      BY DEF Reported
    <2>2. report \in Range(edges)
      BY DEF Whole, HeardOf, NeighborsHeard
    <2> HIDE DEF report, edges
    <2>3. PICK i \in DOMAIN edges : edges[i] = report
      BY <2>2 DEF Range
    <2> QED BY <2>1, <2>3
  <1> HIDE DEF edges
  <1>3. DOMAIN edges \in SUBSET Nat /\ \A i \in DOMAIN edges : edges[i] \in Reports
    BY <1>1, LenProperties
  <1>4. ASSUME NEW i \in DOMAIN edges
        PROVE  \E d \in Devices : \E r \in InitialNetwork.lldp[d] :
                 /\ r.dev \in Devices \cup APs /\ (r.dev \in APs => d \in FloorSwitches)
                 /\ edges[i].source = d /\ Named(edges[i].name, r.dev)
                 /\ edges[i].target = _resolve_device_id(edges[i].name)
    <2> DEFINE e == edges[i]
    <2>1. e \in Reports
      BY <1>3
    <2> HIDE DEF e
    <2>2. \E d \in Devices : \E r \in InitialNetwork.lldp[d] :
                 /\ r.dev \in Devices \cup APs /\ (r.dev \in APs => d \in FloorSwitches)
                 /\ e.source = d /\ Named(e.name, r.dev)
                 /\ e.target = _resolve_device_id(e.name)
      BY <2>1, OfNeighbor
    <2> QED BY <2>2 DEF e
  <1> QED BY <1>2, <1>3, <1>4 DEF edges

\* The links between devices are edges, each once,
LEMMA WholeDeviceLinks ==
    ASSUME NEW f, Whole(f)
    PROVE  /\ \A e \in LldpEdges(f) : e.source \in Devices /\ e.target \in Devices
           /\ \A e, g \in LldpEdges(f) : Ends(e) = Ends(g) => e = g
           /\ \A d \in Devices : \A r \in InitialNetwork.lldp[d] :
                 r.dev \in Devices => \E e \in LldpEdges(f) : Ends(e) = {d, r.dev}
  <1> DEFINE edges == f.edges
             known == {i \in DOMAIN edges : edges[i].target # NoId}
             key == [i \in known |-> {edges[i].source, edges[i].target}]
             firsts == {i \in known : \A j \in known : j < i => key[j] # key[i]}
             LinkAt(i) == Link(edges[i].source, edges[i].sport, edges[i].target, edges[i].tport)
  <1>1. LldpEdges(f) = {LinkAt(i) : i \in firsts}
    <2> DEFINE Key(i) == {edges[i].source, edges[i].target}
               unkeyed == {i \in known : \A j \in known : j < i => Key(j) # Key(i)}
    <2>1. LldpEdges(f) = {LinkAt(i) : i \in unkeyed}
      BY DEF LldpEdges, Firsts
    <2>2. unkeyed = firsts
      <3>1. \A i \in known : key[i] = Key(i)
        OBVIOUS
      <3> HIDE DEF key, Key, known
      <3> QED BY <3>1
    <2> QED BY <2>1, <2>2
  <1>2. known \in SUBSET Nat
    BY Reporting
  <1>3. ASSUME NEW i \in known
        PROVE  edges[i].source \in Devices /\ edges[i].target \in Devices
    <2>1. PICK d \in Devices : \E r \in InitialNetwork.lldp[d] :
             /\ r.dev \in Devices \cup APs
             /\ edges[i].source = d /\ Named(edges[i].name, r.dev)
             /\ edges[i].target = _resolve_device_id(edges[i].name)
      BY Reporting
    <2> QED BY <2>1, Resolving
  <1>4. \A i \in known : LinkAt(i).source = edges[i].source /\ LinkAt(i).target = edges[i].target /\ Ends(LinkAt(i)) = key[i]
    BY DEF Link, Ends
  <1>5. ASSUME NEW d \in Devices, NEW r \in InitialNetwork.lldp[d], r.dev \in Devices
        PROVE  \E i \in firsts : key[i] = {d, r.dev}
    <2>1. PICK i \in DOMAIN edges : edges[i].source = d /\ edges[i].target = _resolve_device_id(NameOf(r.dev))
      BY Reporting
    <2>2. edges[i].target = r.dev /\ r.dev # NoId
      BY <1>5, <2>1, Resolved, DiscoveryAssumption
    <2>3. i \in known
      BY <2>2
    <2>4. key[i] = {d, r.dev}
      BY <2>1, <2>2, <2>3
    <2> HIDE DEF known, key, edges
    <2>5. PICK j \in known : key[j] = key[i] /\ \A k \in known : k < j => key[k] # key[j]
      <3>1. \A m \in known : \E j \in known : key[j] = key[m] /\ \A k \in known : k < j => key[k] # key[j]
        BY <1>2, FirstPlace
      <3> QED BY <2>3, <3>1
    <2> QED BY <2>4, <2>5
  <1> HIDE DEF known, key, LinkAt, edges
  <1>6. \A i, j \in firsts : key[i] = key[j] => i = j
    <2>1. \A i, j \in firsts : i \in Nat /\ j \in Nat
      BY <1>2
    <2> QED BY <2>1
  <1>7. \A i \in firsts : i \in known
    OBVIOUS
  <1> HIDE DEF firsts
  <1>8. \A e \in LldpEdges(f) : e.source \in Devices /\ e.target \in Devices
    BY <1>1, <1>3, <1>4, <1>7
  <1>9. \A e, g \in LldpEdges(f) : Ends(e) = Ends(g) => e = g
    BY <1>1, <1>4, <1>6, <1>7
  <1>10. \A d \in Devices : \A r \in InitialNetwork.lldp[d] :
            r.dev \in Devices => \E e \in LldpEdges(f) : Ends(e) = {d, r.dev}
    <2>1. \A i \in firsts : LinkAt(i) \in LldpEdges(f) /\ Ends(LinkAt(i)) = key[i]
      BY <1>1, <1>4, <1>7
    <2> QED BY <1>5, <2>1
  <1> QED BY <1>8, <1>9, <1>10

\* the links of the access points too,
LEMMA WholeApLinks ==
    ASSUME NEW f, Whole(f)
    PROVE  /\ \A e \in ApEdges(f) : e.source \in Devices /\ e.target \in APs
           /\ \A e, g \in ApEdges(f) : Ends(e) = Ends(g) => e = g
           /\ \A d \in Devices : \A r \in InitialNetwork.lldp[d] :
                 r.dev \in APs => \E e \in ApEdges(f) : Ends(e) = {d, r.dev}
  <1> DEFINE edges == f.edges
             Id(i) == ap_name_to_id(f, edges[i].name)
             named == {i \in DOMAIN edges : edges[i].source \in FloorSwitches /\ Id(i) # NoId}
             key == [i \in named |-> <<edges[i].source, Id(i)>>]
             firsts == {i \in named : \A j \in named : j < i => key[j] # key[i]}
             LinkAt(i) == Link(edges[i].source, edges[i].sport, Id(i), edges[i].tport)
  <1>1. ApEdges(f) = {LinkAt(i) : i \in firsts}
    <2> DEFINE Key(i) == <<edges[i].source, Id(i)>>
               unkeyed == {i \in named : \A j \in named : j < i => Key(j) # Key(i)}
    <2>1. ApEdges(f) = {LinkAt(i) : i \in unkeyed}
      BY DEF ApEdges, Firsts
    <2>2. unkeyed = firsts
      <3>1. \A i \in named : key[i] = Key(i)
        OBVIOUS
      <3> HIDE DEF key, Key, named
      <3> QED BY <3>1
    <2> QED BY <2>1, <2>2
  <1>2. named \in SUBSET Nat
    BY Reporting
  <1>3. ASSUME NEW i \in named
        PROVE  edges[i].source \in Devices /\ Id(i) \in APs
    <2>1. PICK d \in Devices : \E r \in InitialNetwork.lldp[d] :
             r.dev \in Devices \cup APs /\ edges[i].source = d /\ Named(edges[i].name, r.dev)
      BY Reporting
    <2>2. Id(i) # NoId /\ Id(i) = _ap_device_id_from_name(edges[i].name)
      BY DEF ap_name_to_id
    <2>3. Id(i) \in APs
      BY <2>1, <2>2, ApsResolved
    <2> QED BY <2>1, <2>3
  <1> HIDE DEF Id
  <1>4. \A i \in named : LinkAt(i).source = edges[i].source /\ LinkAt(i).target = Id(i) /\ Ends(LinkAt(i)) = {edges[i].source, Id(i)}
    BY DEF Link, Ends
  <1>5. ASSUME NEW d \in Devices, NEW r \in InitialNetwork.lldp[d], r.dev \in APs
        PROVE  \E i \in firsts : edges[i].source = d /\ Id(i) = r.dev
    <2>1. PICK i \in DOMAIN edges : edges[i].source = d /\ edges[i].name = NameOf(r.dev)
      BY Reporting
    <2>2. Id(i) = r.dev /\ r.dev # NoId
      BY <1>5, <2>1, NamesOfAps DEF Id, NameOf
    <2>3. d \in FloorSwitches
      BY <1>5, NeighborsMutual
    <2>4. i \in named
      BY <2>1, <2>2, <2>3
    <2>5. \A j \in named : key[j] = <<edges[j].source, Id(j)>>
      OBVIOUS
    <2> HIDE DEF named, key, edges
    <2>6. PICK j \in named : key[j] = key[i] /\ \A k \in named : k < j => key[k] # key[j]
      <3>1. \A m \in named : \E j \in named : key[j] = key[m] /\ \A k \in named : k < j => key[k] # key[j]
        BY <1>2, FirstPlace
      <3> QED BY <2>4, <3>1
    <2>7. edges[j].source = d /\ Id(j) = r.dev
      BY <2>1, <2>2, <2>4, <2>5, <2>6
    <2> QED BY <2>6, <2>7
  <1>6. \A i \in named : key[i] = <<edges[i].source, Id(i)>>
    OBVIOUS
  <1> HIDE DEF named, key, LinkAt, edges
  <1>7. \A i, j \in firsts : key[i] = key[j] => i = j
    <2>1. \A i, j \in firsts : i \in Nat /\ j \in Nat
      BY <1>2
    <2> QED BY <2>1
  <1>8. \A i \in firsts : i \in named
    OBVIOUS
  <1> HIDE DEF firsts
  <1>9. \A e \in ApEdges(f) : e.source \in Devices /\ e.target \in APs
    BY <1>1, <1>3, <1>4, <1>8
  <1>10. ASSUME NEW i \in firsts, NEW j \in firsts, Ends(LinkAt(i)) = Ends(LinkAt(j))
         PROVE  i = j
    <2>1. {edges[i].source, Id(i)} = {edges[j].source, Id(j)}
      BY <1>4, <1>8, <1>10
    <2>2. edges[i].source \in Devices /\ edges[j].source \in Devices /\ Id(i) \notin Devices /\ Id(j) \notin Devices
      BY <1>3, <1>8, Kinds
    <2>3. edges[i].source = edges[j].source /\ Id(i) = Id(j)
      BY <2>1, <2>2
    <2> QED BY <1>6, <1>7, <1>8, <2>3
  <1>11. \A e, g \in ApEdges(f) : Ends(e) = Ends(g) => e = g
    BY <1>1, <1>10
  <1>12. \A d \in Devices : \A r \in InitialNetwork.lldp[d] :
            r.dev \in APs => \E e \in ApEdges(f) : Ends(e) = {d, r.dev}
    BY <1>1, <1>4, <1>5, <1>8
  <1> QED BY <1>9, <1>11, <1>12

\* those of the hosts,
LEMMA WholeHostLinks ==
    ASSUME NEW f, Whole(f)
    PROVE  /\ \A e \in WiredEdges(f) : e.source \in Devices /\ e.target \in WiredHosts
           /\ \A e, g \in WiredEdges(f) : Ends(e) = Ends(g) => e = g
           /\ \A d \in Devices : \A h \in InitialNetwork.hosts[d] : \E e \in WiredEdges(f) : Ends(e) = {d, h.host}
  <1> DEFINE LinkTo(d, h) == Link(d, bridge_port(f, d, HostRow(h)), h.host, Unknown)
             Of(d) == {Link(d, bridge_port(f, d, r), r.host, Unknown) : r \in WiredRows(f, d)}
  <1>1. WiredEdges(f) = UNION {Of(d) : d \in FloorSwitches}
    BY DEF WiredEdges
  <1>2. ASSUME NEW d \in FloorSwitches
        PROVE  Of(d) = {LinkTo(d, h) : h \in InitialNetwork.hosts[d]}
    <2>1. WiredRows(f, d) = {HostRow(h) : h \in InitialNetwork.hosts[d]}
      BY WholeHosts
    <2>2. \A h : HostRow(h).host = h.host
      BY DEF HostRow
    <2> HIDE DEF HostRow
    <2> QED BY <2>1, <2>2
  <1>3. \A d, h : LinkTo(d, h).source = d /\ LinkTo(d, h).target = h.host /\ Ends(LinkTo(d, h)) = {d, h.host}
    BY DEF Link, Ends
  <1> HIDE DEF Of, LinkTo
  <1>4. /\ \A e \in WiredEdges(f) : \E d \in FloorSwitches : \E h \in InitialNetwork.hosts[d] : e = LinkTo(d, h)
        /\ \A d \in FloorSwitches : \A h \in InitialNetwork.hosts[d] : LinkTo(d, h) \in WiredEdges(f)
    BY <1>1, <1>2
  <1>5. \A d \in FloorSwitches : d \in Devices
    BY DEF Devices
  <1>6. \A e \in WiredEdges(f) : e.source \in Devices /\ e.target \in WiredHosts
    BY <1>3, <1>4, <1>5, HostsOf
  <1>7. ASSUME NEW d \in FloorSwitches, NEW h \in InitialNetwork.hosts[d],
               NEW e \in FloorSwitches, NEW g \in InitialNetwork.hosts[e], {d, h.host} = {e, g.host}
        PROVE  d = e /\ h = g
    <2>1. h.host \notin Devices /\ g.host \notin Devices
      BY HostsOf, Kinds
    <2>2. d = e /\ h.host = g.host
      BY <1>5, <1>7, <2>1
    <2>3. \A x, y \in InitialNetwork.hosts[d] : x.host = y.host => x = y
      BY <1>5, Kinds, Starting, HostsOfFloor
    <2> QED BY <2>2, <2>3
  <1>8. ASSUME NEW x \in WiredEdges(f), NEW y \in WiredEdges(f), Ends(x) = Ends(y)
        PROVE  x = y
    <2>1. PICK d \in FloorSwitches : \E h \in InitialNetwork.hosts[d] : x = LinkTo(d, h)
      BY <1>4
    <2>2. PICK h \in InitialNetwork.hosts[d] : x = LinkTo(d, h)
      BY <2>1
    <2>3. PICK e \in FloorSwitches : \E g \in InitialNetwork.hosts[e] : y = LinkTo(e, g)
      BY <1>4
    <2>4. PICK g \in InitialNetwork.hosts[e] : y = LinkTo(e, g)
      BY <2>3
    <2>5. {d, h.host} = {e, g.host}
      BY <1>3, <1>8, <2>2, <2>4
    <2>6. d = e /\ h = g
      BY <1>7, <2>5
    <2> QED BY <2>2, <2>4, <2>6
  <1>9. \A d \in Devices : \A h \in InitialNetwork.hosts[d] : \E e \in WiredEdges(f) : Ends(e) = {d, h.host}
    BY <1>3, <1>4, OnFloors
  <1> QED BY <1>6, <1>8, <1>9

\* and those of the clients.
LEMMA WholeClientLinks ==
    ASSUME NEW f, Whole(f)
    PROVE  /\ \A e \in ClientEdges(f) : e.source \in APs /\ e.target \in Clients
           /\ \A e, g \in ClientEdges(f) : Ends(e) = Ends(g) => e = g
           /\ \A c \in Clients : \E e \in ClientEdges(f) : Ends(e) = {InitialNetwork.assoc[c], c}
  <1> DEFINE LinkTo(c) == Link(InitialNetwork.assoc[c], Unknown, c, Unknown)
  <1>1. ClientEdges(f) = {LinkTo(c) : c \in Clients}
    BY WholeClients
  <1>2. \A c \in Clients : InitialNetwork.assoc[c] \in APs
    BY Starting, Dealing
  <1>3. \A c : LinkTo(c).source = InitialNetwork.assoc[c] /\ LinkTo(c).target = c
               /\ Ends(LinkTo(c)) = {InitialNetwork.assoc[c], c}
    BY DEF Link, Ends
  <1> HIDE DEF LinkTo
  <1>4. APs \cap Clients = {}
    BY Kinds
  <1>5. \A c, d \in Clients : {InitialNetwork.assoc[c], c} = {InitialNetwork.assoc[d], d} => c = d
    BY <1>2, <1>4
  <1>6. \A e \in ClientEdges(f) : e.source \in APs /\ e.target \in Clients
    BY <1>1, <1>2, <1>3
  <1>7. \A c, d \in Clients : Ends(LinkTo(c)) = Ends(LinkTo(d)) => LinkTo(c) = LinkTo(d)
    BY <1>3, <1>5
  <1>8. \A e, g \in ClientEdges(f) : Ends(e) = Ends(g) => e = g
    BY <1>1, <1>7
  <1>9. \A c \in Clients : LinkTo(c) \in ClientEdges(f) /\ Ends(LinkTo(c)) = {InitialNetwork.assoc[c], c}
    BY <1>1, <1>3
  <1> QED BY <1>6, <1>8, <1>9

\* A finite set has finitely many images.
LEMMA Images ==
    ASSUME NEW S, IsFiniteSet(S), NEW g
    PROVE  IsFiniteSet({g[x] : x \in S})
  <1> DEFINE images == {g[x] : x \in S}
             h == [x \in S |-> g[x]]
  <1>1. h \in Surjection(S, images)
    BY DEF Surjection
  <1> QED BY <1>1, FS_Surjection

\* There are finitely many nodes, so finitely many links.
LEMMA FinitelyMany == IsFiniteSet(Ids) /\ IsFiniteSet(RealLinks)
  <1>1. IsFiniteSet(Floors) /\ IsFiniteSet(1 .. APS_PER_FLOOR)
    BY NetworkAssumption, FS_Interval DEF Floors
  <1>2. IsFiniteSet(FloorSwitches)
    <2> DEFINE switch == [i \in Floors |-> FloorSw(i)]
    <2>1. IsFiniteSet({switch[i] : i \in Floors})
      BY <1>1, Images
    <2>2. FloorSwitches = {switch[i] : i \in Floors}
      BY DEF FloorSwitches
    <2> QED BY <2>1, <2>2
  <1>3. IsFiniteSet(Devices)
    <2>1. Devices = ({FgPrimary} \cup {FgStandby}) \cup ({CoreSw} \cup FloorSwitches)
      BY DEF Devices, Firewalls
    <2>2. IsFiniteSet({FgPrimary} \cup {FgStandby}) /\ IsFiniteSet({CoreSw} \cup FloorSwitches)
      BY <1>2, FS_Singleton, FS_Union
    <2> QED BY <2>1, <2>2, FS_Union
  <1>4. IsFiniteSet(APs)
    <2> DEFINE pairs == Floors \X (1 .. APS_PER_FLOOR)
               point == [p \in pairs |-> Ap(p[1], p[2])]
    <2>1. IsFiniteSet({point[p] : p \in pairs})
      <3>1. IsFiniteSet(pairs)
        BY <1>1, FS_Product
      <3> HIDE DEF pairs, point
      <3> QED BY <3>1, Images
    <2>2. APs = {point[p] : p \in pairs}
      <3>1. \A f \in Floors, i \in 1 .. APS_PER_FLOOR : <<f, i>> \in pairs /\ point[<<f, i>>] = Ap(f, i)
        OBVIOUS
      <3>2. \A p \in pairs : p[1] \in Floors /\ p[2] \in 1 .. APS_PER_FLOOR /\ point[p] = Ap(p[1], p[2])
        OBVIOUS
      <3> HIDE DEF pairs, point
      <3>3. APs \subseteq {point[p] : p \in pairs}
        <4> SUFFICES ASSUME NEW a \in APs PROVE \E p \in pairs : a = point[p]
          OBVIOUS
        <4>1. PICK f \in Floors, i \in 1 .. APS_PER_FLOOR : a = Ap(f, i)
          BY DEF APs
        <4>2. <<f, i>> \in pairs /\ point[<<f, i>>] = a
          BY <3>1, <4>1
        <4> QED BY <4>2
      <3>4. {point[p] : p \in pairs} \subseteq APs
        <4>1. \A p \in pairs : point[p] \in APs
          BY <3>2 DEF APs
        <4> QED BY <4>1
      <3> QED BY <3>3, <3>4
    <2> QED BY <2>1, <2>2
  <1>5. IsFiniteSet(WiredHosts)
    <2> DEFINE hosts == InitialNetwork.hosts
               names == [d \in FloorSwitches |-> {h.host : h \in hosts[d]}]
               groups == {names[d] : d \in FloorSwitches}
    <2>1. IsFiniteSet(groups)
      BY <1>2, Images
    <2>2. ASSUME NEW d \in FloorSwitches
          PROVE  IsFiniteSet(names[d])
      <3> DEFINE name == [h \in hosts[d] |-> h.host]
      <3>1. IsFiniteSet(hosts[d])
        BY Kinds, Starting, HostsOfFloor DEF Devices
      <3> HIDE DEF hosts
      <3>2. IsFiniteSet({name[h] : h \in hosts[d]})
        BY <3>1, Images
      <3>3. names[d] = {name[h] : h \in hosts[d]}
        OBVIOUS
      <3> QED BY <3>2, <3>3
    <2>3. WiredHosts = UNION groups
      BY DEF WiredHosts
    <2> HIDE DEF names
    <2>4. \A group \in groups : IsFiniteSet(group)
      BY <2>2
    <2> HIDE DEF groups
    <2> QED BY <2>1, <2>3, <2>4, FS_UNION
  <1>6. IsFiniteSet(Ids)
    <2>1. IsFiniteSet(Devices \cup APs) /\ IsFiniteSet(WiredHosts \cup Clients)
      BY <1>3, <1>4, <1>5, ClientsAreFinite, FS_Union
    <2> QED BY <2>1, FS_Union DEF Ids
  <1>7. IsFiniteSet(RealLinks)
    <2>1. RealLinks \in SUBSET (SUBSET Ids)
      <3>1. \A k \in RealLinks : k \subseteq Ids
        BY LinksOfNodes
      <3> QED BY <3>1
    <2>2. IsFiniteSet(SUBSET Ids)
      BY <1>6, FS_SUBSET
    <2> QED BY <2>1, <2>2, FS_Subset
  <1> QED BY <1>6, <1>7

\* The edges are the links, each once.
LEMMA WholeLinks ==
    ASSUME NEW f, Whole(f)
    PROVE  /\ {Ends(e) : e \in build_l2(f).edges} = RealLinks
           /\ Cardinality(build_l2(f).edges) = Cardinality(RealLinks)
  <1> DEFINE all == build_l2(f).edges
             lldp == LldpEdges(f)
             aps == ApEdges(f)
             hosts == WiredEdges(f)
             clients == ClientEdges(f)
  <1>1. all = lldp \cup aps \cup hosts \cup clients
    BY DEF build_l2
  <1>2. /\ \A e \in lldp : e.source \in Devices /\ e.target \in Devices
        /\ \A e, g \in lldp : Ends(e) = Ends(g) => e = g
        /\ \A d \in Devices : \A r \in InitialNetwork.lldp[d] : r.dev \in Devices => \E e \in lldp : Ends(e) = {d, r.dev}
    BY WholeDeviceLinks
  <1>3. /\ \A e \in aps : e.source \in Devices /\ e.target \in APs
        /\ \A e, g \in aps : Ends(e) = Ends(g) => e = g
        /\ \A d \in Devices : \A r \in InitialNetwork.lldp[d] : r.dev \in APs => \E e \in aps : Ends(e) = {d, r.dev}
    BY WholeApLinks
  <1>4. /\ \A e \in hosts : e.source \in Devices /\ e.target \in WiredHosts
        /\ \A e, g \in hosts : Ends(e) = Ends(g) => e = g
        /\ \A d \in Devices : \A h \in InitialNetwork.hosts[d] : \E e \in hosts : Ends(e) = {d, h.host}
    BY WholeHostLinks
  <1>5. /\ \A e \in clients : e.source \in APs /\ e.target \in Clients
        /\ \A e, g \in clients : Ends(e) = Ends(g) => e = g
        /\ \A c \in Clients : \E e \in clients : Ends(e) = {InitialNetwork.assoc[c], c}
    BY WholeClientLinks
  <1>6. \A e \in all : Linked(e.source, e.target)
    BY RealEdges DEF Real, Whole
  <1> HIDE DEF all, lldp, aps, hosts, clients
  <1>7. \A e \in all : Ends(e) \in RealLinks
    BY <1>6, LinksOfNodes DEF Ends
  <1>8. ASSUME NEW k \in RealLinks
        PROVE  \E e \in all : Ends(e) = k
    <2>1. PICK x, y \in Ids : k = {x, y} /\ Linked(x, y)
      BY LinksOfNodes
    <2>2. CASE x \in Devices /\ \E r \in InitialNetwork.lldp[x] : r.dev = y
      <3>1. PICK r \in InitialNetwork.lldp[x] : r.dev = y
        BY <2>2
      <3>2. r.dev \in Devices \/ r.dev \in APs
        BY <2>2, NeighborsMutual
      <3>3. CASE y \in Devices
        <4>1. \E e \in lldp : Ends(e) = {x, y}
          BY <1>2, <2>2, <3>1, <3>3
        <4> QED BY <1>1, <2>1, <4>1
      <3>4. CASE y \in APs
        <4>1. \E e \in aps : Ends(e) = {x, y}
          BY <1>3, <2>2, <3>1, <3>4
        <4> QED BY <1>1, <2>1, <4>1
      <3> QED BY <3>1, <3>2, <3>3, <3>4
    <2>3. CASE x \in Devices /\ \E h \in InitialNetwork.hosts[x] : h.host = y
      BY <1>1, <1>4, <2>1, <2>3
    <2>4. CASE y \in Clients /\ InitialNetwork.assoc[y] = x
      BY <1>1, <1>5, <2>1, <2>4
    <2> QED BY <2>1, <2>2, <2>3, <2>4 DEF Linked
  <1>9. /\ Devices \cap APs = {} /\ Devices \cap WiredHosts = {} /\ Devices \cap Clients = {}
        /\ APs \cap WiredHosts = {} /\ APs \cap Clients = {} /\ WiredHosts \cap Clients = {}
    BY Kinds, OnFloors
  <1>10. /\ \A e \in lldp : Ends(e) \cap APs = {} /\ Ends(e) \cap WiredHosts = {} /\ Ends(e) \cap Clients = {}
         /\ \A e \in aps : Ends(e) \cap APs # {} /\ Ends(e) \cap WiredHosts = {} /\ Ends(e) \cap Clients = {}
         /\ \A e \in hosts : Ends(e) \cap APs = {} /\ Ends(e) \cap WiredHosts # {} /\ Ends(e) \cap Clients = {}
         /\ \A e \in clients : Ends(e) \cap Clients # {}
    <2>1. \A e \in lldp : Ends(e) \cap APs = {} /\ Ends(e) \cap WiredHosts = {} /\ Ends(e) \cap Clients = {}
      BY <1>2, <1>9 DEF Ends
    <2>2. \A e \in aps : Ends(e) \cap APs # {} /\ Ends(e) \cap WiredHosts = {} /\ Ends(e) \cap Clients = {}
      BY <1>3, <1>9 DEF Ends
    <2>3. \A e \in hosts : Ends(e) \cap APs = {} /\ Ends(e) \cap WiredHosts # {} /\ Ends(e) \cap Clients = {}
      BY <1>4, <1>9 DEF Ends
    <2>4. \A e \in clients : Ends(e) \cap Clients # {}
      BY <1>5, <1>9 DEF Ends
    <2> QED BY <2>1, <2>2, <2>3, <2>4
  <1>11. ASSUME NEW e \in all, NEW g \in all, Ends(e) = Ends(g)
         PROVE  e = g
    <2>1. \/ e \in lldp /\ g \in lldp
          \/ e \in aps /\ g \in aps
          \/ e \in hosts /\ g \in hosts
          \/ e \in clients /\ g \in clients
      BY <1>1, <1>10, <1>11
    <2> QED BY <1>2, <1>3, <1>4, <1>5, <1>11, <2>1
  <1>12. {Ends(e) : e \in all} = RealLinks
    BY <1>7, <1>8
  <1>13. Cardinality(all) = Cardinality(RealLinks)
    <2> DEFINE edge == [k \in RealLinks |-> CHOOSE e \in all : Ends(e) = k]
    <2>1. \A k \in RealLinks : edge[k] \in all /\ Ends(edge[k]) = k
      BY <1>8
    <2>2. edge \in [RealLinks -> all]
      BY <2>1
    <2> HIDE DEF edge
    <2>3. \A k, l \in RealLinks : edge[k] = edge[l] => k = l
      BY <2>1
    <2>4. \A e \in all : \E k \in RealLinks : edge[k] = e
      BY <1>7, <1>11, <2>1
    <2> QED BY <2>2, <2>3, <2>4, FinitelyMany, OneForOne
  <1> QED BY <1>12, <1>13 DEF all

\* What is next to a node are its neighbors.
NextTo(l, id) ==
    {n \in l.nodes \ {m \in l.nodes : m.id = id} : \E e \in {g \in l.edges : id \in Ends(g)} : n.id \in Ends(e)}

LEMMA WholeNeighbors ==
    ASSUME NEW f, Whole(f), NEW n \in build_l2(f).nodes
    PROVE  {n.id} \cup {m.id : m \in NextTo(build_l2(f), n.id)} = UNION {k \in RealLinks : n.id \in k}
  <1> DEFINE nodes == build_l2(f).nodes
             edges == build_l2(f).edges
             next == NextTo(build_l2(f), n.id)
             links == {k \in RealLinks : n.id \in k}
  <1>1. {m.id : m \in nodes} = Ids
    BY WholeNodes, IdsOfNodes
  <1>2. {Ends(e) : e \in edges} = RealLinks
    BY WholeLinks
  <1>3. next = {m \in nodes : m.id # n.id /\ \E e \in edges : n.id \in Ends(e) /\ m.id \in Ends(e)}
    BY DEF NextTo
  <1>4. n.id \in Ids
    <2> HIDE DEF nodes
    <2> QED BY <1>1 DEF nodes
  <1>5. \A k \in RealLinks : k \subseteq Ids
    BY LinksOfNodes
  <1> HIDE DEF nodes, edges, next
  <1>6. \E k \in RealLinks : n.id \in k
    <2>1. PICK y : Linked(n.id, y) \/ Linked(y, n.id)
      BY <1>4, NodesLinked
    <2>2. {n.id, y} \in RealLinks \/ {y, n.id} \in RealLinks
      BY <2>1, LinksOfNodes
    <2> QED BY <2>2
  <1>7. \A m \in next : \E k \in links : m.id \in k
    BY <1>2, <1>3
  <1>8. ASSUME NEW k \in links, NEW x \in k, x # n.id
        PROVE  \E m \in next : m.id = x
    <2>1. PICK e \in edges : Ends(e) = k
      BY <1>2
    <2>2. PICK m \in nodes : m.id = x
      BY <1>1, <1>5
    <2> QED BY <1>3, <1>8, <2>1, <2>2
  <1>9. \A x : x \in {n.id} \cup {m.id : m \in next} <=> \E k \in links : x \in k
    BY <1>6, <1>7, <1>8
  <1> HIDE DEF links
  <1>10. {n.id} \cup {m.id : m \in next} = UNION links
    BY <1>9
  <1> QED BY <1>10 DEF next, links

-----------------------------------------------------------------------------
(***************************************************************************)
(* It counts what each VLAN has.                                           *)
(***************************************************************************)
\* A number is dealt to one place.
LEMMA Divided ==
    ASSUME NEW n \in Nat, NEW d \in Nat \ {0}
    PROVE  n \div d \in Nat /\ n % d \in 0 .. d - 1 /\ n = (n \div d) * d + (n % d)
  OBVIOUS

\* Numbers below n, dealt out to d places in turn: how many each has.
LEMMA Dealt ==
    ASSUME NEW n \in Nat, NEW d \in Nat \ {0}, NEW i \in Nat, NEW j \in 0 .. d - 1
    PROVE  /\ i * d + j < n <=> i < (n \div d) + IF j < n % d THEN 1 ELSE 0
           /\ i * d + j \in Nat /\ (i * d + j) \div d = i /\ (i * d + j) % d = j
  <1> DEFINE q == n \div d
             r == n % d
             k == i * d + j
             s == k \div d
             t == k % d
  <1>1. q \in Nat /\ r \in 0 .. d - 1 /\ n = q * d + r
    BY Divided
  <1>2. i * d \in Nat /\ k \in Nat
    OBVIOUS
  <1> HIDE DEF k
  <1>3. s \in Nat /\ t \in 0 .. d - 1 /\ k = s * d + t
    BY <1>2
  <1>4. k = i * d + j
    BY DEF k
  <1> HIDE DEF q, r, s, t
  <1>5. \A a, b \in Nat : a < b => a * d + d <= b * d
    <2> SUFFICES ASSUME NEW a \in Nat, NEW b \in Nat, a < b PROVE a * d + d <= b * d
      OBVIOUS
    <2> DEFINE c == b - (a + 1)
    <2>1. c \in Nat /\ b = a + 1 + c
      OBVIOUS
    <2> HIDE DEF c
    <2>2. c * d \in Nat /\ a * d \in Nat
      BY <2>1
    <2>3. (a + 1 + c) * d = a * d + d + c * d
      BY <2>1
    <2> QED BY <2>1, <2>2, <2>3
  <1>6. s = i /\ t = j
    <2>1. s * d \in Nat
      BY <1>3
    <2>2. ~ s < i
      BY <1>2, <1>3, <1>4, <1>5, <2>1
    <2>3. ~ i < s
      BY <1>2, <1>3, <1>4, <1>5, <2>1
    <2>4. s = i
      BY <1>3, <2>2, <2>3
    <2> QED BY <1>2, <1>3, <1>4, <2>4
  <1>7. k < n <=> i < q + IF j < r THEN 1 ELSE 0
    <2>1. q * d \in Nat
      BY <1>1
    <2>2. CASE i < q
      BY <1>1, <1>2, <1>4, <1>5, <2>1, <2>2
    <2>3. CASE q < i
      BY <1>1, <1>2, <1>4, <1>5, <2>1, <2>3
    <2>4. CASE i = q
      BY <1>1, <1>2, <1>4, <2>1, <2>4
    <2> QED BY <1>1, <2>2, <2>3, <2>4
  <1> QED BY <1>2, <1>6, <1>7 DEF k, q, r, s, t

\* There are n numbers below n.
LEMMA Numbers ==
    ASSUME NEW n \in Nat
    PROVE  IsFiniteSet(0 .. n - 1) /\ Cardinality(0 .. n - 1) = n
  <1>1. 0 \in Int /\ n - 1 \in Int
    OBVIOUS
  <1>2. IsFiniteSet(0 .. n - 1) /\ Cardinality(0 .. n - 1) = IF 0 > n - 1 THEN 0 ELSE (n - 1) - 0 + 1
    BY <1>1, FS_Interval
  <1> QED BY <1>2

\* The hosts of a floor, by their numbers.
LEMMA HostsByNumber ==
    ASSUME NEW f \in Floors
    PROVE  /\ \A h \in InitialNetwork.hosts[FloorSw(f)] : \E v \in WIRED_VLANS : \E i \in Nat :
                 h.host = Host(v, f, i) /\ i * TOTAL_FLOORS + (f - 1) < ENDPOINT_COUNTS[v]
           /\ \A v \in WIRED_VLANS, i \in Nat : i * TOTAL_FLOORS + (f - 1) < ENDPOINT_COUNTS[v] =>
                 \E h \in InitialNetwork.hosts[FloorSw(f)] : h.host = Host(v, f, i)
  <1> DEFINE RowAt(v, i) == [port |-> Port(PORT_RANGES[v][1] + (i % (PORT_RANGES[v][2] - PORT_RANGES[v][1] + 1))),
                             host |-> Host(v, f, i)]
             Of(v) == {RowAt(v, i) : i \in 0 .. per_floor_count(v, f) - 1}
             hosts == InitialNetwork.hosts[FloorSw(f)]
  <1>1. hosts = UNION {Of(v) : v \in WIRED_VLANS}
    <2>1. FloorSw(f) \in FloorSwitches /\ FloorSw(f) \in Devices /\ FloorSw(f)[2] = f
      BY DEF FloorSwitches, Devices, FloorSw
    <2>2. hosts = populate_wired_endpoints(f)
      BY <2>1, Starting
    <2> QED BY <2>2 DEF populate_wired_endpoints
  <1>2. ASSUME NEW v \in WIRED_VLANS, NEW i \in Nat
        PROVE  i \in 0 .. per_floor_count(v, f) - 1 <=> i * TOTAL_FLOORS + (f - 1) < ENDPOINT_COUNTS[v]
    <2> DEFINE n == ENDPOINT_COUNTS[v]
               j == f - 1
               r == n % TOTAL_FLOORS
               q == n \div TOTAL_FLOORS
    <2>1. n \in Nat /\ TOTAL_FLOORS \in Nat \ {0} /\ j \in 0 .. TOTAL_FLOORS - 1 /\ f \in Nat
      BY NetworkAssumption DEF Floors
    <2>2. per_floor_count(v, f) = q + IF f <= r THEN 1 ELSE 0
      BY DEF per_floor_count
    <2> HIDE DEF n
    <2>3. r \in 0 .. TOTAL_FLOORS - 1 /\ q \in Nat
      BY <2>1, Divided
    <2>4. j < r <=> f <= r
      <3> HIDE DEF r
      <3> QED BY <2>1, <2>3
    <2> HIDE DEF j
    <2>5. i * TOTAL_FLOORS + j < n <=> i < q + IF j < r THEN 1 ELSE 0
      BY <2>1, Dealt
    <2> HIDE DEF q, r
    <2>6. i \in 0 .. per_floor_count(v, f) - 1 <=> i < q + IF j < r THEN 1 ELSE 0
      BY <2>2, <2>3, <2>4
    <2> QED BY <2>5, <2>6 DEF j, n
  <1>3. ASSUME NEW h \in hosts
        PROVE  \E v \in WIRED_VLANS : \E i \in Nat : h.host = Host(v, f, i) /\ i * TOTAL_FLOORS + (f - 1) < ENDPOINT_COUNTS[v]
    <2>1. PICK v \in WIRED_VLANS : h \in Of(v)
      <3> HIDE DEF Of, hosts
      <3> QED BY <1>1
    <2>2. PICK i \in 0 .. per_floor_count(v, f) - 1 : h = RowAt(v, i)
      BY <2>1
    <2>3. i \in Nat /\ h.host = Host(v, f, i)
      BY <2>2
    <2> QED BY <1>2, <2>3
  <1>4. ASSUME NEW v \in WIRED_VLANS, NEW i \in Nat, i * TOTAL_FLOORS + (f - 1) < ENDPOINT_COUNTS[v]
        PROVE  \E h \in hosts : h.host = Host(v, f, i)
    <2>1. RowAt(v, i) \in Of(v) /\ RowAt(v, i).host = Host(v, f, i)
      BY <1>2, <1>4
    <2> HIDE DEF RowAt, Of, hosts
    <2>2. RowAt(v, i) \in hosts
      BY <1>1, <2>1
    <2> QED BY <2>1, <2>2
  <1> QED BY <1>3, <1>4

\* The hosts of a wired VLAN,
LEMMA WiredCounts ==
    ASSUME NEW f, Whole(f), NEW v \in WIRED_VLANS
    PROVE  build_l3(f).count[v] = ENDPOINT_COUNTS[v]
  <1> DEFINE total == ENDPOINT_COUNTS[v]
             numbers == 0 .. total - 1
             members == {n \in build_l2(f).nodes : n.vlan = v}
             NodeOf(d, h) == Node(h.host, d[2], TRUE, h.host[2], NoId)
             FloorAt(k) == (k % TOTAL_FLOORS) + 1
             NodeAt(k) == Node(Host(v, FloorAt(k), k \div TOTAL_FLOORS), FloorAt(k), TRUE, v, NoId)
             node == [k \in numbers |-> NodeAt(k)]
  <1>1. total \in Nat /\ TOTAL_FLOORS \in Nat \ {0} /\ v \in VLANS /\ v \notin WIRELESS_VLANS /\ Unknown # v
    BY NetworkAssumption, MibsAssumption DEF VLANS
  <1>2. members = {n \in WiredNodes(f) : n.vlan = v}
    <2>1. {n \in ClientNodes(f) : n.vlan = v} = {}
      BY <1>1, VlansOfClients DEF Whole
    <2> QED BY <1>1, <2>1, Members
  <1>3. /\ \A n \in WiredNodes(f) : \E d \in FloorSwitches : \E h \in InitialNetwork.hosts[d] : n = NodeOf(d, h)
        /\ \A d \in FloorSwitches : \A h \in InitialNetwork.hosts[d] : NodeOf(d, h) \in WiredNodes(f)
    <2> DEFINE Built(d) == {Node(r.host, d[2], TRUE, r.host[2], NoId) : r \in WiredRows(f, d)}
               There(d) == {NodeOf(d, h) : h \in InitialNetwork.hosts[d]}
    <2>1. \A d \in FloorSwitches : Built(d) = There(d)
      BY WholeHosts
    <2>2. WiredNodes(f) = UNION {Built(d) : d \in FloorSwitches}
      BY DEF WiredNodes
    <2> HIDE DEF Built
    <2>3. WiredNodes(f) = UNION {There(d) : d \in FloorSwitches}
      <3> HIDE DEF There
      <3> QED BY <2>1, <2>2
    <2> HIDE DEF NodeOf
    <2> QED BY <2>3
  <1>4. ASSUME NEW k \in numbers
        PROVE  /\ FloorAt(k) \in Floors /\ k \div TOTAL_FLOORS \in Nat
               /\ (k \div TOTAL_FLOORS) * TOTAL_FLOORS + (FloorAt(k) - 1) = k
    <2>1. k \in Nat
      BY <1>1
    <2>2. /\ k % TOTAL_FLOORS \in 0 .. TOTAL_FLOORS - 1 /\ k \div TOTAL_FLOORS \in Nat
          /\ k = (k \div TOTAL_FLOORS) * TOTAL_FLOORS + (k % TOTAL_FLOORS)
      <3> HIDE DEF total, numbers
      <3> QED BY <1>1, <2>1, Divided
    <2> QED BY <1>1, <2>2 DEF Floors
  <1>5. \A k \in numbers : k < total
    BY <1>1
  <1>6. ASSUME NEW k \in numbers
        PROVE  NodeAt(k) \in members
    <2> DEFINE g == FloorAt(k)
               i == k \div TOTAL_FLOORS
    <2>1. g \in Floors /\ i \in Nat /\ i * TOTAL_FLOORS + (g - 1) < ENDPOINT_COUNTS[v]
      BY <1>4, <1>5
    <2>2. NodeAt(k) = Node(Host(v, g, i), g, TRUE, v, NoId)
      OBVIOUS
    <2> HIDE DEF g, i, NodeAt
    <2>3. PICK h \in InitialNetwork.hosts[FloorSw(g)] : h.host = Host(v, g, i)
      BY <2>1, HostsByNumber
    <2>4. FloorSw(g) \in FloorSwitches /\ FloorSw(g)[2] = g /\ h.host[2] = v
      BY <2>1, <2>3 DEF FloorSwitches, FloorSw, Host
    <2>5. NodeAt(k) = NodeOf(FloorSw(g), h) /\ NodeAt(k).vlan = v
      BY <2>2, <2>3, <2>4 DEF Node
    <2> HIDE DEF NodeOf
    <2> QED BY <1>2, <1>3, <2>4, <2>5
  <1>7. ASSUME NEW n \in members
        PROVE  \E k \in numbers : NodeAt(k) = n
    <2>1. PICK d \in FloorSwitches : \E h \in InitialNetwork.hosts[d] : n = NodeOf(d, h)
      BY <1>2, <1>3
    <2>2. PICK h \in InitialNetwork.hosts[d] : n = NodeOf(d, h)
      BY <2>1
    <2> DEFINE g == d[2]
    <2>3. g \in Floors /\ d = FloorSw(g)
      BY Kinds
    <2>4. PICK w \in WIRED_VLANS : \E i \in Nat : h.host = Host(w, g, i) /\ i * TOTAL_FLOORS + (g - 1) < ENDPOINT_COUNTS[w]
      <3> HIDE DEF g
      <3> QED BY <2>3, HostsByNumber
    <2>5. PICK i \in Nat : h.host = Host(w, g, i) /\ i * TOTAL_FLOORS + (g - 1) < ENDPOINT_COUNTS[w]
      BY <2>4
    <2>6. n.vlan = w /\ w = v /\ h.host[2] = v
      BY <1>2, <2>2, <2>5 DEF Node, Host
    <2> DEFINE k == i * TOTAL_FLOORS + (g - 1)
    <2>7. k \in numbers /\ k \div TOTAL_FLOORS = i /\ k % TOTAL_FLOORS = g - 1
      <3>1. g - 1 \in 0 .. TOTAL_FLOORS - 1 /\ g \in Nat
        BY <1>1, <2>3 DEF Floors
      <3> DEFINE j == g - 1
      <3>2. j \in 0 .. TOTAL_FLOORS - 1 /\ k = i * TOTAL_FLOORS + j
        BY <3>1
      <3> HIDE DEF g, j, k
      <3>3. i * TOTAL_FLOORS + j \in Nat /\ (i * TOTAL_FLOORS + j) \div TOTAL_FLOORS = i /\ (i * TOTAL_FLOORS + j) % TOTAL_FLOORS = j
        BY <1>1, <3>2, Dealt
      <3>4. k \in Nat /\ k \div TOTAL_FLOORS = i /\ k % TOTAL_FLOORS = j
        BY <3>2, <3>3
      <3>5. k < total
        BY <2>5, <2>6 DEF k
      <3>6. k \in numbers
        BY <1>1, <3>4, <3>5
      <3> QED BY <3>4, <3>6 DEF j
    <2> HIDE DEF k
    <2>8. FloorAt(k) = g
      BY <2>3, <2>7 DEF Floors
    <2>9. NodeAt(k) = n
      BY <2>2, <2>5, <2>6, <2>7, <2>8
    <2> QED BY <2>7, <2>9
  <1>8. ASSUME NEW k \in numbers, NEW l \in numbers, NodeAt(k) = NodeAt(l)
        PROVE  k = l
    <2>1. Host(v, FloorAt(k), k \div TOTAL_FLOORS) = Host(v, FloorAt(l), l \div TOTAL_FLOORS)
      BY <1>8 DEF Node
    <2>2. FloorAt(k) = FloorAt(l) /\ k \div TOTAL_FLOORS = l \div TOTAL_FLOORS
      BY <2>1 DEF Host
    <2> HIDE DEF FloorAt
    <2> QED BY <1>4, <2>2
  <1>9. IsFiniteSet(numbers) /\ Cardinality(numbers) = total
    BY <1>1, Numbers
  <1>10. build_l3(f).count[v] = Cardinality(members)
    BY CountedHosts DEF Whole
  <1> HIDE DEF NodeAt, numbers, members
  <1>11. /\ node \in [numbers -> members] /\ \A k, l \in numbers : node[k] = node[l] => k = l
         /\ \A n \in members : \E k \in numbers : node[k] = n
    BY <1>6, <1>7, <1>8
  <1> HIDE DEF node, total
  <1>12. Cardinality(members) = Cardinality(numbers)
    BY <1>9, <1>11, OneForOne
  <1> QED BY <1>9, <1>10, <1>12 DEF total

\* and the clients of a wireless one.
LEMMA WirelessCounts ==
    ASSUME NEW f, Whole(f), NEW v \in WIRELESS_VLANS
    PROVE  build_l3(f).count[v] = ENDPOINT_COUNTS[v]
  <1> DEFINE total == ENDPOINT_COUNTS[v]
             numbers == 0 .. total - 1
             members == {n \in build_l2(f).nodes : n.vlan = v}
             ApOf(c) == InitialNetwork.assoc[c]
             NodeOf(c) == Node(c, FloorOf(ApOf(c)), TRUE, c[2], ApOf(c))
             node == [k \in numbers |-> NodeOf(Client(v, k))]
  <1>1. total \in Nat /\ v \in VLANS /\ v \notin WIRED_VLANS
    BY NetworkAssumption, MibsAssumption DEF VLANS
  <1>2. members = {n \in ClientNodes(f) : n.vlan = v}
    <2>1. {n \in WiredNodes(f) : n.vlan = v} = {}
      BY <1>1, VlansOfHosts DEF Whole
    <2> QED BY <1>1, <2>1, Members
  <1>3. ClientNodes(f) = {NodeOf(c) : c \in Clients}
    BY WholeClients
  <1>4. \A c : NodeOf(c).id = c /\ NodeOf(c).vlan = c[2]
    BY DEF Node
  <1> HIDE DEF NodeOf
  <1>5. \A k : Client(v, k)[2] = v /\ Client(v, k)[3] = k
    BY DEF Client
  <1>6. ASSUME NEW k \in numbers
        PROVE  Client(v, k) \in Clients
    <2> DEFINE Of(w) == {Client(w, i) : i \in 0 .. ENDPOINT_COUNTS[w] - 1}
    <2>1. Clients = UNION {Of(w) : w \in WIRELESS_VLANS}
      BY DEF Clients
    <2>2. Client(v, k) \in Of(v)
      OBVIOUS
    <2> HIDE DEF Of
    <2> QED BY <2>1, <2>2
  <1>7. ASSUME NEW c \in Clients, c[2] = v
        PROVE  \E k \in numbers : c = Client(v, k)
    <2>1. PICK w \in WIRELESS_VLANS : \E i \in 0 .. ENDPOINT_COUNTS[w] - 1 : c = Client(w, i)
      BY DEF Clients
    <2>2. PICK i \in 0 .. ENDPOINT_COUNTS[w] - 1 : c = Client(w, i)
      BY <2>1
    <2>3. w = v
      BY <1>7, <2>2 DEF Client
    <2> QED BY <2>2, <2>3
  <1>8. IsFiniteSet(numbers) /\ Cardinality(numbers) = total
    BY <1>1, Numbers
  <1>9. build_l3(f).count[v] = Cardinality(members)
    BY CountedClients DEF Whole
  <1> HIDE DEF numbers, members, total
  <1>10. node \in [numbers -> members]
    BY <1>2, <1>3, <1>4, <1>5, <1>6
  <1>11. \A k, l \in numbers : node[k] = node[l] => k = l
    <2>1. \A k \in numbers : node[k].id = Client(v, k)
      BY <1>4
    <2> QED BY <1>5, <2>1
  <1>12. \A n \in members : \E k \in numbers : node[k] = n
    BY <1>2, <1>3, <1>4, <1>7
  <1> HIDE DEF node
  <1>13. Cardinality(members) = Cardinality(numbers)
    BY <1>8, <1>10, <1>11, <1>12, OneForOne
  <1> QED BY <1>8, <1>9, <1>13 DEF total

\* The third layer is the network's.
LEMMA WholeLayer ==
    ASSUME NEW f, Whole(f)
    PROVE  build_l3(f).count = ENDPOINT_COUNTS /\ build_l3(f).routes = VLANS \cup {Default}
  <1> DEFINE count == build_l3(f).count
  <1>1. count = [v \in VLANS |-> count[v]]
    BY DEF build_l3
  <1>2. \A v \in VLANS : count[v] = ENDPOINT_COUNTS[v]
    BY WiredCounts, WirelessCounts DEF VLANS
  <1>3. ENDPOINT_COUNTS \in [VLANS -> Nat]
    BY NetworkAssumption DEF VLANS
  <1>4. count = ENDPOINT_COUNTS
    <2> HIDE DEF count
    <2> QED BY <1>1, <1>2, <1>3
  <1>5. build_l3(f).routes = VLANS \cup {Default}
    <2>1. FgPrimary \in Devices
      BY DEF Devices, Firewalls
    <2>2. ControllerHeard(f)
      BY <2>1 DEF Whole, HeardOf
    <2> DEFINE Row(v) == [dest |-> v, mask |-> "mask"]
               rows == Range(f.routes)
    <2>3. rows = {Row(v) : v \in VLANS \cup {Default}}
      BY <2>2 DEF ControllerHeard
    <2>4. \A v : Row(v).dest = v /\ Row(v).mask # Unknown
      BY MibsAssumption
    <2>5. build_l3(f).routes = {r.dest : r \in {q \in rows : q.mask # Unknown}}
      BY DEF build_l3
    <2> HIDE DEF Row, rows
    <2>6. {q \in rows : q.mask # Unknown} = rows
      BY <2>3, <2>4
    <2>7. {r.dest : r \in rows} = VLANS \cup {Default}
      BY <2>3, <2>4
    <2> QED BY <2>5, <2>6, <2>7
  <1> QED BY <1>4, <1>5

\* The snapshot built of all that is the network.
LEMMA WholeSnapshot == ASSUME Whole(found), FinishPoll PROVE Complete'
  <1> DEFINE l2p == build_l2(found)
             l3p == build_l3(found)
  <1>1. l2p = [nodes |-> l2p.nodes, edges |-> l2p.edges]
    BY DEF build_l2
  <1>2. l2p.nodes = RealNodes
    BY WholeNodes
  <1>3. {Ends(e) : e \in l2p.edges} = RealLinks /\ Cardinality(l2p.edges) = Cardinality(RealLinks)
    BY WholeLinks
  <1>4. \A n \in l2p.nodes : {n.id} \cup {m.id : m \in NextTo(l2p, n.id)} = UNION {k \in RealLinks : n.id \in k}
    BY WholeNeighbors
  <1>5. l3p.count = ENDPOINT_COUNTS /\ l3p.routes = VLANS \cup {Default}
    BY WholeLayer
  <1>6. l2' = l2p /\ l3' = l3p
    BY DEF FinishPoll
  <1> HIDE DEF l2p, l3p
  <1>7. (l2 # <<>>)'
    BY <1>1, <1>6
  <1>8. ({{e.source, e.target} : e \in l2.edges} = RealLinks)'
    BY <1>3, <1>6 DEF Ends
  <1>9. (\A n \in l2.nodes : {n.id} \cup {m.id : m \in get_l2_device_detail(n.id)} = UNION {k \in RealLinks : n.id \in k})'
    <2>1. \A id : get_l2_device_detail(id)' = NextTo(l2p, id)
      BY <1>6 DEF get_l2_device_detail, NextTo, Ends
    <2> QED BY <1>4, <1>6, <2>1
  <1> QED BY <1>2, <1>3, <1>5, <1>6, <1>7, <1>8, <1>9 DEF Complete

\* At the end of a discovery that lost nothing, all was found.
LEMMA WholeFound == ASSUME DiscoveryInv, HeardInv, FinishPoll, lost = 0 PROVE Whole(found)
  <1>1. HeardOf(found, visited) /\ Followed(visited, <<>>) /\ Collected(found)
    BY DEF HeardInv, DiscoveryInv, FinishPoll
  <1>2. visited \in SUBSET Devices
    BY <1>1, RangeOfSeq DEF HeardOf, Range
  <1>3. visited = Devices
    BY <1>1, <1>2, AllFound
  <1> QED BY <1>1, <1>3 DEF Whole

\* A poll that lost no answer shows the whole simulated network, device by
\* device, link by link, and each link once, and counts every endpoint, however
\* many floors, access points, hosts and clients it has (collector/discovery.py,
\* collector/topology_builder.py).
THEOREM Completeness == Spec => CompleteWhenHeard
  <1>1. Init => DiscoveryInv /\ HeardInv
    BY DiscoveryStarting, HeardStarting
  <1>2. DiscoveryInv /\ HeardInv /\ [Next]_vars => DiscoveryInv' /\ HeardInv'
    BY DiscoveryStep, HeardStep
  <1>3. DiscoveryInv /\ HeardInv /\ [Next]_vars => [FinishPoll /\ lost = 0 => Complete']_vars
    BY WholeFound, WholeSnapshot
  <1> QED BY <1>1, <1>2, <1>3, PTL DEF Spec, CompleteWhenHeard

-----------------------------------------------------------------------------
(***************************************************************************)
(* The list.  An index only falls while a connection stays listed.         *)
(***************************************************************************)
UpTo(list, s) == {r \in list : r <= s}

\* The list of connections is finite, places in it are numbers and differ, and
\* no place in a shorter list is behind that in a longer one.
LEMMA Indices ==
    ASSUME NEW n \in Nat, NEW list \in SUBSET (1 .. n)
    PROVE  /\ IsFiniteSet(list) /\ Cardinality(list) \in Nat
           /\ \A s : Cardinality(UpTo(list, s)) \in Nat /\ Cardinality(UpTo(list, s)) <= Cardinality(list)
           /\ \A r, s \in list : Cardinality(UpTo(list, r)) = Cardinality(UpTo(list, s)) => r = s
           /\ \A less, s : less \subseteq list => Cardinality(UpTo(less, s)) <= Cardinality(UpTo(list, s))
                                                  /\ Cardinality(UpTo(less, s)) \in Nat
  <1>1. IsFiniteSet(1 .. n)
    BY FS_Interval
  <1>2. IsFiniteSet(list) /\ Cardinality(list) \in Nat
    BY <1>1, FS_Subset, FS_CardinalityType
  <1>3. ASSUME NEW s
        PROVE  /\ IsFiniteSet(UpTo(list, s)) /\ Cardinality(UpTo(list, s)) \in Nat
               /\ Cardinality(UpTo(list, s)) <= Cardinality(list)
    <2>1. UpTo(list, s) \subseteq list
      BY DEF UpTo
    <2>2. IsFiniteSet(UpTo(list, s)) /\ Cardinality(UpTo(list, s)) <= Cardinality(list)
      BY <1>2, <2>1, FS_Subset
    <2> QED BY <2>2, FS_CardinalityType
  <1>4. ASSUME NEW r \in list, NEW s \in list, Cardinality(UpTo(list, r)) = Cardinality(UpTo(list, s)), r < s
        PROVE  FALSE
    <2>1. UpTo(list, r) \subseteq UpTo(list, s)
      <3>1. \A q \in list : q <= r => q <= s
        BY <1>4
      <3> QED BY <3>1 DEF UpTo
    <2>2. UpTo(list, r) = UpTo(list, s)
      BY <1>3, <1>4, <2>1, FS_Subset
    <2>3. s \in UpTo(list, s) /\ ~(s <= r)
      BY <1>4 DEF UpTo
    <2> QED BY <2>2, <2>3 DEF UpTo
  <1>5. ASSUME NEW r \in list, NEW s \in list, Cardinality(UpTo(list, r)) = Cardinality(UpTo(list, s))
        PROVE  r = s
    <2>1. r \in Nat /\ s \in Nat
      OBVIOUS
    <2>2. ~(r < s) /\ ~(s < r)
      BY <1>4, <1>5
    <2> QED BY <2>1, <2>2
  <1>6. ASSUME NEW less, NEW s, less \subseteq list
        PROVE  Cardinality(UpTo(less, s)) <= Cardinality(UpTo(list, s)) /\ Cardinality(UpTo(less, s)) \in Nat
    <2>1. UpTo(less, s) \subseteq UpTo(list, s)
      BY <1>6 DEF UpTo
    <2>2. IsFiniteSet(UpTo(less, s)) /\ Cardinality(UpTo(less, s)) <= Cardinality(UpTo(list, s))
      BY <1>3, <2>1, FS_Subset
    <2> QED BY <2>2, FS_CardinalityType
  <1> QED BY <1>2, <1>3, <1>5, <1>6

\* A connection that is appended moves no other.
LEMMA NewIndex ==
    ASSUME NEW n \in Nat, NEW list \in SUBSET (1 .. n), NEW s \in list
    PROVE  UpTo(list \cup {n + 1}, s) = UpTo(list, s)
  <1>1. s \in 1 .. n
    OBVIOUS
  <1>2. ~(n + 1 <= s)
    BY <1>1
  <1> QED BY <1>2 DEF UpTo

-----------------------------------------------------------------------------
PollFields == {"pc", "msg", "next", "broken"}
IsPoll(poll) == /\ poll = [f \in PollFields |-> poll[f]]
                /\ poll.next \in Nat /\ poll.broken \in Seq(Nat)
                /\ poll.pc = "notify" => poll.msg.version \in Nat

SocketFields == {"open", "born", "last"}
IsSocket(sock) == sock = [f \in SocketFields |-> sock[f]] /\ sock.open \in BOOLEAN /\ sock.last \in Nat

Types ==
    /\ version \in Nat
    /\ polls = [p \in Pollers |-> polls[p]] /\ \A p \in Pollers : IsPoll(polls[p])
    /\ Len(socks) \in Nat /\ socks = [s \in 1 .. Len(socks) |-> socks[s]]
    /\ \A s \in 1 .. Len(socks) : IsSocket(socks[s])
    /\ at = [c \in Pages |-> at[c]] /\ \A c \in Pages : at[c] = NoSocket \/ at[c] \in 1 .. Len(socks)

Closed(s) == s \in 1 .. Len(socks) /\ ~socks[s].open

\* The open connections are listed, and what a broadcast found broken is not
\* open again.
ListInv ==
    /\ conns \subseteq 1 .. Len(socks)
    /\ \A s \in 1 .. Len(socks) : socks[s].open => s \in conns
    /\ \A p \in Pollers : \A i \in DOMAIN polls[p].broken : Closed(polls[p].broken[i])

VersionInv ==
    /\ \A s \in 1 .. Len(socks) : socks[s].last <= version
    /\ \A p \in Pollers : Notifying(p) => polls[p].msg.version <= version

\* The connections that a broadcast has still to send to.
Ahead(p) == {s \in conns : Index(s) >= polls[p].next}

\* A broadcast overtakes none: what it has still to send to has nothing newer.
TurnInv ==
    \A p \in Pollers : Notifying(p) => \A s \in Ahead(p) : socks[s].last <= polls[p].msg.version

\* What an open connection lacks is on its way to it.
ReachInv ==
    \A s \in 1 .. Len(socks) : socks[s].open =>
        \/ version \in {socks[s].last, socks[s].born} \/ version \in shaken
        \/ \E p \in Pollers : Notifying(p) /\ polls[p].msg.version = version /\ s \in Ahead(p)

PushInv == Types /\ ListInv /\ VersionInv /\ TurnInv /\ ReachInv
-----------------------------------------------------------------------------
\* What is ahead of a broadcast, by places in the list.
LEMMA Aheads ==
    ASSUME NEW p
    PROVE  /\ \A s : s \in Ahead(p) <=> s \in conns /\ Cardinality(UpTo(conns, s)) >= polls[p].next
           /\ \A s : s \in Ahead(p)' <=> s \in conns' /\ Cardinality(UpTo(conns', s)) >= polls'[p].next
  BY DEF Ahead, Index, UpTo

\* A step that touches none of its variables keeps the invariant.
LEMMA PushIdling ==
    ASSUME PushInv, UNCHANGED <<version, polls, conns, socks, at, shaken>>
    PROVE  PushInv'
  <1>1. Types'
    BY DEF PushInv, Types, IsPoll, PollFields, IsSocket, SocketFields
  <1>2. ListInv' /\ VersionInv'
    BY DEF PushInv, ListInv, VersionInv, Closed, Notifying
  <1>3. \A p \in Pollers : Ahead(p)' = Ahead(p)
    BY DEF Ahead, Index
  <1>4. TurnInv' /\ ReachInv'
    BY <1>3 DEF PushInv, TurnInv, ReachInv, Notifying
  <1> QED BY <1>1, <1>2, <1>4 DEF PushInv

\* A poll that does not broadcast before and after the step.
LEMMA Apart ==
    ASSUME PushInv, NEW p \in Pollers, NEW poll, IsPoll(poll), poll.broken \in {<<>>, polls[p].broken},
           polls' = [polls EXCEPT ![p] = poll], ~Notifying(p), poll.pc # "notify",
           UNCHANGED <<version, conns, socks, at, shaken>>
    PROVE  PushInv'
  <1>1. polls'[p] = poll /\ \A q \in Pollers : q # p => polls'[q] = polls[q]
    BY DEF PushInv, Types
  <1>2. Types'
    BY <1>1 DEF PushInv, Types, IsPoll, PollFields, IsSocket, SocketFields
  <1>3. ListInv' /\ VersionInv'
    BY <1>1 DEF PushInv, ListInv, VersionInv, Closed, Notifying
  <1>4. \A q \in Pollers : (Notifying(q)' <=> Notifying(q)) /\ (Notifying(q) => q # p /\ Ahead(q)' = Ahead(q))
    <2>1. \A q \in Pollers : (Notifying(q)' <=> Notifying(q)) /\ (Notifying(q) => q # p)
      BY <1>1 DEF Notifying
    <2>2. ASSUME NEW q \in Pollers, q # p PROVE Ahead(q)' = Ahead(q)
      BY <1>1, <2>2 DEF Ahead, Index
    <2> QED BY <2>1, <2>2
  <1>5. TurnInv' /\ ReachInv'
    BY <1>1, <1>4 DEF PushInv, TurnInv, ReachInv
  <1> QED BY <1>2, <1>3, <1>5 DEF PushInv

\* A discovery broadcasts nothing.
LEMMA Discovering == ASSUME PushInv, NEW p \in Pollers, Discover(p) PROVE PushInv'
  <1> DEFINE poll == [polls[p] EXCEPT !.pc = "discover"]
  <1>1. polls' = [polls EXCEPT ![p] = poll] /\ polls[p].pc = "idle" /\ IsPoll(polls[p])
    BY DEF Discover, PushInv, Types
  <1>2. IsPoll(poll) /\ poll.pc = "discover" /\ poll.broken = polls[p].broken
    BY <1>1 DEF IsPoll, PollFields
  <1> HIDE DEF poll
  <1> QED BY <1>1, <1>2, Apart DEF Discover, Notifying

\* A poll that is over broadcasts nothing and has found nothing broken.
LEMMA FinishedPoll == ASSUME NEW p PROVE IsPoll(Over(p)) /\ Over(p).pc # "notify" /\ Over(p).broken = <<>>
  BY DEF Over, NotPolling, IsPoll, PollFields

\* A change is broadcast to all that are listed.
LEMMA Building ==
    ASSUME PushInv, NEW p \in Pollers, NEW t, Build(p, t)
    PROVE  PushInv'
  <1>0. polls[p].pc = "discover" /\ ~Notifying(p) /\ UNCHANGED <<conns, socks, at, shaken>>
    BY DEF Build, Notifying
  <1>1. CASE ~Changed(t)
    <2>1. polls' = [polls EXCEPT ![p] = Over(p)] /\ UNCHANGED version
      BY <1>1 DEF Build
    <2> QED BY <1>0, <2>1, Apart, FinishedPoll
  <1>2. CASE Changed(t)
    <2> DEFINE m == [version |-> version + 1, topo |-> t]
               poll == [NotPolling EXCEPT !.pc = "notify", !.msg = m]
    <2>1. polls' = [polls EXCEPT ![p] = poll] /\ version' = version + 1
      BY <1>2 DEF Build
    <2>2. /\ version \in Nat
          /\ \A s \in 1 .. Len(socks) : socks[s].last \in Nat /\ socks[s].last <= version
          /\ \A q \in Pollers : Notifying(q) => polls[q].msg.version \in Nat /\ polls[q].msg.version <= version
      BY DEF PushInv, Types, VersionInv, IsPoll, IsSocket, Notifying
    <2>3. /\ poll.pc = "notify" /\ poll.next = 1 /\ poll.broken = <<>> /\ poll.msg.version = version + 1
          /\ IsPoll(poll)
      <3>1. m.version = version + 1 /\ version + 1 \in Nat
        BY <2>2
      <3> HIDE DEF m
      <3>2. IsPoll(NotPolling) /\ NotPolling.next = 1 /\ NotPolling.broken = <<>>
        BY DEF NotPolling, IsPoll, PollFields
      <3>3. poll.pc = "notify" /\ poll.next = 1 /\ poll.broken = <<>> /\ poll.msg = m /\ poll = [f \in PollFields |-> poll[f]]
        BY <3>2 DEF IsPoll, PollFields
      <3> HIDE DEF poll
      <3>4. poll.broken \in Seq(Nat)
        BY <3>3
      <3> QED BY <3>1, <3>3, <3>4 DEF IsPoll
    <2> HIDE DEF poll
    <2>4. polls'[p] = poll /\ \A q \in Pollers : q # p => polls'[q] = polls[q]
      BY <2>1 DEF PushInv, Types
    <2>5. Types'
      BY <1>0, <2>1, <2>2, <2>3, <2>4 DEF PushInv, Types, IsPoll, PollFields, IsSocket, SocketFields
    <2>6. ListInv'
      BY <1>0, <2>3, <2>4 DEF PushInv, ListInv, Closed
    <2>7. \A q \in Pollers : Notifying(q)' => q = p \/ (Notifying(q) /\ polls'[q] = polls[q])
      BY <2>4 DEF Notifying
    <2>8. VersionInv'
      BY <1>0, <2>1, <2>2, <2>3, <2>4, <2>7 DEF VersionInv
    <2>9. ASSUME NEW q \in Pollers, Notifying(q)', NEW s \in Ahead(q)'
          PROVE  socks'[s].last <= polls'[q].msg.version
      <3>1. s \in 1 .. Len(socks) /\ s \in conns
        BY <1>0, <2>9, Aheads DEF PushInv, ListInv
      <3>2. CASE q = p
        BY <1>0, <2>2, <2>3, <2>4, <3>1, <3>2
      <3>3. CASE q # p
        <4>1. s \in Ahead(q)
          BY <1>0, <2>4, <2>9, <3>3, Aheads
        <4> QED BY <1>0, <2>4, <2>7, <2>9, <3>3, <4>1 DEF PushInv, TurnInv
      <3> QED BY <3>2, <3>3
    <2>10. ASSUME NEW s \in 1 .. Len(socks'), socks'[s].open
           PROVE  Notifying(p)' /\ polls'[p].msg.version = version' /\ s \in Ahead(p)'
      <3>1. s \in conns
        BY <1>0, <2>10 DEF PushInv, ListInv
      <3>2. Cardinality(UpTo(conns, s)) >= 1
        <4>1. IsFiniteSet(UpTo(conns, s)) /\ s \in UpTo(conns, s) /\ Cardinality(UpTo(conns, s)) \in Nat
          <5>1. UpTo(conns, s) \subseteq conns /\ s \in UpTo(conns, s)
            BY <1>0, <2>10, <3>1 DEF UpTo
          <5> QED BY <5>1, Indices, FS_Subset DEF PushInv, Types, ListInv
        <4>2. Cardinality(UpTo(conns, s)) # 0
          BY <4>1, FS_EmptySet
        <4> QED BY <4>1, <4>2
      <3> QED BY <1>0, <2>1, <2>3, <2>4, <3>1, <3>2, Aheads DEF Notifying
    <2>11. TurnInv'
      BY <2>9 DEF TurnInv
    <2>12. ReachInv'
      BY <2>10 DEF ReachInv
    <2> QED BY <2>5, <2>6, <2>8, <2>11, <2>12 DEF PushInv
  <1> QED BY <1>1, <1>2

-----------------------------------------------------------------------------
\* What a send does: to the connection that is next, and to the poll.
Sent(p, s) ==
    /\ s \in conns /\ Index(s) = polls[p].next
    /\ \A r \in 1 .. Len(socks) : r # s => socks'[r] = socks[r]
    /\ socks'[s].open = socks[s].open /\ socks'[s].born = socks[s].born
    /\ socks'[s].last = IF socks[s].open THEN polls[p].msg.version ELSE socks[s].last
    /\ Len(socks') = Len(socks)
    /\ \A q \in Pollers : q # p => polls'[q] = polls[q]
    /\ polls'[p].pc = polls[p].pc /\ polls'[p].msg = polls[p].msg
    /\ polls'[p].next = polls[p].next + 1
    /\ \/ polls'[p].broken = polls[p].broken
       \/ ~socks[s].open /\ polls'[p].broken = Append(polls[p].broken, s)

\* send_text is a send to one connection, well typed.
LEMMA Sending ==
    ASSUME PushInv, NEW p \in Pollers, Send(p)
    PROVE  /\ Notifying(p) /\ InTurn(p) /\ UNCHANGED <<version, conns, at, shaken>>
           /\ Types' /\ \E s : Sent(p, s)
  <1>0. IsPoll(polls[p]) /\ polls[p].next + 1 \in Nat /\ polls[p].msg.version \in Nat
    BY DEF PushInv, Types, IsPoll, Send, Notifying
  <1>1. PICK s \in conns :
           /\ Index(s) = polls[p].next
           /\ \/ /\ socks[s].open
                 /\ socks' = [socks EXCEPT ![s].last = polls[p].msg.version]
                 /\ polls' = [polls EXCEPT ![p].next = @ + 1]
              \/ /\ ~socks[s].open
                 /\ \/ polls' = [polls EXCEPT ![p].next = @ + 1]
                    \/ polls' = [polls EXCEPT ![p].next = @ + 1, ![p].broken = Append(@, s)]
                 /\ UNCHANGED socks
    BY DEF Send
  <1>2. s \in 1 .. Len(socks) /\ IsSocket(socks[s]) /\ Len(socks) \in Nat
    BY DEF PushInv, Types, ListInv
  <1>3. /\ Len(socks') = Len(socks) /\ socks' = [r \in 1 .. Len(socks) |-> socks'[r]]
        /\ \A r \in 1 .. Len(socks) : r # s => socks'[r] = socks[r]
        /\ IsSocket(socks'[s]) /\ socks'[s].open = socks[s].open /\ socks'[s].born = socks[s].born
        /\ socks'[s].last = IF socks[s].open THEN polls[p].msg.version ELSE socks[s].last
    <2>1. CASE socks' = [socks EXCEPT ![s].last = polls[p].msg.version] /\ socks[s].open
      <3> DEFINE sock == [socks[s] EXCEPT !.last = polls[p].msg.version]
      <3>1. /\ IsSocket(sock) /\ sock.open = socks[s].open /\ sock.born = socks[s].born
            /\ sock.last = polls[p].msg.version
        BY <1>0, <1>2 DEF IsSocket, SocketFields
      <3>2. socks' = [socks EXCEPT ![s] = sock]
        BY <2>1
      <3> HIDE DEF sock
      <3>3. /\ socks'[s] = sock /\ \A r \in 1 .. Len(socks) : r # s => socks'[r] = socks[r]
            /\ socks' = [r \in 1 .. Len(socks) |-> socks'[r]]
        BY <1>2, <3>2 DEF PushInv, Types
      <3>4. Len(socks') = Len(socks)
        BY <1>2, <3>3
      <3> QED BY <2>1, <3>1, <3>3, <3>4
    <2>2. CASE UNCHANGED socks /\ ~socks[s].open
      BY <1>2, <2>2 DEF PushInv, Types
    <2> QED BY <1>1, <2>1, <2>2
  <1>4. /\ polls' = [q \in Pollers |-> polls'[q]]
        /\ \A q \in Pollers : q # p => polls'[q] = polls[q]
        /\ IsPoll(polls'[p]) /\ polls'[p].pc = polls[p].pc /\ polls'[p].msg = polls[p].msg
        /\ polls'[p].next = polls[p].next + 1
        /\ \/ polls'[p].broken = polls[p].broken
           \/ ~socks[s].open /\ polls'[p].broken = Append(polls[p].broken, s)
    <2> DEFINE n == polls[p].next + 1
               b == Append(polls[p].broken, s)
               one == [polls[p] EXCEPT !.next = n]
               two == [one EXCEPT !.broken = b]
    <2>1. \/ polls' = [polls EXCEPT ![p] = one]
          \/ ~socks[s].open /\ polls' = [polls EXCEPT ![p] = two]
      <3>1. CASE polls' = [polls EXCEPT ![p].next = @ + 1]
        BY <3>1
      <3>2. CASE ~socks[s].open /\ polls' = [polls EXCEPT ![p].next = @ + 1, ![p].broken = Append(@, s)]
        <4>1. polls' = [[polls EXCEPT ![p] = one] EXCEPT ![p] = [[polls EXCEPT ![p] = one][p] EXCEPT !.broken = Append(@, s)]]
          BY <3>2
        <4>2. [polls EXCEPT ![p] = one][p] = one
          BY DEF PushInv, Types
        <4>3. one.broken = polls[p].broken
          BY <1>0 DEF IsPoll, PollFields
        <4> HIDE DEF one
        <4>4. polls' = [[polls EXCEPT ![p] = one] EXCEPT ![p] = two]
          BY <4>1, <4>2, <4>3
        <4> HIDE DEF two
        <4>5. polls' = [polls EXCEPT ![p] = two]
          BY <4>4 DEF PushInv, Types
        <4> QED BY <3>2, <4>5
      <3> QED BY <1>1, <3>1, <3>2
    <2>2. n \in Nat /\ b \in Seq(Nat)
      BY <1>0, <1>2 DEF IsPoll
    <2>3. IsPoll(one) /\ one.pc = polls[p].pc /\ one.msg = polls[p].msg /\ one.next = n /\ one.broken = polls[p].broken
      BY <1>0, <2>2 DEF IsPoll, PollFields
    <2> HIDE DEF one, b, n
    <2>4. IsPoll(two) /\ two.pc = one.pc /\ two.msg = one.msg /\ two.next = one.next /\ two.broken = b
      BY <2>2, <2>3 DEF IsPoll, PollFields
    <2> HIDE DEF two
    <2>5. polls' = [q \in Pollers |-> polls'[q]] /\ (\A q \in Pollers : q # p => polls'[q] = polls[q])
          /\ (polls'[p] = one \/ (~socks[s].open /\ polls'[p] = two))
      BY <2>1 DEF PushInv, Types
    <2> QED BY <2>3, <2>4, <2>5 DEF n, b
  <1>5. Notifying(p) /\ InTurn(p) /\ UNCHANGED <<version, conns, at, shaken>>
    BY DEF Send
  <1>6. Types'
    <2>1. \A r \in 1 .. Len(socks) : IsSocket(socks'[r])
      BY <1>3 DEF PushInv, Types
    <2>2. \A q \in Pollers : IsPoll(polls'[q])
      BY <1>4 DEF PushInv, Types
    <2> QED BY <1>2, <1>3, <1>4, <1>5, <2>1, <2>2 DEF PushInv, Types, IsPoll, PollFields, IsSocket, SocketFields
  <1>7. Sent(p, s)
    BY <1>1, <1>3, <1>4 DEF Sent
  <1> QED BY <1>5, <1>6, <1>7

\* A send goes to a connection that has nothing newer, and what it leaves
\* ahead is unchanged.
LEMMA SendKeeps ==
    ASSUME PushInv, NEW p \in Pollers, Send(p)
    PROVE  PushInv'
  <1>1. PICK s : Sent(p, s)
    BY Sending
  <1>2. Notifying(p) /\ InTurn(p) /\ UNCHANGED <<version, conns, at, shaken>> /\ Types'
    BY Sending
  <1>3. /\ s \in conns /\ s \in 1 .. Len(socks) /\ Len(socks') = Len(socks)
        /\ polls[p].next \in Nat /\ polls[p].msg.version \in Nat /\ version \in Nat
        /\ polls[p].msg.version <= version
    BY <1>1, <1>2 DEF Sent, PushInv, ListInv, VersionInv, Types, IsPoll, Notifying
  <1>4. \A q \in Pollers : (Notifying(q)' <=> Notifying(q)) /\ polls'[q].msg = polls[q].msg
    BY <1>1 DEF Sent, Notifying
  <1>5. \A r \in conns : /\ Cardinality(UpTo(conns, r)) \in Nat
                         /\ r # s => Cardinality(UpTo(conns, r)) # polls[p].next
    <2>1. Cardinality(UpTo(conns, s)) = polls[p].next
      BY <1>1 DEF Sent, Index, UpTo
    <2>2. /\ \A r : Cardinality(UpTo(conns, r)) \in Nat
          /\ \A q, r \in conns : Cardinality(UpTo(conns, q)) = Cardinality(UpTo(conns, r)) => q = r
      BY Indices DEF PushInv, Types, ListInv
    <2> QED BY <1>3, <2>1, <2>2
  <1>6. \A q \in Pollers : q # p => Ahead(q)' = Ahead(q)
    BY <1>1, <1>2 DEF Sent, Ahead, Index
  <1>7. s \in Ahead(p) /\ \A r : r \in Ahead(p)' <=> r \in Ahead(p) /\ r # s
    <2>1. Cardinality(UpTo(conns, s)) = polls[p].next
      BY <1>1 DEF Sent, Index, UpTo
    <2>2. polls'[p].next = polls[p].next + 1
      BY <1>1 DEF Sent
    <2>3. \A r \in conns : r # s => (Cardinality(UpTo(conns, r)) >= polls[p].next + 1
                                     <=> Cardinality(UpTo(conns, r)) >= polls[p].next)
      BY <1>3, <1>5
    <2>4. s \in Ahead(p) /\ s \notin Ahead(p)'
      BY <1>2, <1>3, <2>1, <2>2, Aheads
    <2> QED BY <1>2, <2>2, <2>3, <2>4, Aheads
  <1>8. ListInv'
    <2>1. \A r \in 1 .. Len(socks) : socks'[r].open = socks[r].open
      BY <1>1 DEF Sent
    <2>2. ASSUME NEW q \in Pollers, NEW i \in DOMAIN polls'[q].broken PROVE Closed(polls'[q].broken[i])
      <3>1. CASE polls'[q].broken = polls[q].broken
        BY <2>2, <3>1 DEF PushInv, ListInv
      <3>2. CASE q = p /\ ~socks[s].open /\ polls'[p].broken = Append(polls[p].broken, s)
        <4>1. polls[p].broken \in Seq(Nat)
          BY DEF PushInv, Types, IsPoll
        <4>2. polls'[q].broken[i] = s \/ (i \in DOMAIN polls[q].broken /\ polls'[q].broken[i] = polls[q].broken[i])
          BY <2>2, <3>2, <4>1
        <4> QED BY <1>3, <3>2, <4>2 DEF PushInv, ListInv, Closed
      <3> QED BY <1>1, <3>1, <3>2 DEF Sent
    <2>3. \A q \in Pollers : \A i \in DOMAIN polls'[q].broken :
             polls'[q].broken[i] \in 1 .. Len(socks') /\ ~socks'[polls'[q].broken[i]].open
      BY <1>3, <2>1, <2>2 DEF Closed
    <2> QED BY <1>2, <1>3, <2>1, <2>3 DEF PushInv, ListInv, Closed
  <1>9. VersionInv'
    <2>1. \A r \in 1 .. Len(socks) : socks'[r].last \in {socks[r].last, polls[p].msg.version}
      BY <1>1 DEF Sent
    <2> QED BY <1>2, <1>3, <1>4, <2>1 DEF PushInv, VersionInv
  <1>10. ASSUME NEW q \in Pollers, Notifying(q), NEW r \in Ahead(q)'
         PROVE  socks'[r].last <= polls[q].msg.version
    <2>1. r \in Ahead(q) /\ r \in 1 .. Len(socks)
      BY <1>2, <1>6, <1>7, <1>10, Aheads DEF PushInv, ListInv
    <2>2. socks[r].last <= polls[q].msg.version
      BY <1>10, <2>1 DEF PushInv, TurnInv
    <2>3. CASE r # s \/ ~socks[s].open
      BY <1>1, <2>1, <2>2, <2>3 DEF Sent
    <2>4. CASE r = s /\ socks[s].open
      <3>1. q # p
        BY <1>7, <1>10, <2>4
      <3>2. polls[q].next <= polls[p].next
        BY <1>1, <2>1, <2>4, Aheads DEF Sent, Index, UpTo
      <3>3. polls[q].next \in Nat /\ polls[q].msg.version \in Nat
        BY <1>10 DEF PushInv, Types, IsPoll, Notifying
      <3>4. ~(polls[q].msg.version < polls[p].msg.version)
        <4>1. ~(polls[p].next < polls[q].next)
          BY <1>3, <3>2, <3>3
        <4> QED BY <1>2, <1>10, <4>1 DEF InTurn
      <3>5. polls[p].msg.version <= polls[q].msg.version
        BY <1>3, <3>3, <3>4
      <3> QED BY <1>1, <2>4, <3>5 DEF Sent
    <2> QED BY <2>3, <2>4
  <1>11. TurnInv'
    BY <1>4, <1>10 DEF TurnInv
  <1>12. ASSUME NEW r \in 1 .. Len(socks), socks'[r].open
         PROVE  \/ version \in {socks'[r].last, socks'[r].born} \/ version \in shaken
                \/ \E q \in Pollers : Notifying(q) /\ polls[q].msg.version = version /\ r \in Ahead(q)'
    <2>0. socks[r].open /\ socks'[r].born = socks[r].born
      BY <1>1, <1>12 DEF Sent
    <2>1. \/ version \in {socks[r].last, socks[r].born} \/ version \in shaken
          \/ \E q \in Pollers : Notifying(q) /\ polls[q].msg.version = version /\ r \in Ahead(q)
      BY <2>0 DEF PushInv, ReachInv
    <2>2. CASE r # s
      <3>1. socks'[r] = socks[r]
        BY <1>1, <2>2 DEF Sent
      <3>2. \A q \in Pollers : r \in Ahead(q) => r \in Ahead(q)'
        BY <1>6, <1>7, <2>2
      <3> QED BY <2>1, <3>1, <3>2
    <2>3. CASE r = s
      <3>1. socks'[r].last = polls[p].msg.version
        BY <1>1, <2>0, <2>3 DEF Sent
      <3>2. socks[r].last <= polls[p].msg.version /\ socks[r].last \in Nat
        BY <1>2, <1>7, <2>3 DEF PushInv, TurnInv, Types, IsSocket
      <3>3. socks[r].last = version => polls[p].msg.version = version
        BY <1>3, <3>2
      <3>4. \A q \in Pollers : q # p => Ahead(q)' = Ahead(q)
        BY <1>6
      <3> QED BY <2>0, <2>1, <3>1, <3>3, <3>4
    <2> QED BY <2>2, <2>3
  <1>13. ReachInv'
    BY <1>2, <1>3, <1>4, <1>12 DEF ReachInv
  <1> QED BY <1>2, <1>8, <1>9, <1>11, <1>13 DEF PushInv

-----------------------------------------------------------------------------
\* Closed connections leave the list; the broadcasts that this shifts are
\* recorded as shaken.
LEMMA Removing ==
    ASSUME PushInv, conns' \subseteq conns, \A s \in conns \ conns' : Closed(s),
           UNCHANGED <<version, socks, at>>,
           polls' = [q \in Pollers |-> polls'[q]],
           \A q \in Pollers : \/ polls'[q] = polls[q]
                              \/ polls'[q] = Over(q) /\ (Notifying(q) => Ahead(q) = {}),
           shaken \subseteq shaken',
           conns' # conns => \A q \in Pollers : Notifying(q)' => polls'[q].msg.version \in shaken'
    PROVE  PushInv'
  <1>1. Types'
    <2>1. \A q \in Pollers : IsPoll(polls'[q])
      BY FinishedPoll DEF PushInv, Types
    <2> QED BY <2>1 DEF PushInv, Types, IsPoll, PollFields, IsSocket, SocketFields
  <1>2. ListInv'
    <2>1. \A s \in 1 .. Len(socks) : socks[s].open => s \in conns'
      BY DEF PushInv, ListInv, Closed
    <2>2. \A q \in Pollers : polls'[q].broken = polls[q].broken \/ polls'[q].broken = <<>>
      BY FinishedPoll
    <2> QED BY <2>1, <2>2 DEF PushInv, ListInv, Closed
  <1>3. \A q \in Pollers : Notifying(q)' => Notifying(q) /\ polls'[q] = polls[q]
    BY FinishedPoll DEF Notifying
  <1>4. VersionInv'
    BY <1>3 DEF PushInv, VersionInv
  <1>5. ASSUME NEW q \in Pollers, Notifying(q)', NEW r \in Ahead(q)' PROVE r \in Ahead(q)
    <2>1. r \in conns /\ Cardinality(UpTo(conns', r)) >= polls[q].next /\ polls[q].next \in Nat
      BY <1>3, <1>5, Aheads DEF PushInv, Types, IsPoll
    <2>2. /\ Cardinality(UpTo(conns', r)) <= Cardinality(UpTo(conns, r))
          /\ Cardinality(UpTo(conns', r)) \in Nat /\ Cardinality(UpTo(conns, r)) \in Nat
      BY Indices DEF PushInv, Types, ListInv
    <2>3. Cardinality(UpTo(conns, r)) >= polls[q].next
      BY <2>1, <2>2
    <2> QED BY <2>1, <2>3, Aheads
  <1>6. TurnInv'
    BY <1>3, <1>5 DEF PushInv, TurnInv
  <1>7. ASSUME NEW r \in 1 .. Len(socks), socks[r].open
        PROVE  \/ version \in {socks[r].last, socks[r].born} \/ version \in shaken'
               \/ \E q \in Pollers : Notifying(q)' /\ polls'[q].msg.version = version /\ r \in Ahead(q)'
    <2>1. CASE version \in {socks[r].last, socks[r].born} \/ version \in shaken
      BY <2>1
    <2>2. ASSUME NEW q \in Pollers, Notifying(q), polls[q].msg.version = version, r \in Ahead(q)
          PROVE  \/ version \in shaken'
                 \/ Notifying(q)' /\ polls'[q].msg.version = version /\ r \in Ahead(q)'
      <3>1. polls'[q] = polls[q] /\ Notifying(q)'
        BY <2>2 DEF Notifying
      <3>2. conns' = conns => r \in Ahead(q)'
        BY <2>2, <3>1, Aheads
      <3> QED BY <2>2, <3>1, <3>2
    <2> QED BY <1>7, <2>1, <2>2 DEF PushInv, ReachInv
  <1>8. ReachInv'
    BY <1>7 DEF ReachInv
  <1> QED BY <1>1, <1>2, <1>4, <1>6, <1>8 DEF PushInv

\* The end of a broadcast removes no open connection.
LEMMA Ending == ASSUME PushInv, NEW p \in Pollers, EndBroadcast(p) PROVE PushInv'
  <1>1. /\ conns' = conns \ Removed(p) /\ ShakenBy({q \in Pollers \ {p} : Notifying(q) /\ Removed(p) # {}})
        /\ polls' = [polls EXCEPT ![p] = Over(p)] /\ UNCHANGED <<version, socks, at>>
        /\ polls[p].next > Cardinality(conns)
    BY DEF EndBroadcast
  <1>2. \A s \in Removed(p) : Closed(s)
    BY DEF Removed, PushInv, ListInv
  <1>3. /\ polls' = [q \in Pollers |-> polls'[q]] /\ polls'[p] = Over(p)
        /\ \A q \in Pollers : q # p => polls'[q] = polls[q]
    BY <1>1 DEF PushInv, Types
  <1>4. Ahead(p) = {}
    <2>1. polls[p].next \in Nat /\ Cardinality(conns) \in Nat
          /\ \A r : Cardinality(UpTo(conns, r)) \in Nat /\ Cardinality(UpTo(conns, r)) <= Cardinality(conns)
      BY Indices DEF PushInv, Types, ListInv, IsPoll
    <2>2. \A r : ~(Cardinality(UpTo(conns, r)) >= polls[p].next)
      BY <1>1, <2>1
    <2> QED BY <2>2, Aheads
  <1>5. shaken \subseteq shaken' /\ (conns' # conns => \A q \in Pollers \ {p} : Notifying(q) => polls[q].msg.version \in shaken')
    BY <1>1 DEF ShakenBy
  <1>6. ~Notifying(p)'
    BY <1>3, FinishedPoll DEF Notifying
  <1>7. conns' # conns => \A q \in Pollers : Notifying(q)' => polls'[q].msg.version \in shaken'
    BY <1>3, <1>5, <1>6 DEF Notifying
  <1> QED BY <1>1, <1>2, <1>3, <1>4, <1>5, <1>7, Removing

\* Nor does the end of an endpoint.
LEMMA Disconnecting == ASSUME PushInv, NEW s, Disconnect(s) PROVE PushInv'
  <1>1. /\ s \in conns /\ ~socks[s].open /\ conns' = conns \ {s}
        /\ ShakenBy({q \in Pollers : Notifying(q)}) /\ UNCHANGED <<version, polls, socks, at>>
    BY DEF Disconnect
  <1>2. Closed(s)
    BY <1>1 DEF Closed, PushInv, ListInv
  <1>3. shaken \subseteq shaken' /\ \A q \in Pollers : Notifying(q)' => polls'[q].msg.version \in shaken'
    BY <1>1 DEF ShakenBy, Notifying
  <1>4. polls' = [q \in Pollers |-> polls'[q]]
    BY <1>1 DEF PushInv, Types
  <1> QED BY <1>1, <1>2, <1>3, <1>4, Removing

\* A list with one more element.
LEMMA Appended ==
    ASSUME NEW n \in Nat, NEW list, list = [s \in 1 .. n |-> list[s]], NEW elt
    PROVE  LET longer == Append(list, elt)
           IN  /\ Len(longer) = n + 1 /\ longer = [s \in 1 .. n + 1 |-> longer[s]]
               /\ longer[n + 1] = elt /\ \A s \in 1 .. n : longer[s] = list[s]
  <1> DEFINE S == {list[s] : s \in 1 .. n} \cup {elt}
             longer == Append(list, elt)
  <1>1. list \in Seq(S) /\ Len(list) = n /\ elt \in S
    OBVIOUS
  <1> HIDE DEF S
  <1>2. /\ longer \in Seq(S) /\ Len(longer) = n + 1
        /\ longer[n + 1] = elt /\ \A s \in 1 .. n : longer[s] = list[s]
    BY <1>1, AppendProperties
  <1> HIDE DEF longer
  <1>3. longer = [s \in 1 .. n + 1 |-> longer[s]]
    BY <1>2
  <1> QED BY <1>2, <1>3 DEF longer

\* A new connection is the last of the list and as old as the version it was
\* accepted under.
LEMMA Connecting == ASSUME PushInv, NEW c, Connect(c) PROVE PushInv'
  <1> DEFINE n == Len(socks)
             sock == [open |-> TRUE, born |-> version, last |-> 0]
  <1>1. /\ socks' = Append(socks, sock) /\ conns' = conns \cup {n + 1} /\ at' = [at EXCEPT ![c] = n + 1]
        /\ UNCHANGED <<version, polls, shaken>>
    BY DEF Connect
  <1>2. n \in Nat /\ n + 1 \in Nat /\ version \in Nat /\ socks = [s \in 1 .. n |-> socks[s]]
    BY DEF PushInv, Types
  <1>3. IsSocket(sock) /\ sock.open /\ sock.born = version /\ sock.last = 0
    BY DEF IsSocket, SocketFields
  <1> HIDE DEF sock
  <1>4. /\ Len(socks') = n + 1 /\ socks' = [s \in 1 .. n + 1 |-> socks'[s]]
        /\ socks'[n + 1] = sock /\ \A s \in 1 .. n : socks'[s] = socks[s]
    <2> HIDE DEF n
    <2> QED BY <1>1, <1>2, Appended
  <1> HIDE DEF n
  <1>5. (\A s \in 1 .. n + 1 : s = n + 1 \/ s \in 1 .. n) /\ 1 .. n \subseteq 1 .. n + 1 /\ n + 1 \in 1 .. n + 1
    BY <1>2
  <1>6. Types'
    <2>1. \A s \in 1 .. n + 1 : IsSocket(socks'[s])
      BY <1>3, <1>4, <1>5 DEF PushInv, Types, n
    <2>2. at' = [b \in Pages |-> at'[b]] /\ \A b \in Pages : at'[b] = NoSocket \/ at'[b] \in 1 .. n + 1
      <3>1. at = [b \in Pages |-> at[b]] /\ \A b \in Pages : at[b] = NoSocket \/ at[b] \in 1 .. n
        BY DEF PushInv, Types, n
      <3>2. at' = [b \in Pages |-> at'[b]] /\ \A b \in Pages : at'[b] \in {at[b], n + 1}
        BY <1>1, <3>1
      <3> QED BY <1>5, <3>1, <3>2
    <2> QED BY <1>1, <1>2, <1>4, <2>1, <2>2 DEF PushInv, Types, IsPoll, PollFields, IsSocket, SocketFields
  <1>7. ListInv'
    <2>1. conns' \subseteq 1 .. n + 1 /\ \A s \in 1 .. n + 1 : socks'[s].open => s \in conns'
      BY <1>1, <1>2, <1>4, <1>5 DEF PushInv, ListInv, n
    <2>2. \A p \in Pollers : \A i \in DOMAIN polls[p].broken :
             polls[p].broken[i] \in 1 .. n + 1 /\ ~socks'[polls[p].broken[i]].open
      BY <1>2, <1>4 DEF PushInv, ListInv, Closed, n
    <2> QED BY <1>1, <1>4, <2>1, <2>2 DEF ListInv, Closed
  <1>8. VersionInv'
    <2>1. \A s \in 1 .. n + 1 : socks'[s].last <= version
      BY <1>2, <1>3, <1>4, <1>5 DEF PushInv, VersionInv, n
    <2> QED BY <1>1, <1>4, <2>1 DEF PushInv, VersionInv, Notifying
  <1>9. ASSUME NEW q \in Pollers, NEW r \in conns PROVE r \in Ahead(q)' <=> r \in Ahead(q)
    <2>1. conns \in SUBSET (1 .. n)
      BY DEF PushInv, ListInv, n
    <2>2. UpTo(conns', r) = UpTo(conns, r) /\ r \in conns'
      BY <1>1, <1>2, <2>1, NewIndex
    <2> QED BY <1>1, <2>2, Aheads
  <1>10. ASSUME NEW q \in Pollers, Notifying(q), NEW r \in Ahead(q)' PROVE socks'[r].last <= polls[q].msg.version
    <2>1. CASE r \in conns
      <3>1. r \in Ahead(q) /\ r \in 1 .. n
        BY <1>9, <1>10, <2>1 DEF PushInv, ListInv, n
      <3> QED BY <1>4, <1>10, <3>1 DEF PushInv, TurnInv
    <2>2. CASE r \notin conns
      <3>1. r = n + 1
        BY <1>1, <2>2, Aheads
      <3>2. polls[q].msg.version \in Nat
        BY <1>10 DEF PushInv, Types, IsPoll, Notifying
      <3> QED BY <1>3, <1>4, <3>1, <3>2
    <2> QED BY <2>1, <2>2
  <1>11. TurnInv'
    BY <1>1, <1>10 DEF TurnInv, Notifying
  <1>12. ASSUME NEW r \in 1 .. n + 1, socks'[r].open
         PROVE  \/ version \in {socks'[r].last, socks'[r].born} \/ version \in shaken
                \/ \E q \in Pollers : Notifying(q) /\ polls[q].msg.version = version /\ r \in Ahead(q)'
    <2>1. CASE r = n + 1
      BY <1>3, <1>4, <2>1
    <2>2. CASE r \in 1 .. n
      <3>1. socks'[r] = socks[r] /\ r \in conns
        BY <1>4, <1>12, <2>2 DEF PushInv, ListInv, n
      <3> QED BY <1>9, <1>12, <2>2, <3>1 DEF PushInv, ReachInv, n
    <2> QED BY <1>5, <2>1, <2>2
  <1>13. ReachInv'
    BY <1>1, <1>4, <1>12 DEF ReachInv, Notifying
  <1> QED BY <1>6, <1>7, <1>8, <1>11, <1>13 DEF PushInv

\* A connection that breaks is open no more.
LEMMA Dropping == ASSUME PushInv, NEW c \in Pages, Drop(c) PROVE PushInv'
  <1> DEFINE s == at[c]
             sock == [socks[s] EXCEPT !.open = FALSE]
  <1>1. /\ socks' = [socks EXCEPT ![s] = sock] /\ at' = [at EXCEPT ![c] = NoSocket] /\ s # NoSocket
        /\ UNCHANGED <<version, polls, conns, shaken>>
    BY DEF Drop
  <1>2. s \in 1 .. Len(socks) /\ Len(socks) \in Nat /\ IsSocket(socks[s])
    BY <1>1 DEF PushInv, Types
  <1>3. IsSocket(sock) /\ ~sock.open /\ sock.last = socks[s].last
    BY <1>2 DEF IsSocket, SocketFields
  <1> HIDE DEF sock, s
  <1>4. /\ socks'[s] = sock /\ \A r \in 1 .. Len(socks) : r # s => socks'[r] = socks[r]
        /\ socks' = [r \in 1 .. Len(socks) |-> socks'[r]]
    BY <1>1, <1>2 DEF PushInv, Types
  <1>5. Len(socks') = Len(socks)
    BY <1>2, <1>4
  <1>6. Types'
    <2>1. \A r \in 1 .. Len(socks) : IsSocket(socks'[r])
      BY <1>3, <1>4 DEF PushInv, Types
    <2>2. at' = [b \in Pages |-> at'[b]] /\ \A b \in Pages : at'[b] = NoSocket \/ at'[b] \in 1 .. Len(socks)
      BY <1>1 DEF PushInv, Types
    <2> QED BY <1>1, <1>2, <1>4, <1>5, <2>1, <2>2 DEF PushInv, Types, IsPoll, PollFields, IsSocket, SocketFields
  <1>7. \A r \in 1 .. Len(socks) : socks'[r].last = socks[r].last /\ (socks'[r].open => socks'[r] = socks[r] /\ socks[r].open)
    BY <1>3, <1>4
  <1>8. ListInv' /\ VersionInv'
    BY <1>1, <1>5, <1>7 DEF PushInv, ListInv, VersionInv, Closed, Notifying
  <1>9. \A q \in Pollers : Ahead(q)' = Ahead(q)
    BY <1>1 DEF Ahead, Index
  <1>10. TurnInv'
    <2>1. \A q \in Pollers : Ahead(q) \subseteq 1 .. Len(socks)
      BY Aheads DEF PushInv, ListInv
    <2> QED BY <1>1, <1>7, <1>9, <2>1 DEF PushInv, TurnInv, Notifying
  <1>11. ReachInv'
    BY <1>1, <1>5, <1>7, <1>9 DEF PushInv, ReachInv, Notifying
  <1> QED BY <1>6, <1>8, <1>10, <1>11 DEF PushInv

-----------------------------------------------------------------------------
\* The server begins with no connection and no broadcast.
LEMMA PushStarting == PushInit => PushInv
  <1> SUFFICES ASSUME PushInit PROVE PushInv
    OBVIOUS
  <1>1. /\ version = 0 /\ conns = {} /\ socks = <<>> /\ shaken = {}
        /\ polls = [p \in Pollers |-> NotPolling] /\ at = [c \in Pages |-> NoSocket]
    BY DEF PushInit
  <1>2. IsPoll(NotPolling) /\ NotPolling.pc = "idle" /\ NotPolling.broken = <<>>
    BY DEF NotPolling, IsPoll, PollFields
  <1>3. Len(socks) = 0 /\ 1 .. Len(socks) = {}
    BY <1>1
  <1>4. Types
    <2>1. socks = [s \in 1 .. 0 |-> socks[s]]
      BY <1>1
    <2> QED BY <1>1, <1>2, <1>3, <2>1 DEF Types
  <1>5. \A p \in Pollers : ~Notifying(p)
    BY <1>1, <1>2 DEF Notifying
  <1>6. ListInv /\ VersionInv /\ TurnInv /\ ReachInv
    BY <1>1, <1>2, <1>3, <1>5 DEF ListInv, VersionInv, TurnInv, ReachInv
  <1> QED BY <1>4, <1>6 DEF PushInv

\* Every step of the server keeps the invariant.
LEMMA PushStep == ASSUME PushInv, [PushNext]_pushVars PROVE PushInv'
  <1>1. CASE UNCHANGED pushVars
    BY <1>1, PushIdling DEF pushVars
  <1>2. ASSUME NEW p \in Pollers, PollStep(p) PROVE PushInv'
    BY <1>2, Building, SendKeeps, Ending DEF PollStep
  <1>3. ASSUME NEW p \in Pollers, Discover(p) PROVE PushInv'
    BY <1>3, Discovering
  <1>4. ASSUME NEW c \in Pages, Connect(c) \/ Drop(c) PROVE PushInv'
    BY <1>4, Connecting, Dropping
  <1>5. ASSUME NEW s, Disconnect(s) PROVE PushInv'
    BY <1>5, Disconnecting
  <1> QED BY <1>1, <1>2, <1>3, <1>4, <1>5 DEF PushNext

\* What a page adds to the model of the server leaves the server to itself.
LEMMA PagesPush ==
    /\ PagesInit => PushInit
    /\ [PagesNext]_allVars => [PushNext]_pushVars
  <1>1. ASSUME PagesNext PROVE [PushNext]_pushVars
    <2>1. ASSUME ServerStep PROVE PushNext
      BY <2>1 DEF ServerStep, PushNext, PollStep, Build
    <2> QED BY <1>1, <2>1 DEF PagesNext, SendToPage, DropPage, Answer, Arrive, Receive, PushNext, PollStep
  <1> QED BY <1>1 DEF PagesInit, allVars, pushVars

\* TopologyPages implements TopologyPush.
THEOREM PagesOfPush == PagesSpec => PushSpec
  BY PagesPush, PTL DEF PagesSpec, PushSpec

\* BroadcastReachesAll: with no broadcast under way, an open connection has
\* the current version, or was accepted under it, or the list was changed
\* under the broadcast of that version.
THEOREM Reaching == PushSpec => []BroadcastReachesAll
  <1>1. PushInv /\ [PushNext]_pushVars => PushInv'
    BY PushStep
  <1>2. PushInv => BroadcastReachesAll
    <2> SUFFICES ASSUME PushInv PROVE BroadcastReachesAll
      OBVIOUS
    <2>1. DOMAIN socks = 1 .. Len(socks)
      BY DEF PushInv, Types
    <2> QED BY <2>1 DEF PushInv, ReachInv, BroadcastReachesAll, Quiet
  <1> QED BY <1>1, <1>2, PushStarting, PTL DEF PushSpec

\* VersionsInOrder: what a connection is sent is newer than what it was sent
\* before, although broadcasts overlap.
THEOREM Orderly == PushSpec => VersionsInOrder
  <1>1. PushInv /\ [PushNext]_pushVars => PushInv'
    BY PushStep
  <1>2. ASSUME PushInv, [PushNext]_pushVars
        PROVE  [\A s \in DOMAIN socks : socks'[s].last # socks[s].last => socks'[s].last > socks[s].last]_pushVars
    <2>0. DOMAIN socks = 1 .. Len(socks) /\ Len(socks) \in Nat /\ socks = [s \in 1 .. Len(socks) |-> socks[s]]
      BY <1>2 DEF PushInv, Types
    <2> SUFFICES ASSUME NEW s \in 1 .. Len(socks), socks'[s].last # socks[s].last
                 PROVE  socks'[s].last > socks[s].last
      BY <2>0
    <2>1. CASE UNCHANGED socks
      BY <2>1
    <2>2. ASSUME NEW p \in Pollers, Send(p) PROVE socks'[s].last > socks[s].last
      <3>1. PICK r : Sent(p, r)
        BY <1>2, <2>2, Sending
      <3>2. s = r /\ socks'[s].last = polls[p].msg.version
        BY <3>1 DEF Sent
      <3>3. Notifying(p) /\ s \in Ahead(p)
        <4>1. s \in conns /\ Cardinality(UpTo(conns, s)) = polls[p].next
          BY <3>1, <3>2 DEF Sent, Index, UpTo
        <4>2. polls[p].next \in Nat
          BY <1>2 DEF PushInv, Types, IsPoll
        <4> QED BY <2>2, <4>1, <4>2, Aheads DEF Send
      <3>4. socks[s].last \in Nat /\ polls[p].msg.version \in Nat /\ socks[s].last <= polls[p].msg.version
        BY <1>2, <3>3 DEF PushInv, TurnInv, Types, IsPoll, IsSocket, Notifying
      <3> QED BY <3>2, <3>4
    <2>3. ASSUME NEW c, Connect(c) PROVE socks'[s] = socks[s]
      <3>1. socks' = Append(socks, [open |-> TRUE, born |-> version, last |-> 0])
        BY <2>3 DEF Connect
      <3> QED BY <2>0, <3>1, Appended
    <2>4. ASSUME NEW c, Drop(c) PROVE socks'[s].last = socks[s].last
      <3>1. socks' = [socks EXCEPT ![at[c]] = [socks[at[c]] EXCEPT !.open = FALSE]]
        BY <2>4 DEF Drop
      <3>2. socks'[s] = socks[s] \/ socks'[s] = [socks[s] EXCEPT !.open = FALSE]
        BY <2>0, <3>1
      <3>3. IsSocket(socks[s])
        BY <1>2 DEF PushInv, Types
      <3> QED BY <3>2, <3>3 DEF IsSocket, SocketFields
    <2>5. PushNext => UNCHANGED socks \/ (\E p \in Pollers : Send(p)) \/ \E c : Connect(c) \/ Drop(c)
      BY DEF PushNext, Discover, PollStep, Build, EndBroadcast, Disconnect
    <2> QED BY <1>2, <2>1, <2>2, <2>3, <2>4, <2>5 DEF pushVars
  <1> QED BY <1>1, <1>2, PushStarting, PTL DEF PushSpec, VersionsInOrder
=============================================================================
