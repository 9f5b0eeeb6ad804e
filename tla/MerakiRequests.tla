---------------------------- MODULE MerakiRequests ---------------------------
(***************************************************************************)
(* The requests of server/routes/meraki.py that ask the Meraki Dashboard,  *)
(* over the client of server/meraki_client.py and its limiter.             *)
(*                                                                         *)
(* A request is a list of stages, each an asyncio.gather of calls; a call  *)
(* waits in the limiter, is sent and is answered.  gather raises the first *)
(* failure and leaves the other calls running: they stay in the limiter    *)
(* and their answers are ignored.  A page that goes away during the        *)
(* streamed refresh cancels the stage that is awaited.                     *)
(***************************************************************************)
EXTENDS RateLimiter, MerakiTransformer

CONSTANTS Requests,
          Mixes,             (* [ask, org]: ask from Requests to [kind, network] *)
          All,               (* no network was asked for                      *)
          NetworkOrder,      (* networks as get_org_networks lists them       *)
          Devices,           (* in the order of get_org_devices               *)
          HashOrder,         (* their networks, as a Python set lists them    *)
          Availabilities,    (* serial -> status                              *)
          LinkLayer, Vlans, Stacks, (* of each network                        *)
          DeviceClients,     (* of each serial                                *)
          MaxFailures, MaxLeavings

\* The lists are lists, each network is listed once, and devices are in networks
\* that are listed.
ASSUME DashboardAssumption ==
    /\ \A list \in {Devices, NetworkOrder, HashOrder} : list \in Seq(Range(list))
    /\ IsInjective(NetworkOrder) /\ IsInjective(HashOrder) /\ All \notin Range(NetworkOrder)
    /\ Range(HashOrder) = {d.network : d \in Range(Devices)} /\ Range(HashOrder) \subseteq Range(NetworkOrder)
    /\ \A n \in Range(NetworkOrder), data \in {LinkLayer, Vlans} :
          data[n] \in Seq(Range(data[n]))

VARIABLES ask,      (* what each request is: its kind and its network         *)
          org,      (* _org_id is known                                       *)
          pc,       (* new, busy, or how a request ended                      *)
          stage,    (* the stage it is in; 0 is _get_org_id                   *)
          group,    (* the calls that it awaits                               *)
          sent,     (* calls sent and not answered                            *)
          got,      (* <<stage, part>> that were answered                     *)
          streamed, (* the events of phase 2: [network, heard]                *)
          failures, leavings

requestVars == <<ask, org, pc, stage, group, sent, got, streamed, failures, leavings>>
vars == <<limiterVars, requestVars>>

\* Devices of networks, and in the order of Devices.
In(networks) == {d \in Range(Devices) : d.network \in networks}
Listed == [devices \in SUBSET Range(Devices) |-> Filter(Devices, devices)]

\* Devices and network ids of the GET routes: no check that the network exists.
FilteredDevices(r) == IF ask[r].network = All THEN Range(Devices) ELSE In({ask[r].network})

\* A slip: one network is asked.
FirstNetworkId(r) == <<IF ask[r].network # All THEN ask[r].network ELSE Devices[1].network>>

NetworkIds(r) == IF ask[r].network # All THEN <<ask[r].network>> ELSE HashOrder

Serials(devices) == LET known == Listed[{d \in devices : d.serial # NoSerial}]
                    IN [i \in DOMAIN known |-> known[i].serial]

ap_serials(r) == Serials({d \in FilteredDevices(r) : d.product = "wireless"})

\* The refresh: a network that is not listed stands for all of them.
target_networks(r) ==
    IF ask[r].network \in Range(NetworkOrder) THEN <<ask[r].network>> ELSE NetworkOrder

final_devices(r) == In(Range(target_networks(r)))

-----------------------------------------------------------------------------
(***************************************************************************)
(* The stages of a request: sequences of calls <<part, what>>.  A part is  *)
(* a gather of its own and fails as one.                                   *)
(***************************************************************************)
Asks(part, whats) == [i \in DOMAIN whats |-> <<part, whats[i]>>]
PerPart(parts, whats) == [i \in DOMAIN parts |-> Asks(parts[i], whats)]

Stages(r) ==
    CASE ask[r].kind = "refresh" ->
           <<Asks("org", <<"devices", "networks", "availabilities", "uplinks">>)>>
           \o PerPart(target_networks(r), <<"links", "vlans">>)
           \o PerPart(Serials(final_devices(r)), <<"clients">>)
      [] ask[r].kind = "l2" ->
           <<Asks("org", <<"devices", "availabilities", "uplinks">>)>> \o PerPart(NetworkIds(r), <<"links", "stacks">>)
      [] ask[r].kind = "clients" -> <<Asks("org", <<"devices">>)>> \o PerPart(ap_serials(r), <<"clients">>)
      [] ask[r].kind = "details" ->
           <<Asks("org", <<"devices">>), FlattenSeq(PerPart(Serials(FilteredDevices(r)), <<"clients", "ports">>))>>
      [] ask[r].kind = "l3" -> <<Asks("org", <<"devices">>)>> \o PerPart(NetworkIds(r), <<"vlans">>)
      [] ask[r].kind = "sites" -> <<Asks("org", <<"devices", "networks", "availabilities">>)>>
      [] ask[r].kind = "device" -> <<Asks("org", <<"clients", "ports">>)>>
      [] OTHER -> <<Asks("org", <<ask[r].kind>>)>>

\* The routes that need no organization.
NoOrg == {"status", "device"}

-----------------------------------------------------------------------------
Parts(have, parts, data) == [i \in DOMAIN parts |-> IF have[i + 1] THEN data[parts[i]] ELSE <<>>]

\* A slip: only the links of the network that was asked last are final.
FinalLast(r, have) ==
    LET targets == target_networks(r)
    IN [l2 |-> build_l2(final_devices(r), Availabilities, <<Last(Parts(have, targets, LinkLayer))>>, <<>>, <<>>),
        l3 |-> build_l3(targets, Parts(have, targets, Vlans), Listed[final_devices(r)])]

\* Phase 4 of the refresh, which has no stacks and counts no clients.
Final(r, have) ==
    LET targets == target_networks(r)
    IN [l2 |-> build_l2(final_devices(r), Availabilities, Parts(have, targets, LinkLayer), <<>>, <<>>),
        l3 |-> build_l3(targets, Parts(have, targets, Vlans), Listed[final_devices(r)])]

\* The network of a client node is that of the last access point that lists
\* the client.
AnnotatedClients(listed) ==
    LET nodes == build_l2({}, <<>>, <<>>, listed, <<>>).clients
        lastAp(id) == Last(SelectSeq(nodes, LAMBDA n : n.id = id)).connected_ap
    IN [i \in DOMAIN nodes |->
           [id |-> nodes[i].id, connected_ap |-> nodes[i].connected_ap,
            network |-> (CHOOSE d \in Range(Devices) : d.serial = lastAp(nodes[i].id)).network]]

\* What a request is answered with after its last stage.
answer(r) ==
    LET have == [i \in DOMAIN Stages(r) |-> \E p \in got[r] : p[1] = i]
        nets == NetworkIds(r)
        aps == ap_serials(r)
    IN CASE ask[r].kind = "refresh" -> Final(r, have)
         [] ask[r].kind = "l2" ->
              [l2 |-> build_l2(FilteredDevices(r), Availabilities, Parts(have, nets, LinkLayer), <<>>,
                               FlattenSeq(Parts(have, nets, Stacks)))]
         [] ask[r].kind = "clients" ->
              [nodes |-> AnnotatedClients([i \in DOMAIN aps |-> <<aps[i], Parts(have, aps, DeviceClients)[i]>>])]
         [] ask[r].kind = "details" ->
              [clients |-> [s \in Range(Serials(FilteredDevices(r))) |->
                               IF <<2, s>> \in got[r] THEN DeviceClients[s] ELSE <<>>]]
         [] ask[r].kind = "l3" ->
              [l3 |-> build_l3(nets, Parts(have, nets, Vlans), Listed[FilteredDevices(r)])]
         [] ask[r].kind = "sites" -> [sites |-> build_sites(NetworkOrder, Devices, Availabilities)]
         [] OTHER -> [ok |-> TRUE]

-----------------------------------------------------------------------------
Init ==
    /\ LimiterInit
    /\ \E mix \in Mixes : ask = mix.ask /\ org = mix.org
    /\ pc = [r \in Requests |-> "new"] /\ stage = [r \in Requests |-> 0]
    /\ group = [r \in Requests |-> {}] /\ sent = {}
    /\ got = [r \in Requests |-> {}] /\ streamed = [r \in Requests |-> <<>>]
    /\ failures = 0 /\ leavings = 0

Call(r, i, asked) == [request |-> r, stage |-> i, part |-> asked[1], what |-> asked[2]]

\* The calls of a stage enter the limiter in the order of gather.
Await(r, i, asked) ==
    LET calls == [k \in DOMAIN asked |-> Call(r, i, asked[k])]
    IN /\ stage' = [stage EXCEPT ![r] = i]
       /\ group' = [group EXCEPT ![r] = Range(calls)]
       /\ waiters' = waiters \o calls

End(r, how) == pc' = [pc EXCEPT ![r] = how] /\ group' = [group EXCEPT ![r] = {}]

Finish(r) == End(r, "answered") /\ UNCHANGED <<stage, waiters>>

\* A slip: a stage without a call is awaited like any other.
AwaitNothing(r, i) ==
    IF i <= Len(Stages(r)) THEN Await(r, i, Stages(r)[i]) /\ UNCHANGED pc ELSE Finish(r)

\* On to stage i, unless it is past the last one or has nobody to ask.
Go(r, i) ==
    IF i <= Len(Stages(r)) /\ Stages(r)[i] # <<>>
      THEN Await(r, i, Stages(r)[i]) /\ UNCHANGED pc
      ELSE Finish(r)

\* Phase 2 of the refresh streams the devices and the links of each network.
InPhase2(r) == ask[r].kind = "refresh" /\ stage[r] \in 2 .. Len(target_networks(r)) + 1

StreamNetwork(r, answered) ==
    LET n == target_networks(r)[stage[r] - 1]
    IN [network |-> n, heard |-> <<stage[r], n>> \in answered]

partial_l2(e) ==
    build_l2(In({e.network}), Availabilities, <<IF e.heard THEN LinkLayer[e.network] ELSE <<>> >>,
             <<>>, <<>>)

\* The awaited stage has no call left.
Proceed(r, answered) ==
    /\ streamed' = IF InPhase2(r) THEN [streamed EXCEPT ![r] = Append(@, StreamNetwork(r, answered))] ELSE streamed
    /\ org' = (org \/ stage[r] = 0)
    /\ Go(r, stage[r] + 1)

Remaining(r, left, answered) ==
    /\ got' = [got EXCEPT ![r] = answered]
    /\ IF left = {} THEN Proceed(r, answered)
       ELSE /\ group' = [group EXCEPT ![r] = left]
            /\ UNCHANGED <<org, pc, stage, streamed, waiters>>

Part(c) == {d \in group[c.request] : d.part = c.part}

-----------------------------------------------------------------------------
Start(r) ==
    /\ pc[r] = "new" /\ pc' = [pc EXCEPT ![r] = "busy"]
    /\ IF org \/ ask[r].kind \in NoOrg
         THEN Await(r, 1, Stages(r)[1])
         ELSE Await(r, 0, Asks("org", <<"organizations">>))
    /\ UNCHANGED <<tokens, since, nap, excess, ask, org, sent, got, streamed, failures, leavings>>

\* _get: a token, then the request goes out.
Send(c) ==
    /\ Take(c)
    /\ sent' = sent \cup {c}
    /\ UNCHANGED <<ask, org, pc, stage, group, got, streamed, failures, leavings>>

Ignored(c) == c \notin group[c.request]
Ignore == UNCHANGED <<org, pc, stage, group, got, streamed, waiters>>

\* 400 and 404 of VLANs, stacks and ports are answers too: empty ones.
Answered(c) ==
    LET r == c.request
    IN /\ c \in sent /\ sent' = sent \ {c}
       /\ IF Ignored(c) THEN Ignore
          ELSE Remaining(r, group[r] \ {c}, IF Part(c) = {c} THEN got[r] \cup {<<c.stage, c.part>>} ELSE got[r])
       /\ UNCHANGED <<tokens, since, nap, excess, ask, failures, leavings>>

\* refused: an HTTP status error, or else no connection or no answer in time.
\* The first stages answer with an error and know HTTP errors only; so does
\* the whole of the refresh.
Failed(c, refused) ==
    LET r == c.request
        strict == c.stage <= 1
        known == refused \/ (~strict /\ ask[r].kind # "refresh")
    IN /\ c \in sent /\ sent' = sent \ {c}
       /\ failures < MaxFailures /\ failures' = failures + 1
       /\ CASE Ignored(c) -> Ignore
            [] ~Ignored(c) /\ known /\ ~strict -> Remaining(r, group[r] \ Part(c), got[r])
            [] OTHER -> /\ End(r, IF known THEN "error" ELSE "broken")
                        /\ UNCHANGED <<org, stage, got, streamed, waiters>>
       /\ UNCHANGED <<tokens, since, nap, excess, ask, leavings>>

\* The page goes away: the generator is cancelled in its gather.
Leave(r) ==
    /\ ask[r].kind = "refresh" /\ pc[r] = "busy" /\ stage[r] > 0
    /\ leavings < MaxLeavings /\ leavings' = leavings + 1
    /\ GiveUp(group[r]) /\ sent' = sent \ group[r]
    /\ End(r, "gone")
    /\ UNCHANGED <<tokens, since, excess, ask, org, stage, got, streamed, failures>>

InFlight == Range(waiters) \cup sent

Next ==
    \/ \E r \in Requests : Start(r) \/ Leave(r)
    \/ \E c \in InFlight : Send(c) \/ Answered(c) \/ \E refused \in BOOLEAN : Failed(c, refused)
    \/ Doze /\ UNCHANGED requestVars
    \/ Tick /\ UNCHANGED requestVars

\* Time passes and the event loop runs what is ready: one step of the limiter
\* is always possible, and never two.  A call that was sent is answered or fails,
\* as the client waits 30 seconds, unless it is cancelled.
Fairness ==
    /\ WF_limiterVars(Tick \/ Doze \/ \E c \in Range(waiters) : Take(c))
    /\ WF_sent(\E c \in sent : sent' = sent \ {c})

Spec == Init /\ [][Next]_vars /\ Fairness

-----------------------------------------------------------------------------
Links(l2) == {Pair(k) : k \in l2.edges}
Names(l2) == {n.id : n \in l2.nodes}

\* Whichever calls were refused, the final topology of the refresh is the sum
\* of what it streamed: the same devices and the same links, each link once.
PartialsAddUp ==
    \A r \in Requests : ask[r].kind = "refresh" /\ pc[r] = "answered" =>
        LET parts == {partial_l2(e) : e \in Range(streamed[r])}
            final == answer(r).l2
        IN /\ Names(final) = UNION {Names(p) : p \in parts}
           /\ Links(final) = UNION {Links(p) : p \in parts}
           /\ Cardinality(final.edges) = Cardinality(Links(final))

\* Two answers about the same networks.  A network that is not listed stands for
\* all of them to the refresh, and for none to the other routes.
Comparable(r, s) ==
    /\ pc[r] = "answered" /\ pc[s] = "answered"
    /\ ask[r].network = ask[s].network /\ ask[r].network \in {All} \cup Range(NetworkOrder)

\* The networks that a GET route is about: the one that is asked for, or those
\* that have devices.
About(r) == IF ask[r].network = All THEN {d.network : d \in Range(Devices)} ELSE {ask[r].network}

Vias(l3) == {route.via : route \in l3.routes}

\* What layer 3 tells of some networks.
Within(l3, networks) ==
    [subnets |-> {subnet \in Range(l3.subnets) : subnet.network \in networks},
     routes |-> {route \in l3.routes : l3.subnets[route.from].network \in networks
                                        /\ l3.subnets[route.to].network \in networks}]

\* The links that a refresh streamed of some networks.
StreamedLinks(r, networks) ==
    UNION {Links(partial_l2(e)) : e \in {f \in Range(streamed[r]) : f.network \in networks}}

\* With nothing refused, the routes tell the same of the networks they are
\* about, in whatever order each asks them: the L2 route has the devices of the
\* refresh and the links that it streamed of these networks; the L3 route has
\* its subnets of them, as many routes as join two of these, and its gateway;
\* and a device that the L2 route shows alerting shows in the health of its
\* site.  A network without devices is of the refresh only.
RoutesAgree ==
    \A r, s \in Requests :
        failures = 0 /\ Comparable(r, s) =>
        LET a == answer(r)
            b == answer(s)
        IN /\ ask[r].kind = "refresh" /\ ask[s].kind = "l2" =>
                 Names(a.l2) = Names(b.l2) /\ StreamedLinks(r, About(s)) = Links(b.l2)
           /\ ask[r].kind = "refresh" /\ ask[s].kind = "l3" =>
                 LET part == Within(a.l3, About(s))
                 IN /\ part.subnets = Range(b.l3.subnets) /\ Vias(part) = Vias(b.l3)
                    /\ Cardinality(part.routes) = Cardinality(b.l3.routes)
           /\ ask[r].kind = "l2" /\ ask[s].kind = "sites" =>
                 \A site \in Range(b.sites) : \A n \in a.l2.nodes :
                     n.network = site.network /\ n.status = "alerting" => site.bucket \notin {"green", "unknown"}

\* Whatever other requests do, fail or leave behind in the limiter, a request
\* comes to an end.
RequestsEnd == \A r \in Requests : pc[r] = "busy" ~> pc[r] # "busy"

\* Refuted: a stream that the page stays for ends with the topology or an error.
EndsWithAnEvent == \A r \in Requests : pc[r] # "broken"

\* Refuted: a route joins two subnets of one network.
RoutesStayInNetwork ==
    \A r \in Requests : ask[r].kind = "l3" /\ pc[r] = "answered" =>
        LET l3 == answer(r).l3
        IN \A route \in l3.routes : l3.subnets[route.from].network = l3.subnets[route.to].network

\* Refuted: the L3 route has the subnets of the refresh.  It asks no network
\* without devices for its VLANs (meraki.py:332), the refresh asks all (:467).
SubnetsAgree ==
    \A r, s \in Requests :
        failures = 0 /\ Comparable(r, s) /\ ask[r].kind = "refresh" /\ ask[s].kind = "l3" =>
            Range(answer(r).l3.subnets) = Range(answer(s).l3.subnets)

\* Refuted: the L2 route draws the edges of the refresh.  Of a link that two
\* networks report, it draws the report of the network that a set of Python
\* lists first (meraki.py:154), with its direction and ports.
EdgesAgree ==
    \A r, s \in Requests :
        failures = 0 /\ Comparable(r, s) /\ ask[r].kind = "refresh" /\ ask[s].kind = "l2" =>
            answer(r).l2.edges = answer(s).l2.edges
=============================================================================
