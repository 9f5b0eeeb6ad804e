--------------------------- MODULE MCMerakiRequests --------------------------
(***************************************************************************)
(* Two networks with a link between them that both report, a stack, a      *)
(* client that two devices list, a device without a serial, and a link to  *)
(* a device that no network lists; and a network that has VLANs and no     *)
(* devices.                                                                *)
(***************************************************************************)
EXTENDS MerakiRequests

CONSTANTS r1, r2, n1, n2, n3, a1, s1, s2, p2, x, c1

MCNetworks == <<n1, n3, n2>>
MCHashOrder == <<n2, n1>>

Of(kind, network) == [kind |-> kind, network |-> network]
Mix(a, b, known) == [ask |-> r1 :> a @@ r2 :> b, org |-> known]
MCMixes ==
    {Mix(Of("refresh", All), Of("l3", All), TRUE), Mix(Of("refresh", All), Of("l2", All), TRUE),
     Mix(Of("refresh", n1), Of("l2", n1), TRUE), Mix(Of("refresh", n3), Of("l3", n3), TRUE),
     Mix(Of("refresh", n2), Of("clients", All), FALSE), Mix(Of("refresh", x), Of("networks", All), TRUE),
     Mix(Of("l2", All), Of("sites", All), FALSE), Mix(Of("l3", x), Of("l3", x), FALSE),
     Mix(Of("details", All), Of("details", x), TRUE), Mix(Of("status", All), Of("device", All), FALSE)}

Device(s, n, p) == [serial |-> s, network |-> n, product |-> p, core |-> s = s1, placed |-> s = a1]
MCDevices == <<Device(a1, n1, "appliance"), Device(s1, n1, "switch"), Device(p2, n2, "wireless"), Device(NoSerial, n2, "switch")>>
MCAvailabilities == a1 :> "online" @@ s1 :> "alerting" @@ p2 :> "dormant"
Side(s, p) == [serial |-> s, port |-> p]
MCLinkLayer ==
    n1 :> <<<<Side(a1, 1), Side(s1, 1)>>, <<Side(s1, 1), Side(a1, 1)>>, <<Side(s1, 2), Side(p2, 1)>>>>
    @@ n2 :> <<<<Side(p2, 1), Side(s1, 2)>>, <<Side(p2, 2), Side(x, 1)>>, <<Side(p2, 3), Side(NoSerial, 1)>>>>
    @@ n3 :> <<>> @@ x :> <<>>
MCVlans == n1 :> <<10, 20>> @@ n2 :> <<10>> @@ n3 :> <<30>> @@ x :> <<>>
MCStacks == n1 :> <<<<s1, a1>>>> @@ n2 :> <<>> @@ n3 :> <<>> @@ x :> <<>>
MCDeviceClients == a1 :> <<>> @@ s1 :> <<c1>> @@ p2 :> <<c1>>
=============================================================================
