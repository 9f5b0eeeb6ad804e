---------------------------- MODULE MCConfigReaders ----------------------------
(***************************************************************************)
(* A network with three areas and another one like it, an SSID; answers    *)
(* that are lists, tables inside an object, and objects; secrets in them.  *)
(***************************************************************************)
EXTENDS ConfigLibrary

MCFieldOrder == <<"_hash", "_redacted", "communityString", "defaultRulesEnabled", "id", "name",
                  "number", "passphrase", "psk", "rules", "value">>
MCSuffix == [id |-> "id", number |-> "number"]

\* Two SSIDs; a secret may be rotated, a name may change, an SSID may go.
Ssid(n, name, psk) ==
    Object([number |-> Scalar(ToString(n)), name |-> Scalar(name), psk |-> Scalar(psk)])
Rules(x) == [i \in 1 .. x |-> Object([value |-> Scalar(ToString(i))])]
Shaping(enabled, n) ==
    Object([defaultRulesEnabled |-> Scalar(enabled), rules |-> Array(Rules(n))])
Psk(secret) == Array(<<Object([id |-> Scalar("1"), passphrase |-> Scalar(secret)])>>)
Snmp(secret, name) == Object([communityString |-> Scalar(secret), name |-> Scalar(name)])

MCAnswers ==
    [wireless_ssids |->
        {Array(<<Ssid(0, "a", "s1"), Ssid(1, "b", "s1")>>),
         Array(<<Ssid(0, "a", "s2"), Ssid(1, "b", "s1")>>),
         Array(<<Ssid(1, "c", "s1")>>)},
     appliance_traffic_shaping_rules |-> {Shaping("yes", 1), Shaping("no", 0)},
     network_snmp |-> {Snmp("s1", "a"), Snmp("s2", "a")},
     wireless_ssid_identity_psks |-> {Psk("s1"), Psk("s2")}]
MCSecrets == {"s1", "s2"}
MCHashes == UNION {{redact(a, area) : a \in MCAnswers[area]} : area \in DOMAIN MCAnswers}

Key(net, area) == [type |-> "network", entity |-> net, area |-> area, sub |-> NoSub]
SsidKey ==
    [type |-> "ssid", entity |-> "n1:0", area |-> "wireless_ssid_identity_psks", sub |-> "0"]

NetworkAreas == {"wireless_ssids", "appliance_traffic_shaping_rules", "network_snmp"}
Networks == {Key(n, area) : n \in {"n1", "n2"}, area \in NetworkAreas}
OneNetwork == {k \in Networks : k.entity = "n1" /\ k.area # "wireless_ssids"}
Reported == Networks \ {Key("n2", "network_snmp")}
MCKeys == Networks \cup {SsidKey}

Bounds == [keys |-> {}, sources |-> {"baseline"}, rows |-> 0, seconds |-> 0, pages |-> FALSE,
           templates |-> 0, pushes |-> 0]

\* A client reads pages; moments are compared; networks are compared; pushes.
Paging == [Bounds EXCEPT !.keys = {Key("n1", "network_snmp"), SsidKey}, !.rows = 5, !.pages = TRUE]
Moments == [Bounds EXCEPT !.keys = OneNetwork, !.sources = {"baseline", "manual_refresh"},
                          !.rows = 4, !.seconds = 2]
Reports == [Bounds EXCEPT !.keys = Reported, !.rows = 3, !.seconds = 1, !.templates = 1]
Pushing == [Bounds EXCEPT !.keys = OneNetwork, !.rows = 3, !.seconds = 1, !.pushes = 3]

MCKeyOrder == SetToSeq(OneNetwork) \o SetToSeq(MCKeys \ OneNetwork)
MCSortsBefore(k, l) ==
    \E j \in DOMAIN MCKeyOrder : MCKeyOrder[j] = l /\ \E i \in 1 .. j - 1 : MCKeyOrder[i] = k

MCProfiles == {Paging, Moments, Reports, Pushing}
PushingOnly == {Pushing}
=============================================================================
