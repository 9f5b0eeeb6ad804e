-------------------------------- MODULE Redactor --------------------------------
(***************************************************************************)
(* What a response of Meraki becomes before it is stored (redactor.py,     *)
(* redaction_catalog.py): its secrets are replaced by their hashes and     *)
(* what never can match is dropped.  The result stands for its canonical   *)
(* string and, since equal results and only they have equal SHA-256 sums,  *)
(* for the hash of that string.                                            *)
(***************************************************************************)
EXTENDS Naturals, SequencesExt

\* A JSON value: a scalar, an object, an array, or the digest of a value.
Scalar(x) == [scalar |-> x]
Object(f) == [fields |-> f]
Array(s) == [items |-> s]
Digest(v) == [digest |-> v]

IsObject(v) == "fields" \in DOMAIN v
IsArray(v) == "items" \in DOMAIN v

\* _make_sentinel: a secret is seen to change and is not seen.
Sentinel(v) == Object([_redacted |-> Scalar("true"), _hash |-> Digest(v)])

\* A path is the sequence of its fields, with "*" for each element of an array.
REDACTION_PATHS ==
    [wireless_ssids |-> {<<"*", "psk">>, <<"*", "radiusServers", "*", "secret">>,
                         <<"*", "radiusAccountingServers", "*", "secret">>},
     wireless_ssid_identity_psks |-> {<<"*", "passphrase">>},
     appliance_site_to_site_vpn |-> {<<"peers", "*", "secret">>,
                                     <<"peers", "*", "ikev2", "secret">>},
     network_snmp |-> {<<"communityString">>, <<"users", "*", "passphrase">>},
     org_snmp |-> {<<"v2CommunityString">>, <<"users", "*", "passphrase">>},
     network_webhooks_http_servers |-> {<<"*", "sharedSecret">>}]

NORMALIZATION_PATHS ==
    [device_management_interface |->
        {<<"ddnsHostname">>} \cup ({"wan1", "wan2"} \X {"staticIp", "staticGateway"}),
     switch_device_ports |-> {<<"*", "linkNegotiationCapabilities">>},
     switch_device_warm_spare |-> {<<"spareSerial">>},
     switch_device_routing_interfaces |->
        {"*"} \X {"interfaceId", "ip", "subnet", "defaultGateway"},
     switch_device_routing_static_routes |->
        {"*"} \X {"staticRouteId", "nextHopIp", "subnet"},
     wireless_device_bluetooth |-> {<<"uuid">>, <<"major">>, <<"minor">>}]

PathsFor(catalog, area) == IF area \in DOMAIN catalog THEN catalog[area] ELSE {}

\* A field a path ends at, in the object f: masked, or deleted.
Masked(f, k) == [f EXCEPT ![k] = Sentinel(@)]
Deleted(f, k) == [x \in DOMAIN f \ {k} |-> f[x]]

\* v with each field at the end of path masked or deleted; what does not fit
\* the path stays.
RECURSIVE Walk(_, _, _)
Walk(v, path, delete) ==
    LET step == Head(path)
        last == Len(path) = 1
    IN CASE step = "*" /\ IsArray(v) /\ ~last ->
              Array([i \in DOMAIN v.items |-> Walk(v.items[i], Tail(path), delete)])
         [] step = "*" /\ IsArray(v) /\ last /\ ~delete ->
              Array([i \in DOMAIN v.items |-> Sentinel(v.items[i])])
         [] step # "*" /\ IsObject(v) /\ step \in DOMAIN v.fields ->
              Object(CASE ~last -> [v.fields EXCEPT ![step] = Walk(@, Tail(path), delete)]
                       [] last /\ delete -> Deleted(v.fields, step)
                       [] OTHER -> Masked(v.fields, step))
         [] OTHER -> v

mask_path(v, path) == Walk(v, path, FALSE)

delete_path(v, path) == Walk(v, path, TRUE)

redact(v, area) ==
    FoldSet(LAMBDA path, w : delete_path(w, path),
            FoldSet(LAMBDA path, w : mask_path(w, path), v,
                    PathsFor(REDACTION_PATHS, area)),
            PathsFor(NORMALIZATION_PATHS, area))

\* Scalar(x) is found in v.
RECURSIVE Shows(_, _)
Shows(v, x) ==
    CASE IsObject(v) -> \E k \in DOMAIN v.fields : Shows(v.fields[k], x)
      [] IsArray(v) -> \E i \in DOMAIN v.items : Shows(v.items[i], x)
      [] OTHER -> v = Scalar(x)

\* v without what its secrets are.
RECURSIVE Blanked(_)
Blanked(v) ==
    CASE IsObject(v) /\ "_redacted" \in DOMAIN v.fields -> Scalar("secret")
      [] IsObject(v) /\ "_redacted" \notin DOMAIN v.fields ->
            Object([k \in DOMAIN v.fields |-> Blanked(v.fields[k])])
      [] IsArray(v) -> Array([i \in DOMAIN v.items |-> Blanked(v.items[i])])
      [] OTHER -> v
=============================================================================
