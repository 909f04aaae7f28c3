------------------------------- MODULE Inventory -------------------------------
(***************************************************************************)
(* What the client makes of the payload of a poll: the view the services   *)
(* answer from.  A payload is                                              *)
(*   hosts       raw hosts [prefix, id, names, dns, dhcp, bonjour, ip,     *)
(*               intf, tags, users, active, stale]; the address is the id, *)
(*               with the prefix when the host is a VPN peer               *)
(*   peers       raw VPN peers [prefix, id, name, ip, intf, tags, active]  *)
(*   domains     network uuid -> search domain                             *)
(*   interfaces  the registry [category, interface, uuid, name, type,      *)
(*               members]                                                  *)
(*   profiles    [uuid, names]          statuses   [uuid, name], of WANs   *)
(*   tags, deviceTags, userTags   id -> [name, ...]                        *)
(*   rules       [pid, action, target, type, disabled, purpose, aid, tag,  *)
(*               marks], tag holds pairs <<prefix, id>>                    *)
(*   alarms, archived   [aid, type, ts]                                    *)
(*   tests       [uuid, at, success]    buckets    [uuid, at, stat]        *)
(*   wireless    what the access points are set to                         *)
(* A field the box left out or left blank is None.                         *)
(***************************************************************************)
EXTENDS Selectors, Sequences

Ext == INSTANCE SequencesExt

\* The first candidate that is there.
FirstOf(candidates) ==
    LET present == {i \in DOMAIN candidates : candidates[i] # None}
    IN  IF present = {} THEN None
        ELSE candidates[CHOOSE i \in present : \A j \in present : i <= j]

At(lookup, key) == IF key \in DOMAIN lookup THEN lookup[key] ELSE None

\* Several names are one text that is none of them.
Joined(names) == IF Cardinality(names) = 1 THEN TheOnly(names) ELSE names

-----------------------------------------------------------------------------
(* Networks.                                                               *)

NetworkKind(category) ==
    CASE category \in {"phy", "wlan"} -> "wan"
      [] category \in {"bond", "bridge"} -> "lan"
      [] category = "vlan" -> "vlan"
      [] category \in {"wireguard", "amneziawg", "openvpn"} -> "vpn"

\* A port without an identity is no network, and a WAN must say that it is one.
NetworkInterfaceEntries(data) ==
    {[uuid |-> i.uuid, name |-> FirstOf(<<i.name, i.interface>>),
      kind |-> NetworkKind(i.category), interface |-> i.interface] :
        i \in {j \in data.interfaces :
                  /\ j.uuid # None
                  /\ NetworkKind(j.category) = "wan" => j.type = "wan"}}

BridgeMemberInterfaceNames(data) ==
    UNION {i.members : i \in {j \in data.interfaces : j.category = "bridge"}}

\* The VLAN of a bridge carries the bridge; it is no network of its own.
Registry(data) ==
    {n \in NetworkInterfaceEntries(data) :
        n.kind = "vlan" => n.interface \notin BridgeMemberInterfaceNames(data)}

WithUuid(networks, uuid) == {n \in networks : n.uuid = uuid}
Unnamed(networks, uuid) == \A n \in WithUuid(networks, uuid) : n.name = uuid

Replace(networks, named) ==
    {n \in networks : WithUuid(named, n.uuid) = {}} \cup named

\* A profile names what the registry left out, which is a LAN then.
WithProfiles(networks, data) ==
    LET Name(p) == FirstOf(p.names)
        Kind(p) == LET known == WithUuid(networks, p.uuid)
                   IN  IF known = {} THEN "lan" ELSE TheOnly(known).kind
    IN  Replace(networks,
            {[uuid |-> p.uuid, name |-> Name(p), kind |-> Kind(p), interface |-> None] :
                p \in {q \in data.profiles :
                          Unnamed(networks, q.uuid) /\ Name(q) \notin {None, q.uuid}}})

\* Then the monitor names the WANs that are still missing.
WithWanStatus(networks, data) ==
    Replace(networks,
        {[uuid |-> s.uuid, name |-> FirstOf(<<s.name, s.uuid>>), kind |-> "wan",
          interface |-> None] :
            s \in {r \in data.statuses : Unnamed(networks, r.uuid)}})

BuildNetworkInventory(data) ==
    WithWanStatus(WithProfiles(Registry(data), data), data)

NetworkLookup(data) ==
    LET networks == BuildNetworkInventory(data)
        keys == {n.uuid : n \in networks} \cup ({n.interface : n \in networks} \ {None})
    IN  [key \in keys |-> TheOnly({n.name : n \in {m \in networks :
                                              key \in {m.uuid, m.interface}}})]

-----------------------------------------------------------------------------
(* Users and groups: the box knows both as tags of hosts.                  *)

NamedLookup(collection) ==
    [id \in {i \in DOMAIN collection : collection[i].name # None} |-> collection[id].name]

\* Tag -> the users it belongs to, by name.
AffiliatedUserLookup(data) ==
    LET users == {u \in {data.userTags[id] : id \in DOMAIN data.userTags} :
                    u.affiliated # None /\ u.name # None}
    IN  [tag \in {u.affiliated : u \in users} |->
            {u.name : u \in {w \in users : w.affiliated = tag}}]

NormalizeUserInventory(data) ==
    LET Normalized(id, u) ==
            LET user == FirstOf(<<u.uid, id>>)
            IN  [user_id |-> user, name |-> FirstOf(<<u.name, user>>),
                 affiliated_group_id |-> u.affiliated]
    IN  {Normalized(id, data.userTags[id]) :
            id \in {i \in DOMAIN data.userTags : data.userTags[i].type \in {None, "user"}}}

\* A tag a user names is the user's and goes by the user's name, not its own.
NormalizeGroupInventory(data) ==
    LET users == NormalizeUserInventory(data)
        named == NamedLookup(data.tags)
        UsersOf(tag) == {u \in users : u.affiliated_group_id = tag}
        Group(tag) ==
            IF UsersOf(tag) = {}
            THEN [group_id |-> tag, kind |-> "group", user_id |-> None, name |-> named[tag]]
            ELSE LET user == TheOnly(UsersOf(tag))
                 IN  [group_id |-> tag, kind |-> "user", user_id |-> user.user_id,
                      name |-> user.name]
    IN  {Group(tag) : tag \in DOMAIN named}

-----------------------------------------------------------------------------
(* Hosts.                                                                  *)

ResolvedAddress(raw) == IF raw.prefix = None THEN raw.id ELSE <<raw.prefix, raw.id>>

\* What the host list shows as its group, and of which kind that is.  A user's tag
\* is looked up among the users first.
ResolveHostMembership(tags, data) ==
    LET affiliated == AffiliatedUserLookup(data)
        named == NamedLookup(data.tags)
        users == tags \cap DOMAIN affiliated
        groups == (tags \ users) \cap DOMAIN named
        labels == {Joined(affiliated[t]) : t \in users} \cup {named[t] : t \in groups}
    IN  [label |-> IF labels = {} THEN None ELSE Joined(labels),
         kind |-> CASE users # {} /\ groups = {} -> "user"
                    [] users = {} /\ groups # {} -> "group"
                    [] OTHER -> None]

\* names are the user's name and the backup name; the user's own DNS name is the
\* first of dns.
ResolveHostIdentity(raw, data) ==
    LET dns == FirstOf(raw.dns \o <<raw.names[1]>>)
        domain == At(data.domains, raw.intf)
        fqdn == IF dns # None /\ domain # None THEN <<dns, domain>> ELSE dns
    IN  [name |-> FirstOf(raw.names \o <<raw.dhcp, raw.bonjour, fqdn, raw.ip,
                                         ResolvedAddress(raw)>>),
         aliases |-> {dns, fqdn, raw.dhcp} \ {None}]

\* The options form tells hosts apart by their IP address.
FormatHostChoiceLabel(name, ip) == IF ip \in {None, name} THEN name ELSE <<name, ip>>

HostRuntime(raw, name, aliases, stale, users, data) ==
    LET address == ResolvedAddress(raw)
        membership == ResolveHostMembership(raw.tags, data)
    IN  [mac |-> address, name |-> name, label |-> FormatHostChoiceLabel(name, raw.ip),
         aliases |-> aliases, network |-> raw.intf, active |-> raw.active,
         stale |-> stale, group |-> membership.label, membership |-> membership.kind,
         tags |-> raw.tags, users |-> users, peer |-> raw.prefix # None]

NormalizeVpnPeer(raw, data) ==
    HostRuntime(raw, FirstOf(<<raw.name, raw.ip, ResolvedAddress(raw)>>), {}, None, {}, data)

NormalizeHost(raw, data) ==
    LET identity == ResolveHostIdentity(raw, data)
    IN  HostRuntime(raw, identity.name, identity.aliases, raw.stale, raw.users, data)

\* Peers come from their own list, unless the host list has peers of that kind.
NormalizeHostInventory(data) ==
    LET hosts == {raw \in data.hosts : raw.id # None}
        listed == {raw.prefix : raw \in hosts}
        peers == {raw \in data.peers : raw.id # None /\ raw.prefix \notin listed}
    IN  {NormalizeHost(raw, data) : raw \in hosts}
        \cup {NormalizeVpnPeer(raw, data) : raw \in peers}

-----------------------------------------------------------------------------
(* Rules.                                                                  *)

\* The name a reference goes by, or None.
ResolveTagReferenceName(ref, data) ==
    LET tag == ref[2]
        affiliated == AffiliatedUserLookup(data)
    IN  CASE ref[1] = "tag" ->
                IF tag \in DOMAIN affiliated THEN Joined(affiliated[tag])
                ELSE At(NamedLookup(data.tags), tag)
          [] ref[1] = "dtag" -> At(NamedLookup(data.deviceTags), tag)
          [] ref[1] \in {"utag", "userTag"} -> At(NamedLookup(data.userTags), tag)
          [] ref[1] = "intf" -> At(NetworkLookup(data), tag)
          [] OTHER -> None

ResolveRuleApplicability(raw, data) ==
    {ResolveTagReferenceName(ref, data) : ref \in raw.tag} \ {None}

\* What shows that the box made a rule itself.
SystemManagedReasons(raw) ==
    raw.marks \cap {"method_auto", "alarm_type", "blockby", "alarm_intel", "intel",
                    "automatically_created"}

\* A number or a truth value counts as its text.
RuleEnabled(disabled) == disabled \notin {"1", "true", "True"}

NormalizePolicyRules(data) ==
    {[id |-> r.pid, on |-> RuleEnabled(r.disabled), action |-> r.action, type |-> r.type,
      alarm |-> r.aid, applies |-> ResolveRuleApplicability(r, data),
      purpose |-> r.purpose, system |-> SystemManagedReasons(r) # {}] :
        r \in {s \in data.rules : None \notin {s.pid, s.action, s.target, s.type}}}

-----------------------------------------------------------------------------
(* Alarms and measurements.                                                *)

\* An alarm that does not say when it fired counts as the oldest.
NormalizeAlarms(alarms) ==
    {[id |-> a.aid, type |-> a.type, at |-> IF a.ts = None THEN 0 ELSE a.ts] :
        a \in {b \in alarms : b.aid # None}}

\* The WANs of the measurements, newest first.
NewestFirst(measurements) ==
    LET sorted == Ext!SetToSortSeq(measurements, LAMBDA a, b : a.at > b.at)
    IN  [i \in DOMAIN sorted |-> sorted[i].uuid]

BuildSpeedTests(data) ==
    NewestFirst({t \in data.tests : t.at # None /\ t.success # None})

BuildInternetQualitySamples(data) ==
    NewestFirst({b \in data.buckets : b.at # None /\ b.stat})

-----------------------------------------------------------------------------
BuildRuntimeSnapshot(data) ==
    [hosts |-> NormalizeHostInventory(data),
     networks |-> BuildNetworkInventory(data),
     users |-> NormalizeUserInventory(data),
     tags |-> NormalizeGroupInventory(data),
     rules |-> NormalizePolicyRules(data),
     alarms |-> NormalizeAlarms(data.alarms),
     archived |-> NormalizeAlarms(data.archived),
     tests |-> BuildSpeedTests(data),
     samples |-> BuildInternetQualitySamples(data),
     wireless |-> data.wireless]

-----------------------------------------------------------------------------
(* What the box keeps to.                                                  *)

\* An address is one host's; a VPN peer may be in both lists, and the prefix keeps
\* its address from being taken for a MAC.
OwnAddresses(data) ==
    LET Clash(r, s) == None \notin {r.id, s.id} /\ ResolvedAddress(r) = ResolvedAddress(s)
    IN  /\ \A r, s \in data.hosts : Clash(r, s) => r = s
        /\ \A r, s \in data.peers : Clash(r, s) => r = s
        /\ \A r \in data.hosts, s \in data.peers : Clash(r, s) => r.prefix = s.prefix
        /\ \A r \in data.hosts \cup data.peers :
              r.prefix # None => ResolvedAddress(r) \notin MacAddresses

\* So is the id of a rule, and the uuid of a network in each place that has it.
OwnIds(data) ==
    /\ \A r, s \in data.rules : r.pid = s.pid /\ r.pid # None => r = s
    /\ \A i, j \in data.interfaces : i.uuid = j.uuid /\ i.uuid # None => i = j
    /\ \A p, q \in data.profiles : p.uuid = q.uuid => p = q
    /\ \A s, t \in data.statuses : s.uuid = t.uuid => s = t

\* A user has a name and a tag of its own, which is among the tags, or none.
OwnTags(data) ==
    LET users == data.userTags IN
    /\ None \notin DOMAIN data.tags
    /\ \A id \in DOMAIN users :
          users[id].affiliated # None =>
              /\ users[id].type \in {None, "user"} /\ users[id].name # None
              /\ users[id].affiliated \in DOMAIN NamedLookup(data.tags)
    /\ \A i, j \in DOMAIN users :
          \/ FirstOf(<<users[i].uid, i>>) = FirstOf(<<users[j].uid, j>>)
          \/ users[i].affiliated = users[j].affiliated /\ users[i].affiliated # None
          => i = j

\* Hosts name their network by its uuid; only a VPN's peers name its interface.
OwnNetworks(data) ==
    \A raw \in data.hosts \cup data.peers, i \in data.interfaces :
        raw.intf = i.interface /\ raw.intf # None => NetworkKind(i.category) = "vpn"

Regular(data) ==
    /\ IsFiniteSet(data.hosts) /\ IsFiniteSet(data.peers) /\ IsFiniteSet(data.rules)
    /\ OwnAddresses(data) /\ OwnIds(data) /\ OwnTags(data) /\ OwnNetworks(data)
===============================================================================
