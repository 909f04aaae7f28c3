----------------------------- MODULE Selectors -----------------------------
(***************************************************************************)
(* How a service call names what it acts on.  A call's data is a function  *)
(* from the selector fields it supplies (not blank) to texts.  A selector  *)
(* is matched against the records of a view: the normalized runtime data   *)
(* of one config entry.                                                    *)
(*                                                                         *)
(*   hosts     set of [mac, name, aliases, label]                          *)
(*   networks  set of [uuid, name, kind]                                   *)
(*   tags      set of [group_id, kind, user_id, name]                      *)
(*   users     set of [user_id, name, affiliated_group_id], of reports     *)
(*   subnets   network uuid -> addresses, or None when it is unknown       *)
(*   static    set of [mac, network, address], the reservations            *)
(*                                                                         *)
(* aliases are the DNS and DHCP names of a host, label is its name in the  *)
(* options form.  A user's record in the tags carries the user's own id    *)
(* and, as group_id, the tag the box stores on the hosts of the user.      *)
(* A resolution answers [found |-> id] or [error |-> the error's kind].    *)
(***************************************************************************)
EXTENDS Naturals, FiniteSets

CONSTANTS
    None,          \* an absent value
    Casefold,      \* texts -> texts: what is left of a text when case is ignored
    MacAddresses  \* host ids of the form of a MAC address: six pairs of digits

Fold(text) == IF text \in DOMAIN Casefold THEN Casefold[text] ELSE text

\* Folding twice is folding once, and no text folds to nothing.
ASSUME CasefoldAssumption ==
    /\ None \notin DOMAIN Casefold
    /\ \A text \in DOMAIN Casefold :
          Casefold[text] # None /\ Fold(Casefold[text]) = Casefold[text]

HostFields == {"host_id", "host_mac", "host_name"}
GroupFields == {"group_id", "group_name"}
UserFields == {"user_id", "user_name"}
NetworkFields == {"network_uuid", "network_name"}

\* SCOPE_IDENTIFIER_FIELDS: fields the box assigned, not typed by a human.
Identifiers == {"host_id", "host_mac", "group_id", "user_id", "network_uuid"}

KindOf(field) ==
    CASE field \in HostFields -> "host"
      [] field \in GroupFields -> "group"
      [] field \in UserFields -> "user"
      [] field \in NetworkFields -> "network"

Found(id) == [found |-> id]
Error(kind) == [error |-> kind]
Resolved(answer) == "found" \in DOMAIN answer

\* The fields a call must and may supply.
Schema(required, optional) == [required |-> required, optional |-> optional]
Fits(data, schema) ==
    /\ schema.required \subseteq DOMAIN data
    /\ DOMAIN data \subseteq schema.required \cup schema.optional

\* Only a MAC can be woken; what goes by another id is a pseudo host.
SupportsWakeOnLan(host) == host \in MacAddresses

Supplied(data, fields) == DOMAIN data \cap fields
ValueOf(data, field) == IF field \in DOMAIN data THEN data[field] ELSE None
TheOnly(S) == CHOOSE x \in S : TRUE

-----------------------------------------------------------------------------
(* utils/selectors.py                                                      *)

\* Exactly one of the fields, or which were supplied.
SelectExclusive(data, fields) ==
    LET given == Supplied(data, fields)
    IN  IF Cardinality(given) = 1
        THEN [field |-> TheOnly(given), value |-> data[TheOnly(given)]]
        ELSE [field |-> None, supplied |-> given]

\* The same rule with the kind of the selected field.
SelectScope(data, fields) ==
    LET selection == SelectExclusive(data, fields)
    IN  IF selection.field = None
        THEN selection
        ELSE [field |-> selection.field, value |-> selection.value,
              kind |-> KindOf(selection.field)]

\* records are pairs of an identifier and the names it goes by.
MatchNames(text, records) ==
    {r.id : r \in {q \in records : \E name \in q.names : Fold(name) = Fold(text)}}

\* The identifier first: a hit on it is decisive.
MatchSelector(text, normalized, records) ==
    IF \E r \in records : r.id = normalized
    THEN {normalized}
    ELSE MatchNames(text, records)

\* What a match means to its caller.
Answer(matches) ==
    CASE Cardinality(matches) = 1 -> Found(TheOnly(matches))
      [] matches = {} -> Error("not_found")
      [] OTHER -> Error("ambiguous")

-----------------------------------------------------------------------------
(* Networks and WANs.                                                      *)

Wans(view) == {n \in view.networks : n.kind = "wan"}
Segments(view) == {n \in view.networks : n.kind \in {"lan", "vlan"}}

\* A uuid is compared as it is, a name is folded and must be unique.
ResolveNetworkIn(networks, uuid, name) ==
    CASE uuid # None /\ name # None -> Error("conflict")
      [] uuid # None /\ name = None ->
            Answer({n.uuid : n \in {m \in networks : m.uuid = uuid}})
      [] uuid = None /\ name # None ->
            Answer({n.uuid : n \in {m \in networks : Fold(m.name) = Fold(name)}})
      [] OTHER -> Found(None)

ResolveRequestedNetwork(view, uuid, name) ==
    ResolveNetworkIn(Segments(view), uuid, name)

ResolveRequestedNetworkRequired(view, uuid, name) ==
    LET answer == ResolveRequestedNetwork(view, uuid, name)
    IN  IF answer = Found(None) THEN Error("required") ELSE answer

\* A required WAN may be left out when there is only one.
ResolveRequestedWan(view, uuid, name, required) ==
    LET answer == ResolveNetworkIn(Wans(view), uuid, name)
    IN  IF answer # Found(None) \/ ~required
        THEN answer
        ELSE IF Cardinality(Wans(view)) = 1
             THEN Found(TheOnly(Wans(view)).uuid)
             ELSE Error("required")

\* The live report takes WANs too, and prefers the uuid to the name.
ResolveLiveNetwork(view, uuid, name) ==
    ResolveNetworkIn(view.networks, uuid, IF uuid = None THEN name ELSE None)

RequireFullNetwork(view, uuid) ==
    Answer({n.uuid : n \in {m \in view.networks : m.uuid = uuid}})

-----------------------------------------------------------------------------
(* Hosts.                                                                  *)

Macs(view) == {h.mac : h \in view.hosts}

HostByMac(view, text) ==
    IF Fold(text) \in Macs(view) THEN Found(Fold(text)) ELSE Error("not_found")

\* A write names its host by MAC, by id, or by any of its names.
ResolveRequestedHost(view, data, required) ==
    LET given == Supplied(data, HostFields)
        named == {[id |-> h.mac, names |-> {h.name, h.label} \cup h.aliases] :
                      h \in view.hosts}
    IN  CASE Cardinality(given) > 1 -> Error("conflict")
          [] given = {"host_mac"} -> HostByMac(view, data.host_mac)
          [] given = {"host_id"} -> HostByMac(view, data.host_id)
          [] given = {"host_name"} -> Answer(MatchNames(data.host_name, named))
          [] OTHER -> IF required THEN Error("required") ELSE Found(None)

-----------------------------------------------------------------------------
(* Scopes of reports and rules.                                            *)

ReportFields == {"host_mac", "host_name"} \cup GroupFields \cup UserFields
RuleFields == ReportFields \cup NetworkFields

\* Exactly one scope, or the error; no runtime data is read.
SelectReportScope(data) ==
    LET selection == SelectScope(data, ReportFields)
    IN  CASE selection.field # None -> selection
          [] selection.field = None /\ selection.supplied # {} -> Error("conflict")
          [] OTHER -> Error("required")

\* A rule may apply to every host, which the caller has to say.
SelectOneScope(data, allHosts) ==
    LET selection == SelectScope(data, RuleFields)
    IN  CASE allHosts /\ selection.field # None -> Error("conflict")
          [] allHosts /\ selection.field = None -> [field |-> "all_hosts"]
          [] ~allHosts /\ selection.field # None -> selection
          [] ~allHosts /\ selection.field = None /\ selection.supplied # {} ->
                Error("conflict")
          [] OTHER -> Error("required")

\* An identifier field tries the identifiers and then, as every selector
\* does, the names.
MatchScopeSelection(selection, records) ==
    LET normalized == IF selection.kind = "host" THEN Fold(selection.value)
                      ELSE selection.value
    IN  IF selection.field \in Identifiers
        THEN MatchSelector(selection.value, normalized, records)
        ELSE MatchNames(selection.value, records)

TagsOf(view, kind) == {t \in view.tags : t.kind = kind}
Users(view) == {t \in TagsOf(view, "user") : t.user_id # None}

HostRecords(view) == {[id |-> h.mac, names |-> {h.name}] : h \in view.hosts}
LabelledHosts(view) == {[id |-> h.mac, names |-> {h.name, h.label}] : h \in view.hosts}
GroupRecords(view) == {[id |-> t.group_id, names |-> {t.name}] : t \in TagsOf(view, "group")}
NetworkRecords(view) == {[id |-> n.uuid, names |-> {n.name}] : n \in view.networks}

\* Users go by their name; where a rule or a flow report is meant, those that have a
\* tag go by the tag too, which an earlier answer may have named.
UserRecords(view) == {[id |-> u.user_id, names |-> {u.name}] : u \in view.users}
TaggedUsers(view) == {[id |-> t.user_id, names |-> {t.name, t.group_id}] : t \in Users(view)}

\* The box addresses a user by the tag.
TagOfUser(view, id) == (CHOOSE t \in Users(view) : id \in {t.user_id, t.group_id}).group_id
TagAsked(view, user) == (CHOOSE t \in Users(view) : t.user_id = user).group_id

Aimed(kind, answer) ==
    IF Resolved(answer) THEN [found |-> answer.found, kind |-> kind] ELSE answer

\* The scope of a rule or of a silence, as the box addresses it.
ResolveScopeIdentity(view, selection) ==
    IF selection.field = "all_hosts"
    THEN [found |-> None, kind |-> "all"]
    ELSE CASE selection.kind = "host" ->
                  Aimed("host", Answer(MatchScopeSelection(selection, HostRecords(view))))
           [] selection.kind = "network" ->
                  Aimed("network", Answer(MatchScopeSelection(selection, NetworkRecords(view))))
           [] selection.kind = "group" ->
                  Aimed("group", Answer(MatchScopeSelection(selection, GroupRecords(view))))
           [] selection.kind = "user" ->
                  LET answer == Answer(MatchScopeSelection(selection, TaggedUsers(view)))
                  IN  IF Resolved(answer)
                      THEN [found |-> TagOfUser(view, answer.found), kind |-> "user"]
                      ELSE answer

\* The lists a rule carries: host addresses, and tags for all the rest.
RuleScope(identity) ==
    CASE identity.kind = "all" -> [hosts |-> {}, tags |-> {}]
      [] identity.kind = "host" -> [hosts |-> {identity.found}, tags |-> {}]
      [] OTHER -> [hosts |-> {}, tags |-> {<<identity.kind, identity.found>>}]

\* Screen time is asked by user id, or by group.
ResolveUsageHistoryTarget(view, selection) ==
    CASE selection.kind = "host" ->
            Aimed("host", Answer(MatchScopeSelection(selection, LabelledHosts(view))))
      [] selection.kind = "user" ->
            Aimed("user", Answer(MatchScopeSelection(selection, UserRecords(view))))
      [] selection.kind = "group" ->
            Aimed("group", Answer(MatchScopeSelection(selection, GroupRecords(view))))

\* Flows are asked by the user's tag, the answer names the user by its id.
ResolveFlowReportTarget(view, selection) ==
    CASE selection.kind = "host" ->
            Aimed("host", Answer(MatchScopeSelection(selection, LabelledHosts(view))))
      [] selection.kind = "group" ->
            Aimed("group", Answer(MatchScopeSelection(selection, GroupRecords(view))))
      [] selection.kind = "user" ->
            LET answer == Answer(MatchScopeSelection(selection, TaggedUsers(view)))
            IN  IF Resolved(answer)
                THEN [found |-> answer.found, kind |-> "user",
                      asked |-> TagAsked(view, answer.found)]
                ELSE answer

-----------------------------------------------------------------------------
(* Memberships.                                                            *)

IdentityAliases(tag) == {tag.group_id, tag.user_id} \ {None}

\* The one group or user a host is to belong to, by its id or else its name.
ResolveMembershipTarget(view, data, clear) ==
    LET given == Supplied(data, GroupFields \cup UserFields)
        kind == IF given \subseteq GroupFields THEN "group" ELSE "user"
        text == data[TheOnly(given)]
        candidates == TagsOf(view, kind)
        exact == {t.group_id : t \in {c \in candidates : text \in IdentityAliases(c)}}
    IN  CASE clear /\ given # {} -> Error("conflict")
          [] clear /\ given = {} -> Found(None)
          [] ~clear /\ Cardinality(given) # 1 -> Error("required")
          [] ~clear /\ given \subseteq {"group_id", "user_id"}
             /\ Cardinality(given) = 1 ->
                IF exact = {} THEN Error("not_found") ELSE Found(TheOnly(exact))
          [] OTHER -> Answer(MatchNames(text,
                {[id |-> t.group_id, names |-> {t.name}] : t \in candidates}))

-----------------------------------------------------------------------------
(* Reservations.                                                           *)

\* Whether an address is in a network: unknown without a subnet.
InSubnet(view, uuid, address) ==
    IF view.subnets[uuid] = None THEN "unknown"
    ELSE IF address \in view.subnets[uuid] THEN "inside" ELSE "outside"

\* The named network, or the only one whose subnet holds the address.
ResolveDhcpReservationNetwork(view, uuid, name, address) ==
    CASE uuid # None \/ name # None -> ResolveRequestedNetworkRequired(view, uuid, name)
      [] uuid = None /\ name = None /\ address = None -> Error("required")
      [] OTHER -> Answer({n.uuid : n \in {m \in Segments(view) :
                              InSubnet(view, m.uuid, address) = "inside"}})

\* The errors of a request to reserve an address: none when it may be written.
DhcpReservationErrors(view, mac, uuid, address) ==
    IF address = None THEN {}
    ELSE (IF InSubnet(view, uuid, address) = "outside" THEN {"out_of_range"} ELSE {})
         \cup
         (IF \E r \in view.static : /\ r.mac # mac
                                    /\ r.network = uuid
                                    /\ r.address = address
          THEN {"in_use"} ELSE {})
=============================================================================
