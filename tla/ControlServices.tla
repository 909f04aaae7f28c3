-------------------------- MODULE ControlServices --------------------------
(***************************************************************************)
(* The services that change the box, as a function of the call's data and  *)
(* of the cached view: a plan, or the error the caller gets.               *)
(*                                                                         *)
(* A change of the box is an effect [do, on, is]: which setting, of which  *)
(* object, gets which value.  A plan lists the effects a service asks for, *)
(* one request each, in order.  A view has the shape of the box, with      *)
(* active alarms only:                                                     *)
(*                                                                         *)
(*   hosts    mac -> settings; ip is a function from networks to addresses *)
(*   rules    id -> [on, owner], the owner being the host it is scoped to  *)
(*   paused   whether the SSID is paused                                   *)
(*   alarms   id -> "active" or "archived"                                 *)
(*   muted    the silences: by alarm, by id or by target                   *)
(***************************************************************************)
EXTENDS Selectors, Sequences, SequencesExt, Functions

CONSTANTS
    Tags,         \* groups and users of the box
    Networks,     \* networks of the box
    Subnets,      \* their subnets
    Ssid,         \* the SSID profile
    AlarmHost,    \* alarms -> the host an alarm is about
    Dynamic,      \* no reserved address
    All,          \* every active alarm
    NewRule       \* the rule the box is about to create

-----------------------------------------------------------------------------
(* The box.                                                                *)

Effect(do, on, is) == [do |-> do, on |-> on, is |-> is]
NoEffect == Effect("nothing", None, None)
HostSettings == {"name", "dns", "type", "online", "offline", "tag"}
Without(f, dead) == Restrict(f, DOMAIN f \ dead)

AlarmsIn(b, status) == {a \in DOMAIN b.alarms : b.alarms[a] = status}

\* The alarms an archive or a delete names: one, the active or the archived.
Named(b, on) ==
    IF on = All THEN AlarmsIn(b, "active")
    ELSE IF on \in {"active", "archived"} THEN AlarmsIn(b, on)
    ELSE {on} \cap DOMAIN b.alarms

\* What the box, or a view, is after one effect.  An object that is not there
\* is left out.
Apply(e, b) ==
    CASE e.do = "rule" /\ e.on \in DOMAIN b.rules -> [b EXCEPT !.rules[e.on].on = e.is]
      [] e.do = "create_rule" ->
            [b EXCEPT !.rules = [r \in DOMAIN @ \cup {e.on} |->
                IF r = e.on THEN [on |-> TRUE, owner |-> e.is] ELSE @[r]]]
      [] e.do = "delete_rule" -> [b EXCEPT !.rules = Without(@, {e.on})]
      [] e.do = "ssid" -> [b EXCEPT !.paused = e.is]
      [] e.do \in HostSettings /\ e.on \in DOMAIN b.hosts ->
            [b EXCEPT !.hosts[e.on][e.do] = e.is]
      [] e.do = "ip" /\ e.on \in DOMAIN b.hosts ->
            [b EXCEPT !.hosts[e.on].ip[e.is[1]] = e.is[2]]
      [] e.do = "delete_host" -> [b EXCEPT !.hosts = Without(@, {e.on})]
      [] e.do = "archive" ->
            [b EXCEPT !.alarms = [a \in DOMAIN @ |->
                IF a \in Named(b, e.on) THEN "archived" ELSE @[a]]]
      [] e.do = "delete_alarm" -> [b EXCEPT !.alarms = Without(@, Named(b, e.on))]
      [] e.do = "mute" -> [b EXCEPT !.muted = @ \cup {e.on}]
      [] e.do = "unmute" -> [b EXCEPT !.muted = @ \ {e.on}]
      [] OTHER -> b

InEffect(e, b) == Apply(e, b) = b

\* A poll lists the active alarms only.
ViewOf(b) == [b EXCEPT !.alarms = Restrict(@, AlarmsIn(b, "active"))]

\* Faulty variant: a reservation waits for the next poll.
PublishedNoReservation(e) ==
    e.do \notin {"tag", "mute", "unmute", "wake", "speed_test", "find_alarm", "ip"}

\* Which effects the managers publish to the cached view before they return.
Published(e) == e.do \notin {"tag", "mute", "unmute", "wake", "speed_test", "find_alarm"}

\* Faulty variant: an alarm that is archived stays listed.
PatchedKeepsArchived(e, v) == IF Published(e) THEN Apply(e, v) ELSE v

Patched(e, v) == IF Published(e) THEN ViewOf(Apply(e, v)) ELSE v

-----------------------------------------------------------------------------
(* Schemas: the data a service takes besides the entry it is for.          *)

HostTarget == HostFields \cup {"refresh"}

PauseRuleSchema == Schema({"rule_id"}, {"duration", "resume_at"})
ResumeRuleSchema == Schema({"rule_id"}, {})
SetSsidPausedSchema == Schema({"ssid_profile_id", "enabled"}, {})
SetHostNameSchema == Schema({"new_name"}, HostTarget)
SetHostDnsHostnameSchema == Schema({"dns_hostname"}, HostTarget)
SetHostDeviceTypeSchema == Schema({"host_device_type"}, HostTarget)
SetHostDhcpReservationSchema ==
    Schema({"mode"}, HostTarget \cup NetworkFields \cup {"reserved_ipv4"})
SetHostMembershipSchema ==
    Schema({}, HostTarget \cup GroupFields \cup UserFields \cup {"clear"})
SetHostNotifySchema == Schema({"enabled"}, HostTarget)
WakeHostSchema == Schema({}, HostTarget)
DeleteHostSchema == Schema({"host_mac", "confirm"}, {"refresh"})
RunInternetSpeedTestSchema == Schema({}, {"wan_uuid", "wan_name"})
CreateRuleSchema ==
    Schema({}, RuleFields \cup {"alarm_id", "target_type", "target_value", "all_hosts"})
DeleteRuleSchema == Schema({"rule_id", "confirm"}, {})
ArchiveAlarmsSchema == Schema({}, {"alarm_id", "alarm_status"})
DeleteAlarmsSchema == Schema({"confirm"}, {"alarm_id", "alarm_status"})
MuteAlarmSchema ==
    Schema({"alarm_target_type", "duration"},
           RuleFields \cup {"alarm_id", "alarm_target_value", "all_hosts"})
UnmuteAlarmSchema == Schema({}, {"alarm_id", "exception_id"})

SchemaOf(service) ==
    CASE service = "pause_rule" -> PauseRuleSchema
      [] service = "resume_rule" -> ResumeRuleSchema
      [] service = "set_ssid_paused" -> SetSsidPausedSchema
      [] service = "set_host_name" -> SetHostNameSchema
      [] service = "set_host_dns_hostname" -> SetHostDnsHostnameSchema
      [] service = "set_host_device_type" -> SetHostDeviceTypeSchema
      [] service = "set_host_dhcp_reservation" -> SetHostDhcpReservationSchema
      [] service = "set_host_membership" -> SetHostMembershipSchema
      [] service \in {"set_host_notify_when_next_online",
                      "set_host_notify_when_next_offline"} -> SetHostNotifySchema
      [] service = "wake_host" -> WakeHostSchema
      [] service = "delete_host" -> DeleteHostSchema
      [] service = "run_internet_speed_test" -> RunInternetSpeedTestSchema
      [] service = "create_rule" -> CreateRuleSchema
      [] service = "delete_rule" -> DeleteRuleSchema
      [] service = "archive_alarms" -> ArchiveAlarmsSchema
      [] service = "delete_alarms" -> DeleteAlarmsSchema
      [] service = "mute_alarm" -> MuteAlarmSchema
      [] service = "unmute_alarm" -> UnmuteAlarmSchema

\* SupportsResponse.NONE: the rest of these services only answer with a response.
Silent ==
    {"pause_rule", "resume_rule", "set_ssid_paused", "archive_alarms",
     "delete_alarms", "mute_alarm", "unmute_alarm", "delete_rule"}

\* Home Assistant refuses a call that wants a response where there is none, or
\* wants none where there only is one, and data the schema does not take.
Taken(service, data, response) ==
    /\ response = (service \notin Silent)
    /\ Fits(data, SchemaOf(service))

-----------------------------------------------------------------------------
(* The handlers.                                                           *)

Plan(ops, target, reported) == [ops |-> ops, target |-> target, reported |-> reported]
IsPlan(plan) == "ops" \in DOMAIN plan

\* Services that poll, or mean to, before they look at the view.
RefreshFirst(service) ==
    service \in {"pause_rule", "resume_rule", "set_ssid_paused", "run_internet_speed_test"}

\* What the selectors see of a view.
Segment(n) == n.kind \in {"lan", "vlan"}
Reserved(v) ==
    {r \in [mac : DOMAIN v.hosts, network : {n.uuid : n \in {m \in Networks : Segment(m)}},
            address : UNION {Range(v.hosts[h].ip) : h \in DOMAIN v.hosts} \ {Dynamic}] :
        v.hosts[r.mac].ip[r.network] = r.address}

SelectorView(v) ==
    [hosts |-> {[mac |-> h, name |-> v.hosts[h].name, label |-> v.hosts[h].name,
                 aliases |-> {v.hosts[h].dns}] : h \in DOMAIN v.hosts},
     networks |-> Networks, tags |-> Tags, subnets |-> Subnets, static |-> Reserved(v)]

\* A duration is text that says how long, and longer than nothing.
IsDuration(text) == text \notin {"nonsense", "0s"}

\* A timed pause needs one time, in the future.
HandlePauseRule(d, v) ==
    CASE d.rule_id \notin DOMAIN v.rules -> Error("rule_not_found")
      [] d.rule_id \in DOMAIN v.rules /\ {"duration", "resume_at"} \subseteq DOMAIN d ->
            Error("timing_conflict")
      [] d.rule_id \in DOMAIN v.rules /\ "resume_at" \notin DOMAIN d
         /\ "duration" \in DOMAIN d /\ ~IsDuration(d.duration) -> Error("invalid_duration")
      [] d.rule_id \in DOMAIN v.rules /\ "duration" \notin DOMAIN d
         /\ ValueOf(d, "resume_at") = "past" -> Error("resume_at_in_past")
      [] OTHER -> Plan(<<Effect("rule", d.rule_id, FALSE)>>, None, None)

HandleResumeRule(d, v) ==
    IF d.rule_id \in DOMAIN v.rules
    THEN Plan(<<Effect("rule", d.rule_id, TRUE)>>, None, None)
    ELSE Error("rule_not_found")

\* "true to enable (unpause)"
HandleSetSsidPaused(d) ==
    IF d.ssid_profile_id = Ssid
    THEN Plan(<<Effect("ssid", Ssid, ~d.enabled)>>, None, None)
    ELSE Error("ssid_profile_not_found")

\* The services of one host resolve it first; ops[h] is what they ask of it.
HostCommand(d, v, ops) ==
    LET answer == ResolveRequestedHost(SelectorView(v), d, TRUE)
    IN  IF Resolved(answer) THEN ops[answer.found]
        ELSE IF answer = Error("not_found") THEN Error("host_not_found") ELSE answer

HandleHostStringMutation(d, v, setting, field) ==
    LET Write[h \in DOMAIN v.hosts] == Plan(<<Effect(setting, h, d[field])>>, h, None)
    IN  HostCommand(d, v, Write)

HandleSetHostName(d, v) == HandleHostStringMutation(d, v, "name", "new_name")
HandleSetHostDnsHostname(d, v) == HandleHostStringMutation(d, v, "dns", "dns_hostname")
HandleSetHostDeviceType(d, v) == HandleHostStringMutation(d, v, "type", "host_device_type")

\* devicePresence and deviceOffline.
HandleSetHostNotification(d, v, setting) ==
    LET Write[h \in DOMAIN v.hosts] == Plan(<<Effect(setting, h, d.enabled)>>, h, None)
    IN  HostCommand(d, v, Write)

\* An address exactly when the mode is static; the network named or found by
\* the address; the address in its subnet and reserved for no other host.
HandleSetHostDhcpReservation(d, v) ==
    LET address == ValueOf(d, "reserved_ipv4")
        network == ResolveDhcpReservationNetwork(SelectorView(v),
                       ValueOf(d, "network_uuid"), ValueOf(d, "network_name"), address)
        stored == IF address = None THEN Dynamic ELSE address
        Reserve[h \in DOMAIN v.hosts] ==
            CASE (d.mode = "static") # (address # None) -> Error("ipv4_and_mode")
              [] (d.mode = "static") = (address # None) /\ ~Resolved(network) ->
                    Error("network")
              [] (d.mode = "static") = (address # None) /\ Resolved(network)
                 /\ DhcpReservationErrors(SelectorView(v), h, network.found, address) # {} ->
                    Error("ipv4_refused")
              [] OTHER -> Plan(<<Effect("ip", h, <<network.found, stored>>)>>, h,
                               <<network.found, stored>>)
    IN  HostCommand(d, v, Reserve)

\* A rule is the host's own when it targets the host or is scoped to it.
FindDeviceRuleIds(v, h) == {r \in DOMAIN v.rules : v.rules[r].owner = h}

\* Faulty variant: the tags are written first.
HandleSetHostMembershipTagsFirst(d, v) ==
    LET tag == ResolveMembershipTarget(SelectorView(v), d, ValueOf(d, "clear") = TRUE)
        Delete(r) == Effect("delete_rule", r, None)
        Move[h \in DOMAIN v.hosts] ==
            IF Resolved(tag)
            THEN Plan(<<Effect("tag", h, tag.found)>>
                          \o SetToSeq({Delete(r) : r \in FindDeviceRuleIds(v, h)}), h, tag.found)
            ELSE Error("membership")
    IN  HostCommand(d, v, Move)

\* The host's own rules are deleted one by one before its tags are written.
HandleSetHostMembership(d, v) ==
    LET tag == ResolveMembershipTarget(SelectorView(v), d, ValueOf(d, "clear") = TRUE)
        Delete(r) == Effect("delete_rule", r, None)
        Move[h \in DOMAIN v.hosts] ==
            IF Resolved(tag)
            THEN Plan(SetToSeq({Delete(r) : r \in FindDeviceRuleIds(v, h)})
                          \o <<Effect("tag", h, tag.found)>>, h, tag.found)
            ELSE Error("membership")
    IN  HostCommand(d, v, Move)

HandleWakeHost(d, v) ==
    LET Wake[h \in DOMAIN v.hosts] ==
            IF SupportsWakeOnLan(h) THEN Plan(<<Effect("wake", h, None)>>, h, None)
            ELSE Error("wake_not_supported")
    IN  HostCommand(d, v, Wake)

\* A host the view does not list is skipped, and the service succeeds.  The tool
\* names one host; a call that names several is DeleteHosts of HostInventory.
HandleDeleteHost(d, v) ==
    CASE ~d.confirm -> Error("confirm_required")
      [] d.confirm /\ Fold(d.host_mac) \in DOMAIN v.hosts ->
            Plan(<<Effect("delete_host", Fold(d.host_mac), None)>>, Fold(d.host_mac), None)
      [] OTHER -> Plan(<<>>, None, "skipped")

HandleRunInternetSpeedTest(d, v) ==
    LET wan == ResolveRequestedWan(SelectorView(v), ValueOf(d, "wan_uuid"),
                                   ValueOf(d, "wan_name"), TRUE)
    IN  IF Resolved(wan) THEN Plan(<<Effect("speed_test", wan.found, None)>>, None, None)
        ELSE wan

ScopeOf(d, v) ==
    LET selection == SelectOneScope(d, ValueOf(d, "all_hosts") = TRUE)
    IN  IF "error" \in DOMAIN selection THEN selection
        ELSE ResolveScopeIdentity(SelectorView(v), selection)

\* A rule for an alarm is scoped to the alarm's host, any other to the scope
\* the caller names.
HandleCreateRule(d, v) ==
    LET Create(owner) == Plan(<<Effect("create_rule", NewRule, owner)>>, None, None)
        scope == ScopeOf(d, v)
    IN  IF "alarm_id" \in DOMAIN d
        THEN IF d.alarm_id \in AlarmsIn(v, "active")
             THEN Create(AlarmHost[d.alarm_id]) ELSE Error("alarm_not_found")
        ELSE CASE ~Resolved(scope) -> scope
               [] Resolved(scope) /\ ~({"target_type", "target_value"} \subseteq DOMAIN d) ->
                     Error("selector_required")
               [] OTHER -> Create(IF scope.kind = "host" THEN scope.found ELSE None)

\* Faulty variant: a rule the index does not hold counts as deleted.
HandleDeleteRuleQuiet(d, v) ==
    CASE ~d.confirm -> Error("confirm_required")
      [] d.confirm /\ d.rule_id \in DOMAIN v.rules ->
            Plan(<<Effect("delete_rule", d.rule_id, None)>>, None, None)
      [] OTHER -> Plan(<<>>, None, None)

\* Only a rule the index holds is deleted.
HandleDeleteRule(d, v) ==
    CASE ~d.confirm -> Error("confirm_required")
      [] d.confirm /\ d.rule_id \in DOMAIN v.rules ->
            Plan(<<Effect("delete_rule", d.rule_id, None)>>, None, None)
      [] OTHER -> Error("rule_not_found")

\* One alarm, or all of one status.
SelectAlarmSet(d) == SelectExclusive(d, {"alarm_id", "alarm_status"})
AlarmSetError(set) == Error(IF set.supplied = {} THEN "required" ELSE "conflict")

HandleArchiveAlarms(d) ==
    LET set == SelectAlarmSet(d)
    IN  IF set.field = None THEN AlarmSetError(set)
        ELSE Plan(<<Effect("archive", IF set.field = "alarm_id" THEN set.value ELSE All, None)>>,
                  None, None)

HandleDeleteAlarms(d) ==
    LET set == SelectAlarmSet(d)
    IN  CASE ~d.confirm -> Error("confirm_required")
          [] d.confirm /\ set.field = None -> AlarmSetError(set)
          [] OTHER -> Plan(<<Effect("delete_alarm", set.value, None)>>, None, None)

\* What a silence is kept under: the alarm it was made for, its own id, or its target.
SilenceOf(d) ==
    IF "alarm_id" \in DOMAIN d THEN d.alarm_id
    ELSE IF "exception_id" \in DOMAIN d THEN d.exception_id
    ELSE ValueOf(d, "alarm_target_value")

\* A silence is for an alarm, or for a target that is named without one.  An alarm
\* that is not cached is looked up among the archived ones first.
HandleMuteAlarm(d, v) ==
    LET scope == ScopeOf(d, v)
        alarm == ValueOf(d, "alarm_id")
        mute == Effect("mute", SilenceOf(d), TRUE)
    IN  CASE ~Resolved(scope) -> scope
          [] Resolved(scope) /\ SilenceOf(d) = None -> Error("selector_required")
          [] Resolved(scope) /\ SilenceOf(d) # None
             /\ alarm \in AlarmsIn(v, "active") \cup {None} -> Plan(<<mute>>, None, None)
          [] OTHER -> Plan(<<Effect("find_alarm", alarm, None), mute>>, None, None)

HandleUnmuteAlarm(d) ==
    IF Cardinality(Supplied(d, {"alarm_id", "exception_id"})) # 1
    THEN Error("selector_required")
    ELSE Plan(<<Effect("unmute", SilenceOf(d), FALSE)>>, None, None)

Handle(service, d, v) ==
    CASE service = "pause_rule" -> HandlePauseRule(d, v)
      [] service = "resume_rule" -> HandleResumeRule(d, v)
      [] service = "set_ssid_paused" -> HandleSetSsidPaused(d)
      [] service = "set_host_name" -> HandleSetHostName(d, v)
      [] service = "set_host_dns_hostname" -> HandleSetHostDnsHostname(d, v)
      [] service = "set_host_device_type" -> HandleSetHostDeviceType(d, v)
      [] service = "set_host_dhcp_reservation" -> HandleSetHostDhcpReservation(d, v)
      [] service = "set_host_membership" -> HandleSetHostMembership(d, v)
      [] service = "set_host_notify_when_next_online" ->
            HandleSetHostNotification(d, v, "online")
      [] service = "set_host_notify_when_next_offline" ->
            HandleSetHostNotification(d, v, "offline")
      [] service = "wake_host" -> HandleWakeHost(d, v)
      [] service = "delete_host" -> HandleDeleteHost(d, v)
      [] service = "run_internet_speed_test" -> HandleRunInternetSpeedTest(d, v)
      [] service = "create_rule" -> HandleCreateRule(d, v)
      [] service = "delete_rule" -> HandleDeleteRule(d, v)
      [] service = "archive_alarms" -> HandleArchiveAlarms(d)
      [] service = "delete_alarms" -> HandleDeleteAlarms(d)
      [] service = "mute_alarm" -> HandleMuteAlarm(d, v)
      [] service = "unmute_alarm" -> HandleUnmuteAlarm(d)
=============================================================================
