--------------------------- MODULE ReportServices ---------------------------
(***************************************************************************)
(* The services that answer questions, and the tools that offer them to a  *)
(* language model.  For each: the fields it takes, the target it resolves  *)
(* in the cached view, the reads it asks the box for, the sections its     *)
(* answer carries, and what it answers from the view alone.                *)
(*                                                                         *)
(* A view is a view of Selectors with more of it:                          *)
(*   hosts     [mac, name, label, aliases, network, active, stale, group,  *)
(*             tags, users, peer]: active is when it was last seen active, *)
(*             stale what the box says of it, users those it names itself, *)
(*             peer when its id has the prefix of a VPN peer               *)
(*   networks  [uuid, name, kind, interface]                               *)
(*   rules     [id, on, action, type, alarm, applies, purpose, system]     *)
(*   alarms, archived   [id, type, at], at is when it fired                *)
(*   tests, samples   sequences of WAN uuids, newest first                 *)
(*   wireless  what the access points are set to                           *)
(***************************************************************************)
EXTENDS Selectors, Sequences

CONSTANTS
    Substrings,      \* pairs <<part, whole>> of folded texts
    HiddenPurposes,  \* purposes of rules a product feature owns
    OnlineWindow,    \* seconds a host may be quiet and counts as connected
    MinSample,       \* LIVE_SAMPLE_SECONDS_MIN
    MaxSample        \* LIVE_SAMPLE_SECONDS_MAX

ASSUME WindowAssumption == OnlineWindow \in Nat

ASSUME SampleAssumption ==
    /\ MinSample \in Nat /\ MaxSample \in Nat /\ 2 <= MinSample
    /\ {6, 10} \subseteq MinSample..MaxSample
    /\ MaxSample % 2 = 0

-----------------------------------------------------------------------------
(* Fields.                                                                 *)

WanFields == {"wan_uuid", "wan_name"}

\* What each tool takes.
GetSystemOverviewTool == {"include"}
ListHostsTool == {"detail", "host_name", "host_mac", "group_name", "kind", "network_uuid",
                  "online", "user", "refresh"}
ListRulesTool == {"enabled", "action", "target_type", "applies_to", "alarm_id",
                  "include_purpose", "include_system_managed"}
GetNetworkConfigTool == NetworkFields \cup {"include", "refresh"}
GetNetworkUsageTool == NetworkFields \cup {"window", "top_n", "include", "refresh"}
GetWanUsageTool == WanFields \cup {"include", "current_periods", "history_period",
                                   "history_count", "refresh"}
GetWanEventsTool == WanFields \cup {"limit", "offset", "window_days", "include_dns"}
GetUserUsageTool == ReportFields \cup {"begin", "end", "granularity", "sections",
                                       "include", "detail", "app_ids"}
GetFlowReportTool == ReportFields \cup {"window_hours", "detail", "record_count",
                                        "refresh", "include"}
GetInternetQualityTool == WanFields \cup {"limit", "refresh"}
GetSpeedTestsTool == WanFields \cup {"limit", "refresh"}
GetLiveThroughputTool == NetworkFields \cup {"host_mac", "host_name", "top_n",
                                             "sample_seconds"}
GetWirelessStatusTool == {"refresh"}
GetAlarmsTool == {"limit", "include_archived", "alarm_type", "detail",
                  "include_exceptions", "refresh"}
SyncRuntimeTool == {}

\* The read tools, under the names of the services they call.
ToolFields ==
    [get_system_overview |-> GetSystemOverviewTool,
     get_hosts |-> ListHostsTool,
     get_rules |-> ListRulesTool,
     get_network_config |-> GetNetworkConfigTool,
     get_network_usage |-> GetNetworkUsageTool,
     get_wan_usage |-> GetWanUsageTool,
     get_wan_events |-> GetWanEventsTool,
     get_time_usage |-> GetUserUsageTool,
     get_flow_report |-> GetFlowReportTool,
     get_internet_quality |-> GetInternetQualityTool,
     get_speed_tests |-> GetSpeedTestsTool,
     get_live_throughput |-> GetLiveThroughputTool,
     get_wireless_status |-> GetWirelessStatusTool,
     get_alarms |-> GetAlarmsTool,
     sync_runtime |-> SyncRuntimeTool]

\* A service takes what its tool takes, and here and there a field more.
ServiceOnly(service) ==
    CASE service = "get_flow_report" -> {"fetch_all_records"}
      [] service = "get_wan_usage" -> {"detail"}
      [] OTHER -> {}

RequiredFields(service) ==
    IF service = "get_time_usage" THEN {"begin", "end", "granularity"} ELSE {}

ToolSchema(tool) ==
    Schema(RequiredFields(tool), ToolFields[tool] \ RequiredFields(tool))

ServiceSchema(service) ==
    Schema(RequiredFields(service),
           (ToolFields[service] \cup ServiceOnly(service)) \ RequiredFields(service))

\* The one tool of the lowest mode takes nothing.
GetSystemOverviewSummaryTool == Schema({}, {})

ReadTools(mode) ==
    IF mode = "summary_only"
    THEN [tool \in {"get_system_overview"} |-> GetSystemOverviewSummaryTool]
    ELSE [tool \in DOMAIN ToolFields |-> ToolSchema(tool)]

\* The sections that may be asked for.
IncludeOptions(service) ==
    CASE service = "get_system_overview" -> {"identifiers"}
      [] service = "get_network_config" -> {"hosts"}
      [] service = "get_network_usage" -> {"series"}
      [] service = "get_wan_usage" -> {"history", "subperiods"}
      [] service = "get_time_usage" -> {"intervals"}
      [] service = "get_flow_report" -> {"host_detail"}
      [] OTHER -> {}

Value(data, field, default) == IF field \in DOMAIN data THEN data[field] ELSE default
Included(data, section) == section \in Value(data, "include", {})
Detailed(data, default) == Value(data, "detail", default) = "full"
Refreshes(data) == Value(data, "refresh", FALSE)

\* Tool and service check the values alike.
Admitted(service, data) ==
    /\ Value(data, "include", {}) \subseteq IncludeOptions(service)
    /\ "sample_seconds" \in DOMAIN data => data.sample_seconds \in MinSample..MaxSample

\* A tool fills in a default of its own where the service has another one.
ToolData(tool, args) ==
    IF tool = "get_live_throughput"
    THEN [field \in DOMAIN args \cup {"sample_seconds"} |-> Value(args, field, 6)]
    ELSE args

-----------------------------------------------------------------------------
(* Targets.  A target is [found |-> id], with a kind and what the box is   *)
(* asked for where that differs, or an error.                              *)

ScopeTarget(service, data, view) ==
    LET selection == SelectReportScope(data)
    IN  CASE "error" \in DOMAIN selection -> selection
          [] "error" \notin DOMAIN selection /\ service = "get_time_usage" ->
                ResolveUsageHistoryTarget(view, selection)
          [] OTHER -> ResolveFlowReportTarget(view, selection)

WanIn(view, data) ==
    ResolveRequestedWan(view, ValueOf(data, "wan_uuid"), ValueOf(data, "wan_name"), FALSE)

SegmentIn(view, data) ==
    ResolveRequestedNetworkRequired(view, ValueOf(data, "network_uuid"),
                                    ValueOf(data, "network_name"))

\* A host, or else a network, or else everything.
LiveTarget(view, data) ==
    LET host == ResolveRequestedHost(view, data, FALSE)
    IN  CASE ~Resolved(host) -> host
          [] Resolved(host) /\ host # Found(None) ->
                IF Supplied(data, NetworkFields) # {} THEN Error("conflict")
                ELSE Aimed("host", host)
          [] OTHER -> Aimed("network", ResolveLiveNetwork(view,
                          ValueOf(data, "network_uuid"), ValueOf(data, "network_name")))

HistoryAsked(data) == Value(data, "history_count", 0) > 0

TimeUsageTarget(view, data) ==
    IF data.end <= data.begin THEN Error("end_before_begin")
    ELSE ScopeTarget("get_time_usage", data, view)

\* The errors come in the order the service looks for them.
WanUsageTarget(view, data) ==
    IF Resolved(WanIn(view, data)) /\ HistoryAsked(data) /\ "history_period" \notin DOMAIN data
    THEN Error("history_period_required")
    ELSE WanIn(view, data)

AlarmsTarget(data) ==
    IF Value(data, "include_archived", FALSE) /\ ~Refreshes(data)
    THEN Error("archived_requires_refresh") ELSE Found(None)

Target(service, data, view) ==
    CASE service = "get_time_usage" -> TimeUsageTarget(view, data)
      [] service = "get_flow_report" -> ScopeTarget(service, data, view)
      [] service = "get_wan_usage" -> WanUsageTarget(view, data)
      [] service \in {"get_wan_events", "get_speed_tests", "get_internet_quality"} ->
            WanIn(view, data)
      [] service \in {"get_network_config", "get_network_usage"} -> SegmentIn(view, data)
      [] service = "get_live_throughput" -> LiveTarget(view, data)
      [] service = "get_alarms" -> AlarmsTarget(data)
      [] OTHER -> Found(None)

\* A segment may have left the view while the service waited.
StillThere(service, target, view) ==
    service \in {"get_network_config", "get_network_usage"} =>
        /\ Resolved(RequireFullNetwork(view, target.found))
        /\ target.found \in {n.uuid : n \in Segments(view)}

-----------------------------------------------------------------------------
(* Reads.                                                                  *)

Read(do, of) == [do |-> do, of |-> of]

FlowScopeAsUsage(target) ==
    IF target.kind = "host" THEN <<"host", target.found>> ELSE <<"tag", target.found>>

\* The box takes the MAC of a host and the tag of a group or a user.
FlowScope(target) ==
    IF target.kind = "host" THEN <<"host", target.found>>
    ELSE <<"tag", IF target.kind = "user" THEN target.asked ELSE target.found>>

CurrentPeriods(data) ==
    Value(data, "current_periods", IF HistoryAsked(data) THEN {} ELSE {"day", "week"})

\* Both kinds of WAN usage are read at once, and fail together.
WanReads(data) ==
    (IF CurrentPeriods(data) # {} THEN {"current"} ELSE {})
    \cup (IF HistoryAsked(data) THEN {"history"} ELSE {})

\* What the services ask the box, in this order.
FlowReportReads(data, target) ==
    <<Read("rollup", FlowScope(target))>>
    \o (IF Detailed(data, "summary")
        THEN <<Read("blocks", FlowScope(target)), Read("flows", FlowScope(target))>>
        ELSE <<>>)

TimeUsageReads(target) == <<Read("usage", <<target.kind, target.found>>)>>

WanUsageReads(data) ==
    IF WanReads(data) = {} THEN <<>> ELSE <<Read("wan_usage", WanReads(data))>>

WanEventsReads(target) == <<Read("events", target.found)>>
InterfaceReads(target) == <<Read("interface", target.found)>>
LiveReads(target) == <<Read("live", target.found)>>

AlarmsReads(data) ==
    (IF Refreshes(data) THEN <<Read("alarms", None)>> ELSE <<>>)
    \o (IF Value(data, "include_archived", FALSE)
        THEN <<Read("archived_alarms", None)>> ELSE <<>>)
    \o (IF Detailed(data, "summary") THEN <<Read("alarm_details", None)>> ELSE <<>>)

ReadsOf(service, data, target) ==
    CASE service = "get_flow_report" -> FlowReportReads(data, target)
      [] service = "get_time_usage" -> TimeUsageReads(target)
      [] service = "get_wan_usage" -> WanUsageReads(data)
      [] service = "get_wan_events" -> WanEventsReads(target)
      [] service \in {"get_network_config", "get_network_usage"} -> InterfaceReads(target)
      [] service = "get_live_throughput" -> LiveReads(target)
      [] service = "get_alarms" -> AlarmsReads(data)
      [] OTHER -> <<>>

\* The zone of the report is loaded before the reads, or after them.
ZoneFirst(service) ==
    service \in {"get_flow_report", "get_wan_usage", "get_wan_events", "get_network_usage"}

\* The even window a live sample is averaged over.
ServedSeconds(requested) ==
    LET even == 2 * ((requested + 1) \div 2)
    IN  CASE even < MinSample -> MinSample
          [] even > MaxSample -> MaxSample
          [] OTHER -> even

ReadingsWanted(data) ==
    LET wanted == ServedSeconds(Value(data, "sample_seconds", 10)) \div 2
    IN  IF wanted < 1 THEN 1 ELSE wanted

-----------------------------------------------------------------------------
(* Sections.  An answer is [given, unavailable, warned]: the sections it   *)
(* carries, those it says it could not fill, and those it warns about.     *)

Sections(given, unavailable, warned) ==
    [given |-> given, unavailable |-> unavailable, warned |-> warned]

\* What a read came back with is a set of marks: members, apps, ...
FlowSections(data, target, got) ==
    LET detail == Included(data, "host_detail") \/ target.kind = "host"
        members == "members" \in got["rollup"]
    IN  IF "missing" \in got["rollup"]
        THEN Sections({}, {"summary"}, {"summary"})
        ELSE Sections(
                {"totals", "top_download", "top_upload", "blocked", "local_peers",
                 "rollup_families"}
                \cup (IF members /\ detail THEN {"member_ranking"} ELSE {}),
                IF members THEN {} ELSE {"member_ranking"},
                {})

\* A record family that was read is in the answer.
RecordSections(data, got) ==
    LET families == IF Detailed(data, "summary") THEN {"blocks", "flows"} ELSE {}
        lost == {f \in families : "missing" \in got[f]}
    IN  Sections(families \ lost, lost, lost)

TimeSections(data, got) ==
    LET named == Value(data, "sections", {})
        all == {"internet", "app_totals", "apps", "categories"}
        default == IF Detailed(data, "full") THEN all ELSE {"internet", "app_totals"}
        applied == (IF named # {} THEN named ELSE default)
                   \cup (IF Value(data, "app_ids", {}) # {} THEN {"apps"} ELSE {})
        absent == (applied \cap {"internet", "app_totals"}) \ got["usage"]
    IN  Sections(applied \ absent, absent, {})

\* History and subperiods go unfilled when the periods asked for have none.
WanSections(data) ==
    LET periods == CurrentPeriods(data)
        long == {"month", "week"}
        noHistory == ~HistoryAsked(data) /\ Included(data, "history")
        subperiods == Detailed(data, "summary") \/ Included(data, "subperiods")
        nested == \/ periods \cap long # {}
                  \/ HistoryAsked(data) /\ data.history_period \in long
        absent == (IF noHistory THEN {"history"} ELSE {})
                  \cup (IF subperiods /\ ~nested THEN {"subperiods"} ELSE {})
    IN  Sections({"reports"} \cup (IF HistoryAsked(data) THEN {"history"} ELSE {})
                             \cup (IF subperiods /\ nested THEN {"subperiods"} ELSE {}),
                 absent, absent)

UsageSections(data, got) ==
    LET marks == got["interface"]
    IN  Sections({"hosts", "rankings", "activity"} \cup (marks \cap {"apps", "categories"})
                 \cup (IF Included(data, "series") THEN {"series"} ELSE {}),
                 {},
                 IF "families" \in marks /\ "ranking" \notin marks
                 THEN {"rankings"} ELSE {})

ConfigSections(data) ==
    Sections({"configuration", "usage", "addressing", "dns", "dhcp"}
             \cup (IF Included(data, "hosts") THEN {"hosts"} ELSE {}), {}, {})

EventSections(got) ==
    Sections({"events"}, {}, IF "events" \in got["events"] THEN {} ELSE {"events"})

LiveSections(got) ==
    IF "missing" \in got["live"]
    THEN Sections({}, {"interfaces", "hosts"}, {"interfaces", "hosts"})
    ELSE Sections({"interfaces", "hosts"}, {},
                  IF "warming_up" \in got["live"] THEN {"hosts"} ELSE {})

Union(a, b) ==
    Sections(a.given \cup b.given, a.unavailable \cup b.unavailable, a.warned \cup b.warned)

SectionsOf(service, data, target, got) ==
    CASE service = "get_flow_report" ->
            Union(FlowSections(data, target, got), RecordSections(data, got))
      [] service = "get_time_usage" -> TimeSections(data, got)
      [] service = "get_wan_usage" -> WanSections(data)
      [] service = "get_network_usage" -> UsageSections(data, got)
      [] service = "get_network_config" -> ConfigSections(data)
      [] service = "get_wan_events" -> EventSections(got)
      [] service = "get_live_throughput" -> LiveSections(got)
      [] OTHER -> Sections({}, {}, {})

-----------------------------------------------------------------------------
(* Answers from the view.                                                  *)

Contains(part, whole) == part = whole \/ <<part, whole>> \in Substrings

\* The tag hosts of this user carry; an unknown user has none.
UserTags(view, text) ==
    LET meant == {u \in view.users :
                    /\ u.user_id = text \/ Fold(u.name) = Fold(text)
                    /\ u.affiliated_group_id # None}
    IN  IF meant = {} THEN {} ELSE {TheOnly(meant).affiliated_group_id}

\* The newest activity of any host is what "connected" is measured from, whichever
\* hosts are asked about.
ReferenceLastActive(view) ==
    LET times == {h.active : h \in view.hosts} \ {None}
    IN  IF times = {} THEN None ELSE CHOOSE t \in times : \A u \in times : u <= t

IsHostOnline(h, reference) ==
    CASE reference = None -> IF h.stale = None THEN None ELSE ~h.stale
      [] reference # None /\ (h.stale = TRUE \/ h.active = None) -> FALSE
      [] OTHER -> reference - h.active <= OnlineWindow

CountOnlineHosts(hosts, reference) ==
    Cardinality({h \in hosts : IsHostOnline(h, reference) = TRUE})

MatchesFilters(h, data, tags, reference) ==
    LET Wants(field, holds) == field \in DOMAIN data => holds
    IN  /\ Wants("host_name", Contains(Fold(Value(data, "host_name", None)), Fold(h.name)))
        /\ Wants("host_mac", h.mac = Fold(Value(data, "host_mac", None)))
        /\ Wants("group_name", Fold(h.group) = Fold(Value(data, "group_name", None)))
        /\ Wants("kind", (Value(data, "kind", None) = "mac_host") <=> SupportsWakeOnLan(h.mac))
        /\ Wants("network_uuid", h.network = Value(data, "network_uuid", None))
        /\ Wants("online", IsHostOnline(h, reference) = Value(data, "online", None))
        /\ Wants("user", Value(data, "user", None) \in h.users \/ h.tags \cap tags # {})

GetHosts(view, data) ==
    LET tags == IF "user" \in DOMAIN data THEN UserTags(view, data.user) ELSE {}
        reference == ReferenceLastActive(view)
    IN  {h.mac : h \in {g \in view.hosts : MatchesFilters(g, data, tags, reference)}}

IsUserVisible(r) == r.purpose \notin HiddenPurposes /\ ~r.system

\* Hidden rules are asked for by purpose, or as those the box made itself.
GetRules(view, data) ==
    {r.id : r \in {s \in view.rules :
        /\ \/ IsUserVisible(s)
           \/ s.purpose \in Value(data, "include_purpose", {})
           \/ Value(data, "include_system_managed", FALSE) /\ s.system
        /\ s.on = Value(data, "enabled", s.on)
        /\ s.action = Value(data, "action", s.action)
        /\ s.type = Value(data, "target_type", s.type)
        /\ s.alarm = Value(data, "alarm_id", s.alarm)
        /\ "applies_to" \in DOMAIN data => data.applies_to \in s.applies}}

\* The newest measurements, of one WAN or of all of them.
Newest(wans, target, limit) ==
    LET Mine(wan) == target.found \in {None, wan}
        mine == SelectSeq(wans, Mine)
    IN  SubSeq(mine, 1, IF Len(mine) < limit THEN Len(mine) ELSE limit)

SpeedTests(view, target, data) == Newest(view.tests, target, Value(data, "limit", 1))
QualitySamples(view, target, data) == Newest(view.samples, target, Value(data, "limit", 1))

\* A host that names its interface instead of its network is counted with it.
NetworkCounts(view) ==
    [uuid \in {n.uuid : n \in view.networks} |->
        LET hosts == {h \in view.hosts : \E n \in view.networks :
                        n.uuid = uuid /\ h.network \in {n.uuid, n.interface}}
        IN  [hosts |-> Cardinality(hosts),
             online |-> CountOnlineHosts(hosts, ReferenceLastActive(view))]]

\* VPN peers are hosts too, measured from the activity of all hosts.
HostCounts(view) ==
    LET peers == {h \in view.hosts : h.peer}
        reference == ReferenceLastActive(view)
    IN  [hosts |-> Cardinality(view.hosts), peers |-> Cardinality(peers),
         online |-> CountOnlineHosts(view.hosts, reference),
         peersOnline |-> CountOnlineHosts(peers, reference)]

\* Only the WAN of the newest measurement of all shows one.
MeasuredWans(view) ==
    {wan \in {n.uuid : n \in Wans(view)} :
        view.tests # <<>> /\ Head(view.tests) = wan}

RuleCounts(view) ==
    [rules |-> Cardinality(view.rules),
     visible |-> Cardinality({r \in view.rules : IsUserVisible(r)}),
     enabled |-> Cardinality({r \in view.rules : IsUserVisible(r) /\ r.on})]

Overview(view, data) ==
    [hosts |-> HostCounts(view),
     networks |-> NetworkCounts(view),
     groups |-> Cardinality(TagsOf(view, "group")),
     users |-> Cardinality(Users(view)),
     counts |-> RuleCounts(view),
     measured |-> MeasuredWans(view),
     identities |-> IF Included(data, "identifiers")
                    THEN {t.name : t \in view.tags} ELSE {}]

NewestAlarms(alarms, limit) ==
    {a \in alarms : Cardinality({b \in alarms : b.at > a.at}) < limit}

\* The type counts before the limit here; a read of the box limits first.
AlarmsAnswered(alarms, data) ==
    NewestAlarms({a \in alarms : a.type = Value(data, "alarm_type", a.type)},
                 Value(data, "limit", 10))

RowsOf(service, data, target, view) ==
    CASE service = "get_hosts" -> GetHosts(view, data)
      [] service = "get_rules" -> GetRules(view, data)
      [] service = "get_speed_tests" -> SpeedTests(view, target, data)
      [] service = "get_internet_quality" -> QualitySamples(view, target, data)
      [] service = "get_wireless_status" -> view.wireless
      [] service = "get_system_overview" -> Overview(view, data)
      [] service = "get_alarms" -> IF Refreshes(data) THEN {} ELSE view.alarms
      [] OTHER -> None
=============================================================================
