------------------------------ MODULE MCReports ------------------------------
(* Two boxes the entry may meet: in the second one the user has got another  *)
(* tag, a host and a segment are gone, the alarms and the measurements are   *)
(* others.  Questions name their targets in every way, hit, miss, conflict   *)
(* and are ambiguous.                                                        *)
EXTENDS Reports, TLC

CONSTANTS h1, h2, ip1, peer, g1, u1, u2, u3, t1, t2, w1, w2, x1, x2, x3, y1, v1, wg,
          alice, Alice, desk, kids, home, r1, r2, r3, r4, dap

MCCasefold == Alice :> alice
MCSubstrings == {<<desk, kids>>}
MCMacs == {h1}

Host(id, names, dhcp, ip, intf, active, stale, tags, users) ==
    [prefix |-> None, id |-> id, names |-> names, dns |-> <<None>>, dhcp |-> dhcp,
     bonjour |-> None, ip |-> ip, intf |-> intf, tags |-> tags, users |-> users,
     active |-> active, stale |-> stale]
Net(category, interface, uuid, name, type, members) ==
    [category |-> category, interface |-> interface, uuid |-> uuid, name |-> name,
     type |-> type, members |-> members]
Rule(id, disabled, purpose, marks, tag) ==
    [pid |-> id, action |-> "block", target |-> "x", type |-> "dns", disabled |-> disabled,
     purpose |-> purpose, aid |-> None, tag |-> tag, marks |-> marks]
Alarm(id, type, ts) == [aid |-> id, type |-> type, ts |-> ts]
User(name, type, affiliated) ==
    [uid |-> None, name |-> name, type |-> type, affiliated |-> affiliated]

\* A host that the user named, one that goes by its DHCP name and has no MAC; a VPN
\* peer; a port without an identity, a VLAN that carries a bridge, a LAN and a WAN
\* that only the profiles and the monitor name; a user whose tag still has a name of
\* its own.
MCBox1 ==
    [hosts |-> {Host(h1, <<desk, None>>, None, ip1, x1, 20, None, {t1}, {}),
                Host(h2, <<None, None>>, kids, None, x2, 15, FALSE, {g1, t1}, {}),
                Host(None, <<desk, None>>, None, None, x2, 30, FALSE, {t1}, {})},
     peers |-> {[prefix |-> "wg_peer", id |-> peer, name |-> alice, ip |-> None,
                 intf |-> wg, tags |-> {g1}, active |-> 14]},
     domains |-> [x \in {x1} |-> "lan"],
     interfaces |-> {Net("phy", "eth0", w1, home, "wan", {}),
                     Net("phy", "eth1", None, None, None, {}),
                     Net("bridge", "br0", x1, home, "lan", {"eth2.5"}),
                     Net("vlan", "eth2.5", y1, desk, "lan", {}),
                     Net("vlan", "eth2.6", x2, kids, "lan", {}),
                     Net("wireguard", wg, v1, kids, "lan", {})},
     profiles |-> {[uuid |-> x1, names |-> <<None, "br0">>],
                   [uuid |-> x3, names |-> <<None, alice>>]},
     statuses |-> {[uuid |-> w1, name |-> alice], [uuid |-> w2, name |-> desk]},
     tags |-> (g1 :> [name |-> kids]) @@ (t1 :> [name |-> home]),
     deviceTags |-> (g1 :> [name |-> desk]),
     userTags |-> (u1 :> User(alice, "user", t1)) @@ (u2 :> User(desk, "other", None))
                 @@ (u3 :> User(None, "user", None)),
     rules |-> {Rule(r1, "0", None, {}, {<<"tag", g1>>, <<"intf", x1>>}),
                Rule(r2, "1", dap, {}, {<<"dtag", g1>>, <<"utag", u1>>}),
                Rule(r3, None, None, {"blockby"}, {<<"tag", t1>>}),
                Rule(r4, None, None, {}, {<<"tag", t1>>}),
                Rule(None, None, None, {}, {})},
     alarms |-> {Alarm(1, "video", 1), Alarm(2, "porn", 2), Alarm(None, "porn", 2)},
     archived |-> {Alarm(3, "video", 3)},
     tests |-> {[uuid |-> w1, at |-> 2, success |-> TRUE],
                [uuid |-> w2, at |-> 1, success |-> FALSE],
                [uuid |-> w2, at |-> 3, success |-> None]},
     buckets |-> {[uuid |-> w2, at |-> 1, stat |-> TRUE],
                  [uuid |-> w1, at |-> 2, stat |-> FALSE]},
     wireless |-> home]

MCBox2 ==
    [MCBox1 EXCEPT
        !.hosts = {Host(h1, <<kids, desk>>, None, ip1, x1, None, None, {t2}, {}),
                   Host(h2, <<None, None>>, None, kids, None, None, FALSE, {}, {Alice})},
        !.peers = {},
        !.interfaces = {n \in @ : n.uuid # x2},
        !.tags = (t2 :> [name |-> t2]), !.userTags = (u1 :> User(kids, None, t2)),
        !.rules = {Rule(r1, "1", None, {}, {<<"tag", g1>>, <<"tag", t2>>})},
        !.alarms = {Alarm(1, "video", None)}, !.archived = {},
        !.tests = {[uuid |-> w2, at |-> 1, success |-> TRUE]}]

MCPayloads == [before |-> MCBox1, after |-> MCBox2]

Tool(name, args) == [by |-> "tool", name |-> name, args |-> args]
Call(name, args) == [by |-> "service", name |-> name, args |-> args]
NoArgs == [f \in {} |-> None]
Day == [begin |-> 1, end |-> 2, granularity |-> "day"]

MCQuestions ==
    {Tool("get_system_overview", NoArgs),
     Tool("get_system_overview", [include |-> {"identifiers"}]),
     Tool("get_hosts", [host_name |-> desk, kind |-> "mac_host"]),
     Tool("get_hosts", [user |-> Alice, refresh |-> TRUE]),
     Tool("get_hosts", [group_name |-> Alice]),
     Tool("get_rules", [enabled |-> TRUE, include_system_managed |-> TRUE]),
     Tool("get_rules", [applies_to |-> alice]),
     Tool("get_rules", [applies_to |-> Alice]),
     Tool("get_network_config", [network_name |-> kids, include |-> {"hosts"}]),
     Tool("get_network_usage", [network_uuid |-> x2, include |-> {"series"}]),
     Tool("get_network_usage", [network_uuid |-> x1, network_name |-> home]),
     Tool("get_wan_usage", [include |-> {"history", "subperiods"},
                            current_periods |-> {"day"}]),
     Tool("get_wan_usage", [wan_name |-> home, history_count |-> 1,
                            history_period |-> "month"]),
     Tool("get_wan_usage", [history_count |-> 1]),
     Call("get_wan_usage", [detail |-> "full"]),
     Tool("get_wan_usage", [include |-> {"series"}]),
     Tool("get_wan_events", [wan_uuid |-> w2]),
     Tool("get_time_usage", Day @@ [user_name |-> alice, sections |-> {"internet", "categories"}]),
     Tool("get_time_usage", Day @@ [group_id |-> g1, app_ids |-> {"a"}, detail |-> "summary"]),
     Tool("get_time_usage", [begin |-> 2, end |-> 1, granularity |-> "day", host_mac |-> h1]),
     Tool("get_time_usage", Day @@ [user_id |-> u3]),
     Tool("get_time_usage", [host_mac |-> h1]),
     Tool("get_flow_report", [user_name |-> Alice]),
     Tool("get_flow_report", [user_id |-> t1, include |-> {"host_detail"}]),
     Tool("get_flow_report", [host_name |-> kids, detail |-> "full"]),
     Tool("get_flow_report", [host_mac |-> h1, group_id |-> g1]),
     Tool("get_flow_report", [fetch_all_records |-> TRUE, host_mac |-> h1]),
     Call("get_flow_report", [host_mac |-> h1, detail |-> "full", fetch_all_records |-> TRUE]),
     Tool("get_internet_quality", [wan_uuid |-> w2, limit |-> 2]),
     Tool("get_speed_tests", [limit |-> 1, refresh |-> TRUE]),
     Tool("get_live_throughput", NoArgs),
     Tool("get_live_throughput", [host_name |-> desk, sample_seconds |-> 3]),
     Tool("get_live_throughput", [sample_seconds |-> 31]),
     Tool("get_live_throughput", [host_mac |-> h1, network_uuid |-> x1]),
     Tool("get_wireless_status", NoArgs),
     Tool("get_alarms", [alarm_type |-> "video", limit |-> 1]),
     Tool("get_alarms", [include_archived |-> TRUE]),
     Tool("get_alarms", [include_archived |-> TRUE, refresh |-> TRUE, limit |-> 1,
                         alarm_type |-> "video", detail |-> "full"]),
     Tool("sync_runtime", NoArgs)}

Flow(ts, body) == [ts |-> ts, body |-> body]
MCRecords == {Flow(1, "a"), Flow(2, "a"), Flow(2, "b"), Flow(3, "a")}
MCStartLog == [k \in Logs |-> IF k = "flows" THEN MCRecords \ {Flow(3, "a")}
                              ELSE {Flow(1, "a")}]
=============================================================================
