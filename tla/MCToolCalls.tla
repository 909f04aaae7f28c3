---------------------------- MODULE MCToolCalls ----------------------------
(* A box with one host that owns a rule, one rule of its own, an active and *)
(* an archived alarm; a second host may join.                               *)
EXTENDS ToolCalls, TLC

CONSTANTS h1, h2, r1, r2, r3, a1, a2, g1, u1, n1, n2, w1, x1, ssid

MCCasefold == [t \in {} |-> t]
MCTags == {[group_id |-> g1, kind |-> "group", user_id |-> None, name |-> n2],
           [group_id |-> u1, kind |-> "user", user_id |-> n1, name |-> n2]}
MCNetworks == {[uuid |-> w1, name |-> n1, kind |-> "wan"],
               [uuid |-> x1, name |-> n1, kind |-> "lan"]}
MCSubnets == [n \in {x1} |-> {1, 2}]
MCAlarmHost == [a \in {a1, a2} |-> h1]
MCHost == [name |-> n1, dns |-> n1, type |-> n1, online |-> FALSE,
           offline |-> FALSE, tag |-> None, ip |-> [x \in {x1} |-> Dynamic]]
MCStart ==
    [hosts |-> h1 :> MCHost,
     rules |-> (r1 :> [on |-> TRUE, owner |-> h1]) @@ (r2 :> [on |-> TRUE, owner |-> None]),
     paused |-> FALSE,
     alarms |-> (a1 :> "active") @@ (a2 :> "archived"),
     muted |-> {}]

MCAppEffects ==
    {Effect("rule", r1, FALSE), Effect("delete_rule", r1, None),
     Effect("delete_rule", r3, None), Effect("delete_host", h1, None),
     Effect("name", h1, n2), Effect("tag", h1, u1), Effect("ssid", ssid, TRUE),
     Effect("archive", a1, None), Effect("delete_alarm", a2, None)}

Ask(tool, args) == [tool |-> tool, args |-> args]

MCAsked ==
    {Ask("pause_rule", [rule_id |-> r1]),
     Ask("pause_rule", [rule_id |-> r1, duration |-> 1, resume_at |-> "later"]),
     Ask("pause_rule", [rule_id |-> r1, duration |-> "nonsense"]),
     Ask("resume_rule", [rule_id |-> r1]),
     Ask("set_ssid_paused", [ssid_profile_id |-> ssid, enabled |-> TRUE]),
     Ask("set_host_name", [host_mac |-> h1, new_name |-> n2]),
     Ask("set_host_name", [host_name |-> n2, new_name |-> n1]),
     Ask("set_host_dns_hostname", [host_mac |-> h2, dns_hostname |-> n2]),
     Ask("set_host_device_type", [host_name |-> n1, host_device_type |-> n2]),
     Ask("set_host_dhcp_reservation",
         [host_mac |-> h1, mode |-> "static", reserved_ipv4 |-> 1]),
     Ask("set_host_dhcp_reservation",
         [host_mac |-> h2, mode |-> "static", reserved_ipv4 |-> 1, network_uuid |-> x1]),
     Ask("set_host_notify_when_next_online", [host_mac |-> h1, enabled |-> TRUE]),
     Ask("set_host_notify_when_next_offline", [host_mac |-> h1, enabled |-> TRUE]),
     Ask("wake_host", [host_mac |-> h1]),
     Ask("wake_host", [host_mac |-> h2]),
     Ask("run_internet_speed_test", [x \in {} |-> None]),
     Ask("mute_alarm", [alarm_id |-> a1, alarm_target_type |-> "ip",
                        duration |-> "always", all_hosts |-> TRUE]),
     Ask("mute_alarm", [alarm_id |-> a2, alarm_target_type |-> "ip",
                        duration |-> "always", group_id |-> g1]),
     Ask("mute_alarm", [alarm_target_type |-> "domain", alarm_target_value |-> n1,
                        duration |-> "1h", all_hosts |-> TRUE]),
     Ask("unmute_alarm", [alarm_id |-> a1]),
     Ask("unmute_alarm", [exception_id |-> n1]),
     Ask("block_alarm_target", [alarm_id |-> a1]),
     Ask("block_alarm_target", [host_mac |-> h1, target_type |-> "dns", target_value |-> n1]),
     Ask("unblock_alarm_target", [rule_id |-> r3]),
     Ask("archive_alarm", [alarm_id |-> a1]),
     Ask("archive_alarm", [alarm_status |-> "active"]),
     Ask("archive_all_alarms", [x \in {} |-> None]),
     Ask("delete_alarm", [alarm_id |-> a1, confirm |-> TRUE]),
     Ask("delete_all_alarms", [alarm_status |-> "archived", confirm |-> TRUE]),
     Ask("delete_host", [host_mac |-> h1, confirm |-> TRUE]),
     Ask("delete_host", [host_mac |-> h2, confirm |-> TRUE]),
     Ask("delete_rule", [rule_id |-> r1, confirm |-> TRUE]),
     Ask("delete_rule", [rule_id |-> r3, confirm |-> TRUE]),
     Ask("set_host_group", [host_mac |-> h1, group_id |-> g1]),
     Ask("set_host_user", [host_mac |-> h1, user_name |-> n2]),
     Ask("clear_host_group", [host_mac |-> h1]),
     Ask("clear_host_group", [host_mac |-> h1, clear |-> FALSE]),
     Ask("clear_host_user", [host_mac |-> h1])}
=============================================================================
