---------------------------- MODULE ControlTools ----------------------------
(***************************************************************************)
(* The control tools a language model is offered, llm_tools_control.py.    *)
(* A tool calls one service with its arguments a: with which data, whether *)
(* it asks for a response, what its answer says of the cached view and of  *)
(* the box, and the tool it names to undo it.  The claim is the effect the *)
(* answer says was applied; Target and Reported stand in it for what only  *)
(* the service knows.                                                      *)
(***************************************************************************)
EXTENDS ControlServices

CONSTANTS
    Target,       \* the host the service resolved
    Reported      \* the value the service answered with

Tool(service, data, response, runtime, claim, undo) ==
    [service |-> service, data |-> data, response |-> response,
     runtime |-> runtime, claim |-> claim, undo |-> undo]

\* A rule in the state asked for is written all the same, and reported unchanged.
PauseRuleTool(a, v) ==
    Tool("pause_rule", a, FALSE, "updated",
         IF a.rule_id \in DOMAIN v.rules /\ ~v.rules[a.rule_id].on
         THEN NoEffect ELSE Effect("rule", a.rule_id, FALSE),
         "resume_rule")

ResumeRuleTool(a, v) ==
    Tool("resume_rule", a, FALSE, "updated",
         IF a.rule_id \in DOMAIN v.rules /\ v.rules[a.rule_id].on
         THEN NoEffect ELSE Effect("rule", a.rule_id, TRUE),
         "pause_rule")

\* "True to pause the SSID, false to resume it."
SetSsidPausedTool(a) ==
    Tool("set_ssid_paused", a, FALSE, "updated",
         Effect("ssid", a.ssid_profile_id, a.enabled), "set_ssid_paused")

SetHostNameTool(a) ==
    Tool("set_host_name", a, TRUE, "updated", Effect("name", Target, a.new_name), None)

SetHostDnsHostnameTool(a) ==
    Tool("set_host_dns_hostname", a, TRUE, "updated",
         Effect("dns", Target, a.dns_hostname), None)

SetHostDeviceTypeTool(a) ==
    Tool("set_host_device_type", a, TRUE, "updated",
         Effect("type", Target, a.host_device_type), None)

\* The answer repeats the mode and the address; the service knows the network.
SetHostDhcpReservationTool(a) ==
    Tool("set_host_dhcp_reservation", a, TRUE, "updated",
         Effect("ip", Target, Reported), None)

\* The answer tells the membership and the deleted rules the service reports.
SetHostMembershipTool(data, undo) ==
    Tool("set_host_membership", data, TRUE, "pending",
         Effect("tag", Target, Reported), undo)

\* The arguments with one field more.
With(a, field, value) ==
    [f \in DOMAIN a \cup {field} |-> IF f = field THEN value ELSE a[f]]

\* `clear` is true unless the caller says otherwise.
Cleared(a) == IF "clear" \in DOMAIN a THEN a ELSE With(a, "clear", TRUE)

SetHostGroupTool(a) == SetHostMembershipTool(a, "clear_host_group")
ClearHostGroupTool(a) == SetHostMembershipTool(Cleared(a), None)
SetHostUserTool(a) == SetHostMembershipTool(a, "clear_host_user")
ClearHostUserTool(a) == SetHostMembershipTool(Cleared(a), None)

SetHostNotifyTool(service, setting, a) ==
    Tool(service, a, TRUE, "updated", Effect(setting, Target, a.enabled), None)
SetHostNotifyWhenNextOnlineTool(a) ==
    SetHostNotifyTool("set_host_notify_when_next_online", "online", a)
SetHostNotifyWhenNextOfflineTool(a) ==
    SetHostNotifyTool("set_host_notify_when_next_offline", "offline", a)

WakeHostTool(a) == Tool("wake_host", a, TRUE, "pending", NoEffect, None)
RunInternetSpeedTestTool(a) ==
    Tool("run_internet_speed_test", a, TRUE, "pending", NoEffect, None)

SetAlarmMutedTool(a) ==
    Tool("mute_alarm", a, FALSE, "pending", Effect("mute", SilenceOf(a), TRUE), "unmute_alarm")
UnmuteAlarmTool(a) ==
    Tool("unmute_alarm", a, FALSE, "pending", Effect("unmute", SilenceOf(a), FALSE), None)

BlockAlarmTargetTool(a) ==
    Tool("create_rule", a, TRUE, "updated",
         Effect("create_rule", Reported, None), "unblock_alarm_target")

\* It asks for a response, as the destructive delete_rule does not.
UnblockAlarmTargetTool(a) ==
    Tool("delete_rule", With(a, "confirm", TRUE), TRUE, "updated",
         Effect("delete_rule", a.rule_id, None), None)

ArchiveAlarmTool(a) ==
    Tool("archive_alarms", a, FALSE, "updated", Effect("archive", a.alarm_id, None), None)
ArchiveAllAlarmsTool ==
    Tool("archive_alarms", [alarm_status |-> "active"], FALSE, "updated",
         Effect("archive", All, None), None)
DeleteAlarmTool(a) ==
    Tool("delete_alarms", a, FALSE, "updated", Effect("delete_alarm", a.alarm_id, None), None)
DeleteAlarmsTool(a) ==
    Tool("delete_alarms", a, FALSE, "updated",
         Effect("delete_alarm", a.alarm_status, None), None)
DeleteHostTool(a) ==
    Tool("delete_host", a, TRUE, "updated", Effect("delete_host", Fold(a.host_mac), None), None)
DeleteRuleTool(a) ==
    Tool("delete_rule", a, FALSE, "updated", Effect("delete_rule", a.rule_id, None), None)

ControlTools ==
    {"pause_rule", "resume_rule", "set_ssid_paused", "set_host_name",
     "set_host_dns_hostname", "set_host_device_type", "set_host_dhcp_reservation",
     "set_host_notify_when_next_online", "set_host_notify_when_next_offline",
     "wake_host", "run_internet_speed_test", "mute_alarm", "unmute_alarm",
     "block_alarm_target", "unblock_alarm_target", "archive_alarm"}

DestructiveTools ==
    {"archive_all_alarms", "delete_alarm", "delete_all_alarms", "delete_host",
     "delete_rule", "set_host_group", "clear_host_group", "set_host_user",
     "clear_host_user"}

\* Faulty variant: the destructive tools come with the others.
BuildControlToolsAll(includeDestructive) == ControlTools \cup DestructiveTools

\* build_control_tools: the irreversible and the bulk tools only on request.
BuildControlTools(includeDestructive) ==
    ControlTools \cup (IF includeDestructive THEN DestructiveTools ELSE {})

\* The tools of this module a mode registers; a tool it does not register
\* cannot be called.
Offered(m) ==
    CASE m \in {"off", "summary_only", "read_only"} -> {}
      [] m \in {"read_and_control", "full"} -> BuildControlTools(m = "full")

\* What the called tool does with its arguments, from the view of the moment.
ToolOf(q, v) ==
    CASE q.tool = "pause_rule" -> PauseRuleTool(q.args, v)
      [] q.tool = "resume_rule" -> ResumeRuleTool(q.args, v)
      [] q.tool = "set_ssid_paused" -> SetSsidPausedTool(q.args)
      [] q.tool = "set_host_name" -> SetHostNameTool(q.args)
      [] q.tool = "set_host_dns_hostname" -> SetHostDnsHostnameTool(q.args)
      [] q.tool = "set_host_device_type" -> SetHostDeviceTypeTool(q.args)
      [] q.tool = "set_host_dhcp_reservation" -> SetHostDhcpReservationTool(q.args)
      [] q.tool = "set_host_notify_when_next_online" -> SetHostNotifyWhenNextOnlineTool(q.args)
      [] q.tool = "set_host_notify_when_next_offline" -> SetHostNotifyWhenNextOfflineTool(q.args)
      [] q.tool = "wake_host" -> WakeHostTool(q.args)
      [] q.tool = "run_internet_speed_test" -> RunInternetSpeedTestTool(q.args)
      [] q.tool = "mute_alarm" -> SetAlarmMutedTool(q.args)
      [] q.tool = "unmute_alarm" -> UnmuteAlarmTool(q.args)
      [] q.tool = "block_alarm_target" -> BlockAlarmTargetTool(q.args)
      [] q.tool = "unblock_alarm_target" -> UnblockAlarmTargetTool(q.args)
      [] q.tool = "archive_alarm" -> ArchiveAlarmTool(q.args)
      [] q.tool = "archive_all_alarms" -> ArchiveAllAlarmsTool
      [] q.tool = "delete_alarm" -> DeleteAlarmTool(q.args)
      [] q.tool = "delete_all_alarms" -> DeleteAlarmsTool(q.args)
      [] q.tool = "delete_host" -> DeleteHostTool(q.args)
      [] q.tool = "delete_rule" -> DeleteRuleTool(q.args)
      [] q.tool = "set_host_group" -> SetHostGroupTool(q.args)
      [] q.tool = "clear_host_group" -> ClearHostGroupTool(q.args)
      [] q.tool = "set_host_user" -> SetHostUserTool(q.args)
      [] q.tool = "clear_host_user" -> ClearHostUserTool(q.args)

HostParameters == {"host_mac", "host_name"}

\* What a tool takes of its caller, which may be any client, and checks by itself
\* before it calls its service.
ParametersOf(tool) ==
    CASE tool = "pause_rule" -> PauseRuleSchema
      [] tool = "resume_rule" -> ResumeRuleSchema
      [] tool = "set_ssid_paused" -> SetSsidPausedSchema
      [] tool = "set_host_name" -> Schema({"new_name"}, HostParameters)
      [] tool = "set_host_dns_hostname" -> Schema({"dns_hostname"}, HostParameters)
      [] tool = "set_host_device_type" -> Schema({"host_device_type"}, HostParameters)
      [] tool = "set_host_dhcp_reservation" ->
            Schema({"mode"}, HostParameters \cup NetworkFields \cup {"reserved_ipv4"})
      [] tool \in {"set_host_notify_when_next_online", "set_host_notify_when_next_offline"} ->
            Schema({"enabled"}, HostParameters)
      [] tool = "set_host_group" -> Schema({}, HostParameters \cup GroupFields)
      [] tool = "set_host_user" -> Schema({}, HostParameters \cup UserFields)
      [] tool \in {"clear_host_group", "clear_host_user"} -> Schema({}, HostParameters \cup {"clear"})
      [] tool = "wake_host" -> Schema({}, HostParameters)
      [] tool = "run_internet_speed_test" -> RunInternetSpeedTestSchema
      [] tool = "mute_alarm" -> MuteAlarmSchema
      [] tool = "unmute_alarm" -> UnmuteAlarmSchema
      [] tool = "block_alarm_target" -> CreateRuleSchema
      [] tool = "unblock_alarm_target" -> Schema({"rule_id"}, {})
      [] tool = "archive_alarm" -> Schema({"alarm_id"}, {})
      [] tool = "archive_all_alarms" -> Schema({}, {})
      [] tool = "delete_alarm" -> Schema({"alarm_id", "confirm"}, {})
      [] tool = "delete_all_alarms" -> Schema({"alarm_status", "confirm"}, {})
      [] tool = "delete_host" -> Schema({"host_mac", "confirm"}, {})
      [] tool = "delete_rule" -> DeleteRuleSchema
=============================================================================
