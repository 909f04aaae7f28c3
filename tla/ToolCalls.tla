----------------------------- MODULE ToolCalls -----------------------------
(***************************************************************************)
(* Tool calls of one config entry, end to end: a language model calls a    *)
(* tool its mode offers, the tool calls a service, the service resolves    *)
(* what it acts on in the cached view, the box is asked for one change     *)
(* after the other, the view is patched, and the tool answers what it did. *)
(* Meanwhile the Firewalla app changes the box and polls replace the view. *)
(*                                                                         *)
(* The view stands for the coordinator's snapshot, the managers' indexes   *)
(* and the cached payload, which RuleControl, HostInventory and            *)
(* AlarmInventory tell apart.  One tool is called at a time, and the mode  *)
(* stays as it is: a change of it reloads the entry.                       *)
(***************************************************************************)
EXTENDS ControlTools

CONSTANTS
    Asked,        \* what may be asked: records [tool, args]
    AppEffects,   \* what the app may change, as effects
    Start,        \* the box when the entry was set up
    Hosts,        \* host addresses
    Rules,        \* rule ids
    Names,        \* names the app gives
    Modes,        \* tool modes the user may have chosen
    MaxCalls,     \* bound: tool calls
    MaxAppMoves   \* bound: changes made in the app

ASSUME BoundsAssumption == MaxCalls \in Nat /\ MaxAppMoves \in Nat

\* What a box, or a view of one, is made of.
BoxShaped(b) ==
    /\ b = [hosts |-> b.hosts, rules |-> b.rules, paused |-> b.paused,
            alarms |-> b.alarms, muted |-> b.muted]
    /\ \A h \in DOMAIN b.hosts : HostSettings \subseteq DOMAIN b.hosts[h]

\* The box knows a host when the entry is set up, and rules are finitely many.
ASSUME StartAssumption ==
    /\ BoxShaped(Start)
    /\ DOMAIN Start.hosts \subseteq Hosts /\ DOMAIN Start.hosts # {}
    /\ DOMAIN Start.rules \subseteq Rules /\ IsFiniteSet(Rules)

\* The options form knows these modes.
ASSUME ModesAssumption ==
    Modes \subseteq {"off", "summary_only", "read_only", "read_and_control", "full"}

\* Nothing a caller may name is one of the marks in a claim.
ASSUME MarksAssumption ==
    /\ Target # Reported
    /\ {Target, Reported} \cap {None, All, TRUE, FALSE} = {}
    /\ \A q \in Asked : \A f \in DOMAIN q.args :
          {q.args[f], Fold(q.args[f])} \cap {Target, Reported} = {}

\* A rule the app creates is AppAddsRule's.
ASSUME EffectsAssumption == \A e \in AppEffects : e.do # "create_rule"

VARIABLES
    mode,      \* the tools this entry offers
    box,       \* what the box has
    issued,    \* rule ids the box has given out
    seen,      \* what the integration has cached of the box
    poll,      \* None, or the answer of the poll under way
    call,      \* the tool call under way
    calls,     \* tool calls begun
    appMoves,  \* changes the app made
    last       \* how the last call ended, while the box did not change again

vars == <<mode, box, issued, seen, poll, call, calls, appMoves, last>>

-----------------------------------------------------------------------------
Idle == [pc |-> "idle"]
Answers == {"idle", "refused", "failed", "replied"}

\* A call that has reached its service: what was asked of the tool, what the
\* tool told the service, what the service plans and what is left of that;
\* whether the app changed the box, or a poll the view, since it looked.
Under(pc, q, told, plan, todo, moved) ==
    [pc |-> pc, q |-> q, told |-> told, plan |-> plan, todo |-> todo,
     moved |-> moved, polled |-> FALSE]

Init ==
    /\ mode \in Modes
    /\ box = Start /\ issued = DOMAIN Start.rules
    /\ seen = ViewOf(Start)
    /\ poll = None
    /\ call = Idle /\ calls = 0
    /\ appMoves = 0
    /\ last = Idle

\* The tool's answer.  The claim is filled in from the service's response, which
\* repeats the scope of a created rule.
Filled(claim, plan) ==
    [do |-> claim.do,
     on |-> CASE claim.on = Target -> plan.target
              [] claim.on = Reported -> plan.reported
              [] OTHER -> claim.on,
     is |-> CASE claim.do = "create_rule" -> plan.ops[1].is
              [] claim.do # "create_rule" /\ claim.is = Reported -> plan.reported
              [] OTHER -> claim.is]

Reply(q, told, plan, moved) ==
    [pc |-> "replied", tool |-> q.tool, claim |-> Filled(told.claim, plan),
     runtime |-> told.runtime, plan |-> plan, moved |-> moved]

Refused(q, why) == [pc |-> "refused", tool |-> q.tool, why |-> why]

\* Deletions of rules the index no longer holds return at once, without a
\* request; the rest of a plan stays.
Remaining(ops, v) ==
    LET Skipped(i) == ops[i].do = "delete_rule" /\ ops[i].on \notin DOMAIN v.rules
        stays(i) == i = Len(ops) + 1 \/ ~Skipped(i)
        first == CHOOSE i \in 1..(Len(ops) + 1) : stays(i) /\ \A j \in 1..(i - 1) : ~stays(j)
    IN  SubSeq(ops, first, Len(ops))

\* The service goes on to its next request, or the tool answers.
Proceed(under) ==
    IF under.todo = <<>>
    THEN call' = Idle /\ last' = Reply(under.q, under.told, under.plan, under.moved)
    ELSE call' = under /\ last' = Idle

\* A write looks its host up once more after a refresh if it did not find it.
TakesPlan(q, told, retried, plan) ==
    \/ /\ plan = Error("host_not_found") /\ ~retried
       /\ call' = Under("retrying", q, told, None, <<>>, FALSE)
       /\ last' = Idle
    \/ /\ ~IsPlan(plan) /\ (plan # Error("host_not_found") \/ retried)
       /\ call' = Idle /\ last' = Refused(q, plan.error)
    \/ /\ IsPlan(plan)
       /\ Proceed(Under("sending", q, told, plan, Remaining(plan.ops, seen), FALSE))

Resolve(q, told, retried) ==
    TakesPlan(q, told, retried, Handle(told.service, told.data, seen))

-----------------------------------------------------------------------------
(* Calls.                                                                  *)

Begin(q) ==
    /\ call = Idle /\ calls < MaxCalls
    /\ q.tool \in Offered(mode)
    /\ calls' = calls + 1
    /\ UNCHANGED <<mode, box, issued, seen, poll, appMoves>>

Accepted(q, told) ==
    /\ Fits(q.args, ParametersOf(q.tool))
    /\ Taken(told.service, told.data, told.response)

\* The tool refuses its arguments, or Home Assistant does not run the service.
CallNotTaken(q) ==
    /\ Begin(q)
    /\ ~Accepted(q, ToolOf(q, seen))
    /\ call' = Idle /\ last' = Refused(q, "not_taken")

CallRefreshes(q) ==
    LET told == ToolOf(q, seen) IN
    /\ Begin(q)
    /\ Accepted(q, told) /\ RefreshFirst(told.service)
    /\ call' = Under("refreshing", q, told, None, <<>>, FALSE) /\ last' = Idle

CallResolves(q) ==
    LET told == ToolOf(q, seen) IN
    /\ Begin(q)
    /\ Accepted(q, told) /\ ~RefreshFirst(told.service)
    /\ Resolve(q, told, FALSE)

\* The refresh was debounced, it failed, or its poll has been published.
RefreshReturns ==
    /\ call.pc \in {"refreshing", "retrying"}
    /\ Resolve(call.q, call.told, TRUE)
    /\ UNCHANGED <<mode, box, issued, seen, poll, calls, appMoves>>

\* The box does what one request asks; what it has not got it leaves alone.
BoxTakes ==
    LET e == Head(call.todo) IN
    /\ call.pc = "sending" /\ e.do \notin {"create_rule", "find_alarm"}
    /\ box' = Apply(e, box)
    /\ call' = [call EXCEPT !.pc = "taken"]
    /\ UNCHANGED <<mode, issued, seen, poll, calls, appMoves, last>>

\* A new rule gets a new id.  When the box's answer does not name it, the index
\* does not learn of the rule.
BoxCreates(r, named) ==
    LET created == Effect("create_rule", r, Head(call.todo).is) IN
    /\ call.pc = "sending" /\ Head(call.todo).do = "create_rule"
    /\ r \notin issued
    /\ box' = Apply(created, box) /\ issued' = issued \cup {r}
    /\ call' = [call EXCEPT !.pc = "taken",
                            !.todo = <<IF named THEN created ELSE NoEffect>>,
                            !.plan = Plan(<<created>>, IF named THEN None ELSE "unnamed", r)]
    /\ UNCHANGED <<mode, seen, poll, calls, appMoves, last>>

\* The archived alarms are asked for the one that is to be muted.
AlarmFound ==
    LET e == Head(call.todo) IN
    /\ call.pc = "sending" /\ e.do = "find_alarm"
    /\ e.on \in AlarmsIn(box, "archived")
    /\ call' = [call EXCEPT !.todo = Tail(@)]
    /\ UNCHANGED <<mode, box, issued, seen, poll, calls, appMoves, last>>

AlarmNotFound ==
    LET e == Head(call.todo) IN
    /\ call.pc = "sending" /\ e.do = "find_alarm"
    /\ e.on \notin AlarmsIn(box, "archived")
    /\ call' = Idle /\ last' = Refused(call.q, "alarm_not_found")
    /\ UNCHANGED <<mode, box, issued, seen, poll, calls, appMoves>>

\* A request that fails ends the call, whether the box did what it asked or not.
Fail ==
    /\ call.pc = "sending"
    /\ call' = Idle /\ last' = [pc |-> "failed"]
    /\ UNCHANGED <<mode, seen, poll, calls, appMoves>>

RequestFails ==
    /\ Fail
    /\ UNCHANGED <<box, issued>>

AnswerLost ==
    /\ Fail /\ Head(call.todo).do \notin {"create_rule", "find_alarm"}
    /\ box' = Apply(Head(call.todo), box)
    /\ UNCHANGED issued

CreateAnswerLost(r) ==
    /\ Fail /\ Head(call.todo).do = "create_rule"
    /\ r \notin issued
    /\ box' = Apply(Effect("create_rule", r, Head(call.todo).is), box)
    /\ issued' = issued \cup {r}

\* A deletion takes the rule out of the index: it fails if a poll did so first.
DeletionRaises ==
    LET e == Head(call.todo) IN
    /\ call.pc = "taken" /\ e.do = "delete_rule" /\ e.on \notin DOMAIN seen.rules
    /\ call' = Idle /\ last' = [pc |-> "failed"]
    /\ UNCHANGED <<mode, box, issued, seen, poll, calls, appMoves>>

RequestReturns ==
    LET e == Head(call.todo) IN
    /\ call.pc = "taken"
    /\ e.do = "delete_rule" => e.on \in DOMAIN seen.rules
    /\ seen' = Patched(e, seen)
    /\ Proceed([call EXCEPT !.pc = "sending", !.todo = Remaining(Tail(@), seen')])
    /\ UNCHANGED <<mode, box, issued, poll, calls, appMoves>>

-----------------------------------------------------------------------------
(* Polls and the app.                                                      *)

PollAnswered ==
    /\ poll = None
    /\ poll' = ViewOf(box)
    /\ UNCHANGED <<mode, box, issued, seen, call, calls, appMoves, last>>

PollPublished ==
    /\ poll # None
    /\ seen' = poll /\ poll' = None
    /\ call' = IF call = Idle THEN Idle ELSE [call EXCEPT !.polled = TRUE]
    /\ UNCHANGED <<mode, box, issued, calls, appMoves, last>>

PollFails ==
    /\ poll # None
    /\ poll' = None
    /\ UNCHANGED <<mode, box, issued, seen, call, calls, appMoves, last>>

AppMove ==
    /\ appMoves < MaxAppMoves
    /\ appMoves' = appMoves + 1
    /\ box' # box
    /\ call' = IF call = Idle THEN Idle ELSE [call EXCEPT !.moved = TRUE]
    /\ last' = Idle
    /\ UNCHANGED <<mode, seen, poll, calls>>

NewHost(name) == [Start.hosts[CHOOSE h \in DOMAIN Start.hosts : TRUE] EXCEPT !.name = name]

\* A device joins the network.
AppAddsHost(h, name) ==
    /\ h \notin DOMAIN box.hosts
    /\ box' = [box EXCEPT !.hosts = [g \in DOMAIN @ \cup {h} |->
                  IF g = h THEN NewHost(name) ELSE @[g]]]
    /\ AppMove /\ UNCHANGED issued

AppAddsRule(r, owner) ==
    /\ r \notin issued
    /\ box' = Apply(Effect("create_rule", r, owner), box) /\ issued' = issued \cup {r}
    /\ AppMove

AppChanges(e) ==
    /\ box' = Apply(e, box)
    /\ AppMove /\ UNCHANGED issued

Next ==
    \/ \E q \in Asked : CallNotTaken(q) \/ CallRefreshes(q) \/ CallResolves(q)
    \/ RefreshReturns
    \/ BoxTakes
    \/ \E r \in Rules, named \in BOOLEAN : BoxCreates(r, named)
    \/ AlarmFound \/ AlarmNotFound
    \/ RequestFails \/ AnswerLost
    \/ \E r \in Rules : CreateAnswerLost(r)
    \/ DeletionRaises
    \/ RequestReturns
    \/ PollAnswered \/ PollPublished \/ PollFails
    \/ \E h \in Hosts, name \in Names : AppAddsHost(h, name)
    \/ \E r \in Rules, owner \in Hosts : AppAddsRule(r, owner)
    \/ \E e \in AppEffects : AppChanges(e)

Spec == Init /\ [][Next]_vars

-----------------------------------------------------------------------------
(* Properties.                                                             *)

\* Types of the box and its view, and of what is under way.
TypeOK ==
    /\ mode \in Modes
    /\ DOMAIN box.hosts \subseteq Hosts /\ DOMAIN seen.hosts \subseteq Hosts
    /\ DOMAIN box.rules \subseteq issued /\ issued \subseteq Rules
    /\ DOMAIN seen.rules \subseteq issued
    /\ AlarmsIn(seen, "archived") = {}
    /\ poll # None => AlarmsIn(poll, "archived") = {}
    /\ call.pc \in {"idle", "refreshing", "retrying", "sending", "taken"}
    /\ call.pc \in {"sending", "taken"} => call.todo # <<>>
    /\ last.pc \in Answers
    /\ calls \in 0..MaxCalls /\ appMoves \in 0..MaxAppMoves

\* What an answer calls applied is so on the box, for as long as nobody changes
\* it again: no request that failed, no skipped deletion of a rule and no view
\* that was stale makes a tool claim what is not.  Two answers are excepted: a
\* host the service skipped, and the SSID tool, whose sense is a property of
\* its own.
AppliedHolds ==
    /\ last.pc = "replied" /\ ~last.moved
    /\ last.plan.reported # "skipped" /\ last.tool # "set_ssid_paused"
    => InEffect(last.claim, box)

\* "updated": when the tool says so, the next read of the view agrees with every
\* change the service made, whatever was polled while it made them.  A created
\* rule the box gave no id for is excepted: the index cannot list it.
UpdatedViewAgrees ==
    [][last' # last /\ last'.pc = "replied" /\ call'.pc = "idle" =>
          (last'.runtime = "updated" /\ last'.plan.target # "unnamed" =>
              \A i \in DOMAIN last'.plan.ops : InEffect(last'.plan.ops[i], seen'))]_vars

\* A host changes its group or user only when all the rules that were its own
\* when the service looked are gone from the box: the service stops at the
\* first deletion that fails, and it writes the tags last.
OwnRulesGone ==
    \A h \in DOMAIN box.hosts \cap DOMAIN box'.hosts :
        box'.hosts[h].tag # box.hosts[h].tag =>
            \A i \in DOMAIN call.plan.ops :
                call.plan.ops[i].do = "delete_rule" =>
                    call.plan.ops[i].on \notin DOMAIN box.rules

\* A membership moves only with the rules of its own gone.  Excepted are what the app
\* does, and a change during which a poll was published: a rule created meanwhile may
\* drop out of the index and is then skipped, for async_delete_rule answers False and
\* nobody reads it.
RulesGoneBeforeMove ==
    [][call # Idle /\ ~call.polled /\ appMoves' = appMoves => OwnRulesGone]_vars

\* A mode that was not given the destructive tools cannot lose what the box
\* keeps: only the app, or the undo of a block, removes a host, a rule or an
\* alarm, and a mode without control tools changes nothing at all.
ModeKeepsRecords ==
    [][appMoves' = appMoves =>
          /\ mode \in {"off", "summary_only", "read_only"} => box' = box
          /\ mode = "read_and_control" =>
                /\ DOMAIN box.hosts \subseteq DOMAIN box'.hosts
                /\ DOMAIN box.alarms \subseteq DOMAIN box'.alarms
                /\ \A h \in DOMAIN box.hosts : box'.hosts[h].tag = box.hosts[h].tag
                /\ \A r \in DOMAIN box.rules \ DOMAIN box'.rules :
                      call.q.tool = "unblock_alarm_target"]_vars

\* The inductive invariant.  What is left of a plan is in its order: the tags are
\* written last, an alarm is looked for before it is muted, and each service asks
\* for its own effects only.
Doable(ops, service) ==
    /\ ops \in Seq(Range(ops))
    /\ \A i \in DOMAIN ops :
          /\ ops[i].do = "delete_rule" => service \in {"delete_rule", "set_host_membership"}
          /\ ops[i].do = "tag" => service = "set_host_membership" /\ i = Len(ops)
          /\ ops[i].do = "delete_host" => service = "delete_host"
          /\ ops[i].do = "delete_alarm" => service = "delete_alarms"
          /\ ops[i].do = "find_alarm" => i < Len(ops)

\* The service a tool calls; a tool that is not destructive has one service that
\* deletes, for what it created itself.
Reaches(tool, service) ==
    tool \in ControlTools =>
        /\ service \notin {"set_host_membership", "delete_host", "delete_alarms"}
        /\ service = "delete_rule" => tool = "unblock_alarm_target"

\* The services the tools call.
Services ==
    {"pause_rule", "resume_rule", "set_ssid_paused", "set_host_name",
     "set_host_dns_hostname", "set_host_device_type", "set_host_dhcp_reservation",
     "set_host_membership", "set_host_notify_when_next_online",
     "set_host_notify_when_next_offline", "wake_host", "delete_host",
     "run_internet_speed_test", "create_rule", "delete_rule", "archive_alarms",
     "delete_alarms", "mute_alarm", "unmute_alarm"}

CallInv ==
    call # Idle =>
        /\ call = [pc |-> call.pc, q |-> call.q, told |-> call.told, plan |-> call.plan,
                   todo |-> call.todo, moved |-> call.moved, polled |-> call.polled]
        /\ call.pc \in {"refreshing", "retrying", "sending", "taken"}
        /\ call.q.tool \in Offered(mode)
        /\ call.told.service \in Services /\ Reaches(call.q.tool, call.told.service)
        /\ call.pc \in {"sending", "taken"} =>
              /\ call.todo # <<>> /\ Doable(call.todo, call.told.service)
              /\ \A i \in DOMAIN call.todo :
                    call.todo[i].do = "delete_rule" => call.todo[i].on \in issued
        /\ call.pc = "taken" =>
              /\ Head(call.todo).do = "create_rule" => Head(call.todo).on \in issued
              /\ Head(call.todo).do = "delete_rule" =>
                    Head(call.todo).on \notin DOMAIN box.rules

BoxInv ==
    /\ BoxShaped(box) /\ BoxShaped(seen)
    /\ poll # None => /\ BoxShaped(poll) /\ DOMAIN poll.hosts \subseteq Hosts
                      /\ DOMAIN poll.rules \subseteq issued

\* A rule that is to be deleted is gone from the box, or the view still lists it and
\* its deletion is still to come.
PlannedGone ==
    call.pc \in {"sending", "taken"} /\ ~call.polled =>
        \A i \in DOMAIN call.plan.ops :
            LET e == call.plan.ops[i] IN
            e.do = "delete_rule" =>
                /\ e.on \in issued
                /\ e.on \in DOMAIN box.rules =>
                      /\ e.on \in DOMAIN seen.rules
                      /\ \E j \in DOMAIN call.todo :
                            call.todo[j] = e /\ (call.pc = "taken" => j # 1)

IInv == TypeOK /\ CallInv /\ BoxInv /\ PlannedGone

\* The services that publish what they did before they return.
Publishing ==
    Services \ {"mute_alarm", "unmute_alarm", "wake_host", "run_internet_speed_test",
                "set_host_membership"}

\* A tool says "updated" of such a service only; it asks for one effect, which is
\* published and neither done in parts nor skipped.
OneEffect(c) ==
    /\ c.told.runtime = "updated" => c.told.service \in Publishing
    /\ c.pc \in {"sending", "taken"} /\ c.told.service \in Publishing =>
          \/ c.plan.target = "unnamed"
          \/ /\ c.todo = c.plan.ops /\ Len(c.todo) = 1
             /\ DOMAIN c.todo = {1} /\ Published(c.todo[1])

UpdatedInv == call # Idle => OneEffect(call)

\* What a tool tells if the view has nothing for it to say.
Asking(q) == ToolOf(q, [rules |-> <<>>])

Told(c) ==
    LET asking == Asking(c.q) IN
    /\ c.q \in Asked /\ Fits(c.q.args, ParametersOf(c.q.tool))
    /\ c.told.service = asking.service /\ c.told.data = asking.data
    /\ \/ c.told.claim = asking.claim
       \/ c.q.tool \in {"pause_rule", "resume_rule"} /\ c.told.claim = NoEffect

Ending(ops) == ops[Len(ops)]

\* The claim is the last effect of the plan, and that is not skipped; a created rule
\* is claimed when its id is known.
Backed(claim, c) ==
    LET creates == c.told.claim.do = "create_rule" IN
    /\ \/ claim.do = "nothing" \/ creates \/ c.q.tool = "set_ssid_paused"
       \/ claim = Ending(c.todo)
    /\ Ending(c.todo).do = "delete_rule" => Len(c.todo) = 1
    /\ \A i \in DOMAIN c.todo : c.todo[i].do = "create_rule" => creates
    /\ creates => /\ Len(c.todo) = 1 /\ c.told.claim.on = Reported
                  /\ c.pc = "sending" => c.todo[1].do = "create_rule"

\* The box has done the last effect.
Achieved(claim, c) ==
    c.pc = "taken" /\ ~c.moved /\ Len(c.todo) = 1 /\ c.q.tool # "set_ssid_paused" =>
        InEffect(claim, box)

ClaimInv ==
    /\ call # Idle =>
          /\ last = Idle /\ Told(call)
          /\ call.pc \in {"sending", "taken"} =>
                LET claim == Filled(call.told.claim, call.plan)
                IN  Backed(claim, call) /\ Achieved(claim, call)
    /\ AppliedHolds

\* "True to pause the SSID, false to resume it": the SSID is as the answer says.
SsidAsAnswered ==
    last.pc = "replied" /\ last.tool = "set_ssid_paused" /\ ~last.moved =>
        InEffect(last.claim, box)

=============================================================================
