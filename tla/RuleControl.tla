----------------------------- MODULE RuleControl -----------------------------
(***************************************************************************)
(* The rule manager of one config entry, the coordinator that refreshes it *)
(* and the Firewalla box both talk to.                                     *)
(*                                                                         *)
(* Home Assistant runs on one event loop, so whatever happens between two  *)
(* awaits is one step here and every await is a point where other work     *)
(* runs: a refresh is sent, answered by the box and published in three     *)
(* steps, and so is a command.  Several refreshes and several commands may *)
(* be under way together (the coordinator takes no lock over its fetch and *)
(* the manager none over a write), the Firewalla app edits the same rules, *)
(* and the box resumes a rule when its pause boundary passes.              *)
(*                                                                         *)
(* A rule is abstracted to the two fields the commands write (`disabled`,  *)
(* `idleTs`) and to everything else the box stores for it (content).       *)
(***************************************************************************)
EXTENDS Naturals, Sequences

CONSTANTS
    Rules,        \* rule ids the box may ever issue; an id is never reused
    Existing,     \* ids the box holds when the entry has finished its setup
    Selected,     \* source_rule_id of the templates in the entry's options
    Calls,        \* switch toggles and service calls, each issued at most once
    Polls,        \* refreshes that can be under way at the same time
    Times,        \* pause boundaries a caller or the app may give
    NoTime,       \* no boundary: idleTs is the empty string
    Contents,     \* everything else a rule carries
    KeepContent,  \* a control-only payload carries no content
    NoRule,       \* the id of a rule the box has not issued yet
    MaxAppSteps   \* bound: how often the Firewalla app changes the rules

ASSUME RulesAssumption ==
    /\ Existing \subseteq Rules
    /\ Selected \subseteq Rules
    /\ NoRule \notin Rules
ASSUME DataAssumption ==
    /\ NoTime \notin Times
    /\ KeepContent \notin Contents
    /\ Contents # {}
ASSUME MaxAppStepsAssumption == MaxAppSteps \in Nat

VARIABLES
    box,                \* policy rules stored on the Firewalla, by id
    issued,             \* ids the box has issued so far
    appSteps,           \* changes the app has made
    data,               \* coordinator.data.policy_rules, the entries of each id
    index,              \* rule_manager._rule_index
    matching,           \* rule_manager._matching_rules_by_source_id
    lastUpdateSuccess,  \* coordinator.last_update_success
    poll,               \* refreshes under way
    call,               \* commands under way
    held,               \* history: the controls each rule has had on the box
    settled             \* history: commands whose effect nothing can hide any more

boxVars == <<box, issued, appSteps, held>>
viewVars == <<data, index, matching, lastUpdateSuccess>>
vars == <<boxVars, viewVars, poll, call, settled>>

-----------------------------------------------------------------------------
Control == [enabled : BOOLEAN, idleTs : Times \cup {NoTime}]
Entry == [enabled : BOOLEAN, idleTs : Times \cup {NoTime}, content : Contents]

\* Dictionaries from rule ids to rules.
RuleMaps == UNION {[S -> Entry] : S \in SUBSET Rules}

ControlOf(e) == [enabled |-> e.enabled, idleTs |-> e.idleTs]
WithControl(e, k) == [e EXCEPT !.enabled = k.enabled, !.idleTs = k.idleTs]

Enabled == [enabled |-> TRUE, idleTs |-> NoTime]
Disabled(until) == [enabled |-> FALSE, idleTs |-> until]
\* An enabled rule carries no boundary; a disabled one may.
Controls == {Enabled} \cup {Disabled(t) : t \in Times \cup {NoTime}}
EntryOf(k, x) == [enabled |-> k.enabled, idleTs |-> k.idleTs, content |-> x]

Put(f, r, e) == [q \in DOMAIN f \cup {r} |-> IF q = r THEN e ELSE f[q]]
Drop(f, r) == [q \in DOMAIN f \ {r} |-> f[q]]

\* The rule tuple of the snapshot the client builds from one init payload.
Listing(b) == [r \in Rules |-> IF r \in DOMAIN b THEN <<b[r]>> ELSE <<>>]

\* {rule.rule_id: rule for rule in snapshot.policy_rules}: the last entry wins.
IndexOf(d) == [r \in {q \in Rules : d[q] # <<>>} |-> d[r][Len(d[r])]]

\* One template resolves to at most one live rule, by id.
MatchingOf(ix) == [t \in Selected |-> IF t \in DOMAIN ix THEN <<ix[t]>> ELSE <<>>]

NoListing == [r \in Rules |-> <<>>]
IdlePoll == [phase |-> "idle", snapshot |-> NoListing]
NewCall == [phase |-> "new", op |-> "none", rule |-> NoRule,
            control |-> Enabled, content |-> KeepContent]

Init ==
    /\ box \in [Existing -> {EntryOf(k, x) : k \in Controls, x \in Contents}]
    /\ issued = Existing \cup Selected
    /\ appSteps = 0
    /\ held = [r \in Rules |-> IF r \in Existing THEN {ControlOf(box[r])} ELSE {}]
    /\ data = Listing(box)
    /\ index = IndexOf(data)
    /\ matching = MatchingOf(index)
    /\ lastUpdateSuccess = TRUE
    /\ poll = [p \in Polls |-> IdlePoll]
    /\ call = [c \in Calls |-> NewCall]
    /\ settled = {}

-----------------------------------------------------------------------------
(* What the box does on its own and on behalf of the Firewalla app.        *)

\* A view (the box or the index) is as command c left its rule.
Reflects(view, c) ==
    LET r == call[c].rule IN
    IF call[c].op = "delete"
    THEN r \notin DOMAIN view
    ELSE r \in DOMAIN view /\ ControlOf(view[r]) = call[c].control

BoxBecomes(b) ==
    /\ box' = b
    /\ settled' = {c \in settled : Reflects(b, c)}
    /\ held' = [r \in Rules |->
                  IF r \in DOMAIN b THEN held[r] \cup {ControlOf(b[r])} ELSE held[r]]

AppActs ==
    /\ appSteps < MaxAppSteps
    /\ appSteps' = appSteps + 1
    /\ UNCHANGED <<viewVars, poll, call>>

AppUpdates(r, k, x) ==
    /\ r \in DOMAIN box
    /\ BoxBecomes(Put(box, r, EntryOf(k, x)))
    /\ AppActs
    /\ UNCHANGED issued

AppCreates(r, k, x) ==
    /\ r \notin issued
    /\ issued' = issued \cup {r}
    /\ BoxBecomes(Put(box, r, EntryOf(k, x)))
    /\ AppActs

AppDeletes(r) ==
    /\ r \in DOMAIN box
    /\ BoxBecomes(Drop(box, r))
    /\ AppActs
    /\ UNCHANGED issued

\* A rule paused until a boundary is enabled again when the boundary passes.
BoxResumes(r) ==
    /\ r \in DOMAIN box
    /\ ~box[r].enabled
    /\ box[r].idleTs # NoTime
    /\ BoxBecomes(Put(box, r, WithControl(box[r], Enabled)))
    /\ UNCHANGED <<issued, appSteps, viewVars, poll, call>>

-----------------------------------------------------------------------------
(* One refresh: _async_update_data.                                        *)

SendPoll(p) ==
    /\ poll[p].phase = "idle"
    /\ poll' = [poll EXCEPT ![p] = [phase |-> "sent", snapshot |-> NoListing]]
    /\ UNCHANGED <<boxVars, viewVars, call, settled>>

\* The box answers from its state now; the answer is only published later,
\* after the network-usage and internet-quality fetches have been awaited.
BoxAnswersPoll(p) ==
    /\ poll[p].phase = "sent"
    /\ poll' = [poll EXCEPT ![p] = [phase |-> "answered", snapshot |-> Listing(box)]]
    /\ UNCHANGED <<boxVars, viewVars, call, settled>>

\* Faulty variant: a failed fetch empties the cache.
PollFailsEmpties(p) ==
    /\ poll[p].phase \in {"sent", "answered"}
    /\ poll' = [poll EXCEPT ![p] = IdlePoll]
    /\ data' = NoListing
    /\ index' = IndexOf(data')
    /\ matching' = MatchingOf(index')
    /\ lastUpdateSuccess' = FALSE
    /\ UNCHANGED <<boxVars, call, settled>>

\* The fetch fails, or its payload has no hosts: UpdateFailed, data is kept.
PollFails(p) ==
    /\ poll[p].phase \in {"sent", "answered"}
    /\ poll' = [poll EXCEPT ![p] = IdlePoll]
    /\ lastUpdateSuccess' = FALSE
    /\ UNCHANGED <<boxVars, data, index, matching, call, settled>>

\* Faulty variant: the answer is merged into the cache, rules that the box no
\* longer lists stay.
PublishPollMerges(p) ==
    /\ poll[p].phase = "answered"
    /\ data' = [r \in Rules |-> IF poll[p].snapshot[r] = <<>> THEN data[r]
                                ELSE poll[p].snapshot[r]]
    /\ index' = IndexOf(data')
    /\ matching' = MatchingOf(index')
    /\ lastUpdateSuccess' = TRUE
    /\ poll' = [poll EXCEPT ![p] = IdlePoll]
    /\ UNCHANGED <<boxVars, call, settled>>

\* Everything after the last await: the manager rebuilds its indexes from the
\* snapshot and the coordinator publishes the same snapshot.
PublishPoll(p) ==
    /\ poll[p].phase = "answered"
    /\ data' = poll[p].snapshot
    /\ index' = IndexOf(data')
    /\ matching' = MatchingOf(index')
    /\ lastUpdateSuccess' = TRUE
    /\ poll' = [poll EXCEPT ![p] = IdlePoll]
    /\ UNCHANGED <<boxVars, call, settled>>

-----------------------------------------------------------------------------
(* One command, up to the moment its request leaves.                       *)

Issue(c, phase, op, r, k, x) ==
    /\ call[c].phase = "new"
    /\ call' = [call EXCEPT ![c] = [phase |-> phase, op |-> op, rule |-> r,
                                    control |-> k, content |-> x]]
    /\ UNCHANGED <<boxVars, viewVars, poll, settled>>

\* A switch is unavailable after a failed refresh and while its rule is gone.
SwitchAvailable(t) == lastUpdateSuccess /\ matching[t] # <<>>

SwitchControl(on) == IF on THEN Enabled ELSE Disabled(NoTime)

\* The whole cached rule is sent with the two control fields replaced.
TurnSwitch(c, t, on) ==
    /\ SwitchAvailable(t)
    /\ matching[t][1].enabled # on
    /\ Issue(c, "sent", "switch", t, SwitchControl(on), matching[t][1].content)

\* async_turn_on returns when the switch is on; no enabled rule to turn off.
SkipSwitch(c, t, on) ==
    /\ SwitchAvailable(t)
    /\ matching[t][1].enabled = on
    /\ Issue(c, "skipped", "switch", t, SwitchControl(on), KeepContent)

Resolves(r) ==
    \/ r \in DOMAIN index
    \/ r \in Selected /\ matching[r] # <<>>

PauseRule(c, r, until) ==
    /\ Resolves(r)
    /\ Issue(c, "sent", "control", r, Disabled(until), KeepContent)

ResumeRule(c, r) ==
    /\ Resolves(r)
    /\ Issue(c, "sent", "control", r, Enabled, KeepContent)

CreateRule(c, x) == Issue(c, "sent", "create", NoRule, Enabled, x)

DeleteRule(c, r) ==
    /\ r \in DOMAIN index
    /\ Issue(c, "sent", "delete", r, Enabled, KeepContent)

\* pause_rule or resume_rule of an id that neither the index nor a template
\* resolves; delete_rule of an id the index does not hold.
ControlNotFound(c, r) ==
    /\ ~Resolves(r)
    /\ Issue(c, "notFound", "control", r, Enabled, KeepContent)

DeleteNotFound(c, r) ==
    /\ r \notin DOMAIN index
    /\ Issue(c, "notFound", "delete", r, Enabled, KeepContent)

-----------------------------------------------------------------------------
(* What happens to the request.                                            *)

Moves(c, phase) == call' = [call EXCEPT ![c].phase = phase]

\* The fields of an update payload replace the stored ones, the others stay.
Updated(e, cl) ==
    IF cl.content = KeepContent
    THEN WithControl(e, cl.control)
    ELSE WithControl([e EXCEPT !.content = cl.content], cl.control)

BoxUpdates(c) ==
    /\ call[c].phase = "sent"
    /\ call[c].op \in {"switch", "control"}
    /\ call[c].rule \in DOMAIN box
    /\ BoxBecomes(Put(box, call[c].rule, Updated(box[call[c].rule], call[c])))
    /\ Moves(c, "acked")
    /\ UNCHANGED <<issued, appSteps, viewVars, poll>>

BoxCreates(c, r) ==
    /\ call[c].phase = "sent"
    /\ call[c].op = "create"
    /\ r \notin issued
    /\ issued' = issued \cup {r}
    /\ BoxBecomes(Put(box, r, EntryOf(Enabled, call[c].content)))
    /\ call' = [call EXCEPT ![c].phase = "acked", ![c].rule = r]
    /\ UNCHANGED <<appSteps, viewVars, poll>>

BoxDeletes(c) ==
    /\ call[c].phase = "sent"
    /\ call[c].op = "delete"
    /\ call[c].rule \in DOMAIN box
    /\ BoxBecomes(Drop(box, call[c].rule))
    /\ Moves(c, "acked")
    /\ UNCHANGED <<issued, appSteps, viewVars, poll>>

\* The rule is already gone: the box may say so (RequestFails) or answer 200.
BoxIgnores(c) ==
    /\ call[c].phase = "sent"
    /\ call[c].op \in {"switch", "control", "delete"}
    /\ call[c].rule \notin DOMAIN box
    /\ Moves(c, "acked")
    /\ UNCHANGED <<boxVars, viewVars, poll, settled>>

\* Refused or never delivered; or carried out and the answer lost.  The caller
\* gets a FirewallaApiError either way and nothing is applied in memory.
RequestFails(c) ==
    /\ call[c].phase \in {"sent", "acked"}
    /\ Moves(c, "failed")
    /\ UNCHANGED <<boxVars, viewVars, poll, settled>>

-----------------------------------------------------------------------------
(* The rest of the command, after the awaited request returned.            *)

\* Nothing under way can still hide command c: no refresh holds an answer that
\* may be older, no other command on the rule is unfinished, and both the box
\* and the index (as this step leaves it) are as the command wants them.
Undisturbed(c) ==
    /\ \A p \in Polls : poll[p].phase # "answered"
    /\ \A d \in Calls \ {c} :
          call[d].rule = call[c].rule => call[d].phase \notin {"sent", "acked"}
    /\ Reflects(box, c)
    /\ Reflects(index', c)

Finish(c) ==
    /\ Moves(c, "done")
    /\ settled' = IF Undisturbed(c) THEN settled \cup {c} ELSE settled
    /\ UNCHANGED <<boxVars, poll>>

\* Faulty variants: the matching map is not rebuilt; the boundary is not cleared.
UpdateReturnsIndexOnly(c) ==
    LET r == call[c].rule IN
    /\ call[c].phase = "acked"
    /\ call[c].op \in {"switch", "control"}
    /\ data' = [data EXCEPT ![r] = [i \in DOMAIN data[r] |->
                                      WithControl(data[r][i], call[c].control)]]
    /\ index' = IndexOf(data')
    /\ lastUpdateSuccess' = TRUE
    /\ Finish(c)
    /\ UNCHANGED matching

UpdateReturnsKeepsBoundary(c) ==
    LET r == call[c].rule IN
    /\ call[c].phase = "acked"
    /\ call[c].op \in {"switch", "control"}
    /\ data' = [data EXCEPT ![r] = [i \in DOMAIN data[r] |->
                                      [data[r][i] EXCEPT !.enabled = call[c].control.enabled]]]
    /\ index' = IndexOf(data')
    /\ matching' = MatchingOf(index')
    /\ lastUpdateSuccess' = TRUE
    /\ Finish(c)

\* _apply_optimistic_rule_update: rewrite the entries of the published
\* snapshot, route the result through handle_refresh and publish it.
UpdateReturns(c) ==
    LET r == call[c].rule IN
    /\ call[c].phase = "acked"
    /\ call[c].op \in {"switch", "control"}
    /\ data' = [data EXCEPT ![r] = [i \in DOMAIN data[r] |->
                                      WithControl(data[r][i], call[c].control)]]
    /\ index' = IndexOf(data')
    /\ matching' = MatchingOf(index')
    /\ lastUpdateSuccess' = TRUE
    /\ Finish(c)

\* _register_created_rule; the matching map is left as it is.
CreateReturns(c) ==
    LET r == call[c].rule
        e == EntryOf(Enabled, call[c].content) IN
    /\ call[c].phase = "acked"
    /\ call[c].op = "create"
    /\ index' = Put(index, r, e)
    /\ data' = [data EXCEPT ![r] = Append(data[r], e)]
    /\ lastUpdateSuccess' = TRUE
    /\ Finish(c)
    /\ UNCHANGED matching

\* The box did not report the new id: nothing is registered.
CreateReturnsNoId(c) ==
    /\ call[c].phase = "acked"
    /\ call[c].op = "create"
    /\ Moves(c, "unregistered")
    /\ UNCHANGED <<boxVars, viewVars, poll, settled>>

\* Faulty variants: the matching map loses the template; the snapshot keeps
\* the rule.
DeleteReturnsPopsTemplate(c) ==
    LET r == call[c].rule IN
    /\ call[c].phase = "acked"
    /\ call[c].op = "delete"
    /\ r \in DOMAIN index
    /\ index' = Drop(index, r)
    /\ matching' = Drop(matching, r)
    /\ data' = [data EXCEPT ![r] = <<>>]
    /\ lastUpdateSuccess' = TRUE
    /\ Finish(c)

DeleteReturnsKeepsSnapshot(c) ==
    LET r == call[c].rule IN
    /\ call[c].phase = "acked"
    /\ call[c].op = "delete"
    /\ r \in DOMAIN index
    /\ index' = Drop(index, r)
    /\ matching' = [t \in Selected |-> IF t = r THEN <<>> ELSE matching[t]]
    /\ lastUpdateSuccess' = TRUE
    /\ Finish(c)
    /\ UNCHANGED data

DeleteReturns(c) ==
    LET r == call[c].rule IN
    /\ call[c].phase = "acked"
    /\ call[c].op = "delete"
    /\ r \in DOMAIN index
    /\ index' = Drop(index, r)
    /\ matching' = [t \in Selected |-> IF t = r THEN <<>> ELSE matching[t]]
    /\ data' = [data EXCEPT ![r] = <<>>]
    /\ lastUpdateSuccess' = TRUE
    /\ Finish(c)

\* `del self._rule_index[...]` when the id has left the index meanwhile.
DeleteRaises(c) ==
    /\ call[c].phase = "acked"
    /\ call[c].op = "delete"
    /\ call[c].rule \notin DOMAIN index
    /\ Moves(c, "keyError")
    /\ UNCHANGED <<boxVars, viewVars, poll, settled>>

-----------------------------------------------------------------------------
Environment ==
    \E r \in Rules :
        \/ \E k \in Controls, x \in Contents : AppUpdates(r, k, x) \/ AppCreates(r, k, x)
        \/ AppDeletes(r)
        \/ BoxResumes(r)

Refresh ==
    \E p \in Polls :
        SendPoll(p) \/ BoxAnswersPoll(p) \/ PollFails(p) \/ PublishPoll(p)

Begin(c) ==
    \/ \E t \in Selected, on \in BOOLEAN : TurnSwitch(c, t, on) \/ SkipSwitch(c, t, on)
    \/ \E r \in Rules :
          \/ \E until \in Times \cup {NoTime} : PauseRule(c, r, until)
          \/ ResumeRule(c, r)
          \/ DeleteRule(c, r)
          \/ ControlNotFound(c, r)
          \/ DeleteNotFound(c, r)
    \/ \E x \in Contents : CreateRule(c, x)

Deliver(c) ==
    \/ BoxUpdates(c)
    \/ \E r \in Rules : BoxCreates(c, r)
    \/ BoxDeletes(c)
    \/ BoxIgnores(c)
    \/ RequestFails(c)

Return(c) ==
    \/ UpdateReturns(c)
    \/ CreateReturns(c)
    \/ CreateReturnsNoId(c)
    \/ DeleteReturns(c)
    \/ DeleteRaises(c)

Next ==
    \/ Environment
    \/ Refresh
    \/ \E c \in Calls : Begin(c) \/ Deliver(c) \/ Return(c)

Spec == Init /\ [][Next]_vars

\* Home Assistant schedules the next refresh after every refresh, failed or
\* not, and the box is reachable again and again.  No fairness is assumed of
\* the app, of the commands or of their callers.
FairSpec ==
    /\ Spec
    /\ \A p \in Polls :
          /\ WF_vars(SendPoll(p))
          /\ SF_vars(BoxAnswersPoll(p))
          /\ SF_vars(PublishPoll(p))

-----------------------------------------------------------------------------
(* Properties.                                                             *)

Phases == {"new", "sent", "acked", "done", "failed", "skipped", "notFound",
           "unregistered", "keyError"}
Ops == {"none", "switch", "control", "create", "delete"}

PollRecord == [phase : {"idle", "sent", "answered"}, snapshot : [Rules -> Seq(Entry)]]
CallRecord == [phase : Phases, op : Ops, rule : Rules \cup {NoRule},
               control : Controls, content : Contents \cup {KeepContent}]

\* Types of the box's rules, of the two cached views and of what is under way.
TypeOK ==
    /\ box \in RuleMaps
    /\ issued \subseteq Rules
    /\ appSteps \in 0..MaxAppSteps
    /\ held \in [Rules -> SUBSET Control]
    /\ data \in [Rules -> Seq(Entry)]
    /\ index \in RuleMaps
    /\ matching \in [Selected -> Seq(Entry)]
    /\ lastUpdateSuccess \in BOOLEAN
    /\ poll \in [Polls -> PollRecord]
    /\ call \in [Calls -> CallRecord]
    /\ settled \subseteq Calls

\* "Both views of an inventory are republished together": the id index of the
\* rule manager is the one its published rule tuple yields, whichever refresh,
\* command or mixture of them wrote last.
ViewsAgree == index = IndexOf(data)

\* A selected switch controls exactly the rule of its id that the index holds:
\* no toggle acts on a rule a delete or a refresh has taken away, and a switch
\* is unavailable exactly while its rule is not in the index.
SwitchesFollowIndex == matching = MatchingOf(index)

\* The cache never invents a rule state: whatever enabled flag and pause
\* boundary it shows for a rule the box still has, the box has had them too,
\* though perhaps no longer.  An optimistic update is what the box was told.
NoPhantomControl ==
    \A r \in DOMAIN box : \A i \in DOMAIN data[r] : ControlOf(data[r][i]) \in held[r]

\* "The coordinator refresh remains the later source of truth": once the app and
\* the commands have stopped, the cache comes to be the box's rules and stays so,
\* whatever failed, was lost, overlapped or was answered before a write.
Converges == <>[](data = Listing(box))

\* "A successful command must update in-memory runtime state, so the next read
\* agrees with it": a command that finished while no refresh held an answer and no
\* other command on its rule was unfinished stays visible in the index until the
\* box itself changes the rule, through every later refresh, command, failure and
\* lost answer.
SettledWritesShow == \A c \in settled : Reflects(index, c)

\* async_delete_rule answers True or False; it does not fail after the box has
\* deleted the rule.
DeleteAnswers == \A c \in Calls : call[c].phase # "keyError"

-----------------------------------------------------------------------------
(* The strengthenings that make the safety invariants inductive.           *)

\* Only ids the box has issued are known anywhere, and a rule created by a
\* command never has the id of a selected template.
IdsIssued ==
    /\ DOMAIN box \subseteq issued
    /\ Selected \subseteq issued
    /\ DOMAIN index \subseteq issued
    /\ \A r \in Rules : data[r] # <<>> => r \in issued
    /\ \A p \in Polls, r \in Rules : poll[p].snapshot[r] # <<>> => r \in issued
    /\ \A c \in Calls :
          /\ call[c].op = "create" => /\ call[c].rule \notin Selected
                                      /\ call[c].control = Enabled
                                      /\ call[c].content \in Contents
          /\ \/ call[c].phase \in {"acked", "done"}
             \/ call[c].phase = "sent" /\ call[c].op # "create"
             => call[c].rule \in issued

\* A control reaches a view from the box, from a refresh the box answered or
\* from a command the box carried out.
BoxHeld == \A r \in DOMAIN box : ControlOf(box[r]) \in held[r]
AnswersHeld ==
    \A p \in Polls, r \in DOMAIN box : \A i \in DOMAIN poll[p].snapshot[r] :
        ControlOf(poll[p].snapshot[r][i]) \in held[r]
CommandsHeld ==
    \A c \in Calls :
        /\ call[c].phase = "acked"
        /\ call[c].op \in {"switch", "control", "create"}
        /\ call[c].rule \in DOMAIN box
        => call[c].control \in held[call[c].rule]
HeldInv == NoPhantomControl /\ BoxHeld /\ AnswersHeld /\ CommandsHeld

\* Nothing under way contradicts a settled command.
SettledInv ==
    /\ \A d \in Calls :
          call[d].phase = "acked" /\ call[d].op = "delete"
             => call[d].rule \notin DOMAIN box
    /\ \A c \in settled :
          /\ call[c].phase = "done"
          /\ Reflects(box, c)
          /\ Reflects(index, c)
          /\ \A p \in Polls : poll[p].phase = "answered"
                                => Reflects(IndexOf(poll[p].snapshot), c)
          /\ \A d \in Calls :
                call[d].phase = "acked" /\ call[d].rule = call[c].rule
                   => /\ call[d].op # "create"
                      /\ call[d].op \in {"switch", "control"}
                            => call[c].op = "delete" \/ call[d].control = call[c].control
=============================================================================
