# Firewalla Local for Home Assistant: verification project

TLA+ models of the `firewalla_local` integration (`custom_components/firewalla_local/`, to
which the paths below are relative), TLC configurations that check them on small instances
and TLAPS proofs. `PROJECT.json` maps every definition that models
code to its lines and lists runs, mutants, hazards, findings and theorems.

The integration polls a Firewalla box over its local API, caches one snapshot of it, shows
the snapshot as entities and lets switches, services and tools write to the box. Home
Assistant runs it on one event loop: code between two `await`s is one atomic step, and every
`await` is a point where another command, the refresh, a reload or the user may run. That is
what goes wrong in such code and what the models are about: reads and writes of caches on
the two sides of an await, lost or late answers, whole-object writes built from a stale
cache, options captured at one moment and compared at another, names resolved in a view that moves
while the box is asked, and answers that claim more than was done.

## 1. Inventory

| Part | State | Operations | Hard behaviour | What makes it correct |
|---|---|---|---|---|
| Refresh coordinator (`coordinator.py`) | `data`, `last_init_payload`, captured flags, `last_update_success` | `_async_update_data`, options listener | payload stored before it is checked, awaits between answer and publication, writes overlap | later refreshes win; managers and snapshot agree |
| Rule control (`managers/rule_manager.py`, `switch.py`) | `_rule_index`, matching templates, snapshot | enable, disable, pause, resume, create, delete | gather over several rules, optimistic update, rule removed during an await | three views are one view; no invented state; a finished write stays visible |
| Wireless (`managers/wireless_manager.py`) | `_last_payload` (the networkConfig object) | `async_set_ssid_paused` | read-modify-write of the whole object | a toggle changes one profile; an undisturbed toggle is kept |
| Alarms (`managers/alarm_manager.py`) | list, two counts, exceptions, in manager and snapshot | archive, delete, bulk forms, mute, unmute | the list is capped, the counts are not | listed alarms are counted; "complete" is true |
| Hosts (`managers/host_manager.py`, `integration_manager.py`, host services) | index, snapshot, raw payload | name, hostname, type, notifications, reservation, list deletion | two caches replaced at different moments, whole-map writes | views agree; no invented setting; a write touches its own field |
| Entry lifecycle (`__init__.py`, listener, reconcilers, platforms) | options, captured selections, registries, runtime data | setup, unload, reload, retry, prune | saves while a setup awaits, late refreshes, queued reloads | entities are those selected, registries hold nothing else |
| Options flow (`config_flow.py`) | the stored options | one form per surface | submitted while there is no runtime data | stored selections survive a form that does not touch them |
| Pairing, reauthentication (`config_flow.py`, `api/auth.py`) | pending payload per license | cloud login, group poll, local validation | two nested retries with time limits | ends in an entry or an error within the limit |
| Local transport (`api/client.py`) | none but "unavailable" logging | encrypted request, one retry on 401, error mapping | lost answers, applied or not | an error is never taken for an answer |
| Flow reports (`managers/flow_manager.py`, `utils/flow*.py`) | cursor, seen rows | paging, sampling | cursor that does not advance, deadline, duplicates, a log that changes while it is read | what stayed in the log is in an answer that is whole |
| Inventory (`api/client.py`, `utils/network.py`) | none | a payload becomes the view | one fact derived in two places, records the box leaves half empty | lists, labels and selectors say the same of one box |
| Selectors (`utils/selectors.py`, the resolvers of `services.py`) | none | a name or an identifier becomes a host, group, user, network or WAN | ambiguity, exclusive fields, identifiers of several kinds | every read and write is about what was named |
| Services (`services.py`) | none of their own | validate, refresh, resolve, ask or command the box, publish, answer | targets that leave the view, several steps of which one fails | partial failure is reported, nothing asked for is silently absent |
| Model-context tools (`llm_*.py`) | the mode the user chose | offer tools, check arguments, call a service, answer before, after and undo | claims composed from what was read before the call | what is claimed holds; a mode cannot do what it does not offer |
| Host activity (`utils/host_activity.py`) | none | what "connected" means | reference taken from a subset, the boundary of the window | every surface gives one answer |
| Rule schedules (`models.py`) | none | pure functions of times | boundaries | not modelled |
| Durations (`utils/duration.py`) | none | a text becomes seconds | texts that are none | which texts are durations, not how long |
| Sensors, diagnostics, users | none | format the views | none | not modelled |

Managers call the client and publish through `coordinator.async_set_updated_data`; a refresh
calls `handle_refresh` of each manager; entities are listeners of the coordinator; services
reach managers through `entry.runtime_data`, which exists from the end of a setup's first
refresh to the end of the unload.

## 2. Modules

Each of the four cache modules (`RuleControl`, `WirelessConfig`, `AlarmInventory`,
`HostInventory`) has the same shape. The **box** is a variable that its app and the delivery
of a command change. A **refresh** is sent, answered (it then holds a copy of the box) and
published, in three steps, because `_async_update_data` awaits the request and then the
network statistics (`coordinator.py:275`) before it feeds the managers and returns. A
**command** is issued (guards and early returns decided on the cache of that moment),
applied by the box, answered (the optimistic update is applied to the cache of *that*
moment) or fails, before or after the box applied it. A history variable records what a
property needs to refer to: `held` is every value the box has had, `settled` the commands
that finished while nothing under way could hide them.

- **RuleControl**: `async_set_template_enabled`, `async_pause_rule`, `async_resume_rule`,
  `async_create_rule`, `async_delete_rule` and the two rule switches. `data`, `index`,
  `matching` are the snapshot, the index and the matching rules of the templates; a rule is
  its two control fields (`enabled`, `idleTs`) and a content. `DeleteReturns` contains the
  `KeyError` of an id that left the index. `MCRuleControl` adds the symmetry.
- **WirelessConfig**: the object as a map from profile to paused flag and a `rest`; a toggle
  sends the whole object.
- **AlarmInventory**: the status of each alarm on the box, the cached `View` of the manager
  and of the snapshot, counts changed by deltas, silences. Bulk forms included.
- **HostInventory**: names (one field for the three string settings) in snapshot and index,
  policies in the raw payload; a list deletion is a sequence of deletions with the reread of
  an unknown host in front; a payload without hosts replaces the raw payload and is then
  rejected.
- **EntryLifecycle**: options, the captured selections (`run`), the listener, the setup
  states of Home Assistant, the platforms, both registries, requested refreshes and those
  that outlive their setup. Rule switches, trackers and SSID switches stand for all
  families.
- **LocalTransport**: what one request may come back with: an answer, a refusal, a protocol
  error, a lost connection; a 401 is sent once more.
- **Pairing**: both config flow forms against the cloud, two boxes and their entries: login
  and link, the polls of the group with a new login half-way, the validation of the local
  runtime with its limits, the payload cached per license, the entry stored or updated, its
  setup, refreshes and the reauthentication a refusal starts. It composes LocalTransport.
- **Inventory**: the normalisation of a payload into the *view* the services answer from: which
  interfaces are networks and how they are named, hosts and VPN peers with name and membership,
  tags as groups or users, what rules apply to, alarms and measurements.
- **Selectors**: pure operators over a *view* (hosts, networks, tags, rules): which fields may
  be given together, what a text matches, and the resolvers of the services with their errors.
  `MacAddresses` are the host ids of the form of a MAC: those can be woken, and a host list calls
  every other id a pseudo host.
- **ControlServices**: the services that write, as a plan: the requests in their order, what is
  published afterwards, what is reported. **ControlTools**: each control tool's arguments, the
  service data it builds, its precheck, its claims, and the parameters it takes, which it checks
  itself. **ToolCalls** composes them with the box, the polls and the app: a call may refresh,
  resolves its target, sends its requests one by one, each applied or not and answered or not,
  publishes and answers.
- **ReportServices**: the services that read: fields, targets, the reads they ask the box for,
  the sections an answer carries, and what is answered from the view alone. **Reports**
  composes it with the box, the polls, the logs and Inventory (a box is a payload, what is seen
  of it is what the client makes of it) in the same way. **LogRead** is the abstract
  specification of a log read (an answer holds only records that were in the log during the
  read, and a whole one all that stayed in it); Reports implements it by paging, under the
  refinement mapping `Log` (a walk under way is a read, its `kept` and `met` are history the
  program does not know).
- **MC...**: the constants of the instances. **...Proofs** (of `RuleControl`,
  `WirelessConfig`, `AlarmInventory`, `HostInventory`, `EntryLifecycle`, `Pairing`, `Reports`,
  `ToolCalls`): the theorems and proofs about these modules.

What the models leave out of a modelled part, as assumptions: every cached rule payload carries
`idleTs`; options of the older format without templates; ids are never reused by the box; the
availability of an SSID switch after a failed refresh; alarm ids are known only after the alarm
fired; which alarms a capped list shows is left open; what the box does on mute and archive is
taken from `docs/REVERSE_ENGINEERING_WORKFLOW.md`, Finding 28 (external); the box's own host is
in every healthy payload; in EntryLifecycle the box lists the same SSIDs and access points
throughout and one refresh at a time outlives its setup. In Pairing one form is open at a time,
addresses are left out, and a request that is refused was not applied. In ToolCalls and Reports
one call of a client is under way at a time, and the mode does not change during it; the caches
behind a view (snapshot, indexes, raw payload) are one view here, for their differences are the
subject of the cache modules. A refresh a service requests may return at any time, because the
debouncer may join it to an earlier poll. In Reports the cursor of the box is inclusive (its
page holds records not newer than it), records that are equal in every field are one record, the
deadline of a walk may come at any page, and the records of a log change only while one is
walked, since no one else sees them. In Inventory what a box is, is `Regular`: there are
finitely many hosts, peers and rules; no two hosts, and no two peers, have one address, nor two
rules, interfaces, profiles or WAN states one id; a tag belongs to one user at most, who has a
name, is of type `user` and finds the tag among the box's tags; no host names its network by an
interface other than a VPN's; and the prefix of a VPN peer keeps its address from having the
form of a MAC. Of the ways in which whose a tag is can be answered differently
(`client.py:2181`), a record of another type that names a tag is thus assumed away and no
property catches it (section 5 says what it does); a tag with a name of its own left over is in
the instance. Addresses come in the form the host index uses, and several names joined into one
text are a text of their own.

## 3. Runs

| Run | Instance | Shows |
|---|---|---|
| `rule_safety` | 2 rules (1 exists), 2 commands, 1 refresh, 1 app step, 1 boundary | views agree, switches follow the index, nothing invented, settled writes stay |
| `rule_converge` | 2 refreshes, 1 command, fair | the cache comes to be the box, whatever was lost |
| `wireless_safety` | 2 profiles, 2 toggles, 1 app step, fair | nothing invented, settled toggles shown and kept on the box, convergence |
| `alarm_safety` | 2 alarms of which a payload lists 1, 1 silence, 2 operations | list and counts consistent, "complete" hides no alarm, removed alarms stay removed |
| `host_safety` | 2 hosts, 2 networks, 2 calls, 1 app step, 1 degraded answer | caches agree, nothing invented, settled writes stay |
| `entry_lifecycle` | 1 rule, 1 host, 1 SSID, 1 access point, 4 saves, requested reloads or box changes, fair | settled entries show their options, registries follow, trackers keep their identity, every reload ends |
| `pairing` | 2 licenses, 2 pairings, limits scaled down, fair | the validation uses its time and no more, no entry gets the account of another box, a new entry finds its payload, pairing ends, entries come to show their box |
| `tool_calls` | every control tool, 2 calls, 1 app move, 3 modes | what is claimed as applied is so on the box, "updated" views agree, a membership moves after its rules are gone, a mode removes nothing it must not |
| `reports` | 35 questions to 15 services, 2 payloads, 2 log moves, pages of 2, fair | every read is about what was named, sections are accounted for, samples span their window, overview and lists count alike, host list, rule list and selectors agree on whose a tag is; LogRead is implemented; every question ends |
| `rule_delete_answers` | as `rule_safety` | finding: `KeyError` after a successful deletion |
| `host_one_network` | as `host_safety` | finding: after a payload without hosts a reservation erases another |
| `tool_ssid` | as `tool_calls` | finding: the tool that pauses an SSID resumes it |

**Bounds.** Every hazard listed needs at most two commands, or a command and a refresh, on one
object, with one other object to be confused with: two commands, one refresh and one change by
the app contain every pair of them in every order. `MaxAppSteps` bounds changes by the app,
`MaxDegraded` answers without hosts, `MaxSteps` saves, requested reloads and box changes
together; calls are bounded by `Calls`, each issued once; refreshes are unbounded in number (the
one under way is reused). `ListCap = 1` with two alarms reaches both the complete and the capped
list. In `ToolCalls` two calls contain a tool and its undo, and one app move every change
between the steps of one call. In `Reports` the two boxes differ in every part a question may
name: a host, a segment and a tag are gone, a user has another tag, alarms and measurements are
others; one host is exactly at the end of the online window; of the payload's interfaces one is
no network and one carries a bridge, one network is named by a profile only and one by the
monitor only; a user's tag has a former name of its own, one host goes by an id that is no MAC,
one has a user on its own record, and a host, a rule and an alarm come without their id; two of
three records share a timestamp, so that with pages of two a cursor stands still, and two moves
add and drop records in the middle of a walk. `Pairing` scales the 90 s of the code to a few
attempts of each interval. Four steps in `EntryLifecycle` suffice for a save that triggers a
reload, a second save during it, a box change and a requested reload.

**Symmetry** is used in the safety runs only, over identical calls and values.

**Refreshes.** Home Assistant's debouncer lets one refresh of a coordinator run at a time, so
the safety runs use one. RuleControl takes any number of overlapping refreshes and its
theorems hold for it; `rule_converge` uses two.

**Fairness.** Home Assistant always schedules the next refresh, after a failed one too (weak
fairness of sending), and the box is assumed reachable again and again (strong fairness of its
answer and of the publication). In `EntryLifecycle` Home Assistant carries on with a setup, an
unload, a queued reload and the retry of a failed setup (weak fairness) and the box answers a
first refresh again and again (strong). Nothing is assumed of the user, the app or a command: it
may stay unanswered for ever. In `Pairing` the cloud and the box answer or the client's timeout
ends the attempt (weak), the box answers an entry that it accepts again and again (strong), and
Home Assistant reloads and refreshes. In `Reports` a request is answered unless it fails (the
client has a timeout), a refresh returns and a zone is loaded (weak); nothing is assumed of the
clock, so a walk has to end by its own guard and not by its deadline. Deadlock is switched off
only in the `EntryLifecycle` configurations, where a loaded entry may rest once the bound is
used up.

**Safety under disturbance.** `SettledWritesShow` and its siblings speak of commands that
finished while no refresh held an older answer and no other command on the object was
unfinished. That restriction is not modelling convenience: without it the property is false,
because a refresh answered before the command publishes after it. `Converges` says that this
is repaired.

## 4. Proofs (TLAPS)

Each proof module proves, for every value of the constants its assumptions admit, what the
runs check on one instance. The theorems are about `Spec`, which states no fairness. All have
the same shape: lemmas about the operators of the module, one lemma per action or group of
actions that says the step preserves `IInv`, an invariant theorem (`Spec => []IInv`), and one
short theorem for each property. Each `IInv` was checked by TLC on the instance of the run
before it was proved; what `IInv` adds to the properties is why they hold.

`RuleControlProofs`, for any sets of rules, commands, overlapping refreshes, times and
contents and any bound:

- `TypeCorrect`: `Spec => []TypeOK`, by `TypeInv`, one lemma per group of actions.
- `ViewsAlwaysAgree`, `SwitchesAlwaysFollow`: index, snapshot and matching rules stay one
  view. Inductive over `TypeInv` and `ViewsInv`; needs `IdsIssued`, because a rule that a
  command creates is added to the index and to the snapshot and must not already be in
  either.
- `CacheNeverInvents`: `Spec => []NoPhantomControl`. By itself not inductive: a publication
  copies an answer and an answered command copies its argument, so `HeldInv` adds that
  answers and applied commands were held by the box.
- `SettledWritesStayVisible`: `Spec => []SettledWritesShow`. `SettledInv` adds that no answer
  under way and no applied command contradicts a settled one.

They rest on the assumptions of the module (`RulesAssumption`, `DataAssumption`,
`MaxAppStepsAssumption`) and nothing else.

`WirelessConfigProofs`, for any profiles, settings, calls and any bound (one refresh
at a time, as Home Assistant runs them):

- `TypeCorrect`: `Spec => []TypeOK`; the lemma about `WithPaused` is where a cached object
  stays an object of the box.
- `PausesNeverInvented`: `Spec => []NoPhantomPause`. `HeldInv` adds that the flags of every
  object under way, the one a toggle carries included, were on the box or are the one it was
  issued with.
- `SettledTogglesStayVisible`: `Spec => []SettledTogglesShow`, by `SettledInv`: the answer
  under way shows a settled toggle, and so does every object that was sent for another
  network. Here is why undisturbed toggles of different networks do not undo each other
  although each replaces the whole object: the later object was built from a cache that
  already shows the earlier toggle.
- `SettledTogglesStayOnBox`: `Spec => SettledTogglesKept`, the action property, from the same
  invariant.

It rests on `ProfilesAssumption`, `SettingsAssumption` and `MaxAppStepsAssumption`.

`AlarmInventoryProofs`, for any number of alarms, silences and operations and any cap of the
list:

- `TypeCorrect`, `ViewsAlwaysAgree`; `ListedAlwaysCounted`: the count, changed by deltas, never
  falls below the list. It needs that an alarm that an operation takes out of the list was
  counted, a fact about cardinalities (`FiniteSetTheorems`).
- `NoFalseCompleteness`: `Spec => []CompleteMeansAll`. `CompleteInv` speaks of the alarms the
  box had when it answered, not of those it has now; `AnswerInv` says the same of an answer
  not yet published.
- `RemovedNeverReturns`: `Spec => []RemovedStaysRemoved`, by `SettledInv`: what was archived or
  deleted undisturbed is gone from the box for good and in no answer under way.

Assumptions: finitely many alarms, two values that are no alarm and no silence, bounds in Nat.

`HostInventoryProofs`, for any hosts, networks, calls and degraded answers: `TypeCorrect`,
`ViewsAlwaysAgree`, `CachesNeverInvent` (`HeldInv`: box, answer and accepted request hold
only values the box has had) and `SettledWritesStayVisible`. The last needs three facts that
tie a settled write to the two caches replaced at different moments: the box still is as it
left it (`SettledOnBox`), so is the part of an answer that is still to be stored
(`SettledInAnswer`), and no request under way says otherwise (`SettledUncontested`).

`EntryLifecycleProofs`, for any rules, hosts, SSIDs and access points and any number of saves
and reloads: `TypeCorrect`, `SelectedIsShown`, `NothingStaysBehind` and the action property
`IdentityIsKept` (a tracker that stays selected keeps its registry entry through failed
setups and reloads). The invariant follows an undisturbed setup: its first refresh awaits with the
options of the moment (`CapturedInv`), the registries then hold the trackers captured
(`TrackersInv`), and while no reload waits the platforms have added what the options select
(`FollowedInv`).

`PairingProofs`, for any boxes, pairings, intervals and limits: `TypeCorrect`,
`ValidationInTime` (`FlowInv`: the three messages of an attempt add to its time one after the
other), `AccountsAreKept` (`CredentialsInv`: the credentials of a pairing are new, linked with
one group and stored only at its end) and `PayloadIsThere`. Intervals and attempts are assumed
positive, as the constants of `const.py` are.

`ReportsProofs`, for any payloads, questions, logs and page size: `ReportsInvariant`,
`TypeCorrect`, and the refinement `ReadsAreWhole`: `Spec => WholeLogRead`, every step of a walk
maps to a step of `LogRead` or a stutter. `WalkInv` carries it: every record above the cursor
that stayed in the log is among the rows, so that when the cursor is used up, all are. The
argument is about the inclusive cursor, the duplicates and the guard against a cursor that does
not advance. `RecordAssumption` gives records a time in Nat, `NoneAssumption` keeps the value
that stands for "nothing" apart from every read and every walk, as Python's `None` is.

- `AnswersAreRight`: `Spec => []AnswersFit`, for each of the fifteen services. `AskedInv` (an
  invariant of its own, beside `IInv`) says that a question on its way was accepted in a mode
  that offers it, has asked nothing before it had a target (`Unread`), and from then on `Meant`
  it: target, reads and rows are those of one view the program has had, the one it resolved in,
  however often the view has been replaced since; and a live sample with nothing left to read
  has its readings or says why not (`LiveDone`). From this each part of an answer follows by a
  lemma over all views of regular payloads (`ReplyFits`): the resolvers find what the question
  named (`ReportScope`, `UsageTarget`, `FlowTarget`, `WanNamed`, `SegmentNamed`, then
  `ReadsNamed`); the sections account for what was asked (`SectionsFit`); as many readings as
  are wanted span the window (`SampleLong`), and the average divides by those that listed a host
  or, when none did, is over all of them; lists and counts agree (`HostsCounted`,
  `RulesCounted`, `NetworksCounted`), because a view has one record per address and id, and no
  peer has the address of a MAC, which the overview does not look at and the list does
  (`PeersApart`, `MacsUnique`, `RulesUnique`, `NetworksUnique`); host list, rule list and
  selectors agree on whose a tag is (`NamesListed`, `AppliesListed`, on `OneName`). That a tool
  passes nothing on that its service refuses is `ToolTaken`, and that no resolver says "not
  taken" is `TargetErrors`.

  It assumes besides that payloads are `Regular` (`PayloadAssumption`, section 2), that a field
  that is given has a value and the service is one of the fifteen (`QuestionAssumption`), that
  folding case twice is folding it once and gives a text (`CasefoldAssumption`), and that a
  sample lasts two seconds at least, an even number at most, with the defaults of service and tool
  between (`SampleAssumption`; 2 and 30, 10 and 6 in the code).

`ToolCallsProofs`, for any box, any arguments of any tool, any changes by the app and any bound:

- `ToolsInvariant`: `Spec => []IInv`. It rests on a lemma for every service (`HandleFacts`: which
  effects its plan may hold, in which order, on which rules) and every tool (`ToolFacts`: which
  service it calls), over all selectors, and on what remains of a plan when the deletions
  of rules the index no longer lists are skipped (`RemainingDoable`).
- `TypeCorrect`; `ModeKeepsTheBox`: `Spec => ModeKeepsRecords`, the action property. Nothing
  changes the box but the head of a plan (`BoxChanges`), and that is an effect of a service some
  offered tool reaches (`Reaches`).
- `RulesGoneFirst`: `Spec => RulesGoneBeforeMove`. When the tags are written they are the last
  effect of the plan (`Doable`), and a rule still to be deleted and still on the box has its
  deletion in what is left (`PlannedGone`): so there is none. The index has to list the rule
  until then, which is what a poll published meanwhile can break.
- `UpdatedIsSeen`: `Spec => UpdatedViewAgrees`. A service whose tools answer "updated" asks for
  one effect at most, one that is patched into the view (`Publishing`, `OneEffect`); patching
  any view with it shows it (`PatchShows`), and the answer leaves in the step that
  patches. The invariant this needs beyond `IInv` is `UpdatedInv`.
- `AppliedIsSo`: `Spec => []AppliedHolds`. The strengthening is `ClaimInv` of `ToolCalls`: what
  the answer will claim, with the response filled in, is the last effect of the plan (`Backed`,
  a lemma for each service and its tools: `ReservationPlans`, `CreatePlan`, `MutePlan`, ...), and
  once the box has taken the last request without a change from outside it is in effect
  (`Achieved`). A request that fails ends the call without an answer; a deletion that is skipped
  is the only effect of its plan, and a rule that is not listed is not claimed. The claim is
  what the tool computed from its arguments before it called the service: that the two agree is
  what the lemmas about the plans say, and it needs the tools to refuse arguments their own
  schemas do not have (`ParametersOf`, `llm_tools_control.py:166`): the services accept more.

Assumptions: `StartAssumption` (a box has its five parts, hosts their settings, at least one
host, finitely many rule ids), `ModesAssumption` (the modes of the options form,
`const.py:471`), `EffectsAssumption` (the app's effects create no rules, which an action of their
own does), `MarksAssumption` (the two marks a claim holds for "the target" and "the reported id"
are no argument a caller may give, nor one of the model's other marks).

Only model-checked:

- liveness (`Converges`, `Settles`, `PairingEnds`, `ViewsCatchUp`, `ReportsEnd`): fairness and
  ENABLED are out of the prover's reach;
- the three statements of the violation runs, which the code does not keep.

Every other property of a run is a theorem.

The modules hold no RECURSIVE operator.

## 5. Findings

The three violation runs: `DeleteAnswers` (a value looked up before an await and trusted after
it), `ReservationTouchesOneNetwork` (a cache replaced by a payload that is then rejected) and
`SsidAsAnswered` (two layers that read one field in opposite senses). `PROJECT.json` quotes
the sentence each contradicts.

Further disagreements met while modelling. The models contain the behaviour, and the
properties are stated so that they except exactly it:

- `switch.py:280`: a switch command is dropped when the cached rule shows the wished state,
  though `docs/ARCHITECTURE.md:605` says a pre-write read "may never suppress the write".
- `wireless_manager.py:554`: a toggle writes the whole cached object back and with it undoes
  changes of other profiles.
- `__init__.py:179`: options saved while a setup awaits its first refresh meet no listener.
- `integration_manager.py:2625`: every setup removes the registry entries of SSID switches.
- `llm_tools_control.py:1327`: `unblock_alarm_target` asks a service for a response it is not
  registered to give, so Home Assistant refuses every call of this undo.
- `services.py:5642`: a membership change skips a rule that a poll took out of the index,
  reports it as removed and moves the host (excepted in `RulesGoneBeforeMove`, with what
  the app does by itself).
- `services.py:5530`: a deletion that skipped an unknown host is answered by the tool as a
  deletion (excepted in `AppliedHolds`).
- The undo of a membership clears it and does not restore the former one; that of a resumed
  rule pauses it without its boundary.
- `flow_manager.py:306`: a record section that cannot be read fails the whole report; the
  docstring (387) promises `None`.
- `services.py:4012`: identifier fields are said to match identifiers only; `match_selector`
  falls back to names. `get_time_usage` does not take a user's tag, the flow report does.
- `services.py:4455`: of several WANs the overview shows metrics only for the one with the
  newest measurement.
- Quality and speed-test tools say that omitting the WAN means the only one; it means all.
- With a refresh, `alarm_type` filters what is left after the limit; without, before it.
- A `network_uuid` filter finds no VPN peer (peers carry the interface name), the overview
  counts them under the network (excepted in `CountsAgree`); its "offline" includes hosts of
  unknown state, the filter `online: false` does not.
- `services.py:4427`: a network of unknown interface has `None` among its keys and counts every
  host that is on no network, so its total can disagree with the list, which its docstring (4398)
  says it never can (excepted in `CountsAgree`; found when the proof of the counts failed).
- A full flow report without `fetch_all_records` says `truncated: false` with a cursor left.
- `sync_runtime` answers `synced: true` after a refresh that failed.
- `create_rule` with no id in the answer says the view was updated; nothing was added.
- `client.py:2012`: labels of hosts and rules take a tag for a user's by the raw user records, of
  whatever type; the tags that selectors resolve in take it so for records of type `user` only
  (2513). With a record of another type that names a tag, host list and selectors disagree.
- `services.py:5384`: the list calls a pseudo host what is no MAC, the overview counts as VPN peers
  what has their prefix. A host that is neither is in the list and not in the count (excepted in
  `CountsAgree`).
- `services.py:4342`: `applies_to` is compared as it is written; the group filter of the hosts
  ignores case.
- `coordinator.py:149`: the payload of a pairing aborted for the wrong account stays cached and
  may be consumed by a running entry's poll, not only by "the next entry setup refresh".

## 6. Plan

1. *Done*: RuleControl and WirelessConfig with their proofs, AlarmInventory, HostInventory,
   EntryLifecycle, Pairing over LocalTransport, Selectors with the control services and tools,
   the report services and tools with Inventory and LogRead.
2. *Done*: the proofs of section 4, the refinement of LogRead and the parts of `AnswersFit`
   included.
3. Abstract specification `StaleCache` (the shown view is always some past state of the box,
   changed by commands the box accepted), with RuleControl, WirelessConfig and HostInventory
   shown to implement it by refinement mappings.
4. Fields of a rule that only the app changes, against the whole-object update of the client.

**Not modelled.** Schedule windows: where they begin and end is decided by the cronsim library,
which the repository does not contain. The
builders of `integration_manager.py`, usage minutes, target names and addressing: pure reshaping
that no resolution or count depends on.
`get_runtime_inventory`: a dump of the snapshot.

Not planned: encryption and envelopes, diagnostics and redaction, entity formatting, report
shaping, and the developer tools in `tools/` and `utils/`: pure I/O or formatting with no
state that interleaves.
