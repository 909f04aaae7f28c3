--------------------------- MODULE EntryLifecycle ---------------------------
(***************************************************************************)
(* The life of one config entry: setting it up, saving options, reloading  *)
(* it, and the entities and devices it keeps in the registries.            *)
(*                                                                         *)
(* A setup builds the managers, awaits the first refresh, prunes the       *)
(* registries, registers the options listener and sets up the platforms.   *)
(* Part of the options is captured when the managers are built, part is    *)
(* read again later.  Home Assistant runs one setup or unload of the entry *)
(* at a time and calls the listener as soon as saved options differ.       *)
(*                                                                         *)
(* Three surfaces stand for all of them: rule switches (selected by rule   *)
(* id), device trackers (selected by MAC, with a device of their own) and  *)
(* SSID switches (one option for all SSIDs).  Watched hosts and users are  *)
(* captured and compared like trackers but are never pruned; networks are  *)
(* switched like SSIDs.  The box lists the same SSIDs and access points    *)
(* throughout.                                                             *)
(***************************************************************************)
EXTENDS Naturals

CONSTANTS
    Rules,    \* policy rules a switch can be selected for
    Macs,     \* hosts a tracker can be selected for
    Ssids,    \* wireless networks the box lists
    Aps,      \* access points the box lists
    MaxSteps  \* bound: saves, requested reloads and changes of the box together

ASSUME MaxStepsAssumption == MaxSteps \in Nat

VARIABLES
    options,    \* entry.options
    box,        \* the rules and hosts the box lists
    steps,      \* saves, requested reloads and changes of the box so far
    state,      \* where the setup of the entry stands
    reloads,    \* reloads waiting for the setup lock
    run,        \* what the managers of the latest setup captured
    listening,  \* the options listener is registered
    done,       \* platforms set up
    entities,   \* entity registry entries of this config entry
    devices,    \* device registry entries of this config entry, the box aside
    live,       \* entities added to Home Assistant
    asked,      \* a refresh of the loaded coordinator is under way
    late,       \* a requested refresh of an unloaded coordinator is under way
    disturbed   \* history: this setup missed a save or met a late refresh

settings == <<options, box, steps>>
registries == <<entities, devices, live>>
refreshes == <<asked, late>>
vars == <<options, box, steps, state, reloads, run, listening, done, entities,
          devices, live, asked, late, disturbed>>

Options == [rules : SUBSET Rules, trackers : SUBSET Macs, ssids : BOOLEAN]
Payload == [rules : SUBSET Rules, hosts : SUBSET Macs]

Platforms == {"switch", "device_tracker"}

\* The registry entries of a kind, for some ids.
Of(kind, ids) == {[kind |-> kind, id |-> i] : i \in ids}
Ids(kind, entries) == {e.id : e \in {f \in entries : f.kind = kind}}

Entities == Of("rule", Rules) \cup Of("tracker", Macs) \cup Of("ssid", Ssids)
Devices == Of("client", Macs) \cup Of("ap", Aps)

\* The entities of the two switch families under these options.
Switches(rules, ssids) == Of("rule", rules) \cup IF ssids THEN Of("ssid", Ssids) ELSE {}

\* entry.runtime_data exists: set after the first refresh, deleted by the unload.
Running == state \in {"forwarding", "loaded", "unloading"}

NoLate == [on |-> FALSE, trackers |-> {}]

\* An entry that has been loaded with its options.
Init ==
    /\ options \in Options
    /\ box \in Payload
    /\ steps = 0
    /\ state = "loaded"
    /\ reloads = 0
    /\ run = [rules |-> options.rules, trackers |-> options.trackers,
              ssids |-> options.ssids, payload |-> box]
    /\ listening = TRUE
    /\ done = Platforms
    /\ entities = Switches(options.rules, options.ssids) \cup Of("tracker", options.trackers)
    /\ devices = Of("client", options.trackers) \cup Of("ap", Aps)
    /\ live = entities
    /\ asked = FALSE
    /\ late = NoLate
    /\ disturbed = FALSE

Step ==
    /\ steps < MaxSteps
    /\ steps' = steps + 1

\* Rules and hosts come and go on the box.
BoxChanges ==
    /\ Step
    /\ box' \in Payload
    /\ UNCHANGED <<options, state, reloads, run, listening, done, registries, refreshes,
                   disturbed>>

-----------------------------------------------------------------------------
(* Saving options.                                                         *)

\* Faulty variant: the comparison leaves out the trackers.
SelectionChangedSkipsTrackers(new) ==
    \/ run.rules # new.rules
    \/ run.ssids # new.ssids

\* async_handle_entry_reload_requested compares the saved options with what the
\* managers captured.
SelectionChanged(new) ==
    \/ run.rules # new.rules
    \/ run.trackers # new.trackers
    \/ run.ssids # new.ssids

\* The coordinator takes over the flags and asks for a reload.
Notify(new) ==
    IF SelectionChanged(new)
    THEN /\ reloads' = reloads + 1
         /\ run' = [run EXCEPT !.ssids = new.ssids]
    ELSE UNCHANGED <<reloads, run>>

\* Equal options are not saved and call no listener.
Save(new) ==
    /\ Step
    /\ new # options
    /\ options' = new
    /\ IF listening THEN Notify(new) ELSE UNCHANGED <<reloads, run>>
    /\ disturbed' = (disturbed \/ state = "refreshing")
    /\ UNCHANGED <<box, state, listening, done, registries, refreshes>>

\* The rule form stores what the running rule manager can make a template of;
\* without runtime data it knows no rule.
EditRules(chosen) ==
    Save([options EXCEPT !.rules = chosen \cap IF Running THEN run.payload.rules ELSE {}])

\* The tracker form also keeps stored trackers the box does not list.
EditTrackers(chosen) ==
    Save([options EXCEPT !.trackers =
        chosen \cap (@ \cup IF Running THEN run.payload.hosts ELSE {})])

SetSystemSettings(flag) == Save([options EXCEPT !.ssids = flag])

\* Reauthentication and reconfiguration update the entry data and ask for a reload.
RequestReload ==
    /\ Step
    /\ reloads' = reloads + 1
    /\ UNCHANGED <<options, box, state, run, listening, done, registries, refreshes, disturbed>>

-----------------------------------------------------------------------------
(* The registries.                                                         *)

\* async_reconcile_ap_devices: creates the access points, prunes what is neither
\* one of them nor a tracked client.
ApsReconciled(devs) == {d \in devs : d.kind = "client"} \cup Of("ap", Aps)

\* async_reconcile_tracked_client_devices: creates the clients, prunes what is
\* neither one of them nor an access point.
ClientsReconciled(devs, macs) == {d \in devs : d.kind = "ap"} \cup Of("client", macs)

\* Home Assistant removes the entities of a device with the device.
WithDevices(entries, macs) == {e \in entries : e.kind = "tracker" => e.id \in macs}

\* Faulty variant: the switches of deselected rules stay.
RuleSwitchesReconciledKeepsRules(entries, rules) == {e \in entries : e.kind # "ssid"}

\* async_reconcile_rule_switch_entities: every switch that belongs to no selected
\* rule goes, the SSID switches included.
RuleSwitchesReconciled(entries, rules) ==
    {e \in entries : e.kind \in {"rule", "ssid"} => e \in Of("rule", rules)}

\* Faulty variant: a tracker goes while the box does not list its host.
TrackersReconciledToListed(entries, macs) ==
    {e \in entries : e.kind = "tracker" => e.id \in macs \cap box.hosts}

\* async_reconcile_device_tracker_entities.
TrackersReconciled(entries, macs) == {e \in entries : e.kind = "tracker" => e.id \in macs}

\* async_reconcile_ssid_entities, with the option read from the entry.
SsidsReconciled(entries, flag) == {e \in entries : e.kind = "ssid" => flag}

-----------------------------------------------------------------------------
(* Setting up.                                                             *)

\* The managers capture the trackers, the coordinator the flags.
BeginSetup ==
    /\ state = "setup"
    /\ state' = "refreshing"
    /\ run' = [run EXCEPT !.rules = {}, !.trackers = options.trackers,
                          !.ssids = options.ssids]
    /\ disturbed' = FALSE
    /\ UNCHANGED <<settings, reloads, listening, done, registries, refreshes>>

\* The first refresh loads the rule templates from the options of that moment;
\* nothing is awaited from there until the platforms are set up.
FirstRefreshSucceeds ==
    /\ state = "refreshing"
    /\ state' = "forwarding"
    /\ run' = [run EXCEPT !.rules = options.rules, !.payload = box]
    /\ devices' = ClientsReconciled(ApsReconciled(devices), run.trackers)
    /\ entities' = SsidsReconciled(
            TrackersReconciled(
                RuleSwitchesReconciled(WithDevices(entities, run.trackers), options.rules),
                run.trackers),
            options.ssids)
    /\ listening' = TRUE
    /\ done' = {}
    /\ UNCHANGED <<settings, reloads, live, refreshes, disturbed>>

\* The box cannot be reached or lists no hosts: the setup is retried.
FirstRefreshFails ==
    /\ state = "refreshing"
    /\ state' = "retry"
    /\ UNCHANGED <<settings, reloads, run, listening, done, registries, refreshes, disturbed>>

\* The credentials are rejected: the user has to pair again.
FirstRefreshRejected ==
    /\ state = "refreshing"
    /\ state' = "error"
    /\ UNCHANGED <<settings, reloads, run, listening, done, registries, refreshes, disturbed>>

\* Faulty variant: a failed setup waits for a requested reload.
RetrySetupOnRequest ==
    /\ state = "retry"
    /\ reloads > 0
    /\ state' = "setup"
    /\ UNCHANGED <<settings, reloads, run, listening, done, registries, refreshes, disturbed>>

RetrySetup ==
    /\ state = "retry"
    /\ state' = "setup"
    /\ UNCHANGED <<settings, reloads, run, listening, done, registries, refreshes, disturbed>>

\* A platform adds its entities, which registers those the registry does not hold.
AddEntities(platform, added) ==
    /\ state = "forwarding"
    /\ platform \notin done
    /\ done' = done \cup {platform}
    /\ entities' = entities \cup added
    /\ live' = live \cup added
    /\ UNCHANGED <<settings, state, reloads, run, listening, devices, refreshes, disturbed>>

SetUpSwitches == AddEntities("switch", Switches(run.rules, options.ssids))

SetUpTrackers == AddEntities("device_tracker", Of("tracker", run.trackers))

FinishSetup ==
    /\ state = "forwarding"
    /\ done = Platforms
    /\ state' = "loaded"
    /\ UNCHANGED <<settings, reloads, run, listening, done, registries, refreshes, disturbed>>

-----------------------------------------------------------------------------
(* Unloading and reloading.                                                *)

\* A reload that holds the setup lock unloads a loaded entry first.
StartUnload ==
    /\ state = "loaded"
    /\ reloads > 0
    /\ reloads' = reloads - 1
    /\ state' = "unloading"
    /\ live' = {}
    /\ UNCHANGED <<settings, run, listening, done, entities, devices, refreshes, disturbed>>

\* Faulty variant: the listener outlives the unload.
FinishUnloadKeepsListener ==
    /\ state = "unloading"
    /\ state' = "setup"
    /\ asked' = FALSE
    /\ UNCHANGED <<settings, reloads, run, listening, done, registries, late, disturbed>>

\* Unloading drops the listener and the runtime data and cancels a scheduled
\* refresh; one that a service call or the sync button asked for goes on.
FinishUnload ==
    /\ state = "unloading"
    /\ state' = "setup"
    /\ listening' = FALSE
    /\ asked' = FALSE
    /\ \/ late' = late
       \/ asked /\ late' = [on |-> TRUE, trackers |-> run.trackers]
    /\ UNCHANGED <<settings, reloads, run, done, registries, disturbed>>

\* A reload of an entry whose setup failed sets it up again.
StartSetup ==
    /\ state \in {"retry", "error"}
    /\ reloads > 0
    /\ reloads' = reloads - 1
    /\ state' = "setup"
    /\ UNCHANGED <<settings, run, listening, done, registries, refreshes, disturbed>>

-----------------------------------------------------------------------------
(* Later refreshes.                                                        *)

SendRefresh ==
    /\ Running
    /\ ~asked
    /\ asked' = TRUE
    /\ UNCHANGED <<settings, state, reloads, run, listening, done, registries, late, disturbed>>

\* Every refresh reloads the rule templates and reconciles the tracked clients.
RefreshReturns ==
    /\ asked
    /\ asked' = FALSE
    /\ run' = [run EXCEPT !.rules = options.rules, !.payload = box]
    /\ devices' = ClientsReconciled(devices, run.trackers)
    /\ entities' = WithDevices(entities, run.trackers)
    /\ live' = WithDevices(live, run.trackers)
    /\ UNCHANGED <<settings, state, reloads, listening, done, late, disturbed>>

RefreshFails ==
    /\ asked
    /\ asked' = FALSE
    /\ UNCHANGED <<settings, state, reloads, run, listening, done, registries, late, disturbed>>

\* The managers of an unloaded setup reconcile the clients they captured.
LateRefreshReturns ==
    /\ late.on
    /\ late' = NoLate
    /\ devices' = ClientsReconciled(devices, late.trackers)
    /\ entities' = WithDevices(entities, late.trackers)
    /\ live' = WithDevices(live, late.trackers)
    /\ disturbed' = TRUE
    /\ UNCHANGED <<settings, state, reloads, run, listening, done, asked>>

LateRefreshFails ==
    /\ late.on
    /\ late' = NoLate
    /\ UNCHANGED <<settings, state, reloads, run, listening, done, registries, asked,
                   disturbed>>

-----------------------------------------------------------------------------
User ==
    \/ \E chosen \in SUBSET Rules : EditRules(chosen)
    \/ \E chosen \in SUBSET Macs : EditTrackers(chosen)
    \/ \E flag \in BOOLEAN : SetSystemSettings(flag)
    \/ RequestReload

SetUp ==
    \/ BeginSetup \/ FirstRefreshSucceeds \/ FirstRefreshFails \/ FirstRefreshRejected
    \/ RetrySetup \/ SetUpSwitches \/ SetUpTrackers \/ FinishSetup

Reload == StartUnload \/ FinishUnload \/ StartSetup

Refresh ==
    \/ SendRefresh \/ RefreshReturns \/ RefreshFails
    \/ LateRefreshReturns \/ LateRefreshFails

Next == BoxChanges \/ User \/ SetUp \/ Reload \/ Refresh

Spec == Init /\ [][Next]_vars

\* Home Assistant carries on a setup, an unload and a queued reload and retries a
\* failed setup; the box answers a first refresh again and again.
Fairness ==
    /\ WF_vars(BeginSetup)
    /\ WF_vars(FirstRefreshSucceeds \/ FirstRefreshFails \/ FirstRefreshRejected)
    /\ SF_vars(FirstRefreshSucceeds)
    /\ WF_vars(RetrySetup)
    /\ WF_vars(SetUpSwitches)
    /\ WF_vars(SetUpTrackers)
    /\ WF_vars(FinishSetup)
    /\ WF_vars(Reload)

FairSpec == Spec /\ Fairness

-----------------------------------------------------------------------------
(* Properties.                                                             *)

\* The options listener lives from the end of the first refresh to the end of the
\* unload, and nothing is live outside a setup.
TypeOK ==
    /\ options \in Options
    /\ box \in Payload
    /\ steps \in 0 .. MaxSteps
    /\ state \in {"setup", "refreshing", "forwarding", "loaded", "unloading", "retry", "error"}
    /\ reloads \in 0 .. MaxSteps
    /\ run \in [rules : SUBSET Rules, trackers : SUBSET Macs, ssids : BOOLEAN,
                payload : Payload]
    /\ listening = Running
    /\ done \subseteq Platforms
    /\ entities \subseteq Entities
    /\ devices \subseteq Devices
    /\ live \subseteq entities
    /\ state \notin {"forwarding", "loaded"} => live = {}
    /\ asked \in BOOLEAN
    /\ asked => Running
    /\ late \in [on : BOOLEAN, trackers : SUBSET Macs]
    /\ disturbed \in BOOLEAN

\* The entry is loaded, no reload waits, and its setup was not disturbed.
Settled == state = "loaded" /\ reloads = 0 /\ ~disturbed

\* Whatever was saved while the entry was loaded, unloading or reloading
\* (async_handle_entry_reload_requested, async_setup_entry), a settled entry has
\* exactly the entities its options select.
SelectionsShow ==
    Settled =>
        /\ Ids("rule", live) = options.rules
        /\ Ids("tracker", live) = options.trackers
        /\ Ids("ssid", live) = IF options.ssids THEN Ssids ELSE {}

\* A settled entry leaves nothing of an earlier selection in the registries and
\* none of the device families prunes another (the reconcilers of the integration
\* manager): entries and client devices are those selected, and every access
\* point keeps its device.
RegistriesFollow ==
    Settled =>
        /\ entities = live
        /\ devices = Of("client", options.trackers) \cup Of("ap", Aps)

\* A tracker that stays selected keeps its registry entry and its device through
\* refreshes, unloads, failed setups and reloads, unless the setup is disturbed.
TrackersKeepIdentity ==
    [][\A m \in options.trackers \cap options'.trackers :
        ~disturbed' =>
            /\ Of("tracker", {m}) \subseteq entities => Of("tracker", {m}) \subseteq entities'
            /\ Of("client", {m}) \subseteq devices => Of("client", {m}) \subseteq devices']_vars

\* Saves and failures end: the entry is loaded with no reload waiting, or waits for
\* the user to pair again.
Settles == []<>(state = "error" \/ (state = "loaded" /\ reloads = 0))

-----------------------------------------------------------------------------
(* Strengthenings: with TypeOK they are inductive.                         *)

\* Only a save and a requested reload queue a reload.
ReloadsCounted == reloads <= steps

\* An undisturbed setup awaits its first refresh with the options of the moment.
CapturedInv ==
    state = "refreshing" /\ ~disturbed =>
        run.trackers = options.trackers /\ run.ssids = options.ssids

\* From there on the registries hold the trackers the managers captured, whatever
\* has been saved since.
TrackersInv ==
    Running /\ ~disturbed =>
        /\ \A e \in entities : e.kind = "tracker" => e.id \in run.trackers
        /\ devices = Of("client", run.trackers) \cup Of("ap", Aps)

\* While no reload waits, nothing was saved that the managers did not capture, and
\* the platforms set up have added exactly what the options select.
FollowedInv ==
    state \in {"forwarding", "loaded"} /\ reloads = 0 /\ ~disturbed =>
        /\ run.rules = options.rules
        /\ run.trackers = options.trackers
        /\ run.ssids = options.ssids
        /\ entities \subseteq Switches(options.rules, options.ssids)
                              \cup Of("tracker", options.trackers)
        /\ "switch" \in done => Switches(options.rules, options.ssids) \subseteq live
        /\ "device_tracker" \in done => Of("tracker", options.trackers) \subseteq live

LoadedInv == state = "loaded" => done = Platforms

IInv ==
    /\ TypeOK
    /\ ReloadsCounted
    /\ CapturedInv
    /\ TrackersInv
    /\ FollowedInv
    /\ LoadedInv

=============================================================================
