------------------------ MODULE EntryLifecycleProofs ------------------------
(* Proofs about EntryLifecycle for every value of its constants.           *)
EXTENDS EntryLifecycle, TLAPS

-----------------------------------------------------------------------------
(* Registry entries.                                                       *)

LEMMA OfDef ==
    ASSUME NEW kind, NEW ids, NEW e
    PROVE  e \in Of(kind, ids) <=> \E i \in ids : e = [kind |-> kind, id |-> i]
BY DEF Of

\* An entity is one of a kind, for some ids, by its kind and its id.
LEMMA EntityOf ==
    ASSUME NEW e \in Entities, NEW kind \in {"rule", "tracker", "ssid"}, NEW ids
    PROVE  e \in Of(kind, ids) <=> e.kind = kind /\ e.id \in ids
<1>1. PICK k \in {"rule", "tracker", "ssid"} : \E i : e = [kind |-> k, id |-> i]
  BY OfDef DEF Entities
<1> QED BY <1>1, OfDef

\* So is a device.
LEMMA DeviceOf ==
    ASSUME NEW d \in Devices, NEW kind \in {"client", "ap"}, NEW ids
    PROVE  d \in Of(kind, ids) <=> d.kind = kind /\ d.id \in ids
<1>1. PICK k \in {"client", "ap"} : \E i : d = [kind |-> k, id |-> i]
  BY OfDef DEF Devices
<1> QED BY <1>1, OfDef

\* An entity belongs to exactly one family, and its id to that family.
LEMMA EntityKinds ==
    ASSUME NEW e \in Entities
    PROVE  \/ e.kind = "rule" /\ e.id \in Rules
           \/ e.kind = "tracker" /\ e.id \in Macs
           \/ e.kind = "ssid" /\ e.id \in Ssids
BY OfDef DEF Entities

LEMMA DeviceKinds ==
    ASSUME NEW d \in Devices
    PROVE  \/ d.kind = "client" /\ d.id \in Macs
           \/ d.kind = "ap" /\ d.id \in Aps
BY OfDef DEF Devices

\* The entries of selected ids are entries.
LEMMA SelectedAreEntries ==
    ASSUME NEW rules \in SUBSET Rules, NEW macs \in SUBSET Macs, NEW flag \in BOOLEAN
    PROVE  /\ Of("rule", rules) \subseteq Entities
           /\ Of("tracker", macs) \subseteq Entities
           /\ Of("ssid", Ssids) \subseteq Entities
           /\ Switches(rules, flag) \subseteq Entities
           /\ Of("client", macs) \subseteq Devices
           /\ Of("ap", Aps) \subseteq Devices
<1>1. /\ Of("rule", rules) \subseteq Of("rule", Rules)
      /\ Of("tracker", macs) \subseteq Of("tracker", Macs)
      /\ Of("client", macs) \subseteq Of("client", Macs)
  BY OfDef
<1> QED BY <1>1 DEF Entities, Devices, Switches

\* The ids of a kind are those whose entry is there.
LEMMA IdsDef ==
    ASSUME NEW entries \in SUBSET Entities, NEW kind \in {"rule", "tracker", "ssid"}, NEW i
    PROVE  i \in Ids(kind, entries) <=> \E e \in entries : e.kind = kind /\ e.id = i
BY DEF Ids

\* Entries that are exactly the selected ones have the selected ids.
LEMMA IdsOfSelected ==
    ASSUME NEW rules \in SUBSET Rules, NEW macs \in SUBSET Macs, NEW flag \in BOOLEAN
    PROVE  LET entries == Switches(rules, flag) \cup Of("tracker", macs)
           IN  /\ Ids("rule", entries) = rules
               /\ Ids("tracker", entries) = macs
               /\ Ids("ssid", entries) = IF flag THEN Ssids ELSE {}
<1> DEFINE entries == Switches(rules, flag) \cup Of("tracker", macs)
<1>1. entries \in SUBSET Entities
  BY SelectedAreEntries
<1>2. \A e \in entries : \/ e.kind = "rule" /\ e.id \in rules
                         \/ e.kind = "tracker" /\ e.id \in macs
                         \/ flag /\ e.kind = "ssid" /\ e.id \in Ssids
  BY OfDef DEF Switches
<1>3. \A i \in rules : [kind |-> "rule", id |-> i] \in entries
  BY OfDef DEF Switches
<1>4. \A i \in macs : [kind |-> "tracker", id |-> i] \in entries
  BY OfDef
<1>5. \A i \in Ssids : flag => [kind |-> "ssid", id |-> i] \in entries
  BY OfDef DEF Switches
<1> HIDE DEF entries
<1>6. ASSUME NEW i
      PROVE  /\ i \in Ids("rule", entries) <=> i \in rules
             /\ i \in Ids("tracker", entries) <=> i \in macs
             /\ i \in Ids("ssid", entries) <=> flag /\ i \in Ssids
  <2>1. \A kind \in {"rule", "tracker", "ssid"} :
            i \in Ids(kind, entries) <=> \E e \in entries : e.kind = kind /\ e.id = i
    BY <1>1, IdsDef
  <2>2. i \in Ids("rule", entries) <=> \E e \in entries : e.kind = "rule" /\ e.id = i
    BY <2>1
  <2>3. i \in Ids("tracker", entries) <=> \E e \in entries : e.kind = "tracker" /\ e.id = i
    BY <2>1
  <2>4. i \in Ids("ssid", entries) <=> \E e \in entries : e.kind = "ssid" /\ e.id = i
    BY <2>1
  <2>5. i \in Ids("rule", entries) <=> i \in rules
    BY <1>2, <1>3, <2>2
  <2>6. i \in Ids("tracker", entries) <=> i \in macs
    BY <1>2, <1>4, <2>3
  <2>7. i \in Ids("ssid", entries) <=> flag /\ i \in Ssids
    BY <1>2, <1>5, <2>4
  <2> QED BY <2>5, <2>6, <2>7
<1>7. /\ Ids("rule", entries) = rules
      /\ Ids("tracker", entries) = macs
      /\ Ids("ssid", entries) = IF flag THEN Ssids ELSE {}
  BY <1>6
<1> QED BY <1>7 DEF entries

-----------------------------------------------------------------------------
(* The reconcilers.                                                        *)

\* Whatever devices there were, reconciling the access points and then the clients
\* leaves exactly the access points and the tracked clients; once the access
\* points are there, reconciling the clients alone does.
LEMMA DevicesFacts ==
    ASSUME NEW devs \in SUBSET Devices, NEW macs \in SUBSET Macs
    PROVE  /\ ClientsReconciled(ApsReconciled(devs), macs)
                  = Of("client", macs) \cup Of("ap", Aps)
           /\ ClientsReconciled(devs, macs) \subseteq Devices
           /\ Of("ap", Aps) \subseteq devs =>
                  ClientsReconciled(devs, macs) = Of("client", macs) \cup Of("ap", Aps)
<1>1. /\ Of("client", macs) \subseteq Devices
      /\ Of("ap", Aps) \subseteq Devices
  BY SelectedAreEntries
<1>2. \A d \in Devices : d.kind = "ap" <=> d \in Of("ap", Aps)
  BY DeviceKinds, DeviceOf
<1>3. {d \in ApsReconciled(devs) : d.kind = "ap"} = Of("ap", Aps)
  <2>1. ApsReconciled(devs) \subseteq Devices
    BY <1>1 DEF ApsReconciled
  <2>2. Of("ap", Aps) \subseteq ApsReconciled(devs)
    BY DEF ApsReconciled
  <2> QED BY <1>2, <2>1, <2>2
<1>4. Of("ap", Aps) \subseteq devs => {d \in devs : d.kind = "ap"} = Of("ap", Aps)
  BY <1>2
<1> QED BY <1>1, <1>3, <1>4 DEF ClientsReconciled

\* The entities a first refresh leaves are the switches of selected rules and the
\* captured trackers, and a captured tracker stays.
LEMMA EntitiesFacts ==
    ASSUME NEW ents \in SUBSET Entities, NEW rules \in SUBSET Rules,
           NEW macs \in SUBSET Macs, NEW flag \in BOOLEAN
    PROVE  LET left == SsidsReconciled(
                           TrackersReconciled(
                               RuleSwitchesReconciled(WithDevices(ents, macs), rules), macs),
                           flag)
           IN  /\ left \subseteq ents
               /\ left \subseteq Of("rule", rules) \cup Of("tracker", macs)
               /\ \A e \in ents : e.kind = "tracker" /\ e.id \in macs => e \in left
<1> DEFINE left == SsidsReconciled(
                       TrackersReconciled(
                           RuleSwitchesReconciled(WithDevices(ents, macs), rules), macs),
                       flag)
<1>1. \A e : e \in left <=>
          /\ e \in ents
          /\ e.kind = "tracker" => e.id \in macs
          /\ e.kind \in {"rule", "ssid"} => e \in Of("rule", rules)
          /\ e.kind = "ssid" => flag
  BY DEF SsidsReconciled, TrackersReconciled, RuleSwitchesReconciled, WithDevices
<1> HIDE DEF left
<1>2. \A e \in left : e \in Of("rule", rules) \cup Of("tracker", macs)
  BY <1>1, EntityKinds, EntityOf
<1> QED BY <1>1, <1>2 DEF left

LEMMA WithDevicesFacts ==
    ASSUME NEW ents \in SUBSET Entities, NEW macs \in SUBSET Macs
    PROVE  /\ WithDevices(ents, macs) \subseteq ents
           /\ \A e \in WithDevices(ents, macs) : e.kind = "tracker" => e.id \in macs
           /\ (\A e \in ents : e.kind = "tracker" => e.id \in macs)
                  => WithDevices(ents, macs) = ents
           /\ \A some \in SUBSET ents : WithDevices(some, macs) \subseteq WithDevices(ents, macs)
BY DEF WithDevices

-----------------------------------------------------------------------------
(* The invariant is inductive.                                             *)

LEMMA InitInv ==
    ASSUME Init
    PROVE  IInv
<1>1. /\ options.rules \in SUBSET Rules
      /\ options.trackers \in SUBSET Macs
      /\ options.ssids \in BOOLEAN
  BY DEF Init, Options
<1>2. TypeOK
  <2>1. entities \subseteq Entities /\ devices \subseteq Devices
    BY <1>1, SelectedAreEntries DEF Init
  <2>2. steps \in 0 .. MaxSteps /\ reloads \in 0 .. MaxSteps
    BY MaxStepsAssumption DEF Init
  <2> QED
    BY <1>1, <2>1, <2>2 DEF Init, TypeOK, Running, NoLate, Payload
<1>3. TrackersInv
  <2>1. \A e \in entities : e.kind = "tracker" => e.id \in options.trackers
    BY OfDef DEF Init, Switches
  <2> QED BY <2>1 DEF Init, TrackersInv
<1> QED BY <1>2, <1>3 DEF Init, IInv, ReloadsCounted, CapturedInv, FollowedInv, LoadedInv

\* Changes of the box and requested reloads.
LEMMA OutsideInv ==
    ASSUME IInv, BoxChanges \/ RequestReload
    PROVE  IInv'
<1>1. /\ UNCHANGED <<options, state, run, listening, done, registries, refreshes, disturbed>>
      /\ steps' = steps + 1
      /\ steps' \in 0 .. MaxSteps
      /\ box' \in Payload
      /\ reloads' = reloads \/ reloads' = reloads + 1
  BY MaxStepsAssumption DEF BoxChanges, RequestReload, Step, IInv, TypeOK
<1>2. reloads' \in 0 .. MaxSteps /\ ReloadsCounted'
  BY <1>1, MaxStepsAssumption DEF IInv, TypeOK, ReloadsCounted
<1>3. TypeOK'
  BY <1>1, <1>2 DEF IInv, TypeOK, Running, registries, refreshes
<1>4. reloads' = 0 => reloads = 0
  BY <1>1 DEF IInv, TypeOK
<1> QED
  BY <1>1, <1>2, <1>3, <1>4
     DEF IInv, CapturedInv, TrackersInv, FollowedInv, LoadedInv, Running, registries, refreshes

\* What a save leaves: a changed selection queues a reload.
LEMMA SaveInv ==
    ASSUME IInv, NEW new \in Options, Save(new)
    PROVE  IInv'
<1>1. /\ UNCHANGED <<box, state, listening, done, registries, refreshes>>
      /\ options' = new
      /\ steps' = steps + 1
      /\ steps' \in 0 .. MaxSteps
      /\ disturbed' = (disturbed \/ state = "refreshing")
  BY MaxStepsAssumption DEF Save, Step, IInv, TypeOK
<1>2. \/ reloads' = reloads + 1 /\ run' = [run EXCEPT !.ssids = new.ssids]
      \/ /\ reloads' = reloads /\ run' = run
         /\ Running => /\ run.rules = new.rules
                       /\ run.trackers = new.trackers
                       /\ run.ssids = new.ssids
  BY DEF Save, Notify, SelectionChanged, IInv, TypeOK
<1>3. reloads' \in 0 .. MaxSteps /\ ReloadsCounted'
  BY <1>1, <1>2, MaxStepsAssumption DEF IInv, TypeOK, ReloadsCounted
<1>4. TypeOK'
  BY <1>1, <1>2, <1>3 DEF IInv, TypeOK, Running, registries, refreshes, Options
<1>5. run'.trackers = run.trackers
  BY <1>2 DEF IInv, TypeOK
<1>6. CapturedInv' /\ TrackersInv' /\ LoadedInv'
  BY <1>1, <1>5 DEF IInv, CapturedInv, TrackersInv, LoadedInv, Running, registries, refreshes
<1>7. FollowedInv'
  <2>1. reloads \in Nat
    BY DEF IInv, TypeOK
  <2>2. reloads' = 0 => /\ reloads = 0
                        /\ run' = run
                        /\ Running => /\ run.rules = new.rules
                                      /\ run.trackers = new.trackers
                                      /\ run.ssids = new.ssids
    BY <1>2, <2>1
  <2>3. disturbed => disturbed'
    BY <1>1
  <2>4. state \in {"forwarding", "loaded"} => Running
    BY DEF Running
  <2>5. UNCHANGED <<state, done, entities, devices, live>>
    BY <1>1 DEF registries
  <2>6. ASSUME state \in {"forwarding", "loaded"}, reloads' = 0, ~disturbed'
        PROVE  /\ options'.rules = options.rules
               /\ options'.trackers = options.trackers
               /\ options'.ssids = options.ssids
    BY <1>1, <2>2, <2>3, <2>4, <2>6 DEF IInv, FollowedInv
  <2> QED
    BY <1>1, <2>2, <2>3, <2>5, <2>6 DEF IInv, FollowedInv
<1> QED BY <1>3, <1>4, <1>6, <1>7 DEF IInv

\* What each form saves are options.
LEMMA UserInv ==
    ASSUME IInv, User
    PROVE  IInv'
<1>1. ASSUME NEW chosen \in SUBSET Rules, EditRules(chosen)
      PROVE  IInv'
  <2>1. [options EXCEPT !.rules = chosen \cap IF Running THEN run.payload.rules ELSE {}]
            \in Options
    BY DEF IInv, TypeOK, Options
  <2> QED BY <1>1, <2>1, SaveInv DEF EditRules
<1>2. ASSUME NEW chosen \in SUBSET Macs, EditTrackers(chosen)
      PROVE  IInv'
  <2>1. [options EXCEPT !.trackers =
            chosen \cap (@ \cup IF Running THEN run.payload.hosts ELSE {})] \in Options
    BY DEF IInv, TypeOK, Options
  <2> QED BY <1>2, <2>1, SaveInv DEF EditTrackers
<1>3. ASSUME NEW flag \in BOOLEAN, SetSystemSettings(flag)
      PROVE  IInv'
  <2>1. [options EXCEPT !.ssids = flag] \in Options
    BY DEF IInv, TypeOK, Options
  <2> QED BY <1>3, <2>1, SaveInv DEF SetSystemSettings
<1> QED BY <1>1, <1>2, <1>3, OutsideInv DEF User

LEMMA BeginSetupInv ==
    ASSUME IInv, BeginSetup
    PROVE  IInv'
<1>1. /\ run'.trackers = options.trackers
      /\ run'.ssids = options.ssids
      /\ run' \in [rules : SUBSET Rules, trackers : SUBSET Macs, ssids : BOOLEAN,
                   payload : Payload]
  BY DEF BeginSetup, IInv, TypeOK, Options
<1>2. TypeOK'
  <2>1. /\ state = "setup" /\ state' = "refreshing"
        /\ UNCHANGED <<options, box, steps, reloads, listening, done, entities, devices, live,
                       asked, late>>
        /\ disturbed' = FALSE
    BY DEF BeginSetup, settings, registries, refreshes
  <2>2. listening' = Running' /\ asked' = FALSE
    BY <2>1 DEF IInv, TypeOK, Running
  <2> QED BY <1>1, <2>1, <2>2 DEF IInv, TypeOK
<1> QED
  BY <1>1, <1>2
     DEF BeginSetup, IInv, ReloadsCounted, CapturedInv, TrackersInv, FollowedInv, LoadedInv,
         Running, settings, registries, refreshes

LEMMA FirstRefreshInv ==
    ASSUME IInv, FirstRefreshSucceeds
    PROVE  IInv'
<1>0. /\ run \in [rules : SUBSET Rules, trackers : SUBSET Macs, ssids : BOOLEAN,
                  payload : Payload]
      /\ options.rules \in SUBSET Rules
      /\ options.trackers \in SUBSET Macs
      /\ options.ssids \in BOOLEAN
  BY DEF IInv, TypeOK, Options
<1>1. /\ run'.rules = options.rules
      /\ run'.trackers = run.trackers
      /\ run'.ssids = run.ssids
      /\ run' \in [rules : SUBSET Rules, trackers : SUBSET Macs, ssids : BOOLEAN,
                   payload : Payload]
  BY <1>0 DEF FirstRefreshSucceeds, IInv, TypeOK
<1>2. /\ state = "refreshing" /\ state' = "forwarding"
      /\ UNCHANGED <<options, box, steps, reloads, live, asked, late, disturbed>>
      /\ listening' = TRUE
      /\ done' = {}
      /\ live = {}
  BY DEF FirstRefreshSucceeds, settings, refreshes, IInv, TypeOK
<1>3. devices' = Of("client", run.trackers) \cup Of("ap", Aps) /\ devices' \subseteq Devices
  <2>1. run.trackers \in SUBSET Macs /\ devices \in SUBSET Devices
    BY <1>0 DEF IInv, TypeOK
  <2>2. devices' = ClientsReconciled(ApsReconciled(devices), run.trackers)
    BY DEF FirstRefreshSucceeds
  <2>3. devices' = Of("client", run.trackers) \cup Of("ap", Aps)
    BY <2>1, <2>2, DevicesFacts
  <2> QED BY <1>0, <2>1, <2>3, SelectedAreEntries
<1>4. entities' \subseteq Of("rule", options.rules) \cup Of("tracker", run.trackers)
  BY <1>0, EntitiesFacts DEF FirstRefreshSucceeds, IInv, TypeOK
<1>5. entities' \subseteq Entities
  BY <1>0, <1>4, SelectedAreEntries
<1>6. \A e \in entities' : e.kind = "tracker" => e.id \in run.trackers
  BY <1>4, OfDef
<1>7. TypeOK'
  BY <1>1, <1>2, <1>3, <1>5 DEF IInv, TypeOK, Running
<1>8. TrackersInv'
  BY <1>1, <1>3, <1>6 DEF TrackersInv
<1>9. FollowedInv'
  BY <1>1, <1>2, <1>4 DEF IInv, FollowedInv, CapturedInv, Switches
<1> QED
  BY <1>2, <1>7, <1>8, <1>9 DEF IInv, ReloadsCounted, CapturedInv, LoadedInv

\* A setup that failed, and its retries.
LEMMA RetryInv ==
    ASSUME IInv,
           FirstRefreshFails \/ FirstRefreshRejected \/ RetrySetup \/ StartSetup
    PROVE  IInv'
<1>1. /\ UNCHANGED <<options, box, steps, run, listening, done, entities, devices, live,
                     asked, late, disturbed>>
      /\ ~Running /\ ~Running' /\ state' # "refreshing"
      /\ state' \in {"setup", "retry", "error"}
      /\ state \notin {"forwarding", "loaded"}
      /\ reloads' \in 0 .. MaxSteps
      /\ reloads' <= steps
  BY MaxStepsAssumption
     DEF FirstRefreshFails, FirstRefreshRejected, RetrySetup, StartSetup, settings, registries,
         refreshes, Running, IInv, TypeOK, ReloadsCounted
<1>2. TypeOK'
  <2>1. listening' = Running' /\ asked' = FALSE
    BY <1>1 DEF IInv, TypeOK, Running
  <2>2. live' = {}
    BY <1>1 DEF IInv, TypeOK
  <2> QED BY <1>1, <2>1, <2>2 DEF IInv, TypeOK
<1> QED
  BY <1>1, <1>2
     DEF IInv, ReloadsCounted, CapturedInv, TrackersInv, FollowedInv, LoadedInv

\* A platform adds entities that the captured and the saved selection hold.
LEMMA AddEntitiesInv ==
    ASSUME IInv, SetUpSwitches \/ SetUpTrackers
    PROVE  IInv'
<1>0. /\ run.rules \in SUBSET Rules
      /\ run.trackers \in SUBSET Macs
      /\ options.ssids \in BOOLEAN
  BY DEF IInv, TypeOK, Options
<1>1. /\ state = "forwarding"
      /\ UNCHANGED <<options, box, steps, state, reloads, run, listening, devices, asked, late,
                     disturbed>>
  BY DEF SetUpSwitches, SetUpTrackers, AddEntities, settings, refreshes
<1>2. PICK added :
          /\ entities' = entities \cup added
          /\ live' = live \cup added
          /\ \/ done' = done \cup {"switch"} /\ added = Switches(run.rules, options.ssids)
             \/ done' = done \cup {"device_tracker"} /\ added = Of("tracker", run.trackers)
  BY DEF SetUpSwitches, SetUpTrackers, AddEntities
<1>3. added \subseteq Entities
  BY <1>0, <1>2, SelectedAreEntries
<1>4. TypeOK'
  BY <1>1, <1>2, <1>3 DEF IInv, TypeOK, Running, Platforms
<1>5. TrackersInv'
  <2>1. \A e \in added : e.kind = "tracker" => e.id \in run.trackers
    BY <1>2, OfDef DEF Switches
  <2> QED BY <1>1, <1>2, <2>1 DEF IInv, TrackersInv, Running
<1>6. FollowedInv'
  BY <1>1, <1>2 DEF IInv, FollowedInv
<1> QED
  BY <1>1, <1>4, <1>5, <1>6 DEF IInv, ReloadsCounted, CapturedInv, LoadedInv

LEMMA FinishSetupInv ==
    ASSUME IInv, FinishSetup
    PROVE  IInv'
<1>1. /\ state = "forwarding" /\ state' = "loaded"
      /\ done = Platforms
      /\ UNCHANGED <<options, box, steps, reloads, run, listening, done, entities, devices,
                     live, asked, late, disturbed>>
  BY DEF FinishSetup, settings, registries, refreshes
<1> QED
  BY <1>1
     DEF IInv, TypeOK, ReloadsCounted, CapturedInv, TrackersInv, FollowedInv, LoadedInv, Running

\* Unloading drops the live entities and leaves the registries alone.
LEMMA UnloadInv ==
    ASSUME IInv, StartUnload \/ FinishUnload
    PROVE  IInv'
<1>1. /\ UNCHANGED <<options, box, steps, run, done, entities, devices, disturbed>>
      /\ reloads' \in 0 .. MaxSteps
      /\ reloads' <= steps
      /\ live' = {}
  BY MaxStepsAssumption
     DEF StartUnload, FinishUnload, settings, registries, refreshes, IInv, TypeOK, ReloadsCounted
<1>2. \/ /\ state = "loaded" /\ state' = "unloading"
         /\ UNCHANGED <<listening, asked, late>>
      \/ /\ state = "unloading" /\ state' = "setup"
         /\ listening' = FALSE
         /\ asked' = FALSE
         /\ late' = late \/ late' = [on |-> TRUE, trackers |-> run.trackers]
  BY DEF StartUnload, FinishUnload, refreshes
<1>3. TypeOK'
  <2>1. CASE StartUnload
    <3>1. listening' = Running' /\ Running'
      BY <2>1 DEF StartUnload, IInv, TypeOK, Running
    <3>2. UNCHANGED <<asked, late>>
      BY <2>1 DEF StartUnload, refreshes
    <3> QED BY <1>1, <1>2, <3>1, <3>2 DEF IInv, TypeOK
  <2>2. CASE FinishUnload
    <3>0. /\ state' = "setup"
          /\ listening' = FALSE
          /\ asked' = FALSE
          /\ late' = late \/ late' = [on |-> TRUE, trackers |-> run.trackers]
      BY <2>2 DEF FinishUnload
    <3>1. Running' = FALSE
      BY <3>0 DEF Running
    <3>2. listening' = Running'
      BY <3>0, <3>1, Zenon
    <3>3. late \in [on : BOOLEAN, trackers : SUBSET Macs] /\ run.trackers \in SUBSET Macs
      BY DEF IInv, TypeOK
    <3>4. [on |-> TRUE, trackers |-> run.trackers] \in [on : BOOLEAN, trackers : SUBSET Macs]
      BY <3>3
    <3>5. late' \in [on : BOOLEAN, trackers : SUBSET Macs]
      BY <3>0, <3>3, <3>4
    <3> QED BY <1>1, <1>2, <3>0, <3>2, <3>5 DEF IInv, TypeOK
  <2> QED BY <2>1, <2>2
<1> QED
  BY <1>1, <1>2, <1>3
     DEF IInv, ReloadsCounted, CapturedInv, TrackersInv, FollowedInv, LoadedInv, Running

\* A refresh is sent, or fails.
LEMMA SendInv ==
    ASSUME IInv, SendRefresh \/ RefreshFails \/ LateRefreshFails
    PROVE  IInv'
<1>1. /\ UNCHANGED <<options, box, steps, state, reloads, run, listening, done, entities,
                     devices, live, disturbed>>
      /\ asked' \in BOOLEAN
  BY DEF SendRefresh, RefreshFails, LateRefreshFails, settings, registries, refreshes,
         IInv, TypeOK
<1>3. late' \in [on : BOOLEAN, trackers : SUBSET Macs]
  <2>1. NoLate \in [on : BOOLEAN, trackers : SUBSET Macs]
    BY DEF NoLate
  <2> QED BY <2>1 DEF SendRefresh, RefreshFails, LateRefreshFails, IInv, TypeOK
<1>4. asked' => Running
  BY DEF SendRefresh, RefreshFails, LateRefreshFails, IInv, TypeOK
<1>2. TypeOK'
  BY <1>1, <1>3, <1>4 DEF IInv, TypeOK, Running
<1> QED
  BY <1>1, <1>2
     DEF IInv, ReloadsCounted, CapturedInv, TrackersInv, FollowedInv, LoadedInv, Running

\* A refresh of a running entry changes no entry of an undisturbed setup: the
\* registries hold the trackers its managers captured.
LEMMA RefreshReturnsInv ==
    ASSUME IInv, RefreshReturns
    PROVE  /\ IInv'
           /\ ~disturbed => UNCHANGED <<entities, devices, live>>
<1>0. /\ run \in [rules : SUBSET Rules, trackers : SUBSET Macs, ssids : BOOLEAN,
                  payload : Payload]
      /\ options.rules \in SUBSET Rules
      /\ live \in SUBSET entities
      /\ entities \in SUBSET Entities
      /\ devices \in SUBSET Devices
  BY DEF IInv, TypeOK, Options
<1>1. /\ Running /\ Running'
      /\ UNCHANGED <<options, box, steps, state, reloads, listening, done, late, disturbed>>
      /\ asked' = FALSE
      /\ devices' = ClientsReconciled(devices, run.trackers)
      /\ entities' = WithDevices(entities, run.trackers)
      /\ live' = WithDevices(live, run.trackers)
  BY DEF RefreshReturns, settings, Running, IInv, TypeOK
<1>2. /\ run'.rules = options.rules
      /\ run'.trackers = run.trackers
      /\ run'.ssids = run.ssids
      /\ run' \in [rules : SUBSET Rules, trackers : SUBSET Macs, ssids : BOOLEAN,
                   payload : Payload]
  BY <1>0 DEF RefreshReturns, IInv, TypeOK
<1>3. /\ devices' \subseteq Devices
      /\ entities' \subseteq entities
      /\ live' \subseteq entities'
      /\ live' \subseteq live
  <2>1. run.trackers \in SUBSET Macs
    BY <1>0
  <2>2. devices' \subseteq Devices
    BY <1>0, <1>1, <2>1, DevicesFacts
  <2>3. entities' \subseteq entities /\ live' \subseteq entities'
    BY <1>0, <1>1, <2>1, WithDevicesFacts
  <2>4. live' \subseteq live
    BY <1>1 DEF WithDevices
  <2> QED BY <2>2, <2>3, <2>4
<1>4. ~disturbed => UNCHANGED <<entities, devices, live>>
  <2>1. run.trackers \in SUBSET Macs
    BY <1>0
  <2>2. ~disturbed => /\ \A e \in entities : e.kind = "tracker" => e.id \in run.trackers
                      /\ devices = Of("client", run.trackers) \cup Of("ap", Aps)
    BY <1>1 DEF IInv, TrackersInv
  <2>3. ~disturbed => devices' = devices
    BY <1>0, <1>1, <2>1, <2>2, DevicesFacts
  <2>4. ~disturbed => entities' = entities
    BY <1>0, <1>1, <2>1, <2>2, WithDevicesFacts
  <2>5. ~disturbed => \A e \in live : e.kind = "tracker" => e.id \in run.trackers
    BY <1>0, <2>2
  <2>6. ~disturbed => live' = live
    BY <1>1, <2>5 DEF WithDevices
  <2> QED BY <2>3, <2>4, <2>6
<1>5. TypeOK'
  BY <1>0, <1>1, <1>2, <1>3 DEF IInv, TypeOK
<1>6. TrackersInv' /\ FollowedInv'
  BY <1>1, <1>2, <1>4 DEF IInv, TrackersInv, FollowedInv
<1> QED
  BY <1>1, <1>2, <1>4, <1>5, <1>6
     DEF IInv, ReloadsCounted, CapturedInv, LoadedInv, Running

\* A late refresh may prune what the running setup keeps: it disturbs that setup.
LEMMA LateReturnsInv ==
    ASSUME IInv, LateRefreshReturns
    PROVE  IInv'
<1>0. /\ late.trackers \in SUBSET Macs
      /\ live \in SUBSET entities
      /\ entities \in SUBSET Entities
      /\ devices \in SUBSET Devices
  BY DEF IInv, TypeOK
<1>1. /\ UNCHANGED <<options, box, steps, state, reloads, run, listening, done, asked>>
      /\ late' = NoLate
      /\ disturbed' = TRUE
      /\ devices' = ClientsReconciled(devices, late.trackers)
      /\ entities' = WithDevices(entities, late.trackers)
      /\ live' = WithDevices(live, late.trackers)
  BY DEF LateRefreshReturns, settings
<1>2. /\ devices' \subseteq Devices
      /\ entities' \subseteq entities
      /\ live' \subseteq entities'
      /\ live' \subseteq live
  <2>1. devices' \subseteq Devices
    BY <1>0, <1>1, DevicesFacts
  <2>2. entities' \subseteq entities /\ live' \subseteq entities'
    BY <1>0, <1>1, WithDevicesFacts
  <2>3. live' \subseteq live
    BY <1>1 DEF WithDevices
  <2> QED BY <2>1, <2>2, <2>3
<1>3. TypeOK'
  BY <1>0, <1>1, <1>2 DEF IInv, TypeOK, Running, NoLate
<1> QED
  BY <1>1, <1>3 DEF IInv, ReloadsCounted, CapturedInv, TrackersInv, FollowedInv, LoadedInv

LEMMA StutterInv ==
    ASSUME IInv, UNCHANGED vars
    PROVE  IInv'
BY DEF IInv, TypeOK, ReloadsCounted, CapturedInv, TrackersInv, FollowedInv, LoadedInv, Running,
       vars

\* The invariant of the entry's life is inductive: every reachable state satisfies
\* it, however many rules, hosts, SSIDs and access points there are and whatever is
\* saved, reloaded, refreshed or failed in between.
THEOREM LifecycleInvariant == Spec => []IInv
<1>1. IInv /\ [Next]_vars => IInv'
  BY OutsideInv, UserInv, BeginSetupInv, FirstRefreshInv, RetryInv, AddEntitiesInv,
     FinishSetupInv, UnloadInv, SendInv, RefreshReturnsInv, LateReturnsInv, StutterInv
     DEF Next, SetUp, Reload, Refresh
<1> QED BY <1>1, InitInv, PTL DEF Spec

-----------------------------------------------------------------------------
(* The properties.                                                         *)

\* Every reachable state of the entry is well typed; the listener is registered
\* exactly while the entry has runtime data.
THEOREM TypeCorrect == Spec => []TypeOK
<1>1. IInv => TypeOK
  BY DEF IInv
<1> QED BY <1>1, LifecycleInvariant, PTL

\* A settled entry's live entities are all it has, and are those its options select.
LEMMA SettledEntities ==
    ASSUME IInv, Settled
    PROVE  /\ live = Switches(options.rules, options.ssids) \cup Of("tracker", options.trackers)
           /\ entities = live
<1>1. reloads = 0 /\ ~disturbed /\ done = Platforms /\ live \subseteq entities
  BY DEF Settled, IInv, LoadedInv, TypeOK
<1> QED BY <1>1 DEF Settled, IInv, FollowedInv, Platforms

\* A settled entry has exactly the entities its options select, whatever was saved
\* while it was loaded, unloading or reloading.
THEOREM SelectedIsShown == Spec => []SelectionsShow
<1>1. IInv => SelectionsShow
  <2> SUFFICES ASSUME IInv, Settled
               PROVE  /\ Ids("rule", live) = options.rules
                      /\ Ids("tracker", live) = options.trackers
                      /\ Ids("ssid", live) = IF options.ssids THEN Ssids ELSE {}
    BY DEF SelectionsShow
  <2>1. /\ options.rules \in SUBSET Rules
        /\ options.trackers \in SUBSET Macs
        /\ options.ssids \in BOOLEAN
    BY DEF IInv, TypeOK, Options
  <2>2. live = Switches(options.rules, options.ssids) \cup Of("tracker", options.trackers)
    BY SettledEntities
  <2>3. /\ Ids("rule", live) = options.rules
        /\ Ids("tracker", live) = options.trackers
        /\ Ids("ssid", live) = IF options.ssids THEN Ssids ELSE {}
    BY <2>1, <2>2, IdsOfSelected
  <2> QED BY <2>3
<1> QED BY <1>1, LifecycleInvariant, PTL

\* A settled entry leaves nothing of an earlier selection in the registries, and no
\* family of devices prunes another.
THEOREM NothingStaysBehind == Spec => []RegistriesFollow
<1>1. IInv => RegistriesFollow
  <2> SUFFICES ASSUME IInv, Settled
               PROVE  /\ entities = live
                      /\ devices = Of("client", options.trackers) \cup Of("ap", Aps)
    BY DEF RegistriesFollow
  <2>1. devices = Of("client", options.trackers) \cup Of("ap", Aps)
    BY DEF Settled, Running, IInv, TrackersInv, FollowedInv
  <2> QED BY <2>1, SettledEntities
<1> QED BY <1>1, LifecycleInvariant, PTL

\* What one step of an undisturbed setup does to a tracker that stays selected.
LEMMA IdentityStep ==
    ASSUME IInv, Next \/ UNCHANGED vars, ~disturbed',
           NEW m \in options.trackers \cap options'.trackers
    PROVE  /\ Of("tracker", {m}) \subseteq entities => Of("tracker", {m}) \subseteq entities'
           /\ Of("client", {m}) \subseteq devices => Of("client", {m}) \subseteq devices'
<1>1. CASE FirstRefreshSucceeds
  <2>1. /\ options.rules \in SUBSET Rules
        /\ options.ssids \in BOOLEAN
        /\ run.trackers \in SUBSET Macs
        /\ entities \in SUBSET Entities
        /\ devices \in SUBSET Devices
    BY DEF IInv, TypeOK, Options
  <2>2. m \in run.trackers
    BY <1>1 DEF FirstRefreshSucceeds, IInv, CapturedInv
  <2>3. \A e \in entities : e.kind = "tracker" /\ e.id \in run.trackers => e \in entities'
    BY <1>1, <2>1, EntitiesFacts DEF FirstRefreshSucceeds
  <2>4. \A e \in Of("tracker", {m}) : e.kind = "tracker" /\ e.id \in run.trackers
    BY <2>2, OfDef
  <2>5. devices' = Of("client", run.trackers) \cup Of("ap", Aps)
    <3>1. devices' = ClientsReconciled(ApsReconciled(devices), run.trackers)
      BY <1>1 DEF FirstRefreshSucceeds
    <3> QED BY <2>1, <3>1, DevicesFacts
  <2>6. Of("client", {m}) \subseteq devices'
    BY <2>2, <2>5, OfDef
  <2> QED BY <2>3, <2>4, <2>6
<1>2. CASE RefreshReturns
  <2>1. UNCHANGED disturbed
    BY <1>2 DEF RefreshReturns
  <2> QED BY <1>2, <2>1, RefreshReturnsInv
<1>3. CASE LateRefreshReturns
  BY <1>3 DEF LateRefreshReturns
<1>4. CASE SetUpSwitches \/ SetUpTrackers
  BY <1>4 DEF SetUpSwitches, SetUpTrackers, AddEntities
<1>5. CASE BoxChanges \/ User \/ BeginSetup \/ FirstRefreshFails \/ FirstRefreshRejected
           \/ RetrySetup \/ FinishSetup \/ SendRefresh \/ RefreshFails \/ LateRefreshFails
           \/ Reload
  <2>1. UNCHANGED <<entities, devices>>
    BY <1>5
       DEF BoxChanges, User, EditRules, EditTrackers, SetSystemSettings, Save, RequestReload,
           BeginSetup, FirstRefreshFails, FirstRefreshRejected, RetrySetup, FinishSetup,
           SendRefresh, RefreshFails, LateRefreshFails, Reload, StartUnload, FinishUnload,
           StartSetup, registries
  <2> QED BY <2>1
<1>6. CASE UNCHANGED vars
  BY <1>6 DEF vars
<1> QED BY <1>1, <1>2, <1>3, <1>4, <1>5, <1>6 DEF Next, SetUp, Refresh

\* A tracker that stays selected keeps its registry entry and its device through
\* every step of an undisturbed setup, failed ones and reloads included.
THEOREM IdentityIsKept == Spec => TrackersKeepIdentity
<1>1. IInv /\ [Next]_vars =>
          [\A m \in options.trackers \cap options'.trackers :
              ~disturbed' =>
                  /\ Of("tracker", {m}) \subseteq entities =>
                         Of("tracker", {m}) \subseteq entities'
                  /\ Of("client", {m}) \subseteq devices =>
                         Of("client", {m}) \subseteq devices']_vars
  BY IdentityStep
<1> QED BY <1>1, LifecycleInvariant, PTL DEF Spec, TrackersKeepIdentity
=============================================================================
