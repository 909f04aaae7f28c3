--------------------------- MODULE WirelessConfig ---------------------------
(***************************************************************************)
(* Pausing and resuming the wireless networks (SSIDs) of the box.          *)
(*                                                                         *)
(* The box stores one networkConfig object.  A toggle is a read-modify-    *)
(* write of that whole object: the wireless manager copies the cached      *)
(* object, replaces the paused flag of one profile and sends everything    *)
(* back.  The cache is replaced by the refresh of the coordinator and      *)
(* patched when a toggle was accepted.  Home Assistant runs one refresh of *)
(* a coordinator at a time; any number of toggles may overlap with it and  *)
(* with each other, and the Firewalla app edits the same object.           *)
(***************************************************************************)
EXTENDS Naturals

CONSTANTS
    Profiles,    \* SSID profile uuids
    Settings,    \* everything else in the networkConfig object
    Calls,       \* switch toggles and set_ssid_paused calls, each issued once
    NoProfile,   \* the profile of a call that was not issued yet
    MaxAppSteps  \* bound: how often the app changes the object

ASSUME ProfilesAssumption == NoProfile \notin Profiles
ASSUME SettingsAssumption == Settings # {}
ASSUME MaxAppStepsAssumption == MaxAppSteps \in Nat

VARIABLES
    box,       \* networkConfig stored on the box
    appSteps,  \* changes the app has made
    payload,   \* networkConfig of wireless_manager._last_payload
    poll,      \* the refresh under way
    call,      \* toggles under way
    held,      \* history: the paused flags each profile has had on the box
    settled    \* history: toggles whose effect nothing under way can undo

vars == <<box, appSteps, payload, poll, call, held, settled>>

\* The paused flag of every profile in the object, and the rest of the object.
Config == [paused : UNION {[S -> BOOLEAN] : S \in SUBSET Profiles}, rest : Settings]

Known(cfg, p) == p \in DOMAIN cfg.paused

\* _build_network_config_with_paused, and the same patch of the cache.
WithPaused(cfg, p, flag) == [cfg EXCEPT !.paused[p] = flag]

NewCall(cfg) == [phase |-> "new", profile |-> NoProfile, paused |-> FALSE, config |-> cfg]

Init ==
    /\ box \in Config
    /\ appSteps = 0
    /\ payload = box
    /\ poll = [phase |-> "idle", config |-> box]
    /\ call = [c \in Calls |-> NewCall(box)]
    /\ held = [p \in Profiles |-> IF Known(box, p) THEN {box.paused[p]} ELSE {}]
    /\ settled = {}

-----------------------------------------------------------------------------
(* The box and the Firewalla app.                                          *)

\* The object shows what toggle c asked for.
Shows(cfg, c) ==
    /\ Known(cfg, call[c].profile)
    /\ cfg.paused[call[c].profile] = call[c].paused

BoxBecomes(cfg) ==
    /\ box' = cfg
    /\ settled' = {c \in settled : Shows(cfg, c)}
    /\ held' = [p \in Profiles |->
                  IF Known(cfg, p) THEN held[p] \cup {cfg.paused[p]} ELSE held[p]]

AppActs ==
    /\ appSteps < MaxAppSteps
    /\ appSteps' = appSteps + 1
    /\ UNCHANGED <<payload, poll, call>>

AppToggles(p) ==
    /\ Known(box, p)
    /\ BoxBecomes(WithPaused(box, p, ~box.paused[p]))
    /\ AppActs

AppChangesRest(x) ==
    /\ x # box.rest
    /\ BoxBecomes([box EXCEPT !.rest = x])
    /\ AppActs

AppAddsProfile(p) ==
    /\ ~Known(box, p)
    /\ BoxBecomes([box EXCEPT !.paused = [q \in DOMAIN box.paused \cup {p} |->
                                            IF q = p THEN FALSE ELSE box.paused[q]]])
    /\ AppActs

AppRemovesProfile(p) ==
    /\ Known(box, p)
    /\ BoxBecomes([box EXCEPT !.paused = [q \in DOMAIN box.paused \ {p} |-> box.paused[q]]])
    /\ AppActs

-----------------------------------------------------------------------------
(* The refresh: WirelessManager.handle_refresh replaces the cached object. *)

SendPoll ==
    /\ poll.phase = "idle"
    /\ poll' = [poll EXCEPT !.phase = "sent"]
    /\ UNCHANGED <<box, appSteps, payload, call, held, settled>>

BoxAnswersPoll ==
    /\ poll.phase = "sent"
    /\ poll' = [phase |-> "answered", config |-> box]
    /\ UNCHANGED <<box, appSteps, payload, call, held, settled>>

\* Faulty variant: a failed refresh empties the cache.
PollFailsEmpties ==
    /\ poll.phase \in {"sent", "answered"}
    /\ payload' = [payload EXCEPT !.paused = [p \in {} |-> FALSE]]
    /\ poll' = [poll EXCEPT !.phase = "idle"]
    /\ UNCHANGED <<box, appSteps, call, held, settled>>

PollFails ==
    /\ poll.phase \in {"sent", "answered"}
    /\ poll' = [poll EXCEPT !.phase = "idle"]
    /\ UNCHANGED <<box, appSteps, payload, call, held, settled>>

\* Faulty variant: profiles the answer leaves out stay in the cache.
PublishPollMerges ==
    /\ poll.phase = "answered"
    /\ payload' = [poll.config EXCEPT !.paused =
                   [p \in DOMAIN poll.config.paused \cup DOMAIN payload.paused |->
                      IF Known(poll.config, p) THEN poll.config.paused[p]
                      ELSE payload.paused[p]]]
    /\ poll' = [poll EXCEPT !.phase = "idle"]
    /\ UNCHANGED <<box, appSteps, call, held, settled>>

PublishPoll ==
    /\ poll.phase = "answered"
    /\ payload' = poll.config
    /\ poll' = [poll EXCEPT !.phase = "idle"]
    /\ UNCHANGED <<box, appSteps, call, held, settled>>

-----------------------------------------------------------------------------
(* One toggle: async_set_ssid_paused.                                      *)

Issue(c, phase, p, flag, cfg) ==
    /\ call[c].phase = "new"
    /\ call' = [call EXCEPT ![c] = [phase |-> phase, profile |-> p,
                                    paused |-> flag, config |-> cfg]]
    /\ UNCHANGED <<box, appSteps, payload, poll, held, settled>>

\* Faulty variant: the object is built from the last answer of the box, which the
\* toggles accepted since are not in.
SetPausedFromAnswer(c, p, flag) ==
    /\ Known(poll.config, p)
    /\ Issue(c, "sent", p, flag, WithPaused(poll.config, p, flag))

\* Faulty variant: the cache is patched before the request is awaited.
SetPausedEarly(c, p, flag) ==
    /\ call[c].phase = "new"
    /\ Known(payload, p)
    /\ call' = [call EXCEPT ![c] = [phase |-> "sent", profile |-> p, paused |-> flag,
                                    config |-> WithPaused(payload, p, flag)]]
    /\ payload' = WithPaused(payload, p, flag)
    /\ UNCHANGED <<box, appSteps, poll, held, settled>>

\* The object to send is built from the cache before the request is awaited.
SetPaused(c, p, flag) ==
    /\ Known(payload, p)
    /\ Issue(c, "sent", p, flag, WithPaused(payload, p, flag))

\* async_turn_on of a switch that is on.
SkipTurnOn(c, p) ==
    /\ Known(payload, p)
    /\ ~payload.paused[p]
    /\ Issue(c, "skipped", p, FALSE, payload)

ProfileNotFound(c, p) ==
    /\ ~Known(payload, p)
    /\ Issue(c, "notFound", p, FALSE, payload)

Moves(c, phase) == call' = [call EXCEPT ![c].phase = phase]

\* The box replaces its object by the one sent.
BoxStores(c) ==
    /\ call[c].phase = "sent"
    /\ BoxBecomes(call[c].config)
    /\ Moves(c, "acked")
    /\ UNCHANGED <<appSteps, payload, poll>>

\* Refused, never delivered, or stored and the answer lost.
RequestFails(c) ==
    /\ call[c].phase \in {"sent", "acked"}
    /\ Moves(c, "failed")
    /\ UNCHANGED <<box, appSteps, payload, poll, held, settled>>

\* Nothing under way can still undo toggle c: the refresh holds no answer, every
\* other toggle is finished, and the box and the cache (as this step leaves it)
\* show what c asked for.
Undisturbed(c) ==
    /\ poll.phase # "answered"
    /\ \A d \in Calls \ {c} : call[d].phase \notin {"sent", "acked"}
    /\ Shows(box, c)
    /\ Shows(payload', c)

\* Faulty variant: the patch stores the uuid of the profile as its flag.
SetReturnsMixed(c) ==
    /\ call[c].phase = "acked"
    /\ payload' = IF Known(payload, call[c].profile)
                  THEN WithPaused(payload, call[c].profile, call[c].profile)
                  ELSE payload
    /\ Moves(c, "done")
    /\ UNCHANGED <<box, appSteps, poll, held, settled>>

\* _apply_optimistic_ssid_paused patches one flag of the cached object of now; a
\* profile a refresh has removed meanwhile is left out.
SetReturns(c) ==
    /\ call[c].phase = "acked"
    /\ payload' = IF Known(payload, call[c].profile)
                  THEN WithPaused(payload, call[c].profile, call[c].paused)
                  ELSE payload
    /\ Moves(c, "done")
    /\ settled' = IF Undisturbed(c) THEN settled \cup {c} ELSE settled
    /\ UNCHANGED <<box, appSteps, poll, held>>

-----------------------------------------------------------------------------
App ==
    \/ \E p \in Profiles : AppToggles(p) \/ AppAddsProfile(p) \/ AppRemovesProfile(p)
    \/ \E x \in Settings : AppChangesRest(x)

Refresh == SendPoll \/ BoxAnswersPoll \/ PollFails \/ PublishPoll

Toggle(c) ==
    \/ \E p \in Profiles : \/ \E flag \in BOOLEAN : SetPaused(c, p, flag)
                           \/ SkipTurnOn(c, p)
                           \/ ProfileNotFound(c, p)
    \/ BoxStores(c)
    \/ RequestFails(c)
    \/ SetReturns(c)

Next == App \/ Refresh \/ \E c \in Calls : Toggle(c)

Spec == Init /\ [][Next]_vars

\* The next refresh is always scheduled and the box is reachable again and again.
FairSpec ==
    /\ Spec
    /\ WF_vars(SendPoll)
    /\ SF_vars(BoxAnswersPoll)
    /\ SF_vars(PublishPoll)

-----------------------------------------------------------------------------
(* Properties.                                                             *)

Phases == {"new", "sent", "acked", "done", "failed", "skipped", "notFound"}

\* Types of the stored object, of the cached one and of what is under way.
TypeOK ==
    /\ box \in Config
    /\ appSteps \in 0..MaxAppSteps
    /\ payload \in Config
    /\ poll \in [phase : {"idle", "sent", "answered"}, config : Config]
    /\ call \in [Calls -> [phase : Phases, profile : Profiles \cup {NoProfile},
                           paused : BOOLEAN, config : Config]]
    /\ held \in [Profiles -> SUBSET BOOLEAN]
    /\ settled \subseteq Calls

\* The switches never show a state the wireless network never had: the flag in
\* the cache is one the profile has had on the box, whatever whole objects
\* overlapping toggles have stored in between.
NoPhantomPause ==
    \A p \in Profiles : Known(box, p) /\ Known(payload, p) => payload.paused[p] \in held[p]

\* A toggle that finished while the refresh held no answer and no other toggle
\* was unfinished stays visible until the box itself changes the profile.
SettledTogglesShow == \A c \in settled : Shows(payload, c)

\* A step that takes the effect of a settled toggle off the box is one of the app or
\* a toggle of the same network.
KeepsSettled ==
    \A c \in settled :
        ~Shows(box', c)
           => \/ appSteps' # appSteps
              \/ \E d \in Calls : /\ call[d].phase = "sent" /\ call'[d].phase = "acked"
                                  /\ call[d].profile = call[c].profile

\* Such a toggle is never undone by a toggle of another network, although that
\* one replaces the whole object: only the app or a toggle of the same profile
\* takes it back.
SettledTogglesKept == [][KeepsSettled]_vars

\* The cache comes to be the object on the box once the app and the toggles stop.
Converges == <>[](payload = box)

-----------------------------------------------------------------------------
(* The strengthenings that make the safety properties inductive.           *)

\* A call under way tells the box the flag it was issued with, and of the other
\* networks what the box has had.
CallHeld(c) ==
    /\ call[c].phase \in {"sent", "acked"} => Shows(call[c].config, c)
    /\ \A p \in DOMAIN call[c].config.paused \ {call[c].profile} :
          call[c].config.paused[p] \in held[p]
    /\ call[c].phase = "acked" => call[c].paused \in held[call[c].profile]

FlagsHeld(cfg) == \A p \in DOMAIN cfg.paused : cfg.paused[p] \in held[p]

\* Every flag anywhere is one the box has had or is being told.
HeldInv ==
    /\ FlagsHeld(box)
    /\ FlagsHeld(payload)
    /\ FlagsHeld(poll.config)
    /\ \A c \in Calls : CallHeld(c)

\* Call d does not contradict toggle c.
Agrees(d, c) ==
    /\ call[d].phase = "sent" => \/ call[d].profile = call[c].profile
                                 \/ Shows(call[d].config, c)
    /\ call[d].phase = "acked" /\ call[d].profile = call[c].profile
          => call[d].paused = call[c].paused

\* Nothing under way contradicts a settled toggle.
SettledInv ==
    \A c \in settled :
        /\ call[c].phase = "done"
        /\ Shows(box, c)
        /\ Shows(payload, c)
        /\ poll.phase = "answered" => Shows(poll.config, c)
        /\ \A d \in Calls : Agrees(d, c)
=============================================================================
