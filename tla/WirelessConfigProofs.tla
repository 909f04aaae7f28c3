------------------------- MODULE WirelessConfigProofs -------------------------
(* Proofs about WirelessConfig for every value of its constants.           *)
EXTENDS WirelessConfig, TLAPS

-----------------------------------------------------------------------------
(* What the operators on configurations return.                            *)

\* A configuration is a record of the flags of some profiles and a rest.
LEMMA ConfigDef ==
    ASSUME NEW cfg
    PROVE  cfg \in Config <=> /\ cfg = [paused |-> cfg.paused, rest |-> cfg.rest]
                              /\ DOMAIN cfg.paused \subseteq Profiles
                              /\ cfg.paused \in [DOMAIN cfg.paused -> BOOLEAN]
                              /\ cfg.rest \in Settings
BY DEF Config

\* Replacing one flag keeps the profiles, the other flags and the rest.
LEMMA WithPausedFacts ==
    ASSUME NEW cfg \in Config, NEW p \in Profiles, Known(cfg, p), NEW flag \in BOOLEAN
    PROVE  /\ WithPaused(cfg, p, flag) \in Config
           /\ DOMAIN WithPaused(cfg, p, flag).paused = DOMAIN cfg.paused
           /\ WithPaused(cfg, p, flag).paused[p] = flag
           /\ \A q \in DOMAIN cfg.paused \ {p} :
                 WithPaused(cfg, p, flag).paused[q] = cfg.paused[q]
<1>1. /\ cfg = [paused |-> cfg.paused, rest |-> cfg.rest]
      /\ DOMAIN cfg.paused \subseteq Profiles
      /\ cfg.paused \in [DOMAIN cfg.paused -> BOOLEAN]
      /\ cfg.rest \in Settings
  BY ConfigDef
<1> DEFINE f == [cfg.paused EXCEPT ![p] = flag]
<1>2. WithPaused(cfg, p, flag) = [paused |-> f, rest |-> cfg.rest]
  BY <1>1 DEF WithPaused
<1>3. /\ DOMAIN f = DOMAIN cfg.paused
      /\ f \in [DOMAIN f -> BOOLEAN]
      /\ f[p] = flag
      /\ \A q \in DOMAIN cfg.paused \ {p} : f[q] = cfg.paused[q]
  BY <1>1 DEF Known
<1> HIDE DEF f
<1> QED BY <1>1, <1>2, <1>3, ConfigDef

\* What a change of the stored object does to the history.
LEMMA BoxBecomesFacts ==
    ASSUME TypeOK, NEW cfg \in Config, BoxBecomes(cfg)
    PROVE  /\ box' = cfg
           /\ held' \in [Profiles -> SUBSET BOOLEAN]
           /\ \A p \in Profiles : held[p] \subseteq held'[p]
           /\ \A p \in DOMAIN cfg.paused : cfg.paused[p] \in held'[p]
           /\ settled' \subseteq settled
           /\ \A c \in settled' : Shows(cfg, c)
<1>1. /\ DOMAIN cfg.paused \subseteq Profiles
      /\ \A p \in DOMAIN cfg.paused : cfg.paused[p] \in BOOLEAN
  BY ConfigDef
<1> QED BY <1>1 DEF BoxBecomes, TypeOK, Known

\* Whatever the app does leaves a configuration on the box.
LEMMA AppFacts ==
    ASSUME TypeOK, App
    PROVE  AppActs /\ \E cfg \in Config : BoxBecomes(cfg)
<1>0. box \in Config
  BY DEF TypeOK
<1>1. /\ box = [paused |-> box.paused, rest |-> box.rest]
      /\ DOMAIN box.paused \subseteq Profiles
      /\ box.paused \in [DOMAIN box.paused -> BOOLEAN]
      /\ box.rest \in Settings
  BY <1>0, ConfigDef
<1>2. ASSUME NEW p \in Profiles, AppToggles(p)
      PROVE  AppActs /\ \E cfg \in Config : BoxBecomes(cfg)
  <2>1. WithPaused(box, p, ~box.paused[p]) \in Config
    BY <1>0, <1>2, WithPausedFacts DEF AppToggles
  <2> QED BY <1>2, <2>1 DEF AppToggles
<1>3. ASSUME NEW p \in Profiles, AppAddsProfile(p)
      PROVE  AppActs /\ \E cfg \in Config : BoxBecomes(cfg)
  <2> DEFINE f == [q \in DOMAIN box.paused \cup {p} |-> IF q = p THEN FALSE ELSE box.paused[q]]
  <2>1. DOMAIN f \subseteq Profiles /\ f \in [DOMAIN f -> BOOLEAN]
    BY <1>1
  <2> HIDE DEF f
  <2>2. [box EXCEPT !.paused = f] = [paused |-> f, rest |-> box.rest]
    BY <1>1
  <2>3. [box EXCEPT !.paused = f] \in Config
    BY <1>1, <2>1, <2>2, ConfigDef
  <2> QED BY <1>3, <2>3 DEF AppAddsProfile, f
<1>4. ASSUME NEW p \in Profiles, AppRemovesProfile(p)
      PROVE  AppActs /\ \E cfg \in Config : BoxBecomes(cfg)
  <2> DEFINE f == [q \in DOMAIN box.paused \ {p} |-> box.paused[q]]
  <2>1. DOMAIN f \subseteq Profiles /\ f \in [DOMAIN f -> BOOLEAN]
    BY <1>1
  <2> HIDE DEF f
  <2>2. [box EXCEPT !.paused = f] = [paused |-> f, rest |-> box.rest]
    BY <1>1
  <2>3. [box EXCEPT !.paused = f] \in Config
    BY <1>1, <2>1, <2>2, ConfigDef
  <2> QED BY <1>4, <2>3 DEF AppRemovesProfile, f
<1>5. ASSUME NEW x \in Settings, AppChangesRest(x)
      PROVE  AppActs /\ \E cfg \in Config : BoxBecomes(cfg)
  <2>1. [box EXCEPT !.rest = x] = [paused |-> box.paused, rest |-> x]
    BY <1>1
  <2>2. [box EXCEPT !.rest = x] \in Config
    BY <1>1, <2>1, ConfigDef
  <2> QED BY <1>5, <2>2 DEF AppChangesRest
<1> QED BY <1>2, <1>3, <1>4, <1>5 DEF App

\* A call that was issued: its record and, if a request is sent, its object.
Issued(c, phase, p, flag, cfg) ==
    /\ Issue(c, phase, p, flag, cfg)
    /\ phase \in {"sent", "skipped", "notFound"}
    /\ IF phase = "sent" THEN Known(payload, p) /\ cfg = WithPaused(payload, p, flag)
                         ELSE cfg = payload

Issues(c) == \E phase \in Phases, p \in Profiles, flag \in BOOLEAN, cfg \in Config :
                Issued(c, phase, p, flag, cfg)

\* A call is issued, stored by the box, fails or returns.
LEMMA ToggleCases ==
    ASSUME TypeOK, NEW c \in Calls, Toggle(c)
    PROVE  Issues(c) \/ BoxStores(c) \/ RequestFails(c) \/ SetReturns(c)
<1>0. payload \in Config
  BY DEF TypeOK
<1>1. ASSUME NEW p \in Profiles, NEW flag \in BOOLEAN, SetPaused(c, p, flag)
      PROVE  Issues(c)
  <2>1. WithPaused(payload, p, flag) \in Config
    BY <1>0, <1>1, WithPausedFacts DEF SetPaused
  <2>2. Issued(c, "sent", p, flag, WithPaused(payload, p, flag))
    BY <1>1 DEF SetPaused, Issued
  <2>3. "sent" \in Phases
    BY DEF Phases
  <2> QED BY <2>1, <2>2, <2>3 DEF Issues
<1>2. ASSUME NEW p \in Profiles, SkipTurnOn(c, p)
      PROVE  Issues(c)
  <2>1. Issued(c, "skipped", p, FALSE, payload)
    BY <1>2 DEF SkipTurnOn, Issued
  <2>2. "skipped" \in Phases /\ FALSE \in BOOLEAN
    BY DEF Phases
  <2> QED BY <1>0, <2>1, <2>2 DEF Issues
<1>3. ASSUME NEW p \in Profiles, ProfileNotFound(c, p)
      PROVE  Issues(c)
  <2>1. Issued(c, "notFound", p, FALSE, payload)
    BY <1>3 DEF ProfileNotFound, Issued
  <2>2. "notFound" \in Phases /\ FALSE \in BOOLEAN
    BY DEF Phases
  <2> QED BY <1>0, <2>1, <2>2 DEF Issues
<1> QED BY <1>1, <1>2, <1>3 DEF Toggle

-----------------------------------------------------------------------------
(* Types.                                                                  *)

CallRecord == [phase : Phases, profile : Profiles \cup {NoProfile}, paused : BOOLEAN,
               config : Config]

\* Moving a call to another phase changes nothing else of it.
LEMMA MovesFacts ==
    ASSUME TypeOK, NEW c \in Calls, NEW phase \in Phases, Moves(c, phase)
    PROVE  /\ call' \in [Calls -> CallRecord]
           /\ call'[c].phase = phase
           /\ \A d \in Calls : /\ call'[d].profile = call[d].profile
                               /\ call'[d].paused = call[d].paused
                               /\ call'[d].config = call[d].config
                               /\ d # c => call'[d].phase = call[d].phase
BY DEF TypeOK, Moves, CallRecord

\* Issuing a call stores its record.
LEMMA IssueFacts ==
    ASSUME TypeOK, NEW c \in Calls, NEW phase \in Phases, NEW p \in Profiles,
           NEW flag \in BOOLEAN, NEW cfg \in Config, Issue(c, phase, p, flag, cfg)
    PROVE  /\ call' \in [Calls -> CallRecord]
           /\ call[c].phase = "new"
           /\ call'[c].phase = phase
           /\ call'[c].profile = p
           /\ call'[c].paused = flag
           /\ call'[c].config = cfg
           /\ \A d \in Calls \ {c} : call'[d] = call[d]
BY DEF TypeOK, Issue, CallRecord

\* The initial states are well typed.
LEMMA InitType == Init => TypeOK
<1> SUFFICES ASSUME Init PROVE TypeOK
  OBVIOUS
<1>1. box \in Config
  BY DEF Init
<1>2. \A p \in DOMAIN box.paused : box.paused[p] \in BOOLEAN
  BY <1>1, ConfigDef
<1>3. held \in [Profiles -> SUBSET BOOLEAN]
  BY <1>2 DEF Init, Known
<1>4. call \in [Calls -> CallRecord]
  BY <1>1 DEF Init, NewCall, CallRecord, Phases
<1> QED BY <1>1, <1>3, <1>4, MaxAppStepsAssumption DEF Init, TypeOK, CallRecord

\* The cache after a toggle was answered.
LEMMA SetReturnsPayload ==
    ASSUME TypeOK, NEW c \in Calls, SetReturns(c)
    PROVE  /\ payload' \in Config
           /\ DOMAIN payload'.paused = DOMAIN payload.paused
           /\ \A p \in DOMAIN payload.paused :
                 payload'.paused[p] = IF p = call[c].profile THEN call[c].paused
                                      ELSE payload.paused[p]
<1>1. payload \in Config /\ call[c] \in CallRecord
  BY DEF TypeOK, CallRecord
<1>2. CASE Known(payload, call[c].profile)
  <2>1. call[c].profile \in Profiles /\ call[c].paused \in BOOLEAN
    BY <1>1, <1>2, ConfigDef DEF Known, CallRecord
  <2>2. payload' = WithPaused(payload, call[c].profile, call[c].paused)
    BY <1>2 DEF SetReturns
  <2> QED BY <1>1, <1>2, <2>1, <2>2, WithPausedFacts
<1>3. CASE ~Known(payload, call[c].profile)
  BY <1>1, <1>3 DEF SetReturns, Known
<1> QED BY <1>2, <1>3

\* Every step keeps the types.
LEMMA NextType == TypeOK /\ [Next]_vars => TypeOK'
<1> SUFFICES ASSUME TypeOK, [Next]_vars PROVE TypeOK'
  OBVIOUS
<1>1. CASE UNCHANGED vars
  BY <1>1 DEF vars, TypeOK
<1>2. CASE App
  <2>1. PICK cfg \in Config : BoxBecomes(cfg)
    BY <1>2, AppFacts
  <2>2. AppActs
    BY <1>2, AppFacts
  <2>3. box' \in Config /\ held' \in [Profiles -> SUBSET BOOLEAN] /\ settled' \subseteq Calls
    BY <2>1, BoxBecomesFacts DEF TypeOK
  <2>4. appSteps' \in 0..MaxAppSteps
    BY <2>2, MaxAppStepsAssumption DEF AppActs, TypeOK
  <2> QED BY <2>2, <2>3, <2>4 DEF AppActs, TypeOK
<1>3. CASE Refresh
  BY <1>3 DEF Refresh, SendPoll, BoxAnswersPoll, PollFails, PublishPoll, TypeOK
<1>4. ASSUME NEW c \in Calls, Toggle(c)
      PROVE  TypeOK'
  <2>1. CASE Issues(c)
    <3>1. PICK phase \in Phases, p \in Profiles, flag \in BOOLEAN, cfg \in Config :
             Issued(c, phase, p, flag, cfg)
      BY <2>1 DEF Issues
    <3>2. Issue(c, phase, p, flag, cfg)
      BY <3>1 DEF Issued
    <3>3. call' \in [Calls -> CallRecord]
      BY <3>2, IssueFacts
    <3> QED BY <3>2, <3>3 DEF Issue, TypeOK, CallRecord
  <2>2. CASE BoxStores(c)
    <3>1. "acked" \in Phases /\ call[c].config \in Config /\ BoxBecomes(call[c].config)
      BY <2>2 DEF BoxStores, Phases, TypeOK
    <3>2. box' \in Config /\ held' \in [Profiles -> SUBSET BOOLEAN] /\ settled' \subseteq Calls
      BY <3>1, BoxBecomesFacts DEF TypeOK
    <3>3. call' \in [Calls -> CallRecord]
      BY <2>2, <3>1, MovesFacts DEF BoxStores
    <3> QED BY <2>2, <3>2, <3>3 DEF BoxStores, TypeOK, CallRecord
  <2>3. CASE RequestFails(c)
    <3>1. "failed" \in Phases
      BY DEF Phases
    <3>2. call' \in [Calls -> CallRecord]
      BY <2>3, <3>1, MovesFacts DEF RequestFails
    <3> QED BY <2>3, <3>2 DEF RequestFails, TypeOK, CallRecord
  <2>4. CASE SetReturns(c)
    <3>1. "done" \in Phases
      BY DEF Phases
    <3>2. call' \in [Calls -> CallRecord]
      BY <2>4, <3>1, MovesFacts DEF SetReturns
    <3>3. payload' \in Config
      BY <2>4, SetReturnsPayload
    <3>4. settled' \subseteq Calls
      BY <2>4 DEF SetReturns, TypeOK
    <3> QED BY <2>4, <3>2, <3>3, <3>4 DEF SetReturns, TypeOK, CallRecord
  <2> QED BY <1>4, <2>1, <2>2, <2>3, <2>4, ToggleCases
<1> QED BY <1>1, <1>2, <1>3, <1>4 DEF Next

\* Types of the stored object, of the cached one and of what is under way.
THEOREM TypeCorrect == Spec => []TypeOK
<1>1. Init => TypeOK
  BY InitType
<1>2. TypeOK /\ [Next]_vars => TypeOK'
  BY NextType
<1> QED BY <1>1, <1>2, PTL DEF Spec

-----------------------------------------------------------------------------
(* The cache shows no state a network never had.                           *)

\* Initially every object is the one on the box.
LEMMA InitHeld == Init => HeldInv
<1> SUFFICES ASSUME Init PROVE HeldInv
  OBVIOUS
<1>1. DOMAIN box.paused \subseteq Profiles
  BY ConfigDef DEF Init
<1>2. FlagsHeld(box)
  BY <1>1 DEF Init, Known, FlagsHeld
<1>3. ASSUME NEW c \in Calls PROVE CallHeld(c)
  <2>1. call[c].phase = "new" /\ call[c].config = box
    BY DEF Init, NewCall
  <2> QED BY <1>2, <2>1 DEF CallHeld, FlagsHeld
<1> QED BY <1>2, <1>3 DEF Init, HeldInv

\* The flags of a configuration stay held while the history grows.
LEMMA FlagsStayHeld ==
    ASSUME NEW cfg \in Config, FlagsHeld(cfg), \A p \in Profiles : held[p] \subseteq held'[p]
    PROVE  \A p \in DOMAIN cfg.paused : cfg.paused[p] \in held'[p]
<1>1. DOMAIN cfg.paused \subseteq Profiles
  BY ConfigDef
<1> QED BY <1>1 DEF FlagsHeld

\* What a call tells the box stays so while the history grows and the call waits
\* or fails.
LEMMA CallStaysHeld ==
    ASSUME TypeOK, NEW d \in Calls, CallHeld(d),
           \A p \in Profiles : held[p] \subseteq held'[p],
           call'[d].profile = call[d].profile, call'[d].paused = call[d].paused,
           call'[d].config = call[d].config,
           \/ call'[d].phase = call[d].phase
           \/ call'[d].phase \in {"failed", "done"}
    PROVE  CallHeld(d)'
<1>1. call[d].config \in Config
  BY DEF TypeOK
<1>2. DOMAIN call[d].config.paused \subseteq Profiles
  BY <1>1, ConfigDef
<1> QED BY <1>2 DEF CallHeld, Shows, Known

\* Every step keeps the flags held.
LEMMA NextHeld == TypeOK /\ HeldInv /\ [Next]_vars => HeldInv'
<1> SUFFICES ASSUME TypeOK, HeldInv, [Next]_vars PROVE HeldInv'
  OBVIOUS
<1>0. box \in Config /\ payload \in Config /\ poll.config \in Config
  BY DEF TypeOK
<1>1. CASE UNCHANGED vars
  BY <1>1 DEF vars, HeldInv, FlagsHeld, CallHeld, Shows, Known
<1>2. CASE App
  <2>1. PICK cfg \in Config : BoxBecomes(cfg)
    BY <1>2, AppFacts
  <2>2. UNCHANGED <<payload, poll, call>>
    BY <1>2, AppFacts DEF AppActs
  <2>3. /\ box' = cfg
        /\ \A p \in Profiles : held[p] \subseteq held'[p]
        /\ \A p \in DOMAIN cfg.paused : cfg.paused[p] \in held'[p]
    BY <2>1, BoxBecomesFacts
  <2>4. FlagsHeld(payload)' /\ FlagsHeld(poll.config)'
    BY <1>0, <2>2, <2>3, FlagsStayHeld DEF HeldInv, FlagsHeld
  <2>5. \A d \in Calls : CallHeld(d)'
    BY <2>2, <2>3, CallStaysHeld DEF HeldInv
  <2> QED BY <2>3, <2>4, <2>5 DEF HeldInv, FlagsHeld
<1>3. CASE Refresh
  <2>1. /\ UNCHANGED <<box, call, held>>
        /\ payload' \in {payload, poll.config}
        /\ poll'.config \in {box, poll.config}
    BY <1>3 DEF Refresh, SendPoll, BoxAnswersPoll, PollFails, PublishPoll, TypeOK
  <2>2. \A c \in Calls : CallHeld(c)'
    BY <2>1 DEF HeldInv, CallHeld, Shows, Known
  <2> QED BY <2>1, <2>2 DEF HeldInv, FlagsHeld
<1>4. ASSUME NEW c \in Calls, Toggle(c)
      PROVE  HeldInv'
  <2>1. CASE Issues(c)
    <3>1. PICK phase \in Phases, p \in Profiles, flag \in BOOLEAN, cfg \in Config :
             Issued(c, phase, p, flag, cfg)
      BY <2>1 DEF Issues
    <3>2. Issue(c, phase, p, flag, cfg) /\ UNCHANGED <<box, payload, poll, held>>
      BY <3>1 DEF Issued, Issue
    <3>3. /\ call'[c].phase = phase
          /\ call'[c].profile = p
          /\ call'[c].paused = flag
          /\ call'[c].config = cfg
          /\ \A d \in Calls \ {c} : call'[d] = call[d]
      BY <3>2, IssueFacts
    <3>4. CallHeld(c)'
      <4>1. CASE phase = "sent"
        <5>1. Known(payload, p) /\ cfg = WithPaused(payload, p, flag)
          BY <3>1, <4>1 DEF Issued
        <5>2. /\ DOMAIN cfg.paused = DOMAIN payload.paused
              /\ cfg.paused[p] = flag
              /\ \A q \in DOMAIN payload.paused \ {p} : cfg.paused[q] = payload.paused[q]
          BY <1>0, <5>1, WithPausedFacts
        <5>3. \A q \in DOMAIN cfg.paused \ {p} : cfg.paused[q] \in held'[q]
          BY <3>2, <5>2 DEF HeldInv, FlagsHeld
        <5>4. p \in DOMAIN cfg.paused
          BY <5>1, <5>2 DEF Known
        <5> QED BY <3>3, <4>1, <5>2, <5>3, <5>4 DEF CallHeld, Shows, Known
      <4>2. CASE phase # "sent"
        <5>1. phase \notin {"sent", "acked"} /\ cfg = payload
          BY <3>1, <4>2 DEF Issued
        <5> QED BY <3>2, <3>3, <5>1 DEF CallHeld, HeldInv, FlagsHeld
      <4> QED BY <4>1, <4>2
    <3>5. \A d \in Calls \ {c} : CallHeld(d)'
      BY <3>2, <3>3 DEF HeldInv, CallHeld, Shows, Known
    <3> QED BY <3>2, <3>4, <3>5 DEF HeldInv, FlagsHeld
  <2>2. CASE BoxStores(c)
    <3> DEFINE cfg == call[c].config
    <3>1. /\ "acked" \in Phases /\ cfg \in Config /\ BoxBecomes(cfg)
          /\ call[c].phase = "sent" /\ Moves(c, "acked") /\ UNCHANGED <<payload, poll>>
      BY <2>2 DEF BoxStores, Phases, TypeOK
    <3> HIDE DEF cfg
    <3>2. /\ box' = cfg
          /\ \A p \in Profiles : held[p] \subseteq held'[p]
          /\ \A p \in DOMAIN cfg.paused : cfg.paused[p] \in held'[p]
      BY <3>1, BoxBecomesFacts
    <3>3. /\ call'[c].phase = "acked"
          /\ \A d \in Calls : /\ call'[d].profile = call[d].profile
                              /\ call'[d].paused = call[d].paused
                              /\ call'[d].config = call[d].config
                              /\ d # c => call'[d].phase = call[d].phase
      BY <3>1, MovesFacts
    <3>4. FlagsHeld(payload)' /\ FlagsHeld(poll.config)'
      BY <1>0, <3>1, <3>2, FlagsStayHeld DEF HeldInv, FlagsHeld
    <3>5. \A d \in Calls \ {c} : CallHeld(d)'
      BY <3>2, <3>3, CallStaysHeld DEF HeldInv
    <3>6. call[c].profile \in DOMAIN cfg.paused /\ cfg.paused[call[c].profile] = call[c].paused
      BY <3>1 DEF HeldInv, CallHeld, Shows, Known, cfg
    <3>7. CallHeld(c)'
      BY <3>2, <3>3, <3>6 DEF CallHeld, Shows, Known, cfg
    <3> QED BY <3>2, <3>4, <3>5, <3>7 DEF HeldInv, FlagsHeld
  <2>3. CASE RequestFails(c)
    <3>1. "failed" \in Phases /\ Moves(c, "failed") /\ UNCHANGED <<box, payload, poll, held>>
      BY <2>3 DEF RequestFails, Phases
    <3>2. /\ call'[c].phase = "failed"
          /\ \A d \in Calls : /\ call'[d].profile = call[d].profile
                              /\ call'[d].paused = call[d].paused
                              /\ call'[d].config = call[d].config
                              /\ d # c => call'[d].phase = call[d].phase
      BY <3>1, MovesFacts
    <3>3. \A d \in Calls : CallHeld(d)'
      BY <3>1, <3>2, CallStaysHeld DEF HeldInv
    <3> QED BY <3>1, <3>3 DEF HeldInv, FlagsHeld
  <2>4. CASE SetReturns(c)
    <3>1. /\ "done" \in Phases /\ Moves(c, "done") /\ UNCHANGED <<box, poll, held>>
          /\ call[c].phase = "acked"
      BY <2>4 DEF SetReturns, Phases
    <3>2. /\ call'[c].phase = "done"
          /\ \A d \in Calls : /\ call'[d].profile = call[d].profile
                              /\ call'[d].paused = call[d].paused
                              /\ call'[d].config = call[d].config
                              /\ d # c => call'[d].phase = call[d].phase
      BY <3>1, MovesFacts
    <3>3. \A d \in Calls : CallHeld(d)'
      BY <3>1, <3>2, CallStaysHeld DEF HeldInv
    <3>4. call[c].paused \in held[call[c].profile]
      BY <3>1 DEF HeldInv, CallHeld
    <3>5. FlagsHeld(payload)'
      BY <2>4, <3>1, <3>4, SetReturnsPayload DEF HeldInv, FlagsHeld
    <3> QED BY <3>1, <3>3, <3>5 DEF HeldInv, FlagsHeld
  <2> QED BY <1>4, <2>1, <2>2, <2>3, <2>4, ToggleCases
<1> QED BY <1>1, <1>2, <1>3, <1>4 DEF Next

\* The switches never show a state the wireless network never had, however many
\* toggles replace the whole object (async_set_ssid_paused) and refreshes replace
\* the cache.
THEOREM PausesNeverInvented == Spec => []NoPhantomPause
<1>1. Init => TypeOK /\ HeldInv
  BY InitType, InitHeld
<1>2. TypeOK /\ HeldInv /\ [Next]_vars => (TypeOK /\ HeldInv)'
  BY NextType, NextHeld
<1>3. HeldInv => NoPhantomPause
  BY DEF HeldInv, FlagsHeld, NoPhantomPause, Known
<1> QED BY <1>1, <1>2, <1>3, PTL DEF Spec

-----------------------------------------------------------------------------
(* A settled toggle is kept.                                               *)

\* Initially nothing is settled.
LEMMA InitSettled == Init => SettledInv
BY DEF Init, SettledInv

\* A step of the box keeps the settled toggles that it shows, as long as the calls
\* other than one the box carries out are what they were.
LEMMA SettledStays ==
    ASSUME TypeOK, SettledInv, NEW c \in settled,
           \A d \in Calls : /\ call'[d].profile = call[d].profile
                            /\ call'[d].paused = call[d].paused
                            /\ call'[d].config = call[d].config,
           call'[c].phase = "done", Shows(box', c), Shows(payload', c),
           poll'.phase = "answered" => Shows(poll'.config, c),
           \A d \in Calls : /\ call'[d].phase = "sent" => call[d].phase = "sent"
                            /\ call'[d].phase = "acked" => \/ call[d].phase = "acked"
                                                           \/ Shows(call[d].config, c)
                                                              /\ Shows(call[d].config, d)
    PROVE  /\ (call[c].phase = "done")'
           /\ Shows(box, c)'
           /\ Shows(payload, c)'
           /\ (poll.phase = "answered" => Shows(poll.config, c))'
           /\ \A d \in Calls : Agrees(d, c)'
<1>1. c \in Calls
  BY DEF TypeOK
<1>2. ASSUME NEW d \in Calls PROVE Agrees(d, c)'
  <2>1. Agrees(d, c)
    BY DEF SettledInv
  <2> QED BY <1>1, <2>1 DEF Agrees, Shows, Known
<1> QED BY <1>1, <1>2 DEF Shows, Known

\* Issuing a call keeps the settled toggles: its object is built from a cache that
\* shows them.
LEMMA IssuesSettled ==
    ASSUME TypeOK, SettledInv, NEW c \in Calls, Issues(c)
    PROVE  SettledInv'
<1>1. PICK phase \in Phases, p \in Profiles, flag \in BOOLEAN, cfg \in Config :
         Issued(c, phase, p, flag, cfg)
  BY DEF Issues
<1>2. Issue(c, phase, p, flag, cfg) /\ UNCHANGED <<box, payload, poll, settled>>
  BY <1>1 DEF Issued, Issue
<1>3. /\ call[c].phase = "new"
      /\ call'[c].phase = phase
      /\ call'[c].profile = p
      /\ call'[c].paused = flag
      /\ call'[c].config = cfg
      /\ \A d \in Calls \ {c} : call'[d] = call[d]
  BY <1>2, IssueFacts
<1>4. ASSUME NEW s \in settled
      PROVE  /\ (call[s].phase = "done")'
             /\ Shows(box, s)'
             /\ Shows(payload, s)'
             /\ (poll.phase = "answered" => Shows(poll.config, s))'
             /\ \A d \in Calls : Agrees(d, s)'
  <2>1. /\ s \in Calls /\ call[s].phase = "done" /\ Shows(box, s) /\ Shows(payload, s)
        /\ poll.phase = "answered" => Shows(poll.config, s)
        /\ \A d \in Calls : Agrees(d, s)
    BY DEF SettledInv, TypeOK
  <2>2. s # c /\ call'[s] = call[s]
    BY <1>3, <2>1
  <2>3. \A d \in Calls \ {c} : Agrees(d, s)'
    BY <1>3, <2>1, <2>2 DEF Agrees, Shows, Known
  <2>4. Agrees(c, s)'
    <3>1. CASE phase = "sent"
      <4>1. payload \in Config /\ Known(payload, p) /\ cfg = WithPaused(payload, p, flag)
        BY <1>1, <3>1 DEF Issued, TypeOK
      <4>2. /\ DOMAIN cfg.paused = DOMAIN payload.paused
            /\ \A q \in DOMAIN payload.paused \ {p} : cfg.paused[q] = payload.paused[q]
        BY <4>1, WithPausedFacts
      <4> QED BY <1>3, <2>1, <2>2, <3>1, <4>2 DEF Agrees, Shows, Known
    <3>2. CASE phase # "sent"
      BY <1>1, <1>3, <3>2 DEF Agrees, Issued
    <3> QED BY <3>1, <3>2
  <2> QED BY <1>2, <2>1, <2>2, <2>3, <2>4 DEF Shows, Known
<1> QED BY <1>2, <1>4 DEF SettledInv

\* Every step keeps the settled toggles.
LEMMA NextSettled == TypeOK /\ HeldInv /\ SettledInv /\ [Next]_vars => SettledInv'
<1> SUFFICES ASSUME TypeOK, HeldInv, SettledInv, [Next]_vars PROVE SettledInv'
  OBVIOUS
<1>0. \A s \in settled :
         /\ s \in Calls /\ call[s].phase = "done" /\ Shows(box, s) /\ Shows(payload, s)
         /\ poll.phase = "answered" => Shows(poll.config, s)
  BY DEF SettledInv, TypeOK
<1>1. CASE UNCHANGED vars
  BY <1>1 DEF vars, SettledInv, Agrees, Shows, Known
<1>2. CASE App
  <2>1. PICK cfg \in Config : BoxBecomes(cfg)
    BY <1>2, AppFacts
  <2>2. UNCHANGED <<payload, poll, call>>
    BY <1>2, AppFacts DEF AppActs
  <2>3. box' = cfg /\ settled' \subseteq settled /\ \A s \in settled' : Shows(cfg, s)
    BY <2>1, BoxBecomesFacts
  <2>4. ASSUME NEW s \in settled'
        PROVE  \A d \in Calls : Agrees(d, s)'
    BY <2>2, <2>3, <2>4 DEF SettledInv, Agrees, Shows, Known
  <2> QED BY <1>0, <2>2, <2>3, <2>4 DEF SettledInv, Shows, Known
<1>3. CASE Refresh
  <2>1. /\ UNCHANGED <<box, call, settled>>
        /\ payload' = payload \/ (payload' = poll.config /\ poll.phase = "answered")
        /\ poll'.phase = "answered" => poll'.config = box
    BY <1>3 DEF Refresh, SendPoll, BoxAnswersPoll, PollFails, PublishPoll, TypeOK
  <2>2. ASSUME NEW s \in settled
        PROVE  \A d \in Calls : Agrees(d, s)'
    BY <2>1 DEF SettledInv, Agrees, Shows, Known
  <2>3. ASSUME NEW s \in settled
        PROVE  /\ Shows(box, s)' /\ Shows(payload, s)'
               /\ (poll.phase = "answered" => Shows(poll.config, s))'
    BY <1>0, <2>1 DEF Shows, Known
  <2> QED BY <1>0, <2>1, <2>2, <2>3 DEF SettledInv
<1>4. ASSUME NEW c \in Calls, Toggle(c)
      PROVE  SettledInv'
  <2>1. CASE Issues(c)
    BY <2>1, IssuesSettled
  <2>2. CASE BoxStores(c)
    <3>1. /\ "acked" \in Phases /\ call[c].config \in Config /\ BoxBecomes(call[c].config)
          /\ call[c].phase = "sent" /\ Moves(c, "acked") /\ UNCHANGED <<payload, poll>>
      BY <2>2 DEF BoxStores, Phases, TypeOK
    <3>2. /\ box' = call[c].config /\ settled' \subseteq settled
          /\ \A s \in settled' : Shows(call[c].config, s)
      BY <3>1, BoxBecomesFacts
    <3>3. /\ call'[c].phase = "acked"
          /\ \A d \in Calls : /\ call'[d].profile = call[d].profile
                              /\ call'[d].paused = call[d].paused
                              /\ call'[d].config = call[d].config
                              /\ d # c => call'[d].phase = call[d].phase
      BY <3>1, MovesFacts
    <3>4. Shows(call[c].config, c)
      BY <3>1 DEF HeldInv, CallHeld
    <3>5. ASSUME NEW s \in settled'
          PROVE  /\ (call[s].phase = "done")'
                 /\ Shows(box, s)'
                 /\ Shows(payload, s)'
                 /\ (poll.phase = "answered" => Shows(poll.config, s))'
                 /\ \A d \in Calls : Agrees(d, s)'
      <4>1. s \in settled /\ s # c /\ call'[s].phase = "done"
        BY <1>0, <3>1, <3>2, <3>3
      <4>2. Shows(box', s) /\ Shows(payload', s)
        BY <1>0, <3>1, <3>2, <4>1
      <4>3. poll'.phase = "answered" => Shows(poll'.config, s)
        BY <1>0, <3>1, <4>1
      <4>4. \A d \in Calls : /\ call'[d].phase = "sent" => call[d].phase = "sent"
                             /\ call'[d].phase = "acked" => \/ call[d].phase = "acked"
                                                            \/ Shows(call[d].config, s)
                                                               /\ Shows(call[d].config, d)
        BY <3>2, <3>3, <3>4
      <4> QED BY <3>3, <4>1, <4>2, <4>3, <4>4, SettledStays
    <3> QED BY <3>5 DEF SettledInv
  <2>3. CASE RequestFails(c)
    <3>1. /\ "failed" \in Phases /\ Moves(c, "failed") /\ call[c].phase \in {"sent", "acked"}
          /\ UNCHANGED <<box, payload, poll, settled>>
      BY <2>3 DEF RequestFails, Phases
    <3>2. /\ call'[c].phase = "failed"
          /\ \A d \in Calls : /\ call'[d].profile = call[d].profile
                              /\ call'[d].paused = call[d].paused
                              /\ call'[d].config = call[d].config
                              /\ d # c => call'[d].phase = call[d].phase
      BY <3>1, MovesFacts
    <3>3. ASSUME NEW s \in settled
          PROVE  /\ (call[s].phase = "done")'
                 /\ Shows(box, s)'
                 /\ Shows(payload, s)'
                 /\ (poll.phase = "answered" => Shows(poll.config, s))'
                 /\ \A d \in Calls : Agrees(d, s)'
      <4>1. call'[s].phase = "done" /\ Shows(box', s) /\ Shows(payload', s)
        BY <1>0, <3>1, <3>2
      <4>2. poll'.phase = "answered" => Shows(poll'.config, s)
        BY <1>0, <3>1
      <4>3. \A d \in Calls : /\ call'[d].phase = "sent" => call[d].phase = "sent"
                             /\ call'[d].phase = "acked" => call[d].phase = "acked"
        BY <3>2
      <4> QED BY <3>2, <4>1, <4>2, <4>3, SettledStays
    <3> QED BY <3>1, <3>3 DEF SettledInv
  <2>4. CASE SetReturns(c)
    <3>1. /\ "done" \in Phases /\ Moves(c, "done") /\ call[c].phase = "acked"
          /\ UNCHANGED <<box, poll>>
          /\ settled' = IF Undisturbed(c) THEN settled \cup {c} ELSE settled
      BY <2>4 DEF SetReturns, Phases
    <3>2. /\ call'[c].phase = "done"
          /\ \A d \in Calls : /\ call'[d].profile = call[d].profile
                              /\ call'[d].paused = call[d].paused
                              /\ call'[d].config = call[d].config
                              /\ d # c => call'[d].phase = call[d].phase
      BY <3>1, MovesFacts
    <3>3. ASSUME NEW s \in settled
          PROVE  /\ (call[s].phase = "done")'
                 /\ Shows(box, s)'
                 /\ Shows(payload, s)'
                 /\ (poll.phase = "answered" => Shows(poll.config, s))'
                 /\ \A d \in Calls : Agrees(d, s)'
      <4>1. call[c].profile = call[s].profile => call[c].paused = call[s].paused
        BY <3>1 DEF SettledInv, Agrees
      <4>2. Shows(payload', s)
        BY <1>0, <2>4, <4>1, SetReturnsPayload DEF Shows, Known
      <4>3. call'[s].phase = "done" /\ Shows(box', s)
        BY <1>0, <3>1, <3>2
      <4>4. poll'.phase = "answered" => Shows(poll'.config, s)
        BY <1>0, <3>1
      <4>5. \A d \in Calls : /\ call'[d].phase = "sent" => call[d].phase = "sent"
                             /\ call'[d].phase = "acked" => call[d].phase = "acked"
        BY <3>2
      <4> QED BY <3>2, <4>2, <4>3, <4>4, <4>5, SettledStays
    <3>4. ASSUME Undisturbed(c)
          PROVE  /\ (call[c].phase = "done")'
                 /\ Shows(box, c)'
                 /\ Shows(payload, c)'
                 /\ (poll.phase = "answered" => Shows(poll.config, c))'
                 /\ \A d \in Calls : Agrees(d, c)'
      <4>1. /\ poll.phase # "answered" /\ Shows(box, c) /\ Shows(payload', c)
            /\ \A d \in Calls \ {c} : call[d].phase \notin {"sent", "acked"}
        BY <3>4 DEF Undisturbed
      <4>2. \A d \in Calls : Agrees(d, c)'
        BY <3>2, <4>1 DEF Agrees
      <4> QED BY <3>1, <3>2, <4>1, <4>2 DEF Shows, Known
    <3> QED BY <3>1, <3>3, <3>4 DEF SettledInv
  <2> QED BY <1>4, <2>1, <2>2, <2>3, <2>4, ToggleCases
<1> QED BY <1>1, <1>2, <1>3, <1>4 DEF Next

\* A toggle that finished undisturbed stays visible until the box itself changes
\* the profile, through every later refresh and toggle (handle_refresh,
\* _apply_optimistic_ssid_paused).
THEOREM SettledTogglesStayVisible == Spec => []SettledTogglesShow
<1>1. Init => TypeOK /\ HeldInv /\ SettledInv
  BY InitType, InitHeld, InitSettled
<1>2. TypeOK /\ HeldInv /\ SettledInv /\ [Next]_vars => (TypeOK /\ HeldInv /\ SettledInv)'
  BY NextType, NextHeld, NextSettled
<1>3. SettledInv => SettledTogglesShow
  BY DEF SettledInv, SettledTogglesShow
<1> QED BY <1>1, <1>2, <1>3, PTL DEF Spec

\* Only the app or a toggle of the same profile takes a settled toggle back,
\* although every toggle replaces the whole object.
THEOREM SettledTogglesStayOnBox == Spec => SettledTogglesKept
<1>1. Init => TypeOK /\ HeldInv /\ SettledInv
  BY InitType, InitHeld, InitSettled
<1>2. TypeOK /\ HeldInv /\ SettledInv /\ [Next]_vars => (TypeOK /\ HeldInv /\ SettledInv)'
  BY NextType, NextHeld, NextSettled
<1>3. TypeOK /\ HeldInv /\ SettledInv /\ [Next]_vars => KeepsSettled
  <2> SUFFICES ASSUME TypeOK, HeldInv, SettledInv, [Next]_vars, NEW c \in settled,
                      ~Shows(box', c)
               PROVE  \/ appSteps' # appSteps
                      \/ \E d \in Calls : /\ call[d].phase = "sent"
                                          /\ call'[d].phase = "acked"
                                          /\ call[d].profile = call[c].profile
    BY DEF KeepsSettled
  <2>1. Shows(box, c) /\ \A d \in Calls : Agrees(d, c)
    BY DEF SettledInv
  <2>2. CASE App
    <3>1. appSteps' = appSteps + 1 /\ appSteps \in Nat
      BY <2>2, AppFacts, MaxAppStepsAssumption DEF AppActs, TypeOK
    <3> QED BY <3>1
  <2>3. CASE \E d \in Calls : BoxStores(d)
    <3>1. PICK d \in Calls : BoxStores(d)
      BY <2>3
    <3>2. call[d].phase = "sent" /\ call[d].config \in Config /\ BoxBecomes(call[d].config)
      BY <3>1 DEF BoxStores, TypeOK
    <3>3. box' = call[d].config
      BY <3>2, BoxBecomesFacts
    <3>4. call'[d].phase = "acked"
      BY <3>1, MovesFacts DEF BoxStores, Phases
    <3> QED BY <2>1, <3>2, <3>3, <3>4 DEF Agrees
  <2>4. CASE Refresh \/ UNCHANGED vars
    <3>1. UNCHANGED box
      BY <2>4 DEF Refresh, SendPoll, BoxAnswersPoll, PollFails, PublishPoll, vars
    <3> QED BY <2>1, <3>1
  <2>5. CASE \E d \in Calls : Issues(d) \/ RequestFails(d) \/ SetReturns(d)
    <3>1. UNCHANGED box
      BY <2>5 DEF Issues, Issued, Issue, RequestFails, SetReturns
    <3> QED BY <2>1, <3>1
  <2> QED BY <2>2, <2>3, <2>4, <2>5, ToggleCases DEF Next
<1> QED BY <1>1, <1>2, <1>3, PTL DEF Spec, SettledTogglesKept
=============================================================================
