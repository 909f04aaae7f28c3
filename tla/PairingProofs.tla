---------------------------- MODULE PairingProofs ----------------------------
(* Proofs about Pairing for every value of its constants.                  *)
EXTENDS Pairing, TLAPS

-----------------------------------------------------------------------------
(* The flow.                                                               *)

\* The flow's own part of the invariant.
FlowOK == flow \in Flows /\ FlowInv /\ ValidationUsesItsTime

LEMMA Bounds ==
    /\ PollAttempts \in Nat \ {0}
    /\ FastAttempts \in Nat \ {0}
    /\ FastInterval \in Nat \ {0}
    /\ SlowInterval \in Nat \ {0}
    /\ ValidationTimeout \in Nat
    /\ MaxDuration \in Nat
    /\ MaxPairings \in Nat
    /\ MaxVersion \in Nat
BY BoundsAssumption

LEMMA NoFlowIsFlow == NoFlow \in Flows
<1>1. NoPayload \in Payloads
  BY DEF NoPayload, Payloads
<1> QED BY <1>1, Bounds DEF NoFlow, Flows, Steps, Errors

\* A flow that shows a form or is over promises little.
LEMMA IdleOK ==
    ASSUME flow' \in Flows, flow'.step \in {"idle", "form"},
           flow'.error = "local_pairing_timeout" => flow'.elapsed >= ValidationTimeout
    PROVE  FlowOK'
BY DEF FlowOK, FlowInv, ValidationUsesItsTime, Busy

LEMMA NoFlowOK ==
    ASSUME flow' = NoFlow
    PROVE  FlowOK'
<1>1. flow'.step = "idle" /\ flow'.error = ""
  BY DEF NoFlow
<1> QED BY <1>1, NoFlowIsFlow, IdleOK

\* A form shown again with an error.
LEMMA ShowFormOK ==
    ASSUME FlowOK, NEW error \in Errors \ {"local_pairing_timeout"}, ShowForm(error)
    PROVE  FlowOK' /\ ~Busy'
<1>1. flow' \in Flows
  BY NoFlowIsFlow DEF ShowForm, FlowOK, Flows, Steps
<1>2. flow'.step = "form" /\ flow'.error = error
  BY DEF ShowForm, NoFlow
<1> QED BY <1>1, <1>2, IdleOK DEF Busy

\* What the forms do to the flow.
LEMMA FormOK ==
    ASSUME FlowOK, Form
    PROVE  FlowOK'
<1>1. CASE StartUser
  <2>1. flow' \in Flows /\ flow'.step = "form" /\ flow'.error = ""
    BY <1>1, NoFlowIsFlow DEF StartUser, Flows, Steps, NoFlow
  <2> QED BY <2>1, IdleOK
<1>2. ASSUME NEW l \in Licenses, StartReauth(l)
      PROVE  FlowOK'
  <2>1. flow' \in Flows /\ flow'.step = "form" /\ flow'.error = ""
    BY <1>2, NoFlowIsFlow DEF StartReauth, Flows, Steps, NoFlow
  <2> QED BY <2>1, IdleOK
<1>3. ASSUME NEW l \in Licenses, CloseForm \/ AbortConfigured(l)
      PROVE  FlowOK'
  BY <1>3, NoFlowOK DEF CloseForm, AbortConfigured
<1>4. CASE CloseForm
  BY <1>4, NoFlowOK DEF CloseForm
<1>5. CASE SubmitInvalid
  BY <1>5, ShowFormOK DEF SubmitInvalid, Errors
<1>6. ASSUME NEW l \in Licenses, Submit(l)
      PROVE  FlowOK'
  <2>1. /\ flow' \in Flows
        /\ flow'.step = "login"
        /\ flow'.license = l
        /\ flow'.elapsed = 0
        /\ flow'.error = ""
    BY <1>6, NoFlowIsFlow DEF Submit, FlowOK, Flows, Steps, NoFlow
  <2> QED BY <2>1 DEF FlowOK, FlowInv, ValidationUsesItsTime
<1> QED BY <1>1, <1>2, <1>3, <1>4, <1>5, <1>6 DEF Form

\* What cloud provisioning does to the flow: the validation begins afresh.
LEMMA CloudOK ==
    ASSUME FlowOK,
           Login \/ Link \/ CloudFails \/ GroupsGarbled \/ FetchGroups \/ PollAgain
    PROVE  FlowOK'
<1>1. ASSUME NEW step \in {"link", "poll", "pollwait"}, NEW polls \in 0 .. PollAttempts - 1,
             flow.step \in {"login", "link", "poll", "pollwait"},
             flow' = [flow EXCEPT !.step = step, !.polls = polls]
      PROVE  FlowOK'
  <2>1. /\ flow' \in Flows
        /\ flow'.step = step
        /\ flow'.license = flow.license
        /\ flow'.elapsed = flow.elapsed
        /\ flow'.error = flow.error
    BY <1>1 DEF FlowOK, Flows, Steps
  <2> QED BY <1>1, <2>1 DEF FlowOK, FlowInv, ValidationUsesItsTime, Busy
<1>2. CASE Login \/ Link \/ PollAgain
  <2>1. flow.polls \in 0 .. PollAttempts - 1
    BY DEF FlowOK, Flows
  <2>2. PICK step \in {"link", "poll", "pollwait"} : flow' = [flow EXCEPT !.step = step]
    BY <1>2 DEF Login, Link, PollAgain
  <2>3. flow' = [flow EXCEPT !.step = step, !.polls = flow.polls]
    BY <2>2 DEF FlowOK, Flows
  <2>4. flow.step \in {"login", "link", "poll", "pollwait"}
    BY <1>2 DEF Login, Link, PollAgain
  <2> QED BY <1>1, <2>1, <2>3, <2>4
<1>3. CASE CloudFails \/ GroupsGarbled
  BY <1>3, ShowFormOK DEF CloudFails, GroupsGarbled, Errors
<1>4. CASE FetchGroups
  <2>1. \/ flow' = [flow EXCEPT !.step = "local", !.polls = 0, !.attempt = 1, !.stage = 1]
        \/ /\ PollsLeft(flow.polls + 1)
           /\ flow' = [flow EXCEPT !.step = "pollwait", !.polls = flow.polls + 1]
        \/ ShowForm("cloud_link_timeout")
    BY <1>4 DEF FetchGroups
  <2>2. flow.step = "poll" /\ flow.polls \in 0 .. PollAttempts - 1
    BY <1>4 DEF FetchGroups, FlowOK, Flows
  <2>3. CASE flow' = [flow EXCEPT !.step = "local", !.polls = 0, !.attempt = 1, !.stage = 1]
    <3>1. /\ flow' \in Flows
          /\ flow'.step = "local"
          /\ flow'.license = flow.license
          /\ flow'.elapsed = flow.elapsed
          /\ flow'.error = flow.error
          /\ flow'.stage = 1
      <4>1. /\ 0 \in 0 .. PollAttempts - 1
            /\ 1 \in Nat
            /\ 1 \in 0 .. 3
            /\ "local" \in Steps
        BY Bounds DEF Steps
      <4> QED BY <2>3, <4>1 DEF FlowOK, Flows
    <3>2. flow.elapsed = 0 /\ flow.license \in Licenses
      BY <2>2 DEF FlowOK, FlowInv, Busy
    <3>3. FlowInv'
      BY <3>1, <3>2, Bounds DEF FlowInv, Busy
    <3>4. ValidationUsesItsTime'
      BY <3>1 DEF FlowOK, ValidationUsesItsTime
    <3> QED BY <3>1, <3>3, <3>4 DEF FlowOK
  <2>4. CASE /\ PollsLeft(flow.polls + 1)
             /\ flow' = [flow EXCEPT !.step = "pollwait", !.polls = flow.polls + 1]
    <3>1. flow.polls + 1 \in 0 .. PollAttempts - 1
      BY <2>2, <2>4, Bounds DEF PollsLeft
    <3> QED BY <1>1, <2>2, <2>4, <3>1
  <2>5. CASE ShowForm("cloud_link_timeout")
    BY <2>5, ShowFormOK DEF Errors
  <2> QED BY <2>1, <2>3, <2>4, <2>5
<1> QED BY <1>2, <1>3, <1>4

\* What the local validation does to the flow: an attempt begins within the limit
\* and each of its three messages adds its own duration at most.
LEMMA ValidationOK ==
    ASSUME FlowOK, version \in [Licenses -> Versions],
           \/ MessageAnswered \/ AttemptWaits \/ AttemptAgain \/ AttemptTimesOut
           \/ AttemptFails
    PROVE  FlowOK'
<1>0. /\ flow \in Flows
      /\ flow.elapsed \in 0 .. ValidationTimeout + 3 * MaxDuration
      /\ flow.attempt \in Nat
      /\ flow.stage \in 0 .. 3
  BY DEF FlowOK, Flows
<1>1. CASE MessageAnswered
  <2>1. PICK took \in 0 .. MaxDuration, hosts \in BOOLEAN :
           flow' = [flow EXCEPT
                      !.elapsed = @ + took,
                      !.stage = IF flow.stage < 3 THEN @ + 1 ELSE @,
                      !.step = IF flow.stage < 3 THEN @ ELSE "paired",
                      !.payload = IF flow.stage < 3 THEN @
                                  ELSE [version |-> version[flow.license], hosts |-> hosts]]
    BY <1>1 DEF MessageAnswered
  <2>2. flow.step = "local" /\ flow.license \in Licenses
    BY <1>1 DEF MessageAnswered, FlowOK, FlowInv, Busy
  <2>3. flow.elapsed + took \in 0 .. ValidationTimeout + 3 * MaxDuration
    BY <1>0, <2>2, Bounds DEF FlowOK, FlowInv
  <2>4. [version |-> version[flow.license], hosts |-> hosts] \in Payloads
    BY <2>2 DEF Payloads
  <2>5. /\ flow'.license = flow.license
        /\ flow'.elapsed = flow.elapsed + took
        /\ flow'.error = flow.error
        /\ flow.stage < 3 => flow'.step = "local" /\ flow'.stage = flow.stage + 1
        /\ ~(flow.stage < 3) => /\ flow'.step = "paired"
                                /\ flow'.payload.version = version[flow.license]
    BY <1>0, <2>1, <2>2 DEF Flows
  <2>6. flow' \in Flows
    <3>1. CASE flow.stage < 3
      <4>1. flow' = [flow EXCEPT !.elapsed = flow.elapsed + took, !.stage = flow.stage + 1]
        BY <1>0, <2>1, <3>1 DEF Flows
      <4>2. flow.stage + 1 \in 0 .. 3
        BY <1>0, <3>1
      <4> QED BY <1>0, <2>3, <4>1, <4>2 DEF Flows
    <3>2. CASE ~(flow.stage < 3)
      <4>1. flow' = [flow EXCEPT !.elapsed = flow.elapsed + took, !.step = "paired",
                                 !.payload = [version |-> version[flow.license],
                                              hosts |-> hosts]]
        BY <1>0, <2>1, <3>2 DEF Flows
      <4> QED BY <1>0, <2>3, <2>4, <4>1 DEF Flows, Steps
    <3> QED BY <3>1, <3>2
  <2>7. version[flow.license] # None
    BY <2>2, Bounds DEF Versions, None
  <2> QED
    BY <1>0, <2>2, <2>5, <2>6, <2>7, Bounds DEF FlowOK, FlowInv, ValidationUsesItsTime, Busy
<1>2. CASE AttemptWaits
  <2>1. PICK outcome \in OutcomesOf(Accepted) \cap Retried, took \in 0 .. MaxDuration :
           /\ flow.elapsed + took < ValidationTimeout
           /\ flow' = [flow EXCEPT
                         !.step = "localwait", !.attempt = @ + 1, !.stage = 1,
                         !.elapsed = flow.elapsed + took
                                       + Least(Interval(flow.attempt, outcome),
                                               ValidationTimeout - (flow.elapsed + took))]
    BY <1>2 DEF AttemptWaits
  <2>2. flow.step = "local"
    BY <1>2 DEF AttemptWaits
  <2> DEFINE waited == flow.elapsed + took
                         + Least(Interval(flow.attempt, outcome),
                                 ValidationTimeout - (flow.elapsed + took))
  <2>3. Interval(flow.attempt, outcome) \in Nat
    BY Bounds DEF Interval
  <2>4. /\ waited \in 0 .. ValidationTimeout + 3 * MaxDuration
        /\ waited >= flow.elapsed
        /\ waited <= ValidationTimeout
    BY <1>0, <2>1, <2>3, Bounds DEF Least
  <2> HIDE DEF waited
  <2>5. flow' = [flow EXCEPT !.step = "localwait", !.attempt = @ + 1, !.stage = 1,
                             !.elapsed = waited]
    BY <2>1 DEF waited
  <2>6. /\ flow' \in Flows
        /\ flow'.step = "localwait"
        /\ flow'.license = flow.license
        /\ flow'.elapsed = waited
        /\ flow'.error = flow.error
        /\ flow'.stage = 1
    <3>1. /\ flow.attempt + 1 \in Nat
          /\ 1 \in 0 .. 3
          /\ "localwait" \in Steps
      BY <1>0 DEF Steps
    <3>2. flow' = [flow EXCEPT !.step = "localwait", !.attempt = flow.attempt + 1, !.stage = 1,
                               !.elapsed = waited]
      BY <1>0, <2>5 DEF Flows
    <3> QED BY <1>0, <2>4, <3>1, <3>2 DEF Flows
  <2> QED BY <1>0, <2>2, <2>4, <2>6, Bounds DEF FlowOK, FlowInv, ValidationUsesItsTime, Busy
<1>3. CASE AttemptAgain
  <2>1. /\ flow.step = "localwait"
        /\ flow' \in Flows
        /\ flow'.step = "local"
        /\ flow'.license = flow.license
        /\ flow'.elapsed = flow.elapsed
        /\ flow'.error = flow.error
        /\ flow'.stage = flow.stage
    BY <1>0, <1>3 DEF AttemptAgain, Flows, Steps
  <2> QED BY <2>1 DEF FlowOK, FlowInv, ValidationUsesItsTime, Busy
<1>4. CASE AttemptTimesOut
  <2>1. PICK took \in 0 .. MaxDuration :
           /\ flow.elapsed + took >= ValidationTimeout
           /\ flow' = [NoFlow EXCEPT !.kind = flow.kind, !.entry = flow.entry,
                                     !.step = "form", !.elapsed = flow.elapsed + took,
                                     !.error = "local_pairing_timeout"]
    BY <1>4 DEF AttemptTimesOut
  <2>2. flow.step = "local"
    BY <1>4 DEF AttemptTimesOut
  <2>3. flow.elapsed + took \in 0 .. ValidationTimeout + 3 * MaxDuration
    BY <1>0, <2>2, Bounds DEF FlowOK, FlowInv
  <2>4. flow' \in Flows /\ flow'.step = "form" /\ flow'.elapsed = flow.elapsed + took
    BY <1>0, <2>1, <2>3, NoFlowIsFlow DEF Flows, Steps, Errors
  <2> QED BY <2>1, <2>4, IdleOK
<1>5. CASE AttemptFails
  BY <1>5, ShowFormOK DEF AttemptFails, Errors
<1> QED BY <1>1, <1>2, <1>3, <1>4, <1>5

-----------------------------------------------------------------------------
(* The entries.                                                            *)

EntryRecords == [state : {"absent", "setup", "loaded", "refused", "reload"},
                 stored : Credentials \cup {None}, used : Credentials \cup {None},
                 unread : BOOLEAN]
RefreshRecords == [phase : {"idle", "asked", "answered"}, payload : Payloads]

\* What TypeOK says of everything but the flow.
LEMMA TypeFacts ==
    ASSUME IInv
    PROVE  /\ FlowOK
           /\ pairings \in 0 .. MaxPairings
           /\ linked \in [Licenses -> SUBSET Credentials]
           /\ accepts \in [Licenses -> SUBSET Credentials]
           /\ version \in [Licenses -> Versions]
           /\ pending \in [Licenses -> Payloads]
           /\ entry \in [Licenses -> EntryRecords]
           /\ refresh \in [Licenses -> RefreshRecords]
           /\ view \in [Licenses -> Versions \cup {None}]
BY DEF IInv, TypeOK, FlowOK, Credentials, EntryRecords, RefreshRecords

LEMMA InitInv ==
    ASSUME Init
    PROVE  IInv
<1>1. /\ flow = NoFlow
      /\ flow \in Flows
      /\ flow.step = "idle"
      /\ flow.error = ""
  BY NoFlowIsFlow DEF Init, NoFlow
<1>2. FlowInv /\ ValidationUsesItsTime
  BY <1>1 DEF FlowInv, ValidationUsesItsTime, Busy
<1>3. NoPayload \in Payloads /\ NoEntry \in EntryRecords /\ IdleRefresh \in RefreshRecords
  BY DEF NoPayload, Payloads, NoEntry, IdleRefresh, EntryRecords, RefreshRecords
<1>4. 0 \in Versions /\ pairings \in Credentials
  BY Bounds DEF Init, Versions, Credentials
<1>5. TypeOK
  BY <1>1, <1>3, <1>4 DEF Init, TypeOK, EntryRecords, RefreshRecords
<1>6. \A l \in Licenses : /\ linked[l] = {}
                          /\ entry[l].stored = None
                          /\ entry[l].unread = FALSE
  BY DEF Init, NoEntry
<1>7. SetupHasItsPayload /\ AccountsInv
  BY <1>6 DEF SetupHasItsPayload, AccountsInv
<1>8. CredentialsInv
  <2>1. ~Busy
    BY <1>1 DEF Busy
  <2>2. \A l \in Licenses : linked[l] \subseteq 1 .. pairings /\ entry[l].stored <= pairings
    BY <1>6 DEF Init, None
  <2> QED BY <2>1, <2>2 DEF CredentialsInv
<1> QED BY <1>2, <1>5, <1>7, <1>8 DEF IInv

\* A step of the flow alone keeps the invariant when it submits no form.
LEMMA FlowStepInv ==
    ASSUME IInv, FlowOK', UNCHANGED <<pairings, boxes, pending, entries>>,
           Busy' => Busy /\ flow'.license = flow.license
    PROVE  IInv'
<1>1. UNCHANGED <<pairings, linked, accepts, version, pending, entry, refresh, view>>
  BY DEF boxes, entries
<1>2. TypeOK' /\ ValidationUsesItsTime' /\ FlowInv'
  BY <1>1 DEF IInv, TypeOK, FlowOK
<1>3. SetupHasItsPayload' /\ AccountsInv'
  BY <1>1 DEF IInv, SetupHasItsPayload, AccountsInv
<1>4. CredentialsInv'
  BY <1>1 DEF IInv, CredentialsInv
<1> QED BY <1>2, <1>3, <1>4 DEF IInv

\* A submitted form names new credentials.
LEMMA SubmitInv ==
    ASSUME IInv, NEW l \in Licenses, Submit(l)
    PROVE  IInv'
<1>0. pairings \in 0 .. MaxPairings /\ entry \in [Licenses -> EntryRecords]
  BY TypeFacts
<1>1. FlowOK'
  BY FormOK, TypeFacts DEF Form
<1>2. /\ UNCHANGED <<linked, accepts, version, pending, entry, refresh, view>>
      /\ pairings' = pairings + 1
      /\ pairings' \in 0 .. MaxPairings
      /\ pairings' \in Nat
  BY <1>0, Bounds DEF Submit, boxes, entries
<1>3. TypeOK' /\ ValidationUsesItsTime' /\ FlowInv'
  BY <1>1, <1>2 DEF IInv, TypeOK, FlowOK, Credentials
<1>4. SetupHasItsPayload' /\ AccountsInv'
  BY <1>2 DEF IInv, SetupHasItsPayload, AccountsInv
<1>5. CredentialsInv'
  <2>1. \A k \in Licenses : /\ linked[k] \subseteq 1 .. pairings
                            /\ entry[k].stored <= pairings
                            /\ entry[k].stored \in Int
    BY <1>0 DEF IInv, CredentialsInv, EntryRecords, Credentials, None
  <2>2. \A k \in Licenses : /\ linked[k] \subseteq 1 .. pairings + 1
                            /\ pairings + 1 \notin linked[k]
                            /\ entry[k].stored < pairings + 1
                            /\ entry[k].stored <= pairings + 1
    BY <1>0, <2>1
  <2>3. pairings + 1 > 0
    BY <1>0
  <2> QED BY <1>2, <2>2, <2>3 DEF CredentialsInv
<1> QED BY <1>3, <1>4, <1>5 DEF IInv

\* The cloud links the credentials of the pairing with the group of its license.
LEMMA LinkInv ==
    ASSUME IInv, Link
    PROVE  IInv'
<1>0. /\ pairings \in 0 .. MaxPairings
      /\ linked \in [Licenses -> SUBSET Credentials]
      /\ entry \in [Licenses -> EntryRecords]
  BY TypeFacts
<1>1. FlowOK'
  BY CloudOK, TypeFacts
<1>2. /\ UNCHANGED <<pairings, accepts, version, pending, entry, refresh, view>>
      /\ linked' = [linked EXCEPT ![flow.license] = @ \cup {pairings}]
  BY DEF Link, entries
<1>3. Busy /\ flow.license \in Licenses /\ flow'.license = flow.license
  <2>1. Busy
    BY DEF Link, Busy
  <2>2. flow \in Flows /\ FlowInv
    BY TypeFacts DEF FlowOK
  <2> QED BY <2>1, <2>2 DEF FlowInv, Link, Flows
<1>4. linked' \in [Licenses -> SUBSET Credentials]
  BY <1>0, <1>2, <1>3 DEF Credentials
<1>5. TypeOK' /\ ValidationUsesItsTime' /\ FlowInv'
  BY <1>1, <1>2, <1>4 DEF IInv, TypeOK, FlowOK
<1>6. SetupHasItsPayload'
  BY <1>2 DEF IInv, SetupHasItsPayload
<1>7. \A k \in Licenses : linked'[k] = IF k = flow.license THEN linked[k] \cup {pairings}
                                       ELSE linked[k]
  BY <1>0, <1>2, <1>3
<1>8. pairings > 0
  BY <1>3 DEF IInv, CredentialsInv
<1>9. CredentialsInv' /\ AccountsInv'
  BY <1>0, <1>2, <1>3, <1>7, <1>8 DEF IInv, CredentialsInv, AccountsInv
<1> QED BY <1>5, <1>6, <1>9 DEF IInv

\* The end of a pairing caches its payload, which is one, and stores its
\* credentials, if at all, under the license they were linked with.
LEMMA ResultInv ==
    ASSUME IInv, CreateEntry \/ UpdateEntry \/ AbortWrongAccount
    PROVE  IInv'
<1>0. /\ FlowOK
      /\ pairings \in 0 .. MaxPairings
      /\ pending \in [Licenses -> Payloads]
      /\ entry \in [Licenses -> EntryRecords]
  BY TypeFacts
<1>1. /\ flow.step = "paired"
      /\ flow' = NoFlow
      /\ pending' = [pending EXCEPT ![flow.license] = flow.payload]
      /\ UNCHANGED <<pairings, linked, accepts, version, refresh, view>>
  BY DEF CreateEntry, UpdateEntry, AbortWrongAccount, CachePayload, boxes, entries
<1>2. /\ Busy
      /\ flow.license \in Licenses
      /\ flow.payload \in Payloads
      /\ flow.payload # NoPayload
  <2>1. Busy
    BY <1>1 DEF Busy
  <2>2. flow.payload.version # None /\ NoPayload.version = None
    BY <1>0, <1>1 DEF FlowOK, FlowInv, NoPayload
  <2> QED BY <1>0, <2>1, <2>2 DEF FlowOK, FlowInv, Flows
<1>3. \/ entry' = entry
      \/ entry' = [entry EXCEPT ![flow.license] =
                     [state |-> "setup", stored |-> pairings, used |-> pairings,
                      unread |-> TRUE]]
      \/ entry' = [entry EXCEPT ![flow.license].state = "reload",
                                ![flow.license].stored = pairings]
  BY DEF CreateEntry, UpdateEntry, AbortWrongAccount, entries
<1>4. /\ entry' \in [Licenses -> EntryRecords]
      /\ \A l \in Licenses : l # flow.license => entry'[l] = entry[l]
      /\ \/ entry'[flow.license].stored = entry[flow.license].stored
         \/ entry'[flow.license].stored = pairings
  <2>1. CASE entry' = entry
    BY <1>0, <2>1
  <2>2. CASE entry' = [entry EXCEPT ![flow.license] =
                         [state |-> "setup", stored |-> pairings, used |-> pairings,
                          unread |-> TRUE]]
    <3>1. [state |-> "setup", stored |-> pairings, used |-> pairings, unread |-> TRUE]
              \in EntryRecords
      BY <1>0 DEF EntryRecords, Credentials
    <3> QED BY <1>0, <1>2, <2>2, <3>1
  <2>3. CASE entry' = [entry EXCEPT ![flow.license].state = "reload",
                                    ![flow.license].stored = pairings]
    BY <1>0, <1>2, <2>3 DEF EntryRecords, Credentials
  <2> QED BY <1>3, <2>1, <2>2, <2>3
<1>5. /\ pending' \in [Licenses -> Payloads]
      /\ \A l \in Licenses : l # flow.license => pending'[l] = pending[l]
      /\ pending'[flow.license] # NoPayload
  BY <1>0, <1>1, <1>2
<1>6. FlowOK' /\ ~Busy'
  BY <1>1, NoFlowOK DEF Busy, NoFlow
<1>7. TypeOK' /\ ValidationUsesItsTime' /\ FlowInv'
  BY <1>1, <1>4, <1>5, <1>6 DEF IInv, TypeOK, FlowOK, EntryRecords
<1>8. SetupHasItsPayload'
  BY <1>4, <1>5 DEF IInv, SetupHasItsPayload
<1>9. CredentialsInv'
  BY <1>0, <1>1, <1>4, <1>6 DEF IInv, CredentialsInv
<1>10. AccountsInv'
  BY <1>0, <1>1, <1>2, <1>4 DEF IInv, CredentialsInv, AccountsInv
<1> QED BY <1>7, <1>8, <1>9, <1>10 DEF IInv

\* Every step of the flow keeps the invariant.
LEMMA FlowInvariant ==
    ASSUME IInv, Form \/ Pair
    PROVE  IInv'
<1>0. /\ FlowOK
      /\ flow \in Flows
      /\ version \in [Licenses -> Versions]
  BY TypeFacts DEF FlowOK
<1>1. ASSUME Form, \A l \in Licenses : ~Submit(l)
      PROVE  IInv'
  <2>1. /\ UNCHANGED <<pairings, boxes, pending, entries>>
        /\ flow'.step \in {"idle", "form"}
    <3>1. CASE StartUser
      BY <3>1 DEF StartUser, NoFlow
    <3>2. CASE CloseForm
      BY <3>2 DEF CloseForm, NoFlow
    <3>3. CASE SubmitInvalid
      BY <3>3 DEF SubmitInvalid, ShowForm, NoFlow
    <3>4. ASSUME NEW l \in Licenses, StartReauth(l)
          PROVE  /\ UNCHANGED <<pairings, boxes, pending, entries>>
                 /\ flow'.step \in {"idle", "form"}
      BY <3>4 DEF StartReauth, NoFlow
    <3>5. ASSUME NEW l \in Licenses, AbortConfigured(l)
          PROVE  /\ UNCHANGED <<pairings, boxes, pending, entries>>
                 /\ flow'.step \in {"idle", "form"}
      BY <3>5 DEF AbortConfigured, NoFlow
    <3> QED BY <1>1, <3>1, <3>2, <3>3, <3>4, <3>5 DEF Form
  <2> QED BY <1>0, <1>1, <2>1, FormOK, FlowStepInv DEF Busy
<1>2. ASSUME Login \/ CloudFails \/ GroupsGarbled \/ FetchGroups \/ PollAgain
      PROVE  IInv'
  <2>1. UNCHANGED <<pairings, boxes, pending, entries>>
    BY <1>2 DEF Login, CloudFails, GroupsGarbled, FetchGroups, PollAgain
  <2>2. Busy
    BY <1>2 DEF Login, CloudFails, GroupsGarbled, FetchGroups, PollAgain, Busy
  <2>3. flow'.license = flow.license \/ flow'.step = "form"
    BY <1>0, <1>2
       DEF Login, CloudFails, GroupsGarbled, FetchGroups, PollAgain, ShowForm, NoFlow, Flows
  <2> QED BY <1>0, <1>2, <2>1, <2>2, <2>3, CloudOK, FlowStepInv DEF Busy
<1>3. ASSUME \/ MessageAnswered \/ AttemptWaits \/ AttemptAgain \/ AttemptTimesOut
             \/ AttemptFails
      PROVE  IInv'
  <2>1. UNCHANGED <<pairings, boxes, pending, entries>>
    BY <1>3 DEF MessageAnswered, AttemptWaits, AttemptAgain, AttemptTimesOut, AttemptFails
  <2>2. Busy
    BY <1>3
       DEF MessageAnswered, AttemptWaits, AttemptAgain, AttemptTimesOut, AttemptFails, Busy
  <2>3. flow'.license = flow.license \/ flow'.step = "form"
    BY <1>0, <1>3
       DEF MessageAnswered, AttemptWaits, AttemptAgain, AttemptTimesOut, AttemptFails, ShowForm,
           NoFlow, Flows
  <2> QED BY <1>0, <1>3, <2>1, <2>2, <2>3, ValidationOK, FlowStepInv DEF Busy
<1> QED BY <1>1, <1>2, <1>3, SubmitInv, LinkInv, ResultInv DEF Pair

\* What an entry does on its own stores no credentials, and takes its payload only
\* together with the promise.
LEMMA EntryStepInv ==
    ASSUME IInv, UNCHANGED <<flow, pairings, boxes>>,
           pending' \in [Licenses -> Payloads],
           entry' \in [Licenses -> EntryRecords],
           refresh' \in [Licenses -> RefreshRecords],
           view' \in [Licenses -> Versions \cup {None}],
           \A l \in Licenses :
               /\ entry'[l].stored = entry[l].stored
               /\ entry'[l].unread => entry[l].unread /\ pending'[l] = pending[l]
    PROVE  IInv'
<1>1. UNCHANGED <<linked, accepts, version>>
  BY DEF boxes
<1>2. TypeOK' /\ ValidationUsesItsTime' /\ FlowInv'
  BY <1>1
     DEF IInv, TypeOK, ValidationUsesItsTime, FlowInv, Busy, EntryRecords, RefreshRecords
<1>3. SetupHasItsPayload' /\ AccountsInv' /\ CredentialsInv'
  BY <1>1 DEF IInv, SetupHasItsPayload, AccountsInv, CredentialsInv, Busy
<1> QED BY <1>2, <1>3 DEF IInv

\* A published payload changes the view of its own entry, and that entry is no
\* longer waiting for its first refresh.
LEMMA PublishFacts ==
    ASSUME IInv, NEW l \in Licenses, NEW payload \in Payloads, Publish(l, payload)
    PROVE  /\ entry' \in [Licenses -> EntryRecords]
           /\ view' \in [Licenses -> Versions \cup {None}]
           /\ entry'[l].unread = FALSE
           /\ \A k \in Licenses : entry'[k].stored = entry[k].stored
           /\ \A k \in Licenses : k # l => entry'[k] = entry[k]
<1>0. /\ entry \in [Licenses -> EntryRecords]
      /\ view \in [Licenses -> Versions \cup {None}]
  BY TypeFacts
<1>1. PICK state \in {"absent", "setup", "loaded", "refused", "reload"} :
          entry' = [entry EXCEPT ![l].state = state, ![l].unread = FALSE]
  BY <1>0 DEF Publish, EntryRecords
<1>2. PICK version1 \in Versions \cup {None} : view' = [view EXCEPT ![l] = version1]
  BY <1>0 DEF Publish, Payloads
<1> QED BY <1>0, <1>1, <1>2 DEF EntryRecords

LEMMA RuntimeInv ==
    ASSUME IInv, NEW l \in Licenses, Runtime(l)
    PROVE  IInv'
<1>0. /\ version \in [Licenses -> Versions]
      /\ pending \in [Licenses -> Payloads]
      /\ entry \in [Licenses -> EntryRecords]
      /\ refresh \in [Licenses -> RefreshRecords]
      /\ view \in [Licenses -> Versions \cup {None}]
      /\ NoPayload \in Payloads
      /\ IdleRefresh \in RefreshRecords
  BY TypeFacts DEF NoPayload, IdleRefresh, Payloads, RefreshRecords
<1>1. CASE Reload(l) \/ Reconfigure(l)
  <2>1. \/ entry' = [entry EXCEPT ![l].state = "setup", ![l].used = entry[l].stored]
        \/ entry' = [entry EXCEPT ![l].state = "reload"]
    BY <1>1 DEF Reload, Reconfigure
  <2>2. /\ entry' \in [Licenses -> EntryRecords]
        /\ \A k \in Licenses : /\ entry'[k].stored = entry[k].stored
                               /\ entry'[k].unread = entry[k].unread
    <3>1. CASE entry' = [entry EXCEPT ![l].state = "setup", ![l].used = entry[l].stored]
      BY <1>0, <3>1 DEF EntryRecords
    <3>2. CASE entry' = [entry EXCEPT ![l].state = "reload"]
      BY <1>0, <3>2 DEF EntryRecords
    <3> QED BY <2>1, <3>1, <3>2
  <2>3. UNCHANGED <<flow, pairings, boxes, pending, refresh, view>>
    BY <1>1 DEF Reload, Reconfigure
  <2> QED BY <1>0, <2>2, <2>3, EntryStepInv
<1>2. CASE RefreshPops(l)
  <2>1. /\ UNCHANGED <<flow, pairings, boxes, refresh>>
        /\ pending' = [pending EXCEPT ![l] = NoPayload]
        /\ Publish(l, pending[l])
        /\ pending[l] \in Payloads
    BY <1>0, <1>2 DEF RefreshPops
  <2>2. /\ pending' \in [Licenses -> Payloads]
        /\ \A k \in Licenses : k # l => pending'[k] = pending[k]
    BY <1>0, <2>1
  <2>3. /\ entry' \in [Licenses -> EntryRecords]
        /\ view' \in [Licenses -> Versions \cup {None}]
        /\ entry'[l].unread = FALSE
        /\ \A k \in Licenses : entry'[k].stored = entry[k].stored
        /\ \A k \in Licenses : k # l => entry'[k] = entry[k]
    BY <2>1, PublishFacts
  <2> QED BY <1>0, <2>1, <2>2, <2>3, EntryStepInv
<1>3. CASE RefreshAsks(l)
  <2>1. /\ UNCHANGED <<flow, pairings, boxes, pending, view>>
        /\ refresh' = [refresh EXCEPT ![l].phase = "asked"]
        /\ entry' = [entry EXCEPT ![l].unread = FALSE]
    BY <1>3 DEF RefreshAsks
  <2>2. /\ entry' \in [Licenses -> EntryRecords]
        /\ \A k \in Licenses : /\ entry'[k].stored = entry[k].stored
                               /\ entry'[k].unread => entry[k].unread
    BY <1>0, <2>1 DEF EntryRecords
  <2>3. refresh' \in [Licenses -> RefreshRecords]
    BY <1>0, <2>1 DEF RefreshRecords
  <2> QED BY <1>0, <2>1, <2>2, <2>3, EntryStepInv
<1>4. CASE BoxAnswers(l) \/ BoxAnswersDegraded(l)
  <2>1. PICK hosts \in BOOLEAN : AnsweredWith(l, hosts)
    BY <1>4 DEF BoxAnswers, BoxAnswersDegraded
  <2>2. [phase |-> "answered", payload |-> [version |-> version[l], hosts |-> hosts]]
            \in RefreshRecords
    BY <1>0 DEF RefreshRecords, Payloads
  <2>3. refresh' \in [Licenses -> RefreshRecords]
    BY <1>0, <2>1, <2>2 DEF AnsweredWith
  <2>4. UNCHANGED <<flow, pairings, boxes, pending, entry, view>>
    BY <2>1 DEF AnsweredWith
  <2> QED BY <1>0, <2>3, <2>4, EntryStepInv
<1>5. CASE RefreshShows(l)
  <2>1. /\ UNCHANGED <<flow, pairings, boxes, pending>>
        /\ refresh' = [refresh EXCEPT ![l] = IdleRefresh]
        /\ Publish(l, refresh[l].payload)
        /\ refresh[l].payload \in Payloads
    BY <1>0, <1>5 DEF RefreshShows, RefreshRecords
  <2>2. refresh' \in [Licenses -> RefreshRecords]
    BY <1>0, <2>1
  <2>3. /\ entry' \in [Licenses -> EntryRecords]
        /\ view' \in [Licenses -> Versions \cup {None}]
        /\ entry'[l].unread = FALSE
        /\ \A k \in Licenses : entry'[k].stored = entry[k].stored
        /\ \A k \in Licenses : k # l => entry'[k] = entry[k]
    BY <2>1, PublishFacts
  <2> QED BY <1>0, <2>1, <2>2, <2>3, EntryStepInv
<1>6. CASE RefreshFails(l) \/ RefreshRefused(l)
  <2>1. /\ UNCHANGED <<flow, pairings, boxes, pending, view>>
        /\ refresh' = [refresh EXCEPT ![l] = IdleRefresh]
        /\ \/ entry' = entry
           \/ \E state \in {"reload", "refused"} : entry' = [entry EXCEPT ![l].state = state]
    BY <1>0, <1>6 DEF RefreshFails, RefreshRefused, EntryRecords
  <2>2. /\ entry' \in [Licenses -> EntryRecords]
        /\ \A k \in Licenses : /\ entry'[k].stored = entry[k].stored
                               /\ entry'[k].unread = entry[k].unread
    <3>1. ASSUME NEW state \in {"reload", "refused"},
                 entry' = [entry EXCEPT ![l].state = state]
          PROVE  /\ entry' \in [Licenses -> EntryRecords]
                 /\ \A k \in Licenses : /\ entry'[k].stored = entry[k].stored
                                        /\ entry'[k].unread = entry[k].unread
      BY <1>0, <3>1 DEF EntryRecords
    <3> QED BY <1>0, <2>1, <3>1
  <2>3. refresh' \in [Licenses -> RefreshRecords]
    BY <1>0, <2>1
  <2> QED BY <1>0, <2>1, <2>2, <2>3, EntryStepInv
<1> QED BY <1>1, <1>2, <1>3, <1>4, <1>5, <1>6 DEF Runtime

\* The box and the app link nothing.
LEMMA OutsideInv ==
    ASSUME IInv, NEW l \in Licenses, Outside(l)
    PROVE  IInv'
<1>0. /\ linked \in [Licenses -> SUBSET Credentials]
      /\ accepts \in [Licenses -> SUBSET Credentials]
      /\ version \in [Licenses -> Versions]
  BY TypeFacts
<1>1. UNCHANGED <<flow, pairings, pending, entry, refresh, view>>
  BY DEF Outside, BoxActivates, BoxForgets, BoxChanges, entries
<1>2. /\ linked' \in [Licenses -> SUBSET Credentials]
      /\ \A k \in Licenses : linked'[k] \subseteq linked[k]
  BY <1>0 DEF Outside, BoxActivates, BoxForgets, BoxChanges
<1>3. accepts' \in [Licenses -> SUBSET Credentials]
  BY <1>0 DEF Outside, BoxActivates, BoxForgets, BoxChanges
<1>4. version' \in [Licenses -> Versions]
  BY <1>0, Bounds DEF Outside, BoxActivates, BoxForgets, BoxChanges, Versions
<1>5. TypeOK' /\ ValidationUsesItsTime' /\ FlowInv'
  BY <1>1, <1>2, <1>3, <1>4 DEF IInv, TypeOK, ValidationUsesItsTime, FlowInv, Busy
<1>6. SetupHasItsPayload' /\ AccountsInv' /\ CredentialsInv'
  BY <1>1, <1>2 DEF IInv, SetupHasItsPayload, AccountsInv, CredentialsInv, Busy
<1> QED BY <1>5, <1>6 DEF IInv

LEMMA StutterInv ==
    ASSUME IInv, UNCHANGED vars
    PROVE  IInv'
BY DEF IInv, TypeOK, ValidationUsesItsTime, SetupHasItsPayload, FlowInv, CredentialsInv,
       AccountsInv, Busy, vars

\* The invariant of pairing is inductive: every reachable state satisfies it,
\* however many boxes, entries and pairings there are, whatever the intervals and
\* limits and whatever the cloud and the boxes answer.
THEOREM PairingInvariant == Spec => []IInv
<1>1. IInv /\ [Next]_vars => IInv'
  BY FlowInvariant, RuntimeInv, OutsideInv, StutterInv DEF Next
<1> QED BY <1>1, InitInv, PTL DEF Spec

-----------------------------------------------------------------------------
(* The properties.                                                         *)

\* Every reachable state of pairing is well typed: a validation exceeds its limit
\* by three messages at most.
THEOREM TypeCorrect == Spec => []TypeOK
<1>1. IInv => TypeOK
  BY DEF IInv
<1> QED BY <1>1, PairingInvariant, PTL

\* No attempt begins after the limit, and the local timeout is reported only once
\* the limit has passed.
THEOREM ValidationInTime == Spec => []ValidationUsesItsTime
<1>1. IInv => ValidationUsesItsTime
  BY DEF IInv
<1> QED BY <1>1, PairingInvariant, PTL

\* An entry never stores credentials linked with the group of another box.
THEOREM AccountsAreKept == Spec => []EntriesKeepAccounts
<1>1. IInv => EntriesKeepAccounts
  BY DEF IInv, AccountsInv, EntriesKeepAccounts
<1> QED BY <1>1, PairingInvariant, PTL

\* The first refresh of a new entry finds the payload its pairing validated.
THEOREM PayloadIsThere == Spec => []SetupHasItsPayload
<1>1. IInv => SetupHasItsPayload
  BY DEF IInv
<1> QED BY <1>1, PairingInvariant, PTL
=============================================================================
