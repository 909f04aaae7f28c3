------------------------ MODULE AlarmInventoryProofs ------------------------
(* Proofs about AlarmInventory for every value of its constants.           *)
EXTENDS AlarmInventory, FiniteSetTheorems, TLAPS

-----------------------------------------------------------------------------
(* Sets of alarms.                                                         *)

\* Any set of alarms is finite, and its size is a number.
LEMMA AlarmSetFinite ==
    ASSUME NEW S, S \subseteq Alarms
    PROVE  IsFiniteSet(S) /\ Cardinality(S) \in Nat
<1>1. IsFiniteSet(Alarms)
  BY AlarmsAssumption
<1>2. S \in SUBSET Alarms
  OBVIOUS
<1>3. IsFiniteSet(S)
  BY <1>1, <1>2, FS_Subset
<1> QED BY <1>3, FS_CardinalityType

\* Taking a member out of a set of alarms leaves one member less.
LEMMA RemoveAlarm ==
    ASSUME NEW S, S \subseteq Alarms, NEW a \in S
    PROVE  /\ Cardinality(S) > 0
           /\ Cardinality(S \ {a}) = Cardinality(S) - 1
<1>1. IsFiniteSet(S) /\ Cardinality(S) \in Nat
  BY AlarmSetFinite
<1>2. Cardinality(S \ {a}) = Cardinality(S) - 1
  BY <1>1, FS_RemoveElement
<1>3. S \ {a} \subseteq Alarms
  OBVIOUS
<1>4. Cardinality(S \ {a}) \in Nat
  BY <1>3, AlarmSetFinite
<1> QED BY <1>1, <1>2, <1>4

-----------------------------------------------------------------------------
(* What the operators return.                                              *)

\* A map of silences names silences only, and alarms or no alarm for them.
LEMMA SilenceMapsDef ==
    ASSUME NEW f
    PROVE  f \in SilenceMaps <=> /\ DOMAIN f \subseteq Silences
                                 /\ f \in [DOMAIN f -> Alarms \cup {NoAlarm}]
BY DEF SilenceMaps

\* Adding a silence and keeping some of them leaves a map of silences.
LEMMA SilenceFacts ==
    ASSUME silences \in SilenceMaps
    PROVE  /\ \A s \in Silences, a \in Alarms \cup {NoAlarm} :
                 Adds(s, a) => silences' \in SilenceMaps
           /\ \A some \in SUBSET DOMAIN silences :
                 Keeps(some) => silences' \in SilenceMaps
<1>1. DOMAIN silences \subseteq Silences /\ silences \in [DOMAIN silences -> Alarms \cup {NoAlarm}]
  BY SilenceMapsDef
<1>2. ASSUME NEW s \in Silences, NEW a \in Alarms \cup {NoAlarm}, Adds(s, a)
      PROVE  silences' \in SilenceMaps
  <2>1. DOMAIN silences' = DOMAIN silences \cup {s}
    BY <1>2 DEF Adds
  <2>2. silences' \in [DOMAIN silences' -> Alarms \cup {NoAlarm}]
    BY <1>1, <1>2, <2>1 DEF Adds
  <2>3. DOMAIN silences' \subseteq Silences
    BY <1>1, <2>1
  <2> QED BY <2>2, <2>3, SilenceMapsDef
<1>3. ASSUME NEW some \in SUBSET DOMAIN silences, Keeps(some)
      PROVE  silences' \in SilenceMaps
  <2>1. DOMAIN silences' = some
    BY <1>3 DEF Keeps
  <2>2. silences' \in [DOMAIN silences' -> Alarms \cup {NoAlarm}]
    BY <1>1, <1>3, <2>1 DEF Keeps
  <2>3. DOMAIN silences' \subseteq Silences
    BY <1>1, <2>1
  <2> QED BY <2>2, <2>3, SilenceMapsDef
<1> QED BY <1>2, <1>3

\* An answer is a view of active alarms; when its list is as long as its count,
\* it lists every active alarm.
LEMMA AnswerFacts ==
    ASSUME silences \in SilenceMaps, NEW v \in Answers
    PROVE  /\ v \in View
           /\ v.alarms \subseteq InState("active")
           /\ Cardinality(v.alarms) <= v.active
           /\ v.active = Cardinality(v.alarms) => InState("active") \subseteq v.alarms
<1> DEFINE Active == InState("active")
           Archived == InState("archived")
<1>1. Active \subseteq Alarms /\ Archived \subseteq Alarms
  BY DEF InState
<1>2. /\ v \in [alarms : SUBSET Active, active : {Cardinality(Active)},
                archived : {Cardinality(Archived)}, silences : {silences}]
      /\ Cardinality(v.alarms) = Smaller(ListCap, v.active)
  BY DEF Answers
<1>3. Cardinality(Active) \in Nat /\ Cardinality(Archived) \in Nat
  BY <1>1, AlarmSetFinite
<1> HIDE DEF Active, Archived
<1>4. v \in View /\ v.alarms \subseteq Active /\ v.active = Cardinality(Active)
  BY <1>1, <1>2, <1>3 DEF View
<1>5. Cardinality(v.alarms) <= v.active
  BY <1>2, <1>3, <1>4, BoundsAssumption DEF Smaller
<1>6. ASSUME v.active = Cardinality(v.alarms)
      PROVE  Active \subseteq v.alarms
  <2>1. IsFiniteSet(Active)
    BY <1>1, AlarmSetFinite
  <2>2. v.alarms \in SUBSET Active /\ Cardinality(Active) = Cardinality(v.alarms)
    BY <1>4, <1>6
  <2> QED BY <2>1, <2>2, FS_Subset
<1> QED BY <1>4, <1>5, <1>6 DEF Active

\* What an accepted command removes was active or archived; a command about one
\* alarm that is active takes that one.
LEMMA AffectedFacts ==
    ASSUME NEW c \in Calls, call[c].op \in Archives \cup Deletes
    PROVE  /\ Affected(c) \subseteq InState("active") \cup InState("archived")
           /\ call[c].op \in Archives => Affected(c) \subseteq InState("active")
           /\ call[c].op = "archive" => Affected(c) = {call[c].alarm} \cap InState("active")
           /\ call[c].op = "delete" =>
                 Affected(c) = {call[c].alarm} \cap (InState("active") \cup InState("archived"))
<1>1. CASE call[c].op = "archive"
  BY <1>1 DEF Affected, Archives
<1>2. CASE call[c].op = "archiveAll"
  BY <1>2 DEF Affected, Archives
<1>3. CASE call[c].op = "delete"
  BY <1>3 DEF Affected, Archives
<1>4. CASE call[c].op = "deleteActive"
  BY <1>4 DEF Affected, Archives
<1>5. CASE call[c].op = "deleteArchived"
  BY <1>5 DEF Affected, Archives
<1> QED BY <1>1, <1>2, <1>3, <1>4, <1>5 DEF Archives, Deletes

-----------------------------------------------------------------------------
(* What a step does to each variable.                                      *)

Statuses == {"absent", "active", "archived", "deleted"}
CallRecord == [phase : Phases, op : Ops, alarm : Alarms \cup {NoAlarm},
               silence : Silences \cup {NoSilence}]

\* On the box an alarm only moves forward.
Forward ==
    /\ status' \in [Alarms -> Statuses]
    /\ \A a \in Alarms : /\ status[a] # "absent" => status'[a] # "absent"
                         /\ Gone(a) => Gone(a)'

\* Moving a call to another phase changes nothing else of it.
LEMMA MovesFacts ==
    ASSUME TypeOK, NEW c \in Calls, NEW phase \in Phases, Moves(c, phase)
    PROVE  /\ call' \in [Calls -> CallRecord]
           /\ call'[c].phase = phase
           /\ \A d \in Calls : /\ call'[d].op = call[d].op
                               /\ call'[d].alarm = call[d].alarm
                               /\ d # c => call'[d].phase = call[d].phase
BY DEF TypeOK, Moves, CallRecord

\* Issuing a call stores its record; it names an alarm that has fired.
LEMMA IssueFacts ==
    ASSUME TypeOK, NEW c \in Calls, NEW phase \in Phases, NEW op \in Ops,
           NEW a \in Alarms \cup {NoAlarm}, NEW s \in Silences \cup {NoSilence},
           Issue(c, phase, op, a, s)
    PROVE  /\ call' \in [Calls -> CallRecord]
           /\ call[c].phase = "new"
           /\ call'[c].phase = phase
           /\ call'[c].op = op
           /\ call'[c].alarm = a
           /\ \A d \in Calls \ {c} : call'[d] = call[d]
           /\ a # NoAlarm => status[a] # "absent"
           /\ UNCHANGED <<boxVars, viewVars, poll, settled>>
BY DEF TypeOK, Issue, CallRecord

\* A call that begins is issued with types that fit; an archive or delete call
\* is sent at once and names an alarm.
LEMMA BeginCases ==
    ASSUME TypeOK, NEW c \in Calls, Begin(c)
    PROVE  \E phase \in {"sent", "lookup"}, op \in Ops, a \in Alarms \cup {NoAlarm},
              s \in Silences \cup {NoSilence} :
              /\ Issue(c, phase, op, a, s)
              /\ op \in {"archive", "delete"} => a # NoAlarm
<1> DEFINE Goal == \E phase \in {"sent", "lookup"}, op \in Ops, a \in Alarms \cup {NoAlarm},
                      s \in Silences \cup {NoSilence} :
                      /\ Issue(c, phase, op, a, s)
                      /\ op \in {"archive", "delete"} => a # NoAlarm
<1>0. \A a \in Alarms : a # NoAlarm
  BY AlarmsAssumption
<1>1. ASSUME NEW a \in Alarms, NEW op \in {"archive", "delete"}, ArchiveOrDelete(c, op, a)
      PROVE  Goal
  BY <1>0, <1>1 DEF ArchiveOrDelete, Ops, Archives, Deletes
<1>2. ASSUME NEW a \in Alarms, NEW allow \in BOOLEAN, MuteListed(c, a, allow)
      PROVE  Goal
  BY <1>2 DEF MuteListed, Ops
<1>3. ASSUME NEW a \in Alarms, MuteUnlisted(c, a)
      PROVE  Goal
  BY <1>3 DEF MuteUnlisted, Ops
<1>4. ASSUME NEW a \in Alarms, UnmuteAlarm(c, a)
      PROVE  Goal
  <2>1. CASE SilencesOf(manager, a) # {}
    <3>1. PICK s \in SilencesOf(manager, a) : Issue(c, "sent", "unexcept", a, s)
      BY <1>4, <2>1 DEF UnmuteAlarm
    <3>2. DOMAIN manager.silences \subseteq Silences
      BY SilenceMapsDef DEF TypeOK, View
    <3>3. s \in Silences
      BY <3>2 DEF SilencesOf
    <3> QED BY <3>1, <3>3 DEF Ops
  <2>2. CASE SilencesOf(manager, a) = {}
    BY <1>4, <2>2 DEF UnmuteAlarm, Ops
  <2> QED BY <2>1, <2>2
<1>5. ASSUME NEW op \in {"archiveAll", "deleteActive", "deleteArchived"},
             ArchiveOrDeleteSet(c, op)
      PROVE  Goal
  BY <1>5 DEF ArchiveOrDeleteSet, Ops, Archives, Deletes
<1>6. CASE MuteTarget(c)
  BY <1>6 DEF MuteTarget, Ops
<1>7. ASSUME NEW s \in Silences, UnmuteSilence(c, s)
      PROVE  Goal
  BY <1>7 DEF UnmuteSilence, Ops
<1> QED BY <1>1, <1>2, <1>3, <1>4, <1>5, <1>6, <1>7 DEF Begin

\* Marking alarms that are active as archived, or alarms that are not yet deleted
\* as deleted, moves them forward.
LEMMA SetsFacts ==
    ASSUME TypeOK, NEW alarms \in SUBSET Alarms, NEW s \in {"active", "archived", "deleted"},
           Sets(alarms, s),
           \A a \in alarms : \/ s = "active" /\ status[a] = "absent"
                             \/ s = "archived" /\ status[a] = "active"
                             \/ s = "deleted" /\ status[a] \in {"active", "archived"}
    PROVE  Forward /\ \A a \in alarms : status'[a] = s
<1>1. status \in [Alarms -> Statuses]
  BY DEF TypeOK, Statuses
<1>2. status' \in [Alarms -> Statuses]
      /\ \A a \in Alarms : status'[a] = IF a \in alarms THEN s ELSE status[a]
  BY <1>1 DEF Sets, Statuses
<1>3. ASSUME NEW a \in Alarms
      PROVE  /\ status[a] # "absent" => status'[a] # "absent"
             /\ Gone(a) => Gone(a)'
  BY <1>2 DEF Gone
<1> QED BY <1>2, <1>3 DEF Forward

\* Leaving the status as it is moves nothing.
LEMMA StatusStays ==
    ASSUME TypeOK, UNCHANGED status
    PROVE  Forward
BY DEF TypeOK, Forward, Gone, Statuses

\* The app and the box on their own: alarms move forward, and nothing else of
\* the entry is touched.
LEMMA AppFacts ==
    ASSUME TypeOK, App
    PROVE  /\ Forward
           /\ silences' \in SilenceMaps
           /\ AppActs
<1>1. silences \in SilenceMaps /\ DOMAIN silences \subseteq Silences
  BY SilenceMapsDef DEF TypeOK
<1>2. ASSUME NEW a \in Alarms, AlarmFires(a) \/ AppArchives(a) \/ AppDeletes(a)
      PROVE  Forward /\ silences' \in SilenceMaps /\ AppActs
  <2>1. {a} \in SUBSET Alarms
    OBVIOUS
  <2>2. Forward
    BY <1>2, <2>1, SetsFacts DEF AlarmFires, AppArchives, AppDeletes
  <2> QED BY <1>1, <1>2, <2>2 DEF AlarmFires, AppArchives, AppDeletes
<1>3. ASSUME NEW s \in Silences, NEW a \in Alarms \cup {NoAlarm}, AppMutes(s, a)
      PROVE  Forward /\ silences' \in SilenceMaps /\ AppActs
  BY <1>1, <1>3, SilenceFacts, StatusStays DEF AppMutes
<1>4. ASSUME NEW s \in Silences, AppUnmutes(s)
      PROVE  Forward /\ silences' \in SilenceMaps /\ AppActs
  <2>1. DOMAIN silences \ {s} \in SUBSET DOMAIN silences
    OBVIOUS
  <2> QED BY <1>1, <1>4, <2>1, SilenceFacts, StatusStays DEF AppUnmutes
<1> QED BY <1>2, <1>3, <1>4 DEF App

\* A delivered request moves one call to another phase and alarms forward; the
\* views and the refresh do not notice.  What an archive or delete call names is
\* gone once it is acknowledged.
LEMMA DeliverFacts ==
    ASSUME TypeOK, CallInv, NEW c \in Calls, Deliver(c)
    PROVE  /\ Forward
           /\ silences' \in SilenceMaps
           /\ UNCHANGED <<appSteps, viewVars, poll, settled>>
           /\ call[c].phase \in {"lookup", "sent", "acked"}
           /\ \E phase \in Phases \ {"done"} :
                 /\ Moves(c, phase)
                 /\ phase = "acked" /\ call[c].op \in {"archive", "delete"} =>
                       Gone(call[c].alarm)'
<1>1. silences \in SilenceMaps /\ call[c] \in CallRecord
  BY DEF TypeOK, CallRecord
<1>2. CASE BoxFindsArchived(c)
  <2>1. \E phase \in {"sent", "notFound"} : Moves(c, phase)
    BY <1>2 DEF BoxFindsArchived
  <2>2. Forward
    BY <1>2, StatusStays DEF BoxFindsArchived, boxVars
  <2> QED BY <1>1, <1>2, <2>1, <2>2 DEF BoxFindsArchived, boxVars, Phases
<1>3. CASE BoxMovesAlarms(c)
  <2>1. call[c].phase = "sent" /\ call[c].op \in Archives \cup Deletes
    BY <1>3 DEF BoxMovesAlarms
  <2>2. /\ Affected(c) \subseteq InState("active") \cup InState("archived")
        /\ call[c].op \in Archives => Affected(c) \subseteq InState("active")
        /\ call[c].op = "archive" => Affected(c) = {call[c].alarm} \cap InState("active")
        /\ call[c].op = "delete" =>
              Affected(c) = {call[c].alarm} \cap (InState("active") \cup InState("archived"))
    BY <2>1, AffectedFacts
  <2> DEFINE s == IF call[c].op \in Archives THEN "archived" ELSE "deleted"
  <2>3. Affected(c) \in SUBSET Alarms /\ s \in {"active", "archived", "deleted"}
    BY <2>2 DEF InState
  <2>4. Sets(Affected(c), s)
    BY <1>3 DEF BoxMovesAlarms
  <2>5. \A a \in Affected(c) : \/ s = "archived" /\ status[a] = "active"
                               \/ s = "deleted" /\ status[a] \in {"active", "archived"}
    BY <2>2 DEF InState
  <2>6. Forward /\ \A a \in Affected(c) : status'[a] = s
    <3> HIDE DEF s
    <3> QED BY <2>3, <2>4, <2>5, SetsFacts
  <2>7. ASSUME call[c].op \in {"archive", "delete"}
        PROVE  Gone(call[c].alarm)'
    <3>1. call[c].alarm \in Alarms /\ status[call[c].alarm] # "absent"
      BY <1>1, <2>7 DEF CallInv, CallRecord
    <3>2. CASE call[c].alarm \in Affected(c)
      BY <1>3, <2>6, <3>2, MovesFacts DEF Gone, BoxMovesAlarms, Phases
    <3>3. CASE call[c].alarm \notin Affected(c)
      <4>1. Gone(call[c].alarm)
        BY <2>2, <2>7, <3>1, <3>3 DEF Gone, InState, TypeOK
      <4>2. status'[call[c].alarm] \in {"archived", "deleted"}
        BY <2>6, <3>1, <4>1 DEF Forward, Gone
      <4>3. call'[c].alarm = call[c].alarm
        BY <1>3, MovesFacts DEF BoxMovesAlarms, Phases
      <4> QED BY <4>2, <4>3 DEF Gone
    <3> QED BY <3>2, <3>3
  <2> QED BY <1>1, <1>3, <2>1, <2>6, <2>7 DEF BoxMovesAlarms, Phases
<1>4. ASSUME NEW s \in Silences, BoxMutes(c, s)
      PROVE  /\ Forward
             /\ silences' \in SilenceMaps
             /\ Moves(c, "acked")
             /\ call[c].phase = "sent"
             /\ call[c].op \in {"mute", "except"}
             /\ UNCHANGED <<appSteps, viewVars, poll, settled>>
  <2>1. CASE call[c].op = "mute"
    <3>1. Adds(s, call[c].alarm) /\ Sets({call[c].alarm} \cap InState("active"), "archived")
      BY <1>4, <2>1 DEF BoxMutes
    <3>2. {call[c].alarm} \cap InState("active") \in SUBSET Alarms
      BY DEF InState
    <3>3. Forward
      BY <3>1, <3>2, SetsFacts DEF InState
    <3>4. call[c].alarm \in Alarms \cup {NoAlarm}
      BY <1>1 DEF CallRecord
    <3> QED BY <1>1, <1>4, <3>1, <3>3, <3>4, SilenceFacts DEF BoxMutes
  <2>2. CASE call[c].op # "mute"
    <3>1. Adds(s, NoAlarm) /\ UNCHANGED status
      BY <1>4, <2>2 DEF BoxMutes
    <3> QED BY <1>1, <1>4, <3>1, SilenceFacts, StatusStays DEF BoxMutes
  <2> QED BY <2>1, <2>2
<1>5. CASE BoxUnmutes(c)
  <2> DEFINE some == {s \in DOMAIN silences : IF call[c].op = "unmute"
                                              THEN silences[s] # call[c].alarm
                                              ELSE s # call[c].silence}
  <2>1. some \in SUBSET DOMAIN silences /\ Keeps(some)
    BY <1>5 DEF BoxUnmutes
  <2>2. silences' \in SilenceMaps
    <3> HIDE DEF some
    <3> QED BY <1>1, <2>1, SilenceFacts
  <2>3. Forward
    BY <1>5, StatusStays DEF BoxUnmutes
  <2> QED BY <1>5, <2>2, <2>3 DEF BoxUnmutes, Phases
<1>6. CASE RequestFails(c)
  <2>1. Forward
    BY <1>6, StatusStays DEF RequestFails, boxVars
  <2> QED BY <1>1, <1>6, <2>1 DEF RequestFails, boxVars, Phases
<1> QED BY <1>2, <1>3, <1>4, <1>5, <1>6 DEF Deliver, Phases

\* One finished operation: its call is done, and it is settled only if the alarm
\* it archived or deleted is gone and no older answer is under way.
LEMMA FinishFacts ==
    ASSUME TypeOK, NEW c \in Calls, Finish(c)
    PROVE  /\ Moves(c, "done") /\ "done" \in Phases
           /\ settled' \subseteq settled \cup {c}
           /\ c \in settled' \ settled =>
                 /\ poll.phase # "answered"
                 /\ call[c].op \in {"archive", "delete"}
                 /\ Gone(call[c].alarm)
           /\ UNCHANGED <<boxVars, poll>>
BY DEF Finish, Gone, Phases

\* A published change keeps the other fields of both views.
LEMMA PublishFacts ==
    ASSUME TypeOK, ViewsAgree, NEW alarms \in SUBSET Alarms, NEW active \in Nat,
           NEW archived \in Nat, Publish(alarms, active, archived)
    PROVE  /\ manager' \in View
           /\ data' = manager'
           /\ manager'.alarms = alarms
           /\ manager'.active = active
BY DEF TypeOK, ViewsAgree, Publish, View

\* A returned operation takes alarms off the list and never adds one.  The count
\* follows the list, so the list is complete afterwards only if it was before, or
\* the cache makes no claim any more.
LEMMA ReturnFacts ==
    ASSUME TypeOK, ViewsAgree, ListedAreCounted, NEW c \in Calls, Return(c)
    PROVE  /\ call[c].phase = "acked" /\ Finish(c)
           /\ manager' \in View
           /\ data' = manager'
           /\ known' \subseteq known
           /\ manager'.alarms \subseteq manager.alarms
           /\ Cardinality(manager'.alarms) <= manager'.active
           /\ CountsComplete' => CountsComplete \/ known' = {}
           /\ \A a \in manager.alarms \ manager'.alarms :
                 \/ known' = {}
                 \/ a = call[c].alarm /\ call[c].op \in {"archive", "delete"}
           /\ call[c].op \in {"archive", "delete"} => call[c].alarm \notin manager'.alarms
<1> DEFINE Goal == /\ manager' \in View
                   /\ data' = manager'
                   /\ known' \subseteq known
                   /\ manager'.alarms \subseteq manager.alarms
                   /\ Cardinality(manager'.alarms) <= manager'.active
                   /\ CountsComplete' => CountsComplete \/ known' = {}
                   /\ \A a \in manager.alarms \ manager'.alarms :
                         \/ known' = {}
                         \/ a = call[c].alarm /\ call[c].op \in {"archive", "delete"}
                   /\ call[c].op \in {"archive", "delete"} =>
                         call[c].alarm \notin manager'.alarms
<1>1. /\ manager \in View /\ data = manager
      /\ manager.alarms \in SUBSET Alarms
      /\ manager.active \in Nat /\ manager.archived \in Nat
      /\ Cardinality(manager.alarms) \in Nat
      /\ Cardinality(manager.alarms) <= manager.active
  <2>1. manager \in View /\ data = manager
    BY DEF TypeOK, ViewsAgree
  <2>2. manager.alarms \in SUBSET Alarms /\ manager.active \in Nat /\ manager.archived \in Nat
    BY <2>1 DEF View
  <2> QED BY <2>1, <2>2, AlarmSetFinite DEF ListedAreCounted
<1>2. ASSUME call[c].alarm \in manager.alarms,
             NEW archived \in Nat,
             Publish(manager.alarms \ {call[c].alarm}, Less(manager.active), archived),
             UNCHANGED known,
             call[c].op \in {"archive", "delete"}
      PROVE  Goal
  <2> DEFINE rest == manager.alarms \ {call[c].alarm}
  <2>1. Cardinality(manager.alarms) > 0 /\ Cardinality(rest) = Cardinality(manager.alarms) - 1
    BY <1>1, <1>2, RemoveAlarm
  <2>2. Less(manager.active) = manager.active - 1 /\ Less(manager.active) \in Nat
    BY <1>1, <2>1 DEF Less
  <2>3. rest \in SUBSET Alarms
    BY <1>1
  <2>4. manager' \in View /\ data' = manager' /\ manager'.alarms = rest
        /\ manager'.active = Less(manager.active)
    BY <1>2, <2>2, <2>3, PublishFacts
  <2>5. Cardinality(manager'.alarms) <= manager'.active
    BY <1>1, <2>1, <2>2, <2>4
  <2>6. CountsComplete' => CountsComplete
    BY <1>1, <2>1, <2>2, <2>4 DEF CountsComplete
  <2> QED BY <1>2, <2>4, <2>5, <2>6
<1>3. ASSUME UNCHANGED <<manager, data, known>>,
             call[c].op \in {"archive", "delete"} => call[c].alarm \notin manager.alarms
      PROVE  Goal
  BY <1>1, <1>3 DEF CountsComplete
<1>4. ASSUME NEW archived \in Nat, Publish({}, 0, archived), known' = {}
      PROVE  Goal
  <2>1. manager' \in View /\ data' = manager' /\ manager'.alarms = {} /\ manager'.active = 0
    BY <1>4, PublishFacts
  <2>2. Cardinality(manager'.alarms) = 0
    BY <2>1, FS_EmptySet
  <2> QED BY <1>4, <2>1, <2>2
<1>5. ASSUME Publish(manager.alarms, manager.active, 0), UNCHANGED known,
             call[c].op \notin {"archive", "delete"}
      PROVE  Goal
  <2>1. manager' \in View /\ data' = manager' /\ manager'.alarms = manager.alarms
        /\ manager'.active = manager.active
    BY <1>1, <1>5, PublishFacts
  <2> QED BY <1>1, <1>5, <2>1 DEF CountsComplete
<1>6. CASE ArchiveReturns(c)
  <2>1. manager.archived + 1 \in Nat
    BY <1>1
  <2>2. CASE call[c].alarm \in manager.alarms
    <3>1. Goal
      BY <1>2, <1>6, <2>1, <2>2 DEF ArchiveReturns
    <3> QED BY <1>6, <3>1 DEF ArchiveReturns
  <2>3. CASE call[c].alarm \notin manager.alarms
    <3>1. Goal
      BY <1>3, <1>6, <2>3 DEF ArchiveReturns
    <3> QED BY <1>6, <3>1 DEF ArchiveReturns
  <2> QED BY <2>2, <2>3
<1>7. CASE DeleteReturns(c)
  <2>1. CASE call[c].alarm \in manager.alarms
    <3>1. Goal
      BY <1>1, <1>2, <1>7, <2>1 DEF DeleteReturns
    <3> QED BY <1>7, <3>1 DEF DeleteReturns
  <2>2. CASE call[c].alarm \notin manager.alarms
    <3>1. Goal
      BY <1>3, <1>7, <2>2 DEF DeleteReturns
    <3> QED BY <1>7, <3>1 DEF DeleteReturns
  <2> QED BY <2>1, <2>2
<1>8. CASE ArchiveAllReturns(c)
  <2>1. manager.archived + manager.active \in Nat
    BY <1>1
  <2>2. Goal
    BY <1>4, <1>8, <2>1 DEF ArchiveAllReturns
  <2> QED BY <1>8, <2>2 DEF ArchiveAllReturns
<1>9. CASE DeleteActiveReturns(c)
  <2>1. Goal
    BY <1>1, <1>4, <1>9 DEF DeleteActiveReturns
  <2> QED BY <1>9, <2>1 DEF DeleteActiveReturns
<1>10. CASE DeleteArchivedReturns(c)
  <2>1. Goal
    BY <1>5, <1>10 DEF DeleteArchivedReturns
  <2> QED BY <1>10, <2>1 DEF DeleteArchivedReturns
<1>11. CASE MuteReturns(c)
  <2>1. Goal
    BY <1>3, <1>11 DEF MuteReturns, viewVars
  <2> QED BY <1>11, <2>1 DEF MuteReturns
<1> QED BY <1>6, <1>7, <1>8, <1>9, <1>10, <1>11 DEF Return

-----------------------------------------------------------------------------
(* Types.                                                                  *)

\* The initial states are well typed.
LEMMA InitType == Init => TypeOK
<1> SUFFICES ASSUME Init PROVE TypeOK
  OBVIOUS
<1>1. manager \in View /\ data \in View
  BY AnswerFacts DEF Init
<1>2. NoAnswer \in View
  <2>1. NoAnswer.silences \in SilenceMaps
    BY SilenceMapsDef DEF NoAnswer
  <2> QED BY <2>1 DEF NoAnswer, View
<1>3. poll \in [phase : {"idle", "sent", "answered"}, answer : View, known : SUBSET Alarms]
  BY <1>2 DEF Init, IdlePoll
<1>4. call \in [Calls -> CallRecord]
  BY DEF Init, NewCall, CallRecord, Phases, Ops
<1> QED BY <1>1, <1>3, <1>4, BoundsAssumption DEF Init, TypeOK, CallRecord, InState

\* The steps of a refresh keep the types.
LEMMA RefreshType ==
    ASSUME TypeOK, Refresh
    PROVE  TypeOK'
<1> DEFINE PollRecord == [phase : {"idle", "sent", "answered"}, answer : View,
                          known : SUBSET Alarms]
<1>1. poll \in PollRecord /\ silences \in SilenceMaps
  BY DEF TypeOK
<1>2. IdlePoll \in PollRecord
  <2>1. NoAnswer.silences \in SilenceMaps
    BY SilenceMapsDef DEF NoAnswer
  <2> QED BY <2>1 DEF NoAnswer, View, IdlePoll
<1>3. CASE SendPoll
  <2>1. poll' \in PollRecord
    BY <1>1, <1>3 DEF SendPoll
  <2> QED BY <1>3, <2>1 DEF SendPoll, TypeOK, boxVars, viewVars
<1>4. CASE BoxAnswersPoll
  <2>1. poll' \in PollRecord
    BY <1>1, <1>4, AnswerFacts DEF BoxAnswersPoll, InState
  <2> QED BY <1>4, <2>1 DEF BoxAnswersPoll, TypeOK, boxVars, viewVars
<1>5. CASE PollFails
  BY <1>2, <1>5 DEF PollFails, TypeOK, boxVars, viewVars
<1>6. CASE PublishPoll
  BY <1>1, <1>2, <1>6 DEF PublishPoll, TypeOK, boxVars
<1> QED BY <1>3, <1>4, <1>5, <1>6 DEF Refresh

\* The initial states satisfy the invariant.
LEMMA InitInv == Init => IInv
<1> SUFFICES ASSUME Init PROVE IInv
  OBVIOUS
<1>1. TypeOK
  BY InitType
<1>2. silences \in SilenceMaps /\ manager \in Answers
  BY DEF Init
<1>3. ListedAreCounted /\ CompleteInv
  BY <1>2, AnswerFacts DEF Init, ListedAreCounted, CompleteInv, CountsComplete
<1>4. AnswerInv
  BY DEF Init, AnswerInv, IdlePoll
<1>5. CallInv
  BY AlarmsAssumption DEF Init, CallInv, NewCall
<1>6. SettledInv /\ RemovedStaysRemoved
  BY DEF Init, SettledInv, RemovedStaysRemoved
<1> QED BY <1>1, <1>3, <1>4, <1>5, <1>6 DEF Init, IInv, ViewsAgree

\* What a step of the box, or of a request on its way, leaves of the invariant: it
\* moves alarms forward and touches neither the views nor the refresh.
LEMMA ForwardKeeps ==
    ASSUME IInv, Forward, UNCHANGED <<viewVars, poll>>
    PROVE  ViewsAgree' /\ ListedAreCounted' /\ CompleteInv' /\ AnswerInv'
<1>1. \A a \in Alarms : Gone(a) => Gone(a)'
  BY DEF Forward
<1>2. known \subseteq Alarms
  BY DEF IInv, TypeOK
<1>3. CompleteInv'
  BY <1>1, <1>2 DEF IInv, CompleteInv, CountsComplete, viewVars
<1> QED BY <1>3 DEF IInv, ViewsAgree, ListedAreCounted, AnswerInv, viewVars

\* Every step of the app keeps the invariant.
LEMMA AppInv ==
    ASSUME IInv, App
    PROVE  IInv'
<1>0. TypeOK
  BY DEF IInv
<1>1. Forward /\ silences' \in SilenceMaps /\ AppActs
  BY <1>0, AppFacts
<1>2. TypeOK'
  BY <1>0, <1>1, BoundsAssumption DEF Forward, Statuses, AppActs, TypeOK, viewVars
<1>3. UNCHANGED <<viewVars, poll, call, settled>>
  BY <1>1 DEF AppActs
<1>4. ViewsAgree' /\ ListedAreCounted' /\ CompleteInv' /\ AnswerInv'
  BY <1>1, <1>3, ForwardKeeps
<1>5. \A c \in Calls : call[c].alarm \in Alarms \cup {NoAlarm}
  BY <1>0 DEF TypeOK
<1>6. CallInv'
  BY <1>1, <1>3, <1>5 DEF IInv, CallInv, Forward, Gone
<1>7. SettledInv' /\ RemovedStaysRemoved'
  BY <1>0, <1>1, <1>3, <1>5
     DEF IInv, SettledInv, RemovedStaysRemoved, Forward, Gone, TypeOK, viewVars
<1> QED BY <1>2, <1>4, <1>6, <1>7 DEF IInv

\* Every step of a refresh keeps the invariant: an answer lists no alarm that is
\* gone, and one as long as its count lists all that are active.
LEMMA RefreshInv ==
    ASSUME IInv, Refresh
    PROVE  IInv'
<1>0. TypeOK
  BY DEF IInv
<1>1. TypeOK'
  BY <1>0, RefreshType
<1>2. UNCHANGED <<boxVars, call, settled>>
  BY DEF Refresh, SendPoll, BoxAnswersPoll, PollFails, PublishPoll
<1>3. CallInv'
  BY <1>2 DEF IInv, CallInv, Gone, boxVars
<1>4. \A c \in settled : call[c].phase = "done" /\ call[c].alarm # NoAlarm /\ Gone(call[c].alarm)
  BY DEF IInv, SettledInv
<1>5. \A c \in settled' : /\ call'[c].phase = "done" /\ call'[c].alarm # NoAlarm
                          /\ Gone(call[c].alarm)'
  BY <1>2, <1>4 DEF Gone, boxVars
<1>6. ASSUME poll'.phase # "answered", UNCHANGED viewVars
      PROVE  IInv'
  <2>1. ViewsAgree' /\ ListedAreCounted' /\ CompleteInv' /\ AnswerInv' /\ RemovedStaysRemoved'
    BY <1>2, <1>6
       DEF IInv, ViewsAgree, ListedAreCounted, CompleteInv, CountsComplete, AnswerInv,
           RemovedStaysRemoved, Gone, viewVars, boxVars
  <2>2. SettledInv'
    BY <1>5, <1>6 DEF SettledInv
  <2> QED BY <1>1, <1>3, <2>1, <2>2 DEF IInv
<1>7. CASE SendPoll
  BY <1>0, <1>6, <1>7 DEF SendPoll, TypeOK
<1>8. CASE PollFails
  BY <1>6, <1>8 DEF PollFails, IdlePoll
<1>9. CASE BoxAnswersPoll
  <2>1. PICK v \in Answers :
           poll' = [phase |-> "answered", answer |-> v, known |-> InState("active")]
    BY <1>9 DEF BoxAnswersPoll
  <2>2. /\ v.alarms \subseteq InState("active")
        /\ Cardinality(v.alarms) <= v.active
        /\ v.active = Cardinality(v.alarms) => InState("active") \subseteq v.alarms
    BY <1>0, AnswerFacts DEF TypeOK
  <2>3. UNCHANGED viewVars
    BY <1>9 DEF BoxAnswersPoll
  <2>4. ViewsAgree' /\ ListedAreCounted' /\ CompleteInv' /\ RemovedStaysRemoved'
    BY <1>2, <2>3 DEF IInv, ViewsAgree, ListedAreCounted, CompleteInv, CountsComplete,
                      RemovedStaysRemoved, Gone, viewVars, boxVars
  <2>5. AnswerInv'
    BY <2>1, <2>2 DEF AnswerInv
  <2>6. \A c \in settled' : call'[c].alarm \notin v.alarms
    BY <1>2, <1>4, <2>2 DEF Gone, InState
  <2>7. SettledInv'
    BY <1>5, <2>1, <2>6 DEF SettledInv
  <2> QED BY <1>1, <1>3, <2>4, <2>5, <2>7 DEF IInv
<1>10. CASE PublishPoll
  <2>1. /\ poll.phase = "answered"
        /\ manager' = poll.answer /\ data' = poll.answer /\ known' = poll.known
        /\ poll'.phase = "idle"
    BY <1>10 DEF PublishPoll, IdlePoll
  <2>2. ViewsAgree' /\ ListedAreCounted' /\ CompleteInv' /\ AnswerInv'
    BY <2>1 DEF IInv, ViewsAgree, ListedAreCounted, CompleteInv, CountsComplete, AnswerInv
  <2>3. SettledInv' /\ RemovedStaysRemoved'
    BY <1>2, <1>5, <2>1 DEF IInv, SettledInv, RemovedStaysRemoved
  <2> QED BY <1>1, <1>3, <2>2, <2>3 DEF IInv
<1> QED BY <1>7, <1>8, <1>9, <1>10 DEF Refresh

\* Issuing a call keeps the invariant.
LEMMA BeginInv ==
    ASSUME IInv, NEW c \in Calls, Begin(c)
    PROVE  IInv'
<1>0. TypeOK
  BY DEF IInv
<1>1. PICK phase \in {"sent", "lookup"}, op \in Ops, a \in Alarms \cup {NoAlarm},
           s \in Silences \cup {NoSilence} :
           Issue(c, phase, op, a, s) /\ (op \in {"archive", "delete"} => a # NoAlarm)
  BY <1>0, BeginCases
<1>2. phase \in Phases
  BY DEF Phases
<1>3. /\ call' \in [Calls -> CallRecord]
      /\ call[c].phase = "new"
      /\ call'[c].phase = phase /\ call'[c].op = op /\ call'[c].alarm = a
      /\ \A d \in Calls \ {c} : call'[d] = call[d]
      /\ a # NoAlarm => status[a] # "absent"
      /\ UNCHANGED <<boxVars, viewVars, poll, settled>>
  BY <1>0, <1>1, <1>2, IssueFacts
<1>4. TypeOK'
  BY <1>0, <1>3 DEF TypeOK, boxVars, viewVars, CallRecord
<1>5. ViewsAgree' /\ ListedAreCounted' /\ CompleteInv' /\ AnswerInv'
  BY <1>3 DEF IInv, ViewsAgree, ListedAreCounted, CompleteInv, CountsComplete, AnswerInv,
              Gone, boxVars, viewVars
<1>6. CallInv'
  BY <1>1, <1>3 DEF IInv, CallInv, Gone, boxVars
<1>7. SettledInv' /\ RemovedStaysRemoved'
  BY <1>0, <1>3 DEF IInv, SettledInv, RemovedStaysRemoved, TypeOK, Gone, boxVars, viewVars
<1> QED BY <1>4, <1>5, <1>6, <1>7 DEF IInv

\* A request that is carried out, fails or is answered keeps the invariant.
LEMMA DeliverInv ==
    ASSUME IInv, NEW c \in Calls, Deliver(c)
    PROVE  IInv'
<1>0. TypeOK /\ CallInv
  BY DEF IInv
<1>1. /\ Forward
      /\ silences' \in SilenceMaps
      /\ UNCHANGED <<appSteps, viewVars, poll, settled>>
      /\ call[c].phase \in {"lookup", "sent", "acked"}
  BY <1>0, DeliverFacts
<1>2. PICK phase \in Phases \ {"done"} :
         /\ Moves(c, phase)
         /\ phase = "acked" /\ call[c].op \in {"archive", "delete"} => Gone(call[c].alarm)'
  BY <1>0, DeliverFacts
<1>3. /\ call' \in [Calls -> CallRecord]
      /\ call'[c].phase = phase
      /\ \A d \in Calls : /\ call'[d].op = call[d].op
                          /\ call'[d].alarm = call[d].alarm
                          /\ d # c => call'[d].phase = call[d].phase
  BY <1>0, <1>2, MovesFacts
<1>4. TypeOK'
  BY <1>0, <1>1, <1>3 DEF TypeOK, Forward, Statuses, CallRecord, viewVars
<1>5. ViewsAgree' /\ ListedAreCounted' /\ CompleteInv' /\ AnswerInv'
  BY <1>1, ForwardKeeps
<1>6. \A d \in Calls : /\ call[d].alarm \in Alarms \cup {NoAlarm}
                       /\ call[d].alarm # NoAlarm /\ Gone(call[d].alarm) => Gone(call[d].alarm)'
  BY <1>0, <1>1, <1>3 DEF TypeOK, Forward, Gone
<1>7. CallInv'
  <2> SUFFICES ASSUME NEW d \in Calls
               PROVE  /\ call'[d].alarm # NoAlarm => status'[call'[d].alarm] # "absent"
                      /\ call'[d].op \in {"archive", "delete"} =>
                            /\ call'[d].alarm # NoAlarm
                            /\ call'[d].phase = "acked" => Gone(call[d].alarm)'
    BY DEF CallInv
  <2> QED BY <1>0, <1>1, <1>2, <1>3, <1>6 DEF CallInv, Forward
<1>8. SettledInv' /\ RemovedStaysRemoved'
  <2>1. \A d \in settled : /\ d \in Calls /\ d # c
                           /\ call[d].phase = "done" /\ call[d].alarm # NoAlarm
                           /\ Gone(call[d].alarm)'
    BY <1>0, <1>1, <1>6 DEF IInv, SettledInv, TypeOK
  <2> QED BY <1>1, <1>3, <2>1 DEF IInv, SettledInv, RemovedStaysRemoved, viewVars
<1> QED BY <1>4, <1>5, <1>7, <1>8 DEF IInv

\* The rest of an operation keeps the invariant: the alarm it takes off the list
\* is gone, and what it settles is off the list.
LEMMA ReturnInv ==
    ASSUME IInv, NEW c \in Calls, Return(c)
    PROVE  IInv'
<1>0. TypeOK /\ ViewsAgree /\ ListedAreCounted
  BY DEF IInv
<1>1. /\ call[c].phase = "acked" /\ Finish(c)
      /\ manager' \in View
      /\ data' = manager'
      /\ known' \subseteq known
      /\ manager'.alarms \subseteq manager.alarms
      /\ Cardinality(manager'.alarms) <= manager'.active
      /\ CountsComplete' => CountsComplete \/ known' = {}
      /\ \A a \in manager.alarms \ manager'.alarms :
            \/ known' = {}
            \/ a = call[c].alarm /\ call[c].op \in {"archive", "delete"}
      /\ call[c].op \in {"archive", "delete"} => call[c].alarm \notin manager'.alarms
  BY <1>0, ReturnFacts
<1>2. /\ Moves(c, "done") /\ "done" \in Phases
      /\ settled' \subseteq settled \cup {c}
      /\ c \in settled' \ settled =>
            /\ poll.phase # "answered"
            /\ call[c].op \in {"archive", "delete"}
            /\ Gone(call[c].alarm)
      /\ UNCHANGED <<boxVars, poll>>
  BY <1>0, <1>1, FinishFacts
<1>3. /\ call' \in [Calls -> CallRecord]
      /\ call'[c].phase = "done"
      /\ \A d \in Calls : /\ call'[d].op = call[d].op
                          /\ call'[d].alarm = call[d].alarm
                          /\ d # c => call'[d].phase = call[d].phase
  BY <1>0, <1>2, MovesFacts
<1>4. TypeOK'
  BY <1>0, <1>1, <1>2, <1>3 DEF TypeOK, CallRecord, boxVars
<1>5. ViewsAgree' /\ ListedAreCounted'
  BY <1>1 DEF ViewsAgree, ListedAreCounted
<1>6. call[c].op \in {"archive", "delete"} => Gone(call[c].alarm)
  BY <1>1 DEF IInv, CallInv
<1>7. CompleteInv'
  <2> SUFFICES ASSUME CountsComplete', NEW a \in known'
               PROVE  a \in manager'.alarms \/ Gone(a)'
    BY DEF CompleteInv
  <2>1. a \in manager.alarms \/ Gone(a)
    BY <1>1 DEF IInv, CompleteInv
  <2>2. Gone(a) => Gone(a)'
    BY <1>2 DEF Gone, boxVars
  <2> QED BY <1>1, <1>6, <2>1, <2>2
<1>8. AnswerInv' /\ CallInv'
  <2>1. \A d \in Calls : Gone(call[d].alarm)' <=> Gone(call[d].alarm)
    BY <1>2, <1>3 DEF Gone, boxVars
  <2> QED BY <1>2, <1>3, <2>1 DEF IInv, AnswerInv, CallInv, boxVars
<1>9. SettledInv' /\ RemovedStaysRemoved'
  <2>1. ASSUME NEW d \in settled
        PROVE  /\ d \in Calls /\ call'[d].phase = "done" /\ call'[d].alarm # NoAlarm
               /\ Gone(call[d].alarm)'
               /\ poll'.phase = "answered" => call'[d].alarm \notin poll'.answer.alarms
               /\ call'[d].alarm \notin manager'.alarms
    BY <1>0, <1>1, <1>2, <1>3
       DEF IInv, SettledInv, RemovedStaysRemoved, TypeOK, Gone, boxVars
  <2>2. ASSUME c \in settled' \ settled
        PROVE  /\ call'[c].phase = "done" /\ call'[c].alarm # NoAlarm
               /\ Gone(call[c].alarm)'
               /\ poll'.phase # "answered"
               /\ call'[c].alarm \notin manager'.alarms
    BY <1>1, <1>2, <1>3, <2>2 DEF IInv, CallInv, Gone, boxVars
  <2> QED BY <1>2, <2>1, <2>2 DEF SettledInv, RemovedStaysRemoved
<1> QED BY <1>4, <1>5, <1>7, <1>8, <1>9 DEF IInv

\* A step that changes nothing keeps the invariant.
LEMMA StutterInv ==
    ASSUME IInv, UNCHANGED vars
    PROVE  IInv'
<1>1. TypeOK' /\ ViewsAgree' /\ ListedAreCounted' /\ CompleteInv' /\ AnswerInv'
  BY DEF IInv, TypeOK, ViewsAgree, ListedAreCounted, CompleteInv, CountsComplete, AnswerInv,
         Gone, vars, boxVars, viewVars
<1>2. CallInv' /\ SettledInv' /\ RemovedStaysRemoved'
  BY DEF IInv, CallInv, SettledInv, RemovedStaysRemoved, Gone, vars, boxVars, viewVars
<1> QED BY <1>1, <1>2 DEF IInv

\* The invariant of the alarm inventory is inductive: every reachable state
\* satisfies it, however many alarms, silences and operations there are and
\* wherever a payload cuts its list.
THEOREM AlarmInvariant == Spec => []IInv
<1>1. IInv /\ [Next]_vars => IInv'
  BY AppInv, RefreshInv, BeginInv, DeliverInv, ReturnInv, StutterInv DEF Next
<1> QED BY <1>1, InitInv, PTL DEF Spec

-----------------------------------------------------------------------------
(* The properties.                                                         *)

\* Every reachable state of the alarm inventory is well typed.
THEOREM TypeCorrect == Spec => []TypeOK
<1>1. IInv => TypeOK
  BY DEF IInv
<1> QED BY <1>1, AlarmInvariant, PTL

\* The alarm manager and the coordinator's snapshot always tell the same alarms,
\* counts and silences.
THEOREM ViewsAlwaysAgree == Spec => []ViewsAgree
<1>1. IInv => ViewsAgree
  BY DEF IInv
<1> QED BY <1>1, AlarmInvariant, PTL

\* The adjusted count of active alarms never falls below the number still listed.
THEOREM ListedAlwaysCounted == Spec => []ListedAreCounted
<1>1. IInv => ListedAreCounted
  BY DEF IInv
<1> QED BY <1>1, AlarmInvariant, PTL

\* While the manager says its list is complete, no alarm that was active when the
\* box answered and still is active is missing from it.
THEOREM NoFalseCompleteness == Spec => []CompleteMeansAll
<1>1. IInv => CompleteMeansAll
  BY DEF IInv, CompleteInv, CompleteMeansAll, Gone
<1> QED BY <1>1, AlarmInvariant, PTL

\* An alarm that an undisturbed call archived or deleted is never listed again.
THEOREM RemovedNeverReturns == Spec => []RemovedStaysRemoved
<1>1. IInv => RemovedStaysRemoved
  BY DEF IInv
<1> QED BY <1>1, AlarmInvariant, PTL
=============================================================================
