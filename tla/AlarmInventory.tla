--------------------------- MODULE AlarmInventory ---------------------------
(***************************************************************************)
(* The alarm manager of one config entry: the active alarms, the counts    *)
(* and the silences (mute exceptions) it caches, and the operations that   *)
(* archive, delete, mute and unmute.                                       *)
(*                                                                         *)
(* An init payload carries the two counts of the box and a list of active  *)
(* alarms that is capped, so the count may exceed the list.  The manager   *)
(* adjusts the counts by the delta an operation implies and derives from   *)
(* them whether its per-category counts are complete.  On the box an alarm *)
(* goes from active to archived to deleted and never back.                 *)
(***************************************************************************)
EXTENDS Naturals, FiniteSets

CONSTANTS
    Alarms,      \* alarm ids
    Silences,    \* exception ids
    Calls,       \* alarm service calls, each issued at most once
    NoAlarm,     \* a silence that belongs to no alarm; a call that names none
    NoSilence,   \* a call that names no silence
    ListCap,     \* most alarms one init payload lists
    MaxAppSteps  \* bound: how often the box or its app acts on its own

ASSUME AlarmsAssumption ==
    /\ IsFiniteSet(Alarms)
    /\ NoAlarm \notin Alarms
    /\ NoSilence \notin Silences
ASSUME BoundsAssumption == ListCap \in Nat /\ MaxAppSteps \in Nat

VARIABLES
    status,    \* on the box: "absent" (not fired yet), "active", "archived", "deleted"
    silences,  \* on the box: the alarm each exception belongs to
    appSteps,  \* steps the box and its app have taken
    manager,   \* the cached fields of the alarm manager
    data,      \* the same fields of coordinator.data
    poll,      \* the refresh under way
    call,      \* operations under way
    known,     \* history: alarms active on the box when it gave the published answer
    settled    \* history: archive and delete calls whose alarm cannot come back

boxVars == <<status, silences, appSteps>>
viewVars == <<manager, data, known>>
vars == <<boxVars, viewVars, poll, call, settled>>

-----------------------------------------------------------------------------
SilenceMaps == UNION {[S -> Alarms \cup {NoAlarm}] : S \in SUBSET Silences}

\* _alarms, _active_count, _archived_count and _exceptions.
View == [alarms : SUBSET Alarms, active : Nat, archived : Nat, silences : SilenceMaps]

InState(s) == {a \in Alarms : status[a] = s}

Smaller(m, n) == IF m < n THEN m ELSE n

\* What an init payload may say: the counts, and as many active alarms as fit.
Answers ==
    {v \in [alarms : SUBSET InState("active"), active : {Cardinality(InState("active"))},
            archived : {Cardinality(InState("archived"))}, silences : {silences}] :
        Cardinality(v.alarms) = Smaller(ListCap, v.active)}

NoAnswer == [alarms |-> {}, active |-> 0, archived |-> 0, silences |-> [s \in {} |-> NoAlarm]]
IdlePoll == [phase |-> "idle", answer |-> NoAnswer, known |-> {}]
NewCall == [phase |-> "new", op |-> "none", alarm |-> NoAlarm, silence |-> NoSilence]

Init ==
    /\ status \in [Alarms -> {"absent", "active", "archived"}]
    /\ silences \in SilenceMaps
    /\ appSteps = 0
    /\ manager \in Answers
    /\ data = manager
    /\ poll = IdlePoll
    /\ call = [c \in Calls |-> NewCall]
    /\ known = InState("active")
    /\ settled = {}

-----------------------------------------------------------------------------
(* The box and its app.                                                    *)

Sets(alarms, s) == status' = [a \in Alarms |-> IF a \in alarms THEN s ELSE status[a]]

Adds(s, a) ==
    silences' = [t \in DOMAIN silences \cup {s} |-> IF t = s THEN a ELSE silences[t]]

Keeps(some) == silences' = [t \in some |-> silences[t]]

AppActs ==
    /\ appSteps < MaxAppSteps
    /\ appSteps' = appSteps + 1
    /\ UNCHANGED <<viewVars, poll, call, settled>>

AlarmFires(a) ==
    /\ status[a] = "absent"
    /\ Sets({a}, "active")
    /\ AppActs
    /\ UNCHANGED silences

AppArchives(a) ==
    /\ status[a] = "active"
    /\ Sets({a}, "archived")
    /\ AppActs
    /\ UNCHANGED silences

AppDeletes(a) ==
    /\ status[a] \in {"active", "archived"}
    /\ Sets({a}, "deleted")
    /\ AppActs
    /\ UNCHANGED silences

AppMutes(s, a) ==
    /\ s \notin DOMAIN silences
    /\ Adds(s, a)
    /\ AppActs
    /\ UNCHANGED status

AppUnmutes(s) ==
    /\ s \in DOMAIN silences
    /\ Keeps(DOMAIN silences \ {s})
    /\ AppActs
    /\ UNCHANGED status

-----------------------------------------------------------------------------
(* The refresh.                                                            *)

SendPoll ==
    /\ poll.phase = "idle"
    /\ poll' = [poll EXCEPT !.phase = "sent"]
    /\ UNCHANGED <<boxVars, viewVars, call, settled>>

BoxAnswersPoll ==
    /\ poll.phase = "sent"
    /\ \E v \in Answers :
          poll' = [phase |-> "answered", answer |-> v, known |-> InState("active")]
    /\ UNCHANGED <<boxVars, viewVars, call, settled>>

PollFails ==
    /\ poll.phase \in {"sent", "answered"}
    /\ poll' = IdlePoll
    /\ UNCHANGED <<boxVars, viewVars, call, settled>>

\* Faulty variant: the list of the last answer stays beside the new counts.
PublishPollCounts ==
    /\ poll.phase = "answered"
    /\ manager' = [poll.answer EXCEPT !.alarms = manager.alarms]
    /\ data' = manager'
    /\ known' = poll.known
    /\ poll' = IdlePoll
    /\ UNCHANGED <<boxVars, call, settled>>

\* FirewallaAlarmManager.handle_refresh, then the coordinator publishes.
PublishPoll ==
    /\ poll.phase = "answered"
    /\ manager' = poll.answer
    /\ data' = poll.answer
    /\ known' = poll.known
    /\ poll' = IdlePoll
    /\ UNCHANGED <<boxVars, call, settled>>

-----------------------------------------------------------------------------
(* One operation, up to the moment its request leaves.                     *)

\* An alarm that has not fired has no id yet.
Issue(c, phase, op, a, s) ==
    /\ call[c].phase = "new"
    /\ a # NoAlarm => status[a] # "absent"
    /\ call' = [call EXCEPT ![c] = [phase |-> phase, op |-> op, alarm |-> a, silence |-> s]]
    /\ UNCHANGED <<boxVars, viewVars, poll, settled>>

\* archive_alarms and delete_alarms look nothing up before they send.
ArchiveOrDelete(c, op, a) == Issue(c, "sent", op, a, NoSilence)
ArchiveOrDeleteSet(c, op) == Issue(c, "sent", op, NoAlarm, NoSilence)

\* mute_alarm for an alarm the cache lists as active; scoped to a host or to all
\* hosts (and not to an alarm type) it is sent as an alarm:allow.
MuteListed(c, a, allow) ==
    /\ a \in manager.alarms
    /\ Issue(c, "sent", IF allow THEN "mute" ELSE "except", a, NoSilence)

\* Any other alarm is looked up in the archived set of the box first.
MuteUnlisted(c, a) ==
    /\ a \notin manager.alarms
    /\ Issue(c, "lookup", "except", a, NoSilence)

MuteTarget(c) == Issue(c, "sent", "except", NoAlarm, NoSilence)

SilencesOf(view, a) == {s \in DOMAIN view.silences : view.silences[s] = a}

\* unmute_alarm by alarm: through a cached exception if there is one.
UnmuteAlarm(c, a) ==
    IF SilencesOf(manager, a) # {}
    THEN \E s \in SilencesOf(manager, a) : Issue(c, "sent", "unexcept", a, s)
    ELSE Issue(c, "sent", "unmute", a, NoSilence)

UnmuteSilence(c, s) == Issue(c, "sent", "unexcept", NoAlarm, s)

-----------------------------------------------------------------------------
(* What happens to the request.                                            *)

Moves(c, phase) == call' = [call EXCEPT ![c].phase = phase]

BoxFindsArchived(c) ==
    /\ call[c].phase = "lookup"
    /\ Moves(c, IF status[call[c].alarm] = "archived" THEN "sent" ELSE "notFound")
    /\ UNCHANGED <<boxVars, viewVars, poll, settled>>

\* The alarms an accepted command removes from the set it is about.
Affected(c) ==
    CASE call[c].op = "archive"        -> {call[c].alarm} \cap InState("active")
      [] call[c].op = "archiveAll"     -> InState("active")
      [] call[c].op = "delete"         -> {call[c].alarm} \cap
                                             (InState("active") \cup InState("archived"))
      [] call[c].op = "deleteActive"   -> InState("active")
      [] call[c].op = "deleteArchived" -> InState("archived")

Archives == {"archive", "archiveAll"}
Deletes == {"delete", "deleteActive", "deleteArchived"}

BoxMovesAlarms(c) ==
    /\ call[c].phase = "sent"
    /\ call[c].op \in Archives \cup Deletes
    /\ Sets(Affected(c), IF call[c].op \in Archives THEN "archived" ELSE "deleted")
    /\ Moves(c, "acked")
    /\ UNCHANGED <<silences, appSteps, viewVars, poll, settled>>

\* Muting an active alarm also archives it.
BoxMutes(c, s) ==
    /\ call[c].phase = "sent"
    /\ call[c].op \in {"mute", "except"}
    /\ s \notin DOMAIN silences
    /\ IF call[c].op = "mute"
       THEN /\ Adds(s, call[c].alarm)
            /\ Sets({call[c].alarm} \cap InState("active"), "archived")
       ELSE Adds(s, NoAlarm) /\ UNCHANGED status
    /\ Moves(c, "acked")
    /\ UNCHANGED <<appSteps, viewVars, poll, settled>>

BoxUnmutes(c) ==
    /\ call[c].phase = "sent"
    /\ call[c].op \in {"unmute", "unexcept"}
    /\ Keeps({s \in DOMAIN silences : IF call[c].op = "unmute"
                                      THEN silences[s] # call[c].alarm
                                      ELSE s # call[c].silence})
    /\ Moves(c, "acked")
    /\ UNCHANGED <<status, appSteps, viewVars, poll, settled>>

RequestFails(c) ==
    /\ call[c].phase \in {"lookup", "sent", "acked"}
    /\ Moves(c, "failed")
    /\ UNCHANGED <<boxVars, viewVars, poll, settled>>

-----------------------------------------------------------------------------
(* The rest of the operation, after the awaited request returned.          *)

\* _publish_optimistic_alarms: the manager's fields and the snapshot's.
Publish(alarms, active, archived) ==
    /\ manager' = [manager EXCEPT !.alarms = alarms, !.active = active, !.archived = archived]
    /\ data' = [data EXCEPT !.alarms = alarms, !.active = active, !.archived = archived]

\* The alarm of c has left the active set for good, and no refresh holds an
\* older answer.
Finish(c) ==
    /\ Moves(c, "done")
    /\ settled' = IF /\ poll.phase # "answered"
                     /\ call[c].op \in {"archive", "delete"}
                     /\ status[call[c].alarm] \in {"archived", "deleted"}
                  THEN settled \cup {c}
                  ELSE settled
    /\ UNCHANGED <<boxVars, poll>>

Less(n) == IF n = 0 THEN 0 ELSE n - 1

\* Faulty variants: the counts move for an alarm the cache does not list; the
\* snapshot is not published; the alarm stays listed.
ArchiveReturnsUnguarded(c) ==
    /\ call[c].phase = "acked"
    /\ call[c].op = "archive"
    /\ Publish(manager.alarms \ {call[c].alarm}, Less(manager.active), manager.archived + 1)
    /\ Finish(c)
    /\ UNCHANGED known

DeleteReturnsUnpublished(c) ==
    /\ call[c].phase = "acked"
    /\ call[c].op = "delete"
    /\ manager' = [manager EXCEPT !.alarms = @ \ {call[c].alarm}]
    /\ Finish(c)
    /\ UNCHANGED <<data, known>>

\* The count takes the alarm's id.
ArchiveReturnsMixed(c) ==
    /\ call[c].phase = "acked"
    /\ call[c].op = "archive"
    /\ manager' = [manager EXCEPT !.alarms = @ \ {call[c].alarm}, !.active = call[c].alarm]
    /\ data' = manager'
    /\ Finish(c)
    /\ UNCHANGED known

DeleteReturnsKeepsAlarm(c) ==
    /\ call[c].phase = "acked"
    /\ call[c].op = "delete"
    /\ Finish(c)
    /\ UNCHANGED viewVars

\* _apply_optimistic_archive and _apply_optimistic_delete of one alarm.
ArchiveReturns(c) ==
    /\ call[c].phase = "acked"
    /\ call[c].op = "archive"
    /\ IF call[c].alarm \in manager.alarms
       THEN Publish(manager.alarms \ {call[c].alarm}, Less(manager.active), manager.archived + 1)
       ELSE UNCHANGED <<manager, data>>
    /\ Finish(c)
    /\ UNCHANGED known

DeleteReturns(c) ==
    /\ call[c].phase = "acked"
    /\ call[c].op = "delete"
    /\ IF call[c].alarm \in manager.alarms
       THEN Publish(manager.alarms \ {call[c].alarm}, Less(manager.active), manager.archived)
       ELSE UNCHANGED <<manager, data>>
    /\ Finish(c)
    /\ UNCHANGED known

\* The bulk cases empty the list the cache has now, whatever was fired since the
\* box carried them out: from here the cache makes no claim about those alarms.
ArchiveAllReturns(c) ==
    /\ call[c].phase = "acked"
    /\ call[c].op = "archiveAll"
    /\ Publish({}, 0, manager.archived + manager.active)
    /\ known' = {}
    /\ Finish(c)

DeleteActiveReturns(c) ==
    /\ call[c].phase = "acked"
    /\ call[c].op = "deleteActive"
    /\ Publish({}, 0, manager.archived)
    /\ known' = {}
    /\ Finish(c)

DeleteArchivedReturns(c) ==
    /\ call[c].phase = "acked"
    /\ call[c].op = "deleteArchived"
    /\ Publish(manager.alarms, manager.active, 0)
    /\ Finish(c)
    /\ UNCHANGED known

\* Muting and unmuting leave the cache as it is.
MuteReturns(c) ==
    /\ call[c].phase = "acked"
    /\ call[c].op \in {"mute", "except", "unmute", "unexcept"}
    /\ Finish(c)
    /\ UNCHANGED viewVars

-----------------------------------------------------------------------------
App ==
    \/ \E a \in Alarms : AlarmFires(a) \/ AppArchives(a) \/ AppDeletes(a)
    \/ \E s \in Silences : \/ \E a \in Alarms \cup {NoAlarm} : AppMutes(s, a)
                           \/ AppUnmutes(s)

Refresh == SendPoll \/ BoxAnswersPoll \/ PollFails \/ PublishPoll

Begin(c) ==
    \/ \E a \in Alarms :
          \/ \E op \in {"archive", "delete"} : ArchiveOrDelete(c, op, a)
          \/ \E allow \in BOOLEAN : MuteListed(c, a, allow)
          \/ MuteUnlisted(c, a)
          \/ UnmuteAlarm(c, a)
    \/ \E op \in {"archiveAll", "deleteActive", "deleteArchived"} : ArchiveOrDeleteSet(c, op)
    \/ MuteTarget(c)
    \/ \E s \in Silences : UnmuteSilence(c, s)

Deliver(c) ==
    \/ BoxFindsArchived(c)
    \/ BoxMovesAlarms(c)
    \/ \E s \in Silences : BoxMutes(c, s)
    \/ BoxUnmutes(c)
    \/ RequestFails(c)

Return(c) ==
    \/ ArchiveReturns(c)
    \/ DeleteReturns(c)
    \/ ArchiveAllReturns(c)
    \/ DeleteActiveReturns(c)
    \/ DeleteArchivedReturns(c)
    \/ MuteReturns(c)

Next == App \/ Refresh \/ \E c \in Calls : Begin(c) \/ Deliver(c) \/ Return(c)

Spec == Init /\ [][Next]_vars

-----------------------------------------------------------------------------
(* Properties.                                                             *)

Phases == {"new", "lookup", "sent", "acked", "done", "failed", "notFound"}
Ops == {"none", "mute", "except", "unmute", "unexcept"} \cup Archives \cup Deletes

\* Types of the alarms on the box, of both cached views and of what is under way.
TypeOK ==
    /\ status \in [Alarms -> {"absent", "active", "archived", "deleted"}]
    /\ silences \in SilenceMaps
    /\ appSteps \in 0..MaxAppSteps
    /\ manager \in View
    /\ data \in View
    /\ poll \in [phase : {"idle", "sent", "answered"}, answer : View, known : SUBSET Alarms]
    /\ call \in [Calls -> [phase : Phases, op : Ops, alarm : Alarms \cup {NoAlarm},
                           silence : Silences \cup {NoSilence}]]
    /\ known \subseteq Alarms
    /\ settled \subseteq Calls

\* "Both views of an inventory are republished together": the alarm manager and
\* the coordinator's snapshot always tell the same alarms, counts and silences.
ViewsAgree == manager = data

\* The adjusted count never falls below the number of alarms still listed, so the
\* sensor's state and its own attributes do not contradict each other.
ListedAreCounted == Cardinality(manager.alarms) <= manager.active

\* active_category_counts_complete.
CountsComplete == manager.active = Cardinality(manager.alarms)

\* No false completeness: while the manager says that its capped list is complete,
\* no alarm is missing from it that was active when the box answered and still is,
\* whatever single archives and deletes were applied or lost since.
CompleteMeansAll ==
    CountsComplete => \A a \in known : status[a] = "active" => a \in manager.alarms

\* An alarm that an undisturbed call archived or deleted is not listed again.
RemovedStaysRemoved == \A c \in settled : call[c].alarm \notin manager.alarms

-----------------------------------------------------------------------------
(* The strengthenings that make the safety invariants inductive.           *)

Gone(a) == status[a] \in {"archived", "deleted"}

\* A list as long as its count held every alarm that was active at its answer.
CompleteInv == CountsComplete => \A a \in known : a \in manager.alarms \/ Gone(a)

\* The same of an answer that was not published yet.
AnswerInv ==
    poll.phase = "answered" =>
        /\ Cardinality(poll.answer.alarms) <= poll.answer.active
        /\ poll.answer.active = Cardinality(poll.answer.alarms)
              => poll.known \subseteq poll.answer.alarms

\* A call names an alarm that has fired; what it archived or deleted is gone.
CallInv ==
    \A c \in Calls :
        /\ call[c].alarm # NoAlarm => status[call[c].alarm] # "absent"
        /\ call[c].op \in {"archive", "delete"} =>
              /\ call[c].alarm # NoAlarm
              /\ call[c].phase = "acked" => Gone(call[c].alarm)

\* Nothing under way contradicts a settled call.
SettledInv ==
    \A c \in settled :
        /\ call[c].phase = "done"
        /\ call[c].alarm # NoAlarm
        /\ Gone(call[c].alarm)
        /\ poll.phase = "answered" => call[c].alarm \notin poll.answer.alarms

\* The inductive invariant.
IInv ==
    /\ TypeOK
    /\ ViewsAgree
    /\ ListedAreCounted
    /\ CompleteInv
    /\ AnswerInv
    /\ CallInv
    /\ SettledInv
    /\ RemovedStaysRemoved
=============================================================================
