---------------------------- MODULE ReportsProofs ----------------------------
(***************************************************************************)
(* What Reports guarantees for every value of its constants: its types;    *)
(* that a log read page by page, while records come and go, is read as     *)
(* LogRead promises; and that every answer fits its question.              *)
(*                                                                         *)
(* First the way of a question: what a plan of reads holds, what reading   *)
(* on leaves of it, what a page adds to what was read.  Then what the      *)
(* answers rest on: that a target that is found is one the question named  *)
(* and that its reads are of it; that hosts, rules, users and networks of  *)
(* a view have one id each, so that lists and counts agree; that sections  *)
(* account for what was asked.  Last, that a question on its way keeps     *)
(* all of this until it is answered.                                       *)
(***************************************************************************)
EXTENDS Reports, WellFoundedInduction, SequenceTheorems, FiniteSetTheorems, TLAPS

-----------------------------------------------------------------------------
(* Plans.                                                                  *)

\* A sequence is one over its own members.
LEMMA OwnMembers ==
    ASSUME NEW S, NEW s \in Seq(S)
    PROVE  s \in Seq({s[i] : i \in DOMAIN s})
<1> DEFINE R == {s[i] : i \in DOMAIN s}
<1>1. Len(s) \in Nat /\ DOMAIN s = 1..Len(s) /\ s = [i \in 1..Len(s) |-> s[i]]
  OBVIOUS
<1>2. \A i \in 1..Len(s) : s[i] \in R
  BY <1>1
<1> HIDE DEF R
<1>3. s \in [1..Len(s) -> R]
  BY <1>1, <1>2
<1> QED BY <1>1, <1>3 DEF R

\* What short sequences are when joined.
LEMMA ShortJoins ==
    ASSUME NEW x, NEW y, NEW z
    PROVE  /\ <<>> \o <<x>> = <<x>> /\ <<x>> \o <<>> = <<x>> /\ <<x, y>> \o <<>> = <<x, y>>
           /\ <<x>> \o <<y>> = <<x, y>>
           /\ <<x, y>> \o <<z>> = <<x, y, z>> /\ <<x>> \o <<y, z>> = <<x, y, z>>
<1> DEFINE S == {x, y, z}
<1>1. /\ <<x>> \in Seq(S) /\ <<y>> \in Seq(S) /\ <<z>> \in Seq(S)
      /\ <<x, y>> \in Seq(S) /\ <<y, z>> \in Seq(S) /\ <<x, y, z>> \in Seq(S)
  OBVIOUS
<1>2. <<x>> \o <<y>> = <<x, y>>
  <2>1. /\ <<x>> \o <<y>> \in Seq(S) /\ Len(<<x>> \o <<y>>) = 2
        /\ (<<x>> \o <<y>>)[1] = x /\ (<<x>> \o <<y>>)[2] = y
    BY <1>1, ConcatProperties
  <2>2. \A i \in 1..2 : (<<x>> \o <<y>>)[i] = <<x, y>>[i]
    BY <2>1
  <2> QED BY <1>1, <2>1, <2>2, SeqEqual
<1>3. <<x, y>> \o <<z>> = <<x, y, z>>
  <2>1. /\ <<x, y>> \o <<z>> \in Seq(S) /\ Len(<<x, y>> \o <<z>>) = 3
        /\ (<<x, y>> \o <<z>>)[1] = x /\ (<<x, y>> \o <<z>>)[2] = y
        /\ (<<x, y>> \o <<z>>)[3] = z
    BY <1>1, ConcatProperties
  <2>2. \A i \in 1..3 : (<<x, y>> \o <<z>>)[i] = <<x, y, z>>[i]
    BY <2>1
  <2> QED BY <1>1, <2>1, <2>2, SeqEqual
<1>4. <<x>> \o <<y, z>> = <<x, y, z>>
  <2>1. /\ <<x>> \o <<y, z>> \in Seq(S) /\ Len(<<x>> \o <<y, z>>) = 3
        /\ (<<x>> \o <<y, z>>)[1] = x /\ (<<x>> \o <<y, z>>)[2] = y
        /\ (<<x>> \o <<y, z>>)[3] = z
    BY <1>1, ConcatProperties
  <2>2. \A i \in 1..3 : (<<x>> \o <<y, z>>)[i] = <<x, y, z>>[i]
    BY <2>1
  <2> QED BY <1>1, <2>1, <2>2, SeqEqual
<1> QED BY <1>1, <1>2, <1>3, <1>4, ConcatEmptySeq

\* Plans of up to three different reads.
LEMMA ShortPlans ==
    ASSUME NEW got, DOMAIN got = {}, NEW d1, NEW d2, NEW d3, NEW o1, NEW o2, NEW o3,
           d1 # d2, d2 # d3, d1 # d3
    PROVE  /\ Planned(<<>>, got)
           /\ Planned(<<Read(d1, o1)>>, got)
           /\ Planned(<<Read(d1, o1), Read(d2, o2)>>, got)
           /\ Planned(<<Read(d1, o1), Read(d2, o2), Read(d3, o3)>>, got)
<1>1. Planned(<<>>, got)
  <2>1. <<>> \in Seq({})
    OBVIOUS
  <2> QED BY <2>1, OwnMembers DEF Planned
<1>2. Planned(<<Read(d1, o1)>>, got)
  <2> DEFINE s == <<Read(d1, o1)>>
  <2>1. s \in Seq({Read(d1, o1)})
    OBVIOUS
  <2>2. DOMAIN s = {1} /\ s[1].do = d1
    BY DEF Read
  <2> QED BY <2>1, <2>2, OwnMembers DEF Planned
<1>3. Planned(<<Read(d1, o1), Read(d2, o2)>>, got)
  <2> DEFINE s == <<Read(d1, o1), Read(d2, o2)>>
  <2>1. s \in Seq({Read(d1, o1), Read(d2, o2)})
    OBVIOUS
  <2>2. DOMAIN s = {1, 2} /\ s[1].do = d1 /\ s[2].do = d2
    BY DEF Read
  <2> QED BY <2>1, <2>2, OwnMembers DEF Planned
<1>4. Planned(<<Read(d1, o1), Read(d2, o2), Read(d3, o3)>>, got)
  <2> DEFINE s == <<Read(d1, o1), Read(d2, o2), Read(d3, o3)>>
  <2>1. s \in Seq({Read(d1, o1), Read(d2, o2), Read(d3, o3)})
    OBVIOUS
  <2>2. DOMAIN s = {1, 2, 3} /\ s[1].do = d1 /\ s[2].do = d2 /\ s[3].do = d3
    BY DEF Read
  <2> QED BY <2>1, <2>2, OwnMembers DEF Planned
<1> QED BY <1>1, <1>2, <1>3, <1>4

\* What an alarm report may read, in this order.
LEMMA AlarmPlans ==
    ASSUME NEW data
    PROVE  LET ra == Read("alarms", None)
               rb == Read("archived_alarms", None)
               rc == Read("alarm_details", None)
           IN  AlarmsReads(data) \in
                   {<<>>, <<ra>>, <<rb>>, <<rc>>, <<ra, rb>>, <<ra, rc>>, <<rb, rc>>,
                    <<ra, rb, rc>>}
<1> DEFINE a == <<Read("alarms", None)>>
           b == <<Read("archived_alarms", None)>>
           c == <<Read("alarm_details", None)>>
           ra == Read("alarms", None)
           rb == Read("archived_alarms", None)
           rc == Read("alarm_details", None)
<1> DEFINE A == Refreshes(data)
           B == Value(data, "include_archived", FALSE)
           C == Detailed(data, "summary")
<1>1. AlarmsReads(data) = ((IF A THEN a ELSE <<>>) \o (IF B THEN b ELSE <<>>))
                          \o (IF C THEN c ELSE <<>>)
  BY DEF AlarmsReads
<1> HIDE DEF A, B, C, ra, rb, rc
<1>2. \A x, y : <<x>> \o <<y>> = <<x, y>>
  BY ShortJoins
<1>3. \A x, y, z : <<x, y>> \o <<z>> = <<x, y, z>>
  BY ShortJoins
<1>4. \A x, y : /\ <<>> \o <<x>> = <<x>> /\ <<x>> \o <<>> = <<x>>
               /\ <<x, y>> \o <<>> = <<x, y>>
  BY ShortJoins
<1>5. <<>> \o <<>> = <<>>
  OBVIOUS
<1> DEFINE s == (IF A THEN <<ra>> ELSE <<>>) \o (IF B THEN <<rb>> ELSE <<>>)
<1>6. s \in {<<>>, <<ra>>, <<rb>>, <<ra, rb>>}
  <2>1. CASE A /\ B
    BY <2>1, <1>2
  <2>2. CASE A /\ ~B
    BY <2>2, <1>4
  <2>3. CASE ~A /\ B
    BY <2>3, <1>4
  <2>4. CASE ~A /\ ~B
    BY <2>4, <1>5
  <2> QED BY <2>1, <2>2, <2>3, <2>4
<1>7. AlarmsReads(data) = s \o (IF C THEN <<rc>> ELSE <<>>)
  BY <1>1 DEF ra, rb, rc
<1> HIDE DEF s, a, b, c
<1> DEFINE plans == {<<>>, <<ra>>, <<rb>>, <<rc>>, <<ra, rb>>, <<ra, rc>>, <<rb, rc>>,
                     <<ra, rb, rc>>}
<1> SUFFICES AlarmsReads(data) \in plans
  BY DEF ra, rb, rc
<1>8. CASE C
  <2>1. AlarmsReads(data) = s \o <<rc>>
    BY <1>7, <1>8
  <2>2. s = <<>> \/ s = <<ra>> \/ s = <<rb>> \/ s = <<ra, rb>>
    BY <1>6
  <2>3. s = <<>> => AlarmsReads(data) = <<rc>>
    BY <2>1, <1>4
  <2>4. s = <<ra>> => AlarmsReads(data) = <<ra, rc>>
    BY <2>1, <1>2
  <2>5. s = <<rb>> => AlarmsReads(data) = <<rb, rc>>
    BY <2>1, <1>2
  <2>6. s = <<ra, rb>> => AlarmsReads(data) = <<ra, rb, rc>>
    BY <2>1, <1>3
  <2> QED BY <2>2, <2>3, <2>4, <2>5, <2>6
<1>9. CASE ~C
  <2>1. AlarmsReads(data) = s \o <<>>
    BY <1>7, <1>9
  <2>2. s \o <<>> = s
    BY <1>4, <1>5, <1>6
  <2> QED BY <1>6, <2>1, <2>2
<1> QED BY <1>8, <1>9

\* No service asks the box the same read twice.
LEMMA ReadsOfPlanned ==
    ASSUME NEW service, NEW data, NEW target, NEW got, DOMAIN got = {}
    PROVE  Planned(ReadsOf(service, data, target), got)
<1> DEFINE scope == FlowScope(target)
<1>1. Planned(FlowReportReads(data, target), got)
  <2>1. CASE Detailed(data, "summary")
    <3>1. FlowReportReads(data, target) =
              <<Read("rollup", scope)>> \o <<Read("blocks", scope), Read("flows", scope)>>
      BY <2>1 DEF FlowReportReads
    <3>2. \A a, b, c : <<a>> \o <<b, c>> = <<a, b, c>>
      BY ShortJoins
    <3>3. FlowReportReads(data, target) =
              <<Read("rollup", scope), Read("blocks", scope), Read("flows", scope)>>
      BY <3>1, <3>2
    <3> QED BY <3>3, ShortPlans, "rollup" # "blocks", "blocks" # "flows", "rollup" # "flows"
  <2>2. CASE ~Detailed(data, "summary")
    <3>1. FlowReportReads(data, target) = <<Read("rollup", scope)>>
      BY <2>2 DEF FlowReportReads
    <3> QED BY <3>1, ShortPlans, "rollup" # "blocks", "blocks" # "flows", "rollup" # "flows"
  <2> QED BY <2>1, <2>2
<1>2. Planned(WanUsageReads(data), got)
  <2>1. WanUsageReads(data) \in {<<>>, <<Read("wan_usage", WanReads(data))>>}
    BY DEF WanUsageReads
  <2> QED BY <2>1, ShortPlans, "wan_usage" # "blocks", "blocks" # "flows", "wan_usage" # "flows"
<1>3. /\ Planned(<<Read("usage", <<target.kind, target.found>>)>>, got)
      /\ Planned(<<Read("events", target.found)>>, got)
      /\ Planned(<<Read("interface", target.found)>>, got)
      /\ Planned(<<Read("live", target.found)>>, got)
      /\ Planned(<<>>, got)
  BY ShortPlans, "usage" # "blocks", "events" # "blocks", "interface" # "blocks",
     "live" # "blocks", "blocks" # "flows", "usage" # "flows", "events" # "flows",
     "interface" # "flows", "live" # "flows"
<1>4. Planned(AlarmsReads(data), got)
  <2> DEFINE a == <<Read("alarms", None)>>
             b == <<Read("archived_alarms", None)>>
             c == <<Read("alarm_details", None)>>
             ra == Read("alarms", None)
             rb == Read("archived_alarms", None)
             rc == Read("alarm_details", None)
  <2>1. AlarmsReads(data) \in
            {<<>>, <<ra>>, <<rb>>, <<rc>>, <<ra, rb>>, <<ra, rc>>, <<rb, rc>>, <<ra, rb, rc>>}
    BY AlarmPlans
  <2>2. /\ Planned(<<>>, got) /\ Planned(<<ra>>, got) /\ Planned(<<rb>>, got)
        /\ Planned(<<rc>>, got) /\ Planned(<<ra, rb>>, got) /\ Planned(<<ra, rc>>, got)
        /\ Planned(<<rb, rc>>, got) /\ Planned(<<ra, rb, rc>>, got)
    <3>1. /\ "alarms" # "archived_alarms" /\ "alarms" # "alarm_details"
          /\ "archived_alarms" # "alarm_details"
      OBVIOUS
    <3>2. /\ Planned(<<>>, got) /\ Planned(<<ra>>, got) /\ Planned(<<ra, rb>>, got)
          /\ Planned(<<ra, rb, rc>>, got)
      BY <3>1, ShortPlans
    <3>3. Planned(<<rb>>, got) /\ Planned(<<rb, rc>>, got)
      BY <3>1, ShortPlans
    <3>4. Planned(<<rc>>, got)
      BY <3>1, ShortPlans
    <3>5. Planned(<<ra, rc>>, got)
      BY <3>1, ShortPlans
    <3> QED BY <3>2, <3>3, <3>4, <3>5
  <2> HIDE DEF ra, rb, rc
  <2> QED BY <2>1, <2>2
<1> QED BY <1>1, <1>2, <1>3, <1>4
        DEF ReadsOf, TimeUsageReads, WanEventsReads, InterfaceReads, LiveReads

\* What is left of a plan after a read is a plan, and the read is done.
LEMMA ReadsLeft ==
    ASSUME NEW todo, NEW got, NEW marks, Planned(todo, got), todo # <<>>
    PROVE  /\ Planned(Tail(todo), Noted(got, Head(todo).do, marks))
           /\ Planned(todo, got)
           /\ Head(todo).do \notin DOMAIN got
<1> DEFINE S == {todo[i] : i \in DOMAIN todo}
           rest == Tail(todo)
           then == Noted(got, Head(todo).do, marks)
<1>1. todo \in Seq(S) /\ Head(todo) = todo[1] /\ Len(todo) \in Nat /\ Len(todo) > 0
  <2>1. todo \in Seq(S)
    BY DEF Planned
  <2> HIDE DEF S
  <2> QED BY <2>1
<1> HIDE DEF S
<1>2. /\ rest \in Seq(S) /\ Len(rest) = Len(todo) - 1
      /\ \A i \in 1..Len(rest) : rest[i] = todo[i + 1]
  BY <1>1, HeadTailProperties
<1>3. DOMAIN todo = 1..Len(todo) /\ DOMAIN rest = 1..Len(rest)
  BY <1>1, <1>2
<1>4. DOMAIN then = DOMAIN got \cup {Head(todo).do}
  BY DEF Noted
<1> HIDE DEF rest, then
<1>5. \A i \in DOMAIN rest : i + 1 \in DOMAIN todo /\ rest[i] = todo[i + 1] /\ i + 1 # 1
  BY <1>1, <1>2, <1>3
<1>6. 1 \in DOMAIN todo
  BY <1>1, <1>3
<1>7. ASSUME NEW i \in DOMAIN rest
      PROVE  /\ rest[i].do \notin DOMAIN then
             /\ \A j \in DOMAIN rest : rest[i].do = rest[j].do => i = j
  <2>1. i \in Nat /\ \A j \in DOMAIN rest : j \in Nat
    BY <1>2, <1>3
  <2> QED BY <1>1, <1>4, <1>5, <1>6, <2>1 DEF Planned
<1>8. rest \in Seq({rest[i] : i \in DOMAIN rest})
  BY <1>2, OwnMembers
<1>9. Planned(rest, then)
  BY <1>7, <1>8 DEF Planned
<1> QED BY <1>1, <1>6, <1>9 DEF Planned, rest, then

-----------------------------------------------------------------------------
(* Questions.                                                              *)

\* A question that may go on to its next read.
Readable(c) ==
    /\ Shaped(c) /\ Planned(c.todo, c.got) /\ c.walk = None
    /\ Service(c.q) = "get_alarms" => c.target = Found(None)

\* The answer is one of the three kinds, or there is none yet.
Answered == last' = last \/ last'.pc \in {"refused", "failed", "replied"}

\* A question that is over: the answer is one of the three kinds.
LEMMA EndsAnswered ==
    ASSUME NEW q, NEW why, NEW c,
           Ends(Refused(q, why)) \/ Ends(Failed(q, why)) \/ Ends(Reply(c))
    PROVE  call' = Idle /\ Answered
<1>1. /\ Refused(q, why).pc = "refused" /\ Failed(q, why).pc = "failed"
      /\ Reply(c).pc = "replied"
  BY DEF Refused, Failed, Reply
<1> QED BY <1>1 DEF Ends, Answered

\* Of a question, a change of some parts keeps the others.
LEMMA PcKept ==
    ASSUME NEW c, NEW v, NEW d, Shaped(c), d = [c EXCEPT !.pc = v]
    PROVE  /\ Shaped(d) /\ d.pc = v /\ d.q = c.q /\ d.target = c.target
           /\ d.todo = c.todo /\ d.got = c.got /\ d.walk = c.walk
BY DEF Shaped

\* So does a change of the zone.
LEMMA ZonedKept ==
    ASSUME NEW c, NEW v, NEW d, Shaped(c), d = [c EXCEPT !.zoned = v]
    PROVE  /\ Shaped(d) /\ d.zoned = v /\ d.q = c.q /\ d.target = c.target
           /\ d.todo = c.todo /\ d.got = c.got /\ d.pc = c.pc /\ d.walk = c.walk
BY DEF Shaped

\* So does a change of the rows.
LEMMA RowsKept ==
    ASSUME NEW c, NEW v, NEW d, Shaped(c), d = [c EXCEPT !.rows = v]
    PROVE  /\ Shaped(d) /\ d.rows = v /\ d.q = c.q /\ d.target = c.target
           /\ d.todo = c.todo /\ d.got = c.got /\ d.pc = c.pc /\ d.walk = c.walk
BY DEF Shaped

\* So does a change of the sample.
LEMMA SampleKept ==
    ASSUME NEW c, NEW v, NEW d, Shaped(c), d = [c EXCEPT !.sample = v]
    PROVE  /\ Shaped(d) /\ d.sample = v /\ d.q = c.q /\ d.target = c.target
           /\ d.todo = c.todo /\ d.got = c.got /\ d.pc = c.pc /\ d.walk = c.walk
BY DEF Shaped

\* So does a change of the walk.
LEMMA WalkKept ==
    ASSUME NEW c, NEW v, NEW d, Shaped(c), d = [c EXCEPT !.walk = v]
    PROVE  /\ Shaped(d) /\ d.walk = v /\ d.q = c.q /\ d.target = c.target
           /\ d.todo = c.todo /\ d.got = c.got /\ d.pc = c.pc
BY DEF Shaped

\* Going on with a question ends it, or leaves it sound and not walking a log.
LEMMA ProceedSound ==
    ASSUME NEW c, Readable(c), Proceed(c)
    PROVE  /\ call' = Idle \/ (Sound(call') /\ call'.pc \in {"reading", "zone"})
           /\ Answered
<1>1. CASE c.todo # <<>> /\ Waits([c EXCEPT !.pc = "reading"])
  <2> DEFINE d == [c EXCEPT !.pc = "reading"]
  <2>1. /\ Shaped(d) /\ d.pc = "reading" /\ d.q = c.q /\ d.target = c.target
        /\ d.todo = c.todo /\ d.got = c.got /\ d.walk = c.walk
    BY PcKept DEF Readable
  <2>2. call' = d /\ last' = last
    BY <1>1 DEF Waits
  <2> HIDE DEF d
  <2>3. Sound(d)
    BY <1>1, <2>1 DEF Readable, Sound, Unread
  <2> QED BY <2>1, <2>2, <2>3 DEF Answered
<1>2. CASE /\ c.todo = <<>> /\ Service(c.q) = "get_alarms"
           /\ Waits([c EXCEPT !.pc = "zone"])
  <2> DEFINE d == [c EXCEPT !.pc = "zone"]
  <2>1. /\ Shaped(d) /\ d.pc = "zone" /\ d.q = c.q /\ d.target = c.target
        /\ d.todo = c.todo /\ d.got = c.got /\ d.walk = c.walk
    BY PcKept DEF Readable
  <2>2. call' = d /\ last' = last
    BY <1>2 DEF Waits
  <2> HIDE DEF d
  <2>3. Sound(d)
    BY <1>2, <2>1 DEF Readable, Sound, Unread
  <2> QED BY <2>1, <2>2, <2>3 DEF Answered
<1>3. CASE Ends(Refused(c.q, "not_found")) \/ Ends(Reply(c))
  BY <1>3, EndsAnswered
<1> QED BY <1>1, <1>2, <1>3 DEF Proceed

\* So does resolving the target of one that has read nothing.
LEMMA ResolveSound ==
    ASSUME NEW c, Shaped(c), DOMAIN c.got = {}, c.walk = None, Resolve(c)
    PROVE  /\ call' = Idle \/ (Sound(call') /\ call'.pc \in {"reading", "zone"})
           /\ Answered
<1> DEFINE service == Service(c.q)
           data == Data(c.q)
           target == Target(service, data, Views[seen])
           found == [c EXCEPT !.looked = seen, !.target = target,
                              !.todo = ReadsOf(service, data, target),
                              !.rows = RowsOf(service, data, target, Views[seen])]
<1>1. /\ Shaped(found) /\ found.target = target /\ found.got = c.got
      /\ found.todo = ReadsOf(service, data, target)
      /\ found.walk = None /\ found.q = c.q
  <2> DEFINE reads == ReadsOf(service, data, target)
             rows == RowsOf(service, data, target, Views[seen])
  <2>0. found = [c EXCEPT !.looked = seen, !.target = target, !.todo = reads, !.rows = rows]
    OBVIOUS
  <2> HIDE DEF target, data, service, reads, rows, found
  <2>1. found = [pc |-> c.pc, q |-> c.q, looked |-> seen, zoned |-> c.zoned,
                 target |-> target, todo |-> reads, asked |-> c.asked, got |-> c.got,
                 rows |-> rows, sample |-> c.sample, walk |-> c.walk]
    BY <2>0 DEF Shaped
  <2> QED BY <2>1 DEF Shaped, reads
<1>2. Resolved(target) /\ service = "get_alarms" => target = Found(None)
  <2>1. ASSUME service = "get_alarms", Resolved(target) PROVE target = Found(None)
    <3>1. target = AlarmsTarget(data)
      BY <2>1 DEF Target
    <3>2. ~Resolved(Error("archived_requires_refresh"))
      BY DEF Resolved, Error
    <3> QED BY <2>1, <3>1, <3>2 DEF AlarmsTarget
  <2> QED BY <2>1
<1>3. \/ Ends(Refused(c.q, target.error))
      \/ /\ Resolved(target) /\ ZoneFirst(service)
         /\ Waits([found EXCEPT !.pc = "zone"])
      \/ Resolved(target) /\ Proceed(found)
  BY DEF Resolve, TakesTarget, Targeted
<1>4. Planned(found.todo, found.got)
  BY <1>1, ReadsOfPlanned
<1>5. Service(found.q) = service
  BY <1>1
<1> HIDE DEF target, data, service, found
<1>6. CASE Ends(Refused(c.q, target.error))
  BY <1>6, EndsAnswered
<1>7. CASE /\ Resolved(target) /\ ZoneFirst(service)
           /\ Waits([found EXCEPT !.pc = "zone"])
  <2> DEFINE d == [found EXCEPT !.pc = "zone"]
  <2>1. /\ Shaped(d) /\ d.pc = "zone" /\ d.q = found.q /\ d.target = found.target
        /\ d.todo = found.todo /\ d.got = found.got /\ d.walk = found.walk
    BY <1>1, PcKept
  <2>2. call' = d /\ last' = last
    BY <1>7 DEF Waits
  <2> HIDE DEF d
  <2>3. Sound(d)
    BY <1>1, <1>2, <1>4, <1>5, <1>7, <2>1 DEF Sound, Unread
  <2> QED BY <2>1, <2>2, <2>3 DEF Answered
<1>8. CASE Resolved(target) /\ Proceed(found)
  <2>1. Readable(found)
    BY <1>1, <1>2, <1>4, <1>5, <1>8 DEF Readable
  <2> QED BY <1>8, <2>1, ProceedSound
<1> QED BY <1>3, <1>6, <1>7, <1>8

\* What a read brings leaves the question readable.
LEMMA GotReadable ==
    ASSUME NEW marks, Sound(call), call.todo # <<>>, call.pc # "refreshing"
    PROVE  LET d == Got(marks) IN
           /\ Shaped(d) /\ Planned(d.todo, d.got) /\ d.q = call.q
           /\ d.target = call.target /\ d.walk = call.walk
           /\ Service(d.q) = "get_alarms" => d.target = Found(None)
<1> DEFINE d == Got(marks)
<1>1. /\ Shaped(d) /\ d.q = call.q /\ d.target = call.target /\ d.walk = call.walk
      /\ d.todo = Tail(call.todo) /\ d.got = Noted(call.got, Reading, marks)
  <2> DEFINE left == Tail(call.todo)
             then == Noted(call.got, Reading, marks)
             all == call.asked \cup {Head(call.todo)}
  <2>1. d = [call EXCEPT !.got = then, !.todo = left, !.asked = all]
    BY DEF Got
  <2> HIDE DEF left, then, all, d
  <2>2. d = [pc |-> call.pc, q |-> call.q, looked |-> call.looked, zoned |-> call.zoned,
             target |-> call.target, todo |-> left, asked |-> all, got |-> then,
             rows |-> call.rows, sample |-> call.sample, walk |-> call.walk]
    BY <2>1 DEF Sound, Shaped
  <2> QED BY <2>2 DEF Shaped, left, then
<1>2. Planned(d.todo, d.got)
  BY <1>1, ReadsLeft DEF Sound, Reading
<1> HIDE DEF d
<1>3. Service(d.q) = "get_alarms" => d.target = Found(None)
  BY <1>1 DEF Sound
<1> QED BY <1>1, <1>2, <1>3 DEF d

-----------------------------------------------------------------------------
(* Steps.                                                                  *)

Walks == [cursor : Nat \cup {None}, rows : SUBSET Records,
          kept : SUBSET Records, met : SUBSET Records]

\* Of a sound question, what TypeOK says.
LEMMA SoundTyped ==
    ASSUME NEW c, Sound(c), c.pc = "walking" => c.walk \in Walks
    PROVE  /\ c.pc \in {"idle", "refreshing", "zone", "reading", "walking"}
           /\ c.pc # "idle"
           /\ c.pc \in {"reading", "walking"} =>
                 c.todo # <<>> /\ Head(c.todo).do \notin DOMAIN c.got
           /\ c.walk # None <=> c.pc = "walking"
<1>1. None \notin Walks
  BY NoneAssumption DEF Walks
<1>2. c.walk # None <=> c.pc = "walking"
  BY <1>1 DEF Sound
<1>3. c.todo # <<>> => Head(c.todo).do \notin DOMAIN c.got
  BY ReadsLeft DEF Sound
<1> QED BY <1>2, <1>3 DEF Sound

\* A step outside walks: the question ends or goes on, or there is none.
OffWalk ==
    /\ call.pc # "walking"
    /\ call' = Idle \/ (Sound(call') /\ call'.pc # "walking")
    /\ Answered
    /\ UNCHANGED <<outside, records>>

\* Such a step keeps the invariant, and no log is read.
LEMMA OffWalkKeeps ==
    ASSUME IInv, OffWalk
    PROVE  IInv' /\ UNCHANGED Log!vars
<1>1. UNCHANGED <<mode, box, seen, poll, log, logMoves, records>>
  BY DEF OffWalk, outside
<1>2. call'.pc # "walking" /\ CallInv'
  BY DEF OffWalk, CallInv, Idle
<1>3. WalkInv'
  BY <1>2 DEF WalkInv
<1>4. last'.pc \in {"idle", "refused", "failed", "replied"}
  BY DEF OffWalk, Answered, IInv, TypeOK
<1>5. TypeOK'
  <2>1. /\ call'.pc \in {"idle", "refreshing", "zone", "reading", "walking"}
        /\ call'.pc \in {"reading", "walking"} =>
              call'.todo # <<>> /\ Reading' \notin DOMAIN call'.got
        /\ call'.pc # "idle" => (call'.walk # None <=> call'.pc = "walking")
    <3>1. CASE call' = Idle
      BY <3>1 DEF Idle
    <3>2. CASE Sound(call')
      BY <1>2, <3>2, SoundTyped DEF Reading
    <3> QED BY <3>1, <3>2 DEF OffWalk
  <2> QED BY <1>1, <1>4, <2>1 DEF TypeOK, IInv
<1>6. UNCHANGED Log!vars
  BY <1>1, <1>2 DEF OffWalk, Log!vars
<1> QED BY <1>2, <1>3, <1>5, <1>6 DEF IInv

\* A question begins.
LEMMA BeginsOffWalk ==
    ASSUME NEW q, CallNotTaken(q) \/ CallRefreshes(q) \/ CallLoadsZone(q) \/ CallResolves(q)
    PROVE  OffWalk
<1>1. call = Idle /\ call.pc # "walking" /\ UNCHANGED <<outside, records>>
  BY DEF CallNotTaken, CallRefreshes, CallLoadsZone, CallResolves, Begin, Idle
<1>2. ASSUME NEW pc
      PROVE  LET c == Under(pc, q) IN
             /\ Shaped(c) /\ c.pc = pc /\ c.q = q /\ c.todo = <<>>
             /\ c.walk = None /\ DOMAIN c.got = {} /\ Planned(c.todo, c.got)
  <2> DEFINE c == Under(pc, q)
  <2>1. Shaped(c) /\ c.pc = pc /\ c.q = q /\ c.todo = <<>> /\ c.walk = None
    BY DEF Under, Shaped
  <2>2. DOMAIN c.got = {}
    BY DEF Under
  <2> HIDE DEF c
  <2>3. Planned(c.todo, c.got)
    BY <2>1, <2>2, ShortPlans, "rollup" # "blocks", "blocks" # "flows", "rollup" # "flows"
  <2> QED BY <2>1, <2>2, <2>3 DEF c
<1>3. CASE CallNotTaken(q)
  BY <1>1, <1>3, EndsAnswered DEF CallNotTaken, OffWalk
<1>4. CASE CallRefreshes(q)
  <2>1. call' = Under("refreshing", q) /\ last' = last
    BY <1>4 DEF CallRefreshes, Waits
  <2>2. Sound(call') /\ call'.pc = "refreshing"
    BY <1>2, <2>1 DEF Sound
  <2> QED BY <1>1, <2>1, <2>2 DEF OffWalk, Answered
<1>5. CASE CallLoadsZone(q)
  <2>1. call' = Under("zone", q) /\ last' = last /\ Service(q) = "get_time_usage"
    BY <1>5 DEF CallLoadsZone, Waits
  <2>2. Sound(call') /\ call'.pc = "zone"
    BY <1>2, <2>1 DEF Sound
  <2> QED BY <1>1, <2>1, <2>2 DEF OffWalk, Answered
<1>6. CASE CallResolves(q)
  <2>1. Resolve(Under("resolving", q))
    BY <1>6 DEF CallResolves
  <2>2. /\ call' = Idle \/ (Sound(call') /\ call'.pc \in {"reading", "zone"})
        /\ Answered
    BY <1>2, <2>1, ResolveSound
  <2> QED BY <1>1, <2>2 DEF OffWalk
<1> QED BY <1>3, <1>4, <1>5, <1>6

\* A refresh or a zone returns.
LEMMA ReturnsOffWalk ==
    ASSUME IInv, RefreshReturns \/ ZoneReturns
    PROVE  OffWalk
<1>1. Sound(call) /\ call.pc \in {"refreshing", "zone"} /\ UNCHANGED <<outside, records>>
  BY DEF IInv, CallInv, RefreshReturns, ZoneReturns, Idle
<1>2. call.walk = None /\ Shaped(call) /\ Planned(call.todo, call.got)
  BY <1>1 DEF Sound
<1>3. CASE RefreshReturns
  <2>1. Resolve(call) /\ DOMAIN call.got = {}
    BY <1>1, <1>3 DEF RefreshReturns, Sound, Unread
  <2>2. /\ call' = Idle \/ (Sound(call') /\ call'.pc \in {"reading", "zone"})
        /\ Answered
    BY <1>2, <2>1, ResolveSound
  <2> QED BY <1>1, <2>2 DEF OffWalk
<1>4. CASE ZoneReturns
  <2> DEFINE zoned == [call EXCEPT !.zoned = TRUE]
  <2>1. /\ Shaped(zoned) /\ zoned.q = call.q /\ zoned.target = call.target
        /\ zoned.todo = call.todo /\ zoned.got = call.got /\ zoned.walk = None
    BY <1>2, ZonedKept
  <2>2. /\ call.pc = "zone"
        /\ IF call.target = None THEN Resolve(zoned) ELSE Proceed(zoned)
    BY <1>4 DEF ZoneReturns
  <2> HIDE DEF zoned
  <2>3. Service(call.q) = "get_alarms" => call.target = Found(None)
    BY <1>1, <2>2 DEF Sound
  <2>4. CASE call.target = None
    <3>1. Found(None) # None
      BY NoneAssumption DEF Found
    <3>2. DOMAIN zoned.got = {}
      BY <1>1, <2>1, <2>2, <2>3, <2>4, <3>1 DEF Sound, Unread
    <3>3. /\ call' = Idle \/ (Sound(call') /\ call'.pc \in {"reading", "zone"})
          /\ Answered
      BY <2>1, <2>2, <2>4, <3>2, ResolveSound
    <3> QED BY <1>1, <3>3 DEF OffWalk
  <2>5. CASE call.target # None
    <3>1. Readable(zoned)
      BY <1>2, <2>1, <2>3 DEF Readable
    <3>2. /\ call' = Idle \/ (Sound(call') /\ call'.pc \in {"reading", "zone"})
          /\ Answered
      BY <2>2, <2>5, <3>1, ProceedSound
    <3> QED BY <1>1, <3>2 DEF OffWalk
  <2> QED BY <2>4, <2>5
<1> QED BY <1>3, <1>4

\* A read is answered.
LEMMA ReadsOffWalk ==
    ASSUME IInv, ReadAnswered \/ LiveWarmsUp \/ LiveMissing \/ LiveReading
    PROVE  OffWalk
<1>1. Sound(call) /\ call.pc = "reading" /\ UNCHANGED <<outside, records>>
  BY DEF IInv, CallInv, ReadAnswered, LiveWarmsUp, LiveMissing, LiveReading, Idle
<1>2. call.walk = None /\ Shaped(call) /\ call.todo # <<>>
  BY <1>1 DEF Sound
<1>3. \A marks : Readable(Got(marks))
  BY <1>1, <1>2, GotReadable DEF Readable
<1>4. \A marks, v : /\ Readable([Got(marks) EXCEPT !.rows = v])
                    /\ Readable([Got(marks) EXCEPT !.sample = v])
  <2>1. ASSUME NEW marks, NEW v
        PROVE  /\ Readable([Got(marks) EXCEPT !.rows = v])
               /\ Readable([Got(marks) EXCEPT !.sample = v])
    <3> DEFINE d == Got(marks)
    <3>1. Readable(d)
      BY <1>3
    <3> HIDE DEF d
    <3>2. Readable([d EXCEPT !.rows = v])
      <4> DEFINE e == [d EXCEPT !.rows = v]
      <4>1. /\ Shaped(e) /\ e.q = d.q /\ e.target = d.target
            /\ e.todo = d.todo /\ e.got = d.got /\ e.walk = d.walk
        BY <3>1, RowsKept DEF Readable
      <4> HIDE DEF e
      <4>2. Readable(e)
        BY <3>1, <4>1 DEF Readable
      <4> QED BY <4>2 DEF e
    <3>3. Readable([d EXCEPT !.sample = v])
      <4> DEFINE e == [d EXCEPT !.sample = v]
      <4>1. /\ Shaped(e) /\ e.q = d.q /\ e.target = d.target
            /\ e.todo = d.todo /\ e.got = d.got /\ e.walk = d.walk
        BY <3>1, SampleKept DEF Readable
      <4> HIDE DEF e
      <4>2. Readable(e)
        BY <3>1, <4>1 DEF Readable
      <4> QED BY <4>2 DEF e
    <3> QED BY <3>2, <3>3 DEF d
  <2> QED BY <2>1
\* An answer that is waited for once more.
<1>5. ASSUME NEW v, Waits([call EXCEPT !.sample = v])
      PROVE  OffWalk
  <2> DEFINE e == [call EXCEPT !.sample = v]
  <2>1. /\ Shaped(e) /\ e.pc = call.pc /\ e.q = call.q /\ e.target = call.target
        /\ e.todo = call.todo /\ e.got = call.got /\ e.walk = call.walk
    BY <1>2, SampleKept
  <2>2. call' = e /\ last' = last
    BY <1>5 DEF Waits
  <2> HIDE DEF e
  <2>3. Sound(e)
    BY <1>1, <1>2, <2>1 DEF Sound, Unread
  <2> QED BY <1>1, <2>1, <2>2, <2>3 DEF OffWalk, Answered
\* One that the question goes on with.
<1>6. ASSUME NEW c, Readable(c), Proceed(c)
      PROVE  OffWalk
  BY <1>1, <1>6, ProceedSound DEF OffWalk
<1>7. CASE ReadAnswered
  <2>1. PICK marks \in MarksOf(Reading) : Proceed([Got(marks) EXCEPT !.rows = AlarmsGot])
    BY <1>7 DEF ReadAnswered
  <2> QED BY <1>4, <1>6, <2>1
<1>8. CASE LiveWarmsUp
  <2>1. Proceed(Got({"warming_up"})) \/ Waits([call EXCEPT !.sample.cold = TRUE])
    BY <1>8 DEF LiveWarmsUp
  <2>2. [call EXCEPT !.sample.cold = TRUE] =
            [call EXCEPT !.sample = [call.sample EXCEPT !.cold = TRUE]]
    OBVIOUS
  <2>3. CASE Proceed(Got({"warming_up"}))
    BY <1>3, <1>6, <2>3
  <2>4. CASE Waits([call EXCEPT !.sample.cold = TRUE])
    BY <1>5, <2>2, <2>4
  <2> QED BY <2>1, <2>3, <2>4
<1>9. CASE LiveMissing
  BY <1>3, <1>6, <1>9 DEF LiveMissing
<1>10. CASE LiveReading
  <2>1. \E v : Waits([call EXCEPT !.sample = v]) \/ Proceed([Got({}) EXCEPT !.sample = v])
    BY <1>10 DEF LiveReading
  <2> QED BY <1>4, <1>5, <1>6, <2>1
<1> QED BY <1>7, <1>8, <1>9, <1>10

\* A read fails: outside a walk nobody notices, a walk is given up.
LEMMA FailsKeeps ==
    ASSUME IInv, NEW why, ReadFails(why)
    PROVE  IInv' /\ (UNCHANGED Log!vars \/ Log!GiveUp)
<1>1. /\ call' = Idle /\ Answered /\ call.pc \in {"reading", "walking"}
      /\ records' = IF call.pc = "walking" THEN None ELSE records
      /\ UNCHANGED outside
  BY EndsAnswered DEF ReadFails
<1>2. CASE call.pc = "reading"
  <2>1. OffWalk
    BY <1>1, <1>2 DEF OffWalk
  <2> QED BY <2>1, OffWalkKeeps
<1>3. CASE call.pc = "walking"
  <2>1. /\ UNCHANGED <<mode, box, seen, poll, log, logMoves>> /\ records' = None
        /\ call'.pc = "idle"
    BY <1>1, <1>3 DEF outside, Idle
  <2>2. IInv'
    <3>1. CallInv' /\ WalkInv'
      BY <1>1, <2>1 DEF CallInv, WalkInv
    <3>2. TypeOK'
      BY <1>1, <2>1 DEF IInv, TypeOK, Answered
    <3> QED BY <3>1, <3>2 DEF IInv
  <2>3. [kind |-> Reading, kept |-> call.walk.kept, met |-> call.walk.met] # None
    <3>1. /\ Reading \in Logs /\ call.walk.kept \in SUBSET Records
          /\ call.walk.met \in SUBSET Records
      BY <1>3 DEF IInv, WalkInv
    <3> QED BY <3>1, NoneAssumption
  <2>4. Log!GiveUp
    BY <1>3, <2>1, <2>3 DEF Log!GiveUp
  <2> QED BY <2>2, <2>4
<1> QED BY <1>1, <1>2, <1>3

\* The answer is taken.
LEMMA TakenKeeps ==
    ASSUME IInv, AnswerTaken
    PROVE  IInv' /\ (UNCHANGED Log!vars \/ Log!Taken)
<1>1. /\ UNCHANGED <<mode, box, seen, poll, log, logMoves, call>>
      /\ call.pc = "idle" /\ call = Idle /\ records' = None /\ last' = Idle
  BY DEF AnswerTaken, outside, Idle
<1>2. IInv'
  <2>1. CallInv' /\ WalkInv'
    BY <1>1 DEF CallInv, WalkInv
  <2>2. TypeOK'
    BY <1>1 DEF IInv, TypeOK, Idle
  <2> QED BY <2>1, <2>2 DEF IInv
<1>3. call.pc # "walking" /\ call'.pc # "walking"
  BY <1>1
<1>4. records = None => UNCHANGED Log!vars
  BY <1>1, <1>3 DEF Log!vars
<1>5. records # None => Log!Taken
  BY <1>1, <1>3 DEF Log!Taken
<1> QED BY <1>2, <1>4, <1>5

\* The box and the polls leave the question and the logs alone.
LEMMA PollsKeep ==
    ASSUME IInv,
           \/ \E v \in Boxes : BoxMoves(v)
           \/ PollAnswered \/ PollPublished \/ PollFails
    PROVE  IInv' /\ UNCHANGED Log!vars
<1>1. /\ UNCHANGED <<mode, log, logMoves, call, records, last>>
      /\ box' \in Boxes /\ seen' \in Boxes /\ poll' \in Boxes \cup {None}
  BY DEF IInv, TypeOK, BoxMoves, PollAnswered, PollPublished, PollFails
<1>2. Reading' = Reading
  BY <1>1 DEF Reading
<1>3. TypeOK'
  BY <1>1, <1>2 DEF IInv, TypeOK
<1>4. CallInv' /\ WalkInv'
  BY <1>1, <1>2 DEF IInv, CallInv, WalkInv
<1>5. UNCHANGED Log!vars
  BY <1>1, <1>2 DEF Log!vars
<1> QED BY <1>3, <1>4, <1>5 DEF IInv

-----------------------------------------------------------------------------
(* Walks.                                                                  *)

\* A nonempty set of times has an earliest one.
LEMMA Earliest ==
    ASSUME NEW S, S \subseteq Nat, S # {}
    PROVE  \E t \in S : \A u \in S : t <= u
<1>1. PICK t \in S : \A u \in S : ~ (<<u, t>> \in OpToRel(<, Nat))
  BY NatLessThanWellFounded, WFMin
<1>2. ASSUME NEW u \in S PROVE t <= u
  <2>1. t \in Nat /\ u \in Nat
    OBVIOUS
  <2>2. ~ (u < t)
    BY <1>1, <2>1 DEF OpToRel
  <2> QED BY <2>1, <2>2
<1> QED BY <1>2

\* The time of the oldest record of a page is that of one of its records.
LEMMA OldestFacts ==
    ASSUME NEW page \in SUBSET Records, page # {}
    PROVE  /\ \E r \in page : r.ts = Oldest(page)
           /\ \A r \in page : Oldest(page) <= r.ts
           /\ Oldest(page) \in Nat
<1> DEFINE times == {r.ts : r \in page}
<1>1. times \subseteq Nat /\ times # {}
  BY RecordAssumption
<1>2. \E t \in times : \A u \in times : t <= u
  BY <1>1, Earliest
<1>3. \E t \in times : \A r \in page : t <= r.ts
  BY <1>2
<1>4. Oldest(page) \in times /\ \A r \in page : Oldest(page) <= r.ts
  BY <1>3 DEF Oldest
<1> QED BY <1>1, <1>4

\* Merging a page adds its records.
LEMMA Merged ==
    ASSUME NEW rows, NEW page
    PROVE  Merge(rows, page) = rows \cup page
<1>1. {Fingerprint(r) : r \in page} \ {Fingerprint(r) : r \in rows} = page \ rows
  BY DEF Fingerprint
<1>2. \A f \in page \ rows : (CHOOSE r \in page : Fingerprint(r) = f) = f
  BY DEF Fingerprint
<1> DEFINE One(f) == CHOOSE r \in page : Fingerprint(r) = f
<1>3. {One(f) : f \in page \ rows} = page \ rows
  <2>1. \A f \in page \ rows : One(f) = f
    BY <1>2
  <2> HIDE DEF One
  <2> QED BY <2>1
<1> QED BY <1>1, <1>3 DEF Merge, One

\* A page keeps the records of a walk in the log, and complete above the place
\* where the walk goes on; without such a place, complete.
LEMMA PageKeeps ==
    ASSUME NEW w \in Walks, NEW now \in SUBSET Records,
           w.rows \subseteq w.met, w.kept \subseteq now, now \subseteq w.met,
           w.cursor # None => \A r \in w.kept : r.ts > w.cursor => r \in w.rows,
           NEW page \in Pages(UpTo(now, w.cursor)),
           NEW next \in NextCursors(page, UpTo(now, w.cursor)),
           NEW merged, merged = Merge(w.rows, page)
    PROVE  /\ merged \in SUBSET Records /\ merged \subseteq w.met
           /\ next \in Nat \cup {None}
           /\ next = None => w.kept \subseteq merged
           /\ next # None => \A r \in w.kept : r.ts > next => r \in merged
<1> DEFINE rows == UpTo(now, w.cursor)
<1>1. /\ w.cursor \in Nat \cup {None} /\ w.rows \in SUBSET Records
      /\ w.kept \in SUBSET Records /\ w.met \in SUBSET Records
  BY DEF Walks
<1>2. page \subseteq rows /\ \A r \in page, s \in rows \ page : s.ts <= r.ts
  BY DEF Pages
<1>3. rows \subseteq now /\ \A r \in now : (w.cursor # None => r.ts <= w.cursor) => r \in rows
  BY DEF UpTo
<1>4. merged = w.rows \cup page
  BY Merged
<1>5. page \in SUBSET Records /\ merged \in SUBSET Records /\ merged \subseteq w.met
  BY <1>1, <1>2, <1>3, <1>4
<1>6. \/ page # {} /\ next = Oldest(page)
      \/ page = rows /\ next = None
  BY DEF NextCursors
<1> HIDE DEF rows
<1>7. \A r \in w.kept : r \in merged \/ r \in rows \ page
  <2>1. ASSUME NEW r \in w.kept, r \notin rows PROVE r \in w.rows
    <3>1. r \in now /\ r.ts \in Nat
      BY <1>1, RecordAssumption
    <3>2. w.cursor # None /\ ~ (r.ts <= w.cursor)
      BY <1>3, <2>1, <3>1
    <3>3. r.ts > w.cursor
      BY <1>1, <3>1, <3>2
    <3> QED BY <3>2, <3>3
  <2> QED BY <1>4, <2>1
<1>8. CASE page # {} /\ next = Oldest(page)
  <2>1. /\ \E r \in page : r.ts = next
        /\ next \in Nat
    BY <1>5, <1>8, OldestFacts
  <2>2. \A s \in rows \ page : s.ts <= next
    BY <1>2, <2>1
  <2>3. next # None
    BY <2>1, NoneAssumption
  <2>4. ASSUME NEW r \in w.kept, r.ts > next PROVE r \in merged
    <3>1. r.ts \in Nat
      BY <1>1, RecordAssumption
    <3>2. ~ (r.ts <= next)
      BY <2>1, <2>4, <3>1
    <3> QED BY <1>7, <2>2, <3>2
  <2> QED BY <1>5, <2>1, <2>3, <2>4
<1>9. CASE page = rows /\ next = None
  BY <1>5, <1>7, <1>9
<1> QED BY <1>6, <1>8, <1>9

\* What a walk stands for in LogRead.
LEMMA WalkOf ==
    ASSUME IInv, call.pc = "walking"
    PROVE  /\ Reading \in Logs /\ call.walk \in Walks
           /\ call.walk.kept \in SUBSET Records /\ call.walk.met \in SUBSET Records
           /\ [kind |-> Reading, kept |-> call.walk.kept, met |-> call.walk.met] # None
           /\ log \in [Logs -> SUBSET Records] /\ log[Reading] \in SUBSET Records
           /\ Sound(call)
<1>1. /\ Reading \in Logs /\ call.walk \in Walks
      /\ log \in [Logs -> SUBSET Records] /\ Sound(call)
  BY DEF IInv, WalkInv, Walks, TypeOK, CallInv, Idle
<1>2. call.walk.kept \in SUBSET Records /\ call.walk.met \in SUBSET Records
  BY <1>1 DEF Walks
<1>3. [kind |-> Reading, kept |-> call.walk.kept, met |-> call.walk.met] # None
  BY <1>1, <1>2, NoneAssumption
<1> QED BY <1>1, <1>2, <1>3

\* A step of a walk keeps the types, when its question stays sound and its walk is
\* one.
LEMMA WalkingTyped ==
    ASSUME IInv, Sound(call'), call'.pc = "walking", call'.walk \in Walks,
           UNCHANGED <<mode, box, seen, poll, last>>,
           log' \in [Logs -> SUBSET Records], logMoves' \in 0..MaxLogMoves,
           records' = records \/ records' = None
    PROVE  TypeOK' /\ CallInv'
<1>1. /\ call'.pc \in {"idle", "refreshing", "zone", "reading", "walking"}
      /\ call'.pc \in {"reading", "walking"} =>
            call'.todo # <<>> /\ Reading' \notin DOMAIN call'.got
      /\ call'.walk # None <=> call'.pc = "walking"
  BY SoundTyped DEF Reading
<1> QED BY <1>1 DEF IInv, TypeOK, CallInv

\* A log is asked for.
LEMMA AskKeeps ==
    ASSUME IInv, AskLog
    PROVE  IInv' /\ Log!Ask(Reading) /\ Reading \in Logs
<1> DEFINE walk == [cursor |-> None, rows |-> {}, kept |-> log[Reading],
                    met |-> log[Reading]]
           c == [call EXCEPT !.pc = "walking"]
           d == [call EXCEPT !.pc = "walking", !.walk = walk]
<1>1. /\ call.pc = "reading" /\ Reading \in Logs /\ call' = d /\ last' = last
      /\ records' = None
      /\ UNCHANGED <<mode, box, seen, poll, log, logMoves>>
  BY DEF AskLog, Waits, outside
<1>2. Sound(call) /\ log \in [Logs -> SUBSET Records] /\ logMoves \in 0..MaxLogMoves
  BY <1>1 DEF IInv, CallInv, TypeOK, Idle
<1>3. walk \in Walks /\ log[Reading] \in SUBSET Records
  BY <1>1, <1>2 DEF Walks
<1>4. /\ Shaped(c) /\ c.q = call.q /\ c.target = call.target
      /\ c.todo = call.todo /\ c.got = call.got /\ c.pc = "walking"
  <2>1. Shaped(call)
    BY <1>2 DEF Sound
  <2> QED BY <2>1, PcKept
<1>5. d = [c EXCEPT !.walk = walk]
  <2>1. d = [call EXCEPT !.pc = "walking", !.walk = walk]
    OBVIOUS
  <2>2. c = [call EXCEPT !.pc = "walking"]
    OBVIOUS
  <2>3. Shaped(call)
    BY <1>2 DEF Sound
  <2> HIDE DEF c, d, walk
  <2>4. c = [pc |-> "walking", q |-> call.q, looked |-> call.looked,
             zoned |-> call.zoned, target |-> call.target, todo |-> call.todo,
             asked |-> call.asked, got |-> call.got, rows |-> call.rows,
             sample |-> call.sample, walk |-> call.walk]
    BY <2>3, <2>2 DEF Shaped
  <2>5. d = [pc |-> "walking", q |-> call.q, looked |-> call.looked,
             zoned |-> call.zoned, target |-> call.target, todo |-> call.todo,
             asked |-> call.asked, got |-> call.got, rows |-> call.rows,
             sample |-> call.sample, walk |-> walk]
    BY <2>3, <2>1 DEF Shaped
  <2> QED BY <2>4, <2>5
<1>6. walk.kept = log[Reading] /\ walk.met = log[Reading] /\ walk.cursor = None /\ walk.rows = {}
  OBVIOUS
<1> HIDE DEF walk, c, d
<1>7. /\ Shaped(d) /\ d.q = call.q /\ d.target = call.target /\ d.pc = "walking"
      /\ d.todo = call.todo /\ d.got = call.got /\ d.walk = walk
  BY <1>4, <1>5, WalkKept
<1>8. Sound(d)
  BY <1>1, <1>2, <1>7 DEF Sound, Unread
<1>9. Reading' = Reading
  BY <1>1, <1>7 DEF Reading
<1>10. TypeOK' /\ CallInv'
  BY <1>1, <1>2, <1>3, <1>7, <1>8, WalkingTyped
<1>11. WalkInv'
  BY <1>1, <1>3, <1>6, <1>7, <1>9 DEF WalkInv, Walks
<1>12. Log!Ask(Reading)
  BY <1>1, <1>6, <1>7, <1>9 DEF Log!Ask
<1> QED BY <1>1, <1>10, <1>11, <1>12 DEF IInv

\* A page is collected or walked on from.
LEMMA PageWalked ==
    ASSUME IInv, NEW timeUp, WalkPage(timeUp)
    PROVE  /\ IInv'
           /\ UNCHANGED Log!vars
              \/ \E rows \in SUBSET Records, whole \in BOOLEAN : Log!Deliver(rows, whole)
<1> DEFINE w == call.walk
           now == log[Reading]
<1>1. call.pc = "walking" /\ UNCHANGED <<mode, box, seen, poll, log, logMoves>>
  BY DEF WalkPage, outside
<1>2. /\ Reading \in Logs /\ w \in Walks /\ w.kept \in SUBSET Records
      /\ w.met \in SUBSET Records
      /\ [kind |-> Reading, kept |-> w.kept, met |-> w.met] # None
      /\ log \in [Logs -> SUBSET Records] /\ now \in SUBSET Records /\ Sound(call)
  BY <1>1, WalkOf
<1>3. /\ w.rows \subseteq w.met /\ w.kept \subseteq now /\ now \subseteq w.met
      /\ w.cursor # None => \A r \in w.kept : r.ts > w.cursor => r \in w.rows
  BY <1>1 DEF IInv, WalkInv
<1>4. PICK page \in Pages(UpTo(now, w.cursor)) :
      \E next \in NextCursors(page, UpTo(now, w.cursor)) :
         LET merged == Merge(w.rows, page)
             stops == Stops(next, w.cursor)
         IN  \/ /\ stops \/ timeUp
                /\ Collected(merged, next)
             \/ /\ ~stops /\ ~timeUp
                /\ Waits([call EXCEPT !.walk.cursor = next, !.walk.rows = merged])
                /\ UNCHANGED records
  BY DEF WalkPage
<1>5. PICK next \in NextCursors(page, UpTo(now, w.cursor)) :
         LET merged == Merge(w.rows, page)
             stops == Stops(next, w.cursor)
         IN  \/ /\ stops \/ timeUp
                /\ Collected(merged, next)
             \/ /\ ~stops /\ ~timeUp
                /\ Waits([call EXCEPT !.walk.cursor = next, !.walk.rows = merged])
                /\ UNCHANGED records
  BY <1>4
<1> DEFINE merged == Merge(w.rows, page)
<1>6. \/ Collected(merged, next)
      \/ /\ ~Stops(next, w.cursor)
         /\ Waits([call EXCEPT !.walk.cursor = next, !.walk.rows = merged])
         /\ UNCHANGED records
  BY <1>5
<1> HIDE DEF merged, now
<1>7. /\ merged \in SUBSET Records /\ merged \subseteq w.met
      /\ next \in Nat \cup {None}
      /\ next = None => w.kept \subseteq merged
      /\ next # None => \A r \in w.kept : r.ts > next => r \in merged
  <2> HIDE DEF w
  <2>1. page \in Pages(UpTo(now, w.cursor)) /\ next \in NextCursors(page, UpTo(now, w.cursor))
    OBVIOUS
  <2> QED BY <1>2, <1>3, <2>1, PageKeeps DEF merged
\* The walk is over.
<1>8. CASE Collected(merged, next)
  <2> DEFINE c == [Got({}) EXCEPT !.walk = None]
  <2>1. Proceed(c) /\ records' = [kind |-> Reading, rows |-> merged, whole |-> next = None]
    BY <1>8 DEF Collected
  <2>2. call.todo # <<>> /\ call.pc # "refreshing"
    BY <1>1, <1>2 DEF Sound
  <2>3. /\ Shaped(Got({})) /\ Planned(Got({}).todo, Got({}).got) /\ Got({}).q = call.q
        /\ Service(Got({}).q) = "get_alarms" => Got({}).target = Found(None)
    BY <1>2, <2>2, GotReadable
  <2>4. /\ Shaped(c) /\ c.q = Got({}).q /\ c.target = Got({}).target
        /\ c.todo = Got({}).todo /\ c.got = Got({}).got /\ c.walk = None
    <3> DEFINE g == Got({})
    <3>1. Shaped(g) /\ c = [g EXCEPT !.walk = None]
      BY <2>3
    <3> HIDE DEF g, c
    <3>2. /\ Shaped(c) /\ c.q = g.q /\ c.target = g.target
          /\ c.todo = g.todo /\ c.got = g.got /\ c.walk = None
      BY <3>1, WalkKept
    <3> QED BY <3>2 DEF g
  <2> HIDE DEF c
  <2>5. Readable(c)
    BY <2>3, <2>4 DEF Readable
  <2>6. /\ call' = Idle \/ (Sound(call') /\ call'.pc \in {"reading", "zone"})
        /\ Answered
    BY <2>1, <2>5, ProceedSound
  <2>7. call'.pc # "walking" /\ CallInv' /\ WalkInv'
    BY <2>6 DEF CallInv, WalkInv, Idle
  <2>8. TypeOK'
    <3>1. /\ call'.pc \in {"idle", "refreshing", "zone", "reading", "walking"}
          /\ call'.pc \in {"reading", "walking"} =>
                call'.todo # <<>> /\ Reading' \notin DOMAIN call'.got
          /\ call'.pc # "idle" => (call'.walk # None <=> call'.pc = "walking")
      <4>1. CASE call' = Idle
        BY <4>1 DEF Idle
      <4>2. CASE Sound(call')
        BY <2>7, <4>2, SoundTyped DEF Reading
      <4> QED BY <2>6, <4>1, <4>2
    <3>2. last'.pc \in {"idle", "refused", "failed", "replied"}
      BY <2>6 DEF Answered, IInv, TypeOK
    <3>3. records'.rows \subseteq Records
      BY <1>7, <2>1
    <3> QED BY <1>1, <3>1, <3>2, <3>3 DEF TypeOK, IInv
  <2>9. Log!Deliver(merged, next = None)
    <3>1. /\ merged \subseteq w.met /\ (next = None => w.kept \subseteq merged)
          /\ log' = log
      BY <1>1, <1>7
    <3> QED BY <1>1, <1>2, <2>1, <2>7, <3>1 DEF Log!Deliver
  <2> QED BY <1>7, <2>7, <2>8, <2>9 DEF IInv
\* The walk goes on.
<1>9. CASE /\ ~Stops(next, w.cursor)
           /\ Waits([call EXCEPT !.walk.cursor = next, !.walk.rows = merged])
           /\ UNCHANGED records
  <2> DEFINE v == [w EXCEPT !.cursor = next, !.rows = merged]
             d == [call EXCEPT !.walk = v]
  <2>1. v = [cursor |-> next, rows |-> merged, kept |-> w.kept, met |-> w.met]
    <3>1. w = [cursor |-> w.cursor, rows |-> w.rows, kept |-> w.kept, met |-> w.met]
      <4> HIDE DEF w
      <4> QED BY <1>2 DEF Walks
    <3>2. v = [w EXCEPT !.cursor = next, !.rows = merged]
      OBVIOUS
    <3> HIDE DEF w, v
    <3> QED BY <3>1, <3>2
  <2>2. [call EXCEPT !.walk.cursor = next, !.walk.rows = merged] = d
    <3>1. Shaped(call)
      BY <1>2 DEF Sound
    <3> HIDE DEF w
    <3> QED BY <3>1 DEF Shaped, w
  <2>3. call' = d /\ last' = last /\ records' = records
    BY <1>9, <2>2 DEF Waits
  <2> HIDE DEF v, d
  <2>4. v \in Walks
    BY <1>2, <1>7, <2>1 DEF Walks
  <2>5. Shaped(call)
    BY <1>2 DEF Sound
  <2>6. /\ Shaped(d) /\ d.pc = call.pc /\ d.q = call.q /\ d.target = call.target
        /\ d.todo = call.todo /\ d.got = call.got /\ d.walk = v
    BY <2>5, WalkKept DEF d
  <2>7. Sound(d)
    BY <1>1, <1>2, <2>6 DEF Sound, Unread
  <2>8. TypeOK' /\ CallInv'
    <3>1. /\ Sound(call') /\ call'.pc = "walking" /\ call'.walk \in Walks
          /\ UNCHANGED <<mode, box, seen, poll, last>> /\ records' = records
          /\ log' \in [Logs -> SUBSET Records] /\ logMoves' \in 0..MaxLogMoves
      BY <1>1, <1>2, <2>3, <2>4, <2>6, <2>7 DEF IInv, TypeOK
    <3> QED BY <3>1, WalkingTyped
  <2>9. Reading' = Reading
    BY <2>3, <2>6 DEF Reading
  <2>10. WalkInv'
    <3>1. call'.walk = v /\ log'[Reading] = now /\ now \subseteq v.met
      BY <1>1, <1>3, <2>1, <2>3, <2>6 DEF now
    <3>2. v.rows \subseteq v.met /\ v.kept \subseteq now
      BY <1>3, <1>7, <2>1
    <3>3. v.cursor # None => \A r \in v.kept : r.ts > v.cursor => r \in v.rows
      BY <1>7, <2>1
    <3> QED BY <1>2, <2>4, <2>9, <3>1, <3>2, <3>3 DEF WalkInv, Walks
  <2>11. UNCHANGED Log!vars
    BY <1>1, <2>1, <2>3, <2>6, <2>9 DEF Log!vars
  <2> QED BY <2>8, <2>10, <2>11 DEF IInv
<1> QED BY <1>6, <1>8, <1>9

\* What LogRead makes of a read when its log changes.
LEMMA ReadMoved ==
    ASSUME NEW was, NEW kind, NEW kept, NEW met, NEW a, NEW b,
           NEW now, now = [was EXCEPT !.kept = a, !.met = b],
           was = [kind |-> kind, kept |-> kept, met |-> met]
    PROVE  now = [kind |-> kind, kept |-> a, met |-> b]
OBVIOUS

\* The log changes while it is walked.
LEMMA LogMoved ==
    ASSUME IInv, NEW k \in Logs, NEW rows \in SUBSET Records, LogMove(k, rows)
    PROVE  IInv' /\ Log!Change
<1> DEFINE w == call.walk
<1>1. /\ call.pc = "walking" /\ log' = [log EXCEPT ![k] = rows]
      /\ logMoves' = logMoves + 1 /\ logMoves < MaxLogMoves
      /\ UNCHANGED <<mode, box, seen, poll, records, last>>
  BY DEF LogMove
<1>2. /\ Reading \in Logs /\ w \in Walks /\ w.kept \in SUBSET Records
      /\ w.met \in SUBSET Records
      /\ [kind |-> Reading, kept |-> w.kept, met |-> w.met] # None
      /\ log \in [Logs -> SUBSET Records] /\ Sound(call)
  BY <1>1, WalkOf
<1>3. /\ w.rows \subseteq w.met /\ w.kept \subseteq log[Reading]
      /\ log[Reading] \subseteq w.met
      /\ w.cursor # None => \A r \in w.kept : r.ts > w.cursor => r \in w.rows
  BY <1>1 DEF IInv, WalkInv
<1>4. /\ log' \in [Logs -> SUBSET Records] /\ logMoves' \in 0..MaxLogMoves
      /\ log'[k] = rows /\ \A j \in Logs \ {k} : log'[j] = log[j]
  BY <1>1, <1>2, PageAssumption DEF IInv, TypeOK
\* Either way the walk knows what was kept and what was met.
<1>5. /\ Shaped(call') /\ call'.pc = "walking" /\ call'.q = call.q
      /\ call'.target = call.target /\ call'.todo = call.todo /\ call'.got = call.got
      /\ call'.walk = [cursor |-> w.cursor, rows |-> w.rows,
                       kept |-> w.kept \cap log'[Reading],
                       met |-> w.met \cup log'[Reading]]
  <2>1. w = [cursor |-> w.cursor, rows |-> w.rows, kept |-> w.kept, met |-> w.met]
    <3> HIDE DEF w
    <3> QED BY <1>2 DEF Walks
  <2>2. Shaped(call)
    BY <1>2 DEF Sound
  <2>3. CASE Reading = k
    <3> DEFINE v == [w EXCEPT !.kept = w.kept \cap rows, !.met = w.met \cup rows]
               d == [call EXCEPT !.walk = v]
    <3>1. call' = [call EXCEPT !.walk.kept = @ \cap rows, !.walk.met = @ \cup rows]
      BY <2>3 DEF LogMove
    <3>2. call' = d
      BY <2>2, <3>1 DEF Shaped
    <3>0. v = [w EXCEPT !.kept = w.kept \cap rows, !.met = w.met \cup rows]
      OBVIOUS
    <3> HIDE DEF v, d
    <3>3. /\ Shaped(d) /\ d.pc = call.pc /\ d.q = call.q /\ d.target = call.target
          /\ d.todo = call.todo /\ d.got = call.got /\ d.walk = v
      BY <2>2, WalkKept DEF d
    <3>4. v = [cursor |-> w.cursor, rows |-> w.rows,
               kept |-> w.kept \cap rows, met |-> w.met \cup rows]
      <4> DEFINE kept == w.kept \cap rows
                 met == w.met \cup rows
      <4>1. v = [w EXCEPT !.kept = kept, !.met = met]
        BY <3>0
      <4> HIDE DEF w, kept, met
      <4>2. v = [cursor |-> w.cursor, rows |-> w.rows, kept |-> kept, met |-> met]
        BY <2>1, <4>1
      <4> QED BY <4>2 DEF kept, met
    <3> QED BY <1>1, <1>4, <2>3, <3>2, <3>3, <3>4
  <2>4. CASE Reading # k
    <3>1. call' = call
      BY <2>4 DEF LogMove
    <3>2. log'[Reading] = log[Reading]
      BY <1>2, <1>4, <2>4
    <3>3. w.kept \cap log[Reading] = w.kept /\ w.met \cup log[Reading] = w.met
      BY <1>3
    <3> QED BY <1>1, <2>1, <2>2, <3>1, <3>2, <3>3
  <2> QED BY <2>3, <2>4
<1>6. Reading' = Reading
  BY <1>5 DEF Reading
<1>7. log'[Reading] \in SUBSET Records
  BY <1>2, <1>4
<1>8. call'.walk \in Walks
  BY <1>2, <1>5, <1>7 DEF Walks
<1>9. Sound(call')
  BY <1>1, <1>2, <1>5 DEF Sound, Unread
<1> HIDE DEF w
<1>10. TypeOK' /\ CallInv'
  BY <1>1, <1>4, <1>5, <1>8, <1>9, WalkingTyped
<1>11. WalkInv'
  <2>1. /\ call'.walk.rows = w.rows /\ call'.walk.cursor = w.cursor
        /\ call'.walk.kept = w.kept \cap log'[Reading]
        /\ call'.walk.met = w.met \cup log'[Reading]
    BY <1>5
  <2> QED BY <1>2, <1>3, <1>6, <1>8, <2>1 DEF WalkInv, Walks
<1>12. Log!Change
  <2> DEFINE was == [kind |-> Reading, kept |-> w.kept, met |-> w.met]
  <2>1. /\ was.kind = Reading
        /\ [was EXCEPT !.kept = @ \cap log'[was.kind], !.met = @ \cup log'[was.kind]] =
              [kind |-> Reading, kept |-> w.kept \cap log'[Reading],
               met |-> w.met \cup log'[Reading]]
    <3>1. was.kind = Reading /\ was.kept = w.kept /\ was.met = w.met
      OBVIOUS
    <3>2. was = [kind |-> Reading, kept |-> w.kept, met |-> w.met]
      OBVIOUS
    <3> DEFINE kept == was.kept \cap log'[was.kind]
               met == was.met \cup log'[was.kind]
               now == [was EXCEPT !.kept = kept, !.met = met]
    <3>3. now = [was EXCEPT !.kept = kept, !.met = met]
      OBVIOUS
    <3> HIDE DEF was, kept, met, now
    <3>4. now = [kind |-> Reading, kept |-> kept, met |-> met]
      BY <3>2, <3>3, ReadMoved
    <3> QED BY <3>1, <3>4 DEF now, kept, met
  <2>2. /\ call'.walk.kept = w.kept \cap log'[Reading]
        /\ call'.walk.met = w.met \cup log'[Reading]
    BY <1>5
  <2>3. was = [kind |-> Reading, kept |-> call.walk.kept, met |-> call.walk.met]
    BY DEF w
  <2>4. was # None
    BY <1>2
  <2> HIDE DEF was
  <2> QED BY <1>1, <1>4, <1>5, <1>6, <2>1, <2>2, <2>3, <2>4 DEF Log!Change
<1> QED BY <1>10, <1>11, <1>12 DEF IInv

-----------------------------------------------------------------------------
(* The theorems.                                                           *)

\* The invariant holds at first.
LEMMA InitInv == Init => IInv
<1> SUFFICES ASSUME Init PROVE IInv
  OBVIOUS
<1>1. call = Idle /\ call.pc = "idle"
  BY DEF Init, Idle
<1>2. TypeOK
  BY <1>1, RecordAssumption, PageAssumption DEF Init, TypeOK, Idle
<1>3. CallInv /\ WalkInv
  BY <1>1 DEF CallInv, WalkInv
<1> QED BY <1>2, <1>3 DEF IInv

\* Every step keeps the invariant, and is a step of LogRead or none.
LEMMA NextKeeps ==
    ASSUME IInv, [Next]_vars
    PROVE  IInv' /\ (Log!Next \/ UNCHANGED Log!vars)
<1>1. CASE \E q \in Questions :
              CallNotTaken(q) \/ CallRefreshes(q) \/ CallLoadsZone(q) \/ CallResolves(q)
  BY <1>1, BeginsOffWalk, OffWalkKeeps
<1>2. CASE RefreshReturns \/ ZoneReturns
  BY <1>2, ReturnsOffWalk, OffWalkKeeps
<1>3. CASE AnswerTaken
  BY <1>3, TakenKeeps DEF Log!Next
<1>4. CASE ReadAnswered \/ LiveWarmsUp \/ LiveMissing \/ LiveReading
  BY <1>4, ReadsOffWalk, OffWalkKeeps
<1>5. CASE AskLog
  <2>1. IInv' /\ Log!Ask(Reading) /\ Reading \in Logs
    BY <1>5, AskKeeps
  <2> QED BY <2>1 DEF Log!Next
<1>6. CASE \E timeUp \in BOOLEAN : WalkPage(timeUp)
  <2>1. /\ IInv'
        /\ UNCHANGED Log!vars
           \/ \E rows \in SUBSET Records, whole \in BOOLEAN : Log!Deliver(rows, whole)
    BY <1>6, PageWalked
  <2> QED BY <2>1 DEF Log!Next
<1>7. CASE \E why \in {"protocol", "connection"} : ReadFails(why)
  <2>1. IInv' /\ (UNCHANGED Log!vars \/ Log!GiveUp)
    BY <1>7, FailsKeeps
  <2> QED BY <2>1 DEF Log!Next
<1>8. CASE \E k \in Logs, r \in Records : RecordAdded(k, r) \/ RecordExpires(k, r)
  <2>1. PICK k \in Logs, r \in Records : RecordAdded(k, r) \/ RecordExpires(k, r)
    BY <1>8
  <2>2. log[k] \in SUBSET Records
    BY DEF IInv, TypeOK
  <2>3. \E rows \in SUBSET Records : LogMove(k, rows)
    <3>1. log[k] \cup {r} \in SUBSET Records /\ log[k] \ {r} \in SUBSET Records
      BY <2>2
    <3> QED BY <2>1, <3>1 DEF RecordAdded, RecordExpires
  <2>4. IInv' /\ Log!Change
    BY <2>3, LogMoved
  <2> QED BY <2>4 DEF Log!Next
<1>9. CASE (\E v \in Boxes : BoxMoves(v)) \/ PollAnswered \/ PollPublished \/ PollFails
  BY <1>9, PollsKeep
<1>10. CASE UNCHANGED vars
  <2>1. UNCHANGED <<mode, box, seen, poll, log, logMoves, call, records, last>>
    BY <1>10 DEF vars
  <2>2. Reading' = Reading
    BY <2>1 DEF Reading
  <2>3. IInv'
    BY <2>1, <2>2 DEF IInv, TypeOK, CallInv, WalkInv
  <2>4. UNCHANGED Log!vars
    BY <2>1, <2>2 DEF Log!vars
  <2> QED BY <2>3, <2>4
<1> QED BY <1>1, <1>2, <1>3, <1>4, <1>5, <1>6, <1>7, <1>8, <1>9, <1>10
        DEF Next, ReadReturns

\* The inductive invariant holds of every reachable state: a question under way
\* has a plan without a read it has had, and a walk through a log has every record
\* newer than its cursor that stayed in the log.
THEOREM ReportsInvariant == Spec => []IInv
<1>1. Init => IInv
  BY InitInv
<1>2. IInv /\ [Next]_vars => IInv'
  BY NextKeeps
<1> QED BY <1>1, <1>2, PTL DEF Spec

\* Every reachable state is well typed: no read is asked for twice, and a walk is
\* remembered exactly while a log is read (the readers and the answers of
\* services.py and flow_manager.py).
THEOREM TypeCorrect == Spec => []TypeOK
<1>1. IInv => TypeOK
  BY DEF IInv
<1> QED BY <1>1, ReportsInvariant, PTL

\* A log that is read page by page implements LogRead (_async_collect_records):
\* whatever comes and goes between two pages, an answer holds only records that
\* were in the log during the read, and one that gives no cursor to go on at holds
\* every record that stayed.
THEOREM ReadsAreWhole == Spec => WholeLogRead
<1>1. Init => Log!Init
  <2> SUFFICES ASSUME Init PROVE Log!Init
    OBVIOUS
  <2>1. call.pc = "idle" /\ log = StartLog /\ records = None
    BY DEF Init, Idle
  <2> QED BY <2>1, RecordAssumption DEF Log!Init
<1>2. IInv /\ [Next]_vars => [Log!Next]_Log!vars
  BY NextKeeps
<1> QED BY <1>1, <1>2, ReportsInvariant, PTL DEF Spec, WholeLogRead, Log!Spec

-----------------------------------------------------------------------------
(* Names.                                                                  *)

\* Folding twice is folding once, and only nothing folds to nothing.
LEMMA FoldFacts ==
    /\ \A text : Fold(Fold(text)) = Fold(text)
    /\ \A text : Fold(text) = Fold(None) => text = None
<1>1. Fold(None) = None
  BY CasefoldAssumption DEF Fold
<1>2. ASSUME NEW text, text \in DOMAIN Casefold
      PROVE  Fold(Fold(text)) = Fold(text) /\ Fold(text) # None
  BY <1>2, CasefoldAssumption DEF Fold
<1>3. ASSUME NEW text, text \notin DOMAIN Casefold
      PROVE  Fold(text) = text
  BY <1>3 DEF Fold
<1> QED BY <1>1, <1>2, <1>3

\* A match that is answered is one of the matches.
LEMMA AnswerIn ==
    ASSUME NEW matches
    PROVE  /\ Resolved(Answer(matches)) =>
                Answer(matches).found \in matches
           /\ ~Resolved(Answer(matches)) =>
                Answer(matches).error \in {"not_found", "ambiguous"}
           /\ Resolved(Answer(matches)) <=> Cardinality(matches) = 1
           /\ Answer(matches) \in {Error("not_found"), Error("ambiguous")}
              \/ Answer(matches) = Found(TheOnly(matches))
<1>1. Cardinality({}) = 0
  BY FS_EmptySet
<1>2. ~Resolved(Error("not_found")) /\ ~Resolved(Error("ambiguous"))
      /\ Error("not_found").error = "not_found" /\ Error("ambiguous").error = "ambiguous"
  BY DEF Resolved, Error
<1>3. Resolved(Found(TheOnly(matches))) /\ Found(TheOnly(matches)).found = TheOnly(matches)
  BY DEF Resolved, Found
<1>4. CASE Cardinality(matches) = 1
  <2>1. matches # {}
    BY <1>1, <1>4
  <2>2. TheOnly(matches) \in matches
    BY <2>1 DEF TheOnly
  <2>3. Answer(matches) = Found(TheOnly(matches))
    BY <1>4, <2>1 DEF Answer
  <2> QED BY <1>3, <1>4, <2>2, <2>3
<1>5. CASE Cardinality(matches) # 1
  <2>1. Answer(matches) \in {Error("not_found"), Error("ambiguous")}
    BY <1>5 DEF Answer
  <2> QED BY <1>2, <1>5, <2>1
<1> QED BY <1>4, <1>5

\* A record that is matched goes by the text, or is identified by it.
LEMMA MatchedGoes ==
    ASSUME NEW selection, NEW known,
           NEW id \in MatchScopeSelection(selection, known)
    PROVE  \E r \in known :
              /\ r.id = id
              /\ \E name \in r.names \cup {r.id} : Fold(name) = Fold(selection.value)
<1> DEFINE text == selection.value
           normalized == IF selection.kind = "host" THEN Fold(text) ELSE text
<1>1. id \in MatchNames(text, known) \/ id \in MatchSelector(text, normalized, known)
  BY DEF MatchScopeSelection
<1>2. \A x : x \in MatchNames(text, known) =>
          \E r \in known : r.id = x /\ \E name \in r.names : Fold(name) = Fold(text)
  BY DEF MatchNames
<1>3. Fold(normalized) = Fold(text)
  BY FoldFacts
<1>4. CASE id \in MatchNames(text, known)
  BY <1>2, <1>4
<1>5. CASE id \in MatchSelector(text, normalized, known)
  <2>1. CASE \E r \in known : r.id = normalized
    <3>1. id = normalized
      BY <1>5, <2>1 DEF MatchSelector
    <3> QED BY <1>3, <2>1, <3>1
  <2>2. CASE ~\E r \in known : r.id = normalized
    <3>1. id \in MatchNames(text, known)
      BY <1>5, <2>2 DEF MatchSelector
    <3> QED BY <1>2, <3>1
  <2> QED BY <2>1, <2>2
<1> QED BY <1>1, <1>4, <1>5

\* A question selects one scope, by what it is named with, or is an error.
LEMMA ReportScope ==
    ASSUME NEW data
    PROVE  LET selection == SelectReportScope(data) IN
           \/ selection \in {Error("conflict"), Error("required")}
           \/ /\ "error" \notin DOMAIN selection
              /\ selection.value = TextOf(data) /\ selection.kind = KindAsked(data)
              /\ selection.kind \in {"host", "group", "user"}
              /\ \E f \in Supplied(data, ReportFields) : TextOf(data) = data[f]
<1> DEFINE given == Supplied(data, ReportFields)
           f == TheOnly(given)
           picked == [field |-> f, value |-> data[f], kind |-> KindOf(f)]
           selection == SelectReportScope(data)
           scope == SelectScope(data, ReportFields)
<1>1. CASE Cardinality(given) = 1
  <2>1. SelectExclusive(data, ReportFields) = [field |-> f, value |-> data[f]]
    BY <1>1 DEF SelectExclusive
  <2>2. f # None => scope = picked
    BY <2>1 DEF SelectScope
  <2>3. f = None => scope.field = None
    BY <2>1 DEF SelectScope
  <2>4. f \in given
    BY <1>1, FS_EmptySet DEF TheOnly
  <2>5. KindOf(f) \in {"host", "group", "user"}
    BY <2>4 DEF KindOf, ReportFields, HostFields, GroupFields, UserFields, NetworkFields, Supplied
  <2>6. CASE f = None
    BY <2>3, <2>6 DEF SelectReportScope
  <2>7. CASE f # None
    <3>1. selection = picked
      BY <2>2, <2>7 DEF SelectReportScope
    <3>2. selection.value = TextOf(data) /\ selection.kind = KindAsked(data)
          /\ "error" \notin DOMAIN selection
      BY <3>1 DEF TextOf, KindAsked
    <3> QED BY <2>4, <2>5, <3>1, <3>2 DEF TextOf
  <2> QED BY <2>6, <2>7
<1>2. CASE Cardinality(given) # 1
  <2>1. scope = [field |-> None, supplied |-> given]
    BY <1>2 DEF SelectExclusive, SelectScope
  <2> QED BY <2>1 DEF SelectReportScope
<1> QED BY <1>1, <1>2

\* A user has one tag only.
OneTagEach(view) ==
    \A s, t \in Users(view) : s.user_id = t.user_id => s = t

\* A host that matches the text is named by it.
LEMMA HostMatched ==
    ASSUME NEW data, NEW view, NEW selection, selection.value = TextOf(data),
           TextOf(data) # None,
           NEW id \in MatchScopeSelection(selection, LabelledHosts(view))
    PROVE  HostNamed(id, data, view)
<1>1. PICK r \in LabelledHosts(view) :
          /\ r.id = id
          /\ \E name \in r.names \cup {r.id} : Fold(name) = Fold(TextOf(data))
  BY MatchedGoes
<1>2. PICK h \in view.hosts : r = [id |-> h.mac, names |-> {h.name, h.label}]
  BY DEF LabelledHosts
<1>3. PICK name \in {h.mac, h.name, h.label} : Fold(name) = Fold(TextOf(data))
  BY <1>1, <1>2
<1>4. name # None
  BY <1>3, FoldFacts
<1> QED BY <1>1, <1>2, <1>3, <1>4 DEF HostNamed, Goes

\* So is a group.
LEMMA GroupMatched ==
    ASSUME NEW data, NEW view, NEW selection, selection.value = TextOf(data),
           TextOf(data) # None, KindAsked(data) = "group",
           NEW id \in MatchScopeSelection(selection, GroupRecords(view))
    PROVE  TagNamed(id, data, view)
<1>1. PICK r \in GroupRecords(view) :
          /\ r.id = id
          /\ \E name \in r.names \cup {r.id} : Fold(name) = Fold(TextOf(data))
  BY MatchedGoes
<1>2. PICK t \in view.tags : t.kind = "group" /\ r = [id |-> t.group_id, names |-> {t.name}]
  BY DEF GroupRecords, TagsOf
<1>3. PICK name \in {t.group_id, t.user_id, t.name} : Fold(name) = Fold(TextOf(data))
  BY <1>1, <1>2
<1>4. name # None
  BY <1>3, FoldFacts
<1> QED BY <1>1, <1>2, <1>3, <1>4 DEF TagNamed, Goes

\* So is a user of the inventory.
LEMMA UserMatched ==
    ASSUME NEW data, NEW view, NEW selection, selection.value = TextOf(data),
           TextOf(data) # None, KindAsked(data) = "user",
           NEW id \in MatchScopeSelection(selection, UserRecords(view))
    PROVE  UserNamed(id, data, view)
<1>1. PICK r \in UserRecords(view) :
          /\ r.id = id
          /\ \E name \in r.names \cup {r.id} : Fold(name) = Fold(TextOf(data))
  BY MatchedGoes
<1>2. PICK u \in view.users : r = [id |-> u.user_id, names |-> {u.name}]
  BY DEF UserRecords
<1>3. PICK name \in {u.user_id, u.name} : Fold(name) = Fold(TextOf(data))
  BY <1>1, <1>2
<1>4. name # None
  BY <1>3, FoldFacts
<1> QED BY <1>1, <1>2, <1>3, <1>4 DEF UserNamed, Goes

\* So is a user of whom only a tag is known, by the tag's own id.
LEMMA TaggedMatched ==
    ASSUME NEW data, NEW view, NEW selection, selection.value = TextOf(data),
           TextOf(data) # None, KindAsked(data) = "user", OneTagEach(view),
           NEW id \in MatchScopeSelection(selection, TaggedUsers(view))
    PROVE  TagNamed(TagAsked(view, id), data, view)
<1>1. PICK r \in TaggedUsers(view) :
          /\ r.id = id
          /\ \E name \in r.names \cup {r.id} : Fold(name) = Fold(TextOf(data))
  BY MatchedGoes
<1>2. PICK t \in Users(view) : r = [id |-> t.user_id, names |-> {t.name, t.group_id}]
  BY DEF TaggedUsers
<1>3. PICK name \in {t.group_id, t.user_id, t.name} : Fold(name) = Fold(TextOf(data))
  BY <1>1, <1>2
<1>4. name # None
  BY <1>3, FoldFacts
<1> DEFINE s == CHOOSE u \in Users(view) : u.user_id = id
<1>5. s \in Users(view) /\ s.user_id = id
  BY <1>1, <1>2
<1>6. s = t
  BY <1>1, <1>2, <1>5 DEF OneTagEach
<1>7. TagAsked(view, id) = t.group_id
  BY <1>6 DEF TagAsked
<1>8. t \in view.tags /\ t.kind = "user"
  BY DEF Users, TagsOf
<1> QED BY <1>3, <1>4, <1>7, <1>8 DEF TagNamed, Goes

\* An answer aimed at a kind.
LEMMA AimedFacts ==
    ASSUME NEW kind, NEW matches
    PROVE  LET target == Aimed(kind, Answer(matches)) IN
           /\ Resolved(target) =>
                target.kind = kind /\ target.found \in matches
           /\ ~Resolved(target) => target.error # "not_taken"
<1> DEFINE answer == Answer(matches)
<1>1. CASE Resolved(answer)
  <2>1. Aimed(kind, answer) = [found |-> answer.found, kind |-> kind]
    BY <1>1 DEF Aimed
  <2>2. answer.found \in matches
    BY <1>1, AnswerIn
  <2> HIDE DEF answer
  <2>3. Resolved(Aimed(kind, answer))
    BY <2>1 DEF Resolved
  <2> QED BY <2>1, <2>2, <2>3 DEF answer
<1>2. CASE ~Resolved(answer)
  <2>1. Aimed(kind, answer) = answer
    BY <1>2 DEF Aimed
  <2>2. answer.error # "not_taken"
    BY <1>2, AnswerIn
  <2> QED BY <1>2, <2>1, <2>2
<1> QED BY <1>1, <1>2

\* The target of screen time is what the question names.
LEMMA UsageTarget ==
    ASSUME NEW data, NEW view, \A f \in DOMAIN data : data[f] # None
    PROVE  LET target == ScopeTarget("get_time_usage", data, view) IN
           /\ Resolved(target) =>
                \/ target.kind = "host" /\ HostNamed(target.found, data, view)
                \/ target.kind = "group" /\ TagNamed(target.found, data, view)
                \/ target.kind = "user" /\ UserNamed(target.found, data, view)
           /\ ~Resolved(target) => target.error # "not_taken"
<1> DEFINE selection == SelectReportScope(data)
           target == ScopeTarget("get_time_usage", data, view)
<1>1. CASE selection \in {Error("conflict"), Error("required")}
  <2>1. target = selection
    BY <1>1 DEF ScopeTarget, Error
  <2> QED BY <1>1, <2>1 DEF Error, Resolved
<1>2. CASE selection \notin {Error("conflict"), Error("required")}
  <2>1. /\ "error" \notin DOMAIN selection
        /\ selection.value = TextOf(data) /\ selection.kind = KindAsked(data)
        /\ selection.kind \in {"host", "group", "user"} /\ TextOf(data) # None
    BY <1>2, ReportScope DEF Supplied
  <2>2. target = ResolveUsageHistoryTarget(view, selection)
    BY <2>1 DEF ScopeTarget
  <2> HIDE DEF selection, target
  <2>3. CASE selection.kind = "host"
    <3>1. target = Aimed("host", Answer(MatchScopeSelection(selection, LabelledHosts(view))))
      BY <2>2, <2>3 DEF ResolveUsageHistoryTarget
    <3> QED BY <2>1, <3>1, AimedFacts, HostMatched DEF target
  <2>4. CASE selection.kind = "group"
    <3>1. target = Aimed("group", Answer(MatchScopeSelection(selection, GroupRecords(view))))
      BY <2>2, <2>4 DEF ResolveUsageHistoryTarget
    <3>2. KindAsked(data) = "group"
      BY <2>1, <2>4
    <3>3. \A id \in MatchScopeSelection(selection, GroupRecords(view)) : TagNamed(id, data, view)
      BY <2>1, <3>2, GroupMatched
    <3> QED BY <3>1, <3>3, AimedFacts DEF target
  <2>5. CASE selection.kind = "user"
    <3>1. target = Aimed("user", Answer(MatchScopeSelection(selection, UserRecords(view))))
      BY <2>2, <2>5 DEF ResolveUsageHistoryTarget
    <3>2. KindAsked(data) = "user"
      BY <2>1, <2>5
    <3>3. \A id \in MatchScopeSelection(selection, UserRecords(view)) : UserNamed(id, data, view)
      BY <2>1, <3>2, UserMatched
    <3> QED BY <3>1, <3>3, AimedFacts DEF target
  <2> QED BY <2>1, <2>3, <2>4, <2>5
<1> QED BY <1>1, <1>2

\* So is that of a flow report, which asks for a user by the tag.
LEMMA FlowTarget ==
    ASSUME NEW data, NEW view, \A f \in DOMAIN data : data[f] # None, OneTagEach(view)
    PROVE  LET target == ScopeTarget("get_flow_report", data, view) IN
           /\ Resolved(target) =>
                \/ target.kind = "host" /\ HostNamed(target.found, data, view)
                \/ target.kind = "group" /\ TagNamed(target.found, data, view)
                \/ target.kind = "user" /\ TagNamed(target.asked, data, view)
           /\ ~Resolved(target) => target.error # "not_taken"
<1> DEFINE selection == SelectReportScope(data)
           target == ScopeTarget("get_flow_report", data, view)
<1>1. CASE selection \in {Error("conflict"), Error("required")}
  <2>1. target = selection
    BY <1>1 DEF ScopeTarget, Error
  <2> QED BY <1>1, <2>1 DEF Error, Resolved
<1>2. CASE selection \notin {Error("conflict"), Error("required")}
  <2>1. /\ "error" \notin DOMAIN selection
        /\ selection.value = TextOf(data) /\ selection.kind = KindAsked(data)
        /\ selection.kind \in {"host", "group", "user"} /\ TextOf(data) # None
    BY <1>2, ReportScope DEF Supplied
  <2>2. target = ResolveFlowReportTarget(view, selection)
    BY <2>1 DEF ScopeTarget
  <2> HIDE DEF selection, target
  <2>3. CASE selection.kind = "host"
    <3>1. target = Aimed("host", Answer(MatchScopeSelection(selection, LabelledHosts(view))))
      BY <2>2, <2>3 DEF ResolveFlowReportTarget
    <3> QED BY <2>1, <3>1, AimedFacts, HostMatched DEF target
  <2>4. CASE selection.kind = "group"
    <3>1. target = Aimed("group", Answer(MatchScopeSelection(selection, GroupRecords(view))))
      BY <2>2, <2>4 DEF ResolveFlowReportTarget
    <3>2. KindAsked(data) = "group"
      BY <2>1, <2>4
    <3>3. \A id \in MatchScopeSelection(selection, GroupRecords(view)) : TagNamed(id, data, view)
      BY <2>1, <3>2, GroupMatched
    <3> QED BY <3>1, <3>3, AimedFacts DEF target
  <2>5. CASE selection.kind = "user"
    <3> DEFINE answer == Answer(MatchScopeSelection(selection, TaggedUsers(view)))
               asked == TagAsked(view, answer.found)
    <3>1. target = IF Resolved(answer)
                   THEN [found |-> answer.found, kind |-> "user", asked |-> asked] ELSE answer
      BY <2>2, <2>5 DEF ResolveFlowReportTarget
    <3>2. CASE Resolved(answer)
      <4>1. answer.found \in MatchScopeSelection(selection, TaggedUsers(view))
        BY <3>2, AnswerIn
      <4>2. TagNamed(asked, data, view)
        BY <2>1, <2>5, <4>1, TaggedMatched
      <4> HIDE DEF answer, asked
      <4>3. target = [found |-> answer.found, kind |-> "user", asked |-> asked]
        BY <3>1, <3>2
      <4>4. Resolved(target) /\ target.kind = "user" /\ target.asked = asked
        BY <4>3 DEF Resolved
      <4> QED BY <4>2, <4>4 DEF target
    <3>3. CASE ~Resolved(answer)
      <4>1. answer.error # "not_taken"
        BY <3>3, AnswerIn
      <4> QED BY <3>1, <3>3, <4>1 DEF target
    <3> QED BY <3>2, <3>3
  <2> QED BY <2>1, <2>3, <2>4, <2>5
<1> QED BY <1>1, <1>2

-----------------------------------------------------------------------------
(* Targets.                                                                *)

\* A network that is found is the one the question names, by its uuid or its name.
LEMMA NetworkFound ==
    ASSUME NEW data, NEW view, NEW networks \in SUBSET view.networks,
           NEW byUuid \in NetworkFields \cup WanFields,
           NEW byName \in NetworkFields \cup WanFields,
           NEW uuid, NEW name,
           uuid # None => byUuid \in DOMAIN data /\ uuid = data[byUuid],
           name # None => byName \in DOMAIN data /\ name = data[byName]
    PROVE  LET answer == ResolveNetworkIn(networks, uuid, name) IN
           /\ Resolved(answer) /\ answer.found # None => NetworkNamed(answer.found, data, view)
           /\ ~Resolved(answer) => answer.error # "not_taken"
<1> DEFINE answer == ResolveNetworkIn(networks, uuid, name)
           same == {n.uuid : n \in {m \in networks : m.uuid = uuid}}
           called == {n.uuid : n \in {m \in networks : Fold(m.name) = Fold(name)}}
<1>1. CASE uuid # None /\ name # None
  <2>1. answer = Error("conflict")
    BY <1>1 DEF ResolveNetworkIn
  <2>2. ~Resolved(Error("conflict")) /\ Error("conflict").error # "not_taken"
    BY DEF Error, Resolved
  <2> HIDE DEF answer
  <2> QED BY <2>1, <2>2 DEF answer
<1>2. CASE uuid # None /\ name = None
  <2>1. answer = Answer(same)
    BY <1>2 DEF ResolveNetworkIn
  <2>2. ASSUME NEW id \in same PROVE NetworkNamed(id, data, view)
    <3>1. PICK n \in view.networks : n.uuid = id /\ n.uuid = uuid
      OBVIOUS
    <3>2. byUuid \in Supplied(data, NetworkFields \cup WanFields) /\ data[byUuid] = uuid
      BY <1>2 DEF Supplied
    <3>3. Goes(uuid, {n.uuid, n.name})
      BY <1>2, <3>1 DEF Goes
    <3> QED BY <3>1, <3>2, <3>3 DEF NetworkNamed
  <2> HIDE DEF same
  <2> QED BY <2>1, <2>2, AnswerIn
<1>3. CASE uuid = None /\ name # None
  <2>1. answer = Answer(called)
    BY <1>3 DEF ResolveNetworkIn
  <2>2. ASSUME NEW id \in called PROVE NetworkNamed(id, data, view)
    <3>1. PICK n \in view.networks : n.uuid = id /\ Fold(n.name) = Fold(name)
      OBVIOUS
    <3>2. byName \in Supplied(data, NetworkFields \cup WanFields) /\ data[byName] = name
      BY <1>3 DEF Supplied
    <3>3. Goes(name, {n.uuid, n.name})
      BY <1>3, <3>1, FoldFacts DEF Goes
    <3> QED BY <3>1, <3>2, <3>3 DEF NetworkNamed
  <2> HIDE DEF called
  <2> QED BY <2>1, <2>2, AnswerIn
<1>4. CASE uuid = None /\ name = None
  <2>1. answer = Found(None)
    BY <1>4 DEF ResolveNetworkIn
  <2>2. Resolved(answer) /\ answer.found = None
    BY <2>1 DEF Found, Resolved
  <2> QED BY <2>2
<1> QED BY <1>1, <1>2, <1>3, <1>4

\* A value that is there is the field's.
LEMMA ValueThere ==
    ASSUME NEW data, NEW field, ValueOf(data, field) # None
    PROVE  field \in DOMAIN data /\ ValueOf(data, field) = data[field]
BY DEF ValueOf

\* A WAN that is found is the one asked for.
LEMMA WanNamed ==
    ASSUME NEW data, NEW view
    PROVE  LET target == WanIn(view, data) IN
           /\ Resolved(target) /\ target.found # None => NetworkNamed(target.found, data, view)
           /\ ~Resolved(target) => target.error # "not_taken"
<1> DEFINE uuid == ValueOf(data, "wan_uuid")
           name == ValueOf(data, "wan_name")
<1>1. WanIn(view, data) = ResolveNetworkIn(Wans(view), uuid, name)
  BY DEF WanIn, ResolveRequestedWan
<1>2. /\ uuid # None => "wan_uuid" \in DOMAIN data /\ uuid = data["wan_uuid"]
      /\ name # None => "wan_name" \in DOMAIN data /\ name = data["wan_name"]
  BY ValueThere
<1>3. Wans(view) \in SUBSET view.networks
  BY DEF Wans
<1>4. {"wan_uuid", "wan_name"} \subseteq NetworkFields \cup WanFields
  BY DEF WanFields
<1> HIDE DEF uuid, name
<1> QED BY <1>1, <1>2, <1>3, <1>4, NetworkFound

\* So is a segment, which has to be asked for.
LEMMA SegmentNamed ==
    ASSUME NEW data, NEW view
    PROVE  LET target == SegmentIn(view, data) IN
           /\ Resolved(target) /\ target.found # None => NetworkNamed(target.found, data, view)
           /\ ~Resolved(target) => target.error # "not_taken"
<1> DEFINE uuid == ValueOf(data, "network_uuid")
           name == ValueOf(data, "network_name")
           answer == ResolveNetworkIn(Segments(view), uuid, name)
<1>1. SegmentIn(view, data) = IF answer = Found(None) THEN Error("required") ELSE answer
  BY DEF SegmentIn, ResolveRequestedNetworkRequired, ResolveRequestedNetwork
<1>2. /\ uuid # None => "network_uuid" \in DOMAIN data /\ uuid = data["network_uuid"]
      /\ name # None => "network_name" \in DOMAIN data /\ name = data["network_name"]
  BY ValueThere
<1>3. Segments(view) \in SUBSET view.networks
  BY DEF Segments
<1>4. {"network_uuid", "network_name"} \subseteq NetworkFields \cup WanFields
  BY DEF NetworkFields
<1> HIDE DEF uuid, name
<1>5. /\ Resolved(answer) /\ answer.found # None => NetworkNamed(answer.found, data, view)
      /\ ~Resolved(answer) => answer.error # "not_taken"
  BY <1>2, <1>3, <1>4, NetworkFound
<1>6. ~Resolved(Error("required")) /\ Error("required").error # "not_taken"
  BY DEF Error, Resolved
<1> HIDE DEF answer
<1> QED BY <1>1, <1>5, <1>6

\* No target is refused as arguments are.
LEMMA LiveErrors ==
    ASSUME NEW data, NEW view, ~Resolved(LiveTarget(view, data))
    PROVE  LiveTarget(view, data).error # "not_taken"
<1> DEFINE host == ResolveRequestedHost(view, data, FALSE)
           uuid == ValueOf(data, "network_uuid")
           name == ValueOf(data, "network_name")
           network == ResolveLiveNetwork(view, uuid, name)
           mine == IF uuid = None THEN name ELSE None
<1>1. /\ \A k : ~Resolved(Error(k)) /\ Error(k).error = k
      /\ \A id : Resolved(Found(id))
  BY DEF Error, Found, Resolved
<1>2. ~Resolved(host) => host.error # "not_taken"
  <2>1. \A text : HostByMac(view, text) = Found(Fold(text))
                  \/ HostByMac(view, text) = Error("not_found")
    BY DEF HostByMac
  <2>2. \/ \E text : host = HostByMac(view, text)
        \/ \E matches : host = Answer(matches)
        \/ host = Error("conflict") \/ host = Found(None)
    <3> DEFINE given == Supplied(data, HostFields)
               named == {[id |-> h.mac, names |-> {h.name, h.label} \cup h.aliases] :
                             h \in view.hosts}
               matches == MatchNames(data.host_name, named)
    <3>1. host = CASE Cardinality(given) > 1 -> Error("conflict")
                   [] given = {"host_mac"} -> HostByMac(view, data.host_mac)
                   [] given = {"host_id"} -> HostByMac(view, data.host_id)
                   [] given = {"host_name"} -> Answer(matches)
                   [] OTHER -> Found(None)
      BY DEF ResolveRequestedHost
    <3> HIDE DEF given, named, matches, host
    <3>2. \/ host = Error("conflict") \/ host = HostByMac(view, data.host_mac)
          \/ host = HostByMac(view, data.host_id) \/ host = Answer(matches)
          \/ host = Found(None)
      BY <3>1
    <3> QED BY <3>2
  <2> QED BY <1>1, <2>1, <2>2, AnswerIn
<1>3. ~Resolved(network) => network.error # "not_taken"
  <2>1. network = ResolveNetworkIn(view.networks, uuid, mine)
    BY DEF ResolveLiveNetwork
  <2>2. /\ uuid # None => "network_uuid" \in DOMAIN data /\ uuid = data["network_uuid"]
        /\ mine # None => "network_name" \in DOMAIN data /\ mine = data["network_name"]
    BY ValueThere
  <2>3. {"network_uuid", "network_name"} \subseteq NetworkFields \cup WanFields
    BY DEF NetworkFields
  <2> HIDE DEF uuid, name, mine
  <2> QED BY <2>1, <2>2, <2>3, NetworkFound
<1>4. \/ ~Resolved(host) /\ LiveTarget(view, data) = host
      \/ LiveTarget(view, data) = Error("conflict")
      \/ LiveTarget(view, data) = Aimed("host", host) /\ Resolved(host)
      \/ LiveTarget(view, data) = Aimed("network", network)
  BY DEF LiveTarget
<1>5. \A kind, answer : /\ ~Resolved(answer) => Aimed(kind, answer) = answer
                        /\ Resolved(answer) => Resolved(Aimed(kind, answer))
  BY DEF Aimed, Resolved
<1> HIDE DEF host, network
<1> QED BY <1>1, <1>2, <1>3, <1>4, <1>5

\* A resolved target carries a name of what was asked; no error is that of arguments.
LEMMA TargetErrors ==
    ASSUME NEW service, NEW data, NEW view, OneTagEach(view),
           \A f \in DOMAIN data : data[f] # None,
           ~Resolved(Target(service, data, view))
    PROVE  Target(service, data, view).error # "not_taken"
<1> DEFINE target == Target(service, data, view)
           wan == WanIn(view, data)
           segment == SegmentIn(view, data)
           live == LiveTarget(view, data)
           usage == ScopeTarget("get_time_usage", data, view)
           flow == ScopeTarget("get_flow_report", data, view)
<1>1. /\ \A k : ~Resolved(Error(k)) /\ Error(k).error = k
      /\ Resolved(Found(None))
  BY DEF Error, Found, Resolved
<1>2. \/ target \in {wan, segment, live, usage, flow, Found(None)}
      \/ target \in {Error("end_before_begin"), Error("history_period_required"),
                     Error("archived_requires_refresh")}
  <2>1. TimeUsageTarget(view, data) \in {usage, Error("end_before_begin")}
    BY DEF TimeUsageTarget
  <2>2. WanUsageTarget(view, data) \in {wan, Error("history_period_required")}
    BY DEF WanUsageTarget
  <2>3. AlarmsTarget(data) \in {Error("archived_requires_refresh"), Found(None)}
    BY DEF AlarmsTarget
  <2>4. target \in {TimeUsageTarget(view, data), flow, WanUsageTarget(view, data), wan,
                    segment, live, AlarmsTarget(data), Found(None)}
    BY DEF Target
  <2> HIDE DEF target, wan, segment, live, usage, flow
  <2> QED BY <2>1, <2>2, <2>3, <2>4
<1>3. /\ ~Resolved(wan) => wan.error # "not_taken"
      /\ ~Resolved(segment) => segment.error # "not_taken"
      /\ ~Resolved(live) => live.error # "not_taken"
      /\ ~Resolved(usage) => usage.error # "not_taken"
      /\ ~Resolved(flow) => flow.error # "not_taken"
  BY WanNamed, SegmentNamed, LiveErrors, UsageTarget, FlowTarget
<1> HIDE DEF wan, segment, live, usage, flow
<1>4. target.error # "not_taken"
  <2> HIDE DEF target
  <2>1. ~Resolved(target)
    BY DEF target
  <2> QED BY <1>1, <1>2, <1>3, <2>1
<1> QED BY <1>4

-----------------------------------------------------------------------------
(* Reads.                                                                  *)

\* The members of short plans.
LEMMA ShortMembers ==
    /\ Members(<<>>) = {}
    /\ \A x : Members(<<x>>) = {x}
    /\ \A x, y : Members(<<x, y>>) = {x, y}
    /\ \A x, y, z : Members(<<x, y, z>>) = {x, y, z}
<1>1. Members(<<>>) = {}
  BY DEF Members
<1>2. \A x : Members(<<x>>) = {x}
  BY DEF Members
<1>3. \A x, y : Members(<<x, y>>) = {x, y}
  <2> SUFFICES ASSUME NEW x, NEW y PROVE Members(<<x, y>>) = {x, y}
    OBVIOUS
  <2>1. DOMAIN <<x, y>> = {1, 2} /\ <<x, y>>[1] = x /\ <<x, y>>[2] = y
    OBVIOUS
  <2> QED BY <2>1 DEF Members
<1>4. \A x, y, z : Members(<<x, y, z>>) = {x, y, z}
  <2> SUFFICES ASSUME NEW x, NEW y, NEW z PROVE Members(<<x, y, z>>) = {x, y, z}
    OBVIOUS
  <2>1. /\ DOMAIN <<x, y, z>> = {1, 2, 3} /\ <<x, y, z>>[1] = x
        /\ <<x, y, z>>[2] = y /\ <<x, y, z>>[3] = z
    OBVIOUS
  <2> QED BY <2>1 DEF Members
<1> QED BY <1>1, <1>2, <1>3, <1>4

\* Flow reports read of one scope.
LEMMA FlowMembers ==
    ASSUME NEW data, NEW target
    PROVE  \A r \in Members(FlowReportReads(data, target)) :
              r.do \in {"rollup"} \cup Logs /\ r.of = FlowScope(target)
<1> DEFINE scope == FlowScope(target)
           a == Read("rollup", scope)
           b == Read("blocks", scope)
           c == Read("flows", scope)
<1>1. /\ a.do = "rollup" /\ a.of = scope /\ b.do = "blocks" /\ b.of = scope
      /\ c.do = "flows" /\ c.of = scope
  BY DEF Read
<1>2. FlowReportReads(data, target) \in {<<a>>, <<a, b, c>>}
  <2>1. FlowReportReads(data, target) = <<a>> \o (IF Detailed(data, "summary")
                                                  THEN <<b, c>> ELSE <<>>)
    BY DEF FlowReportReads
  <2> HIDE DEF a, b, c
  <2>2. <<a>> \o <<b, c>> = <<a, b, c>> /\ <<a>> \o <<>> = <<a>>
    BY ShortJoins
  <2> QED BY <2>1, <2>2
<1> HIDE DEF a, b, c, scope
<1>3. Members(FlowReportReads(data, target)) \subseteq {a, b, c}
  BY <1>2, ShortMembers
<1> QED BY <1>1, <1>3 DEF Logs, scope

\* What a service reads is what it is named for.
LEMMA ReadsNamed ==
    ASSUME NEW service, NEW data, NEW view, OneTagEach(view),
           \A f \in DOMAIN data : data[f] # None,
           NEW target, target = Target(service, data, view), Resolved(target),
           NEW r \in Members(ReadsOf(service, data, target))
    PROVE  ReadNamed(r, data, view)
<1>1. \A do, of : Read(do, of).do = do /\ Read(do, of).of = of
  BY DEF Read
<1>2. CASE service = "get_flow_report"
  <2>1. r.do \in {"rollup"} \cup Logs /\ r.of = FlowScope(target)
    BY <1>2, FlowMembers DEF ReadsOf
  <2>2. target = ScopeTarget("get_flow_report", data, view)
    BY <1>2 DEF Target
  <2>3. \/ target.kind = "host" /\ HostNamed(target.found, data, view)
        \/ target.kind = "group" /\ TagNamed(target.found, data, view)
        \/ target.kind = "user" /\ TagNamed(target.asked, data, view)
    BY <2>2, FlowTarget
  <2>4. \/ r.of[1] = "host" /\ HostNamed(r.of[2], data, view)
        \/ r.of[1] = "tag" /\ TagNamed(r.of[2], data, view)
    <3>1. CASE target.kind = "host"
      BY <2>1, <2>3, <3>1 DEF FlowScope
    <3>2. CASE target.kind # "host"
      <4>1. r.of[1] = "tag"
        BY <2>1, <3>2 DEF FlowScope
      <4>2. r.of[2] = IF target.kind = "user" THEN target.asked ELSE target.found
        BY <2>1, <3>2 DEF FlowScope
      <4> QED BY <2>3, <3>2, <4>1, <4>2
    <3> QED BY <3>1, <3>2
  <2> QED BY <2>1, <2>4 DEF ReadNamed, Logs
<1>3. CASE service = "get_time_usage"
  <2>1. r = Read("usage", <<target.kind, target.found>>)
    BY <1>3, ShortMembers DEF ReadsOf, TimeUsageReads
  <2>2. target = ScopeTarget("get_time_usage", data, view)
    <3>1. target = TimeUsageTarget(view, data)
      BY <1>3 DEF Target
    <3>2. ~Resolved(Error("end_before_begin"))
      BY DEF Resolved, Error
    <3> QED BY <3>1, <3>2 DEF TimeUsageTarget
  <2>3. \/ target.kind = "host" /\ HostNamed(target.found, data, view)
        \/ target.kind = "group" /\ TagNamed(target.found, data, view)
        \/ target.kind = "user" /\ UserNamed(target.found, data, view)
    BY <2>2, UsageTarget
  <2>4. r.do = "usage" /\ r.of[1] = target.kind /\ r.of[2] = target.found
    BY <1>1, <2>1
  <2> QED BY <2>3, <2>4 DEF ReadNamed, Logs
<1>4. CASE service = "get_wan_events"
  <2>1. r = Read("events", target.found)
    BY <1>4, ShortMembers DEF ReadsOf, WanEventsReads
  <2>2. target = WanIn(view, data)
    BY <1>4 DEF Target
  <2>3. target.found # None => NetworkNamed(target.found, data, view)
    BY <2>2, WanNamed
  <2> QED BY <1>1, <2>1, <2>3 DEF ReadNamed, Logs
<1>5. CASE service \in {"get_network_config", "get_network_usage"}
  <2>1. r = Read("interface", target.found)
    BY <1>5, ShortMembers DEF ReadsOf, InterfaceReads
  <2>2. target = SegmentIn(view, data)
    BY <1>5 DEF Target
  <2>3. target.found # None => NetworkNamed(target.found, data, view)
    BY <2>2, SegmentNamed
  <2> QED BY <1>1, <2>1, <2>3 DEF ReadNamed, Logs
<1>6. CASE service = "get_wan_usage"
  <2>1. WanUsageReads(data) \in {<<>>, <<Read("wan_usage", WanReads(data))>>}
    BY DEF WanUsageReads
  <2>2. r = Read("wan_usage", WanReads(data))
    BY <1>6, <2>1, ShortMembers DEF ReadsOf
  <2> QED BY <1>1, <2>2 DEF ReadNamed, Logs
<1>7. CASE service = "get_live_throughput"
  <2>1. r = Read("live", target.found)
    BY <1>7, ShortMembers DEF ReadsOf, LiveReads
  <2> QED BY <1>1, <2>1 DEF ReadNamed, Logs
<1>8. CASE service = "get_alarms"
  <2>1. r \in {Read("alarms", None), Read("archived_alarms", None), Read("alarm_details", None)}
    <3> DEFINE ra == Read("alarms", None)
               rb == Read("archived_alarms", None)
               rc == Read("alarm_details", None)
    <3>1. AlarmsReads(data) \in
            {<<>>, <<ra>>, <<rb>>, <<rc>>, <<ra, rb>>, <<ra, rc>>, <<rb, rc>>, <<ra, rb, rc>>}
      BY AlarmPlans
    <3> HIDE DEF ra, rb, rc
    <3>2. Members(AlarmsReads(data)) \subseteq {ra, rb, rc}
      BY <3>1, ShortMembers
    <3>3. r \in {ra, rb, rc}
      BY <1>8, <3>2 DEF ReadsOf
    <3> QED BY <3>3 DEF ra, rb, rc
  <2> QED BY <1>1, <2>1 DEF ReadNamed, Logs
<1>9. CASE service \notin {"get_flow_report", "get_time_usage", "get_wan_events", "get_alarms",
                           "get_network_config", "get_network_usage", "get_wan_usage",
                           "get_live_throughput"}
  <2>1. ReadsOf(service, data, target) = <<>>
    BY <1>9 DEF ReadsOf
  <2> QED BY <2>1, ShortMembers
<1> QED BY <1>2, <1>3, <1>4, <1>5, <1>6, <1>7, <1>8, <1>9

-----------------------------------------------------------------------------
(* What a regular payload makes of tags.                                   *)

\* The users of a tag, and the record a view has of a tag.
UsersOf(data, tag) == {u \in NormalizeUserInventory(data) : u.affiliated_group_id = tag}

TagRecord(data, tag) ==
    IF UsersOf(data, tag) = {}
    THEN [group_id |-> tag, kind |-> "group", user_id |-> None,
          name |-> NamedLookup(data.tags)[tag]]
    ELSE [group_id |-> tag, kind |-> "user", user_id |-> TheOnly(UsersOf(data, tag)).user_id,
          name |-> TheOnly(UsersOf(data, tag)).name]

UserId(data, id) == FirstOf(<<data.userTags[id].uid, id>>)

\* The inventory of groups has one record of each named tag.
LEMMA TagRecords ==
    ASSUME NEW data
    PROVE  NormalizeGroupInventory(data) =
               {TagRecord(data, tag) : tag \in DOMAIN NamedLookup(data.tags)}
BY DEF NormalizeGroupInventory, TagRecord, UsersOf

\* A user of a view is one of the payload.
LEMMA UserOrigin ==
    ASSUME NEW data, NEW u \in NormalizeUserInventory(data)
    PROVE  \E id \in DOMAIN data.userTags :
              /\ data.userTags[id].type \in {None, "user"}
              /\ u = [user_id |-> UserId(data, id),
                      name |-> FirstOf(<<data.userTags[id].name, UserId(data, id)>>),
                      affiliated_group_id |-> data.userTags[id].affiliated]
BY DEF NormalizeUserInventory, UserId

\* No two users share an id in the view.
LEMMA UsersUnique ==
    ASSUME NEW data, Regular(data)
    PROVE  OneTagEach(BuildRuntimeSnapshot(data))
<1> DEFINE view == BuildRuntimeSnapshot(data)
<1>1. view.tags = NormalizeGroupInventory(data)
  BY DEF BuildRuntimeSnapshot
<1> HIDE DEF view
<1>2. ASSUME NEW t \in Users(view)
      PROVE  \E tag \in DOMAIN NamedLookup(data.tags) :
                /\ t = TagRecord(data, tag)
                /\ \E id \in DOMAIN data.userTags :
                      t.user_id = UserId(data, id) /\ data.userTags[id].affiliated = tag
  <2>1. t \in view.tags /\ t.kind = "user"
    BY DEF Users, TagsOf
  <2>2. PICK tag \in DOMAIN NamedLookup(data.tags) : t = TagRecord(data, tag)
    BY <1>1, <2>1, TagRecords
  <2>3. /\ UsersOf(data, tag) # {} /\ t.user_id = TheOnly(UsersOf(data, tag)).user_id
    BY <2>1, <2>2 DEF TagRecord
  <2>4. TheOnly(UsersOf(data, tag)) \in UsersOf(data, tag)
    BY <2>3 DEF TheOnly
  <2> DEFINE u == TheOnly(UsersOf(data, tag))
  <2>5. u \in NormalizeUserInventory(data) /\ u.affiliated_group_id = tag
    BY <2>4 DEF UsersOf
  <2> HIDE DEF u
  <2>6. t.user_id = u.user_id
    BY <2>3 DEF u
  <2>7. PICK id \in DOMAIN data.userTags :
            u = [user_id |-> UserId(data, id),
                 name |-> FirstOf(<<data.userTags[id].name, UserId(data, id)>>),
                 affiliated_group_id |-> data.userTags[id].affiliated]
    BY <2>5, UserOrigin
  <2>8. t.user_id = UserId(data, id) /\ data.userTags[id].affiliated = tag
    BY <2>5, <2>6, <2>7
  <2> QED BY <2>2, <2>8
<1>3. \A i, j \in DOMAIN data.userTags : UserId(data, i) = UserId(data, j) => i = j
  BY DEF Regular, OwnTags, UserId
<1>4. ASSUME NEW s \in Users(view), NEW t \in Users(view), s.user_id = t.user_id
      PROVE  s = t
  <2>1. PICK a \in DOMAIN NamedLookup(data.tags), i \in DOMAIN data.userTags :
            /\ s = TagRecord(data, a) /\ s.user_id = UserId(data, i)
            /\ data.userTags[i].affiliated = a
    BY <1>2
  <2>2. PICK b \in DOMAIN NamedLookup(data.tags), j \in DOMAIN data.userTags :
            /\ t = TagRecord(data, b) /\ t.user_id = UserId(data, j)
            /\ data.userTags[j].affiliated = b
    BY <1>2
  <2>3. i = j
    BY <1>3, <1>4, <2>1, <2>2
  <2> QED BY <2>1, <2>2, <2>3
<1> QED BY <1>4 DEF OneTagEach, view

\* The first of two candidates.
LEMMA FirstOfTwo ==
    ASSUME NEW x, NEW y
    PROVE  FirstOf(<<x, y>>) = IF x # None THEN x ELSE y
<1> DEFINE s == <<x, y>>
           present == {i \in DOMAIN s : s[i] # None}
<1>1. DOMAIN s = {1, 2} /\ s[1] = x /\ s[2] = y
  OBVIOUS
<1>2. FirstOf(s) = IF present = {} THEN None
                   ELSE s[CHOOSE i \in present : \A j \in present : i <= j]
  BY DEF FirstOf
<1> HIDE DEF s
<1>3. CASE x # None
  <2>1. 1 \in present /\ \A j \in present : 1 <= j
    BY <1>1, <1>3
  <2>2. \A i \in present : (\A j \in present : i <= j) => i = 1
    BY <1>1, <2>1
  <2>3. (CHOOSE i \in present : \A j \in present : i <= j) = 1
    BY <2>1, <2>2
  <2> QED BY <1>1, <1>2, <1>3, <2>1, <2>3 DEF s
<1>4. CASE x = None /\ y # None
  <2>1. present = {2}
    BY <1>1, <1>4
  <2>2. (CHOOSE i \in {2} : \A j \in {2} : i <= j) = 2
    OBVIOUS
  <2> QED BY <1>1, <1>2, <1>4, <2>1, <2>2 DEF s
<1>5. CASE x = None /\ y = None
  <2>1. present = {}
    BY <1>1, <1>5
  <2> QED BY <1>2, <1>5, <2>1 DEF s
<1> QED BY <1>3, <1>4, <1>5

\* The name a tag goes by, as hosts and rules show it.
ShownName(data, tag) ==
    IF tag \in DOMAIN AffiliatedUserLookup(data) THEN Joined(AffiliatedUserLookup(data)[tag])
    ELSE At(NamedLookup(data.tags), tag)

\* One name, joined, is itself.
LEMMA JoinedOne ==
    ASSUME NEW x
    PROVE  Joined({x}) = x
BY FS_Singleton DEF Joined, TheOnly

\* A tag is a user's where hosts and rules look it up when it is in the inventory, and
\* goes by one name.
LEMMA OneName ==
    ASSUME NEW data, Regular(data), NEW tag \in DOMAIN NamedLookup(data.tags)
    PROVE  /\ ShownName(data, tag) = TagRecord(data, tag).name
           /\ tag \in DOMAIN AffiliatedUserLookup(data) <=> TagRecord(data, tag).kind = "user"
           /\ tag \notin DOMAIN AffiliatedUserLookup(data) <=> TagRecord(data, tag).kind = "group"
<1> DEFINE users == data.userTags
           mine == {u \in {users[id] : id \in DOMAIN users} :
                       u.affiliated # None /\ u.name # None}
           lookup == AffiliatedUserLookup(data)
<1>1. tag # None
  BY DEF Regular, OwnTags, NamedLookup
<1>2. /\ DOMAIN lookup = {u.affiliated : u \in mine}
      /\ \A t \in DOMAIN lookup : lookup[t] = {u.name : u \in {w \in mine : w.affiliated = t}}
  BY DEF AffiliatedUserLookup
<1>3. \A i, j \in DOMAIN users :
          users[i].affiliated = users[j].affiliated /\ users[i].affiliated # None => i = j
  BY DEF Regular, OwnTags
<1>4. \A i \in DOMAIN users : users[i].affiliated # None =>
          users[i].type \in {None, "user"} /\ users[i].name # None
  BY DEF Regular, OwnTags
<1> HIDE DEF lookup
<1>5. CASE \E id \in DOMAIN users : users[id].affiliated = tag
  <2>1. PICK id \in DOMAIN users : users[id].affiliated = tag
    BY <1>5
  <2> DEFINE u == [user_id |-> UserId(data, id),
                   name |-> FirstOf(<<users[id].name, UserId(data, id)>>),
                   affiliated_group_id |-> users[id].affiliated]
  <2>2. u \in NormalizeUserInventory(data)
    BY <1>1, <1>4, <2>1 DEF NormalizeUserInventory, UserId
  <2>3. u.affiliated_group_id = tag /\ u.name = users[id].name
    BY <1>1, <1>4, <2>1, FirstOfTwo
  <2>4. ASSUME NEW w \in UsersOf(data, tag) PROVE w = u
    <3>1. w \in NormalizeUserInventory(data) /\ w.affiliated_group_id = tag
      BY DEF UsersOf
    <3>2. PICK j \in DOMAIN users :
              w = [user_id |-> UserId(data, j),
                   name |-> FirstOf(<<users[j].name, UserId(data, j)>>),
                   affiliated_group_id |-> users[j].affiliated]
      BY <3>1, UserOrigin
    <3>3. users[j].affiliated = tag
      BY <3>1, <3>2
    <3>4. j = id
      BY <1>1, <1>3, <2>1, <3>3
    <3> QED BY <3>2, <3>4
  <2> HIDE DEF u
  <2>5. UsersOf(data, tag) = {u}
    BY <2>2, <2>3, <2>4 DEF UsersOf
  <2>6. TheOnly({u}) = u
    BY DEF TheOnly
  <2>7. TagRecord(data, tag).kind = "user" /\ TagRecord(data, tag).name = users[id].name
    BY <2>3, <2>5, <2>6 DEF TagRecord
  <2>8. {w \in mine : w.affiliated = tag} = {users[id]}
    BY <1>1, <1>3, <1>4, <2>1
  <2>9. tag \in DOMAIN lookup /\ lookup[tag] = {users[id].name}
    <3>1. tag \in DOMAIN lookup
      BY <1>2, <2>1, <2>8
    <3> QED BY <1>2, <2>8, <3>1
  <2>10. ShownName(data, tag) = users[id].name
    BY <2>9, JoinedOne DEF ShownName, lookup
  <2> QED BY <2>7, <2>9, <2>10 DEF lookup
<1>6. CASE ~\E id \in DOMAIN users : users[id].affiliated = tag
  <2>1. tag \notin DOMAIN lookup
    BY <1>2, <1>6
  <2>2. UsersOf(data, tag) = {}
    <3> SUFFICES ASSUME NEW w \in UsersOf(data, tag) PROVE FALSE
      OBVIOUS
    <3>1. w \in NormalizeUserInventory(data) /\ w.affiliated_group_id = tag
      BY DEF UsersOf
    <3>2. PICK j \in DOMAIN users :
              w = [user_id |-> UserId(data, j),
                   name |-> FirstOf(<<users[j].name, UserId(data, j)>>),
                   affiliated_group_id |-> users[j].affiliated]
      BY <3>1, UserOrigin
    <3> QED BY <1>6, <3>1, <3>2
  <2> QED BY <2>1, <2>2 DEF TagRecord, ShownName, At, lookup
<1> QED BY <1>5, <1>6

-----------------------------------------------------------------------------
(* What a regular payload makes of hosts, rules and networks.              *)

\* A host of a view is one of the payload, of either list.
LEMMA HostOrigin ==
    ASSUME NEW data, NEW h \in NormalizeHostInventory(data)
    PROVE  \E raw \in data.hosts \cup data.peers :
              /\ raw.id # None
              /\ h.mac = ResolvedAddress(raw) /\ h.network = raw.intf /\ h.tags = raw.tags
              /\ h.group = ResolveHostMembership(raw.tags, data).label
              /\ h.membership = ResolveHostMembership(raw.tags, data).kind
              /\ h.peer = (raw.prefix # None)
              /\ \/ raw \in data.hosts /\ h = NormalizeHost(raw, data)
                 \/ /\ raw \in data.peers /\ h = NormalizeVpnPeer(raw, data)
                    /\ \A r \in data.hosts : r.id # None => r.prefix # raw.prefix
<1>1. ASSUME NEW raw, NEW name, NEW aliases, NEW stale, NEW users
      PROVE  LET g == HostRuntime(raw, name, aliases, stale, users, data) IN
             /\ g.mac = ResolvedAddress(raw) /\ g.network = raw.intf /\ g.tags = raw.tags
             /\ g.group = ResolveHostMembership(raw.tags, data).label
             /\ g.membership = ResolveHostMembership(raw.tags, data).kind
             /\ g.peer = (raw.prefix # None)
  BY DEF HostRuntime
<1>2. CASE \E raw \in data.hosts : raw.id # None /\ h = NormalizeHost(raw, data)
  BY <1>1, <1>2 DEF NormalizeHost
<1>3. CASE \E raw \in data.peers :
              /\ raw.id # None /\ h = NormalizeVpnPeer(raw, data)
              /\ \A r \in data.hosts : r.id # None => r.prefix # raw.prefix
  BY <1>1, <1>3 DEF NormalizeVpnPeer
<1> QED BY <1>2, <1>3 DEF NormalizeHostInventory

\* An address is one host's.
LEMMA MacsUnique ==
    ASSUME NEW data, Regular(data), NEW g \in NormalizeHostInventory(data),
           NEW h \in NormalizeHostInventory(data), g.mac = h.mac
    PROVE  g = h
<1>1. PICK r \in data.hosts \cup data.peers :
          /\ r.id # None /\ g.mac = ResolvedAddress(r)
          /\ \/ r \in data.hosts /\ g = NormalizeHost(r, data)
             \/ /\ r \in data.peers /\ g = NormalizeVpnPeer(r, data)
                /\ \A q \in data.hosts : q.id # None => q.prefix # r.prefix
  BY HostOrigin
<1>2. PICK s \in data.hosts \cup data.peers :
          /\ s.id # None /\ h.mac = ResolvedAddress(s)
          /\ \/ s \in data.hosts /\ h = NormalizeHost(s, data)
             \/ /\ s \in data.peers /\ h = NormalizeVpnPeer(s, data)
                /\ \A q \in data.hosts : q.id # None => q.prefix # s.prefix
  BY HostOrigin
<1>3. None \notin {r.id, s.id} /\ ResolvedAddress(r) = ResolvedAddress(s)
  BY <1>1, <1>2
<1>4. /\ r \in data.hosts /\ s \in data.hosts => r = s
      /\ r \in data.peers /\ s \in data.peers => r = s
      /\ r \in data.hosts /\ s \in data.peers => r.prefix = s.prefix
      /\ r \in data.peers /\ s \in data.hosts => r.prefix = s.prefix
  BY <1>3 DEF Regular, OwnAddresses
<1> QED BY <1>1, <1>2, <1>4

\* So is the id of a rule.
LEMMA RuleOrigin ==
    ASSUME NEW data, NEW s \in NormalizePolicyRules(data)
    PROVE  \E r \in data.rules :
              /\ None \notin {r.pid, r.action, r.target, r.type}
              /\ s = [id |-> r.pid, on |-> RuleEnabled(r.disabled), action |-> r.action,
                      type |-> r.type, alarm |-> r.aid,
                      applies |-> ResolveRuleApplicability(r, data),
                      purpose |-> r.purpose, system |-> SystemManagedReasons(r) # {}]
BY DEF NormalizePolicyRules

\* No two rules of a view have the same id.
LEMMA RulesUnique ==
    ASSUME NEW data, Regular(data), NEW s \in NormalizePolicyRules(data),
           NEW t \in NormalizePolicyRules(data), s.id = t.id
    PROVE  s = t
<1>1. PICK q \in data.rules :
          /\ None \notin {q.pid, q.action, q.target, q.type}
          /\ s = [id |-> q.pid, on |-> RuleEnabled(q.disabled), action |-> q.action,
                  type |-> q.type, alarm |-> q.aid,
                  applies |-> ResolveRuleApplicability(q, data),
                  purpose |-> q.purpose, system |-> SystemManagedReasons(q) # {}]
  BY RuleOrigin
<1>2. PICK r \in data.rules :
          /\ None \notin {r.pid, r.action, r.target, r.type}
          /\ t = [id |-> r.pid, on |-> RuleEnabled(r.disabled), action |-> r.action,
                  type |-> r.type, alarm |-> r.aid,
                  applies |-> ResolveRuleApplicability(r, data),
                  purpose |-> r.purpose, system |-> SystemManagedReasons(r) # {}]
  BY RuleOrigin
<1>3. q.pid = r.pid /\ q.pid # None
  BY <1>1, <1>2
<1>4. q = r
  BY <1>3 DEF Regular, OwnIds
<1> QED BY <1>1, <1>2, <1>4

\* What a function makes of a finite set is finite, and as large when it is one to one.
LEMMA ImageOf ==
    ASSUME NEW S, IsFiniteSet(S), NEW f, f = [x \in S |-> f[x]]
    PROVE  LET T == {f[x] : x \in S} IN
           /\ IsFiniteSet(T)
           /\ (\A x, y \in S : f[x] = f[y] => x = y) => Cardinality(T) = Cardinality(S)
<1> DEFINE T == {f[x] : x \in S}
<1>1. f \in [S -> T]
  OBVIOUS
<1>2. f \in Surjection(S, T)
  BY <1>1 DEF Surjection
<1>3. IsFiniteSet(T)
  BY <1>2, FS_Surjection
<1>4. ASSUME \A x, y \in S : f[x] = f[y] => x = y
      PROVE  Cardinality(T) = Cardinality(S)
  <2>1. f \in Injection(S, T)
    BY <1>1, <1>4 DEF Injection, IsInjective
  <2>2. ExistsBijection(S, T)
    BY <1>2, <2>1 DEF ExistsBijection, Bijection
  <2> QED BY <2>2, FS_Bijection
<1> QED BY <1>3, <1>4

\* A view has finitely many hosts and rules.
LEMMA FiniteView ==
    ASSUME NEW data, Regular(data)
    PROVE  /\ IsFiniteSet(NormalizeHostInventory(data))
           /\ IsFiniteSet(NormalizePolicyRules(data))
<1>1. /\ IsFiniteSet(data.hosts) /\ IsFiniteSet(data.peers) /\ IsFiniteSet(data.rules)
  BY DEF Regular
<1> DEFINE hosts == {raw \in data.hosts : raw.id # None}
           listed == {raw.prefix : raw \in hosts}
           peers == {raw \in data.peers : raw.id # None /\ raw.prefix \notin listed}
           mine == {NormalizeHost(raw, data) : raw \in hosts}
           theirs == {NormalizeVpnPeer(raw, data) : raw \in peers}
<1>2. NormalizeHostInventory(data) = mine \cup theirs
  BY DEF NormalizeHostInventory
<1>3. IsFiniteSet(hosts) /\ IsFiniteSet(peers)
  BY <1>1, FS_Subset
<1> HIDE DEF hosts, peers
<1>4. IsFiniteSet(mine) /\ IsFiniteSet(theirs)
  <2> DEFINE f == [raw \in hosts |-> NormalizeHost(raw, data)]
             g == [raw \in peers |-> NormalizeVpnPeer(raw, data)]
  <2>1. /\ f = [raw \in hosts |-> f[raw]] /\ {f[raw] : raw \in hosts} = mine
        /\ g = [raw \in peers |-> g[raw]] /\ {g[raw] : raw \in peers} = theirs
    OBVIOUS
  <2> HIDE DEF f, g, mine, theirs
  <2> QED BY <1>3, <2>1, ImageOf
<1>5. IsFiniteSet(NormalizeHostInventory(data))
  BY <1>2, <1>4, FS_Union
<1> DEFINE rules == {s \in data.rules : None \notin {s.pid, s.action, s.target, s.type}}
<1>6. IsFiniteSet(rules)
  BY <1>1, FS_Subset
<1> HIDE DEF rules
<1> DEFINE Of(r) == [id |-> r.pid, on |-> RuleEnabled(r.disabled), action |-> r.action,
                     type |-> r.type, alarm |-> r.aid,
                     applies |-> ResolveRuleApplicability(r, data),
                     purpose |-> r.purpose, system |-> SystemManagedReasons(r) # {}]
           f == [r \in rules |-> Of(r)]
<1>7. f = [r \in rules |-> f[r]] /\ {f[r] : r \in rules} = NormalizePolicyRules(data)
  BY DEF NormalizePolicyRules, rules
<1> HIDE DEF f
<1>8. IsFiniteSet({f[r] : r \in rules})
  BY <1>6, <1>7, ImageOf
<1> QED BY <1>5, <1>7, <1>8

-----------------------------------------------------------------------------
(* Counts.                                                                 *)

\* Hosts are counted by their address, rules by their id.
LEMMA HostsListed ==
    ASSUME NEW data, Regular(data), NEW view, view = BuildRuntimeSnapshot(data), NEW macs,
           NEW S \in SUBSET view.hosts, macs = {h.mac : h \in S}
    PROVE  Cardinality(macs) = Cardinality(S)
<1>1. view.hosts = NormalizeHostInventory(data)
  BY DEF BuildRuntimeSnapshot
<1>2. IsFiniteSet(S)
  BY <1>1, FiniteView, FS_Subset
<1> DEFINE f == [h \in S |-> h.mac]
<1>3. f = [h \in S |-> f[h]] /\ {f[h] : h \in S} = {h.mac : h \in S}
  OBVIOUS
<1>4. \A g, h \in S : f[g] = f[h] => g = h
  BY <1>1, MacsUnique
<1> HIDE DEF f
<1> QED BY <1>2, <1>3, <1>4, ImageOf

\* A list of rules counts the rules it lists.
LEMMA RulesListed ==
    ASSUME NEW data, Regular(data), NEW view, view = BuildRuntimeSnapshot(data), NEW wanted,
           NEW S \in SUBSET view.rules, GetRules(view, wanted) = {r.id : r \in S}
    PROVE  Cardinality(GetRules(view, wanted)) = Cardinality(S)
<1>1. view.rules = NormalizePolicyRules(data)
  BY DEF BuildRuntimeSnapshot
<1>2. IsFiniteSet(S)
  BY <1>1, FiniteView, FS_Subset
<1> DEFINE f == [r \in S |-> r.id]
<1>3. f = [r \in S |-> f[r]] /\ {f[r] : r \in S} = {r.id : r \in S}
  OBVIOUS
<1>4. \A q, r \in S : f[q] = f[r] => q = r
  BY <1>1, RulesUnique
<1> HIDE DEF f
<1> QED BY <1>2, <1>3, <1>4, ImageOf

\* What each filter of the counted lists keeps.
LEMMA Filters ==
    ASSUME NEW h, NEW tags, NEW reference
    PROVE  /\ MatchesFilters(h, <<>>, tags, reference)
           /\ MatchesFilters(h, [kind |-> "pseudo_host"], tags, reference)
                 <=> ~SupportsWakeOnLan(h.mac)
           /\ MatchesFilters(h, [online |-> TRUE], tags, reference)
                 <=> IsHostOnline(h, reference) = TRUE
           /\ MatchesFilters(h, [kind |-> "pseudo_host", online |-> TRUE], tags, reference)
                 <=> ~SupportsWakeOnLan(h.mac) /\ IsHostOnline(h, reference) = TRUE
<1>1. MatchesFilters(h, <<>>, tags, reference)
  BY DEF MatchesFilters
<1>2. MatchesFilters(h, [kind |-> "pseudo_host"], tags, reference)
          <=> ~SupportsWakeOnLan(h.mac)
  BY DEF MatchesFilters, Value
<1>3. MatchesFilters(h, [online |-> TRUE], tags, reference)
          <=> IsHostOnline(h, reference) = TRUE
  BY DEF MatchesFilters, Value
<1>4. MatchesFilters(h, [kind |-> "pseudo_host", online |-> TRUE], tags, reference)
          <=> ~SupportsWakeOnLan(h.mac) /\ IsHostOnline(h, reference) = TRUE
  BY DEF MatchesFilters, Value
<1> QED BY <1>1, <1>2, <1>3, <1>4

\* What the list of hosts picks when it is asked for those of a network.
LEMMA NetworkFilters ==
    ASSUME NEW h, NEW tags, NEW reference, NEW id
    PROVE  /\ MatchesFilters(h, [network_uuid |-> id], tags, reference) <=> h.network = id
           /\ MatchesFilters(h, [network_uuid |-> id, online |-> TRUE], tags, reference)
                 <=> h.network = id /\ IsHostOnline(h, reference) = TRUE
<1>1. MatchesFilters(h, [network_uuid |-> id], tags, reference) <=> h.network = id
  BY DEF MatchesFilters, Value
<1>2. MatchesFilters(h, [network_uuid |-> id, online |-> TRUE], tags, reference)
          <=> h.network = id /\ IsHostOnline(h, reference) = TRUE
  BY DEF MatchesFilters, Value
<1> QED BY <1>1, <1>2

\* Of the hosts without a MAC the strays are those that are no VPN peers.
LEMMA PeersApart ==
    ASSUME NEW data, Regular(data), NEW view, view = BuildRuntimeSnapshot(data),
           NEW S \in SUBSET view.hosts
    PROVE  {h.mac : h \in {g \in S : ~SupportsWakeOnLan(g.mac)}} \ Strays(view) =
               {h.mac : h \in {g \in S : g.peer}}
<1>1. view.hosts = NormalizeHostInventory(data)
  BY DEF BuildRuntimeSnapshot
<1>2. ASSUME NEW h \in view.hosts
      PROVE  h.peer \in BOOLEAN /\ (h.peer => ~SupportsWakeOnLan(h.mac))
  <2>1. PICK raw \in data.hosts \cup data.peers :
            h.mac = ResolvedAddress(raw) /\ h.peer = (raw.prefix # None)
    BY <1>1, <1>2, HostOrigin
  <2>2. raw.prefix # None => ResolvedAddress(raw) \notin MacAddresses
    BY DEF Regular, OwnAddresses
  <2> QED BY <2>1, <2>2 DEF SupportsWakeOnLan
<1>3. \A g, h \in view.hosts : g.mac = h.mac => g = h
  BY <1>1, MacsUnique
<1>4. ASSUME NEW h \in S, ~SupportsWakeOnLan(h.mac)
      PROVE  h.mac \notin Strays(view) <=> h.peer
  BY <1>2, <1>3, <1>4 DEF Strays
<1> QED BY <1>2, <1>4

\* The overview counts the hosts the list shows.
LEMMA HostsCounted ==
    ASSUME NEW data, Regular(data), NEW view, view = BuildRuntimeSnapshot(data)
    PROVE  HostCounts(view) =
             [hosts |-> Cardinality(GetHosts(view, <<>>)),
              peers |-> Cardinality(GetHosts(view, [kind |-> "pseudo_host"]) \ Strays(view)),
              online |-> Cardinality(GetHosts(view, [online |-> TRUE])),
              peersOnline |-> Cardinality(GetHosts(view, [kind |-> "pseudo_host",
                                                          online |-> TRUE]) \ Strays(view))]
<1> DEFINE reference == ReferenceLastActive(view)
           peers == {h \in view.hosts : h.peer}
           pseudo == {h \in view.hosts : ~SupportsWakeOnLan(h.mac)}
           Online(S) == {h \in S : IsHostOnline(h, reference) = TRUE}
<1>1. /\ {h.mac : h \in pseudo} \ Strays(view) = {h.mac : h \in peers}
      /\ {h.mac : h \in Online(pseudo)} \ Strays(view) = {h.mac : h \in Online(peers)}
  <2>1. {h.mac : h \in pseudo} \ Strays(view) = {h.mac : h \in peers}
    BY PeersApart
  <2> DEFINE S == Online(view.hosts)
  <2>2. {h.mac : h \in {g \in S : ~SupportsWakeOnLan(g.mac)}} \ Strays(view) =
            {h.mac : h \in {g \in S : g.peer}}
    BY PeersApart
  <2>3. /\ {g \in S : ~SupportsWakeOnLan(g.mac)} = Online(pseudo)
        /\ {g \in S : g.peer} = Online(peers)
    OBVIOUS
  <2> QED BY <2>1, <2>2, <2>3
<1>2. /\ GetHosts(view, <<>>) = {h.mac : h \in view.hosts}
      /\ GetHosts(view, [kind |-> "pseudo_host"]) = {h.mac : h \in pseudo}
      /\ GetHosts(view, [online |-> TRUE]) = {h.mac : h \in Online(view.hosts)}
      /\ GetHosts(view, [kind |-> "pseudo_host", online |-> TRUE]) =
             {h.mac : h \in Online(pseudo)}
  <2>1. ASSUME NEW wanted
        PROVE  \E tags : GetHosts(view, wanted) =
                  {h.mac : h \in {g \in view.hosts : MatchesFilters(g, wanted, tags, reference)}}
    BY DEF GetHosts
  <2> HIDE DEF reference
  <2>2. GetHosts(view, <<>>) = {h.mac : h \in view.hosts}
    <3>1. PICK tags : GetHosts(view, <<>>) =
              {h.mac : h \in {g \in view.hosts : MatchesFilters(g, <<>>, tags, reference)}}
      BY <2>1
    <3>2. {g \in view.hosts : MatchesFilters(g, <<>>, tags, reference)} = view.hosts
      BY Filters
    <3> QED BY <3>1, <3>2
  <2>3. GetHosts(view, [kind |-> "pseudo_host"]) = {h.mac : h \in pseudo}
    <3> DEFINE wanted == [kind |-> "pseudo_host"]
    <3>1. PICK tags : GetHosts(view, wanted) =
              {h.mac : h \in {g \in view.hosts : MatchesFilters(g, wanted, tags, reference)}}
      BY <2>1
    <3>2. {g \in view.hosts : MatchesFilters(g, wanted, tags, reference)} = pseudo
      BY Filters
    <3> QED BY <3>1, <3>2
  <2>4. GetHosts(view, [online |-> TRUE]) = {h.mac : h \in Online(view.hosts)}
    <3> DEFINE wanted == [online |-> TRUE]
    <3>1. PICK tags : GetHosts(view, wanted) =
              {h.mac : h \in {g \in view.hosts : MatchesFilters(g, wanted, tags, reference)}}
      BY <2>1
    <3>2. {g \in view.hosts : MatchesFilters(g, wanted, tags, reference)} = Online(view.hosts)
      BY Filters
    <3> QED BY <3>1, <3>2
  <2>5. GetHosts(view, [kind |-> "pseudo_host", online |-> TRUE]) =
            {h.mac : h \in Online(pseudo)}
    <3> DEFINE wanted == [kind |-> "pseudo_host", online |-> TRUE]
    <3>1. PICK tags : GetHosts(view, wanted) =
              {h.mac : h \in {g \in view.hosts : MatchesFilters(g, wanted, tags, reference)}}
      BY <2>1
    <3>2. {g \in view.hosts : MatchesFilters(g, wanted, tags, reference)} = Online(pseudo)
      BY Filters
    <3> QED BY <3>1, <3>2
  <2> QED BY <2>2, <2>3, <2>4, <2>5
<1>3. HostCounts(view) = [hosts |-> Cardinality(view.hosts), peers |-> Cardinality(peers),
                          online |-> Cardinality(Online(view.hosts)),
                          peersOnline |-> Cardinality(Online(peers))]
  BY DEF HostCounts, CountOnlineHosts
<1>4. /\ peers \in SUBSET view.hosts /\ Online(view.hosts) \in SUBSET view.hosts
      /\ Online(peers) \in SUBSET view.hosts
  OBVIOUS
<1> DEFINE online == Online(view.hosts)
           peersOnline == Online(peers)
<1> HIDE DEF reference, peers, pseudo, online, peersOnline
<1>5. /\ Cardinality(GetHosts(view, <<>>)) = Cardinality(view.hosts)
      /\ Cardinality(GetHosts(view, [kind |-> "pseudo_host"]) \ Strays(view)) =
             Cardinality(peers)
      /\ Cardinality(GetHosts(view, [online |-> TRUE])) = Cardinality(online)
      /\ Cardinality(GetHosts(view, [kind |-> "pseudo_host", online |-> TRUE]) \ Strays(view)) =
             Cardinality(peersOnline)
  BY <1>1, <1>2, <1>4, HostsListed DEF online, peersOnline
<1> QED BY <1>3, <1>5 DEF online, peersOnline

\* So it does the rules.
LEMMA RulesCounted ==
    ASSUME NEW data, Regular(data), NEW view, view = BuildRuntimeSnapshot(data)
    PROVE  LET counts == RuleCounts(view) IN
           /\ counts.visible = Cardinality(GetRules(view, <<>>))
           /\ counts.enabled = Cardinality(GetRules(view, [enabled |-> TRUE]))
           /\ counts.rules = Cardinality(GetRules(view,
                  [include_purpose |-> HiddenPurposes, include_system_managed |-> TRUE]))
<1> DEFINE visible == {r \in view.rules : IsUserVisible(r)}
           enabled == {r \in view.rules : IsUserVisible(r) /\ r.on}
           all == [include_purpose |-> HiddenPurposes, include_system_managed |-> TRUE]
<1>1. \A r \in view.rules : r.on \in BOOLEAN /\ r.system \in BOOLEAN
  <2>1. view.rules = NormalizePolicyRules(data)
    BY DEF BuildRuntimeSnapshot
  <2>2. \A raw : RuleEnabled(raw.disabled) \in BOOLEAN
    BY DEF RuleEnabled
  <2>3. ASSUME NEW r \in view.rules PROVE r.on \in BOOLEAN /\ r.system \in BOOLEAN
    <3>1. \E raw \in data.rules :
             r.on = RuleEnabled(raw.disabled) /\ r.system = (SystemManagedReasons(raw) # {})
      BY <2>1, RuleOrigin
    <3> QED BY <2>2, <3>1
  <2> QED BY <2>3
<1>2. GetRules(view, <<>>) = {r.id : r \in visible}
  <2>1. GetRules(view, <<>>) = {r.id : r \in {s \in view.rules :
            /\ IsUserVisible(s) \/ s.purpose \in {} \/ (FALSE /\ s.system)
            /\ s.on = s.on /\ s.action = s.action /\ s.type = s.type /\ s.alarm = s.alarm}}
    BY DEF GetRules, Value
  <2> QED BY <2>1
<1>3. GetRules(view, [enabled |-> TRUE]) = {r.id : r \in enabled}
  <2>1. GetRules(view, [enabled |-> TRUE]) = {r.id : r \in {s \in view.rules :
            /\ IsUserVisible(s) \/ s.purpose \in {} \/ (FALSE /\ s.system)
            /\ s.on = TRUE /\ s.action = s.action /\ s.type = s.type /\ s.alarm = s.alarm}}
    BY DEF GetRules, Value
  <2>2. {s \in view.rules :
            /\ IsUserVisible(s) \/ s.purpose \in {} \/ (FALSE /\ s.system)
            /\ s.on = TRUE /\ s.action = s.action /\ s.type = s.type /\ s.alarm = s.alarm}
        = enabled
    BY <1>1
  <2> QED BY <2>1, <2>2
<1>4. GetRules(view, all) = {r.id : r \in view.rules}
  <2>1. GetRules(view, all) = {r.id : r \in {s \in view.rules :
            /\ IsUserVisible(s) \/ s.purpose \in HiddenPurposes \/ (TRUE /\ s.system)
            /\ s.on = s.on /\ s.action = s.action /\ s.type = s.type /\ s.alarm = s.alarm}}
    BY DEF GetRules, Value
  <2>2. {s \in view.rules :
            /\ IsUserVisible(s) \/ s.purpose \in HiddenPurposes \/ (TRUE /\ s.system)
            /\ s.on = s.on /\ s.action = s.action /\ s.type = s.type /\ s.alarm = s.alarm}
        = view.rules
    BY <1>1 DEF IsUserVisible
  <2> QED BY <2>1, <2>2
<1>5. /\ RuleCounts(view).rules = Cardinality(view.rules)
      /\ RuleCounts(view).visible = Cardinality(visible)
      /\ RuleCounts(view).enabled = Cardinality(enabled)
  BY DEF RuleCounts
<1>6. visible \in SUBSET view.rules /\ enabled \in SUBSET view.rules
  OBVIOUS
<1> HIDE DEF visible, enabled, all
<1>7. /\ Cardinality(GetRules(view, <<>>)) = Cardinality(visible)
      /\ Cardinality(GetRules(view, [enabled |-> TRUE])) = Cardinality(enabled)
      /\ Cardinality(GetRules(view, all)) = Cardinality(view.rules)
  <2>1. Cardinality(GetRules(view, <<>>)) = Cardinality(visible)
    BY <1>2, <1>6, RulesListed
  <2>2. Cardinality(GetRules(view, [enabled |-> TRUE])) = Cardinality(enabled)
    BY <1>3, <1>6, RulesListed
  <2>3. view.rules \in SUBSET view.rules
    OBVIOUS
  <2>4. Cardinality(GetRules(view, all)) = Cardinality(view.rules)
    BY <1>4, <2>3, RulesListed
  <2> QED BY <2>1, <2>2, <2>4
<1> QED BY <1>5, <1>7 DEF all

\* A network of a registry that keeps its uuids apart has a uuid of its own.
UuidsApart(networks) == \A m, n \in networks : m.uuid = n.uuid => m = n

\* Replacing networks by those that are named keeps their ids apart.
LEMMA ReplacedApart ==
    ASSUME NEW networks, UuidsApart(networks), NEW named, UuidsApart(named)
    PROVE  UuidsApart(Replace(networks, named))
BY DEF UuidsApart, Replace, WithUuid

\* No two networks of a view have the same id, and one with an interface is of it.
LEMMA NetworksUnique ==
    ASSUME NEW data, Regular(data)
    PROVE  /\ UuidsApart(BuildNetworkInventory(data))
           /\ \A n \in BuildNetworkInventory(data) :
                 n.interface # None => n \in NetworkInterfaceEntries(data)
<1>1. UuidsApart(Registry(data)) /\ Registry(data) \subseteq NetworkInterfaceEntries(data)
  <2>1. ASSUME NEW m \in NetworkInterfaceEntries(data), NEW n \in NetworkInterfaceEntries(data),
               m.uuid = n.uuid
        PROVE  m = n
    <3>1. PICK i \in data.interfaces :
              /\ i.uuid # None
              /\ m = [uuid |-> i.uuid, name |-> FirstOf(<<i.name, i.interface>>),
                      kind |-> NetworkKind(i.category), interface |-> i.interface]
      BY DEF NetworkInterfaceEntries
    <3>2. PICK j \in data.interfaces :
              /\ j.uuid # None
              /\ n = [uuid |-> j.uuid, name |-> FirstOf(<<j.name, j.interface>>),
                      kind |-> NetworkKind(j.category), interface |-> j.interface]
      BY DEF NetworkInterfaceEntries
    <3>3. i.uuid = j.uuid
      BY <2>1, <3>1, <3>2
    <3>4. i = j
      BY <3>1, <3>3 DEF Regular, OwnIds
    <3> QED BY <3>1, <3>2, <3>4
  <2> QED BY <2>1 DEF UuidsApart, Registry
<1> DEFINE with == WithProfiles(Registry(data), data)
<1>2. UuidsApart(with) /\ \A n \in with : n.interface # None => n \in Registry(data)
  <2> DEFINE networks == Registry(data)
             Name(p) == FirstOf(p.names)
             Kind(p) == LET known == WithUuid(networks, p.uuid)
                        IN  IF known = {} THEN "lan" ELSE TheOnly(known).kind
             named == {[uuid |-> p.uuid, name |-> Name(p), kind |-> Kind(p),
                        interface |-> None] :
                          p \in {q \in data.profiles :
                                    Unnamed(networks, q.uuid) /\ Name(q) \notin {None, q.uuid}}}
  <2>1. with = Replace(networks, named)
    BY DEF WithProfiles
  <2>2. ASSUME NEW m \in named, NEW n \in named, m.uuid = n.uuid PROVE m = n
    <3>1. PICK p \in data.profiles : m = [uuid |-> p.uuid, name |-> Name(p), kind |-> Kind(p),
                                          interface |-> None]
      OBVIOUS
    <3>2. PICK q \in data.profiles : n = [uuid |-> q.uuid, name |-> Name(q), kind |-> Kind(q),
                                          interface |-> None]
      OBVIOUS
    <3>3. p.uuid = q.uuid
      BY <2>2, <3>1, <3>2
    <3>4. p = q
      BY <3>3 DEF Regular, OwnIds
    <3> QED BY <3>1, <3>2, <3>4
  <2>3. \A n \in named : n.interface = None
    OBVIOUS
  <2> HIDE DEF networks, named, with
  <2>4. UuidsApart(with)
    BY <1>1, <2>1, <2>2, ReplacedApart DEF UuidsApart, networks
  <2> QED BY <2>1, <2>3, <2>4 DEF Replace, networks
<1> DEFINE all == WithWanStatus(with, data)
<1>3. UuidsApart(all) /\ \A n \in all : n.interface # None => n \in with
  <2> HIDE DEF with
  <2> DEFINE named == {[uuid |-> s.uuid, name |-> FirstOf(<<s.name, s.uuid>>), kind |-> "wan",
                        interface |-> None] :
                          s \in {r \in data.statuses : Unnamed(with, r.uuid)}}
  <2>1. all = Replace(with, named)
    BY DEF WithWanStatus
  <2>2. ASSUME NEW m \in named, NEW n \in named, m.uuid = n.uuid PROVE m = n
    <3>1. PICK s \in data.statuses :
              m = [uuid |-> s.uuid, name |-> FirstOf(<<s.name, s.uuid>>), kind |-> "wan",
                   interface |-> None]
      OBVIOUS
    <3>2. PICK t \in data.statuses :
              n = [uuid |-> t.uuid, name |-> FirstOf(<<t.name, t.uuid>>), kind |-> "wan",
                   interface |-> None]
      OBVIOUS
    <3>3. s.uuid = t.uuid
      BY <2>2, <3>1, <3>2
    <3>4. s = t
      BY <3>3 DEF Regular, OwnIds
    <3> QED BY <3>1, <3>2, <3>4
  <2>3. ASSUME NEW n \in named PROVE n.interface = None
    <3>1. PICK s \in data.statuses :
              n = [uuid |-> s.uuid, name |-> FirstOf(<<s.name, s.uuid>>), kind |-> "wan",
                   interface |-> None]
      OBVIOUS
    <3> QED BY <3>1
  <2> HIDE DEF named, all
  <2>4. UuidsApart(all)
    BY <1>2, <2>1, <2>2, ReplacedApart DEF UuidsApart
  <2> QED BY <2>1, <2>3, <2>4 DEF Replace
<1>4. BuildNetworkInventory(data) = all
  BY DEF BuildNetworkInventory
<1> HIDE DEF all, with
<1> QED BY <1>1, <1>2, <1>3, <1>4

\* The overview counts on a network the hosts the list shows there.
LEMMA NetworksCounted ==
    ASSUME NEW data, Regular(data), NEW view, view = BuildRuntimeSnapshot(data),
           NEW n \in view.networks, n.kind # "vpn",
           n.interface # None \/ \A h \in view.hosts : h.network # None
    PROVE  NetworkCounts(view)[n.uuid] =
               [hosts |-> Cardinality(GetHosts(view, [network_uuid |-> n.uuid])),
                online |-> Cardinality(GetHosts(view, [network_uuid |-> n.uuid,
                                                       online |-> TRUE]))]
<1> DEFINE reference == ReferenceLastActive(view)
           mine == {h \in view.hosts : h.network = n.uuid}
           online == {h \in mine : IsHostOnline(h, reference) = TRUE}
<1>1. view.networks = BuildNetworkInventory(data) /\ view.hosts = NormalizeHostInventory(data)
  BY DEF BuildRuntimeSnapshot
<1>2. \A m \in view.networks : m.uuid = n.uuid => m = n
  BY <1>1, NetworksUnique DEF UuidsApart
<1>3. ASSUME NEW h \in view.hosts, h.network = n.interface PROVE h.network = n.uuid
  <2>1. n.interface # None
    BY <1>3
  <2>2. n \in NetworkInterfaceEntries(data)
    BY <1>1, <2>1, NetworksUnique
  <2>3. PICK i \in data.interfaces : n.kind = NetworkKind(i.category) /\ n.interface = i.interface
    <3>1. PICK i \in data.interfaces :
              n = [uuid |-> i.uuid, name |-> FirstOf(<<i.name, i.interface>>),
                   kind |-> NetworkKind(i.category), interface |-> i.interface]
      BY <2>2 DEF NetworkInterfaceEntries
    <3> QED BY <3>1
  <2>4. PICK raw \in data.hosts \cup data.peers : h.network = raw.intf
    BY <1>1, HostOrigin
  <2>5. NetworkKind(i.category) = "vpn"
    BY <1>3, <2>1, <2>3, <2>4 DEF Regular, OwnNetworks
  <2> QED BY <2>3, <2>5
<1>4. NetworkCounts(view)[n.uuid] = [hosts |-> Cardinality(mine),
                                     online |-> Cardinality(online)]
  <2> DEFINE near(uuid) == {h \in view.hosts : \E m \in view.networks :
                               m.uuid = uuid /\ h.network \in {m.uuid, m.interface}}
  <2>1. near(n.uuid) = mine
    BY <1>2, <1>3
  <2>2. n.uuid \in {m.uuid : m \in view.networks}
    OBVIOUS
  <2>3. NetworkCounts(view)[n.uuid] = [hosts |-> Cardinality(near(n.uuid)),
                                      online |-> CountOnlineHosts(near(n.uuid), reference)]
    BY <2>2 DEF NetworkCounts
  <2> HIDE DEF near, mine, reference
  <2> QED BY <2>1, <2>3 DEF CountOnlineHosts
<1>5. /\ GetHosts(view, [network_uuid |-> n.uuid]) = {h.mac : h \in mine}
      /\ GetHosts(view, [network_uuid |-> n.uuid, online |-> TRUE]) = {h.mac : h \in online}
  <2>1. ASSUME NEW wanted
        PROVE  \E tags : GetHosts(view, wanted) =
                  {h.mac : h \in {g \in view.hosts : MatchesFilters(g, wanted, tags, reference)}}
    BY DEF GetHosts
  <2> HIDE DEF reference
  <2>2. GetHosts(view, [network_uuid |-> n.uuid]) = {h.mac : h \in mine}
    <3> DEFINE wanted == [network_uuid |-> n.uuid]
    <3>1. PICK tags : GetHosts(view, wanted) =
              {h.mac : h \in {g \in view.hosts : MatchesFilters(g, wanted, tags, reference)}}
      BY <2>1
    <3>2. \A g : MatchesFilters(g, wanted, tags, reference) <=> g.network = n.uuid
      BY NetworkFilters
    <3> HIDE DEF wanted
    <3>3. {g \in view.hosts : MatchesFilters(g, wanted, tags, reference)} = mine
      BY <3>2
    <3> QED BY <3>1, <3>3 DEF wanted
  <2>3. GetHosts(view, [network_uuid |-> n.uuid, online |-> TRUE]) = {h.mac : h \in online}
    <3> DEFINE wanted == [network_uuid |-> n.uuid, online |-> TRUE]
    <3>1. PICK tags : GetHosts(view, wanted) =
              {h.mac : h \in {g \in view.hosts : MatchesFilters(g, wanted, tags, reference)}}
      BY <2>1
    <3>2. {g \in view.hosts : MatchesFilters(g, wanted, tags, reference)} = online
      BY NetworkFilters
    <3> QED BY <3>1, <3>2
  <2> QED BY <2>2, <2>3
<1>6. mine \in SUBSET view.hosts /\ online \in SUBSET view.hosts
  OBVIOUS
<1> HIDE DEF mine, online
<1>7. /\ Cardinality(GetHosts(view, [network_uuid |-> n.uuid])) = Cardinality(mine)
      /\ Cardinality(GetHosts(view, [network_uuid |-> n.uuid, online |-> TRUE])) =
             Cardinality(online)
  BY <1>5, <1>6, HostsListed
<1> QED BY <1>4, <1>7

-----------------------------------------------------------------------------
(* Who is in a group.                                                      *)

\* A host of one tag, or of none, shows the name and the kind of that tag.
LEMMA MembershipOf ==
    ASSUME NEW data, NEW tags, \A s, t \in tags : s = t
    PROVE  LET shown == ResolveHostMembership(tags, data)
               affiliated == DOMAIN AffiliatedUserLookup(data)
               named == DOMAIN NamedLookup(data.tags)
           IN  /\ \A tag \in tags : tag \in affiliated \cup named =>
                     /\ shown.label = ShownName(data, tag)
                     /\ tag \in affiliated => shown.kind = "user"
                     /\ tag \notin affiliated => shown.kind = "group"
               /\ tags \cap (affiliated \cup named) = {} => shown.label = None
<1> DEFINE affiliated == AffiliatedUserLookup(data)
           named == NamedLookup(data.tags)
           users == tags \cap DOMAIN affiliated
           groups == (tags \ users) \cap DOMAIN named
           labels == {Joined(affiliated[t]) : t \in users} \cup {named[t] : t \in groups}
           shown == ResolveHostMembership(tags, data)
<1>1. /\ shown.label = IF labels = {} THEN None ELSE Joined(labels)
      /\ users # {} /\ groups = {} => shown.kind = "user"
      /\ users = {} /\ groups # {} => shown.kind = "group"
  BY DEF ResolveHostMembership
<1> HIDE DEF affiliated, named, shown
<1>2. CASE tags \cap (DOMAIN affiliated \cup DOMAIN named) = {}
  <2>1. labels = {}
    BY <1>2
  <2> QED BY <1>1, <1>2, <2>1 DEF affiliated, named, shown
<1>3. ASSUME NEW tag \in tags, tag \in DOMAIN affiliated
      PROVE  shown.label = ShownName(data, tag) /\ shown.kind = "user"
  <2>1. tags = {tag} /\ users = {tag} /\ groups = {}
    BY <1>3
  <2>2. labels = {Joined(affiliated[tag])}
    BY <2>1
  <2>3. shown.label = Joined(labels)
    BY <1>1, <2>2
  <2> HIDE DEF labels, users, groups
  <2>4. Joined(labels) = Joined(affiliated[tag])
    BY <2>2, JoinedOne
  <2> QED BY <1>1, <1>3, <2>1, <2>3, <2>4 DEF ShownName, affiliated
<1>4. ASSUME NEW tag \in tags, tag \notin DOMAIN affiliated, tag \in DOMAIN named
      PROVE  shown.label = ShownName(data, tag) /\ shown.kind = "group"
  <2>1. tags = {tag} /\ users = {} /\ groups = {tag}
    BY <1>4
  <2>2. labels = {named[tag]}
    BY <2>1
  <2>3. shown.label = Joined(labels)
    BY <1>1, <2>2
  <2> HIDE DEF labels, users, groups
  <2>4. Joined(labels) = named[tag]
    BY <2>2, JoinedOne
  <2> QED BY <1>1, <1>4, <2>1, <2>3, <2>4 DEF ShownName, At, affiliated, named
<1> QED BY <1>2, <1>3, <1>4 DEF affiliated, named, shown

\* Asked for a group or user by name, the list has the hosts that carry its tag.
LEMMA NamesListed ==
    ASSUME NEW data, Regular(data), NEW view, view = BuildRuntimeSnapshot(data),
           NEW wanted, DOMAIN wanted = {"group_name"}, wanted.group_name # None,
           NEW h \in view.hosts, \A s, t \in h.tags : s = t
    PROVE  /\ h.mac \in GetHosts(view, wanted) <=>
                 \E t \in view.tags :
                    Fold(t.name) = Fold(wanted.group_name) /\ t.group_id \in h.tags
           /\ \A t \in view.tags : t.group_id \in h.tags => h.membership = t.kind
<1> DEFINE name == wanted.group_name
           tagged == DOMAIN NamedLookup(data.tags)
<1>1. /\ view.hosts = NormalizeHostInventory(data)
      /\ view.tags = {TagRecord(data, tag) : tag \in tagged}
  BY TagRecords DEF BuildRuntimeSnapshot
<1>2. h.mac \in GetHosts(view, wanted) <=> Fold(h.group) = Fold(name)
  <2>1. PICK tags, reference : GetHosts(view, wanted) =
            {g.mac : g \in {k \in view.hosts : MatchesFilters(k, wanted, tags, reference)}}
    BY DEF GetHosts
  <2>2. \A g : MatchesFilters(g, wanted, tags, reference) <=> Fold(g.group) = Fold(name)
    BY DEF MatchesFilters, Value
  <2>3. \A g \in view.hosts : g.mac = h.mac => g = h
    BY <1>1, MacsUnique
  <2> QED BY <2>1, <2>2, <2>3
<1>3. PICK raw \in data.hosts \cup data.peers :
          /\ h.tags = raw.tags
          /\ h.group = ResolveHostMembership(raw.tags, data).label
          /\ h.membership = ResolveHostMembership(raw.tags, data).kind
  BY <1>1, HostOrigin
<1> DEFINE shown == ResolveHostMembership(h.tags, data)
           affiliated == DOMAIN AffiliatedUserLookup(data)
<1>4. h.group = shown.label /\ h.membership = shown.kind
  BY <1>3
<1>5. affiliated \subseteq tagged
  BY DEF AffiliatedUserLookup, Regular, OwnTags
<1>6. \A tag \in tagged : /\ TagRecord(data, tag).group_id = tag
                          /\ ShownName(data, tag) = TagRecord(data, tag).name
                          /\ tag \in affiliated <=> TagRecord(data, tag).kind = "user"
                          /\ tag \notin affiliated <=> TagRecord(data, tag).kind = "group"
  BY OneName DEF TagRecord
<1> HIDE DEF tagged, affiliated, shown, name
<1>7. /\ \A tag \in h.tags : tag \in tagged =>
            /\ shown.label = ShownName(data, tag)
            /\ tag \in affiliated => shown.kind = "user"
            /\ tag \notin affiliated => shown.kind = "group"
      /\ h.tags \cap tagged = {} => shown.label = None
  BY <1>5, MembershipOf DEF shown, tagged, affiliated
<1>8. Fold(None) # Fold(name)
  BY FoldFacts DEF name
<1>9. CASE h.tags \cap tagged = {}
  BY <1>1, <1>2, <1>4, <1>6, <1>7, <1>8, <1>9 DEF name
<1>10. CASE h.tags \cap tagged # {}
  <2>1. PICK tag \in tagged : tag \in h.tags
    BY <1>10
  <2>2. h.tags = {tag}
    BY <2>1
  <2>3. h.group = TagRecord(data, tag).name /\ h.membership = TagRecord(data, tag).kind
    BY <1>4, <1>6, <1>7, <2>1
  <2>4. \A t \in view.tags : t.group_id \in h.tags <=> t = TagRecord(data, tag)
    BY <1>1, <1>6, <2>1, <2>2
  <2>5. TagRecord(data, tag) \in view.tags
    BY <1>1, <2>1
  <2> QED BY <1>2, <2>3, <2>4, <2>5 DEF name
<1> QED BY <1>9, <1>10

\* Asked for the rules of a tag by its name, the list has all of them.
LEMMA AppliesListed ==
    ASSUME NEW data, Regular(data), NEW view, view = BuildRuntimeSnapshot(data),
           NEW wanted, DOMAIN wanted = {"applies_to"}, wanted.applies_to # None,
           NEW raw \in data.rules, NEW t \in view.tags, t.name = wanted.applies_to,
           <<"tag", t.group_id>> \in raw.tag, raw.pid \in GetRules(view, <<>>)
    PROVE  raw.pid \in GetRules(view, wanted)
<1>1. /\ view.rules = NormalizePolicyRules(data)
      /\ view.tags = {TagRecord(data, tag) : tag \in DOMAIN NamedLookup(data.tags)}
  BY TagRecords DEF BuildRuntimeSnapshot
<1>2. PICK s \in view.rules : s.id = raw.pid /\ IsUserVisible(s)
  <2>1. GetRules(view, <<>>) = {r.id : r \in {s \in view.rules :
            /\ IsUserVisible(s) \/ s.purpose \in {} \/ (FALSE /\ s.system)
            /\ s.on = s.on /\ s.action = s.action /\ s.type = s.type /\ s.alarm = s.alarm}}
    BY DEF GetRules, Value
  <2> QED BY <2>1
<1>3. s.applies = ResolveRuleApplicability(raw, data)
  <2>1. PICK r \in data.rules :
            None \notin {r.pid, r.action, r.target, r.type} /\ s.id = r.pid
            /\ s.applies = ResolveRuleApplicability(r, data)
    BY <1>1, RuleOrigin
  <2>2. r = raw
    BY <1>2, <2>1 DEF Regular, OwnIds
  <2> QED BY <2>1, <2>2
<1>4. wanted.applies_to \in s.applies
  <2>1. PICK tag \in DOMAIN NamedLookup(data.tags) : t = TagRecord(data, tag)
    BY <1>1
  <2>2. t.group_id = tag
    BY <2>1 DEF TagRecord
  <2> DEFINE ref == <<"tag", tag>>
  <2>3. ResolveTagReferenceName(ref, data) = ShownName(data, tag)
    BY DEF ResolveTagReferenceName, ShownName
  <2>4. ShownName(data, tag) = wanted.applies_to
    BY <2>1, OneName
  <2>5. ref \in raw.tag
    BY <2>2
  <2> HIDE DEF ref
  <2> QED BY <1>3, <2>3, <2>4, <2>5 DEF ResolveRuleApplicability
<1>5. GetRules(view, wanted) = {r.id : r \in {q \in view.rules :
          /\ IsUserVisible(q) \/ q.purpose \in {} \/ (FALSE /\ q.system)
          /\ q.on = q.on /\ q.action = q.action /\ q.type = q.type /\ q.alarm = q.alarm
          /\ wanted.applies_to \in q.applies}}
  BY DEF GetRules, Value
<1> QED BY <1>2, <1>4, <1>5

-----------------------------------------------------------------------------
(* Sections.                                                               *)

\* Few questions can name sections or a history.
LEMMA FieldsOf ==
    ASSUME NEW service \in DOMAIN ToolFields, NEW data, Fits(data, ServiceSchema(service))
    PROVE  /\ "sections" \in DOMAIN data \/ "app_ids" \in DOMAIN data
                 => service = "get_time_usage"
           /\ "history_count" \in DOMAIN data => service = "get_wan_usage"
<1>1. DOMAIN data \subseteq RequiredFields(service) \cup ToolFields[service] \cup ServiceOnly(service)
  BY DEF Fits, ServiceSchema, Schema
<1>2. DOMAIN ToolFields =
          {"get_system_overview", "get_hosts", "get_rules", "get_network_config",
           "get_network_usage", "get_wan_usage", "get_wan_events", "get_time_usage",
           "get_flow_report", "get_internet_quality", "get_speed_tests",
           "get_live_throughput", "get_wireless_status", "get_alarms", "sync_runtime"}
  BY DEF ToolFields
<1>3. CASE service = "get_flow_report"
  <2>1. ToolFields[service] = GetFlowReportTool
    BY <1>3 DEF ToolFields
  <2>2. RequiredFields(service) = {} /\ ServiceOnly(service) = {"fetch_all_records"}
    BY <1>3 DEF RequiredFields, ServiceOnly
  <2> QED BY <1>1, <1>3, <2>1, <2>2 DEF GetFlowReportTool, ReportFields, GroupFields, UserFields
<1>4. CASE service = "get_time_usage"
  <2>1. ToolFields[service] = GetUserUsageTool
    BY <1>4 DEF ToolFields
  <2>2. ServiceOnly(service) = {} /\ "history_count" \notin RequiredFields(service)
    BY <1>4 DEF RequiredFields, ServiceOnly
  <2> QED BY <1>1, <1>4, <2>1, <2>2 DEF GetUserUsageTool, ReportFields, GroupFields, UserFields
<1>5. CASE service = "get_wan_usage"
  <2>1. ToolFields[service] = GetWanUsageTool
    BY <1>5 DEF ToolFields
  <2>2. RequiredFields(service) = {} /\ ServiceOnly(service) = {"detail"}
    BY <1>5 DEF RequiredFields, ServiceOnly
  <2> QED BY <1>1, <1>5, <2>1, <2>2 DEF GetWanUsageTool, WanFields
<1>6. CASE service \notin {"get_flow_report", "get_time_usage", "get_wan_usage"}
  <2>1. RequiredFields(service) = {} /\ ServiceOnly(service) = {}
    BY <1>6 DEF RequiredFields, ServiceOnly
  <2>2. ToolFields[service] \in
            {GetSystemOverviewTool, ListHostsTool, ListRulesTool, GetNetworkConfigTool,
             GetNetworkUsageTool, GetWanEventsTool, GetInternetQualityTool, GetSpeedTestsTool,
             GetLiveThroughputTool, GetWirelessStatusTool, GetAlarmsTool, SyncRuntimeTool}
    BY <1>2, <1>6 DEF ToolFields
  <2>3. ASSUME NEW tool \in
            {GetSystemOverviewTool, ListHostsTool, ListRulesTool, GetNetworkConfigTool,
             GetNetworkUsageTool, GetWanEventsTool, GetInternetQualityTool, GetSpeedTestsTool,
             GetLiveThroughputTool, GetWirelessStatusTool, GetAlarmsTool, SyncRuntimeTool}
        PROVE  {"sections", "app_ids", "history_count"} \cap tool = {}
    BY DEF GetSystemOverviewTool, ListHostsTool, ListRulesTool, GetNetworkConfigTool,
           GetNetworkUsageTool, GetWanEventsTool, GetInternetQualityTool, GetSpeedTestsTool,
           GetLiveThroughputTool, GetWirelessStatusTool, GetAlarmsTool, SyncRuntimeTool,
           NetworkFields, WanFields
  <2> QED BY <1>1, <2>1, <2>2, <2>3
<1> QED BY <1>3, <1>4, <1>5, <1>6

\* What a question of each service can ask for.
LEMMA AskedOf ==
    ASSUME NEW service \in DOMAIN ToolFields, NEW data, Fits(data, ServiceSchema(service)),
           Admitted(service, data)
    PROVE  /\ service = "get_time_usage" =>
                 SectionsAsked(data) \subseteq Value(data, "sections", {})
                     \cup (IF Value(data, "app_ids", {}) # {} THEN {"apps"} ELSE {})
           /\ service = "get_wan_usage" =>
                 /\ SectionsAsked(data) \subseteq {"history", "subperiods"}
                 /\ "subperiods" \in SectionsAsked(data) => Included(data, "subperiods")
                 /\ "history" \in SectionsAsked(data) =>
                       HistoryAsked(data) \/ Included(data, "history")
           /\ service \notin {"get_time_usage", "get_wan_usage"} =>
                 SectionsAsked(data) \subseteq
                     (Value(data, "include", {}) \ {"host_detail", "identifiers"})
                     \cup (IF Included(data, "host_detail") THEN {"member_ranking"} ELSE {})
           /\ Value(data, "include", {}) \subseteq IncludeOptions(service)
<1> DEFINE include == Value(data, "include", {})
           apps == IF Value(data, "app_ids", {}) # {} THEN {"apps"} ELSE {}
           members == IF "host_detail" \in include THEN {"member_ranking"} ELSE {}
           history == IF Value(data, "history_count", 0) > 0 THEN {"history"} ELSE {}
<1>1. SectionsAsked(data) = (include \ {"host_detail", "intervals", "identifiers"})
          \cup Value(data, "sections", {}) \cup apps \cup members \cup history
  BY DEF SectionsAsked, Included
<1>2. include \subseteq IncludeOptions(service)
  BY DEF Admitted
<1>3. service # "get_time_usage" => Value(data, "sections", {}) = {} /\ apps = {}
  BY FieldsOf DEF Value
<1>4. service # "get_wan_usage" => history = {}
  BY FieldsOf DEF Value
<1>5. history # {} => HistoryAsked(data)
  BY DEF HistoryAsked
<1> HIDE DEF include, apps, members, history
<1>6. service = "get_time_usage" => include \subseteq {"intervals"} /\ members = {}
  BY <1>2 DEF IncludeOptions, members
<1>7. service = "get_wan_usage" => include \subseteq {"history", "subperiods"} /\ members = {}
  BY <1>2 DEF IncludeOptions, members
<1>8. history \subseteq {"history"}
  BY DEF history
<1>9. CASE service = "get_time_usage"
  BY <1>1, <1>2, <1>4, <1>6, <1>9 DEF include, apps
<1>10. CASE service = "get_wan_usage"
  BY <1>1, <1>2, <1>3, <1>5, <1>7, <1>8, <1>10 DEF include, Included
<1>11. CASE service \notin {"get_time_usage", "get_wan_usage"}
  BY <1>1, <1>2, <1>3, <1>4, <1>11 DEF include, members, Included
<1> QED BY <1>9, <1>10, <1>11

\* Sections that account for what was asked.
Accounted(s, asked) ==
    /\ asked \subseteq s.given \cup s.unavailable
          \cup (IF "summary" \in s.unavailable THEN {"member_ranking"} ELSE {})
    /\ s.given \cap s.unavailable = {}
    /\ s.unavailable \ {"member_ranking", "internet", "app_totals"} \subseteq s.warned

\* A flow report accounts for the ranking of members when it is asked for.
LEMMA FlowAccounted ==
    ASSUME NEW data, NEW target, NEW got, NEW asked,
           asked \subseteq IF Included(data, "host_detail") THEN {"member_ranking"} ELSE {}
    PROVE  Accounted(Union(FlowSections(data, target, got), RecordSections(data, got)), asked)
<1> DEFINE a == FlowSections(data, target, got)
           b == RecordSections(data, got)
           detail == Included(data, "host_detail") \/ target.kind = "host"
           members == "members" \in got["rollup"]
           base == {"totals", "top_download", "top_upload", "blocked", "local_peers",
                    "rollup_families"}
<1>1. Union(a, b) = [given |-> a.given \cup b.given,
                     unavailable |-> a.unavailable \cup b.unavailable,
                     warned |-> a.warned \cup b.warned]
  BY DEF Union, Sections
<1>2. \E families \in SUBSET {"blocks", "flows"}, lost \in SUBSET {"blocks", "flows"} :
          b = [given |-> families \ lost, unavailable |-> lost, warned |-> lost]
  <2> DEFINE families == IF Detailed(data, "summary") THEN {"blocks", "flows"} ELSE {}
             lost == {f \in families : "missing" \in got[f]}
  <2>1. b = [given |-> families \ lost, unavailable |-> lost, warned |-> lost]
    BY DEF RecordSections, Sections
  <2>2. families \in SUBSET {"blocks", "flows"} /\ lost \in SUBSET {"blocks", "flows"}
    OBVIOUS
  <2> HIDE DEF families, lost, b
  <2> QED BY <2>1, <2>2
<1>3. \/ a = [given |-> {}, unavailable |-> {"summary"}, warned |-> {"summary"}]
      \/ a = [given |-> base \cup (IF members /\ detail THEN {"member_ranking"} ELSE {}),
              unavailable |-> IF members THEN {} ELSE {"member_ranking"}, warned |-> {}]
  BY DEF FlowSections, Sections
<1>4. Included(data, "host_detail") => detail
  OBVIOUS
<1> HIDE DEF a, b, detail, members
<1> SUFFICES Accounted(Union(a, b), asked)
  BY DEF a, b
<1>5. PICK families \in SUBSET {"blocks", "flows"}, lost \in SUBSET {"blocks", "flows"} :
          b = [given |-> families \ lost, unavailable |-> lost, warned |-> lost]
  BY <1>2
<1>6. asked \subseteq {"member_ranking"} /\ (asked # {} => detail)
  BY <1>4
<1>7. CASE a = [given |-> {}, unavailable |-> {"summary"}, warned |-> {"summary"}]
  <2>1. Union(a, b) = [given |-> families \ lost, unavailable |-> {"summary"} \cup lost,
                       warned |-> {"summary"} \cup lost]
    BY <1>1, <1>5, <1>7
  <2>2. /\ Union(a, b).given = families \ lost
        /\ Union(a, b).unavailable = {"summary"} \cup lost
        /\ Union(a, b).warned = {"summary"} \cup lost
    BY <2>1
  <2>3. (families \ lost) \cap ({"summary"} \cup lost) = {}
    <3>1. "blocks" # "summary" /\ "flows" # "summary"
      OBVIOUS
    <3> QED BY <3>1
  <2> HIDE DEF base
  <2> QED BY <1>6, <2>2, <2>3 DEF Accounted
<1>8. CASE a = [given |-> base \cup (IF members /\ detail THEN {"member_ranking"} ELSE {}),
                unavailable |-> IF members THEN {} ELSE {"member_ranking"}, warned |-> {}]
  <2>1. CASE members
    <3>1. Union(a, b) = [given |-> base \cup (IF detail THEN {"member_ranking"} ELSE {})
                                        \cup (families \ lost),
                         unavailable |-> lost, warned |-> lost]
      BY <1>1, <1>5, <1>8, <2>1
    <3>2. asked \subseteq base \cup (IF detail THEN {"member_ranking"} ELSE {})
      BY <1>6
    <3>3. (base \cup (IF detail THEN {"member_ranking"} ELSE {}) \cup (families \ lost))
              \cap lost = {}
      <4>1. "blocks" \notin base /\ "flows" \notin base
        OBVIOUS
      <4>2. "blocks" # "member_ranking" /\ "flows" # "member_ranking"
        OBVIOUS
      <4> QED BY <4>1, <4>2
    <3> DEFINE shown == base \cup (IF detail THEN {"member_ranking"} ELSE {})
                             \cup (families \ lost)
    <3>4. /\ Union(a, b).given = shown /\ Union(a, b).unavailable = lost
          /\ Union(a, b).warned = lost
      BY <3>1
    <3>5. asked \subseteq shown /\ shown \cap lost = {}
      BY <3>2, <3>3
    <3> HIDE DEF shown
    <3> QED BY <3>4, <3>5 DEF Accounted
  <2>2. CASE ~members
    <3>1. Union(a, b) = [given |-> base \cup (families \ lost),
                         unavailable |-> {"member_ranking"} \cup lost, warned |-> lost]
      BY <1>1, <1>5, <1>8, <2>2
    <3>3. (base \cup (families \ lost)) \cap ({"member_ranking"} \cup lost) = {}
      <4>1. "blocks" \notin base /\ "flows" \notin base /\ "member_ranking" \notin base
        OBVIOUS
      <4>2. "blocks" # "member_ranking" /\ "flows" # "member_ranking"
        OBVIOUS
      <4> QED BY <4>1, <4>2
    <3> DEFINE shown == base \cup (families \ lost)
    <3>4. /\ Union(a, b).given = shown /\ Union(a, b).warned = lost
          /\ Union(a, b).unavailable = {"member_ranking"} \cup lost
      BY <3>1
    <3> HIDE DEF shown
    <3> QED BY <1>6, <3>3, <3>4 DEF Accounted, shown
  <2> QED BY <2>1, <2>2
<1> QED BY <1>3, <1>7, <1>8

\* WAN usage accounts for the history and the subperiods it is asked for.
LEMMA WanAccounted ==
    ASSUME NEW data, NEW asked, asked \subseteq {"history", "subperiods"},
           "subperiods" \in asked => Included(data, "subperiods"),
           "history" \in asked => HistoryAsked(data) \/ Included(data, "history")
    PROVE  Accounted(WanSections(data), asked)
<1> DEFINE noHistory == ~HistoryAsked(data) /\ Included(data, "history")
           subperiods == Detailed(data, "summary") \/ Included(data, "subperiods")
           nested == \/ CurrentPeriods(data) \cap {"month", "week"} # {}
                     \/ HistoryAsked(data) /\ data.history_period \in {"month", "week"}
           absent == (IF noHistory THEN {"history"} ELSE {})
                     \cup (IF subperiods /\ ~nested THEN {"subperiods"} ELSE {})
           given == {"reports"} \cup (IF HistoryAsked(data) THEN {"history"} ELSE {})
                                \cup (IF subperiods /\ nested THEN {"subperiods"} ELSE {})
<1>1. WanSections(data) = [given |-> given, unavailable |-> absent, warned |-> absent]
  BY DEF WanSections, Sections
<1>2. given \cap absent = {}
  OBVIOUS
<1>3. asked \subseteq given \cup absent
  OBVIOUS
<1> HIDE DEF given, absent
<1> QED BY <1>1, <1>2, <1>3 DEF Accounted

\* Screen time accounts for the sections and the apps it is asked for.
LEMMA TimeAccounted ==
    ASSUME NEW data, NEW got, NEW asked,
           asked \subseteq Value(data, "sections", {})
               \cup (IF Value(data, "app_ids", {}) # {} THEN {"apps"} ELSE {})
    PROVE  Accounted(TimeSections(data, got), asked)
<1> DEFINE named == Value(data, "sections", {})
           all == {"internet", "app_totals", "apps", "categories"}
           default == IF Detailed(data, "full") THEN all ELSE {"internet", "app_totals"}
           applied == (IF named # {} THEN named ELSE default)
                      \cup (IF Value(data, "app_ids", {}) # {} THEN {"apps"} ELSE {})
           absent == (applied \cap {"internet", "app_totals"}) \ got["usage"]
<1>1. TimeSections(data, got) = [given |-> applied \ absent, unavailable |-> absent,
                                 warned |-> {}]
  BY DEF TimeSections, Sections
<1>2. asked \subseteq applied
  OBVIOUS
<1>3. absent \subseteq {"internet", "app_totals"} /\ absent \subseteq applied
  OBVIOUS
<1> HIDE DEF applied, absent
<1> QED BY <1>1, <1>2, <1>3 DEF Accounted

\* Whatever a service read, its answer accounts for what it was asked.
LEMMA SectionsFit ==
    ASSUME NEW service \in DOMAIN ToolFields, NEW data, Fits(data, ServiceSchema(service)),
           Admitted(service, data), NEW target, NEW got
    PROVE  Accounted(SectionsOf(service, data, target, got), SectionsAsked(data))
<1> DEFINE s == SectionsOf(service, data, target, got)
           asked == SectionsAsked(data)
           include == Value(data, "include", {})
<1>1. CASE service = "get_flow_report"
  <2>1. s = Union(FlowSections(data, target, got), RecordSections(data, got))
    BY <1>1 DEF SectionsOf
  <2>2. include \subseteq {"host_detail"}
    BY <1>1, AskedOf DEF IncludeOptions
  <2>3. asked \subseteq IF Included(data, "host_detail") THEN {"member_ranking"} ELSE {}
    BY <1>1, <2>2, AskedOf
  <2> QED BY <2>1, <2>3, FlowAccounted
<1>2. CASE service = "get_time_usage"
  <2>1. s = TimeSections(data, got)
    BY <1>2 DEF SectionsOf
  <2> QED BY <1>2, <2>1, AskedOf, TimeAccounted
<1>3. CASE service = "get_wan_usage"
  <2>1. s = WanSections(data)
    BY <1>3 DEF SectionsOf
  <2>2. /\ asked \subseteq {"history", "subperiods"}
        /\ "subperiods" \in asked => Included(data, "subperiods")
        /\ "history" \in asked => HistoryAsked(data) \/ Included(data, "history")
    BY <1>3, AskedOf
  <2> QED BY <2>1, <2>2, WanAccounted
<1>4. CASE service = "get_network_usage"
  <2>1. s = UsageSections(data, got)
    BY <1>4 DEF SectionsOf
  <2>2. include \subseteq {"series"}
    BY <1>4, AskedOf DEF IncludeOptions
  <2>3. asked \subseteq IF Included(data, "series") THEN {"series"} ELSE {}
    BY <1>4, <2>2, AskedOf DEF Included
  <2>4. s.unavailable = {} /\ (Included(data, "series") => "series" \in s.given)
    BY <2>1 DEF UsageSections, Sections
  <2> HIDE DEF s, asked
  <2> QED BY <2>3, <2>4 DEF Accounted, s, asked
<1>5. CASE service = "get_network_config"
  <2>1. s = ConfigSections(data)
    BY <1>5 DEF SectionsOf
  <2>2. include \subseteq {"hosts"}
    BY <1>5, AskedOf DEF IncludeOptions
  <2>3. asked \subseteq IF Included(data, "hosts") THEN {"hosts"} ELSE {}
    BY <1>5, <2>2, AskedOf DEF Included
  <2>4. s.unavailable = {} /\ (Included(data, "hosts") => "hosts" \in s.given)
    BY <2>1 DEF ConfigSections, Sections
  <2> HIDE DEF s, asked
  <2> QED BY <2>3, <2>4 DEF Accounted, s, asked
<1>6. CASE service \notin {"get_flow_report", "get_time_usage", "get_wan_usage",
                           "get_network_usage", "get_network_config"}
  <2>1. s \in {EventSections(got), LiveSections(got), Sections({}, {}, {})}
    BY <1>6 DEF SectionsOf
  <2>2. include \subseteq {"identifiers"}
    BY <1>6, AskedOf DEF IncludeOptions
  <2>3. /\ s.given \cap s.unavailable = {}
        /\ s.unavailable \subseteq s.warned
    BY <2>1 DEF EventSections, LiveSections, Sections
  <2>4. asked = {}
    <3>1. CASE service = "get_system_overview"
      BY <2>2, <3>1, AskedOf DEF Included
    <3>2. CASE service # "get_system_overview"
      <4>1. include = {}
        BY <1>6, <3>2, AskedOf DEF IncludeOptions
      <4> QED BY <1>6, <4>1, AskedOf DEF Included
    <3> QED BY <3>1, <3>2
  <2> HIDE DEF s, asked
  <2> QED BY <2>3, <2>4 DEF Accounted, s, asked
<1> QED BY <1>1, <1>2, <1>3, <1>4, <1>5, <1>6

\* As many readings as are wanted span the window.
LEMMA SampleLong ==
    ASSUME NEW service, NEW data, Admitted(service, data), NEW n \in Nat,
           n >= ReadingsWanted(data)
    PROVE  n >= 1 /\ 2 * n >= Value(data, "sample_seconds", 10)
<1> DEFINE v == Value(data, "sample_seconds", 10)
           half == (v + 1) \div 2
           served == ServedSeconds(v)
<1>1. v \in MinSample..MaxSample /\ MinSample \in Nat /\ MaxSample \in Nat /\ 2 <= MinSample
  BY SampleAssumption DEF Admitted, Value
<1>2. \E m \in Nat : MaxSample = 2 * m
  <2>1. MaxSample \in Nat /\ MaxSample % 2 = 0
    BY SampleAssumption
  <2>2. MaxSample = 2 * (MaxSample \div 2) /\ MaxSample \div 2 \in Nat
    BY <2>1
  <2> QED BY <2>2
<1>3. ReadingsWanted(data) = IF served \div 2 < 1 THEN 1 ELSE served \div 2
  BY DEF ReadingsWanted
<1> HIDE DEF v
<1>4. v \in Nat /\ MinSample <= v /\ v <= MaxSample
  BY <1>1
<1>5. half \in Nat /\ v <= 2 * half /\ 2 * half <= v + 1
  BY <1>4
<1> DEFINE even == 2 * half
<1>6. served = CASE even < MinSample -> MinSample
                 [] even > MaxSample -> MaxSample
                 [] OTHER -> even
  BY DEF ServedSeconds
<1> HIDE DEF half, served
<1>7. \E m \in Nat : served = 2 * m /\ v <= 2 * m
  <2>1. even \in Nat /\ v <= even
    BY <1>5
  <2> HIDE DEF even
  <2>2. CASE even > MaxSample
    <3>1. served = MaxSample
      BY <1>1, <1>6, <2>1, <2>2
    <3> QED BY <1>2, <1>4, <3>1
  <2>3. CASE ~(even > MaxSample)
    <3>1. ~(even < MinSample)
      BY <1>1, <1>4, <2>1
    <3>2. served = even
      BY <1>6, <2>3, <3>1
    <3> QED BY <1>5, <2>1, <3>2 DEF even
  <2> QED BY <2>2, <2>3
<1>8. PICK m \in Nat : served = 2 * m /\ v <= 2 * m
  BY <1>7
<1>9. served \div 2 = m
  BY <1>8
<1>10. n >= m /\ n >= 1
  BY <1>3, <1>9
<1> QED BY <1>8, <1>10, <1>4 DEF v

-----------------------------------------------------------------------------
(* Questions and answers.                                                  *)

\* Every field that is given has a value, and the service is one of those known.
LEMMA DataThere ==
    ASSUME NEW q \in Questions
    PROVE  /\ q.name \in DOMAIN ToolFields
           /\ \A f \in DOMAIN Data(q) : Data(q)[f] # None
<1>1. q.name \in DOMAIN ToolFields /\ \A f \in DOMAIN q.args : q.args[f] # None
  BY QuestionAssumption
<1>2. 6 # None
  BY NoneAssumption
<1>3. \A f \in DOMAIN ToolData(q.name, q.args) : ToolData(q.name, q.args)[f] # None
  BY <1>1, <1>2 DEF ToolData, Value
<1> QED BY <1>1, <1>3 DEF Data

\* What a tool takes, its service takes.
LEMMA ToolTaken ==
    ASSUME NEW q \in Questions, q.by = "tool", Offered(q), TakenByTool(q)
    PROVE  Fits(Data(q), ServiceSchema(q.name)) /\ Admitted(q.name, Data(q))
<1> DEFINE name == q.name
           fields == ToolFields[name]
           required == RequiredFields(name)
<1>1. Data(q) = ToolData(name, q.args)
  BY DEF Data
<1>2. Fits(q.args, ReadTools(mode)[name]) /\ Admitted(name, q.args)
  BY DEF TakenByTool
<1>3. required \subseteq DOMAIN q.args /\ DOMAIN q.args \subseteq required \cup fields
  <2>1. CASE mode = "summary_only"
    <3>1. name = "get_system_overview"
      BY <2>1 DEF Offered, ReadTools
    <3>2. Fits(q.args, Schema({}, {})) /\ required = {}
      BY <1>2, <2>1, <3>1 DEF ReadTools, GetSystemOverviewSummaryTool, RequiredFields
    <3> QED BY <3>2 DEF Fits, Schema
  <2>2. CASE mode # "summary_only"
    <3>1. Fits(q.args, ToolSchema(name))
      BY <1>2, <2>2, DataThere DEF ReadTools
    <3> QED BY <3>1 DEF Fits, ToolSchema, Schema
  <2> QED BY <2>1, <2>2
<1>4. \A data : /\ required \subseteq DOMAIN data /\ DOMAIN data \subseteq required \cup fields
                => Fits(data, ServiceSchema(name))
  BY DEF Fits, ServiceSchema, Schema
<1>5. CASE name # "get_live_throughput"
  <2>1. Data(q) = q.args
    BY <1>1, <1>5 DEF ToolData
  <2> QED BY <1>2, <1>3, <1>4, <2>1
<1>6. CASE name = "get_live_throughput"
  <2>1. Data(q) = [f \in DOMAIN q.args \cup {"sample_seconds"} |-> Value(q.args, f, 6)]
    BY <1>1, <1>6 DEF ToolData
  <2>2. "sample_seconds" \in fields
    BY <1>6 DEF ToolFields, GetLiveThroughputTool
  <2>3. Fits(Data(q), ServiceSchema(name))
    BY <1>3, <1>4, <2>1, <2>2
  <2>4. Value(Data(q), "include", {}) = Value(q.args, "include", {})
    BY <2>1 DEF Value
  <2>5. Data(q)["sample_seconds"] \in MinSample..MaxSample
    BY <1>2, <2>1, SampleAssumption DEF Admitted, Value
  <2> QED BY <1>2, <2>3, <2>4, <2>5 DEF Admitted
<1> QED BY <1>5, <1>6

\* The view that was looked at is made of a regular payload.
LEMMA LookedAt ==
    ASSUME NEW b \in Boxes
    PROVE  /\ Views[b] = BuildRuntimeSnapshot(Payloads[b]) /\ Regular(Payloads[b])
           /\ OneTagEach(Views[b])
BY PayloadAssumption, UsersUnique DEF Views

AnswerFits(a) ==
    /\ ReadsWhatWasNamed(a) /\ SectionsAccounted(a) /\ SampleSpansWindow(a)
    /\ CountsAgree(a) /\ NamesAgree(a) /\ NamesNobody(a)

\* A question that has nothing left to read and meant its target is answered rightly.
LEMMA ReplyFits ==
    ASSUME NEW c, Asking(c), Meant(c), c.todo = <<>>
    PROVE  AnswerFits(Reply(c))
<1> DEFINE a == Reply(c)
           service == Service(c.q)
           data == Data(c.q)
           payload == Payloads[c.looked]
           view == Views[c.looked]
<1>1. /\ a.q = c.q /\ a.looked = c.looked /\ a.asked = c.asked /\ a.sample = c.sample
      /\ a.count = SampleCount(c.sample)
      /\ a.sections = SectionsOf(service, data, c.target, c.got)
      /\ service # "get_alarms" => a.rows = c.rows
  BY DEF Reply
<1>2. /\ c.q \in Questions /\ Fits(data, ServiceSchema(service)) /\ Admitted(service, data)
      /\ service \in DOMAIN ToolFields /\ \A f \in DOMAIN data : data[f] # None
  BY DataThere DEF Asking, Accepted, Service
<1>3. /\ view = BuildRuntimeSnapshot(payload) /\ Regular(payload) /\ OneTagEach(view)
  BY LookedAt DEF Meant
<1>4. /\ c.target = Target(service, data, view) /\ Resolved(c.target)
      /\ c.asked \subseteq Members(ReadsOf(service, data, c.target))
      /\ service # "get_alarms" => c.rows = RowsOf(service, data, c.target, view)
      /\ service = "get_live_throughput" => LiveDone(c)
  BY DEF Meant
<1>5. c.sample.taken \in Nat /\ c.sample.listed \in Nat /\ c.sample.listed <= c.sample.taken
  BY DEF Asking, Samples
<1> HIDE DEF a, view, payload
<1>6. ReadsWhatWasNamed(a)
  <2>1. \A r \in c.asked : ReadNamed(r, data, view)
    BY <1>2, <1>3, <1>4, ReadsNamed
  <2> QED BY <1>1, <2>1 DEF ReadsWhatWasNamed, view
<1>7. SectionsAccounted(a)
  <2>1. Accounted(a.sections, SectionsAsked(data))
    BY <1>1, <1>2, SectionsFit
  <2> QED BY <1>1, <2>1 DEF SectionsAccounted, Accounted
<1>8. SampleSpansWindow(a)
  <2>1. ASSUME service = "get_live_throughput", a.sections.warned = {}
        PROVE  /\ 2 * a.sample.taken >= Value(data, "sample_seconds", 10)
               /\ a.count \in 1..a.sample.taken
    <3>1. a.sections = LiveSections(c.got)
      BY <1>1, <2>1 DEF SectionsOf
    <3>2. c.got["live"] \cap {"missing", "warming_up"} = {}
      BY <2>1, <3>1 DEF LiveSections, Sections
    <3>3. c.sample.taken >= ReadingsWanted(data)
      BY <1>4, <2>1, <3>2 DEF LiveDone
    <3>4. c.sample.taken >= 1 /\ 2 * c.sample.taken >= Value(data, "sample_seconds", 10)
      BY <1>2, <1>5, <3>3, SampleLong
    <3>5. SampleCount(c.sample) \in 1..c.sample.taken
      BY <1>5, <3>4 DEF SampleCount
    <3> QED BY <1>1, <3>4, <3>5
  <2> QED BY <1>1, <2>1 DEF SampleSpansWindow
<1>9. CountsAgree(a)
  <2> SUFFICES ASSUME service = "get_system_overview" PROVE CountsAgree(a)
    BY <1>1 DEF CountsAgree
  <2>1. a.rows = Overview(view, data)
    BY <1>1, <1>4 DEF RowsOf
  <2>2. /\ a.rows.hosts = HostCounts(view) /\ a.rows.counts = RuleCounts(view)
        /\ a.rows.networks = NetworkCounts(view)
    BY <2>1 DEF Overview
  <2>3. view = Views[a.looked]
    BY <1>1 DEF view
  <2>4. HostCounts(view) =
             [hosts |-> Cardinality(GetHosts(view, <<>>)),
              peers |-> Cardinality(GetHosts(view, [kind |-> "pseudo_host"]) \ Strays(view)),
              online |-> Cardinality(GetHosts(view, [online |-> TRUE])),
              peersOnline |-> Cardinality(GetHosts(view, [kind |-> "pseudo_host",
                                                          online |-> TRUE]) \ Strays(view))]
    BY <1>3, HostsCounted
  <2>5. /\ RuleCounts(view).visible = Cardinality(GetRules(view, <<>>))
        /\ RuleCounts(view).enabled = Cardinality(GetRules(view, [enabled |-> TRUE]))
        /\ RuleCounts(view).rules = Cardinality(GetRules(view,
               [include_purpose |-> HiddenPurposes, include_system_managed |-> TRUE]))
    BY <1>3, RulesCounted
  <2>6. \A n \in view.networks :
            n.kind # "vpn" /\ (n.interface # None \/ \A h \in view.hosts : h.network # None) =>
                NetworkCounts(view)[n.uuid] =
                    [hosts |-> Cardinality(GetHosts(view, [network_uuid |-> n.uuid])),
                     online |-> Cardinality(GetHosts(view, [network_uuid |-> n.uuid,
                                                            online |-> TRUE]))]
    BY <1>3, NetworksCounted
  <2> QED BY <2>2, <2>3, <2>4, <2>5, <2>6 DEF CountsAgree
<1>10. NamesAgree(a)
  <2>1. ASSUME service = "get_hosts", DOMAIN data = {"group_name"}, NEW h \in view.hosts,
               \A s, t \in h.tags : s = t
        PROVE  /\ h.mac \in a.rows <=>
                     \E t \in view.tags :
                        Fold(t.name) = Fold(data.group_name) /\ t.group_id \in h.tags
               /\ \A t \in view.tags : t.group_id \in h.tags => h.membership = t.kind
    <3>1. a.rows = GetHosts(view, data)
      BY <1>1, <1>4, <2>1 DEF RowsOf
    <3>2. data.group_name # None
      BY <1>2, <2>1
    <3> QED BY <1>3, <2>1, <3>1, <3>2, NamesListed
  <2>2. ASSUME service = "get_rules", DOMAIN data = {"applies_to"},
               NEW r \in payload.rules, NEW t \in view.tags, t.name = data.applies_to,
               <<"tag", t.group_id>> \in r.tag, r.pid \in GetRules(view, <<>>)
        PROVE  r.pid \in a.rows
    <3>1. a.rows = GetRules(view, data)
      BY <1>1, <1>4, <2>2 DEF RowsOf
    <3>2. data.applies_to # None
      BY <1>2, <2>2
    <3> QED BY <1>3, <2>2, <3>1, <3>2, AppliesListed
  <2>3. view = Views[a.looked] /\ payload = Payloads[a.looked] /\ data = Data(a.q)
        /\ service = Service(a.q)
    BY <1>1 DEF view, payload
  <2> HIDE DEF data, service
  <2> QED BY <2>1, <2>2, <2>3 DEF NamesAgree
<1>11. NamesNobody(a)
  <2> SUFFICES ASSUME c.q.by = "tool", mode = "summary_only"
               PROVE  service = "get_system_overview" /\ a.rows.identities = {}
    BY <1>1 DEF NamesNobody
  <2>1. service = "get_system_overview"
    BY DEF Asking, Offered, ReadTools, Service
  <2>2. DOMAIN c.q.args = {}
    <3>1. Fits(c.q.args, Schema({}, {}))
      BY <2>1 DEF Asking, Accepted, TakenByTool, ReadTools, GetSystemOverviewSummaryTool, Service
    <3> QED BY <3>1 DEF Fits, Schema
  <2>3. data = c.q.args
    BY <2>1 DEF Data, ToolData, Service
  <2>4. ~Included(data, "identifiers")
    BY <2>2, <2>3 DEF Included, Value
  <2>5. a.rows = Overview(view, data)
    BY <1>1, <1>4, <2>1 DEF RowsOf
  <2> QED BY <2>1, <2>4, <2>5 DEF Overview
<1> QED BY <1>6, <1>7, <1>8, <1>9, <1>10, <1>11 DEF AnswerFits, a

-----------------------------------------------------------------------------
(* Questions on their way.                                                 *)

\* An ended question fits what it was, and a refusal is not for a tool that took it.
Fitting(a) ==
    /\ a.pc = "replied" => AnswerFits(a)
    /\ a.pc = "refused" /\ a.why = "not_taken" /\ a.q.by = "tool" => ~TakenByTool(a.q)

\* What a step of a question leaves.
GoesOn == (call' = Idle \/ Asking(call')) /\ (last' = last \/ Fitting(last'))

AnswerInv == AskedInv /\ AnswersFit

\* A step that leaves the question and the answer right keeps the invariant.
LEMMA GoesOnKeeps ==
    ASSUME AnswersFit, GoesOn, mode' = mode
    PROVE  AnswerInv'
<1>1. AskedInv'
  BY DEF GoesOn, AskedInv, Asking, Offered, Accepted, TakenByTool
<1>2. CASE last' = last
  <2>1. Fitting(last')
    BY <1>2 DEF AnswersFit, Fitting, AnswerFits
  <2> QED BY <1>1, <2>1 DEF AnswerInv, AnswersFit, Fitting, AnswerFits, NamesNobody, TakenByTool
<1>3. CASE Fitting(last')
  BY <1>1, <1>3 DEF AnswerInv, AnswersFit, Fitting, AnswerFits, NamesNobody, TakenByTool
<1> QED BY <1>2, <1>3 DEF GoesOn

\* What a part of a question tells of the question.
Kept(c, d) ==
    /\ d.q = c.q /\ d.looked = c.looked /\ d.target = c.target /\ d.todo = c.todo
    /\ d.asked = c.asked /\ d.rows = c.rows

\* A question that asks no more than before still means its target.
LEMMA StillAsking ==
    ASSUME NEW c, NEW d, Asking(c), Meant(c),
           d.q = c.q, d.looked = c.looked, d.target = c.target,
           d.asked \cup Members(d.todo) \subseteq c.asked \cup Members(c.todo),
           Service(c.q) # "get_alarms" => d.rows = c.rows,
           d.sample \in Samples,
           Service(c.q) = "get_live_throughput" => d.todo # <<>> \/ LiveDone(d),
           Unread(d) => d.asked = {}
    PROVE  Asking(d) /\ Meant(d)
<1>1. Meant(d)
  <2>1. Data(d.q) = Data(c.q) /\ Service(d.q) = Service(c.q)
    OBVIOUS
  <2> QED BY <2>1 DEF Meant
<1>2. Asking(d)
  BY <1>1 DEF Asking
<1> QED BY <1>1, <1>2

\* So does one whose asking is unchanged.
LEMMA KeptAsking ==
    ASSUME NEW c, NEW d, Asking(c), Meant(c), Kept(c, d), d.sample \in Samples,
           d.todo # <<>> \/ (d.got = c.got /\ d.sample = c.sample),
           Unread(d) => d.asked = {}
    PROVE  Asking(d) /\ Meant(d)
<1>1. Service(c.q) = "get_live_throughput" => d.todo # <<>> \/ LiveDone(d)
  <2>1. Meant(c)
    OBVIOUS
  <2> QED BY <2>1 DEF Meant, LiveDone, Kept
<1> QED BY <1>1, StillAsking DEF Kept

\* A change of one part keeps the others.
LEMMA PartsKept ==
    ASSUME NEW c, NEW v, Shaped(c)
    PROVE  /\ LET d == [c EXCEPT !.pc = v] IN
              Kept(c, d) /\ d.pc = v /\ d.got = c.got /\ d.sample = c.sample
           /\ LET d == [c EXCEPT !.zoned = v] IN
              Kept(c, d) /\ d.pc = c.pc /\ d.got = c.got /\ d.sample = c.sample
           /\ LET d == [c EXCEPT !.sample = v] IN
              Kept(c, d) /\ d.pc = c.pc /\ d.got = c.got /\ d.sample = v
           /\ LET d == [c EXCEPT !.walk = v] IN
              Kept(c, d) /\ d.pc = c.pc /\ d.got = c.got /\ d.sample = c.sample
BY DEF Shaped, Kept

\* Going on with a question whose target is meant.
LEMMA ProceedAnswers ==
    ASSUME NEW c, Shaped(c), Asking(c), Meant(c), Proceed(c)
    PROVE  GoesOn
<1>1. c.sample \in Samples
  BY DEF Asking
<1>2. CASE c.todo # <<>> /\ Waits([c EXCEPT !.pc = "reading"])
  <2> DEFINE d == [c EXCEPT !.pc = "reading"]
  <2>1. Kept(c, d) /\ d.pc = "reading" /\ d.got = c.got /\ d.sample = c.sample
    BY PartsKept
  <2>2. call' = d /\ last' = last
    BY <1>2 DEF Waits
  <2> HIDE DEF d
  <2>3. ~Unread(d)
    BY <2>1 DEF Unread
  <2>4. Asking(d)
    BY <1>1, <2>1, <2>3, KeptAsking
  <2> QED BY <2>2, <2>4 DEF GoesOn
<1>3. CASE /\ c.todo = <<>> /\ Service(c.q) = "get_alarms"
           /\ Waits([c EXCEPT !.pc = "zone"])
  <2> DEFINE d == [c EXCEPT !.pc = "zone"]
  <2>1. Kept(c, d) /\ d.pc = "zone" /\ d.got = c.got /\ d.sample = c.sample
    BY PartsKept
  <2>2. call' = d /\ last' = last
    BY <1>3 DEF Waits
  <2> HIDE DEF d
  <2>3. ~Unread(d)
    BY <1>3, <2>1 DEF Unread, Kept
  <2>4. Asking(d)
    BY <1>1, <2>1, <2>3, KeptAsking
  <2> QED BY <2>2, <2>4 DEF GoesOn
<1>4. CASE Ends(Refused(c.q, "not_found"))
  <2>1. Fitting(Refused(c.q, "not_found"))
    BY DEF Fitting, Refused
  <2> QED BY <1>4, <2>1 DEF Ends, GoesOn
<1>5. CASE c.todo = <<>> /\ Ends(Reply(c))
  <2>1. AnswerFits(Reply(c)) /\ Reply(c).pc = "replied"
    BY <1>5, ReplyFits DEF Reply
  <2>2. Fitting(Reply(c))
    BY <2>1 DEF Fitting
  <2> QED BY <1>5, <2>2 DEF Ends, GoesOn
<1> QED BY <1>2, <1>3, <1>4, <1>5 DEF Proceed

\* Looking up the target of a question that has asked nothing.
LEMMA ResolveAnswers ==
    ASSUME NEW c, Shaped(c), seen \in Boxes, c.q \in Questions, Offered(c.q), Accepted(c.q),
           c.sample \in Samples, c.asked = {}, Resolve(c)
    PROVE  GoesOn
<1> DEFINE service == Service(c.q)
           data == Data(c.q)
           view == Views[seen]
           target == Target(service, data, view)
           reads == ReadsOf(service, data, target)
           rows == RowsOf(service, data, target, view)
           found == [c EXCEPT !.looked = seen, !.target = target, !.todo = reads, !.rows = rows]
<1>1. \/ ~Resolved(target) /\ Ends(Refused(c.q, target.error))
      \/ /\ Resolved(target) /\ ZoneFirst(service)
         /\ Waits([found EXCEPT !.pc = "zone"])
      \/ Resolved(target) /\ Proceed(found)
  BY DEF Resolve, TakesTarget, Targeted
<1>2. /\ OneTagEach(view) /\ \A f \in DOMAIN data : data[f] # None
  BY LookedAt, DataThere
<1>3. ~Resolved(target) => target.error # "not_taken"
  BY <1>2, TargetErrors
<1>4. found = [c EXCEPT !.looked = seen, !.target = target, !.todo = reads, !.rows = rows]
  OBVIOUS
<1>5. service = "get_live_throughput" => reads # <<>>
  BY DEF ReadsOf, LiveReads
<1>6. /\ target = Target(service, data, Views[seen]) /\ reads = ReadsOf(service, data, target)
      /\ rows = RowsOf(service, data, target, Views[seen])
  OBVIOUS
<1> HIDE DEF view, target, reads, rows, found
<1>7. /\ Shaped(found) /\ found.q = c.q /\ found.looked = seen /\ found.target = target
      /\ found.todo = reads /\ found.rows = rows /\ found.asked = {}
      /\ found.sample = c.sample /\ found.pc = c.pc
  <2>1. found = [pc |-> c.pc, q |-> c.q, looked |-> seen, zoned |-> c.zoned,
                 target |-> target, todo |-> reads, asked |-> c.asked, got |-> c.got,
                 rows |-> rows, sample |-> c.sample, walk |-> c.walk]
    BY <1>4 DEF Shaped
  <2> QED BY <2>1 DEF Shaped
<1>8. Resolved(target) => Asking(found) /\ Meant(found)
  <2>1. ASSUME Resolved(target) PROVE Meant(found)
    <3>1. /\ found.asked \cup Members(found.todo) \subseteq Members(reads)
          /\ Service(found.q) = service /\ Data(found.q) = data
      BY <1>7
    <3> QED BY <1>5, <1>6, <1>7, <2>1, <3>1 DEF Meant
  <2> QED BY <1>7, <2>1 DEF Asking
<1>9. CASE ~Resolved(target) /\ Ends(Refused(c.q, target.error))
  <2>1. Fitting(Refused(c.q, target.error))
    BY <1>3, <1>9 DEF Fitting, Refused
  <2> QED BY <1>9, <2>1 DEF Ends, GoesOn
<1>10. CASE Resolved(target) /\ Waits([found EXCEPT !.pc = "zone"])
  <2> DEFINE d == [found EXCEPT !.pc = "zone"]
  <2>1. Kept(found, d) /\ d.got = found.got /\ d.sample = found.sample
    BY <1>7, PartsKept
  <2>2. call' = d /\ last' = last
    BY <1>10 DEF Waits
  <2> HIDE DEF d
  <2>3. d.asked = {}
    BY <1>7, <2>1 DEF Kept
  <2>4. Asking(d)
    BY <1>7, <1>8, <1>10, <2>1, <2>3, KeptAsking
  <2> QED BY <2>2, <2>4 DEF GoesOn
<1>11. CASE Resolved(target) /\ Proceed(found)
  BY <1>7, <1>8, <1>11, ProceedAnswers
<1> QED BY <1>1, <1>9, <1>10, <1>11

\* A question begins: what a tool refuses, its own check refuses.
LEMMA BeginsAnswers ==
    ASSUME seen \in Boxes, NEW q \in Questions,
           CallNotTaken(q) \/ CallRefreshes(q) \/ CallLoadsZone(q) \/ CallResolves(q)
    PROVE  GoesOn
<1>1. Offered(q)
  BY DEF CallNotTaken, CallRefreshes, CallLoadsZone, CallResolves, Begin
<1>2. ASSUME NEW pc
      PROVE  LET c == Under(pc, q) IN
             /\ Shaped(c) /\ c.pc = pc /\ c.q = q /\ c.asked = {} /\ c.target = None
             /\ c.sample \in Samples
  BY DEF Under, Shaped, NoSample, Samples
<1>3. CASE CallNotTaken(q)
  <2>1. q.by = "tool" => ~TakenByTool(q)
    BY <1>1, <1>3, ToolTaken DEF CallNotTaken, Accepted
  <2>2. Fitting(Refused(q, "not_taken"))
    BY <2>1 DEF Fitting, Refused
  <2> QED BY <1>3, <2>2 DEF CallNotTaken, Ends, GoesOn
<1>4. CASE CallRefreshes(q)
  <2>1. call' = Under("refreshing", q) /\ last' = last /\ Accepted(q)
    BY <1>4 DEF CallRefreshes, Waits
  <2>2. Asking(Under("refreshing", q))
    BY <1>1, <1>2, <2>1 DEF Asking
  <2> QED BY <2>1, <2>2 DEF GoesOn
<1>5. CASE CallLoadsZone(q)
  <2>1. call' = Under("zone", q) /\ last' = last /\ Accepted(q)
    BY <1>5 DEF CallLoadsZone, Waits
  <2>2. Asking(Under("zone", q))
    BY <1>1, <1>2, <2>1 DEF Asking
  <2> QED BY <2>1, <2>2 DEF GoesOn
<1>6. CASE CallResolves(q)
  <2>1. Resolve(Under("resolving", q)) /\ Accepted(q)
    BY <1>6 DEF CallResolves
  <2> QED BY <1>1, <1>2, <2>1, ResolveAnswers
<1> QED BY <1>3, <1>4, <1>5, <1>6

\* A refresh or a zone returns.
LEMMA ReturnsAnswers ==
    ASSUME IInv, AskedInv, RefreshReturns \/ ZoneReturns
    PROVE  GoesOn
<1>1. /\ call.pc \in {"refreshing", "zone"} /\ Sound(call) /\ Shaped(call) /\ Asking(call)
      /\ seen \in Boxes
  BY DEF IInv, TypeOK, CallInv, AskedInv, RefreshReturns, ZoneReturns, Idle, Sound
<1>2. /\ call.q \in Questions /\ Offered(call.q) /\ Accepted(call.q)
      /\ call.sample \in Samples /\ (Unread(call) => call.asked = {})
  BY <1>1 DEF Asking
<1>3. CASE RefreshReturns
  <2>1. Resolve(call) /\ Unread(call)
    BY <1>3 DEF RefreshReturns, Unread
  <2> QED BY <1>1, <1>2, <2>1, ResolveAnswers
<1>4. CASE ZoneReturns
  <2> DEFINE zoned == [call EXCEPT !.zoned = TRUE]
  <2>1. /\ Kept(call, zoned) /\ zoned.pc = call.pc /\ zoned.got = call.got
        /\ zoned.sample = call.sample
    BY <1>1, PartsKept
  <2>2. Shaped(zoned)
    BY <1>1, ZonedKept
  <2>3. /\ call.pc = "zone"
        /\ IF call.target = None THEN Resolve(zoned) ELSE Proceed(zoned)
    BY <1>4 DEF ZoneReturns
  <2> HIDE DEF zoned
  <2>4. CASE call.target = None
    <3>1. Found(None) # None
      BY NoneAssumption DEF Found
    <3>2. Unread(call)
      BY <1>1, <2>3, <2>4, <3>1 DEF Sound, Unread
    <3>3. zoned.asked = {} /\ zoned.q = call.q
      BY <1>2, <2>1, <3>2 DEF Kept
    <3> QED BY <1>1, <1>2, <2>1, <2>2, <2>3, <2>4, <3>3, ResolveAnswers
  <2>5. CASE call.target # None
    <3>1. Meant(call)
      BY <1>1, <2>5 DEF Asking
    <3>2. Unread(zoned) => zoned.asked = {}
      BY <1>2, <2>1 DEF Unread, Kept
    <3>3. Asking(zoned) /\ Meant(zoned)
      BY <1>1, <1>2, <2>1, <3>1, <3>2, KeptAsking
    <3> QED BY <2>2, <2>3, <2>5, <3>3, ProceedAnswers
  <2> QED BY <2>4, <2>5
<1> QED BY <1>3, <1>4

\* Only live throughput reads the sampler, and only alarms are read as alarms.
LEMMA ReadKinds ==
    ASSUME NEW service, NEW data, NEW target, NEW r \in Members(ReadsOf(service, data, target))
    PROVE  /\ service = "get_live_throughput" => r.do = "live"
           /\ service # "get_alarms" => r.do \notin {"alarms", "archived_alarms"}
<1>1. \A do, of : Read(do, of).do = do
  BY DEF Read
<1>2. CASE service = "get_flow_report"
  BY <1>2, FlowMembers DEF ReadsOf, Logs
<1>3. CASE service = "get_time_usage"
  BY <1>1, <1>3, ShortMembers DEF ReadsOf, TimeUsageReads
<1>4. CASE service = "get_wan_usage"
  BY <1>1, <1>4, ShortMembers DEF ReadsOf, WanUsageReads
<1>5. CASE service = "get_wan_events"
  BY <1>1, <1>5, ShortMembers DEF ReadsOf, WanEventsReads
<1>6. CASE service \in {"get_network_config", "get_network_usage"}
  BY <1>1, <1>6, ShortMembers DEF ReadsOf, InterfaceReads
<1>7. CASE service = "get_live_throughput"
  BY <1>1, <1>7, ShortMembers DEF ReadsOf, LiveReads
<1>8. CASE service = "get_alarms"
  BY <1>8
<1>9. CASE service \notin {"get_flow_report", "get_time_usage", "get_wan_usage",
                           "get_wan_events", "get_network_config", "get_network_usage",
                           "get_live_throughput", "get_alarms"}
  BY <1>9, ShortMembers DEF ReadsOf
<1> QED BY <1>2, <1>3, <1>4, <1>5, <1>6, <1>7, <1>8, <1>9

\* The head and the rest of a plan are of the plan.
LEMMA PlanMembers ==
    ASSUME NEW todo, NEW got, Planned(todo, got), todo # <<>>
    PROVE  Head(todo) \in Members(todo) /\ Members(Tail(todo)) \subseteq Members(todo)
<1> DEFINE S == {todo[i] : i \in DOMAIN todo}
<1>1. todo \in Seq(S) /\ Members(todo) = S
  BY DEF Planned, Members
<1> HIDE DEF S
<1>2. /\ Head(todo) \in S /\ Tail(todo) \in Seq(S)
  BY <1>1
<1>3. Members(Tail(todo)) \subseteq S
  BY <1>2 DEF Members
<1> QED BY <1>1, <1>2, <1>3

\* How many readings are wanted is a number.
LEMMA ReadingsCounted ==
    ASSUME NEW service, NEW data, Admitted(service, data)
    PROVE  ReadingsWanted(data) \in Nat
<1> DEFINE v == Value(data, "sample_seconds", 10)
           served == ServedSeconds(v)
<1>1. v \in MinSample..MaxSample /\ MinSample \in Nat /\ MaxSample \in Nat
  BY SampleAssumption DEF Admitted, Value
<1> HIDE DEF v
<1>2. v \in Nat /\ 2 * ((v + 1) \div 2) \in Nat
  BY <1>1
<1>3. served \in Nat
  BY <1>1, <1>2 DEF ServedSeconds
<1>4. ReadingsWanted(data) = IF served \div 2 < 1 THEN 1 ELSE served \div 2
  BY DEF ReadingsWanted, v
<1> HIDE DEF served
<1>5. served \div 2 \in Nat
  BY <1>3
<1> QED BY <1>4, <1>5

\* A question that is reading means its target.
LEMMA ReadingMeant ==
    ASSUME IInv, AskedInv, call.pc \in {"reading", "walking"}
    PROVE  /\ Sound(call) /\ Shaped(call) /\ Planned(call.todo, call.got) /\ call.todo # <<>>
           /\ Asking(call) /\ Meant(call) /\ ~Unread(call)
           /\ Service(call.q) = "get_live_throughput" => Reading = "live"
           /\ Service(call.q) # "get_alarms" => Reading \notin {"alarms", "archived_alarms"}
           /\ ReadingsWanted(Data(call.q)) \in Nat /\ call.sample \in Samples
<1>1. Sound(call) /\ Asking(call)
  BY DEF IInv, CallInv, AskedInv, Idle
<1>2. Shaped(call) /\ Planned(call.todo, call.got) /\ call.todo # <<>> /\ Meant(call)
  BY <1>1 DEF Sound, Asking
<1>3. Head(call.todo) \in Members(ReadsOf(Service(call.q), Data(call.q), call.target))
  BY <1>2, PlanMembers DEF Meant
<1>4. /\ Service(call.q) = "get_live_throughput" => Reading = "live"
      /\ Service(call.q) # "get_alarms" => Reading \notin {"alarms", "archived_alarms"}
  BY <1>3, ReadKinds DEF Reading
<1>5. ReadingsWanted(Data(call.q)) \in Nat /\ call.sample \in Samples
  BY <1>1, ReadingsCounted DEF Asking, Accepted
<1> QED BY <1>1, <1>2, <1>4, <1>5 DEF Unread

\* A read that has been had is done; the rest of the question is as it was.
GotParts(d, marks) ==
    /\ d.q = call.q /\ d.looked = call.looked /\ d.target = call.target
    /\ d.todo = Tail(call.todo) /\ d.asked = call.asked \cup {Head(call.todo)}
    /\ d.pc = call.pc /\ Reading \in DOMAIN d.got /\ d.got[Reading] = marks

\* A read that has been had is noted as one.
LEMMA GotShaped ==
    ASSUME NEW marks, Shaped(call)
    PROVE  LET d == Got(marks) IN
           /\ Shaped(d) /\ GotParts(d, marks) /\ d.rows = call.rows /\ d.sample = call.sample
<1> DEFINE d == Got(marks)
           left == Tail(call.todo)
           then == Noted(call.got, Reading, marks)
           all == call.asked \cup {Head(call.todo)}
<1>1. d = [call EXCEPT !.got = then, !.todo = left, !.asked = all]
  BY DEF Got
<1>2. Reading \in DOMAIN then /\ then[Reading] = marks
  BY DEF Noted
<1>3. left = Tail(call.todo) /\ all = call.asked \cup {Head(call.todo)}
  OBVIOUS
<1> HIDE DEF left, then, all, d
<1>4. d = [pc |-> call.pc, q |-> call.q, looked |-> call.looked, zoned |-> call.zoned,
           target |-> call.target, todo |-> left, asked |-> all, got |-> then,
           rows |-> call.rows, sample |-> call.sample, walk |-> call.walk]
  BY <1>1 DEF Shaped
<1>5. Shaped(d) /\ GotParts(d, marks) /\ d.rows = call.rows /\ d.sample = call.sample
  BY <1>2, <1>3, <1>4 DEF Shaped, GotParts
<1> QED BY <1>5 DEF d

\* Going on after a read.
LEMMA ReadGoesOn ==
    ASSUME IInv, AskedInv, call.pc \in {"reading", "walking"},
           NEW marks, NEW d, Shaped(d), GotParts(d, marks), d.sample \in Samples,
           Service(call.q) # "get_alarms" => d.rows = call.rows,
           Service(call.q) = "get_live_throughput" =>
               marks \cap {"missing", "warming_up"} # {}
               \/ d.sample.taken >= ReadingsWanted(Data(call.q)),
           Proceed(d)
    PROVE  GoesOn
<1>1. d.asked \cup Members(d.todo) \subseteq call.asked \cup Members(call.todo)
  BY ReadingMeant, PlanMembers DEF GotParts
<1>2. Service(call.q) = "get_live_throughput" => d.todo # <<>> \/ LiveDone(d)
  BY ReadingMeant DEF GotParts, LiveDone
<1>3. ~Unread(d)
  BY DEF GotParts, Unread
<1>4. Asking(d) /\ Meant(d)
  <2>1. Asking(call) /\ Meant(call)
    BY ReadingMeant
  <2>2. d.q = call.q /\ d.looked = call.looked /\ d.target = call.target
    BY DEF GotParts
  <2> QED BY <1>1, <1>2, <1>3, <2>1, <2>2, StillAsking
<1> QED BY <1>4, ProceedAnswers

\* What is waited for once more.
LEMMA WaitGoesOn ==
    ASSUME IInv, AskedInv, call.pc \in {"reading", "walking"},
           NEW d, Kept(call, d), d.pc \in {"reading", "walking"}, d.sample \in Samples,
           call' = d, last' = last
    PROVE  GoesOn
<1>1. d.todo # <<>> /\ ~Unread(d)
  BY ReadingMeant DEF Kept, Unread
<1>2. Asking(d)
  <2>1. Asking(call) /\ Meant(call)
    BY ReadingMeant
  <2> QED BY <1>1, <2>1, KeptAsking
<1> QED BY <1>2 DEF GoesOn

\* A read is answered.
LEMMA ReadsAnswers ==
    ASSUME IInv, AskedInv, ReadAnswered
    PROVE  GoesOn
<1>1. call.pc = "reading" /\ Reading \notin Logs \cup {"live"}
  BY DEF ReadAnswered
<1>2. PICK marks \in MarksOf(Reading) : Proceed([Got(marks) EXCEPT !.rows = AlarmsGot])
  BY DEF ReadAnswered
<1>3. Service(call.q) # "get_alarms" => AlarmsGot = call.rows
  BY <1>1, ReadingMeant DEF AlarmsGot
<1> DEFINE g == Got(marks)
           rows == AlarmsGot
           d == [g EXCEPT !.rows = rows]
<1>4. Shaped(g) /\ GotParts(g, marks) /\ g.rows = call.rows /\ g.sample = call.sample
  BY <1>1, ReadingMeant, GotShaped
<1>5. d = [g EXCEPT !.rows = rows]
  OBVIOUS
<1>6. Proceed(d) /\ (Service(call.q) # "get_alarms" => rows = call.rows)
  BY <1>2, <1>3
<1> HIDE DEF g, rows, d
<1>7. Shaped(d) /\ GotParts(d, marks) /\ d.rows = rows /\ d.sample = call.sample
  <2>1. d = [pc |-> g.pc, q |-> g.q, looked |-> g.looked, zoned |-> g.zoned,
             target |-> g.target, todo |-> g.todo, asked |-> g.asked, got |-> g.got,
             rows |-> rows, sample |-> g.sample, walk |-> g.walk]
    BY <1>4, <1>5 DEF Shaped
  <2> QED BY <1>4, <2>1 DEF Shaped, GotParts
<1>8. Service(call.q) # "get_live_throughput" /\ d.sample \in Samples
  BY <1>1, <1>7, ReadingMeant
<1>9. Service(call.q) # "get_alarms" => d.rows = call.rows
  BY <1>6, <1>7
<1> QED BY <1>1, <1>6, <1>7, <1>8, <1>9, ReadGoesOn

\* A sample is taken, or it tells that it has not been.
LEMMA LiveAnswers ==
    ASSUME IInv, AskedInv, LiveWarmsUp \/ LiveMissing \/ LiveReading
    PROVE  GoesOn
<1>1. call.pc = "reading" /\ Reading = "live"
  BY DEF LiveWarmsUp, LiveMissing, LiveReading
<1>2. Shaped(call) /\ call.sample \in Samples /\ ReadingsWanted(Data(call.q)) \in Nat
  BY <1>1, ReadingMeant
<1>3. ASSUME NEW marks, marks \cap {"missing", "warming_up"} # {}, Proceed(Got(marks))
      PROVE  GoesOn
  <2> DEFINE g == Got(marks)
  <2>1. /\ Shaped(g) /\ GotParts(g, marks) /\ g.rows = call.rows /\ g.sample = call.sample
        /\ Proceed(g)
    BY <1>2, <1>3, GotShaped
  <2> HIDE DEF g
  <2>2. g.sample \in Samples
    BY <1>2, <2>1
  <2> QED BY <1>1, <1>3, <2>1, <2>2, ReadGoesOn
<1>4. ASSUME NEW v, v \in Samples, Waits([call EXCEPT !.sample = v])
      PROVE  GoesOn
  <2> DEFINE d == [call EXCEPT !.sample = v]
  <2>1. Kept(call, d) /\ d.pc = call.pc /\ d.sample = v
    BY <1>2, PartsKept
  <2>2. call' = d /\ last' = last
    BY <1>4 DEF Waits
  <2> HIDE DEF d
  <2>3. d.pc \in {"reading", "walking"} /\ d.sample \in Samples
    BY <1>1, <1>4, <2>1
  <2> QED BY <1>1, <2>1, <2>2, <2>3, WaitGoesOn
<1>5. CASE LiveWarmsUp
  <2>1. Proceed(Got({"warming_up"})) \/ Waits([call EXCEPT !.sample.cold = TRUE])
    BY <1>5 DEF LiveWarmsUp
  <2>2. CASE Proceed(Got({"warming_up"}))
    BY <1>3, <2>2
  <2>3. CASE Waits([call EXCEPT !.sample.cold = TRUE])
    <3>1. [call EXCEPT !.sample.cold = TRUE] =
              [call EXCEPT !.sample = [call.sample EXCEPT !.cold = TRUE]]
      OBVIOUS
    <3>2. [call.sample EXCEPT !.cold = TRUE] \in Samples
      BY <1>2 DEF Samples
    <3> QED BY <1>4, <2>3, <3>1, <3>2
  <2> QED BY <2>1, <2>2, <2>3
<1>6. CASE LiveMissing
  BY <1>3, <1>6 DEF LiveMissing
<1>7. CASE LiveReading
  <2>1. PICK listed \in 0..1 :
            LET sample == OneMore(call.sample, listed)
            IN  IF sample.taken < ReadingsWanted(Data(call.q))
                THEN Waits([call EXCEPT !.sample = sample])
                ELSE Proceed([Got({}) EXCEPT !.sample = sample])
    BY <1>7 DEF LiveReading
  <2> DEFINE v == OneMore(call.sample, listed)
             n == v.taken
             g == Got({})
             d == [g EXCEPT !.sample = v]
  <2>2. n \in Nat /\ v.taken = n /\ v \in Samples
    <3> DEFINE s == call.sample
    <3>1. /\ s \in [cold : BOOLEAN, taken : Nat, listed : Nat] /\ s.listed <= s.taken
          /\ listed \in {0, 1}
      BY <1>2 DEF Samples
    <3>2. v = [cold |-> s.cold, taken |-> s.taken + 1, listed |-> s.listed + listed]
      BY DEF OneMore
    <3> HIDE DEF s, v
    <3>3. /\ v.taken = s.taken + 1 /\ v.taken \in Nat /\ v.listed \in Nat
          /\ v.listed <= v.taken
      BY <3>1, <3>2
    <3> QED BY <3>1, <3>2, <3>3 DEF Samples
  <2>3. \/ Waits([call EXCEPT !.sample = v])
        \/ ~(n < ReadingsWanted(Data(call.q))) /\ Proceed(d)
    BY <2>1
  <2>4. Shaped(g) /\ GotParts(g, {}) /\ g.rows = call.rows /\ g.sample = call.sample
    BY <1>2, GotShaped
  <2>5. d = [g EXCEPT !.sample = v]
    OBVIOUS
  <2> HIDE DEF n, v, g, d
  <2>6. Shaped(d) /\ GotParts(d, {}) /\ d.rows = call.rows /\ d.sample = v
    <3>1. d = [pc |-> g.pc, q |-> g.q, looked |-> g.looked, zoned |-> g.zoned,
               target |-> g.target, todo |-> g.todo, asked |-> g.asked, got |-> g.got,
               rows |-> g.rows, sample |-> v, walk |-> g.walk]
      BY <2>4, <2>5 DEF Shaped
    <3> QED BY <2>4, <3>1 DEF Shaped, GotParts
  <2>7. CASE Waits([call EXCEPT !.sample = v])
    BY <1>4, <2>2, <2>7
  <2>8. CASE ~(n < ReadingsWanted(Data(call.q))) /\ Proceed(d)
    <3>1. n >= ReadingsWanted(Data(call.q))
      BY <1>2, <2>2, <2>8
    <3>2. Proceed(d) /\ d.sample \in Samples /\ d.sample.taken = n
      BY <2>2, <2>6, <2>8
    <3> QED BY <1>1, <2>6, <3>1, <3>2, ReadGoesOn
  <2> QED BY <2>3, <2>7, <2>8
<1> QED BY <1>5, <1>6, <1>7

\* A log is walked: asked for, read on, and read to where the walk stops.
LEMMA WalkAnswers ==
    ASSUME IInv, AskedInv, AskLog \/ \E timeUp \in BOOLEAN : WalkPage(timeUp)
    PROVE  GoesOn
<1>1. call.pc \in {"reading", "walking"} /\ Reading \in Logs
  BY DEF AskLog, WalkPage, IInv, WalkInv
<1>2. Shaped(call) /\ call.sample \in Samples
  BY <1>1, ReadingMeant
<1>3. CASE AskLog
  <2> DEFINE walk == [cursor |-> None, rows |-> {}, kept |-> log[Reading],
                      met |-> log[Reading]]
             d == [call EXCEPT !.pc = "walking", !.walk = walk]
  <2>1. call' = d /\ last' = last
    BY <1>3 DEF AskLog, Waits
  <2> HIDE DEF walk
  <2>2. Kept(call, d) /\ d.pc = "walking" /\ d.sample = call.sample
    BY <1>2 DEF Shaped, Kept
  <2> HIDE DEF d
  <2> QED BY <1>1, <1>2, <2>1, <2>2, WaitGoesOn
<1>4. ASSUME NEW merged, NEW next, Collected(merged, next)
      PROVE  GoesOn
  <2> DEFINE g == Got({})
             d == [g EXCEPT !.walk = None]
  <2>1. Shaped(g) /\ GotParts(g, {}) /\ g.rows = call.rows /\ g.sample = call.sample
    BY <1>2, GotShaped
  <2>2. Proceed(d)
    BY <1>4 DEF Collected
  <2>3. d = [g EXCEPT !.walk = None]
    OBVIOUS
  <2> HIDE DEF g, d
  <2>4. Shaped(d) /\ GotParts(d, {}) /\ d.rows = call.rows /\ d.sample = call.sample
    <3>1. d = [pc |-> g.pc, q |-> g.q, looked |-> g.looked, zoned |-> g.zoned,
               target |-> g.target, todo |-> g.todo, asked |-> g.asked, got |-> g.got,
               rows |-> g.rows, sample |-> g.sample, walk |-> None]
      BY <2>1, <2>3 DEF Shaped
    <3> QED BY <2>1, <3>1 DEF Shaped, GotParts
  <2>5. Service(call.q) # "get_live_throughput"
    BY <1>1, ReadingMeant DEF Logs
  <2>6. d.sample \in Samples
    BY <1>2, <2>4
  <2> QED BY <1>1, <2>2, <2>4, <2>5, <2>6, ReadGoesOn
<1>5. ASSUME NEW next, NEW merged,
             Waits([call EXCEPT !.walk.cursor = next, !.walk.rows = merged])
      PROVE  GoesOn
  <2> DEFINE d == [call EXCEPT !.walk.cursor = next, !.walk.rows = merged]
  <2>1. call' = d /\ last' = last
    BY <1>5 DEF Waits
  <2>2. Kept(call, d) /\ d.pc = call.pc /\ d.sample = call.sample
    BY <1>2 DEF Shaped, Kept
  <2> HIDE DEF d
  <2>3. d.pc \in {"reading", "walking"} /\ d.sample \in Samples
    BY <1>1, <1>2, <2>2
  <2> QED BY <1>1, <2>1, <2>2, <2>3, WaitGoesOn
<1>6. CASE \E timeUp \in BOOLEAN : WalkPage(timeUp)
  <2>1. \/ \E merged, next : Collected(merged, next)
        \/ \E merged, next : Waits([call EXCEPT !.walk.cursor = next, !.walk.rows = merged])
    BY <1>6 DEF WalkPage
  <2> QED BY <1>4, <1>5, <2>1
<1> QED BY <1>3, <1>6

\* A log that changes changes nothing of the question.
LEMMA LogAnswers ==
    ASSUME IInv, AskedInv, NEW k, NEW rows, LogMove(k, rows)
    PROVE  GoesOn
<1>1. call.pc = "walking" /\ last' = last
  BY DEF LogMove
<1>2. Shaped(call) /\ call.sample \in Samples
  BY <1>1, ReadingMeant
<1>3. Kept(call, call') /\ call'.pc = call.pc /\ call'.sample = call.sample
  <2>1. CASE Reading = k
    <3>1. call' = [call EXCEPT !.walk.kept = @ \cap rows, !.walk.met = @ \cup rows]
      BY <2>1 DEF LogMove
    <3> QED BY <1>2, <3>1 DEF Shaped, Kept
  <2>2. CASE Reading # k
    BY <2>2 DEF LogMove, Kept
  <2> QED BY <2>1, <2>2
<1> QED BY <1>1, <1>2, <1>3, WaitGoesOn

\* Every step keeps the questions and the answers right.
LEMMA NextAnswers ==
    ASSUME IInv, AnswerInv, [Next]_vars
    PROVE  AnswerInv'
<1> USE DEF AnswerInv
<1>1. mode' = mode
  BY DEF Next, ReadReturns, CallNotTaken, CallRefreshes, CallLoadsZone, CallResolves, Begin,
         RefreshReturns, ZoneReturns, AnswerTaken, ReadAnswered, LiveWarmsUp, LiveReading,
         LiveMissing, AskLog, WalkPage, ReadFails, RecordAdded, RecordExpires, LogMove,
         BoxMoves, PollAnswered, PollPublished, PollFails, outside, vars
<1>2. CASE \E q \in Questions :
              CallNotTaken(q) \/ CallRefreshes(q) \/ CallLoadsZone(q) \/ CallResolves(q)
  <2>1. seen \in Boxes
    BY DEF IInv, TypeOK
  <2> QED BY <1>1, <1>2, <2>1, BeginsAnswers, GoesOnKeeps
<1>3. CASE RefreshReturns \/ ZoneReturns
  BY <1>1, <1>3, ReturnsAnswers, GoesOnKeeps
<1>4. CASE AnswerTaken
  <2>1. call' = Idle /\ Fitting(last')
    BY <1>4 DEF AnswerTaken, Idle, Fitting
  <2> QED BY <1>1, <2>1, GoesOnKeeps DEF GoesOn
<1>5. CASE ReadAnswered
  BY <1>1, <1>5, ReadsAnswers, GoesOnKeeps
<1>6. CASE LiveWarmsUp \/ LiveMissing \/ LiveReading
  BY <1>1, <1>6, LiveAnswers, GoesOnKeeps
<1>7. CASE AskLog \/ \E timeUp \in BOOLEAN : WalkPage(timeUp)
  BY <1>1, <1>7, WalkAnswers, GoesOnKeeps
<1>8. CASE \E why \in {"protocol", "connection"} : ReadFails(why)
  <2>1. PICK why : Ends(Failed(call.q, why))
    BY <1>8 DEF ReadFails
  <2>2. call' = Idle /\ Fitting(last')
    BY <2>1 DEF Ends, Failed, Fitting
  <2> QED BY <1>1, <2>2, GoesOnKeeps DEF GoesOn
<1>9. CASE \E k \in Logs, r \in Records : RecordAdded(k, r) \/ RecordExpires(k, r)
  <2>1. \E k, rows : LogMove(k, rows)
    BY <1>9 DEF RecordAdded, RecordExpires
  <2> QED BY <1>1, <2>1, LogAnswers, GoesOnKeeps
<1>10. CASE (\E v \in Boxes : BoxMoves(v)) \/ PollAnswered \/ PollPublished \/ PollFails
            \/ UNCHANGED vars
  <2>1. call' = call /\ last' = last
    BY <1>10 DEF BoxMoves, PollAnswered, PollPublished, PollFails, vars
  <2>2. GoesOn
    BY <2>1 DEF GoesOn, AskedInv
  <2> QED BY <1>1, <2>2, GoesOnKeeps
<1> QED BY <1>2, <1>3, <1>4, <1>5, <1>6, <1>7, <1>8, <1>9, <1>10 DEF Next, ReadReturns

\* Every answer fits its question (services.py, flow_manager.py, llm_tools_read.py):
\* it is about what the question named, accounts for every section that was asked
\* for, spans the window it names, and agrees with what the other services answer
\* of the same view; the lowest mode names nobody; and no tool lets a question
\* through that the service behind it refuses.
THEOREM AnswersAreRight == Spec => []AnswersFit
<1>1. Init => AnswerInv
  BY DEF Init, Idle, AnswerInv, AskedInv, AnswersFit
<1>2. IInv /\ AnswerInv /\ [Next]_vars => AnswerInv'
  BY NextAnswers
<1>3. AnswerInv => AnswersFit
  BY DEF AnswerInv
<1> QED BY <1>1, <1>2, <1>3, ReportsInvariant, PTL DEF Spec

=============================================================================
