------------------------------- MODULE Reports -------------------------------
(***************************************************************************)
(* Questions to one config entry, end to end: a tool or an automation      *)
(* calls a service; the view may be refreshed first; the target is         *)
(* resolved in the view; the time zone is loaded; the box is asked one     *)
(* read after the other; the answer says what it holds and what it could   *)
(* not read.  Meanwhile the box changes, polls replace the view, and the   *)
(* logs that a report walks page by page get and lose records.             *)
(***************************************************************************)
EXTENDS ReportServices, Inventory

CONSTANTS
    Questions,   \* what is asked: records [by, name, args]
    Payloads,    \* name -> what a box may be, as the payload of a poll
    Modes,       \* tool modes the user may have chosen
    Records,     \* flow records [ts, body]
    StartLog,    \* log -> the records in it at first
    PageSize,    \* records of a page
    MaxLogMoves  \* bound: records added or expired

ASSUME PageAssumption == PageSize \in Nat \ {0} /\ MaxLogMoves \in Nat

VARIABLES
    mode,      \* the tools this entry offers
    box,       \* what the box is
    seen,      \* what the last poll showed of it
    poll,      \* None, or the answer of the poll under way
    log,       \* log -> the records in it
    logMoves,  \* records added or expired so far
    call,      \* the question under way
    records,   \* None, or the log read last: [kind, rows, whole]
    last       \* how the last question ended

vars == <<mode, box, seen, poll, log, logMoves, call, records, last>>
outside == <<mode, box, seen, poll, log, logMoves>>

Logs == {"blocks", "flows"}

Boxes == DOMAIN Payloads
Views == [b \in Boxes |-> BuildRuntimeSnapshot(Payloads[b])]

-----------------------------------------------------------------------------
Idle == [pc |-> "idle"]
NoSample == [cold |-> FALSE, taken |-> 0, listed |-> 0]

Service(q) == q.name
Data(q) == IF q.by = "tool" THEN ToolData(q.name, q.args) ELSE q.args
Offered(q) == q.by = "tool" => q.name \in DOMAIN ReadTools(mode)

TakenByTool(q) == Fits(q.args, ReadTools(mode)[q.name]) /\ Admitted(q.name, q.args)

\* A tool checks its arguments, and Home Assistant those of the service.
Accepted(q) ==
    /\ q.by = "tool" => TakenByTool(q)
    /\ Fits(Data(q), ServiceSchema(q.name)) /\ Admitted(q.name, Data(q))

\* A question that has reached its service.
Under(pc, q) ==
    [pc |-> pc, q |-> q, looked |-> None, zoned |-> FALSE, target |-> None,
     todo |-> <<>>, asked |-> {}, got |-> [do \in {} |-> {}], rows |-> None,
     sample |-> NoSample, walk |-> None]

\* A field that a question supplies has a value; the box keeps its payloads regular.
ASSUME QuestionAssumption ==
    \A q \in Questions :
        q.name \in DOMAIN ToolFields /\ \A f \in DOMAIN q.args : q.args[f] # None

ASSUME PayloadAssumption == \A b \in Boxes : Regular(Payloads[b])

\* Times are numbers, and what is absent is none of the things it may stand for.
ASSUME RecordAssumption ==
    /\ \A r \in Records : r.ts \in Nat
    /\ StartLog \in [Logs -> SUBSET Records]

ASSUME NoneAssumption ==
    /\ None \notin Nat /\ None # [found |-> None]
    /\ None \notin [kind : Logs, kept : SUBSET Records, met : SUBSET Records]
    /\ None \notin [cursor : Nat \cup {None}, rows : SUBSET Records,
                    kept : SUBSET Records, met : SUBSET Records]

Refused(q, why) == [pc |-> "refused", q |-> q, why |-> why]
Failed(q, why) == [pc |-> "failed", q |-> q, why |-> why]

\* The readings an average divides by: those that listed a host, when one did.
SampleCount(sample) == IF sample.listed = 0 THEN sample.taken ELSE sample.listed

Reply(c) ==
    [pc |-> "replied", q |-> c.q, looked |-> c.looked, target |-> c.target,
     asked |-> c.asked, sample |-> c.sample, count |-> SampleCount(c.sample),
     sections |-> SectionsOf(Service(c.q), Data(c.q), c.target, c.got),
     rows |-> IF Service(c.q) = "get_alarms"
              THEN AlarmsAnswered(c.rows, Data(c.q)) ELSE c.rows]

Init ==
    /\ mode \in Modes
    /\ box \in Boxes /\ seen = box
    /\ poll = None
    /\ log = StartLog /\ logMoves = 0
    /\ call = Idle /\ records = None /\ last = Idle

Ends(answer) == call' = Idle /\ last' = answer
Waits(c) == call' = c /\ UNCHANGED last

\* The next read, or the answer.  A segment is looked up once more before it is
\* read, and the zone of an alarm report is loaded last.
Proceed(c) ==
    \/ /\ c.todo # <<>> /\ StillThere(Service(c.q), c.target, Views[seen])
       /\ Waits([c EXCEPT !.pc = "reading"])
    \/ /\ c.todo # <<>> /\ ~StillThere(Service(c.q), c.target, Views[seen])
       /\ Ends(Refused(c.q, "not_found"))
    \/ /\ c.todo = <<>> /\ Service(c.q) = "get_alarms" /\ ~c.zoned
       /\ Waits([c EXCEPT !.pc = "zone"])
    \/ /\ c.todo = <<>> /\ (Service(c.q) = "get_alarms" => c.zoned)
       /\ Ends(Reply(c))

\* The target, as the view shows it now, and what is to be read of it.
Targeted(c, target) ==
    LET service == Service(c.q)
        data == Data(c.q)
    IN  [c EXCEPT !.looked = seen, !.target = target,
                  !.todo = ReadsOf(service, data, target),
                  !.rows = RowsOf(service, data, target, Views[seen])]

TakesTarget(c, target) ==
    \/ /\ ~Resolved(target)
       /\ Ends(Refused(c.q, target.error))
    \/ /\ Resolved(target) /\ ZoneFirst(Service(c.q))
       /\ Waits([Targeted(c, target) EXCEPT !.pc = "zone"])
    \/ /\ Resolved(target) /\ ~ZoneFirst(Service(c.q))
       /\ Proceed(Targeted(c, target))

Resolve(c) == TakesTarget(c, Target(Service(c.q), Data(c.q), Views[seen]))

-----------------------------------------------------------------------------
(* Questions.                                                              *)

Begin(q) ==
    /\ call = Idle /\ last = Idle
    /\ Offered(q)
    /\ UNCHANGED <<outside, records>>

CallNotTaken(q) ==
    /\ Begin(q) /\ ~Accepted(q)
    /\ Ends(Refused(q, "not_taken"))

CallRefreshes(q) ==
    /\ Begin(q) /\ Accepted(q)
    /\ Refreshes(Data(q)) \/ Service(q) = "sync_runtime"
    /\ Waits(Under("refreshing", q))

\* Screen time loads its zone before it looks at the target.
CallLoadsZone(q) ==
    /\ Begin(q) /\ Accepted(q)
    /\ Service(q) = "get_time_usage"
    /\ Waits(Under("zone", q))

CallResolves(q) ==
    /\ Begin(q) /\ Accepted(q)
    /\ ~Refreshes(Data(q)) /\ Service(q) \notin {"sync_runtime", "get_time_usage"}
    /\ Resolve(Under("resolving", q))

\* The refresh was debounced, it failed, or its poll has been published.
RefreshReturns ==
    /\ call.pc = "refreshing"
    /\ Resolve(call)
    /\ UNCHANGED <<outside, records>>

ZoneReturns ==
    LET zoned == [call EXCEPT !.zoned = TRUE] IN
    /\ call.pc = "zone"
    /\ IF call.target = None THEN Resolve(zoned) ELSE Proceed(zoned)
    /\ UNCHANGED <<outside, records>>

\* Whoever asked takes the answer.
AnswerTaken ==
    /\ call = Idle /\ last # Idle
    /\ last' = Idle /\ records' = None
    /\ UNCHANGED <<outside, call>>

-----------------------------------------------------------------------------
(* Reads.                                                                  *)

Reading == Head(call.todo).do

\* What a read may come back with.
MarksOf(do) ==
    CASE do = "rollup" -> {{}, {"members"}, {"missing"}}
      [] do = "usage" -> SUBSET {"internet", "app_totals"}
      [] do = "interface" ->
            {{}, {"families"}, {"families", "ranking", "apps"},
             {"families", "ranking", "apps", "categories"}}
      [] do = "events" -> {{}, {"events"}}
      [] OTHER -> {{}}

\* What has been read, with what one more read came back with.
Noted(got, do, marks) ==
    [d \in DOMAIN got \cup {do} |-> IF d = do THEN marks ELSE got[d]]

GotAgain(marks) ==
    [call EXCEPT !.got = Noted(@, Reading, marks), !.asked = @ \cup {Head(call.todo)}]

Got(marks) ==
    [call EXCEPT !.got = Noted(@, Reading, marks), !.todo = Tail(@),
                 !.asked = @ \cup {Head(call.todo)}]

\* Alarms the read brings; the box returns the newest, whatever their type.
AlarmsGot ==
    LET limit == Value(Data(call.q), "limit", 10)
    IN  CASE Reading = "alarms" -> call.rows \cup NewestAlarms(Views[box].alarms, limit)
          [] Reading = "archived_alarms" -> call.rows \cup NewestAlarms(Views[box].archived, limit)
          [] OTHER -> call.rows

ReadAnswered ==
    /\ call.pc = "reading" /\ Reading \notin Logs \cup {"live"}
    /\ \E marks \in MarksOf(Reading) :
          Proceed([Got(marks) EXCEPT !.rows = AlarmsGot])
    /\ UNCHANGED <<outside, records>>

\* Of a sampler that is starting, nothing is known of hosts.  Its first answer is
\* not counted and asked for again; the second is the answer.
LiveWarmsUp ==
    /\ call.pc = "reading" /\ Reading = "live"
    /\ call.sample.taken = 0 /\ call.target.kind # "host"
    /\ IF call.sample.cold THEN Proceed(Got({"warming_up"}))
       ELSE Waits([call EXCEPT !.sample.cold = TRUE])
    /\ UNCHANGED <<outside, records>>

\* A reading more, which listed hosts or did not.
OneMore(sample, listed) ==
    [cold |-> sample.cold, taken |-> sample.taken + 1, listed |-> sample.listed + listed]

\* As many readings are taken as the window holds.  One of the whole box leaves idle
\* hosts out and may list none; one of a host lists that host.
LiveReading ==
    /\ call.pc = "reading" /\ Reading = "live"
    /\ \E listed \in 0..1 :
          LET sample == OneMore(call.sample, listed)
          IN  /\ call.target.kind = "host" => listed = 1
              /\ IF sample.taken < ReadingsWanted(Data(call.q))
                 THEN Waits([call EXCEPT !.sample = sample])
                 ELSE Proceed([Got({}) EXCEPT !.sample = sample])
    /\ UNCHANGED <<outside, records>>

LiveMissing ==
    /\ call.pc = "reading" /\ Reading = "live"
    /\ Proceed(Got({"missing"}))
    /\ UNCHANGED <<outside, records>>

\* A lost connection fails the question; so does an answer that makes no sense,
\* except where it only leaves a section out.
ReadFails(why) ==
    /\ call.pc \in {"reading", "walking"}
    /\ why = "protocol" => Reading \notin {"rollup", "live"}
    /\ Ends(Failed(call.q, why))
    /\ records' = IF call.pc = "walking" THEN None ELSE records
    /\ UNCHANGED outside

-----------------------------------------------------------------------------
(* Walking a log.                                                          *)

\* kept and met are what stayed in the log since the walk began, and what has
\* been in it: the program does not know them.
AskLog ==
    /\ call.pc = "reading" /\ Reading \in Logs
    /\ Waits([call EXCEPT !.pc = "walking",
                  !.walk = [cursor |-> None, rows |-> {},
                            kept |-> log[Reading], met |-> log[Reading]]])
    /\ records' = None
    /\ UNCHANGED outside

FingerprintTime(r) == r.ts

\* Records of one fingerprint are one record.
Fingerprint(r) == r

Merge(rows, page) ==
    LET new == {Fingerprint(r) : r \in page} \ {Fingerprint(r) : r \in rows}
    IN  rows \cup {CHOOSE r \in page : Fingerprint(r) = f : f \in new}

\* The records that are not newer than the cursor, and the newest of them.
UpTo(rows, cursor) == {r \in rows : cursor # None => r.ts <= cursor}

Pages(rows) ==
    {page \in SUBSET rows :
        /\ Cardinality(page) = IF Cardinality(rows) < PageSize
                               THEN Cardinality(rows) ELSE PageSize
        /\ \A r \in page, s \in rows \ page : s.ts <= r.ts}

Oldest(page) == CHOOSE t \in {r.ts : r \in page} : \A r \in page : t <= r.ts

\* Where to go on: at the oldest record of the page, which the box may also say
\* when there is no older one.
NextCursors(page, rows) ==
    (IF page = {} THEN {} ELSE {Oldest(page)}) \cup (IF page = rows THEN {None} ELSE {})

FetchesAll == Value(Data(call.q), "fetch_all_records", FALSE)

StopsAtTheEnd(next, cursor) == ~FetchesAll \/ next = None

\* The walk is over: at its end, after one page, or at a cursor that stands still.
Stops(next, cursor) == ~FetchesAll \/ next \in {None, cursor}

\* The records of the answer, and where to go on for more.
Collected(merged, next) ==
    /\ Proceed([Got({}) EXCEPT !.walk = None])
    /\ records' = [kind |-> Reading, rows |-> merged, whole |-> next = None]

\* Every page is merged; the walk stops where it must, or because its time is up.
WalkPage(timeUp) ==
    /\ call.pc = "walking"
    /\ LET rows == UpTo(log[Reading], call.walk.cursor) IN
       \E page \in Pages(rows) : \E next \in NextCursors(page, rows) :
          LET merged == Merge(call.walk.rows, page)
              stops == Stops(next, call.walk.cursor)
          IN  \/ /\ stops \/ timeUp
                 /\ Collected(merged, next)
              \/ /\ ~stops /\ ~timeUp
                 /\ Waits([call EXCEPT !.walk.cursor = next, !.walk.rows = merged])
                 /\ UNCHANGED records
    /\ UNCHANGED outside

-----------------------------------------------------------------------------
(* The box.                                                                *)

\* A move that no walk can notice may as well come later.
LogMove(k, rows) ==
    /\ logMoves < MaxLogMoves /\ call.pc = "walking"
    /\ log' = [log EXCEPT ![k] = rows] /\ logMoves' = logMoves + 1
    /\ call' = IF Reading = k
               THEN [call EXCEPT !.walk.kept = @ \cap rows, !.walk.met = @ \cup rows]
               ELSE call
    /\ UNCHANGED <<mode, box, seen, poll, records, last>>

\* A record is written, late perhaps; the oldest is dropped.
RecordAdded(k, r) ==
    /\ r \notin log[k]
    /\ LogMove(k, log[k] \cup {r})

RecordExpires(k, r) ==
    /\ r \in log[k] /\ r.ts = Oldest(log[k])
    /\ LogMove(k, log[k] \ {r})

BoxMoves(v) ==
    /\ box # v /\ box' = v
    /\ UNCHANGED <<mode, seen, poll, log, logMoves, call, records, last>>

PollAnswered ==
    /\ poll = None /\ poll' = box
    /\ UNCHANGED <<mode, box, seen, log, logMoves, call, records, last>>

PollPublished ==
    /\ poll # None
    /\ seen' = poll /\ poll' = None
    /\ UNCHANGED <<mode, box, log, logMoves, call, records, last>>

PollFails ==
    /\ poll # None /\ poll' = None
    /\ UNCHANGED <<mode, box, seen, log, logMoves, call, records, last>>

ReadReturns ==
    \/ ReadAnswered \/ LiveWarmsUp \/ LiveMissing \/ LiveReading
    \/ AskLog \/ WalkPage(FALSE)

Next ==
    \/ \E q \in Questions :
          CallNotTaken(q) \/ CallRefreshes(q) \/ CallLoadsZone(q) \/ CallResolves(q)
    \/ RefreshReturns \/ ZoneReturns \/ AnswerTaken
    \/ ReadReturns \/ WalkPage(TRUE)
    \/ \E why \in {"protocol", "connection"} : ReadFails(why)
    \/ \E k \in Logs, r \in Records : RecordAdded(k, r) \/ RecordExpires(k, r)
    \/ \E v \in Boxes : BoxMoves(v)
    \/ PollAnswered \/ PollPublished \/ PollFails

Spec == Init /\ [][Next]_vars

\* A request is answered unless it fails, a refresh returns, a zone is loaded; the
\* clock need not reach the end of the time a walk has.
FairSpec ==
    Spec /\ WF_vars(RefreshReturns) /\ WF_vars(ZoneReturns) /\ WF_vars(ReadReturns)

-----------------------------------------------------------------------------
(* Properties.                                                             *)

\* Types, and what is under way when.
TypeOK ==
    /\ mode \in Modes /\ box \in Boxes /\ seen \in Boxes
    /\ poll \in Boxes \cup {None}
    /\ log \in [Logs -> SUBSET Records] /\ logMoves \in 0..MaxLogMoves
    /\ call.pc \in {"idle", "refreshing", "zone", "reading", "walking"}
    /\ call.pc \in {"reading", "walking"} => call.todo # <<>> /\ Reading \notin DOMAIN call.got
    /\ call.pc # "idle" => (call.walk # None <=> call.pc = "walking")
    /\ records # None => records.rows \subseteq Records
    /\ last.pc \in {"idle", "refused", "failed", "replied"}

\* A log that is read page by page, while records come and go, is read as LogRead
\* promises: nothing that was not there, and everything that stayed when the
\* answer gives no cursor to go on at.
Log == INSTANCE LogRead WITH
    Kinds <- Logs,
    reading <- IF call.pc = "walking"
               THEN [kind |-> Reading, kept |-> call.walk.kept, met |-> call.walk.met]
               ELSE None,
    got <- records

WholeLogRead == Log!Spec

\* The inductive invariant.  A question under way has all its parts, and a plan
\* without a read it has had or has twice.
Shaped(c) ==
    c = [pc |-> c.pc, q |-> c.q, looked |-> c.looked, zoned |-> c.zoned,
         target |-> c.target, todo |-> c.todo, asked |-> c.asked, got |-> c.got,
         rows |-> c.rows, sample |-> c.sample, walk |-> c.walk]

Planned(todo, got) ==
    /\ todo \in Seq({todo[i] : i \in DOMAIN todo})
    /\ \A i \in DOMAIN todo :
          /\ todo[i].do \notin DOMAIN got
          /\ \A j \in DOMAIN todo : todo[i].do = todo[j].do => i = j

\* Nothing has been read before the target is known.
Unread(c) ==
    \/ c.pc = "refreshing"
    \/ c.pc = "zone" /\ Service(c.q) # "get_alarms"

Sound(c) ==
    /\ Shaped(c) /\ Planned(c.todo, c.got)
    /\ c.pc \in {"refreshing", "zone", "reading", "walking"}
    /\ c.pc \in {"reading", "walking"} => c.todo # <<>>
    /\ Unread(c) => DOMAIN c.got = {}
    /\ Service(c.q) = "get_alarms" /\ c.pc # "refreshing" => c.target = Found(None)
    /\ c.pc # "walking" => c.walk = None

CallInv == call = Idle \/ Sound(call)

\* The records of a walk were in the log, and those newer than its cursor that
\* stayed in the log are among them.
WalkInv ==
    call.pc = "walking" =>
        /\ Reading \in Logs
        /\ call.walk \in [cursor : Nat \cup {None}, rows : SUBSET Records,
                          kept : SUBSET Records, met : SUBSET Records]
        /\ call.walk.rows \subseteq call.walk.met
        /\ call.walk.kept \subseteq log[Reading] /\ log[Reading] \subseteq call.walk.met
        /\ call.walk.cursor # None =>
              \A r \in call.walk.kept : r.ts > call.walk.cursor => r \in call.walk.rows

IInv == TypeOK /\ CallInv /\ WalkInv

Members(s) == {s[i] : i \in DOMAIN s}

\* A sample that does not tell of its failure has had all its readings.
LiveDone(c) ==
    \/ c.got["live"] \cap {"missing", "warming_up"} # {}
    \/ c.sample.taken >= ReadingsWanted(Data(c.q))

\* What is read, and answered, is of the target the view had for the question.
Meant(c) ==
    LET service == Service(c.q)
        data == Data(c.q)
    IN  /\ c.looked \in Boxes
        /\ c.target = Target(service, data, Views[c.looked]) /\ Resolved(c.target)
        /\ c.asked \cup Members(c.todo) \subseteq Members(ReadsOf(service, data, c.target))
        /\ service # "get_alarms" =>
              c.rows = RowsOf(service, data, c.target, Views[c.looked])
        /\ service = "get_live_throughput" => c.todo # <<>> \/ LiveDone(c)

Samples ==
    {s \in [cold : BOOLEAN, taken : Nat, listed : Nat] : s.listed <= s.taken}

Asking(c) ==
    /\ c.q \in Questions /\ Offered(c.q) /\ Accepted(c.q)
    /\ c.sample \in Samples
    /\ Unread(c) => c.asked = {}
    /\ \/ c.pc \in {"refreshing", "zone"} /\ c.target = None
       \/ Meant(c)

AskedInv == call = Idle \/ Asking(call)

\* Every question ends: no walk through a log goes on for ever, even if the clock
\* never stops one.
ReportsEnd == call.pc # "idle" ~> call.pc = "idle"

\* The text a question names its target with.
TextOf(data) == data[TheOnly(Supplied(data, ReportFields))]
KindAsked(data) == KindOf(TheOnly(Supplied(data, ReportFields)))

Goes(text, names) == \E name \in names \ {None} : Fold(name) = Fold(text)

\* A host is named by its address or a name, a tag by itself, its user or its name.
HostNamed(id, data, view) ==
    \E h \in view.hosts :
        h.mac = id /\ Goes(TextOf(data), {h.mac, h.name, h.label})

TagNamed(id, data, view) ==
    \E t \in view.tags :
        /\ t.group_id = id /\ t.kind = KindAsked(data)
        /\ Goes(TextOf(data), {t.group_id, t.user_id, t.name})

UserNamed(id, data, view) ==
    \E u \in view.users :
        u.user_id = id /\ KindAsked(data) = "user" /\ Goes(TextOf(data), {u.user_id, u.name})

NetworkNamed(id, data, view) ==
    \E n \in view.networks :
        /\ n.uuid = id
        /\ \E f \in Supplied(data, NetworkFields \cup WanFields) :
              Goes(data[f], {n.uuid, n.name})

ReadNamed(r, data, view) ==
    CASE r.do \in {"rollup"} \cup Logs ->
            \/ r.of[1] = "host" /\ HostNamed(r.of[2], data, view)
            \/ r.of[1] = "tag" /\ TagNamed(r.of[2], data, view)
      [] r.do = "usage" ->
            \/ r.of[1] = "host" /\ HostNamed(r.of[2], data, view)
            \/ r.of[1] = "group" /\ TagNamed(r.of[2], data, view)
            \/ r.of[1] = "user" /\ UserNamed(r.of[2], data, view)
      [] r.do \in {"interface", "events"} ->
            r.of # None => NetworkNamed(r.of, data, view)
      [] OTHER -> TRUE

\* Every read is about what the question named, as the view had it: a host by its
\* address, a group or a user by the tag its hosts carry or by the user's own id.
ReadsWhatWasNamed(a) ==
    \A r \in a.asked : ReadNamed(r, Data(a.q), Views[a.looked])

\* What a question asks for by name.
SectionsAsked(data) ==
    (Value(data, "include", {}) \ {"host_detail", "intervals", "identifiers"})
    \cup Value(data, "sections", {})
    \cup (IF Value(data, "app_ids", {}) # {} THEN {"apps"} ELSE {})
    \cup (IF Included(data, "host_detail") THEN {"member_ranking"} ELSE {})
    \cup (IF Value(data, "history_count", 0) > 0 THEN {"history"} ELSE {})

\* Nothing that was asked for is silently absent: it is in the answer or among the
\* sections that are not available, never in both, and what could not be read has
\* a warning.  The rankings of members and screen time go without the warning.
SectionsAccounted(a) ==
    LET s == a.sections
        covered == IF "summary" \in s.unavailable THEN {"member_ranking"} ELSE {}
    IN  /\ SectionsAsked(Data(a.q)) \subseteq s.given \cup s.unavailable \cup covered
        /\ s.given \cap s.unavailable = {}
        /\ s.unavailable \ {"member_ranking", "internet", "app_totals"} \subseteq s.warned

\* A sample that was taken spans the window the answer names, and the reading of a
\* sampler that was starting is no part of it.  Readings that list no host may be
\* left out of the average, but never all of them: the divisor is not zero.
SampleSpansWindow(a) ==
    Service(a.q) = "get_live_throughput" /\ a.sections.warned = {} =>
        /\ 2 * a.sample.taken >= Value(Data(a.q), "sample_seconds", 10)
        /\ a.count \in 1..a.sample.taken

\* Hosts that go by neither a MAC nor the id of a VPN peer.
Strays(view) == {h.mac : h \in {g \in view.hosts : ~g.peer /\ ~SupportsWakeOnLan(g.mac)}}

\* The counts of the overview are those of the lists, asked of the same view: "how
\* many are connected?" has one answer.  The overview knows a VPN peer by the prefix
\* of its id and the list by what is no MAC, which is the same but for hosts that are
\* neither, and those are excepted.  Networks of VPN peers are excepted, which
\* the list finds by the interface only, and, when a host is on no network, networks
\* of no interface: the overview counts that host in each of them.
CountsAgree(a) ==
    LET v == Views[a.looked]
        Count(S) == Cardinality(S)
    IN  Service(a.q) = "get_system_overview" =>
            /\ a.rows.hosts =
                  [hosts |-> Count(GetHosts(v, <<>>)),
                   peers |-> Count(GetHosts(v, [kind |-> "pseudo_host"]) \ Strays(v)),
                   online |-> Count(GetHosts(v, [online |-> TRUE])),
                   peersOnline |-> Count(GetHosts(v, [kind |-> "pseudo_host",
                                                      online |-> TRUE]) \ Strays(v))]
            /\ a.rows.counts.visible = Count(GetRules(v, <<>>))
            /\ a.rows.counts.enabled = Count(GetRules(v, [enabled |-> TRUE]))
            /\ a.rows.counts.rules = Count(GetRules(v, [include_purpose |-> HiddenPurposes,
                                                 include_system_managed |-> TRUE]))
            /\ \A n \in v.networks :
                  n.kind # "vpn" /\ (n.interface # None
                                     \/ \A h \in v.hosts : h.network # None) =>
                      a.rows.networks[n.uuid] =
                          [hosts |-> Count(GetHosts(v, [network_uuid |-> n.uuid])),
                           online |-> Count(GetHosts(v, [network_uuid |-> n.uuid,
                                                         online |-> TRUE]))]

\* Who is in a group is answered alike by the list of hosts, which shows a label,
\* and by the inventory of groups and users: a group's members are the hosts that
\* carry its tag, under the name by which a question has to ask for it.  So are
\* the rules that apply to it, which are asked for by the very text.  A host of
\* several tags is excepted: the list shows it under all their names at once.
NamesAgree(a) ==
    LET data == Data(a.q)
        view == Views[a.looked]
        Named(name) == {t \in view.tags : Fold(t.name) = Fold(name)}
    IN  /\ Service(a.q) = "get_hosts" /\ DOMAIN data = {"group_name"} =>
              \A h \in view.hosts :
                  (\A s, t \in h.tags : s = t) =>
                      /\ h.mac \in a.rows <=>
                            \E t \in Named(data.group_name) : t.group_id \in h.tags
                      /\ h.mac \in a.rows =>
                            \A t \in view.tags :
                                t.group_id \in h.tags => h.membership = t.kind
        /\ Service(a.q) = "get_rules" /\ DOMAIN data = {"applies_to"} =>
              \A r \in Payloads[a.looked].rules, t \in view.tags :
                  /\ t.name = data.applies_to /\ <<"tag", t.group_id>> \in r.tag
                  /\ r.pid \in GetRules(view, <<>>)
                  => r.pid \in a.rows

\* The lowest mode names nobody.
NamesNobody(a) ==
    a.q.by = "tool" /\ mode = "summary_only" =>
        Service(a.q) = "get_system_overview" /\ a.rows.identities = {}

\* An answer fits its question, and a tool never gets a question through its own
\* check that the service behind it does not take.
AnswersFit ==
    /\ last.pc = "replied" =>
          /\ ReadsWhatWasNamed(last) /\ SectionsAccounted(last)
          /\ SampleSpansWindow(last) /\ CountsAgree(last)
          /\ NamesAgree(last) /\ NamesNobody(last)
    /\ last.pc = "refused" /\ last.why = "not_taken" /\ last.q.by = "tool" =>
          ~TakenByTool(last.q)

=============================================================================
