-------------------------- MODULE ToolCallsProofs ---------------------------
(***************************************************************************)
(* What ToolCalls guarantees for every value of its constants: its types,  *)
(* what a mode cannot lose, that a host changes its group or user only     *)
(* with the rules of its own gone, and that the view shows what a tool     *)
(* calls updated.                                                          *)
(*                                                                         *)
(* The lemmas come first: what an effect does to a box, what a selector    *)
(* may answer, what the plan of a service holds, what is left of a plan.   *)
(***************************************************************************)
EXTENDS ToolCalls, WellFoundedInduction, SequenceTheorems, FiniteSetTheorems, TLAPS

-----------------------------------------------------------------------------
(* Sequences.                                                              *)

\* A nonempty set of places has a first one.
LEMMA Earliest ==
    ASSUME NEW S, S \subseteq Nat, S # {}
    PROVE  \E t \in S : \A u \in S : t <= u
<1>1. PICK t \in S : \A u \in S : ~ (<<u, t>> \in OpToRel(<, Nat))
  BY NatLessThanWellFounded, WFMin
<1>2. ASSUME NEW u \in S PROVE t <= u
  <2>1. t \in Nat /\ u \in Nat
    OBVIOUS
  <2>2. ~ (u < t)
    BY <1>1, <2>1 DEF OpToRel
  <2> QED BY <2>1, <2>2
<1> QED BY <1>2

\* A finite set can be put in a sequence, which has its members and no other.
LEMMA SetToSeqFacts ==
    ASSUME NEW S, IsFiniteSet(S)
    PROVE  /\ SetToSeq(S) \in Seq(S)
           /\ \A x \in S : \E i \in DOMAIN SetToSeq(S) : SetToSeq(S)[i] = x
<1> DEFINE n == Cardinality(S)
<1> DEFINE s == SetToSeq(S)
<1>1. n \in Nat
  BY FS_CardinalityType
<1>2. \E f \in [1..n -> S] : IsInjective(f)
  BY FS_CardinalityType DEF ExistsBijection, Bijection, Injection
<1>3. s \in [1..n -> S] /\ IsInjective(s)
  BY <1>2 DEF SetToSeq
<1>4. IsFiniteSet(1..n) /\ Cardinality(1..n) = n
  BY <1>1, FS_Interval
<1> HIDE DEF s
<1>5. s \in Injection(1..n, S)
  BY <1>3 DEF Injection
<1>6. s \in Surjection(1..n, S)
  BY <1>4, <1>5, FS_Injection
<1>7. \A x \in S : \E i \in 1..n : s[i] = x
  BY <1>6 DEF Surjection
<1> HIDE DEF n
<1>8. s \in Seq(S) /\ DOMAIN s = 1..n
  BY <1>1, <1>3
<1> QED BY <1>7, <1>8 DEF s

\* A sequence is one over its own members.
LEMMA OwnMembers ==
    ASSUME NEW S, NEW s \in Seq(S)
    PROVE  s \in Seq(Range(s))
<1> DEFINE R == {s[i] : i \in DOMAIN s}
<1>1. Len(s) \in Nat /\ DOMAIN s = 1..Len(s) /\ s = [i \in 1..Len(s) |-> s[i]]
  OBVIOUS
<1>2. \A i \in 1..Len(s) : s[i] \in R
  BY <1>1
<1> HIDE DEF R
<1>3. s \in [1..Len(s) -> R]
  BY <1>1, <1>2
<1> QED BY <1>1, <1>3 DEF R, Range

\* The places of a sequence of effects stay as they are without the last, and the
\* head and the tail of one that is not empty are its places.
LEMMA PlacesFacts ==
    ASSUME NEW ops, ops \in Seq(Range(ops))
    PROVE  /\ Len(ops) \in Nat /\ DOMAIN ops = 1..Len(ops)
           /\ \A i \in DOMAIN ops : ops[i] \in Range(ops)
           /\ ops # <<>> => /\ Head(ops) = ops[1] /\ 1 \in DOMAIN ops
                            /\ Tail(ops) \in Seq(Range(Tail(ops)))
                            /\ Len(Tail(ops)) = Len(ops) - 1
                            /\ \A i \in DOMAIN Tail(ops) : Tail(ops)[i] = ops[i + 1]
<1>1. /\ Len(ops) \in Nat /\ DOMAIN ops = 1..Len(ops)
      /\ \A i \in DOMAIN ops : ops[i] \in Range(ops)
  BY DEF Range
<1>2. ASSUME ops # <<>>
      PROVE  /\ Head(ops) = ops[1] /\ 1 \in DOMAIN ops
             /\ Tail(ops) \in Seq(Range(ops))
             /\ Len(Tail(ops)) = Len(ops) - 1
             /\ \A i \in DOMAIN Tail(ops) : Tail(ops)[i] = ops[i + 1]
  <2> HIDE DEF Range
  <2> QED BY <1>2, <1>1, HeadTailProperties
<1> QED BY <1>1, <1>2, OwnMembers

\* What remains of a plan is its end, and what was left out are deletions of rules
\* the view does not list.
LEMMA RemainingFacts ==
    ASSUME NEW v, NEW ops, ops \in Seq(Range(ops)),
           NEW left, left = Remaining(ops, v)
    PROVE  \E k \in 0..Len(ops) :
              /\ left \in Seq(Range(left)) /\ Len(left) = Len(ops) - k
              /\ \A i \in DOMAIN left : left[i] = ops[k + i]
              /\ \A i \in 1..k : ops[i].do = "delete_rule" /\ ops[i].on \notin DOMAIN v.rules
<1> DEFINE n == Len(ops)
           Skipped(i) == ops[i].do = "delete_rule" /\ ops[i].on \notin DOMAIN v.rules
           stays(i) == i = n + 1 \/ ~Skipped(i)
           first == CHOOSE i \in 1..(n + 1) : stays(i) /\ \A j \in 1..(i - 1) : ~stays(j)
           S == {i \in 1..(n + 1) : stays(i)}
<1>1. n \in Nat
  OBVIOUS
<1>2. \E i \in 1..(n + 1) : stays(i) /\ \A j \in 1..(i - 1) : ~stays(j)
  <2>1. n + 1 \in S /\ S \subseteq Nat
    BY <1>1
  <2>2. PICK t \in S : \A u \in S : t <= u
    BY <2>1, Earliest
  <2>3. t \in 1..(n + 1) /\ stays(t)
    BY <2>2
  <2>4. ASSUME NEW j \in 1..(t - 1) PROVE ~stays(j)
    <3>1. j \in 1..(n + 1) /\ ~(t <= j)
      BY <1>1, <2>3
    <3>2. j \notin S
      BY <2>2, <3>1
    <3> QED BY <3>1, <3>2
  <2> QED BY <2>3, <2>4
<1>3. first \in 1..(n + 1) /\ stays(first) /\ \A j \in 1..(first - 1) : ~stays(j)
  BY <1>2
<1>4. left = SubSeq(ops, first, n)
  BY DEF Remaining
<1>5. \A i \in 1..(first - 1) : Skipped(i)
  BY <1>3
<1> HIDE DEF first, stays, S
<1> DEFINE k == first - 1
<1>6. k \in 0..n /\ first \in Int
  BY <1>1, <1>3
<1>7. /\ left \in Seq(Range(ops)) /\ Len(left) = n - k
      /\ \A i \in DOMAIN left : left[i] = ops[k + i]
  BY <1>1, <1>3, <1>4, SubSeqProperties
<1>8. left \in Seq(Range(left))
  BY <1>7, OwnMembers
<1> QED BY <1>5, <1>6, <1>7, <1>8

-----------------------------------------------------------------------------
(* Boxes.                                                                  *)

\* A box with one of its parts replaced is a box with the other parts.
LEMMA PartReplaced ==
    ASSUME NEW b, BoxShaped(b), NEW x
    PROVE  /\ [b EXCEPT !.hosts = x] =
                 [hosts |-> x, rules |-> b.rules, paused |-> b.paused,
                  alarms |-> b.alarms, muted |-> b.muted]
           /\ [b EXCEPT !.rules = x] =
                 [hosts |-> b.hosts, rules |-> x, paused |-> b.paused,
                  alarms |-> b.alarms, muted |-> b.muted]
           /\ [b EXCEPT !.paused = x] =
                 [hosts |-> b.hosts, rules |-> b.rules, paused |-> x,
                  alarms |-> b.alarms, muted |-> b.muted]
           /\ [b EXCEPT !.alarms = x] =
                 [hosts |-> b.hosts, rules |-> b.rules, paused |-> b.paused,
                  alarms |-> x, muted |-> b.muted]
           /\ [b EXCEPT !.muted = x] =
                 [hosts |-> b.hosts, rules |-> b.rules, paused |-> b.paused,
                  alarms |-> b.alarms, muted |-> x]
<1>1. b = [hosts |-> b.hosts, rules |-> b.rules, paused |-> b.paused,
           alarms |-> b.alarms, muted |-> b.muted]
  BY DEF BoxShaped
<1> QED BY <1>1

\* What an effect does not touch stays: hosts go only when one is deleted, rules come
\* and go by their own effects, alarms go only when they are deleted, and a host keeps
\* its group or user unless the tags are written.
Kept(e, b, now) ==
    /\ BoxShaped(now)
    /\ DOMAIN now.hosts \subseteq DOMAIN b.hosts
    /\ e.do # "delete_host" => DOMAIN now.hosts = DOMAIN b.hosts
    /\ e.do # "tag" => \A h \in DOMAIN now.hosts : now.hosts[h].tag = b.hosts[h].tag
    /\ e.do = "create_rule" => DOMAIN now.rules = DOMAIN b.rules \cup {e.on}
    /\ e.do = "delete_rule" => DOMAIN now.rules = DOMAIN b.rules \ {e.on}
    /\ e.do \notin {"create_rule", "delete_rule"} => DOMAIN now.rules = DOMAIN b.rules
    /\ e.do # "delete_alarm" => DOMAIN now.alarms = DOMAIN b.alarms

LEMMA ApplyFacts ==
    ASSUME NEW e, NEW b, BoxShaped(b), NEW now, now = Apply(e, b)
    PROVE  Kept(e, b, now)
<1>1. CASE e.do = "rule" /\ e.on \in DOMAIN b.rules
  <2> DEFINE y == [b.rules[e.on] EXCEPT !.on = e.is]
             x == [b.rules EXCEPT ![e.on] = y]
  <2>1. Apply(e, b) = [b EXCEPT !.rules[e.on].on = e.is]
    BY <1>1 DEF Apply, HostSettings
  <2>2. now = [b EXCEPT !.rules = x]
    BY <2>1
  <2>3. DOMAIN x = DOMAIN b.rules
    OBVIOUS
  <2> HIDE DEF x
  <2> QED BY <1>1, <2>2, <2>3, PartReplaced DEF Kept, BoxShaped
<1>2. CASE e.do = "create_rule"
  <2> DEFINE x == [r \in DOMAIN b.rules \cup {e.on} |->
                      IF r = e.on THEN [on |-> TRUE, owner |-> e.is] ELSE b.rules[r]]
  <2>1. now = [b EXCEPT !.rules = x]
    BY <1>2 DEF Apply, HostSettings
  <2>2. DOMAIN x = DOMAIN b.rules \cup {e.on}
    OBVIOUS
  <2> HIDE DEF x
  <2> QED BY <1>2, <2>1, <2>2, PartReplaced DEF Kept, BoxShaped
<1>3. CASE e.do = "delete_rule"
  <2>1. now = [b EXCEPT !.rules = Without(b.rules, {e.on})]
    BY <1>3 DEF Apply, HostSettings
  <2>2. DOMAIN Without(b.rules, {e.on}) = DOMAIN b.rules \ {e.on}
    BY DEF Without, Restrict
  <2> QED BY <1>3, <2>1, <2>2, PartReplaced DEF Kept, BoxShaped
<1>4. CASE e.do = "ssid"
  <2>1. now = [b EXCEPT !.paused = e.is]
    BY <1>4 DEF Apply, HostSettings
  <2> QED BY <1>4, <2>1, PartReplaced DEF Kept, BoxShaped
<1>5. CASE e.do \in HostSettings /\ e.on \in DOMAIN b.hosts
  <2> DEFINE y == [b.hosts[e.on] EXCEPT ![e.do] = e.is]
             x == [b.hosts EXCEPT ![e.on] = y]
  <2>1. now = [b EXCEPT !.hosts = x]
    BY <1>5 DEF Apply, HostSettings
  <2>2. /\ DOMAIN y = DOMAIN b.hosts[e.on]
        /\ e.do # "tag" => y.tag = b.hosts[e.on].tag
    BY <1>5 DEF BoxShaped, HostSettings
  <2> HIDE DEF y
  <2>3. /\ DOMAIN x = DOMAIN b.hosts
        /\ \A h \in DOMAIN x : x[h] = IF h = e.on THEN y ELSE b.hosts[h]
    OBVIOUS
  <2> HIDE DEF x
  <2>4. e.do \notin {"create_rule", "delete_rule", "delete_host", "delete_alarm"}
    BY <1>5 DEF HostSettings
  <2> QED BY <1>5, <2>1, <2>2, <2>3, <2>4, PartReplaced DEF Kept, BoxShaped
<1>6. CASE e.do = "ip" /\ e.on \in DOMAIN b.hosts
  <2> DEFINE y == [b.hosts[e.on] EXCEPT !.ip = [b.hosts[e.on].ip EXCEPT ![e.is[1]] = e.is[2]]]
             x == [b.hosts EXCEPT ![e.on] = y]
  <2>1. now = [b EXCEPT !.hosts = x]
    BY <1>6 DEF Apply, HostSettings
  <2>2. DOMAIN y = DOMAIN b.hosts[e.on] /\ y.tag = b.hosts[e.on].tag
    BY <1>6 DEF BoxShaped, HostSettings
  <2> HIDE DEF y
  <2>3. /\ DOMAIN x = DOMAIN b.hosts
        /\ \A h \in DOMAIN x : x[h] = IF h = e.on THEN y ELSE b.hosts[h]
    OBVIOUS
  <2> HIDE DEF x
  <2> QED BY <1>6, <2>1, <2>2, <2>3, PartReplaced DEF Kept, BoxShaped
<1>7. CASE e.do = "delete_host"
  <2>1. now = [b EXCEPT !.hosts = Without(b.hosts, {e.on})]
    BY <1>7 DEF Apply, HostSettings
  <2>2. /\ DOMAIN Without(b.hosts, {e.on}) = DOMAIN b.hosts \ {e.on}
        /\ \A h \in DOMAIN b.hosts \ {e.on} : Without(b.hosts, {e.on})[h] = b.hosts[h]
    BY DEF Without, Restrict
  <2> QED BY <1>7, <2>1, <2>2, PartReplaced DEF Kept, BoxShaped
<1>8. CASE e.do = "archive"
  <2> DEFINE x == [a \in DOMAIN b.alarms |->
                      IF a \in Named(b, e.on) THEN "archived" ELSE b.alarms[a]]
  <2>1. now = [b EXCEPT !.alarms = x]
    BY <1>8 DEF Apply, HostSettings
  <2>2. DOMAIN x = DOMAIN b.alarms
    OBVIOUS
  <2> HIDE DEF x
  <2> QED BY <1>8, <2>1, <2>2, PartReplaced DEF Kept, BoxShaped
<1>9. CASE e.do = "delete_alarm"
  <2>1. now = [b EXCEPT !.alarms = Without(b.alarms, Named(b, e.on))]
    BY <1>9 DEF Apply, HostSettings
  <2> QED BY <1>9, <2>1, PartReplaced DEF Kept, BoxShaped
<1>10. CASE e.do \in {"mute", "unmute"}
  <2>1. \E x : now = [b EXCEPT !.muted = x]
    BY <1>10 DEF Apply, HostSettings
  <2> QED BY <1>10, <2>1, PartReplaced DEF Kept, BoxShaped
<1>11. CASE /\ e.do \notin {"create_rule", "delete_rule", "ssid", "delete_host", "archive",
                            "delete_alarm", "mute", "unmute"}
            /\ e.do = "rule" => e.on \notin DOMAIN b.rules
            /\ e.do \in HostSettings \cup {"ip"} => e.on \notin DOMAIN b.hosts
  <2>1. now = b
    BY <1>11 DEF Apply, HostSettings
  <2> QED BY <1>11, <2>1 DEF Kept
<1> QED BY <1>1, <1>2, <1>3, <1>4, <1>5, <1>6, <1>7, <1>8, <1>9, <1>10, <1>11

\* What is seen of a box has its hosts and rules, and no archived alarm.
LEMMA ViewOfFacts ==
    ASSUME NEW b, BoxShaped(b), NEW v, v = ViewOf(b)
    PROVE  /\ BoxShaped(v) /\ v.hosts = b.hosts /\ v.rules = b.rules
           /\ v.paused = b.paused /\ v.muted = b.muted
           /\ v.alarms = Restrict(b.alarms, AlarmsIn(b, "active"))
           /\ AlarmsIn(v, "archived") = {}
<1> DEFINE x == Restrict(b.alarms, AlarmsIn(b, "active"))
<1>1. v = [b EXCEPT !.alarms = x]
  BY DEF ViewOf
<1>2. \A a \in DOMAIN x : x[a] = "active"
  BY DEF Restrict, AlarmsIn
<1> HIDE DEF x
<1>3. /\ BoxShaped(v) /\ v.hosts = b.hosts /\ v.rules = b.rules /\ v.alarms = x
      /\ v.paused = b.paused /\ v.muted = b.muted
  BY <1>1, PartReplaced DEF BoxShaped
<1> QED BY <1>2, <1>3 DEF AlarmsIn, x

\* A view is patched with what an effect does to its hosts and rules, or not at all;
\* what is not published touches neither.
LEMMA PatchedFacts ==
    ASSUME NEW e, NEW v, BoxShaped(v), AlarmsIn(v, "archived") = {},
           NEW now, now = Patched(e, v)
    PROVE  /\ BoxShaped(now) /\ AlarmsIn(now, "archived") = {}
           /\ DOMAIN now.hosts \subseteq DOMAIN v.hosts
           /\ e.do = "create_rule" => DOMAIN now.rules = DOMAIN v.rules \cup {e.on}
           /\ e.do = "delete_rule" => DOMAIN now.rules = DOMAIN v.rules \ {e.on}
           /\ e.do \notin {"create_rule", "delete_rule"} => DOMAIN now.rules = DOMAIN v.rules
<1>1. CASE Published(e)
  <2> DEFINE done == Apply(e, v)
  <2>1. Kept(e, v, done)
    BY ApplyFacts
  <2> HIDE DEF done
  <2>2. now = ViewOf(done)
    BY <1>1 DEF Patched, done
  <2>3. BoxShaped(done)
    BY <2>1 DEF Kept
  <2>4. /\ BoxShaped(now) /\ now.hosts = done.hosts /\ now.rules = done.rules
        /\ AlarmsIn(now, "archived") = {}
    BY <2>2, <2>3, ViewOfFacts
  <2> QED BY <2>1, <2>4 DEF Kept
<1>2. CASE ~Published(e)
  <2>1. now = v
    BY <1>2 DEF Patched
  <2>2. e.do \notin {"create_rule", "delete_rule"}
    BY <1>2 DEF Published
  <2> QED BY <2>1, <2>2
<1> QED BY <1>1, <1>2

\* A box whose part is replaced by itself is the same box.
LEMMA PartKept ==
    ASSUME NEW b, BoxShaped(b)
    PROVE  /\ [b EXCEPT !.hosts = b.hosts] = b /\ [b EXCEPT !.rules = b.rules] = b
           /\ [b EXCEPT !.paused = b.paused] = b /\ [b EXCEPT !.alarms = b.alarms] = b
           /\ [b EXCEPT !.muted = b.muted] = b
<1>1. b = [hosts |-> b.hosts, rules |-> b.rules, paused |-> b.paused,
           alarms |-> b.alarms, muted |-> b.muted]
  BY DEF BoxShaped
<1> QED BY <1>1, PartReplaced

\* What was written once may be written again.
LEMMA WrittenTwice ==
    ASSUME NEW f, NEW k, NEW x, NEW g, g = [f EXCEPT ![k] = x]
    PROVE  [g EXCEPT ![k] = x] = g /\ (k \in DOMAIN f => g[k] = x)
<1>1. DOMAIN g = DOMAIN f /\ g = [i \in DOMAIN g |-> g[i]] /\ (k \in DOMAIN f => g[k] = x)
  OBVIOUS
<1>2. \A i \in DOMAIN g : [g EXCEPT ![k] = x][i] = g[i]
  BY <1>1
<1> QED BY <1>1, <1>2

\* An effect on anything but alarms is in effect in whatever has the parts of a box that
\* took it: it would not change them again.
LEMMA PartsShow ==
    ASSUME NEW e, e.do \notin {"archive", "delete_alarm"}, NEW v, BoxShaped(v),
           NEW done, BoxShaped(done), done = Apply(e, v),
           NEW now, BoxShaped(now), now.hosts = done.hosts, now.rules = done.rules,
           now.paused = done.paused, now.muted = done.muted
    PROVE  InEffect(e, now)
<1>1. done = Apply(e, v)
  OBVIOUS
<1>2. /\ BoxShaped(now) /\ now.hosts = done.hosts /\ now.rules = done.rules
      /\ now.paused = done.paused /\ now.muted = done.muted
  OBVIOUS
<1>3. CASE e.do = "rule" /\ e.on \in DOMAIN v.rules
  <2> DEFINE y == [v.rules[e.on] EXCEPT !.on = e.is]
             x == [v.rules EXCEPT ![e.on] = y]
  <2>1. done = [v EXCEPT !.rules = x]
    BY <1>1, <1>3 DEF Apply, HostSettings
  <2>2. [y EXCEPT !.on = e.is] = y
    BY WrittenTwice
  <2> HIDE DEF y
  <2>3. [x EXCEPT ![e.on] = y] = x /\ x[e.on] = y /\ e.on \in DOMAIN x
    BY <1>3, WrittenTwice
  <2> HIDE DEF x
  <2>4. now.rules = x
    BY <1>2, <2>1, PartReplaced
  <2>5. Apply(e, now) = [now EXCEPT !.rules[e.on].on = e.is]
    BY <1>3, <2>3, <2>4 DEF Apply, HostSettings
  <2>6. Apply(e, now) = [now EXCEPT !.rules = now.rules]
    BY <2>2, <2>3, <2>4, <2>5
  <2> QED BY <1>2, <2>6, PartKept DEF InEffect
<1>4. CASE e.do = "create_rule"
  <2> DEFINE y == [on |-> TRUE, owner |-> e.is]
             x == [r \in DOMAIN v.rules \cup {e.on} |-> IF r = e.on THEN y ELSE v.rules[r]]
  <2>1. done = [v EXCEPT !.rules = x]
    BY <1>1, <1>4 DEF Apply, HostSettings
  <2>2. x = [r \in DOMAIN x \cup {e.on} |-> IF r = e.on THEN y ELSE x[r]]
    OBVIOUS
  <2> HIDE DEF x
  <2>3. now.rules = x
    BY <1>2, <2>1, PartReplaced
  <2>4. Apply(e, now) =
            [now EXCEPT !.rules = [r \in DOMAIN now.rules \cup {e.on} |->
                IF r = e.on THEN y ELSE now.rules[r]]]
    BY <1>4 DEF Apply, HostSettings
  <2>5. [r \in DOMAIN now.rules \cup {e.on} |->
            IF r = e.on THEN y ELSE now.rules[r]] = now.rules
    BY <2>2, <2>3
  <2>6. Apply(e, now) = [now EXCEPT !.rules = now.rules]
    <3> HIDE DEF y
    <3> QED BY <2>4, <2>5
  <2> QED BY <1>2, <2>6, PartKept DEF InEffect
<1>5. CASE e.do \in {"delete_rule", "delete_host"}
  <2>1. ASSUME NEW f PROVE Without(Without(f, {e.on}), {e.on}) = Without(f, {e.on})
    BY DEF Without, Restrict
  <2>2. CASE e.do = "delete_rule"
    <3>1. done = [v EXCEPT !.rules = Without(v.rules, {e.on})]
      BY <1>1, <2>2 DEF Apply, HostSettings
    <3>2. now.rules = Without(v.rules, {e.on})
      BY <1>2, <3>1, PartReplaced
    <3>3. Apply(e, now) = [now EXCEPT !.rules = Without(now.rules, {e.on})]
      BY <2>2 DEF Apply, HostSettings
    <3>4. Apply(e, now) = [now EXCEPT !.rules = now.rules]
      BY <2>1, <3>2, <3>3
    <3> QED BY <1>2, <3>4, PartKept DEF InEffect
  <2>3. CASE e.do = "delete_host"
    <3>1. done = [v EXCEPT !.hosts = Without(v.hosts, {e.on})]
      BY <1>1, <2>3 DEF Apply, HostSettings
    <3>2. now.hosts = Without(v.hosts, {e.on})
      BY <1>2, <3>1, PartReplaced
    <3>3. Apply(e, now) = [now EXCEPT !.hosts = Without(now.hosts, {e.on})]
      BY <2>3 DEF Apply, HostSettings
    <3>4. Apply(e, now) = [now EXCEPT !.hosts = now.hosts]
      BY <2>1, <3>2, <3>3
    <3> QED BY <1>2, <3>4, PartKept DEF InEffect
  <2> QED BY <1>5, <2>2, <2>3
<1>6. CASE e.do = "ssid"
  <2>1. done = [v EXCEPT !.paused = e.is]
    BY <1>1, <1>6 DEF Apply, HostSettings
  <2>2. now.paused = e.is
    BY <1>2, <2>1, PartReplaced
  <2>3. Apply(e, now) = [now EXCEPT !.paused = now.paused]
    BY <1>6, <2>2 DEF Apply, HostSettings
  <2> QED BY <1>2, <2>3, PartKept DEF InEffect
<1>7. CASE e.do \in HostSettings /\ e.on \in DOMAIN v.hosts
  <2> DEFINE y == [v.hosts[e.on] EXCEPT ![e.do] = e.is]
             x == [v.hosts EXCEPT ![e.on] = y]
  <2>1. done = [v EXCEPT !.hosts = x]
    BY <1>1, <1>7 DEF Apply, HostSettings
  <2>2. [y EXCEPT ![e.do] = e.is] = y
    BY WrittenTwice
  <2> HIDE DEF y
  <2>3. [x EXCEPT ![e.on] = y] = x /\ x[e.on] = y /\ e.on \in DOMAIN x
    BY <1>7, WrittenTwice
  <2> HIDE DEF x
  <2>4. now.hosts = x
    BY <1>2, <2>1, PartReplaced
  <2>5. Apply(e, now) = [now EXCEPT !.hosts[e.on][e.do] = e.is]
    BY <1>7, <2>3, <2>4 DEF Apply, HostSettings
  <2>6. Apply(e, now) = [now EXCEPT !.hosts = now.hosts]
    BY <2>2, <2>3, <2>4, <2>5
  <2> QED BY <1>2, <2>6, PartKept DEF InEffect
<1>8. CASE e.do = "ip" /\ e.on \in DOMAIN v.hosts
  <2> DEFINE z == [v.hosts[e.on].ip EXCEPT ![e.is[1]] = e.is[2]]
             y == [v.hosts[e.on] EXCEPT !.ip = z]
             x == [v.hosts EXCEPT ![e.on] = y]
  <2>1. done = [v EXCEPT !.hosts = x]
    BY <1>1, <1>8 DEF Apply, HostSettings
  <2>2. [z EXCEPT ![e.is[1]] = e.is[2]] = z
    BY WrittenTwice
  <2> HIDE DEF z
  <2>3. [y EXCEPT !.ip = z] = y /\ ("ip" \in DOMAIN v.hosts[e.on] => y.ip = z)
    BY WrittenTwice
  <2>9. "ip" \notin DOMAIN v.hosts[e.on] =>
            \A u : [y EXCEPT !.ip = u] = y
    OBVIOUS
  <2> HIDE DEF y
  <2>4. [x EXCEPT ![e.on] = y] = x /\ x[e.on] = y /\ e.on \in DOMAIN x
    BY <1>8, WrittenTwice
  <2> HIDE DEF x
  <2>5. now.hosts = x
    BY <1>2, <2>1, PartReplaced
  <2>6. Apply(e, now) = [now EXCEPT !.hosts[e.on].ip[e.is[1]] = e.is[2]]
    BY <1>8, <2>4, <2>5 DEF Apply, HostSettings
  <2>7. [y EXCEPT !.ip[e.is[1]] = e.is[2]] = y
    BY <2>2, <2>3, <2>9
  <2>8. Apply(e, now) = [now EXCEPT !.hosts = now.hosts]
    BY <2>4, <2>5, <2>6, <2>7
  <2> QED BY <1>2, <2>8, PartKept DEF InEffect
<1>9. CASE e.do \in {"mute", "unmute"}
  <2> DEFINE x == v.muted \cup {e.on}
             w == v.muted \ {e.on}
  <2>1. CASE e.do = "mute"
    <3>1. done = [v EXCEPT !.muted = x]
      BY <1>1, <2>1 DEF Apply, HostSettings
    <3>2. now.muted = x /\ x \cup {e.on} = x
      BY <1>2, <3>1, PartReplaced
    <3>3. Apply(e, now) = [now EXCEPT !.muted = now.muted \cup {e.on}]
      BY <2>1 DEF Apply, HostSettings
    <3> QED BY <1>2, <3>2, <3>3, PartKept DEF InEffect
  <2>2. CASE e.do = "unmute"
    <3>1. done = [v EXCEPT !.muted = w]
      BY <1>1, <2>2 DEF Apply, HostSettings
    <3>2. now.muted = w /\ w \ {e.on} = w
      BY <1>2, <3>1, PartReplaced
    <3>3. Apply(e, now) = [now EXCEPT !.muted = now.muted \ {e.on}]
      BY <2>2 DEF Apply, HostSettings
    <3> QED BY <1>2, <3>2, <3>3, PartKept DEF InEffect
  <2> QED BY <1>9, <2>1, <2>2
<1>10. CASE /\ e.do \notin {"create_rule", "delete_rule", "ssid", "delete_host", "archive",
                            "delete_alarm", "mute", "unmute"}
            /\ e.do = "rule" => e.on \notin DOMAIN v.rules
            /\ e.do \in HostSettings \cup {"ip"} => e.on \notin DOMAIN v.hosts
  <2>1. done = v
    BY <1>1, <1>10 DEF Apply, HostSettings
  <2>2. now.rules = v.rules /\ now.hosts = v.hosts
    BY <1>2, <2>1
  <2>3. Apply(e, now) = now
    BY <1>10, <2>2 DEF Apply, HostSettings
  <2> QED BY <2>3 DEF InEffect
<1> QED BY <1>3, <1>4, <1>5, <1>6, <1>7, <1>8, <1>9, <1>10

\* A box that took an effect shows it.
LEMMA BoxShows ==
    ASSUME NEW e, NEW b, BoxShaped(b), NEW now, now = Apply(e, b)
    PROVE  InEffect(e, now)
<1>1. BoxShaped(now)
  BY ApplyFacts DEF Kept
<1>2. CASE e.do \notin {"archive", "delete_alarm"}
  BY <1>1, <1>2, PartsShow
<1>3. CASE e.do = "archive"
  <2> DEFINE x == [a \in DOMAIN b.alarms |->
                      IF a \in Named(b, e.on) THEN "archived" ELSE b.alarms[a]]
  <2>1. now = [b EXCEPT !.alarms = x]
    BY <1>3 DEF Apply, HostSettings
  <2>2. now.alarms = x
    <3> HIDE DEF x
    <3> QED BY <2>1, PartReplaced
  <2>3. \A a \in DOMAIN now.alarms : a \in Named(now, e.on) => now.alarms[a] = "archived"
    <3>1. CASE e.on = All \/ e.on = "active"
      <4>1. Named(b, e.on) = AlarmsIn(b, "active") /\ Named(now, e.on) = AlarmsIn(now, "active")
        BY <3>1 DEF Named
      <4> QED BY <2>2, <4>1 DEF AlarmsIn
    <3>2. CASE e.on # All /\ e.on = "archived"
      BY <3>2 DEF Named, AlarmsIn
    <3>3. CASE e.on # All /\ e.on \notin {"active", "archived"}
      BY <2>2, <3>3 DEF Named
    <3> QED BY <3>1, <3>2, <3>3
  <2>4. now.alarms = [a \in DOMAIN now.alarms |-> now.alarms[a]]
    BY <2>2
  <2> HIDE DEF x
  <2>5. Apply(e, now) = [now EXCEPT !.alarms = [a \in DOMAIN now.alarms |->
                            IF a \in Named(now, e.on) THEN "archived" ELSE now.alarms[a]]]
    BY <1>3 DEF Apply, HostSettings
  <2>6. Apply(e, now) = [now EXCEPT !.alarms = now.alarms]
    BY <2>3, <2>4, <2>5
  <2> QED BY <1>1, <2>6, PartKept DEF InEffect
<1>4. CASE e.do = "delete_alarm"
  <2> DEFINE w == Without(b.alarms, Named(b, e.on))
  <2>1. now = [b EXCEPT !.alarms = w]
    BY <1>4 DEF Apply, HostSettings
  <2>2. now.alarms = w
    <3> HIDE DEF w
    <3> QED BY <2>1, PartReplaced
  <2>3. /\ \A a \in DOMAIN w : a \in DOMAIN b.alarms /\ a \notin Named(b, e.on) /\ w[a] = b.alarms[a]
        /\ w = [a \in DOMAIN w |-> w[a]]
    BY DEF Without, Restrict
  <2> HIDE DEF w
  <2>4. Named(now, e.on) = {}
    <3>1. CASE e.on = All \/ e.on \in {"active", "archived"}
      <4>1. PICK status : Named(b, e.on) = AlarmsIn(b, status) /\ Named(now, e.on) = AlarmsIn(now, status)
        BY <3>1 DEF Named
      <4> QED BY <2>2, <2>3, <4>1 DEF AlarmsIn
    <3>2. CASE e.on # All /\ e.on \notin {"active", "archived"}
      BY <2>2, <2>3, <3>2 DEF Named
    <3> QED BY <3>1, <3>2
  <2>5. Apply(e, now) = [now EXCEPT !.alarms = Without(now.alarms, {})]
    BY <1>4, <2>4 DEF Apply, HostSettings
  <2>6. Without(now.alarms, {}) = now.alarms
    BY <2>2, <2>3 DEF Without, Restrict
  <2>7. Apply(e, now) = [now EXCEPT !.alarms = now.alarms]
    BY <2>5, <2>6
  <2> QED BY <1>1, <2>7, PartKept DEF InEffect
<1> QED BY <1>2, <1>3, <1>4

\* A view patched with an effect shows it: the effect would not change it again.
LEMMA PatchShows ==
    ASSUME NEW e, Published(e), NEW v, BoxShaped(v), NEW now, now = Patched(e, v)
    PROVE  InEffect(e, now)
<1> DEFINE done == Apply(e, v)
<1>1. BoxShaped(done) /\ now = ViewOf(done) /\ done = Apply(e, v)
  BY ApplyFacts DEF Kept, Patched
<1> HIDE DEF done
<1>2. /\ BoxShaped(now) /\ now.hosts = done.hosts /\ now.rules = done.rules
      /\ now.paused = done.paused /\ now.muted = done.muted
      /\ now.alarms = Restrict(done.alarms, AlarmsIn(done, "active"))
      /\ AlarmsIn(now, "archived") = {}
  BY <1>1, ViewOfFacts
<1>3. CASE e.do \notin {"archive", "delete_alarm"}
  BY <1>1, <1>2, <1>3, PartsShow
<1>4. CASE e.do \in {"archive", "delete_alarm"}
  <2> DEFINE x == [a \in DOMAIN v.alarms |->
                      IF a \in Named(v, e.on) THEN "archived" ELSE v.alarms[a]]
             w == Without(v.alarms, Named(v, e.on))
  <2>1. e.do = "archive" => done = [v EXCEPT !.alarms = x]
    BY <1>1 DEF Apply, HostSettings
  <2>2. e.do = "delete_alarm" => done = [v EXCEPT !.alarms = w]
    BY <1>1 DEF Apply, HostSettings
  <2>3. \A a \in DOMAIN x : x[a] = "active" => a \notin Named(v, e.on) /\ v.alarms[a] = "active"
    OBVIOUS
  <2>4. \A a \in DOMAIN w : a \notin Named(v, e.on) /\ v.alarms[a] = w[a]
    BY DEF Without, Restrict
  <2>5. DOMAIN x \subseteq DOMAIN v.alarms /\ DOMAIN w \subseteq DOMAIN v.alarms
    BY DEF Without, Restrict
  <2> HIDE DEF x, w
  <2>6. done.alarms = x \/ done.alarms = w
    BY <1>4, <2>1, <2>2, PartReplaced
  <2>7. \A a \in DOMAIN now.alarms :
            a \in DOMAIN v.alarms /\ v.alarms[a] = "active" /\ a \notin Named(v, e.on)
    BY <1>2, <2>3, <2>4, <2>5, <2>6 DEF Restrict, AlarmsIn
  <2>8. Named(now, e.on) = {}
    <3>1. CASE e.on = All \/ e.on = "active"
      <4>1. Named(v, e.on) = AlarmsIn(v, "active") /\ Named(now, e.on) = AlarmsIn(now, "active")
        BY <3>1 DEF Named
      <4> QED BY <2>7, <4>1 DEF AlarmsIn
    <3>2. CASE e.on # All /\ e.on = "archived"
      BY <1>2, <3>2 DEF Named
    <3>3. CASE e.on # All /\ e.on \notin {"active", "archived"}
      BY <2>7, <3>3 DEF Named
    <3> QED BY <3>1, <3>2, <3>3
  <2>9. now.alarms = [a \in DOMAIN now.alarms |-> now.alarms[a]]
    BY <1>2 DEF Restrict
  <2>10. CASE e.do = "archive"
    <3>1. Apply(e, now) = [now EXCEPT !.alarms = [a \in DOMAIN now.alarms |->
                              IF a \in Named(now, e.on) THEN "archived" ELSE now.alarms[a]]]
      BY <2>10 DEF Apply, HostSettings
    <3>2. Apply(e, now) = [now EXCEPT !.alarms = now.alarms]
      BY <2>8, <2>9, <3>1
    <3> QED BY <1>2, <3>2, PartKept DEF InEffect
  <2>11. CASE e.do = "delete_alarm"
    <3>1. Apply(e, now) = [now EXCEPT !.alarms = Without(now.alarms, Named(now, e.on))]
      BY <2>11 DEF Apply, HostSettings
    <3>2. Without(now.alarms, {}) = now.alarms
      BY <2>9 DEF Without, Restrict
    <3>3. Apply(e, now) = [now EXCEPT !.alarms = now.alarms]
      BY <2>8, <3>1, <3>2
    <3> QED BY <1>2, <3>3, PartKept DEF InEffect
  <2> QED BY <1>4, <2>10, <2>11
<1> QED BY <1>3, <1>4

-----------------------------------------------------------------------------
(* Selectors.                                                              *)

\* An error is neither resolved nor a plan, and what is found is no plan.
LEMMA AnswerKinds ==
    ASSUME NEW x, NEW k
    PROVE  /\ Resolved(Found(x)) /\ Found(x).found = x /\ ~IsPlan(Found(x))
           /\ ~Resolved(Error(k)) /\ ~IsPlan(Error(k))
<1>1. DOMAIN Found(x) = {"found"} /\ DOMAIN Error(k) = {"error"} /\ Found(x).found = x
  BY DEF Found, Error
<1> QED BY <1>1 DEF Resolved, IsPlan

\* One member is picked from a set of cardinality one.
LEMMA TheOnlyIsOne ==
    ASSUME NEW S, Cardinality(S) = 1
    PROVE  TheOnly(S) \in S
<1>1. S # {}
  BY FS_EmptySet
<1> QED BY <1>1 DEF TheOnly

\* What matches is found when it is one, and an error otherwise.
LEMMA AnswerFacts ==
    ASSUME NEW matches
    PROVE  \/ \E x \in matches : Answer(matches) = Found(x)
           \/ \E k : Answer(matches) = Error(k)
<1>1. CASE Cardinality(matches) = 1
  <2>1. Cardinality(matches) = 1 /\ matches # {}
    BY <1>1, FS_EmptySet
  <2>2. Answer(matches) = Found(TheOnly(matches))
    BY <2>1 DEF Answer
  <2> QED BY <1>1, <2>2, TheOnlyIsOne
<1>2. CASE Cardinality(matches) # 1 /\ matches = {}
  <2>1. Answer(matches) = Error("not_found")
    BY <1>2 DEF Answer
  <2> QED BY <2>1
<1>3. CASE Cardinality(matches) # 1 /\ matches # {}
  <2>1. Answer(matches) = Error("ambiguous")
    BY <1>3 DEF Answer
  <2> QED BY <2>1
<1> QED BY <1>1, <1>2, <1>3

\* A write resolves its host to one the view lists, or ends in an error.
LEMMA HostFacts ==
    ASSUME NEW v, NEW d, NEW answer,
           answer = ResolveRequestedHost(SelectorView(v), d, TRUE)
    PROVE  \/ \E h \in DOMAIN v.hosts : answer = Found(h)
           \/ \E k : answer = Error(k)
<1> DEFINE view == SelectorView(v)
           given == Supplied(d, HostFields)
           named == {[id |-> h.mac, names |-> {h.name, h.label} \cup h.aliases] :
                         h \in view.hosts}
<1>1. \A h \in view.hosts : h.mac \in DOMAIN v.hosts
  BY DEF SelectorView
<1> HIDE DEF view
<1>2. \A text : MatchNames(text, named) \subseteq DOMAIN v.hosts
  BY <1>1 DEF MatchNames
<1>3. \A text : \/ \E h \in DOMAIN v.hosts : HostByMac(view, text) = Found(h)
                \/ \E k : HostByMac(view, text) = Error(k)
  BY <1>1 DEF HostByMac, Macs
<1>4. \A text : \/ \E h \in DOMAIN v.hosts : Answer(MatchNames(text, named)) = Found(h)
                \/ \E k : Answer(MatchNames(text, named)) = Error(k)
  BY <1>2, AnswerFacts
<1>5. answer \in {Error("conflict"), HostByMac(view, d.host_mac), HostByMac(view, d.host_id),
                  Answer(MatchNames(d.host_name, named)), Error("required")}
  BY DEF ResolveRequestedHost, view
<1> HIDE DEF named
<1> QED BY <1>3, <1>4, <1>5

\* A service of one host does what it does for a host the view lists, or ends in an
\* error.
LEMMA HostCommandFacts ==
    ASSUME NEW v, NEW d, NEW ops
    PROVE  \/ \E h \in DOMAIN v.hosts : HostCommand(d, v, ops) = ops[h]
           \/ \E k : HostCommand(d, v, ops) = Error(k)
<1> DEFINE answer == ResolveRequestedHost(SelectorView(v), d, TRUE)
<1>1. \/ \E h \in DOMAIN v.hosts : answer = Found(h)
      \/ \E k : answer = Error(k)
  BY HostFacts
<1>2. HostCommand(d, v, ops) =
          IF Resolved(answer) THEN ops[answer.found]
          ELSE IF answer = Error("not_found") THEN Error("host_not_found") ELSE answer
  BY DEF HostCommand
<1> HIDE DEF answer
<1> QED BY <1>1, <1>2, AnswerKinds

\* A WAN that is not resolved is an error.
LEMMA WanFacts ==
    ASSUME NEW view, NEW uuid, NEW name
    PROVE  \/ \E x : ResolveRequestedWan(view, uuid, name, TRUE) = Found(x)
           \/ \E k : ResolveRequestedWan(view, uuid, name, TRUE) = Error(k)
<1> DEFINE answer == ResolveNetworkIn(Wans(view), uuid, name)
           byId == Answer({n.uuid : n \in {m \in Wans(view) : m.uuid = uuid}})
           byName == Answer({n.uuid : n \in {m \in Wans(view) : Fold(m.name) = Fold(name)}})
<1>1. answer \in {Error("conflict"), byId, byName, Found(None)}
  BY DEF ResolveNetworkIn
<1>2. (\E x : byId = Found(x)) \/ \E k : byId = Error(k)
  BY AnswerFacts
<1>3. (\E x : byName = Found(x)) \/ \E k : byName = Error(k)
  BY AnswerFacts
<1>4. ResolveRequestedWan(view, uuid, name, TRUE) \in
          {answer, Found(TheOnly(Wans(view)).uuid), Error("required")}
  BY DEF ResolveRequestedWan
<1> HIDE DEF answer, byId, byName
<1> QED BY <1>1, <1>2, <1>3, <1>4

\* The fields and the value of one selected field, or no field.
LEMMA SelectionFacts ==
    ASSUME NEW data, NEW fields, NEW selection, selection = SelectScope(data, fields)
    PROVE  /\ "error" \notin DOMAIN selection /\ ~IsPlan(selection)
           /\ selection.field # None => selection.field \in fields
                                        /\ selection.kind = KindOf(selection.field)
<1> DEFINE given == Supplied(data, fields)
           one == [field |-> TheOnly(given), value |-> data[TheOnly(given)]]
           other == [field |-> None, supplied |-> given]
           picked == SelectExclusive(data, fields)
<1>1. picked = IF Cardinality(given) = 1 THEN one ELSE other
  BY DEF SelectExclusive
<1>2. Cardinality(given) = 1 => one.field \in fields
  BY TheOnlyIsOne DEF Supplied
<1>3. /\ DOMAIN one = {"field", "value"} /\ DOMAIN other = {"field", "supplied"}
      /\ other.field = None
  OBVIOUS
<1> HIDE DEF one, other, given
<1>4. /\ "error" \notin DOMAIN picked /\ "ops" \notin DOMAIN picked
      /\ picked.field # None => picked.field \in fields
  BY <1>1, <1>2, <1>3
<1> DEFINE full == [field |-> picked.field, value |-> picked.value,
                    kind |-> KindOf(picked.field)]
<1>5. selection = IF picked.field = None THEN picked ELSE full
  BY DEF SelectScope
<1>6. /\ DOMAIN full = {"field", "value", "kind"}
      /\ full.field = picked.field /\ full.kind = KindOf(picked.field)
  OBVIOUS
<1> HIDE DEF picked, full
<1> QED BY <1>4, <1>5, <1>6 DEF IsPlan

\* The scope of a rule or of a silence is resolved or an error, never a plan.
LEMMA ScopeFacts ==
    ASSUME NEW d, NEW v
    PROVE  ~IsPlan(ScopeOf(d, v))
<1> DEFINE all == ValueOf(d, "all_hosts") = TRUE
           picked == SelectScope(d, RuleFields)
           selection == SelectOneScope(d, all)
           view == SelectorView(v)
<1>1. /\ "error" \notin DOMAIN picked /\ ~IsPlan(picked)
      /\ picked.field # None => picked.field \in RuleFields
                                /\ picked.kind = KindOf(picked.field)
  BY SelectionFacts
<1>2. \/ \E k : selection = Error(k)
      \/ selection = [field |-> "all_hosts"]
      \/ selection = picked /\ picked.field # None
  BY DEF SelectOneScope
<1> HIDE DEF picked, all, selection, view
<1>3. CASE \E k : selection = Error(k)
  <2>1. ScopeOf(d, v) = selection
    BY <1>3 DEF ScopeOf, Error, selection, all
  <2> QED BY <1>3, <2>1, AnswerKinds
<1>4. CASE selection = [field |-> "all_hosts"]
  <2>1. ScopeOf(d, v) = [found |-> None, kind |-> "all"]
    BY <1>4 DEF ScopeOf, ResolveScopeIdentity, selection, all
  <2> QED BY <2>1 DEF IsPlan
<1>5. CASE selection = picked /\ picked.field # None
  <2>1. picked.kind \in {"host", "group", "user", "network"}
    BY <1>1, <1>5
       DEF KindOf, RuleFields, ReportFields, HostFields, GroupFields, UserFields, NetworkFields
  <2>2. picked.field # "all_hosts"
    BY <1>1, <1>5 DEF RuleFields, ReportFields, GroupFields, UserFields, NetworkFields
  <2>3. ScopeOf(d, v) = ResolveScopeIdentity(view, picked)
    BY <1>1, <1>5 DEF ScopeOf, selection, all, view
  <2>4. ASSUME NEW kind, NEW matches
        PROVE  ~IsPlan(Answer(matches)) /\ ~IsPlan(Aimed(kind, Answer(matches)))
    <3>1. ~IsPlan(Answer(matches))
      BY AnswerFacts, AnswerKinds
    <3>2. ~IsPlan([found |-> Answer(matches).found, kind |-> kind])
      BY DEF IsPlan
    <3> HIDE DEF IsPlan
    <3> QED BY <3>1, <3>2 DEF Aimed
  <2> DEFINE hosts == Answer(MatchScopeSelection(picked, HostRecords(view)))
             networks == Answer(MatchScopeSelection(picked, NetworkRecords(view)))
             groups == Answer(MatchScopeSelection(picked, GroupRecords(view)))
             users == Answer(MatchScopeSelection(picked, TaggedUsers(view)))
             tagged == [found |-> TagOfUser(view, users.found), kind |-> "user"]
  <2>5. ResolveScopeIdentity(view, picked) \in
            {Aimed("host", hosts), Aimed("network", networks), Aimed("group", groups),
             tagged, users}
    BY <2>1, <2>2 DEF ResolveScopeIdentity
  <2>6. ~IsPlan(tagged)
    BY DEF IsPlan
  <2>7. /\ ~IsPlan(Aimed("host", hosts)) /\ ~IsPlan(Aimed("network", networks))
        /\ ~IsPlan(Aimed("group", groups)) /\ ~IsPlan(users)
    BY <2>4
  <2> HIDE DEF hosts, networks, groups, users, tagged
  <2> QED BY <2>3, <2>5, <2>6, <2>7
<1> QED BY <1>2, <1>3, <1>4, <1>5

-----------------------------------------------------------------------------
(* Plans.                                                                  *)

\* A plan may be carried out when its effects are the service's and in their order,
\* and deletes rules only that the view lists; a service that publishes what it does
\* asks for one effect at most.
Sound(plan, service, v) ==
    /\ Doable(plan.ops, service)
    /\ \A i \in DOMAIN plan.ops :
          plan.ops[i].do = "delete_rule" => plan.ops[i].on \in DOMAIN v.rules
    /\ service \in Publishing =>
          \/ plan.ops = <<>>
          \/ Len(plan.ops) = 1 /\ DOMAIN plan.ops = {1} /\ Published(plan.ops[1])

\* The effects only some services ask for.
Particular == {"delete_rule", "tag", "delete_host", "delete_alarm", "find_alarm"}

\* The effects that are not published.
Quiet == {"tag", "mute", "unmute", "wake", "speed_test", "find_alarm"}

\* A plan is one, and its parts are what it was made of.
LEMMA PlanFacts ==
    ASSUME NEW ops, NEW target, NEW reported
    PROVE  IsPlan(Plan(ops, target, reported)) /\ Plan(ops, target, reported).ops = ops
<1>1. DOMAIN Plan(ops, target, reported) = {"ops", "target", "reported"}
  BY DEF Plan
<1> QED BY <1>1 DEF IsPlan, Plan

\* A single effect that any service may ask for.
LEMMA OneFacts ==
    ASSUME NEW do, NEW on, NEW is, NEW v, NEW service, NEW target, NEW reported,
           do # "find_alarm",
           do = "delete_rule" => /\ service \in {"delete_rule", "set_host_membership"}
                                 /\ on \in DOMAIN v.rules,
           do = "tag" => service = "set_host_membership",
           do = "delete_host" => service = "delete_host",
           do = "delete_alarm" => service = "delete_alarms",
           service \in Publishing => do \notin Quiet
    PROVE  Sound(Plan(<<Effect(do, on, is)>>, target, reported), service, v)
<1> DEFINE e == Effect(do, on, is)
           ops == <<e>>
<1>1. e.do = do /\ e.on = on
  BY DEF Effect
<1> HIDE DEF e
<1>2. ops \in Seq({e}) /\ DOMAIN ops = 1..1 /\ ops[1] = e /\ Len(ops) = 1
  OBVIOUS
<1> HIDE DEF ops
<1>3. ops \in Seq(Range(ops))
  BY <1>2, OwnMembers
<1>4. \A i \in DOMAIN ops : i = 1 /\ ops[i] = e
  BY <1>2
<1>5. Doable(ops, service)
  BY <1>1, <1>2, <1>3, <1>4 DEF Doable
<1>6. Plan(ops, target, reported).ops = ops
  BY PlanFacts
<1>7. service \in Publishing => Published(ops[1])
  BY <1>1, <1>2 DEF Published, Quiet
<1>8. Len(ops) = 1 /\ DOMAIN ops = {1}
  BY <1>2
<1>9. Sound(Plan(ops, target, reported), service, v)
  BY <1>1, <1>4, <1>5, <1>6, <1>7, <1>8 DEF Sound
<1> QED BY <1>9 DEF ops, e

\* The deletions of a host's own rules come first, and its tags last.
LEMMA MembershipFacts ==
    ASSUME NEW d, NEW v, IsFiniteSet(DOMAIN v.rules),
           NEW plan, plan = HandleSetHostMembership(d, v), IsPlan(plan)
    PROVE  /\ Sound(plan, "set_host_membership", v)
           /\ \A i \in DOMAIN plan.ops : plan.ops[i].do \in {"delete_rule", "tag"}
           /\ plan.ops # <<>>
           /\ plan.ops[Len(plan.ops)] = Effect("tag", plan.target, plan.reported)
<1> DEFINE tag == ResolveMembershipTarget(SelectorView(v), d, ValueOf(d, "clear") = TRUE)
           Delete(r) == Effect("delete_rule", r, None)
           Dead(h) == {Delete(r) : r \in FindDeviceRuleIds(v, h)}
           TagsOfHost(h) == Effect("tag", h, tag.found)
           Move == [h \in DOMAIN v.hosts |->
                      IF Resolved(tag) THEN Plan(SetToSeq(Dead(h)) \o <<TagsOfHost(h)>>, h, tag.found)
                      ELSE Error("membership")]
<1>1. plan = HostCommand(d, v, Move)
  BY DEF HandleSetHostMembership
<1>2. PICK h \in DOMAIN v.hosts : plan = Move[h]
  <2> HIDE DEF Move
  <2> QED BY <1>1, HostCommandFacts, AnswerKinds
<1>3. plan = Plan(SetToSeq(Dead(h)) \o <<TagsOfHost(h)>>, h, tag.found)
  BY <1>2, AnswerKinds
<1> DEFINE S == FindDeviceRuleIds(v, h)
           f == [r \in S |-> Delete(r)]
           T == Dead(h)
           last1 == TagsOfHost(h)
<1>4. S \subseteq DOMAIN v.rules /\ IsFiniteSet(S)
  BY FS_Subset DEF FindDeviceRuleIds
<1>5. \A x \in T : x.do = "delete_rule" /\ x.on \in DOMAIN v.rules
  BY <1>4 DEF Effect
<1>6. last1.do = "tag"
  BY DEF Effect
<1>7. IsFiniteSet(T)
  <2>1. f \in Surjection(S, T)
    BY DEF Surjection
  <2> HIDE DEF S, f, T
  <2> QED BY <1>4, <2>1, FS_Surjection
<1> DEFINE front == SetToSeq(T)
           ops == front \o <<last1>>
           W == T \cup {last1}
<1>8. plan.ops = ops
  <2>1. plan = Plan(ops, h, tag.found)
    BY <1>3
  <2> HIDE DEF ops
  <2> QED BY <2>1, PlanFacts
<1>a. last1 = Effect("tag", plan.target, plan.reported)
  <2>1. plan.target = h /\ plan.reported = tag.found
    BY <1>3 DEF Plan
  <2> QED BY <2>1
<1> HIDE DEF T, last1, S, tag
<1>9. front \in Seq(T)
  BY <1>7, SetToSeqFacts
<1> HIDE DEF front
<1>10. front \in Seq(W) /\ <<last1>> \in Seq(W) /\ Len(<<last1>>) = 1 /\ <<last1>>[1] = last1
  BY <1>9
<1> HIDE DEF W
<1>11. /\ ops \in Seq(W) /\ Len(ops) = Len(front) + 1
       /\ \A i \in 1..(Len(front) + 1) :
             ops[i] = IF i <= Len(front) THEN front[i] ELSE <<last1>>[i - Len(front)]
  BY <1>10, ConcatProperties
<1>12. Len(front) \in Nat /\ \A i \in 1..Len(front) : front[i] \in T
  BY <1>9
<1> HIDE DEF ops
<1>13. DOMAIN ops = 1..(Len(front) + 1) /\ ops \in Seq(Range(ops))
  BY <1>11, <1>12, OwnMembers
<1>14. ASSUME NEW i \in DOMAIN ops
       PROVE  ops[i] \in T \/ (i = Len(ops) /\ ops[i] = last1)
  <2>1. i \in 1..(Len(front) + 1)
    BY <1>13
  <2>2. CASE i <= Len(front)
    <3>1. i \in 1..Len(front) /\ ops[i] = front[i]
      BY <1>11, <1>12, <2>1, <2>2
    <3> QED BY <1>12, <3>1
  <2>3. CASE i = Len(front) + 1
    <3>1. /\ i - Len(front) = 1 /\ ~(i <= Len(front)) /\ i \in 1..(Len(front) + 1)
          /\ i = Len(ops)
      BY <1>11, <1>12, <2>3
    <3>2. ops[i] = <<last1>>[1]
      BY <1>11, <3>1
    <3> QED BY <1>10, <3>1, <3>2
  <2> QED BY <1>12, <2>1, <2>2, <2>3
<1>15. "set_host_membership" \notin Publishing
  BY DEF Publishing
<1>16. \A i \in DOMAIN ops : \/ ops[i].do = "delete_rule" /\ ops[i].on \in DOMAIN v.rules
                             \/ ops[i].do = "tag" /\ i = Len(ops)
  BY <1>5, <1>6, <1>14
<1>17. Sound(plan, "set_host_membership", v)
  BY <1>8, <1>13, <1>15, <1>16 DEF Sound, Doable
<1>18. ops # <<>> /\ ops[Len(ops)] = last1
  <2>1. Len(ops) \in DOMAIN ops /\ Len(ops) - Len(front) = 1 /\ ~(Len(ops) <= Len(front))
    BY <1>11, <1>12, <1>13
  <2>2. ops[Len(ops)] = <<last1>>[1]
    BY <1>11, <1>13, <2>1
  <2> QED BY <1>10, <2>1, <2>2
<1> QED BY <1>8, <1>a, <1>16, <1>17, <1>18

\* The services that ask one effect of a host.
LEMMA StringPlans ==
    ASSUME NEW d, NEW v, NEW setting, NEW field,
           NEW plan, plan = HandleHostStringMutation(d, v, setting, field), IsPlan(plan)
    PROVE  \E h : plan = Plan(<<Effect(setting, h, d[field])>>, h, None)
<1> DEFINE Write == [h \in DOMAIN v.hosts |-> Plan(<<Effect(setting, h, d[field])>>, h, None)]
<1>1. plan = HostCommand(d, v, Write)
  BY DEF HandleHostStringMutation
<1>2. \A h \in DOMAIN v.hosts : Write[h] = Plan(<<Effect(setting, h, d[field])>>, h, None)
  OBVIOUS
<1> HIDE DEF Write
<1>3. \E h \in DOMAIN v.hosts : plan = Write[h]
  BY <1>1, HostCommandFacts, AnswerKinds
<1> QED BY <1>2, <1>3

LEMMA NotificationPlans ==
    ASSUME NEW d, NEW v, NEW setting,
           NEW plan, plan = HandleSetHostNotification(d, v, setting), IsPlan(plan)
    PROVE  \E h : plan = Plan(<<Effect(setting, h, d.enabled)>>, h, None)
<1> DEFINE Write == [h \in DOMAIN v.hosts |-> Plan(<<Effect(setting, h, d.enabled)>>, h, None)]
<1>1. plan = HostCommand(d, v, Write)
  BY DEF HandleSetHostNotification
<1>2. \A h \in DOMAIN v.hosts : Write[h] = Plan(<<Effect(setting, h, d.enabled)>>, h, None)
  OBVIOUS
<1> HIDE DEF Write
<1>3. \E h \in DOMAIN v.hosts : plan = Write[h]
  BY <1>1, HostCommandFacts, AnswerKinds
<1> QED BY <1>2, <1>3

LEMMA WakePlans ==
    ASSUME NEW d, NEW v, NEW plan, plan = HandleWakeHost(d, v), IsPlan(plan)
    PROVE  \E h : plan = Plan(<<Effect("wake", h, None)>>, h, None)
<1> DEFINE Wake == [h \in DOMAIN v.hosts |->
               IF SupportsWakeOnLan(h) THEN Plan(<<Effect("wake", h, None)>>, h, None)
               ELSE Error("wake_not_supported")]
<1>1. plan = HostCommand(d, v, Wake)
  BY DEF HandleWakeHost
<1>2. \A h \in DOMAIN v.hosts :
          Wake[h] \in {Plan(<<Effect("wake", h, None)>>, h, None), Error("wake_not_supported")}
  OBVIOUS
<1> HIDE DEF Wake
<1>3. \E h \in DOMAIN v.hosts : plan = Wake[h]
  BY <1>1, HostCommandFacts, AnswerKinds
<1> QED BY <1>2, <1>3, AnswerKinds

\* The settings of a host are in the services' order, which is of one effect.
LEMMA SettingFacts ==
    ASSUME NEW d, NEW v, NEW plan, IsPlan(plan)
    PROVE  /\ plan = HandleSetHostName(d, v) => Sound(plan, "set_host_name", v)
           /\ plan = HandleSetHostDnsHostname(d, v) => Sound(plan, "set_host_dns_hostname", v)
           /\ plan = HandleSetHostDeviceType(d, v) => Sound(plan, "set_host_device_type", v)
           /\ plan = HandleSetHostNotification(d, v, "online") =>
                 Sound(plan, "set_host_notify_when_next_online", v)
           /\ plan = HandleSetHostNotification(d, v, "offline") =>
                 Sound(plan, "set_host_notify_when_next_offline", v)
           /\ plan = HandleWakeHost(d, v) => Sound(plan, "wake_host", v)
<1>1. ASSUME NEW setting, setting \notin Particular \cup Quiet, NEW field, NEW service,
             plan = HandleHostStringMutation(d, v, setting, field)
      PROVE  Sound(plan, service, v)
  <2>1. PICK h : plan = Plan(<<Effect(setting, h, d[field])>>, h, None)
    BY <1>1, StringPlans
  <2> DEFINE x == d[field]
  <2>2. plan = Plan(<<Effect(setting, h, x)>>, h, None)
    BY <2>1
  <2> HIDE DEF x
  <2>3. setting \notin Particular /\ setting \notin Quiet
    BY <1>1
  <2> QED BY <2>2, <2>3, OneFacts DEF Particular
<1>2. ASSUME NEW setting, setting \notin Particular \cup Quiet, NEW service,
             plan = HandleSetHostNotification(d, v, setting)
      PROVE  Sound(plan, service, v)
  <2>1. PICK h : plan = Plan(<<Effect(setting, h, d.enabled)>>, h, None)
    BY <1>2, NotificationPlans
  <2> DEFINE x == d.enabled
  <2>2. plan = Plan(<<Effect(setting, h, x)>>, h, None)
    BY <2>1
  <2> HIDE DEF x
  <2>3. setting \notin Particular /\ setting \notin Quiet
    BY <1>2
  <2> QED BY <2>2, <2>3, OneFacts DEF Particular
<1>3. ASSUME plan = HandleWakeHost(d, v)
      PROVE  Sound(plan, "wake_host", v)
  <2>1. PICK h : plan = Plan(<<Effect("wake", h, None)>>, h, None)
    BY <1>3, WakePlans
  <2>2. "wake_host" \notin Publishing
    BY DEF Publishing
  <2> QED BY <2>1, <2>2, OneFacts
<1>4. /\ "name" \notin Particular \cup Quiet /\ "dns" \notin Particular \cup Quiet
      /\ "type" \notin Particular \cup Quiet /\ "online" \notin Particular \cup Quiet
      /\ "offline" \notin Particular \cup Quiet
  BY DEF Particular, Quiet
<1> QED BY <1>1, <1>2, <1>3, <1>4
        DEF HandleSetHostName, HandleSetHostDnsHostname, HandleSetHostDeviceType

\* A reservation is one effect, and what the service reports.
LEMMA ReservationPlans ==
    ASSUME NEW d, NEW v, NEW plan, plan = HandleSetHostDhcpReservation(d, v), IsPlan(plan)
    PROVE  \E h, x : plan = Plan(<<Effect("ip", h, x)>>, h, x)
<1> DEFINE address == ValueOf(d, "reserved_ipv4")
           network == ResolveDhcpReservationNetwork(SelectorView(v),
                          ValueOf(d, "network_uuid"), ValueOf(d, "network_name"), address)
           stored == IF address = None THEN Dynamic ELSE address
           Fine(h) == Plan(<<Effect("ip", h, <<network.found, stored>>)>>, h,
                           <<network.found, stored>>)
           Reserve == [h \in DOMAIN v.hosts |->
            CASE (d.mode = "static") # (address # None) -> Error("ipv4_and_mode")
              [] (d.mode = "static") = (address # None) /\ ~Resolved(network) ->
                    Error("network")
              [] (d.mode = "static") = (address # None) /\ Resolved(network)
                 /\ DhcpReservationErrors(SelectorView(v), h, network.found, address) # {} ->
                    Error("ipv4_refused")
              [] OTHER -> Fine(h)]
<1>1. plan = HostCommand(d, v, Reserve)
  BY DEF HandleSetHostDhcpReservation
<1>2. \A h \in DOMAIN v.hosts : (\E k : Reserve[h] = Error(k)) \/ Reserve[h] = Fine(h)
  <2> HIDE DEF network, address, Fine
  <2> TAKE h \in DOMAIN v.hosts
  <2>1. Reserve[h] \in {Error("ipv4_and_mode"), Error("network"), Error("ipv4_refused"), Fine(h)}
    OBVIOUS
  <2> HIDE DEF Reserve
  <2> QED BY <2>1
<1> HIDE DEF Reserve
<1>3. PICK h \in DOMAIN v.hosts : plan = Reserve[h]
  BY <1>1, HostCommandFacts, AnswerKinds
<1>4. plan = Fine(h)
  <2> HIDE DEF Fine
  <2> QED BY <1>2, <1>3, AnswerKinds
<1> HIDE DEF stored, network
<1> QED BY <1>4

LEMMA ReservationFacts ==
    ASSUME NEW d, NEW v, NEW service, NEW plan, plan = HandleSetHostDhcpReservation(d, v),
           IsPlan(plan)
    PROVE  Sound(plan, service, v)
<1>1. PICK h, x : plan = Plan(<<Effect("ip", h, x)>>, h, x)
  BY ReservationPlans
<1> QED BY <1>1, OneFacts DEF Publishing, Quiet

\* An empty plan deletes nothing.
LEMMA EmptyFacts ==
    ASSUME NEW v, NEW service, NEW target, NEW reported
    PROVE  Sound(Plan(<<>>, target, reported), service, v)
<1> DEFINE ops == <<>>
<1>1. DOMAIN ops = {} /\ ops \in Seq({})
  OBVIOUS
<1> HIDE DEF ops
<1>2. ops \in Seq(Range(ops))
  BY <1>1, OwnMembers
<1>3. Sound(Plan(ops, target, reported), service, v)
  <2>1. ops = <<>>
    BY DEF ops
  <2> QED BY <1>1, <1>2, <2>1, PlanFacts DEF Sound, Doable
<1> QED BY <1>3 DEF ops

\* The plans of the services of rules, of the SSID, of alarms, of the speed test and
\* of hosts that are deleted.
LEMMA PausePlan ==
    ASSUME NEW d, NEW v, NEW plan, plan = HandlePauseRule(d, v), IsPlan(plan)
    PROVE  plan = Plan(<<Effect("rule", d.rule_id, FALSE)>>, None, None)
<1>1. plan \in {Error("rule_not_found"), Error("timing_conflict"), Error("resume_at_in_past"),
                Error("invalid_duration"),
                Plan(<<Effect("rule", d.rule_id, FALSE)>>, None, None)}
  BY DEF HandlePauseRule
<1> QED BY <1>1, AnswerKinds

LEMMA ResumePlan ==
    ASSUME NEW d, NEW v, NEW plan, plan = HandleResumeRule(d, v), IsPlan(plan)
    PROVE  plan = Plan(<<Effect("rule", d.rule_id, TRUE)>>, None, None)
<1>1. plan \in {Error("rule_not_found"), Plan(<<Effect("rule", d.rule_id, TRUE)>>, None, None)}
  BY DEF HandleResumeRule
<1> QED BY <1>1, AnswerKinds

LEMMA SsidPlan ==
    ASSUME NEW d, NEW plan, plan = HandleSetSsidPaused(d), IsPlan(plan)
    PROVE  \E paused : plan = Plan(<<Effect("ssid", Ssid, paused)>>, None, None)
<1> DEFINE off == ~d.enabled
<1>1. plan \in {Error("ssid_profile_not_found"), Plan(<<Effect("ssid", Ssid, off)>>, None, None)}
  BY DEF HandleSetSsidPaused
<1> HIDE DEF off
<1> QED BY <1>1, AnswerKinds

LEMMA CreatePlan ==
    ASSUME NEW d, NEW v, NEW plan, plan = HandleCreateRule(d, v), IsPlan(plan)
    PROVE  \E owner : plan = Plan(<<Effect("create_rule", NewRule, owner)>>, None, None)
<1> DEFINE Create(owner) == Plan(<<Effect("create_rule", NewRule, owner)>>, None, None)
           scope == ScopeOf(d, v)
           mine == IF scope.kind = "host" THEN scope.found ELSE None
<1>1. plan \in {Create(AlarmHost[d.alarm_id]), Error("alarm_not_found"), scope,
                Error("selector_required"), Create(mine)}
  BY DEF HandleCreateRule
<1>2. ~IsPlan(scope)
  BY ScopeFacts
<1> HIDE DEF scope, mine
<1> QED BY <1>1, <1>2, AnswerKinds

LEMMA DeleteRulePlan ==
    ASSUME NEW d, NEW v, NEW plan, plan = HandleDeleteRule(d, v), IsPlan(plan)
    PROVE  /\ plan = Plan(<<Effect("delete_rule", d.rule_id, None)>>, None, None)
           /\ d.rule_id \in DOMAIN v.rules
<1> DEFINE one == Plan(<<Effect("delete_rule", d.rule_id, None)>>, None, None)
<1>1. \/ plan \in {Error("confirm_required"), Error("rule_not_found")}
      \/ plan = one /\ d.rule_id \in DOMAIN v.rules
  BY DEF HandleDeleteRule
<1> HIDE DEF one
<1>2. plan = one /\ d.rule_id \in DOMAIN v.rules
  BY <1>1, AnswerKinds
<1> QED BY <1>2 DEF one

\* The plans of the services of rules keep the order.
LEMMA RuleServiceFacts ==
    ASSUME NEW d, NEW v, NEW plan, IsPlan(plan)
    PROVE  /\ plan = HandlePauseRule(d, v) => Sound(plan, "pause_rule", v)
           /\ plan = HandleResumeRule(d, v) => Sound(plan, "resume_rule", v)
           /\ plan = HandleSetSsidPaused(d) => Sound(plan, "set_ssid_paused", v)
           /\ plan = HandleCreateRule(d, v) => Sound(plan, "create_rule", v)
           /\ plan = HandleDeleteRule(d, v) => Sound(plan, "delete_rule", v)
<1>1. ASSUME plan = HandlePauseRule(d, v) PROVE Sound(plan, "pause_rule", v)
  <2>1. plan = Plan(<<Effect("rule", d.rule_id, FALSE)>>, None, None)
    BY <1>1, PausePlan
  <2> QED BY <2>1, OneFacts DEF Publishing, Quiet
<1>2. ASSUME plan = HandleResumeRule(d, v) PROVE Sound(plan, "resume_rule", v)
  <2>1. plan = Plan(<<Effect("rule", d.rule_id, TRUE)>>, None, None)
    BY <1>2, ResumePlan
  <2> QED BY <2>1, OneFacts DEF Publishing, Quiet
<1>3. ASSUME plan = HandleSetSsidPaused(d) PROVE Sound(plan, "set_ssid_paused", v)
  <2>1. PICK paused : plan = Plan(<<Effect("ssid", Ssid, paused)>>, None, None)
    BY <1>3, SsidPlan
  <2> QED BY <2>1, OneFacts DEF Publishing, Quiet
<1>4. ASSUME plan = HandleCreateRule(d, v) PROVE Sound(plan, "create_rule", v)
  <2>1. PICK owner : plan = Plan(<<Effect("create_rule", NewRule, owner)>>, None, None)
    BY <1>4, CreatePlan
  <2> QED BY <2>1, OneFacts DEF Publishing, Quiet
<1>5. ASSUME plan = HandleDeleteRule(d, v) PROVE Sound(plan, "delete_rule", v)
  <2>1. /\ plan = Plan(<<Effect("delete_rule", d.rule_id, None)>>, None, None)
        /\ d.rule_id \in DOMAIN v.rules
    BY <1>5, DeleteRulePlan
  <2> QED BY <2>1, OneFacts DEF Publishing, Quiet
<1> QED BY <1>1, <1>2, <1>3, <1>4, <1>5

LEMMA ArchivePlan ==
    ASSUME NEW d, NEW plan, plan = HandleArchiveAlarms(d), IsPlan(plan)
    PROVE  \E on : /\ plan = Plan(<<Effect("archive", on, None)>>, None, None)
                  /\ on = IF SelectAlarmSet(d).field = "alarm_id" THEN SelectAlarmSet(d).value
                          ELSE All
<1> DEFINE on == IF SelectAlarmSet(d).field = "alarm_id" THEN SelectAlarmSet(d).value ELSE All
<1>1. plan \in {AlarmSetError(SelectAlarmSet(d)), Plan(<<Effect("archive", on, None)>>, None, None)}
  BY DEF HandleArchiveAlarms
<1> HIDE DEF on
<1>2. plan = Plan(<<Effect("archive", on, None)>>, None, None)
  BY <1>1, AnswerKinds DEF AlarmSetError
<1> QED BY <1>2 DEF on

LEMMA DeleteAlarmsPlan ==
    ASSUME NEW d, NEW plan, plan = HandleDeleteAlarms(d), IsPlan(plan)
    PROVE  plan = Plan(<<Effect("delete_alarm", SelectAlarmSet(d).value, None)>>, None, None)
<1>1. plan \in {AlarmSetError(SelectAlarmSet(d)), Error("confirm_required"),
                Plan(<<Effect("delete_alarm", SelectAlarmSet(d).value, None)>>, None, None)}
  BY DEF HandleDeleteAlarms
<1> QED BY <1>1, AnswerKinds DEF AlarmSetError

LEMMA MutePlan ==
    ASSUME NEW d, NEW v, NEW plan, plan = HandleMuteAlarm(d, v), IsPlan(plan)
    PROVE  \/ plan = Plan(<<Effect("mute", SilenceOf(d), TRUE)>>, None, None)
           \/ plan = Plan(<<Effect("find_alarm", ValueOf(d, "alarm_id"), None),
                            Effect("mute", SilenceOf(d), TRUE)>>, None, None)
<1> DEFINE scope == ScopeOf(d, v)
           mute == Effect("mute", SilenceOf(d), TRUE)
           find == Effect("find_alarm", ValueOf(d, "alarm_id"), None)
<1>1. plan \in {scope, Error("selector_required"), Plan(<<mute>>, None, None),
                Plan(<<find, mute>>, None, None)}
  BY DEF HandleMuteAlarm
<1>2. ~IsPlan(scope)
  BY ScopeFacts
<1> HIDE DEF scope, find, mute
<1>3. plan \in {Plan(<<mute>>, None, None), Plan(<<find, mute>>, None, None)}
  BY <1>1, <1>2, AnswerKinds
<1> QED BY <1>3 DEF find, mute

LEMMA UnmutePlan ==
    ASSUME NEW d, NEW plan, plan = HandleUnmuteAlarm(d), IsPlan(plan)
    PROVE  plan = Plan(<<Effect("unmute", SilenceOf(d), FALSE)>>, None, None)
<1>1. plan \in {Error("selector_required"),
                Plan(<<Effect("unmute", SilenceOf(d), FALSE)>>, None, None)}
  BY DEF HandleUnmuteAlarm
<1> QED BY <1>1, AnswerKinds

LEMMA DeleteHostPlan ==
    ASSUME NEW d, NEW v, NEW plan, plan = HandleDeleteHost(d, v), IsPlan(plan)
    PROVE  \/ plan = Plan(<<>>, None, "skipped")
           \/ plan = Plan(<<Effect("delete_host", Fold(d.host_mac), None)>>,
                          Fold(d.host_mac), None)
<1> DEFINE h == Fold(d.host_mac)
<1>1. plan \in {Error("confirm_required"), Plan(<<>>, None, "skipped"),
                Plan(<<Effect("delete_host", h, None)>>, h, None)}
  BY DEF HandleDeleteHost
<1> HIDE DEF h
<1>2. plan \in {Plan(<<>>, None, "skipped"), Plan(<<Effect("delete_host", h, None)>>, h, None)}
  BY <1>1, AnswerKinds
<1> QED BY <1>2 DEF h

LEMMA SpeedTestPlan ==
    ASSUME NEW d, NEW v, NEW plan, plan = HandleRunInternetSpeedTest(d, v), IsPlan(plan)
    PROVE  \E x : plan = Plan(<<Effect("speed_test", x, None)>>, None, None)
<1> DEFINE wan == ResolveRequestedWan(SelectorView(v), ValueOf(d, "wan_uuid"),
                                      ValueOf(d, "wan_name"), TRUE)
<1>1. plan = IF Resolved(wan) THEN Plan(<<Effect("speed_test", wan.found, None)>>, None, None)
             ELSE wan
  BY DEF HandleRunInternetSpeedTest
<1>2. (\E x : wan = Found(x)) \/ \E k : wan = Error(k)
  BY WanFacts
<1> HIDE DEF wan
<1> QED BY <1>1, <1>2, AnswerKinds

\* The silence of a mute comes last, after the alarm is looked for.
LEMMA FindThenMute ==
    ASSUME NEW find, find.do = "find_alarm", NEW mute, mute.do = "mute",
           NEW ops, ops = <<find, mute>>
    PROVE  /\ ops \in Seq(Range(ops)) /\ DOMAIN ops = 1..2 /\ Len(ops) = 2
           /\ ops[1] = find /\ ops[2] = mute
<1>1. /\ ops \in Seq({find, mute}) /\ DOMAIN ops = 1..2 /\ Len(ops) = 2
      /\ ops[1] = find /\ ops[2] = mute
  OBVIOUS
<1> QED BY <1>1, OwnMembers

\* Their plans keep the order and ask for their own effects.
LEMMA AlarmServiceFacts ==
    ASSUME NEW d, NEW v, NEW plan, IsPlan(plan)
    PROVE  /\ plan = HandleArchiveAlarms(d) => Sound(plan, "archive_alarms", v)
           /\ plan = HandleDeleteAlarms(d) => Sound(plan, "delete_alarms", v)
           /\ plan = HandleMuteAlarm(d, v) => Sound(plan, "mute_alarm", v)
           /\ plan = HandleUnmuteAlarm(d) => Sound(plan, "unmute_alarm", v)
           /\ plan = HandleDeleteHost(d, v) => Sound(plan, "delete_host", v)
           /\ plan = HandleRunInternetSpeedTest(d, v) =>
                 Sound(plan, "run_internet_speed_test", v)
<1>1. ASSUME plan = HandleArchiveAlarms(d) PROVE Sound(plan, "archive_alarms", v)
  <2>1. PICK on : plan = Plan(<<Effect("archive", on, None)>>, None, None)
    BY <1>1, ArchivePlan
  <2> QED BY <2>1, OneFacts DEF Publishing, Quiet
<1>2. ASSUME plan = HandleDeleteAlarms(d) PROVE Sound(plan, "delete_alarms", v)
  <2> DEFINE on == SelectAlarmSet(d).value
  <2>1. plan = Plan(<<Effect("delete_alarm", on, None)>>, None, None)
    BY <1>2, DeleteAlarmsPlan
  <2> HIDE DEF on
  <2> QED BY <2>1, OneFacts DEF Publishing, Quiet
<1>3. ASSUME plan = HandleMuteAlarm(d, v) PROVE Sound(plan, "mute_alarm", v)
  <2> DEFINE find == Effect("find_alarm", ValueOf(d, "alarm_id"), None)
             mute == Effect("mute", SilenceOf(d), TRUE)
  <2>1. plan \in {Plan(<<mute>>, None, None), Plan(<<find, mute>>, None, None)}
    BY <1>3, MutePlan
  <2>2. CASE plan = Plan(<<mute>>, None, None)
    BY <2>2, OneFacts DEF Publishing, Quiet
  <2>3. CASE plan = Plan(<<find, mute>>, None, None)
    <3> DEFINE ops == <<find, mute>>
    <3>1. find.do = "find_alarm" /\ mute.do = "mute"
      BY DEF Effect
    <3>2. plan = Plan(ops, None, None) /\ ops = <<find, mute>>
      BY <2>3
    <3> HIDE DEF ops, find, mute
    <3>3. /\ ops \in Seq(Range(ops)) /\ DOMAIN ops = 1..2 /\ Len(ops) = 2
          /\ ops[1] = find /\ ops[2] = mute
      BY <3>1, <3>2, FindThenMute
    <3>4. plan.ops = ops
      BY <3>2, PlanFacts
    <3>5. \A i \in DOMAIN ops : /\ ops[i].do \in {"find_alarm", "mute"}
                                /\ ops[i].do = "find_alarm" => i < Len(ops)
      BY <3>1, <3>3
    <3>6. "mute_alarm" \notin Publishing
      BY DEF Publishing
    <3> QED BY <3>3, <3>4, <3>5, <3>6 DEF Sound, Doable
  <2> QED BY <2>1, <2>2, <2>3
<1>4. ASSUME plan = HandleUnmuteAlarm(d) PROVE Sound(plan, "unmute_alarm", v)
  <2>1. plan = Plan(<<Effect("unmute", SilenceOf(d), FALSE)>>, None, None)
    BY <1>4, UnmutePlan
  <2> QED BY <2>1, OneFacts DEF Publishing, Quiet
<1>5. ASSUME plan = HandleDeleteHost(d, v) PROVE Sound(plan, "delete_host", v)
  <2> DEFINE h == Fold(d.host_mac)
  <2>1. plan \in {Plan(<<>>, None, "skipped"), Plan(<<Effect("delete_host", h, None)>>, h, None)}
    BY <1>5, DeleteHostPlan
  <2> HIDE DEF h
  <2> QED BY <2>1, OneFacts, EmptyFacts DEF Publishing, Quiet
<1>6. ASSUME plan = HandleRunInternetSpeedTest(d, v)
      PROVE  Sound(plan, "run_internet_speed_test", v)
  <2>1. PICK x : plan = Plan(<<Effect("speed_test", x, None)>>, None, None)
    BY <1>6, SpeedTestPlan
  <2> QED BY <2>1, OneFacts DEF Publishing, Quiet
<1> QED BY <1>1, <1>2, <1>3, <1>4, <1>5, <1>6

-----------------------------------------------------------------------------
(* Services and tools.                                                     *)

\* Every plan of every service asks for the service's own effects in their order, and
\* deletes rules only that the view lists.
LEMMA HandleFacts ==
    ASSUME NEW service \in Services, NEW d, NEW v, IsFiniteSet(DOMAIN v.rules),
           NEW plan, plan = Handle(service, d, v), IsPlan(plan)
    PROVE  Sound(plan, service, v)
<1>1. CASE service \in {"pause_rule", "resume_rule", "set_ssid_paused", "create_rule",
                        "delete_rule"}
  <2>1. \/ service = "pause_rule" /\ plan = HandlePauseRule(d, v)
        \/ service = "resume_rule" /\ plan = HandleResumeRule(d, v)
        \/ service = "set_ssid_paused" /\ plan = HandleSetSsidPaused(d)
        \/ service = "create_rule" /\ plan = HandleCreateRule(d, v)
        \/ service = "delete_rule" /\ plan = HandleDeleteRule(d, v)
    BY <1>1 DEF Handle
  <2> QED BY <2>1, RuleServiceFacts
<1>2. CASE service \in {"archive_alarms", "delete_alarms", "mute_alarm", "unmute_alarm",
                        "delete_host", "run_internet_speed_test"}
  <2>1. \/ service = "archive_alarms" /\ plan = HandleArchiveAlarms(d)
        \/ service = "delete_alarms" /\ plan = HandleDeleteAlarms(d)
        \/ service = "mute_alarm" /\ plan = HandleMuteAlarm(d, v)
        \/ service = "unmute_alarm" /\ plan = HandleUnmuteAlarm(d)
        \/ service = "delete_host" /\ plan = HandleDeleteHost(d, v)
        \/ service = "run_internet_speed_test" /\ plan = HandleRunInternetSpeedTest(d, v)
    BY <1>2 DEF Handle
  <2> QED BY <2>1, AlarmServiceFacts
<1>3. CASE service \in {"set_host_name", "set_host_dns_hostname", "set_host_device_type",
                        "set_host_notify_when_next_online",
                        "set_host_notify_when_next_offline", "wake_host"}
  <2>1. \/ service = "set_host_name" /\ plan = HandleSetHostName(d, v)
        \/ service = "set_host_dns_hostname" /\ plan = HandleSetHostDnsHostname(d, v)
        \/ service = "set_host_device_type" /\ plan = HandleSetHostDeviceType(d, v)
        \/ service = "set_host_notify_when_next_online"
           /\ plan = HandleSetHostNotification(d, v, "online")
        \/ service = "set_host_notify_when_next_offline"
           /\ plan = HandleSetHostNotification(d, v, "offline")
        \/ service = "wake_host" /\ plan = HandleWakeHost(d, v)
    BY <1>3 DEF Handle
  <2> QED BY <2>1, SettingFacts
<1>4. CASE service = "set_host_dhcp_reservation"
  <2>1. plan = HandleSetHostDhcpReservation(d, v)
    BY <1>4 DEF Handle
  <2> QED BY <2>1, ReservationFacts
<1>5. CASE service = "set_host_membership"
  <2>1. plan = HandleSetHostMembership(d, v)
    BY <1>5 DEF Handle
  <2> QED BY <1>5, <2>1, MembershipFacts
<1> QED BY <1>1, <1>2, <1>3, <1>4, <1>5 DEF Services

\* The service each tool calls, and that a tool which is not destructive reaches no
\* deletion but that of the rule it created.
LEMMA ToolFacts ==
    ASSUME NEW q, q.tool \in ControlTools \cup DestructiveTools, NEW v
    PROVE  /\ ToolOf(q, v).service \in Services
           /\ Reaches(q.tool, ToolOf(q, v).service)
           /\ ToolOf(q, v).runtime = "updated" => ToolOf(q, v).service \in Publishing
<1> DEFINE s == ToolOf(q, v).service
           r == ToolOf(q, v).runtime
<1>1. q.tool = "pause_rule" => s = "pause_rule"
  BY DEF ToolOf, PauseRuleTool, Tool
<1>2. q.tool = "resume_rule" => s = "resume_rule"
  BY DEF ToolOf, ResumeRuleTool, Tool
<1>3. q.tool = "set_ssid_paused" => s = "set_ssid_paused"
  BY DEF ToolOf, SetSsidPausedTool, Tool
<1>4. q.tool = "set_host_name" => s = "set_host_name"
  BY DEF ToolOf, SetHostNameTool, Tool
<1>5. q.tool = "set_host_dns_hostname" => s = "set_host_dns_hostname"
  BY DEF ToolOf, SetHostDnsHostnameTool, Tool
<1>6. q.tool = "set_host_device_type" => s = "set_host_device_type"
  BY DEF ToolOf, SetHostDeviceTypeTool, Tool
<1>7. q.tool = "set_host_dhcp_reservation" => s = "set_host_dhcp_reservation"
  BY DEF ToolOf, SetHostDhcpReservationTool, Tool
<1>8. q.tool = "set_host_notify_when_next_online" => s = "set_host_notify_when_next_online"
  BY DEF ToolOf, SetHostNotifyWhenNextOnlineTool, SetHostNotifyTool, Tool
<1>9. q.tool = "set_host_notify_when_next_offline" => s = "set_host_notify_when_next_offline"
  BY DEF ToolOf, SetHostNotifyWhenNextOfflineTool, SetHostNotifyTool, Tool
<1>10. q.tool = "wake_host" => s = "wake_host" /\ r = "pending"
  BY DEF ToolOf, WakeHostTool, Tool
<1>11. q.tool = "run_internet_speed_test" => s = "run_internet_speed_test" /\ r = "pending"
  BY DEF ToolOf, RunInternetSpeedTestTool, Tool
<1>12. q.tool = "mute_alarm" => s = "mute_alarm" /\ r = "pending"
  BY DEF ToolOf, SetAlarmMutedTool, Tool
<1>13. q.tool = "unmute_alarm" => s = "unmute_alarm" /\ r = "pending"
  BY DEF ToolOf, UnmuteAlarmTool, Tool
<1>14. q.tool = "block_alarm_target" => s = "create_rule"
  BY DEF ToolOf, BlockAlarmTargetTool, Tool
<1>15. q.tool = "unblock_alarm_target" => s = "delete_rule"
  BY DEF ToolOf, UnblockAlarmTargetTool, Tool
<1>16. q.tool = "archive_alarm" => s = "archive_alarms"
  BY DEF ToolOf, ArchiveAlarmTool, Tool
<1>17. q.tool = "archive_all_alarms" => s = "archive_alarms"
  BY DEF ToolOf, ArchiveAllAlarmsTool, Tool
<1>18. q.tool = "delete_alarm" => s = "delete_alarms"
  BY DEF ToolOf, DeleteAlarmTool, Tool
<1>19. q.tool = "delete_all_alarms" => s = "delete_alarms"
  BY DEF ToolOf, DeleteAlarmsTool, Tool
<1>20. q.tool = "delete_host" => s = "delete_host"
  BY DEF ToolOf, DeleteHostTool, Tool
<1>21. q.tool = "delete_rule" => s = "delete_rule"
  BY DEF ToolOf, DeleteRuleTool, Tool
<1>22. q.tool = "set_host_group" => s = "set_host_membership" /\ r = "pending"
  BY DEF ToolOf, SetHostGroupTool, SetHostMembershipTool, Tool
<1>23. q.tool = "clear_host_group" => s = "set_host_membership" /\ r = "pending"
  BY DEF ToolOf, ClearHostGroupTool, SetHostMembershipTool, Tool
<1>24. q.tool = "set_host_user" => s = "set_host_membership" /\ r = "pending"
  BY DEF ToolOf, SetHostUserTool, SetHostMembershipTool, Tool
<1>25. q.tool = "clear_host_user" => s = "set_host_membership" /\ r = "pending"
  BY DEF ToolOf, ClearHostUserTool, SetHostMembershipTool, Tool
<1> HIDE DEF s, r
<1>26. s \in Services /\ Reaches(q.tool, s) /\ (r = "updated" => s \in Publishing)
  BY <1>1, <1>2, <1>3, <1>4, <1>5, <1>6, <1>7, <1>8, <1>9, <1>10, <1>11, <1>12, <1>13, <1>14, <1>15, <1>16, <1>17, <1>18, <1>19, <1>20, <1>21, <1>22, <1>23, <1>24, <1>25
     DEF Services, Publishing, Reaches, ControlTools, DestructiveTools
<1> QED BY <1>26 DEF s, r

-----------------------------------------------------------------------------
(* The invariant: what steps share.                                        *)

\* A call under way with one of its parts replaced is a call with the other parts.
LEMMA CallParts ==
    ASSUME NEW c, c = [pc |-> c.pc, q |-> c.q, told |-> c.told, plan |-> c.plan,
                       todo |-> c.todo, moved |-> c.moved, polled |-> c.polled],
           NEW x
    PROVE  /\ [c EXCEPT !.pc = x] =
                 [pc |-> x, q |-> c.q, told |-> c.told, plan |-> c.plan,
                  todo |-> c.todo, moved |-> c.moved, polled |-> c.polled]
           /\ [c EXCEPT !.todo = x] =
                 [pc |-> c.pc, q |-> c.q, told |-> c.told, plan |-> c.plan,
                  todo |-> x, moved |-> c.moved, polled |-> c.polled]
           /\ [c EXCEPT !.moved = x] =
                 [pc |-> c.pc, q |-> c.q, told |-> c.told, plan |-> c.plan,
                  todo |-> c.todo, moved |-> x, polled |-> c.polled]
           /\ [c EXCEPT !.polled = x] =
                 [pc |-> c.pc, q |-> c.q, told |-> c.told, plan |-> c.plan,
                  todo |-> c.todo, moved |-> c.moved, polled |-> x]
<1>1. c = [pc |-> c.pc, q |-> c.q, told |-> c.told, plan |-> c.plan,
           todo |-> c.todo, moved |-> c.moved, polled |-> c.polled]
  OBVIOUS
<1>2. [c EXCEPT !.pc = x] =
          [pc |-> x, q |-> c.q, told |-> c.told, plan |-> c.plan,
           todo |-> c.todo, moved |-> c.moved, polled |-> c.polled]
  BY <1>1
<1>3. [c EXCEPT !.todo = x] =
          [pc |-> c.pc, q |-> c.q, told |-> c.told, plan |-> c.plan,
           todo |-> x, moved |-> c.moved, polled |-> c.polled]
  BY <1>1
<1>4. [c EXCEPT !.moved = x] =
          [pc |-> c.pc, q |-> c.q, told |-> c.told, plan |-> c.plan,
           todo |-> c.todo, moved |-> x, polled |-> c.polled]
  BY <1>1
<1>5. [c EXCEPT !.polled = x] =
          [pc |-> c.pc, q |-> c.q, told |-> c.told, plan |-> c.plan,
           todo |-> c.todo, moved |-> c.moved, polled |-> x]
  BY <1>1
<1> QED BY <1>2, <1>3, <1>4, <1>5

\* A call that goes on with the rest of its plan.
LEMMA CallResumed ==
    ASSUME NEW c, c = [pc |-> c.pc, q |-> c.q, told |-> c.told, plan |-> c.plan,
                       todo |-> c.todo, moved |-> c.moved, polled |-> c.polled],
           NEW x, NEW y, NEW b, b = [c EXCEPT !.pc = x, !.todo = y]
    PROVE  b = [pc |-> x, q |-> c.q, told |-> c.told, plan |-> c.plan,
                todo |-> y, moved |-> c.moved, polled |-> c.polled]
<1>1. c = [pc |-> c.pc, q |-> c.q, told |-> c.told, plan |-> c.plan,
           todo |-> c.todo, moved |-> c.moved, polled |-> c.polled]
  OBVIOUS
<1>2. /\ DOMAIN b = DOMAIN c /\ b = [f \in DOMAIN b |-> b[f]]
      /\ b.pc = x /\ b.todo = y /\ b.q = c.q /\ b.told = c.told /\ b.plan = c.plan
      /\ b.moved = c.moved /\ b.polled = c.polled
  BY <1>1
<1>3. DOMAIN b = {"pc", "q", "told", "plan", "todo", "moved", "polled"}
  BY <1>1, <1>2
<1> QED BY <1>2, <1>3

\* A call whose plan becomes another.
LEMMA CallReplanned ==
    ASSUME NEW c, c = [pc |-> c.pc, q |-> c.q, told |-> c.told, plan |-> c.plan,
                       todo |-> c.todo, moved |-> c.moved, polled |-> c.polled],
           NEW x, NEW y, NEW z, NEW b, b = [c EXCEPT !.pc = x, !.todo = y, !.plan = z]
    PROVE  b = [pc |-> x, q |-> c.q, told |-> c.told, plan |-> z,
                todo |-> y, moved |-> c.moved, polled |-> c.polled]
<1>1. c = [pc |-> c.pc, q |-> c.q, told |-> c.told, plan |-> c.plan,
           todo |-> c.todo, moved |-> c.moved, polled |-> c.polled]
  OBVIOUS
<1>2. /\ DOMAIN b = DOMAIN c /\ b = [f \in DOMAIN b |-> b[f]]
      /\ b.pc = x /\ b.todo = y /\ b.q = c.q /\ b.told = c.told /\ b.plan = z
      /\ b.moved = c.moved /\ b.polled = c.polled
  BY <1>1
<1>3. DOMAIN b = {"pc", "q", "told", "plan", "todo", "moved", "polled"}
  BY <1>1, <1>2
<1> QED BY <1>2, <1>3

\* A call that is not idle has its parts, and its program counter tells.
LEMMA CallFacts ==
    ASSUME CallInv
    PROVE  /\ call = Idle => call.pc = "idle"
           /\ call # Idle =>
                 /\ call.pc # "idle"
                 /\ call = [pc |-> call.pc, q |-> call.q, told |-> call.told,
                            plan |-> call.plan, todo |-> call.todo,
                            moved |-> call.moved, polled |-> call.polled]
                 /\ call.pc \in {"refreshing", "retrying", "sending", "taken"}
                 /\ call.q.tool \in Offered(mode)
                 /\ call.told.service \in Services
                 /\ Reaches(call.q.tool, call.told.service)
BY DEF CallInv, Idle

\* What is left of a call that has requests under way.
LEMMA TodoFacts ==
    ASSUME CallInv, call.pc \in {"sending", "taken"}
    PROVE  /\ call # Idle
           /\ call.todo # <<>> /\ Doable(call.todo, call.told.service)
           /\ call.todo \in Seq(Range(call.todo))
           /\ Len(call.todo) \in Nat \ {0} /\ DOMAIN call.todo = 1..Len(call.todo)
           /\ Head(call.todo) = call.todo[1]
           /\ \A i \in DOMAIN call.todo :
                 call.todo[i].do = "delete_rule" => call.todo[i].on \in issued
<1>1. call # Idle
  BY CallFacts
<1>2. /\ call.todo # <<>> /\ Doable(call.todo, call.told.service)
      /\ \A i \in DOMAIN call.todo :
            call.todo[i].do = "delete_rule" => call.todo[i].on \in issued
  BY <1>1 DEF CallInv
<1>3. call.todo \in Seq(Range(call.todo))
  BY <1>2 DEF Doable
<1>4. /\ Len(call.todo) \in Nat /\ DOMAIN call.todo = 1..Len(call.todo)
      /\ Head(call.todo) = call.todo[1] /\ 1 \in DOMAIN call.todo
  BY <1>2, <1>3, PlacesFacts
<1> QED BY <1>1, <1>2, <1>3, <1>4

\* What any step may do to the box: ids are given out, and a rule that was deleted
\* does not come back.
BoxStep ==
    /\ BoxShaped(box') /\ DOMAIN box'.hosts \subseteq Hosts
    /\ issued \subseteq issued' /\ issued' \subseteq Rules
    /\ DOMAIN box'.rules \subseteq issued'
    /\ DOMAIN box'.rules \cap issued \subseteq DOMAIN box.rules

\* The box as it was, after an effect, with a new rule.
LEMMA BoxStays ==
    ASSUME IInv, UNCHANGED <<box, issued>>
    PROVE  BoxStep
BY DEF IInv, TypeOK, BoxInv, BoxStep

LEMMA BoxApplied ==
    ASSUME IInv, NEW e, e.do # "create_rule", box' = Apply(e, box), issued' = issued
    PROVE  BoxStep /\ Kept(e, box, box')
<1>1. BoxShaped(box)
  BY DEF IInv, BoxInv
<1>2. Kept(e, box, box')
  BY <1>1, ApplyFacts
<1>3. DOMAIN box'.rules \subseteq DOMAIN box.rules
  BY <1>2 DEF Kept
<1> QED BY <1>2, <1>3 DEF IInv, TypeOK, Kept, BoxStep

LEMMA BoxCreated ==
    ASSUME IInv, NEW r \in Rules, r \notin issued, NEW owner, NEW e,
           e = Effect("create_rule", r, owner), box' = Apply(e, box),
           issued' = issued \cup {r}
    PROVE  BoxStep /\ Kept(e, box, box')
<1>1. BoxShaped(box)
  BY DEF IInv, BoxInv
<1>2. Kept(e, box, box')
  BY <1>1, ApplyFacts
<1>3. DOMAIN box'.rules = DOMAIN box.rules \cup {r} /\ DOMAIN box'.hosts = DOMAIN box.hosts
  BY <1>2 DEF Kept, Effect
<1> QED BY <1>2, <1>3 DEF IInv, TypeOK, Kept, BoxStep

\* The view while it does not change.
LEMMA SeenStays ==
    ASSUME IInv, BoxStep, seen' = seen
    PROVE  /\ BoxShaped(seen') /\ AlarmsIn(seen', "archived") = {}
           /\ DOMAIN seen'.hosts \subseteq Hosts /\ DOMAIN seen'.rules \subseteq issued'
<1>1. AlarmsIn(seen, "archived") = {} /\ BoxShaped(seen)
  BY DEF IInv, TypeOK, BoxInv
<1> QED BY <1>1 DEF IInv, TypeOK, BoxStep

\* A step after which no call is under way.
LEMMA IdleInv ==
    ASSUME IInv, BoxStep, UNCHANGED mode, poll' \in {poll, None}, call' = Idle,
           BoxShaped(seen'), AlarmsIn(seen', "archived") = {},
           DOMAIN seen'.hosts \subseteq Hosts, DOMAIN seen'.rules \subseteq issued',
           last'.pc \in Answers, calls' \in 0..MaxCalls, appMoves' \in 0..MaxAppMoves
    PROVE  IInv'
<1>1. call'.pc = "idle"
  BY DEF Idle
<1>2. TypeOK'
  BY <1>1 DEF IInv, TypeOK, BoxStep
<1>3. CallInv'
  BY DEF CallInv
<1>4. BoxInv'
  BY DEF IInv, BoxInv, BoxStep
<1>5. PlannedGone'
  BY <1>1 DEF PlannedGone
<1> QED BY <1>2, <1>3, <1>4, <1>5 DEF IInv

\* A step that ends the call and leaves the view as it is.
LEMMA EndsInv ==
    ASSUME IInv, BoxStep, UNCHANGED <<mode, seen, poll>>, call' = Idle,
           last'.pc \in Answers, calls' \in 0..MaxCalls, appMoves' \in 0..MaxAppMoves
    PROVE  IInv'
<1>1. /\ BoxShaped(seen') /\ AlarmsIn(seen', "archived") = {}
      /\ DOMAIN seen'.hosts \subseteq Hosts /\ DOMAIN seen'.rules \subseteq issued'
  BY SeenStays
<1> QED BY <1>1, IdleInv

\* A step that leaves the call where it is.
LEMMA StandsInv ==
    ASSUME IInv, BoxStep, UNCHANGED <<mode, seen, calls>>,
           poll' \in {poll, None, ViewOf(box)},
           call' = call \/ (call # Idle /\ call' = [call EXCEPT !.moved = TRUE]),
           last' \in {last, Idle}, appMoves' \in 0..MaxAppMoves
    PROVE  IInv'
<1>1. \/ call = Idle /\ call' = Idle
      \/ /\ call # Idle /\ call' # Idle
         /\ call'.pc = call.pc /\ call'.q = call.q /\ call'.told = call.told
         /\ call'.plan = call.plan /\ call'.todo = call.todo /\ call'.polled = call.polled
         /\ call' = [pc |-> call'.pc, q |-> call'.q, told |-> call'.told, plan |-> call'.plan,
                     todo |-> call'.todo, moved |-> call'.moved, polled |-> call'.polled]
  <2>1. CASE call' = call
    BY <2>1, CallFacts DEF IInv
  <2>2. CASE call # Idle /\ call' = [call EXCEPT !.moved = TRUE]
    <3>1. call' = [pc |-> call.pc, q |-> call.q, told |-> call.told, plan |-> call.plan,
                   todo |-> call.todo, moved |-> TRUE, polled |-> call.polled]
      BY <2>2, CallFacts, CallParts DEF IInv
    <3>2. call.pc # "idle"
      BY <2>2, CallFacts DEF IInv
    <3> QED BY <2>2, <3>1, <3>2 DEF Idle
  <2> QED BY <2>1, <2>2
<1>2. call'.pc = call.pc /\ last'.pc \in Answers
  BY <1>1 DEF IInv, TypeOK, Idle, Answers
<1>3. poll' # None =>
            /\ BoxShaped(poll') /\ DOMAIN poll'.hosts \subseteq Hosts
            /\ DOMAIN poll'.rules \subseteq issued' /\ AlarmsIn(poll', "archived") = {}
  <2>1. BoxShaped(box)
    BY DEF IInv, BoxInv
  <2> QED BY <2>1, ViewOfFacts DEF IInv, TypeOK, BoxInv, BoxStep
<1>4. TypeOK'
  <2>1. call'.pc \in {"sending", "taken"} => call'.todo # <<>>
    BY <1>1, <1>2 DEF IInv, TypeOK, Idle
  <2>2. poll' # None => AlarmsIn(poll', "archived") = {}
    BY <1>3
  <2>3. AlarmsIn(seen', "archived") = {}
    BY DEF IInv, TypeOK
  <2>4. DOMAIN seen'.rules \subseteq issued' /\ DOMAIN seen'.hosts \subseteq Hosts
    BY DEF IInv, TypeOK, BoxStep
  <2> QED BY <1>2, <2>1, <2>2, <2>3, <2>4 DEF IInv, TypeOK, BoxStep
<1>5. BoxInv'
  BY <1>3 DEF IInv, BoxInv, BoxStep
<1>6. CallInv'
  <2>1. CASE call = Idle
    BY <1>1, <2>1 DEF CallInv
  <2>2. CASE call # Idle /\ call.pc \notin {"sending", "taken"}
    BY <1>1, <2>2 DEF IInv, CallInv
  <2>3. CASE call.pc \in {"sending", "taken"}
    <3>1. /\ 1 \in DOMAIN call.todo /\ Head(call.todo) = call.todo[1] /\ call # Idle
          /\ \A i \in DOMAIN call.todo :
                call.todo[i].do = "delete_rule" => call.todo[i].on \in issued
      BY <2>3, TodoFacts DEF IInv
    <3>2. call.pc = "taken" /\ Head(call.todo).do = "delete_rule" =>
              Head(call.todo).on \notin DOMAIN box'.rules
      BY <2>3, <3>1 DEF IInv, CallInv, BoxStep
    <3> QED BY <1>1, <2>3, <3>1, <3>2 DEF IInv, CallInv, BoxStep
  <2> QED BY <2>1, <2>2, <2>3
<1>7. PlannedGone'
  <2>1. CASE call = Idle
    BY <1>1, <2>1 DEF PlannedGone, Idle
  <2>2. CASE call # Idle
    BY <1>1, <2>2 DEF IInv, PlannedGone, BoxStep
  <2> QED BY <2>1, <2>2
<1> QED BY <1>4, <1>5, <1>6, <1>7 DEF IInv

-----------------------------------------------------------------------------
(* The invariant: what is left of a plan.                                  *)

\* The end of a plan is in its order.
LEMMA EndDoable ==
    ASSUME NEW ops, NEW service, Doable(ops, service), NEW k \in 0..Len(ops),
           NEW left, left \in Seq(Range(left)), Len(left) = Len(ops) - k,
           \A i \in DOMAIN left : left[i] = ops[k + i]
    PROVE  /\ Doable(left, service)
           /\ \A i \in DOMAIN left : k + i \in DOMAIN ops
<1>1. ops \in Seq(Range(ops))
  BY DEF Doable
<1>2. /\ Len(ops) \in Nat /\ DOMAIN ops = 1..Len(ops)
      /\ Len(left) \in Nat /\ DOMAIN left = 1..Len(left)
  BY <1>1, PlacesFacts
<1>3. \A i \in DOMAIN left : /\ k + i \in DOMAIN ops
                             /\ k + i < Len(ops) => i < Len(left)
                             /\ k + i = Len(ops) => i = Len(left)
  BY <1>2
<1> QED BY <1>3 DEF Doable

\* What remains of a plan is in its order, is of the plan, and has every deletion of a
\* rule the view lists.
LEMMA RemainingDoable ==
    ASSUME NEW ops, NEW service, Doable(ops, service), NEW v,
           NEW left, left = Remaining(ops, v)
    PROVE  /\ Doable(left, service)
           /\ \A i \in DOMAIN left : \E j \in DOMAIN ops : left[i] = ops[j]
           /\ \A j \in DOMAIN ops :
                 ops[j].do = "delete_rule" /\ ops[j].on \in DOMAIN v.rules =>
                     \E i \in DOMAIN left : left[i] = ops[j]
<1>1. ops \in Seq(Range(ops))
  BY DEF Doable
<1>2. PICK k \in 0..Len(ops) :
              /\ left \in Seq(Range(left)) /\ Len(left) = Len(ops) - k
              /\ \A i \in DOMAIN left : left[i] = ops[k + i]
              /\ \A i \in 1..k : ops[i].do = "delete_rule" /\ ops[i].on \notin DOMAIN v.rules
  BY <1>1, RemainingFacts
<1>3. /\ Len(ops) \in Nat /\ DOMAIN ops = 1..Len(ops)
      /\ Len(left) \in Nat /\ DOMAIN left = 1..Len(left)
  BY <1>1, <1>2, PlacesFacts
<1>4. /\ Doable(left, service) /\ \A i \in DOMAIN left : k + i \in DOMAIN ops
  BY <1>2, EndDoable
<1>5. ASSUME NEW j \in DOMAIN ops, ops[j].do = "delete_rule", ops[j].on \in DOMAIN v.rules
      PROVE  \E i \in DOMAIN left : left[i] = ops[j]
  <2>1. j \in 1..Len(ops) /\ ~(j \in 1..k)
    BY <1>2, <1>3, <1>5
  <2>2. j - k \in DOMAIN left /\ k + (j - k) = j
    BY <1>2, <1>3, <2>1
  <2> QED BY <1>2, <2>2
<1> QED BY <1>2, <1>4, <1>5

\* What remains of a plan that may be carried out.
LEMMA SoundRemains ==
    ASSUME NEW plan, NEW service, NEW v, Sound(plan, service, v),
           NEW left, left = Remaining(plan.ops, v)
    PROVE  /\ Doable(left, service)
           /\ \A i \in DOMAIN left : \E j \in DOMAIN plan.ops : left[i] = plan.ops[j]
           /\ \A j \in DOMAIN plan.ops :
                 plan.ops[j].do = "delete_rule" /\ plan.ops[j].on \in DOMAIN v.rules =>
                     \E i \in DOMAIN left : left[i] = plan.ops[j]
<1> DEFINE ops == plan.ops
<1>1. Doable(ops, service) /\ left = Remaining(ops, v)
  BY DEF Sound
<1> HIDE DEF ops
<1>2. Doable(left, service)
  BY <1>1, RemainingDoable
<1>3. \A i \in DOMAIN left : \E j \in DOMAIN ops : left[i] = ops[j]
  BY <1>1, RemainingDoable
<1>4. \A j \in DOMAIN ops : ops[j].do = "delete_rule" /\ ops[j].on \in DOMAIN v.rules =>
                     \E i \in DOMAIN left : left[i] = ops[j]
  BY <1>1, RemainingDoable
<1> QED BY <1>2, <1>3, <1>4 DEF ops

\* The rest of a plan after its first effect.
LEMMA TailDoable ==
    ASSUME NEW ops, NEW service, Doable(ops, service), ops # <<>>,
           NEW left, left = Tail(ops)
    PROVE  /\ Doable(left, service) /\ Len(left) = Len(ops) - 1
           /\ \A i \in DOMAIN left : i + 1 \in DOMAIN ops /\ left[i] = ops[i + 1]
           /\ \A j \in DOMAIN ops : j # 1 => j - 1 \in DOMAIN left /\ left[j - 1] = ops[j]
<1>1. ops \in Seq(Range(ops))
  BY DEF Doable
<1>2. /\ Len(ops) \in Nat /\ DOMAIN ops = 1..Len(ops) /\ 1 \in DOMAIN ops
      /\ left \in Seq(Range(left)) /\ Len(left) = Len(ops) - 1
      /\ \A i \in DOMAIN left : left[i] = ops[i + 1]
  BY <1>1, PlacesFacts
<1>3. Len(left) \in Nat /\ DOMAIN left = 1..Len(left)
  BY <1>2, PlacesFacts
<1>4. 1 \in 0..Len(ops) /\ \A i \in DOMAIN left : left[i] = ops[1 + i]
  BY <1>2, <1>3
<1>5. Doable(left, service)
  BY <1>2, <1>4, EndDoable
<1>6. \A i \in DOMAIN left : i + 1 \in DOMAIN ops
  BY <1>2, <1>3
<1>7. ASSUME NEW j \in DOMAIN ops, j # 1
      PROVE  j - 1 \in DOMAIN left /\ left[j - 1] = ops[j]
  <2>1. j - 1 \in DOMAIN left /\ 1 + (j - 1) = j
    BY <1>2, <1>3, <1>7
  <2> QED BY <1>4, <2>1
<1> QED BY <1>2, <1>5, <1>6, <1>7

-----------------------------------------------------------------------------
(* The invariant: the steps.                                               *)

\* A step that leaves a call under way, and may patch the view.
LEMMA RunsInv ==
    ASSUME IInv, BoxStep, UNCHANGED <<mode, appMoves>>, poll' \in {poll, None},
           BoxShaped(seen'), AlarmsIn(seen', "archived") = {},
           DOMAIN seen'.hosts \subseteq Hosts, DOMAIN seen'.rules \subseteq issued',
           last'.pc \in Answers, calls' \in 0..MaxCalls,
           NEW c, call' = c,
           c = [pc |-> c.pc, q |-> c.q, told |-> c.told, plan |-> c.plan,
                todo |-> c.todo, moved |-> c.moved, polled |-> c.polled],
           c.pc \in {"refreshing", "retrying", "sending", "taken"},
           c.q.tool \in Offered(mode), c.told.service \in Services,
           Reaches(c.q.tool, c.told.service),
           c.pc \in {"sending", "taken"} =>
              /\ c.todo # <<>> /\ Doable(c.todo, c.told.service)
              /\ \A i \in DOMAIN c.todo :
                    c.todo[i].do = "delete_rule" => c.todo[i].on \in issued',
           c.pc = "taken" =>
              /\ Head(c.todo).do = "create_rule" => Head(c.todo).on \in issued'
              /\ Head(c.todo).do = "delete_rule" => Head(c.todo).on \notin DOMAIN box'.rules,
           PlannedGone'
    PROVE  IInv'
<1>1. TypeOK'
  BY DEF IInv, TypeOK, BoxStep
<1>2. CallInv'
  BY DEF CallInv
<1>3. BoxInv'
  BY DEF IInv, BoxInv, BoxStep
<1> QED BY <1>1, <1>2, <1>3 DEF IInv

\* Resolving starts the requests of a plan that was made from the view of the moment.
LEMMA ResolveInv ==
    ASSUME IInv, NEW q, NEW told, NEW retried, Resolve(q, told, retried),
           told.service \in Services, q.tool \in Offered(mode),
           Reaches(q.tool, told.service),
           UNCHANGED <<mode, box, issued, seen, poll, appMoves>>, calls' \in 0..MaxCalls
    PROVE  IInv'
<1> DEFINE plan == Handle(told.service, told.data, seen)
<1>1. BoxStep
  BY BoxStays
<1>2. /\ BoxShaped(seen') /\ AlarmsIn(seen', "archived") = {}
      /\ DOMAIN seen'.hosts \subseteq Hosts /\ DOMAIN seen'.rules \subseteq issued'
  BY <1>1, SeenStays
<1>3. appMoves' \in 0..MaxAppMoves
  BY DEF IInv, TypeOK
<1>4. CASE call' = Under("retrying", q, told, None, <<>>, FALSE) /\ last' = Idle
  <2> DEFINE c == Under("retrying", q, told, None, <<>>, FALSE)
  <2>3. call' = c
    BY <1>4
  <2>5. c = Under("retrying", q, told, None, <<>>, FALSE)
    OBVIOUS
  <2> HIDE DEF c
  <2>1. /\ c = [pc |-> c.pc, q |-> c.q, told |-> c.told, plan |-> c.plan,
                todo |-> c.todo, moved |-> c.moved, polled |-> c.polled]
        /\ c.pc = "retrying" /\ c.q = q /\ c.told = told
    BY <2>5 DEF Under
  <2>2. last'.pc \in Answers
    BY <1>4 DEF Idle, Answers
  <2>4. PlannedGone'
    BY <2>1, <2>3 DEF PlannedGone
  <2> QED BY <1>1, <1>2, <2>1, <2>2, <2>3, <2>4, RunsInv
<1>5. CASE call' = Idle /\ last' = Refused(q, plan.error)
  <2>1. last'.pc \in Answers
    BY <1>5 DEF Refused, Answers
  <2> HIDE DEF plan
  <2> QED BY <1>1, <1>3, <1>5, <2>1, EndsInv
<1>6. CASE /\ IsPlan(plan)
           /\ Proceed(Under("sending", q, told, plan, Remaining(plan.ops, seen), FALSE))
  <2> DEFINE todo == Remaining(plan.ops, seen)
             c == Under("sending", q, told, plan, todo, FALSE)
  <2>1. IsFiniteSet(DOMAIN seen.rules) /\ DOMAIN seen.rules \subseteq issued
    BY StartAssumption, FS_Subset DEF IInv, TypeOK
  <2>2. Sound(plan, told.service, seen)
    BY <1>6, <2>1, HandleFacts
  <2> HIDE DEF plan
  <2>5. Proceed(c)
    BY <1>6
  <2>8. c = Under("sending", q, told, plan, todo, FALSE) /\ todo = Remaining(plan.ops, seen)
    OBVIOUS
  <2> HIDE DEF c, todo
  <2>3. /\ Doable(todo, told.service)
        /\ \A i \in DOMAIN todo : \E j \in DOMAIN plan.ops : todo[i] = plan.ops[j]
        /\ \A j \in DOMAIN plan.ops :
              plan.ops[j].do = "delete_rule" /\ plan.ops[j].on \in DOMAIN seen.rules =>
                  \E i \in DOMAIN todo : todo[i] = plan.ops[j]
    BY <2>2, <2>8, SoundRemains
  <2>4. /\ c = [pc |-> c.pc, q |-> c.q, told |-> c.told, plan |-> c.plan,
                todo |-> c.todo, moved |-> c.moved, polled |-> c.polled]
        /\ c.pc = "sending" /\ c.q = q /\ c.told = told /\ c.plan = plan /\ c.todo = todo
    BY <2>8 DEF Under
  <2>6. CASE todo = <<>>
    <3>1. call' = Idle /\ last'.pc \in Answers
      BY <2>4, <2>5, <2>6 DEF Proceed, Reply, Answers
    <3> QED BY <1>1, <1>3, <3>1, EndsInv
  <2>7. CASE todo # <<>>
    <3>1. call' = c /\ last'.pc \in Answers
      BY <2>4, <2>5, <2>7 DEF Proceed, Idle, Answers
    <3>2. \A i \in DOMAIN todo : todo[i].do = "delete_rule" => todo[i].on \in issued'
      BY <2>1, <2>2, <2>3 DEF Sound
    <3>3. PlannedGone'
      BY <2>1, <2>2, <2>3, <2>4, <3>1 DEF PlannedGone, Sound
    <3> QED BY <1>1, <1>2, <2>3, <2>4, <2>7, <3>1, <3>2, <3>3, RunsInv
  <2> QED BY <2>6, <2>7
<1> QED BY <1>4, <1>5, <1>6 DEF Resolve, TakesPlan

\* A call that begins, or goes on after a refresh.
LEMMA BeginInv ==
    ASSUME IInv, NEW q, CallNotTaken(q) \/ CallRefreshes(q) \/ CallResolves(q)
    PROVE  IInv'
<1> DEFINE told == ToolOf(q, seen)
<1>1. /\ Begin(q) /\ UNCHANGED <<mode, box, issued, seen, poll, appMoves>>
      /\ q.tool \in Offered(mode)
      /\ calls' \in 0..MaxCalls /\ appMoves' \in 0..MaxAppMoves
  <2>1. Begin(q)
    BY DEF CallNotTaken, CallRefreshes, CallResolves
  <2>2. calls \in 0..MaxCalls /\ appMoves \in 0..MaxAppMoves
    BY DEF IInv, TypeOK
  <2> QED BY <2>1, <2>2, BoundsAssumption DEF Begin
<1>2. BoxStep
  BY <1>1, BoxStays
<1>3. q.tool \in ControlTools \cup DestructiveTools
  BY <1>1, ModesAssumption DEF Offered, BuildControlTools, IInv, TypeOK
<1>4. told.service \in Services /\ Reaches(q.tool, told.service)
  BY <1>3, ToolFacts
<1>5. CASE CallNotTaken(q)
  <2>1. call' = Idle /\ last'.pc \in Answers
    BY <1>5 DEF CallNotTaken, Refused, Answers
  <2> QED BY <1>1, <1>2, <2>1, EndsInv
<1>6. CASE CallRefreshes(q)
  <2>1. call' = Under("refreshing", q, told, None, <<>>, FALSE) /\ last' = Idle
    BY <1>6 DEF CallRefreshes
  <2> HIDE DEF told
  <2>2. /\ call' = [pc |-> call'.pc, q |-> call'.q, told |-> call'.told, plan |-> call'.plan,
                    todo |-> call'.todo, moved |-> call'.moved, polled |-> call'.polled]
        /\ call'.pc = "refreshing" /\ call'.q = q /\ call'.told = told
        /\ last'.pc \in Answers
    BY <2>1 DEF Under, Idle, Answers
  <2>3. PlannedGone'
    BY <2>2 DEF PlannedGone
  <2>4. /\ BoxShaped(seen') /\ AlarmsIn(seen', "archived") = {}
        /\ DOMAIN seen'.hosts \subseteq Hosts /\ DOMAIN seen'.rules \subseteq issued'
    BY <1>1, <1>2, SeenStays
  <2> QED BY <1>1, <1>2, <1>4, <2>2, <2>3, <2>4, RunsInv
<1>7. CASE CallResolves(q)
  <2>1. Resolve(q, told, FALSE)
    BY <1>7 DEF CallResolves
  <2> HIDE DEF told
  <2> QED BY <1>1, <1>4, <2>1, ResolveInv
<1> QED BY <1>5, <1>6, <1>7

LEMMA RefreshReturnsInv ==
    ASSUME IInv, RefreshReturns
    PROVE  IInv'
<1>1. /\ call.pc \in {"refreshing", "retrying"} /\ Resolve(call.q, call.told, TRUE)
      /\ UNCHANGED <<mode, box, issued, seen, poll, calls, appMoves>>
  BY DEF RefreshReturns
<1>2. /\ call.q.tool \in Offered(mode) /\ call.told.service \in Services
      /\ Reaches(call.q.tool, call.told.service)
  BY <1>1, CallFacts DEF IInv
<1>3. calls' \in 0..MaxCalls
  BY <1>1 DEF IInv, TypeOK
<1> QED BY <1>1, <1>2, <1>3, ResolveInv

\* The box does what the head of the plan asks: a rule that is deleted is gone.
LEMMA BoxTakesInv ==
    ASSUME IInv, BoxTakes
    PROVE  IInv'
<1> DEFINE e == Head(call.todo)
           c == [call EXCEPT !.pc = "taken"]
<1>1. /\ call.pc = "sending" /\ e.do \notin {"create_rule", "find_alarm"}
      /\ box' = Apply(e, box) /\ call' = c
      /\ UNCHANGED <<mode, issued, seen, poll, calls, appMoves, last>>
  BY DEF BoxTakes
<1>2. /\ call # Idle /\ call.todo # <<>> /\ Doable(call.todo, call.told.service)
      /\ DOMAIN call.todo = 1..Len(call.todo) /\ Len(call.todo) \in Nat \ {0}
      /\ e = call.todo[1]
      /\ \A i \in DOMAIN call.todo :
            call.todo[i].do = "delete_rule" => call.todo[i].on \in issued
  BY <1>1, TodoFacts DEF IInv
<1>3. /\ call = [pc |-> call.pc, q |-> call.q, told |-> call.told, plan |-> call.plan,
                 todo |-> call.todo, moved |-> call.moved, polled |-> call.polled]
      /\ call.q.tool \in Offered(mode) /\ call.told.service \in Services
      /\ Reaches(call.q.tool, call.told.service)
  BY <1>2, CallFacts DEF IInv
<1>4. c = [pc |-> "taken", q |-> call.q, told |-> call.told, plan |-> call.plan,
           todo |-> call.todo, moved |-> call.moved, polled |-> call.polled]
  BY <1>3, CallParts
<1> HIDE DEF c, e
<1>5. BoxStep /\ Kept(e, box, box')
  BY <1>1, BoxApplied
<1>6. e.do = "delete_rule" => e.on \notin DOMAIN box'.rules
  BY <1>5 DEF Kept
<1>7. /\ BoxShaped(seen') /\ AlarmsIn(seen', "archived") = {}
      /\ DOMAIN seen'.hosts \subseteq Hosts /\ DOMAIN seen'.rules \subseteq issued'
  BY <1>1, <1>5, SeenStays
<1>8. PlannedGone'
  <2>1. SUFFICES ASSUME ~call.polled, NEW i \in DOMAIN call.plan.ops,
                        call.plan.ops[i].do = "delete_rule"
                 PROVE  /\ call.plan.ops[i].on \in issued'
                        /\ call.plan.ops[i].on \in DOMAIN box'.rules =>
                              /\ call.plan.ops[i].on \in DOMAIN seen'.rules
                              /\ \E j \in DOMAIN call.todo :
                                    call.todo[j] = call.plan.ops[i] /\ j # 1
    BY <1>1, <1>4 DEF PlannedGone
  <2>2. /\ call.plan.ops[i].on \in issued
        /\ call.plan.ops[i].on \in DOMAIN box.rules =>
              /\ call.plan.ops[i].on \in DOMAIN seen.rules
              /\ \E j \in DOMAIN call.todo : call.todo[j] = call.plan.ops[i]
    BY <1>1, <2>1 DEF IInv, PlannedGone
  <2> QED BY <1>1, <1>2, <1>5, <1>6, <2>1, <2>2 DEF BoxStep
<1>9. last'.pc \in Answers /\ calls' \in 0..MaxCalls
  BY <1>1 DEF IInv, TypeOK
<1>10. Head(c.todo).do # "create_rule"
       /\ (Head(c.todo).do = "delete_rule" => Head(c.todo).on \notin DOMAIN box'.rules)
  BY <1>1, <1>4, <1>6 DEF e
<1> QED BY <1>1, <1>2, <1>3, <1>4, <1>5, <1>7, <1>8, <1>9, <1>10, RunsInv

\* A created rule has an id the box had not given out, and nothing is left to delete.
LEMMA BoxCreatesInv ==
    ASSUME IInv, NEW r \in Rules, NEW named \in BOOLEAN, BoxCreates(r, named)
    PROVE  IInv'
<1> DEFINE e == Effect("create_rule", r, Head(call.todo).is)
           next == IF named THEN e ELSE NoEffect
           plan == Plan(<<e>>, IF named THEN None ELSE "unnamed", r)
           todo == <<next>>
           ops == <<e>>
           c == [call EXCEPT !.pc = "taken", !.todo = todo, !.plan = plan]
<1>1. /\ call.pc = "sending" /\ r \notin issued
      /\ box' = Apply(e, box) /\ issued' = issued \cup {r} /\ call' = c
      /\ UNCHANGED <<mode, seen, poll, calls, appMoves, last>>
  BY DEF BoxCreates
<1>2. call # Idle
  BY <1>1, TodoFacts DEF IInv
<1>3. /\ call = [pc |-> call.pc, q |-> call.q, told |-> call.told, plan |-> call.plan,
                 todo |-> call.todo, moved |-> call.moved, polled |-> call.polled]
      /\ call.q.tool \in Offered(mode) /\ call.told.service \in Services
      /\ Reaches(call.q.tool, call.told.service)
  BY <1>2, CallFacts DEF IInv
<1>4. e.do = "create_rule" /\ e.on = r /\ plan.ops = <<e>>
  BY DEF Effect, Plan
<1>5. /\ next.do \in {"create_rule", "nothing"}
      /\ next.do = "create_rule" => next.on = r
  BY <1>4 DEF NoEffect, Effect
<1>6. c = [pc |-> "taken", q |-> call.q, told |-> call.told, plan |-> plan,
           todo |-> todo, moved |-> call.moved, polled |-> call.polled]
  <2>1. c = [call EXCEPT !.pc = "taken", !.todo = todo, !.plan = plan]
    OBVIOUS
  <2> HIDE DEF plan, next, todo, c
  <2> QED BY <1>3, <2>1, CallReplanned
<1> HIDE DEF plan, next, c
<1>7. BoxStep
  <2>1. e = Effect("create_rule", r, Head(call.todo).is)
    OBVIOUS
  <2> HIDE DEF e
  <2> QED BY <1>1, <2>1, BoxCreated
<1> HIDE DEF e
<1>8. /\ todo \in Seq({next}) /\ DOMAIN todo = 1..1 /\ todo[1] = next /\ Len(todo) = 1
      /\ todo # <<>> /\ Head(todo) = next
      /\ DOMAIN ops = 1..1 /\ ops[1] = e
  OBVIOUS
<1> HIDE DEF todo
<1>9. todo \in Seq(Range(todo))
  BY <1>8, OwnMembers
<1>10. \A i \in DOMAIN todo : todo[i] = next
  BY <1>8
<1>11. Doable(todo, call.told.service)
  BY <1>5, <1>9, <1>10 DEF Doable
<1>12. PlannedGone'
  <2>1. \A i \in DOMAIN ops : ops[i].do = "create_rule"
    BY <1>4, <1>8
  <2> HIDE DEF ops
  <2>2. call'.plan.ops = ops
    BY <1>1, <1>4, <1>6 DEF ops
  <2> QED BY <2>1, <2>2 DEF PlannedGone
<1>13. last'.pc \in Answers /\ calls' \in 0..MaxCalls
  BY <1>1 DEF IInv, TypeOK
<1>14. /\ BoxShaped(seen') /\ AlarmsIn(seen', "archived") = {}
       /\ DOMAIN seen'.hosts \subseteq Hosts /\ DOMAIN seen'.rules \subseteq issued'
  BY <1>1, <1>7, SeenStays
<1>15. /\ c.todo # <<>> /\ Doable(c.todo, c.told.service)
       /\ \A i \in DOMAIN c.todo : c.todo[i].do # "delete_rule"
       /\ Head(c.todo).do = "create_rule" => Head(c.todo).on \in issued'
       /\ Head(c.todo).do # "delete_rule"
  BY <1>1, <1>5, <1>6, <1>8, <1>10, <1>11
<1>16. /\ c = [pc |-> c.pc, q |-> c.q, told |-> c.told, plan |-> c.plan,
               todo |-> c.todo, moved |-> c.moved, polled |-> c.polled]
       /\ c.pc = "taken" /\ c.q = call.q /\ c.told = call.told
  BY <1>6
<1> QED BY <1>1, <1>3, <1>7, <1>12, <1>13, <1>14, <1>15, <1>16, RunsInv

\* The alarm was found: the effect that needs it is next.
LEMMA AlarmFoundInv ==
    ASSUME IInv, AlarmFound
    PROVE  IInv'
<1> DEFINE rest == Tail(call.todo)
           c == [call EXCEPT !.todo = rest]
<1>1. /\ call.pc = "sending" /\ Head(call.todo).do = "find_alarm" /\ call' = c
      /\ UNCHANGED <<mode, box, issued, seen, poll, calls, appMoves, last>>
  BY DEF AlarmFound
<1>2. /\ call # Idle /\ call.todo # <<>> /\ Doable(call.todo, call.told.service)
      /\ DOMAIN call.todo = 1..Len(call.todo) /\ Len(call.todo) \in Nat \ {0}
      /\ Head(call.todo) = call.todo[1]
      /\ \A i \in DOMAIN call.todo :
            call.todo[i].do = "delete_rule" => call.todo[i].on \in issued
  BY <1>1, TodoFacts DEF IInv
<1>3. /\ call = [pc |-> call.pc, q |-> call.q, told |-> call.told, plan |-> call.plan,
                 todo |-> call.todo, moved |-> call.moved, polled |-> call.polled]
      /\ call.q.tool \in Offered(mode) /\ call.told.service \in Services
      /\ Reaches(call.q.tool, call.told.service)
  BY <1>2, CallFacts DEF IInv
<1>4. c = [pc |-> call.pc, q |-> call.q, told |-> call.told, plan |-> call.plan,
           todo |-> rest, moved |-> call.moved, polled |-> call.polled]
  <2> HIDE DEF rest
  <2> QED BY <1>3, CallParts
<1>5. rest = Tail(call.todo)
  OBVIOUS
<1> HIDE DEF c, rest
<1>6. /\ Doable(rest, call.told.service) /\ Len(rest) = Len(call.todo) - 1
      /\ \A i \in DOMAIN rest : i + 1 \in DOMAIN call.todo /\ rest[i] = call.todo[i + 1]
      /\ \A j \in DOMAIN call.todo : j # 1 => j - 1 \in DOMAIN rest /\ rest[j - 1] = call.todo[j]
  <2> DEFINE ops == call.todo
             service == call.told.service
  <2>1. Doable(ops, service) /\ ops # <<>> /\ rest = Tail(ops)
    BY <1>2, <1>5
  <2> HIDE DEF ops, service
  <2>2. Doable(rest, service) /\ Len(rest) = Len(ops) - 1
    BY <2>1, TailDoable
  <2>3. \A i \in DOMAIN rest : i + 1 \in DOMAIN ops /\ rest[i] = ops[i + 1]
    BY <2>1, TailDoable
  <2>4. \A j \in DOMAIN ops : j # 1 => j - 1 \in DOMAIN rest /\ rest[j - 1] = ops[j]
    BY <2>1, TailDoable
  <2> QED BY <2>2, <2>3, <2>4 DEF ops, service
<1>7. rest # <<>>
  <2> DEFINE n == Len(call.todo)
  <2>1. 1 < n
    BY <1>1, <1>2 DEF Doable
  <2>2. n \in Nat /\ Len(rest) = n - 1
    BY <1>2, <1>6
  <2> HIDE DEF n
  <2>3. Len(rest) # 0
    BY <2>1, <2>2
  <2> QED BY <2>3
<1>8. BoxStep
  BY <1>1, BoxStays
<1>9. PlannedGone'
  <2>1. SUFFICES ASSUME ~call.polled, NEW i \in DOMAIN call.plan.ops,
                        call.plan.ops[i].do = "delete_rule"
                 PROVE  /\ call.plan.ops[i].on \in issued
                        /\ call.plan.ops[i].on \in DOMAIN box.rules =>
                              /\ call.plan.ops[i].on \in DOMAIN seen.rules
                              /\ \E j \in DOMAIN rest : rest[j] = call.plan.ops[i]
    BY <1>1, <1>4 DEF PlannedGone
  <2>2. /\ call.plan.ops[i].on \in issued
        /\ call.plan.ops[i].on \in DOMAIN box.rules =>
              /\ call.plan.ops[i].on \in DOMAIN seen.rules
              /\ \E j \in DOMAIN call.todo : call.todo[j] = call.plan.ops[i]
    BY <1>1, <2>1 DEF IInv, PlannedGone
  <2> QED BY <1>1, <1>2, <1>6, <2>1, <2>2
<1>10. last'.pc \in Answers /\ calls' \in 0..MaxCalls
  BY <1>1 DEF IInv, TypeOK
<1>11. /\ BoxShaped(seen') /\ AlarmsIn(seen', "archived") = {}
       /\ DOMAIN seen'.hosts \subseteq Hosts /\ DOMAIN seen'.rules \subseteq issued'
  BY <1>1, <1>8, SeenStays
<1>12. \A i \in DOMAIN rest : rest[i].do = "delete_rule" => rest[i].on \in issued'
  BY <1>1, <1>2, <1>6
<1>13. /\ c = [pc |-> c.pc, q |-> c.q, told |-> c.told, plan |-> c.plan,
               todo |-> c.todo, moved |-> c.moved, polled |-> c.polled]
       /\ c.pc = "sending" /\ c.q = call.q /\ c.told = call.told /\ c.todo = rest
  BY <1>1, <1>4
<1> QED BY <1>1, <1>3, <1>6, <1>7, <1>8, <1>9, <1>10, <1>11, <1>12, <1>13, RunsInv

\* A call that ends without an answer, whether the box took the request or not.
LEMMA FailsInv ==
    ASSUME IInv,
           \/ AlarmNotFound \/ RequestFails \/ AnswerLost \/ DeletionRaises
           \/ \E r \in Rules : CreateAnswerLost(r)
    PROVE  IInv'
<1>1. UNCHANGED <<mode, seen, poll, calls, appMoves>> /\ call' = Idle
  BY DEF AlarmNotFound, RequestFails, AnswerLost, CreateAnswerLost, DeletionRaises, Fail
<1>2. last'.pc \in Answers
  BY DEF AlarmNotFound, RequestFails, AnswerLost, CreateAnswerLost, DeletionRaises, Fail,
         Refused, Answers
<1>3. calls' \in 0..MaxCalls /\ appMoves' \in 0..MaxAppMoves
  BY <1>1 DEF IInv, TypeOK
<1>4. BoxStep
  <2>1. CASE AlarmNotFound \/ RequestFails \/ DeletionRaises
    BY <2>1, BoxStays DEF AlarmNotFound, RequestFails, DeletionRaises
  <2>2. CASE AnswerLost
    <3> DEFINE e == Head(call.todo)
    <3>1. e.do # "create_rule" /\ box' = Apply(e, box) /\ issued' = issued
      BY <2>2 DEF AnswerLost
    <3> HIDE DEF e
    <3> QED BY <3>1, BoxApplied
  <2>3. CASE \E r \in Rules : CreateAnswerLost(r)
    <3> PICK r \in Rules : CreateAnswerLost(r)
      BY <2>3
    <3> DEFINE owner == Head(call.todo).is
               e == Effect("create_rule", r, owner)
    <3>1. r \notin issued /\ box' = Apply(e, box) /\ issued' = issued \cup {r}
      BY DEF CreateAnswerLost
    <3>2. e = Effect("create_rule", r, owner)
      OBVIOUS
    <3> HIDE DEF e, owner
    <3> QED BY <3>1, <3>2, BoxCreated
  <2> QED BY <2>1, <2>2, <2>3
<1> QED BY <1>1, <1>2, <1>3, <1>4, EndsInv

\* The view follows the request that returned.  What was to be deleted and is still on
\* the box is later in the plan, and the view lists it, so that it is not skipped.
LEMMA RequestReturnsInv ==
    ASSUME IInv, RequestReturns
    PROVE  IInv'
<1> DEFINE e == Head(call.todo)
           rest == Tail(call.todo)
           todo == Remaining(rest, seen')
           c == [call EXCEPT !.pc = "sending", !.todo = todo]
<1>1. /\ call.pc = "taken" /\ seen' = Patched(e, seen)
      /\ e.do = "delete_rule" => e.on \in DOMAIN seen.rules
      /\ Proceed(c)
      /\ UNCHANGED <<mode, box, issued, poll, calls, appMoves>>
  BY DEF RequestReturns
<1>2. /\ call # Idle /\ call.todo # <<>> /\ Doable(call.todo, call.told.service)
      /\ DOMAIN call.todo = 1..Len(call.todo) /\ Len(call.todo) \in Nat \ {0}
      /\ e = call.todo[1]
      /\ \A i \in DOMAIN call.todo :
            call.todo[i].do = "delete_rule" => call.todo[i].on \in issued
  BY <1>1, TodoFacts DEF IInv
<1>3. /\ call = [pc |-> call.pc, q |-> call.q, told |-> call.told, plan |-> call.plan,
                 todo |-> call.todo, moved |-> call.moved, polled |-> call.polled]
      /\ call.q.tool \in Offered(mode) /\ call.told.service \in Services
      /\ Reaches(call.q.tool, call.told.service)
  BY <1>2, CallFacts DEF IInv
<1>4. c = [pc |-> "sending", q |-> call.q, told |-> call.told, plan |-> call.plan,
           todo |-> todo, moved |-> call.moved, polled |-> call.polled]
  <2>1. c = [call EXCEPT !.pc = "sending", !.todo = todo]
    OBVIOUS
  <2> HIDE DEF todo, c
  <2> QED BY <1>3, <2>1, CallResumed
<1>5. rest = Tail(call.todo) /\ todo = Remaining(rest, seen')
  OBVIOUS
<1>6. /\ e.do = "create_rule" => e.on \in issued
      /\ e.do = "delete_rule" => e.on \notin DOMAIN box.rules
  BY <1>1, <1>2 DEF IInv, CallInv
<1> HIDE DEF c, todo, rest, e
<1>7. BoxStep
  BY <1>1, BoxStays
<1>8. BoxShaped(seen) /\ AlarmsIn(seen, "archived") = {}
  BY DEF IInv, TypeOK, BoxInv
<1>9. /\ BoxShaped(seen') /\ AlarmsIn(seen', "archived") = {}
      /\ DOMAIN seen'.hosts \subseteq DOMAIN seen.hosts
      /\ DOMAIN seen'.rules \subseteq DOMAIN seen.rules \cup {e.on}
      /\ e.do # "create_rule" => DOMAIN seen'.rules \subseteq DOMAIN seen.rules
      /\ \A r \in DOMAIN seen.rules :
            r \notin DOMAIN seen'.rules => e.do = "delete_rule" /\ e.on = r
  BY <1>1, <1>8, PatchedFacts
<1>10. DOMAIN seen'.hosts \subseteq Hosts /\ DOMAIN seen'.rules \subseteq issued'
  BY <1>1, <1>6, <1>9 DEF IInv, TypeOK
<1>11. /\ Doable(rest, call.told.service)
       /\ \A i \in DOMAIN rest : i + 1 \in DOMAIN call.todo /\ rest[i] = call.todo[i + 1]
       /\ \A j \in DOMAIN call.todo : j # 1 => j - 1 \in DOMAIN rest /\ rest[j - 1] = call.todo[j]
  <2> DEFINE ops == call.todo
             service == call.told.service
  <2>1. Doable(ops, service) /\ ops # <<>> /\ rest = Tail(ops)
    BY <1>2, <1>5
  <2> HIDE DEF ops, service
  <2>2. Doable(rest, service)
    BY <2>1, TailDoable
  <2>3. \A i \in DOMAIN rest : i + 1 \in DOMAIN ops /\ rest[i] = ops[i + 1]
    BY <2>1, TailDoable
  <2>4. \A j \in DOMAIN ops : j # 1 => j - 1 \in DOMAIN rest /\ rest[j - 1] = ops[j]
    BY <2>1, TailDoable
  <2> QED BY <2>2, <2>3, <2>4 DEF ops, service
<1>12. /\ Doable(todo, call.told.service)
       /\ \A i \in DOMAIN todo : \E j \in DOMAIN rest : todo[i] = rest[j]
       /\ \A j \in DOMAIN rest :
             rest[j].do = "delete_rule" /\ rest[j].on \in DOMAIN seen'.rules =>
                 \E i \in DOMAIN todo : todo[i] = rest[j]
  <2> DEFINE service == call.told.service
             v == seen'
  <2>1. Doable(rest, service) /\ todo = Remaining(rest, v)
    BY <1>5, <1>11
  <2> HIDE DEF service, v
  <2>2. Doable(todo, service)
    BY <2>1, RemainingDoable
  <2>3. \A i \in DOMAIN todo : \E j \in DOMAIN rest : todo[i] = rest[j]
    BY <2>1, RemainingDoable
  <2>4. \A j \in DOMAIN rest : rest[j].do = "delete_rule" /\ rest[j].on \in DOMAIN v.rules =>
                 \E i \in DOMAIN todo : todo[i] = rest[j]
    BY <2>1, RemainingDoable
  <2> QED BY <2>2, <2>3, <2>4 DEF service, v
<1>13. calls' \in 0..MaxCalls /\ appMoves' \in 0..MaxAppMoves
  BY <1>1 DEF IInv, TypeOK
<1>14. CASE todo = <<>>
  <2>1. call' = Idle /\ last'.pc \in Answers
    BY <1>1, <1>4, <1>14 DEF Proceed, Reply, Answers
  <2> QED BY <1>1, <1>7, <1>9, <1>10, <1>13, <2>1, IdleInv
<1>15. CASE todo # <<>>
  <2>1. call' = c /\ last'.pc \in Answers
    BY <1>1, <1>4, <1>15 DEF Proceed, Idle, Answers
  <2>2. \A i \in DOMAIN todo : todo[i].do = "delete_rule" => todo[i].on \in issued'
    BY <1>1, <1>2, <1>11, <1>12
  <2>3. PlannedGone'
    <3>1. SUFFICES ASSUME ~call.polled, NEW i \in DOMAIN call.plan.ops,
                          call.plan.ops[i].do = "delete_rule"
                   PROVE  /\ call.plan.ops[i].on \in issued
                          /\ call.plan.ops[i].on \in DOMAIN box.rules =>
                                /\ call.plan.ops[i].on \in DOMAIN seen'.rules
                                /\ \E j \in DOMAIN todo : todo[j] = call.plan.ops[i]
      BY <1>1, <1>4, <2>1 DEF PlannedGone
    <3> DEFINE d == call.plan.ops[i]
    <3>2. /\ d.on \in issued
          /\ d.on \in DOMAIN box.rules =>
                /\ d.on \in DOMAIN seen.rules
                /\ \E j \in DOMAIN call.todo : call.todo[j] = d /\ j # 1
      BY <1>1, <3>1 DEF IInv, PlannedGone
    <3>3. d.do = "delete_rule"
      BY <3>1
    <3> HIDE DEF d
    <3>4. ASSUME d.on \in DOMAIN box.rules
          PROVE  d.on \in DOMAIN seen'.rules /\ \E j \in DOMAIN todo : todo[j] = d
      <4>1. d.on \in DOMAIN seen'.rules
        BY <1>6, <1>9, <3>2, <3>4
      <4>2. PICK j \in DOMAIN rest : rest[j] = d
        BY <1>11, <3>2, <3>4
      <4> QED BY <1>12, <3>3, <4>1, <4>2
    <3> QED BY <3>2, <3>4 DEF d
  <2>4. /\ c = [pc |-> c.pc, q |-> c.q, told |-> c.told, plan |-> c.plan,
                todo |-> c.todo, moved |-> c.moved, polled |-> c.polled]
        /\ c.pc = "sending" /\ c.q = call.q /\ c.told = call.told /\ c.todo = todo
    BY <1>4
  <2> QED BY <1>1, <1>3, <1>7, <1>9, <1>10, <1>12, <1>13, <1>15, <2>1, <2>2, <2>3, <2>4, RunsInv
<1> QED BY <1>14, <1>15

\* A poll is answered, or comes to nothing.
LEMMA PollInv ==
    ASSUME IInv, PollAnswered \/ PollFails
    PROVE  IInv'
<1>1. /\ UNCHANGED <<mode, box, issued, seen, call, calls, appMoves, last>>
      /\ poll' \in {None, ViewOf(box)}
  BY DEF PollAnswered, PollFails
<1>2. BoxStep
  BY <1>1, BoxStays
<1>3. appMoves' \in 0..MaxAppMoves
  BY <1>1 DEF IInv, TypeOK
<1> QED BY <1>1, <1>2, <1>3, StandsInv

\* A poll is published while a call is under way, or while none is.
LEMMA PollPublishedInv ==
    ASSUME IInv, PollPublished
    PROVE  IInv'
<1>1. /\ seen' = poll /\ poll' = None /\ poll # None
      /\ UNCHANGED <<mode, box, issued, calls, appMoves, last>>
      /\ call' = IF call = Idle THEN Idle ELSE [call EXCEPT !.polled = TRUE]
  BY DEF PollPublished
<1>2. BoxStep
  BY <1>1, BoxStays
<1>3. /\ BoxShaped(seen') /\ AlarmsIn(seen', "archived") = {}
      /\ DOMAIN seen'.hosts \subseteq Hosts /\ DOMAIN seen'.rules \subseteq issued'
  BY <1>1 DEF IInv, TypeOK, BoxInv
<1>4. last'.pc \in Answers /\ calls' \in 0..MaxCalls /\ appMoves' \in 0..MaxAppMoves
  BY <1>1 DEF IInv, TypeOK
<1>5. CASE call = Idle
  BY <1>1, <1>2, <1>3, <1>4, <1>5, IdleInv
<1>6. CASE call # Idle
  <2> DEFINE c == [call EXCEPT !.polled = TRUE]
  <2>1. /\ call = [pc |-> call.pc, q |-> call.q, told |-> call.told, plan |-> call.plan,
                   todo |-> call.todo, moved |-> call.moved, polled |-> call.polled]
        /\ call.pc \in {"refreshing", "retrying", "sending", "taken"}
        /\ call.q.tool \in Offered(mode) /\ call.told.service \in Services
        /\ Reaches(call.q.tool, call.told.service)
    BY <1>6, CallFacts DEF IInv
  <2>2. c = [pc |-> call.pc, q |-> call.q, told |-> call.told, plan |-> call.plan,
             todo |-> call.todo, moved |-> call.moved, polled |-> TRUE]
    BY <2>1, CallParts
  <2>3. call' = c
    BY <1>1, <1>6
  <2> HIDE DEF c
  <2>4. /\ c = [pc |-> c.pc, q |-> c.q, told |-> c.told, plan |-> c.plan,
                todo |-> c.todo, moved |-> c.moved, polled |-> c.polled]
        /\ c.pc = call.pc /\ c.q = call.q /\ c.told = call.told /\ c.todo = call.todo
        /\ c.polled = TRUE
    BY <2>2
  <2>5. PlannedGone'
    BY <2>3, <2>4 DEF PlannedGone
  <2>6. c.pc \in {"sending", "taken"} =>
            /\ c.todo # <<>> /\ Doable(c.todo, c.told.service)
            /\ \A i \in DOMAIN c.todo :
                  c.todo[i].do = "delete_rule" => c.todo[i].on \in issued'
    BY <1>1, <1>6, <2>4 DEF IInv, CallInv
  <2>7. c.pc = "taken" =>
            /\ Head(c.todo).do = "create_rule" => Head(c.todo).on \in issued'
            /\ Head(c.todo).do = "delete_rule" => Head(c.todo).on \notin DOMAIN box'.rules
    BY <1>1, <1>6, <2>4 DEF IInv, CallInv
  <2> QED BY <1>1, <1>2, <1>3, <1>4, <2>1, <2>3, <2>4, <2>5, <2>6, <2>7, RunsInv
<1> QED BY <1>5, <1>6

\* What the app changes never takes an id back, and a call goes on.
LEMMA AppInv ==
    ASSUME IInv,
           \/ \E h \in Hosts, name \in Names : AppAddsHost(h, name)
           \/ \E r \in Rules, owner \in Hosts : AppAddsRule(r, owner)
           \/ \E e \in AppEffects : AppChanges(e)
    PROVE  IInv'
<1>1. /\ AppMove /\ UNCHANGED <<mode, seen, poll, calls>> /\ last' = Idle
      /\ appMoves < MaxAppMoves /\ appMoves' = appMoves + 1
      /\ call' = IF call = Idle THEN Idle ELSE [call EXCEPT !.moved = TRUE]
  BY DEF AppAddsHost, AppAddsRule, AppChanges, AppMove
<1>2. appMoves' \in 0..MaxAppMoves
  BY <1>1, BoundsAssumption DEF IInv, TypeOK
<1>3. call' = call \/ (call # Idle /\ call' = [call EXCEPT !.moved = TRUE])
  BY <1>1
<1>4. BoxStep
  <2>1. CASE \E h \in Hosts, name \in Names : AppAddsHost(h, name)
    <3> PICK h \in Hosts, name \in Names : AppAddsHost(h, name)
      BY <2>1
    <3> DEFINE x == [g \in DOMAIN box.hosts \cup {h} |->
                        IF g = h THEN NewHost(name) ELSE box.hosts[g]]
    <3>1. box' = [box EXCEPT !.hosts = x] /\ issued' = issued
      BY DEF AppAddsHost
    <3>2. BoxShaped(box) /\ DOMAIN box.hosts \subseteq Hosts
      BY DEF IInv, TypeOK, BoxInv
    <3>3. HostSettings \subseteq DOMAIN NewHost(name)
      <4> DEFINE g == CHOOSE g \in DOMAIN Start.hosts : TRUE
      <4>1. g \in DOMAIN Start.hosts
        BY StartAssumption
      <4>2. NewHost(name) = [Start.hosts[g] EXCEPT !.name = name]
        BY DEF NewHost
      <4> HIDE DEF g
      <4> QED BY <4>1, <4>2, StartAssumption DEF BoxShaped
    <3>4. /\ DOMAIN x = DOMAIN box.hosts \cup {h}
          /\ \A g \in DOMAIN x : HostSettings \subseteq DOMAIN x[g]
      BY <3>2, <3>3 DEF BoxShaped
    <3> HIDE DEF x
    <3>5. box' = [hosts |-> x, rules |-> box.rules, paused |-> box.paused,
                  alarms |-> box.alarms, muted |-> box.muted]
      BY <3>1, <3>2, PartReplaced
    <3> QED BY <3>1, <3>2, <3>4, <3>5 DEF BoxStep, BoxShaped, IInv, TypeOK
  <2>2. CASE \E r \in Rules, owner \in Hosts : AppAddsRule(r, owner)
    <3> PICK r \in Rules, owner \in Hosts : AppAddsRule(r, owner)
      BY <2>2
    <3> DEFINE d == Effect("create_rule", r, owner)
    <3>1. r \notin issued /\ box' = Apply(d, box) /\ issued' = issued \cup {r}
      BY DEF AppAddsRule
    <3>2. d = Effect("create_rule", r, owner)
      OBVIOUS
    <3> HIDE DEF d
    <3> QED BY <3>1, <3>2, BoxCreated
  <2>3. CASE \E e \in AppEffects : AppChanges(e)
    BY <2>3, EffectsAssumption, BoxApplied DEF AppChanges
  <2> QED BY <2>1, <2>2, <2>3
<1> QED BY <1>1, <1>2, <1>3, <1>4, StandsInv

LEMMA InitInv ==
    ASSUME Init
    PROVE  IInv
<1>1. /\ BoxShaped(Start) /\ seen = ViewOf(Start) /\ box = Start
      /\ issued = DOMAIN Start.rules /\ poll = None /\ call = Idle /\ last = Idle
      /\ calls = 0 /\ appMoves = 0 /\ mode \in Modes
  BY StartAssumption DEF Init
<1>2. /\ BoxShaped(seen) /\ seen.hosts = Start.hosts /\ seen.rules = Start.rules
      /\ AlarmsIn(seen, "archived") = {}
  BY <1>1, ViewOfFacts
<1>3. call.pc = "idle" /\ last.pc \in Answers
  BY <1>1 DEF Idle, Answers
<1>4. TypeOK
  BY <1>1, <1>2, <1>3, StartAssumption, BoundsAssumption DEF TypeOK
<1>5. CallInv
  BY <1>1 DEF CallInv
<1>6. BoxInv
  BY <1>1, <1>2 DEF BoxInv
<1>7. PlannedGone
  BY <1>3 DEF PlannedGone
<1> QED BY <1>4, <1>5, <1>6, <1>7 DEF IInv

LEMMA StutterInv ==
    ASSUME IInv, UNCHANGED vars
    PROVE  IInv'
<1>1. UNCHANGED <<mode, box, issued, seen, poll, call, calls, appMoves, last>>
  BY DEF vars
<1>2. BoxStep
  BY <1>1, BoxStays
<1>3. appMoves' \in 0..MaxAppMoves
  BY <1>1 DEF IInv, TypeOK
<1> QED BY <1>1, <1>2, <1>3, StandsInv

LEMMA NextInv ==
    ASSUME IInv, [Next]_vars
    PROVE  IInv'
<1>1. CASE \E q \in Asked : CallNotTaken(q) \/ CallRefreshes(q) \/ CallResolves(q)
  BY <1>1, BeginInv
<1>2. CASE RefreshReturns
  BY <1>2, RefreshReturnsInv
<1>3. CASE BoxTakes
  BY <1>3, BoxTakesInv
<1>4. CASE \E r \in Rules, named \in BOOLEAN : BoxCreates(r, named)
  BY <1>4, BoxCreatesInv
<1>5. CASE AlarmFound
  BY <1>5, AlarmFoundInv
<1>6. CASE \/ AlarmNotFound \/ RequestFails \/ AnswerLost \/ DeletionRaises
           \/ \E r \in Rules : CreateAnswerLost(r)
  BY <1>6, FailsInv
<1>7. CASE RequestReturns
  BY <1>7, RequestReturnsInv
<1>8. CASE PollAnswered \/ PollFails
  BY <1>8, PollInv
<1>9. CASE PollPublished
  BY <1>9, PollPublishedInv
<1>10. CASE \/ \E h \in Hosts, name \in Names : AppAddsHost(h, name)
            \/ \E r \in Rules, owner \in Hosts : AppAddsRule(r, owner)
            \/ \E e \in AppEffects : AppChanges(e)
  BY <1>10, AppInv
<1>11. CASE UNCHANGED vars
  BY <1>11, StutterInv
<1> QED BY <1>1, <1>2, <1>3, <1>4, <1>5, <1>6, <1>7, <1>8, <1>9, <1>10, <1>11 DEF Next

-----------------------------------------------------------------------------
(* The theorems.                                                           *)

\* The invariant holds in every state of every behaviour: what is left of a plan is in
\* its order and of its service, and a rule that is to be deleted is gone from the box,
\* or is listed and its deletion is still to come.
THEOREM ToolsInvariant == Spec => []IInv
<1>1. Init => IInv
  BY InitInv
<1>2. IInv /\ [Next]_vars => IInv'
  BY NextInv
<1> QED BY <1>1, <1>2, PTL DEF Spec

\* The box, its view and the call under way keep their types, whatever is asked.
THEOREM TypeCorrect == Spec => []TypeOK
<1>1. IInv => TypeOK
  BY DEF IInv
<1> QED BY <1>1, ToolsInvariant, PTL

\* Only a request under way changes the box when the app does not: with the effect at
\* the head of what is left, or with a rule that has a new id.
LEMMA BoxChanges ==
    ASSUME IInv, [Next]_vars, appMoves' = appMoves, box' # box
    PROVE  /\ call.pc = "sending" /\ call # Idle
           /\ \E e : /\ Kept(e, box, box') /\ e.do # "find_alarm"
                     /\ e = Head(call.todo) \/ e.do = "create_rule"
<1>1. appMoves \in Nat
  BY BoundsAssumption DEF IInv, TypeOK
<1>2. \/ BoxTakes \/ AnswerLost
      \/ \E r \in Rules, named \in BOOLEAN : BoxCreates(r, named)
      \/ \E r \in Rules : CreateAnswerLost(r)
  <2>1. ~ (\E q \in Asked : CallNotTaken(q) \/ CallRefreshes(q) \/ CallResolves(q))
    BY DEF Begin, CallNotTaken, CallRefreshes, CallResolves
  <2>2. ~ RefreshReturns /\ ~ AlarmFound /\ ~ AlarmNotFound /\ ~ RequestFails
    BY DEF RefreshReturns, AlarmFound, AlarmNotFound, RequestFails
  <2>3. ~ DeletionRaises /\ ~ RequestReturns
    BY DEF DeletionRaises, RequestReturns
  <2>4. ~ PollAnswered /\ ~ PollPublished /\ ~ PollFails /\ ~ UNCHANGED vars
    BY DEF PollAnswered, PollPublished, PollFails, vars
  <2>5. ~ AppMove
    BY <1>1 DEF AppMove
  <2>6. /\ ~ (\E h \in Hosts, name \in Names : AppAddsHost(h, name))
        /\ ~ (\E r \in Rules, owner \in Hosts : AppAddsRule(r, owner))
        /\ ~ (\E e \in AppEffects : AppChanges(e))
    BY <2>5 DEF AppAddsHost, AppAddsRule, AppChanges
  <2> QED BY <2>1, <2>2, <2>3, <2>4, <2>6 DEF Next
<1>3. CASE BoxTakes \/ AnswerLost
  <2> DEFINE e == Head(call.todo)
  <2>1. /\ call.pc = "sending" /\ e.do \notin {"create_rule", "find_alarm"}
        /\ box' = Apply(e, box) /\ issued' = issued
    BY <1>3 DEF BoxTakes, AnswerLost, Fail
  <2>2. e = Head(call.todo)
    OBVIOUS
  <2> HIDE DEF e
  <2>3. Kept(e, box, box')
    BY <2>1, BoxApplied
  <2> QED BY <2>1, <2>2, <2>3, TodoFacts DEF IInv
<1>4. CASE \/ \E r \in Rules, named \in BOOLEAN : BoxCreates(r, named)
           \/ \E r \in Rules : CreateAnswerLost(r)
  <2> DEFINE owner == Head(call.todo).is
  <2>1. PICK r \in Rules : /\ call.pc = "sending" /\ r \notin issued
                           /\ box' = Apply(Effect("create_rule", r, owner), box)
                           /\ issued' = issued \cup {r}
    BY <1>4 DEF BoxCreates, CreateAnswerLost, Fail
  <2> DEFINE e == Effect("create_rule", r, owner)
  <2>2. e.do = "create_rule" /\ e = Effect("create_rule", r, owner) /\ box' = Apply(e, box)
    BY <2>1 DEF Effect
  <2> HIDE DEF e, owner
  <2>3. Kept(e, box, box')
    BY <2>1, <2>2, BoxCreated
  <2> QED BY <2>1, <2>2, <2>3, TodoFacts DEF IInv
<1> QED BY <1>2, <1>3, <1>4

\* No tool of a read mode changes the box, and no tool of the control mode removes a
\* host or an alarm, moves a membership, or removes a rule other than the block it
\* undoes: with every tool, every argument and every loss of an answer.
THEOREM ModeKeepsTheBox == Spec => ModeKeepsRecords
<1> DEFINE Keeps ==
      /\ mode \in {"off", "summary_only", "read_only"} => box' = box
      /\ mode = "read_and_control" =>
            /\ DOMAIN box.hosts \subseteq DOMAIN box'.hosts
            /\ DOMAIN box.alarms \subseteq DOMAIN box'.alarms
            /\ \A h \in DOMAIN box.hosts : box'.hosts[h].tag = box.hosts[h].tag
            /\ \A r \in DOMAIN box.rules \ DOMAIN box'.rules :
                  call.q.tool = "unblock_alarm_target"
<1>1. ASSUME IInv, [Next]_vars, appMoves' = appMoves PROVE Keeps
  <2>1. CASE box' = box
    BY <2>1
  <2>2. CASE box' # box
    <3>1. /\ call.pc = "sending" /\ call # Idle
          /\ \E e : /\ Kept(e, box, box') /\ e.do # "find_alarm"
                    /\ e = Head(call.todo) \/ e.do = "create_rule"
      BY <1>1, <2>2, BoxChanges
    <3>2. PICK e : /\ Kept(e, box, box') /\ e.do # "find_alarm"
                   /\ e = Head(call.todo) \/ e.do = "create_rule"
      BY <3>1
    <3>3. call.q.tool \in Offered(mode) /\ Reaches(call.q.tool, call.told.service)
      BY <1>1, <3>1, CallFacts DEF IInv
    <3>4. /\ Doable(call.todo, call.told.service) /\ 1 \in DOMAIN call.todo
          /\ Head(call.todo) = call.todo[1]
      BY <1>1, <3>1, TodoFacts DEF IInv
    <3>5. mode \notin {"off", "summary_only", "read_only"}
      BY <3>3 DEF Offered
    <3>6. ASSUME mode = "read_and_control"
          PROVE  /\ e.do \notin {"tag", "delete_host", "delete_alarm"}
                 /\ e.do = "delete_rule" => call.q.tool = "unblock_alarm_target"
      <4>1. call.q.tool \in ControlTools
        BY <3>3, <3>6 DEF Offered, BuildControlTools
      <4> QED BY <3>2, <3>3, <3>4, <4>1 DEF Doable, Reaches
    <3> QED BY <3>2, <3>5, <3>6 DEF Kept
  <2> QED BY <2>1, <2>2
<1>2. IInv /\ [Next]_vars => [appMoves' = appMoves => Keeps]_vars
  BY <1>1
<1> QED BY <1>2, ToolsInvariant, PTL DEF Spec, ModeKeepsRecords

\* A host changes its group or user only when the rules of its own that the service
\* found are gone from the box, whatever fails and whatever answer is lost before.
THEOREM RulesGoneFirst == Spec => RulesGoneBeforeMove
<1>1. ASSUME IInv, [Next]_vars, call # Idle, ~call.polled, appMoves' = appMoves
      PROVE  OwnRulesGone
  <2>1. CASE box' = box
    BY <2>1 DEF OwnRulesGone
  <2>2. CASE box' # box
    <3>1. /\ call.pc = "sending"
          /\ \E e : /\ Kept(e, box, box') /\ e.do # "find_alarm"
                    /\ e = Head(call.todo) \/ e.do = "create_rule"
      BY <1>1, <2>2, BoxChanges
    <3>2. PICK e : /\ Kept(e, box, box') /\ e.do # "find_alarm"
                   /\ e = Head(call.todo) \/ e.do = "create_rule"
      BY <3>1
    <3>3. /\ Doable(call.todo, call.told.service) /\ Len(call.todo) \in Nat \ {0}
          /\ DOMAIN call.todo = 1..Len(call.todo) /\ Head(call.todo) = call.todo[1]
      BY <1>1, <3>1, TodoFacts DEF IInv
    <3>4. CASE e.do # "tag"
      BY <3>2, <3>4 DEF Kept, OwnRulesGone
    <3>5. CASE e.do = "tag"
      <4>1. e = call.todo[1] /\ Len(call.todo) = 1
        <5> DEFINE ops == call.todo
        <5>1. e = ops[1] /\ 1 \in DOMAIN ops /\ Doable(ops, call.told.service)
          BY <3>2, <3>3, <3>5
        <5> HIDE DEF ops
        <5>2. 1 = Len(ops)
          BY <3>5, <5>1 DEF Doable
        <5> QED BY <5>1, <5>2 DEF ops
      <4>2. ASSUME NEW i \in DOMAIN call.plan.ops, call.plan.ops[i].do = "delete_rule"
            PROVE  call.plan.ops[i].on \notin DOMAIN box.rules
        <5>1. call.plan.ops[i].on \in DOMAIN box.rules =>
                  \E j \in DOMAIN call.todo : call.todo[j] = call.plan.ops[i]
          BY <1>1, <3>1, <4>2 DEF IInv, PlannedGone
        <5> QED BY <3>3, <3>5, <4>1, <4>2, <5>1
      <4> QED BY <4>2 DEF OwnRulesGone
    <3> QED BY <3>4, <3>5
  <2> QED BY <2>1, <2>2
<1>2. IInv /\ [Next]_vars =>
          [call # Idle /\ ~call.polled /\ appMoves' = appMoves => OwnRulesGone]_vars
  BY <1>1
<1> QED BY <1>2, ToolsInvariant, PTL DEF Spec, RulesGoneBeforeMove

-----------------------------------------------------------------------------
(* What "updated" means.                                                   *)

\* The last answer, if it is new and says that the view was updated, names effects
\* that the view shows.
Shown ==
    last' # last /\ last'.pc = "replied" /\ call'.pc = "idle" =>
        (last'.runtime = "updated" /\ last'.plan.target # "unnamed" =>
            \A i \in DOMAIN last'.plan.ops : InEffect(last'.plan.ops[i], seen'))

\* A step that ends the call without a reply.
LEMMA NoReply ==
    ASSUME call' = Idle, last'.pc # "replied"
    PROVE  UpdatedInv' /\ Shown
BY DEF UpdatedInv, Shown

\* A step that leaves the plan of the call and what is left of it as they are.
LEMMA PlanStands ==
    ASSUME CallInv, UpdatedInv, last' \in {last, Idle},
           \/ call' = call
           \/ call # Idle /\ \E x : \/ call' = [call EXCEPT !.moved = x]
                                    \/ call' = [call EXCEPT !.polled = x]
           \/ call # Idle /\ call.pc = "sending" /\ call' = [call EXCEPT !.pc = "taken"]
    PROVE  UpdatedInv' /\ Shown
<1>1. Shown
  BY DEF Shown, Idle
<1>2. CASE call' = call
  BY <1>1, <1>2 DEF UpdatedInv
<1>3. CASE \/ call # Idle /\ \E x : \/ call' = [call EXCEPT !.moved = x]
                                    \/ call' = [call EXCEPT !.polled = x]
           \/ call # Idle /\ call.pc = "sending" /\ call' = [call EXCEPT !.pc = "taken"]
  <2>1. /\ call # Idle
        /\ call = [pc |-> call.pc, q |-> call.q, told |-> call.told, plan |-> call.plan,
                   todo |-> call.todo, moved |-> call.moved, polled |-> call.polled]
    BY <1>3, CallFacts
  <2>2. /\ call'.told = call.told /\ call'.plan = call.plan /\ call'.todo = call.todo
        /\ call'.pc = call.pc \/ (call.pc = "sending" /\ call'.pc = "taken")
    BY <1>3, <2>1, CallParts
  <2>3. OneEffect(call)
    BY <2>1 DEF UpdatedInv
  <2>4. OneEffect(call)'
    BY <2>2, <2>3 DEF OneEffect
  <2> QED BY <1>1, <2>4 DEF UpdatedInv
<1> QED BY <1>2, <1>3

\* What is left of one effect that is not skipped is the effect, of none nothing.
LEMMA OneRemains ==
    ASSUME NEW v, NEW ops, ops \in Seq(Range(ops)), NEW left, left = Remaining(ops, v)
    PROVE  /\ ops = <<>> => left = <<>>
           /\ Len(ops) = 1 /\ (ops[1].do = "delete_rule" => ops[1].on \in DOMAIN v.rules) =>
                 left = ops /\ left # <<>>
<1>1. PICK k \in 0..Len(ops) :
              /\ left \in Seq(Range(left)) /\ Len(left) = Len(ops) - k
              /\ \A i \in DOMAIN left : left[i] = ops[k + i]
              /\ \A i \in 1..k : ops[i].do = "delete_rule" /\ ops[i].on \notin DOMAIN v.rules
  BY RemainingFacts
<1> HIDE DEF Range
<1>2. ASSUME ops = <<>> PROVE left = <<>>
  <2>1. Len(left) = 0
    BY <1>1, <1>2
  <2> QED BY <1>1, <2>1
<1>3. ASSUME Len(ops) = 1, ops[1].do = "delete_rule" => ops[1].on \in DOMAIN v.rules
      PROVE  left = ops /\ left # <<>>
  <2>1. k = 0
    BY <1>1, <1>3
  <2>2. /\ Len(left) = 1 /\ DOMAIN left = 1..1 /\ DOMAIN ops = 1..1
        /\ left = [i \in 1..1 |-> left[i]] /\ ops = [i \in 1..1 |-> ops[i]]
    BY <1>1, <1>3, <2>1
  <2>3. left[1] = ops[1]
    BY <1>1, <2>1, <2>2
  <2> QED BY <2>2, <2>3
<1> QED BY <1>2, <1>3

\* A service that resolves its plan has one effect under way, or none and is done.
LEMMA ResolveShows ==
    ASSUME IInv, NEW q, NEW told, NEW retried, Resolve(q, told, retried), seen' = seen,
           told.service \in Services,
           told.runtime = "updated" => told.service \in Publishing
    PROVE  UpdatedInv' /\ Shown
<1> DEFINE plan == Handle(told.service, told.data, seen)
<1>1. CASE call' = Under("retrying", q, told, None, <<>>, FALSE) /\ last' = Idle
  <2>1. call'.pc = "retrying" /\ call'.told = told /\ last'.pc = "idle"
    BY <1>1 DEF Under, Idle
  <2> QED BY <2>1 DEF UpdatedInv, OneEffect, Shown
<1>2. CASE call' = Idle /\ last' = Refused(q, plan.error)
  <2>1. last'.pc = "refused"
    BY <1>2 DEF Refused
  <2> QED BY <1>2, <2>1, NoReply
<1>3. CASE /\ IsPlan(plan)
           /\ Proceed(Under("sending", q, told, plan, Remaining(plan.ops, seen), FALSE))
  <2> DEFINE todo == Remaining(plan.ops, seen)
             c == Under("sending", q, told, plan, todo, FALSE)
  <2>1. IsFiniteSet(DOMAIN seen.rules)
    BY StartAssumption, FS_Subset DEF IInv, TypeOK
  <2>2. Sound(plan, told.service, seen)
    BY <1>3, <2>1, HandleFacts
  <2> HIDE DEF plan
  <2>3. Proceed(c) /\ c = Under("sending", q, told, plan, todo, FALSE)
        /\ todo = Remaining(plan.ops, seen)
    BY <1>3
  <2> HIDE DEF c, todo
  <2>4. c.pc = "sending" /\ c.told = told /\ c.plan = plan /\ c.todo = todo
    BY <2>3 DEF Under
  <2>5. told.service \in Publishing =>
            \/ plan.ops = <<>> /\ todo = <<>>
            \/ /\ todo = plan.ops /\ todo # <<>> /\ Len(todo) = 1 /\ DOMAIN todo = {1}
               /\ Published(todo[1])
    <3> DEFINE ops == plan.ops
    <3>1. /\ ops \in Seq(Range(ops)) /\ todo = Remaining(ops, seen)
          /\ \A i \in DOMAIN ops : ops[i].do = "delete_rule" => ops[i].on \in DOMAIN seen.rules
          /\ told.service \in Publishing =>
                \/ ops = <<>>
                \/ Len(ops) = 1 /\ DOMAIN ops = {1} /\ Published(ops[1])
      BY <2>2, <2>3 DEF Sound, Doable
    <3> HIDE DEF ops
    <3>2. ASSUME ops = <<>> PROVE todo = <<>>
      <4>1. PICK k \in 0..Len(ops) : todo \in Seq(Range(todo)) /\ Len(todo) = Len(ops) - k
        BY <3>1, RemainingFacts
      <4> HIDE DEF Range
      <4>2. Len(todo) = 0
        BY <3>2, <4>1
      <4> QED BY <4>1, <4>2
    <3>3. Len(ops) = 1 /\ DOMAIN ops = {1} => todo = ops /\ todo # <<>>
      BY <3>1, OneRemains
    <3>4. told.service \in Publishing =>
            \/ ops = <<>> /\ todo = <<>>
            \/ /\ todo = ops /\ todo # <<>> /\ Len(todo) = 1 /\ DOMAIN todo = {1}
               /\ Published(todo[1])
      BY <3>1, <3>2, <3>3
    <3> QED BY <3>4 DEF ops
  <2>6. CASE todo = <<>>
    <3>1. call' = Idle /\ last' = Reply(c.q, c.told, c.plan, c.moved)
      BY <2>3, <2>4, <2>6 DEF Proceed
    <3>2. last'.runtime = told.runtime /\ last'.plan = plan
      BY <2>4, <3>1 DEF Reply
    <3>3. told.service \in Publishing => DOMAIN plan.ops = {}
      BY <2>5, <2>6
    <3> QED BY <3>1, <3>2, <3>3 DEF UpdatedInv, Shown
  <2>7. CASE todo # <<>>
    <3>1. call' = c /\ last' = Idle
      BY <2>3, <2>4, <2>7 DEF Proceed
    <3>2. OneEffect(c)
      BY <2>4, <2>5, <2>7 DEF OneEffect
    <3>3. last'.pc = "idle"
      BY <3>1 DEF Idle
    <3> QED BY <3>1, <3>2, <3>3 DEF UpdatedInv, Shown
  <2> QED BY <2>6, <2>7
<1> QED BY <1>1, <1>2, <1>3 DEF Resolve, TakesPlan

\* A request that is answered is the only one of a service that publishes, and the view
\* it patches shows its effect.
LEMMA ReturnShows ==
    ASSUME IInv, UpdatedInv, RequestReturns
    PROVE  UpdatedInv' /\ Shown
<1> DEFINE e == Head(call.todo)
           rest == Tail(call.todo)
           todo == Remaining(rest, seen')
           c == [call EXCEPT !.pc = "sending", !.todo = todo]
<1>1. /\ call.pc = "taken" /\ seen' = Patched(e, seen) /\ Proceed(c)
      /\ rest = Tail(call.todo) /\ todo = Remaining(rest, seen')
  BY DEF RequestReturns
<1>2. /\ call # Idle /\ e = call.todo[1] /\ call.todo # <<>>
      /\ call.todo \in Seq(Range(call.todo))
  BY <1>1, TodoFacts DEF IInv
<1>3. call = [pc |-> call.pc, q |-> call.q, told |-> call.told, plan |-> call.plan,
              todo |-> call.todo, moved |-> call.moved, polled |-> call.polled]
  BY <1>2, CallFacts DEF IInv
<1>4. c = [pc |-> "sending", q |-> call.q, told |-> call.told, plan |-> call.plan,
           todo |-> todo, moved |-> call.moved, polled |-> call.polled]
  <2>1. c = [call EXCEPT !.pc = "sending", !.todo = todo]
    OBVIOUS
  <2> HIDE DEF todo, c
  <2> QED BY <1>3, <2>1, CallResumed
<1>5. c.pc = "sending" /\ c.told = call.told /\ c.plan = call.plan /\ c.todo = todo
  BY <1>4
<1> HIDE DEF c, todo, rest, e
<1>6. OneEffect(call)
  BY <1>2 DEF UpdatedInv
<1>7. BoxShaped(seen)
  BY DEF IInv, BoxInv
<1>8. CASE todo = <<>>
  <2>1. call' = Idle /\ last' = Reply(c.q, c.told, c.plan, c.moved)
    BY <1>1, <1>5, <1>8 DEF Proceed
  <2>2. last'.runtime = call.told.runtime /\ last'.plan = call.plan
    BY <1>5, <2>1 DEF Reply
  <2>3. ASSUME call.told.runtime = "updated", call.plan.target # "unnamed"
        PROVE  \A i \in DOMAIN call.plan.ops : InEffect(call.plan.ops[i], seen')
    <3>1. call.todo = call.plan.ops /\ DOMAIN call.todo = {1} /\ Published(e)
      BY <1>1, <1>2, <1>6, <2>3 DEF OneEffect
    <3>2. InEffect(e, seen')
      BY <1>1, <1>7, <3>1, PatchShows
    <3> QED BY <1>2, <3>1, <3>2
  <2> QED BY <2>1, <2>2, <2>3 DEF UpdatedInv, Shown
<1>9. CASE todo # <<>>
  <2>1. call' = c /\ last' = Idle
    BY <1>1, <1>5, <1>9 DEF Proceed
  <2>2. Len(call.todo) # 1
    <3> DEFINE ops == call.todo
               v == seen'
    <3>1. ops # <<>> /\ ops \in Seq(Range(ops)) /\ rest = Tail(ops) /\ todo = Remaining(rest, v)
      BY <1>1, <1>2
    <3> HIDE DEF ops, v
    <3>2. rest \in Seq(Range(rest)) /\ Len(rest) = Len(ops) - 1
      BY <3>1, PlacesFacts
    <3> HIDE DEF Range
    <3>3. ASSUME Len(ops) = 1 PROVE FALSE
      <4>1. rest = <<>>
        BY <3>2, <3>3
      <4>2. rest = <<>> => todo = <<>>
        BY ONLY <3>1, <3>2, OneRemains
      <4> QED BY <1>9, <4>1, <4>2
    <3> QED BY <3>3 DEF ops
  <2>3. OneEffect(c)
    BY <1>1, <1>5, <1>6, <2>2 DEF OneEffect
  <2>4. last'.pc = "idle"
    BY <2>1 DEF Idle
  <2> QED BY <2>1, <2>3, <2>4 DEF UpdatedInv, Shown
<1> QED BY <1>8, <1>9

\* A created rule is the one effect of its plan, unless the box does not name it.
LEMMA CreateShows ==
    ASSUME IInv, UpdatedInv, NEW r, NEW named, BoxCreates(r, named)
    PROVE  UpdatedInv' /\ Shown
<1> DEFINE e == Effect("create_rule", r, Head(call.todo).is)
           todo == <<IF named THEN e ELSE NoEffect>>
           plan == Plan(<<e>>, IF named THEN None ELSE "unnamed", r)
           c == [call EXCEPT !.pc = "taken", !.todo = todo, !.plan = plan]
<1>1. call.pc = "sending" /\ call' = c /\ last' = last
  BY DEF BoxCreates
<1>2. call # Idle
  BY <1>1, TodoFacts DEF IInv
<1>3. call = [pc |-> call.pc, q |-> call.q, told |-> call.told, plan |-> call.plan,
              todo |-> call.todo, moved |-> call.moved, polled |-> call.polled]
  BY <1>2, CallFacts DEF IInv
<1>4. c = [pc |-> "taken", q |-> call.q, told |-> call.told, plan |-> plan,
           todo |-> todo, moved |-> call.moved, polled |-> call.polled]
  <2>1. c = [call EXCEPT !.pc = "taken", !.todo = todo, !.plan = plan]
    OBVIOUS
  <2> HIDE DEF plan, todo, c
  <2> QED BY <1>3, <2>1, CallReplanned
<1>5. /\ named => todo = plan.ops
      /\ ~named => plan.target = "unnamed"
  BY DEF Plan
<1>6. named => Published(todo[1])
  BY DEF Published, Effect
<1>7. Len(todo) = 1 /\ DOMAIN todo = {1}
  OBVIOUS
<1> HIDE DEF c, plan, todo
<1>8. c.pc = "taken" /\ c.told = call.told /\ c.plan = plan /\ c.todo = todo
  BY <1>4
<1>9. OneEffect(call)
  BY <1>2 DEF UpdatedInv
<1>10. OneEffect(c)
  BY <1>5, <1>6, <1>7, <1>8, <1>9 DEF OneEffect
<1> QED BY <1>1, <1>10 DEF UpdatedInv, Shown

\* Only a service that publishes nothing looks for an alarm.
LEMMA FindShows ==
    ASSUME IInv, UpdatedInv, AlarmFound
    PROVE  UpdatedInv' /\ Shown
<1> DEFINE todo == Tail(call.todo)
           c == [call EXCEPT !.todo = todo]
<1>1. /\ call.pc = "sending" /\ Head(call.todo).do = "find_alarm" /\ last' = last
      /\ call' = c
  BY DEF AlarmFound
<1>2. call # Idle /\ Head(call.todo) = call.todo[1]
  BY <1>1, TodoFacts DEF IInv
<1>3. call = [pc |-> call.pc, q |-> call.q, told |-> call.told, plan |-> call.plan,
              todo |-> call.todo, moved |-> call.moved, polled |-> call.polled]
  BY <1>2, CallFacts DEF IInv
<1>4. c = [pc |-> call.pc, q |-> call.q, told |-> call.told, plan |-> call.plan,
           todo |-> todo, moved |-> call.moved, polled |-> call.polled]
  BY <1>3, CallParts
<1> HIDE DEF c, todo
<1>5. c.pc = "sending" /\ c.told = call.told /\ c.plan = call.plan
  BY <1>1, <1>4
<1>6. OneEffect(call)
  BY <1>2 DEF UpdatedInv
<1>7. ~Published(call.todo[1])
  BY <1>1, <1>2 DEF Published
<1>8. OneEffect(c)
  BY <1>1, <1>5, <1>6, <1>7 DEF OneEffect
<1> QED BY <1>1, <1>8 DEF UpdatedInv, Shown

\* Every step keeps the invariant, and an answer that says "updated" is shown.
LEMMA NextShows ==
    ASSUME IInv, UpdatedInv, [Next]_vars
    PROVE  UpdatedInv' /\ Shown
<1>1. CASE \E q \in Asked : CallNotTaken(q) \/ CallRefreshes(q) \/ CallResolves(q)
  <2>1. PICK q \in Asked : CallNotTaken(q) \/ CallRefreshes(q) \/ CallResolves(q)
    BY <1>1
  <2> DEFINE told == ToolOf(q, seen)
  <2>2. q.tool \in ControlTools \cup DestructiveTools /\ seen' = seen
    <3>1. Begin(q)
      BY <2>1 DEF CallNotTaken, CallRefreshes, CallResolves
    <3> QED BY <3>1, ModesAssumption DEF Begin, Offered, BuildControlTools, IInv, TypeOK
  <2>3. told.service \in Services /\ (told.runtime = "updated" => told.service \in Publishing)
    BY <2>2, ToolFacts
  <2>4. CASE CallNotTaken(q)
    <3>1. call' = Idle /\ last'.pc = "refused"
      BY <2>4 DEF CallNotTaken, Refused
    <3> QED BY <3>1, NoReply
  <2>5. CASE CallRefreshes(q)
    <3>1. call' = Under("refreshing", q, told, None, <<>>, FALSE) /\ last' = Idle
      BY <2>5 DEF CallRefreshes
    <3> HIDE DEF told
    <3>2. call'.pc = "refreshing" /\ call'.told = told /\ last'.pc = "idle"
      BY <3>1 DEF Under, Idle
    <3> QED BY <2>3, <3>2 DEF UpdatedInv, OneEffect, Shown
  <2>6. CASE CallResolves(q)
    <3>1. Resolve(q, told, FALSE)
      BY <2>6 DEF CallResolves
    <3> HIDE DEF told
    <3> QED BY <2>2, <2>3, <3>1, ResolveShows
  <2> QED BY <2>1, <2>4, <2>5, <2>6
<1>2. CASE RefreshReturns
  <2>1. /\ call.pc \in {"refreshing", "retrying"} /\ Resolve(call.q, call.told, TRUE)
        /\ seen' = seen
    BY <1>2 DEF RefreshReturns
  <2>2. call # Idle
    BY <2>1 DEF Idle
  <2>3. call.told.service \in Services
    BY <2>2, CallFacts DEF IInv
  <2>4. call.told.runtime = "updated" => call.told.service \in Publishing
    BY <2>2 DEF UpdatedInv, OneEffect
  <2> QED BY <2>1, <2>3, <2>4, ResolveShows
<1>3. CASE BoxTakes
  <2>1. call.pc = "sending" /\ call' = [call EXCEPT !.pc = "taken"] /\ last' = last
    BY <1>3 DEF BoxTakes
  <2>2. call # Idle
    BY <2>1 DEF Idle
  <2> QED BY <2>1, <2>2, PlanStands DEF IInv
<1>4. CASE \E r \in Rules, named \in BOOLEAN : BoxCreates(r, named)
  BY <1>4, CreateShows
<1>5. CASE AlarmFound
  BY <1>5, FindShows
<1>6. CASE \/ AlarmNotFound \/ RequestFails \/ AnswerLost \/ DeletionRaises
           \/ \E r \in Rules : CreateAnswerLost(r)
  <2>1. call' = Idle /\ last'.pc \in {"refused", "failed"}
    BY <1>6 DEF AlarmNotFound, RequestFails, AnswerLost, DeletionRaises, CreateAnswerLost,
                Fail, Refused
  <2> QED BY <2>1, NoReply
<1>7. CASE RequestReturns
  BY <1>7, ReturnShows
<1>8. CASE PollAnswered \/ PollFails \/ UNCHANGED vars
  <2>1. call' = call /\ last' = last
    BY <1>8 DEF PollAnswered, PollFails, vars
  <2> QED BY <2>1, PlanStands DEF IInv
<1>9. CASE PollPublished
  <2>1. /\ call' = call \/ (call # Idle /\ call' = [call EXCEPT !.polled = TRUE])
        /\ last' = last
    BY <1>9 DEF PollPublished
  <2> QED BY <2>1, PlanStands DEF IInv
<1>10. CASE \/ \E h \in Hosts, name \in Names : AppAddsHost(h, name)
            \/ \E r \in Rules, owner \in Hosts : AppAddsRule(r, owner)
            \/ \E e \in AppEffects : AppChanges(e)
  <2>1. AppMove
    BY <1>10 DEF AppAddsHost, AppAddsRule, AppChanges
  <2>2. /\ call' = call \/ (call # Idle /\ call' = [call EXCEPT !.moved = TRUE])
        /\ last' = Idle
    BY <2>1 DEF AppMove
  <2> QED BY <2>2, PlanStands DEF IInv
<1> QED BY <1>1, <1>2, <1>3, <1>4, <1>5, <1>6, <1>7, <1>8, <1>9, <1>10 DEF Next

\* When a tool says "updated", the next read of the view agrees with every effect its
\* service asked for, whatever was polled meanwhile: each service of such a tool asks
\* for one effect, and patches the view with it in the step that ends the call.
THEOREM UpdatedIsSeen == Spec => UpdatedViewAgrees
<1>1. Init => UpdatedInv
  BY DEF Init, UpdatedInv
<1>2. IInv /\ UpdatedInv /\ [Next]_vars => UpdatedInv' /\ [Shown]_vars
  BY NextShows
<1>3. Spec => []UpdatedInv
  BY <1>1, <1>2, ToolsInvariant, PTL DEF Spec
<1>4. [Shown]_vars <=>
         [last' # last /\ last'.pc = "replied" /\ call'.pc = "idle" =>
            (last'.runtime = "updated" /\ last'.plan.target # "unnamed" =>
              \A i \in DOMAIN last'.plan.ops : InEffect(last'.plan.ops[i], seen'))]_vars
  BY DEF Shown
<1> QED BY <1>2, <1>3, <1>4, ToolsInvariant, PTL DEF Spec, UpdatedViewAgrees

-----------------------------------------------------------------------------
(* What an answer calls applied.                                           *)

\* Neither of the marks in a claim.
Plain(x) == x # Target /\ x # Reported

\* A plan that does what the tool claims: nothing is skipped unless the service says
\* so, and what the answer claims is the last effect.
Meets(tool, claim, plan) ==
    \/ plan.ops = <<>> /\ plan.reported = "skipped"
    \/ /\ plan.ops # <<>>
       /\ \/ claim.do \in {"nothing", "create_rule"} \/ tool = "set_ssid_paused"
          \/ Filled(claim, plan) = Ending(plan.ops)
       /\ Ending(plan.ops).do = "delete_rule" => Len(plan.ops) = 1
       /\ \A i \in DOMAIN plan.ops : plan.ops[i].do = "create_rule" => claim.do = "create_rule"
       /\ claim.do = "create_rule" =>
             claim.on = Reported /\ Len(plan.ops) = 1 /\ plan.ops[1].do = "create_rule"

\* What a claim becomes in the answer.
LEMMA FilledFacts ==
    ASSUME NEW do, do # "create_rule", NEW x, NEW y, NEW ops, NEW target, NEW reported,
           NEW plan, plan = Plan(ops, target, reported)
    PROVE  /\ Plain(x) /\ Plain(y) => Filled(Effect(do, x, y), plan) = Effect(do, x, y)
           /\ Plain(y) => Filled(Effect(do, Target, y), plan) = Effect(do, target, y)
           /\ Filled(Effect(do, Target, Reported), plan) = Effect(do, target, reported)
<1>1. plan.target = target /\ plan.reported = reported
  BY DEF Plan
<1>2. \A a, b : /\ Effect(do, a, b).do = do /\ Effect(do, a, b).on = a
                /\ Effect(do, a, b).is = b
  BY DEF Effect
<1>3. ASSUME Plain(x), Plain(y) PROVE Filled(Effect(do, x, y), plan) = Effect(do, x, y)
  BY <1>1, <1>3 DEF Filled, Effect, Plain
<1>4. ASSUME Plain(y) PROVE Filled(Effect(do, Target, y), plan) = Effect(do, target, y)
  BY <1>1, <1>4, MarksAssumption DEF Filled, Effect, Plain
<1>5. Filled(Effect(do, Target, Reported), plan) = Effect(do, target, reported)
  BY <1>1, MarksAssumption DEF Filled, Effect
<1> QED BY <1>3, <1>4, <1>5

\* A plan of one effect.
LEMMA OneMeets ==
    ASSUME NEW tool, NEW claim, NEW do, NEW on, NEW is, NEW target, NEW reported,
           NEW plan, plan = Plan(<<Effect(do, on, is)>>, target, reported),
           (claim.do = "create_rule") <=> (do = "create_rule"),
           claim.do = "create_rule" => claim.on = Reported,
           \/ claim.do \in {"nothing", "create_rule"} \/ tool = "set_ssid_paused"
           \/ Filled(claim, plan) = Effect(do, on, is)
    PROVE  Meets(tool, claim, plan)
<1> DEFINE e == Effect(do, on, is)
           ops == <<e>>
<1>1. e.do = do
  BY DEF Effect
<1>2. /\ \/ claim.do \in {"nothing", "create_rule"} \/ tool = "set_ssid_paused"
         \/ Filled(claim, plan) = e
      /\ plan = Plan(ops, target, reported)
  OBVIOUS
<1> HIDE DEF e
<1>3. DOMAIN ops = 1..1 /\ ops[1] = e /\ Len(ops) = 1 /\ ops # <<>>
  OBVIOUS
<1> HIDE DEF ops
<1>4. plan.ops = ops
  BY <1>2, PlanFacts
<1>5. Ending(plan.ops) = e /\ plan.ops # <<>> /\ Len(plan.ops) = 1
  BY <1>3, <1>4 DEF Ending
<1>6. \A i \in DOMAIN plan.ops : plan.ops[i].do = do
  BY <1>1, <1>3, <1>4
<1>7. plan.ops[1].do = do
  BY <1>1, <1>3, <1>4
<1> QED BY <1>2, <1>5, <1>6, <1>7 DEF Meets

\* Nothing a caller may name is a mark.
LEMMA ArgsPlain ==
    ASSUME NEW q \in Asked
    PROVE  /\ \A f \in DOMAIN q.args : Plain(q.args[f]) /\ Plain(Fold(q.args[f]))
           /\ Plain(None) /\ Plain(All) /\ Plain(TRUE) /\ Plain(FALSE)
           /\ Plain(SilenceOf(q.args))
<1>1. \A f \in DOMAIN q.args : Plain(q.args[f]) /\ Plain(Fold(q.args[f]))
  BY MarksAssumption DEF Plain
<1>2. Plain(None) /\ Plain(All)
  BY MarksAssumption DEF Plain
<1>3. Plain(TRUE) /\ Plain(FALSE)
  BY MarksAssumption DEF Plain
<1>4. Plain(SilenceOf(q.args))
  BY <1>1, <1>2 DEF SilenceOf, ValueOf
<1> QED BY <1>1, <1>2, <1>3, <1>4

\* What a tool says it will do does not depend on the view, but for a rule that is
\* already in the state asked for.
LEMMA Tells ==
    ASSUME NEW q, q.tool \in ControlTools \cup DestructiveTools, NEW v,
           NEW told, told = ToolOf(q, v)
    PROVE  /\ told.service = Asking(q).service /\ told.data = Asking(q).data
           /\ \/ told.claim = Asking(q).claim
              \/ q.tool \in {"pause_rule", "resume_rule"} /\ told.claim = NoEffect
<1>1. CASE q.tool \notin {"pause_rule", "resume_rule"}
  <2>1. Asking(q) = told
    BY <1>1 DEF ToolOf, Asking, ControlTools, DestructiveTools
  <2> QED BY <2>1
<1>2. CASE q.tool = "pause_rule"
  <2> DEFINE w == [rules |-> <<>>]
             does == Effect("rule", q.args.rule_id, FALSE)
  <2>1. told = PauseRuleTool(q.args, v) /\ Asking(q) = PauseRuleTool(q.args, w)
    BY <1>2 DEF ToolOf, Asking
  <2>2. q.args.rule_id \notin DOMAIN w.rules
    OBVIOUS
  <2> HIDE DEF w, does
  <2> DEFINE said == IF q.args.rule_id \in DOMAIN v.rules /\ ~v.rules[q.args.rule_id].on
                     THEN NoEffect ELSE does
  <2>a. told.claim = said
    BY <2>1 DEF PauseRuleTool, Tool, does
  <2>3. told.claim = does \/ told.claim = NoEffect
    BY <2>a
  <2>4. Asking(q).claim = does
    BY <2>1, <2>2 DEF PauseRuleTool, Tool, does
  <2>5. told.service = Asking(q).service /\ told.data = Asking(q).data
    BY <2>1 DEF PauseRuleTool, Tool
  <2> QED BY <1>2, <2>3, <2>4, <2>5
<1>3. CASE q.tool = "resume_rule"
  <2> DEFINE w == [rules |-> <<>>]
             does == Effect("rule", q.args.rule_id, TRUE)
  <2>1. told = ResumeRuleTool(q.args, v) /\ Asking(q) = ResumeRuleTool(q.args, w)
    BY <1>3 DEF ToolOf, Asking
  <2>2. q.args.rule_id \notin DOMAIN w.rules
    OBVIOUS
  <2> HIDE DEF w, does
  <2> DEFINE said == IF q.args.rule_id \in DOMAIN v.rules /\ v.rules[q.args.rule_id].on
                     THEN NoEffect ELSE does
  <2>a. told.claim = said
    BY <2>1 DEF ResumeRuleTool, Tool, does
  <2>3. told.claim = does \/ told.claim = NoEffect
    BY <2>a
  <2>4. Asking(q).claim = does
    BY <2>1, <2>2 DEF ResumeRuleTool, Tool, does
  <2>5. told.service = Asking(q).service /\ told.data = Asking(q).data
    BY <2>1 DEF ResumeRuleTool, Tool
  <2> QED BY <1>3, <2>3, <2>4, <2>5
<1> QED BY <1>1, <1>2, <1>3

\* One effect that is claimed as it is, or of the host the service resolved, or not at all.
LEMMA PlainMeets ==
    ASSUME NEW tool, NEW do, do # "create_rule", NEW x, Plain(x), NEW y, Plain(y),
           NEW claim, claim = Effect(do, x, y), NEW target, NEW reported,
           NEW plan, plan = Plan(<<Effect(do, x, y)>>, target, reported)
    PROVE  Meets(tool, claim, plan)
<1> DEFINE ops == <<Effect(do, x, y)>>
<1>a. plan = Plan(ops, target, reported)
  OBVIOUS
<1>1. Filled(claim, plan) = Effect(do, x, y)
  <2> HIDE DEF ops
  <2>1. Plain(x) /\ Plain(y) => Filled(Effect(do, x, y), plan) = Effect(do, x, y)
    BY ONLY <1>a, do # "create_rule", FilledFacts
  <2> QED BY <2>1
<1>2. claim.do = do
  BY DEF Effect
<1> QED BY <1>1, <1>2, OneMeets

LEMMA TargetMeets ==
    ASSUME NEW tool, NEW do, do # "create_rule", NEW y, Plain(y),
           NEW claim, claim = Effect(do, Target, y), NEW h, NEW reported,
           NEW plan, plan = Plan(<<Effect(do, h, y)>>, h, reported)
    PROVE  Meets(tool, claim, plan)
<1> DEFINE ops == <<Effect(do, h, y)>>
<1>a. plan = Plan(ops, h, reported)
  OBVIOUS
<1>1. Filled(claim, plan) = Effect(do, h, y)
  <2> HIDE DEF ops
  <2> QED BY <1>a, FilledFacts
<1>2. claim.do = do
  BY DEF Effect
<1> QED BY <1>1, <1>2, OneMeets

LEMMA NothingMeets ==
    ASSUME NEW tool, NEW do, do # "create_rule", NEW x, NEW y, NEW target, NEW reported,
           NEW claim, claim = NoEffect,
           NEW plan, plan = Plan(<<Effect(do, x, y)>>, target, reported)
    PROVE  Meets(tool, claim, plan)
<1>1. claim.do = "nothing"
  BY DEF NoEffect, Effect
<1> QED BY <1>1, OneMeets

\* The tools of rules and of the SSID claim what their services plan.
LEMMA RuleToolsMeet ==
    ASSUME NEW q \in Asked, Fits(q.args, ParametersOf(q.tool)),
           q.tool \in {"pause_rule", "resume_rule", "set_ssid_paused",
                       "block_alarm_target",
                       "unblock_alarm_target", "delete_rule"},
           NEW v, NEW claim,
           \/ claim = Asking(q).claim
           \/ q.tool \in {"pause_rule", "resume_rule"} /\ claim = NoEffect,
           NEW plan, plan = Handle(Asking(q).service, Asking(q).data, v), IsPlan(plan)
    PROVE  Meets(q.tool, claim, plan)
<1> DEFINE a == q.args
<1>1. /\ \A f \in DOMAIN a : Plain(a[f]) /\ Plain(Fold(a[f]))
      /\ Plain(None) /\ Plain(All) /\ Plain(TRUE) /\ Plain(FALSE)
      /\ Plain(SilenceOf(a))
  BY ArgsPlain
<1>2. CASE q.tool = "pause_rule"
  <2> DEFINE w == [rules |-> <<>>]
  <2>1. Asking(q) = PauseRuleTool(a, w)
    BY <1>2 DEF Asking, ToolOf
  <2>2. plan = HandlePauseRule(a, v)
    BY <2>1 DEF PauseRuleTool, Tool, Handle
  <2>3. "rule_id" \in DOMAIN a
    BY <1>2 DEF Fits, ParametersOf, Schema, PauseRuleSchema
  <2>4. a.rule_id \notin DOMAIN w.rules
    OBVIOUS
  <2> HIDE DEF w
  <2>5. Asking(q).claim = Effect("rule", a.rule_id, FALSE)
    BY <2>1, <2>4 DEF PauseRuleTool, Tool
  <2>6. plan = Plan(<<Effect("rule", a.rule_id, FALSE)>>, None, None)
    BY <2>2, PausePlan
  <2> QED BY <1>1, <2>3, <2>5, <2>6, PlainMeets, NothingMeets
<1>3. CASE q.tool = "resume_rule"
  <2> DEFINE w == [rules |-> <<>>]
  <2>1. Asking(q) = ResumeRuleTool(a, w)
    BY <1>3 DEF Asking, ToolOf
  <2>2. plan = HandleResumeRule(a, v)
    BY <2>1 DEF ResumeRuleTool, Tool, Handle
  <2>3. "rule_id" \in DOMAIN a
    BY <1>3 DEF Fits, ParametersOf, Schema, ResumeRuleSchema
  <2>4. a.rule_id \notin DOMAIN w.rules
    OBVIOUS
  <2> HIDE DEF w
  <2>5. Asking(q).claim = Effect("rule", a.rule_id, TRUE)
    BY <2>1, <2>4 DEF ResumeRuleTool, Tool
  <2>6. plan = Plan(<<Effect("rule", a.rule_id, TRUE)>>, None, None)
    BY <2>2, ResumePlan
  <2> QED BY <1>1, <2>3, <2>5, <2>6, PlainMeets, NothingMeets
<1>4. CASE q.tool = "set_ssid_paused"
  <2>1. Asking(q) = SetSsidPausedTool(a)
    BY <1>4 DEF Asking, ToolOf
  <2>2. plan = HandleSetSsidPaused(a)
    BY <2>1 DEF SetSsidPausedTool, Tool, Handle
  <2>3. claim.do = "ssid"
    BY <1>4, <2>1 DEF SetSsidPausedTool, Tool, Effect
  <2>4. PICK paused : plan = Plan(<<Effect("ssid", Ssid, paused)>>, None, None)
    BY <2>2, SsidPlan
  <2> QED BY <1>4, <2>3, <2>4, OneMeets
<1>5. CASE q.tool = "block_alarm_target"
  <2>1. Asking(q) = BlockAlarmTargetTool(a)
    BY <1>5 DEF Asking, ToolOf
  <2>2. plan = HandleCreateRule(a, v)
    BY <2>1 DEF BlockAlarmTargetTool, Tool, Handle
  <2>3. claim.do = "create_rule" /\ claim.on = Reported
    BY <1>5, <2>1 DEF BlockAlarmTargetTool, Tool, Effect
  <2>4. PICK owner : plan = Plan(<<Effect("create_rule", NewRule, owner)>>, None, None)
    BY <2>2, CreatePlan
  <2> QED BY <2>3, <2>4, OneMeets
<1>6. CASE q.tool = "unblock_alarm_target"
  <2> DEFINE d == With(a, "confirm", TRUE)
  <2>1. Asking(q) = UnblockAlarmTargetTool(a)
    BY <1>6 DEF Asking, ToolOf
  <2>2. plan = HandleDeleteRule(d, v)
    BY <2>1 DEF UnblockAlarmTargetTool, Tool, Handle
  <2>3. "rule_id" \in DOMAIN a
    BY <1>6 DEF Fits, ParametersOf, Schema
  <2>4. d.rule_id = a.rule_id
    BY <2>3 DEF With
  <2> HIDE DEF d
  <2>5. claim = Effect("delete_rule", a.rule_id, None)
    BY <1>6, <2>1 DEF UnblockAlarmTargetTool, Tool
  <2>6. plan = Plan(<<Effect("delete_rule", a.rule_id, None)>>, None, None)
    BY <2>2, <2>4, DeleteRulePlan
  <2> QED BY <1>1, <2>3, <2>5, <2>6, PlainMeets
<1>7. CASE q.tool = "delete_rule"
  <2>1. Asking(q) = DeleteRuleTool(a)
    BY <1>7 DEF Asking, ToolOf
  <2>2. plan = HandleDeleteRule(a, v)
    BY <2>1 DEF DeleteRuleTool, Tool, Handle
  <2>3. "rule_id" \in DOMAIN a
    BY <1>7 DEF Fits, ParametersOf, Schema, DeleteRuleSchema
  <2>4. claim = Effect("delete_rule", a.rule_id, None)
    BY <1>7, <2>1 DEF DeleteRuleTool, Tool
  <2>5. plan = Plan(<<Effect("delete_rule", a.rule_id, None)>>, None, None)
    BY <2>2, DeleteRulePlan
  <2> QED BY <1>1, <2>3, <2>4, <2>5, PlainMeets
<1> QED BY <1>2, <1>3, <1>4, <1>5, <1>6, <1>7

LEMMA ReportedMeets ==
    ASSUME NEW tool, NEW do, do # "create_rule", NEW x,
           NEW claim, claim = Effect(do, Target, Reported), NEW h,
           NEW plan, plan = Plan(<<Effect(do, h, x)>>, h, x)
    PROVE  Meets(tool, claim, plan)
<1> DEFINE ops == <<Effect(do, h, x)>>
<1>1. plan = Plan(ops, h, x)
  OBVIOUS
<1>2. Filled(claim, plan) = Effect(do, h, x)
  <2> HIDE DEF ops
  <2> QED BY <1>1, FilledFacts
<1>3. claim.do = do
  BY DEF Effect
<1> QED BY <1>2, <1>3, OneMeets

\* The tools of a host claim what their services plan.
LEMMA HostToolsMeet ==
    ASSUME NEW q \in Asked, Fits(q.args, ParametersOf(q.tool)),
           q.tool \in {"set_host_name", "set_host_dns_hostname", "set_host_device_type",
                       "set_host_notify_when_next_online",
                       "set_host_notify_when_next_offline",
                       "set_host_dhcp_reservation", "wake_host"},
           NEW v, NEW claim,
           \/ claim = Asking(q).claim
           \/ q.tool \in {"pause_rule", "resume_rule"} /\ claim = NoEffect,
           NEW plan, plan = Handle(Asking(q).service, Asking(q).data, v), IsPlan(plan)
    PROVE  Meets(q.tool, claim, plan)
<1> DEFINE a == q.args
<1>1. /\ \A f \in DOMAIN a : Plain(a[f]) /\ Plain(Fold(a[f]))
      /\ Plain(None) /\ Plain(All) /\ Plain(TRUE) /\ Plain(FALSE)
      /\ Plain(SilenceOf(a))
  BY ArgsPlain
<1>2. CASE q.tool = "set_host_name"
  <2>1. Asking(q) = SetHostNameTool(a)
    BY <1>2 DEF Asking, ToolOf
  <2>2. plan = HandleHostStringMutation(a, v, "name", "new_name")
    BY <2>1 DEF SetHostNameTool, Tool, Handle, HandleSetHostName
  <2>3. "new_name" \in DOMAIN a
    BY <1>2 DEF Fits, ParametersOf, Schema
  <2>4. claim = Effect("name", Target, a.new_name)
    BY <1>2, <2>1 DEF SetHostNameTool, Tool
  <2>5. PICK h : plan = Plan(<<Effect("name", h, a["new_name"])>>, h, None)
    BY <2>2, StringPlans
  <2> QED BY <1>1, <2>3, <2>4, <2>5, TargetMeets
<1>3. CASE q.tool = "set_host_dns_hostname"
  <2>1. Asking(q) = SetHostDnsHostnameTool(a)
    BY <1>3 DEF Asking, ToolOf
  <2>2. plan = HandleHostStringMutation(a, v, "dns", "dns_hostname")
    BY <2>1 DEF SetHostDnsHostnameTool, Tool, Handle, HandleSetHostDnsHostname
  <2>3. "dns_hostname" \in DOMAIN a
    BY <1>3 DEF Fits, ParametersOf, Schema
  <2>4. claim = Effect("dns", Target, a.dns_hostname)
    BY <1>3, <2>1 DEF SetHostDnsHostnameTool, Tool
  <2>5. PICK h : plan = Plan(<<Effect("dns", h, a["dns_hostname"])>>, h, None)
    BY <2>2, StringPlans
  <2> QED BY <1>1, <2>3, <2>4, <2>5, TargetMeets
<1>4. CASE q.tool = "set_host_device_type"
  <2>1. Asking(q) = SetHostDeviceTypeTool(a)
    BY <1>4 DEF Asking, ToolOf
  <2>2. plan = HandleHostStringMutation(a, v, "type", "host_device_type")
    BY <2>1 DEF SetHostDeviceTypeTool, Tool, Handle, HandleSetHostDeviceType
  <2>3. "host_device_type" \in DOMAIN a
    BY <1>4 DEF Fits, ParametersOf, Schema
  <2>4. claim = Effect("type", Target, a.host_device_type)
    BY <1>4, <2>1 DEF SetHostDeviceTypeTool, Tool
  <2>5. PICK h : plan = Plan(<<Effect("type", h, a["host_device_type"])>>, h, None)
    BY <2>2, StringPlans
  <2> QED BY <1>1, <2>3, <2>4, <2>5, TargetMeets
<1>5. CASE q.tool = "set_host_notify_when_next_online"
  <2>1. Asking(q) = SetHostNotifyWhenNextOnlineTool(a)
    BY <1>5 DEF Asking, ToolOf
  <2>2. plan = HandleSetHostNotification(a, v, "online")
    BY <2>1 DEF SetHostNotifyWhenNextOnlineTool, SetHostNotifyTool, Tool, Handle
  <2>3. "enabled" \in DOMAIN a
    BY <1>5 DEF Fits, ParametersOf, Schema
  <2>4. claim = Effect("online", Target, a.enabled)
    BY <1>5, <2>1 DEF SetHostNotifyWhenNextOnlineTool, SetHostNotifyTool, Tool
  <2>5. PICK h : plan = Plan(<<Effect("online", h, a.enabled)>>, h, None)
    BY <2>2, NotificationPlans
  <2> QED BY <1>1, <2>3, <2>4, <2>5, TargetMeets
<1>6. CASE q.tool = "set_host_notify_when_next_offline"
  <2>1. Asking(q) = SetHostNotifyWhenNextOfflineTool(a)
    BY <1>6 DEF Asking, ToolOf
  <2>2. plan = HandleSetHostNotification(a, v, "offline")
    BY <2>1 DEF SetHostNotifyWhenNextOfflineTool, SetHostNotifyTool, Tool, Handle
  <2>3. "enabled" \in DOMAIN a
    BY <1>6 DEF Fits, ParametersOf, Schema
  <2>4. claim = Effect("offline", Target, a.enabled)
    BY <1>6, <2>1 DEF SetHostNotifyWhenNextOfflineTool, SetHostNotifyTool, Tool
  <2>5. PICK h : plan = Plan(<<Effect("offline", h, a.enabled)>>, h, None)
    BY <2>2, NotificationPlans
  <2> QED BY <1>1, <2>3, <2>4, <2>5, TargetMeets
<1>7. CASE q.tool = "set_host_dhcp_reservation"
  <2>1. Asking(q) = SetHostDhcpReservationTool(a)
    BY <1>7 DEF Asking, ToolOf
  <2>2. plan = HandleSetHostDhcpReservation(a, v)
    BY <2>1 DEF SetHostDhcpReservationTool, Tool, Handle
  <2>3. claim = Effect("ip", Target, Reported)
    BY <1>7, <2>1 DEF SetHostDhcpReservationTool, Tool
  <2>4. PICK h, x : plan = Plan(<<Effect("ip", h, x)>>, h, x)
    BY <2>2, ReservationPlans
  <2> QED BY <2>3, <2>4, ReportedMeets
<1>8. CASE q.tool = "wake_host"
  <2>1. Asking(q) = WakeHostTool(a)
    BY <1>8 DEF Asking, ToolOf
  <2>2. plan = HandleWakeHost(a, v)
    BY <2>1 DEF WakeHostTool, Tool, Handle
  <2>3. claim = NoEffect
    BY <2>1 DEF WakeHostTool, Tool
  <2>4. PICK h : plan = Plan(<<Effect("wake", h, None)>>, h, None)
    BY <2>2, WakePlans
  <2> QED BY <2>3, <2>4, NothingMeets
<1> QED BY <1>2, <1>3, <1>4, <1>5, <1>6, <1>7, <1>8

\* A tool of memberships claims the tags that are written last.
LEMMA MembershipToolsMeet ==
    ASSUME NEW q \in Asked,
           q.tool \in {"set_host_group", "clear_host_group", "set_host_user", "clear_host_user"},
           NEW v, IsFiniteSet(DOMAIN v.rules), NEW claim, claim = Asking(q).claim,
           NEW plan, plan = Handle(Asking(q).service, Asking(q).data, v), IsPlan(plan)
    PROVE  Meets(q.tool, claim, plan)
<1>1. PICK d, undo : Asking(q) = SetHostMembershipTool(d, undo)
  BY DEF Asking, ToolOf, SetHostGroupTool, ClearHostGroupTool, SetHostUserTool,
         ClearHostUserTool
<1>2. plan = HandleSetHostMembership(d, v) /\ claim = Effect("tag", Target, Reported)
  BY <1>1 DEF SetHostMembershipTool, Tool, Handle
<1>3. /\ \A i \in DOMAIN plan.ops : plan.ops[i].do \in {"delete_rule", "tag"}
      /\ plan.ops # <<>>
      /\ plan.ops[Len(plan.ops)] = Effect("tag", plan.target, plan.reported)
  BY <1>2, MembershipFacts
<1>4. Filled(claim, plan) = Effect("tag", plan.target, plan.reported) /\ claim.do = "tag"
  BY <1>2, MarksAssumption DEF Filled, Effect
<1>5. Ending(plan.ops) = Filled(claim, plan) /\ Ending(plan.ops).do = "tag"
  BY <1>3, <1>4 DEF Ending, Effect
<1> QED BY <1>3, <1>4, <1>5 DEF Meets

\* The one field of an alarm set that is supplied.
LEMMA AlarmSetFacts ==
    ASSUME NEW d, NEW f, DOMAIN d \cap {"alarm_id", "alarm_status"} = {f}
    PROVE  SelectAlarmSet(d).field = f /\ SelectAlarmSet(d).value = d[f]
<1> DEFINE S == {f}
<1>1. Cardinality(S) = 1
  BY FS_Singleton
<1>2. TheOnly(S) = f
  BY <1>1, TheOnlyIsOne
<1>3. SelectAlarmSet(d) = [field |-> f, value |-> d[f]]
  BY <1>1, <1>2 DEF SelectAlarmSet, SelectExclusive, Supplied
<1> QED BY <1>3

\* An alarm that is looked for is then muted.
LEMMA MuteMeets ==
    ASSUME NEW tool, NEW x, NEW claim, claim = Effect("mute", x, TRUE), Plain(x), Plain(TRUE),
           NEW find, find.do = "find_alarm", NEW mute, mute = Effect("mute", x, TRUE),
           NEW plan, plan = Plan(<<find, mute>>, None, None)
    PROVE  Meets(tool, claim, plan)
<1> DEFINE ops == <<find, mute>>
<1>1. mute.do = "mute" /\ claim.do = "mute"
  BY DEF Effect
<1>2. plan = Plan(ops, None, None)
  OBVIOUS
<1>3. DOMAIN ops = 1..2 /\ Len(ops) = 2 /\ ops[1] = find /\ ops[2] = mute
  BY <1>1, FindThenMute
<1> HIDE DEF ops
<1>4. plan.ops = ops
  BY ONLY <1>2, PlanFacts
<1>5. Filled(claim, plan) = mute
  <2> DEFINE y == TRUE
  <2>1. Plain(y) /\ claim = Effect("mute", x, y) /\ mute = Effect("mute", x, y)
    OBVIOUS
  <2> HIDE DEF y
  <2>2. Plain(x) /\ Plain(y) => Filled(Effect("mute", x, y), plan) = Effect("mute", x, y)
    BY ONLY <1>2, FilledFacts
  <2> QED BY <2>1, <2>2
<1>6. Ending(ops) = mute /\ ops # <<>>
  BY <1>3 DEF Ending
<1>7. \A i \in DOMAIN ops : ops[i].do \in {"find_alarm", "mute"}
  BY ONLY <1>1, <1>3, find.do = "find_alarm"
<1>8. /\ plan.ops # <<>> /\ Filled(claim, plan) = Ending(plan.ops)
      /\ Ending(plan.ops).do # "delete_rule"
  BY <1>1, <1>4, <1>5, <1>6
<1>9. \A i \in DOMAIN plan.ops : plan.ops[i].do # "create_rule"
  BY <1>4, <1>7
<1>10. claim.do # "create_rule"
  BY <1>1
<1> QED BY ONLY <1>8, <1>9, <1>10 DEF Meets

\* The tools of alarms, of hosts that are deleted and of the speed test.
LEMMA AlarmToolsMeet ==
    ASSUME NEW q \in Asked, Fits(q.args, ParametersOf(q.tool)),
           q.tool \in {"mute_alarm", "unmute_alarm", "archive_alarm", "delete_alarm",
                       "delete_all_alarms", "archive_all_alarms",
                       "delete_host", "run_internet_speed_test"},
           NEW v, NEW claim,
           \/ claim = Asking(q).claim
           \/ q.tool \in {"pause_rule", "resume_rule"} /\ claim = NoEffect,
           NEW plan, plan = Handle(Asking(q).service, Asking(q).data, v), IsPlan(plan)
    PROVE  Meets(q.tool, claim, plan)
<1> DEFINE a == q.args
<1>1. /\ \A f \in DOMAIN a : Plain(a[f]) /\ Plain(Fold(a[f]))
      /\ Plain(None) /\ Plain(All) /\ Plain(TRUE) /\ Plain(FALSE)
      /\ Plain(SilenceOf(a))
  BY ArgsPlain
<1>2. CASE q.tool = "mute_alarm"
  <2> DEFINE x == SilenceOf(a)
             mute == Effect("mute", x, TRUE)
             find == Effect("find_alarm", ValueOf(a, "alarm_id"), None)
  <2>1. Asking(q) = SetAlarmMutedTool(a)
    BY <1>2 DEF Asking, ToolOf
  <2>2. plan = HandleMuteAlarm(a, v)
    BY <2>1 DEF SetAlarmMutedTool, Tool, Handle
  <2>3. claim = mute
    BY <1>2, <2>1 DEF SetAlarmMutedTool, Tool
  <2>4. plan = Plan(<<mute>>, None, None) \/ plan = Plan(<<find, mute>>, None, None)
    BY <2>2, MutePlan
  <2>5. Plain(x) /\ Plain(TRUE) /\ find.do = "find_alarm"
    BY <1>1 DEF Effect
  <2> HIDE DEF find, x
  <2>6. CASE plan = Plan(<<mute>>, None, None)
    BY <2>3, <2>5, <2>6, PlainMeets
  <2>7. CASE plan = Plan(<<find, mute>>, None, None)
    BY <2>3, <2>5, <2>7, MuteMeets
  <2> QED BY <2>4, <2>6, <2>7
<1>3. CASE q.tool = "unmute_alarm"
  <2> DEFINE x == SilenceOf(a)
  <2>1. Asking(q) = UnmuteAlarmTool(a)
    BY <1>3 DEF Asking, ToolOf
  <2>2. plan = HandleUnmuteAlarm(a)
    BY <2>1 DEF UnmuteAlarmTool, Tool, Handle
  <2>3. claim = Effect("unmute", x, FALSE)
    BY <1>3, <2>1 DEF UnmuteAlarmTool, Tool
  <2>4. plan = Plan(<<Effect("unmute", x, FALSE)>>, None, None)
    BY <2>2, UnmutePlan
  <2>5. Plain(x) /\ Plain(FALSE)
    BY <1>1
  <2> HIDE DEF x
  <2> QED BY <2>3, <2>4, <2>5, PlainMeets
<1>4. CASE q.tool = "archive_alarm"
  <2> DEFINE x == a.alarm_id
  <2>1. Asking(q) = ArchiveAlarmTool(a)
    BY <1>4 DEF Asking, ToolOf
  <2>2. plan = HandleArchiveAlarms(a)
    BY <2>1 DEF ArchiveAlarmTool, Tool, Handle
  <2>3. claim = Effect("archive", x, None)
    BY <1>4, <2>1 DEF ArchiveAlarmTool, Tool
  <2>4. DOMAIN a \cap {"alarm_id", "alarm_status"} = {"alarm_id"}
    BY <1>4 DEF Fits, ParametersOf, Schema
  <2>5. SelectAlarmSet(a).field = "alarm_id" /\ SelectAlarmSet(a).value = x
    BY <2>4, AlarmSetFacts
  <2>8. Plain(x) /\ Plain(None)
    BY <1>1, <2>4
  <2>6. PICK on : /\ plan = Plan(<<Effect("archive", on, None)>>, None, None)
                  /\ on = IF SelectAlarmSet(a).field = "alarm_id" THEN SelectAlarmSet(a).value
                          ELSE All
    BY <2>2, ArchivePlan
  <2>7. on = x
    BY <2>5, <2>6
  <2> HIDE DEF x
  <2> QED BY <1>1, <2>3, <2>6, <2>7, <2>8, PlainMeets
<1>5. CASE q.tool = "delete_alarm"
  <2> DEFINE x == a.alarm_id
  <2>1. Asking(q) = DeleteAlarmTool(a)
    BY <1>5 DEF Asking, ToolOf
  <2>2. plan = HandleDeleteAlarms(a)
    BY <2>1 DEF DeleteAlarmTool, Tool, Handle
  <2>3. claim = Effect("delete_alarm", x, None)
    BY <1>5, <2>1 DEF DeleteAlarmTool, Tool
  <2>4. DOMAIN a \cap {"alarm_id", "alarm_status"} = {"alarm_id"}
    BY <1>5 DEF Fits, ParametersOf, Schema
  <2>5. SelectAlarmSet(a).field = "alarm_id" /\ SelectAlarmSet(a).value = x
    BY <2>4, AlarmSetFacts
  <2>8. Plain(x) /\ Plain(None)
    BY <1>1, <2>4
  <2>6. plan = Plan(<<Effect("delete_alarm", SelectAlarmSet(a).value, None)>>, None, None)
    BY <2>2, DeleteAlarmsPlan
  <2>7. SelectAlarmSet(a).value = x
    BY <2>5
  <2> HIDE DEF x
  <2> QED BY <1>1, <2>3, <2>6, <2>7, <2>8, PlainMeets
<1>6. CASE q.tool = "delete_all_alarms"
  <2> DEFINE x == a.alarm_status
  <2>1. Asking(q) = DeleteAlarmsTool(a)
    BY <1>6 DEF Asking, ToolOf
  <2>2. plan = HandleDeleteAlarms(a)
    BY <2>1 DEF DeleteAlarmsTool, Tool, Handle
  <2>3. claim = Effect("delete_alarm", x, None)
    BY <1>6, <2>1 DEF DeleteAlarmsTool, Tool
  <2>4. DOMAIN a \cap {"alarm_id", "alarm_status"} = {"alarm_status"}
    BY <1>6 DEF Fits, ParametersOf, Schema
  <2>5. SelectAlarmSet(a).field = "alarm_status" /\ SelectAlarmSet(a).value = x
    BY <2>4, AlarmSetFacts
  <2>8. Plain(x) /\ Plain(None)
    BY <1>1, <2>4
  <2>6. plan = Plan(<<Effect("delete_alarm", SelectAlarmSet(a).value, None)>>, None, None)
    BY <2>2, DeleteAlarmsPlan
  <2>7. SelectAlarmSet(a).value = x
    BY <2>5
  <2> HIDE DEF x
  <2> QED BY <1>1, <2>3, <2>6, <2>7, <2>8, PlainMeets
<1>7. CASE q.tool = "archive_all_alarms"
  <2> DEFINE d == [alarm_status |-> "active"]
  <2>1. Asking(q) = ArchiveAllAlarmsTool
    BY <1>7 DEF Asking, ToolOf
  <2>2. plan = HandleArchiveAlarms(d)
    BY <2>1 DEF ArchiveAllAlarmsTool, Tool, Handle
  <2>3. claim = Effect("archive", All, None)
    BY <1>7, <2>1 DEF ArchiveAllAlarmsTool, Tool
  <2>4. DOMAIN d \cap {"alarm_id", "alarm_status"} = {"alarm_status"}
    OBVIOUS
  <2> HIDE DEF d
  <2>5. SelectAlarmSet(d).field = "alarm_status"
    BY <2>4, AlarmSetFacts
  <2>6. plan = Plan(<<Effect("archive", All, None)>>, None, None)
    BY <2>2, <2>5, ArchivePlan
  <2> QED BY <1>1, <2>3, <2>6, PlainMeets
<1>8. CASE q.tool = "delete_host"
  <2> DEFINE h == Fold(a.host_mac)
  <2>1. Asking(q) = DeleteHostTool(a)
    BY <1>8 DEF Asking, ToolOf
  <2>2. plan = HandleDeleteHost(a, v)
    BY <2>1 DEF DeleteHostTool, Tool, Handle
  <2>3. "host_mac" \in DOMAIN a
    BY <1>8 DEF Fits, ParametersOf, Schema
  <2>4. claim = Effect("delete_host", h, None)
    BY <1>8, <2>1 DEF DeleteHostTool, Tool
  <2>5. \/ plan = Plan(<<>>, None, "skipped")
        \/ plan = Plan(<<Effect("delete_host", h, None)>>, h, None)
    BY <2>2, DeleteHostPlan
  <2>6. Plain(h)
    BY <1>1, <2>3
  <2> HIDE DEF h
  <2>7. CASE plan = Plan(<<>>, None, "skipped")
    BY <2>7 DEF Meets, Plan
  <2>8. CASE plan = Plan(<<Effect("delete_host", h, None)>>, h, None)
    BY <1>1, <2>4, <2>6, <2>8, PlainMeets
  <2> QED BY <2>5, <2>7, <2>8
<1>9. CASE q.tool = "run_internet_speed_test"
  <2>1. Asking(q) = RunInternetSpeedTestTool(a)
    BY <1>9 DEF Asking, ToolOf
  <2>2. plan = HandleRunInternetSpeedTest(a, v)
    BY <2>1 DEF RunInternetSpeedTestTool, Tool, Handle
  <2>3. claim = NoEffect
    BY <2>1 DEF RunInternetSpeedTestTool, Tool
  <2>4. PICK x : plan = Plan(<<Effect("speed_test", x, None)>>, None, None)
    BY <2>2, SpeedTestPlan
  <2> QED BY <2>3, <2>4, NothingMeets
<1> QED BY <1>2, <1>3, <1>4, <1>5, <1>6, <1>7, <1>8, <1>9

\* Whatever a tool is asked, its service plans what the tool claims.
LEMMA ToolsMeet ==
    ASSUME NEW q \in Asked, q.tool \in ControlTools \cup DestructiveTools,
           Fits(q.args, ParametersOf(q.tool)),
           NEW v, IsFiniteSet(DOMAIN v.rules), NEW claim,
           \/ claim = Asking(q).claim
           \/ q.tool \in {"pause_rule", "resume_rule"} /\ claim = NoEffect,
           NEW plan, plan = Handle(Asking(q).service, Asking(q).data, v), IsPlan(plan)
    PROVE  Meets(q.tool, claim, plan)
<1>1. CASE q.tool \in {"pause_rule", "resume_rule", "set_ssid_paused", "block_alarm_target",
                       "unblock_alarm_target", "delete_rule"}
  BY <1>1, RuleToolsMeet
<1>2. CASE q.tool \in {"set_host_name", "set_host_dns_hostname", "set_host_device_type",
                       "set_host_notify_when_next_online",
                       "set_host_notify_when_next_offline", "set_host_dhcp_reservation",
                       "wake_host"}
  BY <1>2, HostToolsMeet
<1>3. CASE q.tool \in {"set_host_group", "clear_host_group", "set_host_user",
                       "clear_host_user"}
  BY <1>3, MembershipToolsMeet
<1>4. CASE q.tool \in {"mute_alarm", "unmute_alarm", "archive_alarm", "delete_alarm",
                       "delete_all_alarms", "archive_all_alarms", "delete_host",
                       "run_internet_speed_test"}
  BY <1>4, AlarmToolsMeet
<1> QED BY <1>1, <1>2, <1>3, <1>4 DEF ControlTools, DestructiveTools

\* What is left of a plan ends as the plan does, unless that deletes a rule the view no
\* longer lists.
LEMMA EndingRemains ==
    ASSUME NEW v, NEW ops, ops \in Seq(Range(ops)), ops # <<>>,
           Ending(ops).do = "delete_rule" => Ending(ops).on \in DOMAIN v.rules,
           NEW left, left = Remaining(ops, v)
    PROVE  /\ left # <<>> /\ Ending(left) = Ending(ops)
           /\ Len(ops) = 1 => Len(left) = 1 /\ left[1] = ops[1]
           /\ \A i \in DOMAIN left : \E j \in DOMAIN ops : left[i] = ops[j]
<1>1. PICK k \in 0..Len(ops) :
              /\ left \in Seq(Range(left)) /\ Len(left) = Len(ops) - k
              /\ \A i \in DOMAIN left : left[i] = ops[k + i]
              /\ \A i \in 1..k : ops[i].do = "delete_rule" /\ ops[i].on \notin DOMAIN v.rules
  BY RemainingFacts
<1> HIDE DEF Range
<1>2. Len(ops) \in Nat \ {0} /\ DOMAIN ops = 1..Len(ops) /\ DOMAIN left = 1..Len(left)
  BY <1>1
<1>3. k # Len(ops)
  <2>1. ASSUME k = Len(ops) PROVE FALSE
    <3>1. Len(ops) \in 1..k
      BY <1>2, <2>1
    <3>2. ops[Len(ops)].do = "delete_rule" /\ ops[Len(ops)].on \notin DOMAIN v.rules
      BY <1>1, <3>1
    <3> QED BY <3>2 DEF Ending
  <2> QED BY <2>1
<1>4. Len(left) \in DOMAIN left /\ k + Len(left) = Len(ops)
  BY <1>1, <1>2, <1>3
<1>5. left # <<>> /\ Ending(left) = Ending(ops)
  BY <1>1, <1>4 DEF Ending
<1>6. ASSUME Len(ops) = 1 PROVE Len(left) = 1 /\ left[1] = ops[1]
  <2>1. k = 0
    BY <1>1, <1>3, <1>6
  <2>2. Len(left) = 1 /\ 1 \in DOMAIN left /\ k + 1 = 1
    BY <1>1, <1>2, <1>6, <2>1
  <2> QED BY <1>1, <2>2
<1>7. \A i \in DOMAIN left : k + i \in DOMAIN ops /\ left[i] = ops[k + i]
  BY <1>1, <1>2
<1> QED BY <1>5, <1>6, <1>7

\* A plan that does what the tool claims, at the first of its requests.
LEMMA MeetsBacked ==
    ASSUME NEW c, NEW v, NEW service, Sound(c.plan, service, v), c.pc = "sending",
           Meets(c.q.tool, c.told.claim, c.plan), c.todo = Remaining(c.plan.ops, v)
    PROVE  /\ c.todo = <<>> => c.plan.reported = "skipped"
           /\ c.todo # <<>> => Backed(Filled(c.told.claim, c.plan), c)
<1> DEFINE ops == c.plan.ops
           todo == c.todo
           claim == Filled(c.told.claim, c.plan)
<1>1. /\ ops \in Seq(Range(ops)) /\ todo = Remaining(ops, v)
      /\ \A i \in DOMAIN ops : ops[i].do = "delete_rule" => ops[i].on \in DOMAIN v.rules
  BY DEF Sound, Doable
<1>2. claim.do = c.told.claim.do
  BY DEF Filled
<1> HIDE DEF claim
<1>3. CASE ops = <<>>
  <2>1. c.plan.reported = "skipped"
    BY <1>3 DEF Meets
  <2>2. todo = <<>>
    <3> HIDE DEF ops, todo
    <3> QED BY <1>1, <1>3, OneRemains
  <2> QED BY <2>1, <2>2
<1>4. CASE ops # <<>>
  <2>1. /\ c.told.claim.do \in {"nothing", "create_rule"} \/ c.q.tool = "set_ssid_paused"
           \/ claim = Ending(ops)
        /\ Ending(ops).do = "delete_rule" => Len(ops) = 1
        /\ \A i \in DOMAIN ops : ops[i].do = "create_rule" => c.told.claim.do = "create_rule"
        /\ c.told.claim.do = "create_rule" =>
              c.told.claim.on = Reported /\ Len(ops) = 1 /\ ops[1].do = "create_rule"
    BY <1>4 DEF Meets, claim
  <2> HIDE DEF ops, todo
  <2>2. Len(ops) \in Nat \ {0} /\ DOMAIN ops = 1..Len(ops)
    <3> HIDE DEF Range
    <3> QED BY <1>1, <1>4
  <2>3. Ending(ops).do = "delete_rule" => Ending(ops).on \in DOMAIN v.rules
    BY <1>1, <2>2 DEF Ending
  <2>4. /\ todo # <<>> /\ Ending(todo) = Ending(ops)
        /\ Len(ops) = 1 => Len(todo) = 1 /\ todo[1] = ops[1]
        /\ \A i \in DOMAIN todo : \E j \in DOMAIN ops : todo[i] = ops[j]
    BY ONLY <1>1, <1>4, <2>3, EndingRemains
  <2>5. \A i \in DOMAIN todo : todo[i].do = "create_rule" => c.told.claim.do = "create_rule"
    BY <2>1, <2>4
  <2>6. /\ claim.do = "nothing" \/ c.told.claim.do = "create_rule"
           \/ c.q.tool = "set_ssid_paused" \/ claim = Ending(todo)
        /\ Ending(todo).do = "delete_rule" => Len(todo) = 1
        /\ c.told.claim.do = "create_rule" =>
              c.told.claim.on = Reported /\ Len(todo) = 1 /\ todo[1].do = "create_rule"
    BY <1>2, <2>1, <2>4
  <2>7. Backed(claim, c)
    BY <2>5, <2>6 DEF Backed, todo
  <2> QED BY <2>4, <2>7 DEF claim, todo
<1> QED BY <1>3, <1>4

\* A step that ends the call without a reply, and one that leaves a call under way.
LEMMA EndsClaims ==
    ASSUME call' = Idle, last'.pc # "replied"
    PROVE  ClaimInv'
BY DEF ClaimInv, AppliedHolds

LEMMA RunsClaims ==
    ASSUME NEW c, call' = c, last' = Idle, Told(c),
           NEW claim, claim = Filled(c.told.claim, c.plan),
           c.pc \in {"sending", "taken"} => Backed(claim, c),
           c.pc = "taken" /\ ~c.moved /\ Len(c.todo) = 1 /\ c.q.tool # "set_ssid_paused" =>
              InEffect(claim, box')
    PROVE  ClaimInv'
<1>1. AppliedHolds'
  BY DEF AppliedHolds, Idle
<1>2. Achieved(claim, c)'
  BY DEF Achieved
<1> QED BY <1>1, <1>2 DEF ClaimInv

\* A service that resolves its plan is backed by it, or skipped all of it.
LEMMA ResolveClaims ==
    ASSUME IInv, NEW q, NEW told, NEW retried, Resolve(q, told, retried),
           q.tool \in ControlTools \cup DestructiveTools,
           \A c : c.q = q /\ c.told = told => Told(c)
    PROVE  ClaimInv'
<1> DEFINE plan == Handle(told.service, told.data, seen)
<1>1. CASE call' = Under("retrying", q, told, None, <<>>, FALSE) /\ last' = Idle
  <2>1. call'.pc = "retrying" /\ call'.told = told /\ call'.q = q
    BY <1>1 DEF Under
  <2>2. Told(call')
    BY <2>1
  <2> QED BY <1>1, <2>1, <2>2, RunsClaims
<1>2. CASE call' = Idle /\ last' = Refused(q, plan.error)
  <2>1. last'.pc = "refused"
    BY <1>2 DEF Refused
  <2> QED BY <1>2, <2>1, EndsClaims
<1>3. CASE /\ IsPlan(plan)
           /\ Proceed(Under("sending", q, told, plan, Remaining(plan.ops, seen), FALSE))
  <2> DEFINE todo == Remaining(plan.ops, seen)
             c == Under("sending", q, told, plan, todo, FALSE)
  <2>1. IsFiniteSet(DOMAIN seen.rules)
    BY StartAssumption, FS_Subset DEF IInv, TypeOK
  <2>2. c.q = q /\ c.told = told /\ c.pc = "sending" /\ c.plan = plan /\ c.todo = todo
    BY DEF Under
  <2>3. Told(c)
    BY <2>2
  <2>4. /\ q \in Asked /\ Fits(q.args, ParametersOf(q.tool))
        /\ told.service = Asking(q).service /\ told.data = Asking(q).data
        /\ \/ told.claim = Asking(q).claim
           \/ q.tool \in {"pause_rule", "resume_rule"} /\ told.claim = NoEffect
    BY <2>2, <2>3 DEF Told
  <2>5. plan = Handle(Asking(q).service, Asking(q).data, seen)
    BY <2>4
  <2>6. told.service \in Services
    BY <2>4, ToolFacts DEF Asking
  <2>7. Sound(plan, told.service, seen)
    BY <1>3, <2>1, <2>6, HandleFacts
  <2>8. Proceed(c) /\ todo = Remaining(plan.ops, seen)
    BY <1>3
  <2> HIDE DEF plan
  <2>9. Meets(q.tool, told.claim, plan)
    BY <1>3, <2>1, <2>4, <2>5, ToolsMeet
  <2> HIDE DEF c, todo
  <2>10. /\ todo = <<>> => plan.reported = "skipped"
         /\ todo # <<>> => Backed(Filled(told.claim, plan), c)
    BY <2>2, <2>7, <2>8, <2>9, MeetsBacked
  <2>11. CASE todo = <<>>
    <3>1. call' = Idle /\ last' = Reply(c.q, c.told, c.plan, c.moved)
      BY <2>2, <2>8, <2>11 DEF Proceed
    <3>2. last'.plan.reported = "skipped"
      BY <2>2, <2>10, <2>11, <3>1 DEF Reply
    <3> QED BY <3>1, <3>2 DEF ClaimInv, AppliedHolds
  <2>12. CASE todo # <<>>
    <3>1. call' = c /\ last' = Idle
      BY <2>2, <2>8, <2>12 DEF Proceed
    <3> QED BY <2>2, <2>3, <2>10, <2>12, <3>1, RunsClaims
  <2> QED BY <2>11, <2>12
<1> QED BY <1>1, <1>2, <1>3 DEF Resolve, TakesPlan

\* What stands of a claim while its call is under way.
LEMMA ClaimFacts ==
    ASSUME ClaimInv, call # Idle, NEW claim, claim = Filled(call.told.claim, call.plan)
    PROVE  /\ last = Idle /\ Told(call)
           /\ call.pc \in {"sending", "taken"} => Backed(claim, call) /\ Achieved(claim, call)
BY DEF ClaimInv

\* A call that begins.
LEMMA BeginClaims ==
    ASSUME IInv, ClaimInv, NEW q \in Asked,
           CallNotTaken(q) \/ CallRefreshes(q) \/ CallResolves(q)
    PROVE  ClaimInv'
<1> DEFINE told == ToolOf(q, seen)
<1>1. q.tool \in ControlTools \cup DestructiveTools
  <2>1. Begin(q)
    BY DEF CallNotTaken, CallRefreshes, CallResolves
  <2> QED BY <2>1, ModesAssumption DEF Begin, Offered, BuildControlTools, IInv, TypeOK
<1>2. CASE CallNotTaken(q)
  <2>1. call' = Idle /\ last'.pc = "refused"
    BY <1>2 DEF CallNotTaken, Refused
  <2> QED BY <2>1, EndsClaims
<1>3. ASSUME Accepted(q, told), NEW c, c.q = q, c.told = told
      PROVE  Told(c)
  <2>1. Fits(q.args, ParametersOf(q.tool))
    BY <1>3 DEF Accepted
  <2>2. /\ told.service = Asking(q).service /\ told.data = Asking(q).data
        /\ \/ told.claim = Asking(q).claim
           \/ q.tool \in {"pause_rule", "resume_rule"} /\ told.claim = NoEffect
    BY <1>1, Tells
  <2> HIDE DEF told
  <2> QED BY <1>3, <2>1, <2>2 DEF Told
<1>4. CASE CallRefreshes(q)
  <2>1. /\ call' = Under("refreshing", q, told, None, <<>>, FALSE) /\ last' = Idle
        /\ Accepted(q, told)
    BY <1>4 DEF CallRefreshes
  <2> HIDE DEF told
  <2>2. call'.pc = "refreshing" /\ call'.told = told /\ call'.q = q
    BY <2>1 DEF Under
  <2>3. Told(call')
    BY <1>3, <2>1, <2>2
  <2> QED BY <2>1, <2>2, <2>3, RunsClaims
<1>5. CASE CallResolves(q)
  <2>1. Resolve(q, told, FALSE) /\ Accepted(q, told)
    BY <1>5 DEF CallResolves
  <2> HIDE DEF told
  <2>2. \A c : c.q = q /\ c.told = told => Told(c)
    BY <1>3, <2>1
  <2> QED BY <1>1, <2>1, <2>2, ResolveClaims
<1> QED BY <1>2, <1>4, <1>5

\* A call that has waited for a refresh.
LEMMA RefreshReturnsClaims ==
    ASSUME IInv, ClaimInv, RefreshReturns
    PROVE  ClaimInv'
<1>1. call.pc \in {"refreshing", "retrying"} /\ Resolve(call.q, call.told, TRUE)
  BY DEF RefreshReturns
<1>2. call # Idle
  BY <1>1 DEF Idle
<1>3. Told(call)
  BY <1>2, ClaimFacts
<1>4. call.q.tool \in ControlTools \cup DestructiveTools
  <2>1. call.q.tool \in Offered(mode) /\ mode \in Modes
    BY <1>2, CallFacts DEF IInv, TypeOK
  <2> QED BY <2>1, ModesAssumption DEF Offered, BuildControlTools
<1>5. \A c : c.q = call.q /\ c.told = call.told => Told(c)
  BY <1>3 DEF Told
<1> QED BY <1>1, <1>4, <1>5, ResolveClaims

\* The box takes the last request of a plan: what was claimed is so.
LEMMA BoxTakesClaims ==
    ASSUME IInv, ClaimInv, BoxTakes
    PROVE  ClaimInv'
<1> DEFINE e == Head(call.todo)
           c == [call EXCEPT !.pc = "taken"]
           claim == Filled(call.told.claim, call.plan)
<1>1. /\ call.pc = "sending" /\ e.do \notin {"create_rule", "find_alarm"}
      /\ box' = Apply(e, box) /\ call' = c /\ last' = last
  BY DEF BoxTakes
<1>2. /\ call # Idle /\ e = call.todo[1] /\ DOMAIN call.todo = 1..Len(call.todo)
  BY <1>1, TodoFacts DEF IInv
<1>3. call = [pc |-> call.pc, q |-> call.q, told |-> call.told, plan |-> call.plan,
              todo |-> call.todo, moved |-> call.moved, polled |-> call.polled]
  BY <1>2, CallFacts DEF IInv
<1>4. c = [pc |-> "taken", q |-> call.q, told |-> call.told, plan |-> call.plan,
           todo |-> call.todo, moved |-> call.moved, polled |-> call.polled]
  BY <1>3, CallParts
<1>5. last = Idle /\ Told(call) /\ Backed(claim, call)
  BY <1>1, <1>2, ClaimFacts
<1> HIDE DEF c, e
<1>6. /\ c.pc = "taken" /\ c.q = call.q /\ c.told = call.told /\ c.plan = call.plan
      /\ c.todo = call.todo /\ c.moved = call.moved
  BY <1>4
<1>7. Told(c) /\ claim = Filled(c.told.claim, c.plan)
  BY <1>5, <1>6 DEF Told
<1> HIDE DEF claim
<1>8. Backed(claim, c)
  BY <1>5, <1>6 DEF Backed
<1>9. ASSUME Len(c.todo) = 1, c.q.tool # "set_ssid_paused"
      PROVE  InEffect(claim, box')
  <2>1. Ending(call.todo) = e /\ call.told.claim.do # "create_rule"
    BY <1>1, <1>2, <1>5, <1>6, <1>9 DEF Ending, Backed
  <2>2. claim.do = "nothing" \/ claim = e
    BY <1>5, <1>6, <1>9, <2>1 DEF Backed
  <2>3. BoxShaped(box)
    BY DEF IInv, BoxInv
  <2>4. CASE claim.do = "nothing"
    BY <2>4 DEF InEffect, Apply, HostSettings
  <2>5. CASE claim = e
    BY <1>1, <2>3, <2>5, BoxShows
  <2> QED BY <2>2, <2>4, <2>5
<1> QED BY <1>1, <1>5, <1>6, <1>7, <1>8, <1>9, RunsClaims

\* The box creates a rule: the claim names it from then on.
LEMMA BoxCreatesClaims ==
    ASSUME IInv, ClaimInv, NEW r, NEW named, BoxCreates(r, named)
    PROVE  ClaimInv'
<1> DEFINE e == Effect("create_rule", r, Head(call.todo).is)
           todo == <<IF named THEN e ELSE NoEffect>>
           target == IF named THEN None ELSE "unnamed"
           plan == Plan(<<e>>, target, r)
           c == [call EXCEPT !.pc = "taken", !.todo = todo, !.plan = plan]
           claim == Filled(call.told.claim, plan)
<1>1. /\ call.pc = "sending" /\ Head(call.todo).do = "create_rule"
      /\ box' = Apply(e, box) /\ call' = c /\ last' = last
  BY DEF BoxCreates
<1>2. call # Idle /\ Head(call.todo) = call.todo[1] /\ 1 \in DOMAIN call.todo
  BY <1>1, TodoFacts DEF IInv
<1>3. call = [pc |-> call.pc, q |-> call.q, told |-> call.told, plan |-> call.plan,
              todo |-> call.todo, moved |-> call.moved, polled |-> call.polled]
  BY <1>2, CallFacts DEF IInv
<1>4. c = [pc |-> "taken", q |-> call.q, told |-> call.told, plan |-> plan,
           todo |-> todo, moved |-> call.moved, polled |-> call.polled]
  <2>1. c = [call EXCEPT !.pc = "taken", !.todo = todo, !.plan = plan]
    OBVIOUS
  <2> HIDE DEF plan, todo, c
  <2> QED BY <1>3, <2>1, CallReplanned
<1>5. last = Idle /\ Told(call) /\ Backed(Filled(call.told.claim, call.plan), call)
  BY <1>1, <1>2, ClaimFacts
<1>6. call.told.claim.do = "create_rule" /\ call.told.claim.on = Reported
  BY <1>1, <1>2, <1>5 DEF Backed
<1>7. /\ e.do = "create_rule" /\ e.on = r /\ e = Effect("create_rule", r, e.is)
      /\ NoEffect.do = "nothing"
  BY DEF NoEffect, Effect
<1> HIDE DEF e, target
<1>8. plan.ops[1] = e /\ plan.reported = r
  BY DEF Plan
<1>9. Len(todo) = 1 /\ DOMAIN todo = {1} /\ todo[1].do \in {"create_rule", "nothing"}
  BY <1>7
<1> HIDE DEF c, plan, todo
<1>10. claim = e
  BY <1>6, <1>7, <1>8, MarksAssumption DEF Filled, Effect
<1>11. /\ c.pc = "taken" /\ c.q = call.q /\ c.told = call.told /\ c.plan = plan
       /\ c.todo = todo
  BY <1>4
<1>12. Told(c) /\ claim = Filled(c.told.claim, c.plan)
  BY <1>5, <1>11 DEF Told
<1> HIDE DEF claim
<1>13. Ending(todo).do # "delete_rule"
  BY <1>9 DEF Ending
<1>14. Backed(claim, c)
  BY <1>6, <1>9, <1>11, <1>13 DEF Backed
<1>15. InEffect(claim, box')
  BY <1>1, <1>10, BoxShows DEF IInv, BoxInv
<1> QED BY <1>1, <1>5, <1>12, <1>14, <1>15, RunsClaims

\* The alarm that was looked for is muted next: the end of the plan is still to come.
LEMMA AlarmFoundClaims ==
    ASSUME IInv, ClaimInv, AlarmFound
    PROVE  ClaimInv'
<1> DEFINE rest == Tail(call.todo)
           c == [call EXCEPT !.todo = rest]
           claim == Filled(call.told.claim, call.plan)
<1>1. /\ call.pc = "sending" /\ Head(call.todo).do = "find_alarm" /\ call' = c
      /\ last' = last
  BY DEF AlarmFound
<1>2. /\ call # Idle /\ call.todo # <<>> /\ Doable(call.todo, call.told.service)
      /\ DOMAIN call.todo = 1..Len(call.todo) /\ Len(call.todo) \in Nat \ {0}
      /\ Head(call.todo) = call.todo[1]
  BY <1>1, TodoFacts DEF IInv
<1>3. call = [pc |-> call.pc, q |-> call.q, told |-> call.told, plan |-> call.plan,
              todo |-> call.todo, moved |-> call.moved, polled |-> call.polled]
  BY <1>2, CallFacts DEF IInv
<1>4. c = [pc |-> call.pc, q |-> call.q, told |-> call.told, plan |-> call.plan,
           todo |-> rest, moved |-> call.moved, polled |-> call.polled]
  <2> HIDE DEF rest
  <2> QED BY <1>3, CallParts
<1>5. last = Idle /\ Told(call) /\ Backed(claim, call)
  BY <1>1, <1>2, ClaimFacts
<1>6. 1 < Len(call.todo)
  BY <1>1, <1>2 DEF Doable
<1>a. Len(call.todo) # 1 /\ Len(call.todo) \in DOMAIN call.todo
  <2> DEFINE n == Len(call.todo)
  <2>1. 1 < n /\ n \in Nat \ {0} /\ DOMAIN call.todo = 1..n
    BY <1>2, <1>6
  <2> HIDE DEF n
  <2>2. n # 1 /\ n \in DOMAIN call.todo
    BY ONLY <2>1
  <2> QED BY <2>2 DEF n
<1>7. rest = Tail(call.todo)
  OBVIOUS
<1> HIDE DEF c, rest
<1>8. /\ Len(rest) = Len(call.todo) - 1
      /\ \A i \in DOMAIN rest : i + 1 \in DOMAIN call.todo /\ rest[i] = call.todo[i + 1]
      /\ \A j \in DOMAIN call.todo : j # 1 => j - 1 \in DOMAIN rest /\ rest[j - 1] = call.todo[j]
  <2> DEFINE ops == call.todo
             service == call.told.service
  <2>1. Doable(ops, service) /\ ops # <<>> /\ rest = Tail(ops)
    BY <1>2, <1>7
  <2> HIDE DEF ops, service
  <2>2. Len(rest) = Len(ops) - 1
    BY <2>1, TailDoable
  <2>3. \A i \in DOMAIN rest : i + 1 \in DOMAIN ops /\ rest[i] = ops[i + 1]
    BY <2>1, TailDoable
  <2>4. \A j \in DOMAIN ops : j # 1 => j - 1 \in DOMAIN rest /\ rest[j - 1] = ops[j]
    BY <2>1, TailDoable
  <2> QED BY <2>2, <2>3, <2>4 DEF ops
<1>9. Ending(rest) = Ending(call.todo)
  <2>1. Len(call.todo) \in DOMAIN call.todo /\ Len(call.todo) # 1
    BY <1>a
  <2>2. rest[Len(call.todo) - 1] = call.todo[Len(call.todo)]
    BY <1>8, <2>1
  <2> QED BY <1>8, <2>2 DEF Ending
<1>10. /\ c.pc = "sending" /\ c.q = call.q /\ c.told = call.told /\ c.plan = call.plan
       /\ c.todo = rest
  BY <1>1, <1>4
<1>11. Told(c) /\ claim = Filled(c.told.claim, c.plan)
  BY <1>5, <1>10 DEF Told
<1> HIDE DEF claim
<1>12. call.told.claim.do # "create_rule"
  BY <1>5, <1>a DEF Backed
<1>13. Ending(call.todo).do # "delete_rule"
  BY <1>5, <1>a DEF Backed
<1>14. \A i \in DOMAIN rest : rest[i].do # "create_rule"
  BY <1>5, <1>8, <1>12 DEF Backed
<1>15. \/ claim.do = "nothing" \/ call.q.tool = "set_ssid_paused" \/ claim = Ending(rest)
  BY <1>5, <1>9, <1>12 DEF Backed
<1>16. Backed(claim, c)
  BY <1>9, <1>10, <1>12, <1>13, <1>14, <1>15 DEF Backed
<1> QED BY <1>1, <1>5, <1>10, <1>11, <1>16, RunsClaims

\* Nothing is left of a plan that is over.
LEMMA NothingRemains ==
    ASSUME NEW v, NEW ops, ops \in Seq(Range(ops)), NEW left, left = Remaining(ops, v),
           ops = <<>>
    PROVE  left = <<>>
  BY OneRemains

\* A request returns: it was the last of its plan and the answer claims what the box
\* did, or the end of the plan is still to come.
LEMMA RequestReturnsClaims ==
    ASSUME IInv, ClaimInv, RequestReturns
    PROVE  ClaimInv'
<1> DEFINE rest == Tail(call.todo)
           todo == Remaining(rest, seen')
           c == [call EXCEPT !.pc = "sending", !.todo = todo]
           claim == Filled(call.told.claim, call.plan)
<1>1. /\ call.pc = "taken" /\ Proceed(c) /\ UNCHANGED box
      /\ rest = Tail(call.todo) /\ todo = Remaining(rest, seen')
  BY DEF RequestReturns
<1>2. /\ call # Idle /\ call.todo # <<>> /\ call.todo \in Seq(Range(call.todo))
      /\ DOMAIN call.todo = 1..Len(call.todo) /\ Len(call.todo) \in Nat \ {0}
  BY <1>1, TodoFacts DEF IInv
<1>3. call = [pc |-> call.pc, q |-> call.q, told |-> call.told, plan |-> call.plan,
              todo |-> call.todo, moved |-> call.moved, polled |-> call.polled]
  BY <1>2, CallFacts DEF IInv
<1>4. c = [pc |-> "sending", q |-> call.q, told |-> call.told, plan |-> call.plan,
           todo |-> todo, moved |-> call.moved, polled |-> call.polled]
  <2>1. c = [call EXCEPT !.pc = "sending", !.todo = todo]
    OBVIOUS
  <2> HIDE DEF todo, c
  <2> QED BY <1>3, <2>1, CallResumed
<1>5. last = Idle /\ Told(call) /\ Backed(claim, call) /\ Achieved(claim, call)
  BY <1>1, <1>2, ClaimFacts
<1> HIDE DEF c, todo, rest
<1>6. /\ c.pc = "sending" /\ c.q = call.q /\ c.told = call.told /\ c.plan = call.plan
      /\ c.todo = todo /\ c.moved = call.moved
  BY <1>4
<1>7. Told(c) /\ claim = Filled(c.told.claim, c.plan)
  BY <1>5, <1>6 DEF Told
<1>8. /\ rest \in Seq(Range(rest)) /\ Len(rest) = Len(call.todo) - 1
      /\ \A i \in DOMAIN rest : rest[i] = call.todo[i + 1]
  <2> DEFINE ops == call.todo
  <2>1. ops \in Seq(Range(ops)) /\ ops # <<>> /\ rest = Tail(ops)
    BY <1>1, <1>2
  <2> HIDE DEF ops
  <2>2. /\ rest \in Seq(Range(rest)) /\ Len(rest) = Len(ops) - 1
        /\ \A i \in DOMAIN rest : rest[i] = ops[i + 1]
    BY <2>1, PlacesFacts
  <2> QED BY <2>2 DEF ops
<1> HIDE DEF claim
<1>9. CASE Len(call.todo) = 1
  <2>1. rest = <<>>
    <3> HIDE DEF Range
    <3> QED BY <1>8, <1>9
  <2>2. todo = <<>>
    <3> DEFINE v == seen'
    <3>1. todo = Remaining(rest, v) /\ rest \in Seq(Range(rest))
      BY <1>1, <1>8
    <3> HIDE DEF v, Range
    <3> QED BY ONLY <2>1, <3>1, NothingRemains
  <2>3. call' = Idle /\ last' = Reply(c.q, c.told, c.plan, c.moved)
    BY <1>1, <1>6, <2>2 DEF Proceed
  <2>4. last'.claim = claim /\ last'.tool = call.q.tool /\ last'.moved = call.moved
    BY <1>6, <1>7, <2>3 DEF Reply
  <2>5. ~call.moved /\ call.q.tool # "set_ssid_paused" => InEffect(claim, box)
    BY <1>1, <1>5, <1>9 DEF Achieved
  <2>6. AppliedHolds'
    BY <1>1, <2>4, <2>5 DEF AppliedHolds
  <2> QED BY <2>3, <2>6 DEF ClaimInv
<1>10. CASE Len(call.todo) # 1
  <2>1. call.told.claim.do # "create_rule" /\ Ending(call.todo).do # "delete_rule"
    BY <1>5, <1>10 DEF Backed
  <2>2. /\ Len(rest) \in Nat \ {0} /\ DOMAIN rest = 1..Len(rest) /\ rest # <<>>
        /\ Len(rest) \in DOMAIN rest
    <3>1. Len(rest) \in Nat \ {0}
      BY <1>2, <1>8, <1>10
    <3>2. DOMAIN rest = 1..Len(rest)
      <4> HIDE DEF Range
      <4> QED BY ONLY <1>8
    <3>3. rest # <<>>
      BY ONLY <3>1
    <3> QED BY <3>1, <3>2, <3>3
  <2>3. Ending(rest) = Ending(call.todo)
    <3>1. rest[Len(rest)] = call.todo[Len(rest) + 1]
      BY <1>8, <2>2
    <3>2. Len(rest) + 1 = Len(call.todo)
      BY <1>2, <1>8
    <3> QED BY <3>1, <3>2 DEF Ending
  <2>4. \A i \in DOMAIN rest : rest[i].do # "create_rule"
    <3>1. \A i \in DOMAIN rest : i + 1 \in DOMAIN call.todo
      BY <1>2, <1>8, <2>2
    <3> QED BY <1>5, <1>8, <2>1, <3>1 DEF Backed
  <2>5. /\ todo # <<>> /\ Ending(todo) = Ending(rest)
        /\ \A i \in DOMAIN todo : \E j \in DOMAIN rest : todo[i] = rest[j]
    <3> DEFINE v == seen'
    <3>1. todo = Remaining(rest, v) /\ Ending(rest).do # "delete_rule"
      BY <1>1, <2>1, <2>3
    <3> HIDE DEF v
    <3> QED BY ONLY <1>8, <2>2, <3>1, EndingRemains
  <2>6. call' = c /\ last' = Idle
    BY <1>1, <1>6, <2>5 DEF Proceed
  <2>7. \A i \in DOMAIN todo : todo[i].do # "create_rule"
    BY <2>4, <2>5
  <2>8. \/ claim.do = "nothing" \/ call.q.tool = "set_ssid_paused" \/ claim = Ending(todo)
    BY <1>5, <2>1, <2>3, <2>5 DEF Backed
  <2>9. Backed(claim, c)
    BY <1>6, <2>1, <2>3, <2>5, <2>7, <2>8 DEF Backed
  <2> QED BY <1>6, <1>7, <2>6, <2>9, RunsClaims
<1> QED BY <1>9, <1>10

\* A step that changes neither the box nor the call but for the polls it saw, and one
\* of the app.
LEMMA StandsClaims ==
    ASSUME IInv, ClaimInv,
           \/ /\ UNCHANGED <<box, last>>
              /\ \/ call' = call
                 \/ call # Idle /\ call' = [call EXCEPT !.polled = TRUE]
           \/ /\ last' = Idle
              /\ call' = IF call = Idle THEN Idle ELSE [call EXCEPT !.moved = TRUE]
    PROVE  ClaimInv'
<1>1. CASE call' = call /\ UNCHANGED <<box, last>>
  <2>1. AppliedHolds'
    BY <1>1 DEF ClaimInv, AppliedHolds
  <2>2. ASSUME call # Idle
        PROVE  /\ last' = Idle /\ Told(call)'
               /\ call'.pc \in {"sending", "taken"} =>
                    LET claim == Filled(call.told.claim, call.plan)
                    IN  (Backed(claim, call) /\ Achieved(claim, call))'
    <3>1. last' = Idle /\ Told(call)'
      BY <1>1, <2>2, ClaimFacts
    <3> DEFINE claim == Filled(call.told.claim, call.plan)
    <3>2. claim' = claim
      BY <1>1
    <3>3. call.pc \in {"sending", "taken"} => Backed(claim, call) /\ Achieved(claim, call)
      BY <2>2, ClaimFacts
    <3> HIDE DEF claim
    <3>4. call'.pc \in {"sending", "taken"} => (Backed(claim, call) /\ Achieved(claim, call))'
      BY <1>1, <3>2, <3>3 DEF Achieved
    <3> QED BY <3>1, <3>4 DEF claim
  <2> QED BY <1>1, <2>1, <2>2 DEF ClaimInv
<1>2. CASE call = Idle /\ call' = Idle /\ last' = Idle
  BY <1>2, EndsClaims DEF Idle
<1>3. CASE /\ call # Idle
           /\ \/ UNCHANGED <<box, last>> /\ call' = [call EXCEPT !.polled = TRUE]
              \/ last' = Idle /\ call' = [call EXCEPT !.moved = TRUE]
  <2> DEFINE claim == Filled(call.told.claim, call.plan)
  <2>1. call = [pc |-> call.pc, q |-> call.q, told |-> call.told, plan |-> call.plan,
                todo |-> call.todo, moved |-> call.moved, polled |-> call.polled]
    BY <1>3, CallFacts DEF IInv
  <2>2. /\ call'.pc = call.pc /\ call'.q = call.q /\ call'.told = call.told
        /\ call'.plan = call.plan /\ call'.todo = call.todo
        /\ \/ call'.moved = call.moved /\ box' = box
           \/ call'.moved = TRUE
    BY <1>3, <2>1, CallParts
  <2>3. /\ last = Idle /\ Told(call)
        /\ call.pc \in {"sending", "taken"} => Backed(claim, call) /\ Achieved(claim, call)
    BY <1>3, ClaimFacts
  <2>4. last' = Idle
    BY <1>3, <2>3
  <2>5. Told(call') /\ claim = Filled(call'.told.claim, call'.plan)
    BY <2>2, <2>3 DEF Told
  <2> HIDE DEF claim
  <2>6. call'.pc \in {"sending", "taken"} => Backed(claim, call')
    BY <2>2, <2>3 DEF Backed
  <2>7. call'.pc = "taken" /\ ~call'.moved /\ Len(call'.todo) = 1
        /\ call'.q.tool # "set_ssid_paused" => InEffect(claim, box')
    BY <2>2, <2>3 DEF Achieved
  <2> QED BY <2>4, <2>5, <2>6, <2>7, RunsClaims
<1> QED BY <1>1, <1>2, <1>3

\* Every step keeps what the claims rest on.
LEMMA NextClaims ==
    ASSUME IInv, ClaimInv, [Next]_vars
    PROVE  ClaimInv'
<1>1. CASE \E q \in Asked : CallNotTaken(q) \/ CallRefreshes(q) \/ CallResolves(q)
  BY <1>1, BeginClaims
<1>2. CASE RefreshReturns
  BY <1>2, RefreshReturnsClaims
<1>3. CASE BoxTakes
  BY <1>3, BoxTakesClaims
<1>4. CASE \E r \in Rules, named \in BOOLEAN : BoxCreates(r, named)
  BY <1>4, BoxCreatesClaims
<1>5. CASE AlarmFound
  BY <1>5, AlarmFoundClaims
<1>6. CASE \/ AlarmNotFound \/ RequestFails \/ AnswerLost \/ DeletionRaises
           \/ \E r \in Rules : CreateAnswerLost(r)
  <2>1. call' = Idle /\ last'.pc \in {"refused", "failed"}
    BY <1>6 DEF AlarmNotFound, RequestFails, AnswerLost, DeletionRaises, CreateAnswerLost,
                Fail, Refused
  <2> QED BY <2>1, EndsClaims
<1>7. CASE RequestReturns
  BY <1>7, RequestReturnsClaims
<1>8. CASE PollAnswered \/ PollFails \/ UNCHANGED vars
  <2>1. call' = call /\ UNCHANGED <<box, last>>
    BY <1>8 DEF PollAnswered, PollFails, vars
  <2> QED BY <2>1, StandsClaims
<1>9. CASE PollPublished
  <2>1. /\ call' = call \/ (call # Idle /\ call' = [call EXCEPT !.polled = TRUE])
        /\ UNCHANGED <<box, last>>
    BY <1>9 DEF PollPublished
  <2> QED BY <2>1, StandsClaims
<1>10. CASE \/ \E h \in Hosts, name \in Names : AppAddsHost(h, name)
            \/ \E r \in Rules, owner \in Hosts : AppAddsRule(r, owner)
            \/ \E e \in AppEffects : AppChanges(e)
  <2>1. AppMove
    BY <1>10 DEF AppAddsHost, AppAddsRule, AppChanges
  <2>2. /\ call' = IF call = Idle THEN Idle ELSE [call EXCEPT !.moved = TRUE]
        /\ last' = Idle
    BY <2>1 DEF AppMove
  <2> QED BY <2>2, StandsClaims
<1> QED BY <1>1, <1>2, <1>3, <1>4, <1>5, <1>6, <1>7, <1>8, <1>9, <1>10 DEF Next

\* What an answer calls applied is so on the box until somebody changes it again, for
\* every tool but the one of the SSID: what the answer claims, filled in from the
\* service's response, is the last effect of the plan, a request that fails ends the
\* call without an answer, and a plan whose last effect is skipped says so.
THEOREM AppliedIsSo == Spec => []AppliedHolds
<1>1. Init => ClaimInv
  BY DEF Init, ClaimInv, AppliedHolds, Idle
<1>2. IInv /\ ClaimInv /\ [Next]_vars => ClaimInv'
  BY NextClaims
<1>3. ClaimInv => AppliedHolds
  BY DEF ClaimInv
<1> QED BY <1>1, <1>2, <1>3, ToolsInvariant, PTL DEF Spec
=============================================================================
