------------------------ MODULE HostInventoryProofs ------------------------
(* Proofs about HostInventory for every value of its constants.            *)
EXTENDS HostInventory, WellFoundedInduction, SequenceTheorems, TLAPS

-----------------------------------------------------------------------------
(* What the operators on hosts and inventories return.                     *)

\* The value is one the field can have.
Fits(field, value) ==
    /\ field = "name" => value \in Names
    /\ field = "static" => value \in Reservations
    /\ field = "notify" => value \in BOOLEAN

\* An inventory maps some hosts to host records.
LEMMA InventoryDef ==
    ASSUME NEW f
    PROVE  f \in Inventories <=> DOMAIN f \subseteq Hosts /\ f \in [DOMAIN f -> Host]
BY DEF Inventories

\* A snapshot maps some hosts to names.
LEMMA NameMapDef ==
    ASSUME NEW f
    PROVE  f \in NameMaps <=> DOMAIN f \subseteq Hosts /\ f \in [DOMAIN f -> Names]
BY DEF NameMaps

\* The fields of a host record.
LEMMA HostFields ==
    ASSUME NEW host \in Host, NEW field \in Fields
    PROVE  /\ Fits(field, host[field])
           /\ DOMAIN host = Fields
           /\ host["name"] = host.name
BY DEF Host, Fields, Fits

\* Replacing one field by a value that fits leaves a host record.
LEMMA HostWith ==
    ASSUME NEW host \in Host, NEW field \in Fields, NEW value, Fits(field, value)
    PROVE  /\ [host EXCEPT ![field] = value] \in Host
           /\ \A f \in Fields : [host EXCEPT ![field] = value][f] =
                                   IF f = field THEN value ELSE host[f]
<1>1. DOMAIN host = Fields
  BY HostFields
<1>2. [host EXCEPT ![field] = value] \in Host
  BY DEF Host, Fields, Fits
<1> QED BY <1>1, <1>2

\* Replacing one field of one host keeps the hosts and everything else of them.
LEMMA InventoryWith ==
    ASSUME NEW hosts \in Inventories, NEW h \in DOMAIN hosts, NEW field \in Fields,
           NEW value, Fits(field, value)
    PROVE  LET new == [hosts EXCEPT ![h][field] = value]
           IN  /\ new \in Inventories
               /\ DOMAIN new = DOMAIN hosts
               /\ new[h][field] = value
               /\ \A f \in Fields \ {field} : new[h][f] = hosts[h][f]
               /\ \A g \in DOMAIN hosts \ {h} : new[g] = hosts[g]
<1> DEFINE new == [hosts EXCEPT ![h][field] = value]
           host == [hosts[h] EXCEPT ![field] = value]
<1>1. DOMAIN hosts \subseteq Hosts /\ hosts \in [DOMAIN hosts -> Host]
  BY InventoryDef
<1>2. host \in Host /\ \A f \in Fields : host[f] = IF f = field THEN value ELSE hosts[h][f]
  BY <1>1, HostWith
<1>3. new = [hosts EXCEPT ![h] = host]
  OBVIOUS
<1> HIDE DEF host
<1>4. /\ DOMAIN new = DOMAIN hosts
      /\ new[h] = host
      /\ \A g \in DOMAIN hosts \ {h} : new[g] = hosts[g]
      /\ new \in [DOMAIN hosts -> Host]
  BY <1>1, <1>2, <1>3
<1> HIDE DEF new
<1>5. new \in Inventories
  BY <1>1, <1>4, InventoryDef
<1>6. new[h][field] = value /\ \A f \in Fields \ {field} : new[h][f] = hosts[h][f]
  BY <1>2, <1>4
<1>7. /\ new \in Inventories
      /\ DOMAIN new = DOMAIN hosts
      /\ new[h][field] = value
      /\ \A f \in Fields \ {field} : new[h][f] = hosts[h][f]
      /\ \A g \in DOMAIN hosts \ {h} : new[g] = hosts[g]
  BY <1>4, <1>5, <1>6
<1> QED BY <1>7 DEF new

\* Adding a host leaves an inventory.
LEMMA InventoryAdd ==
    ASSUME NEW hosts \in Inventories, NEW h \in Hosts, NEW host \in Host
    PROVE  [g \in DOMAIN hosts \cup {h} |-> IF g = h THEN host ELSE hosts[g]] \in Inventories
<1> DEFINE new == [g \in DOMAIN hosts \cup {h} |-> IF g = h THEN host ELSE hosts[g]]
<1>1. DOMAIN hosts \subseteq Hosts /\ hosts \in [DOMAIN hosts -> Host]
  BY InventoryDef
<1>2. DOMAIN new = DOMAIN hosts \cup {h}
  OBVIOUS
<1>3. new \in [DOMAIN new -> Host] /\ DOMAIN new \subseteq Hosts
  BY <1>1, <1>2
<1> HIDE DEF new
<1>4. new \in Inventories
  BY <1>3, InventoryDef
<1> QED BY <1>4 DEF new

\* Dropping a host keeps the others.
LEMMA WithoutFacts ==
    ASSUME NEW f, NEW h
    PROVE  /\ DOMAIN Without(f, h) = DOMAIN f \ {h}
           /\ \A g \in DOMAIN f \ {h} : Without(f, h)[g] = f[g]
           /\ f \in Inventories => Without(f, h) \in Inventories
           /\ f \in NameMaps => Without(f, h) \in NameMaps
<1> DEFINE new == Without(f, h)
<1>1. /\ DOMAIN new = DOMAIN f \ {h}
      /\ \A g \in DOMAIN f \ {h} : new[g] = f[g]
      /\ new = [g \in DOMAIN new |-> new[g]]
  BY DEF Without
<1> HIDE DEF new
<1>2. ASSUME f \in Inventories PROVE new \in Inventories
  <2>1. DOMAIN f \subseteq Hosts /\ f \in [DOMAIN f -> Host]
    BY <1>2, InventoryDef
  <2>2. DOMAIN new \subseteq Hosts /\ new \in [DOMAIN new -> Host]
    BY <1>1, <2>1
  <2> QED BY <2>2, InventoryDef
<1>3. ASSUME f \in NameMaps PROVE new \in NameMaps
  <2>1. DOMAIN f \subseteq Hosts /\ f \in [DOMAIN f -> Names]
    BY <1>3, NameMapDef
  <2>2. DOMAIN new \subseteq Hosts /\ new \in [DOMAIN new -> Names]
    BY <1>1, <2>1
  <2> QED BY <2>2, NameMapDef
<1> QED BY <1>1, <1>2, <1>3 DEF new

\* The names of an inventory.
LEMMA NamesFacts ==
    ASSUME NEW hosts \in Inventories
    PROVE  /\ NamesOf(hosts) \in NameMaps
           /\ DOMAIN NamesOf(hosts) = DOMAIN hosts
           /\ \A h \in DOMAIN hosts : NamesOf(hosts)[h] = hosts[h].name
<1>1. DOMAIN hosts \subseteq Hosts /\ \A h \in DOMAIN hosts : hosts[h].name \in Names
  BY InventoryDef DEF Host
<1> DEFINE new == NamesOf(hosts)
<1>2. /\ DOMAIN new = DOMAIN hosts
      /\ \A h \in DOMAIN hosts : new[h] = hosts[h].name
      /\ new = [h \in DOMAIN new |-> new[h]]
  BY DEF NamesOf
<1> HIDE DEF new
<1>3. new \in NameMaps
  BY <1>1, <1>2, NameMapDef
<1> QED BY <1>2, <1>3 DEF new

\* The empty inventory is one.
LEMMA NoInventoryFacts == NoInventory \in Inventories /\ DOMAIN NoInventory = {}
<1>1. DOMAIN NoInventory = {} /\ NoInventory \in [DOMAIN NoInventory -> Host]
  BY DEF NoInventory
<1> QED BY <1>1, InventoryDef

\* The four kinds of writes.
LEMMA WritesDef ==
    ASSUME NEW w
    PROVE  w \in Writes <=> \/ \E h \in Hosts, x \in Names : w = Write(h, "name", x)
                            \/ \E h \in Hosts, r \in Reservations : w = Write(h, "static", r)
                            \/ \E h \in Hosts, b \in BOOLEAN : w = Write(h, "notify", b)
                            \/ \E h \in Hosts : w = Write(h, "gone", TRUE)
<1> DEFINE A == {Write(h, "name", x) : h \in Hosts, x \in Names}
           B == {Write(h, "static", r) : h \in Hosts, r \in Reservations}
           C == {Write(h, "notify", b) : h \in Hosts, b \in BOOLEAN}
           D == {Write(h, "gone", TRUE) : h \in Hosts}
<1>1. w \in A <=> \E h \in Hosts, x \in Names : w = Write(h, "name", x)
  OBVIOUS
<1>2. w \in B <=> \E h \in Hosts, r \in Reservations : w = Write(h, "static", r)
  OBVIOUS
<1>3. w \in C <=> \E h \in Hosts, b \in BOOLEAN : w = Write(h, "notify", b)
  OBVIOUS
<1>4. w \in D <=> \E h \in Hosts : w = Write(h, "gone", TRUE)
  OBVIOUS
<1>5. Writes = A \cup B \cup C \cup D
  BY DEF Writes
<1> HIDE DEF A, B, C, D
<1>6. w \in Writes <=> w \in A \/ w \in B \/ w \in C \/ w \in D
  BY <1>5
<1> QED BY <1>1, <1>2, <1>3, <1>4, <1>6

\* A write names a host, a field or the host's deletion, and a value that fits.
LEMMA WriteFacts ==
    ASSUME NEW w \in Writes
    PROVE  /\ w.host \in Hosts
           /\ w.field \in Fields \cup {"gone"}
           /\ w.field \in Fields => Fits(w.field, w.value)
<1>1. CASE \E h \in Hosts, x \in Names : w = Write(h, "name", x)
  BY <1>1 DEF Write, Fields, Fits
<1>2. CASE \E h \in Hosts, r \in Reservations : w = Write(h, "static", r)
  BY <1>2 DEF Write, Fields, Fits
<1>3. CASE \E h \in Hosts, b \in BOOLEAN : w = Write(h, "notify", b)
  BY <1>3 DEF Write, Fields, Fits
<1>4. CASE \E h \in Hosts : w = Write(h, "gone", TRUE)
  BY <1>4 DEF Write, Fields
<1> QED BY <1>1, <1>2, <1>3, <1>4, WritesDef

\* A deletion lists hosts.
LEMMA DeleteListsFacts ==
    ASSUME NEW list \in DeleteLists
    PROVE  list \in Seq(Hosts)
<1> DEFINE A == {<<g>> : g \in Hosts}
           B == {<<g, h>> : g, h \in Hosts}
<1>1. list \in A \/ list \in B
  BY DEF DeleteLists
<1>2. list \in A => \E g \in Hosts : list = <<g>>
  OBVIOUS
<1>3. list \in B => \E g, h \in Hosts : list = <<g, h>>
  OBVIOUS
<1>4. \A g \in Hosts : <<g>> \in Seq(Hosts)
  OBVIOUS
<1>5. \A g, h \in Hosts : <<g, h>> \in Seq(Hosts)
  OBVIOUS
<1> HIDE DEF A, B
<1> QED BY <1>1, <1>2, <1>3, <1>4, <1>5

\* A nonempty set of positions has a first one.
LEMMA FirstPosition ==
    ASSUME NEW S, S \subseteq Nat, S # {}
    PROVE  \E i \in S : \A j \in S : i <= j
<1>1. PICK i \in S : \A j \in S : ~ (<<j, i>> \in OpToRel(<, Nat))
  BY NatLessThanWellFounded, WFMin
<1>2. ASSUME NEW j \in S PROVE i <= j
  <2>1. i \in Nat /\ j \in Nat
    OBVIOUS
  <2>2. ~ (j < i)
    BY <1>1, <2>1 DEF OpToRel
  <2> QED BY <2>1, <2>2
<1> QED BY <1>2

\* Where a deletion goes next: to a listed host that the index holds, or to its end.
LEMMA NextDeleteFacts ==
    ASSUME NEW w, NEW todo \in Seq(Hosts), NEW ix, NEW r, r = NextDelete(w, todo, ix)
    PROVE  /\ \/ r.phase = "sent" /\ r.write \in Writes /\ r.write.host \in DOMAIN ix
              \/ r.phase = "done" /\ r.write = w
           /\ r.todo \in Seq(Hosts)
           /\ r = [phase |-> r.phase, write |-> r.write, todo |-> r.todo]
<1> DEFINE present == {i \in DOMAIN todo : todo[i] \in DOMAIN ix}
           first == CHOOSE i \in present : \A j \in present : i <= j
<1>1. CASE present = {}
  <2>1. r = [phase |-> "done", write |-> w, todo |-> <<>>]
    BY <1>1 DEF NextDelete
  <2> QED BY <2>1
<1>2. CASE present # {}
  <2>1. DOMAIN todo = 1..Len(todo) /\ Len(todo) \in Nat
    OBVIOUS
  <2>2. present \subseteq Nat
    BY <2>1
  <2>3. first \in present
    BY <1>2, <2>2, FirstPosition
  <2>4. r = [phase |-> "sent", write |-> Write(todo[first], "gone", TRUE),
             todo |-> SubSeq(todo, first + 1, Len(todo))]
    BY <1>2 DEF NextDelete
  <2>5. first \in 1..Len(todo) /\ todo[first] \in Hosts /\ todo[first] \in DOMAIN ix
    BY <2>1, <2>3
  <2> HIDE DEF first
  <2>6. \A i \in first + 1 .. Len(todo) : todo[i] \in Hosts
    BY <2>1, <2>5
  <2>7. SubSeq(todo, first + 1, Len(todo)) \in Seq(Hosts)
    BY <2>1, <2>5, <2>6, SubSeqProperties
  <2>8. Write(todo[first], "gone", TRUE) \in Writes
    BY <2>5, WritesDef
  <2> QED BY <2>4, <2>5, <2>7, <2>8 DEF Write
<1> QED BY <1>1, <1>2

-----------------------------------------------------------------------------
(* What a step does to each variable.                                      *)

CallRecord == [phase : Phases, write : Writes \cup {NoWrite}, todo : Seq(Hosts)]
HeldType == [Hosts -> [name : SUBSET Names, static : SUBSET Reservations,
                       notify : SUBSET BOOLEAN]]

\* The history only grows.
Grows == /\ held' \in HeldType
         /\ \A h \in Hosts, f \in Fields : held[h][f] \subseteq held'[h][f]

\* A change of the box keeps the settled writes that it did not undo.
LEMMA BoxBecomesFacts ==
    ASSUME NEW hosts \in Inventories, BoxBecomes(hosts)
    PROVE  /\ box' = hosts
           /\ settled' \subseteq settled
           /\ SettledOnBox'
<1>1. box' = hosts /\ settled' = {w \in settled : OnBox(hosts, w)}
  BY DEF BoxBecomes
<1> QED BY <1>1 DEF SettledOnBox

\* Adding one value to the history of a field keeps its type and grows it.
LEMMA HeldWith ==
    ASSUME held \in HeldType, NEW h \in Hosts, NEW field \in Fields, NEW value,
           Fits(field, value), held' = [held EXCEPT ![h][field] = @ \cup {value}]
    PROVE  Grows /\ value \in held'[h][field]
<1>1. held[h] \in [name : SUBSET Names, static : SUBSET Reservations, notify : SUBSET BOOLEAN]
  BY DEF HeldType
<1> DEFINE new == [held[h] EXCEPT ![field] = @ \cup {value}]
<1>2. new \in [name : SUBSET Names, static : SUBSET Reservations, notify : SUBSET BOOLEAN]
  BY <1>1 DEF Fits, Fields
<1>3. DOMAIN held[h] = Fields
  BY <1>1 DEF Fields
<1>4. \A f \in Fields : new[f] = IF f = field THEN held[h][f] \cup {value} ELSE held[h][f]
  BY <1>3
<1>5. held' = [held EXCEPT ![h] = new]
  OBVIOUS
<1> HIDE DEF new
<1>6. held' \in HeldType /\ held'[h] = new /\ \A g \in Hosts \ {h} : held'[g] = held[g]
  BY <1>2, <1>5 DEF HeldType
<1>7. \A g \in Hosts, f \in Fields : held[g][f] \subseteq held'[g][f]
  BY <1>4, <1>6
<1>8. value \in held'[h][field]
  <2>1. new[field] = held[h][field] \cup {value}
    BY <1>4
  <2>2. held'[h][field] = new[field]
    BY <1>6
  <2> QED BY <2>1, <2>2
<1> QED BY <1>6, <1>7, <1>8 DEF Grows

\* Recording an inventory in the history.
LEMMA BoxHoldsFacts ==
    ASSUME held \in HeldType, NEW hosts \in Inventories, BoxHolds(hosts)
    PROVE  /\ Grows
           /\ \A h \in DOMAIN hosts, f \in Fields : hosts[h][f] \in held'[h][f]
<1>1. DOMAIN hosts \subseteq Hosts /\ \A h \in DOMAIN hosts : hosts[h] \in Host
  BY InventoryDef
<1>2. \A h \in DOMAIN hosts, f \in Fields : Fits(f, hosts[h][f])
  BY <1>1, HostFields
<1> DEFINE new(h) == [f \in Fields |-> IF h \in DOMAIN hosts THEN held[h][f] \cup {hosts[h][f]}
                                       ELSE held[h][f]]
<1>3. held' = [h \in Hosts |-> new(h)]
  BY DEF BoxHolds
<1>4. ASSUME NEW h \in Hosts
      PROVE  new(h) \in [name : SUBSET Names, static : SUBSET Reservations, notify : SUBSET BOOLEAN]
  <2>1. held[h] \in [name : SUBSET Names, static : SUBSET Reservations, notify : SUBSET BOOLEAN]
    BY DEF HeldType
  <2> QED BY <1>2, <2>1 DEF Fields, Fits
<1>5. \A h \in Hosts, f \in Fields :
         new(h)[f] = IF h \in DOMAIN hosts THEN held[h][f] \cup {hosts[h][f]} ELSE held[h][f]
  OBVIOUS
<1> HIDE DEF new
<1>6. held' \in HeldType /\ \A h \in Hosts : held'[h] = new(h)
  BY <1>3, <1>4 DEF HeldType
<1> QED BY <1>1, <1>5, <1>6 DEF Grows

\* Whatever the app does leaves an inventory on the box.
LEMMA AppFacts ==
    ASSUME TypeOK, App
    PROVE  AppActs /\ \E hosts \in Inventories : BoxBecomes(hosts)
<1>0. box \in Inventories /\ DOMAIN box \subseteq Hosts
  BY InventoryDef DEF TypeOK
<1> DEFINE Goal == AppActs /\ \E hosts \in Inventories : BoxBecomes(hosts)
<1>1. ASSUME NEW h \in Hosts, NEW x \in Names,
             HostJoins(h, [name |-> x, static |-> [n \in Networks |-> Dynamic], notify |-> FALSE])
      PROVE  Goal
  <2> DEFINE host == [name |-> x, static |-> [n \in Networks |-> Dynamic], notify |-> FALSE]
  <2>1. host \in Host
    BY DEF Host, Reservations
  <2> HIDE DEF host
  <2>2. [g \in DOMAIN box \cup {h} |-> IF g = h THEN host ELSE box[g]] \in Inventories
    BY <1>0, <2>1, InventoryAdd
  <2>3. HostJoins(h, host)
    BY <1>1 DEF host
  <2> QED BY <2>2, <2>3 DEF HostJoins
<1>2. ASSUME NEW h \in Hosts, NEW field \in Fields, NEW value, Fits(field, value),
             AppSets(h, field, value)
      PROVE  Goal
  <2>1. [box EXCEPT ![h][field] = value] \in Inventories
    BY <1>0, <1>2, InventoryWith DEF AppSets
  <2> QED BY <1>2, <2>1 DEF AppSets
<1>3. ASSUME NEW h \in Hosts, AppRemoves(h)
      PROVE  Goal
  <2>1. Without(box, h) \in Inventories
    BY <1>0, WithoutFacts
  <2> QED BY <1>3, <2>1 DEF AppRemoves
<1>4. /\ \A h \in Hosts, x \in Names : AppSets(h, "name", x) => Goal
      /\ \A h \in Hosts, r \in Reservations : AppSets(h, "static", r) => Goal
      /\ \A h \in Hosts, b \in BOOLEAN : AppSets(h, "notify", b) => Goal
  <2>1. /\ {"name", "static", "notify"} = Fields
        /\ \A x \in Names : Fits("name", x)
        /\ \A r \in Reservations : Fits("static", r)
        /\ \A b \in BOOLEAN : Fits("notify", b)
    BY DEF Fields, Fits
  <2> QED BY <1>2, <2>1
<1> QED BY <1>1, <1>3, <1>4 DEF App

\* Moving a call to another phase changes nothing else of it.
LEMMA PhaseFacts ==
    ASSUME TypeOK, NEW c \in Calls, NEW phase \in Phases,
           call' = [call EXCEPT ![c].phase = phase]
    PROVE  /\ call' \in [Calls -> CallRecord]
           /\ call'[c].phase = phase
           /\ call'[c].write = call[c].write
           /\ \A d \in Calls \ {c} : call'[d] = call[d]
BY DEF TypeOK, CallRecord

\* A call that begins keeps or gets a write of the right type, which is for a host
\* if it is sent; it is not yet acknowledged, and nothing else changes.
LEMMA BeginFacts ==
    ASSUME TypeOK, NEW c \in Calls, Begin(c)
    PROVE  /\ UNCHANGED <<boxVars, degraded, viewVars, poll, settled>>
           /\ call' \in [Calls -> CallRecord]
           /\ \A d \in Calls \ {c} : call'[d] = call[d]
           /\ call'[c].phase # "acked"
           /\ call'[c].phase = "sent" => call'[c].write \in Writes
<1>0. raw \in Inventories /\ call \in [Calls -> CallRecord]
  BY DEF TypeOK, CallRecord
<1> DEFINE Goal == /\ UNCHANGED <<boxVars, degraded, viewVars, poll, settled>>
                   /\ call' \in [Calls -> CallRecord]
                   /\ \A d \in Calls \ {c} : call'[d] = call[d]
                   /\ call'[c].phase # "acked"
                   /\ call'[c].phase = "sent" => call'[c].write \in Writes
<1>1. ASSUME NEW phase \in {"sent", "refused", "reread", "notFound"},
             NEW w \in Writes \cup {NoWrite}, phase = "sent" => w \in Writes,
             Sends(c, phase, w)
      PROVE  Goal
  <2>1. [phase |-> phase, write |-> w, todo |-> <<>>] \in CallRecord
    BY DEF CallRecord, Phases
  <2> QED BY <1>0, <1>1, <2>1 DEF Sends
<1>2. ASSUME NEW h \in Hosts, NEW x \in Names, SetName(c, h, x)
      PROVE  Goal
  <2>1. Write(h, "name", x) \in Writes
    BY WritesDef
  <2> QED BY <1>1, <1>2, <2>1 DEF SetName
<1>3. ASSUME NEW h \in Hosts, NEW b \in BOOLEAN, SetNotification(c, h, b)
      PROVE  Goal
  <2>1. Write(h, "notify", b) \in Writes
    BY WritesDef
  <2> QED BY <1>1, <1>3, <2>1 DEF SetNotification
<1>4. ASSUME NEW h \in Hosts, NEW n \in Networks, NEW a \in Addresses \cup {Dynamic},
             SetReservation(c, h, n, a)
      PROVE  Goal
  <2>1. h \in DOMAIN raw => raw[h].static \in Reservations
    BY <1>0, InventoryDef DEF Host
  <2>2. AllocationMap(h, n, a) \in Reservations
    BY <2>1 DEF AllocationMap, Reservations
  <2>3. Write(h, "static", AllocationMap(h, n, a)) \in Writes
    BY <2>2, WritesDef
  <2>4. \E phase \in {"sent", "refused"} :
           Sends(c, phase, Write(h, "static", AllocationMap(h, n, a)))
    BY <1>4 DEF SetReservation
  <2> QED BY <1>1, <2>3, <2>4
<1>5. ASSUME NEW h \in Hosts, Reread(c, h)
      PROVE  Goal
  <2>1. Write(h, "gone", TRUE) \in Writes
    BY WritesDef
  <2> QED BY <1>1, <1>5, <2>1 DEF Reread
<1>6. CASE NotFound(c)
  <2>1. call[c].write \in Writes \cup {NoWrite}
    BY <1>0 DEF CallRecord
  <2>2. Sends(c, "notFound", call[c].write)
    BY <1>6 DEF NotFound
  <2> QED BY <1>1, <2>1, <2>2
<1>7. ASSUME NEW list \in DeleteLists, DeleteHosts(c, list)
      PROVE  Goal
  <2>1. list \in Seq(Hosts)
    BY DeleteListsFacts
  <2> DEFINE r == NextDelete(NoWrite, list, index)
  <2> HIDE DEF r
  <2>2. /\ \/ r.phase = "sent" /\ r.write \in Writes
           \/ r.phase = "done" /\ r.write = NoWrite
        /\ r.todo \in Seq(Hosts)
        /\ r = [phase |-> r.phase, write |-> r.write, todo |-> r.todo]
    BY <2>1, NextDeleteFacts DEF r
  <2>3. call' = [call EXCEPT ![c] = r]
        /\ UNCHANGED <<boxVars, degraded, viewVars, poll, settled>>
    BY <1>7 DEF DeleteHosts, r
  <2>4. r \in CallRecord
    BY <2>2 DEF CallRecord, Phases
  <2> QED BY <1>0, <2>2, <2>3, <2>4
<1> QED BY <1>2, <1>3, <1>4, <1>5, <1>6, <1>7 DEF Begin

\* What the caches show of a write, case by case.
LEMMA ShownDef ==
    ASSUME NEW payload, NEW hosts, NEW w
    PROVE  /\ w.field = "gone" => (Shown(payload, hosts, w) <=> w.host \notin DOMAIN hosts)
           /\ w.field = "name" =>
                 (Shown(payload, hosts, w) <=> w.host \in DOMAIN hosts /\ hosts[w.host] = w.value)
           /\ w.field \in Policies =>
                 (Shown(payload, hosts, w) <=>
                    (w.host \in DOMAIN payload => payload[w.host][w.field] = w.value))
<1>1. CASE w.field = "gone"
  BY <1>1 DEF Shown, Policies
<1>2. CASE w.field = "name"
  BY <1>2 DEF Shown, Policies
<1>3. CASE w.field \in Policies
  BY <1>3 DEF Shown, Policies
<1>4. CASE w.field \notin {"gone", "name"} \cup Policies
  BY <1>4
<1> QED BY <1>1, <1>2, <1>3, <1>4

\* A settled write is one of the four kinds.
LEMMA SettledKinds ==
    ASSUME TypeOK, NEW w \in settled
    PROVE  w \in Writes /\ w.host \in Hosts /\ w.field \in {"gone", "name"} \cup Policies
<1>1. w \in Writes
  BY DEF TypeOK
<1> QED BY <1>1, WriteFacts DEF Fields, Policies

-----------------------------------------------------------------------------
(* The invariant.                                                          *)

\* The initial states satisfy the invariant.
LEMMA InitInv == Init => IInv
<1> SUFFICES ASSUME Init PROVE IInv
  OBVIOUS
<1>1. /\ box \in Inventories /\ raw = box
      /\ data = NamesOf(box) /\ index = data
      /\ poll = IdlePoll /\ settled = {}
      /\ call = [c \in Calls |-> NewCall]
  BY HostsAssumption DEF Init
<1>2. DOMAIN box \subseteq Hosts /\ \A h \in DOMAIN box : box[h] \in Host
  BY <1>1, InventoryDef
<1>3. \A h \in DOMAIN box, f \in Fields : Fits(f, box[h][f])
  BY <1>2, HostFields
<1>4. /\ held = [h \in Hosts |-> [f \in Fields |-> IF h \in DOMAIN box THEN {box[h][f]} ELSE {}]]
      /\ appSteps = 0 /\ degraded = 0
  BY DEF Init
<1>5. held \in HeldType
  BY <1>3, <1>4 DEF HeldType, Fields, Fits
<1>6. /\ NamesOf(box) \in NameMaps /\ DOMAIN NamesOf(box) = DOMAIN box
      /\ \A h \in DOMAIN box : NamesOf(box)[h] = box[h].name
  BY <1>1, NamesFacts
<1>7. NoInventory \in Inventories /\ DOMAIN NoInventory = {}
  BY NoInventoryFacts
<1>8. call \in [Calls -> CallRecord]
  BY <1>1 DEF NewCall, CallRecord, Phases
<1>9. TypeOK
  BY <1>1, <1>4, <1>5, <1>6, <1>7, <1>8, BoundsAssumption
     DEF TypeOK, HeldType, CallRecord, IdlePoll
<1>10. \A h \in DOMAIN box, f \in Fields : box[h][f] \in held[h][f]
  BY <1>2, <1>4
<1>11. NoPhantomSettings
  <2>1. \A h \in DOMAIN box : box[h].name \in held[h].name
    BY <1>2, <1>4 DEF Fields, Host
  <2> QED BY <1>1, <1>6, <1>10, <2>1 DEF NoPhantomSettings
<1>12. HeldInv
  BY <1>1, <1>7, <1>10 DEF HeldInv, HoldsOnly, IdlePoll, NewCall
<1>13. ViewsAgree /\ CallInv /\ DegradedInv
  BY <1>1 DEF ViewsAgree, CallInv, DegradedInv, IdlePoll, NewCall
<1>14. SettledOnBox /\ SettledInAnswer /\ SettledUncontested /\ SettledWritesShow
  BY <1>1 DEF SettledOnBox, SettledInAnswer, SettledUncontested, SettledWritesShow
<1> QED BY <1>9, <1>11, <1>12, <1>13, <1>14 DEF IInv

\* A history that grows keeps what is known of unchanged views.
LEMMA GrowsKeeps ==
    ASSUME IInv, Grows, UNCHANGED <<viewVars, poll>>
    PROVE  /\ NoPhantomSettings'
           /\ HoldsOnly(poll.hosts)'
<1>1. \A h \in Hosts, f \in Fields : held[h][f] \subseteq held'[h][f]
  BY DEF Grows
<1>2. \A h \in Hosts : held[h].name \subseteq held'[h].name
  <2>1. "name" \in Fields
    BY DEF Fields
  <2> QED BY <1>1, <2>1
<1>3. DOMAIN data \subseteq Hosts /\ DOMAIN raw \subseteq Hosts /\ DOMAIN poll.hosts \subseteq Hosts
  BY InventoryDef, NameMapDef DEF IInv, TypeOK
<1>4. NoPhantomSettings'
  BY <1>1, <1>2, <1>3 DEF IInv, NoPhantomSettings, viewVars
<1>5. HoldsOnly(poll.hosts)'
  BY <1>1, <1>3 DEF IInv, HeldInv, HoldsOnly
<1> QED BY <1>4, <1>5

\* Every change by the app keeps the invariant.
LEMMA AppInv ==
    ASSUME IInv, App
    PROVE  IInv'
<1>0. TypeOK /\ held \in HeldType
  BY DEF IInv, TypeOK, HeldType
<1>1. PICK hosts \in Inventories : BoxBecomes(hosts)
  BY <1>0, AppFacts
<1>2. AppActs
  BY <1>0, AppFacts
<1>3. box' = hosts /\ settled' \subseteq settled /\ SettledOnBox'
  BY <1>1, BoxBecomesFacts
<1>4. /\ appSteps < MaxAppSteps /\ appSteps' = appSteps + 1
      /\ BoxHolds(hosts)
      /\ UNCHANGED <<degraded, viewVars, poll, call>>
  BY <1>2, <1>3 DEF AppActs
<1>5. Grows /\ \A h \in DOMAIN hosts, f \in Fields : hosts[h][f] \in held'[h][f]
  BY <1>0, <1>4, BoxHoldsFacts
<1>6. TypeOK'
  BY <1>0, <1>3, <1>4, <1>5, BoundsAssumption DEF TypeOK, Grows, HeldType, viewVars
<1>7. NoPhantomSettings' /\ HoldsOnly(poll.hosts)'
  BY <1>4, <1>5, GrowsKeeps
<1>8. \A c \in Calls : call[c].phase = "acked" => call[c].write \in Writes
  BY DEF IInv, CallInv
<1>9. ASSUME NEW c \in Calls, call[c].phase = "acked", call[c].write.field \in Fields
      PROVE  call[c].write.value \in held'[call[c].write.host][call[c].write.field]
  <2>1. call[c].write.host \in Hosts
    BY <1>8, <1>9, WriteFacts
  <2> QED BY <1>5, <1>9, <2>1 DEF IInv, HeldInv, Grows
<1>10. HeldInv'
  BY <1>3, <1>4, <1>5, <1>7, <1>9 DEF HeldInv, HoldsOnly
<1>11. ViewsAgree' /\ CallInv' /\ DegradedInv'
  BY <1>4 DEF IInv, ViewsAgree, CallInv, DegradedInv, viewVars
<1>12. SettledInAnswer' /\ SettledUncontested' /\ SettledWritesShow'
  BY <1>3, <1>4 DEF IInv, SettledInAnswer, SettledUncontested, SettledWritesShow, viewVars
<1> QED BY <1>3, <1>6, <1>7, <1>10, <1>11, <1>12 DEF IInv

\* Every step of a refresh keeps the types and what the other parts of the
\* invariant say of the box and the calls.
LEMMA RefreshFrame ==
    ASSUME IInv, Refresh
    PROVE  /\ TypeOK'
           /\ UNCHANGED <<boxVars, call, settled>>
           /\ CallInv' /\ SettledOnBox' /\ SettledUncontested'
           /\ HeldInv' /\ DegradedInv'
<1>0. TypeOK
  BY DEF IInv
<1> DEFINE PollRecord == [phase : {"idle", "sent", "answered", "degraded", "loaded"},
                          hosts : Inventories]
<1>1. poll \in PollRecord /\ box \in Inventories /\ poll.hosts \in Inventories
  BY <1>0 DEF TypeOK
<1>2. NoInventory \in Inventories /\ DOMAIN NoInventory = {} /\ NamesOf(poll.hosts) \in NameMaps
  BY <1>1, NoInventoryFacts, NamesFacts
<1>3. UNCHANGED <<boxVars, call, settled>>
  BY DEF Refresh, SendPoll, BoxAnswersPoll, BoxAnswersDegraded, PollFails, LoadPayload,
         LoadDegraded, PublishPoll
<1>4. /\ poll' \in PollRecord
      /\ poll'.hosts \in {poll.hosts, box, NoInventory}
      /\ poll'.phase = "degraded" => poll'.hosts = NoInventory
  BY <1>1, <1>2 DEF Refresh, SendPoll, BoxAnswersPoll, BoxAnswersDegraded, PollFails,
                    LoadPayload, LoadDegraded, PublishPoll, IdlePoll
<1>5. /\ raw' \in {raw, poll.hosts}
      /\ \/ UNCHANGED <<data, index>>
         \/ data' = NamesOf(poll.hosts) /\ index' = data'
      /\ \/ degraded' = degraded
         \/ degraded < MaxDegraded /\ degraded' = degraded + 1
  BY DEF Refresh, SendPoll, BoxAnswersPoll, BoxAnswersDegraded, PollFails, LoadPayload,
         LoadDegraded, PublishPoll, viewVars
<1>6. TypeOK'
  <2>1. degraded' \in 0..MaxDegraded
    BY <1>0, <1>5, BoundsAssumption DEF TypeOK
  <2>2. raw' \in Inventories /\ data' \in NameMaps /\ index' \in NameMaps
    BY <1>0, <1>1, <1>2, <1>5 DEF TypeOK
  <2> QED BY <1>0, <1>3, <1>4, <2>1, <2>2 DEF TypeOK, boxVars
<1>7. CallInv' /\ SettledOnBox' /\ SettledUncontested'
  BY <1>3 DEF IInv, CallInv, SettledOnBox, SettledUncontested, boxVars
<1>8. HeldInv'
  BY <1>2, <1>3, <1>4 DEF IInv, HeldInv, HoldsOnly, boxVars
<1> QED BY <1>3, <1>4, <1>6, <1>7, <1>8 DEF DegradedInv

\* Every step of a refresh keeps the invariant.
LEMMA RefreshInv ==
    ASSUME IInv, Refresh
    PROVE  IInv'
<1>0. TypeOK /\ poll.hosts \in Inventories /\ raw \in Inventories
  BY DEF IInv, TypeOK
<1>1. /\ TypeOK' /\ UNCHANGED <<boxVars, call, settled>>
      /\ CallInv' /\ SettledOnBox' /\ SettledUncontested'
      /\ HeldInv' /\ DegradedInv'
  BY RefreshFrame
<1>2. held' = held /\ box' = box /\ settled' = settled
  BY <1>1 DEF boxVars
<1>3. ASSUME UNCHANGED viewVars, SettledInAnswer'
      PROVE  IInv'
  BY <1>1, <1>2, <1>3
     DEF IInv, ViewsAgree, NoPhantomSettings, SettledWritesShow, viewVars
<1>4. CASE SendPoll
  <2>1. poll'.phase = "sent"
    BY <1>0, <1>4 DEF SendPoll, TypeOK
  <2> QED BY <1>3, <1>4, <2>1 DEF SendPoll, SettledInAnswer
<1>5. CASE PollFails
  BY <1>3, <1>5 DEF PollFails, IdlePoll, SettledInAnswer
<1>6. CASE BoxAnswersDegraded
  BY <1>3, <1>6 DEF BoxAnswersDegraded, SettledInAnswer
<1>7. CASE BoxAnswersPoll
  <2>1. poll'.hosts = box /\ UNCHANGED viewVars
    BY <1>7 DEF BoxAnswersPoll
  <2>2. SettledInAnswer'
    BY <1>2, <2>1 DEF IInv, SettledOnBox, SettledInAnswer
  <2> QED BY <1>3, <2>1, <2>2
<1>8. CASE LoadPayload
  <2>1. /\ poll.phase = "answered" /\ poll'.phase = "loaded" /\ poll'.hosts = poll.hosts
        /\ raw' = poll.hosts /\ data' = data /\ index' = index
    BY <1>0, <1>8 DEF LoadPayload, TypeOK
  <2>2. \A w \in settled : OnBox(poll.hosts, w)
    BY <2>1 DEF IInv, SettledInAnswer
  <2>3. SettledInAnswer'
    BY <1>2, <2>1, <2>2 DEF SettledInAnswer
  <2>4. ViewsAgree' /\ NoPhantomSettings'
    BY <1>2, <2>1 DEF IInv, ViewsAgree, NoPhantomSettings, HeldInv, HoldsOnly
  <2>5. ASSUME NEW w \in settled
        PROVE  Shown(raw', data', w)
    <3>1. Shown(raw, data, w)
      BY DEF IInv, SettledWritesShow
    <3>2. CASE w.field \in Policies
      <4>1. OnBox(poll.hosts, w) /\ w.field # "gone"
        BY <2>2, <3>2 DEF Policies
      <4> QED BY <2>1, <3>2, <4>1, ShownDef DEF OnBox
    <3>3. CASE w.field \notin Policies
      BY <1>0, <2>1, <3>1, <3>3, SettledKinds, ShownDef
    <3> QED BY <3>2, <3>3
  <2> QED BY <1>1, <1>2, <2>3, <2>4, <2>5 DEF IInv, SettledWritesShow
<1>9. CASE LoadDegraded
  <2>1. /\ raw' = NoInventory /\ data' = data /\ index' = index
        /\ poll'.phase = "idle"
    BY <1>9 DEF LoadDegraded, IdlePoll, IInv, DegradedInv
  <2>2. DOMAIN raw' = {}
    BY <2>1, NoInventoryFacts
  <2>3. SettledInAnswer' /\ ViewsAgree' /\ NoPhantomSettings'
    BY <1>2, <2>1, <2>2 DEF IInv, SettledInAnswer, ViewsAgree, NoPhantomSettings
  <2>4. ASSUME NEW w \in settled
        PROVE  Shown(raw', data', w)
    <3>1. Shown(raw, data, w)
      BY DEF IInv, SettledWritesShow
    <3> QED BY <1>0, <2>1, <2>2, <3>1, SettledKinds, ShownDef
  <2> QED BY <1>1, <1>2, <2>3, <2>4 DEF IInv, SettledWritesShow
<1>10. CASE PublishPoll
  <2>1. /\ poll.phase = "loaded" /\ poll'.phase = "idle"
        /\ raw' = raw /\ data' = NamesOf(poll.hosts) /\ index' = data'
    BY <1>10 DEF PublishPoll, IdlePoll
  <2>2. /\ DOMAIN data' = DOMAIN poll.hosts
        /\ \A h \in DOMAIN poll.hosts : data'[h] = poll.hosts[h].name
    BY <1>0, <2>1, NamesFacts
  <2>3. \A h \in DOMAIN poll.hosts : poll.hosts[h].name = poll.hosts[h]["name"]
    BY <1>0, InventoryDef DEF Host
  <2>4. \A h \in Hosts : held[h].name = held[h]["name"]
    OBVIOUS
  <2>5. DOMAIN poll.hosts \subseteq Hosts /\ "name" \in Fields
    BY <1>0, InventoryDef DEF Fields
  <2>6. \A h \in DOMAIN poll.hosts : poll.hosts[h]["name"] \in held[h]["name"]
    BY <2>5 DEF IInv, HeldInv, HoldsOnly
  <2>7. NoPhantomSettings'
    BY <1>2, <2>1, <2>2, <2>3, <2>4, <2>5, <2>6 DEF IInv, NoPhantomSettings
  <2>8. SettledInAnswer' /\ ViewsAgree'
    BY <2>1 DEF SettledInAnswer, ViewsAgree
  <2>9. ASSUME NEW w \in settled
        PROVE  Shown(raw', data', w)
    <3>1. Shown(raw, data, w)
      BY DEF IInv, SettledWritesShow
    <3>2. CASE w.field \in Policies
      BY <2>1, <3>1, <3>2, ShownDef
    <3>3. CASE w.field \notin Policies
      <4>1. OnBox(poll.hosts, w)
        BY <2>1, <3>3 DEF IInv, SettledInAnswer
      <4>2. w.field \in {"gone", "name"}
        BY <1>0, <3>3, SettledKinds
      <4>3. CASE w.field = "gone"
        BY <2>2, <4>1, <4>3, ShownDef DEF OnBox
      <4>4. CASE w.field = "name"
        BY <2>2, <2>3, <4>1, <4>4, ShownDef DEF OnBox
      <4> QED BY <4>2, <4>3, <4>4
    <3> QED BY <3>2, <3>3
  <2> QED BY <1>1, <1>2, <2>7, <2>8, <2>9 DEF IInv, SettledWritesShow
<1> QED BY <1>4, <1>5, <1>6, <1>7, <1>8, <1>9, <1>10 DEF Refresh

\* Beginning a call keeps the invariant.
LEMMA BeginInv ==
    ASSUME IInv, NEW c \in Calls, Begin(c)
    PROVE  IInv'
<1>0. TypeOK
  BY DEF IInv
<1>1. /\ UNCHANGED <<boxVars, degraded, viewVars, poll, settled>>
      /\ call' \in [Calls -> CallRecord]
      /\ \A d \in Calls \ {c} : call'[d] = call[d]
      /\ call'[c].phase # "acked"
      /\ call'[c].phase = "sent" => call'[c].write \in Writes
  BY <1>0, BeginFacts
<1>2. TypeOK'
  BY <1>0, <1>1 DEF TypeOK, CallRecord, boxVars, viewVars
<1>3. CallInv' /\ HeldInv' /\ SettledUncontested'
  BY <1>1 DEF IInv, CallInv, HeldInv, HoldsOnly, SettledUncontested, boxVars
<1>4. ViewsAgree' /\ NoPhantomSettings' /\ DegradedInv' /\ SettledOnBox' /\ SettledInAnswer'
      /\ SettledWritesShow'
  BY <1>1 DEF IInv, ViewsAgree, NoPhantomSettings, DegradedInv, SettledOnBox, SettledInAnswer,
              SettledWritesShow, boxVars, viewVars
<1> QED BY <1>2, <1>3, <1>4 DEF IInv

\* The box carrying out a write keeps the invariant: it ends every settled write
\* that it contradicts.
LEMMA BoxSetsInv ==
    ASSUME IInv, NEW c \in Calls, BoxSets(c)
    PROVE  IInv'
<1> DEFINE w == call[c].write
           hosts == IF w.host \in DOMAIN box THEN [box EXCEPT ![w.host][w.field] = w.value]
                    ELSE box
<1>0. TypeOK /\ held \in HeldType /\ box \in Inventories
  BY DEF IInv, TypeOK, HeldType
<1>1. /\ call[c].phase = "sent" /\ w.field \in Fields
      /\ BoxBecomes(hosts)
      /\ held' = [held EXCEPT ![w.host][w.field] = @ \cup {w.value}]
      /\ call' = [call EXCEPT ![c].phase = "acked"]
      /\ UNCHANGED <<appSteps, degraded, viewVars, poll>>
  BY DEF BoxSets
<1>2. w \in Writes /\ w.host \in Hosts /\ Fits(w.field, w.value)
  BY <1>1, WriteFacts DEF IInv, CallInv
<1> HIDE DEF w
<1>3. /\ hosts \in Inventories /\ DOMAIN hosts = DOMAIN box
      /\ w.host \in DOMAIN box => hosts[w.host][w.field] = w.value
      /\ \A h \in DOMAIN box, f \in Fields :
            \/ hosts[h][f] = box[h][f]
            \/ h = w.host /\ f = w.field /\ hosts[h][f] = w.value
  <2>1. CASE w.host \in DOMAIN box
    <3>1. hosts = [box EXCEPT ![w.host][w.field] = w.value]
      BY <2>1
    <3>2. /\ hosts \in Inventories /\ DOMAIN hosts = DOMAIN box
          /\ hosts[w.host][w.field] = w.value
          /\ \A f \in Fields \ {w.field} : hosts[w.host][f] = box[w.host][f]
          /\ \A g \in DOMAIN box \ {w.host} : hosts[g] = box[g]
      BY <1>0, <1>1, <1>2, <2>1, <3>1, InventoryWith
    <3> HIDE DEF hosts
    <3> QED BY <3>2
  <2>2. CASE w.host \notin DOMAIN box
    BY <1>0, <2>2
  <2> QED BY <2>1, <2>2
<1> HIDE DEF hosts
<1>4. box' = hosts /\ settled' \subseteq settled /\ SettledOnBox'
  BY <1>1, <1>3, BoxBecomesFacts
<1>5. Grows /\ w.value \in held'[w.host][w.field]
  BY <1>0, <1>1, <1>2, HeldWith
<1>6. /\ call' \in [Calls -> CallRecord]
      /\ call'[c].phase = "acked" /\ call'[c].write = w
      /\ \A d \in Calls \ {c} : call'[d] = call[d]
  BY <1>0, <1>1, PhaseFacts DEF Phases, w
<1>7. TypeOK'
  BY <1>0, <1>1, <1>3, <1>4, <1>5, <1>6 DEF TypeOK, CallRecord, Grows, HeldType, viewVars
<1>8. NoPhantomSettings' /\ HoldsOnly(poll.hosts)'
  BY <1>1, <1>5, GrowsKeeps
<1>9. CallInv'
  BY <1>2, <1>6 DEF IInv, CallInv
<1>10. HeldInv'
  <2>1. \A h \in DOMAIN box, f \in Fields : box[h][f] \in held'[h][f]
    <3>1. DOMAIN box \subseteq Hosts
      BY <1>0, InventoryDef
    <3> QED BY <1>5, <3>1 DEF IInv, HeldInv, HoldsOnly, Grows
  <2>2. HoldsOnly(box)'
    BY <1>3, <1>4, <1>5, <2>1 DEF HoldsOnly
  <2>3. ASSUME NEW d \in Calls, call'[d].phase = "acked", call'[d].write.field \in Fields
        PROVE  call'[d].write.value \in held'[call'[d].write.host][call'[d].write.field]
    <3>1. CASE d = c
      BY <1>5, <1>6, <3>1
    <3>2. CASE d # c
      <4>1. call'[d] = call[d] /\ call[d].write.host \in Hosts
        BY <1>6, <2>3, <3>2, WriteFacts DEF IInv, CallInv
      <4> QED BY <1>5, <2>3, <4>1 DEF IInv, HeldInv, Grows
    <3> QED BY <3>1, <3>2
  <2> QED BY <1>8, <2>2, <2>3 DEF HeldInv
<1>11. SettledUncontested'
  <2> SUFFICES ASSUME NEW v \in settled', NEW d \in Calls, call'[d].phase = "acked",
                      call'[d].write.host = v.host, v.field # "gone"
               PROVE  /\ call'[d].write.field # "gone"
                      /\ call'[d].write.field = v.field => call'[d].write.value = v.value
    BY DEF SettledUncontested
  <2>1. CASE d = c
    <3>1. v.host \in DOMAIN hosts /\ hosts[v.host][v.field] = v.value
      BY <1>4 DEF SettledOnBox, OnBox
    <3> QED BY <1>1, <1>3, <1>6, <2>1, <3>1 DEF Fields
  <2>2. CASE d # c
    BY <1>4, <1>6, <2>2 DEF IInv, SettledUncontested
  <2> QED BY <2>1, <2>2
<1>12. ViewsAgree' /\ DegradedInv' /\ SettledInAnswer' /\ SettledWritesShow'
  BY <1>1, <1>4 DEF IInv, ViewsAgree, DegradedInv, SettledInAnswer, SettledWritesShow, viewVars
<1> QED BY <1>4, <1>7, <1>8, <1>9, <1>10, <1>11, <1>12 DEF IInv

\* The box carrying out a deletion keeps the invariant.
LEMMA BoxDeletesInv ==
    ASSUME IInv, NEW c \in Calls, BoxDeletes(c)
    PROVE  IInv'
<1> DEFINE w == call[c].write
           hosts == Without(box, w.host)
<1>0. TypeOK /\ held \in HeldType /\ box \in Inventories
  BY DEF IInv, TypeOK, HeldType
<1>1. /\ call[c].phase = "sent" /\ w.field = "gone"
      /\ BoxBecomes(hosts)
      /\ call' = [call EXCEPT ![c].phase = "acked"]
      /\ UNCHANGED <<appSteps, degraded, held, viewVars, poll>>
  BY DEF BoxDeletes
<1>2. w \in Writes
  BY <1>1 DEF IInv, CallInv
<1> HIDE DEF w
<1>3. /\ hosts \in Inventories /\ DOMAIN hosts = DOMAIN box \ {w.host}
      /\ \A g \in DOMAIN hosts : hosts[g] = box[g]
  BY <1>0, WithoutFacts
<1> HIDE DEF hosts
<1>4. box' = hosts /\ settled' \subseteq settled /\ SettledOnBox'
  BY <1>1, <1>3, BoxBecomesFacts
<1>5. /\ call' \in [Calls -> CallRecord]
      /\ call'[c].phase = "acked" /\ call'[c].write = w
      /\ \A d \in Calls \ {c} : call'[d] = call[d]
  BY <1>0, <1>1, PhaseFacts DEF Phases, w
<1>6. TypeOK'
  BY <1>0, <1>1, <1>3, <1>4, <1>5 DEF TypeOK, CallRecord, viewVars
<1>7. CallInv'
  BY <1>2, <1>5 DEF IInv, CallInv
<1>8. NoPhantomSettings'
  BY <1>1 DEF IInv, NoPhantomSettings, viewVars
<1>9. HeldInv'
  <2>1. \A d \in Calls : call'[d].phase = "acked" /\ call'[d].write.field \in Fields =>
           d # c /\ call'[d] = call[d]
    BY <1>1, <1>5 DEF Fields
  <2> QED BY <1>1, <1>3, <1>4, <2>1 DEF IInv, HeldInv, HoldsOnly
<1>10. SettledUncontested'
  <2> SUFFICES ASSUME NEW v \in settled', NEW d \in Calls, call'[d].phase = "acked",
                      call'[d].write.host = v.host, v.field # "gone"
               PROVE  /\ call'[d].write.field # "gone"
                      /\ call'[d].write.field = v.field => call'[d].write.value = v.value
    BY DEF SettledUncontested
  <2>1. v.host \in DOMAIN hosts
    BY <1>4 DEF SettledOnBox, OnBox
  <2>2. d # c
    BY <1>3, <1>5, <2>1
  <2> QED BY <1>4, <1>5, <2>2 DEF IInv, SettledUncontested
<1>11. ViewsAgree' /\ DegradedInv' /\ SettledInAnswer' /\ SettledWritesShow'
  BY <1>1, <1>4 DEF IInv, ViewsAgree, DegradedInv, SettledInAnswer, SettledWritesShow, viewVars
<1> QED BY <1>4, <1>6, <1>7, <1>8, <1>9, <1>10, <1>11 DEF IInv

\* A failing request keeps the invariant.
LEMMA RequestFailsInv ==
    ASSUME IInv, NEW c \in Calls, RequestFails(c)
    PROVE  IInv'
<1>0. TypeOK
  BY DEF IInv
<1>1. /\ call' = [call EXCEPT ![c].phase = "failed"]
      /\ UNCHANGED <<boxVars, degraded, viewVars, poll, settled>>
  BY DEF RequestFails
<1>2. /\ call' \in [Calls -> CallRecord]
      /\ call'[c].phase = "failed"
      /\ \A d \in Calls \ {c} : call'[d] = call[d]
  BY <1>0, <1>1, PhaseFacts DEF Phases
<1>3. TypeOK'
  BY <1>0, <1>1, <1>2 DEF TypeOK, CallRecord, boxVars, viewVars
<1>4. CallInv' /\ HeldInv' /\ SettledUncontested'
  BY <1>1, <1>2 DEF IInv, CallInv, HeldInv, HoldsOnly, SettledUncontested, boxVars
<1>5. ViewsAgree' /\ NoPhantomSettings' /\ DegradedInv' /\ SettledOnBox' /\ SettledInAnswer'
      /\ SettledWritesShow'
  BY <1>1 DEF IInv, ViewsAgree, NoPhantomSettings, DegradedInv, SettledOnBox, SettledInAnswer,
              SettledWritesShow, boxVars, viewVars
<1> QED BY <1>3, <1>4, <1>5 DEF IInv

\* The end of a call keeps the invariant if what it publishes shows only known
\* values and every write settled before.
LEMMA FinishInv ==
    ASSUME IInv, NEW c \in Calls, NEW next \in CallRecord, Finish(c, next),
           call[c].phase = "acked", next.phase # "acked",
           next.phase = "sent" => next.write \in Writes,
           raw' \in Inventories, data' \in NameMaps, index' = data',
           \A h \in DOMAIN data' : data'[h] \in held[h].name,
           \A h \in DOMAIN raw' : \A f \in Fields : raw'[h][f] \in held[h][f],
           \A w \in settled : Shown(raw', data', w)
    PROVE  IInv'
<1>0. TypeOK
  BY DEF IInv
<1>1. /\ call' = [call EXCEPT ![c] = next]
      /\ UNCHANGED <<boxVars, degraded, poll>>
      /\ settled' \subseteq settled \cup {call[c].write}
      /\ call[c].write \in settled' \ settled => Undisturbed(c)
  BY DEF Finish
<1>2. /\ call' \in [Calls -> CallRecord]
      /\ call'[c] = next
      /\ \A d \in Calls \ {c} : call'[d] = call[d]
  BY <1>0, <1>1 DEF TypeOK, CallRecord
<1>3. call[c].write \in Writes
  BY DEF IInv, CallInv
<1>4. TypeOK'
  BY <1>0, <1>1, <1>2, <1>3 DEF TypeOK, CallRecord, boxVars
<1>5. CallInv'
  BY <1>2 DEF IInv, CallInv
<1>6. ViewsAgree' /\ NoPhantomSettings'
  BY <1>1 DEF ViewsAgree, NoPhantomSettings, boxVars
<1>7. HeldInv'
  BY <1>1, <1>2 DEF IInv, HeldInv, HoldsOnly, boxVars
<1>8. DegradedInv'
  BY <1>1 DEF IInv, DegradedInv
<1>9. ASSUME NEW w \in settled' \ settled
      PROVE  /\ w = call[c].write
             /\ poll.phase # "answered"
             /\ poll.phase = "loaded" => w.field \in Policies
             /\ \A d \in Calls \ {c} :
                   call[d].phase = "acked" /\ call[d].write.host = w.host
                   => w.field # "gone" /\ call[d].write.field \notin {"gone", w.field}
             /\ OnBox(box, w)
             /\ Shown(raw', data', w)
  BY <1>1 DEF Undisturbed
<1>10. SettledOnBox' /\ SettledInAnswer'
  BY <1>1, <1>9 DEF IInv, SettledOnBox, SettledInAnswer, boxVars
<1>11. SettledUncontested'
  <2> SUFFICES ASSUME NEW w \in settled', NEW d \in Calls, call'[d].phase = "acked",
                      call'[d].write.host = w.host, w.field # "gone"
               PROVE  /\ call'[d].write.field # "gone"
                      /\ call'[d].write.field = w.field => call'[d].write.value = w.value
    BY DEF SettledUncontested
  <2>1. d # c /\ call'[d] = call[d]
    BY <1>2
  <2>2. CASE w \in settled
    BY <2>1, <2>2 DEF IInv, SettledUncontested
  <2>3. CASE w \notin settled
    BY <1>9, <2>1, <2>3
  <2> QED BY <2>2, <2>3
<1>12. SettledWritesShow'
  BY <1>9 DEF SettledWritesShow
<1> QED BY <1>4, <1>5, <1>6, <1>7, <1>8, <1>10, <1>11, <1>12 DEF IInv

\* An accepted call's value is known, and a settled write for its host is about
\* another field or has the same value.
LEMMA AckedFacts ==
    ASSUME IInv, NEW c \in Calls, call[c].phase = "acked"
    PROVE  LET w == call[c].write
           IN  /\ w \in Writes /\ w.host \in Hosts
               /\ w.field \in Fields => Fits(w.field, w.value) /\ w.value \in held[w.host][w.field]
               /\ \A v \in settled : v.host = w.host /\ v.field # "gone" =>
                     /\ w.field # "gone"
                     /\ w.field = v.field => w.value = v.value
<1>1. call[c].write \in Writes
  BY DEF IInv, CallInv
<1>2. call[c].write.host \in Hosts
      /\ (call[c].write.field \in Fields => Fits(call[c].write.field, call[c].write.value))
  BY <1>1, WriteFacts
<1> QED BY <1>1, <1>2 DEF IInv, HeldInv, SettledUncontested

\* A call that is over is a call.
LEMMA DoneFacts ==
    ASSUME TypeOK, NEW c \in Calls
    PROVE  Done(c) \in CallRecord /\ Done(c).phase = "done"
BY DEF TypeOK, Done, CallRecord, Phases

\* Publishing an accepted name keeps the invariant.
LEMMA NameReturnsInv ==
    ASSUME IInv, NEW c \in Calls, NameReturns(c)
    PROVE  IInv'
<1> DEFINE w == call[c].write
<1>0. TypeOK /\ data \in NameMaps /\ raw \in Inventories
  BY DEF IInv, TypeOK
<1>1. /\ call[c].phase = "acked" /\ w.field = "name"
      /\ data' = IF w.host \in DOMAIN data THEN [data EXCEPT ![w.host] = w.value] ELSE data
      /\ index' = data' /\ raw' = raw
      /\ Finish(c, Done(c))
  BY DEF NameReturns, Publish
<1>2. /\ w.value \in Names /\ w.value \in held[w.host].name
      /\ \A v \in settled : v.host = w.host /\ v.field # "gone" =>
            (v.field = "name" => v.value = w.value)
  BY <1>1, AckedFacts DEF Fields, Fits
<1> HIDE DEF w
<1>3. DOMAIN data \subseteq Hosts /\ data \in [DOMAIN data -> Names]
  BY <1>0, NameMapDef
<1>4. /\ DOMAIN data' = DOMAIN data
      /\ data' \in [DOMAIN data' -> Names]
      /\ \A h \in DOMAIN data : data'[h] = IF h = w.host THEN w.value ELSE data[h]
  BY <1>1, <1>2, <1>3
<1>5. data' \in NameMaps
  BY <1>3, <1>4, NameMapDef
<1>6. \A h \in DOMAIN data' : data'[h] \in held[h].name
  BY <1>2, <1>4 DEF IInv, NoPhantomSettings
<1>7. \A h \in DOMAIN raw' : \A f \in Fields : raw'[h][f] \in held[h][f]
  BY <1>1 DEF IInv, NoPhantomSettings
<1>8. ASSUME NEW v \in settled
      PROVE  Shown(raw', data', v)
  <2>1. Shown(raw, data, v) /\ v.field \in {"gone", "name"} \cup Policies
    BY <1>0, SettledKinds DEF IInv, SettledWritesShow
  <2>2. CASE v.field = "gone"
    BY <1>4, <2>1, <2>2, ShownDef
  <2>3. CASE v.field = "name"
    BY <1>2, <1>4, <2>1, <2>3, ShownDef
  <2>4. CASE v.field \in Policies
    BY <1>1, <2>1, <2>4, ShownDef
  <2> QED BY <2>1, <2>2, <2>3, <2>4
<1>9. Done(c) \in CallRecord /\ Done(c).phase = "done"
  BY <1>0, DoneFacts
<1> QED BY <1>0, <1>1, <1>5, <1>6, <1>7, <1>8, <1>9, FinishInv

\* Patching an accepted policy in the payload keeps the invariant.
LEMMA PolicyReturnsInv ==
    ASSUME IInv, NEW c \in Calls, PolicyReturns(c)
    PROVE  IInv'
<1> DEFINE w == call[c].write
<1>0. TypeOK /\ data \in NameMaps /\ raw \in Inventories
  BY DEF IInv, TypeOK
<1>1. /\ call[c].phase = "acked" /\ w.field \in Policies
      /\ raw' = IF w.host \in DOMAIN raw THEN [raw EXCEPT ![w.host][w.field] = w.value] ELSE raw
      /\ data' = data /\ index' = index
      /\ Finish(c, Done(c))
  BY DEF PolicyReturns
<1>2. w.field \in Fields /\ w.field # "name" /\ w.field # "gone"
  BY <1>1 DEF Fields, Policies
<1>3. /\ Fits(w.field, w.value) /\ w.value \in held[w.host][w.field]
      /\ \A v \in settled : v.host = w.host /\ v.field # "gone" =>
            (v.field = w.field => v.value = w.value)
  BY <1>1, <1>2, AckedFacts
<1> HIDE DEF w
<1>4. /\ raw' \in Inventories
      /\ DOMAIN raw' = DOMAIN raw
      /\ w.host \in DOMAIN raw => raw'[w.host][w.field] = w.value
      /\ \A h \in DOMAIN raw, f \in Fields : h # w.host \/ f # w.field => raw'[h][f] = raw[h][f]
  <2>1. CASE w.host \in DOMAIN raw
    <3> DEFINE new == [raw EXCEPT ![w.host][w.field] = w.value]
    <3>1. raw' = new
      BY <1>1, <2>1
    <3>2. /\ new \in Inventories /\ DOMAIN new = DOMAIN raw
          /\ new[w.host][w.field] = w.value
          /\ \A f \in Fields \ {w.field} : new[w.host][f] = raw[w.host][f]
          /\ \A g \in DOMAIN raw \ {w.host} : new[g] = raw[g]
      BY <1>0, <1>2, <1>3, <2>1, InventoryWith
    <3> HIDE DEF new
    <3> QED BY <3>1, <3>2
  <2>2. CASE w.host \notin DOMAIN raw
    BY <1>0, <1>1, <2>2
  <2> QED BY <2>1, <2>2
<1>5. \A h \in DOMAIN raw' : \A f \in Fields : raw'[h][f] \in held[h][f]
  BY <1>3, <1>4 DEF IInv, NoPhantomSettings
<1>6. \A h \in DOMAIN data' : data'[h] \in held[h].name
  BY <1>1 DEF IInv, NoPhantomSettings
<1>7. ASSUME NEW v \in settled
      PROVE  Shown(raw', data', v)
  <2>1. Shown(raw, data, v) /\ v.field \in {"gone", "name"} \cup Policies
    BY <1>0, SettledKinds DEF IInv, SettledWritesShow
  <2>2. CASE v.field \in Policies
    <3>1. v.field \in Fields /\ v.field # "gone"
      BY <2>2 DEF Policies, Fields
    <3> QED BY <1>3, <1>4, <2>1, <2>2, <3>1, ShownDef
  <2>3. CASE v.field \in {"gone", "name"}
    BY <1>1, <2>1, <2>3, ShownDef
  <2> QED BY <2>1, <2>2, <2>3
<1>8. Done(c) \in CallRecord /\ Done(c).phase = "done"
  BY <1>0, DoneFacts
<1>9. index' = data'
  BY <1>1 DEF IInv, ViewsAgree
<1> QED BY <1>0, <1>1, <1>4, <1>5, <1>6, <1>7, <1>8, <1>9, FinishInv

\* Dropping a deleted host from index and snapshot, and going on with the next host
\* of the list, keeps the invariant.
LEMMA DeleteReturnsInv ==
    ASSUME IInv, NEW c \in Calls, DeleteReturns(c)
    PROVE  IInv'
<1> DEFINE w == call[c].write
           next == NextDelete(w, call[c].todo, index')
<1>0. TypeOK /\ data \in NameMaps /\ raw \in Inventories /\ call[c].todo \in Seq(Hosts)
  BY DEF IInv, TypeOK
<1>1. /\ call[c].phase = "acked" /\ w.field = "gone"
      /\ data' = Without(data, w.host) /\ index' = data' /\ raw' = raw
      /\ Finish(c, next)
  BY DEF DeleteReturns, Publish
<1>2. w \in Writes /\ \A v \in settled : v.host = w.host => v.field = "gone"
  BY <1>1, AckedFacts
<1> HIDE DEF w, next
<1>3. /\ data' \in NameMaps
      /\ DOMAIN data' = DOMAIN data \ {w.host}
      /\ \A g \in DOMAIN data' : data'[g] = data[g]
  <2> DEFINE new == Without(data, w.host)
  <2>1. /\ new \in NameMaps
        /\ DOMAIN new = DOMAIN data \ {w.host}
        /\ \A g \in DOMAIN data \ {w.host} : new[g] = data[g]
    BY <1>0, WithoutFacts
  <2>2. data' = new
    BY <1>1
  <2> HIDE DEF new
  <2> QED BY <2>1, <2>2
<1>4. /\ \/ next.phase = "sent" /\ next.write \in Writes
         \/ next.phase = "done" /\ next.write = w
      /\ next.todo \in Seq(Hosts)
      /\ next = [phase |-> next.phase, write |-> next.write, todo |-> next.todo]
  BY <1>0, NextDeleteFacts DEF next
<1>5. next \in CallRecord /\ next.phase # "acked" /\ (next.phase = "sent" => next.write \in Writes)
  BY <1>2, <1>4 DEF CallRecord, Phases
<1>6. \A h \in DOMAIN data' : data'[h] \in held[h].name
  BY <1>3 DEF IInv, NoPhantomSettings
<1>7. \A h \in DOMAIN raw' : \A f \in Fields : raw'[h][f] \in held[h][f]
  BY <1>1 DEF IInv, NoPhantomSettings
<1>8. ASSUME NEW v \in settled
      PROVE  Shown(raw', data', v)
  <2>1. Shown(raw, data, v) /\ v.field \in {"gone", "name"} \cup Policies
    BY <1>0, SettledKinds DEF IInv, SettledWritesShow
  <2>2. CASE v.field = "gone"
    BY <1>3, <2>1, <2>2, ShownDef
  <2>3. CASE v.field = "name"
    <3>1. v.host # w.host
      BY <1>2, <2>3
    <3> QED BY <1>3, <2>1, <2>3, <3>1, ShownDef
  <2>4. CASE v.field \in Policies
    BY <1>1, <2>1, <2>4, ShownDef
  <2> QED BY <2>1, <2>2, <2>3, <2>4
<1> QED BY <1>0, <1>1, <1>3, <1>5, <1>6, <1>7, <1>8, FinishInv

\* A step that changes nothing keeps the invariant.
LEMMA StutterInv ==
    ASSUME IInv, UNCHANGED vars
    PROVE  IInv'
<1>1. TypeOK' /\ ViewsAgree' /\ CallInv' /\ NoPhantomSettings' /\ HeldInv' /\ DegradedInv'
  BY DEF IInv, TypeOK, ViewsAgree, CallInv, NoPhantomSettings, HeldInv, HoldsOnly, DegradedInv,
         vars, boxVars, viewVars
<1>2. SettledOnBox' /\ SettledInAnswer' /\ SettledUncontested' /\ SettledWritesShow'
  BY DEF IInv, SettledOnBox, SettledInAnswer, SettledUncontested, SettledWritesShow,
         vars, boxVars, viewVars
<1> QED BY <1>1, <1>2 DEF IInv

\* The invariant of the host inventory is inductive: every reachable state satisfies
\* it, however many hosts, networks, calls, changes by the app and answers without
\* hosts there are.
THEOREM HostInvariant == Spec => []IInv
<1>1. IInv /\ [Next]_vars => IInv'
  <2> SUFFICES ASSUME IInv, [Next]_vars PROVE IInv'
    OBVIOUS
  <2>1. CASE App
    BY <2>1, AppInv
  <2>2. CASE Refresh
    BY <2>2, RefreshInv
  <2>3. ASSUME NEW c \in Calls, Begin(c) \/ Deliver(c) \/ Return(c)
        PROVE  IInv'
    BY <2>3, BeginInv, BoxSetsInv, BoxDeletesInv, RequestFailsInv, NameReturnsInv,
       PolicyReturnsInv, DeleteReturnsInv DEF Deliver, Return
  <2>4. CASE UNCHANGED vars
    BY <2>4, StutterInv
  <2> QED BY <2>1, <2>2, <2>3, <2>4 DEF Next
<1> QED BY <1>1, InitInv, PTL DEF Spec

-----------------------------------------------------------------------------
(* The properties.                                                         *)

\* Every reachable state of the host inventory is well typed.
THEOREM TypeCorrect == Spec => []TypeOK
<1>1. IInv => TypeOK
  BY DEF IInv
<1> QED BY <1>1, HostInvariant, PTL

\* The host manager's index always holds exactly the hosts of the snapshot.
THEOREM ViewsAlwaysAgree == Spec => []ViewsAgree
<1>1. IInv => ViewsAgree
  BY DEF IInv
<1> QED BY <1>1, HostInvariant, PTL

\* No name, reservation map or notification setting is shown that the box has never
\* had or accepted for that host.
THEOREM CachesNeverInvent == Spec => []NoPhantomSettings
<1>1. IInv => NoPhantomSettings
  BY DEF IInv
<1> QED BY <1>1, HostInvariant, PTL

\* A write or deletion nothing under way can undo stays what the caches show until
\* the box changes.
THEOREM SettledWritesStayVisible == Spec => []SettledWritesShow
<1>1. IInv => SettledWritesShow
  BY DEF IInv
<1> QED BY <1>1, HostInvariant, PTL
=============================================================================
