--------------------------- MODULE HostInventory ---------------------------
(***************************************************************************)
(* The host inventory of one config entry, cached twice.  The normalized   *)
(* hosts are in the coordinator's snapshot and in the host manager's index;*)
(* the policies of a host (reservations and notifications) are only in the *)
(* raw init payload the coordinator keeps.  A refresh replaces the payload *)
(* as soon as it has arrived and the normalized hosts after further        *)
(* fetches; a service call patches one or the other when it was accepted.  *)
(*                                                                         *)
(* Hosts are the devices other than the box itself, which every healthy    *)
(* payload lists too.  "name" stands for the three string settings (name,  *)
(* DNS host name, device type), which take the same path.                  *)
(***************************************************************************)
EXTENDS Naturals, Sequences

CONSTANTS
    Hosts,         \* host MAC addresses
    Start,         \* the hosts of the box when the entry finished its setup
    Names,         \* values of a string setting
    Networks,      \* network uuids
    Addresses,     \* IPv4 addresses that can be reserved
    Dynamic,       \* no reserved address
    Calls,         \* service calls, each issued at most once
    NoHost,        \* the host of a call that was not issued yet
    MaxAppSteps,   \* bound: how often the app changes the hosts
    MaxDegraded    \* bound: how often the box answers without its hosts

Reservations == [Networks -> Addresses \cup {Dynamic}]
Host == [name : Names, static : Reservations, notify : BOOLEAN]

\* Inventories: the hosts of a payload by address.
Inventories == UNION {[S -> Host] : S \in SUBSET Hosts}

ASSUME HostsAssumption == Start \in Inventories /\ NoHost \notin Hosts
ASSUME DynamicAssumption == Dynamic \notin Addresses
ASSUME BoundsAssumption == MaxAppSteps \in Nat /\ MaxDegraded \in Nat

VARIABLES
    box,       \* hosts stored on the box
    appSteps,  \* changes the app has made
    degraded,  \* answers without hosts so far
    raw,       \* hosts of coordinator.last_init_payload
    data,      \* names in coordinator.data.hosts
    index,     \* the same in host_manager._host_index
    poll,      \* the refresh under way
    call,      \* service calls under way
    held,      \* history: the values the box has had or accepted for each field
    settled    \* history: writes that nothing under way can hide

boxVars == <<box, appSteps, held>>
viewVars == <<raw, data, index>>
vars == <<boxVars, degraded, viewVars, poll, call, settled>>

-----------------------------------------------------------------------------
Fields == {"name", "static", "notify"}
Policies == {"static", "notify"}

NamesOf(hosts) == [h \in DOMAIN hosts |-> hosts[h].name]
Without(f, h) == [g \in DOMAIN f \ {h} |-> f[g]]
NoInventory == [h \in {} |-> NoHost]

\* What a call asks the box for: a new value of one field, or no such host.
Write(h, field, value) == [host |-> h, field |-> field, value |-> value]
Writes ==
    {Write(h, "name", x) : h \in Hosts, x \in Names}
        \cup {Write(h, "static", r) : h \in Hosts, r \in Reservations}
        \cup {Write(h, "notify", b) : h \in Hosts, b \in BOOLEAN}
        \cup {Write(h, "gone", TRUE) : h \in Hosts}
NoWrite == Write(NoHost, "gone", TRUE)

IdlePoll == [phase |-> "idle", hosts |-> NoInventory]
NewCall == [phase |-> "new", write |-> NoWrite, todo |-> <<>>]

Init ==
    /\ box = Start
    /\ appSteps = 0
    /\ degraded = 0
    /\ raw = box
    /\ data = NamesOf(box)
    /\ index = data
    /\ poll = IdlePoll
    /\ call = [c \in Calls |-> NewCall]
    /\ held = [h \in Hosts |-> [f \in Fields |-> IF h \in DOMAIN box THEN {box[h][f]} ELSE {}]]
    /\ settled = {}

-----------------------------------------------------------------------------
(* The box and its app.                                                    *)

\* The box is as write w left it.
OnBox(hosts, w) ==
    IF w.field = "gone"
    THEN w.host \notin DOMAIN hosts
    ELSE w.host \in DOMAIN hosts /\ hosts[w.host][w.field] = w.value

BoxBecomes(hosts) ==
    /\ box' = hosts
    /\ settled' = {w \in settled : OnBox(hosts, w)}

BoxHolds(hosts) ==
    held' = [h \in Hosts |-> [f \in Fields |->
               IF h \in DOMAIN hosts THEN held[h][f] \cup {hosts[h][f]} ELSE held[h][f]]]

AppActs ==
    /\ appSteps < MaxAppSteps
    /\ appSteps' = appSteps + 1
    /\ BoxHolds(box')
    /\ UNCHANGED <<degraded, viewVars, poll, call>>

HostJoins(h, host) ==
    /\ h \notin DOMAIN box
    /\ BoxBecomes([g \in DOMAIN box \cup {h} |-> IF g = h THEN host ELSE box[g]])
    /\ AppActs

AppSets(h, field, value) ==
    /\ h \in DOMAIN box
    /\ BoxBecomes([box EXCEPT ![h][field] = value])
    /\ AppActs

AppRemoves(h) ==
    /\ h \in DOMAIN box
    /\ BoxBecomes(Without(box, h))
    /\ AppActs

-----------------------------------------------------------------------------
(* The refresh: _async_update_data.                                        *)

SendPoll ==
    /\ poll.phase = "idle"
    /\ poll' = [poll EXCEPT !.phase = "sent"]
    /\ UNCHANGED <<boxVars, degraded, viewVars, call, settled>>

BoxAnswersPoll ==
    /\ poll.phase = "sent"
    /\ poll' = [phase |-> "answered", hosts |-> box]
    /\ UNCHANGED <<boxVars, degraded, viewVars, call, settled>>

BoxAnswersDegraded ==
    /\ poll.phase = "sent"
    /\ degraded < MaxDegraded
    /\ degraded' = degraded + 1
    /\ poll' = [phase |-> "degraded", hosts |-> NoInventory]
    /\ UNCHANGED <<boxVars, viewVars, call, settled>>

PollFails ==
    /\ poll.phase \in {"sent", "answered", "degraded"}
    /\ poll' = IdlePoll
    /\ UNCHANGED <<boxVars, degraded, viewVars, call, settled>>

\* The payload becomes last_init_payload before anything else is done with it.
LoadPayload ==
    /\ poll.phase = "answered"
    /\ raw' = poll.hosts
    /\ poll' = [poll EXCEPT !.phase = "loaded"]
    /\ UNCHANGED <<boxVars, degraded, data, index, call, settled>>

\* A payload without hosts is a failed refresh, after it was stored.
LoadDegraded ==
    /\ poll.phase = "degraded"
    /\ raw' = poll.hosts
    /\ poll' = IdlePoll
    /\ UNCHANGED <<boxVars, degraded, data, index, call, settled>>

\* Faulty variant: the payload is stored again with the hosts.
PublishPollStoresPayload ==
    /\ poll.phase = "loaded"
    /\ raw' = poll.hosts
    /\ data' = NamesOf(poll.hosts)
    /\ index' = data'
    /\ poll' = IdlePoll
    /\ UNCHANGED <<boxVars, degraded, call, settled>>

\* After the awaited usage and quality fetches: the index is rebuilt from the
\* snapshot that the coordinator publishes in the same step.
PublishPoll ==
    /\ poll.phase = "loaded"
    /\ data' = NamesOf(poll.hosts)
    /\ index' = data'
    /\ poll' = IdlePoll
    /\ UNCHANGED <<boxVars, degraded, raw, call, settled>>

-----------------------------------------------------------------------------
(* One service call, up to the moment its request leaves.                  *)

\* The call is new, or has asked for a refresh because it did not find h.
Ready(c, h) ==
    \/ call[c].phase = "new"
    \/ call[c].phase = "reread" /\ call[c].write.host = h

Sends(c, phase, w) ==
    /\ call' = [call EXCEPT ![c] = [phase |-> phase, write |-> w, todo |-> <<>>]]
    /\ UNCHANGED <<boxVars, degraded, viewVars, poll, settled>>

SetName(c, h, x) ==
    /\ Ready(c, h)
    /\ h \in DOMAIN index
    /\ Sends(c, "sent", Write(h, "name", x))

SetNotification(c, h, b) ==
    /\ Ready(c, h)
    /\ h \in DOMAIN index
    /\ Sends(c, "sent", Write(h, "notify", b))

\* _validate_dhcp_reservation_request, against the cached payload.
InUse(h, n, a) ==
    a # Dynamic /\ \E g \in DOMAIN raw \ {h} : raw[g].static[n] = a

\* The whole allocation map is sent: the cached one with one network replaced.
AllocationMap(h, n, a) ==
    [m \in Networks |-> IF m = n THEN a
                        ELSE IF h \in DOMAIN raw THEN raw[h].static[m] ELSE Dynamic]

SetReservation(c, h, n, a) ==
    /\ Ready(c, h)
    /\ h \in DOMAIN index
    /\ IF InUse(h, n, a)
       THEN Sends(c, "refused", Write(h, "static", AllocationMap(h, n, a)))
       ELSE Sends(c, "sent", Write(h, "static", AllocationMap(h, n, a)))

\* A miss asks for a refresh once.  The debouncer may drop that request, so the
\* second look may see the same inventory.
Reread(c, h) ==
    /\ call[c].phase = "new"
    /\ h \notin DOMAIN index
    /\ Sends(c, "reread", Write(h, "gone", TRUE))

NotFound(c) ==
    /\ call[c].phase = "reread"
    /\ call[c].write.host \notin DOMAIN index
    /\ Sends(c, "notFound", call[c].write)

\* Lists of a delete_host call.
DeleteLists == {<<g>> : g \in Hosts} \cup {<<g, h>> : g, h \in Hosts}

\* delete_host goes through its list and skips what the index does not hold then.
NextDelete(w, todo, ix) ==
    LET present == {i \in DOMAIN todo : todo[i] \in DOMAIN ix}
        first == CHOOSE i \in present : \A j \in present : i <= j
    IN  IF present = {}
        THEN [phase |-> "done", write |-> w, todo |-> <<>>]
        ELSE [phase |-> "sent", write |-> Write(todo[first], "gone", TRUE),
              todo |-> SubSeq(todo, first + 1, Len(todo))]

DeleteHosts(c, list) ==
    /\ call[c].phase = "new"
    /\ call' = [call EXCEPT ![c] = NextDelete(NoWrite, list, index)]
    /\ UNCHANGED <<boxVars, degraded, viewVars, poll, settled>>

-----------------------------------------------------------------------------
(* What happens to the request.                                            *)

\* Whether the box refuses a write for a host it no longer has is not known; it
\* may accept one without an effect.
BoxSets(c) ==
    LET w == call[c].write IN
    /\ call[c].phase = "sent"
    /\ w.field \in Fields
    /\ BoxBecomes(IF w.host \in DOMAIN box
                  THEN [box EXCEPT ![w.host][w.field] = w.value]
                  ELSE box)
    /\ held' = [held EXCEPT ![w.host][w.field] = @ \cup {w.value}]
    /\ call' = [call EXCEPT ![c].phase = "acked"]
    /\ UNCHANGED <<appSteps, degraded, viewVars, poll>>

BoxDeletes(c) ==
    /\ call[c].phase = "sent"
    /\ call[c].write.field = "gone"
    /\ BoxBecomes(Without(box, call[c].write.host))
    /\ call' = [call EXCEPT ![c].phase = "acked"]
    /\ UNCHANGED <<appSteps, degraded, held, viewVars, poll>>

\* Refused or never delivered; or carried out and the answer lost.  The rest of
\* a list of hosts is not tried.
RequestFails(c) ==
    /\ call[c].phase \in {"sent", "acked"}
    /\ call' = [call EXCEPT ![c].phase = "failed"]
    /\ UNCHANGED <<boxVars, degraded, viewVars, poll, settled>>

-----------------------------------------------------------------------------
(* The rest of the call, after the awaited request returned.               *)

\* What the two caches show of write w.
Shown(payload, hosts, w) ==
    CASE w.field = "gone" -> w.host \notin DOMAIN hosts
      [] w.field = "name" -> w.host \in DOMAIN hosts /\ hosts[w.host] = w.value
      [] OTHER            -> w.host \in DOMAIN payload => payload[w.host][w.field] = w.value

\* No refresh can still replace what c has patched by an older answer, no other
\* call writes the same field, and the box is as the call wants it.
Undisturbed(c) ==
    LET w == call[c].write IN
    /\ poll.phase # "answered"
    /\ poll.phase = "loaded" => w.field \in Policies
    /\ \A d \in Calls \ {c} :
          /\ call[d].phase \in {"sent", "acked"}
          /\ call[d].write.host = w.host
          => w.field # "gone" /\ call[d].write.field \notin {"gone", w.field}
    /\ OnBox(box, w)
    /\ Shown(raw', data', w)

Finish(c, next) ==
    /\ call' = [call EXCEPT ![c] = next]
    /\ settled' = IF Undisturbed(c) THEN settled \cup {call[c].write} ELSE settled
    /\ UNCHANGED <<boxVars, degraded, poll>>

Done(c) == [call[c] EXCEPT !.phase = "done"]

\* apply_optimistic_host_update: index and snapshot from the same tuple.
Publish(hosts) ==
    /\ data' = hosts
    /\ index' = hosts
    /\ UNCHANGED raw

\* Faulty variants: the host becomes the request; cached addresses survive where
\* the written map has none; the snapshot keeps a host the index has dropped.
NameReturnsRequest(c) ==
    LET w == call[c].write IN
    /\ call[c].phase = "acked"
    /\ w.field = "name"
    /\ Publish(IF w.host \in DOMAIN data THEN [data EXCEPT ![w.host] = w] ELSE data)
    /\ Finish(c, Done(c))

PolicyReturnsMerged(c) ==
    LET w == call[c].write
        kept == raw[w.host].static
    IN
    /\ call[c].phase = "acked"
    /\ w.field \in Policies
    /\ raw' = IF w.host \notin DOMAIN raw THEN raw
              ELSE IF w.field = "notify" THEN [raw EXCEPT ![w.host].notify = w.value]
              ELSE [raw EXCEPT ![w.host].static =
                      [n \in Networks |-> IF w.value[n] = Dynamic THEN kept[n] ELSE w.value[n]]]
    /\ UNCHANGED <<data, index>>
    /\ Finish(c, Done(c))

DeleteReturnsIndexOnly(c) ==
    LET w == call[c].write IN
    /\ call[c].phase = "acked"
    /\ w.field = "gone"
    /\ index' = Without(index, w.host)
    /\ UNCHANGED <<raw, data>>
    /\ Finish(c, NextDelete(w, call[c].todo, index'))

NameReturns(c) ==
    LET w == call[c].write IN
    /\ call[c].phase = "acked"
    /\ w.field = "name"
    /\ Publish(IF w.host \in DOMAIN data THEN [data EXCEPT ![w.host] = w.value] ELSE data)
    /\ Finish(c, Done(c))

\* apply_optimistic_host_policy: the payload's policy, key by key.
PolicyReturns(c) ==
    LET w == call[c].write IN
    /\ call[c].phase = "acked"
    /\ w.field \in Policies
    /\ raw' = IF w.host \in DOMAIN raw
              THEN [raw EXCEPT ![w.host][w.field] = w.value]
              ELSE raw
    /\ UNCHANGED <<data, index>>
    /\ Finish(c, Done(c))

\* A deleted host leaves the snapshot and the index, and stays in the payload.
DeleteReturns(c) ==
    LET w == call[c].write IN
    /\ call[c].phase = "acked"
    /\ w.field = "gone"
    /\ Publish(Without(data, w.host))
    /\ Finish(c, NextDelete(w, call[c].todo, index'))

-----------------------------------------------------------------------------
App ==
    \E h \in Hosts :
       \/ \E x \in Names : HostJoins(h, [name |-> x, static |-> [n \in Networks |-> Dynamic],
                                          notify |-> FALSE])
       \/ \E x \in Names : AppSets(h, "name", x)
       \/ \E r \in Reservations : AppSets(h, "static", r)
       \/ \E b \in BOOLEAN : AppSets(h, "notify", b)
       \/ AppRemoves(h)

Refresh ==
    \/ SendPoll
    \/ BoxAnswersPoll
    \/ BoxAnswersDegraded
    \/ PollFails
    \/ LoadPayload
    \/ LoadDegraded
    \/ PublishPoll

Begin(c) ==
    \/ \E h \in Hosts :
          \/ \E x \in Names : SetName(c, h, x)
          \/ \E b \in BOOLEAN : SetNotification(c, h, b)
          \/ \E n \in Networks, a \in Addresses \cup {Dynamic} : SetReservation(c, h, n, a)
          \/ Reread(c, h)
    \/ NotFound(c)
    \/ \E list \in DeleteLists : DeleteHosts(c, list)

Deliver(c) == BoxSets(c) \/ BoxDeletes(c) \/ RequestFails(c)

Return(c) == NameReturns(c) \/ PolicyReturns(c) \/ DeleteReturns(c)

Next == App \/ Refresh \/ \E c \in Calls : Begin(c) \/ Deliver(c) \/ Return(c)

Spec == Init /\ [][Next]_vars

-----------------------------------------------------------------------------
(* Properties.                                                             *)

Phases == {"new", "reread", "sent", "acked", "done", "failed", "refused", "notFound"}

NameMaps == UNION {[S -> Names] : S \in SUBSET Hosts}

\* Types of the hosts on the box, of the three cached views and of what is under way.
TypeOK ==
    /\ box \in Inventories
    /\ appSteps \in 0..MaxAppSteps
    /\ degraded \in 0..MaxDegraded
    /\ raw \in Inventories
    /\ data \in NameMaps
    /\ index \in NameMaps
    /\ poll \in [phase : {"idle", "sent", "answered", "degraded", "loaded"},
                 hosts : Inventories]
    /\ call \in [Calls -> [phase : Phases, write : Writes \cup {NoWrite}, todo : Seq(Hosts)]]
    /\ held \in [Hosts -> [name : SUBSET Names, static : SUBSET Reservations,
                           notify : SUBSET BOOLEAN]]
    /\ settled \subseteq Writes

\* One inventory, one answer: the host manager's index holds exactly the hosts of
\* the published snapshot, so get_host and get_hosts never differ.
ViewsAgree == index = data

\* Nothing is shown that the box never had: the name of every published host, and
\* the allocation map as a whole and the notification setting of every host in
\* the payload, are values that the box has had, or accepted, for that host.
NoPhantomSettings ==
    /\ \A h \in DOMAIN data : data[h] \in held[h].name
    /\ \A h \in DOMAIN raw : \A f \in Fields : raw[h][f] \in held[h][f]

\* "A successful command must update in-memory runtime state": a write or deletion
\* that nothing under way can undo is what the caches show, until the box changes,
\* through every refresh, in whichever order payload and hosts are replaced.  A
\* payload without hosts shows no policies, and so no older ones.
SettledWritesShow == \A w \in settled : Shown(raw, data, w)

\* "Set one host DHCP reservation mode for the selected network": no call changes
\* the reservations of a host on more than one network.
ReservationTouchesOneNetwork ==
    [][\A h \in DOMAIN box :
          /\ h \in DOMAIN box'
          /\ appSteps' = appSteps
          => \E n \in Networks : \A m \in Networks \ {n} :
                box'[h].static[m] = box[h].static[m]]_vars

-----------------------------------------------------------------------------
(* The strengthenings that make the safety invariants inductive.           *)

\* A request that is on its way is for a host.
CallInv == \A c \in Calls : call[c].phase \in {"sent", "acked"} => call[c].write \in Writes

\* The box, an answer under way and an accepted request hold only known values.
HoldsOnly(hosts) == \A h \in DOMAIN hosts : \A f \in Fields : hosts[h][f] \in held[h][f]

HeldInv ==
    /\ HoldsOnly(box)
    /\ HoldsOnly(poll.hosts)
    /\ \A c \in Calls :
          call[c].phase = "acked" /\ call[c].write.field \in Fields =>
             call[c].write.value \in held[call[c].write.host][call[c].write.field]

\* An answer without hosts has none.
DegradedInv == poll.phase = "degraded" => poll.hosts = NoInventory

\* The box is as every settled write left it.
SettledOnBox == \A w \in settled : OnBox(box, w)

\* So is the answer of a refresh, as far as it is still to be stored.
SettledInAnswer ==
    \A w \in settled :
        \/ poll.phase = "answered"
        \/ poll.phase = "loaded" /\ w.field \notin Policies
        => OnBox(poll.hosts, w)

\* An accepted write for the same host that has not returned wrote another field,
\* or the same value; an accepted deletion ends every write for its host.
SettledUncontested ==
    \A w \in settled, c \in Calls :
        /\ call[c].phase = "acked"
        /\ call[c].write.host = w.host
        /\ w.field # "gone"
        => /\ call[c].write.field # "gone"
           /\ call[c].write.field = w.field => call[c].write.value = w.value

\* The inductive invariant.
IInv ==
    /\ TypeOK
    /\ ViewsAgree
    /\ CallInv
    /\ NoPhantomSettings
    /\ HeldInv
    /\ DegradedInv
    /\ SettledOnBox
    /\ SettledInAnswer
    /\ SettledUncontested
    /\ SettledWritesShow
=============================================================================
