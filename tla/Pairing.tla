------------------------------- MODULE Pairing -------------------------------
(***************************************************************************)
(* Pairing and reauthentication: a form, the cloud login and rendezvous,   *)
(* the poll until the cloud lists the group of the box, the validation at  *)
(* the local runtime with its two intervals and its time limit, and the    *)
(* hand-over of the validated payload to the next refresh of the license.  *)
(* Beside the flow the entries refresh, the cloud and the boxes carry on,  *)
(* and an entry whose credentials are refused asks for reauthentication.   *)
(* One flow is open at a time; addresses are left out.                     *)
(***************************************************************************)
EXTENDS Integers, FiniteSets, LocalTransport

CONSTANTS
    Licenses,           \* licenses of boxes; the license names the box and its group
    NoLicense,
    PollAttempts,       \* DEFAULT_GROUP_POLL_ATTEMPTS
    FastAttempts,       \* _LOCAL_RUNTIME_VALIDATION_FAST_ATTEMPTS
    FastInterval,       \* _LOCAL_RUNTIME_VALIDATION_FAST_INTERVAL
    SlowInterval,       \* _LOCAL_RUNTIME_VALIDATION_SLOW_INTERVAL
    ValidationTimeout,  \* _LOCAL_RUNTIME_VALIDATION_TIMEOUT
    MaxDuration,        \* bound: seconds one local message takes
    MaxPairings,        \* bound: forms submitted with a readable QR code
    MaxVersion          \* bound: states of a box

ASSUME LicensesAssumption == NoLicense \notin Licenses
ASSUME BoundsAssumption ==
    /\ {PollAttempts, FastAttempts, FastInterval, SlowInterval} \subseteq Nat \ {0}
    /\ {ValidationTimeout, MaxDuration, MaxPairings, MaxVersion} \subseteq Nat

VARIABLES
    flow,      \* the open config flow
    pairings,  \* forms submitted so far; also names the credentials of each
    linked,    \* cloud: the credentials linked with the group of each license
    accepts,   \* box: the credentials the local runtime accepts
    version,   \* box: its present state
    pending,   \* hass.data: pairing payloads waiting for a refresh
    entry,     \* the config entry of each license
    refresh,   \* the refresh under way for each entry
    view       \* the state of the box each entry shows

vars == <<flow, pairings, linked, accepts, version, pending, entry, refresh, view>>

Credentials == 0 .. MaxPairings
Versions == 0 .. MaxVersion
None == -1   \* no payload, no credentials, nothing shown

\* A payload is the state it shows and whether it lists any hosts at all.
Payloads == [version : Versions \cup {None}, hosts : BOOLEAN]
NoPayload == [version |-> None, hosts |-> FALSE]

NoFlow == [kind |-> "none", step |-> "idle", entry |-> NoLicense, license |-> NoLicense,
           polls |-> 0, attempt |-> 0, elapsed |-> 0, stage |-> 0,
           error |-> "", payload |-> NoPayload]

\* An entry: its stored credentials, those its client was built from, and
\* whether no refresh has begun since a flow created it (history).
NoEntry == [state |-> "absent", stored |-> None, used |-> None, unread |-> FALSE]
IdleRefresh == [phase |-> "idle", payload |-> NoPayload]

Init ==
    /\ flow = NoFlow
    /\ pairings = 0
    /\ linked = [l \in Licenses |-> {}]
    /\ accepts = [l \in Licenses |-> {}]
    /\ version = [l \in Licenses |-> 0]
    /\ pending = [l \in Licenses |-> NoPayload]
    /\ entry = [l \in Licenses |-> NoEntry]
    /\ refresh = [l \in Licenses |-> IdleRefresh]
    /\ view = [l \in Licenses |-> None]

boxes == <<linked, accepts, version>>
entries == <<entry, refresh, view>>

-----------------------------------------------------------------------------
(* The forms.                                                              *)

ShowForm(error) ==
    flow' = [NoFlow EXCEPT !.kind = flow.kind, !.entry = flow.entry,
                           !.step = "form", !.error = error]

StartUser ==
    /\ flow.step = "idle"
    /\ flow' = [NoFlow EXCEPT !.kind = "user", !.step = "form"]
    /\ UNCHANGED <<pairings, boxes, pending, entries>>

\* Home Assistant opens the flow when a refresh raised ConfigEntryAuthFailed.
StartReauth(l) ==
    /\ flow.step = "idle"
    /\ entry[l].state = "refused"
    /\ flow' = [NoFlow EXCEPT !.kind = "reauth", !.step = "form", !.entry = l]
    /\ UNCHANGED <<pairings, boxes, pending, entries>>

CloseForm ==
    /\ flow.step = "form"
    /\ flow' = NoFlow
    /\ UNCHANGED <<pairings, boxes, pending, entries>>

\* An empty host or a QR code that cannot be read.
SubmitInvalid ==
    /\ flow.step = "form"
    /\ \E error \in {"invalid_host", "invalid_qr"} : ShowForm(error)
    /\ UNCHANGED <<pairings, boxes, pending, entries>>

\* The user step refuses a license that is set up already before it pairs.
AbortConfigured(l) ==
    /\ flow.step = "form" /\ flow.kind = "user"
    /\ entry[l].state # "absent"
    /\ flow' = NoFlow
    /\ UNCHANGED <<pairings, boxes, pending, entries>>

\* Keys are generated; the reauthentication step looks at the license only
\* after it has paired.
Submit(l) ==
    /\ flow.step = "form"
    /\ flow.kind = "user" => entry[l].state = "absent"
    /\ pairings < MaxPairings
    /\ pairings' = pairings + 1
    /\ flow' = [NoFlow EXCEPT !.kind = flow.kind, !.entry = flow.entry,
                              !.license = l, !.step = "login"]
    /\ UNCHANGED <<boxes, pending, entries>>

-----------------------------------------------------------------------------
(* Cloud provisioning.                                                     *)

Login ==
    /\ flow.step = "login"
    /\ flow' = [flow EXCEPT !.step = "link"]
    /\ UNCHANGED <<pairings, boxes, pending, entries>>

Link ==
    /\ flow.step = "link"
    /\ linked' = [linked EXCEPT ![flow.license] = @ \cup {pairings}]
    /\ flow' = [flow EXCEPT !.step = "poll"]
    /\ UNCHANGED <<pairings, accepts, version, pending, entries>>

\* A refused, failed or lost cloud request ends the pairing, also while it
\* polls: only the local validation survives a lost connection.
CloudFails ==
    /\ flow.step \in {"login", "link", "poll"}
    /\ ShowForm("cannot_connect")
    /\ UNCHANGED <<pairings, boxes, pending, entries>>

\* A group list that is no JSON raises a ValueError, which the reauthentication
\* form takes for an empty host and the user form does not catch.
GroupsGarbled ==
    /\ flow.step = "poll"
    /\ ShowForm(IF flow.kind = "reauth" THEN "invalid_host" ELSE "unknown")
    /\ UNCHANGED <<pairings, boxes, pending, entries>>

\* The groups the cloud may list by now, each usable or not yet.
Listings == SUBSET [license : {l \in Licenses : pairings \in linked[l]}, usable : BOOLEAN]

\* An endpoint that lists any group ends the search; one that fails or lists
\* none hands over to the next, one that answers 401 to the new login.
EndpointAnswers == [status : {"listed"}, groups : Listings]
                     \cup [status : {"failed", "unauthorized"}, groups : {{}}]

Fetched(first, second, login) ==
    CASE first.groups # {} -> first.groups
      [] first.groups = {} /\ first.status # "unauthorized" /\ second.groups # {} ->
            second.groups
      [] OTHER -> login

\* extract_group_credentials: the group of the QR code, complete with its keys.
Usable(groups, l) == [license |-> l, usable |-> TRUE] \in groups

\* Faulty variant: one poll too many.
PollsLeftOneMore(polls) == polls <= PollAttempts

\* for attempt in range(attempts).
PollsLeft(polls) == polls < PollAttempts

FetchGroups ==
    /\ flow.step = "poll"
    /\ \E first, second \in EndpointAnswers, login \in Listings :
         LET found == Usable(Fetched(first, second, login), flow.license)
             polls == flow.polls + 1
         IN IF found
            THEN flow' = [flow EXCEPT !.step = "local", !.polls = 0,
                                      !.attempt = 1, !.stage = 1]
            ELSE IF PollsLeft(polls)
                 THEN flow' = [flow EXCEPT !.step = "pollwait", !.polls = polls]
                 ELSE ShowForm("cloud_link_timeout")
    /\ UNCHANGED <<pairings, boxes, pending, entries>>

PollAgain ==
    /\ flow.step = "pollwait"
    /\ flow' = [flow EXCEPT !.step = "poll"]
    /\ UNCHANGED <<pairings, boxes, pending, entries>>

-----------------------------------------------------------------------------
(* Validation at the local runtime.                                        *)

Interval(attempt, outcome) ==
    IF outcome = "FirewallaLocalRuntimeNotReadyError" /\ attempt <= FastAttempts
    THEN FastInterval
    ELSE SlowInterval

Least(a, b) == IF a < b THEN a ELSE b

Accepted == pairings \in accepts[flow.license]

\* The attempt is three messages; each may take a while.
MessageAnswered ==
    /\ flow.step = "local"
    /\ "data" \in OutcomesOf(Accepted)
    /\ \E took \in 0 .. MaxDuration, hosts \in BOOLEAN :
         flow' = [flow EXCEPT
                    !.elapsed = @ + took,
                    !.stage = IF flow.stage < 3 THEN @ + 1 ELSE @,
                    !.step = IF flow.stage < 3 THEN @ ELSE "paired",
                    !.payload = IF flow.stage < 3 THEN @
                                ELSE [version |-> version[flow.license], hosts |-> hosts]]
    /\ UNCHANGED <<pairings, boxes, pending, entries>>

Retried == {"FirewallaLocalRuntimeNotReadyError", "FirewallaConnectionError"}

\* Faulty variant: the last wait is not cut to what is left.
AttemptWaitsWhole ==
    /\ flow.step = "local"
    /\ \E outcome \in OutcomesOf(Accepted) \cap Retried, took \in 0 .. MaxDuration :
         LET elapsed == flow.elapsed + took IN
         /\ elapsed < ValidationTimeout
         /\ flow' = [flow EXCEPT !.step = "localwait", !.attempt = @ + 1, !.stage = 1,
                                 !.elapsed = elapsed + Interval(flow.attempt, outcome)]
    /\ UNCHANGED <<pairings, boxes, pending, entries>>

\* Wait for the interval or for what is left of the limit, whichever is less.
AttemptWaits ==
    /\ flow.step = "local"
    /\ \E outcome \in OutcomesOf(Accepted) \cap Retried, took \in 0 .. MaxDuration :
         LET elapsed == flow.elapsed + took IN
         /\ elapsed < ValidationTimeout
         /\ flow' = [flow EXCEPT
                       !.step = "localwait", !.attempt = @ + 1, !.stage = 1,
                       !.elapsed = elapsed + Least(Interval(flow.attempt, outcome),
                                                   ValidationTimeout - elapsed)]
    /\ UNCHANGED <<pairings, boxes, pending, entries>>

AttemptAgain ==
    /\ flow.step = "localwait"
    /\ flow' = [flow EXCEPT !.step = "local"]
    /\ UNCHANGED <<pairings, boxes, pending, entries>>

\* Faulty variant: at the limit it waits for what is left, which is nothing.
AttemptNeverTimesOut ==
    /\ flow.step = "local"
    /\ \E outcome \in OutcomesOf(Accepted) \cap Retried, took \in 0 .. MaxDuration :
         /\ flow.elapsed + took >= ValidationTimeout
         /\ flow' = [flow EXCEPT !.step = "localwait", !.stage = 1,
                                 !.elapsed = ValidationTimeout]
    /\ UNCHANGED <<pairings, boxes, pending, entries>>

AttemptTimesOut ==
    /\ flow.step = "local"
    /\ \E outcome \in OutcomesOf(Accepted) \cap Retried, took \in 0 .. MaxDuration :
         LET elapsed == flow.elapsed + took IN
         /\ elapsed >= ValidationTimeout
         /\ flow' = [NoFlow EXCEPT !.kind = flow.kind, !.entry = flow.entry,
                                   !.step = "form", !.elapsed = elapsed,
                                   !.error = "local_pairing_timeout"]
    /\ UNCHANGED <<pairings, boxes, pending, entries>>

\* Every other error of a message ends the pairing.
AttemptFails ==
    /\ flow.step = "local"
    /\ OutcomesOf(Accepted) \ (Retried \cup {"data"}) # {}
    /\ ShowForm("cannot_connect")
    /\ UNCHANGED <<pairings, boxes, pending, entries>>

-----------------------------------------------------------------------------
(* The result of a pairing.                                                *)

\* cache_pending_pairing_init_payload, under the license of the QR code.
CachePayload == pending' = [pending EXCEPT ![flow.license] = flow.payload]

CreateEntry ==
    /\ flow.step = "paired" /\ flow.kind = "user"
    /\ CachePayload
    /\ entry' = [entry EXCEPT ![flow.license] =
                   [state |-> "setup", stored |-> pairings, used |-> pairings, unread |-> TRUE]]
    /\ flow' = NoFlow
    /\ UNCHANGED <<pairings, boxes, refresh, view>>

\* Faulty variant: the license of the QR code is not compared.
UpdateEntryUnchecked ==
    /\ flow.step = "paired" /\ flow.kind = "reauth"
    /\ CachePayload
    /\ entry' = [entry EXCEPT ![flow.entry].state = "reload",
                              ![flow.entry].stored = pairings]
    /\ flow' = NoFlow
    /\ UNCHANGED <<pairings, boxes, refresh, view>>

UpdateEntry ==
    /\ flow.step = "paired" /\ flow.kind = "reauth"
    /\ flow.license = flow.entry
    /\ CachePayload
    /\ entry' = [entry EXCEPT ![flow.entry].state = "reload",
                              ![flow.entry].stored = pairings]
    /\ flow' = NoFlow
    /\ UNCHANGED <<pairings, boxes, refresh, view>>

\* The payload of the other box has been cached by then.
AbortWrongAccount ==
    /\ flow.step = "paired" /\ flow.kind = "reauth"
    /\ flow.license # flow.entry
    /\ CachePayload
    /\ flow' = NoFlow
    /\ UNCHANGED <<pairings, boxes, entries>>

-----------------------------------------------------------------------------
(* The entries.                                                            *)

\* Setup builds a client from the stored credentials.
Reload(l) ==
    /\ entry[l].state = "reload"
    /\ refresh[l].phase = "idle"
    /\ entry' = [entry EXCEPT ![l].state = "setup", ![l].used = entry[l].stored]
    /\ UNCHANGED <<flow, pairings, boxes, pending, refresh, view>>

\* The new host of a reconfigured entry is stored without asking the box.
Reconfigure(l) ==
    /\ flow.step = "idle"
    /\ entry[l].state \in {"loaded", "setup", "refused"}
    /\ entry' = [entry EXCEPT ![l].state = "reload"]
    /\ UNCHANGED <<flow, pairings, boxes, pending, refresh, view>>

Refreshes(l) == entry[l].state # "absent" /\ refresh[l].phase = "idle"

\* build_runtime_snapshot and the check for hosts; the entry is loaded after it.
Publish(l, payload) ==
    /\ view' = [view EXCEPT ![l] = IF payload.hosts THEN payload.version ELSE @]
    /\ entry' = [entry EXCEPT
                   ![l].state = IF payload.hosts /\ @ # "reload" THEN "loaded" ELSE @,
                   ![l].unread = FALSE]

\* Faulty variant: the payload is read and kept.
RefreshReads(l) ==
    /\ Refreshes(l)
    /\ pending[l] # NoPayload
    /\ Publish(l, pending[l])
    /\ UNCHANGED <<flow, pairings, boxes, pending, refresh>>

\* pop_pending_pairing_init_payload: the first refresh of the license takes it.
RefreshPops(l) ==
    /\ Refreshes(l)
    /\ pending[l] # NoPayload
    /\ pending' = [pending EXCEPT ![l] = NoPayload]
    /\ Publish(l, pending[l])
    /\ UNCHANGED <<flow, pairings, boxes, refresh>>

\* Faulty variant: a refresh that finds no payload of its own drops the others.
RefreshAsksDropsAll(l) ==
    /\ Refreshes(l)
    /\ pending[l] = NoPayload
    /\ refresh' = [refresh EXCEPT ![l].phase = "asked"]
    /\ entry' = [entry EXCEPT ![l].unread = FALSE]
    /\ pending' = [k \in Licenses |-> NoPayload]
    /\ UNCHANGED <<flow, pairings, boxes, view>>

RefreshAsks(l) ==
    /\ Refreshes(l)
    /\ pending[l] = NoPayload
    /\ refresh' = [refresh EXCEPT ![l].phase = "asked"]
    /\ entry' = [entry EXCEPT ![l].unread = FALSE]
    /\ UNCHANGED <<flow, pairings, boxes, pending, view>>

AnsweredWith(l, hosts) ==
    /\ refresh[l].phase = "asked"
    /\ "data" \in OutcomesOf(entry[l].used \in accepts[l])
    /\ refresh' = [refresh EXCEPT ![l] =
                     [phase |-> "answered",
                      payload |-> [version |-> version[l], hosts |-> hosts]]]
    /\ UNCHANGED <<flow, pairings, boxes, pending, entry, view>>

BoxAnswers(l) == AnsweredWith(l, TRUE)
BoxAnswersDegraded(l) == AnsweredWith(l, FALSE)

RefreshShows(l) ==
    /\ refresh[l].phase = "answered"
    /\ refresh' = [refresh EXCEPT ![l] = IdleRefresh]
    /\ Publish(l, refresh[l].payload)
    /\ UNCHANGED <<flow, pairings, boxes, pending>>

RefreshFails(l) ==
    /\ refresh[l].phase = "asked"
    /\ refresh' = [refresh EXCEPT ![l] = IdleRefresh]
    /\ UNCHANGED <<flow, pairings, boxes, pending, entry, view>>

\* Two 401s in a row: ConfigEntryAuthFailed.
RefreshRefused(l) ==
    /\ refresh[l].phase = "asked"
    /\ "FirewallaAuthError" \in OutcomesOf(entry[l].used \in accepts[l])
    /\ refresh' = [refresh EXCEPT ![l] = IdleRefresh]
    /\ entry' = [entry EXCEPT ![l].state = IF @ = "reload" THEN @ ELSE "refused"]
    /\ UNCHANGED <<flow, pairings, boxes, pending, view>>

-----------------------------------------------------------------------------
(* The boxes and the cloud.                                                *)

BoxActivates(l) ==
    /\ linked[l] \ accepts[l] # {}
    /\ accepts' = [accepts EXCEPT ![l] = @ \cup linked[l]]
    /\ UNCHANGED <<flow, pairings, linked, version, pending, entries>>

\* The pairing is removed in the app.
BoxForgets(l) ==
    /\ accepts[l] # {}
    /\ pairings < MaxPairings
    /\ accepts' = [accepts EXCEPT ![l] = {}]
    /\ linked' = [linked EXCEPT ![l] = {}]
    /\ UNCHANGED <<flow, pairings, version, pending, entries>>

BoxChanges(l) ==
    /\ version[l] < MaxVersion
    /\ version' = [version EXCEPT ![l] = @ + 1]
    /\ UNCHANGED <<flow, pairings, linked, accepts, pending, entries>>

-----------------------------------------------------------------------------

Form == StartUser \/ CloseForm \/ SubmitInvalid
          \/ \E l \in Licenses : StartReauth(l) \/ AbortConfigured(l) \/ Submit(l)

Pair == Login \/ Link \/ CloudFails \/ GroupsGarbled \/ FetchGroups \/ PollAgain
          \/ MessageAnswered \/ AttemptWaits \/ AttemptAgain \/ AttemptTimesOut
          \/ AttemptFails \/ CreateEntry \/ UpdateEntry \/ AbortWrongAccount

Runtime(l) == Reload(l) \/ Reconfigure(l) \/ RefreshPops(l) \/ RefreshAsks(l)
                \/ BoxAnswers(l) \/ BoxAnswersDegraded(l) \/ RefreshShows(l)
                \/ RefreshFails(l) \/ RefreshRefused(l)

Outside(l) == BoxActivates(l) \/ BoxForgets(l) \/ BoxChanges(l)

Next == Form \/ Pair \/ \E l \in Licenses : Runtime(l) \/ Outside(l)

Spec == Init /\ [][Next]_vars

\* Requests and sleeps of a flow end, Home Assistant carries out a reload and
\* refreshes an entry again and again unless its credentials were refused, and a box
\* answers accepted credentials again and again.
Fairness ==
    /\ WF_vars(Pair)
    /\ \A l \in Licenses :
         /\ WF_vars(Reload(l)) 
         /\ WF_vars(entry[l].state # "refused" /\ (RefreshPops(l) \/ RefreshAsks(l)))
         /\ WF_vars(RefreshFails(l) \/ RefreshRefused(l) \/ BoxAnswers(l))
         /\ SF_vars(BoxAnswers(l))
         /\ WF_vars(RefreshShows(l))

FairSpec == Spec /\ Fairness

-----------------------------------------------------------------------------
(* Properties.                                                             *)

Steps == {"idle", "form", "login", "link", "poll", "pollwait", "local", "localwait", "paired"}
Errors == {"", "invalid_host", "invalid_qr", "cannot_connect", "cloud_link_timeout",
           "local_pairing_timeout", "unknown"}

Flows == [kind : {"none", "user", "reauth"}, step : Steps,
          entry : Licenses \cup {NoLicense}, license : Licenses \cup {NoLicense},
          polls : 0 .. PollAttempts - 1, attempt : Nat,
          elapsed : 0 .. ValidationTimeout + 3 * MaxDuration, stage : 0 .. 3,
          error : Errors, payload : Payloads]

\* Every reachable state is well typed; the time a validation has taken never
\* exceeds the limit by more than one attempt of three messages.
TypeOK ==
    /\ flow \in Flows
    /\ pairings \in Credentials
    /\ linked \in [Licenses -> SUBSET Credentials]
    /\ accepts \in [Licenses -> SUBSET Credentials]
    /\ version \in [Licenses -> Versions]
    /\ pending \in [Licenses -> Payloads]
    /\ entry \in [Licenses -> [state : {"absent", "setup", "loaded", "refused", "reload"},
                               stored : Credentials \cup {None},
                               used : Credentials \cup {None}, unread : BOOLEAN]]
    /\ refresh \in [Licenses -> [phase : {"idle", "asked", "answered"}, payload : Payloads]]
    /\ view \in [Licenses -> Versions \cup {None}]

\* No attempt at the local runtime begins after the limit, and the flow reports
\* the local timeout only once the limit has passed: a box that becomes ready in
\* time is asked at the limit at the latest (_async_pair_firewalla).
ValidationUsesItsTime ==
    /\ flow.step = "localwait" => flow.elapsed <= ValidationTimeout
    /\ flow.error = "local_pairing_timeout" => flow.elapsed >= ValidationTimeout

\* An entry stored by a flow holds credentials the cloud linked with the group
\* of that entry's box (unless the app has removed the pairing since), whichever
\* QR code was typed into whichever form and whatever refreshed meanwhile.
EntriesKeepAccounts ==
    \A l \in Licenses :
        entry[l].state # "absent" =>
            \A k \in Licenses \ {l} : entry[l].stored \notin linked[k]

\* The first refresh of an entry the user has just created finds the payload the
\* pairing validated, so the setup needs no further answer of the box; no other
\* entry's refresh takes or drops it (pop_pending_pairing_init_payload).
SetupHasItsPayload == \A l \in Licenses : entry[l].unread => pending[l] # NoPayload

\* Every pairing that was submitted ends, in an entry, an abort or a form with
\* an error, whatever the cloud and the box answer.
PairingEnds == (flow.step \notin {"idle", "form"}) ~> (flow.step \in {"idle", "form"})

\* An entry that is not reloaded for ever comes to show the present state of its
\* box again and again while the box accepts its credentials: a pairing payload is
\* shown once, not at every refresh.
ViewsCatchUp ==
    \A l \in Licenses :
        []<>(\/ entry[l].state = "loaded" /\ view[l] = version[l]
             \/ entry[l].state \in {"absent", "reload"}
             \/ entry[l].used \notin accepts[l])
-----------------------------------------------------------------------------
(* Strengthenings: with TypeOK, ValidationUsesItsTime and                  *)
(* SetupHasItsPayload they are inductive.                                  *)

\* A form has been submitted and its pairing has not ended.
Busy == flow.step \notin {"idle", "form"}

\* An attempt begins within the limit, and its three messages take their time one
\* after the other.
FlowInv ==
    /\ Busy => flow.license \in Licenses
    /\ flow.step \in {"login", "link", "poll", "pollwait"} => flow.elapsed = 0
    /\ flow.step = "local" =>
           \/ flow.stage = 1 /\ flow.elapsed <= ValidationTimeout
           \/ flow.stage = 2 /\ flow.elapsed <= ValidationTimeout + MaxDuration
           \/ flow.stage = 3 /\ flow.elapsed <= ValidationTimeout + 2 * MaxDuration
    /\ flow.step = "localwait" => flow.stage = 1
    /\ flow.step = "paired" => flow.payload.version # None

\* The credentials of a pairing are new when its form is submitted, are linked with
\* one group only and stored only when the pairing ends.
CredentialsInv ==
    /\ Busy => pairings > 0
    /\ \A l \in Licenses :
           /\ linked[l] \subseteq 1 .. pairings
           /\ entry[l].stored <= pairings
           /\ Busy => entry[l].stored < pairings
           /\ Busy /\ l # flow.license => pairings \notin linked[l]

\* EntriesKeepAccounts without its condition: an absent entry stores nothing.
AccountsInv ==
    \A l \in Licenses : \A k \in Licenses \ {l} : entry[l].stored \notin linked[k]

IInv ==
    /\ TypeOK
    /\ ValidationUsesItsTime
    /\ SetupHasItsPayload
    /\ FlowInv
    /\ CredentialsInv
    /\ AccountsInv

=============================================================================
