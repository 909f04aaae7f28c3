-------------------------- MODULE RuleControlProofs --------------------------
(* Proofs about RuleControl for every value of its constants.              *)
EXTENDS RuleControl, SequenceTheorems, TLAPS

-----------------------------------------------------------------------------
(* What the helpers return.                                                *)

\* Every control is a record of its two fields, each of its type.
LEMMA ControlsType ==
    ASSUME NEW k \in Controls
    PROVE  /\ k.enabled \in BOOLEAN
           /\ k.idleTs \in Times \cup {NoTime}
           /\ k = [enabled |-> k.enabled, idleTs |-> k.idleTs]
<1>1. CASE k = Enabled
  BY <1>1 DEF Enabled
<1>2. CASE \E t \in Times \cup {NoTime} : k = Disabled(t)
  <2>1. PICK t \in Times \cup {NoTime} : k = [enabled |-> FALSE, idleTs |-> t]
    BY <1>2 DEF Disabled
  <2> QED BY <2>1
<1> QED BY <1>1, <1>2 DEF Controls

\* Rewriting the control of a cached rule yields a rule with that control.
LEMMA WithControlType ==
    ASSUME NEW e \in Entry, NEW k \in Controls
    PROVE  /\ WithControl(e, k) \in Entry
           /\ ControlOf(WithControl(e, k)) = k
           /\ WithControl(e, k).content = e.content
BY ControlsType DEF WithControl, ControlOf, Entry

\* A new rule has the control and the content it is built from.
LEMMA EntryOfType ==
    ASSUME NEW k \in Controls, NEW x \in Contents
    PROVE  /\ EntryOf(k, x) \in Entry
           /\ ControlOf(EntryOf(k, x)) = k
BY ControlsType DEF EntryOf, ControlOf, Entry

\* An update payload leaves a rule with the control it carries.
LEMMA UpdatedType ==
    ASSUME NEW e \in Entry, NEW cl \in CallRecord
    PROVE  /\ Updated(e, cl) \in Entry
           /\ ControlOf(Updated(e, cl)) = cl.control
<1>1. CASE cl.content = KeepContent
  BY <1>1, WithControlType DEF Updated, CallRecord
<1>2. CASE cl.content # KeepContent
  <2>1. [e EXCEPT !.content = cl.content] \in Entry
    BY <1>2 DEF Entry, CallRecord
  <2> QED BY <1>2, <2>1, WithControlType DEF Updated, CallRecord
<1> QED BY <1>1, <1>2

\* A rule dictionary is a function from some rule ids to rules.
LEMMA RuleMapsDef ==
    ASSUME NEW f
    PROVE  f \in RuleMaps <=> /\ DOMAIN f \subseteq Rules
                              /\ f \in [DOMAIN f -> Entry]
BY DEF RuleMaps

\* Storing a rule under an id.
LEMMA PutType ==
    ASSUME NEW f \in RuleMaps, NEW r \in Rules, NEW e \in Entry
    PROVE  /\ Put(f, r, e) \in RuleMaps
           /\ DOMAIN Put(f, r, e) = DOMAIN f \cup {r}
           /\ Put(f, r, e)[r] = e
           /\ \A q \in DOMAIN f \ {r} : Put(f, r, e)[q] = f[q]
<1>1. DOMAIN f \subseteq Rules /\ f \in [DOMAIN f -> Entry]
  BY RuleMapsDef
<1> QED BY <1>1, RuleMapsDef DEF Put

\* Removing an id.
LEMMA DropType ==
    ASSUME NEW f \in RuleMaps, NEW r \in Rules
    PROVE  /\ Drop(f, r) \in RuleMaps
           /\ DOMAIN Drop(f, r) = DOMAIN f \ {r}
           /\ \A q \in DOMAIN f \ {r} : Drop(f, r)[q] = f[q]
<1>1. DOMAIN f \subseteq Rules /\ f \in [DOMAIN f -> Entry]
  BY RuleMapsDef
<1> QED BY <1>1, RuleMapsDef DEF Drop

\* A snapshot lists each rule of the box once, and nothing else.
LEMMA ListingType ==
    ASSUME NEW b \in RuleMaps
    PROVE  /\ Listing(b) \in [Rules -> Seq(Entry)]
           /\ \A r \in Rules : Listing(b)[r] # <<>> <=> r \in DOMAIN b
           /\ \A r \in DOMAIN b : Listing(b)[r] = <<b[r]>>
<1>1. DOMAIN b \subseteq Rules /\ b \in [DOMAIN b -> Entry]
  BY RuleMapsDef
<1>2. \A r \in DOMAIN b : <<b[r]>> \in Seq(Entry) /\ <<b[r]>> # <<>>
  BY <1>1
<1>3. \A r \in Rules : Listing(b)[r] = IF r \in DOMAIN b THEN <<b[r]>> ELSE <<>>
  BY DEF Listing
<1>4. Listing(b) \in [Rules -> Seq(Entry)]
  BY <1>2, EmptySeq DEF Listing
<1> QED BY <1>1, <1>2, <1>3, <1>4

\* The index of a rule tuple has its ids, each with its last entry.
LEMMA IndexOfType ==
    ASSUME NEW d \in [Rules -> Seq(Entry)]
    PROVE  /\ IndexOf(d) \in RuleMaps
           /\ DOMAIN IndexOf(d) = {r \in Rules : d[r] # <<>>}
           /\ \A r \in Rules : d[r] # <<>> => IndexOf(d)[r] = d[r][Len(d[r])]
<1>1. \A r \in Rules : d[r] # <<>> => d[r][Len(d[r])] \in Entry
  <2> SUFFICES ASSUME NEW r \in Rules, d[r] # <<>>
               PROVE  d[r][Len(d[r])] \in Entry
    OBVIOUS
  <2>1. d[r] \in Seq(Entry) /\ Len(d[r]) \in 1..Len(d[r])
    BY EmptySeq, LenProperties
  <2> QED BY <2>1, ElementOfSeq
<1> QED BY <1>1, RuleMapsDef DEF IndexOf

\* The matching map holds for each template the indexed rule of its id or none.
LEMMA MatchingOfType ==
    ASSUME NEW ix \in RuleMaps
    PROVE  MatchingOf(ix) \in [Selected -> Seq(Entry)]
<1>1. \A t \in DOMAIN ix : <<ix[t]>> \in Seq(Entry)
  BY RuleMapsDef
<1> QED BY <1>1 DEF MatchingOf

-----------------------------------------------------------------------------
(* Types and issued ids.                                                   *)

TypeInv == TypeOK /\ IdsIssued

\* What a change of the box does to its rules and to the history.
LEMMA BoxBecomesType ==
    ASSUME TypeOK, NEW b \in RuleMaps, BoxBecomes(b)
    PROVE  /\ box' \in RuleMaps
           /\ held' \in [Rules -> SUBSET Control]
           /\ settled' \subseteq Calls
<1>1. \A e \in Entry : ControlOf(e) \in Control
  BY DEF Entry, ControlOf, Control
<1>2. \A r \in DOMAIN b : b[r] \in Entry
  BY RuleMapsDef
<1> QED BY <1>1, <1>2 DEF BoxBecomes, TypeOK

\* The initial states are well typed and know only issued ids.
LEMMA InitTypeInv == Init => TypeInv
<1> SUFFICES ASSUME Init
             PROVE  TypeInv
  OBVIOUS
<1>1. \A k \in Controls, x \in Contents : EntryOf(k, x) \in Entry
  BY EntryOfType
<1>2. box \in [Existing -> Entry]
  BY <1>1 DEF Init
<1>3. box \in RuleMaps /\ DOMAIN box = Existing
  BY <1>2, RulesAssumption, RuleMapsDef
<1>4. /\ data \in [Rules -> Seq(Entry)]
      /\ \A r \in Rules : data[r] # <<>> <=> r \in Existing
  BY <1>3, ListingType DEF Init
<1>5. index \in RuleMaps /\ DOMAIN index = Existing
  BY <1>4, IndexOfType, RulesAssumption DEF Init
<1>6. matching \in [Selected -> Seq(Entry)]
  BY <1>5, MatchingOfType DEF Init
<1>7. held \in [Rules -> SUBSET Control]
  <2>1. \A r \in Existing : ControlOf(box[r]) \in Control
    BY <1>2 DEF Entry, ControlOf, Control
  <2> QED BY <2>1 DEF Init
<1>8. poll \in [Polls -> PollRecord]
  BY EmptySeq DEF Init, IdlePoll, NoListing, PollRecord
<1>9. call \in [Calls -> CallRecord]
  BY DEF Init, NewCall, CallRecord, Phases, Ops, Controls
<1>10. TypeOK
  BY <1>3, <1>4, <1>5, <1>6, <1>7, <1>8, <1>9, RulesAssumption, MaxAppStepsAssumption
     DEF Init, TypeOK
<1>11. \A p \in Polls, r \in Rules : poll[p].snapshot[r] = <<>>
  BY DEF Init, IdlePoll, NoListing
<1>12. \A c \in Calls : call[c].op = "none" /\ call[c].phase = "new"
  BY DEF Init, NewCall
<1>13. IdsIssued
  BY <1>3, <1>4, <1>5, <1>11, <1>12 DEF Init, IdsIssued
<1> QED BY <1>10, <1>13 DEF TypeInv

\* Steps of the app and of the box keep the invariant.
LEMMA EnvironmentTypeInv == TypeInv /\ Environment => TypeInv'
<1> SUFFICES ASSUME TypeInv, Environment
             PROVE  TypeInv'
  OBVIOUS
<1>0. TypeOK /\ IdsIssued /\ box \in RuleMaps
  BY DEF TypeInv, TypeOK
<1>1. ASSUME NEW r \in Rules, NEW k \in Controls, NEW x \in Contents, AppUpdates(r, k, x)
      PROVE  TypeInv'
  <2>1. r \in DOMAIN box /\ EntryOf(k, x) \in Entry
    BY <1>1, EntryOfType DEF AppUpdates
  <2>2. /\ Put(box, r, EntryOf(k, x)) \in RuleMaps
        /\ DOMAIN Put(box, r, EntryOf(k, x)) = DOMAIN box \cup {r}
    BY <1>0, <2>1, PutType
  <2>3. /\ box' \in RuleMaps
        /\ held' \in [Rules -> SUBSET Control]
        /\ settled' \subseteq Calls
    BY <1>0, <1>1, <2>2, BoxBecomesType DEF AppUpdates
  <2>4. TypeOK'
    BY <1>0, <1>1, <2>3, MaxAppStepsAssumption DEF TypeOK, AppUpdates, AppActs, viewVars
  <2>5. IdsIssued'
    BY <1>0, <1>1, <2>1, <2>2 DEF IdsIssued, AppUpdates, AppActs, BoxBecomes, viewVars
  <2> QED BY <2>4, <2>5 DEF TypeInv
<1>2. ASSUME NEW r \in Rules, NEW k \in Controls, NEW x \in Contents, AppCreates(r, k, x)
      PROVE  TypeInv'
  <2>1. EntryOf(k, x) \in Entry
    BY EntryOfType
  <2>2. /\ Put(box, r, EntryOf(k, x)) \in RuleMaps
        /\ DOMAIN Put(box, r, EntryOf(k, x)) = DOMAIN box \cup {r}
    BY <1>0, <2>1, PutType
  <2>3. /\ box' \in RuleMaps
        /\ held' \in [Rules -> SUBSET Control]
        /\ settled' \subseteq Calls
    BY <1>0, <1>2, <2>2, BoxBecomesType DEF AppCreates
  <2>4. TypeOK'
    BY <1>0, <1>2, <2>3, MaxAppStepsAssumption DEF TypeOK, AppCreates, AppActs, viewVars
  <2>5. IdsIssued'
    BY <1>0, <1>2, <2>2 DEF IdsIssued, AppCreates, AppActs, BoxBecomes, viewVars
  <2> QED BY <2>4, <2>5 DEF TypeInv
<1>3. ASSUME NEW r \in Rules, AppDeletes(r)
      PROVE  TypeInv'
  <2>1. Drop(box, r) \in RuleMaps /\ DOMAIN Drop(box, r) = DOMAIN box \ {r}
    BY <1>0, DropType
  <2>2. /\ box' \in RuleMaps
        /\ held' \in [Rules -> SUBSET Control]
        /\ settled' \subseteq Calls
    BY <1>0, <1>3, <2>1, BoxBecomesType DEF AppDeletes
  <2>3. TypeOK'
    BY <1>0, <1>3, <2>2, MaxAppStepsAssumption DEF TypeOK, AppDeletes, AppActs, viewVars
  <2>4. IdsIssued'
    BY <1>0, <1>3, <2>1 DEF IdsIssued, AppDeletes, AppActs, BoxBecomes, viewVars
  <2> QED BY <2>3, <2>4 DEF TypeInv
<1>4. ASSUME NEW r \in Rules, BoxResumes(r)
      PROVE  TypeInv'
  <2>1. r \in DOMAIN box /\ WithControl(box[r], Enabled) \in Entry
    BY <1>0, <1>4, RuleMapsDef, WithControlType DEF BoxResumes, Controls
  <2>2. /\ Put(box, r, WithControl(box[r], Enabled)) \in RuleMaps
        /\ DOMAIN Put(box, r, WithControl(box[r], Enabled)) = DOMAIN box \cup {r}
    BY <1>0, <2>1, PutType
  <2>3. /\ box' \in RuleMaps
        /\ held' \in [Rules -> SUBSET Control]
        /\ settled' \subseteq Calls
    BY <1>0, <1>4, <2>2, BoxBecomesType DEF BoxResumes
  <2>4. TypeOK'
    BY <1>0, <1>4, <2>3 DEF TypeOK, BoxResumes, viewVars
  <2>5. IdsIssued'
    BY <1>0, <1>4, <2>1, <2>2 DEF IdsIssued, BoxResumes, BoxBecomes, viewVars
  <2> QED BY <2>4, <2>5 DEF TypeInv
<1> QED BY <1>1, <1>2, <1>3, <1>4 DEF Environment

\* Steps of a refresh keep the invariant.
LEMMA RefreshTypeInv == TypeInv /\ Refresh => TypeInv'
<1> SUFFICES ASSUME TypeInv, NEW p \in Polls,
                    SendPoll(p) \/ BoxAnswersPoll(p) \/ PollFails(p) \/ PublishPoll(p)
             PROVE  TypeInv'
  BY DEF Refresh
<1>0. TypeOK /\ IdsIssued /\ box \in RuleMaps /\ poll[p].snapshot \in [Rules -> Seq(Entry)]
  BY DEF TypeInv, TypeOK, PollRecord
<1>e. NoListing \in [Rules -> Seq(Entry)] /\ \A r \in Rules : NoListing[r] = <<>>
  BY EmptySeq DEF NoListing
<1>1. CASE SendPoll(p)
  <2>1. TypeOK'
    BY <1>0, <1>1, <1>e DEF TypeOK, SendPoll, boxVars, viewVars, PollRecord
  <2>2. IdsIssued'
    BY <1>0, <1>1, <1>e DEF TypeOK, PollRecord, IdsIssued, SendPoll, boxVars, viewVars
  <2> QED BY <2>1, <2>2 DEF TypeInv
<1>2. CASE BoxAnswersPoll(p)
  <2>1. /\ Listing(box) \in [Rules -> Seq(Entry)]
        /\ \A r \in Rules : Listing(box)[r] # <<>> <=> r \in DOMAIN box
    BY <1>0, ListingType
  <2>2. TypeOK'
    BY <1>0, <1>2, <2>1 DEF TypeOK, BoxAnswersPoll, boxVars, viewVars, PollRecord
  <2>3. IdsIssued'
    BY <1>0, <1>2, <2>1 DEF TypeOK, PollRecord, IdsIssued, BoxAnswersPoll, boxVars, viewVars
  <2> QED BY <2>2, <2>3 DEF TypeInv
<1>3. CASE PollFails(p)
  <2>1. TypeOK'
    BY <1>0, <1>3, <1>e DEF TypeOK, PollFails, IdlePoll, boxVars, PollRecord
  <2>2. IdsIssued'
    BY <1>0, <1>3, <1>e DEF TypeOK, PollRecord, IdsIssued, PollFails, IdlePoll, boxVars
  <2> QED BY <2>1, <2>2 DEF TypeInv
<1>4. CASE PublishPoll(p)
  <2>1. /\ data' = poll[p].snapshot
        /\ index' = IndexOf(data')
        /\ matching' = MatchingOf(index')
    BY <1>4 DEF PublishPoll
  <2>2. data' \in [Rules -> Seq(Entry)]
    BY <1>0, <2>1
  <2>3. index' \in RuleMaps /\ DOMAIN index' = {r \in Rules : data'[r] # <<>>}
    BY <2>1, <2>2, IndexOfType
  <2>4. matching' \in [Selected -> Seq(Entry)]
    BY <2>1, <2>3, MatchingOfType
  <2>5. TypeOK'
    BY <1>0, <1>4, <1>e, <2>2, <2>3, <2>4
       DEF TypeOK, PublishPoll, IdlePoll, boxVars, PollRecord
  <2>6. IdsIssued'
    BY <1>0, <1>4, <1>e, <2>1, <2>3
       DEF TypeOK, PollRecord, IdsIssued, PublishPoll, IdlePoll, boxVars
  <2> QED BY <2>5, <2>6 DEF TypeInv
<1> QED BY <1>1, <1>2, <1>3, <1>4

\* Issuing a command on an issued id, or a creation, keeps the invariant.
LEMMA IssueTypeInv ==
    ASSUME TypeInv,
           NEW c \in Calls, NEW phase \in {"sent", "skipped", "notFound"},
           NEW op \in Ops, NEW r \in Rules \cup {NoRule}, NEW k \in Controls,
           NEW x \in Contents \cup {KeepContent},
           phase = "sent" /\ op # "create" => r \in issued,
           op = "create" => r = NoRule /\ k = Enabled /\ x \in Contents,
           Issue(c, phase, op, r, k, x)
    PROVE  TypeInv'
<1> DEFINE new == [phase |-> phase, op |-> op, rule |-> r, control |-> k, content |-> x]
<1>0. TypeOK /\ IdsIssued
  BY DEF TypeInv
<1>1. new \in CallRecord
  BY DEF CallRecord, Phases
<1>2. call' = [call EXCEPT ![c] = new]
  BY DEF Issue
<1>3. UNCHANGED <<box, issued, appSteps, held, data, index, matching, lastUpdateSuccess,
                  poll, settled>>
  BY DEF Issue, boxVars, viewVars
<1>4. call' \in [Calls -> CallRecord]
  BY <1>0, <1>1, <1>2 DEF TypeOK
<1>5. TypeOK'
  BY <1>0, <1>3, <1>4 DEF TypeOK
<1>6. \A d \in Calls : call'[d] = IF d = c THEN new ELSE call[d]
  BY <1>0, <1>2 DEF TypeOK
<1>7. IdsIssued'
  BY <1>0, <1>3, <1>6, RulesAssumption DEF IdsIssued
<1> QED BY <1>5, <1>7 DEF TypeInv

\* The controls a command may carry.
LEMMA CommandControls ==
    /\ Enabled \in Controls
    /\ \A on \in BOOLEAN : SwitchControl(on) \in Controls
    /\ \A t \in Times \cup {NoTime} : Disabled(t) \in Controls
BY DEF Controls, SwitchControl

\* Beginning a command keeps the invariant.
LEMMA BeginTypeInv == \A c \in Calls : TypeInv /\ Begin(c) => TypeInv'
<1> SUFFICES ASSUME NEW c \in Calls, TypeInv, Begin(c)
             PROVE  TypeInv'
  OBVIOUS
<1>0. TypeOK /\ IdsIssued
  BY DEF TypeInv
<1>r. \A r \in Rules : Resolves(r) => r \in issued
  BY <1>0 DEF Resolves, IdsIssued
<1>s. Selected \subseteq issued /\ Selected \subseteq Rules
  BY <1>0, RulesAssumption DEF IdsIssued
<1>1. ASSUME NEW t \in Selected, NEW on \in BOOLEAN, TurnSwitch(c, t, on)
      PROVE  TypeInv'
  <2>1. matching[t] \in Seq(Entry) /\ matching[t] # <<>>
    BY <1>0, <1>1 DEF TypeOK, TurnSwitch, SwitchAvailable
  <2>2. matching[t][1] \in Entry
    BY <2>1, EmptySeq, LenProperties, ElementOfSeq
  <2>3. matching[t][1].content \in Contents
    BY <2>2 DEF Entry
  <2>4. Issue(c, "sent", "switch", t, SwitchControl(on), matching[t][1].content)
    BY <1>1 DEF TurnSwitch
  <2> QED BY <1>s, <2>3, <2>4, CommandControls, IssueTypeInv DEF Ops
<1>2. ASSUME NEW t \in Selected, NEW on \in BOOLEAN, SkipSwitch(c, t, on)
      PROVE  TypeInv'
  BY <1>2, <1>s, CommandControls, IssueTypeInv DEF Ops, SkipSwitch
<1>3. ASSUME NEW r \in Rules, NEW until \in Times \cup {NoTime}, PauseRule(c, r, until)
      PROVE  TypeInv'
  BY <1>3, <1>r, CommandControls, IssueTypeInv DEF Ops, PauseRule
<1>4. ASSUME NEW r \in Rules, ResumeRule(c, r)
      PROVE  TypeInv'
  BY <1>4, <1>r, CommandControls, IssueTypeInv DEF Ops, ResumeRule
<1>5. ASSUME NEW r \in Rules, DeleteRule(c, r)
      PROVE  TypeInv'
  <2>1. r \in issued
    BY <1>0, <1>5 DEF DeleteRule, IdsIssued
  <2> QED BY <1>5, <2>1, CommandControls, IssueTypeInv DEF Ops, DeleteRule
<1>6. ASSUME NEW r \in Rules, ControlNotFound(c, r) \/ DeleteNotFound(c, r)
      PROVE  TypeInv'
  BY <1>6, CommandControls, IssueTypeInv DEF Ops, ControlNotFound, DeleteNotFound
<1>7. ASSUME NEW x \in Contents, CreateRule(c, x)
      PROVE  TypeInv'
  BY <1>7, CommandControls, IssueTypeInv DEF Ops, CreateRule
<1> QED BY <1>1, <1>2, <1>3, <1>4, <1>5, <1>6, <1>7 DEF Begin

\* A request reaching the box, or not, keeps the invariant.
LEMMA DeliverTypeInv == \A c \in Calls : TypeInv /\ Deliver(c) => TypeInv'
<1> SUFFICES ASSUME NEW c \in Calls, TypeInv, Deliver(c)
             PROVE  TypeInv'
  OBVIOUS
<1>0. TypeOK /\ IdsIssued /\ box \in RuleMaps /\ call[c] \in CallRecord
  BY DEF TypeInv, TypeOK
<1>m. ASSUME NEW phase \in Phases, Moves(c, phase)
      PROVE  /\ call' \in [Calls -> CallRecord]
             /\ \A d \in Calls : /\ call'[d].op = call[d].op
                                 /\ call'[d].rule = call[d].rule
                                 /\ call'[d].control = call[d].control
                                 /\ call'[d].content = call[d].content
                                 /\ call'[d].phase = IF d = c THEN phase ELSE call[d].phase
  BY <1>0, <1>m DEF TypeOK, Moves, CallRecord
<1>1. CASE BoxUpdates(c)
  <2> DEFINE r == call[c].rule
             e == Updated(box[r], call[c])
  <2>1. r \in DOMAIN box /\ r \in Rules /\ box[r] \in Entry
    BY <1>0, <1>1, RuleMapsDef DEF BoxUpdates
  <2>2. e \in Entry
    BY <1>0, <2>1, UpdatedType
  <2>3. Put(box, r, e) \in RuleMaps /\ DOMAIN Put(box, r, e) = DOMAIN box \cup {r}
    BY <1>0, <2>1, <2>2, PutType
  <2>4. /\ box' \in RuleMaps
        /\ held' \in [Rules -> SUBSET Control]
        /\ settled' \subseteq Calls
    BY <1>0, <1>1, <2>3, BoxBecomesType DEF BoxUpdates
  <2>5. Moves(c, "acked")
    BY <1>1 DEF BoxUpdates
  <2>6. TypeOK'
    BY <1>0, <1>1, <1>m, <2>4, <2>5 DEF TypeOK, BoxUpdates, viewVars, Phases
  <2>7. IdsIssued'
    BY <1>0, <1>1, <1>m, <2>1, <2>3, <2>5
       DEF IdsIssued, BoxUpdates, BoxBecomes, viewVars, Phases
  <2> QED BY <2>6, <2>7 DEF TypeInv
<1>2. ASSUME NEW r \in Rules, BoxCreates(c, r)
      PROVE  TypeInv'
  <2> DEFINE e == EntryOf(Enabled, call[c].content)
  <2>1. e \in Entry
    BY <1>0, <1>2, EntryOfType, CommandControls DEF BoxCreates, IdsIssued
  <2>2. Put(box, r, e) \in RuleMaps /\ DOMAIN Put(box, r, e) = DOMAIN box \cup {r}
    BY <1>0, <2>1, PutType
  <2>3. /\ box' \in RuleMaps
        /\ held' \in [Rules -> SUBSET Control]
        /\ settled' \subseteq Calls
    BY <1>0, <1>2, <2>2, BoxBecomesType DEF BoxCreates
  <2>4. call' \in [Calls -> CallRecord]
    BY <1>0, <1>2 DEF TypeOK, BoxCreates, CallRecord, Phases
  <2>5. TypeOK'
    BY <1>0, <1>2, <2>3, <2>4 DEF TypeOK, BoxCreates, viewVars
  <2>6. /\ issued' = issued \cup {r} /\ r \notin issued
        /\ DOMAIN box' = DOMAIN box \cup {r}
        /\ UNCHANGED <<data, index, poll>>
    BY <1>2, <2>2 DEF BoxCreates, BoxBecomes, viewVars
  <2>7. \A d \in Calls : call'[d] = IF d = c
                                    THEN [call[c] EXCEPT !.phase = "acked", !.rule = r]
                                    ELSE call[d]
    BY <1>0, <1>2 DEF TypeOK, BoxCreates
  <2>8. r \notin Selected /\ call[c].op = "create"
    BY <1>0, <1>2 DEF IdsIssued, BoxCreates
  <2>9. \A d \in Calls :
           /\ call'[d].op = call[d].op
           /\ call'[d].control = call[d].control
           /\ call'[d].content = call[d].content
           /\ call'[d].rule = IF d = c THEN r ELSE call[d].rule
           /\ d # c => call'[d].phase = call[d].phase
    <3> DEFINE v == [call[c] EXCEPT !.phase = "acked", !.rule = r]
    <3>1. /\ v.op = call[c].op /\ v.control = call[c].control
          /\ v.content = call[c].content /\ v.rule = r
      BY <1>0 DEF CallRecord
    <3> HIDE DEF v
    <3>2. \A d \in Calls : call'[d] = IF d = c THEN v ELSE call[d]
      BY <2>7 DEF v
    <3> QED BY <3>1, <3>2
  <2>10. /\ DOMAIN box' \subseteq issued' /\ Selected \subseteq issued'
         /\ DOMAIN index' \subseteq issued'
         /\ \A q \in Rules : data'[q] # <<>> => q \in issued'
         /\ \A p \in Polls, q \in Rules : poll'[p].snapshot[q] # <<>> => q \in issued'
    BY <1>0, <2>6 DEF IdsIssued
  <2>11. ASSUME NEW d \in Calls
         PROVE  /\ call'[d].op = "create" => /\ call'[d].rule \notin Selected
                                             /\ call'[d].control = Enabled
                                             /\ call'[d].content \in Contents
                /\ \/ call'[d].phase \in {"acked", "done"}
                   \/ call'[d].phase = "sent" /\ call'[d].op # "create"
                   => call'[d].rule \in issued'
    BY <1>0, <2>6, <2>8, <2>9 DEF IdsIssued
  <2>12. IdsIssued'
    BY <2>10, <2>11 DEF IdsIssued
  <2> QED BY <2>5, <2>12 DEF TypeInv
<1>3. CASE BoxDeletes(c)
  <2> DEFINE r == call[c].rule
  <2>1. r \in Rules
    BY <1>0, <1>3, RuleMapsDef DEF BoxDeletes
  <2>2. Drop(box, r) \in RuleMaps /\ DOMAIN Drop(box, r) = DOMAIN box \ {r}
    BY <1>0, <2>1, DropType
  <2>3. /\ box' \in RuleMaps
        /\ held' \in [Rules -> SUBSET Control]
        /\ settled' \subseteq Calls
    BY <1>0, <1>3, <2>2, BoxBecomesType DEF BoxDeletes
  <2>4. Moves(c, "acked")
    BY <1>3 DEF BoxDeletes
  <2>5. TypeOK'
    BY <1>0, <1>3, <1>m, <2>3, <2>4 DEF TypeOK, BoxDeletes, viewVars, Phases
  <2>6. IdsIssued'
    BY <1>0, <1>3, <1>m, <2>2, <2>4
       DEF IdsIssued, BoxDeletes, BoxBecomes, viewVars, Phases
  <2> QED BY <2>5, <2>6 DEF TypeInv
<1>4. CASE BoxIgnores(c)
  <2>1. Moves(c, "acked")
    BY <1>4 DEF BoxIgnores
  <2>2. TypeOK'
    BY <1>0, <1>4, <1>m, <2>1 DEF TypeOK, BoxIgnores, boxVars, viewVars, Phases
  <2>3. IdsIssued'
    BY <1>0, <1>4, <1>m, <2>1 DEF IdsIssued, BoxIgnores, boxVars, viewVars, Phases
  <2> QED BY <2>2, <2>3 DEF TypeInv
<1>5. CASE RequestFails(c)
  <2>1. Moves(c, "failed")
    BY <1>5 DEF RequestFails
  <2>2. TypeOK'
    BY <1>0, <1>5, <1>m, <2>1 DEF TypeOK, RequestFails, boxVars, viewVars, Phases
  <2>3. IdsIssued'
    BY <1>0, <1>5, <1>m, <2>1 DEF IdsIssued, RequestFails, boxVars, viewVars, Phases
  <2> QED BY <2>2, <2>3 DEF TypeInv
<1> QED BY <1>1, <1>2, <1>3, <1>4, <1>5 DEF Deliver

\* What the end of a command does besides the two cached views.
LEMMA FinishEffect ==
    ASSUME TypeOK, NEW c \in Calls, Finish(c)
    PROVE  /\ call' \in [Calls -> CallRecord]
           /\ settled' \subseteq Calls
           /\ UNCHANGED <<box, issued, appSteps, held, poll>>
           /\ \A d \in Calls : /\ call'[d].op = call[d].op
                               /\ call'[d].rule = call[d].rule
                               /\ call'[d].control = call[d].control
                               /\ call'[d].content = call[d].content
                               /\ call'[d].phase = IF d = c THEN "done" ELSE call[d].phase
BY DEF Finish, Moves, TypeOK, CallRecord, Phases, boxVars

\* The views after an update returned: the same ids, the entries of the rule
\* rewritten, the index rebuilt from them.
LEMMA UpdateReturnsEffect ==
    ASSUME TypeOK, NEW c \in Calls, UpdateReturns(c)
    PROVE  /\ data' \in [Rules -> Seq(Entry)]
           /\ \A r \in Rules : /\ Len(data'[r]) = Len(data[r])
                               /\ DOMAIN data'[r] = DOMAIN data[r]
                               /\ data'[r] # <<>> <=> data[r] # <<>>
           /\ \A r \in Rules : \A i \in DOMAIN data[r] :
                 ControlOf(data'[r][i]) = IF r = call[c].rule THEN call[c].control
                                          ELSE ControlOf(data[r][i])
           /\ index' = IndexOf(data')
           /\ index' \in RuleMaps
           /\ matching' = MatchingOf(index')
           /\ matching' \in [Selected -> Seq(Entry)]
<1> DEFINE q == call[c].rule
           k == call[c].control
           s == [i \in DOMAIN data[q] |-> WithControl(data[q][i], k)]
<1>1. k \in Controls /\ data \in [Rules -> Seq(Entry)]
  BY DEF TypeOK, CallRecord
<1>2. data' = [data EXCEPT ![q] = s] /\ index' = IndexOf(data') /\ matching' = MatchingOf(index')
  BY DEF UpdateReturns
<1>3. ASSUME q \in Rules
      PROVE  /\ s \in Seq(Entry)
             /\ Len(s) = Len(data[q])
             /\ DOMAIN s = DOMAIN data[q]
             /\ s # <<>> <=> data[q] # <<>>
             /\ \A i \in DOMAIN data[q] : ControlOf(s[i]) = k
  <2>1. data[q] \in Seq(Entry) /\ DOMAIN data[q] = 1..Len(data[q]) /\ Len(data[q]) \in Nat
    BY <1>1, <1>3, LenProperties
  <2>2. \A i \in 1..Len(data[q]) : /\ WithControl(data[q][i], k) \in Entry
                                   /\ ControlOf(WithControl(data[q][i], k)) = k
    BY <1>1, <2>1, ElementOfSeq, WithControlType
  <2>3. s = [i \in 1..Len(data[q]) |-> WithControl(data[q][i], k)]
    BY <2>1
  <2>4. s \in Seq(Entry) /\ Len(s) = Len(data[q])
    BY <2>1, <2>2, <2>3, IsASeq
  <2>5. \A t \in Seq(Entry) : t # <<>> <=> Len(t) # 0
    BY EmptySeq
  <2> QED BY <2>1, <2>2, <2>3, <2>4, <2>5
<1> HIDE DEF s
<1>4. \A r \in Rules : data'[r] = IF r = q THEN s ELSE data[r]
  BY <1>1, <1>2
<1>5. data' \in [Rules -> Seq(Entry)]
  BY <1>1, <1>2, <1>3
<1>6. index' \in RuleMaps
  BY <1>2, <1>5, IndexOfType
<1>7. matching' \in [Selected -> Seq(Entry)]
  BY <1>2, <1>6, MatchingOfType
<1> QED BY <1>2, <1>3, <1>4, <1>5, <1>6, <1>7

\* The views after a creation returned: one more entry of the new id.
LEMMA CreateReturnsEffect ==
    ASSUME TypeInv, NEW c \in Calls, CreateReturns(c)
    PROVE  LET r == call[c].rule
               e == EntryOf(Enabled, call[c].content) IN
           /\ r \in Rules /\ r \in issued /\ r \notin Selected
           /\ e \in Entry /\ ControlOf(e) = call[c].control
           /\ data' \in [Rules -> Seq(Entry)]
           /\ data' = [data EXCEPT ![r] = Append(data[r], e)]
           /\ data'[r] # <<>> /\ data'[r][Len(data'[r])] = e
           /\ index' \in RuleMaps
           /\ index' = Put(index, r, e)
           /\ DOMAIN index' = DOMAIN index \cup {r}
<1> DEFINE r == call[c].rule
           e == EntryOf(Enabled, call[c].content)
<1>0. TypeOK /\ IdsIssued
  BY DEF TypeInv
<1>1. call[c].phase = "acked" /\ call[c].op = "create"
  BY DEF CreateReturns
<1>2. /\ r \in issued /\ r \notin Selected
      /\ call[c].control = Enabled /\ call[c].content \in Contents
  BY <1>0, <1>1 DEF IdsIssued
<1>3. r \in Rules
  BY <1>0, <1>2 DEF TypeOK
<1>4. e \in Entry /\ ControlOf(e) = Enabled
  BY <1>2, CommandControls, EntryOfType
<1> HIDE DEF e
<1>5. data[r] \in Seq(Entry)
  BY <1>0, <1>3 DEF TypeOK
<1>6. /\ Append(data[r], e) \in Seq(Entry)
      /\ Append(data[r], e) # <<>>
      /\ Append(data[r], e)[Len(Append(data[r], e))] = e
  BY <1>4, <1>5, AppendProperties
<1>7. data' = [data EXCEPT ![r] = Append(data[r], e)] /\ index' = Put(index, r, e)
  BY DEF CreateReturns, e
<1>8. data' \in [Rules -> Seq(Entry)] /\ data'[r] = Append(data[r], e)
  BY <1>0, <1>3, <1>6, <1>7 DEF TypeOK
<1>9. index \in RuleMaps
  BY <1>0 DEF TypeOK
<1>10. Put(index, r, e) \in RuleMaps /\ DOMAIN Put(index, r, e) = DOMAIN index \cup {r}
  <2>1. \A q \in Rules, n \in Entry :
           Put(index, q, n) \in RuleMaps /\ DOMAIN Put(index, q, n) = DOMAIN index \cup {q}
    BY <1>9, PutType
  <2> QED BY <1>3, <1>4, <2>1
<1> QED BY <1>2, <1>3, <1>4, <1>6, <1>7, <1>8, <1>10 DEF e

\* The views after a deletion returned: the id is in neither.
LEMMA DeleteReturnsEffect ==
    ASSUME TypeOK, NEW c \in Calls, DeleteReturns(c)
    PROVE  LET r == call[c].rule IN
           /\ r \in Rules
           /\ data' \in [Rules -> Seq(Entry)]
           /\ data' = [data EXCEPT ![r] = <<>>]
           /\ index' \in RuleMaps
           /\ index' = Drop(index, r)
           /\ DOMAIN index' = DOMAIN index \ {r}
           /\ matching' \in [Selected -> Seq(Entry)]
<1> DEFINE r == call[c].rule
<1>1. index \in RuleMaps /\ r \in DOMAIN index /\ index' = Drop(index, r)
  BY DEF TypeOK, DeleteReturns
<1>2. r \in Rules
  BY <1>1, RuleMapsDef
<1>3. index' \in RuleMaps /\ DOMAIN index' = DOMAIN index \ {r}
  BY <1>1, <1>2, DropType
<1>4. <<>> \in Seq(Entry)
  BY EmptySeq
<1>5. data' = [data EXCEPT ![r] = <<>>] /\ data' \in [Rules -> Seq(Entry)]
  BY <1>4 DEF DeleteReturns, TypeOK
<1>6. matching' \in [Selected -> Seq(Entry)]
  BY <1>4 DEF DeleteReturns, TypeOK
<1> QED BY <1>1, <1>2, <1>3, <1>5, <1>6

\* The end of a command leaves what is known of every command's id.
LEMMA FinishIds ==
    ASSUME TypeInv, NEW c \in Calls, call[c].phase = "acked", Finish(c)
    PROVE  /\ DOMAIN box' \subseteq issued'
           /\ Selected \subseteq issued'
           /\ call[c].rule \in issued'
           /\ issued' = issued
           /\ \A p \in Polls, r \in Rules : poll'[p].snapshot[r] # <<>> => r \in issued'
           /\ \A d \in Calls :
                 /\ call'[d].op = "create" => /\ call'[d].rule \notin Selected
                                              /\ call'[d].control = Enabled
                                              /\ call'[d].content \in Contents
                 /\ \/ call'[d].phase \in {"acked", "done"}
                    \/ call'[d].phase = "sent" /\ call'[d].op # "create"
                    => call'[d].rule \in issued'
<1>1. TypeOK /\ IdsIssued
  BY DEF TypeInv
<1>2. /\ UNCHANGED <<box, issued, poll>>
      /\ \A d \in Calls : /\ call'[d].op = call[d].op
                          /\ call'[d].rule = call[d].rule
                          /\ call'[d].control = call[d].control
                          /\ call'[d].content = call[d].content
                          /\ call'[d].phase = IF d = c THEN "done" ELSE call[d].phase
  BY <1>1, FinishEffect
<1> QED BY <1>1, <1>2 DEF IdsIssued

\* The end of a command keeps the invariant.
LEMMA ReturnTypeInv == \A c \in Calls : TypeInv /\ Return(c) => TypeInv'
<1> SUFFICES ASSUME NEW c \in Calls, TypeInv, Return(c)
             PROVE  TypeInv'
  OBVIOUS
<1>0. TypeOK /\ IdsIssued /\ index \in RuleMaps
  BY DEF TypeInv, TypeOK
<1>1. CASE UpdateReturns(c)
  <2>1. call[c].phase = "acked" /\ Finish(c) /\ lastUpdateSuccess' = TRUE
    BY <1>1 DEF UpdateReturns
  <2>2. DOMAIN index' = {r \in Rules : data'[r] # <<>>}
    BY <1>0, <1>1, UpdateReturnsEffect, IndexOfType
  <2>3. TypeOK'
    BY <1>0, <1>1, <2>1, FinishEffect, UpdateReturnsEffect DEF TypeOK
  <2>5. \A r \in Rules : data'[r] # <<>> => r \in issued
    BY <1>0, <1>1, UpdateReturnsEffect DEF IdsIssued
  <2>4. IdsIssued'
    BY <2>1, <2>2, <2>5, FinishIds DEF IdsIssued
  <2> QED BY <2>3, <2>4 DEF TypeInv
<1>2. CASE CreateReturns(c)
  <2>1. call[c].phase = "acked" /\ Finish(c) /\ lastUpdateSuccess' = TRUE /\ matching' = matching
    BY <1>2 DEF CreateReturns
  <2>2. TypeOK'
    BY <1>0, <1>2, <2>1, FinishEffect, CreateReturnsEffect DEF TypeOK
  <2>3. \A q \in Rules : q # call[c].rule => data'[q] = data[q]
    BY <1>0, <1>2, CreateReturnsEffect DEF TypeOK
  <2>5. DOMAIN index' \subseteq issued
    BY <1>0, <1>2, CreateReturnsEffect DEF IdsIssued
  <2>6. \A q \in Rules : data'[q] # <<>> => q \in issued
    BY <1>0, <1>2, <2>3, CreateReturnsEffect DEF IdsIssued
  <2>4. IdsIssued'
    BY <2>1, <2>5, <2>6, FinishIds DEF IdsIssued
  <2> QED BY <2>2, <2>4 DEF TypeInv
<1>3. CASE DeleteReturns(c)
  <2>1. call[c].phase = "acked" /\ Finish(c) /\ lastUpdateSuccess' = TRUE
    BY <1>3 DEF DeleteReturns
  <2>2. TypeOK'
    BY <1>0, <1>3, <2>1, FinishEffect, DeleteReturnsEffect DEF TypeOK
  <2>3. \A q \in Rules : data'[q] # <<>> => data[q] # <<>>
    BY <1>0, <1>3, DeleteReturnsEffect DEF TypeOK
  <2>5. DOMAIN index' \subseteq issued
    BY <1>0, <1>3, DeleteReturnsEffect DEF IdsIssued
  <2>4. IdsIssued'
    BY <1>0, <2>1, <2>3, <2>5, FinishIds DEF IdsIssued
  <2> QED BY <2>2, <2>4 DEF TypeInv
<1>4. ASSUME NEW phase \in {"unregistered", "keyError"}, Moves(c, phase),
             UNCHANGED <<boxVars, viewVars, poll, settled>>
      PROVE  TypeInv'
  <2>1. /\ call' \in [Calls -> CallRecord]
        /\ \A d \in Calls : /\ call'[d].op = call[d].op
                            /\ call'[d].rule = call[d].rule
                            /\ call'[d].control = call[d].control
                            /\ call'[d].content = call[d].content
                            /\ call'[d].phase = IF d = c THEN phase ELSE call[d].phase
    BY <1>0, <1>4 DEF TypeOK, Moves, CallRecord, Phases
  <2>2. TypeOK'
    BY <1>0, <1>4, <2>1 DEF TypeOK, boxVars, viewVars
  <2>3. IdsIssued'
    BY <1>0, <1>4, <2>1 DEF IdsIssued, boxVars, viewVars
  <2> QED BY <2>2, <2>3 DEF TypeInv
<1>5. CASE CreateReturnsNoId(c)
  BY <1>4, <1>5 DEF CreateReturnsNoId
<1>6. CASE DeleteRaises(c)
  BY <1>4, <1>6 DEF DeleteRaises
<1> QED BY <1>1, <1>2, <1>3, <1>5, <1>6 DEF Return

\* Every step keeps the types and the issued ids.
LEMMA NextTypeInv == TypeInv /\ [Next]_vars => TypeInv'
<1> SUFFICES ASSUME TypeInv, [Next]_vars
             PROVE  TypeInv'
  OBVIOUS
<1>1. CASE UNCHANGED vars
  BY <1>1 DEF vars, boxVars, viewVars, TypeInv, TypeOK, IdsIssued
<1> QED BY <1>1, EnvironmentTypeInv, RefreshTypeInv, BeginTypeInv, DeliverTypeInv,
           ReturnTypeInv DEF Next

\* The rules of the box, both cached views and everything under way have their
\* types in every reachable state, for any number of rules, commands, refreshes
\* and app steps.
THEOREM TypeCorrect == Spec => []TypeOK
<1>1. Spec => []TypeInv
  BY InitTypeInv, NextTypeInv, PTL DEF Spec
<1>2. TypeInv => TypeOK
  BY DEF TypeInv
<1> QED BY <1>1, <1>2, PTL

-----------------------------------------------------------------------------
(* The two cached views and the switches.                                  *)

ViewsInv == ViewsAgree /\ SwitchesFollowIndex

\* Two rule dictionaries with the same ids and rules are the same.
LEMMA RuleMapsEqual ==
    \A f, g \in RuleMaps :
        DOMAIN f = DOMAIN g /\ (\A r \in DOMAIN f : f[r] = g[r]) => f = g
<1> SUFFICES ASSUME NEW f \in RuleMaps, NEW g \in RuleMaps,
                    DOMAIN f = DOMAIN g, \A r \in DOMAIN f : f[r] = g[r]
             PROVE  f = g
  OBVIOUS
<1>1. f \in [DOMAIN f -> Entry] /\ g \in [DOMAIN g -> Entry]
  BY RuleMapsDef
<1> QED BY <1>1

\* Giving an id entries that end in e puts e in the index under that id.
LEMMA IndexOfPut ==
    ASSUME NEW d \in [Rules -> Seq(Entry)], NEW r \in Rules, NEW e \in Entry,
           NEW s \in Seq(Entry), s # <<>>, s[Len(s)] = e
    PROVE  IndexOf([d EXCEPT ![r] = s]) = Put(IndexOf(d), r, e)
<1> DEFINE d1 == [d EXCEPT ![r] = s]
<1>1. d1 \in [Rules -> Seq(Entry)] /\ d1[r] = s /\ \A q \in Rules \ {r} : d1[q] = d[q]
  OBVIOUS
<1> HIDE DEF d1
<1> DEFINE f == IndexOf(d1)
           h == IndexOf(d)
           g == Put(h, r, e)
<1>2. /\ f \in RuleMaps /\ DOMAIN f = {q \in Rules : d1[q] # <<>>}
      /\ \A q \in Rules : d1[q] # <<>> => f[q] = d1[q][Len(d1[q])]
  BY <1>1, IndexOfType
<1>3. /\ h \in RuleMaps /\ DOMAIN h = {q \in Rules : d[q] # <<>>}
      /\ \A q \in Rules : d[q] # <<>> => h[q] = d[q][Len(d[q])]
  BY IndexOfType
<1> HIDE DEF f, h
<1>4. /\ g \in RuleMaps /\ DOMAIN g = DOMAIN h \cup {r}
      /\ g[r] = e /\ \A q \in DOMAIN h \ {r} : g[q] = h[q]
  <2>1. h \in RuleMaps
    BY <1>3
  <2> QED BY <2>1, PutType
<1> HIDE DEF g
<1>5. DOMAIN f = DOMAIN g
  BY <1>1, <1>2, <1>3, <1>4
<1>6. \A q \in DOMAIN f : f[q] = g[q]
  <2> SUFFICES ASSUME NEW q \in DOMAIN f
               PROVE  f[q] = g[q]
    OBVIOUS
  <2>1. CASE q = r
    BY <1>1, <1>2, <1>4, <2>1
  <2>2. CASE q # r
    BY <1>1, <1>2, <1>3, <1>4, <2>2
  <2> QED BY <2>1, <2>2
<1>7. f = g
  BY <1>2, <1>4, <1>5, <1>6, RuleMapsEqual
<1> QED BY <1>7 DEF f, g, h, d1

\* Removing the entries of an id removes it from the index.
LEMMA IndexOfDrop ==
    ASSUME NEW d \in [Rules -> Seq(Entry)], NEW r \in Rules
    PROVE  IndexOf([d EXCEPT ![r] = <<>>]) = Drop(IndexOf(d), r)
<1> DEFINE d1 == [d EXCEPT ![r] = <<>>]
<1>1. d1 \in [Rules -> Seq(Entry)] /\ d1[r] = <<>> /\ \A q \in Rules \ {r} : d1[q] = d[q]
  BY EmptySeq
<1> HIDE DEF d1
<1> DEFINE f == IndexOf(d1)
           h == IndexOf(d)
           g == Drop(h, r)
<1>2. /\ f \in RuleMaps /\ DOMAIN f = {q \in Rules : d1[q] # <<>>}
      /\ \A q \in Rules : d1[q] # <<>> => f[q] = d1[q][Len(d1[q])]
  BY <1>1, IndexOfType
<1>3. /\ h \in RuleMaps /\ DOMAIN h = {q \in Rules : d[q] # <<>>}
      /\ \A q \in Rules : d[q] # <<>> => h[q] = d[q][Len(d[q])]
  BY IndexOfType
<1> HIDE DEF f, h
<1>4. g \in RuleMaps /\ DOMAIN g = DOMAIN h \ {r} /\ \A q \in DOMAIN h \ {r} : g[q] = h[q]
  BY <1>3, DropType
<1> HIDE DEF g
<1>5. DOMAIN f = DOMAIN g
  BY <1>1, <1>2, <1>3, <1>4
<1>6. \A q \in DOMAIN f : f[q] = g[q]
  <2> SUFFICES ASSUME NEW q \in DOMAIN f
               PROVE  f[q] = g[q]
    OBVIOUS
  <2>1. q \in Rules /\ q # r /\ d1[q] # <<>> /\ d1[q] = d[q]
    BY <1>1, <1>2
  <2>2. f[q] = d[q][Len(d[q])] /\ h[q] = d[q][Len(d[q])] /\ q \in DOMAIN h
    BY <1>2, <1>3, <2>1
  <2> QED BY <1>4, <2>1, <2>2
<1>7. f = g
  BY <1>2, <1>4, <1>5, <1>6, RuleMapsEqual
<1> QED BY <1>7 DEF f, g, h, d1

\* The steps that touch neither view keep them in agreement.
LEMMA ViewsUntouched ==
    ASSUME ViewsInv, UNCHANGED <<data, index, matching>>
    PROVE  ViewsInv'
BY DEF ViewsInv, ViewsAgree, SwitchesFollowIndex

\* The end of a command keeps the views in agreement.
LEMMA ReturnViewsInv == \A c \in Calls : TypeInv /\ ViewsInv /\ Return(c) => ViewsInv'
<1> SUFFICES ASSUME NEW c \in Calls, TypeInv, ViewsInv, Return(c)
             PROVE  ViewsInv'
  OBVIOUS
<1> DEFINE r == call[c].rule
<1>0. /\ TypeOK /\ data \in [Rules -> Seq(Entry)]
      /\ index \in RuleMaps /\ matching \in [Selected -> Seq(Entry)]
  BY DEF TypeInv, TypeOK
<1>v. index = IndexOf(data) /\ matching = MatchingOf(index)
  BY DEF ViewsInv, ViewsAgree, SwitchesFollowIndex
<1>1. CASE UpdateReturns(c)
  BY <1>1 DEF UpdateReturns, ViewsInv, ViewsAgree, SwitchesFollowIndex
<1>2. CASE CreateReturns(c)
  <2> DEFINE e == EntryOf(Enabled, call[c].content)
             s == Append(data[r], e)
  <2>1. /\ r \in Rules /\ r \notin Selected /\ e \in Entry
        /\ data' = [data EXCEPT ![r] = s]
        /\ index' = Put(index, r, e)
    BY <1>2, CreateReturnsEffect
  <2> HIDE DEF e
  <2>2. s \in Seq(Entry) /\ s # <<>> /\ s[Len(s)] = e
    BY <1>0, <2>1, AppendProperties
  <2> HIDE DEF s
  <2>3. IndexOf([data EXCEPT ![r] = s]) = Put(IndexOf(data), r, e)
    BY <1>0, <2>1, <2>2, IndexOfPut
  <2>4. index' = IndexOf(data')
    BY <1>v, <2>1, <2>3
  <2>5. \A q \in Rules, n \in Entry :
           /\ DOMAIN Put(index, q, n) = DOMAIN index \cup {q}
           /\ \A z \in DOMAIN index \ {q} : Put(index, q, n)[z] = index[z]
    BY <1>0, PutType
  <2>6. \A t \in Selected : /\ t \in DOMAIN index' <=> t \in DOMAIN index
                            /\ t \in DOMAIN index => index'[t] = index[t]
    BY <2>1, <2>5
  <2>7. matching' = MatchingOf(index')
    BY <1>2, <1>v, <2>6 DEF CreateReturns, MatchingOf
  <2> QED BY <2>4, <2>7 DEF ViewsInv, ViewsAgree, SwitchesFollowIndex
<1>3. CASE DeleteReturns(c)
  <2>1. /\ r \in Rules
        /\ data' = [data EXCEPT ![r] = <<>>]
        /\ index' = Drop(index, r)
    BY <1>0, <1>3, DeleteReturnsEffect
  <2>2. IndexOf([data EXCEPT ![r] = <<>>]) = Drop(IndexOf(data), r)
    BY <1>0, <2>1, IndexOfDrop
  <2>3. index' = IndexOf(data')
    BY <1>v, <2>1, <2>2
  <2>4. \A q \in Rules : /\ DOMAIN Drop(index, q) = DOMAIN index \ {q}
                         /\ \A z \in DOMAIN index \ {q} : Drop(index, q)[z] = index[z]
    BY <1>0, DropType
  <2>5. /\ DOMAIN index' = DOMAIN index \ {r}
        /\ \A z \in DOMAIN index \ {r} : index'[z] = index[z]
    BY <2>1, <2>4
  <2>6. matching' = [t \in Selected |-> IF t = r THEN <<>> ELSE matching[t]]
    BY <1>3 DEF DeleteReturns
  <2>7. matching' = MatchingOf(index')
    BY <1>v, <2>5, <2>6 DEF MatchingOf
  <2> QED BY <2>3, <2>7 DEF ViewsInv, ViewsAgree, SwitchesFollowIndex
<1>4. CASE CreateReturnsNoId(c) \/ DeleteRaises(c)
  BY <1>4, ViewsUntouched DEF CreateReturnsNoId, DeleteRaises, viewVars
<1> QED BY <1>1, <1>2, <1>3, <1>4 DEF Return

\* Every step keeps the views in agreement.
LEMMA NextViewsInv == TypeInv /\ ViewsInv /\ [Next]_vars => ViewsInv'
<1> SUFFICES ASSUME TypeInv, ViewsInv, [Next]_vars
             PROVE  ViewsInv'
  OBVIOUS
<1>1. CASE Environment
  BY <1>1, ViewsUntouched
     DEF Environment, AppUpdates, AppCreates, AppDeletes, BoxResumes, AppActs, viewVars
<1>2. ASSUME NEW p \in Polls, SendPoll(p) \/ BoxAnswersPoll(p) \/ PollFails(p)
      PROVE  ViewsInv'
  BY <1>2, ViewsUntouched DEF SendPoll, BoxAnswersPoll, PollFails, viewVars
<1>3. ASSUME NEW p \in Polls, PublishPoll(p)
      PROVE  ViewsInv'
  BY <1>3 DEF PublishPoll, ViewsInv, ViewsAgree, SwitchesFollowIndex
<1>4. ASSUME NEW c \in Calls, Begin(c)
      PROVE  ViewsInv'
  <2>1. UNCHANGED <<data, index, matching>>
    BY <1>4 DEF Begin, TurnSwitch, SkipSwitch, PauseRule, ResumeRule, DeleteRule,
                ControlNotFound, DeleteNotFound, CreateRule, Issue, viewVars
  <2> QED BY <2>1, ViewsUntouched
<1>5. ASSUME NEW c \in Calls, Deliver(c)
      PROVE  ViewsInv'
  <2>1. UNCHANGED <<data, index, matching>>
    BY <1>5 DEF Deliver, BoxUpdates, BoxCreates, BoxDeletes, BoxIgnores, RequestFails, viewVars
  <2> QED BY <2>1, ViewsUntouched
<1>6. CASE UNCHANGED vars
  BY <1>6, ViewsUntouched DEF vars, viewVars
<1> QED BY <1>1, <1>2, <1>3, <1>4, <1>5, <1>6, ReturnViewsInv DEF Next, Refresh

\* The index of the rule manager is the one its published tuple yields, in every
\* reachable state and for any overlap of refreshes and commands.
THEOREM ViewsAlwaysAgree == Spec => []ViewsAgree
<1>1. Init => ViewsInv
  BY DEF Init, ViewsInv, ViewsAgree, SwitchesFollowIndex
<1>2. Spec => [](TypeInv /\ ViewsInv)
  BY <1>1, InitTypeInv, NextTypeInv, NextViewsInv, PTL DEF Spec
<1>3. ViewsInv => ViewsAgree
  BY DEF ViewsInv
<1> QED BY <1>2, <1>3, PTL

\* A selected switch always stands for exactly the indexed rule of its id.
THEOREM SwitchesAlwaysFollow == Spec => []SwitchesFollowIndex
<1>1. Init => ViewsInv
  BY DEF Init, ViewsInv, ViewsAgree, SwitchesFollowIndex
<1>2. Spec => [](TypeInv /\ ViewsInv)
  BY <1>1, InitTypeInv, NextTypeInv, NextViewsInv, PTL DEF Spec
<1>3. ViewsInv => SwitchesFollowIndex
  BY DEF ViewsInv
<1> QED BY <1>2, <1>3, PTL

-----------------------------------------------------------------------------
(* What the cache shows of a rule, the box has had.                        *)

\* The box changes to rules that it held or whose ids are new.
LEMMA BoxStepHeld ==
    ASSUME TypeInv, HeldInv, NEW b \in RuleMaps, BoxBecomes(b),
           \A r \in DOMAIN b : r \in DOMAIN box \/ r \notin issued,
           UNCHANGED <<data, poll>>
    PROVE  /\ NoPhantomControl' /\ BoxHeld' /\ AnswersHeld'
           /\ \A c \in Calls :
                 /\ call[c].phase = "acked"
                 /\ call[c].op \in {"switch", "control", "create"}
                 /\ call[c].rule \in DOMAIN b
                 => call[c].control \in held'[call[c].rule]
<1>0. TypeOK /\ IdsIssued /\ DOMAIN b \subseteq Rules
  BY RuleMapsDef DEF TypeInv
<1>1. box' = b
  BY DEF BoxBecomes
<1>2. \A r \in Rules : held'[r] = IF r \in DOMAIN b THEN held[r] \cup {ControlOf(b[r])}
                                 ELSE held[r]
  BY DEF BoxBecomes
<1>3. ASSUME NEW r \in DOMAIN b
      PROVE  /\ held[r] \subseteq held'[r] /\ ControlOf(b[r]) \in held'[r]
             /\ r \notin DOMAIN box => r \notin issued
  BY <1>0, <1>2
<1>4. BoxHeld'
  BY <1>1, <1>3 DEF BoxHeld
<1>5. NoPhantomControl'
  <2> SUFFICES ASSUME NEW r \in DOMAIN b, NEW i \in DOMAIN data[r]
               PROVE  ControlOf(data[r][i]) \in held'[r]
    BY <1>1 DEF NoPhantomControl
  <2>1. r \in Rules /\ data[r] \in Seq(Entry) /\ data[r] # <<>>
    BY <1>0, EmptySeq, LenProperties DEF TypeOK
  <2>2. r \in DOMAIN box
    BY <1>0, <1>3, <2>1 DEF IdsIssued
  <2> QED BY <1>3, <2>2 DEF HeldInv, NoPhantomControl
<1>6. AnswersHeld'
  <2> SUFFICES ASSUME NEW p \in Polls, NEW r \in DOMAIN b,
                      NEW i \in DOMAIN poll[p].snapshot[r]
               PROVE  ControlOf(poll[p].snapshot[r][i]) \in held'[r]
    BY <1>1 DEF AnswersHeld
  <2>1. r \in Rules /\ poll[p].snapshot \in [Rules -> Seq(Entry)]
    BY <1>0 DEF TypeOK, PollRecord
  <2>2. poll[p].snapshot[r] \in Seq(Entry) /\ poll[p].snapshot[r] # <<>>
    BY <2>1, EmptySeq, LenProperties
  <2>3. r \in DOMAIN box
    BY <1>0, <1>3, <2>1, <2>2 DEF IdsIssued
  <2> QED BY <1>3, <2>3 DEF HeldInv, AnswersHeld
<1>7. ASSUME NEW c \in Calls,
             call[c].phase = "acked",
             call[c].op \in {"switch", "control", "create"},
             call[c].rule \in DOMAIN b
      PROVE  call[c].control \in held'[call[c].rule]
  <2>1. call[c].rule \in DOMAIN box
    BY <1>0, <1>3, <1>7 DEF IdsIssued
  <2> QED BY <1>3, <1>7, <2>1 DEF HeldInv, CommandsHeld
<1> QED BY <1>4, <1>5, <1>6, <1>7

\* Steps of the app and of the box.
LEMMA EnvironmentHeld == TypeInv /\ HeldInv /\ Environment => HeldInv'
<1> SUFFICES ASSUME TypeInv, HeldInv, Environment
             PROVE  HeldInv'
  OBVIOUS
<1>0. box \in RuleMaps /\ IdsIssued
  BY DEF TypeInv, TypeOK
<1>1. ASSUME NEW b \in RuleMaps, BoxBecomes(b),
             \A r \in DOMAIN b : r \in DOMAIN box \/ r \notin issued,
             UNCHANGED <<data, poll, call>>
      PROVE  HeldInv'
  <2>1. box' = b
    BY <1>1 DEF BoxBecomes
  <2> QED BY <1>1, <2>1, BoxStepHeld DEF HeldInv, CommandsHeld
<1>2. ASSUME NEW r \in Rules, NEW e \in Entry,
             r \in DOMAIN box \/ r \notin issued, BoxBecomes(Put(box, r, e)),
             UNCHANGED <<data, poll, call>>
      PROVE  HeldInv'
  <2>1. Put(box, r, e) \in RuleMaps /\ DOMAIN Put(box, r, e) = DOMAIN box \cup {r}
    BY <1>0, PutType
  <2> QED BY <1>1, <1>2, <2>1
<1>3. ASSUME NEW r \in Rules, NEW k \in Controls, NEW x \in Contents,
             AppUpdates(r, k, x) \/ AppCreates(r, k, x)
      PROVE  HeldInv'
  <2>1. EntryOf(k, x) \in Entry
    BY EntryOfType
  <2> QED BY <1>2, <1>3, <2>1 DEF AppUpdates, AppCreates, AppActs, viewVars
<1>4. ASSUME NEW r \in Rules, AppDeletes(r)
      PROVE  HeldInv'
  <2>1. Drop(box, r) \in RuleMaps /\ DOMAIN Drop(box, r) = DOMAIN box \ {r}
    BY <1>0, DropType
  <2> QED BY <1>1, <1>4, <2>1 DEF AppDeletes, AppActs, viewVars
<1>5. ASSUME NEW r \in Rules, BoxResumes(r)
      PROVE  HeldInv'
  <2>1. r \in DOMAIN box /\ WithControl(box[r], Enabled) \in Entry
    BY <1>0, <1>5, RuleMapsDef, WithControlType DEF BoxResumes, Controls
  <2> QED BY <1>2, <1>5, <2>1 DEF BoxResumes, viewVars
<1> QED BY <1>3, <1>4, <1>5 DEF Environment

\* Steps of a refresh: it answers with what the box has and publishes that.
LEMMA RefreshHeld == TypeInv /\ HeldInv /\ Refresh => HeldInv'
<1> SUFFICES ASSUME TypeInv, HeldInv, NEW p \in Polls,
                    SendPoll(p) \/ BoxAnswersPoll(p) \/ PollFails(p) \/ PublishPoll(p)
             PROVE  HeldInv'
  BY DEF Refresh
<1>0. /\ TypeOK /\ box \in RuleMaps /\ DOMAIN box \subseteq Rules
      /\ poll \in [Polls -> PollRecord]
  BY RuleMapsDef DEF TypeInv, TypeOK
<1>1. UNCHANGED <<box, held, call>>
  BY DEF SendPoll, BoxAnswersPoll, PollFails, PublishPoll, boxVars
<1>2. BoxHeld' /\ CommandsHeld'
  BY <1>1 DEF HeldInv, BoxHeld, CommandsHeld
<1>e. \A r \in Rules : DOMAIN NoListing[r] = {}
  BY EmptySeq, LenProperties DEF NoListing
<1>3. NoPhantomControl'
  BY <1>0, <1>1 DEF HeldInv, NoPhantomControl, AnswersHeld, SendPoll, BoxAnswersPoll,
                    PollFails, PublishPoll, viewVars
<1>4. ASSUME NEW s \in [Rules -> Seq(Entry)],
             \A r \in DOMAIN box : \A i \in DOMAIN s[r] : ControlOf(s[r][i]) \in held[r],
             \A q \in Polls : poll'[q].snapshot = IF q = p THEN s ELSE poll[q].snapshot
      PROVE  AnswersHeld'
  BY <1>1, <1>4 DEF HeldInv, AnswersHeld
<1>n. NoListing \in [Rules -> Seq(Entry)]
  BY EmptySeq DEF NoListing
<1>5. CASE SendPoll(p) \/ PollFails(p) \/ PublishPoll(p)
  <2>1. \A q \in Polls : poll'[q].snapshot = IF q = p THEN NoListing ELSE poll[q].snapshot
    BY <1>0, <1>5 DEF SendPoll, PollFails, PublishPoll, IdlePoll
  <2> QED BY <1>0, <1>2, <1>3, <1>4, <1>e, <1>n, <2>1 DEF HeldInv
<1>6. CASE BoxAnswersPoll(p)
  <2>1. \A q \in Polls : poll'[q].snapshot = IF q = p THEN Listing(box) ELSE poll[q].snapshot
    BY <1>0, <1>6 DEF BoxAnswersPoll
  <2>2. /\ Listing(box) \in [Rules -> Seq(Entry)]
        /\ \A r \in DOMAIN box : Listing(box)[r] = <<box[r]>>
    BY <1>0, ListingType
  <2>3. \A r \in DOMAIN box : \A i \in DOMAIN Listing(box)[r] :
           ControlOf(Listing(box)[r][i]) \in held[r]
    BY <2>2 DEF HeldInv, BoxHeld
  <2> QED BY <1>2, <1>3, <1>4, <2>1, <2>2, <2>3 DEF HeldInv
<1> QED BY <1>5, <1>6

\* The steps that leave the box, the snapshots and the history alone and bring
\* no command to its acknowledgement.
LEMMA HeldUntouched ==
    ASSUME HeldInv, UNCHANGED <<box, held, data, poll>>,
           \A d \in Calls : \/ call'[d] = call[d]
                           \/ call'[d].phase # "acked"
    PROVE  HeldInv'
BY DEF HeldInv, NoPhantomControl, BoxHeld, AnswersHeld, CommandsHeld

\* The start of a command.
LEMMA BeginHeld == \A c \in Calls : TypeInv /\ HeldInv /\ Begin(c) => HeldInv'
<1> SUFFICES ASSUME NEW c \in Calls, TypeInv, HeldInv, Begin(c)
             PROVE  HeldInv'
  OBVIOUS
<1>1. ASSUME NEW phase \in {"sent", "skipped", "notFound"}, NEW op, NEW r, NEW k, NEW x,
             Issue(c, phase, op, r, k, x)
      PROVE  HeldInv'
  <2>1. call \in [Calls -> CallRecord]
    BY DEF TypeInv, TypeOK
  <2>2. \A d \in Calls : call'[d] = call[d] \/ call'[d].phase # "acked"
    BY <1>1, <2>1 DEF Issue
  <2> QED BY <1>1, <2>2, HeldUntouched DEF Issue, boxVars, viewVars
<1> QED BY <1>1 DEF Begin, TurnSwitch, SkipSwitch, PauseRule, ResumeRule, DeleteRule,
                    ControlNotFound, DeleteNotFound, CreateRule

\* What happens to the request of a command.
LEMMA DeliverHeld == \A c \in Calls : TypeInv /\ HeldInv /\ Deliver(c) => HeldInv'
<1> SUFFICES ASSUME NEW c \in Calls, TypeInv, HeldInv, Deliver(c)
             PROVE  HeldInv'
  OBVIOUS
<1>0. /\ IdsIssued /\ box \in RuleMaps /\ call[c] \in CallRecord
      /\ call \in [Calls -> CallRecord]
  BY DEF TypeInv, TypeOK
<1>1. ASSUME NEW b \in RuleMaps, BoxBecomes(b),
             \A r \in DOMAIN b : r \in DOMAIN box \/ r \notin issued,
             UNCHANGED <<data, poll>>,
             \A d \in Calls \ {c} : call'[d] = call[d],
             /\ call'[c].op \in {"switch", "control", "create"}
             /\ call'[c].rule \in DOMAIN b
             => ControlOf(b[call'[c].rule]) = call'[c].control
      PROVE  HeldInv'
  <2>1. box' = b
    BY <1>1 DEF BoxBecomes
  <2>2. /\ NoPhantomControl' /\ BoxHeld' /\ AnswersHeld'
        /\ \A d \in Calls :
              /\ call[d].phase = "acked"
              /\ call[d].op \in {"switch", "control", "create"}
              /\ call[d].rule \in DOMAIN b
              => call[d].control \in held'[call[d].rule]
    BY <1>1, BoxStepHeld
  <2>3. ASSUME NEW d \in Calls,
               call'[d].phase = "acked",
               call'[d].op \in {"switch", "control", "create"},
               call'[d].rule \in DOMAIN b
        PROVE  call'[d].control \in held'[call'[d].rule]
    <3>1. CASE d = c
      BY <1>1, <2>1, <2>2, <2>3, <3>1 DEF BoxHeld
    <3>2. CASE d # c
      BY <1>1, <2>2, <2>3, <3>2
    <3> QED BY <3>1, <3>2
  <2> QED BY <2>1, <2>2, <2>3 DEF HeldInv, CommandsHeld
<1>2. CASE BoxUpdates(c)
  <2> DEFINE r == call[c].rule
             e == Updated(box[r], call[c])
             b == Put(box, r, e)
  <2>1. r \in DOMAIN box /\ r \in Rules /\ box[r] \in Entry
    BY <1>0, <1>2, RuleMapsDef DEF BoxUpdates
  <2>2. e \in Entry /\ ControlOf(e) = call[c].control
    BY <1>0, <2>1, UpdatedType
  <2>3. BoxBecomes(b) /\ Moves(c, "acked") /\ UNCHANGED <<data, poll>>
    BY <1>2 DEF BoxUpdates, viewVars
  <2> HIDE DEF e
  <2>p. \A q \in Rules, n \in Entry : /\ Put(box, q, n) \in RuleMaps
                                      /\ DOMAIN Put(box, q, n) = DOMAIN box \cup {q}
                                      /\ Put(box, q, n)[q] = n
    BY <1>0, PutType
  <2>4. b \in RuleMaps /\ DOMAIN b = DOMAIN box \cup {r} /\ b[r] = e
    BY <2>1, <2>2, <2>p
  <2> HIDE DEF b
  <2>5. /\ call'[c].rule = r /\ call'[c].control = call[c].control
        /\ \A d \in Calls \ {c} : call'[d] = call[d]
    BY <1>0, <2>3 DEF Moves, CallRecord
  <2> QED BY <1>1, <2>1, <2>2, <2>3, <2>4, <2>5
<1>3. ASSUME NEW r \in Rules, BoxCreates(c, r)
      PROVE  HeldInv'
  <2> DEFINE e == EntryOf(Enabled, call[c].content)
             b == Put(box, r, e)
  <2>1. call[c].control = Enabled /\ call[c].content \in Contents /\ r \notin issued
    BY <1>0, <1>3 DEF BoxCreates, IdsIssued
  <2>2. e \in Entry /\ ControlOf(e) = Enabled
    BY <2>1, EntryOfType, CommandControls
  <2>3. BoxBecomes(b) /\ UNCHANGED <<data, poll>>
    BY <1>3 DEF BoxCreates, viewVars
  <2> HIDE DEF e
  <2>4. b \in RuleMaps /\ DOMAIN b = DOMAIN box \cup {r} /\ b[r] = e
    BY <1>0, <2>2, PutType
  <2> HIDE DEF b
  <2>5. /\ call'[c].rule = r /\ call'[c].control = call[c].control
        /\ \A d \in Calls \ {c} : call'[d] = call[d]
    BY <1>0, <1>3 DEF BoxCreates, CallRecord
  <2> QED BY <1>1, <2>1, <2>2, <2>3, <2>4, <2>5
<1>4. CASE BoxDeletes(c)
  <2> DEFINE b == Drop(box, call[c].rule)
  <2>1. call[c].rule \in Rules
    BY <1>0, <1>4, RuleMapsDef DEF BoxDeletes
  <2>2. b \in RuleMaps /\ DOMAIN b = DOMAIN box \ {call[c].rule}
    BY <1>0, <2>1, DropType
  <2>3. BoxBecomes(b) /\ Moves(c, "acked") /\ UNCHANGED <<data, poll>> /\ call[c].op = "delete"
    BY <1>4 DEF BoxDeletes, viewVars
  <2> HIDE DEF b
  <2>4. call'[c].op = "delete" /\ \A d \in Calls \ {c} : call'[d] = call[d]
    BY <1>0, <2>3 DEF Moves, CallRecord
  <2> QED BY <1>1, <2>2, <2>3, <2>4
<1>5. CASE BoxIgnores(c)
  <2>1. Moves(c, "acked") /\ call[c].rule \notin DOMAIN box /\ UNCHANGED <<box, held, data, poll>>
    BY <1>5 DEF BoxIgnores, boxVars, viewVars
  <2>2. call'[c].rule = call[c].rule /\ \A d \in Calls \ {c} : call'[d] = call[d]
    BY <1>0, <2>1 DEF Moves, CallRecord
  <2>3. CommandsHeld'
    BY <2>1, <2>2 DEF HeldInv, CommandsHeld
  <2> QED BY <2>1, <2>3 DEF HeldInv, NoPhantomControl, BoxHeld, AnswersHeld
<1>6. CASE RequestFails(c)
  <2>1. \A d \in Calls : call'[d] = call[d] \/ call'[d].phase # "acked"
    BY <1>0, <1>6 DEF RequestFails, Moves, CallRecord
  <2> QED BY <1>6, <2>1, HeldUntouched DEF RequestFails, boxVars, viewVars
<1> QED BY <1>2, <1>3, <1>4, <1>5, <1>6 DEF Deliver

\* The end of a command: it shows what the box was told.
LEMMA ReturnHeld == \A c \in Calls : TypeInv /\ HeldInv /\ Return(c) => HeldInv'
<1> SUFFICES ASSUME NEW c \in Calls, TypeInv, HeldInv, Return(c)
             PROVE  HeldInv'
  OBVIOUS
<1>0. /\ TypeOK /\ box \in RuleMaps /\ DOMAIN box \subseteq Rules
      /\ data \in [Rules -> Seq(Entry)] /\ call \in [Calls -> CallRecord]
  BY RuleMapsDef DEF TypeInv, TypeOK
<1>1. ASSUME call[c].phase = "acked", Finish(c), NoPhantomControl'
      PROVE  HeldInv'
  <2>1. UNCHANGED <<box, held, poll>> /\ \A d \in Calls : call'[d] = call[d] \/ call'[d].phase # "acked"
    BY <1>0, <1>1 DEF Finish, Moves, boxVars, CallRecord
  <2> QED BY <1>1, <2>1 DEF HeldInv, BoxHeld, AnswersHeld, CommandsHeld
<1>2. ASSUME Finish(c)
      PROVE  UNCHANGED <<box, held>>
  BY <1>2 DEF Finish, boxVars
<1>3. CASE UpdateReturns(c)
  <2>1. /\ call[c].phase = "acked" /\ call[c].op \in {"switch", "control"}
        /\ Finish(c)
    BY <1>3 DEF UpdateReturns
  <2>2. \A r \in Rules :
           /\ DOMAIN data'[r] = DOMAIN data[r]
           /\ \A i \in DOMAIN data[r] :
                 ControlOf(data'[r][i]) = IF r = call[c].rule THEN call[c].control
                                          ELSE ControlOf(data[r][i])
    BY <1>0, <1>3, UpdateReturnsEffect
  <2>3. NoPhantomControl'
    BY <1>0, <1>2, <2>1, <2>2 DEF HeldInv, NoPhantomControl, CommandsHeld
  <2> QED BY <1>1, <2>1, <2>3
<1>4. CASE CreateReturns(c)
  <2> DEFINE r == call[c].rule
             e == EntryOf(Enabled, call[c].content)
             s == Append(data[r], e)
  <2>1. call[c].phase = "acked" /\ call[c].op = "create" /\ Finish(c)
    BY <1>4 DEF CreateReturns
  <2>2. /\ r \in Rules /\ e \in Entry /\ ControlOf(e) = call[c].control
        /\ data' = [data EXCEPT ![r] = s]
    BY <1>4, CreateReturnsEffect
  <2> HIDE DEF e
  <2>3. /\ DOMAIN s = 1..(Len(data[r]) + 1) /\ DOMAIN data[r] = 1..Len(data[r])
        /\ Len(data[r]) \in Nat
        /\ \A i \in 1..Len(data[r]) : s[i] = data[r][i]
        /\ s[Len(data[r]) + 1] = e
    BY <1>0, <2>2, AppendProperties, LenProperties
  <2> HIDE DEF s
  <2>4. \A i \in DOMAIN s : (i \in DOMAIN data[r] /\ s[i] = data[r][i]) \/ s[i] = e
    BY <2>3
  <2>5. data'[r] = s /\ \A q \in Rules \ {r} : data'[q] = data[q]
    BY <1>0, <2>2
  <2>6. r \in DOMAIN box => ControlOf(e) \in held[r]
    BY <2>1, <2>2 DEF HeldInv, CommandsHeld
  <2>7. ASSUME NEW q \in DOMAIN box, NEW i \in DOMAIN data'[q]
        PROVE  ControlOf(data'[q][i]) \in held[q]
    <3>1. CASE q = r
      BY <2>4, <2>5, <2>6, <2>7, <3>1 DEF HeldInv, NoPhantomControl
    <3>2. CASE q # r
      BY <1>0, <2>5, <2>7, <3>2 DEF HeldInv, NoPhantomControl
    <3> QED BY <3>1, <3>2
  <2>8. NoPhantomControl'
    BY <1>2, <2>1, <2>7 DEF NoPhantomControl
  <2> QED BY <1>1, <2>1, <2>8
<1>5. CASE DeleteReturns(c)
  <2>1. call[c].phase = "acked" /\ Finish(c) /\ data' = [data EXCEPT ![call[c].rule] = <<>>]
    BY <1>5 DEF DeleteReturns
  <2>2. \A q \in Rules : data'[q] = <<>> \/ data'[q] = data[q]
    BY <1>0, <2>1
  <2>3. NoPhantomControl'
    BY <1>0, <1>2, <2>1, <2>2, EmptySeq, LenProperties DEF HeldInv, NoPhantomControl
  <2> QED BY <1>1, <2>1, <2>3
<1>6. CASE CreateReturnsNoId(c) \/ DeleteRaises(c)
  <2>1. \A d \in Calls : call'[d] = call[d] \/ call'[d].phase # "acked"
    BY <1>0, <1>6 DEF CreateReturnsNoId, DeleteRaises, Moves, CallRecord
  <2> QED BY <1>6, <2>1, HeldUntouched DEF CreateReturnsNoId, DeleteRaises, boxVars, viewVars
<1> QED BY <1>3, <1>4, <1>5, <1>6 DEF Return

\* The cache never invents a rule state: in every reachable state the enabled
\* flag and the pause boundary it shows for a rule of the box are ones the box
\* has had for that rule.
THEOREM CacheNeverInvents == Spec => []NoPhantomControl
<1>1. Init => HeldInv
  <2> SUFFICES ASSUME Init
               PROVE  HeldInv
    OBVIOUS
  <2>1. TypeOK /\ box \in RuleMaps /\ DOMAIN box = Existing
    BY InitTypeInv DEF TypeInv, TypeOK, Init
  <2>2. \A r \in Existing : held[r] = {ControlOf(box[r])}
    BY RulesAssumption DEF Init
  <2>3. \A r \in DOMAIN box : data[r] = <<box[r]>>
    BY <2>1, ListingType DEF Init
  <2>4. BoxHeld /\ NoPhantomControl
    BY <2>1, <2>2, <2>3 DEF BoxHeld, NoPhantomControl
  <2>e. DOMAIN <<>> = {}
    BY EmptySeq, LenProperties
  <2>5. \A p \in Polls, r \in Rules : DOMAIN poll[p].snapshot[r] = {}
    <3>1. \A p \in Polls, r \in Rules : poll[p].snapshot[r] = <<>>
      BY DEF Init, IdlePoll, NoListing
    <3> QED BY <2>e, <3>1
  <2>6. AnswersHeld
    <3>1. \A r \in DOMAIN box : r \in Rules
      BY <2>1, RulesAssumption
    <3>2. \A p \in Polls, r \in DOMAIN box : DOMAIN poll[p].snapshot[r] = {}
      BY <2>5, <3>1
    <3> QED BY <3>2 DEF AnswersHeld
  <2>7. CommandsHeld
    BY DEF Init, NewCall, CommandsHeld
  <2> QED BY <2>4, <2>6, <2>7 DEF HeldInv
<1>2. TypeInv /\ HeldInv /\ [Next]_vars => HeldInv'
  <2> SUFFICES ASSUME TypeInv, HeldInv, [Next]_vars
               PROVE  HeldInv'
    OBVIOUS
  <2>1. CASE UNCHANGED vars
    BY <2>1, HeldUntouched DEF vars, boxVars, viewVars
  <2> QED BY <2>1, EnvironmentHeld, RefreshHeld, BeginHeld, DeliverHeld, ReturnHeld DEF Next
<1>3. Spec => [](TypeInv /\ HeldInv)
  BY <1>1, <1>2, InitTypeInv, NextTypeInv, PTL DEF Spec
<1>4. HeldInv => NoPhantomControl
  BY DEF HeldInv
<1> QED BY <1>3, <1>4, PTL

-----------------------------------------------------------------------------
(* A settled command stays visible.                                        *)

\* The index of a fresh snapshot is the box.
LEMMA IndexOfListing ==
    ASSUME NEW b \in RuleMaps
    PROVE  IndexOf(Listing(b)) = b
<1> DEFINE d == Listing(b)
           f == IndexOf(d)
<1>1. DOMAIN b \subseteq Rules
  BY RuleMapsDef
<1>2. /\ d \in [Rules -> Seq(Entry)]
      /\ \A r \in Rules : d[r] # <<>> <=> r \in DOMAIN b
      /\ \A r \in DOMAIN b : d[r] = <<b[r]>>
  BY ListingType
<1> HIDE DEF d
<1>3. /\ f \in RuleMaps /\ DOMAIN f = {r \in Rules : d[r] # <<>>}
      /\ \A r \in Rules : d[r] # <<>> => f[r] = d[r][Len(d[r])]
  BY <1>2, IndexOfType
<1> HIDE DEF f
<1>4. DOMAIN f = DOMAIN b
  BY <1>1, <1>2, <1>3
<1>5. \A r \in DOMAIN f : f[r] = b[r]
  <2> SUFFICES ASSUME NEW r \in DOMAIN f
               PROVE  f[r] = b[r]
    OBVIOUS
  <2>1. r \in Rules /\ d[r] # <<>> /\ d[r] = <<b[r]>>
    BY <1>1, <1>2, <1>4
  <2>2. f[r] = d[r][Len(d[r])]
    BY <1>3, <2>1
  <2> QED BY <2>1, <2>2
<1>6. f = b
  BY <1>3, <1>4, <1>5, RuleMapsEqual
<1> QED BY <1>6 DEF f, d

\* What an update does to the control the index shows for each id.
LEMMA UpdateReturnsIndex ==
    ASSUME TypeOK, ViewsInv, NEW c \in Calls, UpdateReturns(c)
    PROVE  /\ DOMAIN index' = DOMAIN index
           /\ \A r \in DOMAIN index :
                 ControlOf(index'[r]) = IF r = call[c].rule THEN call[c].control
                                        ELSE ControlOf(index[r])
<1>1. data \in [Rules -> Seq(Entry)] /\ index = IndexOf(data)
  BY DEF TypeOK, ViewsInv, ViewsAgree
<1>2. /\ DOMAIN index = {r \in Rules : data[r] # <<>>}
      /\ \A r \in Rules : data[r] # <<>> => index[r] = data[r][Len(data[r])]
  BY <1>1, IndexOfType
<1>3. /\ data' \in [Rules -> Seq(Entry)] /\ index' = IndexOf(data')
      /\ \A r \in Rules : /\ Len(data'[r]) = Len(data[r])
                          /\ data'[r] # <<>> <=> data[r] # <<>>
      /\ \A r \in Rules : \A i \in DOMAIN data[r] :
            ControlOf(data'[r][i]) = IF r = call[c].rule THEN call[c].control
                                     ELSE ControlOf(data[r][i])
  BY UpdateReturnsEffect
<1>4. /\ DOMAIN index' = {r \in Rules : data'[r] # <<>>}
      /\ \A r \in Rules : data'[r] # <<>> => index'[r] = data'[r][Len(data'[r])]
  BY <1>3, IndexOfType
<1>5. DOMAIN index' = DOMAIN index
  BY <1>2, <1>3, <1>4
<1>6. ASSUME NEW r \in DOMAIN index
      PROVE  ControlOf(index'[r]) = IF r = call[c].rule THEN call[c].control
                                    ELSE ControlOf(index[r])
  <2>1. r \in Rules /\ data[r] # <<>> /\ data[r] \in Seq(Entry)
    BY <1>1, <1>2
  <2>2. Len(data[r]) \in DOMAIN data[r]
    BY <2>1, EmptySeq, LenProperties
  <2>3. index[r] = data[r][Len(data[r])] /\ index'[r] = data'[r][Len(data[r])]
    BY <1>2, <1>3, <1>4, <2>1
  <2> QED BY <1>3, <2>1, <2>2, <2>3
<1> QED BY <1>5, <1>6

\* A step that brings no command to its acknowledgement and leaves the box, the
\* index and the settled commands alone.
LEMMA SettledUntouched ==
    ASSUME SettledInv,
           UNCHANGED <<box, index, settled>>,
           settled \subseteq Calls,
           \A p \in Polls : poll'[p] = poll[p] \/ poll'[p].phase # "answered",
           \A d \in Calls : call[d].phase = "done" => call'[d] = call[d],
           \A d \in Calls : call'[d].phase = "acked" => call'[d] = call[d]
    PROVE  SettledInv'
<1>1. \A c \in settled : call'[c] = call[c]
  BY DEF SettledInv
<1> QED BY <1>1 DEF SettledInv, Reflects

\* A change of the box keeps the settled commands it does not contradict.
LEMMA BoxStepSettled ==
    ASSUME TypeInv, SettledInv, NEW b \in RuleMaps, BoxBecomes(b),
           \A r \in DOMAIN b : r \in DOMAIN box \/ r \notin issued,
           UNCHANGED <<index, poll, call>>
    PROVE  SettledInv'
<1>0. IdsIssued /\ settled \subseteq Calls
  BY DEF TypeInv, TypeOK
<1>1. box' = b /\ settled' = {c \in settled : Reflects(b, c)}
  BY DEF BoxBecomes
<1>2. \A d \in Calls : call[d].phase = "acked" /\ call[d].op = "delete"
                         => call[d].rule \notin DOMAIN b
  BY <1>0 DEF SettledInv, IdsIssued
<1> QED BY <1>0, <1>1, <1>2 DEF SettledInv, Reflects

\* Steps of the app and of the box.
LEMMA EnvironmentSettled == TypeInv /\ SettledInv /\ Environment => SettledInv'
<1> SUFFICES ASSUME TypeInv, SettledInv, Environment
             PROVE  SettledInv'
  OBVIOUS
<1>0. box \in RuleMaps
  BY DEF TypeInv, TypeOK
<1>1. ASSUME NEW r \in Rules, NEW e \in Entry,
             r \in DOMAIN box \/ r \notin issued, BoxBecomes(Put(box, r, e)),
             UNCHANGED <<index, poll, call>>
      PROVE  SettledInv'
  <2>1. Put(box, r, e) \in RuleMaps /\ DOMAIN Put(box, r, e) = DOMAIN box \cup {r}
    BY <1>0, PutType
  <2> QED BY <1>1, <2>1, BoxStepSettled
<1>2. ASSUME NEW r \in Rules, NEW k \in Controls, NEW x \in Contents,
             AppUpdates(r, k, x) \/ AppCreates(r, k, x)
      PROVE  SettledInv'
  <2>1. EntryOf(k, x) \in Entry
    BY EntryOfType
  <2> QED BY <1>1, <1>2, <2>1 DEF AppUpdates, AppCreates, AppActs, viewVars
<1>3. ASSUME NEW r \in Rules, AppDeletes(r)
      PROVE  SettledInv'
  <2>1. Drop(box, r) \in RuleMaps /\ DOMAIN Drop(box, r) = DOMAIN box \ {r}
    BY <1>0, DropType
  <2> QED BY <1>3, <2>1, BoxStepSettled DEF AppDeletes, AppActs, viewVars
<1>4. ASSUME NEW r \in Rules, BoxResumes(r)
      PROVE  SettledInv'
  <2>1. r \in DOMAIN box /\ WithControl(box[r], Enabled) \in Entry
    BY <1>0, <1>4, RuleMapsDef, WithControlType DEF BoxResumes, Controls
  <2> QED BY <1>1, <1>4, <2>1 DEF BoxResumes, viewVars
<1> QED BY <1>2, <1>3, <1>4 DEF Environment

\* Steps of a refresh.
LEMMA RefreshSettled == TypeInv /\ SettledInv /\ Refresh => SettledInv'
<1> SUFFICES ASSUME TypeInv, SettledInv, NEW p \in Polls,
                    SendPoll(p) \/ BoxAnswersPoll(p) \/ PollFails(p) \/ PublishPoll(p)
             PROVE  SettledInv'
  BY DEF Refresh
<1>0. box \in RuleMaps /\ poll \in [Polls -> PollRecord] /\ settled \subseteq Calls
  BY DEF TypeInv, TypeOK
<1>1. CASE SendPoll(p) \/ PollFails(p)
  <2>1. \A q \in Polls : poll'[q] = poll[q] \/ poll'[q].phase # "answered"
    BY <1>0, <1>1 DEF SendPoll, PollFails, IdlePoll
  <2>2. UNCHANGED <<box, index, settled>>
    BY <1>1 DEF SendPoll, PollFails, boxVars, viewVars
  <2>3. /\ \A d \in Calls : call[d].phase = "done" => call'[d] = call[d]
        /\ \A d \in Calls : call'[d].phase = "acked" => call'[d] = call[d]
    BY <1>1 DEF SendPoll, PollFails
  <2> QED BY <1>0, <2>1, <2>2, <2>3, SettledUntouched
<1>2. CASE BoxAnswersPoll(p)
  <2>1. /\ UNCHANGED <<box, index, call, settled>>
        /\ poll'[p].snapshot = Listing(box)
        /\ \A q \in Polls \ {p} : poll'[q] = poll[q]
    BY <1>0, <1>2 DEF BoxAnswersPoll, boxVars, viewVars
  <2>2. IndexOf(poll'[p].snapshot) = box
    BY <1>0, <2>1, IndexOfListing
  <2>3. \A c \in settled, q \in Polls :
           poll'[q].phase = "answered" => Reflects(IndexOf(poll'[q].snapshot), c)
    BY <2>1, <2>2 DEF SettledInv
  <2>4. \A c \in settled, q \in Polls :
           poll'[q].phase = "answered" => Reflects(IndexOf(poll[q].snapshot), c)'
    BY <2>1, <2>3 DEF Reflects
  <2>5. \A c \in settled : Reflects(box, c)' /\ Reflects(index, c)'
    BY <2>1 DEF SettledInv, Reflects
  <2> QED BY <2>1, <2>4, <2>5 DEF SettledInv
<1>3. CASE PublishPoll(p)
  <2>1. /\ UNCHANGED <<box, call, settled>>
        /\ poll[p].phase = "answered" /\ index' = IndexOf(poll[p].snapshot)
        /\ \A q \in Polls : poll'[q] = poll[q] \/ poll'[q].phase # "answered"
    BY <1>0, <1>3 DEF PublishPoll, IdlePoll, boxVars
  <2>2. \A c \in settled : Reflects(index', c)
    BY <2>1 DEF SettledInv
  <2> QED BY <2>1, <2>2 DEF SettledInv, Reflects
<1> QED BY <1>1, <1>2, <1>3

\* The start of a command.
LEMMA BeginSettled == \A c \in Calls : TypeInv /\ SettledInv /\ Begin(c) => SettledInv'
<1> SUFFICES ASSUME NEW c \in Calls, TypeInv, SettledInv, Begin(c)
             PROVE  SettledInv'
  OBVIOUS
<1>0. call \in [Calls -> CallRecord] /\ settled \subseteq Calls
  BY DEF TypeInv, TypeOK
<1>1. ASSUME NEW phase \in {"sent", "skipped", "notFound"}, NEW op, NEW r, NEW k, NEW x,
             Issue(c, phase, op, r, k, x)
      PROVE  SettledInv'
  <2>1. /\ \A d \in Calls : call[d].phase = "done" => call'[d] = call[d]
        /\ \A d \in Calls : call'[d].phase = "acked" => call'[d] = call[d]
    BY <1>0, <1>1 DEF Issue
  <2>2. UNCHANGED <<box, index, settled>>
    BY <1>1 DEF Issue, boxVars, viewVars
  <2>3. \A p \in Polls : poll'[p] = poll[p] \/ poll'[p].phase # "answered"
    BY <1>1 DEF Issue
  <2> QED BY <1>0, <2>1, <2>2, <2>3, SettledUntouched
<1> QED BY <1>1 DEF Begin, TurnSwitch, SkipSwitch, PauseRule, ResumeRule, DeleteRule,
                    ControlNotFound, DeleteNotFound, CreateRule

\* What happens to the request of a command.
LEMMA DeliverSettled == \A c \in Calls : TypeInv /\ SettledInv /\ Deliver(c) => SettledInv'
<1> SUFFICES ASSUME NEW c \in Calls, TypeInv, SettledInv, Deliver(c)
             PROVE  SettledInv'
  OBVIOUS
<1>0. /\ IdsIssued /\ box \in RuleMaps /\ call[c] \in CallRecord
      /\ call \in [Calls -> CallRecord] /\ settled \subseteq Calls
  BY DEF TypeInv, TypeOK
<1>1. ASSUME NEW b \in RuleMaps, box' = b,
             settled' = {d \in settled : Reflects(b, d)},
             \A r \in DOMAIN b : r \in DOMAIN box \/ r \notin issued,
             UNCHANGED <<index, poll>>,
             \A d \in Calls \ {c} : call'[d] = call[d],
             call[c].phase = "sent",
             call'[c].op = "delete" => call'[c].rule \notin DOMAIN b,
             call'[c].op \in {"switch", "control"}
                /\ call'[c].rule \in DOMAIN b
                => ControlOf(b[call'[c].rule]) = call'[c].control,
             call'[c].op = "create" => call'[c].rule \notin issued
      PROVE  SettledInv'
  <2>1. \A d \in settled : call'[d] = call[d] /\ d # c /\ call[d].rule \in issued
    BY <1>0, <1>1 DEF SettledInv, IdsIssued
  <2>2. \A d \in Calls : call'[d].phase = "acked" /\ call'[d].op = "delete"
                          => call'[d].rule \notin DOMAIN b
    <3> SUFFICES ASSUME NEW d \in Calls, call'[d].phase = "acked", call'[d].op = "delete"
                 PROVE  call'[d].rule \notin DOMAIN b
      OBVIOUS
    <3>1. CASE d = c
      BY <1>1, <3>1
    <3>2. CASE d # c
      <4>1. call[d].rule \notin DOMAIN box /\ call[d].rule \in issued /\ call'[d] = call[d]
        BY <1>0, <1>1, <3>2 DEF SettledInv, IdsIssued
      <4> QED BY <1>1, <4>1
    <3> QED BY <3>1, <3>2
  <2>3. ASSUME NEW e \in settled'
        PROVE  /\ call'[e].phase = "done"
               /\ Reflects(box, e)'
               /\ Reflects(index, e)'
               /\ \A p \in Polls : poll'[p].phase = "answered"
                                     => Reflects(IndexOf(poll[p].snapshot), e)'
    BY <1>1, <2>1 DEF SettledInv, Reflects
  <2>4. ASSUME NEW e \in settled', NEW d \in Calls,
               call'[d].phase = "acked", call'[d].rule = call'[e].rule
        PROVE  /\ call'[d].op # "create"
               /\ call'[d].op \in {"switch", "control"}
                     => call'[e].op = "delete" \/ call'[d].control = call'[e].control
    <3>1. e \in settled /\ call'[e] = call[e] /\ call[e].rule \in issued
      BY <1>1, <2>1
    <3>2. CASE d = c
      <4>1. \/ call'[e].op = "delete"
            \/ /\ call'[e].rule \in DOMAIN b
               /\ ControlOf(b[call'[e].rule]) = call'[e].control
        BY <1>1, <2>3 DEF Reflects
      <4> QED BY <1>1, <2>4, <3>1, <3>2, <4>1
    <3>3. CASE d # c
      BY <1>1, <2>4, <3>1, <3>3 DEF SettledInv
    <3> QED BY <3>2, <3>3
  <2> QED BY <1>1, <2>2, <2>3, <2>4 DEF SettledInv
<1>m. ASSUME NEW phase \in Phases, Moves(c, phase)
      PROVE  /\ call'[c].op = call[c].op /\ call'[c].rule = call[c].rule
             /\ call'[c].control = call[c].control /\ call'[c].phase = phase
             /\ \A d \in Calls \ {c} : call'[d] = call[d]
  BY <1>0, <1>m DEF Moves, CallRecord
<1>2. CASE BoxUpdates(c)
  <2> DEFINE r == call[c].rule
             e == Updated(box[r], call[c])
             b == Put(box, r, e)
  <2>1. r \in DOMAIN box /\ r \in Rules /\ box[r] \in Entry
    BY <1>0, <1>2, RuleMapsDef DEF BoxUpdates
  <2>2. e \in Entry /\ ControlOf(e) = call[c].control
    BY <1>0, <2>1, UpdatedType
  <2>3. /\ box' = b /\ settled' = {d \in settled : Reflects(b, d)}
        /\ Moves(c, "acked") /\ UNCHANGED <<index, poll>>
        /\ call[c].phase = "sent" /\ call[c].op \in {"switch", "control"}
    BY <1>2 DEF BoxUpdates, BoxBecomes, viewVars
  <2> HIDE DEF e
  <2>p. \A q \in Rules, n \in Entry : /\ Put(box, q, n) \in RuleMaps
                                      /\ DOMAIN Put(box, q, n) = DOMAIN box \cup {q}
                                      /\ Put(box, q, n)[q] = n
    BY <1>0, PutType
  <2>4. b \in RuleMaps /\ DOMAIN b = DOMAIN box \cup {r} /\ b[r] = e
    BY <2>1, <2>2, <2>p
  <2> HIDE DEF b
  <2>5. /\ call'[c].rule = r /\ call'[c].control = call[c].control
        /\ call'[c].op = call[c].op
        /\ \A d \in Calls \ {c} : call'[d] = call[d]
    BY <1>m, <2>3 DEF Phases
  <2> QED BY <1>1, <2>1, <2>2, <2>3, <2>4, <2>5
<1>3. ASSUME NEW r \in Rules, BoxCreates(c, r)
      PROVE  SettledInv'
  <2> DEFINE e == EntryOf(Enabled, call[c].content)
             b == Put(box, r, e)
  <2>1. call[c].control = Enabled /\ call[c].content \in Contents /\ r \notin issued
    BY <1>0, <1>3 DEF BoxCreates, IdsIssued
  <2>2. e \in Entry
    BY <2>1, EntryOfType, CommandControls
  <2>3. /\ box' = b /\ settled' = {d \in settled : Reflects(b, d)}
        /\ UNCHANGED <<index, poll>>
        /\ call[c].phase = "sent" /\ call[c].op = "create"
    BY <1>3 DEF BoxCreates, BoxBecomes, viewVars
  <2> HIDE DEF e
  <2>4. b \in RuleMaps /\ DOMAIN b = DOMAIN box \cup {r}
    BY <1>0, <2>2, PutType
  <2> HIDE DEF b
  <2>5. /\ call'[c].rule = r /\ call'[c].op = call[c].op
        /\ \A d \in Calls \ {c} : call'[d] = call[d]
    BY <1>0, <1>3 DEF BoxCreates, CallRecord
  <2> QED BY <1>1, <2>1, <2>3, <2>4, <2>5
<1>4. CASE BoxDeletes(c)
  <2> DEFINE b == Drop(box, call[c].rule)
  <2>1. call[c].rule \in Rules
    BY <1>0, <1>4, RuleMapsDef DEF BoxDeletes
  <2>2. b \in RuleMaps /\ DOMAIN b = DOMAIN box \ {call[c].rule}
    BY <1>0, <2>1, DropType
  <2>3. /\ box' = b /\ settled' = {d \in settled : Reflects(b, d)}
        /\ Moves(c, "acked") /\ UNCHANGED <<index, poll>>
        /\ call[c].phase = "sent" /\ call[c].op = "delete"
    BY <1>4 DEF BoxDeletes, BoxBecomes, viewVars
  <2> HIDE DEF b
  <2>4. /\ call'[c].rule = call[c].rule /\ call'[c].op = call[c].op
        /\ \A d \in Calls \ {c} : call'[d] = call[d]
    BY <1>m, <2>3 DEF Phases
  <2> QED BY <1>1, <2>2, <2>3, <2>4
<1>5. CASE BoxIgnores(c)
  <2>1. /\ Moves(c, "acked") /\ call[c].rule \notin DOMAIN box
        /\ call[c].phase = "sent" /\ call[c].op \in {"switch", "control", "delete"}
        /\ UNCHANGED <<box, index, poll, settled>>
    BY <1>5 DEF BoxIgnores, boxVars, viewVars
  <2>2. /\ call'[c].rule = call[c].rule /\ call'[c].op = call[c].op
        /\ \A d \in Calls \ {c} : call'[d] = call[d]
    BY <1>m, <2>1 DEF Phases
  <2>3. settled' = {d \in settled : Reflects(box, d)}
    BY <2>1 DEF SettledInv
  <2> QED BY <1>0, <1>1, <2>1, <2>2, <2>3
<1>6. CASE RequestFails(c)
  <2>1. /\ \A d \in Calls : call[d].phase = "done" => call'[d] = call[d]
        /\ \A d \in Calls : call'[d].phase = "acked" => call'[d] = call[d]
    BY <1>0, <1>6 DEF RequestFails, Moves, CallRecord
  <2>2. UNCHANGED <<box, index, settled>>
    BY <1>6 DEF RequestFails, boxVars, viewVars
  <2>3. \A p \in Polls : poll'[p] = poll[p] \/ poll'[p].phase # "answered"
    BY <1>6 DEF RequestFails
  <2> QED BY <1>0, <2>1, <2>2, <2>3, SettledUntouched
<1> QED BY <1>2, <1>3, <1>4, <1>5, <1>6 DEF Deliver

\* The end of a command.
LEMMA ReturnSettled ==
    \A c \in Calls : TypeInv /\ ViewsInv /\ SettledInv /\ Return(c) => SettledInv'
<1> SUFFICES ASSUME NEW c \in Calls, TypeInv, ViewsInv, SettledInv, Return(c)
             PROVE  SettledInv'
  OBVIOUS
<1> DEFINE r == call[c].rule
<1>0. /\ TypeOK /\ index \in RuleMaps /\ call \in [Calls -> CallRecord]
      /\ settled \subseteq Calls
  BY DEF TypeInv, TypeOK
<1>1. ASSUME call[c].phase = "acked", Finish(c),
             \A e \in settled : call[e].phase = "done" => Reflects(index', e)
      PROVE  SettledInv'
  <2>1. /\ UNCHANGED <<box, poll>> /\ settled' \subseteq settled \cup {c}
        /\ Undisturbed(c) \/ settled' = settled
    BY <1>1 DEF Finish, boxVars
  <2>2. \A d \in Calls : /\ call'[d].op = call[d].op /\ call'[d].rule = call[d].rule
                         /\ call'[d].control = call[d].control
                         /\ call'[d].phase = IF d = c THEN "done" ELSE call[d].phase
    BY <1>0, <1>1, FinishEffect
  <2>3. \A v, d : d \in Calls => (Reflects(v, d)' <=> Reflects(v', d))
    BY <2>2 DEF Reflects
  <2>4. \A e \in settled : call[e].phase = "done" /\ e \in Calls
    BY <1>0 DEF SettledInv
  <2>5. ASSUME NEW e \in settled', NEW d \in Calls,
               call'[d].phase = "acked", call'[d].rule = call'[e].rule
        PROVE  /\ call'[d].op # "create"
               /\ call'[d].op \in {"switch", "control"}
                     => call'[e].op = "delete" \/ call'[d].control = call'[e].control
    <3>1. d # c /\ call[d].phase = "acked" /\ e \in Calls
      BY <1>0, <2>1, <2>2, <2>5
    <3>2. CASE e = c
      BY <2>1, <2>2, <2>4, <2>5, <3>1, <3>2, <1>1 DEF Undisturbed
    <3>3. CASE e # c
      BY <2>1, <2>2, <2>5, <3>1, <3>3 DEF SettledInv
    <3> QED BY <3>2, <3>3
  <2>6. ASSUME NEW e \in settled'
        PROVE  /\ call'[e].phase = "done"
               /\ Reflects(box, e) /\ Reflects(index', e)
               /\ \A p \in Polls : poll[p].phase = "answered"
                                     => Reflects(IndexOf(poll[p].snapshot), e)
    <3>1. CASE e = c /\ e \notin settled
      BY <2>1, <2>2, <2>6, <3>1 DEF Undisturbed
    <3>2. CASE e \in settled
      BY <1>1, <2>2, <2>4, <3>2 DEF SettledInv
    <3> QED BY <2>1, <3>1, <3>2
  <2>7. \A e \in settled' : /\ Reflects(box, e)' /\ Reflects(index, e)'
                            /\ \A p \in Polls : poll'[p].phase = "answered"
                                  => Reflects(IndexOf(poll[p].snapshot), e)'
    BY <1>0, <2>1, <2>2, <2>6 DEF Reflects
  <2>8. \A d \in Calls : call'[d].phase = "acked" /\ call'[d].op = "delete"
                          => call'[d].rule \notin DOMAIN box'
    BY <2>1, <2>2 DEF SettledInv
  <2> QED BY <2>5, <2>6, <2>7, <2>8 DEF SettledInv
<1>2. CASE UpdateReturns(c)
  <2>1. call[c].phase = "acked" /\ call[c].op \in {"switch", "control"} /\ Finish(c)
    BY <1>2 DEF UpdateReturns
  <2>2. /\ DOMAIN index' = DOMAIN index
        /\ \A q \in DOMAIN index :
              ControlOf(index'[q]) = IF q = r THEN call[c].control ELSE ControlOf(index[q])
    BY <1>0, <1>2, UpdateReturnsIndex
  <2>3. \A e \in settled : Reflects(index', e)
    BY <2>1, <2>2 DEF SettledInv, Reflects
  <2> QED BY <1>1, <2>1, <2>3
<1>3. CASE CreateReturns(c)
  <2> DEFINE n == EntryOf(Enabled, call[c].content)
  <2>1. call[c].phase = "acked" /\ call[c].op = "create" /\ Finish(c)
    BY <1>3 DEF CreateReturns
  <2>2. r \in Rules /\ n \in Entry /\ index' = Put(index, r, n)
    BY <1>3, CreateReturnsEffect DEF TypeInv
  <2> HIDE DEF n
  <2>p. \A q \in Rules, m \in Entry :
           /\ DOMAIN Put(index, q, m) = DOMAIN index \cup {q}
           /\ \A z \in DOMAIN index \ {q} : Put(index, q, m)[z] = index[z]
    BY <1>0, PutType
  <2>3. /\ DOMAIN index' = DOMAIN index \cup {r}
        /\ \A q \in DOMAIN index \ {r} : index'[q] = index[q]
    BY <2>2, <2>p
  <2>4. \A e \in settled : call[e].rule # r
    BY <2>1 DEF SettledInv
  <2>5. \A e \in settled : Reflects(index', e)
    BY <2>3, <2>4 DEF SettledInv, Reflects
  <2> QED BY <1>1, <2>1, <2>5
<1>4. CASE DeleteReturns(c)
  <2>1. /\ call[c].phase = "acked" /\ call[c].op = "delete" /\ Finish(c)
        /\ r \in DOMAIN index /\ index' = Drop(index, r)
    BY <1>4 DEF DeleteReturns
  <2>2. r \in Rules
    BY <1>0, <2>1, RuleMapsDef
  <2>3. /\ DOMAIN index' = DOMAIN index \ {r}
        /\ \A q \in DOMAIN index \ {r} : index'[q] = index[q]
    BY <1>0, <2>1, <2>2, DropType
  <2>4. r \notin DOMAIN box
    BY <2>1 DEF SettledInv
  <2>5. \A e \in settled : Reflects(index', e)
    BY <2>3, <2>4 DEF SettledInv, Reflects
  <2> QED BY <1>1, <2>1, <2>5
<1>5. CASE CreateReturnsNoId(c) \/ DeleteRaises(c)
  <2>1. /\ \A d \in Calls : call[d].phase = "done" => call'[d] = call[d]
        /\ \A d \in Calls : call'[d].phase = "acked" => call'[d] = call[d]
    BY <1>0, <1>5 DEF CreateReturnsNoId, DeleteRaises, Moves, CallRecord
  <2>2. UNCHANGED <<box, index, settled>>
    BY <1>5 DEF CreateReturnsNoId, DeleteRaises, boxVars, viewVars
  <2>3. \A p \in Polls : poll'[p] = poll[p] \/ poll'[p].phase # "answered"
    BY <1>5 DEF CreateReturnsNoId, DeleteRaises
  <2> QED BY <1>0, <2>1, <2>2, <2>3, SettledUntouched
<1> QED BY <1>2, <1>3, <1>4, <1>5 DEF Return

\* A command that finished undisturbed stays visible in the index until the box
\* itself changes its rule, whatever refreshes, commands and failures follow.
THEOREM SettledWritesStayVisible == Spec => []SettledWritesShow
<1>1. Init => ViewsInv
  BY DEF Init, ViewsInv, ViewsAgree, SwitchesFollowIndex
<1>2. Init => SettledInv
  BY DEF Init, SettledInv, NewCall
<1>3. TypeInv /\ ViewsInv /\ SettledInv /\ [Next]_vars => SettledInv'
  <2> SUFFICES ASSUME TypeInv, ViewsInv, SettledInv, [Next]_vars
               PROVE  SettledInv'
    OBVIOUS
  <2>1. CASE UNCHANGED vars
    <3>1. settled \subseteq Calls
      BY DEF TypeInv, TypeOK
    <3>2. /\ UNCHANGED <<box, index, settled>>
          /\ \A p \in Polls : poll'[p] = poll[p]
          /\ \A d \in Calls : call'[d] = call[d]
      BY <2>1 DEF vars, boxVars, viewVars
    <3>3. UNCHANGED <<box, index, settled>>
      BY <3>2
    <3>4. \A p \in Polls : poll'[p] = poll[p] \/ poll'[p].phase # "answered"
      BY <3>2
    <3>5. /\ \A d \in Calls : call[d].phase = "done" => call'[d] = call[d]
          /\ \A d \in Calls : call'[d].phase = "acked" => call'[d] = call[d]
      BY <3>2
    <3> QED BY <3>1, <3>3, <3>4, <3>5, SettledUntouched
  <2> QED BY <2>1, EnvironmentSettled, RefreshSettled, BeginSettled, DeliverSettled,
             ReturnSettled DEF Next
<1>4. Spec => [](TypeInv /\ ViewsInv /\ SettledInv)
  BY <1>1, <1>2, <1>3, InitTypeInv, NextTypeInv, NextViewsInv, PTL DEF Spec
<1>5. SettledInv => SettledWritesShow
  BY DEF SettledInv, SettledWritesShow
<1> QED BY <1>4, <1>5, PTL
=============================================================================
