------------------------------ MODULE ReviewDesk ------------------------------
(***************************************************************************)
(* The PM's decision queue of one ticker and the handlers of the API that  *)
(* work on it (pm_decision_queue.py, pending_assumption_changes.py, the    *)
(* model-change requests of valuation_run_store.py).  The endpoints run in *)
(* threads: an item is read when a handler starts and written when it      *)
(* ends, its assumption changes are committed on connections of their own  *)
(* in between, and a handler may raise or die between two commits.         *)
(***************************************************************************)
EXTENDS AssumptionChanges

CONSTANTS
  Reviewer,   \* handlers running at once
  Desks,      \* the situations to start from: queue, agents' changes, requests, calls
  Edits,      \* the packs a PM may write into an item
  Markets,    \* what drivers compute to, or NoInputs
  NoInputs,   \* build_valuation_inputs has nothing for the ticker
  Missing,    \* a field that is null
  MaxChanges, \* bound on the rows of pending_assumption_changes
  MaxEntries  \* bound on the rows of approved_assumption_entries

ASSUME BoundAssumption == MaxChanges \in Nat /\ MaxEntries \in Nat

ASSUME MarketAssumption == Markets \subseteq Nat \cup {NoInputs}

VARIABLES
  items,      \* pm_decision_queue_items, in the order of their ids
  events,     \* pm_decision_queue_events
  treatments, \* treatment_decisions, in the order of their ids
  requests,   \* valuation_model_change_requests: snapshot and status
  rulings,    \* valuation_model_change_events, without the creations
  market,     \* the inputs build_valuation_inputs finds
  previewed,  \* history: the values previews recorded in their items
  job,        \* what every handler is doing
  calls       \* bound: handlers that may still be started

queueVars == <<items, events, treatments, previewed>>
requestVars == <<requests, rulings>>
vars == <<tableVars, queueVars, requestVars, market, job, calls>>

-----------------------------------------------------------------------------
ItemStatus == {"pending", "previewed", "approved", "rejected", "deferred", "superseded"}

Open == {"pending", "previewed"}

Mode == {"target", "delta", "scenarios", "inapplicable"}

NoFingerprint == [of |-> "nothing"]

\* adapter_links of an item that was just queued
NoLinks == [fingerprint |-> NoFingerprint, approval |-> NoFingerprint, changes |-> {},
            applied |-> FALSE, supersededBy |-> 0]

\* topic: topic and focus_key of a treatment-bearing accounting item.  corpus:
\* whether an evidence corpus hash is on record for it.
NewItem(type, pack, topic, corpus) ==
  [type |-> type, pack |-> pack, topic |-> topic, corpus |-> corpus, status |-> "pending",
   edited |-> Missing, approved |-> Missing, links |-> NoLinks]

ActivePack(item) == IF item.edited # Missing THEN item.edited ELSE item.pack

\* A pack proposes values for drivers; a change by an amount needs the amount.
Proposes(pack) ==
  /\ pack.proposals \in Seq([name : Assumption, mode : Mode, amount : Nat \cup {Missing}])
  /\ \A p \in ToSet(pack.proposals) : p.mode = "delta" => p.amount \in Nat

ASSUME EditAssumption == \A edit \in Edits : edit # Missing /\ Proposes(edit)

\* A family pack also has the snapshot it was proposed for, the final critic's
\* acceptance, and whether its horizon is the DCF engine's.
IsFamily(pack) == pack # Missing /\ pack.family # Missing

Idle == [op |-> "idle"]

\* A handler of a queue item: the item as it was read, the resolved pack, the
\* changes created, the rows a statement selected, the approvals it found.
Handler(op, at, i) ==
  [op |-> op, at |-> at, item |-> i, copy |-> items[i], edit |-> Missing,
   resolved |-> Missing, ids |-> {}, rows |-> {}, prior |-> <<>>]

\* A handler of the assumption endpoints: no item, but the ids it was sent.
Batch(op, at, ids) ==
  [op |-> op, at |-> at, item |-> 0, copy |-> Missing, edit |-> Missing,
   resolved |-> Missing, ids |-> ids, rows |-> {}, prior |-> <<>>]

At(r, op, at) == job[r].op = op /\ job[r].at = at

\* A request arrives and its handler begins.
Call(r, handler) ==
  /\ job[r] = Idle
  /\ calls > 0
  /\ calls' = calls - 1
  /\ job' = [job EXCEPT ![r] = handler]
  /\ UNCHANGED <<tableVars, queueVars, requestVars, market>>

Go(r, at) == job' = [job EXCEPT ![r].at = at]

Finish(r) == job' = [job EXCEPT ![r] = Idle]

-----------------------------------------------------------------------------
\* ForecastDrivers: the overrides in force over what is computed.
Drivers ==
  IF market = NoInputs THEN NoInputs
  ELSE [a \in Assumption |-> IF Override(a) = Unset THEN market ELSE Override(a)]

\* The value a proposal stands for: Missing when it cannot be told.
ResolvedValue(p, drivers) ==
  CASE p.mode = "inapplicable" -> 0
    [] p.mode = "delta" -> IF drivers = NoInputs THEN Missing ELSE drivers[p.name] + p.amount
    [] OTHER -> p.amount

Skipped(p, drivers) == ResolvedValue(p, drivers) = Missing

\* _resolve_active_pack
Resolution(pack, drivers) ==
  LET proposals == IF pack = Missing THEN <<>> ELSE pack.proposals
      kept == { k \in DOMAIN proposals : ~Skipped(proposals[k], drivers) }
  IN [values |-> [k \in kept |-> [name |-> proposals[k].name,
                                  value |-> ResolvedValue(proposals[k], drivers)]],
      skipped |-> { p.name : p \in { q \in ToSet(proposals) : Skipped(q, drivers) } }]

\* Mutant: the fingerprint is of the inputs alone.
InputsFingerprint(resolved) == [of |-> "preview", inputs |-> Drivers, pack |-> Missing]

\* _preview_fingerprint: the inputs are built once more for it.
PreviewFingerprint(resolved) == [of |-> "preview", inputs |-> Drivers, pack |-> resolved]

\* _driver_family_review hashes frozen records and the pack: the pack decides.
FamilyFingerprint(pack) == [of |-> "family", pack |-> pack]

-----------------------------------------------------------------------------
\* A handler reads its item and checks its status.
StartPreview(r, i) ==
  /\ items[i].status \in Open
  /\ ActivePack(items[i]) # Missing
  /\ Call(r, Handler("preview", IF IsFamily(ActivePack(items[i])) THEN "review" ELSE "resolve", i))

StartApprove(r, i) ==
  /\ items[i].status \in Open
  /\ Call(r, Handler("approve", IF IsFamily(ActivePack(items[i])) THEN "review" ELSE "resolve", i))

StartDecision(r, i) ==
  /\ items[i].status \in Open
  /\ \E op \in {"reject", "defer"} : Call(r, Handler(op, "write", i))

\* A family pack is edited as the pack of that family and snapshot, with the
\* verdict of its critic, or not at all.
MayReplace(pack, edit) ==
  IsFamily(pack) => /\ edit.family = pack.family
                    /\ edit.snapshot = pack.snapshot /\ edit.accepted = pack.accepted

StartEdit(r, i) ==
  \E edit \in Edits :
    /\ items[i].status \in Open
    /\ MayReplace(items[i].pack, edit)
    /\ Call(r, [Handler("edit", "write", i) EXCEPT !.edit = edit])

StartApply(r, i) ==
  /\ items[i].status = "approved"
  /\ ~IsFamily(items[i].approved)
  /\ ~items[i].links.applied
  /\ Call(r, [Handler("apply", "select", i) EXCEPT !.ids = items[i].links.changes])

\* The endpoints that take the ids of changes.
StartBatch(r) ==
  \E ids \in (SUBSET DOMAIN changes) \ {{}} :
    \/ \E op \in {"approve", "apply"} : Call(r, Batch(op, "select", ids))
    \/ \E op \in {"reject", "defer"} : Call(r, Batch(op, "write", ids))

-----------------------------------------------------------------------------
\* Approval and preview resolve the pack of the item they read.
Resolve(r) ==
  /\ \E op \in {"preview", "approve"} : At(r, op, "resolve")
  /\ job' = [job EXCEPT ![r].resolved = Resolution(ActivePack(job[r].copy), Drivers),
                        ![r].at = "fingerprint"]
  /\ UNCHANGED <<tableVars, queueVars, requestVars, market, calls>>

Shown(i, values) == { [item |-> i, name |-> values[k].name, value |-> values[k].value] : k \in DOMAIN values }

\* preview_pm_decision_queue_item writes the links it read, with its fingerprint.
\* An advisory finding is shown, not marked.
RecordPreview(r) ==
  /\ At(r, "preview", "fingerprint")
  /\ LET i == job[r].item
     IN IF items[i].type = "advisory" THEN UNCHANGED <<items, previewed>>
        ELSE /\ items' = [items EXCEPT ![i].status = "previewed",
                            ![i].links = [job[r].copy.links EXCEPT
                                            !.fingerprint = PreviewFingerprint(job[r].resolved)]]
             /\ previewed' = previewed \cup Shown(i, job[r].resolved.values)
  /\ Finish(r)
  /\ UNCHANGED <<tableVars, events, treatments, requestVars, market, calls>>

RecordFamilyPreview(r) ==
  /\ At(r, "preview", "review")
  /\ ActivePack(job[r].copy).accepted
  /\ items' = [items EXCEPT ![job[r].item].status = "previewed",
                 ![job[r].item].links = [job[r].copy.links EXCEPT
                                           !.fingerprint = FamilyFingerprint(ActivePack(job[r].copy))]]
  /\ Finish(r)
  /\ UNCHANGED <<tableVars, events, treatments, previewed, requestVars, market, calls>>

\* Edit, reject and defer commit the item, then its event.
WriteDecision(r) ==
  /\ job[r].op \in {"edit", "reject", "defer"} /\ job[r].at = "write" /\ job[r].item # 0
  /\ items' =
       [items EXCEPT ![job[r].item] =
          CASE job[r].op = "edit" -> [@ EXCEPT !.status = "pending", !.edited = job[r].edit,
                                               !.links = [job[r].copy.links EXCEPT !.fingerprint = NoFingerprint]]
            [] job[r].op = "reject" -> [@ EXCEPT !.status = "rejected"]
            [] OTHER -> [@ EXCEPT !.status = "deferred"]]
  /\ Go(r, "event")
  /\ UNCHANGED <<tableVars, events, treatments, previewed, requestVars, market, calls>>

LogEvent(r) ==
  /\ job[r].op \in {"edit", "reject", "defer", "apply"} /\ job[r].at = "event"
  /\ events' = events \cup {[item |-> job[r].item, event |-> job[r].op, approval |-> NoFingerprint]}
  /\ Finish(r)
  /\ UNCHANGED <<tableVars, items, treatments, previewed, requestVars, market, calls>>

-----------------------------------------------------------------------------
\* approve_pm_decision_queue_item: a pack must still be what was previewed.
MayApprove(copy, resolved) ==
  copy.type = "pack" => /\ copy.links.fingerprint = PreviewFingerprint(resolved)
                        /\ resolved.skipped = {}
                        /\ DOMAIN resolved.values # {}

CheckPreview(r) ==
  /\ At(r, "approve", "fingerprint")
  /\ MayApprove(job[r].copy, job[r].resolved)
  /\ Go(r, "create")
  /\ UNCHANGED <<tableVars, queueVars, requestVars, market, calls>>

\* One pending change per proposal, each committed by itself.
CreateChange(r) ==
  /\ At(r, "approve", "create")
  /\ Len(changes) < MaxChanges
  /\ LET values == job[r].resolved.values
     IN \E k \in DOMAIN values :
          /\ Cardinality({ l \in DOMAIN values : l < k }) = Cardinality(job[r].ids)
          /\ InsertChange(values[k].name, values[k].value, job[r].item)
  /\ job' = [job EXCEPT ![r].ids = @ \cup {Len(changes) + 1}]
  /\ UNCHANGED <<queueVars, requestVars, market, calls>>

\* Mutant: the changes are created, but not approved.
CreatedUnapproved(r) ==
  /\ At(r, "approve", "create")
  /\ Cardinality(job[r].ids) = Cardinality(DOMAIN job[r].resolved.values)
  /\ Go(r, "decide")
  /\ UNCHANGED <<tableVars, queueVars, requestVars, market, calls>>

CreatedAll(r) ==
  /\ At(r, "approve", "create")
  /\ Cardinality(job[r].ids) = Cardinality(DOMAIN job[r].resolved.values)
  /\ Go(r, IF job[r].ids = {} THEN "decide" ELSE "select")
  /\ UNCHANGED <<tableVars, queueVars, requestVars, market, calls>>

\* approve_ and apply_: the rows are read before their transaction begins.
SelectRows(r) ==
  /\ job[r].op \in {"approve", "apply"} /\ job[r].at = "select"
  /\ job' = [job EXCEPT
       ![r].rows = Selected(job[r].ids, IF job[r].op = "approve" THEN "pending" ELSE "approved"),
       ![r].at = "commit"]
  /\ UNCHANGED <<tableVars, queueVars, requestVars, market, calls>>

CommitRows(r) ==
  /\ job[r].op \in {"approve", "apply"} /\ job[r].at = "commit"
  /\ IF job[r].op = "approve" THEN MarkApproved(job[r].rows)
     ELSE /\ Len(entries) + Cardinality(job[r].rows) <= MaxEntries
          /\ ApplyRows(job[r].rows)
  /\ Go(r, "audit")
  /\ UNCHANGED <<queueVars, requestVars, market, calls>>

\* reject_ and defer_pending_assumption_changes
CommitBatch(r) ==
  /\ job[r].op \in {"reject", "defer"} /\ job[r].at = "write" /\ job[r].item = 0
  /\ MarkPending(job[r].ids, IF job[r].op = "reject" THEN "rejected" ELSE "deferred")
  /\ job' = [job EXCEPT ![r].rows = job[r].ids, ![r].at = "audit"]
  /\ UNCHANGED <<queueVars, requestVars, market, calls>>

Audited(op) ==
  CASE op = "approve" -> "approved" [] op = "apply" -> "applied"
    [] op = "reject" -> "rejected" [] OTHER -> "deferred"

AuditBatch(r) ==
  /\ job[r].op \in {"approve", "apply", "reject", "defer"} /\ job[r].at = "audit"
  /\ AuditRows(Audited(job[r].op), job[r].rows)
  /\ IF job[r].item = 0 THEN Finish(r) ELSE Go(r, "decide")
  /\ UNCHANGED <<queueVars, requestVars, market, calls>>

-----------------------------------------------------------------------------
\* Mutant: the active decision is not closed.
WithAnother(ts, item, topic) ==
  Append(ts, [item |-> item, topic |-> topic, active |-> TRUE, supersededBy |-> 0])

\* insert_treatment_decision: a topic's active decision gives way to the new one.
WithTreatment(ts, item, topic) ==
  Append([k \in DOMAIN ts |-> IF ts[k].topic = topic /\ ts[k].active
                              THEN [ts[k] EXCEPT !.active = FALSE, !.supersededBy = Len(ts) + 1]
                              ELSE ts[k]],
         [item |-> item, topic |-> topic, active |-> TRUE, supersededBy |-> 0])

\* The treatment, the item and its event commit together.  An accounting item
\* without a corpus hash raises here.
ApproveItem(r) ==
  LET i == job[r].item
      copy == job[r].copy
  IN
  /\ At(r, "approve", "decide")
  /\ copy.topic # Missing => copy.corpus
  /\ treatments' = IF copy.topic = Missing THEN treatments ELSE WithTreatment(treatments, i, copy.topic)
  /\ items' = [items EXCEPT ![i].status = "approved",
                 ![i].approved = IF DOMAIN job[r].resolved.values = {} THEN Missing
                                 ELSE [family |-> Missing, proposals |-> job[r].resolved.values],
                 ![i].links = [copy.links EXCEPT !.changes = job[r].ids]]
  /\ events' = events \cup {[item |-> i, event |-> "approve", approval |-> NoFingerprint]}
  /\ Finish(r)
  /\ UNCHANGED <<tableVars, previewed, requestVars, market, calls>>

\* apply_pm_decision_queue_item writes the links it read.
MarkApplied(r) ==
  /\ At(r, "apply", "decide")
  /\ items' = [items EXCEPT ![job[r].item].links = [job[r].copy.links EXCEPT !.applied = TRUE]]
  /\ Go(r, "event")
  /\ UNCHANGED <<tableVars, events, treatments, previewed, requestVars, market, calls>>

-----------------------------------------------------------------------------
\* _supersede_prior_driver_family_approvals reads the approvals of the family.
PriorApprovals(i, family) ==
  { j \in DOMAIN items \ {i} : /\ items[j].status = "approved"
                               /\ IsFamily(items[j].approved)
                               /\ items[j].approved.family = family }

\* Mutant: prior approvals are closed as soon as they are found.
CloseThenReview(r) ==
  /\ At(r, "approve", "review")
  /\ LET pack == ActivePack(job[r].copy)
         prior == PriorApprovals(job[r].item, pack.family)
     IN /\ job[r].copy.links.fingerprint = FamilyFingerprint(pack)
        /\ items' = [j \in DOMAIN items |->
             IF j \in prior THEN [items[j] EXCEPT !.status = "superseded", !.links.supersededBy = job[r].item]
             ELSE items[j]]
        /\ job' = [job EXCEPT ![r].at = "supersede"]
  /\ UNCHANGED <<tableVars, events, treatments, previewed, requestVars, market, calls>>

ReviewFamily(r) ==
  /\ At(r, "approve", "review")
  /\ LET pack == ActivePack(job[r].copy)
         prior == PriorApprovals(job[r].item, pack.family)
     IN /\ pack.accepted
        /\ job[r].copy.links.fingerprint = FamilyFingerprint(pack)
        /\ job' = [job EXCEPT ![r].prior = [j \in prior |-> items[j].links], ![r].at = "supersede"]
  /\ UNCHANGED <<tableVars, queueVars, requestVars, market, calls>>

\* Mutant: the pack the row holds now is approved.
RowPack(r) == ActivePack(items[job[r].item])

\* The pack that is approved is the one that was reviewed.
ReviewedPack(r) == ActivePack(job[r].copy)

\* Prior approvals close and the family is approved in one transaction.
ApproveFamily(r) ==
  LET i == job[r].item
      prior == job[r].prior
      approval == FamilyFingerprint(ActivePack(job[r].copy))
  IN
  /\ At(r, "approve", "supersede")
  /\ items' = [j \in DOMAIN items |->
       CASE j = i -> [items[j] EXCEPT !.status = "approved", !.approved = ReviewedPack(r),
                        !.links = [job[r].copy.links EXCEPT !.approval = approval]]
         [] j \in DOMAIN prior -> [items[j] EXCEPT !.status = "superseded",
                                     !.links = [prior[j] EXCEPT !.supersededBy = i]]
         [] OTHER -> items[j]]
  /\ events' = events \cup {[item |-> i, event |-> "approve", approval |-> approval]}
                 \cup { [item |-> j, event |-> "supersede", approval |-> NoFingerprint] : j \in DOMAIN prior }
  /\ Finish(r)
  /\ UNCHANGED <<tableVars, treatments, previewed, requestVars, market, calls>>

-----------------------------------------------------------------------------
\* decide_persisted_model_change_request: read, then compare and set.
StartRuling(r) ==
  \E q \in DOMAIN requests, ruling \in {"accepted", "implemented", "rejected"} :
    /\ requests[q].status = "pending"
    /\ Call(r, [Batch(ruling, "rule", {}) EXCEPT !.item = q])

\* Mutant: the UPDATE does not ask for the status.
DecidedOrNot(q) == TRUE

StillPending(q) == requests[q].status = "pending"

Rule(r) ==
  LET q == job[r].item IN
  /\ job[r].op \in {"accepted", "implemented", "rejected"}
  /\ StillPending(q)
  /\ requests' = [requests EXCEPT ![q].status = job[r].op]
  /\ rulings' = Append(rulings, [request |-> q, ruling |-> job[r].op])
  /\ Finish(r)
  /\ UNCHANGED <<tableVars, queueVars, market, calls>>

\* A handler raises, or its process dies: what it committed stays.
Abandon(r) ==
  /\ job[r] # Idle
  /\ Finish(r)
  /\ UNCHANGED <<tableVars, queueVars, requestVars, market, calls>>

\* Prices and statements are refreshed between requests.
MarketMoves ==
  /\ \E m \in Markets \ {market} : market' = m
  /\ UNCHANGED <<tableVars, queueVars, requestVars, job, calls>>

-----------------------------------------------------------------------------
\* What a desk may start from: items that are open, families approved in the
\* past with their events, changes an agent proposed, undecided requests.
StartsOpen(item) == item.status \in Open /\ item.approved = Missing

StartsApproved(i, item, past) ==
  /\ item.status = "approved" /\ IsFamily(item.pack) /\ item.approved = item.pack
  /\ item.links.approval = FamilyFingerprint(item.pack)
  /\ [item |-> i, event |-> "approve", approval |-> item.links.approval] \in past

QueueStarts(desk) ==
  /\ DOMAIN desk.items \subseteq Nat \ {0}
  /\ \A i \in DOMAIN desk.items :
       LET item == desk.items[i]
       IN /\ DOMAIN item = DOMAIN NewItem(item.type, item.pack, item.topic, item.corpus)
          /\ DOMAIN item.links = DOMAIN NoLinks
          /\ item.pack # Missing => Proposes(item.pack)
          /\ item.edited = Missing
          /\ item.links.changes = {} /\ item.links.supersededBy = 0
          /\ item.links.fingerprint.of # "preview"
          /\ StartsOpen(item) \/ StartsApproved(i, item, desk.events)
  /\ \A e \in desk.events : e.item \in DOMAIN desk.items

TablesStart(desk) ==
  /\ desk.changes \in Seq({ c \in Change : c.status \in {"pending", "rejected", "deferred"} /\ c.item = 0 })
  /\ Len(desk.changes) <= MaxChanges
  /\ desk.requests \in Seq(ToSet(desk.requests))
  /\ \A q \in DOMAIN desk.requests :
       /\ DOMAIN desk.requests[q] = {"snapshot", "status"}
       /\ desk.requests[q].status = "pending"

ASSUME DeskAssumption == \A desk \in Desks : QueueStarts(desk) /\ TablesStart(desk)

InitFrom(desk) ==
  /\ items = desk.items
  /\ events = desk.events
  /\ changes = desk.changes
  /\ requests = desk.requests
  /\ calls = desk.calls
  /\ entries = <<>> /\ audits = {}
  /\ treatments = <<>> /\ previewed = {}
  /\ rulings = <<>>
  /\ market \in Markets
  /\ job = [r \in Reviewer |-> Idle]

Init == \E desk \in Desks : InitFrom(desk)

Start(r) ==
  \/ \E i \in DOMAIN items :
       StartPreview(r, i) \/ StartApprove(r, i) \/ StartDecision(r, i) \/ StartEdit(r, i) \/ StartApply(r, i)
  \/ StartBatch(r)
  \/ StartRuling(r)

ItemStep(r) ==
  \/ Resolve(r) \/ RecordPreview(r) \/ RecordFamilyPreview(r) \/ WriteDecision(r) \/ LogEvent(r)
  \/ CheckPreview(r) \/ CreateChange(r) \/ CreatedAll(r) \/ ApproveItem(r) \/ MarkApplied(r)
  \/ ReviewFamily(r) \/ ApproveFamily(r)

BatchStep(r) == SelectRows(r) \/ CommitRows(r) \/ CommitBatch(r) \/ AuditBatch(r)

Next ==
  \/ \E r \in Reviewer : Start(r) \/ ItemStep(r) \/ BatchStep(r) \/ Rule(r) \/ Abandon(r)
  \/ MarketMoves

Spec == Init /\ [][Next]_vars

-----------------------------------------------------------------------------
\* Every table holds rows of its columns' types and refers to rows that exist.
TypeOK ==
  /\ changes \in Seq(Change) /\ Len(changes) <= MaxChanges
  /\ entries \in Seq(Entry) /\ Len(entries) <= MaxEntries
  /\ audits \subseteq Audit
  /\ \A i \in DOMAIN items : /\ items[i].status \in ItemStatus
                             /\ items[i].links.changes \subseteq DOMAIN changes
                             /\ items[i].links.supersededBy \in {0} \cup DOMAIN items
  /\ \A e \in events : e.item \in DOMAIN items
  /\ \A k \in DOMAIN treatments : treatments[k].item \in DOMAIN items
  /\ \A q \in DOMAIN requests : requests[q].status \in {"pending", "accepted", "implemented", "rejected"}
  /\ \A r \in Reviewer : job[r] = Idle \/ job[r].ids \cup job[r].rows \subseteq DOMAIN changes

\* However applies overlap, an assumption has at most one entry in force, and
\* it is the one applied last (apply_approved_assumption_changes deactivates
\* and inserts in one transaction).
NewestEntryIsActive ==
  \A k \in DOMAIN entries :
    entries[k].active <=> \A l \in DOMAIN entries : entries[l].name = entries[k].name => l <= k

\* However approvals overlap, one decision of a topic is active, the newest;
\* every older one names a newer one that superseded it.
NewestTreatmentIsActive ==
  \A k \in DOMAIN treatments :
    LET newer == { l \in DOMAIN treatments : l > k /\ treatments[l].topic = treatments[k].topic }
    IN IF newer = {} THEN treatments[k].active
       ELSE ~treatments[k].active /\ treatments[k].supersededBy \in newer

\* A value that an assumption pack brings into the register was recorded by a
\* preview of that very item, even if drivers move, the pack is edited or
\* another handler previews between the preview, the approval and the apply.
AppliedValuesWerePreviewed ==
  \A k \in DOMAIN entries :
    LET c == changes[entries[k].change] IN
    (c.item # 0 /\ items[c.item].type = "pack")
      => [item |-> c.item, name |-> entries[k].name, value |-> entries[k].value] \in previewed

\* The same of every queue item, advisory findings included.
QueueValuesWerePreviewed ==
  \A k \in DOMAIN entries :
    LET c == changes[entries[k].change] IN
    c.item # 0
      => [item |-> c.item, name |-> entries[k].name, value |-> entries[k].value] \in previewed

\* Whatever handler died or overwrote the item, one that is approved has its
\* approve event, its treatment decision if it bears one (a family pack
\* edited into it bears none), and no change that still waits for approval.
ApprovedItemsAreBacked ==
  \A i \in DOMAIN items : items[i].status = "approved" =>
    /\ \E e \in events : e.item = i /\ e.event = "approve"
    /\ (items[i].topic # Missing /\ ~IsFamily(items[i].approved)) => \E k \in DOMAIN treatments : treatments[k].item = i
    /\ Selected(items[i].links.changes, "pending") = {}

\* An item proposed as a family passes, once approved, the checks of
\* load_approved_family_bundle: its approval is the fingerprint of the approved
\* pack, and an event says so.  (An assumption pack that was edited into a family
\* may not: an apply that began before the edit puts back the links it read.)
ApprovedFamiliesValidate ==
  \A i \in DOMAIN items : (items[i].status = "approved" /\ IsFamily(items[i].pack)) =>
    /\ IsFamily(items[i].approved)
    /\ items[i].links.approval = FamilyFingerprint(items[i].approved)
    /\ [item |-> i, event |-> "approve", approval |-> items[i].links.approval] \in events

\* An approval of such an item is closed only by the approval of another pack of
\* its family, which took place: the one its row names.
SupersededHaveSuccessors ==
  \A i \in DOMAIN items : (items[i].status = "superseded" /\ IsFamily(items[i].pack)) =>
    \E j \in DOMAIN items \ {i} :
      /\ items[i].links.supersededBy = j
      /\ \E pack \in {items[j].pack} \cup Edits :
           /\ IsFamily(pack) /\ pack.family = items[i].approved.family
           /\ [item |-> j, event |-> "approve", approval |-> FamilyFingerprint(pack)] \in events

\* The audit trail, committed after the change it records, never claims an
\* approval or an application that did not happen.
AuditsAreReal ==
  \A a \in audits :
    /\ a.event = "approved" => changes[a.change].status \in {"approved", "applied"}
    /\ a.event = "applied" => \E k \in DOMAIN entries : entries[k].change = a.change

\* Two handlers that both read a pending request do not both decide it, and
\* the request keeps the one decision its event records.
RequestsAreDecidedOnce ==
  \A q \in DOMAIN requests :
    LET of == { k \in DOMAIN rulings : rulings[k].request = q }
    IN IF requests[q].status = "pending" THEN of = {}
       ELSE \E k \in of : of = {k} /\ rulings[k].ruling = requests[q].status

\* What is in force changes only by applying approved proposals, a stack at a time.
ImplementsRegister == Register!Spec

=============================================================================
