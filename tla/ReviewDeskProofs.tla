--------------------------- MODULE ReviewDeskProofs ---------------------------
(***************************************************************************)
(* Proofs about ReviewDesk for any number of handlers, items, packs and    *)
(* changes.                                                                *)
(***************************************************************************)
EXTENDS ReviewDesk, TLAPS, FiniteSetTheorems

(***************************************************************************)
(* The invariant.  A handler writes back what it read, so what is said of  *)
(* the rows has to be said of every copy a handler holds.  Most of it only *)
(* says that something has happened, and what has happened only grows: it  *)
(* is what the operators below take as w.                                  *)
(***************************************************************************)
Settled == { c \in DOMAIN changes : changes[c].status # "pending" }

Granted == { c \in DOMAIN changes : changes[c].status \in {"approved", "applied"} }

EnteredChanges == { entries[k].change : k \in DOMAIN entries }

\* Items proposed as a family that were approved at some time.
Closable == { j \in DOMAIN items : IsFamily(items[j].pack) /\ items[j].approved # Missing }

World ==
  [ids |-> DOMAIN changes, settled |-> Settled, granted |-> Granted, entered |-> EnteredChanges,
   shown |-> previewed, closable |-> Closable, requests |-> DOMAIN requests]

Later(w, v) ==
  /\ w.ids \subseteq v.ids /\ w.settled \subseteq v.settled /\ w.granted \subseteq v.granted
  /\ w.entered \subseteq v.entered /\ w.shown \subseteq v.shown
  /\ w.closable \subseteq v.closable /\ w.requests \subseteq v.requests

ItemFields == {"type", "pack", "topic", "corpus", "status", "edited", "approved", "links"}

LinkFields == {"fingerprint", "approval", "changes", "applied", "supersededBy"}

HandlerFields == {"op", "at", "item", "copy", "edit", "resolved", "ids", "rows", "prior"}

LinksOK(links, i, desk, w) ==
  /\ DOMAIN links = LinkFields
  /\ links.changes \subseteq w.settled
  /\ links.supersededBy \in {0} \cup DOMAIN desk.items
  /\ links.fingerprint.of = "preview" => Shown(i, links.fingerprint.pack.values) \subseteq w.shown

\* A row of item i, now or when a handler read it.
CopyOK(row, i, desk, w) ==
  /\ DOMAIN row = ItemFields
  /\ row.type = desk.items[i].type /\ row.pack = desk.items[i].pack /\ row.topic = desk.items[i].topic
  /\ row.status \in ItemStatus
  /\ row.edited # Missing => row.edited \in Edits /\ MayReplace(row.pack, row.edited)
  /\ IsFamily(row.pack) /\ row.approved # Missing =>
       IsFamily(row.approved) /\ row.approved.family = row.pack.family
  /\ LinksOK(row.links, i, desk, w)

\* What a handler has selected: nothing it left out still waits.
RowsOK(h, w) ==
  /\ h.ids \subseteq w.ids /\ h.rows \subseteq w.ids
  /\ h.op = "approve" /\ h.at = "commit" => h.ids \ h.rows \subseteq w.settled
  /\ h.op = "approve" /\ h.at \in {"audit", "decide"} => h.ids \subseteq w.settled
  /\ h.op = "approve" /\ h.at = "audit" => h.rows \subseteq w.granted
  /\ h.op = "apply" /\ h.at = "commit" => h.rows \subseteq w.granted
  /\ h.op = "apply" /\ h.at = "audit" => h.rows \subseteq w.entered

Checked == {"create", "select", "commit", "audit", "decide"}

ResolvedOK(resolved) ==
  \A k \in DOMAIN resolved.values :
    resolved.values[k].name \in Assumption /\ resolved.values[k].value \in Nat

\* The approvals a family approval is about to close.
PriorOK(h, desk, w) ==
  /\ DOMAIN h.prior \subseteq DOMAIN desk.items \ {h.item}
  /\ \A j \in DOMAIN h.prior :
       /\ LinksOK(h.prior[j], j, desk, w)
       /\ IsFamily(desk.items[j].pack) =>
            j \in w.closable /\ desk.items[j].pack.family = ActivePack(h.copy).family

ItemJob(h, desk, w) ==
  /\ h.op \in {"preview", "approve", "edit", "reject", "defer", "apply"}
  /\ h.item \in DOMAIN desk.items
  /\ CopyOK(h.copy, h.item, desk, w)
  /\ h.op = "edit" => h.edit \in Edits /\ MayReplace(h.copy.pack, h.edit)
  /\ h.op = "apply" => ~IsFamily(h.copy.pack)
  /\ h.at \in {"review", "supersede"} => IsFamily(ActivePack(h.copy))
  /\ h.op = "approve" /\ h.at \notin {"review", "supersede"} => ~IsFamily(h.copy.pack)
  /\ h.op = "approve" /\ h.at \in Checked \cup {"fingerprint"} => ResolvedOK(h.resolved)
  /\ h.op = "approve" /\ h.at \in Checked /\ h.copy.type = "pack" =>
       Shown(h.item, h.resolved.values) \subseteq w.shown
  /\ h.at = "supersede" => PriorOK(h, desk, w)

BatchJob(h) ==
  /\ h.op \in {"approve", "reject", "defer", "apply"}
  /\ h.item = 0
  /\ h.at \in {"select", "commit", "write", "audit"}

RulingJob(h, w) ==
  /\ h.op \in {"accepted", "implemented", "rejected"}
  /\ h.item \in w.requests

JobOK(h, desk, w) ==
  \/ h = Idle
  \/ /\ DOMAIN h = HandlerFields
     /\ RowsOK(h, w)
     /\ ItemJob(h, desk, w) \/ BatchJob(h) \/ RulingJob(h, w)

ItemsInv(desk) ==
  /\ DOMAIN items = DOMAIN desk.items
  /\ \A i \in DOMAIN items : CopyOK(items[i], i, desk, World)
  /\ \A i \in DOMAIN items :
       IsFamily(items[i].pack) /\ items[i].status \in {"approved", "superseded"} => items[i].approved # Missing

JobsInv(desk) ==
  /\ DOMAIN job = Reviewer
  /\ \A r \in Reviewer : JobOK(job[r], desk, World)

\* The rows of the assumption tables, and what they say of one another.
TablesInv(desk) ==
  /\ changes \in Seq(Change) /\ Len(changes) <= MaxChanges
  /\ entries \in Seq(Entry) /\ Len(entries) <= MaxEntries
  /\ audits \subseteq Audit
  /\ \A c \in DOMAIN changes :
       /\ changes[c].item # 0 => changes[c].item \in DOMAIN desk.items
       /\ changes[c].item # 0 /\ desk.items[changes[c].item].type = "pack" =>
            [item |-> changes[c].item, name |-> changes[c].name, value |-> changes[c].value] \in previewed
  /\ \A k \in DOMAIN entries :
       /\ entries[k].change \in DOMAIN changes
       /\ entries[k].name = changes[entries[k].change].name
       /\ entries[k].value = changes[entries[k].change].value
  /\ NewestEntryIsActive
  /\ \A a \in audits :
       /\ a.change \in DOMAIN changes
       /\ a.event = "approved" => a.change \in Granted
       /\ a.event = "applied" => a.change \in EnteredChanges

RecordsInv(desk) ==
  /\ \A e \in events : e.item \in DOMAIN desk.items
  /\ treatments \in Seq([item : DOMAIN desk.items, topic : { desk.items[i].topic : i \in DOMAIN desk.items },
                         active : BOOLEAN, supersededBy : Nat])
  /\ NewestTreatmentIsActive

\* Every request is decided at most once, and a ruling is about a request.
RequestsInv ==
  /\ requests \in Seq(ToSet(requests))
  /\ \A q \in DOMAIN requests :
       /\ DOMAIN requests[q] = {"snapshot", "status"}
       /\ requests[q].status \in {"pending", "accepted", "implemented", "rejected"}
  /\ rulings \in Seq([request : DOMAIN requests, ruling : {"accepted", "implemented", "rejected"}])
  /\ RequestsAreDecidedOnce

\* What approved and superseded items say of the other tables.
BackedInv ==
  \A i \in DOMAIN items : items[i].status = "approved" =>
    /\ \E e \in events : e.item = i /\ e.event = "approve"
    /\ (items[i].topic # Missing /\ ~IsFamily(items[i].approved)) =>
         \E k \in DOMAIN treatments : treatments[k].item = i

DecidedInv == BackedInv /\ ApprovedFamiliesValidate /\ SupersededHaveSuccessors

DeskInv(desk) ==
  /\ market \in Markets
  /\ ItemsInv(desk) /\ JobsInv(desk) /\ TablesInv(desk) /\ RecordsInv(desk) /\ RequestsInv
  /\ DecidedInv

IInv == \E desk \in Desks : DeskInv(desk)

-----------------------------------------------------------------------------
LEMMA SeqFacts ==
  ASSUME NEW S, NEW s \in Seq(S)
  PROVE  Len(s) \in Nat /\ DOMAIN s = 1..Len(s) /\ DOMAIN s \subseteq Nat /\ \A k \in DOMAIN s : s[k] \in S
OBVIOUS

LEMMA FcnIsSeq ==
  ASSUME NEW S, NEW n \in Nat, NEW f \in [1..n -> S]
  PROVE  f \in Seq(S) /\ Len(f) = n
OBVIOUS

LEMMA AppendFacts ==
  ASSUME NEW S, NEW s \in Seq(S), NEW x \in S
  PROVE  /\ Append(s, x) \in Seq(S) /\ Len(Append(s, x)) = Len(s) + 1
         /\ DOMAIN Append(s, x) = DOMAIN s \cup {Len(s) + 1}
         /\ \A k \in DOMAIN s : Append(s, x)[k] = s[k]
         /\ Append(s, x)[Len(s) + 1] = x
OBVIOUS

(* What has happened only grows. *)

LEMMA LinksGrow ==
  ASSUME NEW links, NEW i, NEW desk, NEW w, NEW v, Later(w, v), LinksOK(links, i, desk, w)
  PROVE  LinksOK(links, i, desk, v)
BY DEF LinksOK, Later

LEMMA CopyGrows ==
  ASSUME NEW row, NEW i, NEW desk, NEW w, NEW v, Later(w, v), CopyOK(row, i, desk, w)
  PROVE  CopyOK(row, i, desk, v)
BY LinksGrow DEF CopyOK

LEMMA RowsGrow ==
  ASSUME NEW h, NEW w, NEW v, Later(w, v), RowsOK(h, w)
  PROVE  RowsOK(h, v)
BY DEF RowsOK, Later

LEMMA PriorGrows ==
  ASSUME NEW h, NEW desk, NEW w, NEW v, Later(w, v), PriorOK(h, desk, w)
  PROVE  PriorOK(h, desk, v)
<1>1. w.closable \subseteq v.closable
  BY DEF Later
<1>2. QED
  BY <1>1, LinksGrow DEF PriorOK

LEMMA ItemJobGrows ==
  ASSUME NEW h, NEW desk, NEW w, NEW v, Later(w, v), ItemJob(h, desk, w)
  PROVE  ItemJob(h, desk, v)
<1>1. w.shown \subseteq v.shown
  BY DEF Later
<1>2. CopyOK(h.copy, h.item, desk, v)
  BY CopyGrows DEF ItemJob
<1>3. h.at = "supersede" => PriorOK(h, desk, v)
  BY PriorGrows DEF ItemJob
<1>4. QED
  BY <1>1, <1>2, <1>3 DEF ItemJob

LEMMA JobGrows ==
  ASSUME NEW h, NEW desk, NEW w, NEW v, Later(w, v), JobOK(h, desk, w)
  PROVE  JobOK(h, desk, v)
<1>1. RulingJob(h, w) => RulingJob(h, v)
  BY DEF RulingJob, Later
<1>2. QED
  BY <1>1, RowsGrow, ItemJobGrows DEF JobOK

\* One handler moves.
LEMMA OneJob ==
  ASSUME NEW desk, JobsInv(desk), NEW r \in Reviewer, Later(World, World'),
         DOMAIN job' = Reviewer, \A s \in Reviewer \ {r} : job'[s] = job[s],
         JobOK(job'[r], desk, World')
  PROVE  JobsInv(desk)'
<1>1. ASSUME NEW s \in Reviewer PROVE JobOK(job'[s], desk, World')
  <2>1. CASE s = r
    BY <2>1
  <2>2. CASE s # r
    <3>1. JobOK(job[s], desk, World)
      BY DEF JobsInv
    <3>2. JobOK(job[s], desk, World')
      BY <3>1, JobGrows
    <3>3. QED
      BY <2>2, <3>2
  <2>3. QED
    BY <2>1, <2>2
<1>2. QED
  BY <1>1 DEF JobsInv

LEMMA Same == Later(World, World)
BY DEF Later

LEMMA KeepItems ==
  ASSUME NEW desk, ItemsInv(desk), items' = items, Later(World, World')
  PROVE  ItemsInv(desk)'
<1>1. ASSUME NEW i \in DOMAIN items PROVE CopyOK(items[i], i, desk, World')
  BY <1>1, CopyGrows DEF ItemsInv
<1>2. QED
  BY <1>1 DEF ItemsInv

LEMMA KeepTables ==
  ASSUME NEW desk, TablesInv(desk), UNCHANGED tableVars, previewed \subseteq previewed'
  PROVE  TablesInv(desk)'
BY DEF TablesInv, tableVars, NewestEntryIsActive, Granted, EnteredChanges

LEMMA KeepRecords ==
  ASSUME NEW desk, RecordsInv(desk), UNCHANGED <<events, treatments>>
  PROVE  RecordsInv(desk)'
BY DEF RecordsInv, NewestTreatmentIsActive

LEMMA KeepRequests ==
  ASSUME RequestsInv, UNCHANGED requestVars
  PROVE  RequestsInv'
BY DEF RequestsInv, requestVars, RequestsAreDecidedOnce

LEMMA KeepDecided ==
  ASSUME DecidedInv, UNCHANGED <<items, treatments>>, events \subseteq events'
  PROVE  DecidedInv'
BY DEF DecidedInv, BackedInv, ApprovedFamiliesValidate, SupersededHaveSuccessors

\* What a step has to keep when it only moves a handler.
LEMMA OnlyTheJob ==
  ASSUME NEW desk, DeskInv(desk), NEW r \in Reviewer,
         UNCHANGED <<tableVars, queueVars, requestVars, market>>,
         DOMAIN job' = Reviewer, \A s \in Reviewer \ {r} : job'[s] = job[s],
         JobOK(job'[r], desk, World)
  PROVE  DeskInv(desk)'
<1>1. World' = World
  BY DEF World, Settled, Granted, EnteredChanges, Closable, tableVars, queueVars, requestVars
<1>2. Later(World, World')
  BY <1>1, Same
<1>3. JobsInv(desk)'
  BY <1>1, <1>2, OneJob DEF DeskInv
<1>4. ItemsInv(desk)' /\ TablesInv(desk)' /\ RecordsInv(desk)' /\ RequestsInv' /\ DecidedInv'
  BY <1>2, KeepItems, KeepTables, KeepRecords, KeepRequests, KeepDecided DEF DeskInv, queueVars
<1>5. QED
  BY <1>3, <1>4 DEF DeskInv

-----------------------------------------------------------------------------
(* Handlers begin. *)

LEMMA Called ==
  ASSUME NEW desk, DeskInv(desk), NEW r \in Reviewer, NEW h, Call(r, h), JobOK(h, desk, World)
  PROVE  DeskInv(desk)'
<1>1. DOMAIN job = Reviewer
  BY DEF DeskInv, JobsInv
<1>2. job' = [job EXCEPT ![r] = h] /\ UNCHANGED <<tableVars, queueVars, requestVars, market>>
  BY DEF Call
<1>3. DOMAIN job' = Reviewer /\ job'[r] = h /\ \A s \in Reviewer \ {r} : job'[s] = job[s]
  BY <1>1, <1>2
<1>4. QED
  BY <1>2, <1>3, OnlyTheJob

\* Every item of the queue is as its desk had it, but for what handlers change.
LEMMA RowRead ==
  ASSUME NEW desk \in Desks, DeskInv(desk), NEW i \in DOMAIN items
  PROVE  /\ i \in DOMAIN desk.items /\ i # 0
         /\ CopyOK(items[i], i, desk, World)
BY DeskAssumption DEF DeskInv, ItemsInv, QueueStarts

\* An item that was proposed as a family stays a pack of that family.
LEMMA FamilyStays ==
  ASSUME NEW row, NEW i, NEW desk, NEW w, CopyOK(row, i, desk, w), IsFamily(row.pack)
  PROVE  IsFamily(ActivePack(row)) /\ ActivePack(row).family = row.pack.family
BY EditAssumption DEF CopyOK, ActivePack, IsFamily, MayReplace

LEMMA HandlerFacts ==
  ASSUME NEW op, NEW at, NEW i
  PROVE  LET h == Handler(op, at, i)
         IN /\ DOMAIN h = HandlerFields
            /\ h.op = op /\ h.at = at /\ h.item = i /\ h.copy = items[i] /\ h.ids = {} /\ h.rows = {}
BY DEF Handler, HandlerFields

LEMMA Starting ==
  ASSUME NEW desk \in Desks, DeskInv(desk), NEW r \in Reviewer, Start(r)
  PROVE  DeskInv(desk)'
<1>1. ASSUME NEW i \in DOMAIN items, StartPreview(r, i) PROVE DeskInv(desk)'
  <2> DEFINE at == IF IsFamily(ActivePack(items[i])) THEN "review" ELSE "resolve"
             h == Handler("preview", at, i)
  <2>1. Call(r, h)
    BY <1>1 DEF StartPreview
  <2>2. JobOK(h, desk, World)
    BY HandlerFacts, RowRead DEF JobOK, RowsOK, ItemJob, Checked
  <2>3. QED
    BY <2>1, <2>2, Called
<1>2. ASSUME NEW i \in DOMAIN items, StartApprove(r, i) PROVE DeskInv(desk)'
  <2> DEFINE at == IF IsFamily(ActivePack(items[i])) THEN "review" ELSE "resolve"
             h == Handler("approve", at, i)
  <2>1. Call(r, h)
    BY <1>2 DEF StartApprove
  <2>2. JobOK(h, desk, World)
    BY HandlerFacts, RowRead, FamilyStays DEF JobOK, RowsOK, ItemJob, Checked
  <2>3. QED
    BY <2>1, <2>2, Called
<1>3. ASSUME NEW i \in DOMAIN items, StartDecision(r, i) PROVE DeskInv(desk)'
  <2>1. PICK op \in {"reject", "defer"} : Call(r, Handler(op, "write", i))
    BY <1>3 DEF StartDecision
  <2>2. JobOK(Handler(op, "write", i), desk, World)
    BY HandlerFacts, RowRead DEF JobOK, RowsOK, ItemJob
  <2>3. QED
    BY <2>1, <2>2, Called
<1>4. ASSUME NEW i \in DOMAIN items, StartEdit(r, i) PROVE DeskInv(desk)'
  <2>1. PICK edit \in Edits : /\ MayReplace(items[i].pack, edit)
                              /\ Call(r, [Handler("edit", "write", i) EXCEPT !.edit = edit])
    BY <1>4 DEF StartEdit
  <2> DEFINE h == [Handler("edit", "write", i) EXCEPT !.edit = edit]
  <2>2. /\ DOMAIN h = HandlerFields /\ h.op = "edit" /\ h.at = "write" /\ h.item = i
        /\ h.copy = items[i] /\ h.ids = {} /\ h.rows = {} /\ h.edit = edit
    BY DEF Handler, HandlerFields
  <2> HIDE DEF h
  <2>3. JobOK(h, desk, World)
    BY <2>1, <2>2, RowRead DEF JobOK, RowsOK, ItemJob
  <2>4. QED
    BY <2>1, <2>3, Called DEF h
<1>5. ASSUME NEW i \in DOMAIN items, StartApply(r, i) PROVE DeskInv(desk)'
  <2> DEFINE h == [Handler("apply", "select", i) EXCEPT !.ids = items[i].links.changes]
  <2>1. /\ Call(r, h) /\ items[i].status = "approved" /\ ~IsFamily(items[i].approved)
    BY <1>5 DEF StartApply
  <2>2. /\ DOMAIN h = HandlerFields /\ h.op = "apply" /\ h.at = "select" /\ h.item = i
        /\ h.copy = items[i] /\ h.ids = items[i].links.changes /\ h.rows = {}
    BY DEF Handler, HandlerFields
  <2>3. ~IsFamily(items[i].pack)
    BY <2>1, RowRead DEF DeskInv, ItemsInv, CopyOK
  <2>4. items[i].links.changes \subseteq World.ids
    BY RowRead DEF CopyOK, LinksOK, World, Settled
  <2> HIDE DEF h
  <2>5. JobOK(h, desk, World)
    BY <2>2, <2>3, <2>4, RowRead DEF JobOK, RowsOK, ItemJob
  <2>6. QED
    BY <2>1, <2>5, Called
<1>6. CASE StartBatch(r)
  <2>1. PICK ids \in (SUBSET DOMAIN changes) \ {{}} :
          \/ \E op \in {"approve", "apply"} : Call(r, Batch(op, "select", ids))
          \/ \E op \in {"reject", "defer"} : Call(r, Batch(op, "write", ids))
    BY <1>6 DEF StartBatch
  <2>2. PICK op \in {"approve", "apply", "reject", "defer"}, at \in {"select", "write"} :
          Call(r, Batch(op, at, ids))
    BY <2>1
  <2>3. JobOK(Batch(op, at, ids), desk, World)
    BY DEF JobOK, RowsOK, BatchJob, Batch, HandlerFields, World
  <2>4. QED
    BY <2>2, <2>3, Called
<1>7. CASE StartRuling(r)
  <2>1. PICK q \in DOMAIN requests, ruling \in {"accepted", "implemented", "rejected"} :
          Call(r, [Batch(ruling, "rule", {}) EXCEPT !.item = q])
    BY <1>7 DEF StartRuling
  <2>2. JobOK([Batch(ruling, "rule", {}) EXCEPT !.item = q], desk, World)
    BY DEF JobOK, RowsOK, RulingJob, Batch, HandlerFields, World
  <2>3. QED
    BY <2>1, <2>2, Called
<1>8. QED
  BY <1>1, <1>2, <1>3, <1>4, <1>5, <1>6, <1>7 DEF Start

-----------------------------------------------------------------------------
(* Handlers move. *)

\* What a handler holds stays as it was when only the step it is at changes.
LEMMA Gone ==
  ASSUME NEW desk, JobsInv(desk), NEW r \in Reviewer, NEW at, Go(r, at), job[r] # Idle
  PROVE  /\ DOMAIN job' = Reviewer /\ \A s \in Reviewer \ {r} : job'[s] = job[s]
         /\ DOMAIN job'[r] = HandlerFields /\ job'[r].at = at
         /\ job'[r].op = job[r].op /\ job'[r].item = job[r].item /\ job'[r].copy = job[r].copy
         /\ job'[r].edit = job[r].edit /\ job'[r].resolved = job[r].resolved
         /\ job'[r].ids = job[r].ids /\ job'[r].rows = job[r].rows /\ job'[r].prior = job[r].prior
<1>1. DOMAIN job[r] = HandlerFields
  BY DEF JobsInv, JobOK
<1>2. QED
  BY <1>1 DEF JobsInv, Go, HandlerFields

LEMMA Finished ==
  ASSUME NEW desk, JobsInv(desk), NEW r \in Reviewer, Finish(r)
  PROVE  /\ DOMAIN job' = Reviewer /\ \A s \in Reviewer \ {r} : job'[s] = job[s]
         /\ \A w : JobOK(job'[r], desk, w)
BY DEF JobsInv, Finish, JobOK

\* A handler that is not idle is one of an item, of a batch, or of a ruling.
LEMMA AtWork ==
  ASSUME NEW desk, JobsInv(desk), NEW r \in Reviewer, job[r].op # "idle"
  PROVE  /\ job[r] # Idle /\ DOMAIN job[r] = HandlerFields /\ RowsOK(job[r], World)
         /\ ItemJob(job[r], desk, World) \/ BatchJob(job[r]) \/ RulingJob(job[r], World)
BY DEF JobsInv, JobOK, Idle

LEMMA Abandoning ==
  ASSUME NEW desk \in Desks, DeskInv(desk), NEW r \in Reviewer, Abandon(r)
  PROVE  DeskInv(desk)'
BY Finished, OnlyTheJob DEF Abandon, DeskInv

LEMMA MarketMoving ==
  ASSUME NEW desk \in Desks, DeskInv(desk), MarketMoves
  PROVE  DeskInv(desk)'
<1>1. /\ UNCHANGED <<tableVars, queueVars, requestVars, job>> /\ market' \in Markets
  BY DEF MarketMoves
<1>2. World' = World
  BY <1>1 DEF World, Settled, Granted, EnteredChanges, Closable, tableVars, queueVars, requestVars
<1>3. JobsInv(desk)'
  BY <1>1, <1>2 DEF DeskInv, JobsInv
<1>4. ItemsInv(desk)' /\ TablesInv(desk)' /\ RecordsInv(desk)' /\ RequestsInv' /\ DecidedInv'
  BY <1>1, <1>2, Same, KeepItems, KeepTables, KeepRecords, KeepRequests, KeepDecided DEF DeskInv, queueVars
<1>5. QED
  BY <1>1, <1>3, <1>4 DEF DeskInv

\* What is resolved are values of drivers.
LEMMA DriversAreNumbers ==
  ASSUME NEW desk \in Desks, DeskInv(desk), Drivers # NoInputs, NEW a \in Assumption
  PROVE  Drivers[a] \in Nat
<1>1. market \in Nat
  BY MarketAssumption DEF DeskInv, Drivers
<1>2. ASSUME Override(a) # Unset PROVE Override(a) \in Nat
  <2> DEFINE active == { k \in DOMAIN entries : entries[k].name = a /\ entries[k].active }
  <2>1. entries \in Seq(Entry)
    BY DEF DeskInv, TablesInv
  <2>2. active # {}
    BY <1>2 DEF Override
  <2>3. PICK k \in active : TRUE
    BY <2>2
  <2>4. DOMAIN entries \subseteq Nat /\ entries[k].value \in Nat
    <3>1. entries[k] \in Entry /\ DOMAIN entries \subseteq Nat
      BY <2>1, <2>3, SeqFacts
    <3>2. QED
      BY <3>1 DEF Entry
  <2>5. ASSUME NEW l \in active PROVE l = k
    <3>1. l <= k /\ k <= l
      BY DEF DeskInv, TablesInv, NewestEntryIsActive
    <3>2. QED
      BY <2>4, <3>1
  <2>6. (CHOOSE n \in active : \A l \in active : l <= n) = k
    <3>1. k \in Nat
      BY <2>4
    <3>2. active = {k}
      BY <2>5
    <3> HIDE DEF active
    <3>3. QED
      BY <3>1, <3>2
  <2>7. Override(a) = entries[k].value
    BY <2>2, <2>6 DEF Override
  <2>8. QED
    BY <2>4, <2>7
<1>3. QED
  BY <1>1, <1>2 DEF Drivers

LEMMA ResolutionOK ==
  ASSUME NEW desk \in Desks, DeskInv(desk), NEW pack, pack # Missing => Proposes(pack)
  PROVE  ResolvedOK(Resolution(pack, Drivers))
<1> DEFINE proposals == IF pack = Missing THEN <<>> ELSE pack.proposals
           kept == { k \in DOMAIN proposals : ~Skipped(proposals[k], Drivers) }
<1>1. ASSUME NEW k \in kept
      PROVE  proposals[k].name \in Assumption /\ ResolvedValue(proposals[k], Drivers) \in Nat
  <2>1. pack # Missing /\ Proposes(pack)
    BY <1>1
  <2> DEFINE p == proposals[k]
  <2>2. p \in [name : Assumption, mode : Mode, amount : Nat \cup {Missing}]
    <3>1. proposals = pack.proposals /\ k \in DOMAIN pack.proposals
      BY <1>1, <2>1
    <3>2. pack.proposals \in Seq([name : Assumption, mode : Mode, amount : Nat \cup {Missing}])
      BY <2>1 DEF Proposes
    <3> HIDE DEF proposals
    <3>3. QED
      BY <3>1, <3>2, SeqFacts, Zenon
  <2>3. p.mode = "delta" => p.amount \in Nat
    BY <1>1, <2>1 DEF Proposes, ToSet
  <2>4. ResolvedValue(p, Drivers) # Missing
    BY <1>1 DEF Skipped
  <2>5. p.mode = "delta" => Drivers # NoInputs /\ Drivers[p.name] \in Nat
    BY <2>2, <2>4, DriversAreNumbers DEF ResolvedValue
  <2> HIDE DEF p
  <2>6. ResolvedValue(p, Drivers) \in Nat
    BY <2>2, <2>3, <2>4, <2>5 DEF ResolvedValue, Mode
  <2>7. QED
    BY <2>2, <2>6 DEF p
<1>2. Resolution(pack, Drivers).values
        = [k \in kept |-> [name |-> proposals[k].name, value |-> ResolvedValue(proposals[k], Drivers)]]
  BY DEF Resolution
<1> HIDE DEF kept, proposals
<1>3. QED
  BY <1>1, <1>2 DEF ResolvedOK

LEMMA PackProposes ==
  ASSUME NEW desk \in Desks, NEW i \in DOMAIN desk.items, NEW row, NEW w, CopyOK(row, i, desk, w)
  PROVE  ActivePack(row) # Missing => Proposes(ActivePack(row))
BY EditAssumption, DeskAssumption DEF CopyOK, ActivePack, QueueStarts

LEMMA Resolving ==
  ASSUME NEW desk \in Desks, DeskInv(desk), NEW r \in Reviewer, Resolve(r)
  PROVE  DeskInv(desk)'
<1> DEFINE h == job[r]
           g == job'[r]
           res == Resolution(ActivePack(h.copy), Drivers)
<1>1. /\ h.op \in {"preview", "approve"} /\ h.at = "resolve"
      /\ job' = [job EXCEPT ![r].resolved = res, ![r].at = "fingerprint"]
      /\ UNCHANGED <<tableVars, queueVars, requestVars, market>>
  BY DEF Resolve, At
<1>2. /\ DOMAIN h = HandlerFields /\ RowsOK(h, World) /\ ItemJob(h, desk, World)
  BY <1>1, AtWork DEF DeskInv, BatchJob, RulingJob
<1>3. ResolvedOK(res)
  BY <1>2, PackProposes, ResolutionOK DEF ItemJob
<1> HIDE DEF res
<1>4. /\ DOMAIN job' = Reviewer /\ \A s \in Reviewer \ {r} : job'[s] = job[s]
      /\ DOMAIN g = HandlerFields /\ g.at = "fingerprint" /\ g.resolved = res
      /\ g.op = h.op /\ g.item = h.item /\ g.copy = h.copy /\ g.ids = h.ids /\ g.rows = h.rows
  BY <1>1, <1>2 DEF HandlerFields, DeskInv, JobsInv
<1> HIDE DEF g, h
<1>5. RowsOK(g, World) /\ ItemJob(g, desk, World)
  BY <1>1, <1>2, <1>3, <1>4 DEF RowsOK, ItemJob, Checked
<1>6. QED
  BY <1>1, <1>4, <1>5, OnlyTheJob DEF JobOK, g

\* A value that was previewed for an item is what a check of its preview finds.
LEMMA CheckingPreview ==
  ASSUME NEW desk \in Desks, DeskInv(desk), NEW r \in Reviewer, CheckPreview(r)
  PROVE  DeskInv(desk)'
<1> DEFINE h == job[r]
           g == job'[r]
<1>1. /\ h.op = "approve" /\ h.at = "fingerprint" /\ MayApprove(h.copy, h.resolved)
      /\ Go(r, "create")
      /\ UNCHANGED <<tableVars, queueVars, requestVars, market>>
  BY DEF CheckPreview, At
<1>2. /\ h # Idle /\ RowsOK(h, World) /\ ItemJob(h, desk, World)
  BY <1>1, AtWork DEF DeskInv, BatchJob, RulingJob
<1>3. ASSUME h.copy.type = "pack" PROVE Shown(h.item, h.resolved.values) \subseteq World.shown
  <2>1. h.copy.links.fingerprint = PreviewFingerprint(h.resolved)
    BY <1>1, <1>3 DEF MayApprove
  <2>2. h.copy.links.fingerprint.of = "preview" /\ h.copy.links.fingerprint.pack = h.resolved
    BY <2>1 DEF PreviewFingerprint
  <2>3. LinksOK(h.copy.links, h.item, desk, World)
    BY <1>2 DEF ItemJob, CopyOK
  <2>4. QED
    BY <2>2, <2>3 DEF LinksOK
<1>4. /\ DOMAIN job' = Reviewer /\ \A s \in Reviewer \ {r} : job'[s] = job[s]
      /\ DOMAIN g = HandlerFields /\ g.at = "create"
      /\ g.op = h.op /\ g.item = h.item /\ g.copy = h.copy /\ g.resolved = h.resolved
      /\ g.ids = h.ids /\ g.rows = h.rows
  BY <1>1, <1>2, Gone DEF DeskInv
<1> HIDE DEF g, h
<1>5. RowsOK(g, World) /\ ItemJob(g, desk, World)
  BY <1>1, <1>2, <1>3, <1>4 DEF RowsOK, ItemJob, Checked
<1>6. QED
  BY <1>1, <1>4, <1>5, OnlyTheJob DEF JobOK, g

LEMMA CreatingEnds ==
  ASSUME NEW desk \in Desks, DeskInv(desk), NEW r \in Reviewer, CreatedAll(r)
  PROVE  DeskInv(desk)'
<1> DEFINE h == job[r]
           g == job'[r]
<1>1. PICK at \in {"decide", "select"} :
        /\ h.op = "approve" /\ h.at = "create" /\ Go(r, at) /\ (at = "decide" => h.ids = {})
        /\ UNCHANGED <<tableVars, queueVars, requestVars, market>>
  BY DEF CreatedAll, At
<1>2. /\ h # Idle /\ RowsOK(h, World) /\ ItemJob(h, desk, World)
  BY <1>1, AtWork DEF DeskInv, BatchJob, RulingJob
<1>4. /\ DOMAIN job' = Reviewer /\ \A s \in Reviewer \ {r} : job'[s] = job[s]
      /\ DOMAIN g = HandlerFields /\ g.at = at
      /\ g.op = h.op /\ g.item = h.item /\ g.copy = h.copy /\ g.resolved = h.resolved
      /\ g.ids = h.ids /\ g.rows = h.rows
  BY <1>1, <1>2, Gone DEF DeskInv
<1> HIDE DEF g, h
<1>5. RowsOK(g, World) /\ ItemJob(g, desk, World)
  BY <1>1, <1>2, <1>4 DEF RowsOK, ItemJob, Checked
<1>6. QED
  BY <1>1, <1>4, <1>5, OnlyTheJob DEF JobOK, g

\* What is left out of a selection has left the status that was asked for.
LEMMA SelectingRows ==
  ASSUME NEW desk \in Desks, DeskInv(desk), NEW r \in Reviewer, SelectRows(r)
  PROVE  DeskInv(desk)'
<1> DEFINE h == job[r]
           g == job'[r]
           rows == Selected(h.ids, IF h.op = "approve" THEN "pending" ELSE "approved")
<1>1. /\ h.op \in {"approve", "apply"} /\ h.at = "select"
      /\ job' = [job EXCEPT ![r].rows = rows, ![r].at = "commit"]
      /\ UNCHANGED <<tableVars, queueVars, requestVars, market>>
  BY DEF SelectRows
<1>2. /\ DOMAIN h = HandlerFields /\ RowsOK(h, World)
      /\ ItemJob(h, desk, World) \/ BatchJob(h)
  BY <1>1, AtWork DEF DeskInv, RulingJob
<1>3. /\ rows \subseteq World.ids
      /\ h.op = "approve" => h.ids \ rows \subseteq World.settled
      /\ h.op = "apply" => rows \subseteq World.granted
  BY <1>1, <1>2 DEF RowsOK, Selected, World, Settled, Granted
<1> HIDE DEF rows
<1>4. /\ DOMAIN job' = Reviewer /\ \A s \in Reviewer \ {r} : job'[s] = job[s]
      /\ DOMAIN g = HandlerFields /\ g.at = "commit" /\ g.rows = rows
      /\ g.op = h.op /\ g.item = h.item /\ g.copy = h.copy /\ g.resolved = h.resolved /\ g.ids = h.ids
  BY <1>1, <1>2 DEF HandlerFields, DeskInv, JobsInv
<1> HIDE DEF g, h
<1>5. RowsOK(g, World)
  BY <1>1, <1>2, <1>3, <1>4 DEF RowsOK
<1>6. ItemJob(g, desk, World) \/ BatchJob(g)
  BY <1>1, <1>2, <1>4 DEF ItemJob, BatchJob, Checked
<1>7. QED
  BY <1>1, <1>4, <1>5, <1>6, OnlyTheJob DEF JobOK, g

LEMMA ReviewingFamily ==
  ASSUME NEW desk \in Desks, DeskInv(desk), NEW r \in Reviewer, ReviewFamily(r)
  PROVE  DeskInv(desk)'
<1> DEFINE h == job[r]
           g == job'[r]
           prior == PriorApprovals(h.item, ActivePack(h.copy).family)
           links == [j \in prior |-> items[j].links]
<1>1. /\ h.op = "approve" /\ h.at = "review"
      /\ job' = [job EXCEPT ![r].prior = links, ![r].at = "supersede"]
      /\ UNCHANGED <<tableVars, queueVars, requestVars, market>>
  BY DEF ReviewFamily, At
<1>2. /\ DOMAIN h = HandlerFields /\ RowsOK(h, World) /\ ItemJob(h, desk, World)
  BY <1>1, AtWork DEF DeskInv, BatchJob, RulingJob
<1>3. ASSUME NEW j \in prior
      PROVE  /\ j \in DOMAIN desk.items \ {h.item} /\ LinksOK(links[j], j, desk, World)
             /\ IsFamily(desk.items[j].pack) =>
                  j \in World.closable /\ desk.items[j].pack.family = ActivePack(h.copy).family
  <2>1. /\ j \in DOMAIN items \ {h.item} /\ IsFamily(items[j].approved)
        /\ items[j].approved.family = ActivePack(h.copy).family
    BY DEF PriorApprovals
  <2>2. j \in DOMAIN desk.items /\ CopyOK(items[j], j, desk, World)
    BY <2>1, RowRead
  <2>3. items[j].approved # Missing
    BY <2>1 DEF IsFamily
  <2>4. QED
    BY <2>1, <2>2, <2>3 DEF CopyOK, World, Closable
<1>4. DOMAIN links = prior
  OBVIOUS
<1> HIDE DEF links, prior
<1>5. /\ DOMAIN job' = Reviewer /\ \A s \in Reviewer \ {r} : job'[s] = job[s]
      /\ DOMAIN g = HandlerFields /\ g.at = "supersede" /\ g.prior = links
      /\ g.op = h.op /\ g.item = h.item /\ g.copy = h.copy /\ g.ids = h.ids /\ g.rows = h.rows
  BY <1>1, <1>2 DEF HandlerFields, DeskInv, JobsInv
<1> HIDE DEF g, h
<1>6. PriorOK(g, desk, World)
  BY <1>3, <1>4, <1>5 DEF PriorOK
<1>7. RowsOK(g, World) /\ ItemJob(g, desk, World)
  BY <1>1, <1>2, <1>5, <1>6 DEF RowsOK, ItemJob, Checked
<1>8. QED
  BY <1>1, <1>5, <1>7, OnlyTheJob DEF JobOK, g

-----------------------------------------------------------------------------
(* The assumption tables. *)

LEMMA StatusesChange ==
  ASSUME changes \in Seq(Change), NEW rows, NEW status \in ChangeStatus, changes' = WithStatus(rows, status)
  PROVE  /\ changes' \in Seq(Change) /\ Len(changes') = Len(changes) /\ DOMAIN changes' = DOMAIN changes
         /\ \A c \in DOMAIN changes :
              /\ changes'[c].name = changes[c].name /\ changes'[c].value = changes[c].value
              /\ changes'[c].item = changes[c].item
              /\ changes'[c].status = IF c \in rows THEN status ELSE changes[c].status
<1>1. ASSUME NEW c \in DOMAIN changes
      PROVE  /\ changes'[c] \in Change
             /\ changes'[c].name = changes[c].name /\ changes'[c].value = changes[c].value
             /\ changes'[c].item = changes[c].item
             /\ changes'[c].status = IF c \in rows THEN status ELSE changes[c].status
  <2>1. changes[c] \in Change
    BY SeqFacts
  <2>2. changes'[c] = IF c \in rows THEN [changes[c] EXCEPT !.status = status] ELSE changes[c]
    BY DEF WithStatus
  <2>3. QED
    BY <2>1, <2>2 DEF Change
<1>2. changes' \in [1..Len(changes) -> Change] /\ Len(changes) \in Nat
  <2>1. DOMAIN changes' = 1..Len(changes) /\ Len(changes) \in Nat
    BY SeqFacts DEF WithStatus
  <2>2. changes' = [c \in 1..Len(changes) |-> changes'[c]]
    BY <2>1 DEF WithStatus
  <2>3. QED
    BY <1>1, <2>1, <2>2, SeqFacts
<1>3. QED
  BY <1>1, <1>2, SeqFacts

\* A step that leaves the queue and the requests alone.
LEMMA TablesOnly ==
  ASSUME NEW desk, DeskInv(desk), NEW r \in Reviewer,
         UNCHANGED <<queueVars, requestVars, market>>,
         DOMAIN changes \subseteq DOMAIN changes', Settled \subseteq Settled', Granted \subseteq Granted',
         EnteredChanges \subseteq EnteredChanges',
         TablesInv(desk)',
         DOMAIN job' = Reviewer, \A s \in Reviewer \ {r} : job'[s] = job[s],
         JobOK(job'[r], desk, World')
  PROVE  DeskInv(desk)'
<1>1. Later(World, World')
  BY DEF World, Later, Closable, queueVars, requestVars
<1>2. JobsInv(desk)'
  BY <1>1, OneJob DEF DeskInv
<1>3. ItemsInv(desk)' /\ RecordsInv(desk)' /\ RequestsInv' /\ DecidedInv'
  BY <1>1, KeepItems, KeepRecords, KeepRequests, KeepDecided DEF DeskInv, queueVars
<1>4. QED
  BY <1>2, <1>3 DEF DeskInv

LEMMA CreatingChange ==
  ASSUME NEW desk \in Desks, DeskInv(desk), NEW r \in Reviewer, CreateChange(r)
  PROVE  DeskInv(desk)'
<1> DEFINE h == job[r]
           g == job'[r]
           values == h.resolved.values
<1>1. /\ h.op = "approve" /\ h.at = "create" /\ Len(changes) < MaxChanges
      /\ UNCHANGED <<queueVars, requestVars, market>>
      /\ job' = [job EXCEPT ![r].ids = @ \cup {Len(changes) + 1}]
  BY DEF CreateChange, At
<1>2. PICK k \in DOMAIN values : InsertChange(values[k].name, values[k].value, h.item)
  BY DEF CreateChange
<1>3. /\ h # Idle /\ DOMAIN h = HandlerFields /\ RowsOK(h, World) /\ ItemJob(h, desk, World)
  BY <1>1, AtWork DEF DeskInv, BatchJob, RulingJob
<1> DEFINE p == values[k]
           new == NewChange(p.name, p.value, h.item)
<1>4. p.name \in Assumption /\ p.value \in Nat /\ h.item \in DOMAIN desk.items /\ h.item \in Nat
  <2>1. h.item \in DOMAIN desk.items /\ ResolvedOK(h.resolved)
    BY <1>1, <1>3 DEF ItemJob, Checked
  <2>2. DOMAIN desk.items \subseteq Nat
    BY DeskAssumption DEF QueueStarts
  <2>3. QED
    BY <1>2, <2>1, <2>2 DEF ResolvedOK
<1>5. /\ changes' = Append(changes, new) /\ UNCHANGED <<entries, audits>>
      /\ new \in Change /\ new.item = h.item /\ new.name = p.name /\ new.value = p.value
  BY <1>2, <1>4 DEF InsertChange, NewChange, Change, ChangeStatus
<1>6. changes \in Seq(Change) /\ Len(changes) \in Nat
  BY SeqFacts DEF DeskInv, TablesInv
<1>7. desk.items[h.item].type = "pack" =>
        [item |-> h.item, name |-> p.name, value |-> p.value] \in previewed
  <2>1. h.copy.type = desk.items[h.item].type
    BY <1>3 DEF ItemJob, CopyOK
  <2>2. h.copy.type = "pack" => Shown(h.item, values) \subseteq previewed
    BY <1>1, <1>3 DEF ItemJob, Checked, World
  <2>3. QED
    BY <1>2, <2>1, <2>2 DEF Shown
<1> HIDE DEF new, p
<1>8. /\ changes' \in Seq(Change) /\ Len(changes') = Len(changes) + 1
      /\ DOMAIN changes' = DOMAIN changes \cup {Len(changes) + 1}
      /\ \A c \in DOMAIN changes : changes'[c] = changes[c]
      /\ changes'[Len(changes) + 1] = new
  BY <1>5, <1>6, AppendFacts
<1>9. /\ Settled \subseteq Settled' /\ Granted \subseteq Granted' /\ EnteredChanges \subseteq EnteredChanges'
  BY <1>5, <1>8 DEF Settled, Granted, EnteredChanges
<1>10. TablesInv(desk)'
  <2>1. Len(changes') <= MaxChanges
    BY <1>1, <1>6, <1>8, BoundAssumption
  <2>2. ASSUME NEW c \in DOMAIN changes'
        PROVE  /\ changes'[c].item # 0 => changes'[c].item \in DOMAIN desk.items
               /\ changes'[c].item # 0 /\ desk.items[changes'[c].item].type = "pack" =>
                    [item |-> changes'[c].item, name |-> changes'[c].name, value |-> changes'[c].value]
                      \in previewed'
    <3>1. previewed' = previewed
      BY <1>1 DEF queueVars
    <3>2. CASE c \in DOMAIN changes
      BY <1>8, <3>1, <3>2 DEF DeskInv, TablesInv
    <3>3. CASE c = Len(changes) + 1
      BY <1>4, <1>5, <1>7, <1>8, <3>1, <3>3
    <3>4. QED
      BY <1>8, <3>2, <3>3
  <2>3. ASSUME NEW n \in DOMAIN entries
        PROVE  /\ entries[n].change \in DOMAIN changes'
               /\ entries[n].name = changes'[entries[n].change].name
               /\ entries[n].value = changes'[entries[n].change].value
    BY <1>8 DEF DeskInv, TablesInv
  <2>4. ASSUME NEW a \in audits
        PROVE  /\ a.change \in DOMAIN changes'
               /\ a.event = "approved" => a.change \in Granted'
               /\ a.event = "applied" => a.change \in EnteredChanges'
    BY <1>8, <1>9 DEF DeskInv, TablesInv
  <2>5. NewestEntryIsActive'
    BY <1>5 DEF DeskInv, TablesInv, NewestEntryIsActive
  <2>6. QED
    BY <1>5, <1>8, <2>1, <2>2, <2>3, <2>4, <2>5 DEF DeskInv, TablesInv
<1>11. /\ DOMAIN job' = Reviewer /\ \A s \in Reviewer \ {r} : job'[s] = job[s]
       /\ DOMAIN g = HandlerFields /\ g.at = h.at /\ g.rows = h.rows
       /\ g.op = h.op /\ g.item = h.item /\ g.copy = h.copy /\ g.resolved = h.resolved
       /\ g.ids = h.ids \cup {Len(changes) + 1}
  BY <1>1, <1>3 DEF HandlerFields, DeskInv, JobsInv
<1>12. Later(World, World')
  BY <1>1, <1>8, <1>9 DEF World, Later, Closable, queueVars, requestVars
<1>13. /\ RowsOK(h, World') /\ ItemJob(h, desk, World')
  BY <1>3, <1>12, RowsGrow, ItemJobGrows
<1>14. World'.ids = DOMAIN changes'
  BY DEF World
<1> HIDE DEF g, h
<1>15. RowsOK(g, World') /\ ItemJob(g, desk, World')
  <2>1. RowsOK(g, World')
    BY <1>1, <1>8, <1>11, <1>13, <1>14 DEF RowsOK
  <2>2. ItemJob(g, desk, World')
    BY <1>1, <1>11, <1>13 DEF ItemJob, Checked
  <2>3. QED
    BY <2>1, <2>2
<1>16. QED
  BY <1>1, <1>8, <1>9, <1>10, <1>11, <1>15, TablesOnly DEF JobOK, g

\* Rows leave "pending" and do not come back to it; what is granted stays granted.
LEMMA StatusesGrow ==
  ASSUME changes \in Seq(Change), NEW rows, NEW status \in ChangeStatus \ {"pending"},
         changes' = WithStatus(rows, status),
         status \in {"rejected", "deferred"} => rows \cap Granted = {}
  PROVE  /\ Settled \subseteq Settled' /\ rows \cap DOMAIN changes \subseteq Settled'
         /\ Granted \subseteq Granted'
         /\ status \in {"approved", "applied"} => rows \cap DOMAIN changes \subseteq Granted'
<1>1. /\ DOMAIN changes' = DOMAIN changes
      /\ \A c \in DOMAIN changes : changes'[c].status = IF c \in rows THEN status ELSE changes[c].status
  BY StatusesChange
<1>2. Settled \subseteq Settled' /\ rows \cap DOMAIN changes \subseteq Settled'
  BY <1>1 DEF Settled
<1>3. Granted \subseteq Granted'
  <2>1. ASSUME NEW c \in Granted PROVE c \in Granted'
    BY <1>1 DEF Granted, ChangeStatus
  <2>2. QED
    BY <2>1
<1>4. status \in {"approved", "applied"} => rows \cap DOMAIN changes \subseteq Granted'
  BY <1>1 DEF Granted
<1>5. QED
  BY <1>2, <1>3, <1>4

\* What is said of the changes, and of the entries and audits about them.
LEMMA TablesKeep ==
  ASSUME NEW desk, TablesInv(desk), NEW rows, NEW status \in ChangeStatus \ {"pending"},
         changes' = WithStatus(rows, status),
         status \in {"rejected", "deferred"} => rows \cap Granted = {},
         audits' = audits, previewed' = previewed,
         entries' \in Seq(Entry), Len(entries') <= MaxEntries, NewestEntryIsActive',
         EnteredChanges \subseteq EnteredChanges',
         \A k \in DOMAIN entries' :
           /\ entries'[k].change \in DOMAIN changes
           /\ entries'[k].name = changes[entries'[k].change].name
           /\ entries'[k].value = changes[entries'[k].change].value
  PROVE  TablesInv(desk)'
<1>1. changes \in Seq(Change)
  BY DEF TablesInv
<1>2. /\ changes' \in Seq(Change) /\ Len(changes') = Len(changes) /\ DOMAIN changes' = DOMAIN changes
      /\ \A c \in DOMAIN changes :
           /\ changes'[c].name = changes[c].name /\ changes'[c].value = changes[c].value
           /\ changes'[c].item = changes[c].item
  BY <1>1, StatusesChange
<1>3. Granted \subseteq Granted'
  BY <1>1, StatusesGrow
<1>4. \A c \in DOMAIN changes' :
        /\ changes'[c].item # 0 => changes'[c].item \in DOMAIN desk.items
        /\ changes'[c].item # 0 /\ desk.items[changes'[c].item].type = "pack" =>
             [item |-> changes'[c].item, name |-> changes'[c].name, value |-> changes'[c].value] \in previewed'
  BY <1>2 DEF TablesInv
<1>5. \A k \in DOMAIN entries' :
        /\ entries'[k].change \in DOMAIN changes'
        /\ entries'[k].name = changes'[entries'[k].change].name
        /\ entries'[k].value = changes'[entries'[k].change].value
  BY <1>2
<1>6. \A a \in audits' :
        /\ a.change \in DOMAIN changes'
        /\ a.event = "approved" => a.change \in Granted'
        /\ a.event = "applied" => a.change \in EnteredChanges'
  BY <1>2, <1>3 DEF TablesInv
<1>7. QED
  BY <1>2, <1>4, <1>5, <1>6 DEF TablesInv

LEMMA RowsAreFinite ==
  ASSUME changes \in Seq(Change), NEW rows \in SUBSET DOMAIN changes, NEW order \in InOrder(rows)
  PROVE  /\ Cardinality(rows) \in Nat /\ order \in Seq(rows) /\ Len(order) = Cardinality(rows)
         /\ \A i \in rows : \E n \in DOMAIN order : order[n] = i
<1>1. IsFiniteSet(rows)
  <2>1. DOMAIN changes = 1..Len(changes) /\ Len(changes) \in Nat
    BY SeqFacts
  <2>2. IsFiniteSet(1..Len(changes))
    BY <2>1, FS_Interval
  <2>3. QED
    BY <2>1, <2>2, FS_Subset
<1>2. Cardinality(rows) \in Nat
  BY <1>1, FS_CardinalityType
<1>3. order \in [1..Cardinality(rows) -> rows]
  BY DEF InOrder
<1>4. QED
  BY <1>2, <1>3 DEF InOrder

\* What the entries are once the rows of a stack have been entered.
OlderEntries(order) ==
  \A k \in 1..Len(entries) :
    /\ entries'[k].name = entries[k].name /\ entries'[k].value = entries[k].value
    /\ entries'[k].change = entries[k].change
    /\ entries'[k].active =
         (entries[k].active /\ \A m \in 1..Len(order) : changes[order[m]].name # entries[k].name)

NewerEntries(order) ==
  \A n \in 1..Len(order) :
    LET k == Len(entries) + n
    IN /\ entries'[k].name = changes[order[n]].name /\ entries'[k].value = changes[order[n]].value
       /\ entries'[k].change = order[n]
       /\ entries'[k].active =
            \A m \in 1..Len(order) : m > n => changes[order[m]].name # changes[order[n]].name

LEMMA EnteredFacts ==
  ASSUME changes \in Seq(Change), entries \in Seq(Entry),
         NEW rows \in SUBSET DOMAIN changes, NEW order \in Seq(rows), entries' = Entered(entries, order)
  PROVE  /\ entries' \in Seq(Entry) /\ Len(entries') = Len(entries) + Len(order)
         /\ OlderEntries(order) /\ NewerEntries(order)
<1> DEFINE L == Len(entries)
           N == Len(order)
<1>1. L \in Nat /\ N \in Nat /\ DOMAIN entries = 1..L /\ DOMAIN order = 1..N
  BY SeqFacts
<1>2. ASSUME NEW k \in 1..L
      PROVE  /\ entries'[k] \in Entry
             /\ entries'[k].name = entries[k].name /\ entries'[k].value = entries[k].value
             /\ entries'[k].change = entries[k].change
             /\ entries'[k].active =
                  (entries[k].active /\ \A m \in 1..N : changes[order[m]].name # entries[k].name)
  <2> DEFINE active == entries[k].active /\ \A m \in 1..N : m > 0 => changes[order[m]].name # entries[k].name
  <2>1. entries[k] \in Entry
    BY <1>1, SeqFacts
  <2>2. entries'[k] = [entries[k] EXCEPT !.active = active]
    BY <1>1 DEF Entered
  <2>3. active = (entries[k].active /\ \A m \in 1..N : changes[order[m]].name # entries[k].name)
    BY <1>1
  <2>4. active \in BOOLEAN
    OBVIOUS
  <2> HIDE DEF active
  <2>5. QED
    BY <2>1, <2>2, <2>3, <2>4 DEF Entry
<1>3. ASSUME NEW n \in 1..N
      PROVE  LET k == L + n
             IN /\ entries'[k] \in Entry
                /\ entries'[k].name = changes[order[n]].name /\ entries'[k].value = changes[order[n]].value
                /\ entries'[k].change = order[n]
                /\ entries'[k].active =
                     \A m \in 1..N : m > n => changes[order[m]].name # changes[order[n]].name
  <2> DEFINE active == \A m \in DOMAIN order : m > n => changes[order[m]].name # changes[order[n]].name
  <2>1. order[n] \in DOMAIN changes /\ order[n] \in Nat /\ changes[order[n]] \in Change
    BY <1>1, SeqFacts
  <2>2. L + n \in 1..(L + N) /\ ~(L + n <= L) /\ (L + n) - L = n
    BY <1>1
  <2>3. entries'[L + n] = Row(order[n], active)
    BY <2>2 DEF Entered
  <2>4. active \in BOOLEAN
    OBVIOUS
  <2> HIDE DEF active
  <2>5. /\ entries'[L + n] \in Entry
        /\ entries'[L + n].name = changes[order[n]].name /\ entries'[L + n].value = changes[order[n]].value
        /\ entries'[L + n].change = order[n] /\ entries'[L + n].active = active
    BY <2>1, <2>3, <2>4 DEF Row, Entry, Change
  <2>6. QED
    BY <1>1, <2>5 DEF active
<1>4. entries' \in [1..(L + N) -> Entry]
  <2>1. DOMAIN entries' = 1..(L + N) /\ entries' = [k \in 1..(L + N) |-> entries'[k]]
    BY DEF Entered
  <2>2. ASSUME NEW k \in 1..(L + N) PROVE entries'[k] \in Entry
    <3>1. CASE k <= L
      BY <1>1, <1>2, <3>1
    <3>2. CASE ~(k <= L)
      <4>1. k - L \in 1..N /\ L + (k - L) = k
        BY <1>1, <3>2
      <4>2. QED
        BY <1>3, <4>1
    <3>3. QED
      BY <3>1, <3>2
  <2>3. QED
    BY <2>1, <2>2
<1>5. entries' \in Seq(Entry) /\ Len(entries') = L + N
  <2>1. L + N \in Nat
    BY <1>1
  <2> HIDE DEF L, N
  <2>2. QED
    BY <1>4, <2>1, FcnIsSeq
<1>6. OlderEntries(order)
  BY <1>2 DEF OlderEntries
<1>7. NewerEntries(order)
  BY <1>3 DEF NewerEntries
<1>8. QED
  BY <1>5, <1>6, <1>7

\* The last row of an assumption is in force, or the entry that was.
LEMMA NewestStays ==
  ASSUME changes \in Seq(Change), entries \in Seq(Entry), NewestEntryIsActive,
         NEW rows \in SUBSET DOMAIN changes, NEW order \in Seq(rows), entries' = Entered(entries, order)
  PROVE  NewestEntryIsActive'
<1> DEFINE L == Len(entries)
           N == Len(order)
           Newest(k) == \A l \in DOMAIN entries' : entries'[l].name = entries'[k].name => l <= k
<1>1. L \in Nat /\ N \in Nat /\ DOMAIN entries = 1..L /\ DOMAIN order = 1..N
  BY SeqFacts
<1>2. DOMAIN entries' = 1..(L + N)
  <2>1. entries' \in Seq(Entry) /\ Len(entries') = L + N
    BY EnteredFacts
  <2>2. QED
    BY <2>1, SeqFacts
<1> OlderEntries(order) /\ NewerEntries(order)
  BY EnteredFacts
<1>3. \A k \in 1..L : /\ entries'[k].name = entries[k].name
                      /\ entries'[k].active =
                           (entries[k].active /\ \A m \in 1..N : changes[order[m]].name # entries[k].name)
  BY DEF OlderEntries, NewerEntries
<1>4. \A n \in 1..N : /\ entries'[L + n].name = changes[order[n]].name
                      /\ entries'[L + n].active =
                           \A m \in 1..N : m > n => changes[order[m]].name # changes[order[n]].name
  BY DEF OlderEntries, NewerEntries
<1>5. ASSUME NEW k \in 1..L PROVE entries'[k].active <=> Newest(k)
  <2>1. ASSUME entries'[k].active, NEW l \in 1..(L + N), entries'[l].name = entries'[k].name
        PROVE  l <= k
    <3>1. CASE l <= L
      <4>1. l \in 1..L
        BY <1>1, <3>1
      <4>2. QED
        BY <1>1, <1>3, <2>1, <4>1 DEF NewestEntryIsActive
    <3>2. CASE ~(l <= L)
      <4>1. PICK m \in 1..N : l = L + m
        <5>1. l - L \in 1..N /\ l = L + (l - L)
          BY <1>1, <3>2
        <5>2. QED
          BY <5>1
      <4>2. changes[order[m]].name = entries[k].name
        BY <1>3, <1>4, <2>1, <4>1
      <4>3. QED
        BY <1>3, <2>1, <4>1, <4>2
    <3>3. QED
      BY <3>1, <3>2
  <2>2. ASSUME Newest(k) PROVE entries'[k].active
    <3>1. ASSUME NEW m \in 1..N PROVE changes[order[m]].name # entries[k].name
      <4>1. L + m \in 1..(L + N) /\ ~(L + m <= k)
        BY <1>1
      <4>2. entries'[L + m].name # entries'[k].name
        BY <1>2, <2>2, <4>1
      <4>3. QED
        BY <1>3, <1>4, <4>2
    <3>2. ASSUME NEW l \in 1..L, entries[l].name = entries[k].name PROVE l <= k
      <4>1. l \in 1..(L + N) /\ entries'[l].name = entries'[k].name
        BY <1>1, <1>3, <3>2
      <4>2. QED
        BY <1>2, <2>2, <4>1
    <3>3. entries[k].active
      BY <1>1, <3>2 DEF NewestEntryIsActive
    <3>4. QED
      BY <1>3, <3>1, <3>3
  <2>3. entries'[k].active \in BOOLEAN
    BY <1>3
  <2>4. QED
    BY <1>2, <2>1, <2>2
<1>6. ASSUME NEW n \in 1..N PROVE entries'[L + n].active <=> Newest(L + n)
  <2>1. ASSUME entries'[L + n].active, NEW l \in 1..(L + N), entries'[l].name = entries'[L + n].name
        PROVE  l <= L + n
    <3>1. SUFFICES ASSUME ~(l <= L + n) PROVE FALSE
      OBVIOUS
    <3>2. l - L \in 1..N /\ L + (l - L) = l /\ l - L > n
      BY <1>1, <3>1
    <3>3. changes[order[l - L]].name = changes[order[n]].name
      <4>1. PICK m \in 1..N : m = l - L /\ L + m = l
        BY <3>2
      <4>2. entries'[L + m].name = changes[order[m]].name /\ entries'[L + n].name = changes[order[n]].name
        BY <1>4
      <4>3. QED
        BY <2>1, <4>1, <4>2
    <3>4. QED
      BY <1>4, <2>1, <3>2, <3>3
  <2>2. ASSUME Newest(L + n) PROVE entries'[L + n].active
    <3>1. ASSUME NEW m \in 1..N, m > n PROVE changes[order[m]].name # changes[order[n]].name
      <4>1. L + m \in 1..(L + N) /\ ~(L + m <= L + n)
        BY <1>1, <3>1
      <4>2. entries'[L + m].name # entries'[L + n].name
        BY <1>2, <2>2, <4>1
      <4>3. QED
        BY <1>4, <4>2
    <3>2. QED
      BY <1>4, <3>1
  <2>3. QED
    BY <1>2, <2>1, <2>2
<1>7. ASSUME NEW k \in 1..(L + N) PROVE entries'[k].active <=> Newest(k)
  <2>1. CASE k <= L
    BY <1>1, <1>5, <2>1
  <2>2. CASE ~(k <= L)
    <3>1. k - L \in 1..N /\ L + (k - L) = k
      BY <1>1, <2>2
    <3>2. QED
      BY <1>6, <3>1
  <2>3. QED
    BY <2>1, <2>2
<1>8. QED
  BY <1>2, <1>7 DEF NewestEntryIsActive

LEMMA ApplyingRows ==
  ASSUME NEW desk, TablesInv(desk), NEW rows \in SUBSET DOMAIN changes, ApplyRows(rows),
         Len(entries) + Cardinality(rows) <= MaxEntries, previewed' = previewed
  PROVE  /\ TablesInv(desk)' /\ DOMAIN changes' = DOMAIN changes
         /\ Settled \subseteq Settled' /\ Granted \subseteq Granted'
         /\ EnteredChanges \subseteq EnteredChanges' /\ rows \subseteq EnteredChanges'
<1>1. /\ changes \in Seq(Change) /\ entries \in Seq(Entry) /\ NewestEntryIsActive
      /\ Len(entries) \in Nat /\ DOMAIN entries = 1..Len(entries)
      /\ \A k \in DOMAIN entries : /\ entries[k].change \in DOMAIN changes
                                   /\ entries[k].name = changes[entries[k].change].name
                                   /\ entries[k].value = changes[entries[k].change].value
  BY SeqFacts DEF TablesInv
<1>2. PICK order \in InOrder(rows) : entries' = Entered(entries, order)
  BY DEF ApplyRows
<1>3. /\ Cardinality(rows) \in Nat /\ order \in Seq(rows) /\ Len(order) = Cardinality(rows)
      /\ \A i \in rows : \E n \in DOMAIN order : order[n] = i
  BY <1>1, RowsAreFinite
<1>4. DOMAIN order = 1..Len(order) /\ \A n \in DOMAIN order : order[n] \in rows
  BY <1>3, SeqFacts
<1>5. /\ entries' \in Seq(Entry) /\ Len(entries') = Len(entries) + Len(order)
      /\ OlderEntries(order) /\ NewerEntries(order)
  BY <1>1, <1>2, <1>3, EnteredFacts
<1>6. DOMAIN entries' = 1..(Len(entries) + Len(order))
  BY <1>5, SeqFacts
<1>7. \A k \in 1..Len(entries) :
        /\ entries'[k].name = entries[k].name /\ entries'[k].value = entries[k].value
        /\ entries'[k].change = entries[k].change
  BY <1>5 DEF OlderEntries
<1>8. \A n \in DOMAIN order : LET k == Len(entries) + n
        IN /\ entries'[k].name = changes[order[n]].name /\ entries'[k].value = changes[order[n]].value
           /\ entries'[k].change = order[n]
  BY <1>4, <1>5 DEF NewerEntries
<1>9. ASSUME NEW k \in DOMAIN entries'
      PROVE  /\ entries'[k].change \in DOMAIN changes
             /\ entries'[k].name = changes[entries'[k].change].name
             /\ entries'[k].value = changes[entries'[k].change].value
  <2>1. CASE k <= Len(entries)
    <3>1. k \in 1..Len(entries)
      BY <1>1, <1>6, <2>1
    <3>2. QED
      BY <1>1, <1>7, <3>1
  <2>2. CASE ~(k <= Len(entries))
    <3>1. k - Len(entries) \in DOMAIN order /\ Len(entries) + (k - Len(entries)) = k
      BY <1>1, <1>3, <1>4, <1>6, <2>2
    <3>2. QED
      BY <1>4, <1>8, <3>1
  <2>3. QED
    BY <2>1, <2>2
<1>10. EnteredChanges \subseteq EnteredChanges'
  <2>1. \A k \in DOMAIN entries : k \in DOMAIN entries' /\ entries'[k].change = entries[k].change
    BY <1>1, <1>3, <1>6, <1>7
  <2>2. QED
    BY <2>1 DEF EnteredChanges
<1>11. rows \subseteq EnteredChanges'
  <2>1. \A n \in DOMAIN order : Len(entries) + n \in DOMAIN entries'
    BY <1>1, <1>3, <1>4, <1>6
  <2>2. QED
    BY <1>3, <1>8, <2>1 DEF EnteredChanges
<1>12. NewestEntryIsActive'
  BY <1>1, <1>2, <1>3, NewestStays
<1>13. changes' = WithStatus(Selected(rows, "approved"), "applied") /\ audits' = audits
  BY DEF ApplyRows
<1>14. "applied" \in ChangeStatus \ {"pending"}
  BY DEF ChangeStatus
<1>15. Len(entries') <= MaxEntries
  BY <1>3, <1>5
<1>16. TablesInv(desk)'
  BY <1>5, <1>9, <1>10, <1>12, <1>13, <1>14, <1>15, TablesKeep
<1>17. /\ Settled \subseteq Settled' /\ Granted \subseteq Granted' /\ DOMAIN changes' = DOMAIN changes
  BY <1>1, <1>13, <1>14, StatusesGrow, StatusesChange
<1>18. QED
  BY <1>10, <1>11, <1>16, <1>17

LEMMA CommittingRows ==
  ASSUME NEW desk \in Desks, DeskInv(desk), NEW r \in Reviewer, CommitRows(r)
  PROVE  DeskInv(desk)'
<1> DEFINE h == job[r]
           g == job'[r]
<1>1. /\ h.op \in {"approve", "apply"} /\ h.at = "commit" /\ Go(r, "audit")
      /\ UNCHANGED <<queueVars, requestVars, market>>
      /\ h.op = "approve" => MarkApproved(h.rows)
      /\ h.op = "apply" => Len(entries) + Cardinality(h.rows) <= MaxEntries /\ ApplyRows(h.rows)
  BY DEF CommitRows
<1>2. /\ h # Idle /\ RowsOK(h, World)
      /\ ItemJob(h, desk, World) \/ BatchJob(h)
  BY <1>1, AtWork DEF DeskInv, RulingJob
<1>3. /\ h.ids \subseteq DOMAIN changes /\ h.rows \subseteq DOMAIN changes
      /\ h.op = "approve" => h.ids \ h.rows \subseteq Settled
  BY <1>1, <1>2 DEF RowsOK, World
<1>4. TablesInv(desk) /\ changes \in Seq(Change)
  BY DEF DeskInv, TablesInv
<1>5. /\ TablesInv(desk)' /\ DOMAIN changes' = DOMAIN changes
      /\ Settled \subseteq Settled' /\ Granted \subseteq Granted' /\ EnteredChanges \subseteq EnteredChanges'
      /\ h.op = "approve" => h.ids \subseteq Settled' /\ h.rows \subseteq Granted'
      /\ h.op = "apply" => h.rows \subseteq EnteredChanges'
  <2>1. CASE h.op = "approve"
    <3>1. changes' = WithStatus(h.rows, "approved") /\ UNCHANGED <<entries, audits, previewed>>
      BY <1>1, <2>1 DEF MarkApproved, queueVars
    <3>2. "approved" \in ChangeStatus \ {"pending"}
      BY DEF ChangeStatus
    <3>3. /\ Settled \subseteq Settled' /\ Granted \subseteq Granted' /\ DOMAIN changes' = DOMAIN changes
          /\ h.rows \cap DOMAIN changes \subseteq Settled' /\ h.rows \cap DOMAIN changes \subseteq Granted'
      BY <1>4, <3>1, <3>2, StatusesGrow, StatusesChange
    <3>4. EnteredChanges' = EnteredChanges
      BY <3>1 DEF EnteredChanges
    <3>5. /\ NewestEntryIsActive' /\ entries' \in Seq(Entry) /\ Len(entries') <= MaxEntries
          /\ \A k \in DOMAIN entries' :
               /\ entries'[k].change \in DOMAIN changes
               /\ entries'[k].name = changes[entries'[k].change].name
               /\ entries'[k].value = changes[entries'[k].change].value
      BY <1>4, <3>1 DEF TablesInv, NewestEntryIsActive
    <3>6. TablesInv(desk)'
      BY <1>4, <3>1, <3>2, <3>4, <3>5, TablesKeep
    <3>7. QED
      BY <1>3, <2>1, <3>3, <3>4, <3>6
  <2>2. CASE h.op = "apply"
    <3>1. previewed' = previewed
      BY <1>1 DEF queueVars
    <3>2. QED
      BY <1>1, <1>3, <1>4, <2>2, <3>1, ApplyingRows
  <2>3. QED
    BY <1>1, <2>1, <2>2
<1>6. /\ DOMAIN job' = Reviewer /\ \A s \in Reviewer \ {r} : job'[s] = job[s]
      /\ DOMAIN g = HandlerFields /\ g.at = "audit"
      /\ g.op = h.op /\ g.item = h.item /\ g.copy = h.copy /\ g.resolved = h.resolved
      /\ g.ids = h.ids /\ g.rows = h.rows
  BY <1>1, <1>2, Gone DEF DeskInv
<1>7. Later(World, World')
  BY <1>1, <1>5 DEF World, Later, Closable, queueVars, requestVars
<1>8. World'.settled = Settled' /\ World'.granted = Granted' /\ World'.entered = EnteredChanges'
  BY DEF World
<1>9. /\ RowsOK(h, World')
      /\ ItemJob(h, desk, World') \/ BatchJob(h)
  BY <1>2, <1>7, RowsGrow, ItemJobGrows
<1> HIDE DEF g, h
<1>10. RowsOK(g, World')
  BY <1>1, <1>5, <1>6, <1>8, <1>9 DEF RowsOK
<1>11. ItemJob(g, desk, World') \/ BatchJob(g)
  BY <1>1, <1>6, <1>9 DEF ItemJob, BatchJob, Checked
<1>12. QED
  BY <1>1, <1>5, <1>6, <1>10, <1>11, TablesOnly DEF JobOK, g

LEMMA CommittingBatch ==
  ASSUME NEW desk \in Desks, DeskInv(desk), NEW r \in Reviewer, CommitBatch(r)
  PROVE  DeskInv(desk)'
<1> DEFINE h == job[r]
           g == job'[r]
<1>1. PICK status \in {"rejected", "deferred"} :
        /\ h.op \in {"reject", "defer"} /\ h.item = 0 /\ MarkPending(h.ids, status)
        /\ job' = [job EXCEPT ![r].rows = job[r].ids, ![r].at = "audit"]
        /\ UNCHANGED <<queueVars, requestVars, market>>
  BY DEF CommitBatch
<1>2. DOMAIN h = HandlerFields /\ RowsOK(h, World) /\ BatchJob(h)
  <2>1. 0 \notin DOMAIN desk.items
    BY DeskAssumption DEF QueueStarts
  <2>2. QED
    BY <1>1, <2>1, AtWork DEF DeskInv, ItemJob, RulingJob
<1>3. changes' = WithStatus(Selected(h.ids, "pending"), status) /\ UNCHANGED <<entries, audits, previewed>>
  BY <1>1 DEF MarkPending, queueVars
<1>4. TablesInv(desk) /\ changes \in Seq(Change)
  BY DEF DeskInv, TablesInv
<1>5. status \in ChangeStatus \ {"pending"} /\ Selected(h.ids, "pending") \cap Granted = {}
  BY <1>1 DEF ChangeStatus, Selected, Granted
<1>6. Settled \subseteq Settled' /\ Granted \subseteq Granted' /\ DOMAIN changes' = DOMAIN changes
  BY <1>3, <1>4, <1>5, StatusesGrow, StatusesChange
<1>7. EnteredChanges' = EnteredChanges
  BY <1>3 DEF EnteredChanges
<1>8. /\ NewestEntryIsActive' /\ entries' \in Seq(Entry) /\ Len(entries') <= MaxEntries
      /\ \A k \in DOMAIN entries' :
           /\ entries'[k].change \in DOMAIN changes
           /\ entries'[k].name = changes[entries'[k].change].name
           /\ entries'[k].value = changes[entries'[k].change].value
  BY <1>3, <1>4 DEF TablesInv, NewestEntryIsActive
<1>9. TablesInv(desk)'
  BY <1>3, <1>4, <1>5, <1>7, <1>8, TablesKeep
<1>10. /\ DOMAIN job' = Reviewer /\ \A s \in Reviewer \ {r} : job'[s] = job[s]
       /\ DOMAIN g = HandlerFields /\ g.at = "audit" /\ g.rows = h.ids
       /\ g.op = h.op /\ g.item = h.item /\ g.ids = h.ids
  BY <1>1, <1>2 DEF HandlerFields, DeskInv, JobsInv
<1>11. h.ids \subseteq World'.ids
  BY <1>2, <1>6 DEF RowsOK, World
<1> HIDE DEF g, h
<1>12. RowsOK(g, World') /\ BatchJob(g)
  BY <1>1, <1>2, <1>10, <1>11 DEF RowsOK, BatchJob
<1>13. QED
  BY <1>1, <1>6, <1>7, <1>9, <1>10, <1>12, TablesOnly DEF JobOK, g

\* The trail records what has been committed.
LEMMA Auditing ==
  ASSUME NEW desk \in Desks, DeskInv(desk), NEW r \in Reviewer, AuditBatch(r)
  PROVE  DeskInv(desk)'
<1> DEFINE h == job[r]
           g == job'[r]
           new == { [event |-> Audited(h.op), change |-> i] : i \in h.rows }
<1>1. /\ h.op \in {"approve", "apply", "reject", "defer"} /\ h.at = "audit"
      /\ audits' = audits \cup new /\ UNCHANGED <<changes, entries>>
      /\ IF h.item = 0 THEN Finish(r) ELSE Go(r, "decide")
      /\ UNCHANGED <<queueVars, requestVars, market>>
  BY DEF AuditBatch, AuditRows
<1>2. /\ h # Idle /\ RowsOK(h, World)
      /\ ItemJob(h, desk, World) \/ BatchJob(h)
  BY <1>1, AtWork DEF DeskInv, RulingJob
<1>3. World' = World
  BY <1>1 DEF World, Settled, Granted, EnteredChanges, Closable, queueVars, requestVars
<1>4. ASSUME NEW a \in new
      PROVE  /\ a \in Audit /\ a.change \in DOMAIN changes
             /\ a.event = "approved" => a.change \in Granted
             /\ a.event = "applied" => a.change \in EnteredChanges
  <2>1. PICK i \in h.rows : a = [event |-> Audited(h.op), change |-> i]
    OBVIOUS
  <2>2. i \in DOMAIN changes /\ i \in Nat
    <3>1. i \in DOMAIN changes
      BY <1>2 DEF RowsOK, World
    <3>2. QED
      BY <3>1, SeqFacts DEF DeskInv, TablesInv
  <2>3. Audited(h.op) \in {"approved", "applied", "rejected", "deferred"}
    BY <1>1 DEF Audited
  <2>4. Audited(h.op) = "approved" => h.op = "approve"
    BY <1>1 DEF Audited
  <2>5. Audited(h.op) = "applied" => h.op = "apply"
    BY <1>1 DEF Audited
  <2>6. /\ h.op = "approve" => i \in Granted
        /\ h.op = "apply" => i \in EnteredChanges
    BY <1>1, <1>2 DEF RowsOK, World
  <2>7. QED
    BY <2>1, <2>2, <2>3, <2>4, <2>5, <2>6 DEF Audit
<1>5. TablesInv(desk)'
  <2>1. UNCHANGED <<changes, entries, previewed>> /\ audits' = audits \cup new
    BY <1>1 DEF queueVars
  <2>2. /\ audits' \subseteq Audit
        /\ \A a \in audits' :
             /\ a.change \in DOMAIN changes'
             /\ a.event = "approved" => a.change \in Granted'
             /\ a.event = "applied" => a.change \in EnteredChanges'
    <3>1. Granted' = Granted /\ EnteredChanges' = EnteredChanges
      BY <2>1 DEF Granted, EnteredChanges
    <3> HIDE DEF new
    <3>2. QED
      BY <1>4, <2>1, <3>1 DEF DeskInv, TablesInv
  <2> HIDE DEF new
  <2>3. QED
    BY <2>1, <2>2 DEF DeskInv, TablesInv, NewestEntryIsActive
<1>6. /\ DOMAIN changes \subseteq DOMAIN changes' /\ Settled \subseteq Settled' /\ Granted \subseteq Granted'
      /\ EnteredChanges \subseteq EnteredChanges'
  BY <1>1 DEF Settled, Granted, EnteredChanges
<1>7. CASE h.item = 0
  <2>1. /\ DOMAIN job' = Reviewer /\ \A s \in Reviewer \ {r} : job'[s] = job[s]
        /\ JobOK(job'[r], desk, World')
    BY <1>1, <1>7, Finished DEF DeskInv
  <2>2. QED
    BY <1>1, <1>5, <1>6, <2>1, TablesOnly
<1>8. CASE h.item # 0
  <2>1. ItemJob(h, desk, World)
    BY <1>2, <1>8 DEF BatchJob
  <2>2. /\ DOMAIN job' = Reviewer /\ \A s \in Reviewer \ {r} : job'[s] = job[s]
        /\ DOMAIN g = HandlerFields /\ g.at = "decide"
        /\ g.op = h.op /\ g.item = h.item /\ g.copy = h.copy /\ g.resolved = h.resolved /\ g.edit = h.edit
        /\ g.ids = h.ids /\ g.rows = h.rows
    BY <1>1, <1>2, <1>8, Gone DEF DeskInv
  <2> HIDE DEF g, h
  <2>3. RowsOK(g, World) /\ ItemJob(g, desk, World)
    BY <1>1, <1>2, <2>1, <2>2 DEF RowsOK, ItemJob, Checked
  <2>4. QED
    BY <1>1, <1>3, <1>5, <1>6, <2>2, <2>3, TablesOnly DEF JobOK, g
<1>9. QED
  BY <1>7, <1>8

-----------------------------------------------------------------------------
(* The rows of the queue. *)

\* What is said of a row that was decided.
RowDecided(i) ==
  /\ IsFamily(items[i].pack) /\ items[i].status \in {"approved", "superseded"} => items[i].approved # Missing
  /\ items[i].status = "approved" =>
       /\ \E e \in events : e.item = i /\ e.event = "approve"
       /\ (items[i].topic # Missing /\ ~IsFamily(items[i].approved)) =>
            \E k \in DOMAIN treatments : treatments[k].item = i
  /\ items[i].status = "approved" /\ IsFamily(items[i].pack) =>
       /\ IsFamily(items[i].approved)
       /\ items[i].links.approval = FamilyFingerprint(items[i].approved)
       /\ [item |-> i, event |-> "approve", approval |-> items[i].links.approval] \in events
  /\ items[i].status = "superseded" /\ IsFamily(items[i].pack) =>
       \E j \in DOMAIN items \ {i} :
         /\ items[i].links.supersededBy = j
         /\ \E pack \in {items[j].pack} \cup Edits :
              /\ IsFamily(pack) /\ pack.family = items[i].approved.family
              /\ [item |-> j, event |-> "approve", approval |-> FamilyFingerprint(pack)] \in events

TreatedStay ==
  \A k \in DOMAIN treatments : k \in DOMAIN treatments' /\ treatments'[k].item = treatments[k].item

\* A row that is neither written nor robbed of its records stays decided as it was.
LEMMA RowStays ==
  ASSUME NEW i \in DOMAIN items, RowDecided(i), items'[i] = items[i], DOMAIN items' = DOMAIN items,
         \A j \in DOMAIN items : items'[j].pack = items[j].pack,
         events \subseteq events', TreatedStay
  PROVE  RowDecided(i)'
<1>1. items'[i].status = "approved" =>
        /\ \E e \in events' : e.item = i /\ e.event = "approve"
        /\ (items'[i].topic # Missing /\ ~IsFamily(items'[i].approved)) =>
             \E k \in DOMAIN treatments' : treatments'[k].item = i
  BY DEF RowDecided, TreatedStay
<1>2. items'[i].status = "superseded" /\ IsFamily(items'[i].pack) =>
        \E j \in DOMAIN items' \ {i} :
          /\ items'[i].links.supersededBy = j
          /\ \E pack \in {items'[j].pack} \cup Edits :
               /\ IsFamily(pack) /\ pack.family = items'[i].approved.family
               /\ [item |-> j, event |-> "approve", approval |-> FamilyFingerprint(pack)] \in events'
  BY DEF RowDecided
<1>3. QED
  BY <1>1, <1>2 DEF RowDecided

LEMMA AllDecided ==
  /\ (\A i \in DOMAIN items : RowDecided(i)) => DecidedInv
  /\ \A desk : ItemsInv(desk) /\ DecidedInv => \A i \in DOMAIN items : RowDecided(i)
<1>1. ASSUME \A i \in DOMAIN items : RowDecided(i) PROVE DecidedInv
  BY <1>1 DEF DecidedInv, BackedInv, ApprovedFamiliesValidate, SupersededHaveSuccessors, RowDecided
<1>2. ASSUME NEW desk, ItemsInv(desk), DecidedInv, NEW i \in DOMAIN items PROVE RowDecided(i)
  BY <1>2 DEF ItemsInv, DecidedInv, BackedInv, ApprovedFamiliesValidate, SupersededHaveSuccessors, RowDecided
<1>3. QED
  BY <1>1, <1>2

\* A step that writes rows of the queue and their records.
LEMMA QueueOnly ==
  ASSUME NEW desk, DeskInv(desk), NEW r \in Reviewer,
         UNCHANGED <<tableVars, requestVars, market>>,
         previewed \subseteq previewed', events \subseteq events', RecordsInv(desk)',
         Closable \subseteq Closable', DOMAIN items' = DOMAIN items,
         \A i \in DOMAIN items : CopyOK(items'[i], i, desk, World') /\ RowDecided(i)',
         DOMAIN job' = Reviewer, \A s \in Reviewer \ {r} : job'[s] = job[s],
         JobOK(job'[r], desk, World')
  PROVE  DeskInv(desk)'
<1>1. Later(World, World')
  BY DEF World, Later, Settled, Granted, EnteredChanges, tableVars, requestVars
<1>2. JobsInv(desk)'
  BY <1>1, OneJob DEF DeskInv
<1>3. TablesInv(desk)' /\ RequestsInv'
  BY KeepTables, KeepRequests DEF DeskInv
<1>4. ItemsInv(desk)'
  BY DEF DeskInv, ItemsInv, RowDecided
<1>5. DecidedInv'
  BY DEF DecidedInv, BackedInv, ApprovedFamiliesValidate, SupersededHaveSuccessors, RowDecided
<1>6. QED
  BY <1>2, <1>3, <1>4, <1>5 DEF DeskInv

\* A step that writes one row.
LEMMA OneItem ==
  ASSUME NEW desk, DeskInv(desk), NEW r \in Reviewer, NEW i \in DOMAIN items,
         UNCHANGED <<tableVars, requestVars, market>>,
         previewed \subseteq previewed', events \subseteq events', RecordsInv(desk)', TreatedStay,
         DOMAIN items' = DOMAIN items, \A j \in DOMAIN items \ {i} : items'[j] = items[j],
         CopyOK(items'[i], i, desk, World'), RowDecided(i)',
         IsFamily(items[i].pack) /\ items[i].approved # Missing => items'[i].approved # Missing,
         DOMAIN job' = Reviewer, \A s \in Reviewer \ {r} : job'[s] = job[s],
         JobOK(job'[r], desk, World')
  PROVE  DeskInv(desk)'
<1>1. ItemsInv(desk) /\ DecidedInv
  BY DEF DeskInv
<1>2. \A j \in DOMAIN items : items'[j].pack = items[j].pack
  BY <1>1 DEF ItemsInv, CopyOK
<1>3. Closable \subseteq Closable'
  BY <1>2 DEF Closable
<1>4. Later(World, World')
  BY <1>3 DEF World, Later, Settled, Granted, EnteredChanges, tableVars, requestVars
<1>5. ASSUME NEW j \in DOMAIN items PROVE CopyOK(items'[j], j, desk, World') /\ RowDecided(j)'
  <2>1. CASE j = i
    BY <2>1
  <2>2. CASE j # i
    <3>1. items'[j] = items[j] /\ CopyOK(items[j], j, desk, World) /\ RowDecided(j)
      BY <1>1, <2>2, AllDecided DEF ItemsInv
    <3>2. CopyOK(items'[j], j, desk, World')
      BY <1>4, <3>1, CopyGrows
    <3>3. RowDecided(j)'
      BY <1>2, <3>1, RowStays
    <3>4. QED
      BY <3>2, <3>3
  <2>3. QED
    BY <2>1, <2>2
<1>6. QED
  BY <1>3, <1>5, QueueOnly

LEMMA RowOf ==
  ASSUME NEW desk \in Desks, DeskInv(desk), NEW i \in DOMAIN items
  PROVE  /\ CopyOK(items[i], i, desk, World) /\ DOMAIN items[i] = ItemFields
         /\ RowDecided(i) /\ i \in Nat
<1>1. CopyOK(items[i], i, desk, World) /\ i \in DOMAIN desk.items
  BY RowRead
<1>2. RowDecided(i)
  BY AllDecided DEF DeskInv
<1>3. i \in Nat
  BY <1>1, DeskAssumption DEF QueueStarts
<1>4. QED
  BY <1>1, <1>2, <1>3 DEF CopyOK

\* A handler of an item, at a step where it is one.
LEMMA ItemAtWork ==
  ASSUME NEW desk \in Desks, DeskInv(desk), NEW r \in Reviewer,
         job[r].op \in {"preview", "edit"} \/
         (job[r].op # "idle" /\ job[r].at \in {"resolve", "fingerprint", "review", "supersede", "create", "decide", "event"}
            /\ job[r].op \notin {"accepted", "implemented", "rejected"}) \/
         (job[r].op \in {"reject", "defer"} /\ job[r].item # 0)
  PROVE  /\ job[r] # Idle /\ DOMAIN job[r] = HandlerFields /\ RowsOK(job[r], World)
         /\ ItemJob(job[r], desk, World) /\ job[r].item \in DOMAIN items
<1>1. job[r].op # "idle"
  OBVIOUS
<1>2. /\ job[r] # Idle /\ DOMAIN job[r] = HandlerFields /\ RowsOK(job[r], World)
      /\ ItemJob(job[r], desk, World) \/ BatchJob(job[r]) \/ RulingJob(job[r], World)
  BY <1>1, AtWork DEF DeskInv
<1>3. ItemJob(job[r], desk, World)
  BY <1>2 DEF BatchJob, RulingJob
<1>4. QED
  BY <1>2, <1>3 DEF ItemJob, DeskInv, ItemsInv

LEMMA RecordingPreview ==
  ASSUME NEW desk \in Desks, DeskInv(desk), NEW r \in Reviewer, RecordPreview(r)
  PROVE  DeskInv(desk)'
<1> DEFINE h == job[r]
<1>1. /\ h.op = "preview" /\ h.at = "fingerprint" /\ Finish(r)
      /\ UNCHANGED <<tableVars, events, treatments, requestVars, market>>
  BY DEF RecordPreview, At
<1>2. ItemJob(h, desk, World) /\ h.item \in DOMAIN items
  BY <1>1, ItemAtWork
<1>3. PICK i \in DOMAIN items : i = h.item
  BY <1>2
<1>4. /\ DOMAIN job' = Reviewer /\ \A s \in Reviewer \ {r} : job'[s] = job[s]
      /\ JobOK(job'[r], desk, World) /\ JobOK(job'[r], desk, World')
  BY <1>1, Finished DEF DeskInv
<1>5. CASE items[i].type = "advisory"
  <2>1. UNCHANGED <<items, previewed>>
    BY <1>3, <1>5 DEF RecordPreview
  <2>2. QED
    BY <1>1, <1>4, <2>1, OnlyTheJob DEF queueVars
<1>6. CASE items[i].type # "advisory"
  <2> DEFINE print == PreviewFingerprint(h.resolved)
             links == [h.copy.links EXCEPT !.fingerprint = print]
  <2>1. /\ items' = [items EXCEPT ![i].status = "previewed", ![i].links = links]
        /\ previewed' = previewed \cup Shown(i, h.resolved.values)
    BY <1>3, <1>6 DEF RecordPreview
  <2>2. print.pack = h.resolved
    BY DEF PreviewFingerprint
  <2>3. LinksOK(h.copy.links, i, desk, World)
    BY <1>2, <1>3 DEF ItemJob, CopyOK
  <2> HIDE DEF print
  <2>4. /\ DOMAIN links = LinkFields /\ links.fingerprint = print
        /\ links.changes = h.copy.links.changes /\ links.supersededBy = h.copy.links.supersededBy
    BY <2>3 DEF LinksOK, LinkFields
  <2> HIDE DEF links
  <2>5. CopyOK(items[i], i, desk, World) /\ DOMAIN items[i] = ItemFields
    BY RowOf
  <2>6. DOMAIN items' = DOMAIN items /\ \A j \in DOMAIN items \ {i} : items'[j] = items[j]
    BY <2>1
  <2>7. /\ DOMAIN items'[i] = ItemFields /\ items'[i].status = "previewed" /\ items'[i].links = links
        /\ items'[i].type = items[i].type /\ items'[i].pack = items[i].pack /\ items'[i].topic = items[i].topic
        /\ items'[i].edited = items[i].edited /\ items'[i].approved = items[i].approved
    BY <2>1, <2>5 DEF ItemFields
  <2>8. World'.settled = World.settled /\ World'.shown = previewed'
    BY <1>1 DEF World, Settled, tableVars
  <2>9. LinksOK(links, i, desk, World')
    BY <2>1, <2>2, <2>3, <2>4, <2>8 DEF LinksOK
  <2>10. CopyOK(items'[i], i, desk, World')
    BY <2>5, <2>7, <2>9 DEF CopyOK, ItemStatus
  <2>11. RowDecided(i)'
    BY <2>7 DEF RowDecided
  <2>12. RecordsInv(desk)' /\ TreatedStay
    BY <1>1, KeepRecords DEF DeskInv, TreatedStay
  <2>13. previewed \subseteq previewed'
    BY <2>1
  <2>14. QED
    BY <1>1, <1>4, <2>6, <2>7, <2>10, <2>11, <2>12, <2>13, OneItem
<1>7. QED
  BY <1>5, <1>6

LEMMA RecordingFamilyPreview ==
  ASSUME NEW desk \in Desks, DeskInv(desk), NEW r \in Reviewer, RecordFamilyPreview(r)
  PROVE  DeskInv(desk)'
<1> DEFINE h == job[r]
           print == FamilyFingerprint(ActivePack(h.copy))
           links == [h.copy.links EXCEPT !.fingerprint = print]
<1>1. /\ h.op = "preview" /\ h.at = "review" /\ Finish(r)
      /\ items' = [items EXCEPT ![h.item].status = "previewed", ![h.item].links = links]
      /\ UNCHANGED <<tableVars, events, treatments, previewed, requestVars, market>>
  BY DEF RecordFamilyPreview, At
<1>2. ItemJob(h, desk, World) /\ h.item \in DOMAIN items
  BY <1>1, ItemAtWork
<1>3. PICK i \in DOMAIN items : i = h.item
  BY <1>2
<1>4. /\ DOMAIN job' = Reviewer /\ \A s \in Reviewer \ {r} : job'[s] = job[s]
      /\ JobOK(job'[r], desk, World')
  BY <1>1, Finished DEF DeskInv
<1>5. print.of # "preview"
  BY DEF FamilyFingerprint
<1>6. LinksOK(h.copy.links, i, desk, World)
  BY <1>2, <1>3 DEF ItemJob, CopyOK
<1> HIDE DEF print
<1>7. /\ DOMAIN links = LinkFields /\ links.fingerprint = print
      /\ links.changes = h.copy.links.changes /\ links.supersededBy = h.copy.links.supersededBy
  BY <1>6 DEF LinksOK, LinkFields
<1> HIDE DEF links
<1>8. CopyOK(items[i], i, desk, World) /\ DOMAIN items[i] = ItemFields
  BY RowOf
<1>9. DOMAIN items' = DOMAIN items /\ \A j \in DOMAIN items \ {i} : items'[j] = items[j]
  BY <1>1, <1>3
<1>10. /\ DOMAIN items'[i] = ItemFields /\ items'[i].status = "previewed" /\ items'[i].links = links
       /\ items'[i].type = items[i].type /\ items'[i].pack = items[i].pack /\ items'[i].topic = items[i].topic
       /\ items'[i].edited = items[i].edited /\ items'[i].approved = items[i].approved
  BY <1>1, <1>3, <1>8 DEF ItemFields
<1>11. World'.settled = World.settled /\ World'.shown = World.shown
  BY <1>1 DEF World, Settled, tableVars
<1>12. CopyOK(items'[i], i, desk, World')
  BY <1>5, <1>6, <1>7, <1>8, <1>10, <1>11 DEF CopyOK, LinksOK, ItemStatus
<1>13. RowDecided(i)'
  BY <1>10 DEF RowDecided
<1>14. RecordsInv(desk)' /\ TreatedStay
  BY <1>1, KeepRecords DEF DeskInv, TreatedStay
<1>15. QED
  BY <1>1, <1>4, <1>9, <1>10, <1>12, <1>13, <1>14, OneItem

LEMMA WritingDecision ==
  ASSUME NEW desk \in Desks, DeskInv(desk), NEW r \in Reviewer, WriteDecision(r)
  PROVE  DeskInv(desk)'
<1> DEFINE h == job[r]
           g == job'[r]
           links == [h.copy.links EXCEPT !.fingerprint = NoFingerprint]
<1>1. /\ h.op \in {"edit", "reject", "defer"} /\ h.at = "write" /\ h.item # 0 /\ Go(r, "event")
      /\ UNCHANGED <<tableVars, events, treatments, previewed, requestVars, market>>
  BY DEF WriteDecision
<1>2. h # Idle /\ RowsOK(h, World) /\ ItemJob(h, desk, World) /\ h.item \in DOMAIN items
  BY <1>1, ItemAtWork
<1>3. PICK i \in DOMAIN items : i = h.item
  BY <1>2
<1>4. items' = [items EXCEPT ![i] =
          CASE h.op = "edit" -> [items[i] EXCEPT !.status = "pending", !.edited = h.edit, !.links = links]
            [] h.op = "reject" -> [items[i] EXCEPT !.status = "rejected"]
            [] OTHER -> [items[i] EXCEPT !.status = "deferred"]]
  BY <1>3 DEF WriteDecision
<1>5. CopyOK(h.copy, i, desk, World)
  BY <1>2, <1>3 DEF ItemJob
<1>6. /\ DOMAIN links = LinkFields /\ links.fingerprint = NoFingerprint
      /\ links.changes = h.copy.links.changes /\ links.supersededBy = h.copy.links.supersededBy
  BY <1>5 DEF CopyOK, LinksOK, LinkFields
<1>7. LinksOK(links, i, desk, World)
  BY <1>5, <1>6 DEF CopyOK, LinksOK, NoFingerprint
<1> HIDE DEF links
<1>8. CopyOK(items[i], i, desk, World) /\ DOMAIN items[i] = ItemFields
  BY RowOf
<1>9. DOMAIN items' = DOMAIN items /\ \A j \in DOMAIN items \ {i} : items'[j] = items[j]
  BY <1>4
<1>10. /\ DOMAIN items'[i] = ItemFields /\ items'[i].status \in {"pending", "rejected", "deferred"}
       /\ items'[i].type = items[i].type /\ items'[i].pack = items[i].pack /\ items'[i].topic = items[i].topic
       /\ items'[i].approved = items[i].approved
       /\ \/ h.op = "edit" /\ items'[i].edited = h.edit /\ items'[i].links = links
          \/ items'[i].edited = items[i].edited /\ items'[i].links = items[i].links
  <2>1. CASE h.op = "edit"
    <3>1. items'[i] = [items[i] EXCEPT !.status = "pending", !.edited = h.edit, !.links = links]
      BY <1>4, <2>1
    <3>2. QED
      BY <1>8, <2>1, <3>1 DEF ItemFields
  <2>2. CASE h.op = "reject"
    BY <1>4, <1>8, <2>2 DEF ItemFields
  <2>3. CASE h.op = "defer"
    BY <1>4, <1>8, <2>3 DEF ItemFields
  <2>4. QED
    BY <1>1, <2>1, <2>2, <2>3
<1>11. Closable \subseteq Closable' /\ World'.settled = World.settled /\ World'.shown = World.shown
  BY <1>1, <1>9, <1>10 DEF World, Settled, Closable, tableVars
<1>12. LinksOK(items'[i].links, i, desk, World')
  <2>1. LinksOK(items'[i].links, i, desk, World)
    BY <1>7, <1>8, <1>10 DEF CopyOK
  <2>2. QED
    BY <1>11, <2>1 DEF LinksOK
<1>13. items'[i].edited # Missing => items'[i].edited \in Edits /\ MayReplace(items'[i].pack, items'[i].edited)
  <2>1. h.op = "edit" => h.edit \in Edits /\ MayReplace(h.copy.pack, h.edit)
    BY <1>2 DEF ItemJob
  <2>2. h.copy.pack = items[i].pack
    BY <1>5, <1>8 DEF CopyOK
  <2>3. QED
    BY <1>8, <1>10, <2>1, <2>2 DEF CopyOK
<1>14. CopyOK(items'[i], i, desk, World')
  BY <1>8, <1>10, <1>12, <1>13 DEF CopyOK, ItemStatus
<1>15. RowDecided(i)'
  BY <1>10 DEF RowDecided
<1>16. RecordsInv(desk)' /\ TreatedStay
  BY <1>1, KeepRecords DEF DeskInv, TreatedStay
<1>17. /\ DOMAIN job' = Reviewer /\ \A s \in Reviewer \ {r} : job'[s] = job[s]
       /\ DOMAIN g = HandlerFields /\ g.at = "event"
       /\ g.op = h.op /\ g.item = h.item /\ g.copy = h.copy /\ g.resolved = h.resolved /\ g.edit = h.edit
       /\ g.ids = h.ids /\ g.rows = h.rows
  BY <1>1, <1>2, Gone DEF DeskInv
<1>18. Later(World, World')
  BY <1>1, <1>11 DEF World, Later, Settled, Granted, EnteredChanges, tableVars, requestVars
<1>19. RowsOK(h, World') /\ ItemJob(h, desk, World')
  BY <1>2, <1>18, RowsGrow, ItemJobGrows
<1>20. JobOK(g, desk, World')
  <2> HIDE DEF g, h
  <2>1. RowsOK(g, World') /\ ItemJob(g, desk, World')
    BY <1>1, <1>17, <1>19 DEF RowsOK, ItemJob, Checked
  <2>2. QED
    BY <1>17, <2>1 DEF JobOK
<1>21. QED
  BY <1>1, <1>9, <1>10, <1>14, <1>15, <1>16, <1>17, <1>20, OneItem

LEMMA LoggingEvent ==
  ASSUME NEW desk \in Desks, DeskInv(desk), NEW r \in Reviewer, LogEvent(r)
  PROVE  DeskInv(desk)'
<1> DEFINE h == job[r]
           event == [item |-> h.item, event |-> h.op, approval |-> NoFingerprint]
<1>1. /\ h.op \in {"edit", "reject", "defer", "apply"} /\ h.at = "event" /\ Finish(r)
      /\ events' = events \cup {event}
      /\ UNCHANGED <<tableVars, items, treatments, previewed, requestVars, market>>
  BY DEF LogEvent
<1>2. ItemJob(h, desk, World)
  BY <1>1, ItemAtWork
<1>3. event.item \in DOMAIN desk.items
  BY <1>2 DEF ItemJob
<1> HIDE DEF event
<1>4. RecordsInv(desk)'
  BY <1>1, <1>3 DEF DeskInv, RecordsInv, NewestTreatmentIsActive
<1>5. World' = World
  BY <1>1 DEF World, Settled, Granted, EnteredChanges, Closable, tableVars, requestVars
<1>6. DecidedInv'
  BY <1>1, KeepDecided DEF DeskInv
<1>7. ItemsInv(desk)' /\ TablesInv(desk)' /\ RequestsInv'
  BY <1>1, <1>5, Same, KeepItems, KeepTables, KeepRequests DEF DeskInv
<1>8. JobsInv(desk)'
  BY <1>1, <1>5, Same, Finished, OneJob DEF DeskInv
<1>9. QED
  BY <1>1, <1>4, <1>6, <1>7, <1>8 DEF DeskInv

LEMMA MarkingApplied ==
  ASSUME NEW desk \in Desks, DeskInv(desk), NEW r \in Reviewer, MarkApplied(r)
  PROVE  DeskInv(desk)'
<1> DEFINE h == job[r]
           g == job'[r]
           links == [h.copy.links EXCEPT !.applied = TRUE]
<1>1. /\ h.op = "apply" /\ h.at = "decide" /\ Go(r, "event")
      /\ items' = [items EXCEPT ![h.item].links = links]
      /\ UNCHANGED <<tableVars, events, treatments, previewed, requestVars, market>>
  BY DEF MarkApplied, At
<1>2. h # Idle /\ RowsOK(h, World) /\ ItemJob(h, desk, World) /\ h.item \in DOMAIN items
  BY <1>1, ItemAtWork
<1>3. PICK i \in DOMAIN items : i = h.item
  BY <1>2
<1>4. CopyOK(h.copy, i, desk, World) /\ ~IsFamily(h.copy.pack)
  BY <1>1, <1>2, <1>3 DEF ItemJob
<1>5. /\ DOMAIN links = LinkFields /\ links.fingerprint = h.copy.links.fingerprint
      /\ links.changes = h.copy.links.changes /\ links.supersededBy = h.copy.links.supersededBy
  BY <1>4 DEF CopyOK, LinksOK, LinkFields
<1>6. LinksOK(links, i, desk, World)
  BY <1>4, <1>5 DEF CopyOK, LinksOK
<1> HIDE DEF links
<1>7. CopyOK(items[i], i, desk, World) /\ DOMAIN items[i] = ItemFields /\ RowDecided(i)
  BY RowOf
<1>8. DOMAIN items' = DOMAIN items /\ \A j \in DOMAIN items \ {i} : items'[j] = items[j]
  BY <1>1, <1>3
<1>9. /\ DOMAIN items'[i] = ItemFields /\ items'[i].status = items[i].status /\ items'[i].links = links
      /\ items'[i].type = items[i].type /\ items'[i].pack = items[i].pack /\ items'[i].topic = items[i].topic
      /\ items'[i].edited = items[i].edited /\ items'[i].approved = items[i].approved
  BY <1>1, <1>3, <1>7 DEF ItemFields
<1>10. Closable \subseteq Closable' /\ World'.settled = World.settled /\ World'.shown = World.shown
  BY <1>1, <1>8, <1>9 DEF World, Settled, Closable, tableVars
<1>11. CopyOK(items'[i], i, desk, World')
  BY <1>6, <1>7, <1>9, <1>10 DEF CopyOK, LinksOK
<1>12. ~IsFamily(items[i].pack)
  BY <1>4, <1>7 DEF CopyOK
<1>13. RowDecided(i)'
  BY <1>1, <1>7, <1>9, <1>12 DEF RowDecided
<1>14. RecordsInv(desk)' /\ TreatedStay
  BY <1>1, KeepRecords DEF DeskInv, TreatedStay
<1>15. /\ DOMAIN job' = Reviewer /\ \A s \in Reviewer \ {r} : job'[s] = job[s]
       /\ DOMAIN g = HandlerFields /\ g.at = "event"
       /\ g.op = h.op /\ g.item = h.item /\ g.copy = h.copy /\ g.ids = h.ids /\ g.rows = h.rows
  BY <1>1, <1>2, Gone DEF DeskInv
<1>16. Later(World, World')
  BY <1>1, <1>10 DEF World, Later, Settled, Granted, EnteredChanges, tableVars, requestVars
<1>17. RowsOK(h, World') /\ ItemJob(h, desk, World')
  BY <1>2, <1>16, RowsGrow, ItemJobGrows
<1>18. JobOK(g, desk, World')
  <2> HIDE DEF g, h
  <2>1. RowsOK(g, World') /\ ItemJob(g, desk, World')
    BY <1>1, <1>15, <1>17 DEF RowsOK, ItemJob, Checked
  <2>2. QED
    BY <1>15, <2>1 DEF JobOK
<1>19. QED
  BY <1>1, <1>8, <1>9, <1>11, <1>13, <1>14, <1>15, <1>18, OneItem

-----------------------------------------------------------------------------
(* Approvals. *)

Decision(I, T) == [item : I, topic : T, active : BOOLEAN, supersededBy : Nat]

NewestOf(ts) ==
  \A k \in DOMAIN ts :
    LET newer == { l \in DOMAIN ts : l > k /\ ts[l].topic = ts[k].topic }
    IN IF newer = {} THEN ts[k].active ELSE ~ts[k].active /\ ts[k].supersededBy \in newer

\* A new decision of a topic closes the one that was active, and no other.
LEMMA NewTreatment ==
  ASSUME NEW I, NEW T, NEW ts \in Seq(Decision(I, T)), NewestOf(ts), NEW i \in I, NEW topic \in T,
         NEW us, us = WithTreatment(ts, i, topic)
  PROVE  /\ us \in Seq(Decision(I, T)) /\ Len(us) = Len(ts) + 1 /\ NewestOf(us)
         /\ \A k \in DOMAIN ts : us[k].item = ts[k].item
         /\ us[Len(ts) + 1].item = i
<1> DEFINE L == Len(ts)
           new == [item |-> i, topic |-> topic, active |-> TRUE, supersededBy |-> 0]
           Closed(k) == ts[k].topic = topic /\ ts[k].active
           old == [k \in DOMAIN ts |-> IF Closed(k) THEN [ts[k] EXCEPT !.active = FALSE, !.supersededBy = L + 1]
                                       ELSE ts[k]]
<1>1. L \in Nat /\ DOMAIN ts = 1..L /\ \A k \in 1..L : ts[k] \in Decision(I, T)
  BY SeqFacts
<1>2. ASSUME NEW k \in 1..L
      PROVE  /\ old[k] \in Decision(I, T) /\ old[k].item = ts[k].item /\ old[k].topic = ts[k].topic
             /\ Closed(k) => old[k].active = FALSE /\ old[k].supersededBy = L + 1
             /\ ~Closed(k) => old[k] = ts[k]
  <2>1. CASE Closed(k)
    <3>1. old[k] = [ts[k] EXCEPT !.active = FALSE, !.supersededBy = L + 1]
      BY <1>1, <2>1
    <3>2. ts[k] \in Decision(I, T) /\ L + 1 \in Nat
      BY <1>1
    <3> HIDE DEF old, L
    <3>3. /\ old[k] \in Decision(I, T) /\ old[k].item = ts[k].item /\ old[k].topic = ts[k].topic
          /\ old[k].active = FALSE /\ old[k].supersededBy = L + 1
      BY <3>1, <3>2 DEF Decision
    <3>4. QED
      BY <2>1, <3>3
  <2>2. CASE ~Closed(k)
    BY <1>1, <2>2
  <2>3. QED
    BY <2>1, <2>2
<1>3. old \in Seq(Decision(I, T)) /\ Len(old) = L
  <2>1. old \in [1..L -> Decision(I, T)]
    BY <1>1, <1>2
  <2>2. QED
    BY <1>1, <2>1, FcnIsSeq
<1>4. new \in Decision(I, T) /\ new.item = i /\ new.topic = topic /\ new.active = TRUE
  BY DEF Decision
<1>5. us = Append(old, new)
  BY DEF WithTreatment
<1> HIDE DEF old, new
<1>6. /\ us \in Seq(Decision(I, T)) /\ Len(us) = L + 1 /\ DOMAIN us = 1..(L + 1)
      /\ \A k \in 1..L : us[k] = old[k]
      /\ us[L + 1] = new
  <2>1. DOMAIN old = 1..L
    BY <1>3, SeqFacts
  <2>2. us \in Seq(Decision(I, T)) /\ Len(us) = L + 1 /\ us[L + 1] = new /\ \A k \in 1..L : us[k] = old[k]
    BY <1>3, <1>4, <1>5, <2>1, AppendFacts
  <2>3. QED
    BY <2>2, SeqFacts
<1>7. ASSUME NEW k \in 1..L
      PROVE  LET newer == { l \in 1..(L + 1) : l > k /\ us[l].topic = us[k].topic }
             IN IF newer = {} THEN us[k].active ELSE ~us[k].active /\ us[k].supersededBy \in newer
  <2> DEFINE newer == { l \in 1..(L + 1) : l > k /\ us[l].topic = us[k].topic }
             before == { l \in 1..L : l > k /\ ts[l].topic = ts[k].topic }
  <2>1. \A l \in 1..L : us[l].topic = ts[l].topic
    BY <1>2, <1>6
  <2>2. us[L + 1].topic = topic /\ L + 1 \in 1..(L + 1) /\ L + 1 > k
    BY <1>1, <1>4, <1>6
  <2>3. before \subseteq newer
    BY <1>1, <2>1
  <2>4. newer \subseteq before \cup {L + 1}
    BY <1>1, <2>1
  <2>5. IF before = {} THEN ts[k].active ELSE ~ts[k].active /\ ts[k].supersededBy \in before
    BY <1>1 DEF NewestOf
  <2>6. CASE Closed(k)
    <3>1. L + 1 \in newer
      BY <2>1, <2>2, <2>6
    <3>2. us[k].active = FALSE /\ us[k].supersededBy = L + 1
      BY <1>2, <1>6, <2>6
    <3>3. QED
      BY <3>1, <3>2
  <2>7. CASE ~Closed(k)
    <3>1. us[k] = ts[k]
      BY <1>2, <1>6, <2>7
    <3>2. CASE ts[k].active
      <4>1. before = {} /\ ts[k].topic # topic
        BY <2>5, <2>7, <3>2
      <4>2. L + 1 \notin newer
        BY <2>1, <2>2, <4>1
      <4>3. newer = {}
        BY <2>4, <4>1, <4>2
      <4>4. QED
        BY <3>1, <3>2, <4>3
    <3>3. CASE ~ts[k].active
      <4>1. before # {} /\ ts[k].supersededBy \in before
        BY <2>5, <3>3
      <4>2. QED
        BY <2>3, <3>1, <3>3, <4>1
    <3>4. QED
      BY <3>2, <3>3
  <2>8. QED
    BY <2>6, <2>7
<1>8. LET newer == { l \in 1..(L + 1) : l > L + 1 /\ us[l].topic = us[L + 1].topic }
      IN newer = {} /\ us[L + 1].active
  BY <1>1, <1>4, <1>6
<1>9. ASSUME NEW k \in 1..(L + 1)
      PROVE  LET newer == { l \in 1..(L + 1) : l > k /\ us[l].topic = us[k].topic }
             IN IF newer = {} THEN us[k].active ELSE ~us[k].active /\ us[k].supersededBy \in newer
  <2>1. CASE k \in 1..L
    BY <1>7, <2>1
  <2>2. CASE k = L + 1
    BY <1>8, <2>2
  <2>3. QED
    BY <1>1, <2>1, <2>2
<1>10. NewestOf(us)
  BY <1>6, <1>9 DEF NewestOf
<1>11. QED
  BY <1>1, <1>2, <1>4, <1>6, <1>10

LEMMA ApprovingItem ==
  ASSUME NEW desk \in Desks, DeskInv(desk), NEW r \in Reviewer, ApproveItem(r)
  PROVE  DeskInv(desk)'
<1> DEFINE h == job[r]
           copy == h.copy
           pack == IF DOMAIN h.resolved.values = {} THEN Missing
                   ELSE [family |-> Missing, proposals |-> h.resolved.values]
           links == [copy.links EXCEPT !.changes = h.ids]
           event == [item |-> h.item, event |-> "approve", approval |-> NoFingerprint]
<1>1. /\ h.op = "approve" /\ h.at = "decide" /\ Finish(r)
      /\ treatments' = IF copy.topic = Missing THEN treatments ELSE WithTreatment(treatments, h.item, copy.topic)
      /\ items' = [items EXCEPT ![h.item].status = "approved", ![h.item].approved = pack,
                                ![h.item].links = links]
      /\ events' = events \cup {event}
      /\ UNCHANGED <<tableVars, previewed, requestVars, market>>
  BY DEF ApproveItem, At
<1>2. h # Idle /\ RowsOK(h, World) /\ ItemJob(h, desk, World) /\ h.item \in DOMAIN items
  BY <1>1, ItemAtWork
<1>3. PICK i \in DOMAIN items : i = h.item
  BY <1>2
<1>4. CopyOK(copy, i, desk, World) /\ ~IsFamily(copy.pack) /\ i \in DOMAIN desk.items
  BY <1>1, <1>2, <1>3 DEF ItemJob
<1>5. h.ids \subseteq World.settled
  BY <1>1, <1>2 DEF RowsOK
<1>6. /\ DOMAIN links = LinkFields /\ links.fingerprint = copy.links.fingerprint
      /\ links.changes = h.ids /\ links.supersededBy = copy.links.supersededBy
  BY <1>4 DEF CopyOK, LinksOK, LinkFields
<1>7. LinksOK(links, i, desk, World)
  BY <1>4, <1>5, <1>6 DEF CopyOK, LinksOK
<1>8. CopyOK(items[i], i, desk, World) /\ DOMAIN items[i] = ItemFields /\ RowDecided(i)
  BY RowOf
<1> HIDE DEF links, pack
<1>9. DOMAIN items' = DOMAIN items /\ \A j \in DOMAIN items \ {i} : items'[j] = items[j]
  BY <1>1, <1>3
<1>10. /\ DOMAIN items'[i] = ItemFields /\ items'[i].status = "approved" /\ items'[i].links = links
       /\ items'[i].type = items[i].type /\ items'[i].pack = items[i].pack /\ items'[i].topic = items[i].topic
       /\ items'[i].edited = items[i].edited
  BY <1>1, <1>3, <1>8 DEF ItemFields
<1>11. ~IsFamily(items[i].pack) /\ items[i].topic = copy.topic
  BY <1>4, <1>8 DEF CopyOK
<1>12. World'.settled = World.settled /\ World'.shown = World.shown
  BY <1>1 DEF World, Settled, tableVars
<1>13. CopyOK(items'[i], i, desk, World')
  BY <1>7, <1>8, <1>10, <1>11, <1>12 DEF CopyOK, LinksOK, ItemStatus
<1> DEFINE I == DOMAIN desk.items
           T == { desk.items[j].topic : j \in DOMAIN desk.items }
<1>14. /\ \A e \in events' : e.item \in I
       /\ treatments' \in Seq(Decision(I, T)) /\ NewestOf(treatments') /\ TreatedStay
       /\ copy.topic # Missing => \E k \in DOMAIN treatments' : treatments'[k].item = i
  <2>1. /\ \A e \in events : e.item \in I
        /\ treatments \in Seq(Decision(I, T)) /\ NewestOf(treatments)
    BY DEF DeskInv, RecordsInv, Decision, NewestOf, NewestTreatmentIsActive
  <2>2. i \in I /\ copy.topic \in T
    BY <1>4 DEF CopyOK
  <2> HIDE DEF T, I
  <2>3. CASE copy.topic = Missing
    BY <1>1, <1>3, <2>1, <2>2, <2>3 DEF TreatedStay
  <2>4. CASE copy.topic # Missing
    <3>1. treatments' = WithTreatment(treatments, i, copy.topic)
      BY <1>1, <1>3, <2>4
    <3>2. /\ treatments' \in Seq(Decision(I, T)) /\ Len(treatments') = Len(treatments) + 1
          /\ NewestOf(treatments')
          /\ \A k \in DOMAIN treatments : treatments'[k].item = treatments[k].item
          /\ treatments'[Len(treatments) + 1].item = i
      BY <2>1, <2>2, <3>1, NewTreatment
    <3>3. Len(treatments) \in Nat /\ DOMAIN treatments = 1..Len(treatments)
      BY <2>1, SeqFacts
    <3>4. DOMAIN treatments' = 1..(Len(treatments) + 1)
      BY <3>2, SeqFacts
    <3>5. TreatedStay
      BY <3>2, <3>3, <3>4 DEF TreatedStay
    <3>6. Len(treatments) + 1 \in DOMAIN treatments'
      BY <3>3, <3>4
    <3>7. \A e \in events' : e.item \in I
      BY <1>1, <1>3, <2>1, <2>2
    <3>8. QED
      BY <3>2, <3>5, <3>6, <3>7
  <2>5. QED
    BY <2>3, <2>4
<1>15. RecordsInv(desk)'
  <2>1. NewestTreatmentIsActive'
    BY <1>14 DEF NewestOf, NewestTreatmentIsActive
  <2>2. QED
    BY <1>14, <2>1 DEF RecordsInv, Decision
<1>16. RowDecided(i)'
  <2>1. \E e \in events' : e.item = i /\ e.event = "approve"
    <3>1. event.item = i /\ event.event = "approve"
      BY <1>3
    <3>2. event \in events'
      BY <1>1
    <3> HIDE DEF event
    <3>3. QED
      BY <3>1, <3>2
  <2>2. items'[i].topic # Missing => \E k \in DOMAIN treatments' : treatments'[k].item = i
    BY <1>10, <1>11, <1>14
  <2>3. ~IsFamily(items'[i].pack) /\ items'[i].status = "approved"
    BY <1>10, <1>11
  <2>4. QED
    BY <2>1, <2>2, <2>3 DEF RowDecided
<1>17. /\ DOMAIN job' = Reviewer /\ \A s \in Reviewer \ {r} : job'[s] = job[s]
       /\ JobOK(job'[r], desk, World')
  BY <1>1, Finished DEF DeskInv
<1>18. events \subseteq events'
  BY <1>1
<1>19. QED
  BY <1>1, <1>9, <1>11, <1>13, <1>14, <1>15, <1>16, <1>17, <1>18, OneItem

LEMMA ApprovingFamily ==
  ASSUME NEW desk \in Desks, DeskInv(desk), NEW r \in Reviewer, ApproveFamily(r)
  PROVE  DeskInv(desk)'
<1> DEFINE h == job[r]
           prior == h.prior
           pack == ActivePack(h.copy)
           approval == FamilyFingerprint(pack)
           links == [h.copy.links EXCEPT !.approval = approval]
           Closing(j) == [prior[j] EXCEPT !.supersededBy = h.item]
           event == [item |-> h.item, event |-> "approve", approval |-> approval]
           closed == { [item |-> j, event |-> "supersede", approval |-> NoFingerprint] : j \in DOMAIN prior }
<1>1. /\ h.op = "approve" /\ h.at = "supersede" /\ Finish(r)
      /\ items' = [j \in DOMAIN items |->
           CASE j = h.item -> [items[j] EXCEPT !.status = "approved", !.approved = pack, !.links = links]
             [] j \in DOMAIN prior -> [items[j] EXCEPT !.status = "superseded", !.links = Closing(j)]
             [] OTHER -> items[j]]
      /\ events' = events \cup {event} \cup closed
      /\ UNCHANGED <<tableVars, treatments, previewed, requestVars, market>>
  BY DEF ApproveFamily, ReviewedPack, At
<1>2. h # Idle /\ RowsOK(h, World) /\ ItemJob(h, desk, World) /\ h.item \in DOMAIN items
  BY <1>1, ItemAtWork
<1>3. PICK i \in DOMAIN items : i = h.item
  BY <1>2
<1>4. /\ CopyOK(h.copy, i, desk, World) /\ IsFamily(pack) /\ PriorOK(h, desk, World)
      /\ i \in DOMAIN desk.items /\ DOMAIN items = DOMAIN desk.items
  BY <1>1, <1>2, <1>3 DEF ItemJob, DeskInv, ItemsInv
<1>5. /\ DOMAIN prior \subseteq DOMAIN items \ {i}
      /\ \A j \in DOMAIN prior : LinksOK(prior[j], j, desk, World)
      /\ \A j \in DOMAIN prior : IsFamily(desk.items[j].pack) =>
           j \in Closable /\ desk.items[j].pack.family = pack.family
  BY <1>3, <1>4 DEF PriorOK, World
<1>6. /\ DOMAIN links = LinkFields /\ links.fingerprint = h.copy.links.fingerprint
      /\ links.changes = h.copy.links.changes /\ links.supersededBy = h.copy.links.supersededBy
      /\ links.approval = approval
  BY <1>4 DEF CopyOK, LinksOK, LinkFields
<1>7. LinksOK(links, i, desk, World)
  BY <1>4, <1>6 DEF CopyOK, LinksOK
<1>8. ASSUME NEW j \in DOMAIN prior
      PROVE  LinksOK(Closing(j), j, desk, World) /\ Closing(j).supersededBy = i
  <2>1. LinksOK(prior[j], j, desk, World)
    BY <1>5
  <2>2. /\ DOMAIN Closing(j) = LinkFields /\ Closing(j).fingerprint = prior[j].fingerprint
        /\ Closing(j).changes = prior[j].changes /\ Closing(j).supersededBy = i
    BY <1>3, <2>1 DEF LinksOK, LinkFields
  <2> HIDE DEF Closing, prior
  <2>3. QED
    BY <1>4, <2>1, <2>2 DEF LinksOK
<1>9. pack \in {items[i].pack} \cup Edits
  <2>1. h.copy.pack = items[i].pack
    BY <1>4, RowOf DEF CopyOK
  <2>2. QED
    BY <1>4, <2>1 DEF ActivePack, CopyOK
<1>10. IsFamily(items[i].pack) => pack.family = items[i].pack.family
  <2>1. h.copy.pack = items[i].pack
    BY <1>4, RowOf DEF CopyOK
  <2> HIDE DEF h
  <2>2. IsFamily(h.copy.pack) => pack.family = h.copy.pack.family
    BY <1>4, FamilyStays
  <2>3. QED
    BY <2>1, <2>2
<1> HIDE DEF links, Closing, approval, pack
<1>11. \A j \in DOMAIN items : CopyOK(items[j], j, desk, World) /\ DOMAIN items[j] = ItemFields /\ RowDecided(j)
  BY RowOf
<1>12. DOMAIN items' = DOMAIN items
  BY <1>1
<1>13. /\ DOMAIN items'[i] = ItemFields /\ items'[i].status = "approved" /\ items'[i].links = links
       /\ items'[i].type = items[i].type /\ items'[i].pack = items[i].pack /\ items'[i].topic = items[i].topic
       /\ items'[i].edited = items[i].edited /\ items'[i].approved = pack
  <2>1. items'[i] = [items[i] EXCEPT !.status = "approved", !.approved = pack, !.links = links]
    BY <1>1, <1>3, <1>5
  <2>2. QED
    BY <1>11, <2>1 DEF ItemFields
<1>14. ASSUME NEW j \in DOMAIN prior
       PROVE  /\ j \in DOMAIN items /\ j # i
              /\ DOMAIN items'[j] = ItemFields /\ items'[j].status = "superseded" /\ items'[j].links = Closing(j)
              /\ items'[j].type = items[j].type /\ items'[j].pack = items[j].pack /\ items'[j].topic = items[j].topic
              /\ items'[j].edited = items[j].edited /\ items'[j].approved = items[j].approved
  <2>1. j \in DOMAIN items /\ j # i
    BY <1>5
  <2>2. items'[j] = [items[j] EXCEPT !.status = "superseded", !.links = Closing(j)]
    BY <1>1, <1>3, <2>1
  <2>3. QED
    BY <1>11, <2>1, <2>2 DEF ItemFields
<1>15. \A j \in DOMAIN items : j # i /\ j \notin DOMAIN prior => items'[j] = items[j]
  BY <1>1, <1>3
<1>16. \A j \in DOMAIN items : items'[j].pack = items[j].pack
  BY <1>13, <1>14, <1>15
<1>17. pack # Missing
  BY <1>4 DEF IsFamily
<1>18. Closable \subseteq Closable'
  BY <1>12, <1>13, <1>14, <1>15, <1>17 DEF Closable
<1>19. Later(World, World')
  BY <1>1, <1>18 DEF World, Later, Settled, Granted, EnteredChanges, tableVars, requestVars
<1>20. events \subseteq events' /\ event \in events' /\ TreatedStay
  BY <1>1 DEF TreatedStay
<1>21. event = [item |-> i, event |-> "approve", approval |-> FamilyFingerprint(pack)]
  BY <1>3 DEF approval
<1>22. CopyOK(items'[i], i, desk, World') /\ RowDecided(i)'
  <2>1. LinksOK(links, i, desk, World')
    BY <1>7, <1>19, LinksGrow
  <2>2. CopyOK(items'[i], i, desk, World')
    BY <1>4, <1>10, <1>11, <1>13, <2>1 DEF CopyOK, ItemStatus
  <2>3. \E e \in events' : e.item = i /\ e.event = "approve"
    BY <1>20, <1>21
  <2>4. items'[i].links.approval = FamilyFingerprint(items'[i].approved)
    BY <1>6, <1>13 DEF approval
  <2>5. [item |-> i, event |-> "approve", approval |-> items'[i].links.approval] \in events'
    BY <1>13, <1>20, <1>21, <2>4
  <2>6. RowDecided(i)'
    BY <1>4, <1>13, <1>17, <2>3, <2>4, <2>5 DEF RowDecided
  <2>7. QED
    BY <2>2, <2>6
<1>23. ASSUME NEW j \in DOMAIN prior PROVE CopyOK(items'[j], j, desk, World') /\ RowDecided(j)'
  <2>1. LinksOK(Closing(j), j, desk, World')
    BY <1>8, <1>19, LinksGrow
  <2>2. CopyOK(items[j], j, desk, World')
    BY <1>11, <1>14, <1>19, CopyGrows
  <2>3. CopyOK(items'[j], j, desk, World')
    BY <1>14, <2>1, <2>2 DEF CopyOK, ItemStatus
  <2>4. ASSUME IsFamily(items[j].pack)
        PROVE  /\ items'[j].approved # Missing
               /\ items'[j].links.supersededBy = i
               /\ pack.family = items'[j].approved.family
    <3>1. items[j].pack = desk.items[j].pack
      BY <2>2 DEF CopyOK
    <3>2. items[j].approved # Missing /\ items[j].pack.family = pack.family
      BY <1>5, <2>4, <3>1 DEF Closable
    <3>3. items[j].approved.family = items[j].pack.family
      BY <2>2, <2>4, <3>2 DEF CopyOK
    <3>4. QED
      BY <1>8, <1>14, <3>2, <3>3
  <2>5. i \in DOMAIN items' \ {j} /\ pack \in {items'[i].pack} \cup Edits
    BY <1>9, <1>12, <1>13, <1>14
  <2>6. [item |-> i, event |-> "approve", approval |-> FamilyFingerprint(pack)] \in events'
    BY <1>20, <1>21
  <2>7. RowDecided(j)'
    BY <1>4, <1>14, <2>4, <2>5, <2>6 DEF RowDecided
  <2>8. QED
    BY <2>3, <2>7
<1>24. ASSUME NEW j \in DOMAIN items, j # i, j \notin DOMAIN prior
       PROVE  CopyOK(items'[j], j, desk, World') /\ RowDecided(j)'
  <2>1. items'[j] = items[j] /\ CopyOK(items[j], j, desk, World) /\ RowDecided(j)
    BY <1>11, <1>15, <1>24
  <2>2. CopyOK(items'[j], j, desk, World')
    BY <1>19, <2>1, CopyGrows
  <2>3. RowDecided(j)'
    BY <1>12, <1>16, <1>20, <2>1, RowStays
  <2>4. QED
    BY <2>2, <2>3
<1>25. RecordsInv(desk)'
  <2>1. ASSUME NEW e \in events' PROVE e.item \in DOMAIN desk.items
    <3>1. event.item \in DOMAIN desk.items
      BY <1>3, <1>4
    <3>2. \A c \in closed : c.item \in DOMAIN desk.items
      BY <1>4, <1>5
    <3>3. \A c \in events : c.item \in DOMAIN desk.items
      BY DEF DeskInv, RecordsInv
    <3>4. e \in events \/ e = event \/ e \in closed
      BY <1>1
    <3>5. QED
      BY <3>1, <3>2, <3>3, <3>4
  <2>2. treatments' = treatments
    BY <1>1
  <2>3. NewestTreatmentIsActive'
    BY <2>2 DEF DeskInv, RecordsInv, NewestTreatmentIsActive
  <2>4. QED
    BY <2>1, <2>2, <2>3 DEF DeskInv, RecordsInv
<1>26. /\ DOMAIN job' = Reviewer /\ \A s \in Reviewer \ {r} : job'[s] = job[s]
       /\ JobOK(job'[r], desk, World')
  BY <1>1, Finished DEF DeskInv
<1>27. \A j \in DOMAIN items : CopyOK(items'[j], j, desk, World') /\ RowDecided(j)'
  BY <1>22, <1>23, <1>24
<1>28. QED
  BY <1>1, <1>12, <1>18, <1>20, <1>25, <1>26, <1>27, QueueOnly

-----------------------------------------------------------------------------
(* Requests to change the model. *)

Ruling(q) == [request : q, ruling : {"accepted", "implemented", "rejected"}]

\* A request that is decided keeps its decisions, and one that is pending has none.
DecidedOnce(q) ==
  LET of == { k \in DOMAIN rulings : rulings[k].request = q }
  IN IF requests[q].status = "pending" THEN of = {}
     ELSE \E k \in of : of = {k} /\ rulings[k].ruling = requests[q].status

LEMMA RequestsOnly ==
  ASSUME NEW desk, DeskInv(desk), UNCHANGED <<tableVars, queueVars, market>>,
         DOMAIN requests \subseteq DOMAIN requests', RequestsInv'
  PROVE  /\ Later(World, World')
         /\ JobsInv(desk)' => DeskInv(desk)'
<1>1. Later(World, World')
  BY DEF Later, World, Settled, Granted, EnteredChanges, Closable, tableVars, queueVars
<1>2. ItemsInv(desk)' /\ TablesInv(desk)' /\ RecordsInv(desk)' /\ DecidedInv'
  BY <1>1, KeepItems, KeepTables, KeepRecords, KeepDecided DEF DeskInv, queueVars
<1>3. QED
  BY <1>1, <1>2 DEF DeskInv

LEMMA DecidingOnce ==
  ASSUME RequestsInv, NEW q \in DOMAIN requests, requests[q].status = "pending",
         NEW ruling \in {"accepted", "implemented", "rejected"},
         requests' = [requests EXCEPT ![q].status = ruling],
         rulings' = Append(rulings, [request |-> q, ruling |-> ruling])
  PROVE  RequestsInv' /\ DOMAIN requests' = DOMAIN requests
<1> DEFINE n == Len(rulings)
           new == [request |-> q, ruling |-> ruling]
<1>1. /\ requests \in Seq(ToSet(requests)) /\ rulings \in Seq(Ruling(DOMAIN requests))
      /\ \A p \in DOMAIN requests :
           /\ DOMAIN requests[p] = {"snapshot", "status"}
           /\ requests[p].status \in {"pending", "accepted", "implemented", "rejected"}
      /\ \A p \in DOMAIN requests : DecidedOnce(p)
  BY DEF RequestsInv, RequestsAreDecidedOnce, Ruling, DecidedOnce
<1>2. /\ DOMAIN requests' = DOMAIN requests
      /\ \A p \in DOMAIN requests \ {q} : requests'[p] = requests[p]
      /\ DOMAIN requests'[q] = {"snapshot", "status"} /\ requests'[q].status = ruling
  BY <1>1
<1>3. requests' \in Seq(ToSet(requests'))
  <2>1. Len(requests) \in Nat /\ DOMAIN requests = 1..Len(requests)
    BY <1>1, SeqFacts
  <2>2. requests' \in [1..Len(requests) -> ToSet(requests')]
    <3>1. DOMAIN requests' = 1..Len(requests)
      BY <1>2, <2>1
    <3>2. \A p \in DOMAIN requests' : requests'[p] \in ToSet(requests')
      BY DEF ToSet
    <3>3. requests' = [p \in DOMAIN requests' |-> requests'[p]]
      OBVIOUS
    <3>4. QED
      BY <3>1, <3>2, <3>3
  <2>3. QED
    BY <2>1, <2>2, FcnIsSeq
<1>4. new \in Ruling(DOMAIN requests)
  BY DEF Ruling
<1>5. /\ n \in Nat /\ DOMAIN rulings = 1..n
      /\ rulings' \in Seq(Ruling(DOMAIN requests)) /\ DOMAIN rulings' = DOMAIN rulings \cup {n + 1}
      /\ \A k \in DOMAIN rulings : rulings'[k] = rulings[k]
      /\ rulings'[n + 1] = new
  <2>1. n \in Nat /\ DOMAIN rulings = 1..n
    BY <1>1, SeqFacts
  <2>2. QED
    BY <1>1, <1>4, <2>1, AppendFacts
<1>6. n + 1 \notin DOMAIN rulings
  BY <1>5
<1>7. DecidedOnce(q)'
  <2>1. { k \in DOMAIN rulings : rulings[k].request = q } = {}
    BY <1>1 DEF DecidedOnce
  <2>2. { k \in DOMAIN rulings' : rulings'[k].request = q } = {n + 1}
    BY <1>5, <2>1
  <2>3. rulings'[n + 1].ruling = requests'[q].status /\ requests'[q].status # "pending"
    BY <1>2, <1>5
  <2>4. QED
    BY <2>2, <2>3 DEF DecidedOnce
<1>8. ASSUME NEW p \in DOMAIN requests \ {q} PROVE DecidedOnce(p)'
  <2>1. { k \in DOMAIN rulings' : rulings'[k].request = p } = { k \in DOMAIN rulings : rulings[k].request = p }
    BY <1>5
  <2>2. DecidedOnce(p) /\ requests'[p] = requests[p]
    BY <1>1, <1>2
  <2>3. QED
    BY <1>5, <2>1, <2>2 DEF DecidedOnce
<1>9. RequestsAreDecidedOnce'
  BY <1>2, <1>7, <1>8 DEF RequestsAreDecidedOnce, DecidedOnce
<1>10. \A p \in DOMAIN requests' :
         /\ DOMAIN requests'[p] = {"snapshot", "status"}
         /\ requests'[p].status \in {"pending", "accepted", "implemented", "rejected"}
  BY <1>1, <1>2
<1>11. QED
  BY <1>2, <1>3, <1>5, <1>9, <1>10 DEF RequestsInv, Ruling

LEMMA Deciding ==
  ASSUME NEW desk \in Desks, DeskInv(desk), NEW r \in Reviewer, Rule(r)
  PROVE  DeskInv(desk)'
<1>1. /\ job[r].op \in {"accepted", "implemented", "rejected"} /\ Finish(r)
      /\ requests[job[r].item].status = "pending"
      /\ requests' = [requests EXCEPT ![job[r].item].status = job[r].op]
      /\ rulings' = Append(rulings, [request |-> job[r].item, ruling |-> job[r].op])
      /\ UNCHANGED <<tableVars, queueVars, market>>
  BY DEF Rule, StillPending
<1>2. job[r].item \in DOMAIN requests
  BY <1>1, AtWork DEF DeskInv, ItemJob, BatchJob, RulingJob, World
<1>3. RequestsInv' /\ DOMAIN requests' = DOMAIN requests
  BY <1>1, <1>2, DecidingOnce DEF DeskInv
<1>4. Later(World, World')
  BY <1>1, <1>3, RequestsOnly
<1>5. JobsInv(desk)'
  BY <1>1, <1>4, Finished, OneJob DEF DeskInv
<1>6. QED
  BY <1>1, <1>3, <1>5, RequestsOnly

-----------------------------------------------------------------------------
(* The invariant holds in the beginning, and every step keeps it. *)

LEMMA EmptyTables ==
  ASSUME NEW desk \in Desks, InitFrom(desk)
  PROVE  /\ changes \in Seq({ c \in Change : c.status \in {"pending", "rejected", "deferred"} /\ c.item = 0 })
         /\ TablesInv(desk)
<1>1. TablesStart(desk) /\ changes = desk.changes /\ entries = <<>> /\ audits = {}
  BY DeskAssumption DEF InitFrom
<1> DEFINE Fresh == { c \in Change : c.status \in {"pending", "rejected", "deferred"} /\ c.item = 0 }
<1>2. changes \in Seq(Fresh) /\ Len(changes) <= MaxChanges
  BY <1>1 DEF TablesStart
<1>3. \A c \in DOMAIN changes : changes[c] \in Fresh
  BY <1>2, SeqFacts
<1>4. changes \in Seq(Change)
  <2>1. Fresh \subseteq Change
    OBVIOUS
  <2>2. changes \in [1..Len(changes) -> Change] /\ Len(changes) \in Nat
    BY <1>2, <1>3, <2>1, SeqFacts
  <2>3. QED
    BY <2>2, FcnIsSeq
<1>5. entries \in Seq(Entry) /\ Len(entries) = 0 /\ DOMAIN entries = {}
  BY <1>1
<1>6. NewestEntryIsActive
  BY <1>5 DEF NewestEntryIsActive
<1>7. \A c \in DOMAIN changes : changes[c].item = 0
  BY <1>3
<1>8. Len(entries) <= MaxEntries
  BY <1>5, BoundAssumption
<1>9. QED
  BY <1>1, <1>2, <1>4, <1>5, <1>6, <1>7, <1>8 DEF TablesInv

LEMMA OpenItems ==
  ASSUME NEW desk \in Desks, InitFrom(desk)
  PROVE  ItemsInv(desk) /\ DecidedInv
<1>1. QueueStarts(desk) /\ items = desk.items /\ events = desk.events
  BY DeskAssumption DEF InitFrom
<1>2. ASSUME NEW i \in DOMAIN items
      PROVE  /\ DOMAIN items[i] = ItemFields /\ DOMAIN items[i].links = LinkFields
             /\ items[i].edited = Missing
             /\ items[i].links.changes = {} /\ items[i].links.supersededBy = 0
             /\ items[i].links.fingerprint.of # "preview"
             /\ StartsOpen(items[i]) \/ StartsApproved(i, items[i], events)
  <2>1. /\ DOMAIN items[i] = DOMAIN NewItem(items[i].type, items[i].pack, items[i].topic, items[i].corpus)
        /\ DOMAIN items[i].links = DOMAIN NoLinks
        /\ items[i].edited = Missing
        /\ items[i].links.changes = {} /\ items[i].links.supersededBy = 0
        /\ items[i].links.fingerprint.of # "preview"
        /\ StartsOpen(items[i]) \/ StartsApproved(i, items[i], events)
    BY <1>1 DEF QueueStarts
  <2>2. DOMAIN NoLinks = LinkFields
    BY DEF NoLinks, LinkFields
  <2>3. DOMAIN NewItem(items[i].type, items[i].pack, items[i].topic, items[i].corpus) = ItemFields
    BY DEF NewItem, ItemFields
  <2>4. QED
    BY <2>1, <2>2, <2>3
<1>3. ASSUME NEW i \in DOMAIN items PROVE CopyOK(items[i], i, desk, World) /\ RowDecided(i)
  <2>1. LinksOK(items[i].links, i, desk, World)
    BY <1>2 DEF LinksOK
  <2>2. items[i].status \in ItemStatus
    BY <1>2 DEF StartsOpen, StartsApproved, Open, ItemStatus
  <2>3. IsFamily(items[i].pack) /\ items[i].approved # Missing =>
          IsFamily(items[i].approved) /\ items[i].approved.family = items[i].pack.family
    BY <1>2 DEF StartsOpen, StartsApproved
  <2>4. CopyOK(items[i], i, desk, World)
    BY <1>1, <1>2, <2>1, <2>2, <2>3 DEF CopyOK
  <2>5. CASE StartsOpen(items[i])
    <3>1. items[i].status # "approved" /\ items[i].status # "superseded"
      BY <2>5 DEF StartsOpen, Open
    <3>2. QED
      BY <2>4, <3>1 DEF RowDecided
  <2>6. CASE StartsApproved(i, items[i], events)
    <3>1. /\ items[i].status = "approved" /\ IsFamily(items[i].pack) /\ items[i].approved = items[i].pack
          /\ items[i].links.approval = FamilyFingerprint(items[i].pack)
          /\ [item |-> i, event |-> "approve", approval |-> items[i].links.approval] \in events
      BY <2>6 DEF StartsApproved
    <3>2. \E e \in events : e.item = i /\ e.event = "approve"
      BY <3>1
    <3>3. items[i].approved # Missing
      BY <3>1 DEF IsFamily
    <3>4. QED
      BY <2>4, <3>1, <3>2, <3>3 DEF RowDecided
  <2>7. QED
    BY <1>2, <2>4, <2>5, <2>6
<1>4. \A i \in DOMAIN items :
        IsFamily(items[i].pack) /\ items[i].status \in {"approved", "superseded"} => items[i].approved # Missing
  BY <1>2 DEF StartsOpen, StartsApproved, Open, IsFamily
<1>5. QED
  BY <1>1, <1>3, <1>4, AllDecided DEF ItemsInv

LEMMA Beginning ==
  ASSUME NEW desk \in Desks, InitFrom(desk)
  PROVE  DeskInv(desk)
<1>1. ItemsInv(desk) /\ DecidedInv /\ TablesInv(desk)
  BY OpenItems, EmptyTables
<1>2. JobsInv(desk)
  BY DEF InitFrom, JobsInv, JobOK
<1>3. RecordsInv(desk)
  <2>1. \A e \in events : e.item \in DOMAIN desk.items
    BY DeskAssumption DEF InitFrom, QueueStarts
  <2>2. treatments = <<>>
    BY DEF InitFrom
  <2>3. NewestTreatmentIsActive
    BY <2>2 DEF NewestTreatmentIsActive
  <2>4. QED
    BY <2>1, <2>2, <2>3 DEF RecordsInv
<1>4. RequestsInv
  <2>1. TablesStart(desk) /\ requests = desk.requests /\ rulings = <<>>
    BY DeskAssumption DEF InitFrom
  <2>2. \A q \in DOMAIN requests : DOMAIN requests[q] = {"snapshot", "status"} /\ requests[q].status = "pending"
    BY <2>1 DEF TablesStart
  <2>3. RequestsAreDecidedOnce
    BY <2>1, <2>2 DEF RequestsAreDecidedOnce
  <2>4. QED
    BY <2>1, <2>2, <2>3 DEF RequestsInv, TablesStart
<1>5. QED
  BY <1>1, <1>2, <1>3, <1>4 DEF DeskInv, InitFrom

LEMMA HandlersStep ==
  ASSUME NEW desk \in Desks, DeskInv(desk), Next
  PROVE  DeskInv(desk)'
<1>1. ASSUME NEW r \in Reviewer, ItemStep(r) PROVE DeskInv(desk)'
  BY <1>1, Resolving, RecordingPreview, RecordingFamilyPreview, WritingDecision, LoggingEvent, CheckingPreview,
     CreatingChange, CreatingEnds, ApprovingItem, MarkingApplied, ReviewingFamily, ApprovingFamily
     DEF ItemStep
<1>2. ASSUME NEW r \in Reviewer, BatchStep(r) PROVE DeskInv(desk)'
  BY <1>2, SelectingRows, CommittingRows, CommittingBatch, Auditing DEF BatchStep
<1>3. QED
  BY <1>1, <1>2, Starting, Deciding, Abandoning, MarketMoving DEF Next

LEMMA DeskRests ==
  ASSUME NEW desk \in Desks, DeskInv(desk), UNCHANGED <<vars>>
  PROVE  DeskInv(desk)'
<1>1. UNCHANGED <<tableVars, queueVars, requestVars, market, job>>
  BY DEF vars
<1>2. World' = World
  BY <1>1 DEF World, Settled, Granted, EnteredChanges, Closable, tableVars, queueVars, requestVars
<1>3. JobsInv(desk)'
  BY <1>1, <1>2 DEF DeskInv, JobsInv
<1>4. ItemsInv(desk)' /\ TablesInv(desk)' /\ RecordsInv(desk)' /\ RequestsInv' /\ DecidedInv'
  BY <1>1, <1>2, Same, KeepItems, KeepTables, KeepRecords, KeepRequests, KeepDecided DEF DeskInv, queueVars
<1>5. QED
  BY <1>1, <1>3, <1>4 DEF DeskInv

-----------------------------------------------------------------------------
(* What the invariant says. *)

LEMMA InvariantTypes == IInv => TypeOK
<1> SUFFICES ASSUME NEW desk \in Desks, DeskInv(desk) PROVE TypeOK
  BY DEF IInv
<1>1. /\ changes \in Seq(Change) /\ Len(changes) <= MaxChanges
      /\ entries \in Seq(Entry) /\ Len(entries) <= MaxEntries /\ audits \subseteq Audit
  BY DEF DeskInv, TablesInv
<1>2. ASSUME NEW i \in DOMAIN items
      PROVE  /\ items[i].status \in ItemStatus /\ items[i].links.changes \subseteq DOMAIN changes
             /\ items[i].links.supersededBy \in {0} \cup DOMAIN items
  <2>1. CopyOK(items[i], i, desk, World) /\ DOMAIN items = DOMAIN desk.items
    BY DEF DeskInv, ItemsInv
  <2>2. World.settled \subseteq DOMAIN changes
    BY DEF World, Settled
  <2>3. QED
    BY <2>1, <2>2 DEF CopyOK, LinksOK
<1>3. \A e \in events : e.item \in DOMAIN items
  BY DEF DeskInv, RecordsInv, ItemsInv
<1>4. \A k \in DOMAIN treatments : treatments[k].item \in DOMAIN items
  <2> DEFINE D == [item : DOMAIN desk.items, topic : { desk.items[i].topic : i \in DOMAIN desk.items },
                   active : BOOLEAN, supersededBy : Nat]
  <2>1. treatments \in Seq(D)
    BY DEF DeskInv, RecordsInv
  <2>2. \A k \in DOMAIN treatments : treatments[k] \in D
    BY <2>1, SeqFacts
  <2>3. QED
    BY <2>2 DEF DeskInv, ItemsInv
<1>5. \A q \in DOMAIN requests : requests[q].status \in {"pending", "accepted", "implemented", "rejected"}
  BY DEF DeskInv, RequestsInv
<1>6. ASSUME NEW r \in Reviewer PROVE job[r] = Idle \/ job[r].ids \cup job[r].rows \subseteq DOMAIN changes
  <2>1. job[r] = Idle \/ RowsOK(job[r], World)
    BY DEF DeskInv, JobsInv, JobOK
  <2>2. QED
    BY <2>1 DEF RowsOK, World
<1>7. QED
  BY <1>1, <1>2, <1>3, <1>4, <1>5, <1>6 DEF TypeOK

LEMMA InvariantPreviews == IInv => AppliedValuesWerePreviewed
<1> SUFFICES ASSUME NEW desk \in Desks, DeskInv(desk), NEW k \in DOMAIN entries,
                    changes[entries[k].change].item # 0,
                    items[changes[entries[k].change].item].type = "pack"
             PROVE  [item |-> changes[entries[k].change].item, name |-> entries[k].name, value |-> entries[k].value]
                      \in previewed
  BY DEF IInv, AppliedValuesWerePreviewed
<1> DEFINE c == entries[k].change
<1>1. c \in DOMAIN changes /\ entries[k].name = changes[c].name /\ entries[k].value = changes[c].value
  BY DEF DeskInv, TablesInv
<1>2. changes[c].item \in DOMAIN items
  BY <1>1 DEF DeskInv, TablesInv, ItemsInv
<1>3. desk.items[changes[c].item].type = "pack"
  BY <1>2 DEF DeskInv, ItemsInv, CopyOK
<1>4. QED
  BY <1>1, <1>3 DEF DeskInv, TablesInv

LEMMA InvariantBacks == IInv => ApprovedItemsAreBacked
<1> SUFFICES ASSUME NEW desk \in Desks, DeskInv(desk) PROVE ApprovedItemsAreBacked
  BY DEF IInv
<1>1. ASSUME NEW i \in DOMAIN items PROVE Selected(items[i].links.changes, "pending") = {}
  <2>1. items[i].links.changes \subseteq Settled
    BY DEF DeskInv, ItemsInv, CopyOK, LinksOK, World
  <2>2. QED
    BY <2>1 DEF Selected, Settled
<1>2. BackedInv
  BY DEF DeskInv, DecidedInv
<1>3. QED
  BY <1>1, <1>2 DEF BackedInv, ApprovedItemsAreBacked

LEMMA InvariantAudits == IInv => AuditsAreReal
<1> SUFFICES ASSUME NEW desk \in Desks, DeskInv(desk), NEW a \in audits
             PROVE  /\ a.event = "approved" => changes[a.change].status \in {"approved", "applied"}
                    /\ a.event = "applied" => \E k \in DOMAIN entries : entries[k].change = a.change
  BY DEF IInv, AuditsAreReal
<1>1. /\ a.event = "approved" => a.change \in Granted
      /\ a.event = "applied" => a.change \in EnteredChanges
  BY DEF DeskInv, TablesInv
<1>2. QED
  BY <1>1 DEF Granted, EnteredChanges

LEMMA InvariantSays ==
  IInv => /\ NewestEntryIsActive /\ NewestTreatmentIsActive
          /\ ApprovedFamiliesValidate /\ SupersededHaveSuccessors /\ RequestsAreDecidedOnce
BY DEF IInv, DeskInv, TablesInv, RecordsInv, DecidedInv, RequestsInv
\* The desk on its own, without valuation runs beside it.
THEOREM DeskInvariance == Spec => []IInv
<1>1. Init => IInv
  BY Beginning DEF Init, IInv
<1>2. IInv /\ [Next]_vars => IInv'
  BY HandlersStep, DeskRests DEF IInv
<1>3. QED
  BY <1>1, <1>2, PTL DEF Spec

-----------------------------------------------------------------------------
(* The desk implements the register. *)

Overrides == [a \in Assumption |-> Override(a)]

Approvals == { [name |-> changes[i].name, value |-> changes[i].value] : i \in Granted }

NamesStay ==
  \A c \in DOMAIN changes :
    /\ c \in DOMAIN changes'
    /\ changes'[c].name = changes[c].name /\ changes'[c].value = changes[c].value

LEMMA RegisterApproves ==
  ASSUME changes' \in Seq(Change), entries' = entries, NamesStay, Granted \subseteq Granted'
  PROVE  Register!Approve
<1>1. Overrides' = Overrides
  BY DEF Overrides, Override
<1>2. Approvals \subseteq Approvals'
  <2>1. ASSUME NEW i \in Granted
        PROVE  [name |-> changes[i].name, value |-> changes[i].value] \in Approvals'
    <3>1. i \in DOMAIN changes /\ i \in Granted'
      BY DEF Granted
    <3>2. changes'[i].name = changes[i].name /\ changes'[i].value = changes[i].value
      BY <3>1 DEF NamesStay
    <3>3. QED
      BY <3>1, <3>2 DEF Approvals
  <2>2. QED
    BY <2>1 DEF Approvals
<1>3. Approvals' \subseteq Register!Proposal
  <2>1. ASSUME NEW i \in Granted'
        PROVE  [name |-> changes'[i].name, value |-> changes'[i].value] \in Register!Proposal
    <3>1. i \in DOMAIN changes'
      BY DEF Granted
    <3>2. changes'[i] \in Change
      BY <3>1, SeqFacts
    <3>3. QED
      BY <3>2 DEF Change, Register!Proposal
  <2>2. QED
    BY <2>1 DEF Approvals
<1>4. QED
  BY <1>1, <1>2, <1>3 DEF Register!Approve, Overrides, Approvals, Granted

\* Only four actions write the changes or the entries.
LEMMA TablesMove ==
  ASSUME Next
  PROVE  \/ UNCHANGED <<changes, entries>>
         \/ \E r \in Reviewer : CreateChange(r) \/ CommitRows(r) \/ CommitBatch(r)
<1>1. ASSUME NEW r \in Reviewer, Start(r) PROVE UNCHANGED <<changes, entries>>
  BY <1>1 DEF Start, StartPreview, StartApprove, StartDecision, StartEdit, StartApply, StartBatch, StartRuling,
              Call, tableVars
<1>2. ASSUME NEW r \in Reviewer, ItemStep(r), ~CreateChange(r) PROVE UNCHANGED <<changes, entries>>
  BY <1>2 DEF ItemStep, Resolve, RecordPreview, RecordFamilyPreview, WriteDecision, LogEvent, CheckPreview,
              CreatedAll, ApproveItem, MarkApplied, ReviewFamily, ApproveFamily, tableVars
<1>3. ASSUME NEW r \in Reviewer, SelectRows(r) \/ AuditBatch(r) \/ Rule(r) \/ Abandon(r)
      PROVE  UNCHANGED <<changes, entries>>
  BY <1>3 DEF SelectRows, AuditBatch, AuditRows, Rule, Abandon, tableVars
<1>4. MarketMoves => UNCHANGED <<changes, entries>>
  BY DEF MarketMoves, tableVars
<1>5. QED
  BY <1>1, <1>2, <1>3, <1>4 DEF Next, BatchStep

LEMMA RegisterRests ==
  ASSUME UNCHANGED <<changes, entries>>
  PROVE  UNCHANGED Register!registerVars
BY DEF Register!registerVars, Override

LEMMA RegisterCreates ==
  ASSUME NEW desk \in Desks, DeskInv(desk), DeskInv(desk)', NEW r \in Reviewer, CreateChange(r)
  PROVE  Register!Approve
<1>1. changes \in Seq(Change) /\ changes' \in Seq(Change)
  BY DEF DeskInv, TablesInv
<1>2. PICK new : changes' = Append(changes, new) /\ entries' = entries
  BY DEF CreateChange, InsertChange
<1>3. \A c \in DOMAIN changes : c \in DOMAIN changes' /\ changes'[c] = changes[c]
  <2>1. changes \in Seq(Change \cup {new})
    BY <1>1
  <2>2. QED
    BY <1>2, <2>1, AppendFacts
<1>4. NamesStay /\ Granted \subseteq Granted'
  BY <1>3 DEF NamesStay, Granted
<1>5. QED
  BY <1>1, <1>2, <1>4, RegisterApproves

LEMMA RegisterDecides ==
  ASSUME changes \in Seq(Change), NEW rows, NEW status \in ChangeStatus \ {"pending"},
         changes' = WithStatus(rows, status), entries' = entries,
         status \in {"rejected", "deferred"} => rows \cap Granted = {}
  PROVE  Register!Approve
<1>1. changes' \in Seq(Change) /\ Granted \subseteq Granted'
  BY StatusesChange, StatusesGrow
<1>2. NamesStay
  BY StatusesChange DEF NamesStay
<1>3. QED
  BY <1>1, <1>2, RegisterApproves
\* Of finitely many numbers one is the last.
LEMMA LastExists ==
  ASSUME NEW S, IsFiniteSet(S), S \subseteq Nat, S # {}
  PROVE  \E k \in S : \A l \in S : l <= k
<1> DEFINE After(k) == { l \in S : l > k }
           Afters == { After(k) : k \in S }
<1>1. Afters \subseteq FiniteSubsetsOf(S) /\ Afters # {}
  <2>1. \A k \in S : After(k) \subseteq S /\ IsFiniteSet(After(k))
    BY FS_Subset
  <2>2. QED
    BY <2>1 DEF FiniteSubsetsOf
<1>2. PICK T \in Afters : \A U \in Afters : ~ (<<U, T>> \in StrictSubsetOrdering(S))
  <2> HIDE DEF Afters
  <2>1. QED
    BY <1>1, FS_StrictSubsetOrderingWellFounded, WFMin
<1>3. PICK k \in S : T = After(k)
  BY <1>2
<1>4. ASSUME NEW l \in S, ~ (l <= k) PROVE FALSE
  <2>1. l \in Nat /\ k \in Nat /\ l > k
    BY <1>4
  <2>2. ASSUME NEW m \in After(l) PROVE m \in After(k)
    <3>1. m \in Nat /\ m > l /\ m \in S
      OBVIOUS
    <3>2. QED
      BY <2>1, <3>1
  <2>3. l \in After(k) /\ l \notin After(l)
    BY <2>1
  <2>4. <<After(l), After(k)>> \in StrictSubsetOrdering(S)
    BY <2>2, <2>3 DEF StrictSubsetOrdering
  <2>5. QED
    BY <1>2, <1>3, <2>4
<1>5. QED
  BY <1>4

\* Override, of any entries.
InForceOf(es, a) ==
  LET active == { k \in DOMAIN es : es[k].name = a /\ es[k].active }
  IN IF active = {} THEN Unset
     ELSE es[CHOOSE k \in active : \A l \in active : l <= k].value

LEMMA OneInForce ==
  ASSUME NEW es \in Seq(Entry), NEW k \in DOMAIN es, es[k].active,
         \A m, l \in DOMAIN es : es[m].active /\ es[l].name = es[m].name => l <= m
  PROVE  InForceOf(es, es[k].name) = es[k].value
<1> DEFINE active == { l \in DOMAIN es : es[l].name = es[k].name /\ es[l].active }
<1>1. DOMAIN es \subseteq Nat
  BY SeqFacts
<1>2. ASSUME NEW l \in active PROVE l = k
  <2>1. l <= k /\ k <= l
    OBVIOUS
  <2>2. QED
    BY <1>1, <2>1
<1>3. active = {k} /\ k \in Nat
  BY <1>1, <1>2
<1>4. (CHOOSE n \in active : \A l \in active : l <= n) = k
  <2> HIDE DEF active
  <2>1. QED
    BY <1>3
<1>5. QED
  BY <1>3, <1>4 DEF InForceOf

LEMMA RegisterApplies ==
  ASSUME NEW desk, TablesInv(desk), TablesInv(desk)', NEW rows, rows \subseteq Granted, ApplyRows(rows)
  PROVE  Register!Apply
<1> DEFINE L == Len(entries)
           stack == { [name |-> changes[i].name, value |-> changes[i].value] : i \in rows }
           Proposed(a) == { p.value : p \in { q \in stack : q.name = a } }
<1>1. /\ changes \in Seq(Change) /\ entries \in Seq(Entry) /\ entries' \in Seq(Entry)
      /\ NewestEntryIsActive /\ NewestEntryIsActive' /\ rows \in SUBSET DOMAIN changes
  BY DEF TablesInv, Granted
<1>2. PICK order \in InOrder(rows) : entries' = Entered(entries, order)
  BY DEF ApplyRows
<1>3. /\ Cardinality(rows) \in Nat /\ order \in Seq(rows)
      /\ \A i \in rows : \E n \in DOMAIN order : order[n] = i
  BY <1>1, RowsAreFinite
<1>4. /\ L \in Nat /\ DOMAIN entries = 1..L /\ Len(order) \in Nat /\ DOMAIN order = 1..Len(order)
      /\ \A n \in DOMAIN order : order[n] \in rows
  BY <1>1, <1>3, SeqFacts
<1>5. Len(entries') = L + Len(order) /\ OlderEntries(order) /\ NewerEntries(order)
  BY <1>1, <1>2, <1>3, EnteredFacts
<1>6. DOMAIN entries' = 1..(L + Len(order))
  BY <1>1, <1>5, SeqFacts
<1>7. Approvals' = Approvals
  <2>1. changes' = WithStatus(Selected(rows, "approved"), "applied") /\ "applied" \in ChangeStatus
    BY DEF ApplyRows, ChangeStatus
  <2>2. /\ DOMAIN changes' = DOMAIN changes
        /\ \A c \in DOMAIN changes :
             /\ changes'[c].name = changes[c].name /\ changes'[c].value = changes[c].value
             /\ changes'[c].status = IF c \in Selected(rows, "approved") THEN "applied" ELSE changes[c].status
    BY <1>1, <2>1, StatusesChange
  <2>3. Granted' = Granted
    BY <2>2 DEF Granted, Selected
  <2>4. \A i \in Granted : changes'[i].name = changes[i].name /\ changes'[i].value = changes[i].value
    BY <2>2 DEF Granted
  <2>5. QED
    BY <2>3, <2>4 DEF Approvals
<1>8. stack \subseteq Approvals
  BY DEF Approvals
<1>9. \A a : Override(a) = InForceOf(entries, a) /\ Override(a)' = InForceOf(entries', a)
  BY DEF Override, InForceOf
<1>10. /\ \A m, l \in DOMAIN entries : entries[m].active /\ entries[l].name = entries[m].name => l <= m
       /\ \A m, l \in DOMAIN entries' : entries'[m].active /\ entries'[l].name = entries'[m].name => l <= m
  BY <1>1 DEF NewestEntryIsActive
<1>11. ASSUME NEW a, \A i \in rows : changes[i].name # a PROVE InForceOf(entries', a) = InForceOf(entries, a)
  <2>1. ASSUME NEW k \in 1..L
        PROVE  /\ entries'[k].name = entries[k].name /\ entries'[k].value = entries[k].value
               /\ entries[k].name = a => entries'[k].active = entries[k].active
    <3>1. /\ entries'[k].name = entries[k].name /\ entries'[k].value = entries[k].value
          /\ entries'[k].active =
               (entries[k].active /\ \A m \in 1..Len(order) : changes[order[m]].name # entries[k].name)
      BY <1>5 DEF OlderEntries
    <3>2. entries[k].name = a => \A m \in 1..Len(order) : changes[order[m]].name # entries[k].name
      BY <1>4, <1>11
    <3>3. entries[k].active \in BOOLEAN
      <4>1. entries[k] \in Entry
        BY <1>1, <1>4, SeqFacts
      <4>2. QED
        BY <4>1 DEF Entry
    <3>4. QED
      BY <3>1, <3>2, <3>3
  <2>2. ASSUME NEW k \in DOMAIN entries', entries'[k].name = a PROVE k \in DOMAIN entries
    <3>1. CASE k > L
      <4>1. k - L \in 1..Len(order) /\ k = L + (k - L)
        BY <1>4, <1>6, <3>1
      <4>2. entries'[k].name = changes[order[k - L]].name
        BY <1>5, <4>1 DEF NewerEntries
      <4>3. QED
        BY <1>4, <1>11, <2>2, <4>1, <4>2
    <3>2. QED
      BY <1>4, <1>6, <3>1
  <2>3. CASE \E k \in DOMAIN entries : entries[k].name = a /\ entries[k].active
    <3>1. PICK k \in DOMAIN entries : entries[k].name = a /\ entries[k].active
      BY <2>3
    <3>2. k \in DOMAIN entries' /\ entries'[k].name = a /\ entries'[k].active /\ entries'[k].value = entries[k].value
      BY <1>4, <1>6, <2>1, <3>1
    <3>3. InForceOf(entries, a) = entries[k].value
      BY <1>1, <1>10, <3>1, OneInForce
    <3>4. InForceOf(entries', a) = entries'[k].value
      BY <1>1, <1>10, <3>2, OneInForce
    <3>5. QED
      BY <3>2, <3>3, <3>4
  <2>4. CASE ~ \E k \in DOMAIN entries : entries[k].name = a /\ entries[k].active
    <3>1. ~ \E k \in DOMAIN entries' : entries'[k].name = a /\ entries'[k].active
      BY <1>4, <2>1, <2>2, <2>4
    <3>2. InForceOf(entries, a) = Unset /\ InForceOf(entries', a) = Unset
      BY <2>4, <3>1 DEF InForceOf
    <3>3. QED
      BY <3>2
  <2>5. QED
    BY <2>3, <2>4
<1>12. ASSUME NEW a, NEW i \in rows, changes[i].name = a
       PROVE  \E j \in rows : changes[j].name = a /\ InForceOf(entries', a) = changes[j].value
  <2> DEFINE places == { n \in DOMAIN order : changes[order[n]].name = a }
  <2>1. IsFiniteSet(places) /\ places \subseteq Nat
    <3>1. IsFiniteSet(1..Len(order))
      BY <1>4, FS_Interval
    <3>2. QED
      BY <1>4, <3>1, FS_Subset
  <2>2. places # {}
    BY <1>3, <1>12
  <2>3. PICK n \in places : \A m \in places : m <= n
    <3> HIDE DEF places
    <3>1. QED
      BY <2>1, <2>2, LastExists
  <2>4. n \in 1..Len(order) /\ L + n \in DOMAIN entries'
    BY <1>4, <1>6
  <2>5. \A m \in 1..Len(order) : m > n => changes[order[m]].name # a
    BY <1>4, <2>3
  <2>6. /\ entries'[L + n].name = a /\ entries'[L + n].value = changes[order[n]].value
        /\ entries'[L + n].active
    <3>1. /\ entries'[L + n].name = changes[order[n]].name /\ entries'[L + n].value = changes[order[n]].value
          /\ entries'[L + n].active =
               \A m \in 1..Len(order) : m > n => changes[order[m]].name # changes[order[n]].name
      BY <1>5, <2>4 DEF NewerEntries
    <3>2. changes[order[n]].name = a
      OBVIOUS
    <3>3. QED
      BY <2>5, <3>1, <3>2
  <2>7. InForceOf(entries', a) = changes[order[n]].value
    BY <1>1, <1>10, <2>4, <2>6, OneInForce
  <2>8. QED
    BY <1>4, <2>4, <2>7
<1>13. ASSUME NEW a \in Assumption
       PROVE  IF Proposed(a) = {} THEN Overrides'[a] = Overrides[a] ELSE Overrides'[a] \in Proposed(a)
  <2>1. Overrides'[a] = InForceOf(entries', a) /\ Overrides[a] = InForceOf(entries, a)
    BY <1>9 DEF Overrides
  <2>2. CASE \E i \in rows : changes[i].name = a
    <3>1. PICK j \in rows : changes[j].name = a /\ InForceOf(entries', a) = changes[j].value
      BY <1>12, <2>2
    <3>2. [name |-> changes[j].name, value |-> changes[j].value] \in { q \in stack : q.name = a }
      BY <3>1
    <3>3. changes[j].value \in Proposed(a)
      BY <3>2
    <3>4. QED
      BY <2>1, <3>1, <3>3
  <2>3. CASE \A i \in rows : changes[i].name # a
    <3>1. Proposed(a) = {}
      BY <2>3
    <3>2. QED
      BY <1>11, <2>1, <2>3, <3>1
  <2>4. QED
    BY <2>2, <2>3
<1>14. QED
  BY <1>7, <1>8, <1>13 DEF Register!Apply, Overrides, Approvals, Granted
LEMMA RegisterStep ==
  ASSUME NEW desk \in Desks, DeskInv(desk), DeskInv(desk)', Next
  PROVE  [Register!Approve \/ Register!Apply]_Register!registerVars
<1>1. changes \in Seq(Change) /\ TablesInv(desk) /\ TablesInv(desk)'
  BY DEF DeskInv, TablesInv
<1>2. CASE UNCHANGED <<changes, entries>>
  BY <1>2, RegisterRests
<1>3. ASSUME NEW r \in Reviewer, CreateChange(r) PROVE Register!Approve
  BY <1>3, RegisterCreates
<1>4. ASSUME NEW r \in Reviewer, CommitRows(r) PROVE Register!Approve \/ Register!Apply
  <2>1. CASE job[r].op = "approve"
    <3>1. changes' = WithStatus(job[r].rows, "approved") /\ entries' = entries
      BY <1>4, <2>1 DEF CommitRows, MarkApproved
    <3>2. "approved" \in ChangeStatus \ {"pending"}
      BY DEF ChangeStatus
    <3>3. QED
      BY <1>1, <3>1, <3>2, RegisterDecides
  <2>2. CASE job[r].op # "approve"
    <3>1. job[r].op = "apply" /\ job[r].at = "commit" /\ ApplyRows(job[r].rows)
      BY <1>4, <2>2 DEF CommitRows
    <3>2. job[r].rows \subseteq Granted
      BY <3>1, AtWork DEF DeskInv, RowsOK, World
    <3>3. QED
      BY <1>1, <3>1, <3>2, RegisterApplies
  <2>3. QED
    BY <2>1, <2>2
<1>5. ASSUME NEW r \in Reviewer, CommitBatch(r) PROVE Register!Approve
  <2>1. PICK status \in {"rejected", "deferred"} : MarkPending(job[r].ids, status)
    BY <1>5 DEF CommitBatch
  <2>2. /\ changes' = WithStatus(Selected(job[r].ids, "pending"), status) /\ entries' = entries
        /\ Selected(job[r].ids, "pending") \cap Granted = {}
    BY <2>1 DEF MarkPending, Selected, Granted
  <2>3. status \in ChangeStatus \ {"pending"}
    BY DEF ChangeStatus
  <2>4. QED
    BY <1>1, <2>2, <2>3, RegisterDecides
<1>6. QED
  BY <1>2, <1>3, <1>4, <1>5, TablesMove

LEMMA RegisterBegins ==
  ASSUME NEW desk \in Desks, InitFrom(desk)
  PROVE  Register!Init
<1> DEFINE Fresh == { c \in Change : c.status \in {"pending", "rejected", "deferred"} /\ c.item = 0 }
<1>1. changes \in Seq(Fresh) /\ entries = <<>>
  BY EmptyTables DEF InitFrom
<1>2. Granted = {}
  <2>1. \A c \in DOMAIN changes : changes[c] \in Fresh
    BY <1>1, SeqFacts
  <2>2. QED
    BY <2>1 DEF Granted
<1>3. \A a \in Assumption : Override(a) = Unset
  BY <1>1 DEF Override
<1>4. Approvals = {}
  BY <1>2 DEF Approvals
<1>5. QED
  BY <1>3, <1>4 DEF Register!Init, Approvals, Granted
===============================================================================
