----------------------------- MODULE StatementLedger -----------------------------
(***************************************************************************)
(* The statement ledger of one ticker and its reconciliations: sources are *)
(* ingested in two commits, facts and then their manifest; a reconciler    *)
(* reads facts, manifests and treatments one after the other, commits its  *)
(* run, and puts its findings before the PM in a commit of its own.        *)
(*                                                                         *)
(* The PM's handlers read a finding, check its status, and write it later, *)
(* whatever has become of it.  Ingestion, reconciliations and the PM share *)
(* the database only; any of them can stop between two commits.            *)
(***************************************************************************)
EXTENDS StatementReadiness, SequencesExt

CONSTANTS
  Reconciler,  \* processes that reconcile the ticker
  Facts,       \* document -> the facts its ingestion inserts
  Manifest,    \* document -> the manifest its ingestion persists
  Histories,   \* [first : Seq of documents ingested before, later : documents still to come]
  Cutoffs,     \* the cutoffs asked for; 0 is none
  Handler,     \* the PM's requests under way: preview, edit, approve, reject, defer
  MaxRuns,     \* bound on persisted runs, those under way included
  Attended     \* bound: the quantities, <<key, end>>, whose findings the PM takes up

\* A document is one accession or workbook of the database: it is published once.
ASSUME HistoriesAssumption ==
  \A h \in Histories :
    /\ h.first \in Seq(DOMAIN Manifest) /\ IsInjective(h.first)
    /\ h.later \subseteq DOMAIN Manifest \ ToSet(h.first) /\ IsFiniteSet(h.later)

VARIABLES
  later,      \* documents that can still be published
  facts,      \* statement_facts: the documents whose facts are inserted
  manifests,  \* statement_source_manifests, in the order of created_at: documents
  treated,    \* keys an active approved treatment supplies
  runs,       \* valuation_statement_reconciliation_runs: what was read, and the row
  items,      \* the queue's items of profile statement_reconciliation
  open,       \* handler -> what it has read of an item and not yet written: {} or {copy}
  job,        \* reconciler -> what it has read
  found,      \* history: the findings of the reconciliation that queued last
  inHand      \* history: the other findings the PM was previewing or handling when it did

desk == <<items, open, found, inHand>>

vars == <<later, facts, manifests, treated, runs, job, desk>>

FactsOf(documents) == UNION { Facts[d] : d \in documents }

\* Fingerprints are unique.  Only trailing figures are derived, and they are dated and
\* derived from the figures of filed periods (_derive_ltm_fact).  The required flows of a year or a trailing window
\* are durations and total assets an instant, in a filing and in a workbook.
FactAssumption(F) ==
  /\ \A f \in F :
       /\ {f.id, f.origin, f.filed, f.start, f.end, f.context} \subseteq Nat /\ f.value \in Int
       /\ f.kind = "ltm" /\ f.source \in Filed => f.start # 0
       /\ f.source = "derived" => f.kind = "ltm"
       /\ f.key \in RequiredKeys \cup NetChangeKeys /\ f.kind \in {"annual", "ltm"} => f.start # 0
       /\ f.key = "assets" => f.start = 0
  /\ \A f, g \in F :
       /\ f.id = g.id => f = g
       /\ g.id \in f.parts => g.kind # "ltm"

ASSUME FactsAssumption ==
  \A h \in Histories :
    LET F == FactsOf(ToSet(h.first) \cup h.later) IN IsFiniteSet(F) /\ FactAssumption(F)

ManifestsOf(sequence) == [i \in DOMAIN sequence |-> Manifest[sequence[i]]]

\* What a reconciler can have read: the rows of three queries, at three moments.
Readings ==
  UNION { [facts     : { ToSet(h.first) \cup S : S \in SUBSET h.later },
           manifests : { h.first \o s : s \in SetToAllKPermutations(h.later) },
           treated   : {{}, {"da"}},
           asked     : Cutoffs] : h \in Histories }

\* The row of a run is a function of what was read, with a cutoff or without.
Assessed(read) ==
  [read |-> read,
   row  |-> Reconciled(FactsOf(read.facts), ManifestsOf(read.manifests), read.treated, read.asked)]

\* Every run there can be; TLC evaluates this set once.
Assessments == { Assessed(x) : x \in Readings }

RunOf(read) == CHOOSE a \in Assessments : a.read = read

Idle == [at |-> "idle", read |-> [facts |-> {}, manifests |-> <<>>, treated |-> {}, asked |-> 0]]

Init ==
  /\ \E h \in Histories :
       /\ later = h.later
       /\ facts = { h.first[i] : i \in DOMAIN h.first }
       /\ manifests = h.first
  /\ treated = {}
  /\ runs = {}
  /\ items = {}
  /\ open = [h \in Handler |-> {}]
  /\ job = [r \in Reconciler |-> Idle]
  /\ found = {}
  /\ inHand = {}

-----------------------------------------------------------------------------
(* Ingestion and treatments. *)

InsertFacts(d) ==
  /\ d \in later
  /\ facts' = facts \cup {d}
  /\ later' = later \ {d}
  /\ UNCHANGED <<manifests, treated, runs, desk, job>>

\* Also after a crash: ingesting again inserts no fact and then the manifest.
PersistManifest(d) ==
  /\ d \in facts /\ \A i \in DOMAIN manifests : manifests[i] # d
  /\ manifests' = Append(manifests, d)
  /\ UNCHANGED <<later, facts, treated, runs, desk, job>>

\* A PM approves a treatment for a combined line; there is nothing to treat without one.
ApproveTreatment ==
  /\ "da" \notin treated /\ "combined_da" \in Keys(FactsOf(facts))
  /\ treated' = {"da"}
  /\ UNCHANGED <<later, facts, manifests, runs, desk, job>>

-----------------------------------------------------------------------------
(* reconcile_ticker_statements. *)

Goes(r, to) == job' = [job EXCEPT ![r] = to]

LoadFacts(r, asked) ==
  /\ job[r].at = "idle"
  /\ Cardinality(runs) + Cardinality({ s \in Reconciler : job[s].at \in {"facts", "manifests"} }) < MaxRuns
  /\ Goes(r, [at   |-> "facts",
              read |-> [facts |-> facts, manifests |-> <<>>, treated |-> {}, asked |-> asked]])
  /\ UNCHANGED <<later, facts, manifests, treated, runs, desk>>

LoadManifests(r) ==
  /\ job[r].at = "facts"
  /\ Goes(r, [at |-> "manifests", read |-> [job[r].read EXCEPT !.manifests = manifests]])
  /\ UNCHANGED <<later, facts, manifests, treated, runs, desk>>

\* Mutant: the row is not committed before the findings are queued.
WithoutRun(run) == runs

WithRun(run) == runs \cup {run}

\* Loads the treatments and assesses; persisting the same run again changes nothing.
PersistRun(r) ==
  /\ job[r].at = "manifests"
  /\ LET read == [job[r].read EXCEPT !.treated = treated]
     IN  /\ runs' = WithRun(RunOf(read))
         /\ Goes(r, [at |-> "persisted", read |-> read])
  /\ UNCHANGED <<later, facts, manifests, treated, desk>>

\* selected_view_hash
ViewOf(run) == <<run.asOf, run.manifests, run.view>>

\* "family" says whether the pack the PM has edited in is a driver family's.
Item(run, finding, status, family) ==
  [view |-> ViewOf(run), finding |-> finding, status |-> status, family |-> family]

\* The dedupe key, which stands for the item's id.
Key(i) == <<i.view, i.finding>>

\* What a handler that has checked an item's status still needs of it.
Copy(i) == [view |-> i.view, finding |-> i.finding, family |-> i.family]

Queued(run, finding) == \E i \in items : i.view = ViewOf(run) /\ i.finding = finding

\* An item found by its dedupe key stays as it is, superseded or not.
Inserted(run) ==
  items \cup { Item(run, f, "pending", FALSE) : f \in { g \in run.findings : ~Queued(run, g) } }

Current(run, i) == i.view = ViewOf(run) /\ i.finding \in run.findings

\* Mutant: findings that are back under another view are left pending.
SupersedesGone(run, i) == i.status = "pending" /\ i.finding \notin run.findings

Supersedes(run, i) == i.status = "pending" /\ ~Current(run, i)

Handled == UNION { open[h] : h \in Handler }

\* _persist_findings: one transaction.
QueueFindings(r) ==
  /\ job[r].at = "persisted"
  /\ LET run == RunOf(job[r].read).row
     IN  /\ items' = { IF Supersedes(run, i) THEN [i EXCEPT !.status = "superseded"] ELSE i :
                         i \in Inserted(run) }
         /\ found' = { <<ViewOf(run), f>> : f \in run.findings }
         /\ inHand' = { Key(i) : i \in { j \in items : j.status = "previewed" } \cup Handled } \ found'
  /\ Goes(r, Idle)
  /\ UNCHANGED <<later, facts, manifests, treated, runs, open>>

\* The process dies, or the database refuses the findings.
Crash(r) ==
  /\ job[r].at # "idle"
  /\ Goes(r, Idle)
  /\ UNCHANGED <<later, facts, manifests, treated, runs, desk>>

-----------------------------------------------------------------------------
(* The PM.  His handlers read and write in separate transactions, and the  *)
(* UPDATE names the item's id only.                                        *)

Open == {"pending", "previewed"}

\* _load_queue_item_or_raise and _require_status.
ReadItem(h, i) ==
  /\ open[h] = {} /\ i.status \in Open
  /\ <<i.finding.key, i.finding.end>> \in Attended
  /\ open' = [open EXCEPT ![h] = {Copy(i)}]
  /\ UNCHANGED <<later, facts, manifests, treated, runs, job, items, found, inHand>>

\* The handler is done, whether it wrote or raised.
Done(h) ==
  /\ open' = [open EXCEPT ![h] = {}]
  /\ UNCHANGED <<later, facts, manifests, treated, runs, job, found, inHand>>

\* update_pm_decision_queue_item of the item it has read.
Written(i, status) == { IF Key(j) = Key(i) THEN [j EXCEPT !.status = status] ELSE j : j \in items }

\* The PM may put any pack into a finding, which was proposed without one.
Edit(h, i, family) ==
  /\ items' = { IF Key(j) = Key(i) THEN [j EXCEPT !.status = "pending", !.family = family] ELSE j :
                  j \in items }
  /\ Done(h)

\* A finding is marked as previewed only with a driver family's pack.
Preview(h, i) ==
  /\ i.family
  /\ items' = Written(i, "previewed")
  /\ Done(h)

\* Approves, rejects or defers.
Decide(h, i) ==
  /\ items' = Written(i, "decided")
  /\ Done(h)

\* A check fails, the handler dies, or there is nothing to mark.
Leave(h) ==
  /\ Done(h)
  /\ UNCHANGED items

Handle(h) ==
  \/ \E i \in items : ReadItem(h, i)
  \/ \E i \in open[h] :
       \/ \E family \in BOOLEAN : Edit(h, i, family)
       \/ Preview(h, i)
       \/ Decide(h, i)
       \/ Leave(h)

Next ==
  \/ \E d \in DOMAIN Manifest : InsertFacts(d) \/ PersistManifest(d)
  \/ ApproveTreatment
  \/ \E r \in Reconciler :
       \/ \E c \in Cutoffs : LoadFacts(r, c)
       \/ LoadManifests(r)
       \/ PersistRun(r)
       \/ QueueFindings(r)
       \/ Crash(r)
  \/ \E h \in Handler : Handle(h)

Spec == Init /\ [][Next]_vars

-----------------------------------------------------------------------------
(* Properties. *)

\* Type invariant; a run's view is made of facts the ledger holds.
TypeOK ==
  /\ later \cap facts = {}
  /\ ToSet(manifests) \subseteq facts /\ Cardinality(ToSet(manifests)) = Len(manifests)
  /\ \A r \in runs :
       /\ r.row.status \in {"blocked", "provisional", "decision_grade"}
       /\ r.row.view \subseteq { f.id : f \in FactsOf(facts) }
  /\ \A i \in items :
       /\ i.status \in {"pending", "previewed", "decided", "superseded"}
       /\ \E r \in runs : i.view = ViewOf(r.row) /\ i.finding \in r.row.findings
  /\ { Key(i) : i \in Handled } \subseteq { Key(i) : i \in items }
  /\ \A r \in Reconciler : job[r].at \in {"idle", "facts", "manifests", "persisted"}

\* The evidence of a reading, told apart by its dates alone: the facts, and the
\* manifests with their order.
Evidence(read) ==
  LET published == { i \in DOMAIN read.manifests : Manifest[read.manifests[i]].cutoff <= read.asked }
  IN  [facts     |-> { f \in FactsOf(read.facts) : DateOf(f) <= read.asked },
       manifests |-> { <<read.manifests[p[1]], read.manifests[p[2]]>> :
                         p \in { q \in published \X published : q[1] <= q[2] } },
       treated   |-> read.treated]

\* Reconciling again as of the same cutoff gives the same view, findings and status,
\* whatever was published after the cutoff in between: no evidence dated after the
\* cutoff reaches a run (_facts_as_of, the manifest query and _select_source_manifests).
ReplaysAgree ==
  \A r, s \in runs :
    r.read.asked # 0 /\ r.read.asked = s.read.asked /\ r.row # s.row => Evidence(r.read) # Evidence(s.read)

Graded(assessments) == { x \in assessments : x.row.status = "decision_grade" }

\* The facts of a run's view.
Viewed(run) == { f \in FactsOf(run.read.facts) : f.id \in run.row.view }

\* What the manifests a run has chosen name, as of its cutoff.
BoundTo(run) ==
  LET ms     == ManifestsOf(run.read.manifests)
      cutoff == run.row.asOf
  IN  ManifestBound(FactsAsOf(FactsOf(run.read.facts), cutoff),
                    { ms[i] : i \in XbrlManifests(ms, cutoff) },
                    { ms[i] : i \in CiqManifests(ms, cutoff) })

KeepingRuns ==
  { x \in Assessments :
      CompleteYears(Viewed(x), x.read.treated) = CompleteYears(BoundTo(x), x.read.treated) }

\* Limiting the evidence to a view loses no year: the view has the complete years of all
\* the facts a run is bound to, whatever CIQ or a treatment supplies and whatever opening
\* balances and parts of trailing figures come along (the comment in
\* _bounded_selected_view: else every check reports "missing" rather than the reason).
ViewKeepsTheYears == runs \subseteq KeepingRuns

\* A presented figure replaces a derived one, and of one source the later filing counts.
NewerVintage(g, f) ==
  \/ g.source = "presentation" /\ f.source = "derived"
  \/ g.source = f.source /\ g.filed > f.filed

NewestFiled(V) ==
  { f \in Xbrl(V) : ~\E g \in Xbrl(V) : SameQuantity(f, g) /\ NewerVintage(g, f) }

\* ... where no other figure was filed as late.
SoleNewest(V) ==
  { f \in Xbrl(V) : \A g \in Xbrl(V) \ {f} : SameQuantity(f, g) => NewerVintage(f, g) }

Agrees(f, c) == Distance(f.value, c.value) <= Tolerance

\* CIQ shows the figure for the same window and agrees.  Net income is presented on two
\* statements, and shown on the other one it is not compared.
Corroborated(N, C, key, end, kind) ==
  LET of(A) == { f \in A : f.key = key /\ f.end = end /\ f.kind = kind }
  IN  \E f \in of(N), c \in of(C) :
        /\ OneWindow(f.start, c.start)
        /\ Agrees(f, c) \/ (key = "net_income" /\ f.statement # c.statement)

\* Assets are claims, or liabilities and equity.
Balances(N, end) ==
  LET of(key) == { f \in N : f.key = key /\ f.end = end }
  IN  \E a \in of("assets") :
        \/ \E c \in of("claims") : Agrees(a, c)
        \/ \E l \in of("liabilities"), q \in of("equity") :
             Distance(l.value + q.value, a.value) <= Tolerance

\* The cash of the day before the year and its net change make the cash at its end.
Bridges(N, end) ==
  \E opening, change, ending \in N :
    /\ change.key \in NetChangeKeys /\ change.end = end
    /\ opening.key \in CashKeys /\ opening.end = change.start - 1
    /\ ending.end = end
    /\ ending.key = IF change.key = "net_change" THEN "cash" ELSE "cash_restricted"
    /\ Distance(opening.value + change.value, ending.value) <= Tolerance

\* What a decision-grade view V must show: every figure of its years, and of a trailing
\* window newer than them, corroborated by CIQ, no comparable figure on which the newest
\* filing and CIQ differ, years that balance, and years that bridge but for the first.
Earned(V, supplied) ==
  LET N       == NewestFiled(V)
      C       == Ciq(V)
      years   == AnnualEnds(N, V, supplied)
      windows == { f.end : f \in { g \in N : g.kind = "ltm" /\ ~\E e \in years : e >= g.end } }
      keys(e, kind) == RequiredKeys \ (IF CombinedDa(At(V, e, kind)) THEN {"da"} ELSE {})
  IN  /\ Cardinality(years) >= MinAnnual
      /\ \A f \in SoleNewest(V), c \in C : Overlap(f, c) => Agrees(f, c)
      /\ \A e \in years : \A k \in keys(e, "annual") \cup {"assets"} : Corroborated(N, C, k, e, "annual")
      /\ \A e \in windows : \A k \in keys(e, "ltm") : Corroborated(N, C, k, e, "ltm")
      /\ \A e \in years : Balances(N, e)
      /\ \A d, e \in years : d < e => Bridges(N, e)

EarnedRuns == { x \in Graded(Assessments) : Earned(Viewed(x), x.read.treated) }

\* A decision-grade run stands on MinAnnual years whose newest filed figures CIQ shows
\* too and agrees with, on balance sheets that balance and years that bridge, whichever
\* documents were ingested, in whichever order, and wherever the reconciler read between
\* two commits.
DecisionGradeIsEarned == Graded(runs) \subseteq EarnedRuns

\* Replacing a view closes its findings, but for those the PM has in hand: what is open on
\* the desk was found by the reconciliation that queued last, or was previewed, or read by
\* a handler that had not written yet, when that reconciliation queued
\* (_persist_findings supersedes pending items only, and edit_pm_decision_queue_item writes
\* "pending" whatever has become of the item).  So two views can be open side by side, but
\* no finding comes back that nobody was at.  A finding of a view has one item, whoever
\* found it again (dedupe_key).
OneViewButForWorkInHand ==
  /\ \A i \in items : i.status \in Open => Key(i) \in found \cup inHand
  /\ \A i, j \in items : Key(i) = Key(j) => i = j

\* Reconciliations close pending findings only: what the PM has previewed or decided, and
\* what is superseded, is changed by a handler of his that has read that finding, also
\* when its view is replaced and when it comes back.
OnlyThePmReopens ==
  [][\A i \in items :
       i.status # "pending" /\ i \notin items'
         => \E h \in Handler : open'[h] = {} /\ \E j \in open[h] : Key(j) = Key(i)]_vars

\* What the comment at source_reconciliation.py:1034 and the ledger plan say of alternate
\* presentations of one quantity: the value tolerance arbitrates, so a decision-grade
\* run has no net change in cash on which the filing and CIQ differ.  It is expected to
\* FAIL: alternates satisfy the expected quantity, but only equal keys are compared.
AlternatesAreCompared ==
  \A r \in Graded(runs) :
    LET V == Viewed(r)
    IN  \A x \in NewestFiled(V), c \in Ciq(V) :
          {x.key, c.key} \subseteq NetChangeKeys /\ x.kind = c.kind /\ x.end = c.end
            => Agrees(x, c)
==================================================================================
