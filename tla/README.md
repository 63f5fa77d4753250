# Alpha Pod, specified

TLA+ specifications of the parts of Alpha Pod (an AI-augmented fundamental-research
program) in which concurrency, failure and ordering decide whether the answers can be
trusted: the ticker batch runner, the terminal-outcome store that makes batches
resumable, the judgment pipeline that asks LLM providers for driver assumptions and
leaves proposals on the PM's decision queue, the desk where the PM decides them and the
approved cases built on his decisions, the ledger that decides whether a company's
statements can be trusted, and the files in which approved numbers reach a valuation. TLC
checks the modules on small instances; TLAPS proves the main results for every size.

Paths below are relative to the repository. `PROJECT.json` names, for every definition,
the lines it models.

## The system

Python, one SQLite database, several entry points (CLI batches, a FastAPI server, daily
scripts) that may run at the same time in different processes.

| component | state | operations | interacts with | hard behaviour |
|---|---|---|---|---|
| ticker batch runner, `src/stage_04_pipeline/ticker_batch.py` | pending and in-flight tickers, lane counters, executed records | `run_ticker_batch`, `_run_with_retry`, `_checkpoint_record` | calls `run_ticker`, rate limiter and checkpoint of its caller | worker threads against coordinator, deadline that abandons threads, failing checkpoints |
| terminal store and workup runs, `ticker_terminal_store.py`, `valuation_workup_service.py`, `ticker_valuation_execution.py` | table `ticker_terminal_outcomes` | load priors, prepare, batch, persist, list | batch runner, judgment pipeline | overlapping and killed runs under one `execution_run_id`, inputs that change meanwhile |
| judgment gateway, `stage_03_judgment/judgment_gateway.py` | none of its own; leases and cached envelopes in SQLite | `execute_structured` | provider backends, run store | same call from two processes, leases that lapse |
| driver family workflow, `driver_family_workflow.py`, `driver_family_queue.py` | none | primary, critic, revision, second critic | gateway | the partial results of failed families |
| judgment pipeline, `valuation_judgment_pipeline.py` | envelope collector, result per family | `run_valuation_judgment_pipeline` | workflow threads, run store, decision queue | four family threads whose database work is done by one owner; several transactions in a row |
| valuation run store, `valuation_run_store.py` | snapshots, envelopes, leases, approved bundles, replays, model-change requests | reserve, release, persist, load, replay, decide | all of the above | insert-once rows, compare-and-set decisions |
| PM decision queue, `pm_decision_queue.py` | queue items and their events | preview, edit, approve, apply, reject, defer | pending changes, treatments | status read, then written back; approval spans several commits |
| pending assumption changes, `pending_assumption_changes.py`, `db/loader.py` | pending changes, approved entries | create, approve, apply, reject, defer | decision queue, valuation | two applies of one change |
| approved cases, `stage_02_valuation/approved_case_replay.py` and the run store | approved bundles, stored replays | freeze, compile, persist, execute | decision queue, terminal store | what was frozen is used minutes later, while the PM goes on deciding |
| statement reconciliation, `statement_reconciliation_service.py`, `statement_reconciliation_store.py`, `stage_00_data/source_reconciliation.py` | `statement_facts`, `statement_source_manifests`, `valuation_statement_reconciliation_runs`, queue items | ingest, reconcile, persist, queue findings | filings and CIQ ingestion, treatments, decision queue | three reads, two commits, vintages that arrive in any order |
| recommendations and overrides, `recommendations.py`, `override_workbench.py`, `wacc_workbench.py` | `config/agent_recommendations_{TICKER}.yaml`, `config/valuation_overrides.yaml` | extract, approve, preview, select, apply | full runs, command line, dashboard, API | unsynchronised read, change, write back |
| API run tracker, `api/run_tracker.py` | run records, a pool of four threads | submit, update, get | every background operation of `api/main.py` | saturation, operations that raise, restarts |
| the rest: data clients, screening, DCF and WACC arithmetic, agents, accounting evidence, exports, CIQ, IBKR | files, caches, tables | sequential | | left out, see the end |

What makes each correct, in one line:

- **Batch runner**: every requested ticker gets exactly one record; bounds on work hold of
  the threads too; what is reported is what was checkpointed; discarded work can be retried;
  the batch returns.
- **Store and runs**: no caller is told an answer that is not durable, or one given for
  other inputs than those it froze.
- **Gateway and leases**: nobody asks a provider the same thing twice at once, and nobody
  waits for a dead owner.
- **Judgment pipeline**: whatever fails half-way, a pack in the PM's queue can be traced to
  stored, successful runs; one family's failure takes nothing from the others.
- **Decision queue and pending changes**: an assumption has one entry in force, the newest;
  what a PM applied from a pack is what a preview showed; an approved item is backed by
  approved rows; a request is decided once.
- **Approved cases**: a valuation is decision-grade only while its approvals are in force and no
  model-change request was open all along.
- **Statement reconciliation**: decision-grade is earned by corroborated, balancing,
  bridging years; a replay as of a date sees nothing published after it; a new view closes
  the findings of the one it replaces, all but those the PM has previewed or has at hand.
- **Recommendations and overrides**: every accepted run ends and says how; a PM's decision
  on an agent's proposal passes to no other agent's, unless a run is asked for by the field's name.

## Modules

| module | models |
|---|---|
| `BatchIntake` | the classification of a request before any thread starts (pure operators) |
| `TickerBatch` | coordinator and worker threads of `run_ticker_batch`; EXTENDS `BatchIntake` |
| `BatchContract` | what a caller of the batch relies on; `TickerBatch` implements it through `INSTANCE BatchContract WITH ...` |
| `TickerBatchProofs`, `TickerBatchResults` | the inductive invariant of `TickerBatch` and the theorems drawn from it |
| `WorkupRuns` | `run_persisted_valuation_workups` again and again over `ticker_terminal_outcomes`; uses of the batch only what `BatchContract` promises |
| `WorkupRunsProofs` | its inductive invariant and theorems |
| `DriverFamilyWorkflow` | from one judgment's answer to the next question or to the result (pure operators) |
| `JudgmentPipeline` | several pipeline runs over one snapshot: gateway, leases, envelopes, families, queue; EXTENDS `DriverFamilyWorkflow` |
| `JudgmentPipelineProofs` | its inductive invariant and theorems |
| `AssumptionRegister` | what the register promises: which value of an assumption is in force, and how it may change |
| `AssumptionChanges` | the tables of pending changes, approved entries and audits, and the statements run on them (operators) |
| `ReviewDesk` | the decision queue's handlers and the assumption endpoints over them; EXTENDS `AssumptionChanges`, implements `AssumptionRegister` |
| `ApprovedCases` | valuation runs that freeze, compile, store and execute an approved case beside the desk; EXTENDS `ReviewDesk` |
| `ReviewDeskProofs` | the inductive invariant of `ReviewDesk`, and its steps as steps of `AssumptionRegister` |
| `ApprovedCasesProofs` | the invariant of the runs, and the theorems about desk and runs together |
| `StatementView` | from facts and manifests to the view a reconciliation looks at (pure operators) |
| `StatementReadiness` | from a view to findings and a status (pure operators); EXTENDS `StatementView` |
| `StatementLedger` | ingestion, reconcilers and the PM over the tables; EXTENDS `StatementReadiness` |
| `StatementLedgerProofs` | its inductive invariant and theorems |
| `OverrideDesk` | the API's background runs and every writer of the recommendations and overrides files |
| `OverrideDeskProofs` | its inductive invariant and theorems |
| `MC*` | constants for TLC |

Every operator whose comment says `Mutant` is a plausible bug of the code, used to make
sure that the property it is paired with can fail; no action uses it.

### TickerBatch

The coordinator's program counter `cpc` follows `run_ticker_batch`: `preterminal`
(292-300), `submit` (314-338), `loop` and `wait` (341-353), `collect` (354-370),
`observe`/`cancel`/`flush` (the deadline branch, 372-404), `shutdown`, `assemble`. One
action is one thing another thread can see: each checkpoint, each `executor.submit`, the
read of `future.running()` and the `future.cancel()` after it. A worker goes through
`attempting` (447), `limiting` (456), `invoking` (468) and `calling`; `done` is a finished
future. Time is the bit `expired`: the batch deadline has passed. `run_ticker`, the rate
limiter and the checkpoint belong to the caller: the first may hang, all may raise. A
terminal record is a kind (its reason code) and an attempt count. Requests with duplicates
of one context collapse before the model starts. `lateCalls` is a history variable.

### WorkupRuns

A run loads the prior rows, freezes a context (`Version`) for each ticker from the inputs
of the moment, resumes or executes, and persists each answer: the SELECT and the INSERT of
`persist_ticker_terminal_outcome` are two steps because the SELECT takes no lock. The code
loads priors ticker by ticker; the model loads them at once, which no property can tell
from an order in which the changes come before or after. `Kill` ends a run between any two
steps.

### DriverFamilyWorkflow and JudgmentPipeline

A call is identified by what its `invocation_hash` depends on: family, stage, and the
proposal and critique the prompt quotes. A thread (run, family) loops over LookUp, Reserve,
SecondLookUp, the provider, and Release, which returns to the workflow. When all families
of a run have ended its own thread persists envelopes, then takes family by family a
model-change request and a queue item. SQLite callbacks of the threads are executed one
at a time by the run's thread and committed at once, so each is one step. Proposals are
model values; a critique is its verdict and whether it challenges the methodology, with
evidence the snapshot holds (`founded`) or not (`unfounded`). Family numbers are in enum
order. Which of several cached envelopes is the newest is left open. `lapsed` is a history
variable: the threads whose lease ran out while the provider was working; calls exclude each
other but for those.

### AssumptionChanges and ReviewDesk

A handler reads its item when it starts and writes it when it ends (`copy`), in steps that
end at each commit: the assumption changes are created, approved and applied on connections of
their own, each apply reads the approved rows before its transaction begins, and a handler
may raise or die between any two steps. `market` is what drivers compute to and moves at
any moment. Numbers stand for assumption values, a pack is its proposals (target, delta or
scenarios) or a family pack with its snapshot, the critic's acceptance and whether its
horizon fits; a fingerprint is the record of what the code hashes. `previewed` records what
previews put into their items. An apply enters its rows in the order of their ids, as a single
assignment (`Entered`): the last row of an assumption stays active, as after the loop of
UPDATE and INSERT. `ImplementsRegister` maps the entries table to
`AssumptionRegister`.

What the model shows besides: an apply that began before an edit writes back the links it read
and so can erase the approval of a family pack the item has become meanwhile (which is why
`ApprovedFamiliesValidate` and `SupersededHaveSuccessors` speak of items proposed as a
family: of all items they are false, by a queue of one ordinary pack and seven calls); an apply
of rows that another handler applied first writes an
audit with nothing changed; two overlapping approvals of one family both stay approved, and
`load_approved_family_bundle` then raises for the ticker; a decided item can be reopened by a
handler that read it before; a family pack whose final critic said "revise" can never be
previewed, so never approved.

### ApprovedCases

`prepare_ticker_run` and `execute_prepared_ticker` of one ticker: freeze a snapshot (its hash
is what it was built from), load the approvals of this very snapshot, compile, store the
replay, wait for the batch, then validate approvals and requests again before the result is
called decision-grade. Each SELECT is a step. `upheld` and `clear` record that the
approvals stood, and that no request was pending, at some moment of the execution: without locks
the code can promise no more. `build_valuation_readiness` does not count pending requests,
so what it froze is not enough, and `persist` and `load` look again.

### StatementView, StatementReadiness and StatementLedger

An ingestion commits facts, then the manifest that binds them; a reconciler reads facts,
then manifests and treatments, commits its run, then supersedes other views' pending items and
inserts its own. A handler of the PM (`preview`, `edit`, `approve`, `reject`, `defer` of
`pm_decision_queue.py`) reads a finding and checks its status in one step (`ReadItem`) and writes it in
another, or raises (`Leave`): `update_pm_decision_queue_item` names the id only, so it writes whatever
has become of the item. Findings are proposed without a pack; the PM may edit any pack in, and a
preview is recorded in the status only for a driver family's. What approving a pack does to the register is
`ReviewDesk`'s; here approved, rejected and deferred are all `decided`. `found` and
`inHand` are history: what the reconciliation that queued last found, and what else was previewed or
read by a handler at that moment. The row of a run is a function of what was read (`Assessed`); `RunOf` looks it
up among the `Assessments` of all readings there can be, so that TLC computes each once. A fact is a figure with its source, filing or CIQ run, dates and key; a
document is a set of facts and a manifest. Tolerance is one number; years have one income and
one cash flow figure that is required, assets, claims, cash and the cash change. The fifteen
documents are two 10-Ks, amendments that break a figure, the balance or the cash bridge, a
10-Q's trailing window, CIQ workbooks that agree, correct, lack a line, date a window
differently or repeat what an amendment broke, and an empty one.

What the model shows besides: a CIQ manifest is chosen by its cutoff, not by when it was
created; a newer incomplete manifest hides an older complete one; treatments are not read
as of the cutoff; a view that returns (A, B, A) finds its items superseded and does not
reopen them. The findings of two views can be open side by side: an edit that read a finding before its
view was replaced makes it pending again (`pm_decision_queue.py` 684-739), and a previewed finding is
not superseded at all (`statement_reconciliation_service.py` 1974-1981). `OneViewButForWorkInHand` says
that there is no third way. A decided finding can be reopened by a handler that read it before. The view keeps trailing figures of the exact dates of one window, which the filing
dates (`statement_reconciliation_service.py` 986): where a filer of 52-week years and CIQ date its start a
day apart, CIQ's figures are dropped and reported missing, although comparisons allow that day so
that figures do pair (`source_reconciliation.py` 971-995).

### OverrideDesk

A session is a background run of the API (`workbench`, `wacc`, `recommend`) or a process of
its own: `--approve` on the command line, the dashboard's preview and apply, a full run
that rewrites the recommendations. `Submit`, `StartRun`, `RunFails` and `RestartServer` are
`run_tracker.py`; the other actions are the reads and writes of two files. `write_text`
empties a file before it fills it, so a write is two steps and readers may find the file empty,
which the code takes for "nothing there". A key is an agent:field pair; two keys may be
about one field, and the last extracted wins. `pointed`, `taken` and `shown` are history: the keys the
PM approved or previewed; the keys a run found under the field it had been asked for; and the
numbers the PM had before him when approving or asking.

A request of the workbench or of the recommendations page names a field and no agent, and its run reads
the file again when it begins (`override_workbench.py` 82-90 and 292, `recommendations.py` 397-412). If a
full run ends in between, the number of an agent the PM has not seen, or has rejected, is approved
and applied. `DecisionsStayWithTheirAgent` therefore counts as chosen what such a run found when it began,
and no more: what agents propose for the field later needs a decision of its own.

Assumed: of two overlapping `write_text` calls the file keeps the last one's content.
Left open: what agents propose, whether "default" removes an override or writes the
baseline (it depends on a valuation that reads overrides through a process-wide
`lru_cache`), and an interactive session may be closed anywhere. Fields of the EV bridge, which
`apply_approved_to_overrides` refuses, are not proposed. Its call of
`apply_pending_assumption_stack` changes nothing: it passes the ids of *pending* rows, and
only approved rows are applied, although the module's header says applied numbers go to
`approved_assumption_entries`. Other things a reader of the module meets: the dashboard's
preview leaves the previewed fields approved if the preview is not available or raises;
an audit that cannot be written marks a run failed whose file is already written.

## Runs

| run | instance | distinct states | shows |
|---|---|---|---|
| `ticker_batch` | 3 tickers, 2 lanes, 2 threads, 2 in flight, 2 attempts | 811 thousand | all safety properties of the batch; it returns; it implements `BatchContract`, liveness included |
| `workup_runs` | 3 runs, 1 ticker, 2 batches, 2 contexts | 376 thousand | reports are durable and for their context |
| `workup_runs_retry` | 2 runs, 2 tickers | | **violation**: `RetryableRowIsReplaced` |
| `judgment_overlap` | 2 runs, 1 family, forced or not, leases that lapse | 160 thousand | traceability; exclusive calls; a successor keeps its lease; runs end |
| `judgment_families` | 1 run, 2 families, every kind of critique, storage that fails | 162 thousand | failures stay isolated |
| `judgment_unfounded` | 1 run, 2 families | | **violation**: `SuccessfulFamiliesReachTheQueue` |
| `review_desk` | 2 handlers, 2 valuation runs, 11 desks, 2 changes, 2 entries | 1.55 million | the desk's properties; `AssumptionRegister` is implemented; decision-grade cases |
| `review_findings` | the same, a desk with a finding | | **violation**: `QueueValuesWerePreviewed` |
| `statement_ledger` | 2 reconcilers, 2 handlers of the PM on one quantity's findings, 6 histories of documents, 2 runs, with a cutoff or without | 131 thousand | what decision-grade rests on; a view keeps the years; replays; what is open follows the view, but for work in hand |
| `statement_alternates` | the same documents | | **violation**: `AlternatesAreCompared` |
| `override_desk` | 3 sessions in 8 casts, 2 threads, 2 keys of one field, 1 edit by hand | 433 thousand | runs end; decisions stay with their agent |
| `override_approvals` | an approval, a full run, an apply; 2 values | | **violation**: `AppliedNumbersWereApproved` |

Why the bounds are enough. *Batch*: three tickers with two on a lane of limit 1 make a
ticker wait for its lane while another is in flight and a third is pending; two threads
and two attempts give a retry that races the deadline; the three requests and three
priors contain each class of intake. *Workup runs*: tickers never share a row, so one is
enough; a third run sees what two racing ones left; two batch ids and two contexts give
equal and different outcomes. *Judgment*: a lease concerns two parties, so two runs; the
order of families matters only pairwise, so two families in one run; one proposal is enough
where calls are to coincide, which is the bad case. *Review desk*: a race is between two
handlers, and every desk has at most two items, which is what a race needs; each desk allows the
three or four calls its story takes (edit, preview, approve, apply); two entries show what
the older one becomes. *Statements*: the rules on years are about consecutive pairs, so
two years, and `MinAnnual` is 2 where the code asks for 3; a history is one story of
vintages, in which every order of commits and reads is explored; the PM takes up the findings of one
quantity (`Attended`): no finding's status depends on another's. *Overrides*: a lost
update takes two writers and a third party who acts on the result; three runs on two threads
make one wait, as five on four do; one value is enough for whose number it is, two for
which number it is.

Symmetry is used in `workup_runs` (runs), `review_desk` and `review_findings` (handlers) and
`statement_ledger` (reconcilers and handlers), which have no liveness property.
`CHECK_DEADLOCK FALSE` is set where the bounds make the system stop: `workup_runs_retry`
(inputs have one version), the review desk (calls are counted), the statement ledger
(documents and runs are counted).

### What the violations show

1. `RetryableRowIsReplaced`. `ticker_batch.py` 127-129 requires a checkpoint that replaces
   a ticker's record; `persist_ticker_terminal_outcome` (`ticker_terminal_store.py` 285)
   only inserts. A ticker stored as retryable is executed again by every later run, and every time
   its answer is refused and reported as `runner.checkpoint_failed`.
2. `SuccessfulFamiliesReachTheQueue`. A critique blocked for an unknown evidence anchor is
   kept in the result, and `snapshot.evidence[anchor]` (`valuation_judgment_pipeline.py`
   365) raises KeyError: later families are not queued. The docstring (237-239) and
   `test_concurrent_family_failure_does_not_cancel_other_families` say otherwise. The
   critique is cached as a success, so another run repeats it.
3. `QueueValuesWerePreviewed`. `edit_pm_decision_queue_item` writes a pack into any open item, and
   `approve_pm_decision_queue_item` (`pm_decision_queue.py` 848) holds only
   `assumption_change_pack` items to their preview: a pack edited into an advisory finding is
   approved and applied unpreviewed.
   `docs/plans/completed/2026-05-22-agentic-handoff-mvp-hardening.md` 30 requires that
   previewed values match applied ones, and `src/contracts/pm_decision_queue.py` 273
   refuses such an item.
4. `AlternatesAreCompared`. Two presentations of the net change in cash satisfy an expected
   quantity for each other, but only equal keys are compared (`source_reconciliation.py` 1017): sources
   that differ are neither missing nor in disagreement. The comment at 1033-1035 says the
   tolerance arbitrates.
5. `AppliedNumbersWereApproved`. A full run keeps the status of an agent:field pair when the
   number changes (`recommendations.py` 177), and the next apply writes the new
   number. `docs/handbook/qoe-agent.md` 167 says the PM must explicitly approve it.

Overlapping judgment runs also queue one pack twice: the packs already queued are read
once, before the provider calls (`valuation_judgment_pipeline.py` 293), and the insert checks
nothing for these items. The repository promises idempotence of runs one after the other only, so no
property forbids it. It also leaves open whether an answer is asked for again between the release
of its lease and its persistence, which happens.

## Fairness

`TickerBatch`: weak fairness of the coordinator's thread and of the clock. Nothing is
assumed of the workers: `run_ticker` may hang, which is what the deadline is for.
`JudgmentPipeline`: weak fairness of every thread of a started run; a provider call ends
because `transport_timeout_seconds` bounds it. Runs need not be started, may be killed, and a lease need never
expire; storage is not asked to fail. `OverrideDesk`: weak fairness of the executor's threads,
which take a run and go on with it; nothing is asked of the PM, of interactive sessions or of
full runs. This is what an operating system gives a running process. `WorkupRuns`,
`ReviewDesk`, `ApprovedCases` and `StatementLedger` have no liveness property: their handlers may die
anywhere, and nobody has to start them again.

## Proofs

Every theorem holds for every value of the constants that satisfies the assumptions named in
the modules, and no module assumes anything else. These are: finitely many tickers, positive limits and
requests that name every ticker (`TickerBatch`); finitely many agent:field keys (`KeyAssumption`
of `OverrideDesk`: an agent's report is finite); a document is published once and finitely many
are still to come (`HistoriesAssumption`); drivers compute to numbers or the ticker has no inputs
(`MarketAssumption`); what a PM writes into an item is a pack whose changes by an amount have one, as
the contract's validator demands (`EditAssumption`); and a desk starts with items that are open
or approved in the past with their event, with changes nobody approved and requests nobody
decided (`DeskAssumption`); the facts of a history are finitely many numbers with unique ids, and dated the
way statements are: flows and trailing figures have a start, total assets have none, only trailing figures are derived
(`FactsAssumption`); required flows are neither cash nor assets (`KeysAssumption`), and at least one year
is asked for (`BoundsAssumption`). The others give constants their types (tickers, keys, families and
values are numbers, bounds are natural, flags Boolean, a cast maps sessions to kinds, a critique
has a verdict and a challenge) and tell the placeholders `"none"` and `"unusable"`
apart from values. TLC evaluates all of them on the instances of the runs.

Each component has one inductive invariant, checked by TLC on the component's run before it was
proved; the properties follow from it. Hardly any of them is inductive by itself.

`TickerBatchProofs` proves `IInv` inductive. None of the properties is inductive by itself; the
parts of `IInv` are: what each thread's state implies (`ThreadInv`), what the current loop
may still visit (`VisitInv`), the partition of the runnable tickers into pending and
submitted (`StageInv`), when `stop` is set (`StopInv`), exactly which tickers have a
record and that it is one (`RecordInv`: the set `Open` of tickers still owed one), the
lane counters (`LaneInv`), the cardinalities behind the manifest's counts (`CountInv`), and
late calls (`LateInv`). The argument for `NoTickerLost` is typical: `submit` ends with no
future only if no pending ticker's lane has room, but a lane whose counter is the number
of its futures then has 0 of at least 1 slots taken. From `IInv` follow `TypeOK`,
`LimitsHold`, `NoTickerLost`, `CheckpointAgrees`, `DiscardedWorkIsRetryable`,
`AbandonedWorkWindsDown`; in `TickerBatchResults`, `ManifestNeverRefused`,
`RecordsAreHonest`, `CheckpointedOnce` and `BatchKeepsItsContract`: initial states map to
initial states of `BatchContract` and every step to one of its steps or a stutter.

`WorkupRunsProofs` proves `TypeOK`, `ReportsAreDurable` and `ReportsAreForThisContext`
for any number of runs, tickers, contexts and answers; what is needed beyond them is that a run's
prior rows and the row its SELECT found are still in the table (rows are never changed:
`PriorInv`, `HeldInv`), and that contexts are frozen before anything is reported (`FrozenInv`).

`JudgmentPipelineProofs` proves `TypeOK`, `CallsAreExclusive`, `QueuedPacksAreTraceable` and
`FailuresStayIsolated`, and the action property `SuccessorKeepsLease`, for any number of
runs, families and proposals. The invariant ties each step of a thread to the lease it holds:
whoever is between reservation and release either owns the lease of its call or has lapsed. What
a family has been answered is an envelope of its run's collector; a run that queues has stored all of them.

`OverrideDeskProofs` proves `TypeOK` and `DecisionsStayWithTheirAgent` for any number of sessions,
threads and keys. Whatever a session holds in memory or has half written (the files, the plan of
an apply, the merge it is about to put) comes from keys the PM pointed at or a run asked for by
field took: the invariant says so of every copy, because a stale copy becomes the file.

`StatementLedgerProofs` proves `TypeOK`, `OneViewButForWorkInHand`, `ReplaysAgree`, `DecisionGradeIsEarned`,
`ViewKeepsTheYears` and the action property `OnlyThePmReopens` for any facts, manifests, histories, reconcilers and handlers. Needed are that every
reading is one the ledger could give (facts and manifests only grow, and manifests in one order),
so that `RunOf` finds it; that every item is a finding of a stored run, with one item for each; and that what
a handler has read is such a finding and was found by the last reconciliation or in hand when it
queued (`HandledInv`): an item it makes pending again then is, too. `ReplaysAgree`
rests on lemmas about the selection of facts and manifests: with a cutoff none of them looks at
what is dated after it. `DecisionGradeIsEarned` (theorem `GradesAreEarned`) says what a grade means
without the code's own words for it, and its proof is about the operators rather than about steps. The
code compares and checks the *consolidated* filings, the first of each quantity in a lexicographic order
of ranks; these orders are total and a finite set has a greatest member, so the one kept is a
newest filed (`HighestRank`, `ConsolidatedIsNewest`), and the years do not depend on which vintage is kept
(`SameYears`). A view holds the trailing figures of one window (`WindowIsOne`), so a figure at
its end and one of the code's expected quantities are the same figure (`TrailingPreferred`). Neither a
missing nor a disagreement finding then leaves every expected figure corroborated (`YearCorroborated`,
`WindowCorroborated`); no failed check, and none left out, leaves every year balanced
(`YearBalances`) and bridged to the day before it (`YearBridges`). `ViewKeepsTheYears` needs two halves: fewer facts complete
no more years (`NoYearsAdded`: a combined line that only a part of the facts leaves to CIQ stands beside the
filing's own figure in all of them), and the newest of a set of years stay the newest when only
older ones go (`LatestOfFewer`). One limit showed: net income, when
a filing and CIQ show it on different statements, is demanded of both but not compared, and `Corroborated` says so.

`ReviewDeskProofs` and `ApprovedCasesProofs` prove all invariants of `review_desk` for any queues,
packs, edits, handlers, bounds and valuation runs. A handler writes back the row it read, so `IInv`
says of every copy a handler holds what it says of the rows (`CopyOK`), relative to what has happened so
far (`World`: changes decided, approved, entered; values shown; items once approved), which only
grows: that is why a stale copy still speaks the truth (`Later`, `JobGrows`). With that,
`AppliedValuesWerePreviewed` follows from the fingerprint an approval compares (the pack it
resolved is the one a preview recorded), `ApprovedItemsAreBacked` from the changes of a link being
decided before the link is written, `SupersededHaveSuccessors` from the approvals a handler
has listed. `RunsInv` adds what a run has seen when it reports. `RegisterImplemented` is the
whole refinement, `CaseSpec => ImplementsRegister`: creating, approving, rejecting and
deferring are `Approve` steps, an apply is one `Apply` step of the stack it selected
(`RegisterApplies`: the last row entered for an assumption is the value in force, and an assumption
without a row keeps its own), everything else stutters.

Only model-checked: liveness (`BatchReturns`, `StartedRunsEnd`, `SubmittedRunsEnd`) and the
fairness part of `ImplementsContract`. Proofs of liveness under fairness and of ENABLED are beyond
the prover. Every other property of a passing run is a theorem. `OnlyThePmReopens` is proved only: no run
lists it.

## Plan

1. The batch's contract for `WorkupRuns`: that `WorkupRuns` assumes of the batch no more than
   `BatchContract` gives.
2. Source refresh and trailing facts: what a refresh of filings and CIQ commits and in which order
   (`statement_source_refresh.py`, `xbrl_evidence.py`), instead of the documents `StatementLedger` is given.
3. `WorkupRuns` over `JudgmentPipeline`: how `JudgmentInvocationInProgressError` becomes a
   permanent record.

## Not modelled

Most of the repository computes, fetches or presents, one step after the other, and has no behaviour a
model checker would add to what its tests show: valuation arithmetic (DCF, WACC, comps,
input assembly, the replay's recomputation), screening filters, accounting evidence,
evidence packets; data clients, agents and their prompts, CIQ and IBKR links; exports,
dossiers, reports, dashboards, front end, scripts. These make up nine tenths of its
lines, which is why the modules here, although they follow the parts that share state,
fail half-way or race, cover about a tenth of the whole.

Within the modelled components:

- logging, payload sizes, prompt projections, identity checks that cannot fail for the
  pipeline's own calls, snapshot blockers (the pipeline returns before changing anything),
  and the argument checks at the head of `run_ticker_batch`;
- the `except Exception` around `future.result()` (`ticker_batch.py` 357-366): a worker answers with a record
  whatever `run_ticker` raises; figures without a period kind, which the ledger's facts never are
  (`source_reconciliation.py` 1007-1012; "reported" is modelled);
- `preview_pending_assumption_stack` and other reads; row mapping in `db/loader.py`; the
  integrity hashes of stored rows;
- calculation rollups (`source_reconciliation.py` 1336-1868) and conflict groups (434-516),
  mismatches of unit, currency, sign or FX, the derivation of trailing facts, and the
  refresh's network I/O;
- the batch valuation's driver-family bridge, which picks the newest approval of each
  family and computes;
- tickers other than the one at hand in `valuation_overrides.yaml`, which an overlapping
  write can lose in the same way.
