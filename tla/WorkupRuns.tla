------------------------------ MODULE WorkupRuns ------------------------------
(***************************************************************************)
(* run_persisted_valuation_workups, run again and again under one          *)
(* execution_run_id: every run loads the terminal rows the earlier runs    *)
(* left, freezes a context for each ticker from the inputs of the moment,  *)
(* resumes what is final for that context, executes the rest and persists  *)
(* every answer through persist_ticker_terminal_outcome.  Runs may overlap *)
(* and may be killed; the ticker_terminal_outcomes table outlives them.    *)
(*                                                                         *)
(* The batch inside a run is TickerBatch; here it is what BatchContract    *)
(* promises of it: each ticker is settled once, in some order.             *)
(***************************************************************************)
EXTENDS Naturals

CONSTANTS
  Ticker,         \* identity_key of the requested identities
  Run,            \* invocations of run_persisted_valuation_workups
  BatchId,        \* batch_run_id values the callers pass
  Version,        \* contexts a ticker's inputs can be frozen into
  Result,         \* non-retryable answers (status, reason, result_fingerprint)
  StorageMayFail  \* whether SQLite may raise on its own account

ASSUME StorageAssumption == StorageMayFail \in BOOLEAN

\* Placeholders are told apart from contexts, tickers and answers.
ASSUME NameAssumption == "none" \notin Version /\ "none" \notin Ticker /\ "none" \notin BatchId

VARIABLES
  table,    \* ticker_terminal_outcomes rows of this execution_run_id
  inputs,   \* the version of a ticker's persisted inputs right now
  rpc,      \* where a run is
  batchId,  \* its batch_run_id
  prior,    \* prior_records it loaded
  context,  \* the context it froze for each ticker
  todo,     \* tickers it has still to prepare, then to settle
  held,     \* the record being persisted, and the row its SELECT returned
  report    \* its manifest so far

runVars == <<rpc, batchId, prior, context, todo, held, report>>
vars == <<table, inputs, runVars>>

-----------------------------------------------------------------------------
(* A record: the context it answers and the answer.  Two records have the same
   checkpoint_fingerprint exactly when they are equal (attempt_count and
   reason_detail are not hashed). *)

\* The reason codes a worker or the deadline branch gives with retryable=True.
RetryAnswer == {"transient_exception", "deadline_exceeded"}

Answer == Result \cup RetryAnswer

Record == [context : Version, answer : Answer]

Retryable(record) == record.answer \in RetryAnswer

Row == [batch : BatchId, record : Record]

Unsettled == [context |-> "none", answer |-> "unsettled"]

NoRow == [batch |-> "none", record |-> Unsettled]

\* runner.checkpoint_failed takes the place of a record that was not persisted.
CheckpointFailed == [context |-> "none", answer |-> "checkpoint_failed"]

Nothing == [ticker |-> "none", record |-> Unsettled, found |-> NoRow]

TypeOK ==
  /\ table \in [Ticker -> Row \cup {NoRow}]
  /\ inputs \in [Ticker -> Version]
  /\ rpc \in [Run -> {"idle", "preparing", "running", "returned", "killed"}]
  /\ batchId \in [Run -> BatchId]
  /\ prior \in [Run -> [Ticker -> Row \cup {NoRow}]]
  /\ context \in [Run -> [Ticker -> Version]]
  /\ todo \in [Run -> SUBSET Ticker]
  /\ held \in [Run -> [ticker : Ticker, record : Record, found : Row \cup {NoRow}]
                      \cup {Nothing}]
  /\ report \in [Run -> [Ticker -> Record \cup {Unsettled, CheckpointFailed}]]

Init ==
  /\ table = [t \in Ticker |-> NoRow]
  /\ inputs \in [Ticker -> Version]
  /\ rpc = [r \in Run |-> "idle"]
  /\ batchId \in [Run -> BatchId]
  /\ prior = [r \in Run |-> [t \in Ticker |-> NoRow]]
  /\ context = [r \in Run |-> inputs]
  /\ todo = [r \in Run |-> {}]
  /\ held = [r \in Run |-> Nothing]
  /\ report = [r \in Run |-> [t \in Ticker |-> Unsettled]]

-----------------------------------------------------------------------------

\* _load_prior_records.
LoadPriorRecords(r) ==
  /\ rpc[r] = "idle"
  /\ rpc' = [rpc EXCEPT ![r] = "preparing"]
  /\ prior' = [prior EXCEPT ![r] = table]
  /\ todo' = [todo EXCEPT ![r] = Ticker]
  /\ UNCHANGED <<table, inputs, batchId, context, held, report>>

\* material_loader and prepare_run freeze what the database holds now.
Prepare(r, t) ==
  /\ rpc[r] = "preparing"
  /\ t \in todo[r]
  /\ context' = [context EXCEPT ![r][t] = inputs[t]]
  /\ todo' = [todo EXCEPT ![r] = @ \ {t}]
  /\ UNCHANGED <<table, inputs, rpc, batchId, prior, held, report>>

StartBatch(r) ==
  /\ rpc[r] = "preparing"
  /\ todo[r] = {}
  /\ rpc' = [rpc EXCEPT ![r] = "running"]
  /\ todo' = [todo EXCEPT ![r] = Ticker]
  /\ UNCHANGED <<table, inputs, batchId, prior, context, held, report>>

\* Mutant: prior records are matched by identity, not by context.
ResumesAnyContext(r, t) ==
  prior[r][t] # NoRow /\ ~Retryable(prior[r][t].record)

\* A prior record is reused when it is final and answers this very context.
Resumes(r, t) ==
  /\ prior[r][t] # NoRow
  /\ ~Retryable(prior[r][t].record)
  /\ prior[r][t].record.context = context[r][t]

Resume(r, t) ==
  /\ rpc[r] = "running"
  /\ t \in todo[r]
  /\ Resumes(r, t)
  /\ todo' = [todo EXCEPT ![r] = @ \ {t}]
  /\ report' = [report EXCEPT ![r][t] = prior[r][t].record]
  /\ UNCHANGED <<table, inputs, rpc, batchId, prior, context, held>>

\* The batch has an answer; checkpoint begins with the SELECT of
\* persist_ticker_terminal_outcome, which takes no lock.
SelectRow(r, t) ==
  /\ rpc[r] = "running"
  /\ t \in todo[r]
  /\ ~Resumes(r, t)
  /\ held[r] = Nothing
  /\ \E answer \in Answer :
       held' = [held EXCEPT ![r] =
                  [ticker |-> t, record |-> [context |-> context[r][t], answer |-> answer],
                   found  |-> table[t]]]
  /\ todo' = [todo EXCEPT ![r] = @ \ {t}]
  /\ UNCHANGED <<table, inputs, rpc, batchId, prior, context, report>>

Settle(r, outcome) ==
  /\ report' = [report EXCEPT ![r][held[r].ticker] = outcome]
  /\ held' = [held EXCEPT ![r] = Nothing]
  /\ UNCHANGED <<inputs, rpc, batchId, prior, context, todo>>

\* Mutant: the batch_run_id is not passed on to the store.
BatchOmitted(r) == "none"

BatchOf(r) == batchId[r]

\* Mutant: INSERT OR REPLACE.
InsertReplaces(t) == TRUE

\* UNIQUE (execution_run_id, identity_key).
InsertSucceeds(t) == table[t] = NoRow

\* No row was found: insert one, unless another run did so in the meantime.
InsertRow(r) ==
  /\ held[r] # Nothing
  /\ held[r].found = NoRow
  /\ LET t == held[r].ticker
     IN  IF InsertSucceeds(t)
         THEN /\ table' = [table EXCEPT ![t] = [batch  |-> BatchOf(r),
                                                record |-> held[r].record]]
              /\ Settle(r, held[r].record)
         ELSE Settle(r, CheckpointFailed) /\ UNCHANGED table

\* outcome_id hashes the batch_run_id too.
SameOutcome(r) ==
  /\ held[r].found.batch = BatchOf(r)
  /\ held[r].found.record = held[r].record

\* A row was found: an identical record is accepted, any other is an
\* idempotency conflict.
CompareRow(r) ==
  /\ held[r] # Nothing
  /\ held[r].found # NoRow
  /\ Settle(r, IF SameOutcome(r) THEN held[r].record ELSE CheckpointFailed)
  /\ UNCHANGED table

StorageFails(r) ==
  /\ StorageMayFail
  /\ held[r] # Nothing
  /\ Settle(r, CheckpointFailed)
  /\ UNCHANGED table

ReturnManifest(r) ==
  /\ rpc[r] = "running"
  /\ todo[r] = {}
  /\ held[r] = Nothing
  /\ rpc' = [rpc EXCEPT ![r] = "returned"]
  /\ UNCHANGED <<table, inputs, batchId, prior, context, todo, held, report>>

\* The process dies, between any two steps; a transaction not committed is gone.
Kill(r) ==
  /\ rpc[r] \in {"preparing", "running"}
  /\ rpc' = [rpc EXCEPT ![r] = "killed"]
  /\ todo' = [todo EXCEPT ![r] = {}]
  /\ held' = [held EXCEPT ![r] = Nothing]
  /\ UNCHANGED <<table, inputs, batchId, prior, context, report>>

\* A filing, a price or an approval changes what the next run will freeze.
InputsChange(t) ==
  /\ \E v \in Version \ {inputs[t]} : inputs' = [inputs EXCEPT ![t] = v]
  /\ UNCHANGED <<table, runVars>>

Next ==
  \/ \E r \in Run :
       \/ LoadPriorRecords(r)
       \/ StartBatch(r)
       \/ InsertRow(r)
       \/ CompareRow(r)
       \/ StorageFails(r)
       \/ ReturnManifest(r)
       \/ Kill(r)
       \/ \E t \in Ticker : Prepare(r, t) \/ Resume(r, t) \/ SelectRow(r, t)
  \/ \E t \in Ticker : InputsChange(t)

Spec == Init /\ [][Next]_vars

-----------------------------------------------------------------------------

Reported(r, t) == report[r][t] \notin {Unsettled, CheckpointFailed}

(***************************************************************************)
(* What a manifest reports as an answer is what the table holds, whatever  *)
(* other runs do before, meanwhile or later: no run, overlapping or        *)
(* resumed, ever tells its caller of an answer that is not durable         *)
(* (ticker_terminal_store.py 254-298, valuation_workup_service.py 953-966).*)
(***************************************************************************)
ReportsAreDurable ==
  \A r \in Run, t \in Ticker :
    Reported(r, t) => table[t] # NoRow /\ table[t].record = report[r][t]

(***************************************************************************)
(* A run answers for the inputs it froze itself: an answer left by an      *)
(* earlier run for other inputs is never passed off as current             *)
(* (ticker_batch.py 240-252, valuation_workup_service.py 832-923).         *)
(***************************************************************************)
ReportsAreForThisContext ==
  \A r \in Run, t \in Ticker :
    Reported(r, t) => report[r][t].context = context[r][t]

(***************************************************************************)
(* "the checkpoint callback ... must replace one ticker record atomically" *)
(* (ticker_batch.py 127-129): when an earlier run left a retryable row and *)
(* this run executed the ticker again, its answer reaches the table.       *)
(***************************************************************************)
RetryableRowIsReplaced ==
  \A r \in Run, t \in Ticker :
    prior[r][t] # NoRow /\ Retryable(prior[r][t].record)
      => report[r][t] # CheckpointFailed
==============================================================================
