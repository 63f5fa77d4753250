----------------------------- MODULE TickerBatch -----------------------------
(***************************************************************************)
(* run_ticker_batch: one coordinator thread that keeps a bounded number of *)
(* tickers in a ThreadPoolExecutor, collects what they answer, checkpoints *)
(* every answer, and stops at a deadline without waiting for workers that  *)
(* do not come back.  Each worker runs _run_with_retry.                    *)
(*                                                                         *)
(* The clock is one bit: `expired' says that the batch deadline has passed *)
(* on time.monotonic().  run_ticker, the rate limiter and the checkpoint   *)
(* callback belong to the caller: run_ticker may never answer, all three   *)
(* may raise.                                                              *)
(***************************************************************************)
EXTENDS Integers, Sequences, BatchIntake

CONSTANTS
  Requests,     \* the sets of contexts a caller may request
  Priors,       \* the sets of prior records a caller may resume from
  Lane,         \* provider lanes
  LaneOf,       \* the lane provider_lane resolves a ticker to
  LaneLimits,   \* provider_lane_limits, for the lanes it names
  MaxWorkers,   \* threads of the executor
  MaxInFlight,  \* tickers submitted and not yet collected
  MaxAttempts   \* RetryPolicy.max_attempts

ASSUME TickerAssumption == IsFiniteSet(Ticker) /\ Ticker \subseteq Nat
ASSUME LaneAssumption ==
  /\ LaneOf \in [Ticker -> Lane]
  /\ DOMAIN LaneLimits \subseteq Lane
  /\ \A l \in DOMAIN LaneLimits : LaneLimits[l] \in Nat \ {0}
ASSUME RequestAssumption ==
  \A request \in Requests :
    /\ request \subseteq Context
    /\ \A t \in Ticker : Variants(request, t) # {}
ASSUME CapacityAssumption ==
  /\ MaxWorkers \in Nat \ {0}
  /\ MaxInFlight \in Nat \ {0}
  /\ MaxAttempts \in Nat \ {0}

VARIABLES
  class,         \* Classification of the request
  cpc,           \* where the coordinator is
  todo,          \* the tickers its current loop has still to visit
  pending,       \* runnable tickers not yet submitted
  futures,       \* submitted tickers not yet collected
  laneInFlight,  \* lane_in_flight
  submitted,     \* submitted_context_keys
  unscheduled,   \* unscheduled_deadline_count
  observed,      \* future.running() as the coordinator last read it
  timeoutTries,  \* attempt_count of the timed-out record of a ticker
  queue,         \* the executor's work queue
  worker,        \* state of a ticker's future and of the thread running it
  attempt,       \* attempt_number of that thread
  answer,        \* the record a finished worker left in its future
  records,       \* terminal records of a ticker in the manifest being built
  store,         \* what the checkpoint callback made durable
  expired,       \* batch_deadline has passed
  stop,          \* deadline_exceeded, and with it deadline_stop
  lateCalls      \* run_ticker calls begun after deadline_stop was set

scheduleVars == <<pending, futures, laneInFlight, submitted>>
timeoutVars  == <<unscheduled, observed, timeoutTries>>
outcomeVars  == <<records, store>>
coordinatorVars ==
  <<class, cpc, todo, stop, scheduleVars, timeoutVars, outcomeVars>>
threadVars   == <<attempt, answer, lateCalls>>
executorVars == <<queue, worker, threadVars>>
vars == <<coordinatorVars, executorVars, expired>>

-----------------------------------------------------------------------------
(* Terminal records: reason code (by kind) and attempt_count. *)

Kind == {"resumed", "conflict", "prior_conflict", "ineligible", "lane_failed",
         "result", "permanent", "transient", "deadline", "checkpoint_failed"}

\* The kinds whose record says retryable=True.
RetryableKind == {"transient", "deadline", "checkpoint_failed"}

Record == [kind : Kind, attempts : Nat]

NoRecord == [kind |-> "none", attempts |-> 0]

\* Threads inside _run_with_retry: exactly these make future.running() true.
ActiveState == {"attempting", "limiting", "invoking", "calling"}

WorkerState == ActiveState \cup {"idle", "queued", "cancelled", "done"}

CoordinatorState ==
  {"preterminal", "submit", "loop", "wait", "collect", "observe", "cancel",
   "flush", "shutdown", "assemble", "returned", "raised"}

Active == { t \in Ticker : worker[t] \in ActiveState }

OnLane(S, l) == { t \in S : LaneOf[t] = l }

Preterminal == { t \in Ticker : class[t] \in PreterminalClass }

Resumed == { t \in Ticker : class[t] = "resumed" }

TypeOK ==
  /\ class \in [Ticker -> TickerClass]
  /\ cpc \in CoordinatorState
  /\ todo \subseteq Ticker
  /\ pending \subseteq Ticker
  /\ futures \subseteq Ticker
  /\ laneInFlight \in [Lane -> Int]
  /\ submitted \subseteq Ticker
  /\ unscheduled \in Nat
  /\ observed \in {0, 1}
  /\ timeoutTries \in [Ticker -> {0, 1}]
  /\ queue \in Seq(Ticker)
  /\ worker \in [Ticker -> WorkerState]
  /\ attempt \in [Ticker -> 0..MaxAttempts]
  /\ answer \in [Ticker -> Record \cup {NoRecord}]
  /\ records \in [Ticker -> Seq(Record)]
  /\ store \in [Ticker -> Record \cup {NoRecord}]
  /\ expired \in BOOLEAN
  /\ stop \in BOOLEAN
  /\ lateCalls \in [Ticker -> Nat]

ResumedRecord == [kind |-> "resumed", attempts |-> 1]

Init ==
  /\ \E request \in Requests, prior \in Priors :
       class = Classification(request, prior)
  /\ cpc = "preterminal"
  /\ todo = Preterminal
  /\ pending = { t \in Ticker : class[t] = "runnable" }
  /\ futures = {}
  /\ laneInFlight = [l \in Lane |-> 0]
  /\ submitted = {}
  /\ unscheduled = 0
  /\ observed = 0
  /\ timeoutTries = [t \in Ticker |-> 0]
  /\ queue = <<>>
  /\ worker = [t \in Ticker |-> "idle"]
  /\ attempt = [t \in Ticker |-> 0]
  /\ answer = [t \in Ticker |-> NoRecord]
  /\ records = [t \in Ticker |-> IF t \in Resumed THEN <<ResumedRecord>> ELSE <<>>]
  /\ store = [t \in Ticker |-> IF t \in Resumed THEN ResumedRecord ELSE NoRecord]
  /\ expired = FALSE
  /\ stop = FALSE
  /\ lateCalls = [t \in Ticker |-> 0]

-----------------------------------------------------------------------------
(* The coordinator. *)

Move(state, visit) ==
  /\ cpc' = state
  /\ todo' = visit
  /\ UNCHANGED <<class, scheduleVars, timeoutVars, outcomeVars, executorVars, expired>>

GoTo(state, visit) == Move(state, visit) /\ UNCHANGED stop

\* Mutant: a failed checkpoint is logged and the record reported as it was.
ReportAnyway(record) == record

FailedCheckpoint(record) ==
  [kind |-> "checkpoint_failed", attempts |-> record.attempts]

\* _checkpoint_record: when the callback raises, nothing was made durable and
\* a retryable record takes the place of the answer.
Checkpoint(t, record) ==
  \/ /\ store' = [store EXCEPT ![t] = record]
     /\ records' = [records EXCEPT ![t] = Append(@, record)]
  \/ /\ records' = [records EXCEPT ![t] = Append(@, FailedCheckpoint(record))]
     /\ UNCHANGED store

\* The answers the coordinator gives itself, checkpointed class by class.
PreterminalBefore(t, u) ==
  LET rt == PreterminalRank[class[t]]
      ru == PreterminalRank[class[u]]
  IN  rt < ru \/ (rt = ru /\ t <= u)

CheckpointPreterminal(t) ==
  /\ cpc = "preterminal"
  /\ t \in todo
  /\ \A u \in todo : PreterminalBefore(t, u)
  /\ Checkpoint(t, [kind |-> class[t], attempts |-> 0])
  /\ todo' = todo \ {t}
  /\ UNCHANGED <<class, cpc, stop, scheduleVars, timeoutVars, executorVars, expired>>

StartSubmitting == cpc = "preterminal" /\ todo = {} /\ GoTo("submit", {})

\* submit_until_capacity: the first pending ticker whose lane has room, as
\* long as fewer than max_in_flight tickers are out.
LimitOf(l) == IF l \in DOMAIN LaneLimits THEN LaneLimits[l] ELSE MaxWorkers

\* Mutant: the lane limit compared with <=.
LaneHasRoomForOneMore(t) == laneInFlight[LaneOf[t]] <= LimitOf(LaneOf[t])

LaneHasRoom(t) == laneInFlight[LaneOf[t]] < LimitOf(LaneOf[t])

FlightHasRoom == Cardinality(futures) < MaxInFlight

Submittable == { t \in pending : LaneHasRoom(t) }

Submit(t) ==
  /\ cpc = "submit"
  /\ FlightHasRoom
  /\ t \in Submittable
  /\ \A u \in Submittable : t <= u
  /\ pending' = pending \ {t}
  /\ futures' = futures \cup {t}
  /\ laneInFlight' = [laneInFlight EXCEPT ![LaneOf[t]] = @ + 1]
  /\ submitted' = submitted \cup {t}
  /\ queue' = Append(queue, t)
  /\ worker' = [worker EXCEPT ![t] = "queued"]
  /\ UNCHANGED <<class, cpc, todo, stop, timeoutVars, outcomeVars, threadVars, expired>>

AtCapacity ==
  cpc = "submit" /\ ~(FlightHasRoom /\ Submittable # {}) /\ GoTo("loop", {})

\* Leaving the loop for the deadline branch: deadline_stop is set at once.
GiveUp == Move("observe", futures) /\ stop' = TRUE

\* `while futures' is false.
LoopEnds == cpc = "loop" /\ futures = {} /\ GoTo("shutdown", {})

\* remaining_seconds <= 0 at the head of the loop, whatever has finished by now.
LoopFindsDeadline == cpc = "loop" /\ futures # {} /\ expired /\ GiveUp

LoopWaits == cpc = "loop" /\ futures # {} /\ ~expired /\ GoTo("wait", {})

Finished == { t \in futures : worker[t] = "done" }

\* wait(..., FIRST_COMPLETED) answers with everything finished at that moment...
WaitCompletes == cpc = "wait" /\ Finished # {} /\ GoTo("collect", Finished)

\* ... or with nothing, when the remaining time ran out first.
WaitTimesOut == cpc = "wait" /\ Finished = {} /\ expired /\ GiveUp

\* Mutant: the lane's slot is not given back.
KeepLane(t) == UNCHANGED laneInFlight

ReleaseLane(t) == laneInFlight' = [laneInFlight EXCEPT ![LaneOf[t]] = @ - 1]

\* One turn of `for future in completed', a set, so in any order.  The worker answers with
\* a record whatever run_ticker raises, so its result is never an exception.
Collect(t) ==
  /\ cpc = "collect"
  /\ t \in todo
  /\ futures' = futures \ {t}
  /\ ReleaseLane(t)
  /\ Checkpoint(t, answer[t])
  /\ todo' = todo \ {t}
  /\ cpc' = IF todo' = {} THEN "submit" ELSE "collect"
  /\ UNCHANGED <<class, pending, submitted, stop, timeoutVars, executorVars, expired>>

FirstOfTodo(t) == t \in todo /\ \A u \in todo : t <= u

\* attempt_count = 1 if future.running() else 0 ...
ObserveFuture(t) ==
  /\ cpc = "observe"
  /\ FirstOfTodo(t)
  /\ observed' = IF t \in Active THEN 1 ELSE 0
  /\ cpc' = "cancel"
  /\ UNCHANGED <<class, todo, stop, scheduleVars, unscheduled, timeoutTries,
                 outcomeVars, executorVars, expired>>

\* Mutants: the pending tickers are forgotten; every submitted ticker is timed
\* out, the collected ones too.
TimedOutInFlight == futures

TimedOutSubmitted == submitted \cup pending

TimedOut == futures \cup pending

\* ... then future.cancel(), which stops only a ticker no thread has taken yet.
\* After the last one the pending tickers get their records too.
CancelFuture(t) ==
  /\ cpc = "cancel"
  /\ FirstOfTodo(t)
  /\ worker' = [worker EXCEPT ![t] = IF @ = "queued" THEN "cancelled" ELSE @]
  /\ timeoutTries' = [timeoutTries EXCEPT ![t] = observed]
  /\ IF todo = {t}
     THEN /\ todo' = TimedOut
          /\ unscheduled' = Cardinality(pending)
          /\ cpc' = "flush"
     ELSE /\ todo' = todo \ {t}
          /\ cpc' = "observe"
          /\ UNCHANGED unscheduled
  /\ UNCHANGED <<class, stop, scheduleVars, observed, outcomeVars, queue, threadVars,
                 expired>>

\* timed_out_records: the futures in order, then the pending tickers in order.
FlushBefore(t, u) ==
  IF (t \in futures) = (u \in futures) THEN t <= u ELSE t \in futures

\* Mutant: a timed-out ticker is given up for good.
PermanentRecord(t) == [kind |-> "permanent", attempts |-> timeoutTries[t]]

DeadlineRecord(t) == [kind |-> "deadline", attempts |-> timeoutTries[t]]

FlushTimedOut(t) ==
  /\ cpc = "flush"
  /\ t \in todo
  /\ \A u \in todo : FlushBefore(t, u)
  /\ Checkpoint(t, DeadlineRecord(t))
  /\ todo' = todo \ {t}
  /\ cpc' = IF todo' = {} THEN "shutdown" ELSE "flush"
  /\ UNCHANGED <<class, stop, scheduleVars, timeoutVars, executorVars, expired>>

\* Mutant: the threads are joined after a deadline as well.
AlwaysJoinsThreads == TRUE

JoinsThreads == ~stop

\* shutdown(wait=False, cancel_futures=True) empties the queue; without a
\* deadline shutdown(wait=True) joins the threads.
Shutdown ==
  /\ cpc = "shutdown"
  /\ IF JoinsThreads
     THEN Active = {} /\ UNCHANGED <<worker, queue>>
     ELSE /\ worker' = [t \in Ticker |-> IF worker[t] = "queued" THEN "cancelled"
                                         ELSE worker[t]]
          /\ queue' = <<>>
  /\ cpc' = "assemble"
  /\ UNCHANGED <<class, todo, stop, scheduleVars, timeoutVars, outcomeVars, threadVars,
                 expired>>

\* TickerBatchManifest's validator: one record per ticker, counts that add up.
ManifestReconciles ==
  /\ \A t \in Ticker : Len(records[t]) = 1
  /\ Cardinality(Ticker) = Cardinality(submitted) + Cardinality(Resumed)
                           + Cardinality(Preterminal) + unscheduled

AssembleManifest ==
  /\ cpc = "assemble"
  /\ GoTo(IF ManifestReconciles THEN "returned" ELSE "raised", {})

-----------------------------------------------------------------------------
(* The executor's threads, each inside _run_with_retry. *)

\* A free thread takes the oldest queued ticker; a cancelled one is dropped.
TakeWork ==
  /\ queue # <<>>
  /\ Cardinality(Active) < MaxWorkers
  /\ queue' = Tail(queue)
  /\ IF worker[Head(queue)] = "queued"
     THEN /\ worker' = [worker EXCEPT ![Head(queue)] = "attempting"]
          /\ attempt' = [attempt EXCEPT ![Head(queue)] = 1]
     ELSE UNCHANGED <<worker, attempt>>
  /\ UNCHANGED <<coordinatorVars, answer, lateCalls, expired>>

\* Mutant: the checks in _run_with_retry are dropped.
DeadlineNeverSeen == FALSE

DeadlineSeen == stop \/ expired

Finish(t, kind, attempts) ==
  /\ worker' = [worker EXCEPT ![t] = "done"]
  /\ answer' = [answer EXCEPT ![t] = [kind |-> kind, attempts |-> attempts]]
  /\ UNCHANGED attempt

\* Mutants: no retry budget; no retry at all.
RetriesForever(t, kind) == kind \in RetryableKind

NeverRetries(t, kind) == FALSE

Retries(t, kind) == kind \in RetryableKind /\ attempt[t] # MaxAttempts

\* The end of one attempt: retry only a retryable record, only within budget.
EndAttempt(t, kind) ==
  IF Retries(t, kind)
  THEN /\ worker' = [worker EXCEPT ![t] = "attempting"]
       /\ attempt' = [attempt EXCEPT ![t] = @ + 1]
       /\ UNCHANGED answer
  ELSE Finish(t, kind, attempt[t])

\* First deadline check of an attempt.
BeginAttempt(t) ==
  /\ worker[t] = "attempting"
  /\ IF DeadlineSeen
     THEN Finish(t, "deadline", attempt[t] - 1)
     ELSE worker' = [worker EXCEPT ![t] = "limiting"] /\ UNCHANGED <<attempt, answer>>
  /\ UNCHANGED <<coordinatorVars, queue, lateCalls, expired>>

\* The rate limiter raises ...
LimiterRaises(t) ==
  /\ worker[t] = "limiting"
  /\ \E kind \in {"transient", "permanent"} : EndAttempt(t, kind)
  /\ UNCHANGED <<coordinatorVars, queue, lateCalls, expired>>

\* ... or lets the ticker through to the second deadline check.
LimiterAdmits(t) ==
  /\ worker[t] = "limiting"
  /\ IF DeadlineSeen
     THEN Finish(t, "deadline", attempt[t])
     ELSE worker' = [worker EXCEPT ![t] = "invoking"] /\ UNCHANGED <<attempt, answer>>
  /\ UNCHANGED <<coordinatorVars, queue, lateCalls, expired>>

\* The call itself begins after that check, perhaps after the batch gave up.
Invoke(t) ==
  /\ worker[t] = "invoking"
  /\ worker' = [worker EXCEPT ![t] = "calling"]
  /\ lateCalls' = IF stop THEN [lateCalls EXCEPT ![t] = @ + 1] ELSE lateCalls
  /\ UNCHANGED <<coordinatorVars, queue, attempt, answer, expired>>

\* run_ticker answers: a record, a retryable record or a transport error, or
\* another exception, an invalid record or one for another context.
RunTickerAnswers(t) ==
  /\ worker[t] = "calling"
  /\ \E kind \in {"result", "transient", "permanent"} : EndAttempt(t, kind)
  /\ UNCHANGED <<coordinatorVars, queue, lateCalls, expired>>

\* time.monotonic() reaches batch_deadline.
DeadlinePasses ==
  /\ ~expired
  /\ expired' = TRUE
  /\ UNCHANGED <<coordinatorVars, executorVars>>

-----------------------------------------------------------------------------

Coordinator ==
  \/ \E t \in Ticker :
       \/ CheckpointPreterminal(t)
       \/ Submit(t)
       \/ Collect(t)
       \/ ObserveFuture(t)
       \/ CancelFuture(t)
       \/ FlushTimedOut(t)
  \/ StartSubmitting
  \/ AtCapacity
  \/ LoopEnds
  \/ LoopFindsDeadline
  \/ LoopWaits
  \/ WaitCompletes
  \/ WaitTimesOut
  \/ Shutdown
  \/ AssembleManifest

Worker ==
  \/ TakeWork
  \/ \E t \in Ticker :
       \/ BeginAttempt(t)
       \/ LimiterRaises(t)
       \/ LimiterAdmits(t)
       \/ Invoke(t)
       \/ RunTickerAnswers(t)

\* The batch has answered and every thread that ever comes back has come back.
Quiet ==
  /\ cpc \in {"returned", "raised"}
  /\ Active = {}
  /\ expired
  /\ UNCHANGED vars

Next == Coordinator \/ Worker \/ DeadlinePasses \/ Quiet

(***************************************************************************)
(* Fairness: the coordinator's thread runs and time passes.  Nothing is    *)
(* assumed of the workers, whose run_ticker may hang for ever.             *)
(***************************************************************************)
Spec ==
  /\ Init
  /\ [][Next]_vars
  /\ WF_vars(Coordinator)
  /\ WF_vars(DeadlinePasses)

-----------------------------------------------------------------------------
(* Safety. *)

Settled == { t \in Ticker : records[t] # <<>> }

(***************************************************************************)
(* The bounds the caller asked for hold of the work really going on, not   *)
(* only of the coordinator's counters: never more tickers out than         *)
(* max_in_flight, never more threads inside run_ticker for one provider    *)
(* lane than its limit, abandoned threads included; and lane_in_flight is  *)
(* exactly the number of futures on the lane (ticker_batch.py 314-338, 354).*)
(***************************************************************************)
LimitsHold ==
  /\ Cardinality(futures) <= MaxInFlight
  /\ Cardinality(Active) <= MaxWorkers
  /\ \A l \in Lane :
       /\ laneInFlight[l] = Cardinality(OnLane(futures, l))
       /\ Cardinality(OnLane(Active, l)) <= LimitOf(l)

(***************************************************************************)
(* `while futures' is the only loop condition, and it does not mention     *)
(* pending: when the loop ends without the deadline, no ticker may still   *)
(* be waiting for a lane (ticker_batch.py 341-370).                        *)
(***************************************************************************)
NoTickerLost == cpc = "shutdown" /\ ~stop => pending = {}

(***************************************************************************)
(* The manifest validator never refuses the manifest: it would raise after *)
(* every ticker was run and paid for (ticker_batch.py 54-83, 418-433).     *)
(***************************************************************************)
ManifestNeverRefused == cpc # "raised"

(***************************************************************************)
(* Manifest and checkpoint tell the same story for every settled ticker:   *)
(* the stored record is the reported one, or the report says that          *)
(* checkpointing failed and nothing is stored (ticker_batch.py 521-541).   *)
(***************************************************************************)
CheckpointAgrees ==
  \A t \in Settled :
    store[t] = IF records[t][1].kind = "checkpoint_failed" THEN NoRecord
               ELSE records[t][1]

(***************************************************************************)
(* The deadline branch may throw away the answer of a ticker: its thread   *)
(* still runs, or finished too late for wait() or while the coordinator    *)
(* was checkpointing.  Then the ticker's record must let a later batch run *)
(* it again (ticker_batch.py 372-405).                                     *)
(***************************************************************************)
DiscardedWorkIsRetryable ==
  \A t \in Settled :
    t \in futures \/ t \in Active => records[t][1].kind \in RetryableKind

(***************************************************************************)
(* What an executed ticker's record says happened did happen: a transient  *)
(* failure is reported only when every attempt of the retry budget is      *)
(* spent, a timeout only when the deadline has passed, and only attempts   *)
(* that were begun are counted (ticker_batch.py 446-516).                  *)
(***************************************************************************)
RecordsAreHonest ==
  \A t \in Settled :
    LET r == records[t][1]
    IN  /\ r.kind = "transient" => r.attempts = MaxAttempts
        /\ r.kind = "deadline" => expired
        /\ r.kind # "resumed" => r.attempts <= attempt[t]

(***************************************************************************)
(* A thread abandoned at the deadline winds down: whatever its retry       *)
(* budget, it begins at most the one run_ticker call it had already been   *)
(* admitted to (ticker_batch.py 449-467, deadline_stop).                   *)
(***************************************************************************)
AbandonedWorkWindsDown == \A t \in Ticker : lateCalls[t] <= 1

-----------------------------------------------------------------------------
(* Action and liveness properties. *)

(***************************************************************************)
(* The checkpoint callback is called at most once with effect for a        *)
(* ticker: no later step of the batch replaces a stored record             *)
(* (docstring of run_ticker_batch, ticker_batch.py 125-129).               *)
(***************************************************************************)
CheckpointedOnce ==
  [][\A t \in Ticker : store[t] # NoRecord => store'[t] = store[t]]_vars

(***************************************************************************)
(* The batch returns, even when every run_ticker hangs                     *)
(* (ticker_batch.py 341-405).                                              *)
(***************************************************************************)
BatchReturns == <>(cpc = "returned")

AnswerOf(record) ==
  CASE record = NoRecord -> "open"
    [] record.kind \in RetryableKind -> "retry"
    [] OTHER -> "final"

LastRecord(t) == IF t \in Settled THEN records[t][Len(records[t])] ELSE NoRecord

Contract ==
  INSTANCE BatchContract WITH
    outcome  <- [t \in Ticker |-> AnswerOf(LastRecord(t))],
    durable  <- [t \in Ticker |-> AnswerOf(store[t])],
    returned <- cpc = "returned"

(***************************************************************************)
(* The coordinator and its threads implement BatchContract: every ticker   *)
(* settled once, final answers durable first, the batch returns after all. *)
(***************************************************************************)
ImplementsContract == Contract!Spec
==============================================================================
