-------------------------- MODULE TickerBatchProofs --------------------------
(***************************************************************************)
(* Proofs about TickerBatch for every finite set of tickers, every request *)
(* and prior, every lane assignment and every positive limit.              *)
(***************************************************************************)
EXTENDS TickerBatch, FiniteSetTheorems, TLAPS

(***************************************************************************)
(* The inductive invariant, in named parts.                                *)
(***************************************************************************)

\* What _run_with_retry may leave in a future.
AnswerKind == {"result", "permanent", "transient", "deadline"}

Answer == [kind : AnswerKind, attempts : Nat]

\* A thread has begun an attempt, leaves a record behind, and belongs to a
\* ticker whose future the coordinator has not collected.
ThreadInv ==
  \A t \in Ticker :
    /\ worker[t] \in ActiveState => attempt[t] >= 1
    /\ worker[t] = "done" => answer[t] \in Answer
    /\ worker[t] \notin {"idle", "done"} => t \in futures

\* What the coordinator's current loop may still visit.
VisitInv ==
  /\ cpc = "preterminal" => todo \subseteq Preterminal
  /\ cpc = "collect" => /\ todo # {}
                        /\ todo \subseteq futures
                        /\ \A t \in todo : worker[t] = "done"
  /\ cpc = "wait" => futures # {}
  /\ cpc \in {"observe", "cancel"} => todo # {} /\ todo \subseteq futures
  /\ cpc = "flush" => todo # {} /\ todo \subseteq futures \cup pending
  /\ cpc \in {"submit", "loop", "wait", "shutdown", "assemble", "returned", "raised"}
       => todo = {}

\* A runnable ticker is pending or submitted, never both.
StageInv ==
  /\ pending \cap submitted = {}
  /\ pending \cup submitted = { t \in Ticker : class[t] = "runnable" }
  /\ futures \subseteq submitted
  /\ cpc = "preterminal" => submitted = {}

\* deadline_stop is set exactly on the way out through the deadline branch.
Scheduling == {"preterminal", "submit", "loop", "wait", "collect"}

StopInv ==
  /\ cpc \in Scheduling => ~stop
  /\ cpc \in {"observe", "cancel", "flush"} => stop
  /\ stop => expired

\* The tickers that have no terminal record yet.
Open ==
  CASE cpc = "preterminal" -> todo \cup pending
    [] cpc \in {"submit", "loop", "wait", "collect", "observe", "cancel"} ->
         pending \cup futures
    [] cpc = "flush" -> todo
    [] OTHER -> {}

\* Every other ticker has exactly one, and the checkpoint agrees with it.
RecordInv ==
  \A t \in Ticker :
    IF t \in Open
    THEN records[t] = <<>> /\ store[t] = NoRecord
    ELSE /\ Len(records[t]) = 1
         /\ store[t] = IF records[t][1].kind = "checkpoint_failed" THEN NoRecord
                       ELSE records[t][1]
         /\ t \in futures => records[t][1].kind \in RetryableKind

LaneInv ==
  /\ Cardinality(futures) <= MaxInFlight
  /\ Cardinality(Active) <= MaxWorkers
  /\ \A l \in Lane :
       /\ laneInFlight[l] = Cardinality(OnLane(futures, l))
       /\ laneInFlight[l] <= LimitOf(l)

\* Nothing is left pending unless the deadline branch counts it.
CountInv ==
  /\ cpc \in Scheduling \cup {"observe", "cancel"} => unscheduled = 0
  /\ cpc \notin Scheduling \cup {"observe", "cancel"} =>
       unscheduled = Cardinality(pending)
  /\ cpc = "loop" /\ futures = {} => pending = {}
  /\ cpc \in {"shutdown", "assemble", "returned", "raised"} /\ ~stop => pending = {}

LateInv ==
  \A t \in Ticker :
    /\ ~stop => lateCalls[t] = 0
    /\ lateCalls[t] <= 1
    /\ lateCalls[t] = 1 => worker[t] \in {"calling", "attempting", "done"}

IInv ==
  /\ TypeOK
  /\ ThreadInv
  /\ VisitInv
  /\ StageInv
  /\ StopInv
  /\ RecordInv
  /\ LaneInv
  /\ CountInv
  /\ LateInv

-----------------------------------------------------------------------------
(* Initial states. *)

LEMMA ClassificationType ==
  ASSUME NEW request, NEW prior
  PROVE  Classification(request, prior) \in [Ticker -> TickerClass]
<1>1. \A c : ClassOfContext(prior, c) \in TickerClass
  BY DEF ClassOfContext, TickerClass
<1>2. QED
  BY <1>1 DEF Classification, TickerClass

LEMMA LimitIsPositive ==
  ASSUME NEW l \in Lane
  PROVE  LimitOf(l) \in Nat \ {0}
BY LaneAssumption, CapacityAssumption DEF LimitOf

LEMMA InitInv == Init => IInv
<1> SUFFICES ASSUME Init PROVE IInv
  OBVIOUS
<1>1. class \in [Ticker -> TickerClass]
  BY ClassificationType DEF Init
<1>2. TypeOK
  <2>1. ResumedRecord \in Record
    BY DEF ResumedRecord, Record, Kind
  <2>2. /\ records \in [Ticker -> Seq(Record)]
        /\ store \in [Ticker -> Record \cup {NoRecord}]
        /\ answer \in [Ticker -> Record \cup {NoRecord}]
    BY <2>1 DEF Init
  <2>3. /\ cpc \in CoordinatorState
        /\ worker \in [Ticker -> WorkerState]
        /\ attempt \in [Ticker -> 0..MaxAttempts]
    BY CapacityAssumption DEF Init, CoordinatorState, WorkerState
  <2>4. /\ todo \subseteq Ticker /\ pending \subseteq Ticker
        /\ futures \subseteq Ticker /\ submitted \subseteq Ticker
    BY DEF Init, Preterminal
  <2>5. queue \in Seq(Ticker)
    BY DEF Init
  <2>6. /\ laneInFlight \in [Lane -> Int]
        /\ unscheduled \in Nat
        /\ observed \in {0, 1}
        /\ timeoutTries \in [Ticker -> {0, 1}]
        /\ lateCalls \in [Ticker -> Nat]
    BY DEF Init
  <2>7. expired \in BOOLEAN /\ stop \in BOOLEAN
    BY DEF Init
  <2>8. QED
    BY <1>1, <2>2, <2>3, <2>4, <2>5, <2>6, <2>7 DEF TypeOK
<1>3. ThreadInv
  BY DEF Init, ThreadInv, ActiveState
<1>4. VisitInv
  BY DEF Init, VisitInv
<1>5. StageInv
  BY DEF Init, StageInv
<1>6. StopInv
  BY DEF Init, StopInv
<1>7. RecordInv
  <2> SUFFICES ASSUME NEW t \in Ticker
               PROVE  IF t \in Open
                      THEN records[t] = <<>> /\ store[t] = NoRecord
                      ELSE /\ Len(records[t]) = 1
                           /\ store[t] = IF records[t][1].kind = "checkpoint_failed"
                                         THEN NoRecord ELSE records[t][1]
                           /\ t \in futures => records[t][1].kind \in RetryableKind
    BY DEF RecordInv
  <2>1. class[t] \in TickerClass
    BY <1>1
  <2>2. t \notin Resumed <=> t \in Open
    BY <2>1 DEF Init, Open, Preterminal, PreterminalClass, TickerClass, Resumed
  <2>3. CASE t \in Resumed
    BY <2>2, <2>3 DEF Init, ResumedRecord
  <2>4. CASE t \notin Resumed
    BY <2>2, <2>4 DEF Init
  <2>5. QED
    BY <2>3, <2>4
<1>8. LaneInv
  <2>1. futures = {} /\ Active = {}
    BY DEF Init, Active, ActiveState
  <2>2. \A l \in Lane : OnLane(futures, l) = {}
    BY <2>1 DEF OnLane
  <2>3. Cardinality({}) = 0
    BY FS_EmptySet
  <2>4. ASSUME NEW l \in Lane
        PROVE  laneInFlight[l] = Cardinality(OnLane(futures, l)) /\ laneInFlight[l] <= LimitOf(l)
    <3>1. laneInFlight[l] = 0
      BY DEF Init
    <3>2. QED
      BY <2>2, <2>3, <3>1, LimitIsPositive
  <2>5. Cardinality(futures) <= MaxInFlight /\ Cardinality(Active) <= MaxWorkers
    BY <2>1, <2>3, CapacityAssumption
  <2>6. QED
    BY <2>4, <2>5 DEF LaneInv
<1>9. CountInv
  BY DEF Init, CountInv, Scheduling
<1>10. LateInv
  BY DEF Init, LateInv
<1>11. QED
  BY <1>2, <1>3, <1>4, <1>5, <1>6, <1>7, <1>8, <1>9, <1>10 DEF IInv

-----------------------------------------------------------------------------
(* Type correctness of every step. *)

LEMMA LaneCountType ==
  ASSUME TypeOK, NEW t \in Ticker
  PROVE  /\ laneInFlight \in [Lane -> Int]
         /\ LaneOf[t] \in Lane
         /\ laneInFlight[LaneOf[t]] \in Int
BY LaneAssumption DEF TypeOK

LEMMA CheckpointType ==
  ASSUME TypeOK, NEW t \in Ticker, NEW r \in Record, Checkpoint(t, r)
  PROVE  /\ records' \in [Ticker -> Seq(Record)]
         /\ store' \in [Ticker -> Record \cup {NoRecord}]
<1>1. FailedCheckpoint(r) \in Record
  BY DEF FailedCheckpoint, Record, Kind
<1>2. \A q \in Record : Append(records[t], q) \in Seq(Record)
  BY DEF TypeOK
<1>3. FailedCheckpoint(r) \in Record /\ store \in [Ticker -> Record \cup {NoRecord}]
      /\ records \in [Ticker -> Seq(Record)]
  BY <1>1 DEF TypeOK
<1>4. CASE store' = [store EXCEPT ![t] = r] /\ records' = [records EXCEPT ![t] = Append(records[t], r)]
  BY <1>2, <1>3, <1>4
<1>5. CASE store' = store /\ records' = [records EXCEPT ![t] = Append(records[t], FailedCheckpoint(r))]
  BY <1>2, <1>3, <1>5
<1>6. QED
  BY <1>4, <1>5 DEF Checkpoint

LEMMA EndAttemptType ==
  ASSUME TypeOK, ThreadInv, NEW t \in Ticker, worker[t] \in ActiveState,
         NEW k \in {"result", "transient", "permanent"}, EndAttempt(t, k)
  PROVE  /\ worker' \in [Ticker -> WorkerState]
         /\ attempt' \in [Ticker -> 0..MaxAttempts]
         /\ answer' \in [Ticker -> Record \cup {NoRecord}]
<1>1. attempt[t] \in 0..MaxAttempts /\ MaxAttempts \in Nat
  BY CapacityAssumption DEF TypeOK
<1>2. CASE Retries(t, k)
  <2>1. attempt[t] + 1 \in 0..MaxAttempts
    BY <1>1, <1>2 DEF Retries
  <2>2. QED
    BY <1>2, <2>1 DEF EndAttempt, TypeOK, WorkerState, ActiveState
<1>3. CASE ~Retries(t, k)
  <2>1. [kind |-> k, attempts |-> attempt[t]] \in Record
    BY <1>1 DEF Record, Kind
  <2>2. QED
    BY <1>3, <2>1 DEF EndAttempt, Finish, TypeOK, WorkerState
<1>4. QED
  BY <1>2, <1>3

LEMMA TypeStep == IInv /\ [Next]_vars => TypeOK'
<1> SUFFICES ASSUME IInv, [Next]_vars PROVE TypeOK'
  OBVIOUS
<1>0. TypeOK /\ ThreadInv /\ VisitInv
  BY DEF IInv
<1> USE <1>0
<1>1. CASE \E t \in Ticker : CheckpointPreterminal(t)
  <2>1. PICK t \in Ticker : CheckpointPreterminal(t)
    BY <1>1
  <2>2. [kind |-> class[t], attempts |-> 0] \in Record
    BY <2>1 DEF CheckpointPreterminal, VisitInv, Preterminal, PreterminalClass, Record, Kind
  <2>3. /\ records' \in [Ticker -> Seq(Record)]
        /\ store' \in [Ticker -> Record \cup {NoRecord}]
    BY <2>1, <2>2, CheckpointType DEF CheckpointPreterminal
  <2>4. QED
    BY <2>1, <2>3 DEF CheckpointPreterminal, TypeOK, scheduleVars, timeoutVars,
       executorVars, threadVars
<1>2. CASE \E t \in Ticker : Submit(t)
  <2>1. PICK t \in Ticker : Submit(t)
    BY <1>2
  <2>2. laneInFlight' \in [Lane -> Int]
    BY <2>1, LaneCountType DEF Submit
  <2>3. queue' \in Seq(Ticker)
    BY <2>1 DEF Submit, TypeOK
  <2>4. worker' \in [Ticker -> WorkerState]
    BY <2>1 DEF Submit, TypeOK, WorkerState
  <2>5. QED
    BY <2>1, <2>2, <2>3, <2>4 DEF Submit, TypeOK, timeoutVars, outcomeVars, threadVars
<1>3. CASE \E t \in Ticker : Collect(t)
  <2>1. PICK t \in Ticker : Collect(t)
    BY <1>3
  <2>2. answer[t] \in Record
    BY <2>1 DEF Collect, VisitInv, ThreadInv, Answer, AnswerKind, Record, Kind
  <2>3. /\ records' \in [Ticker -> Seq(Record)]
        /\ store' \in [Ticker -> Record \cup {NoRecord}]
    BY <2>1, <2>2, CheckpointType DEF Collect
  <2>4. laneInFlight' \in [Lane -> Int]
    BY <2>1, LaneCountType DEF Collect, ReleaseLane
  <2>5. QED
    BY <2>1, <2>3, <2>4 DEF Collect, TypeOK, CoordinatorState, timeoutVars,
       executorVars, threadVars
<1>4. CASE \E t \in Ticker : ObserveFuture(t)
  BY <1>4 DEF ObserveFuture, TypeOK, CoordinatorState, scheduleVars, outcomeVars,
     executorVars, threadVars
<1>5. CASE \E t \in Ticker : CancelFuture(t)
  <2>1. PICK t \in Ticker : CancelFuture(t)
    BY <1>5
  <2>2. Cardinality(pending) \in Nat
    BY TickerAssumption, FS_Subset, FS_CardinalityType DEF TypeOK
  <2>3. worker' \in [Ticker -> WorkerState]
    BY <2>1 DEF CancelFuture, TypeOK, WorkerState
  <2>4. QED
    BY <2>1, <2>2, <2>3 DEF CancelFuture, TimedOut, TypeOK, CoordinatorState,
       scheduleVars, outcomeVars, threadVars
<1>6. CASE \E t \in Ticker : FlushTimedOut(t)
  <2>1. PICK t \in Ticker : FlushTimedOut(t)
    BY <1>6
  <2>2. DeadlineRecord(t) \in Record
    <3>1. timeoutTries[t] \in {0, 1}
      BY DEF TypeOK
    <3>2. QED
      BY <3>1 DEF DeadlineRecord, Record, Kind
  <2>3. /\ records' \in [Ticker -> Seq(Record)]
        /\ store' \in [Ticker -> Record \cup {NoRecord}]
    BY <2>1, <2>2, CheckpointType DEF FlushTimedOut
  <2>4. QED
    BY <2>1, <2>3 DEF FlushTimedOut, TypeOK, CoordinatorState, scheduleVars, timeoutVars,
       executorVars, threadVars
<1>7. CASE \E state \in CoordinatorState, visit \in SUBSET Ticker, s \in BOOLEAN :
             Move(state, visit) /\ stop' = s
  BY <1>7 DEF Move, TypeOK, scheduleVars, timeoutVars, outcomeVars, executorVars,
     threadVars
<1>8. CASE Shutdown
  <2>1. worker' \in [Ticker -> WorkerState]
    BY <1>8 DEF Shutdown, TypeOK, WorkerState
  <2>2. queue' \in Seq(Ticker)
    <3>1. CASE JoinsThreads
      BY <1>8, <3>1 DEF Shutdown, TypeOK
    <3>2. CASE ~JoinsThreads
      BY <1>8, <3>2 DEF Shutdown
    <3>3. QED
      BY <3>1, <3>2
  <2>3. QED
    BY <1>8, <2>1, <2>2 DEF Shutdown, TypeOK, CoordinatorState, scheduleVars, timeoutVars,
       outcomeVars, threadVars
<1>9. CASE TakeWork
  <2>1. Head(queue) \in Ticker /\ Tail(queue) \in Seq(Ticker)
    BY <1>9 DEF TakeWork, TypeOK
  <2>2. 1 \in 0..MaxAttempts
    BY CapacityAssumption
  <2>3. QED
    BY <1>9, <2>1, <2>2 DEF TakeWork, TypeOK, WorkerState, ActiveState, coordinatorVars,
       scheduleVars, timeoutVars, outcomeVars
<1>10. CASE \E t \in Ticker : BeginAttempt(t) \/ LimiterAdmits(t)
  <2>1. PICK t \in Ticker : BeginAttempt(t) \/ LimiterAdmits(t)
    BY <1>10
  <2>2. attempt[t] \in Nat /\ attempt[t] - 1 \in Nat
    BY <2>1, CapacityAssumption DEF BeginAttempt, LimiterAdmits, ThreadInv, ActiveState, TypeOK
  <2>3. /\ [kind |-> "deadline", attempts |-> attempt[t] - 1] \in Record
        /\ [kind |-> "deadline", attempts |-> attempt[t]] \in Record
    BY <2>2 DEF Record, Kind
  <2>4. \/ worker' = [worker EXCEPT ![t] = "done"]
        \/ worker' = [worker EXCEPT ![t] = "limiting"]
        \/ worker' = [worker EXCEPT ![t] = "invoking"]
    BY <2>1 DEF BeginAttempt, LimiterAdmits, Finish
  <2>5. worker' \in [Ticker -> WorkerState]
    BY <2>4 DEF TypeOK, WorkerState, ActiveState
  <2>6. answer' \in [Ticker -> Record \cup {NoRecord}] /\ attempt' = attempt
    BY <2>1, <2>3 DEF BeginAttempt, LimiterAdmits, Finish, TypeOK
  <2>7. QED
    BY <2>1, <2>5, <2>6 DEF BeginAttempt, LimiterAdmits, TypeOK, coordinatorVars,
       scheduleVars, timeoutVars, outcomeVars
<1>11. CASE \E t \in Ticker : LimiterRaises(t) \/ RunTickerAnswers(t)
  <2>1. PICK t \in Ticker : LimiterRaises(t) \/ RunTickerAnswers(t)
    BY <1>11
  <2>2. PICK k \in {"result", "transient", "permanent"} : EndAttempt(t, k)
    BY <2>1 DEF LimiterRaises, RunTickerAnswers
  <2>3. worker[t] \in ActiveState
    BY <2>1 DEF LimiterRaises, RunTickerAnswers, ActiveState
  <2>4. /\ worker' \in [Ticker -> WorkerState]
        /\ attempt' \in [Ticker -> 0..MaxAttempts]
        /\ answer' \in [Ticker -> Record \cup {NoRecord}]
    BY <2>2, <2>3, EndAttemptType
  <2>5. QED
    BY <2>1, <2>4 DEF LimiterRaises, RunTickerAnswers, TypeOK, coordinatorVars,
       scheduleVars, timeoutVars, outcomeVars
<1>12. CASE \E t \in Ticker : Invoke(t)
  BY <1>12 DEF Invoke, TypeOK, WorkerState, ActiveState, coordinatorVars, scheduleVars,
     timeoutVars, outcomeVars
<1>13. CASE DeadlinePasses
  BY <1>13 DEF DeadlinePasses, TypeOK, coordinatorVars, scheduleVars, timeoutVars,
     outcomeVars, executorVars, threadVars
<1>14. CASE UNCHANGED vars
  BY <1>14 DEF vars, TypeOK, coordinatorVars, scheduleVars, timeoutVars, outcomeVars,
     executorVars, threadVars
<1>15. QED
  <2>1. CASE \/ StartSubmitting \/ AtCapacity \/ LoopEnds \/ LoopFindsDeadline
             \/ LoopWaits \/ WaitCompletes \/ WaitTimesOut \/ AssembleManifest
    BY <2>1, <1>7 DEF StartSubmitting, AtCapacity, LoopEnds, LoopFindsDeadline, LoopWaits,
       WaitCompletes, WaitTimesOut, AssembleManifest, GoTo, GiveUp, Finished,
       CoordinatorState, TypeOK
  <2>2. QED
    BY <2>1, <1>1, <1>2, <1>3, <1>4, <1>5, <1>6, <1>8, <1>9, <1>10, <1>11, <1>12, <1>13,
       <1>14 DEF Next, Coordinator, Worker, Quiet

-----------------------------------------------------------------------------
(* How steps act on threads. *)

LEMMA ThreadFrame ==
  ASSUME [Next]_vars,
         ~ (\E t \in Ticker : Submit(t) \/ Collect(t) \/ CancelFuture(t)),
         ~ Shutdown, ~ Worker
  PROVE  UNCHANGED <<executorVars, scheduleVars>>
BY DEF Next, Coordinator, Quiet, vars, coordinatorVars, executorVars, scheduleVars,
   CheckpointPreterminal, ObserveFuture, FlushTimedOut, StartSubmitting, AtCapacity,
   LoopEnds, LoopFindsDeadline, LoopWaits, WaitCompletes, WaitTimesOut, AssembleManifest,
   DeadlinePasses, GoTo, GiveUp, Move

LEMMA WorkerFrame ==
  ASSUME Worker
  PROVE  UNCHANGED <<coordinatorVars, expired>>
BY DEF Worker, TakeWork, BeginAttempt, LimiterRaises, LimiterAdmits, Invoke,
   RunTickerAnswers

\* What a finishing thread says of its attempts.
Earned(t) ==
  /\ answer'[t].kind = "transient" => answer'[t].attempts = MaxAttempts
  /\ answer'[t].kind = "deadline" => stop \/ expired
  /\ answer'[t].attempts <= attempt'[t]

(***************************************************************************)
(* A step of the executor moves the thread of one ticker along the edges   *)
(* of _run_with_retry and leaves the others alone.                         *)
(***************************************************************************)
ThreadMoves(t) ==
  /\ worker[t] \in ActiveState \cup {"queued"}
  /\ worker' = [worker EXCEPT ![t] = worker'[t]]
  /\ \/ worker'[t] \in ActiveState /\ attempt'[t] >= 1
     \/ worker'[t] = "done" /\ answer'[t] \in Answer /\ Earned(t)
  /\ worker[t] # "queued" => attempt'[t] >= attempt[t]
  /\ \A u \in Ticker \ {t} : attempt'[u] = attempt[u] /\ answer'[u] = answer[u]
  /\ worker[t] = "queued" => Cardinality(Active) < MaxWorkers
  /\ worker'[t] \in {"limiting", "invoking"} => ~stop
  /\ \/ lateCalls' = lateCalls
     \/ /\ worker[t] = "invoking" /\ worker'[t] = "calling"
        /\ stop
        /\ lateCalls' = [lateCalls EXCEPT ![t] = @ + 1]

LEMMA EndAttemptMoves ==
  ASSUME TypeOK, ThreadInv, NEW t \in Ticker, worker[t] \in ActiveState,
         NEW k \in {"result", "transient", "permanent"}, EndAttempt(t, k),
         UNCHANGED lateCalls
  PROVE  ThreadMoves(t)
<1>1. attempt[t] \in Nat /\ attempt[t] >= 1
  BY CapacityAssumption DEF TypeOK, ThreadInv
<1>2. CASE Retries(t, k)
  <2>1. /\ worker' = [worker EXCEPT ![t] = "attempting"]
        /\ attempt' = [attempt EXCEPT ![t] = attempt[t] + 1]
        /\ answer' = answer
    BY <1>2 DEF EndAttempt
  <2>2. worker'[t] = "attempting" /\ attempt'[t] >= 1 /\ attempt'[t] >= attempt[t]
    BY <2>1, <1>1 DEF TypeOK
  <2>3. \A u \in Ticker \ {t} : attempt'[u] = attempt[u]
    BY <2>1 DEF TypeOK
  <2>4. QED
    BY <2>1, <2>2, <2>3 DEF ThreadMoves, ActiveState
<1>3. CASE ~Retries(t, k)
  <2>1. /\ worker' = [worker EXCEPT ![t] = "done"]
        /\ answer' = [answer EXCEPT ![t] = [kind |-> k, attempts |-> attempt[t]]]
        /\ attempt' = attempt
    BY <1>3 DEF EndAttempt, Finish
  <2>2. [kind |-> k, attempts |-> attempt[t]] \in Answer
    BY <1>1 DEF Answer, AnswerKind
  <2>3. worker'[t] = "done" /\ answer'[t] \in Answer
    BY <2>1, <2>2 DEF TypeOK
  <2>4. \A u \in Ticker \ {t} : answer'[u] = answer[u]
    BY <2>1 DEF TypeOK
  <2>5. answer'[t] = [kind |-> k, attempts |-> attempt[t]]
    BY <2>1 DEF TypeOK
  <2>6. Earned(t)
    BY <1>1, <1>3, <2>1, <2>5 DEF Earned, Retries, RetryableKind
  <2>7. attempt'[t] >= attempt[t]
    BY <1>1, <2>1
  <2>8. QED
    BY <2>1, <2>3, <2>4, <2>6, <2>7 DEF ThreadMoves, ActiveState
<1>4. QED
  BY <1>2, <1>3

LEMMA FinishMoves ==
  ASSUME TypeOK, NEW t \in Ticker, worker[t] \in ActiveState, NEW n \in Nat,
         n <= attempt[t], DeadlineSeen, Finish(t, "deadline", n), UNCHANGED lateCalls
  PROVE  ThreadMoves(t)
<1>1. [kind |-> "deadline", attempts |-> n] \in Answer
  BY DEF Answer, AnswerKind
<1>2. worker'[t] = "done" /\ answer'[t] \in Answer
  BY <1>1 DEF Finish, TypeOK
<1>3. \A u \in Ticker \ {t} : answer'[u] = answer[u]
  BY DEF Finish, TypeOK
<1>4. answer'[t] = [kind |-> "deadline", attempts |-> n] /\ attempt'[t] = attempt[t]
  BY DEF Finish, TypeOK
<1>5. Earned(t)
  BY <1>4 DEF Earned, DeadlineSeen
<1>6. attempt'[t] >= attempt[t]
  BY <1>4, CapacityAssumption DEF TypeOK
<1>7. QED
  BY <1>2, <1>3, <1>5, <1>6 DEF ThreadMoves, Finish, ActiveState

LEMMA WorkerMoves ==
  ASSUME TypeOK, ThreadInv, Worker
  PROVE  UNCHANGED <<worker, threadVars>> \/ \E t \in Ticker : ThreadMoves(t)
<1>1. CASE TakeWork
  <2>1. PICK h \in Ticker : h = Head(queue)
    <3>1. queue \in Seq(Ticker) /\ queue # <<>>
      BY <1>1 DEF TakeWork, TypeOK
    <3>2. Head(queue) \in Ticker
      BY <3>1
    <3>3. QED
      BY <3>2
  <2>2. CASE worker[h] = "queued"
    <3>1. /\ worker' = [worker EXCEPT ![h] = "attempting"]
          /\ attempt' = [attempt EXCEPT ![h] = 1]
          /\ UNCHANGED <<answer, lateCalls>>
          /\ Cardinality(Active) < MaxWorkers
      BY <1>1, <2>1, <2>2 DEF TakeWork
    <3>2. worker'[h] = "attempting" /\ attempt'[h] = 1
      BY <2>1, <3>1 DEF TypeOK
    <3>3. \A u \in Ticker \ {h} : attempt'[u] = attempt[u]
      BY <2>1, <3>1 DEF TypeOK
    <3>4. /\ worker' = [worker EXCEPT ![h] = worker'[h]]
      BY <3>1, <3>2
    <3>8. worker'[h] \in ActiveState
      BY <3>2 DEF ActiveState
    <3>9. attempt'[h] >= 1
      BY <3>2
    <3>5. /\ answer' = answer
          /\ lateCalls' = lateCalls
          /\ Cardinality(Active) < MaxWorkers
          /\ worker'[h] \notin {"limiting", "invoking"}
      BY <3>1, <3>2
    <3>6. ThreadMoves(h)
      BY <2>2, <3>3, <3>4, <3>8, <3>9, <3>5 DEF ThreadMoves
    <3>7. QED
      BY <2>1, <3>6
  <2>3. CASE worker[h] # "queued"
    BY <1>1, <2>1, <2>3 DEF TakeWork, threadVars
  <2>4. QED
    BY <2>2, <2>3
<1>2. ASSUME NEW t \in Ticker, BeginAttempt(t)
      PROVE  ThreadMoves(t)
  <2>1. worker[t] \in ActiveState /\ UNCHANGED lateCalls
    BY <1>2 DEF BeginAttempt, ActiveState
  <2>2. attempt[t] \in Nat /\ attempt[t] >= 1
    BY <2>1, CapacityAssumption DEF TypeOK, ThreadInv
  <2>3. CASE DeadlineSeen
    BY <1>2, <2>1, <2>2, <2>3, FinishMoves DEF BeginAttempt
  <2>4. CASE ~DeadlineSeen
    <3>1. /\ worker' = [worker EXCEPT ![t] = "limiting"]
          /\ UNCHANGED <<attempt, answer>>
          /\ ~stop
      BY <1>2, <2>4 DEF BeginAttempt, DeadlineSeen
    <3>2. worker'[t] = "limiting"
      BY <3>1 DEF TypeOK
    <3>3. attempt'[t] >= 1 /\ attempt'[t] >= attempt[t]
      BY <2>2, <3>1
    <3>4. QED
      BY <2>1, <3>1, <3>2, <3>3 DEF ThreadMoves, ActiveState
  <2>5. QED
    BY <2>3, <2>4
<1>3. ASSUME NEW t \in Ticker, LimiterAdmits(t)
      PROVE  ThreadMoves(t)
  <2>1. worker[t] \in ActiveState /\ UNCHANGED lateCalls
    BY <1>3 DEF LimiterAdmits, ActiveState
  <2>2. attempt[t] \in Nat /\ attempt[t] >= 1
    BY <2>1, CapacityAssumption DEF TypeOK, ThreadInv
  <2>3. CASE DeadlineSeen
    BY <1>3, <2>1, <2>2, <2>3, FinishMoves DEF LimiterAdmits
  <2>4. CASE ~DeadlineSeen
    <3>1. /\ worker' = [worker EXCEPT ![t] = "invoking"]
          /\ UNCHANGED <<attempt, answer>>
          /\ ~stop
      BY <1>3, <2>4 DEF LimiterAdmits, DeadlineSeen
    <3>2. worker'[t] = "invoking"
      BY <3>1 DEF TypeOK
    <3>3. attempt'[t] >= 1 /\ attempt'[t] >= attempt[t]
      BY <2>2, <3>1
    <3>4. QED
      BY <2>1, <3>1, <3>2, <3>3 DEF ThreadMoves, ActiveState
  <2>5. QED
    BY <2>3, <2>4
<1>4. ASSUME NEW t \in Ticker, LimiterRaises(t) \/ RunTickerAnswers(t)
      PROVE  ThreadMoves(t)
  <2>1. worker[t] \in ActiveState /\ UNCHANGED lateCalls
    BY <1>4 DEF LimiterRaises, RunTickerAnswers, ActiveState
  <2>2. PICK k \in {"result", "transient", "permanent"} : EndAttempt(t, k)
    BY <1>4 DEF LimiterRaises, RunTickerAnswers
  <2>3. QED
    BY <2>1, <2>2, EndAttemptMoves
<1>5. ASSUME NEW t \in Ticker, Invoke(t)
      PROVE  ThreadMoves(t)
  <2>1. /\ worker[t] = "invoking"
        /\ worker' = [worker EXCEPT ![t] = "calling"]
        /\ UNCHANGED <<attempt, answer>>
        /\ lateCalls' = IF stop THEN [lateCalls EXCEPT ![t] = @ + 1] ELSE lateCalls
    BY <1>5 DEF Invoke
  <2>2. worker'[t] = "calling"
    BY <2>1 DEF TypeOK
  <2>3. attempt'[t] >= 1 /\ attempt'[t] >= attempt[t]
    BY <2>1, CapacityAssumption DEF ThreadInv, ActiveState, TypeOK
  <2>4. QED
    BY <2>1, <2>2, <2>3 DEF ThreadMoves, ActiveState
<1>6. QED
  BY <1>1, <1>2, <1>3, <1>4, <1>5 DEF Worker

-----------------------------------------------------------------------------
(* Each part of the invariant is preserved. *)

LEMMA ThreadStep == IInv /\ [Next]_vars => ThreadInv'
<1> SUFFICES ASSUME IInv, [Next]_vars PROVE ThreadInv'
  OBVIOUS
<1>0. TypeOK /\ ThreadInv /\ VisitInv
  BY DEF IInv
<1>1. ASSUME NEW t \in Ticker, Submit(t)
      PROVE  ThreadInv'
  BY <1>0, <1>1 DEF Submit, ThreadInv, ActiveState, TypeOK, threadVars
<1>2. ASSUME NEW t \in Ticker, Collect(t)
      PROVE  ThreadInv'
  <2>1. worker[t] = "done" /\ futures' = futures \ {t} /\ UNCHANGED <<worker, threadVars>>
    BY <1>0, <1>2 DEF Collect, VisitInv, executorVars
  <2>2. QED
    BY <1>0, <2>1 DEF ThreadInv, threadVars
<1>3. ASSUME NEW t \in Ticker, CancelFuture(t)
      PROVE  ThreadInv'
  <2>1. /\ worker' = [worker EXCEPT ![t] = IF @ = "queued" THEN "cancelled" ELSE @]
        /\ UNCHANGED <<threadVars, futures>>
    BY <1>3 DEF CancelFuture, scheduleVars
  <2>2. QED
    BY <1>0, <2>1 DEF ThreadInv, threadVars, TypeOK, ActiveState
<1>4. CASE Shutdown
  <2>1. UNCHANGED <<threadVars, futures>>
    BY <1>4 DEF Shutdown, scheduleVars
  <2>2. ASSUME NEW u \in Ticker
        PROVE  worker'[u] = worker[u] \/ (worker[u] = "queued" /\ worker'[u] = "cancelled")
    BY <1>4 DEF Shutdown
  <2>3. QED
    BY <1>0, <2>1, <2>2 DEF ThreadInv, threadVars, ActiveState
<1>5. CASE Worker
  <2>1. UNCHANGED futures
    BY <1>5, WorkerFrame DEF coordinatorVars, scheduleVars
  <2>2. CASE UNCHANGED <<worker, threadVars>>
    BY <1>0, <2>1, <2>2 DEF ThreadInv, threadVars
  <2>3. ASSUME NEW t \in Ticker, ThreadMoves(t)
        PROVE  ThreadInv'
    <3>1. \A u \in Ticker \ {t} : /\ worker'[u] = worker[u]
                                  /\ attempt'[u] = attempt[u]
                                  /\ answer'[u] = answer[u]
      BY <1>0, <2>3 DEF ThreadMoves, TypeOK
    <3>2. t \in futures
      BY <1>0, <2>3 DEF ThreadMoves, ThreadInv, ActiveState
    <3>3. \/ worker'[t] \in ActiveState /\ attempt'[t] >= 1
          \/ worker'[t] = "done" /\ answer'[t] \in Answer
      BY <2>3 DEF ThreadMoves
    <3>4. QED
      BY <1>0, <2>1, <3>1, <3>2, <3>3 DEF ThreadInv, ActiveState
  <2>4. QED
    BY <1>0, <1>5, <2>2, <2>3, WorkerMoves
<1>6. CASE UNCHANGED <<executorVars, scheduleVars>>
  BY <1>0, <1>6 DEF ThreadInv, executorVars, threadVars, scheduleVars
<1>7. QED
  BY <1>1, <1>2, <1>3, <1>4, <1>5, <1>6, ThreadFrame

LEMMA StageStep == IInv /\ [Next]_vars => StageInv'
<1> SUFFICES ASSUME IInv, [Next]_vars PROVE StageInv'
  OBVIOUS
<1>0. TypeOK /\ StageInv /\ VisitInv
  BY DEF IInv
<1>1. class' = class
  BY DEF Next, Coordinator, Quiet, vars, coordinatorVars, CheckpointPreterminal, Submit,
     Collect, CancelFuture, Shutdown, ObserveFuture, FlushTimedOut, StartSubmitting,
     AtCapacity, LoopEnds, LoopFindsDeadline, LoopWaits, WaitCompletes, WaitTimesOut,
     AssembleManifest, DeadlinePasses, GoTo, GiveUp, Move, Worker, TakeWork, BeginAttempt,
     LimiterRaises, LimiterAdmits, Invoke, RunTickerAnswers
<1>2. cpc' = "preterminal" => cpc = "preterminal"
  BY DEF Next, Coordinator, Quiet, vars, coordinatorVars, CheckpointPreterminal, Submit,
     Collect, CancelFuture, Shutdown, ObserveFuture, FlushTimedOut, StartSubmitting,
     AtCapacity, LoopEnds, LoopFindsDeadline, LoopWaits, WaitCompletes, WaitTimesOut,
     AssembleManifest, DeadlinePasses, GoTo, GiveUp, Move, Worker, TakeWork, BeginAttempt,
     LimiterRaises, LimiterAdmits, Invoke, RunTickerAnswers
<1>3. ASSUME NEW t \in Ticker, Submit(t)
      PROVE  StageInv'
  <2>1. /\ t \in pending /\ cpc = "submit"
        /\ pending' = pending \ {t}
        /\ futures' = futures \cup {t}
        /\ submitted' = submitted \cup {t}
    BY <1>3 DEF Submit, Submittable
  <2>2. QED
    BY <1>0, <1>1, <1>2, <2>1 DEF StageInv
<1>4. ASSUME NEW t \in Ticker, Collect(t)
      PROVE  StageInv'
  <2>1. futures' = futures \ {t} /\ UNCHANGED <<pending, submitted>>
    BY <1>4 DEF Collect
  <2>2. QED
    BY <1>0, <1>1, <1>2, <2>1 DEF StageInv
<1>5. CASE UNCHANGED scheduleVars
  BY <1>0, <1>1, <1>2, <1>5 DEF StageInv, scheduleVars
<1>6. QED
  <2>1. ASSUME NEW t \in Ticker, CancelFuture(t)
        PROVE  UNCHANGED scheduleVars
    BY <2>1 DEF CancelFuture
  <2>2. Shutdown => UNCHANGED scheduleVars
    BY DEF Shutdown
  <2>3. Worker => UNCHANGED scheduleVars
    BY WorkerFrame DEF coordinatorVars
  <2>4. QED
    BY <1>3, <1>4, <1>5, <2>1, <2>2, <2>3, ThreadFrame
LEMMA VisitStep == IInv /\ [Next]_vars => VisitInv'
<1> SUFFICES ASSUME IInv, [Next]_vars PROVE VisitInv'
  OBVIOUS
<1>0. TypeOK /\ VisitInv /\ StageInv
  BY DEF IInv
<1>1. ASSUME NEW t \in Ticker, CheckpointPreterminal(t)
      PROVE  VisitInv'
  <2>1. /\ cpc = "preterminal" /\ cpc' = cpc
        /\ todo' = todo \ {t}
        /\ class' = class
    BY <1>1 DEF CheckpointPreterminal
  <2>2. QED
    BY <1>0, <2>1 DEF VisitInv, Preterminal
<1>2. ASSUME NEW t \in Ticker, Submit(t)
      PROVE  VisitInv'
  <2>1. cpc = "submit" /\ cpc' = cpc /\ todo' = todo
    BY <1>2 DEF Submit
  <2>2. QED
    BY <1>0, <2>1 DEF VisitInv
<1>3. ASSUME NEW t \in Ticker, Collect(t)
      PROVE  VisitInv'
  <2>1. /\ cpc = "collect"
        /\ futures' = futures \ {t}
        /\ todo' = todo \ {t}
        /\ cpc' = IF todo' = {} THEN "submit" ELSE "collect"
        /\ worker' = worker
    BY <1>3 DEF Collect, executorVars
  <2>2. QED
    BY <1>0, <2>1 DEF VisitInv
<1>4. ASSUME NEW t \in Ticker, ObserveFuture(t)
      PROVE  VisitInv'
  <2>1. cpc = "observe" /\ cpc' = "cancel" /\ todo' = todo /\ futures' = futures
    BY <1>4 DEF ObserveFuture, scheduleVars
  <2>2. QED
    BY <1>0, <2>1 DEF VisitInv
<1>5. ASSUME NEW t \in Ticker, CancelFuture(t)
      PROVE  VisitInv'
  <2>1. /\ cpc = "cancel" /\ t \in todo
        /\ futures' = futures /\ pending' = pending
        /\ \/ todo = {t} /\ todo' = futures \cup pending /\ cpc' = "flush"
           \/ todo # {t} /\ todo' = todo \ {t} /\ cpc' = "observe"
    BY <1>5 DEF CancelFuture, FirstOfTodo, TimedOut, scheduleVars
  <2>2. QED
    BY <1>0, <2>1 DEF VisitInv
<1>6. ASSUME NEW t \in Ticker, FlushTimedOut(t)
      PROVE  VisitInv'
  <2>1. /\ cpc = "flush"
        /\ futures' = futures /\ pending' = pending
        /\ todo' = todo \ {t}
        /\ cpc' = IF todo' = {} THEN "shutdown" ELSE "flush"
    BY <1>6 DEF FlushTimedOut, scheduleVars
  <2>2. QED
    BY <1>0, <2>1 DEF VisitInv
<1>7. CASE StartSubmitting \/ AtCapacity \/ LoopEnds \/ LoopWaits \/ AssembleManifest
  <2>1. /\ todo' = {}
        /\ futures' = futures
        /\ \/ cpc' \in {"submit", "loop", "shutdown", "returned", "raised"}
           \/ cpc' = "wait" /\ futures # {}
    BY <1>7 DEF StartSubmitting, AtCapacity, LoopEnds, LoopWaits, AssembleManifest, GoTo,
       Move, scheduleVars
  <2>2. QED
    BY <2>1 DEF VisitInv
<1>8. CASE LoopFindsDeadline \/ WaitTimesOut
  <2>1. cpc' = "observe" /\ todo' = futures /\ futures' = futures /\ futures # {}
    BY <1>0, <1>8 DEF LoopFindsDeadline, WaitTimesOut, GiveUp, Move, VisitInv, scheduleVars
  <2>2. QED
    BY <2>1 DEF VisitInv
<1>9. CASE WaitCompletes
  <2>1. cpc' = "collect" /\ todo' = Finished /\ Finished # {} /\ futures' = futures /\ worker' = worker
    BY <1>9 DEF WaitCompletes, GoTo, Move, scheduleVars, executorVars
  <2>2. QED
    BY <2>1 DEF VisitInv, Finished
<1>10. CASE Shutdown
  <2>1. cpc = "shutdown" /\ cpc' = "assemble" /\ todo' = todo
    BY <1>10 DEF Shutdown
  <2>2. QED
    BY <1>0, <2>1 DEF VisitInv
<1>11. CASE Worker
  <2>1. UNCHANGED <<class, cpc, todo, futures, pending>>
    BY <1>11, WorkerFrame DEF coordinatorVars, scheduleVars
  <2>2. \A u \in Ticker : worker[u] = "done" => worker'[u] = "done"
    <3>1. ThreadInv
      BY DEF IInv
    <3>2. CASE UNCHANGED <<worker, threadVars>>
      BY <3>2
    <3>3. ASSUME NEW t \in Ticker, ThreadMoves(t), NEW u \in Ticker, worker[u] = "done"
          PROVE  worker'[u] = "done"
      <4>1. u # t
        BY <3>3 DEF ThreadMoves, ActiveState
      <4>2. QED
        BY <1>0, <3>3, <4>1 DEF ThreadMoves, TypeOK
    <3>4. QED
      BY <1>0, <1>11, <3>1, <3>2, <3>3, WorkerMoves
  <2>3. todo \subseteq Ticker
    BY <1>0 DEF TypeOK
  <2>4. QED
    BY <1>0, <2>1, <2>2, <2>3 DEF VisitInv, Preterminal
<1>12. CASE UNCHANGED <<coordinatorVars, executorVars>>
  BY <1>0, <1>12 DEF VisitInv, Preterminal, coordinatorVars, executorVars, scheduleVars
<1>13. QED
  BY <1>1, <1>2, <1>3, <1>4, <1>5, <1>6, <1>7, <1>8, <1>9, <1>10, <1>11, <1>12
  DEF Next, Coordinator, DeadlinePasses, Quiet, vars

LEMMA StopStep == IInv /\ [Next]_vars => StopInv'
<1> SUFFICES ASSUME IInv, [Next]_vars PROVE StopInv'
  OBVIOUS
<1>0. StopInv /\ TypeOK
  BY DEF IInv
<1>1. ASSUME NEW t \in Ticker,
             \/ CheckpointPreterminal(t) \/ Submit(t) \/ Collect(t)
             \/ ObserveFuture(t) \/ CancelFuture(t) \/ FlushTimedOut(t)
      PROVE  StopInv'
  <2>1. UNCHANGED <<stop, expired>>
    BY <1>1 DEF CheckpointPreterminal, Submit, Collect, ObserveFuture, CancelFuture,
       FlushTimedOut
  <2>2. \/ cpc \in Scheduling /\ cpc' \in Scheduling
        \/ cpc \in {"observe", "cancel", "flush"} /\ cpc' \notin Scheduling
    BY <1>1 DEF CheckpointPreterminal, Submit, Collect, ObserveFuture, CancelFuture,
       FlushTimedOut, Scheduling
  <2>3. QED
    BY <1>0, <2>1, <2>2 DEF StopInv, Scheduling
<1>2. CASE LoopFindsDeadline \/ WaitTimesOut
  BY <1>2 DEF LoopFindsDeadline, WaitTimesOut, GiveUp, Move, StopInv, Scheduling
<1>3. CASE \/ StartSubmitting \/ AtCapacity \/ LoopEnds \/ LoopWaits \/ WaitCompletes
           \/ Shutdown \/ AssembleManifest
  <2>1. UNCHANGED <<stop, expired>>
    BY <1>3 DEF StartSubmitting, AtCapacity, LoopEnds, LoopWaits, WaitCompletes, Shutdown,
       AssembleManifest, GoTo, Move
  <2>2. \/ cpc \in Scheduling /\ cpc' \in Scheduling
        \/ cpc' \in {"shutdown", "assemble", "returned", "raised"}
    BY <1>3 DEF StartSubmitting, AtCapacity, LoopEnds, LoopWaits, WaitCompletes, Shutdown,
       AssembleManifest, GoTo, Move, Scheduling
  <2>3. QED
    BY <1>0, <2>1, <2>2 DEF StopInv, Scheduling
<1>4. CASE Worker \/ DeadlinePasses \/ UNCHANGED vars
  <2>1. UNCHANGED <<cpc, stop>> /\ (expired => expired')
    BY <1>4, WorkerFrame DEF DeadlinePasses, vars, coordinatorVars
  <2>2. QED
    BY <1>0, <2>1 DEF StopInv, Scheduling
<1>5. QED
  BY <1>1, <1>2, <1>3, <1>4 DEF Next, Coordinator, Quiet

(***************************************************************************)
(* _checkpoint_record settles an open ticker with exactly one record, on   *)
(* which the manifest and the checkpoint agree.                            *)
(***************************************************************************)
LEMMA CheckpointSettles ==
  ASSUME TypeOK, NEW t \in Ticker, NEW r \in Record, r.kind # "checkpoint_failed",
         Checkpoint(t, r), records[t] = <<>>, store[t] = NoRecord
  PROVE  /\ Len(records'[t]) = 1
         /\ store'[t] = IF records'[t][1].kind = "checkpoint_failed" THEN NoRecord
                        ELSE records'[t][1]
         /\ records'[t][1].kind \in {r.kind, "checkpoint_failed"}
         /\ \A u \in Ticker \ {t} : records'[u] = records[u] /\ store'[u] = store[u]
<1>1. FailedCheckpoint(r) \in Record /\ FailedCheckpoint(r).kind = "checkpoint_failed"
  BY DEF FailedCheckpoint, Record, Kind
<1>2. ASSUME NEW q \in Record
      PROVE  Append(<<>>, q) = <<q>> /\ Len(<<q>>) = 1 /\ <<q>>[1] = q
  OBVIOUS
<1>3. CASE /\ store' = [store EXCEPT ![t] = r]
           /\ records' = [records EXCEPT ![t] = Append(@, r)]
  <2>1. store'[t] = r /\ records'[t] = <<r>>
    BY <1>2, <1>3 DEF TypeOK
  <2>2. \A u \in Ticker \ {t} : records'[u] = records[u] /\ store'[u] = store[u]
    BY <1>3 DEF TypeOK
  <2>3. QED
    BY <1>2, <2>1, <2>2
<1>4. CASE /\ records' = [records EXCEPT ![t] = Append(@, FailedCheckpoint(r))]
           /\ UNCHANGED store
  <2>1. store'[t] = NoRecord /\ records'[t] = <<FailedCheckpoint(r)>>
    BY <1>1, <1>2, <1>4 DEF TypeOK
  <2>2. \A u \in Ticker \ {t} : records'[u] = records[u] /\ store'[u] = store[u]
    BY <1>4 DEF TypeOK
  <2>3. QED
    BY <1>1, <1>2, <2>1, <2>2
<1>5. QED
  BY <1>3, <1>4 DEF Checkpoint

\* The other tickers keep their records, and the settled one leaves Open.
LEMMA RecordSettled ==
  ASSUME TypeOK, RecordInv, NEW t \in Open, t \in Ticker, NEW r \in Record,
         r.kind # "checkpoint_failed", Checkpoint(t, r),
         Open' = Open \ {t}, futures' \subseteq futures,
         t \in futures' => r.kind \in RetryableKind
  PROVE  RecordInv'
<1>1. records[t] = <<>> /\ store[t] = NoRecord
  BY DEF RecordInv
<1>2. /\ Len(records'[t]) = 1
      /\ store'[t] = IF records'[t][1].kind = "checkpoint_failed" THEN NoRecord
                     ELSE records'[t][1]
      /\ records'[t][1].kind \in {r.kind, "checkpoint_failed"}
      /\ \A u \in Ticker \ {t} : records'[u] = records[u] /\ store'[u] = store[u]
  BY <1>1, CheckpointSettles
<1>3. t \in futures' => records'[t][1].kind \in RetryableKind
  BY <1>2 DEF RetryableKind
<1>4. QED
  BY <1>2, <1>3 DEF RecordInv

LEMMA RecordKept ==
  ASSUME RecordInv, UNCHANGED outcomeVars, Open' = Open,
         futures' \subseteq futures \cup Open
  PROVE  RecordInv'
BY DEF RecordInv, outcomeVars

LEMMA RecordStep == IInv /\ [Next]_vars => RecordInv'
<1> SUFFICES ASSUME IInv, [Next]_vars PROVE RecordInv'
  OBVIOUS
<1>0. TypeOK /\ VisitInv /\ StageInv /\ RecordInv /\ CountInv /\ ThreadInv
  BY DEF IInv
<1>1. ASSUME NEW t \in Ticker, CheckpointPreterminal(t)
      PROVE  RecordInv'
  <2>1. /\ cpc = "preterminal" /\ cpc' = cpc
        /\ t \in todo
        /\ todo' = todo \ {t}
        /\ pending' = pending /\ futures' = futures
        /\ Checkpoint(t, [kind |-> class[t], attempts |-> 0])
    BY <1>1 DEF CheckpointPreterminal, scheduleVars
  <2>2. class[t] \in PreterminalClass
    BY <1>0, <2>1 DEF VisitInv, Preterminal
  <2>3. /\ [kind |-> class[t], attempts |-> 0] \in Record
        /\ [kind |-> class[t], attempts |-> 0].kind # "checkpoint_failed"
    BY <2>2 DEF PreterminalClass, Record, Kind
  <2>4. t \notin pending
    BY <1>0, <2>2 DEF StageInv, PreterminalClass
  <2>5. t \in Open /\ Open' = Open \ {t}
    BY <2>1, <2>4 DEF Open
  <2>6. futures = {}
    BY <1>0, <2>1 DEF StageInv
  <2>7. QED
    BY <1>0, <2>1, <2>3, <2>5, <2>6, RecordSettled
<1>2. ASSUME NEW t \in Ticker, Collect(t)
      PROVE  RecordInv'
  <2>1. /\ cpc = "collect" /\ cpc' \in {"submit", "collect"}
        /\ t \in todo
        /\ pending' = pending /\ futures' = futures \ {t}
        /\ Checkpoint(t, answer[t])
    BY <1>2 DEF Collect
  <2>2. answer[t] \in Answer /\ t \in futures
    BY <1>0, <2>1 DEF VisitInv, ThreadInv
  <2>3. answer[t] \in Record /\ answer[t].kind # "checkpoint_failed"
    BY <2>2 DEF Answer, AnswerKind, Record, Kind
  <2>4. t \notin pending
    BY <1>0, <2>2 DEF StageInv
  <2>5. t \in Open /\ Open' = Open \ {t}
    BY <2>1, <2>2, <2>4 DEF Open
  <2>6. QED
    BY <1>0, <2>1, <2>3, <2>5, RecordSettled
<1>3. ASSUME NEW t \in Ticker, FlushTimedOut(t)
      PROVE  RecordInv'
  <2>1. /\ cpc = "flush"
        /\ cpc' = IF todo' = {} THEN "shutdown" ELSE "flush"
        /\ t \in todo /\ todo' = todo \ {t}
        /\ futures' = futures
        /\ Checkpoint(t, DeadlineRecord(t))
    BY <1>3 DEF FlushTimedOut, scheduleVars
  <2>2. DeadlineRecord(t) \in Record /\ DeadlineRecord(t).kind = "deadline"
    <3>1. timeoutTries[t] \in {0, 1}
      BY <1>0 DEF TypeOK
    <3>2. QED
      BY <3>1 DEF DeadlineRecord, Record, Kind
  <2>3. t \in Open /\ Open' = Open \ {t}
    BY <2>1 DEF Open
  <2>4. QED
    BY <1>0, <2>1, <2>2, <2>3, RecordSettled DEF RetryableKind
<1>4. ASSUME NEW t \in Ticker, Submit(t)
      PROVE  RecordInv'
  <2>1. /\ cpc = "submit" /\ cpc' = cpc
        /\ t \in pending /\ pending' = pending \ {t}
        /\ futures' = futures \cup {t}
        /\ UNCHANGED outcomeVars
    BY <1>4 DEF Submit, Submittable
  <2>2. Open' = Open /\ t \in Open
    BY <2>1 DEF Open
  <2>3. QED
    BY <1>0, <2>1, <2>2, RecordKept
<1>5. ASSUME NEW t \in Ticker, ObserveFuture(t) \/ CancelFuture(t)
      PROVE  RecordInv'
  <2>1. /\ UNCHANGED <<scheduleVars, outcomeVars>>
        /\ cpc \in {"observe", "cancel"}
        /\ \/ cpc' \in {"observe", "cancel"}
           \/ cpc' = "flush" /\ todo' = futures \cup pending
    BY <1>5 DEF ObserveFuture, CancelFuture, TimedOut
  <2>2. Open' = Open
    BY <2>1 DEF Open, scheduleVars
  <2>3. QED
    BY <1>0, <2>1, <2>2, RecordKept DEF scheduleVars
<1>6. CASE \/ StartSubmitting \/ AtCapacity \/ LoopEnds \/ LoopFindsDeadline \/ LoopWaits
           \/ WaitCompletes \/ WaitTimesOut \/ Shutdown \/ AssembleManifest
  <2>1. UNCHANGED <<scheduleVars, outcomeVars>>
    BY <1>6 DEF StartSubmitting, AtCapacity, LoopEnds, LoopFindsDeadline, LoopWaits,
       WaitCompletes, WaitTimesOut, Shutdown, AssembleManifest, GoTo, GiveUp, Move
  <2>2. CASE StartSubmitting
    <3>1. cpc = "preterminal" /\ todo = {} /\ cpc' = "submit"
      BY <2>2 DEF StartSubmitting, GoTo, Move
    <3>2. futures = {}
      BY <1>0, <3>1 DEF StageInv
    <3>3. Open' = Open
      BY <2>1, <3>1, <3>2 DEF Open, scheduleVars
    <3>4. QED
      BY <1>0, <2>1, <3>3, RecordKept DEF scheduleVars
  <2>3. CASE LoopEnds
    <3>1. cpc = "loop" /\ futures = {} /\ cpc' = "shutdown"
      BY <2>3 DEF LoopEnds, GoTo, Move
    <3>2. pending = {}
      BY <1>0, <3>1 DEF CountInv
    <3>3. Open' = Open
      BY <3>1, <3>2 DEF Open
    <3>4. QED
      BY <1>0, <2>1, <3>3, RecordKept DEF scheduleVars
  <2>4. CASE Shutdown \/ AssembleManifest
    <3>1. /\ cpc \in {"shutdown", "assemble"}
          /\ cpc' \in {"assemble", "returned", "raised"}
      BY <2>4 DEF Shutdown, AssembleManifest, GoTo, Move
    <3>2. Open' = Open
      BY <3>1 DEF Open
    <3>3. QED
      BY <1>0, <2>1, <3>2, RecordKept DEF scheduleVars
  <2>5. CASE \/ AtCapacity \/ LoopFindsDeadline \/ LoopWaits \/ WaitCompletes
             \/ WaitTimesOut
    <3>1. /\ cpc \in {"submit", "loop", "wait"}
          /\ cpc' \in {"loop", "wait", "collect", "observe"}
      BY <2>5 DEF AtCapacity, LoopFindsDeadline, LoopWaits, WaitCompletes, WaitTimesOut,
         GoTo, GiveUp, Move
    <3>2. Open' = Open
      BY <2>1, <3>1 DEF Open, scheduleVars
    <3>3. QED
      BY <1>0, <2>1, <3>2, RecordKept DEF scheduleVars
  <2>6. QED
    BY <1>6, <2>2, <2>3, <2>4, <2>5
<1>7. CASE Worker \/ DeadlinePasses \/ UNCHANGED vars
  <2>1. UNCHANGED coordinatorVars
    BY <1>7, WorkerFrame DEF DeadlinePasses, vars
  <2>2. Open' = Open /\ UNCHANGED <<futures, outcomeVars>>
    BY <2>1 DEF Open, coordinatorVars, scheduleVars
  <2>3. QED
    BY <1>0, <2>2, RecordKept
<1>8. QED
  BY <1>1, <1>2, <1>3, <1>4, <1>5, <1>6, <1>7 DEF Next, Coordinator, Quiet
-----------------------------------------------------------------------------
(* Cardinalities. *)

LEMMA TickerSets ==
  ASSUME NEW S, S \subseteq Ticker
  PROVE  IsFiniteSet(S) /\ Cardinality(S) \in Nat
BY TickerAssumption, FS_Subset, FS_CardinalityType

LEMMA SmallerSet ==
  ASSUME NEW S, S \subseteq Ticker, NEW T, T \subseteq S
  PROVE  Cardinality(T) <= Cardinality(S)
BY TickerSets, FS_Subset

\* A ticker entering or leaving a set changes the count of its own lane only.
LEMMA LaneAdd ==
  ASSUME NEW S, S \subseteq Ticker, NEW t \in Ticker, t \notin S, NEW l \in Lane
  PROVE  Cardinality(OnLane(S \cup {t}, l)) =
           Cardinality(OnLane(S, l)) + (IF LaneOf[t] = l THEN 1 ELSE 0)
<1>1. OnLane(S, l) \subseteq Ticker /\ t \notin OnLane(S, l)
  BY DEF OnLane
<1>2. IsFiniteSet(OnLane(S, l)) /\ Cardinality(OnLane(S, l)) \in Nat
  BY <1>1, TickerSets
<1>3. CASE LaneOf[t] = l
  <2>1. OnLane(S \cup {t}, l) = OnLane(S, l) \cup {t}
    BY <1>3 DEF OnLane
  <2>2. Cardinality(OnLane(S, l) \cup {t}) = Cardinality(OnLane(S, l)) + 1
    BY <1>1, <1>2, FS_AddElement
  <2>3. QED
    BY <1>3, <2>1, <2>2
<1>4. CASE LaneOf[t] # l
  <2>1. OnLane(S \cup {t}, l) = OnLane(S, l)
    BY <1>4 DEF OnLane
  <2>2. QED
    BY <1>2, <1>4, <2>1
<1>5. QED
  BY <1>3, <1>4

\* Threads become active only when TakeWork finds one free.
LEMMA ActiveStep ==
  ASSUME IInv, [Next]_vars
  PROVE  Cardinality(Active') <= MaxWorkers
<1>0. TypeOK /\ ThreadInv /\ Cardinality(Active) <= MaxWorkers
  BY DEF IInv, LaneInv
<1>1. Active \subseteq Ticker
  BY DEF Active
<1>2. Cardinality(Active) \in Nat /\ IsFiniteSet(Active) /\ MaxWorkers \in Nat
  BY <1>1, TickerSets, CapacityAssumption
<1>3. ASSUME Active' \subseteq Active
      PROVE  Cardinality(Active') <= MaxWorkers
  <2>1. Cardinality(Active') <= Cardinality(Active) /\ Cardinality(Active') \in Nat
    BY <1>1, <1>3, SmallerSet, TickerSets
  <2>2. QED
    BY <1>0, <1>2, <2>1
<1>4. ASSUME NEW t \in Ticker, Submit(t) \/ CancelFuture(t)
      PROVE  Active' \subseteq Active
  <2>1. \/ worker' = [worker EXCEPT ![t] = "queued"]
        \/ worker' = [worker EXCEPT ![t] = IF @ = "queued" THEN "cancelled" ELSE @]
    BY <1>4 DEF Submit, CancelFuture
  <2>2. QED
    BY <1>0, <2>1 DEF Active, ActiveState, TypeOK
<1>5. ASSUME NEW t \in Ticker, Collect(t)
      PROVE  Active' \subseteq Active
  BY <1>5 DEF Collect, executorVars, Active
<1>6. ASSUME Shutdown
      PROVE  Active' \subseteq Active
  BY <1>0, <1>6 DEF Shutdown, Active, ActiveState, TypeOK
<1>7. ASSUME UNCHANGED <<executorVars, scheduleVars>>
      PROVE  Active' \subseteq Active
  BY <1>7 DEF executorVars, Active
<1>8. ASSUME NEW t \in Ticker, ThreadMoves(t)
      PROVE  Cardinality(Active') <= MaxWorkers
  <2>1. Active' \subseteq Active \cup {t}
    BY <1>0, <1>8 DEF ThreadMoves, Active, TypeOK
  <2>2. CASE worker[t] = "queued"
    <3>1. Cardinality(Active) < MaxWorkers /\ t \notin Active
      BY <1>8, <2>2 DEF ThreadMoves, Active, ActiveState
    <3>2. Cardinality(Active \cup {t}) = Cardinality(Active) + 1
      BY <1>2, <3>1, FS_AddElement
    <3>3. /\ Cardinality(Active') <= Cardinality(Active \cup {t})
          /\ Cardinality(Active') \in Nat
      BY <1>1, <2>1, SmallerSet, TickerSets
    <3>4. QED
      BY <1>2, <3>1, <3>2, <3>3
  <2>3. CASE worker[t] # "queued"
    <3>1. t \in Active
      BY <1>8, <2>3 DEF ThreadMoves, Active
    <3>2. QED
      BY <1>3, <2>1, <3>1
  <2>4. QED
    BY <2>2, <2>3
<1>9. CASE Worker
  <2>1. CASE UNCHANGED <<worker, threadVars>>
    BY <1>3, <2>1 DEF Active
  <2>2. QED
    BY <1>0, <1>8, <1>9, <2>1, WorkerMoves
<1>10. QED
  BY <1>3, <1>4, <1>5, <1>6, <1>7, <1>9, ThreadFrame

LEMMA LaneStep == IInv /\ [Next]_vars => LaneInv'
<1> SUFFICES ASSUME IInv, [Next]_vars PROVE LaneInv'
  OBVIOUS
<1>0. TypeOK /\ VisitInv /\ StageInv /\ LaneInv
  BY DEF IInv
<1>1. Cardinality(Active') <= MaxWorkers
  BY ActiveStep
<1>2. futures \subseteq Ticker /\ IsFiniteSet(futures) /\ Cardinality(futures) \in Nat
  BY <1>0, TickerSets DEF TypeOK
<1>3. \A l \in Lane : /\ LimitOf(l) \in Nat
                      /\ laneInFlight[l] \in Int
                      /\ Cardinality(OnLane(futures, l)) \in Nat
  <2>1. \A l \in Lane : OnLane(futures, l) \subseteq Ticker
    BY <1>2 DEF OnLane
  <2>2. QED
    BY <1>0, <2>1, LimitIsPositive, TickerSets DEF TypeOK
<1>4. ASSUME NEW t \in Ticker, Submit(t)
      PROVE  LaneInv'
  <2>1. /\ t \in pending /\ LaneHasRoom(t) /\ FlightHasRoom
        /\ futures' = futures \cup {t}
        /\ laneInFlight' = [laneInFlight EXCEPT ![LaneOf[t]] = @ + 1]
    BY <1>4 DEF Submit, Submittable
  <2>2. t \notin futures
    BY <1>0, <2>1 DEF StageInv
  <2>3. Cardinality(futures') = Cardinality(futures) + 1
    BY <1>2, <2>1, <2>2, FS_AddElement
  <2>4. Cardinality(futures') <= MaxInFlight
    BY <1>2, <2>1, <2>3, CapacityAssumption DEF FlightHasRoom
  <2>5. ASSUME NEW l \in Lane
        PROVE  /\ laneInFlight'[l] = Cardinality(OnLane(futures', l))
               /\ laneInFlight'[l] <= LimitOf(l)
    <3>1. Cardinality(OnLane(futures', l)) =
            Cardinality(OnLane(futures, l)) + (IF LaneOf[t] = l THEN 1 ELSE 0)
      BY <1>2, <2>1, <2>2, LaneAdd
    <3>2. /\ laneInFlight'[l] = IF LaneOf[t] = l THEN laneInFlight[l] + 1 ELSE laneInFlight[l]
      BY <1>0, <2>1, LaneCountType
    <3>3. laneInFlight[l] = Cardinality(OnLane(futures, l)) /\ laneInFlight[l] <= LimitOf(l)
      BY <1>0 DEF LaneInv
    <3>4. LaneOf[t] = l => laneInFlight[l] < LimitOf(l)
      BY <2>1 DEF LaneHasRoom
    <3>5. QED
      BY <1>3, <3>1, <3>2, <3>3, <3>4
  <2>6. QED
    BY <1>1, <2>4, <2>5 DEF LaneInv, LimitOf, OnLane
<1>5. ASSUME NEW t \in Ticker, Collect(t)
      PROVE  LaneInv'
  <2>1. /\ t \in futures
        /\ futures' = futures \ {t}
        /\ laneInFlight' = [laneInFlight EXCEPT ![LaneOf[t]] = @ - 1]
    BY <1>0, <1>5 DEF Collect, ReleaseLane, VisitInv
  <2>2. futures = futures' \cup {t} /\ t \notin futures' /\ futures' \subseteq Ticker
    BY <1>2, <2>1
  <2>3. Cardinality(futures') <= MaxInFlight
    <3>1. Cardinality(futures') <= Cardinality(futures) /\ Cardinality(futures') \in Nat
      BY <1>2, <2>1, <2>2, SmallerSet, TickerSets
    <3>2. QED
      BY <1>0, <1>2, <3>1, CapacityAssumption DEF LaneInv
  <2>4. ASSUME NEW l \in Lane
        PROVE  /\ laneInFlight'[l] = Cardinality(OnLane(futures', l))
               /\ laneInFlight'[l] <= LimitOf(l)
    <3>1. Cardinality(OnLane(futures, l)) =
            Cardinality(OnLane(futures', l)) + (IF LaneOf[t] = l THEN 1 ELSE 0)
      BY <2>2, LaneAdd
    <3>2. laneInFlight'[l] = IF LaneOf[t] = l THEN laneInFlight[l] - 1 ELSE laneInFlight[l]
      BY <1>0, <2>1, LaneCountType
    <3>3. laneInFlight[l] = Cardinality(OnLane(futures, l)) /\ laneInFlight[l] <= LimitOf(l)
      BY <1>0 DEF LaneInv
    <3>4. OnLane(futures', l) \subseteq Ticker
      BY <2>2 DEF OnLane
    <3>5. Cardinality(OnLane(futures', l)) \in Nat
      BY <3>4, TickerSets
    <3>6. QED
      BY <1>3, <3>1, <3>2, <3>3, <3>5
  <2>5. QED
    BY <1>1, <2>3, <2>4 DEF LaneInv, LimitOf, OnLane
<1>6. CASE UNCHANGED scheduleVars
  BY <1>0, <1>1, <1>6 DEF LaneInv, scheduleVars, LimitOf, OnLane
<1>7. QED
  <2>1. ASSUME NEW t \in Ticker, CancelFuture(t)
        PROVE  UNCHANGED scheduleVars
    BY <2>1 DEF CancelFuture
  <2>2. Shutdown => UNCHANGED scheduleVars
    BY DEF Shutdown
  <2>3. Worker => UNCHANGED scheduleVars
    BY WorkerFrame DEF coordinatorVars
  <2>4. QED
    BY <1>4, <1>5, <1>6, <2>1, <2>2, <2>3, ThreadFrame
LEMMA CountStep == IInv /\ [Next]_vars => CountInv'
<1> SUFFICES ASSUME IInv, [Next]_vars PROVE CountInv'
  OBVIOUS
<1>0. TypeOK /\ CountInv /\ StopInv /\ LaneInv
  BY DEF IInv
<1>1. Cardinality({}) = 0
  BY FS_EmptySet
<1>2. ASSUME NEW t \in Ticker,
             \/ CheckpointPreterminal(t) \/ Submit(t) \/ Collect(t) \/ ObserveFuture(t)
      PROVE  CountInv'
  <2>1. /\ unscheduled' = unscheduled
        /\ \/ cpc \in Scheduling /\ cpc' \in Scheduling \ {"loop"}
           \/ cpc = "observe" /\ cpc' = "cancel"
    BY <1>2 DEF CheckpointPreterminal, Submit, Collect, ObserveFuture, timeoutVars, Scheduling
  <2>2. QED
    BY <1>0, <2>1 DEF CountInv, Scheduling
<1>3. ASSUME NEW t \in Ticker, CancelFuture(t)
      PROVE  CountInv'
  <2>1. /\ cpc = "cancel" /\ stop' = stop
        /\ pending' = pending
        /\ \/ cpc' = "flush" /\ unscheduled' = Cardinality(pending)
           \/ cpc' = "observe" /\ unscheduled' = unscheduled
    BY <1>3 DEF CancelFuture, scheduleVars
  <2>2. QED
    BY <1>0, <2>1 DEF CountInv, Scheduling
<1>4. ASSUME NEW t \in Ticker, FlushTimedOut(t)
      PROVE  CountInv'
  <2>1. /\ cpc = "flush" /\ cpc' \in {"flush", "shutdown"}
        /\ pending' = pending /\ unscheduled' = unscheduled
        /\ stop' = stop
    BY <1>4 DEF FlushTimedOut, scheduleVars, timeoutVars
  <2>2. stop
    BY <1>0, <2>1 DEF StopInv
  <2>3. QED
    BY <1>0, <2>1, <2>2 DEF CountInv, Scheduling
<1>5. CASE AtCapacity
  <2>1. /\ cpc = "submit" /\ cpc' = "loop"
        /\ ~ (FlightHasRoom /\ Submittable # {})
        /\ UNCHANGED <<pending, futures, unscheduled>>
    BY <1>5 DEF AtCapacity, GoTo, Move, scheduleVars, timeoutVars
  <2>2. ASSUME futures = {}
        PROVE  pending = {}
    <3>1. FlightHasRoom
      BY <1>1, <2>2, CapacityAssumption DEF FlightHasRoom
    <3>2. ASSUME NEW t \in Ticker
          PROVE  LaneHasRoom(t)
      <4>1. OnLane(futures, LaneOf[t]) = {} /\ LaneOf[t] \in Lane
        BY <2>2, LaneAssumption DEF OnLane
      <4>2. laneInFlight[LaneOf[t]] = 0
        BY <1>0, <1>1, <4>1 DEF LaneInv
      <4>3. LimitOf(LaneOf[t]) \in Nat \ {0}
        BY <4>1, LimitIsPositive
      <4>4. QED
        BY <4>2, <4>3 DEF LaneHasRoom
    <3>3. Submittable = pending
      BY <1>0, <3>2 DEF Submittable, TypeOK
    <3>4. QED
      BY <2>1, <3>1, <3>3
  <2>3. QED
    BY <1>0, <2>1, <2>2 DEF CountInv, Scheduling
<1>6. CASE LoopEnds
  <2>1. /\ cpc = "loop" /\ cpc' = "shutdown" /\ futures = {}
        /\ UNCHANGED <<pending, unscheduled>>
    BY <1>6 DEF LoopEnds, GoTo, Move, scheduleVars, timeoutVars
  <2>2. pending = {} /\ unscheduled = 0
    BY <1>0, <2>1 DEF CountInv, Scheduling
  <2>3. QED
    BY <1>1, <2>1, <2>2 DEF CountInv, Scheduling
<1>7. CASE \/ StartSubmitting \/ LoopFindsDeadline \/ LoopWaits \/ WaitCompletes
           \/ WaitTimesOut
  <2>1. /\ unscheduled' = unscheduled
        /\ cpc \in Scheduling
        /\ cpc' \in {"submit", "observe", "wait", "collect"}
    BY <1>7 DEF StartSubmitting, LoopFindsDeadline, LoopWaits, WaitCompletes, WaitTimesOut,
       GoTo, GiveUp, Move, timeoutVars, Scheduling
  <2>2. QED
    BY <1>0, <2>1 DEF CountInv, Scheduling
<1>8. CASE Shutdown \/ AssembleManifest
  <2>1. /\ UNCHANGED <<pending, unscheduled, stop>>
        /\ cpc \in {"shutdown", "assemble"}
        /\ cpc' \in {"assemble", "returned", "raised"}
    BY <1>8 DEF Shutdown, AssembleManifest, GoTo, Move, scheduleVars, timeoutVars
  <2>2. QED
    BY <1>0, <2>1 DEF CountInv, Scheduling
<1>9. CASE Worker \/ DeadlinePasses \/ UNCHANGED vars
  <2>1. UNCHANGED <<cpc, pending, futures, unscheduled, stop>>
    <3>1. Worker => UNCHANGED <<coordinatorVars>>
      BY WorkerFrame
    <3>2. QED
      BY <1>9, <3>1 DEF DeadlinePasses, vars, coordinatorVars, scheduleVars, timeoutVars
  <2>2. QED
    BY <1>0, <2>1 DEF CountInv, Scheduling
<1>10. QED
  BY <1>2, <1>3, <1>4, <1>5, <1>6, <1>7, <1>8, <1>9 DEF Next, Coordinator, Quiet

LEMMA LateStep == IInv /\ [Next]_vars => LateInv'
<1> SUFFICES ASSUME IInv, [Next]_vars PROVE LateInv'
  OBVIOUS
<1>0. TypeOK /\ ThreadInv /\ LateInv /\ StopInv
  BY DEF IInv
<1>1. ASSUME NEW t \in Ticker, Submit(t)
      PROVE  LateInv'
  <2>1. /\ cpc = "submit" /\ UNCHANGED <<stop, lateCalls>>
        /\ worker' = [worker EXCEPT ![t] = "queued"]
    BY <1>1 DEF Submit, threadVars
  <2>2. ~stop
    BY <1>0, <2>1 DEF StopInv, Scheduling
  <2>3. QED
    BY <1>0, <2>1, <2>2 DEF LateInv, TypeOK
<1>2. ASSUME NEW t \in Ticker, Collect(t)
      PROVE  LateInv'
  BY <1>0, <1>2 DEF Collect, executorVars, threadVars, LateInv
<1>3. ASSUME NEW t \in Ticker, CancelFuture(t)
      PROVE  LateInv'
  <2>1. /\ UNCHANGED <<stop, lateCalls>>
        /\ worker' = [worker EXCEPT ![t] = IF @ = "queued" THEN "cancelled" ELSE @]
    BY <1>3 DEF CancelFuture, threadVars
  <2>2. QED
    BY <1>0, <2>1 DEF LateInv, TypeOK
<1>4. CASE Shutdown
  <2>1. /\ UNCHANGED <<stop, lateCalls>>
        /\ \A u \in Ticker : worker'[u] = worker[u] \/ worker[u] = "queued"
    BY <1>4 DEF Shutdown, threadVars
  <2>2. QED
    BY <1>0, <2>1 DEF LateInv
<1>5. CASE Worker
  <2>1. UNCHANGED stop
    BY <1>5, WorkerFrame DEF coordinatorVars
  <2>2. CASE UNCHANGED <<worker, threadVars>>
    BY <1>0, <2>1, <2>2 DEF LateInv, threadVars
  <2>3. ASSUME NEW t \in Ticker, ThreadMoves(t)
        PROVE  LateInv'
    <3>1. \A u \in Ticker \ {t} : /\ worker'[u] = worker[u]
                                  /\ lateCalls'[u] = lateCalls[u]
      BY <1>0, <2>3 DEF ThreadMoves, TypeOK
    <3>2. CASE lateCalls' = lateCalls
      <4>1. worker'[t] \in {"limiting", "invoking"} => lateCalls[t] # 1
        BY <1>0, <2>3 DEF ThreadMoves, LateInv
      <4>2. worker'[t] \in ActiveState \cup {"done"}
        BY <2>3 DEF ThreadMoves
      <4>3. QED
        BY <1>0, <2>1, <3>1, <3>2, <4>1, <4>2 DEF LateInv, ActiveState
    <3>3. CASE /\ worker[t] = "invoking" /\ worker'[t] = "calling"
               /\ stop
               /\ lateCalls' = [lateCalls EXCEPT ![t] = @ + 1]
      <4>1. lateCalls[t] = 0 /\ lateCalls'[t] = 1
        <5>1. lateCalls[t] \in Nat /\ lateCalls[t] <= 1 /\ lateCalls[t] # 1
          BY <1>0, <3>3 DEF LateInv, TypeOK
        <5>2. lateCalls[t] = 0
          BY <5>1
        <5>3. QED
          BY <1>0, <3>3, <5>2 DEF TypeOK
      <4>2. QED
        BY <1>0, <2>1, <3>1, <3>3, <4>1 DEF LateInv
    <3>4. QED
      BY <2>3, <3>2, <3>3 DEF ThreadMoves
  <2>4. QED
    BY <1>0, <1>5, <2>2, <2>3, WorkerMoves
<1>6. CASE UNCHANGED <<executorVars, scheduleVars>>
  <2>1. ~stop' => ~stop
    BY DEF Next, Coordinator, Quiet, vars, coordinatorVars, CheckpointPreterminal, Submit,
     Collect, CancelFuture, Shutdown, ObserveFuture, FlushTimedOut, StartSubmitting,
     AtCapacity, LoopEnds, LoopFindsDeadline, LoopWaits, WaitCompletes, WaitTimesOut,
     AssembleManifest, DeadlinePasses, GoTo, GiveUp, Move, Worker, TakeWork, BeginAttempt,
     LimiterRaises, LimiterAdmits, Invoke, RunTickerAnswers
  <2>2. UNCHANGED <<worker, lateCalls>>
    BY <1>6 DEF executorVars, threadVars
  <2>3. QED
    BY <1>0, <2>1, <2>2 DEF LateInv
<1>7. QED
  BY <1>1, <1>2, <1>3, <1>4, <1>5, <1>6, ThreadFrame

-----------------------------------------------------------------------------
(* The theorems. *)

LEMMA InvStep == IInv /\ [Next]_vars => IInv'
BY TypeStep, ThreadStep, VisitStep, StageStep, StopStep, RecordStep, LaneStep, CountStep,
   LateStep DEF IInv

(***************************************************************************)
(* The inductive invariant holds in every behaviour: records, lanes,       *)
(* counters, threads and the coordinator's place stay consistent.          *)
(***************************************************************************)
THEOREM Invariance == Spec => []IInv
BY InitInv, InvStep, PTL DEF Spec

(***************************************************************************)
(* Every variable keeps its type, whatever the callers' data and limits.   *)
(***************************************************************************)
THEOREM TypeCorrect == Spec => []TypeOK
<1>1. IInv => TypeOK
  BY DEF IInv
<1>2. QED
  BY <1>1, Invariance, PTL

(***************************************************************************)
(* max_in_flight, max_workers and every provider lane limit bound the work *)
(* really going on; active threads belong to futures, so abandoned ones    *)
(* are counted too (ticker_batch.py 314-338, 354).                         *)
(***************************************************************************)
THEOREM LimitsAlwaysHold == Spec => []LimitsHold
<1>1. IInv => LimitsHold
  <2> SUFFICES ASSUME IInv PROVE LimitsHold
    OBVIOUS
  <2>0. TypeOK /\ ThreadInv /\ LaneInv
    BY DEF IInv
  <2>1. Active \subseteq futures
    BY <2>0 DEF Active, ThreadInv, ActiveState
  <2>2. ASSUME NEW l \in Lane
        PROVE  Cardinality(OnLane(Active, l)) <= LimitOf(l)
    <3>1. OnLane(Active, l) \subseteq OnLane(futures, l) /\ OnLane(futures, l) \subseteq Ticker
      BY <2>0, <2>1 DEF OnLane, TypeOK
    <3>2. /\ Cardinality(OnLane(Active, l)) <= Cardinality(OnLane(futures, l))
          /\ Cardinality(OnLane(Active, l)) \in Nat
          /\ Cardinality(OnLane(futures, l)) \in Nat
      BY <3>1, SmallerSet, TickerSets
    <3>3. Cardinality(OnLane(futures, l)) <= LimitOf(l) /\ LimitOf(l) \in Nat
      BY <2>0, LimitIsPositive DEF LaneInv
    <3>4. QED
      BY <3>2, <3>3
  <2>3. QED
    BY <2>0, <2>2 DEF LimitsHold, LaneInv
<1>2. QED
  BY <1>1, Invariance, PTL

(***************************************************************************)
(* The scheduling loop never leaves a pending ticker behind, although it   *)
(* only looks at futures (ticker_batch.py 341-370).                        *)
(***************************************************************************)
THEOREM NoTickerIsLost == Spec => []NoTickerLost
<1>1. IInv => NoTickerLost
  BY DEF IInv, CountInv, NoTickerLost
<1>2. QED
  BY <1>1, Invariance, PTL

(***************************************************************************)
(* The manifest's record of a settled ticker and its durable checkpoint    *)
(* agree (ticker_batch.py 521-541).                                        *)
(***************************************************************************)
THEOREM CheckpointAlwaysAgrees == Spec => []CheckpointAgrees
<1>1. IInv => CheckpointAgrees
  BY DEF IInv, RecordInv, CheckpointAgrees, Settled
<1>2. QED
  BY <1>1, Invariance, PTL

(***************************************************************************)
(* An answer the deadline branch discards leaves a retryable record, even  *)
(* when its thread still runs or had finished (ticker_batch.py 372-405).   *)
(***************************************************************************)
THEOREM DiscardedWorkStaysRetryable == Spec => []DiscardedWorkIsRetryable
<1>1. IInv => DiscardedWorkIsRetryable
  <2> SUFFICES ASSUME IInv PROVE DiscardedWorkIsRetryable
    OBVIOUS
  <2>1. Active \subseteq futures
    BY DEF IInv, Active, ThreadInv, ActiveState
  <2>2. QED
    BY <2>1 DEF IInv, RecordInv, DiscardedWorkIsRetryable, Settled
<1>2. QED
  BY <1>1, Invariance, PTL

(***************************************************************************)
(* A thread abandoned at the deadline begins at most the one run_ticker    *)
(* call it had been admitted to (ticker_batch.py 449-467).                 *)
(***************************************************************************)
THEOREM AbandonedThreadsWindDown == Spec => []AbandonedWorkWindsDown
<1>1. IInv => AbandonedWorkWindsDown
  BY DEF IInv, LateInv, AbandonedWorkWindsDown
<1>2. QED
  BY <1>1, Invariance, PTL
==============================================================================
