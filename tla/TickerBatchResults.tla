-------------------------- MODULE TickerBatchResults --------------------------
(***************************************************************************)
(* More theorems about TickerBatch, on top of its inductive invariant: the *)
(* manifest is never refused, what a record says happened did happen, and  *)
(* every step of the batch is a step of BatchContract or hidden from it.   *)
(***************************************************************************)
EXTENDS TickerBatchProofs

-----------------------------------------------------------------------------
(* The manifest's counts. *)

\* Runnable, resumed and refused tickers partition the request, and a runnable
\* ticker was submitted or is still pending.
LEMMA CountsAddUp ==
  ASSUME TypeOK, StageInv
  PROVE  Cardinality(Ticker) = Cardinality(submitted) + Cardinality(Resumed)
                               + Cardinality(Preterminal) + Cardinality(pending)
<1>1. /\ submitted \subseteq Ticker /\ pending \subseteq Ticker
      /\ Resumed \subseteq Ticker /\ Preterminal \subseteq Ticker
  BY DEF TypeOK, Resumed, Preterminal
<1>2. /\ IsFiniteSet(submitted) /\ Cardinality(submitted) \in Nat
      /\ IsFiniteSet(pending) /\ Cardinality(pending) \in Nat
      /\ IsFiniteSet(Resumed) /\ Cardinality(Resumed) \in Nat
      /\ IsFiniteSet(Preterminal) /\ Cardinality(Preterminal) \in Nat
  BY <1>1, TickerSets
<1>3. ASSUME NEW S, NEW T, IsFiniteSet(S), IsFiniteSet(T), S \cap T = {},
             Cardinality(S) \in Nat, Cardinality(T) \in Nat
      PROVE  IsFiniteSet(S \cup T) /\ Cardinality(S \cup T) = Cardinality(S) + Cardinality(T)
  <2>1. Cardinality(S \cap T) = 0
    BY <1>3, FS_EmptySet
  <2>2. /\ IsFiniteSet(S \cup T)
        /\ Cardinality(S \cup T) = Cardinality(S) + Cardinality(T) - Cardinality(S \cap T)
    BY <1>3, FS_Union
  <2>3. QED
    BY <1>3, <2>1, <2>2
<1> DEFINE Runnable == { t \in Ticker : class[t] = "runnable" }
           Refused  == Resumed \cup Preterminal
<1>4. /\ Ticker = Runnable \cup Refused /\ Runnable \cap Refused = {}
      /\ Resumed \cap Preterminal = {}
  BY DEF TypeOK, TickerClass, PreterminalClass, Resumed, Preterminal
<1>5. Runnable = submitted \cup pending /\ submitted \cap pending = {}
  BY DEF StageInv
<1>6. /\ IsFiniteSet(Runnable)
      /\ Cardinality(Runnable) = Cardinality(submitted) + Cardinality(pending)
  BY <1>2, <1>3, <1>5
<1>7. /\ IsFiniteSet(Refused)
      /\ Cardinality(Refused) = Cardinality(Resumed) + Cardinality(Preterminal)
  BY <1>2, <1>3, <1>4
<1> HIDE DEF Runnable, Refused
<1>8. Cardinality(Runnable) \in Nat /\ Cardinality(Refused) \in Nat
  BY <1>2, <1>6, <1>7
<1>9. Cardinality(Ticker) = Cardinality(Runnable) + Cardinality(Refused)
  BY <1>3, <1>4, <1>6, <1>7, <1>8
<1>10. QED
  BY <1>2, <1>6, <1>7, <1>9

LEMMA ManifestAlwaysReconciles ==
  ASSUME IInv, cpc = "assemble"
  PROVE  ManifestReconciles
<1>1. unscheduled = Cardinality(pending)
  BY DEF IInv, CountInv, Scheduling
<1>2. \A t \in Ticker : Len(records[t]) = 1
  BY DEF IInv, RecordInv, Open
<1>3. QED
  BY <1>1, <1>2, CountsAddUp DEF IInv, ManifestReconciles

(***************************************************************************)
(* The manifest validator accepts every manifest the batch assembles: one  *)
(* record per ticker, and counts that reconcile with the request           *)
(* (ticker_batch.py 54-83, 409-433).                                       *)
(***************************************************************************)
THEOREM ManifestIsNeverRefused == Spec => []ManifestNeverRefused
<1>1. Init => ManifestNeverRefused
  BY DEF Init, ManifestNeverRefused
<1>2. IInv /\ ManifestNeverRefused /\ [Next]_vars => ManifestNeverRefused'
  <2> SUFFICES ASSUME IInv, ManifestNeverRefused, [Next]_vars
               PROVE  ManifestNeverRefused'
    OBVIOUS
  <2>1. CASE AssembleManifest
    BY <2>1, ManifestAlwaysReconciles DEF AssembleManifest, GoTo, Move, ManifestNeverRefused
  <2>2. CASE Worker
    BY <2>2, WorkerFrame DEF coordinatorVars, ManifestNeverRefused
  <2>3. ASSUME ~AssembleManifest, ~Worker
        PROVE  ManifestNeverRefused'
    BY <2>3 DEF Next, Coordinator, Quiet, vars, coordinatorVars, CheckpointPreterminal,
       Submit, Collect, CancelFuture, Shutdown, ObserveFuture, FlushTimedOut,
       StartSubmitting, AtCapacity, LoopEnds, LoopFindsDeadline, LoopWaits, WaitCompletes,
       WaitTimesOut, DeadlinePasses, GoTo, GiveUp, Move, ManifestNeverRefused
  <2>4. QED
    BY <2>1, <2>2, <2>3
<1>3. QED
  BY <1>1, <1>2, Invariance, PTL DEF Spec

-----------------------------------------------------------------------------
(* Records tell what happened. *)

Honest(t, r) ==
  /\ r.kind = "transient" => r.attempts = MaxAttempts
  /\ r.kind = "deadline" => expired
  /\ r.kind # "resumed" => r.attempts <= attempt[t]

HonestInv ==
  \A t \in Ticker :
    /\ t \notin submitted => worker[t] = "idle"
    /\ worker[t] \in {"idle", "queued"} => attempt[t] = 0
    /\ worker[t] = "done" => Honest(t, answer[t])
    /\ worker[t] \in ActiveState => attempt[t] >= 1
    /\ timeoutTries[t] <= attempt[t]
    /\ cpc = "cancel" /\ FirstOfTodo(t) => observed <= attempt[t]
    /\ records[t] # <<>> => Honest(t, records[t][1])

\* Attempts only grow and the deadline stays passed, so an honest record stays so.
LEMMA HonestStays ==
  ASSUME TypeOK, TypeOK', NEW t \in Ticker, NEW r, r.attempts \in Nat, Honest(t, r),
         attempt'[t] >= attempt[t], expired => expired'
  PROVE  Honest(t, r)'
<1>1. attempt[t] \in Nat /\ attempt'[t] \in Nat
  BY CapacityAssumption DEF TypeOK
<1>2. QED
  BY <1>1 DEF Honest

\* Every conjunct but the last, for steps that settle no ticker.
LEMMA RecordsStayHonest ==
  ASSUME TypeOK, TypeOK', HonestInv, UNCHANGED records, expired => expired',
         \A t \in Ticker : attempt'[t] >= attempt[t],
         NEW t \in Ticker, records'[t] # <<>>
  PROVE  Honest(t, records[t][1])'
<1>1. records[t][1] \in Record
  BY DEF TypeOK
<1>2. records[t][1].attempts \in Nat
  BY <1>1 DEF Record
<1>3. Honest(t, records[t][1])
  BY DEF HonestInv
<1>4. QED
  BY <1>2, <1>3, HonestStays DEF Honest

\* A step that settles ticker t with an honest record keeps every record honest.
LEMMA SettledHonestly ==
  ASSUME IInv, HonestInv, NEW t \in Open, t \in Ticker, NEW r \in Record,
         r.kind \notin {"checkpoint_failed", "resumed"}, Honest(t, r), Checkpoint(t, r),
         UNCHANGED <<attempt, expired>>
  PROVE  \A u \in Ticker : records'[u] # <<>> => Honest(u, records[u][1])'
<1>1. records[t] = <<>> /\ store[t] = NoRecord /\ TypeOK
  BY DEF IInv, RecordInv
<1>2. records'[t] = <<r>> \/ records'[t] = <<FailedCheckpoint(r)>>
  BY <1>1 DEF Checkpoint, TypeOK
<1>3. \A u \in Ticker \ {t} : records'[u] = records[u]
  BY <1>1, CheckpointSettles
<1>4. Honest(t, FailedCheckpoint(r))
  BY DEF Honest, FailedCheckpoint
<1>5. Honest(t, records'[t][1])
  BY <1>2, <1>4
<1>6. ASSUME NEW u \in Ticker, records'[u] # <<>>
      PROVE  Honest(u, records'[u][1])
  BY <1>3, <1>5, <1>6 DEF HonestInv
<1>7. QED
  BY <1>6 DEF Honest

LEMMA HonestInit == Init => HonestInv
<1> SUFFICES ASSUME Init, NEW t \in Ticker
             PROVE  /\ t \notin submitted => worker[t] = "idle"
                    /\ worker[t] \in {"idle", "queued"} => attempt[t] = 0
                    /\ worker[t] = "done" => Honest(t, answer[t])
                    /\ worker[t] \in ActiveState => attempt[t] >= 1
                    /\ timeoutTries[t] <= attempt[t]
                    /\ cpc = "cancel" /\ FirstOfTodo(t) => observed <= attempt[t]
                    /\ records[t] # <<>> => Honest(t, records[t][1])
  BY DEF HonestInv
<1>1. worker[t] = "idle" /\ attempt[t] = 0 /\ timeoutTries[t] = 0 /\ cpc = "preterminal"
  BY DEF Init
<1>2. records[t] # <<>> => records[t][1] = ResumedRecord
  BY DEF Init
<1>3. Honest(t, ResumedRecord)
  BY DEF Honest, ResumedRecord
<1>4. QED
  BY <1>1, <1>2, <1>3 DEF ActiveState

LEMMA HonestStep == IInv /\ IInv' /\ HonestInv /\ [Next]_vars => HonestInv'
<1> SUFFICES ASSUME IInv, IInv', HonestInv, [Next]_vars PROVE HonestInv'
  OBVIOUS
<1>0. /\ TypeOK /\ TypeOK' /\ ThreadInv /\ VisitInv /\ StageInv /\ StopInv
  BY DEF IInv
<1>a. \A t \in Ticker : attempt[t] \in Nat
  BY <1>0, CapacityAssumption DEF TypeOK
\* Steps that change no thread, no timeout and no submission.
<1> DEFINE Calm == UNCHANGED <<executorVars, submitted, timeoutTries, expired>>
<1>b. ASSUME Calm, cpc' # "cancel",
             \A t \in Ticker : records'[t] # <<>> => Honest(t, records[t][1])'
      PROVE  HonestInv'
  BY <1>b DEF HonestInv, Honest, executorVars, threadVars, FirstOfTodo
<1>c. ASSUME UNCHANGED <<attempt, expired, records>>, NEW t \in Ticker, records'[t] # <<>>
      PROVE  Honest(t, records[t][1])'
  BY <1>c DEF HonestInv, Honest
<1>1. ASSUME NEW t \in Ticker, CheckpointPreterminal(t)
      PROVE  HonestInv'
  <2>1. /\ cpc = "preterminal" /\ cpc' = cpc /\ t \in todo
        /\ Checkpoint(t, [kind |-> class[t], attempts |-> 0])
        /\ Calm /\ UNCHANGED <<attempt, expired>>
    BY <1>1 DEF CheckpointPreterminal, scheduleVars, timeoutVars, executorVars, threadVars
  <2>2. class[t] \in PreterminalClass /\ t \in Open
    BY <1>0, <2>1 DEF VisitInv, Preterminal, Open
  <2>3. [kind |-> class[t], attempts |-> 0] \in Record
    BY <2>2 DEF PreterminalClass, Record, Kind
  <2>4. /\ [kind |-> class[t], attempts |-> 0].kind
             \notin {"checkpoint_failed", "resumed", "transient", "deadline"}
        /\ [kind |-> class[t], attempts |-> 0].attempts = 0
    BY <2>2 DEF PreterminalClass
  <2>5. Honest(t, [kind |-> class[t], attempts |-> 0])
    BY <1>a, <2>4 DEF Honest
  <2>6. \A u \in Ticker : records'[u] # <<>> => Honest(u, records[u][1])'
    BY <2>1, <2>2, <2>3, <2>4, <2>5, SettledHonestly
  <2>7. QED
    BY <1>b, <2>1, <2>6
<1>2. ASSUME NEW t \in Ticker, Collect(t)
      PROVE  HonestInv'
  <2>1. /\ cpc = "collect" /\ cpc' # "cancel" /\ t \in todo
        /\ Checkpoint(t, answer[t])
        /\ Calm /\ UNCHANGED <<attempt, expired>>
    BY <1>2 DEF Collect, timeoutVars, executorVars, threadVars
  <2>2. answer[t] \in Answer /\ worker[t] = "done" /\ t \in Open
    BY <1>0, <2>1 DEF VisitInv, ThreadInv, Open
  <2>3. answer[t] \in Record /\ answer[t].kind \notin {"checkpoint_failed", "resumed"}
    BY <2>2 DEF Answer, AnswerKind, Record, Kind
  <2>4. Honest(t, answer[t])
    BY <2>2 DEF HonestInv
  <2>5. \A u \in Ticker : records'[u] # <<>> => Honest(u, records[u][1])'
    BY <2>1, <2>2, <2>3, <2>4, SettledHonestly
  <2>6. QED
    BY <1>b, <2>1, <2>5
<1>3. ASSUME NEW t \in Ticker, FlushTimedOut(t)
      PROVE  HonestInv'
  <2>1. /\ cpc = "flush" /\ cpc' # "cancel" /\ t \in todo
        /\ Checkpoint(t, DeadlineRecord(t))
        /\ Calm /\ UNCHANGED <<attempt, expired>>
    BY <1>3 DEF FlushTimedOut, scheduleVars, timeoutVars, executorVars, threadVars
  <2>2. timeoutTries[t] \in {0, 1} /\ timeoutTries[t] <= attempt[t]
    BY <1>0 DEF TypeOK, HonestInv
  <2>3. /\ DeadlineRecord(t) \in Record
        /\ DeadlineRecord(t).kind = "deadline"
        /\ DeadlineRecord(t).attempts = timeoutTries[t]
    BY <2>2 DEF DeadlineRecord, Record, Kind
  <2>4. expired /\ t \in Open
    BY <1>0, <2>1 DEF StopInv, Open
  <2>5. Honest(t, DeadlineRecord(t))
    BY <2>2, <2>3, <2>4 DEF Honest
  <2>6. \A u \in Ticker : records'[u] # <<>> => Honest(u, records[u][1])'
    BY <2>1, <2>3, <2>4, <2>5, SettledHonestly
  <2>7. QED
    BY <1>b, <2>1, <2>6
<1>4. ASSUME NEW t \in Ticker, Submit(t)
      PROVE  HonestInv'
  <2>1. /\ cpc' = "submit" /\ t \in pending
        /\ submitted' = submitted \cup {t}
        /\ worker' = [worker EXCEPT ![t] = "queued"]
        /\ UNCHANGED <<attempt, answer, timeoutTries, records, expired>>
    BY <1>4 DEF Submit, Submittable, timeoutVars, outcomeVars, threadVars
  <2>2. attempt[t] = 0
    BY <1>0, <2>1 DEF StageInv, HonestInv
  <2>3. ASSUME NEW u \in Ticker
        PROVE  /\ u \notin submitted' => worker'[u] = "idle"
               /\ worker'[u] \in {"idle", "queued"} => attempt'[u] = 0
               /\ worker'[u] = "done" => Honest(u, answer[u])'
               /\ worker'[u] \in ActiveState => attempt'[u] >= 1
               /\ timeoutTries'[u] <= attempt'[u]
    BY <1>0, <2>1, <2>2 DEF HonestInv, Honest, ActiveState, TypeOK
  <2>4. QED
    BY <1>c, <2>1, <2>3 DEF HonestInv
<1>5. ASSUME NEW t \in Ticker, ObserveFuture(t)
      PROVE  HonestInv'
  <2>1. /\ FirstOfTodo(t) /\ todo' = todo
        /\ observed' = IF t \in Active THEN 1 ELSE 0
        /\ Calm /\ UNCHANGED <<attempt, expired, records>>
    BY <1>5 DEF ObserveFuture, scheduleVars, outcomeVars, executorVars, threadVars
  <2>2. ASSUME NEW u \in Ticker, FirstOfTodo(u)'
        PROVE  observed' <= attempt'[u]
    <3>1. u = t
      BY <2>1, <2>2, TickerAssumption DEF FirstOfTodo
    <3>2. t \in Active => attempt[t] >= 1
      BY DEF HonestInv, Active
    <3>3. QED
      BY <1>a, <2>1, <3>1, <3>2
  <2>3. QED
    BY <1>c, <2>1, <2>2 DEF HonestInv, Honest, executorVars, threadVars
<1>6. ASSUME NEW t \in Ticker, CancelFuture(t)
      PROVE  HonestInv'
  <2>1. /\ cpc = "cancel" /\ FirstOfTodo(t) /\ cpc' # "cancel"
        /\ worker' = [worker EXCEPT ![t] = IF @ = "queued" THEN "cancelled" ELSE @]
        /\ timeoutTries' = [timeoutTries EXCEPT ![t] = observed]
        /\ UNCHANGED <<attempt, answer, submitted, records, expired>>
    BY <1>6 DEF CancelFuture, scheduleVars, outcomeVars, threadVars
  <2>2. observed <= attempt[t] /\ t \in submitted
    BY <1>0, <2>1 DEF HonestInv, VisitInv, StageInv, FirstOfTodo
  <2>3. ASSUME NEW u \in Ticker
        PROVE  /\ u \notin submitted' => worker'[u] = "idle"
               /\ worker'[u] \in {"idle", "queued"} => attempt'[u] = 0
               /\ worker'[u] = "done" => Honest(u, answer[u])'
               /\ worker'[u] \in ActiveState => attempt'[u] >= 1
    BY <1>0, <2>1, <2>2 DEF HonestInv, Honest, ActiveState, TypeOK
  <2>4. \A u \in Ticker : timeoutTries'[u] <= attempt'[u]
    BY <1>0, <2>1, <2>2 DEF HonestInv, TypeOK
  <2>5. QED
    BY <1>c, <2>1, <2>3, <2>4 DEF HonestInv
<1>7. CASE Shutdown
  <2>1. /\ cpc' # "cancel"
        /\ UNCHANGED <<attempt, answer, submitted, timeoutTries, records, expired>>
    BY <1>7 DEF Shutdown, scheduleVars, timeoutVars, outcomeVars, threadVars
  <2>2. \A u \in Ticker :
          worker'[u] = worker[u] \/ (worker[u] = "queued" /\ worker'[u] = "cancelled")
    BY <1>7 DEF Shutdown
  <2>3. ASSUME NEW u \in Ticker
        PROVE  /\ u \notin submitted' => worker'[u] = "idle"
               /\ worker'[u] \in {"idle", "queued"} => attempt'[u] = 0
               /\ worker'[u] = "done" => Honest(u, answer[u])'
               /\ worker'[u] \in ActiveState => attempt'[u] >= 1
               /\ timeoutTries'[u] <= attempt'[u]
    BY <2>1, <2>2 DEF HonestInv, Honest, ActiveState
  <2>4. QED
    BY <1>c, <2>1, <2>3 DEF HonestInv
<1>8. CASE \/ StartSubmitting \/ AtCapacity \/ LoopEnds \/ LoopFindsDeadline \/ LoopWaits
           \/ WaitCompletes \/ WaitTimesOut \/ AssembleManifest
  <2>1. /\ cpc' # "cancel"
        /\ Calm /\ UNCHANGED <<attempt, expired, records>>
    BY <1>8 DEF StartSubmitting, AtCapacity, LoopEnds, LoopFindsDeadline, LoopWaits,
       WaitCompletes, WaitTimesOut, AssembleManifest, GoTo, GiveUp, Move, scheduleVars,
       timeoutVars, outcomeVars, executorVars, threadVars
  <2>2. QED
    BY <1>b, <1>c, <2>1
<1>9. CASE Worker
  <2>1. UNCHANGED <<cpc, todo, submitted, observed, timeoutTries, records, expired, stop>>
    BY <1>9, WorkerFrame DEF coordinatorVars, scheduleVars, timeoutVars, outcomeVars
  <2>2. CASE UNCHANGED <<worker, threadVars>>
    BY <1>c, <2>1, <2>2 DEF HonestInv, Honest, threadVars, FirstOfTodo
  <2>3. ASSUME NEW t \in Ticker, ThreadMoves(t)
        PROVE  HonestInv'
    <3>1. \A u \in Ticker \ {t} : /\ worker'[u] = worker[u]
                                  /\ attempt'[u] = attempt[u]
                                  /\ answer'[u] = answer[u]
      BY <1>0, <2>3 DEF ThreadMoves, TypeOK
    <3>2. attempt[t] \in Nat /\ attempt'[t] \in Nat
      BY <1>0, CapacityAssumption DEF TypeOK
    <3>3. attempt'[t] >= attempt[t]
      BY <2>3, <3>2 DEF ThreadMoves, HonestInv
    <3>4. \A u \in Ticker : attempt'[u] >= attempt[u]
      BY <1>a, <3>1, <3>3
    <3>5. t \in submitted
      BY <2>3 DEF ThreadMoves, HonestInv, ActiveState
    <3>6. \/ worker'[t] \in ActiveState /\ attempt'[t] >= 1
          \/ worker'[t] = "done" /\ Earned(t)
      BY <2>3 DEF ThreadMoves
    <3>7. Earned(t) => Honest(t, answer[t])'
      BY <1>0, <2>1 DEF Earned, Honest, StopInv
    <3>8. ASSUME NEW u \in Ticker
          PROVE  /\ u \notin submitted' => worker'[u] = "idle"
                 /\ worker'[u] \in {"idle", "queued"} => attempt'[u] = 0
                 /\ worker'[u] = "done" => Honest(u, answer[u])'
                 /\ worker'[u] \in ActiveState => attempt'[u] >= 1
      <4>1. CASE u = t
        BY <2>1, <3>5, <3>6, <3>7, <4>1 DEF ActiveState
      <4>2. CASE u # t
        BY <2>1, <3>1, <4>2 DEF HonestInv, Honest
      <4>3. QED
        BY <4>1, <4>2
    <3>9. \A u \in Ticker : /\ timeoutTries'[u] <= attempt'[u]
                            /\ cpc' = "cancel" /\ FirstOfTodo(u)' => observed' <= attempt'[u]
      <4>1. ASSUME NEW u \in Ticker
            PROVE  /\ timeoutTries'[u] <= attempt'[u]
                   /\ cpc' = "cancel" /\ FirstOfTodo(u)' => observed' <= attempt'[u]
        <5>1. attempt[u] \in Nat /\ attempt'[u] \in Nat /\ attempt'[u] >= attempt[u]
          BY <1>0, <1>a, <3>4, CapacityAssumption DEF TypeOK
        <5>2. timeoutTries[u] \in {0, 1} /\ observed \in {0, 1}
          BY <1>0 DEF TypeOK
        <5>3. /\ timeoutTries[u] <= attempt[u]
              /\ cpc = "cancel" /\ FirstOfTodo(u) => observed <= attempt[u]
          BY DEF HonestInv
        <5>4. FirstOfTodo(u)' = FirstOfTodo(u)
          BY <2>1 DEF FirstOfTodo
        <5>5. QED
          BY <2>1, <5>1, <5>2, <5>3, <5>4
      <4>2. QED
        BY <4>1
    <3>10. \A u \in Ticker : records'[u] # <<>> => Honest(u, records[u][1])'
      BY <1>0, <2>1, <3>4, RecordsStayHonest
    <3>11. QED
      BY <3>8, <3>9, <3>10 DEF HonestInv
  <2>4. QED
    BY <1>0, <1>9, <2>2, <2>3, WorkerMoves
<1>10. CASE DeadlinePasses \/ UNCHANGED vars
  <2>1. /\ UNCHANGED <<coordinatorVars, executorVars>> /\ (expired => expired')
    BY <1>10 DEF DeadlinePasses, vars
  <2>2. QED
    BY <2>1 DEF HonestInv, Honest, coordinatorVars, executorVars, threadVars, scheduleVars,
       timeoutVars, outcomeVars, FirstOfTodo
<1>11. QED
  BY <1>1, <1>2, <1>3, <1>4, <1>5, <1>6, <1>7, <1>8, <1>9, <1>10
  DEF Next, Coordinator, Quiet

(***************************************************************************)
(* A transient failure is reported only with the retry budget spent, a     *)
(* timeout only after the deadline, and no attempt is reported that was    *)
(* not begun, even by the coordinator's running() look at a thread         *)
(* (ticker_batch.py 372-388, 446-516).                                     *)
(***************************************************************************)
THEOREM RecordsStayTrue == Spec => []RecordsAreHonest
<1>1. IInv /\ HonestInv => RecordsAreHonest
  BY DEF HonestInv, Honest, RecordsAreHonest, Settled
<1>2. QED
  BY <1>1, HonestInit, HonestStep, Invariance, PTL DEF Spec

-----------------------------------------------------------------------------
(* The batch implements BatchContract, step by step. *)

\* A step settles one open ticker through the checkpoint, or settles none.
LEMMA StepSettles ==
  ASSUME IInv, [Next]_vars
  PROVE  \/ UNCHANGED outcomeVars
         \/ /\ cpc # "returned" /\ cpc' # "returned"
            /\ \E t \in Ticker, r \in Record :
                 t \in Open /\ r.kind # "checkpoint_failed" /\ Checkpoint(t, r)
<1>0. TypeOK /\ VisitInv /\ ThreadInv
  BY DEF IInv
<1>1. ASSUME NEW t \in Ticker, CheckpointPreterminal(t)
      PROVE  /\ cpc # "returned" /\ cpc' # "returned"
             /\ \E r \in Record :
                  t \in Open /\ r.kind # "checkpoint_failed" /\ Checkpoint(t, r)
  <2>1. /\ cpc = "preterminal" /\ cpc' = cpc /\ t \in todo
        /\ Checkpoint(t, [kind |-> class[t], attempts |-> 0])
    BY <1>1 DEF CheckpointPreterminal
  <2>2. class[t] \in PreterminalClass /\ t \in Open
    BY <1>0, <2>1 DEF VisitInv, Preterminal, Open
  <2>3. /\ [kind |-> class[t], attempts |-> 0] \in Record
        /\ [kind |-> class[t], attempts |-> 0].kind # "checkpoint_failed"
    BY <2>2 DEF PreterminalClass, Record, Kind
  <2>4. QED
    BY <2>1, <2>2, <2>3
<1>2. ASSUME NEW t \in Ticker, Collect(t)
      PROVE  /\ cpc # "returned" /\ cpc' # "returned"
             /\ \E r \in Record :
                  t \in Open /\ r.kind # "checkpoint_failed" /\ Checkpoint(t, r)
  <2>1. /\ cpc = "collect" /\ cpc' # "returned" /\ t \in todo
        /\ Checkpoint(t, answer[t])
    BY <1>2 DEF Collect
  <2>2. answer[t] \in Answer /\ t \in Open
    BY <1>0, <2>1 DEF VisitInv, ThreadInv, Open
  <2>3. answer[t] \in Record /\ answer[t].kind # "checkpoint_failed"
    BY <2>2 DEF Answer, AnswerKind, Record, Kind
  <2>4. QED
    BY <2>1, <2>2, <2>3
<1>3. ASSUME NEW t \in Ticker, FlushTimedOut(t)
      PROVE  /\ cpc # "returned" /\ cpc' # "returned"
             /\ \E r \in Record :
                  t \in Open /\ r.kind # "checkpoint_failed" /\ Checkpoint(t, r)
  <2>1. /\ cpc = "flush" /\ cpc' # "returned" /\ t \in todo
        /\ Checkpoint(t, DeadlineRecord(t))
    BY <1>3 DEF FlushTimedOut
  <2>2. timeoutTries[t] \in {0, 1} /\ t \in Open
    BY <1>0, <2>1 DEF TypeOK, Open
  <2>3. DeadlineRecord(t) \in Record /\ DeadlineRecord(t).kind # "checkpoint_failed"
    BY <2>2 DEF DeadlineRecord, Record, Kind
  <2>4. QED
    BY <2>1, <2>2, <2>3
<1>4. ASSUME ~ \E t \in Ticker : CheckpointPreterminal(t) \/ Collect(t) \/ FlushTimedOut(t)
      PROVE  UNCHANGED outcomeVars
  <2>1. Worker => UNCHANGED outcomeVars
    BY WorkerFrame DEF coordinatorVars
  <2>2. QED
    BY <1>4, <2>1 DEF Next, Coordinator, Quiet, vars, coordinatorVars, Submit,
       CancelFuture, Shutdown, ObserveFuture, StartSubmitting, AtCapacity, LoopEnds,
       LoopFindsDeadline, LoopWaits, WaitCompletes, WaitTimesOut, AssembleManifest,
       DeadlinePasses, GoTo, GiveUp, Move
<1>5. QED
  BY <1>1, <1>2, <1>3, <1>4

(***************************************************************************)
(* The checkpoint of a ticker is written at most once in a batch           *)
(* (docstring of run_ticker_batch, ticker_batch.py 125-129).               *)
(***************************************************************************)
THEOREM CheckpointIsWrittenOnce == Spec => CheckpointedOnce
<1>1. IInv /\ [Next]_vars =>
        [\A t \in Ticker : store[t] # NoRecord => store'[t] = store[t]]_vars
  <2> SUFFICES ASSUME IInv, [Next]_vars, NEW t \in Ticker, store[t] # NoRecord
               PROVE  store'[t] = store[t]
    OBVIOUS
  <2>0. TypeOK /\ RecordInv
    BY DEF IInv
  <2>1. CASE UNCHANGED outcomeVars
    BY <2>1 DEF outcomeVars
  <2>2. ASSUME NEW u \in Ticker, NEW r \in Record,
               u \in Open, r.kind # "checkpoint_failed", Checkpoint(u, r)
        PROVE  store'[t] = store[t]
    <3>1. records[u] = <<>> /\ store[u] = NoRecord
      BY <2>0, <2>2 DEF RecordInv
    <3>2. \A v \in Ticker \ {u} : store'[v] = store[v]
      BY <2>0, <2>2, <3>1, CheckpointSettles
    <3>3. QED
      BY <3>1, <3>2
  <2>3. QED
    BY <2>1, <2>2, StepSettles
<1>2. QED
  BY <1>1, Invariance, PTL DEF Spec, CheckpointedOnce

\* An open ticker is open to the caller; settling it is SettleDurably or
\* SettleUnsaved.
LEMMA SettlingImplements ==
  ASSUME IInv, NEW t \in Ticker, t \in Open, NEW r \in Record,
         r.kind # "checkpoint_failed", Checkpoint(t, r),
         cpc # "returned", cpc' # "returned"
  PROVE  \/ \E a \in {"final", "retry"} : Contract!SettleDurably(t, a)
         \/ Contract!SettleUnsaved(t)
<1>0. TypeOK /\ records[t] = <<>> /\ store[t] = NoRecord
  BY DEF IInv, RecordInv
<1>1. ASSUME NEW q \in Record
      PROVE  /\ q # NoRecord
             /\ AnswerOf(q) = IF q.kind \in RetryableKind THEN "retry" ELSE "final"
  <2>1. q.kind # NoRecord.kind
    BY DEF Record, Kind, NoRecord
  <2>2. QED
    BY <2>1 DEF AnswerOf
<1>2. FailedCheckpoint(r) \in Record /\ AnswerOf(FailedCheckpoint(r)) = "retry"
  <2>1. FailedCheckpoint(r) \in Record /\ FailedCheckpoint(r).kind = "checkpoint_failed"
    BY DEF FailedCheckpoint, Record, Kind
  <2>2. QED
    BY <1>1, <2>1 DEF RetryableKind
<1>3. AnswerOf(r) \in {"final", "retry"} /\ AnswerOf(NoRecord) = "open"
  BY <1>1 DEF AnswerOf, NoRecord, RetryableKind
<1>4. LastRecord(t) = NoRecord
  BY <1>0 DEF LastRecord, Settled
<1>5. \A u \in Ticker \ {t} : LastRecord(u)' = LastRecord(u) /\ store'[u] = store[u]
  <2>1. \A u \in Ticker \ {t} : records'[u] = records[u] /\ store'[u] = store[u]
    BY <1>0, CheckpointSettles
  <2>2. QED
    BY <2>1 DEF LastRecord, Settled
<1>6. ASSUME NEW q \in Record, records'[t] = <<q>>
      PROVE  LastRecord(t)' = q
  BY <1>6 DEF LastRecord, Settled
<1>7. CASE /\ store' = [store EXCEPT ![t] = r]
           /\ records' = [records EXCEPT ![t] = Append(@, r)]
  <2>1. records'[t] = <<r>> /\ store'[t] = r
    BY <1>0, <1>7 DEF TypeOK
  <2>2. LastRecord(t)' = r
    BY <1>6, <2>1
  <2>3. [u \in Ticker |-> AnswerOf(LastRecord(u))]' =
          [[u \in Ticker |-> AnswerOf(LastRecord(u))] EXCEPT ![t] = AnswerOf(r)]
    BY <1>5, <2>2
  <2>4. [u \in Ticker |-> AnswerOf(store[u])]' =
          [[u \in Ticker |-> AnswerOf(store[u])] EXCEPT ![t] = AnswerOf(r)]
    BY <1>5, <2>1
  <2>5. Contract!SettleDurably(t, AnswerOf(r))
    BY <1>3, <1>4, <2>3, <2>4 DEF Contract!SettleDurably
  <2>6. QED
    BY <1>3, <2>5
<1>8. CASE /\ records' = [records EXCEPT ![t] = Append(@, FailedCheckpoint(r))]
           /\ UNCHANGED store
  <2>1. records'[t] = <<FailedCheckpoint(r)>>
    BY <1>0, <1>8 DEF TypeOK
  <2>2. LastRecord(t)' = FailedCheckpoint(r)
    BY <1>2, <1>6, <2>1
  <2>3. [u \in Ticker |-> AnswerOf(LastRecord(u))]' =
          [[u \in Ticker |-> AnswerOf(LastRecord(u))] EXCEPT ![t] = "retry"]
    BY <1>2, <1>5, <2>2
  <2>4. QED
    BY <1>3, <1>4, <1>8, <2>3 DEF Contract!SettleUnsaved
<1>9. QED
  BY <1>7, <1>8 DEF Checkpoint

LEMMA RefinementInit == Init => Contract!Init
<1> SUFFICES ASSUME Init PROVE Contract!Init
  OBVIOUS
<1>1. /\ AnswerOf(ResumedRecord) = "final" /\ AnswerOf(NoRecord) = "open"
      /\ ResumedRecord # NoRecord
  BY DEF AnswerOf, ResumedRecord, NoRecord, RetryableKind
<1>2. ASSUME NEW t \in Ticker
      PROVE  /\ LastRecord(t) = IF t \in Resumed THEN ResumedRecord ELSE NoRecord
             /\ store[t] = IF t \in Resumed THEN ResumedRecord ELSE NoRecord
  BY DEF Init, LastRecord, Settled
<1>3. /\ [t \in Ticker |-> AnswerOf(LastRecord(t))] =
           [t \in Ticker |-> IF t \in Resumed THEN "final" ELSE "open"]
      /\ [t \in Ticker |-> AnswerOf(store[t])] =
           [t \in Ticker |-> IF t \in Resumed THEN "final" ELSE "open"]
  BY <1>1, <1>2
<1>4. Resumed \in SUBSET Ticker /\ (cpc = "returned") = FALSE
  BY DEF Resumed, Init
<1>5. QED
  BY <1>3, <1>4 DEF Contract!Init

\* Returning is the contract's Return: no ticker is open any more.
LEMMA ReturningImplements ==
  ASSUME IInv, UNCHANGED outcomeVars, cpc = "assemble", cpc' = "returned"
  PROVE  Contract!Return
<1>1. ASSUME NEW t \in Ticker
      PROVE  AnswerOf(LastRecord(t)) # "open"
  <2>1. records[t] \in Seq(Record) /\ Len(records[t]) = 1
    BY DEF IInv, TypeOK, RecordInv, Open
  <2>2. LastRecord(t) \in Record
    <3>1. records[t] # <<>> /\ records[t][1] \in Record
      BY <2>1
    <3>2. LastRecord(t) = records[t][1]
      BY <2>1, <3>1 DEF LastRecord, Settled
    <3>3. QED
      BY <3>1, <3>2
  <2>3. LastRecord(t) # NoRecord
    BY <2>2 DEF Record, Kind, NoRecord
  <2>4. QED
    BY <2>3 DEF AnswerOf
<1>2. /\ [t \in Ticker |-> AnswerOf(LastRecord(t))]' = [t \in Ticker |-> AnswerOf(LastRecord(t))]
      /\ [t \in Ticker |-> AnswerOf(store[t])]' = [t \in Ticker |-> AnswerOf(store[t])]
  BY DEF outcomeVars, LastRecord, Settled
<1>3. QED
  BY <1>1, <1>2 DEF Contract!Return

LEMMA RefinementStep == IInv /\ [Next]_vars => [Contract!Next]_(Contract!vars)
<1> SUFFICES ASSUME IInv, [Next]_vars PROVE [Contract!Next]_(Contract!vars)
  OBVIOUS
<1>1. CASE /\ cpc # "returned" /\ cpc' # "returned"
           /\ \E t \in Ticker, r \in Record :
                t \in Open /\ r.kind # "checkpoint_failed" /\ Checkpoint(t, r)
  <2>1. PICK t \in Ticker, r \in Record :
               t \in Open /\ r.kind # "checkpoint_failed" /\ Checkpoint(t, r)
    BY <1>1
  <2>2. \/ \E a \in {"final", "retry"} : Contract!SettleDurably(t, a)
        \/ Contract!SettleUnsaved(t)
    BY <1>1, <2>1, SettlingImplements
  <2>3. QED
    BY <2>2 DEF Contract!Next, Contract!Answer
<1>2. CASE UNCHANGED outcomeVars
  <2>1. \/ cpc = "assemble" /\ cpc' = "returned"
        \/ (cpc' = "returned") = (cpc = "returned")
    <3>1. Worker => UNCHANGED cpc
      BY WorkerFrame DEF coordinatorVars
    <3>2. QED
      BY <3>1 DEF Next, Coordinator, Quiet, vars, coordinatorVars, CheckpointPreterminal,
         Submit, Collect, CancelFuture, Shutdown, ObserveFuture, FlushTimedOut,
         StartSubmitting, AtCapacity, LoopEnds, LoopFindsDeadline, LoopWaits,
         WaitCompletes, WaitTimesOut, AssembleManifest, DeadlinePasses, GoTo, GiveUp, Move
  <2>2. CASE cpc = "assemble" /\ cpc' = "returned"
    BY <1>2, <2>2, ReturningImplements DEF Contract!Next
  <2>3. CASE (cpc' = "returned") = (cpc = "returned")
    <3>1. /\ [t \in Ticker |-> AnswerOf(LastRecord(t))]' = [t \in Ticker |-> AnswerOf(LastRecord(t))]
          /\ [t \in Ticker |-> AnswerOf(store[t])]' = [t \in Ticker |-> AnswerOf(store[t])]
      BY <1>2 DEF outcomeVars, LastRecord, Settled
    <3>2. QED
      BY <2>3, <3>1 DEF Contract!vars
  <2>4. QED
    BY <2>1, <2>2, <2>3
<1>3. QED
  BY <1>1, <1>2, StepSettles

(***************************************************************************)
(* The safety part of ImplementsContract, for every value of the           *)
(* constants: a batch starts as BatchContract starts, and every step of    *)
(* its coordinator and threads is a step of BatchContract or invisible to  *)
(* the caller (ticker_batch.py 110-435).                                   *)
(***************************************************************************)
THEOREM BatchKeepsItsContract ==
  Spec => Contract!Init /\ [][Contract!Next]_(Contract!vars)
BY RefinementInit, RefinementStep, Invariance, PTL DEF Spec
==============================================================================
