--------------------------- MODULE WorkupRunsProofs ---------------------------
(***************************************************************************)
(* Proofs about WorkupRuns for any number of tickers, of overlapping or    *)
(* killed runs, of contexts and of answers.                                *)
(***************************************************************************)
EXTENDS WorkupRuns, TLAPS

\* A record being persisted belongs to a running run and answers its context;
\* a row its SELECT returned is still there.
HeldInv ==
  \A r \in Run :
    held[r] # Nothing =>
      /\ held[r].ticker \in Ticker
      /\ rpc[r] = "running"
      /\ held[r].record.context = context[r][held[r].ticker]
      /\ held[r].found # NoRow => table[held[r].ticker] = held[r].found

\* The rows a run loaded are still in the table.
PriorInv ==
  \A r \in Run, t \in Ticker :
    prior[r][t] # NoRow => table[t] = prior[r][t]

\* Nothing is reported before every context of the run is frozen.
FrozenInv ==
  \A r \in Run, t \in Ticker :
    rpc[r] \in {"idle", "preparing"} => ~Reported(r, t)

IInv ==
  /\ TypeOK
  /\ HeldInv
  /\ PriorInv
  /\ FrozenInv
  /\ ReportsAreDurable
  /\ ReportsAreForThisContext

LEMMA PlaceholdersAreNoRecords ==
  /\ Unsettled \notin Record
  /\ CheckpointFailed \notin Record
  /\ NoRow \notin Row
  /\ Nothing \notin [ticker : Ticker, record : Record, found : Row \cup {NoRow}]
BY NameAssumption DEF Unsettled, CheckpointFailed, NoRow, Nothing, Record, Row

LEMMA InitInv == Init => IInv
<1> SUFFICES ASSUME Init PROVE IInv
  OBVIOUS
<1>1. TypeOK
  BY DEF Init, TypeOK
<1>2. HeldInv /\ PriorInv
  BY DEF Init, HeldInv, PriorInv
<1>3. \A r \in Run, t \in Ticker : ~Reported(r, t)
  BY DEF Init, Reported
<1>4. QED
  BY <1>1, <1>2, <1>3 DEF IInv, FrozenInv, ReportsAreDurable, ReportsAreForThisContext

\* A settled record is durable and answers the run's context; nothing else moves.
LEMMA SettleKeeps ==
  ASSUME IInv, NEW r \in Run, held[r] # Nothing, NEW outcome,
         outcome \in Record \cup {CheckpointFailed}, Settle(r, outcome),
         \A t \in Ticker : table[t] # NoRow => table'[t] = table[t],
         table' \in [Ticker -> Row \cup {NoRow}],
         outcome # CheckpointFailed =>
           /\ table'[held[r].ticker] # NoRow
           /\ table'[held[r].ticker].record = outcome
           /\ outcome.context = context[r][held[r].ticker]
  PROVE  IInv'
<1> DEFINE h == held[r].ticker
<1>0. /\ TypeOK /\ HeldInv /\ PriorInv /\ FrozenInv /\ ReportsAreDurable
      /\ ReportsAreForThisContext
  BY DEF IInv
<1>1. h \in Ticker /\ rpc[r] = "running"
  BY <1>0 DEF HeldInv
<1>2. /\ report' = [report EXCEPT ![r][h] = outcome]
      /\ held' = [held EXCEPT ![r] = Nothing]
      /\ UNCHANGED <<inputs, rpc, batchId, prior, context, todo>>
  BY DEF Settle
<1>3. /\ report'[r][h] = outcome
      /\ \A q \in Run, t \in Ticker : q # r \/ t # h => report'[q][t] = report[q][t]
      /\ report' \in [Run -> [Ticker -> Record \cup {Unsettled, CheckpointFailed}]]
  BY <1>0, <1>1, <1>2 DEF TypeOK
<1>4. TypeOK'
  BY <1>0, <1>2, <1>3 DEF TypeOK
<1>5. \A q \in Run : held'[q] # Nothing => q # r /\ held'[q] = held[q]
  BY <1>0, <1>2 DEF TypeOK
<1>6. HeldInv'
  BY <1>0, <1>2, <1>5 DEF HeldInv
<1>7. PriorInv'
  BY <1>0, <1>2 DEF PriorInv
<1>8. ASSUME NEW q \in Run, NEW t \in Ticker, Reported(q, t)'
      PROVE  /\ rpc'[q] \notin {"idle", "preparing"}
             /\ table'[t] # NoRow /\ table'[t].record = report'[q][t]
             /\ report'[q][t].context = context'[q][t]
  <2>1. CASE q = r /\ t = h
    BY <1>1, <1>2, <1>3, <1>8, <2>1 DEF Reported
  <2>2. CASE q # r \/ t # h
    <3>1. report'[q][t] = report[q][t] /\ Reported(q, t)
      BY <1>3, <1>8, <2>2 DEF Reported
    <3>2. table[t] # NoRow /\ table[t].record = report[q][t]
      BY <1>0, <3>1 DEF ReportsAreDurable
    <3>3. QED
      BY <1>0, <1>2, <3>1, <3>2 DEF FrozenInv, ReportsAreForThisContext
  <2>3. QED
    BY <2>1, <2>2
<1>9. QED
  BY <1>4, <1>6, <1>7, <1>8
  DEF IInv, FrozenInv, ReportsAreDurable, ReportsAreForThisContext

LEMMA InvStep == IInv /\ [Next]_vars => IInv'
<1> SUFFICES ASSUME IInv, [Next]_vars PROVE IInv'
  OBVIOUS
<1>0. /\ TypeOK /\ HeldInv /\ PriorInv /\ FrozenInv /\ ReportsAreDurable
      /\ ReportsAreForThisContext
  BY DEF IInv
<1> USE DEF Reported
<1>1. ASSUME NEW r \in Run, LoadPriorRecords(r)
      PROVE  IInv'
  <2>1. /\ rpc[r] = "idle" /\ rpc' = [rpc EXCEPT ![r] = "preparing"]
        /\ prior' = [prior EXCEPT ![r] = table]
        /\ todo' = [todo EXCEPT ![r] = Ticker]
        /\ UNCHANGED <<table, inputs, batchId, context, held, report>>
    BY <1>1 DEF LoadPriorRecords
  <2>2. TypeOK'
    BY <1>0, <2>1 DEF TypeOK
  <2>3. HeldInv'
    BY <1>0, <2>1 DEF HeldInv, TypeOK
  <2>4. PriorInv'
    BY <1>0, <2>1 DEF PriorInv, TypeOK
  <2>5. FrozenInv'
    BY <1>0, <2>1 DEF FrozenInv, TypeOK
  <2>6. QED
    BY <1>0, <2>1, <2>2, <2>3, <2>4, <2>5
    DEF IInv, ReportsAreDurable, ReportsAreForThisContext
<1>2. ASSUME NEW r \in Run, NEW t \in Ticker, Prepare(r, t)
      PROVE  IInv'
  <2>1. /\ rpc[r] = "preparing"
        /\ context' = [context EXCEPT ![r][t] = inputs[t]]
        /\ todo' = [todo EXCEPT ![r] = @ \ {t}]
        /\ UNCHANGED <<table, inputs, rpc, batchId, prior, held, report>>
    BY <1>2 DEF Prepare
  <2>2. TypeOK'
    <3>1. context' \in [Run -> [Ticker -> Version]]
      BY <1>0, <2>1 DEF TypeOK
    <3>2. todo' \in [Run -> SUBSET Ticker]
      BY <1>0, <2>1 DEF TypeOK
    <3>3. QED
      BY <1>0, <2>1, <3>1, <3>2 DEF TypeOK
  <2>3. \A q \in Run \ {r}, u \in Ticker : context'[q][u] = context[q][u]
    BY <1>0, <2>1 DEF TypeOK
  <2>4. HeldInv'
    <3>1. \A q \in Run : held[q] # Nothing => q # r
      BY <1>0, <2>1 DEF HeldInv
    <3>2. QED
      BY <1>0, <2>1, <2>3, <3>1 DEF HeldInv
  <2>5. ReportsAreForThisContext'
    <3>1. \A u \in Ticker : ~Reported(r, u)
      BY <1>0, <2>1 DEF FrozenInv
    <3>2. QED
      BY <1>0, <2>1, <2>3, <3>1 DEF ReportsAreForThisContext
  <2>6. QED
    BY <1>0, <2>1, <2>2, <2>4, <2>5 DEF IInv, PriorInv, FrozenInv, ReportsAreDurable
<1>3. ASSUME NEW r \in Run, StartBatch(r)
      PROVE  IInv'
  <2>1. /\ rpc[r] = "preparing" /\ rpc' = [rpc EXCEPT ![r] = "running"]
        /\ todo' = [todo EXCEPT ![r] = Ticker]
        /\ UNCHANGED <<table, inputs, batchId, prior, context, held, report>>
    BY <1>3 DEF StartBatch
  <2>2. TypeOK'
    BY <1>0, <2>1 DEF TypeOK
  <2>3. HeldInv'
    BY <1>0, <2>1 DEF HeldInv, TypeOK
  <2>4. FrozenInv'
    BY <1>0, <2>1 DEF FrozenInv, TypeOK
  <2>5. QED
    BY <1>0, <2>1, <2>2, <2>3, <2>4
    DEF IInv, PriorInv, ReportsAreDurable, ReportsAreForThisContext
<1>4. ASSUME NEW r \in Run, NEW t \in Ticker, Resume(r, t)
      PROVE  IInv'
  <2>1. /\ rpc[r] = "running" /\ Resumes(r, t)
        /\ todo' = [todo EXCEPT ![r] = @ \ {t}]
        /\ report' = [report EXCEPT ![r][t] = prior[r][t].record]
        /\ UNCHANGED <<table, inputs, rpc, batchId, prior, context, held>>
    BY <1>4 DEF Resume
  <2>2. prior[r][t] \in Row /\ prior[r][t].record \in Record
    BY <1>0, <2>1 DEF TypeOK, Resumes, Row
  <2>3. /\ report'[r][t] = prior[r][t].record
        /\ \A q \in Run, u \in Ticker : q # r \/ u # t => report'[q][u] = report[q][u]
        /\ report' \in [Run -> [Ticker -> Record \cup {Unsettled, CheckpointFailed}]]
    BY <1>0, <2>1, <2>2 DEF TypeOK
  <2>4. TypeOK'
    BY <1>0, <2>1, <2>3 DEF TypeOK
  <2>5. table[t] = prior[r][t] /\ prior[r][t].record.context = context[r][t]
        /\ prior[r][t] # NoRow
    BY <1>0, <2>1 DEF PriorInv, Resumes
  <2>6. ASSUME NEW q \in Run, NEW u \in Ticker, Reported(q, u)'
        PROVE  /\ rpc'[q] \notin {"idle", "preparing"}
               /\ table'[u] # NoRow /\ table'[u].record = report'[q][u]
               /\ report'[q][u].context = context'[q][u]
    <3>1. CASE q = r /\ u = t
      BY <2>1, <2>3, <2>5, <3>1
    <3>2. CASE q # r \/ u # t
      <4>1. report'[q][u] = report[q][u] /\ Reported(q, u)
        BY <2>3, <2>6, <3>2
      <4>2. table[u] # NoRow /\ table[u].record = report[q][u]
        BY <1>0, <4>1 DEF ReportsAreDurable
      <4>3. QED
        BY <1>0, <2>1, <4>1, <4>2 DEF FrozenInv, ReportsAreForThisContext
    <3>3. QED
      BY <3>1, <3>2
  <2>7. QED
    BY <1>0, <2>1, <2>4, <2>6
    DEF IInv, HeldInv, PriorInv, FrozenInv, ReportsAreDurable, ReportsAreForThisContext
<1>5. ASSUME NEW r \in Run, NEW t \in Ticker, SelectRow(r, t)
      PROVE  IInv'
  <2>1. PICK answer \in Answer :
          held' = [held EXCEPT ![r] =
                     [ticker |-> t,
                      record |-> [context |-> context[r][t], answer |-> answer],
                      found  |-> table[t]]]
    BY <1>5 DEF SelectRow
  <2>2. /\ rpc[r] = "running"
        /\ todo' = [todo EXCEPT ![r] = @ \ {t}]
        /\ UNCHANGED <<table, inputs, rpc, batchId, prior, context, report>>
    BY <1>5 DEF SelectRow
  <2>3. held'[r] = [ticker |-> t,
                    record |-> [context |-> context[r][t], answer |-> answer],
                    found  |-> table[t]]
    BY <1>0, <2>1 DEF TypeOK
  <2>4. \A q \in Run \ {r} : held'[q] = held[q]
    BY <1>0, <2>1 DEF TypeOK
  <2>5. TypeOK'
    <3>1. [context |-> context[r][t], answer |-> answer] \in Record
      BY <1>0 DEF TypeOK, Record
    <3>2. [ticker |-> t, record |-> [context |-> context[r][t], answer |-> answer],
           found |-> table[t]] \in [ticker : Ticker, record : Record, found : Row \cup {NoRow}]
      BY <1>0, <3>1 DEF TypeOK
    <3>3. QED
      BY <1>0, <2>1, <2>2, <3>2 DEF TypeOK
  <2>6. HeldInv'
    BY <1>0, <2>2, <2>3, <2>4 DEF HeldInv
  <2>7. QED
    BY <1>0, <2>2, <2>5, <2>6
    DEF IInv, PriorInv, FrozenInv, ReportsAreDurable, ReportsAreForThisContext
<1>6. ASSUME NEW r \in Run, held[r] # Nothing
      PROVE  /\ held[r].ticker \in Ticker
             /\ held[r].record \in Record
             /\ held[r].record # CheckpointFailed
             /\ held[r].record.context = context[r][held[r].ticker]
  <2>1. held[r] \in [ticker : Ticker, record : Record, found : Row \cup {NoRow}]
    BY <1>0, <1>6 DEF TypeOK
  <2>2. QED
    BY <1>0, <1>6, <2>1, PlaceholdersAreNoRecords DEF HeldInv
<1>7. ASSUME NEW r \in Run, InsertRow(r)
      PROVE  IInv'
  <2> DEFINE t == held[r].ticker
             row == [batch |-> batchId[r], record |-> held[r].record]
  <2>1. held[r] # Nothing
    BY <1>7 DEF InsertRow
  <2>2. t \in Ticker /\ held[r].record \in Record /\ held[r].record.context = context[r][t]
    BY <1>6, <2>1
  <2>3. CASE InsertSucceeds(t)
    <3>1. table' = [table EXCEPT ![t] = row] /\ Settle(r, held[r].record)
      BY <1>7, <2>3 DEF InsertRow, BatchOf
    <3>2. row \in Row
      BY <1>0, <2>2 DEF TypeOK, Row
    <3>3. /\ table'[t] = row
          /\ table' \in [Ticker -> Row \cup {NoRow}]
          /\ \A u \in Ticker : table[u] # NoRow => table'[u] = table[u]
      BY <1>0, <2>2, <2>3, <3>1, <3>2 DEF TypeOK, InsertSucceeds
    <3>4. row # NoRow
      BY <3>2, PlaceholdersAreNoRecords
    <3>5. QED
      BY <2>1, <2>2, <3>1, <3>3, <3>4, SettleKeeps
  <2>4. CASE ~InsertSucceeds(t)
    BY <1>0, <1>7, <2>1, <2>4, SettleKeeps DEF InsertRow, TypeOK
  <2>5. QED
    BY <2>3, <2>4
<1>8. ASSUME NEW r \in Run, CompareRow(r) \/ StorageFails(r)
      PROVE  IInv'
  <2>1. held[r] # Nothing /\ table' = table
    BY <1>8 DEF CompareRow, StorageFails
  <2>2. CASE Settle(r, CheckpointFailed)
    BY <1>0, <2>1, <2>2, SettleKeeps DEF TypeOK
  <2>3. CASE CompareRow(r) /\ SameOutcome(r) /\ Settle(r, held[r].record)
    <3>1. table[held[r].ticker] = held[r].found /\ held[r].found # NoRow
      BY <1>0, <2>1, <2>3 DEF HeldInv, CompareRow
    <3>2. held[r].found.record = held[r].record
      BY <2>3 DEF SameOutcome
    <3>3. QED
      BY <1>0, <1>6, <2>1, <2>3, <3>1, <3>2, SettleKeeps DEF TypeOK
  <2>4. QED
    BY <1>8, <2>2, <2>3 DEF CompareRow, StorageFails
<1>9. ASSUME NEW r \in Run, ReturnManifest(r)
      PROVE  IInv'
  <2>1. /\ rpc[r] = "running" /\ held[r] = Nothing
        /\ rpc' = [rpc EXCEPT ![r] = "returned"]
        /\ UNCHANGED <<table, inputs, batchId, prior, context, todo, held, report>>
    BY <1>9 DEF ReturnManifest
  <2>2. TypeOK'
    BY <1>0, <2>1 DEF TypeOK
  <2>3. HeldInv'
    BY <1>0, <2>1 DEF HeldInv, TypeOK
  <2>4. FrozenInv'
    BY <1>0, <2>1 DEF FrozenInv, TypeOK
  <2>5. QED
    BY <1>0, <2>1, <2>2, <2>3, <2>4
    DEF IInv, PriorInv, ReportsAreDurable, ReportsAreForThisContext
<1>10. ASSUME NEW r \in Run, Kill(r)
      PROVE  IInv'
  <2>1. /\ rpc[r] \in {"preparing", "running"}
        /\ rpc' = [rpc EXCEPT ![r] = "killed"]
        /\ todo' = [todo EXCEPT ![r] = {}]
        /\ held' = [held EXCEPT ![r] = Nothing]
        /\ UNCHANGED <<table, inputs, batchId, prior, context, report>>
    BY <1>10 DEF Kill
  <2>2. TypeOK'
    <3>1. rpc' \in [Run -> {"idle", "preparing", "running", "returned", "killed"}]
      BY <1>0, <2>1 DEF TypeOK
    <3>2. todo' \in [Run -> SUBSET Ticker]
      BY <1>0, <2>1 DEF TypeOK
    <3>3. QED
      BY <1>0, <2>1, <3>1, <3>2 DEF TypeOK
  <2>3. \A q \in Run : held'[q] # Nothing => q # r /\ held'[q] = held[q]
    BY <1>0, <2>1 DEF TypeOK
  <2>4. \A q \in Run : q # r => rpc'[q] = rpc[q]
    BY <1>0, <2>1 DEF TypeOK
  <2>5. HeldInv'
    BY <1>0, <2>1, <2>3, <2>4 DEF HeldInv
  <2>6. FrozenInv'
    BY <1>0, <2>1 DEF FrozenInv, TypeOK
  <2>7. QED
    BY <1>0, <2>1, <2>2, <2>5, <2>6
    DEF IInv, PriorInv, ReportsAreDurable, ReportsAreForThisContext
<1>11. ASSUME NEW t \in Ticker, InputsChange(t)
      PROVE  IInv'
  <2>1. PICK v \in Version : inputs' = [inputs EXCEPT ![t] = v]
    BY <1>11 DEF InputsChange
  <2>2. UNCHANGED <<table, runVars>>
    BY <1>11 DEF InputsChange
  <2>3. TypeOK'
    BY <1>0, <2>1, <2>2 DEF TypeOK, runVars
  <2>4. QED
    BY <1>0, <2>2, <2>3 DEF IInv, HeldInv, PriorInv, FrozenInv, ReportsAreDurable,
       ReportsAreForThisContext, runVars
<1>12. CASE UNCHANGED vars
  BY <1>0, <1>12 DEF vars, runVars, IInv, TypeOK, HeldInv, PriorInv, FrozenInv,
     ReportsAreDurable, ReportsAreForThisContext
<1>13. QED
  BY <1>1, <1>2, <1>3, <1>4, <1>5, <1>7, <1>8, <1>9, <1>10, <1>11, <1>12 DEF Next

LEMMA Invariance == Spec => []IInv
BY InitInv, InvStep, PTL DEF Spec

(***************************************************************************)
(* The table, and what every run loaded, froze, holds and reports, stay    *)
(* well typed (ticker_terminal_store.py, valuation_workup_service.py).     *)
(***************************************************************************)
THEOREM TypeCorrect == Spec => []TypeOK
<1>1. IInv => TypeOK
  BY DEF IInv
<1>2. QED
  BY <1>1, Invariance, PTL

(***************************************************************************)
(* Whatever the number of overlapping and killed runs, an answer that some *)
(* run reports is the answer the terminal table holds                      *)
(* (ticker_terminal_store.py 254-298).                                     *)
(***************************************************************************)
THEOREM ReportsStayDurable == Spec => []ReportsAreDurable
<1>1. IInv => ReportsAreDurable
  BY DEF IInv
<1>2. QED
  BY <1>1, Invariance, PTL

(***************************************************************************)
(* An answer is only ever reported for the context its run froze           *)
(* (ticker_batch.py 240-252).                                              *)
(***************************************************************************)
THEOREM ReportsStayInContext == Spec => []ReportsAreForThisContext
<1>1. IInv => ReportsAreForThisContext
  BY DEF IInv
<1>2. QED
  BY <1>1, Invariance, PTL
==============================================================================
