---------------------------- MODULE BatchContract ----------------------------
(***************************************************************************)
(* What a caller of run_ticker_batch relies on, with no coordinator, no    *)
(* threads and no clock: every requested ticker is settled exactly once,   *)
(* the batch returns only when all of them are, it does return, and an     *)
(* answer that will not be retried is durable before the caller sees it.   *)
(***************************************************************************)
CONSTANT Ticker

VARIABLES
  outcome,   \* what the batch answers for each ticker
  durable,   \* what the checkpoint holds for each ticker
  returned   \* the batch handed its manifest back

vars == <<outcome, durable, returned>>

Answer == {"final", "retry"}

TypeOK ==
  /\ outcome \in [Ticker -> Answer \cup {"open"}]
  /\ durable \in [Ticker -> Answer \cup {"open"}]
  /\ returned \in BOOLEAN

\* A resumed ticker starts with the durable final answer of an earlier batch.
Init ==
  /\ \E resumed \in SUBSET Ticker :
       /\ outcome = [t \in Ticker |-> IF t \in resumed THEN "final" ELSE "open"]
       /\ durable = outcome
  /\ returned = FALSE

SettleDurably(t, a) ==
  /\ ~returned
  /\ outcome[t] = "open"
  /\ outcome' = [outcome EXCEPT ![t] = a]
  /\ durable' = [durable EXCEPT ![t] = a]
  /\ UNCHANGED returned

\* The checkpoint failed: the caller is told to retry and nothing is stored.
SettleUnsaved(t) ==
  /\ ~returned
  /\ outcome[t] = "open"
  /\ outcome' = [outcome EXCEPT ![t] = "retry"]
  /\ UNCHANGED <<durable, returned>>

Return ==
  /\ ~returned
  /\ \A t \in Ticker : outcome[t] # "open"
  /\ returned' = TRUE
  /\ UNCHANGED <<outcome, durable>>

Next ==
  \/ \E t \in Ticker, a \in Answer : SettleDurably(t, a)
  \/ \E t \in Ticker : SettleUnsaved(t)
  \/ Return

Spec == Init /\ [][Next]_vars /\ WF_vars(Next)
==============================================================================
