----------------------------- MODULE BatchIntake -----------------------------
(***************************************************************************)
(* What run_ticker_batch decides about every requested ticker before a     *)
(* single worker is started: ticker_batch.py sorts the request into        *)
(* tickers that already have an answer, tickers it must refuse and tickers *)
(* it will run.  The decision is a pure function of the request, of the    *)
(* prior records handed in for resuming, and of the two per-context facts  *)
(* the code asks for (is the valuation model supported, does the provider  *)
(* lane resolve).                                                          *)
(***************************************************************************)
EXTENDS Naturals, FiniteSets

CONSTANTS
  Ticker,       \* identity.canonical_key, numbered in sort_key order
  Fingerprint,  \* distinguishes the frozen contexts of one ticker
  Unsupported,  \* contexts whose eligibility is unsupported_model
  Unroutable    \* contexts for which provider_lane raises or returns ""

(***************************************************************************)
(* A context is a ticker and a context fingerprint.  A record of an        *)
(* earlier run carries the context it answered, its checkpoint fingerprint *)
(* (which hashes the retryable flag, so equal fingerprints agree on it)    *)
(* and whether a rerun may replace it.                                     *)
(***************************************************************************)
Context == Ticker \X Fingerprint

TickerClass ==
  {"runnable", "resumed", "conflict", "prior_conflict", "ineligible",
   "lane_failed"}

\* Classes answered by the coordinator itself, in the order it checkpoints them.
PreterminalClass == {"conflict", "prior_conflict", "ineligible", "lane_failed"}

PreterminalRank ==
  [k \in PreterminalClass |->
     CASE k = "conflict" -> 1
       [] k = "prior_conflict" -> 2
       [] k = "ineligible" -> 3
       [] OTHER -> 4]

Variants(request, t) == { c \in request : c[1] = t }

\* The distinct non-retryable answers an earlier run left for this context.
StableAnswers(prior, c) ==
  { r.checkpoint : r \in { p \in prior : p.context = c /\ ~p.retryable } }

ClassOfContext(prior, c) ==
  CASE Cardinality(StableAnswers(prior, c)) > 1 -> "prior_conflict"
    [] Cardinality(StableAnswers(prior, c)) = 1 -> "resumed"
    [] c \in Unsupported -> "ineligible"
    [] c \in Unroutable  -> "lane_failed"
    [] OTHER -> "runnable"

Classification(request, prior) ==
  [t \in Ticker |->
     IF Cardinality(Variants(request, t)) > 1
     THEN "conflict"
     ELSE ClassOfContext(prior, CHOOSE c \in Variants(request, t) : TRUE)]
==============================================================================
