---------------------------- MODULE MCTickerBatch ----------------------------
(* The instance for TLC: three tickers on two provider lanes, two threads. *)
EXTENDS TickerBatch

MCTicker == 1..3

MCFingerprint == {"f1", "f2"}

\* Context 3/f2 has no supported model, context 2/f2 no provider lane.
MCUnsupported == {<<3, "f2">>}

MCUnroutable == {<<2, "f2">>}

MCLane == {"slow", "default"}

MCLaneOf == [t \in MCTicker |-> IF t = 3 THEN "default" ELSE "slow"]

MCLaneLimits == [l \in {"slow"} |-> 1]

Plain == { <<t, "f1">> : t \in MCTicker }

\* All runnable; a conflicting ticker; one refused and one without a lane.
MCRequests ==
  {Plain,
   Plain \cup {<<1, "f2">>},
   {<<1, "f1">>, <<2, "f2">>, <<3, "f2">>}}

Stable(c, k) == [context |-> c, checkpoint |-> k, retryable |-> FALSE]

Retry(c, k) == [context |-> c, checkpoint |-> k, retryable |-> TRUE]

\* No prior run; one final answer and one to retry; two final answers.
MCPriors ==
  {{},
   {Stable(<<2, "f1">>, "k1"), Retry(<<1, "f1">>, "k2")},
   {Stable(<<3, "f1">>, "k1"), Stable(<<3, "f1">>, "k2")}}
==============================================================================
