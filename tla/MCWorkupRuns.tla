----------------------------- MODULE MCWorkupRuns -----------------------------
(* Three runs of one ticker with two frozen contexts, or two runs of two tickers. *)
EXTENDS WorkupRuns, TLC

CONSTANTS r1, r2, r3, t1, t2

Runs == {r1, r2, r3}

Tickers == {t1, t2}

OneTicker == {t1}

TwoRuns == {r1, r2}

BothSymmetric == Permutations(Runs)
==============================================================================
