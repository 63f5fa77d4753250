SPECIFICATION Spec
CONSTANTS
  r1 = r1
  r2 = r2
  r3 = r3
  t1 = t1
  t2 = t2
  Ticker <- Tickers
  Run <- TwoRuns
  BatchId = {"batch1"}
  Version = {"v1"}
  Result = {"x"}
  StorageMayFail = FALSE
INVARIANTS
  RetryableRowIsReplaced
CHECK_DEADLOCK FALSE
