SPECIFICATION Spec
CONSTANTS
  r1 = r1
  r2 = r2
  r3 = r3
  t1 = t1
  t2 = t2
  Ticker <- OneTicker
  Run <- Runs
  BatchId = {"batch1", "batch2"}
  Version = {"v1", "v2"}
  Result = {"x"}
  StorageMayFail = TRUE
SYMMETRY BothSymmetric
INVARIANTS
  TypeOK
  ReportsAreDurable
  ReportsAreForThisContext
