SPECIFICATION Spec
CONSTANTS
  IncomeKeys <- Income
  CashFlowKeys <- CashFlow
  MinAnnual = 2
  MaxAnnual = 2
  Tolerance = 1
  Reconciler = {r1}
  Facts <- Published
  Manifest <- Listed
  Histories <- OneAlternate
  Cutoffs = {0}
  Handler = {}
  MaxRuns = 1
  Attended = {}
INVARIANT AlternatesAreCompared
CHECK_DEADLOCK FALSE
