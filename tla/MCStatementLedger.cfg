SPECIFICATION Spec
CONSTANTS
  IncomeKeys <- Income
  CashFlowKeys <- CashFlow
  MinAnnual = 2
  MaxAnnual = 2
  Tolerance = 1
  Reconciler = {r1, r2}
  Facts <- Published
  Manifest <- Listed
  Histories <- All
  Cutoffs <- AsOf
  Handler = {h1, h2}
  MaxRuns = 2
  Attended <- TakenUp
SYMMETRY Processes
INVARIANTS
  TypeOK
  ReplaysAgree
  DecisionGradeIsEarned
  ViewKeepsTheYears
  OneViewButForWorkInHand
CHECK_DEADLOCK FALSE
