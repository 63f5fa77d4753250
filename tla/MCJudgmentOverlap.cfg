SPECIFICATION Spec
CONSTANTS
  r1 = r1
  r2 = r2
  Run <- BothRuns
  Family <- OneFamily
  Proposal = {"p1"}
  Critique <- StrictCritiques
  VerdictOf <- StrictVerdicts
  ChallengeOf <- StrictChallenges
  Fresh = {TRUE, FALSE}
  LeaseMayLapse = TRUE
  StorageMayFail = FALSE
INVARIANTS
  TypeOK
  QueuedPacksAreTraceable
  CallsAreExclusive
PROPERTIES
  SuccessorKeepsLease
  StartedRunsEnd
