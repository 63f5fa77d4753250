SPECIFICATION Spec
CONSTANTS
  r1 = r1
  r2 = r2
  Run = {r1}
  Family <- TwoFamilies
  Proposal = {"p1"}
  Critique <- AllCritiques
  VerdictOf <- AllVerdicts
  ChallengeOf <- AllChallenges
  Fresh = {FALSE}
  LeaseMayLapse = FALSE
  StorageMayFail = TRUE
INVARIANTS
  FailuresStayIsolated
