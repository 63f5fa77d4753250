SPECIFICATION Spec
CONSTANTS
  r1 = r1
  r2 = r2
  Run = {r1}
  Family <- TwoFamilies
  Proposal = {"p1"}
  Critique <- AcceptingCritiques
  VerdictOf <- AcceptingVerdicts
  ChallengeOf <- AcceptingChallenges
  Fresh = {FALSE}
  LeaseMayLapse = FALSE
  StorageMayFail = FALSE
INVARIANTS
  SuccessfulFamiliesReachTheQueue
