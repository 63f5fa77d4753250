SPECIFICATION CaseSpec
CONSTANTS
  r1 = r1
  r2 = r2
  v1 = v1
  v2 = v2
  Reviewer <- TwoReviewers
  Assumption = {"growth", "margin"}
  Unset = Unset
  DriverFamily = {"growth_family", "margin_family"}
  Runner <- TwoRunners
  Gaps <- MCGaps
  Missing = Missing
  NoInputs = NoInputs
  Markets = {0, NoInputs}
  Desks <- JustFindings
  Edits <- MCEdits
  MaxChanges = 2
  MaxEntries = 2
SYMMETRY ReviewersSymmetric
CHECK_DEADLOCK FALSE
INVARIANTS
  QueueValuesWerePreviewed
