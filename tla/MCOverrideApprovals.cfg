SPECIFICATION Spec
CONSTANTS
  s1 = s1
  s2 = s2
  s3 = s3
  Session = {s1, s2, s3}
  Cast <- Approval
  Key = {1, 2}
  FieldOf <- MCFieldOf
  Value = {1, 2}
  Workers = 2
  MaxEdits = 0
INVARIANTS
  AppliedNumbersWereApproved
