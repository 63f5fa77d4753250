SPECIFICATION Spec
CONSTANTS
  s1 = s1
  s2 = s2
  s3 = s3
  Session = {s1, s2, s3}
  Cast <- Casts
  Key = {1, 2}
  FieldOf <- MCFieldOf
  Value = {1}
  Workers = 2
  MaxEdits = 1
INVARIANTS
  TypeOK
  DecisionsStayWithTheirAgent
PROPERTIES
  SubmittedRunsEnd
