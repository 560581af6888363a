SPECIFICATION Spec
CONSTANTS
  RowNum = 2
  First = 1
  MaxRows = 2
  Handles = {h1, h2}
  Names = {n1, n2}
  MaxChanges = 2
  Answers <- MCAnswers
  Originals <- MCOriginals
  Schemas <- MCSchemas
  MaxAttempts = 3
INVARIANTS
  CountersAgree
  AsSaved
  OneLateRequest
  ChecksAnswers
  RepairsAreApproved
PROPERTIES
  EveryRequestEnds
CHECK_DEADLOCK FALSE
