SPECIFICATION FairSpec
CONSTANTS
  Requests = {q1, q2}
  MaxIssued = 3
  MaxLinks = 2
  MaxPolls = 1
  MaxCrashes = 1
  None = None
  Failed = Failed
INVARIANTS LinkSurvives LoginTakesEffect
PROPERTIES NobodyWaitsForever
