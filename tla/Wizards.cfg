SPECIFICATION Spec
CONSTANTS
  s1 = s1
  s2 = s2
  r1 = r1
  r2 = r2
  m1 = m1
  m2 = m2
  Starts <- Start
  Fund <- OneCoin
  Kinds <- NftOnly
  Session = {s1}
  Request = {r1, r2}
  MintSession = {m1}
  MaxTx = 5
  MaxDoc = 2
  MaxHost = 0
  MaxFaults = 1
SYMMETRY Requests
CHECK_DEADLOCK FALSE
INVARIANTS PublishedWasHosted RecordedMatches PublishedOnce PublishKeepsTokens
PROPERTIES SessionsRefine
