SPECIFICATION FairSpec
CONSTANTS
  b1 = b1
  b2 = b2
  d1 = d1
  u1 = u1
  u2 = u2
  c1 = c1
  c2 = c2
  k1 = k1
  k2 = k2
  Anonymous = Anonymous
  Absent = Absent
  Browsers <- TwoBrowsers
  Pollers <- OnePoller
  Users <- TwoUsers
  Clients <- OneClient
  UserCodes <- OneCode
  EXPIRES_IN = 1
  MaxGrants = 1
  MaxTokens = 2
  MaxTime = 3
  Serial = FALSE
INVARIANTS TypeOK TokensNeedAcceptance
PROPERTIES NeverPendingAgain BoundIsServed
CHECK_DEADLOCK FALSE
