SPECIFICATION Spec
CONSTANTS
  b1 = b1
  b2 = b2
  d1 = d1
  u1 = u1
  u2 = u2
  c1 = c1
  c2 = c2
  k1 = k1
  k2 = k2
  Anonymous = Anonymous
  Absent = Absent
  Browsers <- OneBrowser
  Pollers <- OnePoller
  Users <- TwoUsers
  Clients <- TwoClients
  UserCodes <- TwoCodes
  EXPIRES_IN = 1
  MaxGrants = 2
  MaxTokens = 2
  MaxTime = 2
  Serial = TRUE
SYMMETRY Symmetry
INVARIANTS OneDecision TokenUserEnteredCode
CHECK_DEADLOCK FALSE
