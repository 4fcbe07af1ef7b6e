SPECIFICATION Spec
CONSTANTS
  w1 = w1
  w2 = w2
  c1 = c1
  c2 = c2
  read = read
  write = write
  Absent = Absent
  Workers <- TwoWorkers
  Clients <- TwoClients
  Scopes <- OneScope
  ROTATE_REFRESH_TOKEN = TRUE
  REFRESH_TOKEN_REUSE_PROTECTION = TRUE
  REFRESH_TOKEN_GRACE_PERIOD_SECONDS = 1
  REFRESH_TOKEN_EXPIRE_SECONDS = 1
  MaxPk = 3
  MaxTime = 3
  Serial = FALSE
SYMMETRY Symmetry
INVARIANTS TypeOK OneRefreshPerToken SourceConsumed RevokedKillsAccessToken FamilyIsOneChain
PROPERTIES RevocationIsFinal
CHECK_DEADLOCK FALSE
