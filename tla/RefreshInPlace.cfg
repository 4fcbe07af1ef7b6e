SPECIFICATION Spec
CONSTANTS
  w1 = w1
  w2 = w2
  c1 = c1
  c2 = c2
  read = read
  write = write
  Absent = Absent
  Workers <- TwoWorkers
  Clients <- OneClient
  Scopes <- TwoScopes
  ROTATE_REFRESH_TOKEN = FALSE
  REFRESH_TOKEN_REUSE_PROTECTION = FALSE
  REFRESH_TOKEN_GRACE_PERIOD_SECONDS = 1
  REFRESH_TOKEN_EXPIRE_SECONDS = 0
  MaxPk = 3
  MaxTime = 2
  Serial = FALSE
SYMMETRY Symmetry
INVARIANTS OneRefreshPerToken RevokedKillsAccessToken ScopeNeverWidens
CHECK_DEADLOCK FALSE
