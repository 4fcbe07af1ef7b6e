SPECIFICATION Spec
CONSTANTS
  w1 = w1
  w2 = w2
  c1 = c1
  c2 = c2
  read = read
  write = write
  Absent = Absent
  Workers <- TwoWorkers
  Clients <- OneClient
  Scopes <- OneScope
  ROTATE_REFRESH_TOKEN = TRUE
  REFRESH_TOKEN_REUSE_PROTECTION = TRUE
  REFRESH_TOKEN_GRACE_PERIOD_SECONDS = 0
  REFRESH_TOKEN_EXPIRE_SECONDS = 0
  MaxPk = 3
  MaxTime = 1
  Serial = FALSE
SYMMETRY Symmetry
INVARIANT ReuseEndsFamily
CHECK_DEADLOCK FALSE
