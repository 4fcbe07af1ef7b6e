SPECIFICATION RemovalSpec
CONSTANTS
  w1 = w1
  c1 = c1
  c2 = c2
  u1 = u1
  u2 = u2
  openid = openid
  OpenId = openid
  Absent = Absent
  Anonymous = Anonymous
  Workers <- OneWorker
  Clients <- OneClient
  Scopes <- OpenIdOnly
  Users <- TwoUsers
  Deletable <- OneClient
  ROTATE_REFRESH_TOKEN = FALSE
  REFRESH_TOKEN_REUSE_PROTECTION = FALSE
  REFRESH_TOKEN_GRACE_PERIOD_SECONDS = 0
  REFRESH_TOKEN_EXPIRE_SECONDS = 1
  ACCESS_TOKEN_EXPIRE_SECONDS = 1
  ID_TOKEN_EXPIRE_SECONDS = 1
  OIDC_RP_INITIATED_LOGOUT_ALWAYS_PROMPT = FALSE
  OIDC_RP_INITIATED_LOGOUT_ACCEPT_EXPIRED_TOKENS = TRUE
  OIDC_RP_INITIATED_LOGOUT_DELETE_TOKENS = TRUE
  CLEAR_EXPIRED_TOKENS_BATCH_SIZE = 2
  Overlap = FALSE
  MaxPk = 2
  MaxTime = 4
  Serial = FALSE
SYMMETRY UserSymmetry
INVARIANT RemovalTypeOK
PROPERTIES LogoutEndsPairs AskedBeforeLogout CleanerSparesValid ImplementsRefreshTokens
CHECK_DEADLOCK FALSE
