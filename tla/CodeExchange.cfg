SPECIFICATION Spec
CONSTANTS
  w1 = w1
  w2 = w2
  u1 = u1
  u2 = u2
  c1 = c1
  c2 = c2
  read = read
  write = write
  uri1 = uri1
  uri2 = uri2
  v1 = v1
  v2 = v2
  None = None
  Absent = Absent
  Workers <- TwoWorkers
  Users <- TwoUsers
  Clients <- TwoClients
  Scopes <- OneScope
  RedirectUris <- TwoUris
  Verifiers <- OneVerifier
  SkipAuthorization <- SecondClient
  PKCE_REQUIRED = TRUE
  AUTHORIZATION_CODE_EXPIRE_SECONDS = 1
  MaxGrants = 2
  MaxTokens = 2
  MaxTime = 3
SYMMETRY Symmetry
INVARIANTS TypeOK AnsweredOnce TokensMatchGrant CodeBoundToRequest ScopeWithinConsent
PROPERTIES ConsumedMeansIssued
VIEW View
CHECK_DEADLOCK FALSE
