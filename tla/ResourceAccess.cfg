SPECIFICATION Spec
CONSTANTS
  w1 = w1
  w2 = w2
  t1 = t1
  ta = ta
  music = music
  read = read
  write = write
  introspection = introspection
  Absent = Absent
  Workers <- TwoWorkers
  Tokens <- TwoTokens
  Scopes <- AllScopes
  Views <- AllViews
  Kind <- KindOfView
  Declared <- RequiredScopes
  Alternates <- AlternativeLists
  READ_SCOPE = read
  WRITE_SCOPE = write
  IntrospectionScope = introspection
  AuthToken = ta
  RESOURCE_SERVER_TOKEN_CACHING_SECONDS = 1
  USE_TZ = TRUE
  TIME_ZONE = 0
  AUTHENTICATION_SERVER_EXP_TIME_ZONE = 1
  ExpTimeZone = 1
  Dated = {t1}
  Grants <- TokenScopes
  Serves <- Shared
  MaxTime = 3
INVARIANT TypeOK
PROPERTIES GrantsAreCovered NeverAfterExpiry RevocationReachesCache RefusedForOwnScopes
CHECK_DEADLOCK FALSE
