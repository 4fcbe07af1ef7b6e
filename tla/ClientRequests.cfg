CONSTANTS
  c1 = c1
  c2 = c2
  s1 = s1
  s2 = s2
  blank = blank
  Blank = blank
  Absent = Absent
  Clients <- TwoClients
  Secrets <- ThreeSecrets
  FirstSecret <- Secret
  URIs <- AllURIs
  Forms <- FormsOf
  TypedSecrets <- NewSecret
  TokenRequests <- TokenAsks
  AuthorizationRequests <- AuthorizationAsks
  LogoutRequests <- LogoutAsks
  AvailableScopes = {"read"}
  DefaultScopes = {"read"}
  ALLOW_URI_WILDCARDS = TRUE
  ALLOWED_REDIRECT_URI_SCHEMES = {"http", "https"}
  ALLOWED_SCHEMES = {"https"}
  OIDC_RSA_PRIVATE_KEY = TRUE
  OIDC_RP_INITIATED_LOGOUT_STRICT_REDIRECT_URIS = TRUE
  MaxEdits = 2

SPECIFICATION Spec
INVARIANTS TypeOK AcceptedByOwnSecret OwnSecretSuffices SentOnlyToRegistered WildcardStaysInDomain
