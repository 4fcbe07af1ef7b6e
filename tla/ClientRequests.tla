---------------------------- MODULE ClientRequests ----------------------------
(***************************************************************************)
(* Who a request speaks for and where its answer goes: the client of a     *)
(* token request (client_authentication_required, authenticate_client and  *)
(* authenticate_client_id, called by oauthlib in this order), the redirect *)
(* of the authorization endpoint and of the RP-initiated logout, while the *)
(* developers of the applications edit them.                               *)
(*                                                                         *)
(* Requests share nothing but the applications, which only edits change,   *)
(* so one request is followed at a time.  request.client is the row as it  *)
(* was when it was loaded: each load is a step, and so is the end of what  *)
(* is done with it.  The user is logged in at the authorization endpoint.  *)
(***************************************************************************)
EXTENDS RedirectURIs

CONSTANTS
  Clients,
  Secrets,                \* secrets in clear text
  Blank,                  \* the empty one, which is also what a request without one has
  Absent,
  AvailableScopes,        \* of the scopes backend
  DefaultScopes,
  OIDC_RSA_PRIVATE_KEY,   \* whether there is one
  OIDC_RP_INITIATED_LOGOUT_STRICT_REDIRECT_URIS,
  FirstSecret,            \* of each client, when it is registered
  Forms,                  \* bound: what its developer fills in, but for the secret
  TypedSecrets,           \* bound: the secrets that are typed in, per client
  TokenRequests, AuthorizationRequests, LogoutRequests,   \* bound: what is sent
  MaxEdits                \* bound: edits of applications during one request

ClientTypes == {"confidential", "public"}
GrantTypes  == {"authorization-code", "device-code", "implicit", "password",
                "client-credentials", "openid-hybrid"}
Algorithms  == {"", "RS256", "HS256"}

\* A secret as it is stored, in clear text or hashed
Hash(secret) == <<"hash", secret>>
Hashed == {Hash(s) : s \in Secrets}

\* secret_text is the history of a row: the clear text that was last typed in.
Application ==
  [client_type : ClientTypes, authorization_grant_type : GrantTypes,
   algorithm : Algorithms, client_secret : Secrets \cup Hashed, secret_text : Secrets,
   redirect_uris : SUBSET URIs, post_logout_redirect_uris : SUBSET URIs,
   allowed_origins : SUBSET URIs, skip_authorization : BOOLEAN]

\* The form holds the whole row; which secret is saved is said apart.
Row(form, client_secret, secret_text) ==
  [form EXCEPT !.client_secret = client_secret, !.secret_text = secret_text]

Credentials == [client_id : Clients, client_secret : Secrets]

\* The Authorization header and the parameters of a token request
TokenRequest ==
  [grant_type : {"authorization_code", "password", "client_credentials",
                 "refresh_token", "device_code"},
   basic : Credentials \cup {Absent}, client_id : Clients \cup {Absent},
   client_secret : Secrets, origin : URIs \cup {Absent}]

ResponseTypes == {"code", "token", "id_token", "id_token token", "code id_token",
                  "code token", "code id_token token"}
AuthorizationRequest ==
  [client_id : Clients, redirect_uri : URIs \cup {Absent},
   response_type : ResponseTypes, scopes : SUBSET AvailableScopes \cup {{"unknown"}}]

LogoutRequest == [client_id : Clients, post_logout_redirect_uri : URIs]

\* request.client with its client_id
Loaded == [client_id : Clients, row : Application]

\* A secret is no hash: pre_save takes one that looks like a hash for hashed already.
ASSUME ConstantsAssumption ==
  /\ Blank \in Secrets /\ Secrets \cap Hashed = {}
  /\ FirstSecret \in [Clients -> Secrets]
  /\ TypedSecrets \in [Clients -> SUBSET Secrets]
  /\ Forms \in [Clients -> SUBSET Application]
  /\ MaxEdits \in Nat
  /\ DefaultScopes \subseteq AvailableScopes
  /\ {OIDC_RSA_PRIVATE_KEY, OIDC_RP_INITIATED_LOGOUT_STRICT_REDIRECT_URIS} \subseteq BOOLEAN
  /\ Absent \notin URIs \cup Secrets \cup Clients \cup Credentials \cup Loaded
  /\ TokenRequests \subseteq TokenRequest
  /\ AuthorizationRequests \subseteq AuthorizationRequest
  /\ LogoutRequests \subseteq LogoutRequest

TokenSteps   == {"requiring", "basic", "body", "by_id", "granting"}
BrowserSteps == {"validating", "loading", "form", "creating", "sending_code", "sending_error"}
LogoutSteps  == {"logout", "logout_form", "logout_submitted", "leaving"}
Steps        == TokenSteps \cup BrowserSteps \cup LogoutSteps
Answers      == {"idle", "accepted", "invalid_client", "unauthorized_client",
                 "code_sent", "error_sent", "left", "page", "crashed"}

VARIABLES
  app,       \* Application, by client_id
  edits,     \* how many there were during the request
  pc,
  request,
  client,    \* request.client and its client_id
  target,    \* who the answer is for: where the browser is sent, or the origin
             \* that the answer of the token endpoint is shared with
  seen       \* history: the rows since the request, or its form, was sent

vars == <<app, edits, pc, request, client, target, seen>>

Busy == pc \in Steps
Now  == [c \in Clients |-> {app[c]}]

Go(step) == pc' = step /\ UNCHANGED <<app, edits, request>>

Begin(step, q) ==
  /\ pc = "idle"
  /\ pc' = step /\ request' = q
  /\ client' = Absent /\ target' = Absent /\ seen' = Now
  /\ UNCHANGED <<app, edits>>

\* A request that was answered was kept to be looked at.
Close ==
  /\ pc \in Answers \ {"idle"}
  /\ pc' = "idle" /\ edits' = 0 /\ request' = Absent
  /\ client' = Absent /\ target' = Absent /\ seen' = [c \in Clients |-> {}]
  /\ UNCHANGED app
-----------------------------------------------------------------------------
(* Application.clean and the save of the form *)

RedirectGrants == {"authorization-code", "implicit", "openid-hybrid"}

Clean(row) ==
  /\ \A u \in row.redirect_uris : ValidRedirectURI(u)
  /\ row.redirect_uris = {} => row.authorization_grant_type \notin RedirectGrants
  /\ \A u \in row.allowed_origins : ValidOrigin(u)
  /\ row.algorithm = "RS256" => OIDC_RSA_PRIVATE_KEY
  /\ row.algorithm = "HS256" =>
       /\ row.authorization_grant_type \notin {"implicit", "openid-hybrid"}
       /\ row.client_type = "confidential"

\* What a client may be when it is registered
Registration(c) ==
  {row \in {Row(form, Hash(FirstSecret[c]), FirstSecret[c]) : form \in Forms[c]} : Clean(row)}

\* Mutant of PreSave: a secret is hashed at each save.
PreSaveAgain(secret, hash_client_secret) == IF hash_client_secret THEN Hash(secret) ELSE secret

\* ClientSecretField.pre_save
PreSave(secret, hash_client_secret) ==
  IF hash_client_secret /\ secret \notin Hashed THEN Hash(secret) ELSE secret

\* The form holds the whole row, the secret as it is stored unless a new one is
\* typed in.
SaveApplication(c, form, text, hash_client_secret) ==
  LET typed == IF text = Absent THEN app[c].client_secret ELSE text
      row == Row(form, PreSave(typed, hash_client_secret),
                 IF text = Absent THEN app[c].secret_text ELSE text)
  IN
  /\ \/ /\ Busy /\ edits < MaxEdits
        /\ edits' = edits + 1
        /\ seen' = [seen EXCEPT ![c] = @ \cup {row}]
     \/ /\ pc = "idle"
        /\ UNCHANGED <<edits, seen>>
  /\ Clean(row)
  /\ row # app[c]
  /\ app' = [app EXCEPT ![c] = row]
  /\ UNCHANGED <<pc, request, client, target>>
-----------------------------------------------------------------------------
(* Client authentication *)

\* Mutant of LoadApplication: who was loaded before is not asked for its name.
LoadedBefore(id) ==
  IF client # Absent THEN client
  ELSE IF id = Absent THEN Absent ELSE [client_id |-> id, row |-> app[id]]

\* _load_application: what was loaded for the same client_id is used again.
LoadApplication(id) ==
  IF client # Absent /\ client.client_id = id THEN client
  ELSE IF id = Absent THEN Absent ELSE [client_id |-> id, row |-> app[id]]

CheckSecret(provided, stored) ==
  IF stored \in Hashed THEN Hash(provided) = stored ELSE provided = stored

NeedsNoSecret(row) == row.client_type = "public" /\ request.grant_type = "device_code"

Authentic(loaded, secret) ==
  /\ loaded # Absent
  /\ NeedsNoSecret(loaded.row) \/ CheckSecret(secret, loaded.row.client_secret)

\* The client credentials grant has to authenticate; the others ask whether.
BeginToken(q) ==
  Begin(IF q.grant_type = "client_credentials" THEN "basic" ELSE "requiring", q)

\* client_authentication_required; for no client oauthlib answers yes
RequireAuthentication ==
  LET told == \/ request.basic # Absent
              \/ request.client_id # Absent /\ request.client_secret # Blank
      loaded == LoadApplication(request.client_id)
  IN
  /\ pc = "requiring"
  /\ client' = IF told THEN client ELSE loaded
  /\ Go(IF ~told /\ loaded # Absent /\ loaded.row.client_type = "public"
        THEN "by_id" ELSE "basic")
  /\ UNCHANGED <<target, seen>>

AuthenticateBasic ==
  LET loaded == LoadApplication(request.basic.client_id) IN
  /\ pc = "basic"
  /\ \/ /\ request.basic = Absent
        /\ Go("body") /\ UNCHANGED client
     \/ /\ request.basic # Absent
        /\ client' = loaded
        /\ Go(IF Authentic(loaded, request.basic.client_secret) THEN "granting" ELSE "body")
  /\ UNCHANGED <<target, seen>>

AuthenticateBody ==
  LET loaded == LoadApplication(request.client_id) IN
  /\ pc = "body"
  /\ client' = loaded
  /\ Go(IF Authentic(loaded, request.client_secret) THEN "granting" ELSE "invalid_client")
  /\ UNCHANGED <<target, seen>>

AuthenticateClientId ==
  LET loaded == LoadApplication(request.client_id) IN
  /\ pc = "by_id"
  /\ client' = loaded
  /\ Go(IF loaded.row.client_type # "confidential" THEN "granting" ELSE "invalid_client")
  /\ UNCHANGED <<target, seen>>

\* GRANT_TYPE_MAPPING
GrantTypesOf(grant_type) ==
  CASE grant_type = "authorization_code" -> {"authorization-code", "openid-hybrid"}
    [] grant_type = "password"           -> {"password"}
    [] grant_type = "client_credentials" -> {"client-credentials"}
    [] grant_type = "refresh_token"      -> GrantTypes \ {"implicit"}
    [] grant_type = "device_code"        -> {"device-code"}

\* oauthlib asks is_origin_allowed for an https origin.
SharedWith(origin) ==
  IF /\ origin # Absent /\ origin.scheme = "https"
     /\ IsOriginAllowed(origin, client.row.allowed_origins)
  THEN origin ELSE Absent

\* validate_grant_type; what the grant does then is in the modules of the grants.
ValidateGrantType ==
  /\ pc = "granting"
  /\ \/ /\ client.row.authorization_grant_type \in GrantTypesOf(request.grant_type)
        /\ target' = SharedWith(request.origin)
        /\ Go("accepted")
     \/ /\ client.row.authorization_grant_type \notin GrantTypesOf(request.grant_type)
        /\ Go("unauthorized_client") /\ UNCHANGED target
  /\ UNCHANGED <<client, seen>>

ProceedToken == \/ RequireAuthentication \/ AuthenticateBasic \/ AuthenticateBody
                \/ AuthenticateClientId \/ ValidateGrantType
-----------------------------------------------------------------------------
(* The authorization endpoint *)

BeginAuthorization(q) == Begin("validating", q)

\* validate_response_type
AllowsResponseType(row, response_type) ==
  row.authorization_grant_type =
    CASE response_type = "code" -> "authorization-code"
      [] response_type \in {"token", "id_token", "id_token token"} -> "implicit"
      [] OTHER -> "openid-hybrid"

\* Errors that are told to the client: all but those about its URI.
ErrorFor(row) ==
  \/ ~AllowsResponseType(row, request.response_type)
  \/ ~((IF request.scopes = {} THEN DefaultScopes ELSE request.scopes) \subseteq AvailableScopes)

\* validate_redirect_uri or default_redirect_uri; Absent is a fatal error.
RedirectFor(row, asked) ==
  IF asked = Absent
  THEN IF Cardinality(row.redirect_uris) = 1 THEN CHOOSE u \in row.redirect_uris : TRUE
       ELSE Absent
  ELSE IF RedirectToURIAllowed(asked, row.redirect_uris) THEN asked ELSE Absent

\* default_redirect_uri asserts that a URI is registered.
AssertionFails(row, asked) == asked = Absent /\ row.redirect_uris = {}

\* A fatal error is a page for the user, any other goes to the client (error_response).
Outcome(row, asked, valid) ==
  CASE AssertionFails(row, asked) -> "crashed"
    [] ~AssertionFails(row, asked) /\ RedirectFor(row, asked) = Absent -> "page"
    [] RedirectFor(row, asked) # Absent -> IF ErrorFor(row) THEN "sending_error" ELSE valid

\* oauthlib's validate_authorization_request on a request.client just loaded
Validate(asked, valid) ==
  LET row == app[request.client_id] IN
  /\ client' = [client_id |-> request.client_id, row |-> row]
  /\ target' = RedirectFor(row, asked)
  /\ Go(Outcome(row, asked, valid))
  /\ UNCHANGED seen

\* AuthorizationView.get
ValidateRequest == pc = "validating" /\ Validate(request.redirect_uri, "loading")

\* The form, unless the application skips it or the user has a token already.
LoadForm ==
  /\ pc = "loading"
  /\ \/ Go("creating")
     \/ ~app[request.client_id].skip_authorization /\ Go("form")
  /\ UNCHANGED <<client, target, seen>>

\* form_valid
Allow ==
  /\ pc = "form"
  /\ Go("creating")
  /\ seen' = Now
  /\ UNCHANGED <<client, target>>

\* AccessDeniedError, to the URI in the form
Deny ==
  /\ pc = "form"
  /\ Go("sending_error")
  /\ UNCHANGED <<client, target, seen>>

\* Mutant of CreateResponse: what was validated for the form is taken to be valid.
CreateUnvalidated ==
  /\ pc = "creating"
  /\ Go("sending_code")
  /\ UNCHANGED <<client, target, seen>>

\* create_authorization_response: all is validated again for a new request.client.
CreateResponse == pc = "creating" /\ Validate(target, "sending_code")

\* OAuth2ResponseRedirect
Redirectable(u) == u.scheme \in ALLOWED_REDIRECT_URI_SCHEMES

\* Another scheme is a DisallowedRedirect.
SendRedirect ==
  /\ pc \in {"sending_code", "sending_error", "leaving"}
  /\ Go(IF ~Redirectable(target) THEN "page"
        ELSE CASE pc = "sending_code"  -> "code_sent"
               [] pc = "sending_error" -> "error_sent"
               [] pc = "leaving"       -> "left")
  /\ UNCHANGED <<client, target, seen>>
-----------------------------------------------------------------------------
(* The redirect of the RP-initiated logout *)

BeginLogout(q) == Begin("logout", q)

\* validate_post_logout_redirect_uri
PostLogoutAllowed(row, u) ==
  /\ OIDC_RP_INITIATED_LOGOUT_STRICT_REDIRECT_URIS =>
       u.scheme # "http" \/ row.client_type = "confidential"
  /\ u.scheme \in ALLOWED_REDIRECT_URI_SCHEMES
  /\ RedirectToURIAllowed(u, row.post_logout_redirect_uris)

\* validate_logout_request for the page and again for its form; who is logged out
\* is in TokenRemoval.
ValidateLogout ==
  LET row == app[request.client_id]
      u == request.post_logout_redirect_uri
  IN
  /\ pc \in {"logout", "logout_submitted"}
  /\ client' = [client_id |-> request.client_id, row |-> row]
  /\ \/ /\ PostLogoutAllowed(row, u)
        /\ target' = u
        /\ \/ Go("leaving")
           \/ pc = "logout" /\ Go("logout_form")
           \/ pc = "logout_submitted" /\ Go("page")   \* LogoutDenied
     \/ /\ ~PostLogoutAllowed(row, u)
        /\ Go("page") /\ UNCHANGED target
  /\ UNCHANGED seen

SubmitLogout ==
  /\ pc = "logout_form"
  /\ Go("logout_submitted")
  /\ seen' = Now
  /\ UNCHANGED <<client, target>>

ProceedBrowser == \/ ValidateRequest \/ LoadForm \/ Allow \/ Deny \/ CreateResponse
                  \/ SendRedirect \/ ValidateLogout \/ SubmitLogout
-----------------------------------------------------------------------------
Init ==
  /\ app \in {row \in [Clients -> UNION {Registration(c) : c \in Clients}] :
               \A c \in Clients : row[c] \in Registration(c)}
  /\ edits = 0 /\ pc = "idle" /\ request = Absent /\ client = Absent
  /\ target = Absent /\ seen = [c \in Clients |-> {}]

Next ==
  \/ \E c \in Clients : \E form \in Forms[c], text \in TypedSecrets[c] \cup {Absent}, hash \in BOOLEAN :
       SaveApplication(c, form, text, hash)
  \/ \E q \in TokenRequests : BeginToken(q)
  \/ \E q \in AuthorizationRequests : BeginAuthorization(q)
  \/ \E q \in LogoutRequests : BeginLogout(q)
  \/ ProceedToken \/ ProceedBrowser \/ Close

Spec == Init /\ [][Next]_vars
-----------------------------------------------------------------------------
(* Properties *)

\* The rows, the request and what is kept of it have their types.
TypeOK ==
  /\ app \in [Clients -> Application]
  /\ edits \in 0..MaxEdits
  /\ pc \in Steps \cup Answers
  /\ request \in TokenRequests \cup AuthorizationRequests \cup LogoutRequests \cup {Absent}
  /\ client \in Loaded \cup {Absent}
  /\ target \in URIs \cup {Absent}
  /\ seen \in [Clients -> SUBSET Application]

\* The pairs of a client_id and a secret that a token request presents; who gives no
\* secret with his client_id presents the blank one.
Presented ==
  {request.basic} \cup
  (IF request.client_id # Absent
   THEN {[client_id |-> request.client_id, client_secret |-> request.client_secret]}
   ELSE {})

Own(c, row) == [client_id |-> c, client_secret |-> row.secret_text]

\* A token request is granted to a client only if one and the same part of it named
\* the client and gave the secret it had while the request was under way (a blank one
\* by giving none), or the client was public then and the grant lets it go without.
\* Whatever was loaded for another client_id before does not help.
AcceptedByOwnSecret ==
  pc \in {"granting", "accepted", "unauthorized_client"} =>
    LET c == client.client_id IN
    \E row \in seen[c] :
      \/ Own(c, row) \in Presented
      \/ /\ row.client_type = "public"
         /\ c \in {request.client_id} \cup {cred.client_id : cred \in Presented \ {Absent}}
         /\ \/ request.grant_type = "device_code"
            \/ /\ request.grant_type # "client_credentials"
               /\ request.basic = Absent /\ request.client_secret = Blank

\* A client that presents the secret its developer typed in last is not turned away
\* for it, however often the application was saved since, unless it is being edited.
OwnSecretSuffices ==
  pc = "invalid_client" =>
    \A c \in Clients : \A row \in seen[c] : seen[c] = {row} => Own(c, row) \notin Presented

\* Answers that carry something leave for a URI the client had registered since it was
\* asked for: the code since the user's consent was sent, an error since the page
\* was, the end of a logout since its form was; and only an origin the client had
\* registered may read the answer of the token endpoint.
SentOnlyToRegistered ==
  /\ pc \in {"code_sent", "error_sent"} =>
       \E row \in seen[request.client_id] : RedirectToURIAllowed(target, row.redirect_uris)
  /\ pc = "left" =>
       \E row \in seen[request.client_id] :
         RedirectToURIAllowed(target, row.post_logout_redirect_uris)
  /\ pc = "accepted" /\ target # Absent =>
       \E row \in seen[client.client_id] : IsOriginAllowed(target, row.allowed_origins)

\* The last two labels of a host
Domain(host) ==
  LET dots == {i \in DOMAIN host : host[i] = "."}
      last == {i \in dots : Cardinality({j \in dots : j >= i}) = 2}
  IN  SubSeq(host, IF last = {} THEN 1 ELSE (CHOOSE i \in last : TRUE) + 1, Len(host))

\* The host without the empty label that a last dot adds
EndsWithDot(host) == host # <<>> /\ Last(host) = "."
WithoutRoot(host) == IF EndsWithDot(host) THEN Front(host) ELSE host

SameDomain(u, v) == Domain(WithoutRoot(u.host)) = Domain(WithoutRoot(v.host))

\* *.org. has the three labels that clean() asks for, the last an empty one.
WildcardUnderRoot(u) ==
  StartsWith(u.host, "*") /\ EndsWithDot(u.host) /\ Labels(WithoutRoot(u.host)) < 3

Alike(u, v) == u.scheme = v.scheme /\ u.path = v.path /\ u.query \subseteq v.query

\* Whatever wildcards a form was saved with, codes and errors stay in a domain that was
\* registered, at the path that was, with the query that was; but for a wildcard right
\* under a last dot, which stands for any host with that dot.
WildcardStaysInDomain ==
  pc \in {"code_sent", "error_sent"} =>
    \E row \in seen[request.client_id] : \E u \in row.redirect_uris :
      Alike(u, target) /\ (SameDomain(u, target) \/ WildcardUnderRoot(u))
-----------------------------------------------------------------------------
(* The inductive invariant: what makes the properties above hold             *)

\* A row was checked by clean(), and holds the secret typed in, hashed at most once.
SoundRow(row) ==
  /\ row \in Application
  /\ Clean(row)
  /\ row.client_secret \in {row.secret_text, Hash(row.secret_text)}

RowsSound ==
  \A c \in Clients :
    /\ SoundRow(app[c]) /\ \A row \in seen[c] : SoundRow(row)
    /\ pc # "idle" => app[c] \in seen[c]

Granted    == {"granting", "accepted", "unauthorized_client"}
TokenPCs   == TokenSteps \cup Granted \cup {"invalid_client"}
BrowserPCs == BrowserSteps \cup {"code_sent", "error_sent"}
LogoutPCs  == LogoutSteps \cup {"left"}

RequestOfStep ==
  /\ pc \in TokenPCs => request \in TokenRequests
  /\ pc \in BrowserPCs => request \in AuthorizationRequests
  /\ pc \in LogoutPCs => request \in LogoutRequests

\* The row that was loaded was the client's while the request was under way.
ClientWasSeen ==
  /\ pc \in TokenPCs /\ client # Absent => client.row \in seen[client.client_id]
  /\ pc \in Granted \cup {"by_id"} => client # Absent

\* What led to a step of the authentication: by client_id alone comes who gave no
\* secret at all, and the parameters are looked at when the header did not do.
WayToStep ==
  /\ pc \in {"requiring", "by_id"} => request.grant_type # "client_credentials"
  /\ pc = "by_id" =>
       /\ request.basic = Absent /\ request.client_secret = Blank
       /\ client.client_id = request.client_id /\ client.row.client_type = "public"
  /\ pc = "body" =>
       \A c \in Clients : \A row \in seen[c] :
         seen[c] = {row} => Own(c, row) # request.basic

\* Where a redirect is kept between its validation and its use it is a registered one;
\* after consent it is validated again.
TargetWasRegistered ==
  /\ pc \in {"loading", "form", "sending_code", "sending_error", "code_sent", "error_sent"} =>
       /\ target \in URIs
       /\ \E row \in seen[request.client_id] : RedirectToURIAllowed(target, row.redirect_uris)
  /\ pc \in {"leaving", "left"} =>
       \E row \in seen[request.client_id] :
         RedirectToURIAllowed(target, row.post_logout_redirect_uris)
  /\ pc = "accepted" /\ target # Absent =>
       \E row \in seen[client.client_id] : IsOriginAllowed(target, row.allowed_origins)

Inv ==
  /\ TypeOK
  /\ RowsSound
  /\ RequestOfStep
  /\ ClientWasSeen
  /\ WayToStep
  /\ AcceptedByOwnSecret
  /\ OwnSecretSuffices
  /\ TargetWasRegistered
=============================================================================
