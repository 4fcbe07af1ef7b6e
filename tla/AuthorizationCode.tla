------------------------- MODULE AuthorizationCode -------------------------
(***************************************************************************)
(* The authorization code grant: AuthorizationView creates a Grant for a   *)
(* user's consent (views/base.py), and token endpoint workers exchange its *)
(* code for tokens (oauth2_validators.py, driven by oauthlib's             *)
(* AuthorizationCodeGrant).                                                *)
(*                                                                         *)
(* An exchange looks the grant up three times, commits the tokens, and     *)
(* only then deletes the grant; each of these is a statement of its own in *)
(* autocommit, so each is an action, and a worker may crash between any    *)
(* two.  ID tokens and the redirect's wording are left out.                *)
(***************************************************************************)
EXTENDS Naturals, FiniteSets

CONSTANTS
  Workers, Users, Clients, Scopes,
  RedirectUris,
  Verifiers,          \* PKCE code verifiers; a challenge is named by its verifier
  None,               \* no verifier, no challenge
  Absent,             \* a primary key that has no row
  SkipAuthorization,  \* the clients with skip_authorization
  PKCE_REQUIRED,
  AUTHORIZATION_CODE_EXPIRE_SECONDS,
  MaxGrants,          \* bound: grants ever created
  MaxTokens,          \* bound: token pairs ever created
  MaxTime             \* bound: clock readings

ASSUME ConstantsAssumption ==
  /\ MaxGrants \in Nat /\ MaxTokens \in Nat /\ MaxTime \in Nat \ {0}
  /\ AUTHORIZATION_CODE_EXPIRE_SECONDS \in Nat
  /\ SkipAuthorization \subseteq Clients
  /\ PKCE_REQUIRED \in BOOLEAN
  /\ None \notin Verifiers

Codes  == 1..MaxGrants
Tokens == 1..MaxTokens

\* A row of AbstractGrant; its key stands for the code, which is unique.
GrantRow == [user : Users, application : Clients, redirect_uri : RedirectUris,
             scope : SUBSET Scopes, code_challenge : Verifiers \cup {None},
             expires : Nat]

\* What the token endpoint is sent.
Exchange == [client : Clients, code : Codes, redirect_uri : RedirectUris,
             code_verifier : Verifiers \cup {None}]

\* An access token and its refresh token; "by" is the exchange they answer.
TokenRow == [user : Users, application : Clients, scope : SUBSET Scopes, by : Exchange]

Steps   == {"validated", "challenged", "confirmed", "saved", "invalidated"}
Answers == {"idle", "ok", "denied", "error"}   \* waiting, and the last answer

\* request: the exchange, with what validate_code put on the oauthlib Request
\* and the tokens saved for it.
Request == [exchange : Exchange, user : Users, scopes : SUBSET Scopes,
            token : Tokens \cup {Absent}]

ASSUME AbsentAssumption == Absent \notin GrantRow \cup TokenRow \cup Request

VARIABLES
  now, Grant, nextGrant, AccessToken, nextToken,
  pc, request,
  consent,      \* history: the scopes each user allowed each client
  authorized,   \* history: the grant each code was created with
  committed,    \* history: the tokens each code was exchanged for
  answered      \* history: those a client was given in a 200 response

db   == <<Grant, nextGrant, AccessToken, nextToken>>
hist == <<consent, authorized, committed, answered>>
vars == <<now, db, pc, request, hist>>

Busy(p) == pc[p] \in Steps
Goto(p, step) == pc' = [pc EXCEPT ![p] = step]

Answer(p, status) ==
  /\ Goto(p, status)
  /\ request' = [request EXCEPT ![p] = Absent]

\* Mutant of Found: the application is not part of the lookup.
FoundForAnyone(code, client) == Grant[code] # Absent

\* Grant.objects.get(code=code, application=client) finds a row
Found(code, client) ==
  Grant[code] # Absent /\ Grant[code].application = client

\* Bound: an exchange is begun only while a key is left for each under way.
KeyLeft == nextToken + Cardinality({p \in Workers : Busy(p)}) <= MaxTokens
-----------------------------------------------------------------------------
(* The authorization endpoint                                                *)

\* _create_authorization_code. PKCE is asked for here and not again when the
\* code is exchanged, unless the grant has no challenge.
CreateGrant(u, c, uri, scope, challenge) ==
  LET row == [user |-> u, application |-> c, redirect_uri |-> uri, scope |-> scope,
              code_challenge |-> challenge,
              expires |-> now + AUTHORIZATION_CODE_EXPIRE_SECONDS] IN
  /\ nextGrant <= MaxGrants
  /\ PKCE_REQUIRED => challenge # None
  /\ Grant' = [Grant EXCEPT ![nextGrant] = row]
  /\ authorized' = [authorized EXCEPT ![nextGrant] = row]
  /\ nextGrant' = nextGrant + 1
  /\ UNCHANGED <<now, AccessToken, nextToken, pc, request, committed, answered>>

\* form_valid: the user allows the scopes of the form.
Authorize(u, c, uri, scope, challenge) ==
  /\ CreateGrant(u, c, uri, scope, challenge)
  /\ consent' = [consent EXCEPT ![u][c] = @ \cup scope]

\* get() for an application with skip_authorization: nobody is asked.
SkipApproval(u, c, uri, scope, challenge) ==
  /\ c \in SkipAuthorization
  /\ CreateGrant(u, c, uri, scope, challenge)
  /\ UNCHANGED consent

\* Mutant of PastAuthorizations: tokens of any application count.
PastAuthorizationsAnywhere(u, c) ==
  {t \in Tokens : AccessToken[t] # Absent /\ AccessToken[t].user = u}

\* The tokens get() finds for the user and application, in approval "auto"
PastAuthorizations(u, c) ==
  {t \in Tokens : /\ AccessToken[t] # Absent
                  /\ AccessToken[t].user = u /\ AccessToken[t].application = c}

\* get() with approval_prompt=auto: a live token that allows the scopes stands
\* for the form. The user is not asked.
AutoApprove(u, c, uri, scope, challenge) ==
  /\ c \notin SkipAuthorization
  /\ \E t \in PastAuthorizations(u, c) : scope \subseteq AccessToken[t].scope
  /\ CreateGrant(u, c, uri, scope, challenge)
  /\ UNCHANGED consent
-----------------------------------------------------------------------------
(* The token endpoint                                                        *)

\* Mutant of ValidateCode: the user of the grant is not put on the request.
ValidateCodeWithoutUser(p, e) ==
  /\ ~Busy(p) /\ KeyLeft
  /\ Found(e.code, e.client)
  /\ now < Grant[e.code].expires
  /\ request' = [request EXCEPT ![p] =
       [exchange |-> e, user |-> Absent, scopes |-> Grant[e.code].scope, token |-> Absent]]
  /\ Goto(p, "validated")
  /\ UNCHANGED <<now, db, hist>>

\* validate_code of a client that has authenticated: the first lookup
ValidateCode(p, e) ==
  /\ ~Busy(p) /\ KeyLeft
  /\ Found(e.code, e.client)
  /\ now < Grant[e.code].expires
  /\ request' = [request EXCEPT ![p] =
       [exchange |-> e, user |-> Grant[e.code].user,
        scopes |-> Grant[e.code].scope, token |-> Absent]]
  /\ Goto(p, "validated")
  /\ UNCHANGED <<now, db, hist>>

RejectCode(p, e) ==
  /\ ~Busy(p)
  /\ Found(e.code, e.client) => now >= Grant[e.code].expires
  /\ Answer(p, "denied")
  /\ UNCHANGED <<now, db, hist>>

\* get() of get_code_challenge or confirm_redirect_uri raises DoesNotExist when
\* the grant was exchanged or removed since; nothing catches it.
LookupFails(p) ==
  /\ pc[p] \in {"validated", "challenged"}
  /\ ~Found(request[p].exchange.code, request[p].exchange.client)
  /\ Answer(p, "error")
  /\ UNCHANGED <<now, db, hist>>

\* Mutant of ChallengeMet: a request without a verifier is let through.
ChallengeMetIfVerified(e) ==
  e.code_verifier # None => e.code_verifier = Grant[e.code].code_challenge

\* oauthlib: a challenge must be met; without one the exchange goes on only
\* where PKCE is not required.
ChallengeMet(e) ==
  LET challenge == Grant[e.code].code_challenge IN
  IF challenge # None THEN e.code_verifier = challenge ELSE ~PKCE_REQUIRED

CheckChallenge(p) ==
  LET e == request[p].exchange IN
  /\ pc[p] = "validated"
  /\ Found(e.code, e.client)
  /\ IF ChallengeMet(e) THEN Goto(p, "challenged") /\ UNCHANGED request
                        ELSE Answer(p, "denied")
  /\ UNCHANGED <<now, db, hist>>

\* Mutant of ConfirmRedirectUri: the code is consumed here, before its tokens exist.
ConfirmAndConsume(p) ==
  LET e == request[p].exchange IN
  /\ pc[p] = "challenged"
  /\ Found(e.code, e.client)
  /\ IF e.redirect_uri = Grant[e.code].redirect_uri
     THEN Goto(p, "confirmed") /\ UNCHANGED request
     ELSE Answer(p, "denied")
  /\ Grant' = [Grant EXCEPT ![e.code] = Absent]
  /\ UNCHANGED <<now, nextGrant, AccessToken, nextToken, hist>>

ConfirmRedirectUri(p) ==
  LET e == request[p].exchange IN
  /\ pc[p] = "challenged"
  /\ Found(e.code, e.client)
  /\ IF e.redirect_uri = Grant[e.code].redirect_uri
     THEN Goto(p, "confirmed") /\ UNCHANGED request
     ELSE Answer(p, "denied")
  /\ UNCHANGED <<now, db, hist>>

\* save_bearer_token commits the tokens
SaveTokens(p) ==
  LET e == request[p].exchange IN
  /\ pc[p] = "confirmed"
  /\ nextToken <= MaxTokens
  /\ AccessToken' = [AccessToken EXCEPT ![nextToken] =
       [user |-> request[p].user, application |-> e.client,
        scope |-> request[p].scopes, by |-> e]]
  /\ committed' = [committed EXCEPT ![e.code] = @ \cup {nextToken}]
  /\ request' = [request EXCEPT ![p].token = nextToken]
  /\ nextToken' = nextToken + 1
  /\ Goto(p, "saved")
  /\ UNCHANGED <<now, Grant, nextGrant, consent, authorized, answered>>

\* Mutant of InvalidateCode: the number of deleted rows is not looked at.
InvalidateCodeAnyway(p) ==
  /\ pc[p] = "saved"
  /\ Grant' = [Grant EXCEPT ![request[p].exchange.code] = Absent]
  /\ Goto(p, "invalidated")
  /\ UNCHANGED <<now, request, nextGrant, AccessToken, nextToken, hist>>

\* invalidate_authorization_code: of several exchanges one deletes the row,
\* the others raise InvalidGrantError and leave their tokens behind.
InvalidateCode(p) ==
  LET e == request[p].exchange IN
  /\ pc[p] = "saved"
  /\ IF Found(e.code, e.client)
     THEN /\ Grant' = [Grant EXCEPT ![e.code] = Absent]
          /\ Goto(p, "invalidated")
          /\ UNCHANGED request
     ELSE Answer(p, "denied") /\ UNCHANGED Grant
  /\ UNCHANGED <<now, nextGrant, AccessToken, nextToken, hist>>

\* authorization_flow_token_response reads the new token again
SendSignal(p) ==
  LET t == request[p].token IN
  /\ pc[p] = "invalidated"
  /\ IF AccessToken[t] # Absent
     THEN /\ Answer(p, "ok")
          /\ answered' = [answered EXCEPT ![request[p].exchange.code] = @ \cup {t}]
     ELSE Answer(p, "error") /\ UNCHANGED answered
  /\ UNCHANGED <<now, db, consent, authorized, committed>>

\* The process is killed, or the database connection is lost.
Crash(p) ==
  /\ Busy(p)
  /\ Answer(p, "error")
  /\ UNCHANGED <<now, db, hist>>
-----------------------------------------------------------------------------
\* Tokens expire, are revoked or removed.
DropToken(t) ==
  /\ AccessToken[t] # Absent
  /\ AccessToken' = [AccessToken EXCEPT ![t] = Absent]
  /\ UNCHANGED <<now, Grant, nextGrant, nextToken, pc, request, hist>>

\* clear_expired
CleanGrant(g) ==
  /\ Grant[g] # Absent /\ Grant[g].expires < now
  /\ Grant' = [Grant EXCEPT ![g] = Absent]
  /\ UNCHANGED <<now, nextGrant, AccessToken, nextToken, pc, request, hist>>

Tick ==
  /\ now < MaxTime
  /\ now' = now + 1
  /\ UNCHANGED <<db, pc, request, hist>>
-----------------------------------------------------------------------------
Init ==
  /\ now = 1
  /\ Grant = [g \in Codes |-> Absent]
  /\ nextGrant = 1
  /\ AccessToken = [t \in Tokens |-> Absent]
  /\ nextToken = 1
  /\ pc = [p \in Workers |-> "idle"]
  /\ request = [p \in Workers |-> Absent]
  /\ consent = [u \in Users |-> [c \in Clients |-> {}]]
  /\ authorized = [g \in Codes |-> Absent]
  /\ committed = [g \in Codes |-> {}]
  /\ answered = [g \in Codes |-> {}]

Next ==
  \/ \E u \in Users, c \in Clients, uri \in RedirectUris,
        scope \in SUBSET Scopes, challenge \in Verifiers \cup {None} :
       \/ Authorize(u, c, uri, scope, challenge)
       \/ SkipApproval(u, c, uri, scope, challenge)
       \/ AutoApprove(u, c, uri, scope, challenge)
  \/ \E p \in Workers, e \in Exchange : ValidateCode(p, e) \/ RejectCode(p, e)
  \/ \E p \in Workers :
       \/ LookupFails(p) \/ CheckChallenge(p) \/ ConfirmRedirectUri(p)
       \/ SaveTokens(p) \/ InvalidateCode(p) \/ SendSignal(p) \/ Crash(p)
  \/ \E t \in Tokens : DropToken(t)
  \/ \E g \in Codes : CleanGrant(g)
  \/ Tick

Spec == Init /\ [][Next]_vars
-----------------------------------------------------------------------------
(* Properties *)

\* The tables, the workers and the history keep their types.
TypeOK ==
  /\ now \in 1..MaxTime
  /\ Grant \in [Codes -> GrantRow \cup {Absent}]
  /\ nextGrant \in 1..(MaxGrants + 1)
  /\ AccessToken \in [Tokens -> TokenRow \cup {Absent}]
  /\ nextToken \in 1..(MaxTokens + 1)
  /\ pc \in [Workers -> Steps \cup Answers]
  /\ request \in [Workers -> Request \cup {Absent}]
  /\ consent \in [Users -> [Clients -> SUBSET Scopes]]
  /\ authorized \in [Codes -> GrantRow \cup {Absent}]
  /\ committed \in [Codes -> SUBSET Tokens]
  /\ answered \in [Codes -> SUBSET Tokens]

\* However many exchanges of one code run at once, and wherever they crash, at
\* most one client is answered with tokens (invalidate_authorization_code).
AnsweredOnce ==
  \A g \in Codes : \A t, u \in answered[g] : t = u

\* Tokens belong to the user, application and scope their code was created for,
\* whichever client presented it.
TokensMatchGrant ==
  \A t \in Tokens : AccessToken[t] # Absent =>
    LET grant == authorized[AccessToken[t].by.code] IN
    /\ grant # Absent
    /\ AccessToken[t].user = grant.user
    /\ AccessToken[t].application = grant.application
    /\ AccessToken[t].scope = grant.scope

\* Tokens were obtained by who met the challenge of the authorization request,
\* at the redirect URI it named; where PKCE is required there was a challenge.
CodeBoundToRequest ==
  \A t \in Tokens : AccessToken[t] # Absent =>
    LET e == AccessToken[t].by
        grant == authorized[e.code] IN
    /\ e.redirect_uri = grant.redirect_uri
    /\ grant.code_challenge # None => e.code_verifier = grant.code_challenge
    /\ PKCE_REQUIRED => grant.code_challenge # None

\* Approval without the form (AuthorizationView.get) never goes beyond what the
\* user has allowed this application before, unless the application skips it.
ScopeWithinConsent ==
  \A t \in Tokens :
    AccessToken[t] # Absent /\ AccessToken[t].application \notin SkipAuthorization =>
    AccessToken[t].scope \subseteq consent[AccessToken[t].user][AccessToken[t].application]

\* An exchange that crashes before its tokens are committed leaves the code to
\* be exchanged again: a code that has not expired goes only after its tokens came.
ConsumedMeansIssued ==
  [][\A g \in Codes :
       (Grant[g] # Absent /\ Grant'[g] = Absent)
         => committed[g] # {} \/ Grant[g].expires < now]_vars
-----------------------------------------------------------------------------
(* The inductive invariant: what makes the safety properties above hold      *)

\* A code not drawn yet has no grant and no history. A grant is never edited, and
\* as long as it is there nobody was answered for its code.
GrantsKept ==
  \A g \in Codes :
    /\ g >= nextGrant => authorized[g] = Absent /\ answered[g] = {}
    /\ Grant[g] # Absent => Grant[g] = authorized[g] /\ answered[g] = {}

\* What was created was consented to, unless the application skips that.
ConsentCovers ==
  \A g \in Codes :
    /\ authorized[g] # Absent
    /\ authorized[g].application \notin SkipAuthorization
    => authorized[g].scope \subseteq consent[authorized[g].user][authorized[g].application]

\* What an exchange under way knows was true of the grant when it was created,
\* step by step; once saved, its tokens are among those of the code.
ExchangeSound(p) ==
  LET e == request[p].exchange
      grant == authorized[e.code]
  IN
  /\ request[p] # Absent /\ grant # Absent
  /\ e.client = grant.application
  /\ request[p].user = grant.user /\ request[p].scopes = grant.scope
  /\ pc[p] # "validated" =>
       /\ grant.code_challenge # None => e.code_verifier = grant.code_challenge
       /\ PKCE_REQUIRED => grant.code_challenge # None
  /\ pc[p] \notin {"validated", "challenged"} => e.redirect_uri = grant.redirect_uri
  /\ pc[p] \in {"saved", "invalidated"} => request[p].token \in committed[e.code]

ExchangesSound == \A p \in Workers : Busy(p) => ExchangeSound(p)

\* Whoever deleted the row is the only one who will answer for its code.
DeletedOnce ==
  \A p \in Workers : pc[p] = "invalidated" =>
    LET g == request[p].exchange.code IN
    /\ Grant[g] = Absent /\ answered[g] = {}
    /\ \A q \in Workers : pc[q] = "invalidated" /\ request[q].exchange.code = g => p = q

Inv ==
  /\ TypeOK
  /\ GrantsKept
  /\ ConsentCovers
  /\ TokensMatchGrant
  /\ CodeBoundToRequest
  /\ ExchangesSound
  /\ DeletedOnce
  /\ AnsweredOnce
=============================================================================
