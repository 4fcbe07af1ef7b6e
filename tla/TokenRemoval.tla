----------------------------- MODULE TokenRemoval -----------------------------
(***************************************************************************)
(* What removes tokens while they are refreshed: RP-initiated logout       *)
(* (views/oidc.py) and clear_expired (models.py), composed with the token  *)
(* requests of RefreshTokens.  Both read lists of rows first and delete    *)
(* the rows of the lists afterwards, in a commit for each.                 *)
(*                                                                         *)
(* RefreshTokens has the rows of AccessToken and RefreshToken and lets any *)
(* of them go at any time; here the rows have a user, an expiry and an ID  *)
(* token, and go for a reason.  ImplementsRefreshTokens says that this is  *)
(* an instance of that, so that what is proved there holds here.           *)
(***************************************************************************)
EXTENDS RefreshTokens

CONSTANTS
  Users,
  OpenId,          \* the scope "openid"
  Anonymous,       \* request.user of a browser with no session
  Deletable,       \* the applications whose tokens a logout deletes
                   \* (token_deletion_client_types, token_deletion_grant_types)
  ACCESS_TOKEN_EXPIRE_SECONDS,
  ID_TOKEN_EXPIRE_SECONDS,
  OIDC_RP_INITIATED_LOGOUT_ALWAYS_PROMPT,
  OIDC_RP_INITIATED_LOGOUT_ACCEPT_EXPIRED_TOKENS,
  OIDC_RP_INITIATED_LOGOUT_DELETE_TOKENS,
  CLEAR_EXPIRED_TOKENS_BATCH_SIZE,
  Overlap          \* bound: FALSE if no logout runs during clear_expired

ASSUME RemovalAssumption ==
  /\ Overlap \in BOOLEAN
  /\ Anonymous \notin Users
  /\ Deletable \subseteq Clients
  /\ ACCESS_TOKEN_EXPIRE_SECONDS \in Nat
  /\ ID_TOKEN_EXPIRE_SECONDS \in Nat
  /\ CLEAR_EXPIRED_TOKENS_BATCH_SIZE \in Nat \ {0}

VARIABLES
  owner,     \* the user of each pair
  expires,   \* AccessToken.expires
  IDToken,   \* IDToken.expires of the ID token of each pair; Null: no row
  logout,    \* the logout request of a browser, "idle" when it has been answered
  cleaner    \* the run of clear_expired under way

removalVars == <<owner, expires, IDToken, logout, cleaner>>
allVars     == <<vars, removalVars>>
-----------------------------------------------------------------------------
(* Token requests, as in RefreshTokens. A new pair belongs to a user, and has *)
(* an ID token if its scope says so.                                          *)

\* Of the row of an ID token its expiry is kept.
IDTokenRow == 0..(MaxTime + ID_TOKEN_EXPIRE_SECONDS)

NewIDToken(scope) == IF OpenId \in scope THEN now + ID_TOKEN_EXPIRE_SECONDS ELSE Null

NewPair(user, scope) ==
  /\ owner' = [owner EXCEPT ![nextPk] = user]
  /\ expires' = [expires EXCEPT ![nextPk] = now + ACCESS_TOKEN_EXPIRE_SECONDS]
  /\ IDToken' = [IDToken EXCEPT ![nextPk] = NewIDToken(scope)]
  /\ UNCHANGED <<logout, cleaner>>

IssuePair(c, user, scope) == IssueTokens(c, scope) /\ NewPair(user, scope)

RotatePair(p) == Rotate(p) /\ NewPair(owner[request[p].rt], request[p].asked)

\* Without rotation the row expires later. It keeps the ID token it was created with:
\* the new one is nobody's, here that of the key drawn for the new string.
RenewPair(p) ==
  LET a == request[p].seen IN
  /\ UpdateInPlace(p)
  /\ expires' = [expires EXCEPT ![a] = now + ACCESS_TOKEN_EXPIRE_SECONDS]
  /\ owner' = [owner EXCEPT ![nextPk] = owner[a]]
  /\ IDToken' = [IDToken EXCEPT ![nextPk] = NewIDToken(request[p].asked)]
  /\ UNCHANGED <<logout, cleaner>>

\* Requests refused at once touch no row and are left out.
OtherStep(p) ==
  /\ \/ \E r \in Pks, c \in Clients : Accept(p, r, c, {})
     \/ Acquire(p)
     \/ GetOriginalScopes(p) \/ InvalidScope(p)
     \/ UpdateInPlaceFails(p) \/ LockRefreshTokenFails(p)
     \/ Replay(p) \/ ReplayFails(p) \/ SendSignal(p)
  /\ UNCHANGED removalVars

\* RevokeTokenView and the admin
RevokePair(r) == RevokeRefreshToken(r) /\ UNCHANGED removalVars

\* AuthorizedTokenDeleteView and RevokeTokenView
DeleteAccess(a) == DeleteAccessToken(a) /\ UNCHANGED removalVars

RemoveAccess(a) ==
  IF AccessToken[a] # Absent THEN DeleteAccessToken(a) ELSE UNCHANGED vars

\* Mutant of RemoveIDToken: the access token row goes without its refresh
\* token being told (on_delete of RefreshToken.access_token).
RemoveIDTokenDangling(k) ==
  /\ IDToken' = [IDToken EXCEPT ![k] = Null]
  /\ AccessToken' = AccessTokensWithout({k})
  /\ UNCHANGED <<now, RefreshToken, nextPk, pc, request, hist>>

\* Deleting an ID token deletes its access token (on_delete=CASCADE).
RemoveIDToken(k) ==
  /\ IDToken' = [IDToken EXCEPT ![k] = Null]
  /\ RemoveAccess(k)

\* IDTokenAdmin
DeleteIDToken(k) ==
  /\ IDToken[k] # Null
  /\ RemoveIDToken(k)
  /\ UNCHANGED <<owner, expires, logout, cleaner>>

Clock == Tick /\ UNCHANGED removalVars
-----------------------------------------------------------------------------
(* RPInitiatedLogoutView: is the logout asked for, and by whom                *)

\* session is request.user, user whose tokens go. had is history: the access
\* tokens he had when the lists were begun.
NoLogout ==
  [step |-> "idle", session |-> Anonymous, hint |-> Null, user |-> Anonymous,
   refresh_tokens |-> {}, access_tokens |-> {}, with_id_token |-> {},
   had |-> {}]

\* While the form is shown, the user of the session may change elsewhere.
SwitchSession(u) ==
  /\ logout.step = "prompting" /\ logout.session # u
  /\ logout' = [logout EXCEPT !.session = u]
  /\ UNCHANGED <<vars, owner, expires, IDToken, cleaner>>

\* _load_id_token: the hint is an ID token whose row is still there
ValidHint(k) ==
  k # Null =>
    /\ IDToken[k] # Null
    /\ OIDC_RP_INITIATED_LOGOUT_ACCEPT_EXPIRED_TOKENS \/ now < IDToken[k]

TokenUser(k) == IF k = Null THEN Anonymous ELSE owner[k]

\* Mutant of MustPrompt: any user's ID token speaks for the session.
MustPromptNoHint(current, user) ==
  /\ current # Anonymous
  /\ OIDC_RP_INITIATED_LOGOUT_ALWAYS_PROMPT \/ user = Anonymous

MustPrompt(current, user) ==
  /\ current # Anonymous
  /\ OIDC_RP_INITIATED_LOGOUT_ALWAYS_PROMPT \/ user # current

\* do_logout deletes the tokens of the user of the hint, else of the session.
BeginLogout(k, current, step) ==
  LET user == IF k # Null THEN owner[k] ELSE current IN
  logout' = [NoLogout EXCEPT
    !.step = IF OIDC_RP_INITIATED_LOGOUT_DELETE_TOKENS /\ user # Anonymous
             THEN step ELSE "ending",
    !.session = current, !.hint = k, !.user = user]

\* get(): a request of a browser in which current is logged in. One that is refused
\* changes nothing.
RequestLogout(k, current) ==
  /\ logout.step = "idle"
  /\ Overlap \/ cleaner.stage = "idle"
  /\ ValidHint(k)
  /\ \/ /\ MustPrompt(current, TokenUser(k))
        /\ logout' = [NoLogout EXCEPT !.step = "prompting", !.session = current,
                                       !.hint = k]
     \/ /\ ~MustPrompt(current, TokenUser(k))
        /\ BeginLogout(k, current, "listing")
  /\ UNCHANGED <<vars, owner, expires, IDToken, cleaner>>

\* form_valid looks at the hint again. "confirmed" is "listing" for a user who
\* allowed it.
SubmitForm(allow) ==
  LET k == logout.hint
      ask == MustPrompt(logout.session, TokenUser(k))
  IN
  /\ logout.step = "prompting"
  /\ \/ (~ValidHint(k) \/ (ask /\ ~allow)) /\ logout' = NoLogout
     \/ /\ ValidHint(k) /\ (~ask \/ allow)
        /\ BeginLogout(k, logout.session, IF allow THEN "confirmed" ELSE "listing")
  /\ UNCHANGED <<vars, owner, expires, IDToken, cleaner>>
-----------------------------------------------------------------------------
(* do_logout                                                                *)

TokensOf(user) ==
  {a \in Pks : /\ AccessToken[a] # Absent /\ owner[a] = user
               /\ AccessToken[a].application \in Deletable}

\* Mutants of RefreshTokensOf: all the live ones of the user; and the query is
\* evaluated after the loop over the access tokens and finds none, which the comment
\* in do_logout warns of.
RefreshTokensByUser(user) == {r \in Pks : Live(r) /\ owner[r] = user}

RefreshTokensLate(user) == {}

RefreshTokensOf(user) ==
  {r \in Pks : Exists(r) /\ RefreshToken[r].access_token \in TokensOf(user)}

\* list(RefreshToken...filter(access_token__in=access_tokens_to_delete))
ListRefreshTokens ==
  /\ logout.step \in {"listing", "confirmed"}
  /\ logout' = [NoLogout EXCEPT
       !.step = "listed",
       !.user = logout.user,
       !.refresh_tokens = RefreshTokensOf(logout.user),
       !.had = TokensOf(logout.user)]
  /\ UNCHANGED <<vars, owner, expires, IDToken, cleaner>>

\* The loop reads the access tokens with the key of their ID token.
ListAccessTokens ==
  /\ logout.step = "listed"
  /\ logout' = [logout EXCEPT
       !.step = "deleting",
       !.access_tokens = TokensOf(logout.user),
       !.with_id_token = {a \in TokensOf(logout.user) : IDToken[a] # Null}]
  /\ UNCHANGED <<vars, owner, expires, IDToken, cleaner>>

DeleteListed(a) ==
  /\ logout.step = "deleting" /\ a \in logout.access_tokens
  /\ IF a \in logout.with_id_token
     THEN IDToken[a] # Null /\ RemoveIDToken(a)
     ELSE RemoveAccess(a) /\ UNCHANGED IDToken
  /\ logout' = [logout EXCEPT !.access_tokens = @ \ {a}]
  /\ UNCHANGED <<owner, expires, cleaner>>

\* token.id_token raises DoesNotExist where the ID token was deleted meanwhile;
\* nothing catches it, and the user stays logged in.
DeleteListedFails(a) ==
  /\ logout.step = "deleting" /\ a \in logout.access_tokens
  /\ a \in logout.with_id_token /\ IDToken[a] = Null
  /\ logout' = NoLogout
  /\ UNCHANGED <<vars, owner, expires, IDToken, cleaner>>

RevokeListed(r) ==
  /\ logout.step = "deleting" /\ logout.access_tokens = {}
  /\ r \in logout.refresh_tokens
  /\ IF Live(r) THEN RevokeRefreshToken(r) ELSE UNCHANGED vars
  /\ logout' = [logout EXCEPT !.refresh_tokens = @ \ {r}]
  /\ UNCHANGED <<owner, expires, IDToken, cleaner>>

\* logout(request)
EndLogout ==
  /\ \/ logout.step = "ending"
     \/ /\ logout.step = "deleting"
        /\ logout.access_tokens = {} /\ logout.refresh_tokens = {}
  /\ logout' = NoLogout
  /\ UNCHANGED <<vars, owner, expires, IDToken, cleaner>>
-----------------------------------------------------------------------------
(* clear_expired                                                            *)

Stages == {"revoked", "expired", "access", "id"}

StageAfter(stage) ==
  CASE stage = "revoked" -> "expired" [] stage = "expired" -> "access"
    [] stage = "access" -> "id" [] stage = "id" -> "idle"

StartCleaning ==
  /\ cleaner.stage = "idle"
  /\ Overlap \/ logout.step = "idle"
  /\ cleaner' = [stage |-> IF REFRESH_TOKEN_EXPIRE_SECONDS = 0 THEN "access" ELSE "revoked",
                 at |-> now, ids |-> {}]
  /\ UNCHANGED <<vars, owner, expires, IDToken, logout>>

\* Mutant of ExpiredAccess: whether a refresh token refers to it is not asked.
ExpiredAccessInUse(at) == {a \in Pks : AccessToken[a] # Absent /\ expires[a] < at}

\* refresh_token__isnull=True, expires__lt=now
ExpiredAccess(at) ==
  {a \in Pks : AccessToken[a] # Absent /\ PairOf(a) = {} /\ expires[a] < at}

RevokedRefresh(at) ==
  {r \in Pks : /\ Exists(r) /\ RefreshToken[r].revoked # Null
               /\ RefreshToken[r].revoked + REFRESH_TOKEN_EXPIRE_SECONDS < at}

ExpiredRefresh(at) ==
  {r \in Pks : /\ Exists(r) /\ RefreshToken[r].access_token # Null
               /\ expires[RefreshToken[r].access_token]
                    + REFRESH_TOKEN_EXPIRE_SECONDS < at}

ExpiredIDTokens(at) ==
  {k \in Pks : IDToken[k] # Null /\ AccessToken[k] = Absent /\ IDToken[k] < at}

Matching ==
  CASE cleaner.stage = "revoked" -> RevokedRefresh(cleaner.at)
    [] cleaner.stage = "expired" -> ExpiredRefresh(cleaner.at)
    [] cleaner.stage = "access"  -> ExpiredAccess(cleaner.at)
    [] cleaner.stage = "id"      -> ExpiredIDTokens(cleaner.at)

\* The identifiers of a batch are read, in no particular order.
ListBatch ==
  /\ cleaner.stage \in Stages /\ cleaner.ids = {}
  /\ \E ids \in SUBSET Matching :
       /\ ids # {}
       /\ Cardinality(ids) = CLEAR_EXPIRED_TOKENS_BATCH_SIZE \/ ids = Matching
       /\ Cardinality(ids) <= CLEAR_EXPIRED_TOKENS_BATCH_SIZE
       /\ cleaner' = [cleaner EXCEPT !.ids = ids]
  /\ UNCHANGED <<vars, owner, expires, IDToken, logout>>

\* The rows with these identifiers are deleted, whatever became of them. The code
\* commits a batch at once: others coming in between only adds to what can happen.
DeleteRow(k) ==
  /\ k \in cleaner.ids
  /\ CASE cleaner.stage \in {"revoked", "expired"} ->
            /\ IF Exists(k) THEN CleanRefreshToken(k) ELSE UNCHANGED vars
            /\ UNCHANGED IDToken
       [] cleaner.stage = "access" -> RemoveAccess(k) /\ UNCHANGED IDToken
       [] cleaner.stage = "id" -> RemoveIDToken(k)
  /\ cleaner' = [cleaner EXCEPT !.ids = @ \ {k}]
  /\ UNCHANGED <<owner, expires, logout>>

NextStage ==
  /\ cleaner.stage \in Stages /\ cleaner.ids = {} /\ Matching = {}
  /\ cleaner' = IF cleaner.stage = "id" THEN [stage |-> "idle", at |-> Null, ids |-> {}]
                ELSE [cleaner EXCEPT !.stage = StageAfter(@)]
  /\ UNCHANGED <<vars, owner, expires, IDToken, logout>>
-----------------------------------------------------------------------------
RemovalInit ==
  /\ Init /\ EmptyDatabase
  /\ owner = [k \in Pks |-> Anonymous]
  /\ expires = [k \in Pks |-> Null]
  /\ IDToken = [k \in Pks |-> Null]
  /\ logout = NoLogout
  /\ cleaner = [stage |-> "idle", at |-> Null, ids |-> {}]

Logout ==
  \/ \E k \in Ref, u \in Users \cup {Anonymous} : RequestLogout(k, u)
  \/ \E u \in Users \cup {Anonymous} : SwitchSession(u)
  \/ \E allow \in BOOLEAN : SubmitForm(allow)
  \/ ListRefreshTokens \/ ListAccessTokens \/ EndLogout
  \/ \E a \in Pks : DeleteListed(a) \/ DeleteListedFails(a)
  \/ \E r \in Pks : RevokeListed(r)

ClearExpired ==
  \/ StartCleaning \/ ListBatch \/ NextStage
  \/ \E k \in Pks : DeleteRow(k)

RemovalNext ==
  \/ \E p \in Workers : RotatePair(p) \/ RenewPair(p) \/ OtherStep(p)
  \/ \E c \in Clients, u \in Users, scope \in SUBSET Scopes : IssuePair(c, u, scope)
  \/ \E k \in Pks : RevokePair(k) \/ DeleteAccess(k) \/ DeleteIDToken(k)
  \/ Logout \/ ClearExpired \/ Clock

RemovalSpec == RemovalInit /\ [][RemovalNext]_allVars
-----------------------------------------------------------------------------
(* Properties *)

\* The rows keep their user, expiry and ID token; logout and cleaner their lists.
RemovalTypeOK ==
  /\ owner \in [Pks -> Users \cup {Anonymous}]
  /\ expires \in [Pks -> 0..(MaxTime + ACCESS_TOKEN_EXPIRE_SECONDS)]
  /\ IDToken \in [Pks -> IDTokenRow \cup {Null}]
  /\ {logout.session, logout.user} \subseteq Users \cup {Anonymous}
  /\ logout.step \in {"idle", "prompting", "listing", "confirmed", "listed",
                      "deleting", "ending"}
  /\ logout.refresh_tokens \subseteq logout.had
  /\ logout.access_tokens \subseteq Pks
  /\ cleaner.stage \in Stages \cup {"idle"}
  /\ cleaner.ids \subseteq Pks /\ cleaner.at \in 0..now

\* The deletion is through and logout() is called: the step EndLogout.
LoggingOut ==
  /\ logout.step = "deleting" /\ logout.access_tokens = {}
  /\ logout'.step = "idle"

\* Whatever is refreshed, replayed, revoked or cleaned up while a logout runs, no
\* pair the user had when it began is left when it has ended: neither the access
\* token nor, live, the refresh token that came with it.
LogoutEndsPairs ==
  [][LoggingOut => \A k \in logout.had : AccessToken[k] = Absent /\ ~Live(k)]_allVars

\* must_prompt, on OpenID Connect: the user must be asked if no ID token was given
\* or if it is not the logged in user's. Nobody's tokens are deleted behind the
\* back of somebody else who is logged in.
AskedBeforeLogout ==
  [][(logout.step # "listing" /\ logout'.step = "listing" /\ logout'.session # Anonymous) =>
       logout'.user = logout'.session /\ logout'.hint # Null]_allVars

\* Renewed in place since the run of clear_expired under way began: it selects by that
\* time, and no earlier row has such an expiry. With rotation there is none.
Renewed(k) ==
  ~ROTATE_REFRESH_TOKEN /\ expires[k] >= cleaner.at + ACCESS_TOKEN_EXPIRE_SECONDS

\* docs/management_commands.rst: cleartokens removes refresh tokens whose lifetime is
\* exceeded, and expired access tokens. clear_expired takes no access token that has
\* not expired, no live refresh token whose access token did not expire long enough
\* ago, and no access token from a refresh token that is still there, although it
\* deletes by identifiers read before, and whatever is revoked, replayed or refreshed
\* meanwhile. A row that is renewed in place between the two is the exception: it is
\* deleted all the same.
CleanerSparesValid ==
  [][(cleaner.ids # {} /\ cleaner' # cleaner) => \A k \in Pks :
       /\ (AccessToken[k] # Absent /\ AccessToken'[k] = Absent) =>
            ~Exists(k) /\ (expires[k] < now \/ Renewed(k))
       /\ Live(k) =>
            \/ RefreshToken'[k] = RefreshToken[k]
            \/ /\ RefreshToken'[k] = Absent
               /\ RefreshToken[k].access_token # Null =>
                    \/ expires[k] + REFRESH_TOKEN_EXPIRE_SECONDS < now
                    \/ Renewed(k)]_allVars

\* Every step of a logout or of clear_expired is a step RefreshTokens allows for,
\* or leaves its tables alone.
ImplementsRefreshTokens == Init /\ [][Next]_vars
-----------------------------------------------------------------------------
(* The inductive invariant: what makes the properties above hold             *)

LogoutRequest ==
  [step : {"idle", "prompting", "listing", "confirmed", "listed", "deleting", "ending"},
   session : Users \cup {Anonymous}, hint : Ref, user : Users \cup {Anonymous},
   refresh_tokens : SUBSET Pks, access_tokens : SUBSET Pks,
   with_id_token : SUBSET Pks, had : SUBSET Pks]

CleanerRun == [stage : Stages \cup {"idle"}, at : 0..MaxTime, ids : SUBSET Pks]

Used(k) == k < nextPk

\* A pair belongs to one application, and so does what a request read of it: a row
\* that is renewed in place keeps its application.
PairsOfOneClient ==
  \A k \in Pks : AccessToken[k] # Absent /\ Exists(k)
    => AccessToken[k].application = RefreshToken[k].application

RenewsItsOwn(p) ==
  LET a == request[p].seen IN
  pc[p] \in {"validated", "saving"} /\ a # Null =>
    /\ Used(a)
    /\ AccessToken[a] # Absent => AccessToken[a].application = request[p].client

ClientsAgree == PairsOfOneClient /\ \A p \in Workers : RenewsItsOwn(p)

\* What the user had and still has is in the lists: a pair is never given to another
\* user or application, and no key is used twice. Between the two lists it is the
\* query of the second that finds the access tokens left.
ListsComplete ==
  logout.step \in {"listed", "deleting"} => \A k \in logout.had :
    /\ Used(k)
    /\ AccessToken[k] # Absent =>
         IF logout.step = "listed" THEN k \in TokensOf(logout.user)
                                   ELSE k \in logout.access_tokens
    /\ Live(k) => k \in logout.refresh_tokens

\* What clear_expired found of the row k when it read its key, as far as it still
\* holds when the row is deleted.
Deletes(k) ==
  CASE cleaner.stage = "revoked" -> ~Live(k)
    [] cleaner.stage = "expired" -> \/ expires[k] + REFRESH_TOKEN_EXPIRE_SECONDS < now
                                    \/ Renewed(k)
    [] cleaner.stage = "access"  -> /\ AccessToken[k] # Absent => ~Exists(k)
                                    /\ expires[k] < now \/ Renewed(k)
    [] cleaner.stage = "id"      -> AccessToken[k] = Absent
    [] OTHER                     -> FALSE

IdsStillMatch == \A k \in cleaner.ids : Used(k) /\ Deletes(k)

RowsTyped ==
  /\ owner \in [Pks -> Users \cup {Anonymous}]
  /\ expires \in [Pks -> 0..(MaxTime + ACCESS_TOKEN_EXPIRE_SECONDS)]
  /\ IDToken \in [Pks -> IDTokenRow \cup {Null}]
  /\ \A k \in Pks : ~Used(k) => IDToken[k] = Null

LogoutSound ==
  /\ logout \in LogoutRequest
  /\ logout.refresh_tokens \subseteq logout.had
  /\ ListsComplete

CleanerSound ==
  /\ cleaner \in CleanerRun
  /\ cleaner.at <= now
  /\ IdsStillMatch

RemovalInv == Inv /\ ClientsAgree /\ RowsTyped /\ LogoutSound /\ CleanerSound
=============================================================================
