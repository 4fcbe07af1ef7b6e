# Django OAuth Toolkit in TLA+

Specifications, model checking and proofs of the parts of Django OAuth Toolkit
(`oauth2_provider/`) that keep state: the tables of tokens, codes and device
grants, and the views and validator methods that read and write them while
several web workers run at once.

Contents: [inventory](#inventory), [how the code runs](#how-the-code-runs),
[modules](#modules), [runs](#runs), [divergences](#divergences),
[proofs](#proofs), [not modelled](#not-modelled), [plan](#plan).

## Inventory

Paths are relative to the repository. "Rows" are rows of the Django models.

| Component | State | Operations | Hard behaviour | What makes it correct |
|---|---|---|---|---|
| **refresh_token grant** `oauth2_validators.py` (`validate_refresh_token`, `get_original_scopes`, `_save_bearer_token`), `models.py` (`revoke`) | `AccessToken`, `RefreshToken` rows: pairing, source, family, time of revocation | validate, detect reuse, rotate, refresh in place, replay in the grace period | concurrent requests with one token; the row validated is stale when it is locked; the family is revoked row by row; retries after a lost answer | at most one access token comes of a refresh token, old and new are never both live, a reuse ends the family, scopes never widen |
| **authorization_code grant** `views/base.py` (`AuthorizationView`), `oauth2_validators.py` (`validate_code`, `confirm_redirect_uri`, `invalidate_authorization_code`, PKCE) | `Grant`, token rows | consent, automatic approval, skipped approval, exchange, consumption | three lookups, then a commit of the tokens, then a delete: exchanges at once, expiry and clean-up in between, crashes | one client is answered per code; tokens match the grant, its challenge and its redirect URI; nothing beyond consent |
| **device authorization grant** `views/device.py`, `views/base.py` (`device_flow_token_response`), `utils.py` | `DeviceGrant` rows: user, status, expiry, user code | start, enter the code, confirm or deny, poll | each view saves a column of a row it read earlier; polls race decisions and expiry; user codes may collide | tokens only of an accepted grant, to a user who entered its code; a decision is final; a bound device is served |
| **token revocation endpoint**, **authorized token views** `views/base.py`, `views/token.py`, `oauth2_validators.py` (`revoke_token`) | token rows | revoke, delete | races with refreshes | a revocation reaches the access token and is never taken back |
| **clean-up** `models.py` (`clear_expired`), `management/commands/cleartokens.py` | every table | four stages of batched deletes | rows listed by key, deleted later; the tables change in between | nothing valid goes; the pairing of the tables stays |
| **RP-initiated logout** `views/oidc.py` | sessions, token and ID token rows | page, form, logout with deletion of tokens | lists read first, then rows deleted one by one in commits of their own; the session may change while the form is shown | no pair the user had outlives the logout; nobody's tokens go behind a logged in user's back |
| **OpenID Connect documents** `views/oidc.py`, `oauth2_validators.py` | ID token rows | discovery, JWKS, user info, ID tokens | | documents of the right content |
| **resource access and introspection** `oauth2_validators.py` (`validate_bearer_token`, `_get_token_from_authentication_server`), `views/introspect.py`, mixins, `decorators.py`, `middleware.py`, `contrib/rest_framework/` | a local copy of introspected tokens; the scope list of a decorated view | check a bearer token, ask the authorization server, cache, check permission | the copy outlives a revocation; its expiry goes through up to three time zones; the row is checked in two or three places at different times; a list shared by requests | access only for the scopes issued, not after the expiry nor, after a revocation, beyond the caching time, but for what the zones differ |
| **client authentication, applications** `oauth2_validators.py` (`authenticate_client`, `_load_application`), `models.py` (`Application`), `views/application.py` | `Application` rows, `request.client` | register, edit, authenticate by header, body or name | the client kept from an earlier call; secrets hashed at each save; edits during a request | a client is taken for who it proved to be, and its own secret does |
| **redirect URIs and origins** `models.py` (`redirect_to_uri_allowed`, `is_origin_allowed`), `validators.py`, `http.py` | none | validate a registration, compare, redirect | loopback ports, wildcards, hosts with a last dot, the registration edited between page and form | answers go to registered URIs, a wildcard stays in its domain |
| **scopes backend, settings, oauthlib bridge, admin, migrations, forms, urls** | none of their own | conversion, declaration | | |

How they interact. There are no messages inside the program: components meet in the
database. The token endpoint of every grant ends in `_save_bearer_token`, which creates
the row that the refresh token grant starts from (`IssueTokens`). The authorization
endpoint looks at the access tokens the code exchange and the refresh leave behind
(`AutoApprove`). Revocation, the token views, logout and `clear_expired` delete rows
under requests in progress. After a success `TokenView` reads the new access token again
by checksum for the `app_authorized` signal (`SendSignal`), so a deletion in between
turns a committed success into an error. A resource server may be another deployment of
the same program; it meets the authorization server at `IntrospectTokenView` only.
oauthlib drives the validator; it is external, and modelled by the order in which it
calls the validator's methods.

`PROJECT.json` lists the hazards of the code, each at its line, with the
properties that cover it.

## How the code runs

- Web workers (threads or processes) serve requests at the same time; nothing in
  process memory is shared, but for the scope list of a view under
  `rw_protected_resource`. `Workers`, `Browsers` and `Pollers` are these.
- The database is at READ COMMITTED, in autocommit outside `transaction.atomic()`
  (`ATOMIC_REQUESTS` is off by default). One statement, or one atomic block that
  takes its lock first, is one action. `_save_bearer_token` reads under a row lock
  and writes at its commit: this is two actions, with `Locked` in between, because
  a reuse detection or a clean-up may be queued behind the lock.
- `select_for_update` on the refresh token row is taken as effective. Where it is
  not (SQLite ignores it) writers are serialized by the database file.
- `revoke()` on a row is one action that needs the row unlocked.
- Time is `timezone.now()`, a counter up to `MaxTime`; steps of a request may see
  different times. Primary keys and token strings come from one counter up to
  `MaxPk` (`MaxTokens`, `MaxGrants`): the code draws strings at random and only
  compares them.

## Modules

**`RefreshTokens`** is the refresh token grant over `AccessToken` and
`RefreshToken`. A request goes `validated` (`Accept`: `validate_refresh_token`
found the row and its access token) → `saving` (`GetOriginalScopes`: scopes
compared) → `rotating` or `replaying` (`LockRefreshToken`: locked, read again) →
`signalling` (`Rotate` or `Replay`: committed) → an answer. Without rotation
`UpdateInPlace` goes from `saving` to `signalling`. A reuse goes to `revoking`, one
`RevokeFamilyMember` for each row that the loop in `validate_refresh_token` read.
Answers are `ok`, `denied` (an OAuth error) and `error` (an exception nothing
catches, a 500). Other writers are the actions `IssueTokens`,
`RevokeRefreshToken`, `DeleteAccessToken`, `CleanRefreshToken`. An initial state is
an empty database or one migrated from before `token_family` existed (migration
0011), whose row has a NULL family. `lineage` and `breached` are history: nothing
but properties reads them. With `Serial = TRUE` the deployment has one request
under way at a time (one synchronous worker).

**`OneTimeTokens`** is what rotation promises a client: chains of tokens, each good
for one refresh, ended for good by a revocation or a reuse.
**`RefreshRefinement`** maps `RefreshTokens` to it: a token is live while its row is
unrevoked and its family is not breached. The row by row revocation of the code is
then the one step `EndChain`.

Theorems about a module `M` are in `MProofs`, which extends it; those about the chains
and the refinement of `RefreshTokens` are in **`RefreshChainProofs`** and
**`RefreshRefinementProofs`**, built on **`RefreshTokensProofs`**. The inductive
invariants they prove are the last section of the module itself, where TLC can check
them too. See [below](#proofs).

**`AuthorizationCode`** is the authorization endpoint (`Authorize` is `form_valid`,
`SkipApproval` and `AutoApprove` the two ways `get` issues a code without the form)
and the exchange: `ValidateCode`, `CheckChallenge`, `ConfirmRedirectUri` (the three
lookups), `SaveTokens` (commit), `InvalidateCode` (delete, and
`InvalidGrantError` if nothing was deleted), `SendSignal`. `Crash` may come between
any two. `consent`, `authorized`, `committed` and `answered` are history.

**`DeviceFlow`** is the device grant. Views that read a row and save a column of it
later are pairs of actions: `EnterCode` then `BindUser` or `MarkExpired`;
`Confirm` then `Accept` or `Deny`, where the URL names the client and the user code and
`Pending` looks for a grant with both; a poll is `PollAuthorized`, `ReadUser` (the
`OAUTH_PRE_TOKEN_VALIDATION` hook of the tutorial, `utils.py`, which reads the row
again) and `SaveToken` or `SaveTokenFails` (a refresh token needs a user).
`entered`, `accepted` and `denied` are history.

**`TokenRemoval`** extends `RefreshTokens` with what removes tokens for a reason: its
rows get a user, an expiry and an ID token. The logout goes `prompting`
(`RequestLogout`, where `MustPrompt` says so) → `listing` (`SubmitForm`; "confirmed" is
a listing the user allowed) → `listed` (`ListRefreshTokens`, the `list(...)` of
`do_logout`) → `deleting` (`ListAccessTokens`, the loop's query) → `DeleteListed` and
`RevokeListed` row by row → `EndLogout`. `DeleteListedFails` is the `DoesNotExist` that
nothing catches. `SwitchSession` is a login or logout in another tab while the form is
shown. `clear_expired` is `StartCleaning`, then for each of its stages `ListBatch` (a
batch of identifiers in no particular order), `DeleteRow` and `NextStage`. Without
rotation `RenewPair` moves the expiry of a row that keeps its key. Its batch is deleted
row by row, where the code commits it at once: more interleavings than there are, so
what holds here holds there. The ID token is made together with its pair, where the code
commits it a moment earlier (`finalize_id_token`). `had` is history. Every step is a
step of `RefreshTokens` on its variables (`ImplementsRefreshTokens`), so what is proved
of `RefreshTokens` holds here too.

**`ProtectedResource`** is a resource server and the authorization server it asks. A
request goes `loading` (`EnterView`) → `checking` if the cached row will do
(`LoadAccessToken`), or `asking` → `answered` (`AnswerActive` or `AnswerNone`) →
`checking` (`CacheAnswer`, the `update_or_create`, or `TakeNoAnswer`) → an answer
(`Verify`), or `permitting` where a permission class of Django REST framework looks
at the row once more (`HasPermission`). `Kind` says what guards a view: two
decorators, two mixins, five permission classes, the middleware. Tokens are
strings: a refresh makes another one, so a token's scope and expiry at the
authorization server never change. `now` is an instant. An expiry goes through zones
on its way: the authorization server tells the digits of its own clock (`Told`), the
resource server takes them for those of `AUTHENTICATION_SERVER_EXP_TIME_ZONE`
(`Instant`), caps them by the caching time and, without `USE_TZ`, keeps the digits
(`CachedRow`), which it then compares with its own local clock (`LocalNow`). An answer
need not have an exp (`Dated`). `Issued` keeps what was issued, `gone` when it was
revoked or last confirmed by an answer that had been given before that.
`appended` is the list of `rw_protected_resource`. A 403 of a mixin has no reason in
it; "invalid" and "insufficient" are those of `oauth2_error`.

**`RedirectURIs`** has `AllowedURIValidator`, `redirect_to_uri_allowed` and
`is_origin_allowed` as operators. A host is the sequence of its tokens (wildcard,
dot, hyphen, pieces of labels), so that `*-app.example.org` and the suffix test
are what they are in the code; lower case. A host may end with a dot, and then has the
empty label that `split(".")` makes of it.

**`ClientRequests`** extends it with the requests that need an application, followed one
at a time: requests share nothing but the rows of applications, which only
`SaveApplication` changes, and it may come between any two steps of a request up to
`MaxEdits` times. Token requests go through `RequireAuthentication`,
`AuthenticateBasic`, `AuthenticateBody`, `AuthenticateClientId` in the order oauthlib
calls the validator, with `client` for `request.client`; then `ValidateGrantType`.
Authorization requests go `ValidateRequest` → `LoadForm` → `Allow` or `Deny` →
`CreateResponse` (which validates everything again) → `SendRedirect`. Logout requests go
through `ValidateLogout` for the page and again for the form. "crashed" is the assertion
of `default_redirect_uri`. `secret_text` (the secret last typed in) and `seen` (the rows
a client had during the request) are history; `Close` only clears the request that was
answered. `Blank` is the empty secret: a client may be given it, and a request without a
secret presents it (`getattr(request, "client_secret", "") or ""`). The user is logged
in at the authorization endpoint.

**`MCRefreshTokens`, `MCAuthorizationCode`, `MCDeviceFlow`, `MCTokenRemoval`,
`MCProtectedResource`, `MCClientRequests`** name the small instances and the symmetry
sets. Operators marked "Mutant of X" in the modules are plausible mistakes in X; no
specification uses them. Each checked property is known to fail when one of them
takes the place of X, so none holds by the shape of the model.

Composition. `TokenRemoval` is `RefreshTokens` with two more actors, and
`ClientRequests` is `RedirectURIs` with its callers. The others are not composed:
what a code or device exchange adds to the token tables is exactly `IssueTokens`, and
what they need of those tables is that rows may go at any time (`DropToken`). What
a grant does once `ClientRequests` has accepted the client is in the modules of the
grants; how a token comes to be issued or revoked is of no matter to
`ProtectedResource`.

## Runs

All bounds are constants of the modules. Deadlock is checked in `client_requests`
only: elsewhere the clock and the keys run out and the system stops.

| Run | Instance | Shows |
|---|---|---|
| `refresh_rotation` | 2 workers, 2 applications, 3 pairs, 3 times, rotation, reuse protection, grace 1, clean-up after 1 | under every interleaving of refresh, replay, reuse, revocation and clean-up: one access token per refresh token (`OneRefreshPerToken`), no old and new token live together (`SourceConsumed`), no access token outlives the revocation of its refresh token (`RevokedKillsAccessToken`), families are exactly chains (`FamilyIsOneChain`), revocation times never move (`RevocationIsFinal`) |
| `refresh_in_place` | 2 workers, 2 scopes, 3 pairs, no rotation, grace 1 | the same tables when the access token is updated in place, and that narrowing, replaying and deleting never widen a scope (`ScopeNeverWidens`), although `get_original_scopes` looks at whatever access token is left |
| `refresh_serial` | one request at a time, grace 0 | the endpoint implements `OneTimeTokens`; a detected reuse leaves nothing live in its family (`ReuseEndsFamily`) |
| `refresh_answers` | 2 workers, 3 pairs, grace 0, fairness | every request ends (`EveryRequestAnswered`), every family member found at a reuse ends revoked or removed (`FamilyIsRevoked`) |
| `code_exchange` | 2 workers, 2 users, 2 applications (one skips authorization), 1 scope, 2 URIs, 1 verifier or none, 2 codes, 2 pairs, 3 times, codes good for 1, PKCE required | at most one client is answered per code (`AnsweredOnce`), tokens match the grant (`TokensMatchGrant`), its challenge and URI (`CodeBoundToRequest`), a crash before the commit does not use the code up (`ConsumedMeansIssued`), automatic approval stays within what the user allowed that application (`ScopeWithinConsent`) |
| `device_races` | 2 browsers, 1 device, 2 users, 3 times, fairness | tokens only after acceptance (`TokensNeedAcceptance`), a decided or expired grant is never pending again (`NeverPendingAgain`), a device with a bound, authorized grant is served (`BoundIsServed`) |
| `device_codes` | one request at a time, 2 grants, 2 user codes | one decision per grant (`OneDecision`); a token's user entered the code of that device though two devices show the same one (`TokenUserEnteredCode`) |
| `token_removal` | 1 worker, 1 application, 2 users, 2 pairs with or without ID token, no rotation, 4 times, tokens good for 1, clean-up 1 after that, batches of 2 | no pair the user had when the lists were begun is left when a logout has ended (`LogoutEndsPairs`); who is logged in is asked unless the hint is his own ID token (`AskedBeforeLogout`); clean-up takes nothing valid and no half of a pair, but for what is renewed in place after it began (`CleanerSparesValid`); all of it is `RefreshTokens` (`ImplementsRefreshTokens`) |
| `resource_access` | 2 workers, 1 token and the one of the resource server, 10 views, 3 times, caching time 1, `USE_TZ`, the exp of one told in the zone of the setting, none of the other | access only for scopes the token was issued for (`GrantsAreCovered`), before it expires (`NeverAfterExpiry`), less than the caching time after a revocation or the last answer given before it (`RevocationReachesCache`); who is told "insufficient_scope" lacks one (`RefusedForOwnScopes`, all views but those of `rw_protected_resource`) |
| `client_requests` | 2 applications, one with 11 registrations to be edited between and 2 secrets, one of them blank, 16 URIs, 2 edits during a request, wildcards allowed | a request is granted to a client that proved itself in one and the same part of it (`AcceptedByOwnSecret`); the secret last typed in is accepted however often the form was saved (`OwnSecretSuffices`); codes, errors and logouts leave for URIs registered since the consent, the page or the form (`SentOnlyToRegistered`); wildcards stay in their domain, unless they stand right under a last dot (`WildcardStaysInDomain`) |

Why the bounds are enough for the cases. Races here are between two requests on
one row: two workers suffice, and a third only repeats the second. Three pairs hold
a chain of three (issued, refreshed, refreshed again), which is what the family and
a replay after a refresh need, and a chain of two beside another chain. Three times
with a grace period of 1 hold a moment before, at and after its end and, with
clean-up after 1, a removal after that. One code is enough for
everything that happens to one exchange since exchanges of different codes share
no row; consent needs two, the first to leave a token for the second (the first
exchanged or not), and two users and applications to keep apart. Two grants
and two codes hold both the shared and the distinct user code. `KeyLeft` begins a
request only when a key is left for each one under way, so a request is never stuck
on a bound of the model and liveness is not weakened by it.

A logout and a run of clean-up meet refreshes, replays and deletions of two pairs: one
that is listed and one that comes of it, or two of one user, or one each of two users.
They do not overlap each other in the runs (`Overlap = FALSE`): both only remove, and
with `Overlap` the state space is out of reach; a logout meets removals of every row at
any time all the same (`RevokePair`, `DeleteAccess`, `DeleteIDToken`). Batches of 2 hold
a stage in one batch and, over the steps of the clock, in several. `token_removal` has
no rotation since that is the harder case: rows are renewed under a logout and a
clean-up that listed them. Pairs are rotated in it all the same, where the access token
is gone (`RotatePair`), and its theorems hold with rotation too. Three times around a
caching time of 1 hold a cached row before, at and after its end, with a token that
lives longer and one that does not; one worker meets every guard, the other keeps
appending to a decorated view (`Serves`), both ask and cache the same token. The token
of the resource server is presented at one view, and is told without exp. `Grants` has a
reading and a writing token. An exp is told one unit of the clock ahead of UTC, which is
as long as the caching time: a conversion left out is already too late. The sixteen URIs
of `client_requests` have each kind of difference (sibling host, other domain, other
path, other port, wildcard at the third, second and middle label, with a last dot and
without); `TypedSecrets` and `Forms` bound what a developer fills in. Two edits allow a
registration to be changed and changed back within a request.

Symmetry is used in safety runs only, over workers, browsers, users, applications,
codes and URIs that nothing tells apart (not over applications where one skips
authorization). `View` in `code_exchange` identifies states that differ in the last
answer of an idle worker, which no action and no property looks at.

Fairness. A request that has begun goes on (`WF` on `Proceed`, `Respond`,
`Finish`): the worker runs, and the statements of these steps do not wait for a
lock. Waiting for a row lock is `Acquire`, under `SF`: the lock is given back and
taken by others meanwhile, but the database queues those who wait. A device polls
until it is answered, which is its side of the protocol
(`docs/tutorial/tutorial_06.rst`, "Device polling"), and may find the grant
authorized between other changes: `SF` on `PollAuthorized`. No fairness is assumed
of users, of clean-up, of the clock or of clients starting requests, and none in
`TokenRemoval`, `ProtectedResource` and `ClientRequests`: a logout may stop at any row
(`DeleteListedFails` ends it for good), an authorization server may never answer.

## Divergences

Two runs check a statement of the documentation that the code does not keep, and end
in a counterexample.

- `reuse`: a request accepted before a reuse was detected finds its row revoked when
  it has the lock; `revoke()` returns silently, and a live pair of the family is
  created after the family was revoked (`docs/settings.rst:204-207`).
- `shared_scopes`: `rw_protected_resource` appends the scope of each request's method
  to the list that all requests of the view share, so that after a POST a GET needs
  the write scope too (`decorators.py:72-74` against the docstring at 46).

The models show more, which no run states as a property. Three of these are exceptions
that a property and its theorem make and name:

- with `USE_TZ` off, the expiry of a cached row is stored with the digits of UTC
  (`oauth2_validators.py:453`) and compared with naive local time (`models.py:446`). In a
  zone behind UTC a cached row stays good for the hours of the offset after its expiry and
  after the caching time (`docs/settings.rst:290`, "The number of seconds an authorization
  token received from the introspection endpoint remains valid"); in a zone ahead of UTC by
  more than the caching time each row has expired when it is stored, and every request is
  refused. `docs/settings.rst:507-509` supports `USE_TZ = False`; the tests that turn it off
  do so in UTC. `NeverAfterExpiry` and `RevocationReachesCache` have the offsets in them
  (`ExpDelay`, `CapDelay`, `ClockDelay`), which are 0 with `USE_TZ` and a setting that names
  the zone of the exp;
- without rotation, `clear_expired` lists a refresh token whose access token has long
  expired, a refresh renews the access token in place, and the refresh token is deleted by
  the identifier read before (`models.py:823` against `docs/management_commands.rst:12-13`,
  "whose lifetime is greater than the amount specified"): `Renewed` in `CleanerSparesValid`;
- `*.org.` has three labels for `clean()`, the last an empty one, and a code leaves for any
  host that ends in `.org.` (`validators.py:81`, `100` against `docs/settings.rst:73-74`, a
  wildcard "cannot be in the top or second level domain"): `WildcardUnderRoot` in
  `WildcardStaysInDomain`.

The others are behaviour that no property speaks of:

- `https://*.sub.example.com` "is not allowed" (`docs/settings.rst:79`), but the code has no
  upper limit of labels, its test wants such a wildcard accepted
  (`tests/test_validators.py:180`), and so does the model; it stays in its domain;
- the pair of a token refreshed before is looked up with `.first().token`; when its
  refresh token row is gone, or has lost its access token, this is an
  `AttributeError` (`ReplayFails`; `oauth2_validators.py:709` against the comment at
  690-692);
- of two exchanges of one code both commit tokens before one deletes the code. The
  other is answered `invalid_grant`, but its pair stays in the tables
  (`rfcs/rfc6749.txt:3112`, "single-use");
- a device grant confirmed at its URL without its code having been entered has no
  user, and each poll of it ends in an `IntegrityError` (`SaveTokenFails`;
  `docs/tutorial/tutorial_06.rst:118`);
- a logout finds refresh tokens by their access tokens: one whose access token was
  deleted before stays live, and so do all tokens of `GRANT_DEVICE_CODE` applications,
  which `token_deletion_grant_types` lacks (`views/oidc.py:228-234`;
  `docs/settings.rst:400-402`, "the tokens of all applications");
- `AUTHENTICATION_SERVER_EXP_TIME_ZONE` moves every exp; where the authorization server does
  not tell its exps in that zone, cached rows end earlier or later by the difference, and
  later than the token by at most that (`ExpDelay`);
- a confidential client whose secret is blank is accepted with its name alone
  (`AcceptedByOwnSecret` counts the blank secret as its own);
- `is_origin_allowed` compares origins as they are, so that a wildcard among the
  `allowed_origins`, which `clean` accepts and `docs/settings.rst:67` announces,
  admits nothing but itself;
- `default_redirect_uri` may be the pattern with the wildcard itself, and
  `post_logout_redirect_uris` are not validated by `clean` at all;
- a denial is sent to the URI in the form, whatever became of the registration since
  (which is why `SentOnlyToRegistered` speaks of the time since the page);
- once the access token that came of a refresh token is deleted, the refresh token
  counts as unused and is exchanged a second time in the grace period;
- without rotation, a refresh whose access token is gone leaves two rows with one
  string; `first()` finds the revoked one, and the live row becomes unreachable when
  the grace period ends;
- with two browsers, an acceptance may follow a denial (`OneDecision` holds only
  where requests are served one at a time), and the user who accepts need not be the
  one who entered the code;
- only entering the code looks at a device grant's expiry: an authorized grant is
  redeemed at any later time.

## Proofs

Eight modules hold theorems; `tlapm M.tla` checks each of them.

| Module | Theorem | States |
|---|---|---|
| `RefreshTokensProofs` | `Invariance` | `Spec => []Inv` |
| | `TypeCorrect` | `Spec => []TypeOK` |
| | `RefreshedOnce` | `Spec => []OneRefreshPerToken` |
| | `RefreshConsumes` | `Spec => []SourceConsumed` |
| | `RevocationReachesAccessToken` | `Spec => []RevokedKillsAccessToken` |
| | `RevocationFinal` | `Spec => RevocationIsFinal` |
| `RefreshChainProofs` | `ChainInvariance` | `Spec => []ChainInv` |
| | `FamiliesAreChains` | `Spec => []FamilyIsOneChain` |
| | `ScopesStayGranted` | `Spec => []ScopeNeverWidens` |
| `RefreshRefinementProofs` | `AllInvariance` | `Spec => []AllInv`, if `OneByOne` |
| | `ReuseIsFinal` | `Spec => []ReuseEndsFamily`, if `OneByOne` |
| | `OneTimeTokensImplemented` | `Spec => ImplementsOneTimeTokens`, if `OneByOne` |
| `AuthorizationCodeProofs` | `Invariance`, `TypeCorrect` | `Spec => []Inv`, `Spec => []TypeOK` |
| | `AnsweredAtMostOnce` | `Spec => []AnsweredOnce` |
| | `TokensAreOfTheirGrant` | `Spec => []TokensMatchGrant` |
| | `CodesAreBound` | `Spec => []CodeBoundToRequest` |
| | `ConsentIsRespected` | `Spec => []ScopeWithinConsent` |
| | `ConsumedOnlyWhenIssued` | `Spec => ConsumedMeansIssued` |
| `DeviceFlowProofs` | `Invariance`, `TypeCorrect` | `Spec => []Inv`, `Spec => []TypeOK` |
| | `TokensAccepted` | `Spec => []TokensNeedAcceptance` |
| | `TokensOfWhoEntered` | `Spec => []TokenUserEnteredCode` |
| | `DecisionsStand` | `Spec => NeverPendingAgain` |
| | `DecidedOnceOnly` | `Spec => []OneDecision`, if `Serial` |
| `ProtectedResourceProofs` | `Invariance`, `TypeCorrect` | `Spec => []Inv`, `Spec => []TypeOK` |
| | `GrantsCovered` | `Spec => GrantsAreCovered` |
| | `NothingAfterExpiry` | `Spec => NeverAfterExpiry` |
| | `RevocationIsSeen` | `Spec => RevocationReachesCache` |
| | `CachedInTime` | `Spec => ValidWhileCached` (the caching time alone), if `USE_TZ` |
| | `RefusedForOwn` | `Spec => RefusedForOwnScopes` |
| `TokenRemovalProofs` | `RemovalInvariance`, `RemovalTypeCorrect` | `RemovalSpec => []RemovalInv`, `RemovalSpec => []RemovalTypeOK` |
| | `RemovalIsRefreshTokens` | `RemovalSpec => ImplementsRefreshTokens` |
| | `LogoutIsComplete` | `RemovalSpec => LogoutEndsPairs` |
| | `LogoutIsAskedFor` | `RemovalSpec => AskedBeforeLogout` |
| | `CleaningSparesValid` | `RemovalSpec => CleanerSparesValid` |
| `ClientRequestsProofs` | `Invariance`, `TypeCorrect` | `Spec => []Inv`, `Spec => []TypeOK` |
| | `AcceptedOnOwnSecret` | `Spec => []AcceptedByOwnSecret` |
| | `OwnSecretIsEnough` | `Spec => []OwnSecretSuffices` |
| | `AnswersGoToRegistered` | `Spec => []SentOnlyToRegistered` |
| | `WildcardsStay` | `Spec => []WildcardStaysInDomain` |

That is every invariant and every action property the passing runs check, and both
refinements, for all values of the constants: any number of workers, browsers,
devices, users, applications, scopes and URIs, any bounds on keys and time, any
periods and time zones, and the settings switched either way.

### What the theorems assume

Each module names what it assumes of its constants, and TLC evaluates it on every run.

- `ConstantsAssumption`: numbers are numbers, switches are Booleans, tables have the
  rows they are meant to have. `Workers` is finite in `RefreshTokens`, which only
  `Cardinality` in `KeyLeft` needs.
- `AbsentAssumption`: the marker of a missing row or request is none of these.
- `RemovalAssumption`: types and numbers only. `ROTATE_REFRESH_TOKEN` may be either, and so
  may `Overlap`, where the runs have `FALSE`: a logout and a clean-up under way together
  are proved about, and not only checked one at a time.
- `ClientRequests`: a secret in clear text does not look like a hash.
  `ClientSecretField.pre_save` recognises a hash by its form (`identify_hasher`) and
  stores what looks like one as it is; for such a secret `OwnSecretSuffices` is false.
- `URIsAssumption`: a host is a finite sequence of tokens, a query a finite set.

Five theorems have a hypothesis more, which is part of their statement, and are false
without it. `OneByOne` is `Serial` with a grace period of 0: with two requests at once the
run `reuse` has the counterexample, and in a grace period a token is good for several
refreshes, as it is meant to be. `OneDecision` needs `Serial`: a browser may accept what
another one, that read the row before, denies. `CachedInTime` needs `USE_TZ`; without it
`RevocationIsSeen` holds, with the difference of the zones in it.

### The inductive invariants

No property is inductive by itself. The last sections of each module state the
invariant that is; each of its parts is there because a step would break the
property without it. Each was model-checked on the bounds of a run of its module before it
was proved.

*`RefreshTokens`, `Inv`.* That two access tokens never name one source needs that
`Rotate` finds the token unused, which was read at `LockRefreshToken`, an action
earlier; so every request in `rotating` has a row that exists and is still unused
(`RequestsSound`), and no other request holds it (`LockIsExclusive`): this is where the
row lock is used. That the new key has no row is `FreshKeys`. `SourceConsumed` speaks
of the row `Rotate` has revoked, or found revoked; a row found live cannot come back,
and clean-up of a row clears the source that names it. `RevokedKillsAccessToken`
needs `Pairing`: a refresh token has the access token it was created with for as long
as this exists, and is then live.

*`ChainInv`.* A family is named for the first pair of its chain (`FamilyNamesOrigin`),
which no key drawn later can be, and all rows of one origin agree on it
(`ChainsAgree`), so that the row `Rotate` makes joins its own chain and no other. That
scopes never widen needs that what `get_original_scopes` finds by source belongs to the
same chain (`SourceInChain`), and that what a request was allowed to ask for stays
within its chain although the row may be gone when it is saved (`KnowsChain`).

*`ReuseInv`.* Rows of a breached family that are live are still to be revoked by the
request that found the reuse (`BreachesListed`), and the request under way holds a live
row of a family that is whole (`HeldAreLive`). Both need `OneAtATime`.
`AllInv` is `Inv`, `ChainInv` and `ReuseInv` together. The refinement of
`OneTimeTokens` then maps step by step: `IssueTokens` is `Issue`, `Rotate` is `Refresh`,
`DetectReuse` is `EndChain`, a revocation or the removal of a live row is `Revoke`; the
others leave what is live alone, `UpdateInPlace` too, which draws no new refresh token. The
revocations of a reuse row by row are stutters, for the chain ended with its detection.

*`AuthorizationCode`.* What an exchange knows after each of the three lookups was true
of the grant at its creation (`ExchangeSound`), and a grant is never edited
(`GrantsKept`), so the row may go or be read anew in between. Who deleted the row is
the only one to answer for its code (`DeletedOnce`), which is the whole reason for
`AnsweredOnce`. `ConsentCovers` makes the automatic approval sound: the access tokens
it looks at have a scope that was consented to.

*`DeviceFlow`.* A row that is authorized was accepted by someone, and a user it is
bound to entered its code, also while a view holds values it read before. For
`DecidedOnceOnly` the view that decides still finds the row pending.
`NeverPendingAgain` follows from no view writing that status.

*`ProtectedResource`.* `RowSound` is said of each copy of a row: in the cache, with a
request that checks it, and implied for an answer on its way. Such a copy has the scope
of the token as issued, ends no later than that, and no later than the caching time
after now or, for a token that is gone, after `gone`, each read with the delay its zones
make (`ExpDelay`, `CapDelay`); `ClockDelay` is that of the clock it is compared with.
`CacheAnswer` moves `gone` for an answer that was given before the revocation, which is
what `RevocationReachesCache` counts from.

*`TokenRemoval`.* What the user had at the listing and still has is in the lists
(`ListsComplete`): a refresh of a listed pair in between makes a pair that is not of
`had`, and a pair never changes its user. The clean-up's identifiers still have what
they were listed for (`IdsStillMatch`), since no step makes a revoked row valid, nor an
expired one but by renewing it in place (`Renewed`, which has an expiry that no row had
when clean-up began); an access token that was listed without a refresh token gets none.
A row that is renewed in place keeps its application (`ClientsAgree`), so that a logout
still finds it in its lists. Each step is then shown to be a step of `RefreshTokens` or
a stutter, by which the theorems about `RefreshTokens` hold here.

*`ClientRequests`.* Each row that was seen was cleaned and holds its secret, hashed at
most once (`RowsSound`); `client` is such a row (`ClientWasSeen`), so is what admitted
`target` (`TargetWasRegistered`). `WayToStep` remembers what brought a request to a
step: by name alone comes only who presented nothing. For `WildcardsStay`, lemma
`WildcardKeepsDomain` shows of hosts of any length that one with the suffix of a
wildcard with two dots at least (`WildcardAllowed`) has the same last two labels, with a
last dot or without, but for `WildcardUnderRoot`: `IsSuffix` is characterised by indices
first (`SuffixIs`), then the last two dots of the one are the last two of the other,
moved (`LastTwo`, `LastButOne`).

### Only model-checked

- `EveryRequestAnswered`, `FamilyIsRevoked`, `BoundIsServed`: liveness, for which the
  prover has no rules of fairness.
- The two counterexamples ([Divergences](#divergences)).
- The assumptions on constants, which are checked for the values of each run.

## Not modelled

- *The tokens of hybrid and implicit responses, `prompt=login` and `prompt=none`, a
  user who is not logged in*: the first are pairs as others are, the rest is
  redirects to a login page.
- *Discovery, JWKS, user info, claims, signatures of ID tokens*: documents and
  cryptography without state. An ID token hint is known by its row.
- *Users in `RefreshTokens`*: copied from row to row and never compared; they are in
  `TokenRemoval`.
- *How `revoke_token` finds a row* by hint and string: its effect on the row is
  `RevokeRefreshToken` or `DeleteAccessToken`.
- *Scopes, the status page and the polling client of the device grant*. (The code
  does not answer `slow_down`: `views/base.py:333`.)
- *Deleting an application or a user*: cascades over every table.
- *`validate_user` of the password grant*: what Django's `authenticate` answers.
- *Hashing as such, random generators, templates, settings lookup, admin, forms, URL
  tables, conversions of the oauthlib bridge*: data or declarations without state.
- *Zones with summer time*: a zone is a fixed offset. The authorization server stores and
  reads its own expiries in one zone.

## Plan

Done, in this order: `RefreshTokens`, `OneTimeTokens`, `RefreshRefinement`,
`RefreshTokensProofs`, `AuthorizationCode`, `DeviceFlow`, `ProtectedResource`,
`TokenRemoval`, `RedirectURIs`, `ClientRequests`; then the theorems about each of them,
until none of the invariants and action properties was without one.

Next theorems, most important first:

1. What of `OneTimeTokens` holds without `OneByOne`: with several requests and a
   grace period a live token of a breached family is at most what requests under way
   held at the detection. This is a property to state and check first.
2. Towards liveness: that every step of a request in progress leads nearer to its answer, as
   action properties with a measure on `pc` (and on `todo` for a reuse), so that only
   fairness is left to TLC.
3. The theorems of `RefreshTokens` stated for `RemovalSpec`, and the rows of clients of
   `ClientRequests` beside them.

Next in the models: the lookup of `revoke_token` over two rows of one string, the
scopes and the polling client of the device grant.
