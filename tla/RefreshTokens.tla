--------------------------- MODULE RefreshTokens ---------------------------
(***************************************************************************)
(* Refreshing and revoking tokens: the refresh_token grant of the token    *)
(* endpoint as OAuth2Validator runs it (oauth2_validators.py), over the    *)
(* rows of AccessToken and RefreshToken (models.py).                       *)
(*                                                                         *)
(* Web workers serve requests concurrently on a database at READ           *)
(* COMMITTED with autocommit (ATOMIC_REQUESTS is off by default).  A       *)
(* request is split where it reads or commits: validate_refresh_token,     *)
(* get_original_scopes, the row lock of _save_bearer_token, the commit of  *)
(* save_bearer_token, and the read of the view that sends app_authorized.  *)
(* Everything between two such points is one action.                       *)
(*                                                                         *)
(* Primary keys and token strings are drawn from one counter here: an      *)
(* access token and the refresh token created with it get the same key,    *)
(* and a fresh string is the number it was drawn with.  The code draws     *)
(* keys from sequences and strings at random, and only tells them apart.   *)
(* Users, expiry of access tokens and ID tokens are left out.              *)
(***************************************************************************)
EXTENDS Naturals, FiniteSets

CONSTANTS
  Workers,         \* the threads or processes that serve requests
  Clients,         \* applications
  Scopes,          \* scope names
  Absent,          \* a primary key that has no row
  ROTATE_REFRESH_TOKEN,
  REFRESH_TOKEN_REUSE_PROTECTION,
  REFRESH_TOKEN_GRACE_PERIOD_SECONDS,
  REFRESH_TOKEN_EXPIRE_SECONDS,   \* 0 stands for None
  MaxPk,           \* bound: token pairs and strings ever created
  MaxTime,         \* bound: clock readings
  Serial           \* TRUE: a deployment that serves one request at a time

Null == 0                          \* SQL NULL, in every nullable column
Pks  == 1..MaxPk
Ref  == 0..MaxPk                   \* a nullable foreign key
Time == 1..MaxTime

ASSUME ConstantsAssumption ==
  /\ IsFiniteSet(Workers)
  /\ MaxPk \in Nat
  /\ MaxTime \in Nat \ {0}
  /\ REFRESH_TOKEN_GRACE_PERIOD_SECONDS \in Nat
  /\ REFRESH_TOKEN_EXPIRE_SECONDS \in Nat
  /\ ROTATE_REFRESH_TOKEN \in BOOLEAN
  /\ REFRESH_TOKEN_REUSE_PROTECTION \in BOOLEAN
  /\ Serial \in BOOLEAN

\* A row of AbstractAccessToken. Refreshing in place gives it another token.
AccessRow == [token : Pks, application : Clients, scope : SUBSET Scopes,
              source_refresh_token : Ref]

\* A row of AbstractRefreshToken. "token" is the key of the first row
\* that bore the string; a family is named by its first row.
RefreshRow == [token : Pks, application : Clients, access_token : Ref,
               token_family : Ref, revoked : 0..MaxTime]

\* What a worker keeps of the oauthlib Request. rt is the primary key of
\* request.refresh_token_instance, seen the access_token_id that instance was
\* read with, original the scope read with it; todo lists the family rows
\* still to revoke.
Request == [rt : Ref, client : Clients \cup {Absent}, asked : SUBSET Scopes,
            seen : Ref, original : SUBSET Scopes, access : Ref, token : Ref,
            todo : SUBSET Pks]

ASSUME AbsentAssumption == Absent \notin AccessRow \cup RefreshRow \cup Clients

NoRequest == [rt |-> Null, client |-> Absent, asked |-> {}, seen |-> Null,
              original |-> {}, access |-> Null, token |-> Null, todo |-> {}]

Steps   == {"validated", "saving", "rotating", "replaying", "signalling", "revoking"}
Answers == {"idle", "ok", "denied", "error"}   \* waiting, and the last answer

\* History of a pair: the first pair of its chain, the pair it was refreshed
\* from, and the scope the user granted to the chain.
Lineage == [origin : Ref, parent : Ref, granted : SUBSET Scopes]
Unborn  == [origin |-> Null, parent |-> Null, granted |-> {}]

VARIABLES
  now,            \* timezone.now()
  AccessToken,    \* the two tables
  RefreshToken,
  nextPk,
  pc,             \* where each worker is in its request, or its last answer
  request,
  lineage,        \* history
  breached        \* history: families a reuse was detected in

db   == <<AccessToken, RefreshToken, nextPk>>
hist == <<lineage, breached>>
vars == <<now, db, pc, request, hist>>
-----------------------------------------------------------------------------
(* Queries *)

Exists(r) == RefreshToken[r] # Absent

\* Mutant of Live: revoke() selects the row without revoked__isnull=True.
LiveUnfiltered(r) == Exists(r)

Live(r) == Exists(r) /\ RefreshToken[r].revoked = Null

\* RefreshToken.objects.filter(token=...).first(): the row of lowest key
IsFirst(r) ==
  /\ Exists(r)
  /\ \A s \in Pks : Exists(s) /\ RefreshToken[s].token = RefreshToken[r].token
                      => r <= s

\* Mutant of PastGrace: < for <=
PastGraceStrict(r) ==
  /\ RefreshToken[r].revoked # Null
  /\ RefreshToken[r].revoked + REFRESH_TOKEN_GRACE_PERIOD_SECONDS < now

\* revoked is not None and revoked <= now - grace period
PastGrace(r) ==
  /\ RefreshToken[r].revoked # Null
  /\ RefreshToken[r].revoked + REFRESH_TOKEN_GRACE_PERIOD_SECONDS <= now

\* Mutant of Family: only the token that was reused
FamilyOfOne(r) == {s \in Pks : s = r}

Family(r) == {s \in Pks : Exists(s) /\ RefreshToken[s].token_family
                                          = RefreshToken[r].token_family}

\* AccessToken.objects.filter(source_refresh_token=r)
Refreshed(r) == {a \in Pks : /\ AccessToken[a] # Absent
                             /\ AccessToken[a].source_refresh_token = r}

\* Mutant of Locked: the row is read without select_for_update().
LockedByNobody(r) == FALSE

\* select_for_update() in _save_bearer_token holds the row to the commit
Locked(r) == \E p \in Workers : /\ pc[p] \in {"rotating", "replaying"}
                                /\ request[p].rt = r
-----------------------------------------------------------------------------
(* Writes *)

\* Mutant of AccessTokensWithout: revoke() leaves the access token.
AccessTokensWith(S) == [a \in Pks |-> AccessToken[a]]

AccessTokensWithout(S) ==
  [a \in Pks |-> IF a \in S THEN Absent ELSE AccessToken[a]]

\* Mutant of RevokedRow: the row loses its access token and is not revoked.
UnboundRow(r) == [RefreshToken[r] EXCEPT !.access_token = Null]

RevokedRow(r) == [RefreshToken[r] EXCEPT !.access_token = Null, !.revoked = now]

\* AbstractRefreshToken.revoke() in a transaction of its own: the row is
\* selected again, locked, and only if it is still live.
Revoke(r) ==
  IF Live(r)
  THEN /\ ~Locked(r)
       /\ RefreshToken' = [RefreshToken EXCEPT ![r] = RevokedRow(r)]
       /\ AccessToken' = AccessTokensWithout({RefreshToken[r].access_token})
  ELSE UNCHANGED <<RefreshToken, AccessToken>>

NewAccess(c, scope, source) ==
  [token |-> nextPk, application |-> c, scope |-> scope, source_refresh_token |-> source]

\* Mutant of NewRefresh: every token is a family of its own.
NewRefreshAlone(c, string, family) ==
  [token |-> string, application |-> c, access_token |-> nextPk,
   token_family |-> nextPk, revoked |-> Null]

NewRefresh(c, string, family) ==
  [token |-> string, application |-> c, access_token |-> nextPk,
   token_family |-> family, revoked |-> Null]

Busy(p) == pc[p] \in Steps

Goto(p, step) == pc' = [pc EXCEPT ![p] = step]

Answer(p, status) ==
  /\ Goto(p, status)
  /\ request' = [request EXCEPT ![p] = NoRequest]

\* With one worker at a time nothing happens inside another's request.
Undisturbed == Serial => \A p \in Workers : ~Busy(p)
Free(p) == ~Busy(p) /\ Undisturbed

\* Bound: a request is begun only while a key is left for each one under way.
KeyLeft == nextPk + Cardinality({p \in Workers : Busy(p)}) <= MaxPk
-----------------------------------------------------------------------------
(* Issuing the first pair of a chain: save_bearer_token at the end of another *)
(* grant that has refresh tokens, with no refresh_token_instance on its       *)
(* request. (client_credentials and implicit save an access token only.)      *)
IssueTokens(c, scope) ==
  /\ Undisturbed
  /\ KeyLeft
  /\ AccessToken' = [AccessToken EXCEPT ![nextPk] = NewAccess(c, scope, Null)]
  /\ RefreshToken' = [RefreshToken EXCEPT ![nextPk] = NewRefresh(c, nextPk, nextPk)]
  /\ lineage' = [lineage EXCEPT ![nextPk] =
                   [origin |-> nextPk, parent |-> Null, granted |-> scope]]
  /\ nextPk' = nextPk + 1
  /\ UNCHANGED <<now, pc, request, breached>>
-----------------------------------------------------------------------------
(* validate_refresh_token *)

\* The string of no row: it was never issued, or its rows have been removed.
RejectUnknown(p) ==
  /\ Free(p)
  /\ Answer(p, "denied")
  /\ UNCHANGED <<now, db, hist>>

\* Mutant of ProtectedFamily: a row without a family counts as one of a family.
ProtectedAnyway(r) == REFRESH_TOKEN_REUSE_PROTECTION /\ Exists(r)

ProtectedFamily(r) ==
  REFRESH_TOKEN_REUSE_PROTECTION /\ RefreshToken[r].token_family # Null

RejectRevoked(p, r) ==
  /\ Free(p)
  /\ IsFirst(r) /\ PastGrace(r)
  /\ ~ProtectedFamily(r)
  /\ Answer(p, "denied")
  /\ UNCHANGED <<now, db, hist>>

\* A revoked token again: its family is read here and revoked row by row.
DetectReuse(p, r) ==
  /\ Free(p)
  /\ IsFirst(r) /\ PastGrace(r)
  /\ ProtectedFamily(r)
  /\ Goto(p, "revoking")
  /\ request' = [request EXCEPT ![p].rt = r, ![p].todo = Family(r)]
  /\ breached' = breached \cup {RefreshToken[r].token_family}
  /\ UNCHANGED <<now, db, lineage>>

\* Mutant of RevokeFamilyMember: the loop ends after one row.
RevokeOneMember(p, r) ==
  /\ pc[p] = "revoking"
  /\ r \in request[p].todo
  /\ Revoke(r)
  /\ Answer(p, "denied")
  /\ UNCHANGED <<now, nextPk, hist>>

RevokeFamilyMember(p, r) ==
  /\ pc[p] = "revoking"
  /\ r \in request[p].todo
  /\ Revoke(r)
  /\ IF request[p].todo = {r}
     THEN Answer(p, "denied")
     ELSE /\ request' = [request EXCEPT ![p].todo = @ \ {r}]
          /\ UNCHANGED pc
  /\ UNCHANGED <<now, nextPk, hist>>

RejectClient(p, r, c) ==
  /\ Free(p)
  /\ IsFirst(r) /\ ~PastGrace(r)
  /\ RefreshToken[r].application # c
  /\ Answer(p, "denied")
  /\ UNCHANGED <<now, db, hist>>

\* The row and, by select_related, its access token are read at once. asked is
\* the scope parameter of the request, {} when there is none.
Accept(p, r, c, asked) ==
  /\ Free(p)
  /\ KeyLeft
  /\ IsFirst(r) /\ ~PastGrace(r)
  /\ RefreshToken[r].application = c
  /\ LET a == RefreshToken[r].access_token IN
       request' = [request EXCEPT ![p] =
         [NoRequest EXCEPT !.rt = r, !.client = c, !.asked = asked, !.seen = a,
                           !.original = IF a = Null THEN {} ELSE AccessToken[a].scope]]
  /\ Goto(p, "validated")
  /\ UNCHANGED <<now, db, hist>>
-----------------------------------------------------------------------------
(* get_original_scopes, and what oauthlib makes of it: the scope asked for   *)
(* must lie within the original one, and none asked for means all of it.     *)

OriginalScopes(p) ==
  IF request[p].seen # Null
  THEN request[p].original
  ELSE UNION {AccessToken[a].scope : a \in Refreshed(request[p].rt)}

\* Mutant of GetOriginalScopes: the scope asked for is not compared.
TakeAskedScopes(p) ==
  /\ pc[p] = "validated"
  /\ request' = [request EXCEPT ![p].asked =
                   IF @ = {} THEN OriginalScopes(p) ELSE @]
  /\ Goto(p, "saving")
  /\ UNCHANGED <<now, db, hist>>

GetOriginalScopes(p) ==
  /\ pc[p] = "validated"
  /\ request[p].asked \subseteq OriginalScopes(p)
  /\ request' = [request EXCEPT ![p].asked =
                   IF @ = {} THEN OriginalScopes(p) ELSE @]
  /\ Goto(p, "saving")
  /\ UNCHANGED <<now, db, hist>>

InvalidScope(p) ==
  /\ pc[p] = "validated"
  /\ ~(request[p].asked \subseteq OriginalScopes(p))
  /\ Answer(p, "denied")
  /\ UNCHANGED <<now, db, hist>>
-----------------------------------------------------------------------------
(* _save_bearer_token *)

InPlace(p) == ~ROTATE_REFRESH_TOKEN /\ request[p].seen # Null

\* Without rotation the access token row is selected again by key and given
\* the new string and scope.
UpdateInPlace(p) ==
  LET a == request[p].seen IN
  /\ pc[p] = "saving"
  /\ InPlace(p)
  /\ AccessToken[a] # Absent
  /\ nextPk <= MaxPk
  /\ AccessToken' = [AccessToken EXCEPT ![a].token = nextPk,
                                        ![a].scope = request[p].asked,
                                        ![a].application = request[p].client]
  /\ request' = [request EXCEPT ![p].access = a,
                                ![p].token = nextPk]
  /\ nextPk' = nextPk + 1
  /\ Goto(p, "signalling")
  /\ UNCHANGED <<now, RefreshToken, hist>>

\* get() raises DoesNotExist, which nothing catches
UpdateInPlaceFails(p) ==
  /\ pc[p] = "saving"
  /\ InPlace(p)
  /\ AccessToken[request[p].seen] = Absent
  /\ Answer(p, "error")
  /\ UNCHANGED <<now, db, hist>>

\* Mutant of LockRefreshToken: whether it was refreshed before is not looked at.
LockWithoutLooking(p) ==
  /\ pc[p] = "saving"
  /\ ~InPlace(p)
  /\ Exists(request[p].rt) /\ ~Locked(request[p].rt)
  /\ Goto(p, "rotating")
  /\ UNCHANGED <<now, db, request, hist>>

\* The refresh token is read again under a lock; an access token that was
\* already refreshed from it decides what the request becomes.
LockRefreshToken(p) ==
  LET r == request[p].rt IN
  /\ pc[p] = "saving"
  /\ ~InPlace(p)
  /\ Exists(r) /\ ~Locked(r)
  /\ \/ /\ Refreshed(r) = {}
        /\ Goto(p, "rotating")
        /\ UNCHANGED request
     \/ \E a \in Refreshed(r) :
        /\ Goto(p, "replaying")
        /\ request' = [request EXCEPT ![p].access = a,
                                      ![p].token = AccessToken[a].token]
  /\ UNCHANGED <<now, db, hist>>

LockRefreshTokenFails(p) ==
  /\ pc[p] = "saving"
  /\ ~InPlace(p)
  /\ ~Exists(request[p].rt)
  /\ Answer(p, "error")
  /\ UNCHANGED <<now, db, hist>>

\* revoke() the row if it is still live, then create the new pair and commit.
\* A row revoked meanwhile changes nothing: revoke() returns without a word.
Rotate(p) ==
  LET r == request[p].rt
      c == request[p].client
      bound == IF Live(r) THEN {RefreshToken[r].access_token} ELSE {}
      string == IF ROTATE_REFRESH_TOKEN THEN nextPk ELSE RefreshToken[r].token
  IN
  /\ pc[p] = "rotating"
  /\ nextPk <= MaxPk
  /\ AccessToken' = [AccessTokensWithout(bound) EXCEPT
                       ![nextPk] = NewAccess(c, request[p].asked, r)]
  /\ RefreshToken' = [RefreshToken EXCEPT
                       ![r] = IF Live(r) THEN RevokedRow(r) ELSE @,
                       ![nextPk] = NewRefresh(c, string, RefreshToken[r].token_family)]
  /\ lineage' = [lineage EXCEPT ![nextPk] =
                   [origin |-> lineage[r].origin, parent |-> r,
                    granted |-> lineage[r].granted]]
  /\ nextPk' = nextPk + 1
  /\ request' = [request EXCEPT ![p].access = nextPk, ![p].token = nextPk]
  /\ Goto(p, "signalling")
  /\ UNCHANGED <<now, breached>>

\* RefreshToken.objects.filter(access_token=previous_access_token)
PairOf(a) == {s \in Pks : Exists(s) /\ RefreshToken[s].access_token = a}

\* The token was refreshed before: answer with the pair that came of it.
Replay(p) ==
  LET r == request[p].rt IN
  /\ pc[p] = "replaying"
  /\ PairOf(request[p].access) # {}
  /\ IF Live(r)
     THEN /\ RefreshToken' = [RefreshToken EXCEPT ![r] = RevokedRow(r)]
          /\ AccessToken' = AccessTokensWithout({RefreshToken[r].access_token})
     ELSE UNCHANGED <<RefreshToken, AccessToken>>
  /\ Goto(p, "signalling")
  /\ UNCHANGED <<now, nextPk, request, hist>>

\* Mutant of ReplayFails: the worker waits for the pair to appear.
ReplayWaits(p) ==
  /\ pc[p] = "replaying"
  /\ PairOf(request[p].access) = {}
  /\ UNCHANGED vars

\* first() is None and has no .token; the transaction is rolled back
ReplayFails(p) ==
  /\ pc[p] = "replaying"
  /\ PairOf(request[p].access) = {}
  /\ Answer(p, "error")
  /\ UNCHANGED <<now, db, hist>>
-----------------------------------------------------------------------------
(* TokenView: the access token of the response is read again, by checksum,   *)
(* for the app_authorized signal.                                            *)

Answerable(p) ==
  LET a == request[p].access IN
  AccessToken[a] # Absent /\ AccessToken[a].token = request[p].token

SendSignal(p) ==
  /\ pc[p] = "signalling"
  /\ Answer(p, IF Answerable(p) THEN "ok" ELSE "error")
  /\ UNCHANGED <<now, db, hist>>
-----------------------------------------------------------------------------
(* What else reaches the rows                                                *)

\* RevokeTokenView, the logout view and the admin call revoke() on a row.
RevokeRefreshToken(r) ==
  /\ Undisturbed
  /\ Live(r) /\ Revoke(r)
  /\ UNCHANGED <<now, nextPk, pc, request, hist>>

\* AuthorizedTokenDeleteView, RevokeTokenView and clear_expired delete access
\* tokens; the refresh token bound to one is set to NULL first.
DeleteAccessToken(a) ==
  /\ Undisturbed
  /\ AccessToken[a] # Absent
  /\ \A r \in PairOf(a) : ~Locked(r)
  /\ RefreshToken' = [r \in Pks |-> IF r \in PairOf(a)
                                    THEN [RefreshToken[r] EXCEPT !.access_token = Null]
                                    ELSE RefreshToken[r]]
  /\ AccessToken' = AccessTokensWithout({a})
  /\ UNCHANGED <<now, nextPk, pc, request, hist>>

\* clear_expired removes refresh tokens revoked long enough ago, and those whose
\* access token has expired as long; an access token refreshed from one loses its
\* source. The keys were read before, so either may be so no more: here it is only
\* known that both are after the first clock reading (TokenRemoval has the queries).
CleanRefreshToken(r) ==
  /\ Undisturbed
  /\ REFRESH_TOKEN_EXPIRE_SECONDS # 0
  /\ Exists(r) /\ ~Locked(r)
  /\ 1 + REFRESH_TOKEN_EXPIRE_SECONDS < now
  /\ RefreshToken' = [RefreshToken EXCEPT ![r] = Absent]
  /\ AccessToken' = [a \in Pks |->
       IF a \in Refreshed(r)
       THEN [AccessToken[a] EXCEPT !.source_refresh_token = Null]
       ELSE AccessToken[a]]
  /\ UNCHANGED <<now, nextPk, pc, request, hist>>

Tick ==
  /\ now < MaxTime
  /\ now' = now + 1
  /\ UNCHANGED <<db, pc, request, hist>>
-----------------------------------------------------------------------------
EmptyDatabase ==
  /\ nextPk = 1
  /\ AccessToken = [a \in Pks |-> Absent]
  /\ RefreshToken = [r \in Pks |-> Absent]
  /\ lineage = [r \in Pks |-> Unborn]

\* One migrated from before families (0011_refreshtoken_token_family), whose
\* rows have a NULL token_family.
MigratedDatabase(c, scope) ==
  /\ MaxPk > 0
  /\ nextPk = 2
  /\ AccessToken = [a \in Pks |->
       IF a = 1 THEN [token |-> 1, application |-> c, scope |-> scope,
                      source_refresh_token |-> Null]
                ELSE Absent]
  /\ RefreshToken = [r \in Pks |->
       IF r = 1 THEN [token |-> 1, application |-> c, access_token |-> 1,
                      token_family |-> Null, revoked |-> Null]
                ELSE Absent]
  /\ lineage = [r \in Pks |->
       IF r = 1 THEN [origin |-> 1, parent |-> Null, granted |-> scope] ELSE Unborn]

Init ==
  /\ now = 1
  /\ EmptyDatabase \/ \E c \in Clients, scope \in SUBSET Scopes : MigratedDatabase(c, scope)
  /\ pc = [p \in Workers |-> "idle"]
  /\ request = [p \in Workers |-> NoRequest]
  /\ breached = {}

Start(p) ==
  \/ RejectUnknown(p)
  \/ \E r \in Pks : RejectRevoked(p, r) \/ DetectReuse(p, r)
  \/ \E r \in Pks, c \in Clients :
       \/ RejectClient(p, r, c)
       \/ \E asked \in SUBSET Scopes : Accept(p, r, c, asked)

\* The steps that wait for a row lock, and the others of a request under way.
Acquire(p) ==
  \/ LockRefreshToken(p)
  \/ \E r \in Pks : RevokeFamilyMember(p, r)

Proceed(p) ==
  \/ GetOriginalScopes(p) \/ InvalidScope(p)
  \/ UpdateInPlace(p) \/ UpdateInPlaceFails(p)
  \/ LockRefreshTokenFails(p)
  \/ Rotate(p) \/ Replay(p) \/ ReplayFails(p)
  \/ SendSignal(p)

Environment ==
  \/ \E c \in Clients, scope \in SUBSET Scopes : IssueTokens(c, scope)
  \/ \E r \in Pks : RevokeRefreshToken(r) \/ CleanRefreshToken(r)
  \/ \E a \in Pks : DeleteAccessToken(a)
  \/ Tick

Next ==
  \/ \E p \in Workers : Start(p) \/ Acquire(p) \/ Proceed(p)
  \/ Environment

Spec == Init /\ [][Next]_vars

\* A request under way goes on, and a row lock is granted to who waits for it
\* (the database queues the waiters). Nobody has to make a request.
Fairness == \A p \in Workers : SF_vars(Acquire(p)) /\ WF_vars(Proceed(p))

FairSpec == Spec /\ Fairness
-----------------------------------------------------------------------------
(* Properties *)

\* The tables, the workers and the history keep their types.
TypeOK ==
  /\ now \in Time
  /\ AccessToken \in [Pks -> AccessRow \cup {Absent}]
  /\ RefreshToken \in [Pks -> RefreshRow \cup {Absent}]
  /\ nextPk \in 1..(MaxPk + 1)
  /\ pc \in [Workers -> Steps \cup Answers]
  /\ request \in [Workers -> Request]
  /\ lineage \in [Pks -> Lineage]
  /\ breached \subseteq Pks

\* The unique constraint of source_refresh_token is never tripped: two requests
\* with one refresh token never both find it unused (the row lock and the second
\* read in _save_bearer_token).
OneRefreshPerToken ==
  \A a, b \in Pks :
    /\ AccessToken[a] # Absent /\ AccessToken[b] # Absent
    /\ AccessToken[a].source_refresh_token # Null
    /\ AccessToken[a].source_refresh_token = AccessToken[b].source_refresh_token
    => a = b

\* A refresh token that an access token was refreshed from is revoked: there is no
\* moment at which the old and the new refresh token are both live.
SourceConsumed ==
  \A a \in Pks : AccessToken[a] # Absent =>
    LET r == AccessToken[a].source_refresh_token IN
    r # Null => Exists(r) /\ RefreshToken[r].revoked # Null

\* The access token issued with a refresh token does not outlive its revocation,
\* by whichever request it was revoked (AbstractRefreshToken.revoke).
RevokedKillsAccessToken ==
  \A r \in Pks : Exists(r) /\ RefreshToken[r].revoked # Null
                    => AccessToken[r] = Absent

\* Reuse protection revokes by token_family, so a family must be one chain of
\* refreshes, no more and no less, and belong to one application.
FamilyIsOneChain ==
  \A r, s \in Pks :
    /\ Exists(r) /\ Exists(s)
    /\ RefreshToken[r].token_family # Null
    /\ RefreshToken[s].token_family # Null
    => /\ RefreshToken[r].token_family = RefreshToken[s].token_family
            <=> lineage[r].origin = lineage[s].origin
       /\ lineage[r].origin = lineage[s].origin
            => RefreshToken[r].application = RefreshToken[s].application

\* However often and in whatever order a grant is refreshed, replayed or
\* narrowed, no access token of it carries a scope the user did not grant.
ScopeNeverWidens ==
  \A a \in Pks : AccessToken[a] # Absent =>
    AccessToken[a].scope \subseteq lineage[a].granted

\* The time of a revocation is never moved or taken back, else a token could
\* be kept in its grace period by revoking it again.
RevocationIsFinal ==
  [][\A r \in Pks :
       (Exists(r) /\ RefreshToken[r].revoked # Null) =>
          \/ RefreshToken'[r] = Absent
          \/ RefreshToken'[r].revoked = RefreshToken[r].revoked]_vars

\* Every request that was begun is answered, whatever the other workers do with
\* the rows it needs.
EveryRequestAnswered ==
  \A p \in Workers : Busy(p) ~> ~Busy(p)

\* Every member the family had when the reuse was detected ends revoked or
\* removed (validate_refresh_token's loop over the family).
FamilyIsRevoked ==
  \A p \in Workers, r \in Pks :
    (pc[p] = "revoking" /\ r \in request[p].todo) ~> ~Live(r)

\* docs/settings.rst on REFRESH_TOKEN_REUSE_PROTECTION: when a reuse is detected
\* all related refresh tokens are revoked and the session ends for both users.
ReuseEndsFamily ==
  \A f \in breached :
    (\A p \in Workers : pc[p] # "revoking") =>
      \A r \in Pks : Live(r) => RefreshToken[r].token_family # f
-----------------------------------------------------------------------------
(* The inductive invariant: what makes the safety properties above hold      *)

\* Keys not drawn yet have no row.
FreshKeys ==
  \A k \in Pks : k >= nextPk => AccessToken[k] = Absent /\ RefreshToken[k] = Absent

\* A refresh token is bound to the access token it was created with for as long
\* as that row exists, and is live as long as it is bound.
Pairing ==
  \A r \in Pks : Exists(r) =>
    IF AccessToken[r] = Absent
    THEN RefreshToken[r].access_token = Null
    ELSE RefreshToken[r].access_token = r /\ RefreshToken[r].revoked = Null

\* The requests that hold a refresh token, and what they know of it.
RequestsSound ==
  \A p \in Workers :
    /\ pc[p] \in {"validated", "saving", "rotating", "replaying"}
         => request[p].rt \in Pks /\ request[p].client \in Clients
    /\ pc[p] \in {"rotating", "replaying"} => Exists(request[p].rt)
    /\ pc[p] = "rotating" => Refreshed(request[p].rt) = {}

LockIsExclusive ==
  \A p, q \in Workers :
    /\ pc[p] \in {"rotating", "replaying"} /\ pc[q] \in {"rotating", "replaying"}
    /\ request[p].rt = request[q].rt
    => p = q

Inv ==
  /\ TypeOK
  /\ FreshKeys
  /\ Pairing
  /\ SourceConsumed
  /\ OneRefreshPerToken
  /\ RequestsSound
  /\ LockIsExclusive
-----------------------------------------------------------------------------
(* The same for the chains of refreshes                                      *)

FreshHistory == \A k \in Pks : k >= nextPk => lineage[k] = Unborn

\* A family is named by the first pair of its chain; migrated chains have none.
FamilyNamesOrigin ==
  \A r \in Pks : Exists(r) =>
    /\ lineage[r].origin # Null /\ lineage[r].origin < nextPk
    /\ RefreshToken[r].token_family \in {Null, lineage[r].origin}

ChainsAgree ==
  \A r, s \in Pks : Exists(r) /\ Exists(s) /\ lineage[r].origin = lineage[s].origin =>
    /\ RefreshToken[r].application = RefreshToken[s].application
    /\ RefreshToken[r].token_family = RefreshToken[s].token_family

\* What OriginalScopes finds by the source of an access token was granted to its chain.
SourceInChain ==
  \A a \in Pks : AccessToken[a] # Absent /\ AccessToken[a].source_refresh_token # Null
    => lineage[a].granted = lineage[AccessToken[a].source_refresh_token].granted

\* What a request read of its refresh token, and the scope it makes of that, stay
\* within the chain, although the row may be gone meanwhile.
KnowsChain(p) ==
  /\ pc[p] \in {"validated", "saving", "rotating", "replaying"} =>
       /\ request[p].rt < nextPk
       /\ Exists(request[p].rt)
            => RefreshToken[request[p].rt].application = request[p].client
  /\ pc[p] \in {"validated", "saving"} => request[p].seen \in {Null, request[p].rt}
  /\ pc[p] = "validated" => request[p].original \subseteq lineage[request[p].rt].granted
  /\ pc[p] \in {"saving", "rotating"}
       => request[p].asked \subseteq lineage[request[p].rt].granted

RequestsInChain == \A p \in Workers : KnowsChain(p)

ChainInv ==
  /\ FreshHistory
  /\ FamilyNamesOrigin
  /\ ChainsAgree
  /\ ScopeNeverWidens
  /\ SourceInChain
  /\ RequestsInChain
-----------------------------------------------------------------------------
(* The same for reuse protection, where one request is served at a time and  *)
(* there is no grace period                                                  *)

OneAtATime == \A p, q \in Workers : Busy(p) /\ Busy(q) => p = q

RevokedInThePast == \A r \in Pks : Exists(r) => RefreshToken[r].revoked <= now

\* A live token of a family in which a reuse was detected is about to be revoked.
BreachesListed ==
  \A r \in Pks : Live(r) /\ RefreshToken[r].token_family \in breached
    => \E p \in Workers : pc[p] = "revoking" /\ r \in request[p].todo

\* The refresh token of a request under way is live, and no reuse of its family was
\* detected: the request adds no live token to a breached family.
HeldAreLive ==
  \A p \in Workers : pc[p] \in {"validated", "saving", "rotating", "replaying"} =>
    Live(request[p].rt) /\ RefreshToken[request[p].rt].token_family \notin breached

BreachedAreNamed == \A f \in breached : f # Null /\ f < nextPk

ReuseInv ==
  OneAtATime /\ RevokedInThePast /\ BreachesListed /\ HeldAreLive /\ BreachedAreNamed
=============================================================================
