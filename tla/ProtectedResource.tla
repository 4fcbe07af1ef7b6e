-------------------------- MODULE ProtectedResource --------------------------
(***************************************************************************)
(* A resource server that keeps its own table of access tokens as a cache  *)
(* of what the authorization server says of them (validate_bearer_token,   *)
(* _get_token_from_authentication_server and IntrospectTokenView), and the *)
(* views, permission classes and middleware that guard a resource with it. *)
(*                                                                         *)
(* A request is split where time may pass or another request may come in   *)
(* between: the entry of the view, the read of the cached row, the answer  *)
(* of the authorization server, its arrival, the check that decides, and   *)
(* the permission check of Django REST framework on the row read before.   *)
(*                                                                         *)
(* A token is a string: its scope and expiry at the authorization server   *)
(* are fixed when it is issued, and refreshing makes another one.          *)
(*                                                                         *)
(* now is an instant. What is stored and told of an expiry is a reading of *)
(* a wall clock, and a zone the number of clock units it is ahead of UTC,  *)
(* the same all year. The address and the credentials for introspection    *)
(* are configured.                                                         *)
(***************************************************************************)
EXTENDS Integers, FiniteSets

CONSTANTS
  Workers,      \* the threads or processes of the resource server
  Tokens,       \* token strings
  Scopes,       \* scope names; <<s, t>> stands for the name "s:t"
  Views,        \* the guarded resources
  Kind,         \* what guards each of them
  Declared,     \* the scopes each of them declares (required_scopes)
  Alternates,   \* required_alternate_scopes: a set of scope lists per method
  READ_SCOPE,
  WRITE_SCOPE,
  IntrospectionScope,   \* IntrospectTokenView.required_scopes
  AuthToken,    \* RESOURCE_SERVER_AUTH_TOKEN, or Absent: credentials are used
  RESOURCE_SERVER_TOKEN_CACHING_SECONDS,
  USE_TZ,       \* of the resource server's Django settings, and
  TIME_ZONE,    \* their time zone
  AUTHENTICATION_SERVER_EXP_TIME_ZONE,
  ExpTimeZone,  \* the zone the authorization server tells an exp in: UTC, or its
                \* own TIME_ZONE when its USE_TZ is off
  Dated,        \* the tokens of which it tells the exp (optional in RFC 7662)
  Absent,       \* no row, no request, no exp
  Grants,       \* bound: the scopes each token may be issued with
  Serves,       \* bound: view, method and token of the requests to each worker
  MaxTime       \* bound: clock readings

Time    == 1..MaxTime
Methods == {"GET", "OPTIONS", "POST"}
Kinds   == {"protected_resource", "rw_protected_resource",
            "ProtectedResourceMixin", "ReadWriteScopedResourceMixin",
            "TokenHasScope", "TokenHasReadWriteScope", "TokenHasResourceScope",
            "IsAuthenticatedOrTokenHasScope", "TokenMatchesOASRequirements",
            "OAuth2TokenMiddleware"}
RestKinds == {"TokenHasScope", "TokenHasReadWriteScope", "TokenHasResourceScope",
              "IsAuthenticatedOrTokenHasScope", "TokenMatchesOASRequirements"}

ASSUME ConstantsAssumption ==
  /\ MaxTime \in Nat \ {0}
  /\ RESOURCE_SERVER_TOKEN_CACHING_SECONDS \in Nat
  /\ USE_TZ \in BOOLEAN
  /\ {TIME_ZONE, AUTHENTICATION_SERVER_EXP_TIME_ZONE, ExpTimeZone} \subseteq Int
  /\ Dated \subseteq Tokens
  /\ {READ_SCOPE, WRITE_SCOPE} \subseteq Scopes   \* else ImproperlyConfigured
  /\ Kind \in [Views -> Kinds]
  /\ Declared \in [Views -> SUBSET Scopes]
  /\ Alternates \in [Methods -> SUBSET SUBSET Scopes]
  /\ Grants \in [Tokens -> SUBSET SUBSET Scopes]
  /\ Serves \in [Workers -> SUBSET (Views \X Methods \X Tokens)]

\* What is kept of an AccessToken row: at the authorization server its expiry is
\* the instant the token ends, at the resource server a reading of the clock that
\* LocalNow is compared with. An answer has a reading too, or none.
IssuedRow == [scope : SUBSET Scopes, expires : Time]
Row       == [scope : SUBSET Scopes, expires : Int]
Content   == [scope : SUBSET Scopes, exp : Int \cup {Absent}]

\* row is the access_token of the request, as it was when it was read; answer
\* what the authorization server answered with; session whether the browser
\* has a session of its own.
Request == [view : Views, method : Methods, token : Tokens, session : BOOLEAN,
            row : Row \cup {Absent}, answer : Content \cup {Absent}]

ASSUME AbsentAssumption == Absent \notin IssuedRow \cup Row \cup Content \cup Tokens \cup Request \cup Int

NewRequest(v, m, t, session) ==
  [view |-> v, method |-> m, token |-> t, session |-> session,
   row |-> Absent, answer |-> Absent]

Steps   == {"loading", "asking", "answered", "checking", "permitting"}
Answers == {"idle", "granted", "passed", "invalid", "insufficient"}

VARIABLES
  now,          \* the instant
  Issued,       \* AccessToken at the authorization server
  gone,         \* history: when a token was revoked there, or last confirmed
                \* since by an answer that had been given before; 0: it is not
  AccessToken,  \* AccessToken at the resource server
  appended,     \* what rw_protected_resource added to the _scopes of a view
  pc,
  request

vars == <<now, Issued, gone, AccessToken, appended, pc, request>>
Busy(p) == pc[p] \in Steps

Goto(p, step) == pc' = [pc EXCEPT ![p] = step]

Answer(p, status) ==
  /\ Goto(p, status)
  /\ request' = [request EXCEPT ![p] = Absent]

-----------------------------------------------------------------------------
(* The scopes a view asks for                                               *)

MethodScope(m) == IF m \in {"GET", "OPTIONS"} THEN READ_SCOPE ELSE WRITE_SCOPE

\* get_scopes(): what a request with this method needs at this view
Required(v, m) ==
  CASE Kind[v] \in {"rw_protected_resource", "ReadWriteScopedResourceMixin",
                    "TokenHasReadWriteScope"} -> Declared[v] \cup {MethodScope(m)}
    [] Kind[v] = "TokenHasResourceScope" -> {<<s, MethodScope(m)>> : s \in Declared[v]}
    [] Kind[v] = "OAuth2TokenMiddleware" -> {}
    [] OTHER -> Declared[v]

\* The scope lists of which one suffices
Alternatives(v, m) ==
  IF Kind[v] = "TokenMatchesOASRequirements" THEN Alternates[m] ELSE {Required(v, m)}

\* The scopes verify_request is called with: none where a permission class comes
\* later; rw_protected_resource passes a list that all its requests append to.
Demanded(p) ==
  LET v == request[p].view IN
  IF Kind[v] \in RestKinds THEN {}
  ELSE Required(v, request[p].method) \cup appended[v]
-----------------------------------------------------------------------------
(* AbstractAccessToken                                                      *)

\* Mutant of AllowScopes: one of the scopes is enough.
AllowAnyScope(row, scopes) == scopes = {} \/ row.scope \cap scopes # {}

AllowScopes(row, scopes) == scopes \subseteq row.scope

\* timezone.now() at the resource server: without USE_TZ a naive local time
LocalNow == IF USE_TZ THEN now ELSE now + TIME_ZONE

IsExpired(row) == LocalNow >= row.expires

IsValid(row, scopes) == row # Absent /\ ~IsExpired(row) /\ AllowScopes(row, scopes)
-----------------------------------------------------------------------------
(* The authorization server                                                 *)

IssueToken(t, scope, expires) ==
  /\ Issued[t] = Absent
  /\ expires > now
  /\ Issued' = [Issued EXCEPT ![t] = [scope |-> scope, expires |-> expires]]
  /\ UNCHANGED <<now, gone, AccessToken, appended, pc, request>>

\* is_valid there, where expiries are stored and read in one zone
Active(t, scopes) ==
  /\ gone[t] = 0 /\ Issued[t] # Absent
  /\ now < Issued[t].expires
  /\ AllowScopes(Issued[t], scopes)

\* The row is deleted. (What was issued stays in Issued, as history.)
RevokeToken(t) ==
  /\ Active(t, {})
  /\ gone' = [gone EXCEPT ![t] = now]
  /\ UNCHANGED <<now, Issued, AccessToken, appended, pc, request>>

\* ClientProtectedResourceMixin: client credentials, or a token for the scope
MayIntrospect == AuthToken # Absent => Active(AuthToken, {IntrospectionScope})

\* get_token_response: scope and expiry of a valid token. timegm() takes the
\* digits of the stored expiry, local ones without USE_TZ, for UTC.
Told(t) ==
  [scope |-> Issued[t].scope,
   exp |-> IF t \in Dated THEN Issued[t].expires + ExpTimeZone ELSE Absent]

AnswerActive(p) ==
  /\ pc[p] = "asking"
  /\ MayIntrospect /\ Active(request[p].token, {})
  /\ request' = [request EXCEPT ![p].answer = Told(request[p].token)]
  /\ Goto(p, "answered")
  /\ UNCHANGED <<now, Issued, gone, AccessToken, appended>>

\* {"active": false}, 403 for the resource server itself, another status, no
\* JSON or no connection: None, whatever the cache knows.
AnswerNone(p) ==
  /\ pc[p] = "asking"
  /\ Goto(p, "answered")
  /\ UNCHANGED <<now, Issued, gone, AccessToken, appended, request>>
-----------------------------------------------------------------------------
(* The entry of a view                                                      *)

\* Preflight requests pass the mixins; the middleware lets a session be.
Unguarded(v, m, session) ==
  \/ m = "OPTIONS" /\ Kind[v] \in {"ProtectedResourceMixin", "ReadWriteScopedResourceMixin"}
  \/ session /\ Kind[v] = "OAuth2TokenMiddleware"

PassView(p, v, m, session) ==
  /\ ~Busy(p)
  /\ Unguarded(v, m, session)
  /\ Answer(p, "passed")
  /\ UNCHANGED <<now, Issued, gone, AccessToken, appended>>

\* Mutant of EnterView: a mixin appends to the required_scopes of its class.
EnterViewInPlace(p, v, m, t, session) ==
  /\ ~Busy(p)
  /\ ~Unguarded(v, m, session)
  /\ request' = [request EXCEPT ![p] = NewRequest(v, m, t, session)]
  /\ Goto(p, "loading")
  /\ appended' = [appended EXCEPT ![v] = @ \cup Required(v, m)]
  /\ UNCHANGED <<now, Issued, gone, AccessToken>>

EnterView(p, v, m, t, session) ==
  /\ ~Busy(p)
  /\ ~Unguarded(v, m, session)
  /\ request' = [request EXCEPT ![p] = NewRequest(v, m, t, session)]
  /\ Goto(p, "loading")
  /\ appended' = IF Kind[v] = "rw_protected_resource"
                 THEN [appended EXCEPT ![v] = @ \cup {MethodScope(m)}]
                 ELSE appended
  /\ UNCHANGED <<now, Issued, gone, AccessToken>>
-----------------------------------------------------------------------------
(* validate_bearer_token                                                    *)

LoadAccessToken(p) ==
  LET row == AccessToken[request[p].token] IN
  /\ pc[p] = "loading"
  /\ \/ /\ IsValid(row, Demanded(p))
        /\ request' = [request EXCEPT ![p].row = row]
        /\ Goto(p, "checking")
     \/ /\ ~IsValid(row, Demanded(p))
        /\ Goto(p, "asking")
        /\ UNCHANGED request
  /\ UNCHANGED <<now, Issued, gone, AccessToken, appended>>

MaxCachingTime == now + RESOURCE_SERVER_TOKEN_CACHING_SECONDS

\* The instant an exp stands for
Instant(exp) == exp - AUTHENTICATION_SERVER_EXP_TIME_ZONE

\* Mutants of CachedRow: the caching time is no limit, or is the only one, or an
\* answer without exp is stored as it came.
UncappedRow(content) ==
  [scope |-> content.scope,
   expires |-> IF content.exp = Absent THEN MaxCachingTime
               ELSE IF USE_TZ THEN Instant(content.exp) ELSE content.exp]

PostponedRow(content) == [scope |-> content.scope, expires |-> MaxCachingTime]

UndatedRow(content) == [scope |-> content.scope, expires |-> content.exp]

\* What is stored of an answer. make_naive() takes the digits of the expiry in the
\* zone it came in: UTC for the caching time, the one of the setting for an exp.
CachedRow(content) ==
  LET capped == content.exp = Absent \/ Instant(content.exp) > MaxCachingTime IN
  [scope |-> content.scope,
   expires |-> IF capped THEN MaxCachingTime
               ELSE IF USE_TZ THEN Instant(content.exp) ELSE content.exp]

\* update_or_create of the row an active answer describes
CacheAnswer(p) ==
  LET t == request[p].token
      row == CachedRow(request[p].answer)
  IN
  /\ pc[p] = "answered"
  /\ request[p].answer # Absent
  /\ AccessToken' = [AccessToken EXCEPT ![t] = row]
  /\ gone' = [gone EXCEPT ![t] = IF @ = 0 THEN 0 ELSE now]
  /\ request' = [request EXCEPT ![p].row = row, ![p].answer = Absent]
  /\ Goto(p, "checking")
  /\ UNCHANGED <<now, Issued, appended>>

TakeNoAnswer(p) ==
  /\ pc[p] = "answered"
  /\ request[p].answer = Absent
  /\ Goto(p, "checking")
  /\ UNCHANGED <<now, Issued, gone, AccessToken, appended, request>>

\* _set_oauth2_error_on_request
Refusal(row) == IF row = Absent \/ IsExpired(row) THEN "invalid" ELSE "insufficient"

\* The row is checked once more, and so is the time. Without a valid token Django
\* REST framework goes on to the next authentication class, with no token.
Verify(p) ==
  LET q == request[p]
      rest == Kind[q.view] \in RestKinds
      valid == IsValid(q.row, Demanded(p))
  IN
  /\ pc[p] = "checking"
  /\ \/ /\ valid /\ ~rest
        /\ Answer(p, "granted")
     \/ /\ rest /\ (valid \/ q.session)
        /\ request' = [request EXCEPT ![p].row = IF valid THEN @ ELSE Absent]
        /\ Goto(p, "permitting")
     \/ /\ ~valid /\ ~(rest /\ q.session)
        /\ Answer(p, Refusal(q.row))
  /\ UNCHANGED <<now, Issued, gone, AccessToken, appended>>

\* Mutant of Permitted: a session counts although a token was used.
PermittedBySession(p) ==
  LET q == request[p] IN
  \/ Kind[q.view] = "IsAuthenticatedOrTokenHasScope" /\ q.session
  \/ \E scopes \in Alternatives(q.view, q.method) : IsValid(q.row, scopes)

\* has_permission of the permission classes
Permitted(p) ==
  LET q == request[p] IN
  \/ Kind[q.view] = "IsAuthenticatedOrTokenHasScope" /\ q.session /\ q.row = Absent
  \/ \E scopes \in Alternatives(q.view, q.method) : IsValid(q.row, scopes)

HasPermission(p) ==
  /\ pc[p] = "permitting"
  /\ Answer(p, IF ~Permitted(p) THEN Refusal(request[p].row)
               ELSE IF request[p].row = Absent THEN "passed" ELSE "granted")
  /\ UNCHANGED <<now, Issued, gone, AccessToken, appended>>
-----------------------------------------------------------------------------
\* clear_expired on the resource server: its rows have no refresh token
ClearExpired(t) ==
  /\ AccessToken[t] # Absent /\ LocalNow > AccessToken[t].expires
  /\ AccessToken' = [AccessToken EXCEPT ![t] = Absent]
  /\ UNCHANGED <<now, Issued, gone, appended, pc, request>>

Tick ==
  /\ now < MaxTime
  /\ now' = now + 1
  /\ UNCHANGED <<Issued, gone, AccessToken, appended, pc, request>>

Init ==
  /\ now = 1
  /\ Issued = [t \in Tokens |-> Absent]
  /\ gone = [t \in Tokens |-> 0]
  /\ AccessToken = [t \in Tokens |-> Absent]
  /\ appended = [v \in Views |-> {}]
  /\ pc = [p \in Workers |-> "idle"]
  /\ request = [p \in Workers |-> Absent]

\* A session is told apart only where one is looked at.
Start(p) ==
  \E asked \in Serves[p] :
    \E session \in IF Kind[asked[1]] \in RestKinds \cup {"OAuth2TokenMiddleware"}
                   THEN BOOLEAN ELSE {FALSE} :
      \/ PassView(p, asked[1], asked[2], session)
      \/ EnterView(p, asked[1], asked[2], asked[3], session)

AuthorizationServer(p) == AnswerActive(p) \/ AnswerNone(p)

Proceed(p) ==
  \/ LoadAccessToken(p) \/ CacheAnswer(p) \/ TakeNoAnswer(p)
  \/ Verify(p) \/ HasPermission(p)

Next ==
  \/ \E p \in Workers : Start(p) \/ AuthorizationServer(p) \/ Proceed(p)
  \/ \E t \in Tokens :
       \/ \E scope \in Grants[t], expires \in 2..MaxTime : IssueToken(t, scope, expires)
       \/ RevokeToken(t) \/ ClearExpired(t)
  \/ Tick

Spec == Init /\ [][Next]_vars
-----------------------------------------------------------------------------
(* Properties *)

\* The tables, the lists and the requests keep their types.
TypeOK ==
  /\ now \in Time
  /\ Issued \in [Tokens -> IssuedRow \cup {Absent}]
  /\ gone \in [Tokens -> 0..MaxTime]
  /\ AccessToken \in [Tokens -> Row \cup {Absent}]
  /\ appended \in [Views -> SUBSET Scopes]
  /\ pc \in [Workers -> Steps \cup Answers]
  /\ request \in [Workers -> Request \cup {Absent}]

Granting(p) == pc[p] # "granted" /\ pc'[p] = "granted"

\* A resource is given to a token only if the token was issued for all the scopes
\* the view needs for this method, whatever the cache went through since; a
\* session of the browser does not make up for a scope the token lacks.
GrantsAreCovered ==
  [][\A p \in Workers : Granting(p) =>
       LET t == request[p].token IN
       /\ Issued[t] # Absent
       /\ \E scopes \in Alternatives(request[p].view, request[p].method) :
            scopes \subseteq Issued[t].scope]_vars

\* How much later than it should a row ends for its zones: an exp read in another
\* zone than it was told in, or, without USE_TZ, compared with the clock of another
\* zone. All are 0 where USE_TZ is on and the setting names the zone of the exp.
Later(a, b) == IF a > b THEN a ELSE b

ExpDelay == IF USE_TZ THEN ExpTimeZone - AUTHENTICATION_SERVER_EXP_TIME_ZONE
            ELSE ExpTimeZone + Later(0, -AUTHENTICATION_SERVER_EXP_TIME_ZONE)

CapDelay == IF USE_TZ THEN 0 ELSE Later(0, AUTHENTICATION_SERVER_EXP_TIME_ZONE)

ClockDelay == IF USE_TZ THEN 0 ELSE -TIME_ZONE

\* The cache does not lengthen the life of a token whose expiry was told by more
\* than its zones differ.
NeverAfterExpiry ==
  [][\A p \in Workers : Granting(p) =>
       LET t == request[p].token IN
       t \in Dated => now < Issued[t].expires + ExpDelay + ClockDelay]_vars

\* A token that the authorization server revoked is refused at the latest
\* RESOURCE_SERVER_TOKEN_CACHING_SECONDS later, and what its zones differ, counted
\* from the last answer under way when it was revoked, however often it is used
\* meanwhile.
RevocationReachesCache ==
  [][\A p \in Workers : Granting(p) =>
       LET t == request[p].token IN
       gone[t] # 0 => now < gone[t] + RESOURCE_SERVER_TOKEN_CACHING_SECONDS
                              + CapDelay + ClockDelay]_vars

\* Who is told "insufficient_scope" lacks a scope of its own request, and does not
\* pay for another's: at the views whose scopes are copied for each request.
RefusedForOwnScopes ==
  [][\A p \in Workers :
       (Busy(p) /\ pc'[p] = "insufficient" /\ Kind[request[p].view] # "rw_protected_resource") =>
         \A scopes \in Alternatives(request[p].view, request[p].method) :
           ~AllowScopes(request[p].row, scopes)]_vars

\* decorators.py on rw_protected_resource: "GET, HEAD, OPTIONS http methods require
\* "read" scope. Otherwise "write" scope is required."
ReadNeedsNoWrite ==
  [][\A p \in Workers :
       (Busy(p) /\ pc'[p] = "insufficient" /\ Kind[request[p].view] = "rw_protected_resource") =>
         ~AllowScopes(request[p].row, Required(request[p].view, request[p].method))]_vars
-----------------------------------------------------------------------------
(* The inductive invariant: what makes the action properties above hold      *)

\* A row that the resource server has says no more of a token than what it was
\* issued with, and is good for the caching time at most, counted from now or from
\* when the token was gone, but for the zones of the readings.
RowSound(row, t) ==
  row # Absent =>
    /\ Issued[t] # Absent
    /\ row.scope = Issued[t].scope
    /\ t \in Dated => row.expires <= Issued[t].expires + ExpDelay
    /\ row.expires <= MaxCachingTime + CapDelay
    /\ gone[t] # 0 =>
         row.expires <= gone[t] + RESOURCE_SERVER_TOKEN_CACHING_SECONDS + CapDelay

CacheSound == \A t \in Tokens : gone[t] <= now /\ RowSound(AccessToken[t], t)

AnswerSound(answer, t) == answer # Absent => Issued[t] # Absent /\ answer = Told(t)

\* A request keeps such a row, or the answer of the authorization server.
RequestsSound ==
  \A p \in Workers : Busy(p) =>
    /\ request[p] # Absent
    /\ RowSound(request[p].row, request[p].token)
    /\ AnswerSound(request[p].answer, request[p].token)

\* Only rw_protected_resource has a list that its requests share.
ListsSound ==
  \A v \in Views : Kind[v] # "rw_protected_resource" => appended[v] = {}

Inv == TypeOK /\ CacheSound /\ RequestsSound /\ ListsSound
=============================================================================
