--------------------------- MODULE MCClientRequests ---------------------------
(* Instances of ClientRequests for TLC. *)
EXTENDS ClientRequests

CONSTANTS c1, c2, s1, s2, blank

TwoClients == {c1, c2}
ThreeSecrets == {s1, s2, blank}
Secret     == [c \in TwoClients |-> IF c = c1 THEN s1 ELSE s2]
NewSecret  == [c \in TwoClients |-> IF c = c1 THEN {blank} ELSE {}]

URI(scheme, host, path) ==
  [scheme |-> scheme, host |-> host, port |-> "", path |-> path, query |-> {}]

Exact    == URI("https", <<"www", ".", "music", ".", "org">>, "/cb")
Sibling  == URI("https", <<"beta", "-", "app", ".", "music", ".", "org">>, "/cb")
Other    == URI("https", <<"film", ".", "org">>, "/cb")
Elsewhere == URI("https", <<"www", ".", "music", ".", "org">>, "/other")
Wild     == URI("https", <<"*", ".", "music", ".", "org">>, "/cb")
WildApp  == URI("https", <<"*", "-", "app", ".", "music", ".", "org">>, "/cb")
WildTop  == URI("https", <<"*", ".", "org">>, "/cb")
WildMid  == URI("https", <<"www", ".", "*", ".", "org">>, "/cb")
WildRoot == URI("https", <<"*", ".", "org", ".">>, "/cb")
WildRooted == URI("https", <<"*", ".", "music", ".", "org", ".">>, "/cb")
Rooted   == URI("https", <<"film", ".", "org", ".">>, "/cb")
RootedExact == URI("https", <<"www", ".", "music", ".", "org", ".">>, "/cb")
Loop     == [URI("http", <<"127.0.0.1">>, "/cb") EXCEPT !.query = {"k=v"}]
LoopPort == [Loop EXCEPT !.port = "8000"]
Origin   == URI("https", <<"www", ".", "music", ".", "org">>, "")
WildOrigin == URI("https", <<"*", ".", "music", ".", "org">>, "")

AllURIs == {Exact, Sibling, Other, Elsewhere, Wild, WildApp, WildTop, WildMid,
            WildRoot, WildRooted, Rooted, RootedExact, Loop, LoopPort, Origin, WildOrigin}

Form(type, grant, algorithm, redirects, leaves, origins, skip) ==
  [client_type |-> type, authorization_grant_type |-> grant, algorithm |-> algorithm,
   redirect_uris |-> redirects, post_logout_redirect_uris |-> leaves,
   allowed_origins |-> origins, skip_authorization |-> skip,
   client_secret |-> s1, secret_text |-> s1]   \* replaced by Row

\* The first client is a web application whose registration changes, the second
\* serves devices.
FormsOf == [c \in TwoClients |->
  IF c = c1
  THEN {Form("confidential", "authorization-code", "", {Exact}, {Exact}, {Origin}, FALSE),
        Form("confidential", "authorization-code", "HS256", {Wild}, {WildTop}, {WildOrigin}, TRUE),
        Form("public", "openid-hybrid", "RS256", {WildApp, Loop}, {Exact}, {}, FALSE),
        Form("public", "implicit", "HS256", {Other}, {Loop}, {}, FALSE),
        Form("public", "authorization-code", "", {WildTop}, {}, {}, FALSE),
        Form("public", "authorization-code", "", {WildRoot}, {}, {}, FALSE),
        Form("public", "authorization-code", "", {WildRooted}, {}, {}, FALSE),
        Form("public", "authorization-code", "", {WildMid}, {}, {}, FALSE),
        Form("public", "implicit", "", {}, {}, {}, FALSE),
        Form("confidential", "client-credentials", "", {}, {Loop}, {Exact}, FALSE),
        Form("confidential", "client-credentials", "", {}, {Loop}, {}, FALSE)}
  ELSE {Form("public", "device-code", "", {}, {}, {}, FALSE),
        Form("confidential", "device-code", "", {}, {}, {}, FALSE)}]

Pair(c, s) == [client_id |-> c, client_secret |-> s]
Ask(grant, basic, c, s, origin) ==
  [grant_type |-> grant, basic |-> basic, client_id |-> c, client_secret |-> s,
   origin |-> origin]

TokenAsks ==
  {Ask("authorization_code", b, c, s, Origin) :
     b \in {Absent, Pair(c1, s1), Pair(c2, s1)},
     c \in {Absent, c1, c2}, s \in {blank, s1}}
  \cup {Ask("authorization_code", Pair(c2, s1), c1, s2, Absent)}
  \cup {Ask("client_credentials", Absent, c1, s, Absent) : s \in {blank, s1}}
  \cup {Ask(g, b, c2, s, Absent) : g \in {"device_code", "refresh_token", "password"},
          b \in {Absent, Pair(c2, s2)}, s \in {blank}}

AuthorizationAsks ==
  {[client_id |-> c1, redirect_uri |-> u, response_type |-> "code", scopes |-> {}] :
     u \in {Absent, Exact, Sibling, Other, Elsewhere, LoopPort, Rooted, RootedExact}}
  \cup {[client_id |-> c1, redirect_uri |-> u, response_type |-> r, scopes |-> {"read"}] :
          u \in {Absent, Sibling, LoopPort}, r \in {"id_token token", "code token"}}
  \cup {[client_id |-> c, redirect_uri |-> Absent, response_type |-> "code",
         scopes |-> {"unknown"}] : c \in {c1, c2}}

LogoutAsks ==
  {[client_id |-> c1, post_logout_redirect_uri |-> u] : u \in {Exact, Other, Loop}}
=============================================================================
