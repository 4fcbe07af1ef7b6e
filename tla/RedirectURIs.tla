----------------------------- MODULE RedirectURIs -----------------------------
(***************************************************************************)
(* Which URIs an application may register (AllowedURIValidator, called by  *)
(* Application.clean) and which ones a registration admits when a request  *)
(* names one (redirect_to_uri_allowed, is_origin_allowed).                 *)
(*                                                                         *)
(* A host is the sequence of its tokens: a wildcard, a dot, a hyphen or a  *)
(* piece of a label, so that <<"*", "-", "app", ".", "example">> stands    *)
(* for *-app.example.  A host may end with a dot, that of the root of the  *)
(* domain name system, and is then split into one more label, an empty     *)
(* one.  Hosts are in lower case; user names, passwords and fragments are  *)
(* left out.                                                               *)
(***************************************************************************)
EXTENDS Naturals, FiniteSets, SequencesExt

CONSTANTS
  ALLOW_URI_WILDCARDS,
  ALLOWED_REDIRECT_URI_SCHEMES,
  ALLOWED_SCHEMES,        \* of origins
  URIs                    \* bound: the URIs that are registered or asked for

Punctuation == {"*", ".", "-"}

\* The port is the default one, or given; the path is "", or given.
IsURI(u) ==
  /\ DOMAIN u = {"scheme", "host", "port", "path", "query"}
  /\ u.host \in Seq(STRING)
  /\ IsFiniteSet(u.query)

ASSUME URIsAssumption ==
  /\ ALLOW_URI_WILDCARDS \in BOOLEAN
  /\ \A u \in URIs : IsURI(u)
-----------------------------------------------------------------------------
(* AllowedURIValidator *)

CountOf(token, host) == Cardinality({i \in DOMAIN host : host[i] = token})
Labels(host) == CountOf(".", host) + 1

StartsWith(host, token) == host # <<>> /\ Head(host) = token

\* Mutant of WildcardAllowed: the second level may be a wildcard.
WildcardInSecondLevel(host) ==
  CountOf("*", host) = 1 /\ StartsWith(host, "*") /\ Labels(host) >= 2

WildcardAllowed(host) ==
  CountOf("*", host) = 1 /\ StartsWith(host, "*") /\ Labels(host) >= 3

\* What is left of a host with a wildcard for Django's URLValidator
Drop(host, token) == IF StartsWith(host, token) THEN Tail(host) ELSE host
Stripped(host) == Drop(Drop(Tail(host), "."), "-")

\* The regular expression is not anchored at its end: a label to start with is enough.
ValidHost(host) == host # <<>> /\ Head(host) \notin Punctuation

HostValid(host) ==
  IF ALLOW_URI_WILDCARDS /\ CountOf("*", host) > 0
  THEN WildcardAllowed(host) /\ ValidHost(Stripped(host))
  ELSE ValidHost(host)

ValidRedirectURI(u) == u.scheme \in ALLOWED_REDIRECT_URI_SCHEMES /\ HostValid(u.host)

ValidOrigin(u) ==
  /\ u.scheme \in ALLOWED_SCHEMES
  /\ u.path = "" /\ u.query = {}
  /\ HostValid(u.host)
-----------------------------------------------------------------------------
(* redirect_to_uri_allowed and is_origin_allowed *)

HostMatches(allowed, host) ==
  IF ALLOW_URI_WILDCARDS /\ StartsWith(allowed, "*")
  THEN IsSuffix(Tail(allowed), host)
  ELSE allowed = host

IsLoopback(u) == u.scheme = "http" /\ u.host \in {<<"127.0.0.1">>, <<"::1">>}

Matches(allowed, u) ==
  /\ allowed.scheme = u.scheme
  /\ HostMatches(allowed.host, u.host)
  /\ IsLoopback(allowed) \/ allowed.port = u.port
  /\ allowed.path = u.path
  /\ allowed.query \subseteq u.query

RedirectToURIAllowed(u, allowed_uris) == \E allowed \in allowed_uris : Matches(allowed, u)

\* Schemes, hosts and ports are compared as they are: a wildcard admits itself.
IsOriginAllowed(u, allowed_origins) ==
  /\ u.scheme \in ALLOWED_SCHEMES
  /\ \E allowed \in allowed_origins :
       allowed.scheme = u.scheme /\ allowed.host = u.host /\ allowed.port = u.port
=============================================================================
