------------------------- MODULE MCProtectedResource -------------------------
(* Instances of ProtectedResource for TLC. *)
EXTENDS ProtectedResource

CONSTANTS w1, w2, t1, ta, music, read, write, introspection

TwoWorkers == {w1, w2}
TwoTokens  == {t1, ta}

\* One view for each way to guard it, named after it.
AllViews    == Kinds
AllScopes   == {music, read, write, introspection, <<music, read>>, <<music, write>>}
KindOfView  == [v \in AllViews |-> v]
RequiredScopes == [v \in AllViews |->
  IF v = "IsAuthenticatedOrTokenHasScope" THEN {write} ELSE {music}]
AlternativeLists ==
  [m \in Methods |-> CASE m = "GET"  -> {{read}}
                       [] m = "POST" -> {{music, write}, {<<music, write>>}}
                       [] OTHER      -> {}]

\* A token that reads, one that writes, and the one of the resource server.
TokenScopes == [t \in TwoTokens |->
                  IF t = t1 THEN {{music, read}, {music, write, <<music, read>>}}
                            ELSE {{introspection}}]

\* One worker meets every guard, the other the decorator that keeps a list. The token
\* of the resource server, whose exp is not told, is presented at one view.
Shared == [p \in TwoWorkers |->
  IF p = w1 THEN {<<"protected_resource", "GET", t1>>,
                  <<"ProtectedResourceMixin", "OPTIONS", t1>>,
                  <<"ReadWriteScopedResourceMixin", "GET", t1>>,
                  <<"ReadWriteScopedResourceMixin", "POST", t1>>,
                  <<"TokenHasScope", "OPTIONS", t1>>,
                  <<"TokenHasReadWriteScope", "POST", t1>>,
                  <<"TokenHasResourceScope", "GET", t1>>,
                  <<"IsAuthenticatedOrTokenHasScope", "POST", t1>>,
                  <<"TokenMatchesOASRequirements", "POST", t1>>,
                  <<"OAuth2TokenMiddleware", "GET", t1>>,
                  <<"OAuth2TokenMiddleware", "GET", ta>>}
  ELSE {"rw_protected_resource"} \X {"GET", "POST"} \X {t1}]

\* Both meet the decorator.
Decorated == [p \in TwoWorkers |-> {"rw_protected_resource"} \X {"GET", "POST"} \X {t1}]
=============================================================================
