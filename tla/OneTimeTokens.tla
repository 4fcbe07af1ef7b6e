--------------------------- MODULE OneTimeTokens ---------------------------
(***************************************************************************)
(* What rotation of refresh tokens promises a client (RFC 6749 section 6,  *)
(* docs/settings.rst on ROTATE_REFRESH_TOKEN and on reuse protection): a    *)
(* chain of tokens that begins with a grant, each good for one refresh,    *)
(* and that ends for good when a token of it is revoked or reused.         *)
(***************************************************************************)
CONSTANTS Tokens, None

VARIABLES
  status,    \* "unissued", "live" or "spent"
  origin,    \* the first token of the chain
  parent     \* the token this one was refreshed from

vars == <<status, origin, parent>>

Unissued == [t \in Tokens |-> "unissued"]
Nobody   == [t \in Tokens |-> None]

\* An empty server, or one that already has a grant.
Init ==
  \/ status = Unissued /\ origin = Nobody /\ parent = Nobody
  \/ \E t \in Tokens : /\ status = [Unissued EXCEPT ![t] = "live"]
                       /\ origin = [Nobody EXCEPT ![t] = t]
                       /\ parent = Nobody

Issue(t) ==
  /\ status[t] = "unissued"
  /\ status' = [status EXCEPT ![t] = "live"]
  /\ origin' = [origin EXCEPT ![t] = t]
  /\ UNCHANGED parent

\* One step: no other client can come between the old token and the new one.
Refresh(t, u) ==
  /\ status[t] = "live" /\ status[u] = "unissued"
  /\ status' = [status EXCEPT ![t] = "spent", ![u] = "live"]
  /\ origin' = [origin EXCEPT ![u] = origin[t]]
  /\ parent' = [parent EXCEPT ![u] = t]

Revoke(t) ==
  /\ status[t] = "live"
  /\ status' = [status EXCEPT ![t] = "spent"]
  /\ UNCHANGED <<origin, parent>>

\* A reuse ends the whole chain at once.
EndChain(o) ==
  /\ status' = [t \in Tokens |-> IF origin[t] = o THEN "spent" ELSE status[t]]
  /\ UNCHANGED <<origin, parent>>

Next ==
  \/ \E t \in Tokens : Issue(t) \/ Revoke(t) \/ EndChain(t)
  \/ \E t, u \in Tokens : Refresh(t, u)

Spec == Init /\ [][Next]_vars
=============================================================================
