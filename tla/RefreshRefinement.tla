------------------------- MODULE RefreshRefinement -------------------------
(***************************************************************************)
(* RefreshTokens served one request at a time and without a grace period   *)
(* implements OneTimeTokens.  A row counts as live until it is revoked,    *)
(* removed, or its family is found breached: the row by row revocation of  *)
(* validate_refresh_token is one step of the abstract chain.               *)
(***************************************************************************)
EXTENDS RefreshTokens

Status ==
  [r \in Pks |->
     IF lineage[r].origin = Null THEN "unissued"
     ELSE IF Live(r) /\ RefreshToken[r].token_family \notin breached THEN "live"
     ELSE "spent"]

Chain == INSTANCE OneTimeTokens WITH
           Tokens <- Pks, None <- Null, status <- Status,
           origin <- [r \in Pks |-> lineage[r].origin],
           parent <- [r \in Pks |-> lineage[r].parent]

\* Each refresh of the endpoint is one refresh of a one-time token, and each
\* detected reuse ends the chain (validate_refresh_token, _save_bearer_token).
ImplementsOneTimeTokens == Chain!Spec
=============================================================================
