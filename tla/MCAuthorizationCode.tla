------------------------ MODULE MCAuthorizationCode ------------------------
(* Small instances of AuthorizationCode for TLC. *)
EXTENDS AuthorizationCode, TLC

CONSTANTS w1, w2, u1, u2, c1, c2, read, write, uri1, uri2, v1, v2

TwoWorkers == {w1, w2}
TwoUsers   == {u1, u2}
TwoClients == {c1, c2}
SecondClient == {c2}
OneScope   == {read}
TwoUris    == {uri1, uri2}
OneVerifier == {v1}

\* Where one application skips authorization, the two are not interchangeable.
Symmetry == Permutations(Workers) \cup Permutations(Users) \cup Permutations(RedirectUris)

\* What the last answer of an idle worker was is looked at by no action and no property.
View == <<now, db, [p \in Workers |-> IF Busy(p) THEN pc[p] ELSE "idle"], request, hist>>
=============================================================================
