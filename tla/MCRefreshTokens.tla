-------------------------- MODULE MCRefreshTokens --------------------------
(* Small instances of RefreshTokens for TLC. *)
EXTENDS RefreshRefinement, TLC

CONSTANTS w1, w2, c1, c2, read, write

TwoWorkers == {w1, w2}
OneWorker  == {w1}
OneClient  == {c1}
TwoClients == {c1, c2}
OneScope   == {read}
TwoScopes  == {read, write}

\* Workers, and applications, are interchangeable in every safety property.
Symmetry == Permutations(Workers) \cup Permutations(Clients)
=============================================================================
