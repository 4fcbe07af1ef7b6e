---------------------------- MODULE MCTokenRemoval ----------------------------
(* Instances of TokenRemoval for TLC. *)
EXTENDS TokenRemoval, TLC

CONSTANTS w1, c1, c2, u1, u2, openid

OneWorker  == {w1}
OneClient  == {c1}
TwoClients == {c1, c2}
TwoUsers   == {u1, u2}
OneUser    == {u1}
OpenIdOnly == {openid}

UserSymmetry == Permutations(TwoUsers)
=============================================================================
