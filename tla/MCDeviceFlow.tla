---------------------------- MODULE MCDeviceFlow ----------------------------
(* Small instances of DeviceFlow for TLC. *)
EXTENDS DeviceFlow, TLC

CONSTANTS b1, b2, d1, u1, u2, c1, c2, k1, k2

OneBrowser  == {b1}
TwoBrowsers == {b1, b2}
OnePoller   == {d1}
TwoUsers    == {u1, u2}
OneClient   == {c1}
TwoClients  == {c1, c2}
OneCode     == {k1}
TwoCodes    == {k1, k2}

Symmetry == Permutations(Browsers) \cup Permutations(Users)
              \cup Permutations(Clients) \cup Permutations(UserCodes)
=============================================================================
