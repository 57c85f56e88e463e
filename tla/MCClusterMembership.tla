------------------------- MODULE MCClusterMembership -------------------------
(* A worker the configuration lists and one it does not; either may call in  *)
(* by itself, so that the listed one may be connected both ways.             *)
EXTENDS ClusterMembership, TLC

CONSTANTS m, w, p1, p2, s1, s2

ListedAndNot == {m, w}
Listed == {m}
TwoPeers == {p1, p2}
TwoSessions == {s1, s2}
=============================================================================
