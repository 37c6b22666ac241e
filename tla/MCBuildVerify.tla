---------------------------- MODULE MCBuildVerify -----------------------------
(* Values for the constants of BuildVerify: a good leaf, one of another      *)
(* version that does not match, and one that is not signed.                  *)
EXTENDS BuildVerify, Naturals

CONSTANTS v1, v2

ThreeLeaves == 1 .. 3
TheirVersions == [l \in ThreeLeaves |-> IF l = 2 THEN v2 ELSE v1]
AllButThird == ThreeLeaves \ {3}
AllButSecond == ThreeLeaves \ {2}
=============================================================================
