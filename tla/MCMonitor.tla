----------------------------- MODULE MCMonitor ------------------------------
(* Values for the constants of Monitor: small logs, one leaf whose build    *)
(* never works, and a start index that skips leaves.                       *)
EXTENDS Monitor

NoneBreakable == {}
OneBreakable  == {1}
=============================================================================
