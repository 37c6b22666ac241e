-------------------------- MODULE MCReleasePipeline ---------------------------
(* Values for the constants of ReleasePipeline: a component with two keys    *)
(* and one with a HAB signature.                                             *)
EXTENDS ReleasePipeline

OsAndBoot == {[comp |-> "os", rel |-> 1], [comp |-> "boot", rel |-> 1]}
=============================================================================
