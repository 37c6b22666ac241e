---------------------------- MODULE MCProvision -----------------------------
(* Values for the constants of Provision.                                  *)
EXTENDS Provision

FlagsOf(fuse, wipe, anyway) == [fuse : fuse, wipe : wipe, anyway : anyway]

AllFlags    == FlagsOf(BOOLEAN, BOOLEAN, BOOLEAN)
FuseOnly    == FlagsOf({TRUE}, {FALSE}, {FALSE})
=============================================================================
