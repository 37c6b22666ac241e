----------------------------- MODULE MCInstall ------------------------------
(* Values for the constants of Install.                                    *)
EXTENDS Install

Release(comp, cfg, fw, hab) == [comp |-> comp, cfg |-> cfg, fw |-> fw, hab |-> hab]

\* Longer and shorter entries of the components on the MMC, by index.  The
\* configs of entries 6 and 7 are longer than MaxLength: the first is flashed,
\* the second cannot be padded.
Log == [i \in 0 .. 7 |->
          CASE i = 0 -> Release("os", 2, 2, 0)
            [] i = 1 -> Release("applet", 1, 1, 0)
            [] i = 2 -> Release("boot", 1, 1, 1)
            [] i = 3 -> Release("recovery", 1, 1, 1)
            [] i = 4 -> Release("applet", 2, 2, 0)
            [] i = 5 -> Release("os", 1, 1, 0)
            [] i = 6 -> Release("boot", 3, 2, 1)
            [] i = 7 -> Release("applet", 3, 1, 0)]

Blank == [a \in Addresses |-> Other]

Flags(fuse, wipe, os, applet) ==
  [fuse |-> fuse, wipe |-> wipe,
   override |-> [c \in {"os", "applet"} |-> IF c = "os" THEN os ELSE applet]]

\* Overrides: none, a right one, one that cannot be padded, one of another
\* component, one that is not in the log.
Choices == {Flags(TRUE, TRUE, None, None), Flags(FALSE, FALSE, 5, None),
            Flags(TRUE, FALSE, 0, 7), Flags(FALSE, TRUE, 4, 1),
            Flags(TRUE, FALSE, 0, 8)}
=============================================================================
