--------------------------- MODULE WitnessDevice ----------------------------
(***************************************************************************)
(* The ArmoredWitness hardware as the host tools of this repository see    *)
(* it: what is in each region of the MMC, which keys are fused, and what   *)
(* the board shows on the USB bus.  None of this is code under src/; it is *)
(* modelled from what provision and verify rely on.                        *)
(***************************************************************************)
EXTENDS Naturals

CONSTANTS
  Devices,     \* boards on the operator's desk
  HabTarget,   \* --hab_target: environment the boot and recovery images are signed for
  OldBootEnv   \* environment an earlier bootloader was signed for

Envs  == {"ci", "prod"}                \* values of expectedSRKHashes
Slots == {"os", "boot", "conf", "applet", "data"}

ASSUME DeviceAssumption ==
  /\ HabTarget \in Envs
  /\ OldBootEnv \in Envs

VARIABLES
  mode,   \* what each board is doing
  mmc,    \* contents of each region of its MMC
  fuses   \* environment whose SRK hash is fused, or "no"

deviceVars == <<mode, mmc, fuses>>

\* "sdp": serial download, a HID device; "ums": recovery image, a block
\* device; "witness": Trusted OS, a U2F device; "off": unplugged or hung, not
\* on the bus.
Modes    == {"off", "sdp", "ums", "witness"}

\* "none": factory blank; "old": left by an earlier life of the board; "new":
\* written by this run's artefacts; "zero": overwritten with zeros; "junk": a
\* write that was cut short.
Contents == {"none", "old", "new", "zero", "junk"}

DeviceTypeOK ==
  /\ mode \in [Devices -> Modes]
  /\ mmc \in [Devices -> [Slots -> Contents]]
  /\ fuses \in [Devices -> Envs \cup {"no"}]

\* A board is new, or it was provisioned before, and then perhaps fused to
\* the environment of its bootloader.
DeviceInit ==
  /\ mode = [d \in Devices |-> "off"]
  /\ \E used \in SUBSET Devices : \E locked \in SUBSET used :
       /\ mmc = [d \in Devices |->
                   [s \in Slots |-> IF d \in used THEN "old" ELSE "none"]]
       /\ fuses = [d \in Devices |-> IF d \in locked THEN OldBootEnv ELSE "no"]

Image == {"old", "new"}   \* contents that are a complete image

BootEnv(image) == IF image = "new" THEN HabTarget ELSE OldBootEnv

\* The ROM of a fused board runs only what is signed for its environment.
RomAccepts(d, env) == fuses[d] \in {"no", env}

RecoveryBoots(d) == RomAccepts(d, HabTarget)

Bootable(d) ==
  /\ \A s \in {"os", "boot", "conf"} : mmc[d][s] \in Image
  /\ RomAccepts(d, BootEnv(mmc[d]["boot"]))

\* The applet is started by the OS whenever there is one.
AppletRuns(d) == mmc[d]["applet"] \in Image

Switches == {"usb", "mmc", "none"}

\* What a board does after the operator power-cycles it with the boot switch
\* towards USB or towards MMC, or ("none") leaves it without power.
AfterPower(d, switch) ==
  IF switch = "usb" THEN "sdp"
  ELSE IF switch = "mmc" /\ Bootable(d) THEN "witness" ELSE "off"

=============================================================================
