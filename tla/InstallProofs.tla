---------------------------- MODULE InstallProofs -----------------------------
(***************************************************************************)
(* What is proved about the flash images, for every layout, log, set of    *)
(* flags and number of runs: what a run has installed can be read back, a  *)
(* write leaves the other components alone, no applet survives the first   *)
(* stage of a run that fuses, and wiping reaches all of the data.          *)
(***************************************************************************)
EXTENDS Install, TLAPS

\* Where the firmware of a component begins, and its part of the MMC.
Offset(c) == IF c = "boot" THEN BootloaderBlock ELSE ConfigBlock(c) + MaxLength

Region(c) == CASE c = "boot"   -> BootloaderBlock .. OsBlock - 1
               [] c = "os"     -> OsBlock .. AppletBlock - 1
               [] c = "applet" -> AppletBlock .. AppletDataBlock - 1

\* The first cell of a config, where a component has its config, says that the
\* firmware is where the component has it.
Canonical(c, cell) ==
  cell[1] = "config" /\ cell[3] = 0 =>
    cell[2].offset = Offset(c) /\ cell[2].size = Releases[cell[2].index].fw

Heads == \A c \in OnMmc : Canonical(c, disk[ConfigBlock(c)])

\* What the fetches of this run returned.
Asked(c) ==
  /\ want[c] \in Indices
  /\ Releases[want[c]].comp = c
  /\ Overridden(c) => want[c] = flags.override[c]

Prepared == pc \in {"flash", "wipe", "witness", "done"}

Fetched ==
  /\ pc = "fetch" => \A j \in 1 .. 4 : j < n => Asked(FetchOrder[j])
  /\ pc = "recovery" \/ Prepared => \A c \in Components : Asked(c)
  /\ Prepared => Releases[want["os"]].cfg <= MaxLength /\ Releases[want["applet"]].cfg <= MaxLength

Stages ==
  /\ pc = "wipe" => stage = 1 /\ flags.wipe
  /\ pc = "done" /\ flags.fuse => stage = 2
  /\ stage = 2 => flags.fuse

Holds(d, job) == \A k \in 0 .. job.len - 1 : d[job.at + k] = job.img[k]
OnDisk(job)   == Holds(disk, job)

\* The jobs of the first stage the run has left behind, and the real applet.
Past(j)   == pc # "flash" \/ stage = 2 \/ n > j
AppletOn  == pc # "flash" /\ (stage = 2 \/ ~flags.fuse)

Flashed ==
  Prepared /\ AllFit =>
    /\ Past(1) => OnDisk(trustedOS)
    /\ Past(2) => OnDisk(bootloader(want["boot"]))
    /\ Past(3) => OnDisk(bootloaderConfig(want["boot"]))
    /\ AppletOn => OnDisk(trustedApplet)

Fusing == flags.fuse /\ (pc = "wipe" \/ (pc = "witness" /\ stage = 1) \/ (pc = "flash" /\ stage = 2))
Dummy  == Fusing => disk[AppletBlock] = Zero

Wiped ==
  /\ pc = "wipe" => \A a \in AppletDataBlock .. AppletDataBlock + n - 1 : disk[a] = Zero
  /\ DataWiped

IInv == TypeOK /\ Fetched /\ Stages /\ Heads /\ Flashed /\ Dummy /\ Wiped

-----------------------------------------------------------------------------
(* Constants.                                                              *)

LEMMA Layout ==
  /\ BootloaderBlock \in Nat /\ BootloaderConfigBlock \in Nat /\ OsBlock \in Nat
  /\ AppletBlock \in Nat /\ AppletDataBlock \in Nat
  /\ AppletDataNumBlocks \in Nat \ {0} /\ MaxLength \in Nat \ {0} /\ MmcBlocks \in Nat
  /\ ChunkBlocks \in Nat \ {0}
  /\ BootloaderBlock <= BootloaderConfigBlock
  /\ BootloaderConfigBlock + MaxLength <= OsBlock
  /\ OsBlock + MaxLength <= AppletBlock
  /\ AppletBlock + MaxLength <= AppletDataBlock
  /\ AppletDataBlock + AppletDataNumBlocks <= MmcBlocks
  BY LayoutAssumption, InstallAssumption DEF LayoutAssumption, InstallAssumption

LEMMA Entry ==
  ASSUME NEW i \in Indices
  PROVE  /\ i \in Nat /\ i # None
         /\ Releases[i].cfg \in Nat \ {0} /\ Releases[i].fw \in Nat /\ Releases[i].hab \in Nat
  BY ReleaseAssumption DEF ReleaseAssumption, None

\* What is written is made of cells.
LEMMA CellTypes ==
  /\ Zero \in Cells /\ Other \in Cells
  /\ \A i \in Indices, k \in Nat : FirmwareCell(i, k) \in Cells /\ HabCell(i, k) \in Cells
  /\ \A cfg \in Configs, k \in Nat : ConfigCell(cfg, k) \in Cells
  BY Zenon DEF Cells, Zero, Other, FirmwareCell, HabCell, ConfigCell

LEMMA ConfigType ==
  ASSUME NEW i \in Indices, NEW offset \in Nat
  PROVE  LET cfg == configFromBundle(i, offset) IN
         /\ cfg \in Configs /\ EncodedLen(cfg) = Releases[i].cfg
         /\ cfg.offset = offset /\ cfg.size = Releases[i].fw /\ cfg.index = i
  BY Entry DEF configFromBundle, Configs, EncodedLen

-----------------------------------------------------------------------------
(* Images.                                                                 *)

\* An image is made of cells, and where it covers the place of a config it has
\* one of that component, or none.
Shape(job) ==
  /\ job.at \in Nat /\ job.len \in Nat
  /\ \A k \in 0 .. job.len - 1 :
       /\ job.img[k] \in Cells
       /\ \A c \in OnMmc : job.at + k = ConfigBlock(c) => Canonical(c, job.img[k])

\* The fields of a job are what it was made of.
LEMMA JobFields ==
  ASSUME NEW slot, NEW at, NEW len, NEW img
  PROVE  /\ Job(slot, at, len, img).slot = slot /\ Job(slot, at, len, img).at = at
         /\ Job(slot, at, len, img).len = len /\ Job(slot, at, len, img).img = img
  BY DEF Job

\* Three places for configs.
LEMMA ConfigBlocks ==
  /\ ConfigBlock("os") = OsBlock /\ ConfigBlock("applet") = AppletBlock
  /\ ConfigBlock("boot") = BootloaderConfigBlock
  /\ Offset("os") = OsBlock + MaxLength /\ Offset("applet") = AppletBlock + MaxLength
  /\ Offset("boot") = BootloaderBlock
  BY DEF ConfigBlock, Offset

\* Only the first cell of a config is looked at.
LEMMA NotHead ==
  /\ \A c : Canonical(c, Zero)
  /\ \A c, i, k : Canonical(c, FirmwareCell(i, k)) /\ Canonical(c, HabCell(i, k))
  /\ \A c, cfg, k : k # 0 => Canonical(c, ConfigCell(cfg, k))
  /\ \A c, cfg : cfg.offset = Offset(c) /\ cfg.size = Releases[cfg.index].fw
                   => Canonical(c, ConfigCell(cfg, 0))
  BY DEF Canonical, Zero, FirmwareCell, HabCell, ConfigCell

LEMMA ElfShape ==
  ASSUME NEW c \in {"os", "applet"}, NEW i \in Indices
  PROVE  LET job == prepareELF(c, i, ConfigBlock(c)) IN
         /\ Shape(job)
         /\ job.slot = c /\ job.at = ConfigBlock(c) /\ job.len = MaxLength + Releases[i].fw
<1> DEFINE block == ConfigBlock(c)
           cfg == configFromBundle(i, block + MaxLength)
           len == MaxLength + Releases[i].fw
           img == [k \in 0 .. len - 1 |->
                     IF k < EncodedLen(cfg) THEN ConfigCell(cfg, k)
                     ELSE IF k < MaxLength THEN Zero
                     ELSE FirmwareCell(i, k - MaxLength)]
           job == prepareELF(c, i, block)
<1>1. job = Job(c, block, len, img)
  BY DEF prepareELF
<1>2. job.slot = c /\ job.at = block /\ job.len = len /\ job.img = img
  BY <1>1, JobFields
<1>3. block \in Nat /\ block + MaxLength \in Nat /\ len \in Nat
  BY Layout, ConfigBlocks, Entry
<1>4. /\ cfg \in Configs /\ EncodedLen(cfg) = Releases[i].cfg
      /\ cfg.offset = block + MaxLength /\ cfg.size = Releases[i].fw /\ cfg.index = i
  BY <1>3, ConfigType
<1>5. ASSUME NEW k \in 0 .. len - 1
      PROVE  /\ img[k] \in Cells
             /\ \A d \in OnMmc : block + k = ConfigBlock(d) => Canonical(d, img[k])
  <2>1. k \in Nat
    BY <1>3
  <2> HIDE DEF cfg
  <2>2. CASE k < EncodedLen(cfg)
    <3>1. img[k] = ConfigCell(cfg, k)
      BY <2>2
    <3>2. img[k] \in Cells
      BY <3>1, <2>1, <1>4, CellTypes
    <3>3. ASSUME NEW d \in OnMmc, block + k = ConfigBlock(d) PROVE Canonical(d, img[k])
      <4>1. CASE k = 0
        <5>1. d = c
          BY <4>1, <3>3, Layout, ConfigBlocks DEF OnMmc
        <5>2. cfg.offset = Offset(d)
          BY <5>1, <1>4, ConfigBlocks
        <5> QED
          BY <5>2, <4>1, <3>1, <1>4, NotHead
      <4>2. CASE k # 0
        BY <4>2, <3>1, NotHead
      <4> QED
        BY <4>1, <4>2
    <3> QED
      BY <3>2, <3>3
  <2>3. CASE ~(k < EncodedLen(cfg)) /\ k < MaxLength
    <3>1. img[k] = Zero
      BY <2>3
    <3> QED
      BY <3>1, CellTypes, NotHead
  <2>4. CASE ~(k < EncodedLen(cfg)) /\ ~(k < MaxLength)
    <3>1. img[k] = FirmwareCell(i, k - MaxLength) /\ k - MaxLength \in Nat
      BY <2>1, <2>4, Layout
    <3> QED
      BY <3>1, CellTypes, NotHead
  <2> QED
    BY <2>2, <2>3, <2>4
<1> QED
  BY <1>2, <1>3, <1>5 DEF Shape

\* The zeros in place of the applet.
LEMMA DummyShape ==
  ASSUME want["applet"] \in Indices
  PROVE  /\ Shape(dummyApplet) /\ dummyApplet.slot = "applet" /\ dummyApplet.at = AppletBlock
         /\ dummyApplet.len = MaxLength + Releases[want["applet"]].fw
         /\ \A k \in 0 .. dummyApplet.len - 1 : dummyApplet.img[k] = Zero
<1>1. /\ trustedApplet.at = AppletBlock
      /\ trustedApplet.len = MaxLength + Releases[want["applet"]].fw
  BY ElfShape, ConfigBlocks DEF trustedApplet
<1> DEFINE len == trustedApplet.len
<1>2. len \in Nat
  BY <1>1, Layout, Entry
<1> HIDE DEF len
<1>3. /\ dummyApplet.slot = "applet" /\ dummyApplet.at = AppletBlock /\ dummyApplet.len = len
      /\ dummyApplet.img = [k \in 0 .. len - 1 |-> Zero]
  BY <1>1, JobFields DEF dummyApplet, len
<1>4. \A k \in 0 .. len - 1 : dummyApplet.img[k] = Zero
  BY <1>3
<1>5. Shape(dummyApplet)
  BY <1>2, <1>3, <1>4, CellTypes, NotHead, Layout DEF Shape
<1> QED
  BY <1>1, <1>3, <1>4, <1>5 DEF len

LEMMA BootShape ==
  ASSUME NEW i \in Indices
  PROVE  /\ Shape(bootloader(i)) /\ bootloader(i).slot = "boot"
         /\ bootloader(i).at = BootloaderBlock
         /\ bootloader(i).len = Releases[i].fw + Releases[i].hab
<1> DEFINE len == Releases[i].fw + Releases[i].hab
           img == [k \in 0 .. len - 1 |->
                     IF k < Releases[i].fw THEN FirmwareCell(i, k)
                     ELSE HabCell(i, k - Releases[i].fw)]
<1>1. /\ bootloader(i).slot = "boot" /\ bootloader(i).at = BootloaderBlock
      /\ bootloader(i).len = len /\ bootloader(i).img = img
  BY JobFields DEF bootloader
<1>2. len \in Nat
  BY Entry
<1>3. ASSUME NEW k \in 0 .. len - 1
      PROVE  img[k] \in Cells /\ \A c \in OnMmc : Canonical(c, img[k])
  <2>1. CASE k < Releases[i].fw
    <3>1. img[k] = FirmwareCell(i, k) /\ k \in Nat
      BY <1>2, <2>1
    <3> QED
      BY <3>1, CellTypes, NotHead
  <2>2. CASE ~(k < Releases[i].fw)
    <3>1. img[k] = HabCell(i, k - Releases[i].fw) /\ k - Releases[i].fw \in Nat
      BY <1>2, <2>2, Entry
    <3> QED
      BY <3>1, CellTypes, NotHead
  <2> QED
    BY <2>1, <2>2
<1> QED
  BY <1>1, <1>2, <1>3, Layout DEF Shape

LEMMA BootConfigShape ==
  ASSUME NEW i \in Indices
  PROVE  /\ Shape(bootloaderConfig(i)) /\ bootloaderConfig(i).slot = "boot"
         /\ bootloaderConfig(i).at = BootloaderConfigBlock
         /\ bootloaderConfig(i).len = Releases[i].cfg
<1> DEFINE cfg == configFromBundle(i, BootloaderBlock)
           img == [k \in 0 .. EncodedLen(cfg) - 1 |-> ConfigCell(cfg, k)]
<1>1. /\ bootloaderConfig(i).slot = "boot" /\ bootloaderConfig(i).at = BootloaderConfigBlock
      /\ bootloaderConfig(i).len = EncodedLen(cfg) /\ bootloaderConfig(i).img = img
  BY JobFields DEF bootloaderConfig
<1>2. /\ cfg \in Configs /\ EncodedLen(cfg) = Releases[i].cfg
      /\ cfg.offset = BootloaderBlock /\ cfg.size = Releases[i].fw /\ cfg.index = i
  BY Layout, ConfigType
<1> HIDE DEF cfg
<1>3. ASSUME NEW k \in 0 .. EncodedLen(cfg) - 1
      PROVE  /\ img[k] \in Cells
             /\ \A d \in OnMmc : BootloaderConfigBlock + k = ConfigBlock(d) => Canonical(d, img[k])
  <2>1. img[k] = ConfigCell(cfg, k) /\ k \in Nat
    BY <1>2, Entry
  <2>2. img[k] \in Cells
    BY <2>1, <1>2, CellTypes
  <2>3. ASSUME NEW d \in OnMmc, BootloaderConfigBlock + k = ConfigBlock(d)
        PROVE  Canonical(d, img[k])
    <3>1. CASE k = 0
      <4>1. d = "boot"
        BY <3>1, <2>3, Layout, ConfigBlocks DEF OnMmc
      <4>2. cfg.offset = Offset(d)
        BY <4>1, <1>2, ConfigBlocks
      <4> QED
        BY <4>2, <3>1, <2>1, <1>2, NotHead
    <3>2. CASE k # 0
      BY <3>2, <2>1, NotHead
    <3> QED
      BY <3>1, <3>2
  <2> QED
    BY <2>2, <2>3
<1> QED
  BY <1>1, <1>2, <1>3, Layout, Entry DEF Shape

-----------------------------------------------------------------------------
(* Writing.                                                                *)

\* What a write leaves, cell by cell.
LEMMA WriteCells ==
  ASSUME NEW img, NEW m \in Nat, NEW at \in Nat, WriteAt(img, m, at)
  PROVE  /\ \A k \in 0 .. m - 1 : at + k \in Addresses => disk'[at + k] = img[k]
         /\ \A a \in Addresses : a < at \/ at + m <= a => disk'[a] = disk[a]
<1>1. ASSUME NEW k \in 0 .. m - 1, at + k \in Addresses PROVE disk'[at + k] = img[k]
  <2>1. at + k \in at .. at + m - 1 /\ (at + k) - at = k
    OBVIOUS
  <2> QED
    BY <1>1, <2>1 DEF WriteAt
<1>2. ASSUME NEW a \in Addresses, a < at \/ at + m <= a PROVE disk'[a] = disk[a]
  <2>1. a \notin at .. at + m - 1
    BY <1>2 DEF Addresses
  <2> QED
    BY <2>1 DEF WriteAt
<1> QED
  BY <1>1, <1>2

\* A write of a sound image, whole or cut, leaves cells and sound configs.
LEMMA WriteOK ==
  ASSUME disk \in [Addresses -> Cells], Heads, NEW img, NEW m \in Nat, NEW at \in Nat,
         WriteAt(img, m, at),
         \A k \in 0 .. m - 1 :
           /\ img[k] \in Cells
           /\ \A c \in OnMmc : at + k = ConfigBlock(c) => Canonical(c, img[k])
  PROVE  disk' \in [Addresses -> Cells] /\ Heads'
<1>1. ASSUME NEW a \in Addresses
      PROVE  /\ disk'[a] \in Cells
             /\ \A c \in OnMmc : a = ConfigBlock(c) => Canonical(c, disk'[a])
  <2>1. CASE a \in at .. at + m - 1
    <3>1. a - at \in 0 .. m - 1 /\ at + (a - at) = a
      BY <2>1 DEF Addresses
    <3>2. disk'[a] = img[a - at]
      BY <2>1 DEF WriteAt
    <3> QED
      BY <3>1, <3>2
  <2>2. CASE a \notin at .. at + m - 1
    <3>1. disk'[a] = disk[a]
      BY <2>2 DEF WriteAt
    <3> QED
      BY <3>1 DEF Heads
  <2> QED
    BY <2>1, <2>2
<1>2. disk' \in [Addresses -> Cells]
  BY <1>1 DEF WriteAt
<1>3. \A c \in OnMmc : ConfigBlock(c) \in Addresses
  BY Layout, ConfigBlocks DEF OnMmc, Addresses
<1>4. Heads'
  <2>1. ASSUME NEW c \in OnMmc PROVE Canonical(c, disk'[ConfigBlock(c)])
    BY <1>1, <1>3
  <2> QED
    BY <2>1 DEF Heads, Canonical, ConfigBlock, Offset
<1> QED
  BY <1>2, <1>4

\* A job that was written whole is on the disk ...
LEMMA WriteHolds ==
  ASSUME NEW job, Shape(job), job.at + job.len <= MmcBlocks, WriteAt(job.img, job.len, job.at)
  PROVE  Holds(disk', job)
<1>1. \A k \in 0 .. job.len - 1 : job.at + k \in Addresses
  BY Layout DEF Shape, Addresses
<1>2. job.at \in Nat /\ job.len \in Nat
  BY DEF Shape
<1> QED
  BY <1>1, <1>2, WriteCells DEF Holds

\* ... and stays there when something else is written elsewhere.
LEMMA WriteKeeps ==
  ASSUME NEW job, Shape(job), job.at + job.len <= MmcBlocks, Holds(disk, job),
         NEW img, NEW m \in Nat, NEW at \in Nat, WriteAt(img, m, at),
         job.at + job.len <= at \/ at + m <= job.at
  PROVE  Holds(disk', job)
<1>1. job.at \in Nat /\ job.len \in Nat
  BY DEF Shape
<1>2. ASSUME NEW k \in 0 .. job.len - 1 PROVE disk'[job.at + k] = job.img[k]
  <2>1. job.at + k \in Addresses /\ (job.at + k < at \/ at + m <= job.at + k)
    BY <1>1, Layout DEF Addresses
  <2>2. disk'[job.at + k] = disk[job.at + k]
    BY <2>1, WriteCells
  <2> QED
    BY <2>2 DEF Holds
<1> QED
  BY <1>2 DEF Holds

\* The job in hand.
LEMMA JobInHand ==
  ASSUME TypeOK, Fetched, Stages, pc = "flash"
  PROVE  /\ want["os"] \in Indices /\ want["applet"] \in Indices /\ want["boot"] \in Indices
         /\ Len(FlashStage) = IF stage = 2 THEN 1 ELSE 4
         /\ stage = 2 => FlashStage[n] = trustedApplet
         /\ stage = 1 /\ n = 1 => FlashStage[n] = trustedOS
         /\ stage = 1 /\ n = 2 => FlashStage[n] = bootloader(want["boot"])
         /\ stage = 1 /\ n = 3 => FlashStage[n] = bootloaderConfig(want["boot"])
         /\ stage = 1 /\ n = 4 => FlashStage[n] = IF flags.fuse THEN dummyApplet ELSE trustedApplet
         /\ Shape(FlashStage[n])
<1>1. want["os"] \in Indices /\ want["applet"] \in Indices /\ want["boot"] \in Indices
  BY Zenon DEF Fetched, Prepared, Asked, Components
<1>2. stage \in {1, 2} /\ n \in 1 .. IF stage = 1 THEN 4 ELSE 1
  BY DEF TypeOK
<1>3. CASE stage = 2
  <2>1. FlashStage = <<trustedApplet>>
    BY <1>3 DEF FlashStage
  <2>2. n = 1
    BY <1>2, <1>3
  <2>3. Shape(trustedApplet)
    BY <1>1, ElfShape, ConfigBlocks DEF trustedApplet
  <2> QED
    BY <1>1, <1>3, <2>1, <2>2, <2>3
<1>4. CASE stage = 1
  <2>1. FlashStage = <<trustedOS, bootloader(want["boot"]), bootloaderConfig(want["boot"]),
                       IF flags.fuse THEN dummyApplet ELSE trustedApplet>>
    BY <1>4 DEF FlashStage
  <2>2. n \in 1 .. 4
    BY <1>2, <1>4
  <2>3. Shape(trustedApplet) /\ Shape(trustedOS)
    BY <1>1, ElfShape, ConfigBlocks DEF trustedApplet, trustedOS
  <2>4. Shape(bootloader(want["boot"])) /\ Shape(bootloaderConfig(want["boot"])) /\ Shape(dummyApplet)
    BY <1>1, BootShape, BootConfigShape, DummyShape
  <2> DEFINE b1 == trustedOS  b2 == bootloader(want["boot"])  b3 == bootloaderConfig(want["boot"])
             b4 == IF flags.fuse THEN dummyApplet ELSE trustedApplet
  <2>5. Shape(b1) /\ Shape(b2) /\ Shape(b3) /\ Shape(b4)
    BY <2>3, <2>4
  <2>6. FlashStage = <<b1, b2, b3, b4>>
    BY <2>1
  <2> HIDE DEF b1, b2, b3, b4
  <2>7. /\ Len(FlashStage) = 4
        /\ n = 1 => FlashStage[n] = b1
        /\ n = 2 => FlashStage[n] = b2
        /\ n = 3 => FlashStage[n] = b3
        /\ n = 4 => FlashStage[n] = b4
        /\ Shape(FlashStage[n])
    BY <2>2, <2>5, <2>6
  <2> QED
    BY <1>1, <1>4, <2>7 DEF b1, b2, b3, b4
<1> QED
  BY <1>2, <1>3, <1>4

\* Where the jobs of a run are, when its images fit.
LEMMA Places ==
  ASSUME want["os"] \in Indices, want["applet"] \in Indices, want["boot"] \in Indices
  PROVE  /\ trustedOS.at = OsBlock /\ trustedApplet.at = AppletBlock
         /\ trustedOS.slot = "os" /\ trustedApplet.slot = "applet"
         /\ trustedOS.len = MaxLength + Releases[want["os"]].fw
         /\ trustedApplet.len = MaxLength + Releases[want["applet"]].fw
         /\ Shape(trustedOS) /\ Shape(trustedApplet)
         /\ AllFit => /\ OsBlock + trustedOS.len <= AppletBlock
                      /\ AppletBlock + trustedApplet.len <= AppletDataBlock
                      /\ BootloaderBlock + bootloader(want["boot"]).len <= BootloaderConfigBlock
                      /\ BootloaderConfigBlock + bootloaderConfig(want["boot"]).len <= OsBlock
<1>1. /\ trustedOS.at = OsBlock /\ trustedApplet.at = AppletBlock
      /\ trustedOS.slot = "os" /\ trustedApplet.slot = "applet"
      /\ trustedOS.len = MaxLength + Releases[want["os"]].fw
      /\ trustedApplet.len = MaxLength + Releases[want["applet"]].fw
      /\ Shape(trustedOS) /\ Shape(trustedApplet)
  BY ElfShape, ConfigBlocks DEF trustedOS, trustedApplet
<1>2. ASSUME AllFit
      PROVE  /\ OsBlock + trustedOS.len <= AppletBlock
             /\ AppletBlock + trustedApplet.len <= AppletDataBlock
             /\ BootloaderBlock + bootloader(want["boot"]).len <= BootloaderConfigBlock
             /\ BootloaderConfigBlock + bootloaderConfig(want["boot"]).len <= OsBlock
  <2>1. /\ OsBlock + MaxLength + Releases[want["os"]].fw <= AppletBlock
        /\ AppletBlock + MaxLength + Releases[want["applet"]].fw <= AppletDataBlock
        /\ BootloaderBlock + Releases[want["boot"]].fw + Releases[want["boot"]].hab
              <= BootloaderConfigBlock
        /\ Releases[want["boot"]].cfg <= MaxLength
    BY <1>2 DEF AllFit, Fits, OnMmc
  <2>2. /\ bootloader(want["boot"]).len = Releases[want["boot"]].fw + Releases[want["boot"]].hab
        /\ bootloaderConfig(want["boot"]).len = Releases[want["boot"]].cfg
    BY BootShape, BootConfigShape
  <2> QED
    BY <1>1, <2>1, <2>2, Layout, Entry
<1> QED
  BY <1>1, <1>2

\* The chunk in hand ends within the data, and the last one at its end.
LEMMA ChunkInData ==
  ASSUME n \in Nat, n < AppletDataNumBlocks
  PROVE  /\ Chunk \in Nat /\ Chunk <= ChunkBlocks
         /\ n + Chunk <= AppletDataNumBlocks
         /\ IF n + ChunkBlocks < AppletDataNumBlocks THEN Chunk = ChunkBlocks
            ELSE n + Chunk = AppletDataNumBlocks
  BY Layout DEF Chunk

-----------------------------------------------------------------------------
(* Steps.                                                                  *)

\* The initial states satisfy the inductive invariant.
LEMMA InitOK == Init => IInv
<1> SUFFICES ASSUME Init PROVE IInv
  OBVIOUS
<1>1. pc = "idle" /\ stage = 1 /\ n = 0 /\ runs = 0 /\ flags = NoFlags /\ want = NoBundle
  BY DEF Init
<1>2. disk \in [Addresses -> {Zero, Other}] /\ MaxRuns \in Nat
  BY InstallAssumption DEF InstallAssumption, Init
<1>3. NoFlags \in FlagsOf /\ NoBundle \in [Components -> Indices \cup {None}]
  BY DEF NoFlags, FlagsOf, NoBundle, None
<1>4. TypeOK
  <2>1. disk \in [Addresses -> Cells]
    BY <1>2, CellTypes
  <2> QED
    BY <1>1, <1>2, <1>3, <2>1 DEF TypeOK, Pcs
<1>5. Heads
  <2>1. \A c \in OnMmc : ConfigBlock(c) \in Addresses
    BY Layout, ConfigBlocks DEF OnMmc, Addresses
  <2> QED
    BY <1>2, <2>1 DEF Heads, Canonical, Zero, Other
<1> QED
  BY <1>1, <1>4, <1>5 DEF IInv, Fetched, Prepared, Stages, Flashed, Dummy, Fusing, Wiped, DataWiped

\* A run that ends with an error says nothing of the disk but that it has cells.
LEMMA FailsOK ==
  ASSUME IInv, Fails, disk' \in [Addresses -> Cells], Heads'
  PROVE  IInv'
<1>1. pc' = "idle" /\ stage' = 1 /\ flags' = NoFlags /\ want' = NoBundle /\ n' = 0 /\ runs' = runs
  BY DEF Fails
<1>2. NoFlags \in FlagsOf /\ NoBundle \in [Components -> Indices \cup {None}]
  BY DEF NoFlags, FlagsOf, NoBundle, None
<1>3. TypeOK'
  BY <1>1, <1>2 DEF IInv, TypeOK, Pcs
<1> QED
  BY <1>1, <1>3 DEF IInv, Fetched, Prepared, Stages, Flashed, Dummy, Fusing, Wiped, DataWiped

\* Steps that write nothing leave the configs as they are.
LEMMA HeadsKept == ASSUME Heads, UNCHANGED disk PROVE Heads'
  BY DEF Heads, Canonical, ConfigBlock, Offset

LEMMA StartStep == ASSUME IInv, NEW f \in FlagChoices, StartTool(f) PROVE IInv'
<1>1. /\ pc' = "fetch" /\ stage' = 1 /\ n' = 1 /\ flags' = f /\ want' = NoBundle
      /\ runs < MaxRuns /\ runs' = runs + 1 /\ disk' = disk
  BY DEF StartTool
<1>2. f \in FlagsOf /\ MaxRuns \in Nat
  BY InstallAssumption DEF InstallAssumption
<1>3. NoBundle \in [Components -> Indices \cup {None}]
  BY DEF NoBundle, None
<1>4. TypeOK'
  BY <1>1, <1>2, <1>3 DEF IInv, TypeOK, Pcs
<1>5. Heads'
  BY <1>1, HeadsKept DEF IInv
<1> QED
  BY <1>1, <1>4, <1>5 DEF IInv, Fetched, Prepared, Stages, Flashed, Dummy, Fusing, Wiped, DataWiped

\* What has been fetched stays, and the new bundle is one that was asked for.
LEMMA FetchStep == ASSUME IInv, NEW i \in Indices, GetBundle(i) PROVE IInv'
<1>0. PICK c : c = FetchOrder[n]
  OBVIOUS
<1>1. /\ pc = "fetch" /\ Offers(c, i) /\ want' = [want EXCEPT ![c] = i]
      /\ AfterFetch /\ disk' = disk /\ stage' = stage /\ flags' = flags /\ runs' = runs
  BY <1>0 DEF GetBundle
<1>2. n \in 1 .. 4 /\ stage = 1 /\ want \in [Components -> Indices \cup {None}]
  BY <1>1 DEF IInv, TypeOK
<1>3. /\ FetchOrder[1] = "os" /\ FetchOrder[2] = "applet" /\ FetchOrder[3] = "boot"
      /\ FetchOrder[4] = "recovery" /\ Len(FetchOrder) = 4
  BY DEF FetchOrder
<1>4. c \in Components
  BY <1>0, <1>2, <1>3 DEF Components
<1>5. want' \in [Components -> Indices \cup {None}] /\ want'[c] = i
  BY <1>1, <1>2, <1>4
<1>6. \A d \in Components : d # c => want'[d] = want[d]
  BY <1>1, <1>2
<1>7. Asked(c)'
  BY <1>1, <1>5 DEF Offers, Asked, Overridden
<1>8. ASSUME NEW d \in Components, d # c, Asked(d) PROVE Asked(d)'
  BY <1>1, <1>6, <1>8 DEF Asked, Overridden
<1>9. \A j \in 1 .. 4 : j <= n => Asked(FetchOrder[j])'
  <2>1. ASSUME NEW j \in 1 .. 4, j <= n PROVE Asked(FetchOrder[j])'
    <3>1. CASE j = n
      BY <3>1, <1>0, <1>7
    <3>2. CASE j < n
      <4>1. Asked(FetchOrder[j])
        BY <3>2, <1>1 DEF IInv, Fetched
      <4>2. FetchOrder[j] # c /\ FetchOrder[j] \in Components
        BY <3>2, <1>0, <1>2, <1>3 DEF Components
      <4> QED
        BY <4>1, <4>2, <1>8
    <3> QED
      BY <2>1, <1>2, <3>1, <3>2
  <2> QED
    BY <2>1
<1>10. Heads'
  BY <1>1, HeadsKept DEF IInv
<1>11. CASE n < 4
  <2>1. n' = n + 1 /\ pc' = "fetch"
    BY <1>11, <1>1, <1>3 DEF AfterFetch
  <2>2. TypeOK'
    BY <2>1, <1>11, <1>1, <1>2, <1>5 DEF IInv, TypeOK
  <2>3. Fetched'
    BY <2>1, <1>2, <1>9 DEF Fetched, Prepared
  <2> QED
    BY <2>1, <2>2, <2>3, <1>1, <1>2, <1>10
       DEF IInv, Prepared, Stages, Flashed, Dummy, Fusing, Wiped, DataWiped
<1>12. CASE ~(n < 4)
  <2>1. n' = 0 /\ pc' = "recovery"
    BY <1>12, <1>1, <1>3 DEF AfterFetch
  <2>2. TypeOK'
    BY <2>1, <1>1, <1>2, <1>5 DEF IInv, TypeOK, Pcs
  <2>3. \A d \in Components : Asked(d)'
    <3>1. Asked("os")' /\ Asked("applet")' /\ Asked("boot")' /\ Asked("recovery")'
      BY <1>12, <1>2, <1>3, <1>9
    <3> QED
      BY <3>1 DEF Components
  <2>4. Fetched'
    BY <2>1, <2>3 DEF Fetched, Prepared
  <2> QED
    BY <2>1, <2>2, <2>4, <1>1, <1>2, <1>10
       DEF IInv, Prepared, Stages, Flashed, Dummy, Fusing, Wiped, DataWiped
<1> QED
  BY <1>11, <1>12

\* Nothing of this run is on the disk yet.
LEMMA RecoveryStep == ASSUME IInv, BootIntoRecovery PROVE IInv'
<1>1. /\ pc = "recovery" /\ pc' = "flash" /\ n' = 1 /\ disk' = disk /\ stage' = stage
      /\ flags' = flags /\ want' = want /\ runs' = runs
      /\ ~PaddingPanics(want["os"]) /\ ~PaddingPanics(want["applet"])
  BY DEF BootIntoRecovery
<1>2. stage = 1
  BY <1>1 DEF IInv, TypeOK
<1>3. TypeOK'
  BY <1>1, <1>2 DEF IInv, TypeOK, Pcs
<1>4. \A c \in Components : Asked(c)'
  BY <1>1 DEF IInv, Fetched, Asked, Overridden
<1>5. want["os"] \in Indices /\ want["applet"] \in Indices
  BY <1>1 DEF IInv, Fetched, Asked, Components
<1>6. Releases[want["os"]].cfg <= MaxLength /\ Releases[want["applet"]].cfg <= MaxLength
  BY <1>1, <1>5, Entry, Layout DEF PaddingPanics
<1>7. Fetched'
  BY <1>1, <1>4, <1>6 DEF Fetched
<1>8. Heads'
  BY <1>1, HeadsKept DEF IInv
<1>9. Flashed'
  BY <1>1, <1>2 DEF Flashed, Past, AppletOn
<1> QED
  BY <1>1, <1>2, <1>3, <1>7, <1>8, <1>9 DEF IInv, Stages, Dummy, Fusing, Wiped, DataWiped

\* With the flags, the bundles and the disk as they were, what is on the disk of
\* the jobs of a run stays true.
LEMMA SameJobs ==
  ASSUME UNCHANGED <<disk, want>>
  PROVE  /\ AllFit' = AllFit
         /\ OnDisk(trustedOS)' = OnDisk(trustedOS)
         /\ OnDisk(trustedApplet)' = OnDisk(trustedApplet)
         /\ OnDisk(bootloader(want["boot"]))' = OnDisk(bootloader(want["boot"]))
         /\ OnDisk(bootloaderConfig(want["boot"]))' = OnDisk(bootloaderConfig(want["boot"]))
  BY DEF AllFit, Fits, OnDisk, Holds, trustedOS, trustedApplet, bootloader, bootloaderConfig,
         prepareELF, configFromBundle, EncodedLen, ConfigCell, FirmwareCell, HabCell, Job, Zero

LEMMA AnswerStep == ASSUME IInv, WitnessAnswers PROVE IInv'
<1>1. /\ pc = "witness" /\ disk' = disk /\ flags' = flags /\ want' = want /\ runs' = runs
  BY DEF WitnessAnswers
<1>2. \A c \in Components : Asked(c)'
  BY <1>1 DEF IInv, Fetched, Prepared, Asked, Overridden
<1>3. Releases[want["os"]].cfg <= MaxLength /\ Releases[want["applet"]].cfg <= MaxLength
  BY <1>1 DEF IInv, Fetched, Prepared
<1>4. Heads'
  BY <1>1, HeadsKept DEF IInv
<1>5. AllFit => /\ OnDisk(trustedOS) /\ OnDisk(bootloader(want["boot"]))
                /\ OnDisk(bootloaderConfig(want["boot"]))
                /\ AppletOn => OnDisk(trustedApplet)
  BY <1>1 DEF IInv, Flashed, Prepared, Past
<1>6. CASE stage = 1 /\ flags.fuse
  <2>1. stage' = 2 /\ pc' = "flash" /\ n' = 1
    BY <1>6 DEF WitnessAnswers
  <2>2. TypeOK'
    BY <2>1, <1>1 DEF IInv, TypeOK, Pcs
  <2>3. Fetched'
    BY <2>1, <1>1, <1>2, <1>3 DEF Fetched
  <2>4. Flashed'
    BY <2>1, <1>1, <1>5, SameJobs DEF Flashed, AppletOn
  <2>5. Dummy'
    BY <2>1, <1>1, <1>6 DEF IInv, Dummy, Fusing, Zero
  <2> QED
    BY <2>1, <2>2, <2>3, <2>4, <2>5, <1>1, <1>4, <1>6 DEF IInv, Stages, Wiped, DataWiped
<1>7. CASE ~(stage = 1 /\ flags.fuse)
  <2>1. stage' = stage /\ pc' = "done" /\ n' = n
    BY <1>7 DEF WitnessAnswers
  <2>2. TypeOK'
    BY <2>1, <1>1 DEF IInv, TypeOK, Pcs
  <2>3. Fetched'
    BY <2>1, <1>1, <1>2, <1>3 DEF Fetched
  <2>4. AppletOn' = AppletOn
    BY <2>1, <1>1 DEF AppletOn
  <2>5. Flashed'
    BY <2>4, <1>1, <1>5, SameJobs DEF Flashed
  <2>6. Stages'
    BY <2>1, <1>1, <1>7 DEF IInv, Stages, TypeOK
  <2> QED
    BY <2>1, <2>2, <2>3, <2>5, <2>6, <1>1, <1>4 DEF IInv, Dummy, Fusing, Wiped, DataWiped
<1> QED
  BY <1>6, <1>7

\* A cut write of an image leaves cells and sound configs.
LEMMA CutStep == ASSUME IInv, FlashFails PROVE IInv'
<1>1. pc = "flash" /\ Fails
  BY DEF FlashFails
<1> DEFINE job == FlashStage[n]
<1>2. Shape(job)
  BY <1>1, JobInHand DEF IInv
<1>3. PICK m \in 0 .. job.len : job.at + m <= MmcBlocks /\ WriteAt(job.img, m, job.at)
  BY DEF FlashFails
<1>4. /\ m \in Nat /\ job.at \in Nat
      /\ \A k \in 0 .. m - 1 :
           /\ job.img[k] \in Cells
           /\ \A c \in OnMmc : job.at + k = ConfigBlock(c) => Canonical(c, job.img[k])
  BY <1>2 DEF Shape
<1> HIDE DEF job
<1>5. disk' \in [Addresses -> Cells] /\ Heads'
  BY <1>3, <1>4, WriteOK DEF IInv, TypeOK
<1> QED
  BY <1>1, <1>5, FailsOK

\* Zeros are cells and no config.
LEMMA ZerosOK ==
  ASSUME IInv, pc = "wipe", NEW m \in 0 .. Chunk, WriteAt(ZeroImage, m, AppletDataBlock + n)
  PROVE  /\ disk' \in [Addresses -> Cells] /\ Heads'
         /\ \A k \in 0 .. m - 1 : disk'[AppletDataBlock + n + k] = Zero
         /\ \A a \in Addresses : a < AppletDataBlock + n => disk'[a] = disk[a]
<1>1. n \in Nat /\ n < AppletDataNumBlocks
  BY DEF IInv, TypeOK
<1>2. Chunk \in Nat /\ Chunk <= ChunkBlocks /\ n + Chunk <= AppletDataNumBlocks
  BY <1>1, ChunkInData
<1>3. m \in Nat /\ AppletDataBlock + n \in Nat
  BY <1>1, <1>2, Layout
<1>4. \A k \in 0 .. m - 1 : ZeroImage[k] = Zero
  BY <1>2, Layout DEF ZeroImage
<1>5. \A k \in 0 .. m - 1 : AppletDataBlock + n + k \in Addresses
  BY <1>1, <1>2, Layout DEF Addresses
<1>6. disk' \in [Addresses -> Cells] /\ Heads'
  BY <1>3, <1>4, CellTypes, NotHead, WriteOK DEF IInv, TypeOK
<1> QED
  BY <1>3, <1>4, <1>5, <1>6, WriteCells

LEMMA WipeFailsStep == ASSUME IInv, WipeFails PROVE IInv'
<1>1. pc = "wipe" /\ Fails
  BY DEF WipeFails
<1>2. PICK m \in 0 .. Chunk : WriteAt(ZeroImage, m, AppletDataBlock + n)
  BY DEF WipeFails
<1> QED
  BY <1>1, <1>2, ZerosOK, FailsOK

\* A chunk of zeros joins those before it, and the images lie below.
LEMMA WipeStep == ASSUME IInv, WipeChunk PROVE IInv'
<1>1. /\ pc = "wipe" /\ WriteAt(ZeroImage, Chunk, AppletDataBlock + n)
      /\ stage' = stage /\ flags' = flags /\ want' = want /\ runs' = runs
  BY DEF WipeChunk
<1>2. n \in Nat /\ n < AppletDataNumBlocks /\ stage = 1 /\ flags.wipe
  BY <1>1 DEF IInv, TypeOK, Stages
<1>3. /\ Chunk \in Nat /\ n + Chunk <= AppletDataNumBlocks
      /\ IF n + ChunkBlocks < AppletDataNumBlocks THEN Chunk = ChunkBlocks
         ELSE n + Chunk = AppletDataNumBlocks
  BY <1>2, ChunkInData
<1>4. /\ disk' \in [Addresses -> Cells] /\ Heads'
      /\ \A k \in 0 .. Chunk - 1 : disk'[AppletDataBlock + n + k] = Zero
      /\ \A a \in Addresses : a < AppletDataBlock + n => disk'[a] = disk[a]
  <2>1. Chunk \in 0 .. Chunk
    BY <1>3
  <2> QED
    BY <1>1, <2>1, ZerosOK
<1>5. \A a \in AppletDataBlock .. AppletDataBlock + (n + Chunk) - 1 : disk'[a] = Zero
  <2>1. ASSUME NEW a \in AppletDataBlock .. AppletDataBlock + (n + Chunk) - 1
        PROVE  disk'[a] = Zero
    <3>1. CASE a < AppletDataBlock + n
      <4>1. a \in AppletDataBlock .. AppletDataBlock + n - 1
        BY <3>1, <1>2, Layout
      <4>2. disk[a] = Zero
        BY <4>1, <1>1 DEF IInv, Wiped
      <4>3. a \in Addresses
        BY <3>1, <1>2, Layout DEF Addresses
      <4> QED
        BY <3>1, <4>2, <4>3, <1>4
    <3>2. CASE ~(a < AppletDataBlock + n)
      <4>1. a - (AppletDataBlock + n) \in 0 .. Chunk - 1
        BY <3>2, <1>2, <1>3, Layout
      <4>2. AppletDataBlock + n + (a - (AppletDataBlock + n)) = a
        BY <1>2, Layout
      <4> QED
        BY <4>1, <4>2, <1>4
    <3> QED
      BY <3>1, <3>2
  <2> QED
    BY <2>1
<1>6. pc' \in {"wipe", "witness"} /\ n' \in Nat
      /\ (pc' = "wipe" => n' = n + Chunk /\ n' < AppletDataNumBlocks)
      /\ (pc' = "witness" => n + Chunk = AppletDataNumBlocks)
  BY <1>2, <1>3, Layout DEF WipeChunk
<1>7. TypeOK'
  BY <1>1, <1>2, <1>4, <1>6 DEF IInv, TypeOK, Pcs
<1>8. Fetched'
  <2>1. \A c \in Components : Asked(c)'
    BY <1>1 DEF IInv, Fetched, Prepared, Asked, Overridden
  <2> QED
    BY <2>1, <1>1, <1>6 DEF IInv, Fetched, Prepared
<1>9. Flashed'
  <2>1. want["os"] \in Indices /\ want["applet"] \in Indices /\ want["boot"] \in Indices
    BY <1>1 DEF IInv, Fetched, Prepared, Asked, Components
  <2>2. AllFit' = AllFit
    BY <1>1 DEF AllFit, Fits
  <2>3. ASSUME AllFit
        PROVE  /\ Holds(disk, trustedOS) /\ Holds(disk, bootloader(want["boot"]))
               /\ Holds(disk, bootloaderConfig(want["boot"]))
               /\ AppletOn' => Holds(disk, trustedApplet)
    <3>1. AppletOn' = AppletOn
      BY <1>1, <1>6 DEF AppletOn
    <3> QED
      BY <2>3, <3>1, <1>1 DEF IInv, Flashed, Prepared, Past, OnDisk
  <2>4. ASSUME AllFit, NEW job, Shape(job), Holds(disk, job), job.at + job.len <= AppletDataBlock
        PROVE  Holds(disk', job)
    <3>1. job.at \in Nat /\ job.len \in Nat /\ AppletDataBlock + n \in Nat
      BY <2>4, <1>2, Layout DEF Shape
    <3>2. job.at + job.len <= MmcBlocks /\ job.at + job.len <= AppletDataBlock + n
      BY <3>1, <2>4, <1>2, Layout
    <3> QED
      BY <3>1, <3>2, <2>4, <1>1, <1>3, WriteKeeps
  <2>5. ASSUME AllFit
        PROVE  /\ Holds(disk', trustedOS) /\ Holds(disk', bootloader(want["boot"]))
               /\ Holds(disk', bootloaderConfig(want["boot"]))
               /\ AppletOn' => Holds(disk', trustedApplet)
    <3>1. /\ Shape(trustedOS) /\ Shape(trustedApplet) /\ Shape(bootloader(want["boot"]))
          /\ Shape(bootloaderConfig(want["boot"]))
      BY <2>1, Places, BootShape, BootConfigShape
    <3>2. /\ trustedOS.at + trustedOS.len <= AppletDataBlock
          /\ trustedApplet.at + trustedApplet.len <= AppletDataBlock
          /\ bootloader(want["boot"]).at + bootloader(want["boot"]).len <= AppletDataBlock
          /\ bootloaderConfig(want["boot"]).at + bootloaderConfig(want["boot"]).len
                <= AppletDataBlock
      <4>1. /\ OsBlock + trustedOS.len <= AppletBlock
            /\ AppletBlock + trustedApplet.len <= AppletDataBlock
            /\ BootloaderBlock + bootloader(want["boot"]).len <= BootloaderConfigBlock
            /\ BootloaderConfigBlock + bootloaderConfig(want["boot"]).len <= OsBlock
        BY <2>1, <2>5, Places
      <4>2. /\ trustedOS.at = OsBlock /\ trustedApplet.at = AppletBlock
            /\ bootloader(want["boot"]).at = BootloaderBlock
            /\ bootloaderConfig(want["boot"]).at = BootloaderConfigBlock
        BY <2>1, Places, BootShape, BootConfigShape
      <4>3. /\ trustedOS.len \in Nat /\ trustedApplet.len \in Nat
            /\ bootloader(want["boot"]).len \in Nat /\ bootloaderConfig(want["boot"]).len \in Nat
        BY <3>1 DEF Shape
      <4> QED
        BY <4>1, <4>2, <4>3, Layout
    <3> QED
      BY <2>3, <2>4, <2>5, <3>1, <3>2
  <2>6. /\ trustedOS' = trustedOS /\ trustedApplet' = trustedApplet
        /\ bootloader(want["boot"])' = bootloader(want["boot"])
        /\ bootloaderConfig(want["boot"])' = bootloaderConfig(want["boot"])
    BY <1>1 DEF trustedOS, trustedApplet, bootloader, bootloaderConfig, prepareELF,
                configFromBundle, EncodedLen, ConfigCell, FirmwareCell, HabCell, Job, Zero
  <2>7. ASSUME AllFit
        PROVE  /\ OnDisk(trustedOS)' /\ OnDisk(bootloader(want["boot"]))'
               /\ OnDisk(bootloaderConfig(want["boot"]))'
               /\ AppletOn' => OnDisk(trustedApplet)'
    BY <2>5, <2>6, <2>7 DEF OnDisk, Holds
  <2> QED
    BY <2>2, <2>7 DEF Flashed
<1>10. Dummy'
  <2>1. AppletBlock \in Addresses /\ AppletBlock < AppletDataBlock + n
    BY <1>2, Layout DEF Addresses
  <2>2. disk'[AppletBlock] = disk[AppletBlock]
    BY <2>1, <1>4
  <2> QED
    BY <2>2, <1>1, <1>6 DEF IInv, Dummy, Fusing, Zero
<1>11. Wiped'
  <2>1. pc' = "wipe" => \A a \in AppletDataBlock .. AppletDataBlock + n' - 1 : disk'[a] = Zero
    BY <1>5, <1>6
  <2>2. pc' = "witness" =>
          \A a \in AppletDataBlock .. AppletDataBlock + AppletDataNumBlocks - 1 : disk'[a] = Zero
    BY <1>5, <1>6
  <2> QED
    BY <2>1, <2>2 DEF Wiped, DataWiped, Zero
<1>12. Stages'
  BY <1>1, <1>2, <1>6 DEF IInv, Stages
<1> QED
  BY <1>4, <1>7, <1>8, <1>9, <1>10, <1>11, <1>12 DEF IInv

\* What flashing a job does to the four jobs of a run, when the images fit.
LEMMA FlashJobs ==
  ASSUME IInv, FlashImage, AllFit
  PROVE  /\ FlashStage[n] = trustedOS \/ Holds(disk, trustedOS) => Holds(disk', trustedOS)
         /\ FlashStage[n] = bootloader(want["boot"]) \/ Holds(disk, bootloader(want["boot"]))
              => Holds(disk', bootloader(want["boot"]))
         /\ FlashStage[n] = bootloaderConfig(want["boot"])
                \/ Holds(disk, bootloaderConfig(want["boot"]))
              => Holds(disk', bootloaderConfig(want["boot"]))
         /\ FlashStage[n] = trustedApplet => Holds(disk', trustedApplet)
<1> DEFINE job == FlashStage[n]  os == trustedOS  ap == trustedApplet
           bl == bootloader(want["boot"])  bc == bootloaderConfig(want["boot"])
<1>1. pc = "flash" /\ job.at + job.len <= MmcBlocks /\ WriteAt(job.img, job.len, job.at)
  BY DEF FlashImage
<1>2. /\ want["os"] \in Indices /\ want["applet"] \in Indices /\ want["boot"] \in Indices
      /\ Shape(job)
      /\ job = os \/ job = bl \/ job = bc \/ job = ap \/ job = dummyApplet
  <2>1. stage \in {1, 2} /\ n \in 1 .. IF stage = 1 THEN 4 ELSE 1
    BY <1>1 DEF IInv, TypeOK
  <2> QED
    BY <1>1, <2>1, JobInHand DEF IInv
<1>3. /\ os.at = OsBlock /\ ap.at = AppletBlock
      /\ bl.at = BootloaderBlock /\ bc.at = BootloaderConfigBlock
      /\ OsBlock + os.len <= AppletBlock /\ AppletBlock + ap.len <= AppletDataBlock
      /\ BootloaderBlock + bl.len <= BootloaderConfigBlock
      /\ BootloaderConfigBlock + bc.len <= OsBlock
  BY <1>2, Places, BootShape, BootConfigShape
<1>4. Shape(os) /\ Shape(ap) /\ Shape(bl) /\ Shape(bc)
  BY <1>2, Places, BootShape, BootConfigShape
<1>5. /\ os.len \in Nat /\ ap.len \in Nat /\ bl.len \in Nat /\ bc.len \in Nat
      /\ job.at \in Nat /\ job.len \in Nat
  BY <1>2, <1>4 DEF Shape
<1>6. dummyApplet.at = AppletBlock /\ dummyApplet.len = ap.len
  BY <1>2, DummyShape, Places
<1>7. job = dummyApplet => job.at = AppletBlock /\ job.len = ap.len
  BY <1>6
<1>8. Holds(disk', job)
  BY <1>1, <1>2, WriteHolds
<1> HIDE DEF job, os, ap, bl, bc
<1>9. job = os \/ Holds(disk, os) => Holds(disk', os)
  <2>1. CASE job = os
    BY <2>1, <1>8
  <2>2. CASE job # os /\ Holds(disk, os)
    <3>1. os.at + os.len <= MmcBlocks
      BY <1>3, <1>5, Layout
    <3>2. os.at + os.len <= job.at \/ job.at + job.len <= os.at
      BY <2>2, <1>2, <1>3, <1>5, <1>7, Layout
    <3> QED
      BY <2>2, <3>1, <3>2, <1>1, <1>4, <1>5, WriteKeeps
  <2> QED
    BY <2>1, <2>2
<1>10. job = bl \/ Holds(disk, bl) => Holds(disk', bl)
  <2>1. CASE job = bl
    BY <2>1, <1>8
  <2>2. CASE job # bl /\ Holds(disk, bl)
    <3>1. bl.at + bl.len <= MmcBlocks
      BY <1>3, <1>5, Layout
    <3>2. bl.at + bl.len <= job.at \/ job.at + job.len <= bl.at
      BY <2>2, <1>2, <1>3, <1>5, <1>7, Layout
    <3> QED
      BY <2>2, <3>1, <3>2, <1>1, <1>4, <1>5, WriteKeeps
  <2> QED
    BY <2>1, <2>2
<1>11. job = bc \/ Holds(disk, bc) => Holds(disk', bc)
  <2>1. CASE job = bc
    BY <2>1, <1>8
  <2>2. CASE job # bc /\ Holds(disk, bc)
    <3>1. bc.at + bc.len <= MmcBlocks
      BY <1>3, <1>5, Layout
    <3>2. bc.at + bc.len <= job.at \/ job.at + job.len <= bc.at
      BY <2>2, <1>2, <1>3, <1>5, <1>7, Layout
    <3> QED
      BY <2>2, <3>1, <3>2, <1>1, <1>4, <1>5, WriteKeeps
  <2> QED
    BY <2>1, <2>2
<1>12. job = ap => Holds(disk', ap)
  BY <1>8
<1> QED
  BY <1>9, <1>10, <1>11, <1>12 DEF job, os, ap, bl, bc

\* A job joins those before it.
LEMMA FlashStep == ASSUME IInv, FlashImage PROVE IInv'
<1> DEFINE job == FlashStage[n]
<1>1. /\ pc = "flash" /\ job.at + job.len <= MmcBlocks /\ WriteAt(job.img, job.len, job.at)
      /\ stage' = stage /\ flags' = flags /\ want' = want /\ runs' = runs
  BY DEF FlashImage
<1>2. stage \in {1, 2} /\ n \in 1 .. IF stage = 1 THEN 4 ELSE 1
  BY <1>1 DEF IInv, TypeOK
<1>3. Shape(job) /\ Len(FlashStage) = IF stage = 2 THEN 1 ELSE 4
  BY <1>1, JobInHand DEF IInv
<1>4. /\ job.len \in Nat /\ job.at \in Nat
      /\ \A k \in 0 .. job.len - 1 :
           /\ job.img[k] \in Cells
           /\ \A c \in OnMmc : job.at + k = ConfigBlock(c) => Canonical(c, job.img[k])
  BY <1>3 DEF Shape
<1>5. disk' \in [Addresses -> Cells] /\ Heads'
  <2> HIDE DEF job
  <2> QED
    BY <1>1, <1>4, WriteOK DEF IInv, TypeOK
<1>6. CASE stage = 1 /\ n < 4
  <2>1. pc' = "flash" /\ n' = n + 1
    BY <1>6, <1>3, <1>1 DEF FlashImage
  <2>2. TypeOK'
    BY <2>1, <1>1, <1>2, <1>5, <1>6 DEF IInv, TypeOK
  <2>3. \A c \in Components : Asked(c)'
    BY <1>1 DEF IInv, Fetched, Prepared, Asked, Overridden
  <2>4. Fetched'
    BY <2>1, <2>3, <1>1 DEF IInv, Fetched, Prepared
  <2>5. ASSUME AllFit
        PROVE  /\ n >= 1 => Holds(disk', trustedOS)
               /\ n >= 2 => Holds(disk', bootloader(want["boot"]))
               /\ n >= 3 => Holds(disk', bootloaderConfig(want["boot"]))
    <3>1. /\ n > 1 => Holds(disk, trustedOS)
          /\ n > 2 => Holds(disk, bootloader(want["boot"]))
          /\ n > 3 => Holds(disk, bootloaderConfig(want["boot"]))
      BY <2>5, <1>1 DEF IInv, Flashed, Prepared, Past, OnDisk
    <3>2. /\ n = 1 => job = trustedOS
          /\ n = 2 => job = bootloader(want["boot"])
          /\ n = 3 => job = bootloaderConfig(want["boot"])
      BY <1>1, <1>6, JobInHand DEF IInv
    <3>3. n \in 1 .. 3
      BY <1>2, <1>6
    <3> HIDE DEF job
    <3> QED
      BY <2>5, <3>1, <3>2, <3>3, FlashJobs DEF job
  <2>6. Flashed'
    <3>1. AllFit' = AllFit
      BY <1>1 DEF AllFit, Fits
    <3>2. /\ trustedOS' = trustedOS
          /\ bootloader(want["boot"])' = bootloader(want["boot"])
          /\ bootloaderConfig(want["boot"])' = bootloaderConfig(want["boot"])
      BY <1>1 DEF trustedOS, bootloader, bootloaderConfig, prepareELF,
                  configFromBundle, EncodedLen, ConfigCell, FirmwareCell, HabCell, Job, Zero
    <3>3. ASSUME AllFit
          PROVE  /\ n >= 1 => OnDisk(trustedOS)'
                 /\ n >= 2 => OnDisk(bootloader(want["boot"]))'
                 /\ n >= 3 => OnDisk(bootloaderConfig(want["boot"]))'
      BY <2>5, <3>2, <3>3 DEF OnDisk, Holds
    <3>4. /\ Past(1)' => n >= 1
          /\ Past(2)' => n >= 2
          /\ Past(3)' => n >= 3
          /\ ~AppletOn'
      BY <2>1, <1>1, <1>2, <1>6 DEF Past, AppletOn
    <3> QED
      BY <3>1, <3>3, <3>4 DEF Flashed
  <2> QED
    BY <2>1, <2>2, <2>4, <2>6, <1>1, <1>5, <1>6
       DEF IInv, Stages, Dummy, Fusing, Wiped, DataWiped
<1>7. CASE stage = 2 \/ n = 4
  <2>1. n' = 0 /\ pc' = IF stage = 1 /\ flags.wipe THEN "wipe" ELSE "witness"
    BY <1>7, <1>2, <1>3 DEF FlashImage
  <2>2. TypeOK'
    BY <2>1, <1>1, <1>2, <1>5, Layout DEF IInv, TypeOK, Pcs
  <2>3. \A c \in Components : Asked(c)'
    BY <1>1 DEF IInv, Fetched, Prepared, Asked, Overridden
  <2>4. Fetched'
    BY <2>1, <2>3, <1>1 DEF IInv, Fetched, Prepared
  <2>5. IF stage = 2 \/ ~flags.fuse THEN job = trustedApplet ELSE job = dummyApplet
    BY <1>1, <1>2, <1>7, JobInHand DEF IInv
  <2>6. ASSUME AllFit
        PROVE  /\ Holds(disk', trustedOS) /\ Holds(disk', bootloader(want["boot"]))
               /\ Holds(disk', bootloaderConfig(want["boot"]))
               /\ stage = 2 \/ ~flags.fuse => Holds(disk', trustedApplet)
    <3>1. /\ Holds(disk, trustedOS) /\ Holds(disk, bootloader(want["boot"]))
          /\ Holds(disk, bootloaderConfig(want["boot"]))
      BY <2>6, <1>1, <1>2, <1>7 DEF IInv, Flashed, Prepared, Past, OnDisk
    <3> QED
      BY <2>5, <2>6, <3>1, FlashJobs
  <2>7. Flashed'
    <3>1. AllFit' = AllFit
      BY <1>1 DEF AllFit, Fits
    <3>2. /\ trustedOS' = trustedOS /\ trustedApplet' = trustedApplet
          /\ bootloader(want["boot"])' = bootloader(want["boot"])
          /\ bootloaderConfig(want["boot"])' = bootloaderConfig(want["boot"])
      BY <1>1 DEF trustedOS, trustedApplet, bootloader, bootloaderConfig, prepareELF,
                  configFromBundle, EncodedLen, ConfigCell, FirmwareCell, HabCell, Job, Zero
    <3>3. ASSUME AllFit
          PROVE  /\ OnDisk(trustedOS)' /\ OnDisk(bootloader(want["boot"]))'
                 /\ OnDisk(bootloaderConfig(want["boot"]))'
                 /\ stage = 2 \/ ~flags.fuse => OnDisk(trustedApplet)'
      BY <2>6, <3>2, <3>3 DEF OnDisk, Holds
    <3>4. AppletOn' => stage = 2 \/ ~flags.fuse
      BY <1>1 DEF AppletOn
    <3> QED
      BY <3>1, <3>3, <3>4 DEF Flashed
  <2>8. Dummy'
    <3>1. CASE stage = 2 \/ ~flags.fuse
      BY <3>1, <2>1, <1>1 DEF Dummy, Fusing
    <3>2. CASE ~(stage = 2 \/ ~flags.fuse)
      <4>1. job = dummyApplet
        BY <3>2, <2>5
      <4>2. want["applet"] \in Indices
        BY <1>1, JobInHand DEF IInv
      <4>3. job.at = AppletBlock /\ 0 \in 0 .. job.len - 1 /\ job.img[0] = Zero
        BY <4>1, <4>2, DummyShape, Layout, Entry
      <4>4. job.at + 0 \in Addresses /\ job.at + 0 = AppletBlock
        BY <4>3, Layout DEF Addresses
      <4> HIDE DEF job
      <4>5. disk'[AppletBlock] = Zero
        BY <1>1, <1>4, <4>3, <4>4, WriteCells
      <4> QED
        BY <4>5 DEF Dummy, Zero
    <3> QED
      BY <3>1, <3>2
  <2>9. Wiped'
    <3>1. AppletDataBlock .. AppletDataBlock + n' - 1 = {}
      BY <2>1, Layout
    <3>2. DataWiped'
      BY <2>1, <1>1 DEF DataWiped
    <3> QED
      BY <3>1, <3>2 DEF Wiped
  <2>10. Stages'
    BY <2>1, <1>1 DEF IInv, Stages
  <2> QED
    BY <2>2, <2>4, <2>7, <2>8, <2>9, <2>10, <1>5 DEF IInv
<1> QED
  BY <1>2, <1>6, <1>7

\* Every step keeps the inductive invariant.
LEMMA StepOK == IInv /\ [Next]_vars => IInv'
<1> SUFFICES ASSUME IInv, [Next]_vars PROVE IInv'
  OBVIOUS
<1>1. ASSUME NEW f \in FlagChoices, StartTool(f) PROVE IInv'
  BY <1>1, StartStep
<1>2. CASE StepFails
  <2>1. Fails /\ disk' = disk
    BY <1>2 DEF StepFails
  <2>2. disk' \in [Addresses -> Cells] /\ Heads'
    BY <2>1, HeadsKept DEF IInv, TypeOK
  <2> QED
    BY <2>1, <2>2, FailsOK
<1>3. CASE Fetch
  BY <1>3, FetchStep DEF Fetch
<1>4. CASE BootIntoRecovery
  BY <1>4, RecoveryStep
<1>5. CASE Write
  BY <1>5, FlashStep, CutStep, WipeStep, WipeFailsStep DEF Write
<1>6. CASE WitnessAnswers
  BY <1>6, AnswerStep
<1>7. CASE UNCHANGED vars
  <2>1. /\ disk' = disk /\ pc' = pc /\ stage' = stage /\ flags' = flags /\ want' = want
        /\ n' = n /\ runs' = runs
    BY <1>7 DEF vars, toolVars
  <2>2. TypeOK' /\ Stages' /\ Dummy' /\ Wiped' /\ Heads'
    BY <2>1, HeadsKept DEF IInv, TypeOK, Stages, Dummy, Fusing, Wiped, DataWiped, Zero
  <2>3. Fetched'
    BY <2>1 DEF IInv, Fetched, Prepared, Asked, Overridden
  <2>4. Flashed'
    <3>1. /\ Past(1)' = Past(1) /\ Past(2)' = Past(2) /\ Past(3)' = Past(3)
          /\ AppletOn' = AppletOn /\ Prepared' = Prepared
      BY <2>1 DEF Past, AppletOn, Prepared
    <3> QED
      BY <2>1, <3>1, SameJobs DEF IInv, Flashed
  <2> QED
    BY <2>2, <2>3, <2>4 DEF IInv
<1> QED
  BY <1>1, <1>2, <1>3, <1>4, <1>5, <1>6, <1>7 DEF Next

\* Type correctness of cmd/provision's data side.
THEOREM TypeCorrect == Spec => []TypeOK
<1>1. IInv => TypeOK
  BY DEF IInv
<1>2. QED
  BY <1>1, InitOK, StepOK, PTL DEF Spec

\* wipeAppletData zeroes every block of the applet's data, whatever the data and
\* the chunks measure.
THEOREM WholeDataWiped == Spec => []DataWiped
<1>1. IInv => DataWiped
  BY DEF IInv, Wiped
<1>2. QED
  BY <1>1, InitOK, StepOK, PTL DEF Spec

\* From the end of the first stage of a run that fuses until the second has
\* written the applet, no applet can be read: the dummy image has destroyed it,
\* at least its config.
THEOREM AppletDestroyed == Spec => []NoAppletWhileFusing
<1>1. ASSUME disk[AppletBlock] = Zero PROVE extractFirmware["applet"] = {}
  <2>1. ConfigBlock("applet") = AppletBlock /\ disk[AppletBlock][1] # "config"
    BY <1>1, ConfigBlocks DEF Zero
  <2>2. readConfig(AppletBlock) = {}
    BY <2>1 DEF readConfig
  <2>3. readFirmware(AppletBlock) = {}
    BY <2>2 DEF readFirmware
  <2> QED
    BY <2>1, <2>3 DEF extractFirmware, OnMmc
<1>2. IInv => NoAppletWhileFusing
  BY <1>1 DEF IInv, Dummy, Fusing, NoAppletWhileFusing
<1>3. QED
  BY <1>2, InitOK, StepOK, PTL DEF Spec

-----------------------------------------------------------------------------
(* Reading back.                                                           *)

\* The cells of an entry are where cmd/verify looks for them.
Stored(c, i) ==
  /\ \A k \in 0 .. Releases[i].cfg - 1 :
       disk[ConfigBlock(c) + k] = ConfigCell(configFromBundle(i, Offset(c)), k)
  /\ \A k \in 0 .. Releases[i].fw - 1 : disk[Offset(c) + k] = FirmwareCell(i, k)

\* An entry that fits lies in the part of the MMC its component has.
LEMMA InRegion ==
  ASSUME NEW c \in OnMmc, NEW i \in Indices, Fits(c, i)
  PROVE  /\ \A k \in 0 .. Releases[i].cfg - 1 :
              ConfigBlock(c) + k \in Region(c) /\ ConfigBlock(c) + k \in Addresses
         /\ \A k \in 0 .. Releases[i].fw - 1 :
              Offset(c) + k \in Region(c) /\ Offset(c) + k \in Addresses
         /\ Offset(c) \in Nat /\ Offset(c) + Releases[i].fw <= MmcBlocks
<1>1. Releases[i].cfg \in Nat /\ Releases[i].fw \in Nat /\ Releases[i].hab \in Nat
  BY Entry
<1>2. CASE c = "boot"
  BY <1>1, <1>2, Layout, ConfigBlocks DEF Fits, Region, Addresses
<1>3. CASE c = "os"
  BY <1>1, <1>3, Layout, ConfigBlocks DEF Fits, Region, Addresses
<1>4. CASE c = "applet"
  BY <1>1, <1>4, Layout, ConfigBlocks DEF Fits, Region, Addresses
<1> QED
  BY <1>2, <1>3, <1>4 DEF OnMmc

\* What is stored is read.
LEMMA StoredReads ==
  ASSUME NEW c \in OnMmc, NEW i \in Indices, Fits(c, i), Stored(c, i)
  PROVE  Reads(c, i)
<1> DEFINE cfg == configFromBundle(i, Offset(c))  block == ConfigBlock(c)
<1>1. /\ Offset(c) \in Nat /\ Offset(c) + Releases[i].fw <= MmcBlocks
      /\ Releases[i].cfg \in Nat \ {0} /\ Releases[i].cfg <= MaxLength
  BY InRegion, Entry DEF Fits
<1>2. /\ EncodedLen(cfg) = Releases[i].cfg
      /\ cfg.offset = Offset(c) /\ cfg.size = Releases[i].fw /\ cfg.index = i
  BY <1>1, ConfigType
<1> HIDE DEF cfg
<1>3. /\ \A k \in 0 .. EncodedLen(cfg) - 1 : disk[block + k] = ConfigCell(cfg, k)
      /\ disk[block] = ConfigCell(cfg, 0)
  <2>1. \A k \in 0 .. EncodedLen(cfg) - 1 : disk[block + k] = ConfigCell(cfg, k)
    BY <1>2 DEF Stored, cfg
  <2>2. block + 0 = block /\ 0 \in 0 .. EncodedLen(cfg) - 1
    BY <1>1, <1>2, Layout, ConfigBlocks DEF OnMmc
  <2> QED
    BY <2>1, <2>2
<1>4. disk[block][1] = "config" /\ disk[block][2] = cfg
  BY <1>3 DEF ConfigCell
<1>5. readConfig(block) = {cfg}
  BY <1>1, <1>2, <1>3, <1>4 DEF readConfig
<1>6. [k \in 0 .. cfg.size - 1 |-> disk[cfg.offset + k]]
        = [k \in 0 .. Releases[i].fw - 1 |-> FirmwareCell(i, k)]
  BY <1>2 DEF Stored
<1>7. readFirmware(block) = {BundleOf(i)}
  <2>1. {d \in readConfig(block) : d.offset + d.size <= MmcBlocks} = {cfg}
    BY <1>1, <1>2, <1>5
  <2>2. readFirmware(block)
          = {[index |-> cfg.index, firmware |-> [k \in 0 .. cfg.size - 1 |-> disk[cfg.offset + k]]]}
    BY <2>1 DEF readFirmware
  <2> QED
    BY <2>2, <1>2, <1>6 DEF BundleOf
<1> QED
  BY <1>7 DEF Reads, extractFirmware

StoredIsRead ==
  \A c \in OnMmc, i \in Indices : Fits(c, i) /\ Stored(c, i) => Reads(c, i)

\* ... also after a step.
LEMMA StoredReadsNext == StoredIsRead'
<1>1. StoredIsRead
  BY StoredReads DEF StoredIsRead
<1> QED
  BY <1>1, PTL

\* What is read is stored.
LEMMA ReadsStored ==
  ASSUME disk \in [Addresses -> Cells], Heads,
         NEW c \in OnMmc, NEW i \in Indices, Fits(c, i), Reads(c, i)
  PROVE  Stored(c, i)
<1> DEFINE block == ConfigBlock(c)
<1>1. BundleOf(i) \in readFirmware(block)
  BY DEF Reads, extractFirmware
<1>2. PICK cfg \in readConfig(block) :
        BundleOf(i) = [index |-> cfg.index,
                       firmware |-> [k \in 0 .. cfg.size - 1 |-> disk[cfg.offset + k]]]
  BY <1>1 DEF readFirmware
<1>3. /\ cfg.index = i
      /\ [k \in 0 .. Releases[i].fw - 1 |-> FirmwareCell(i, k)]
           = [k \in 0 .. cfg.size - 1 |-> disk[cfg.offset + k]]
  BY <1>2 DEF BundleOf
<1>4. /\ disk[block][1] = "config" /\ cfg = disk[block][2]
      /\ \A k \in 0 .. EncodedLen(cfg) - 1 : disk[block + k] = ConfigCell(cfg, k)
  BY <1>2 DEF readConfig
<1>5. EncodedLen(cfg) = Releases[i].cfg /\ Releases[i].cfg \in Nat \ {0}
  BY <1>3, Entry DEF EncodedLen
<1>6. block \in Addresses /\ block + 0 = block
  BY Layout, ConfigBlocks DEF OnMmc, Addresses
<1>7. disk[block] = ConfigCell(cfg, 0)
  <2>1. 0 \in 0 .. EncodedLen(cfg) - 1
    BY <1>5
  <2> QED
    BY <2>1, <1>4, <1>6
<1>8. cfg.offset = Offset(c) /\ cfg.size = Releases[i].fw
  <2>1. Canonical(c, disk[block])
    BY DEF Heads
  <2> QED
    BY <2>1, <1>3, <1>4, <1>7 DEF Canonical, ConfigCell
<1>9. cfg \in Configs
  <2>1. disk[block] \in Cells
    BY <1>6
  <2> QED
    BY <2>1, <1>4 DEF Cells, Zero, Other
<1>10. cfg = configFromBundle(i, Offset(c))
  BY <1>3, <1>8, <1>9 DEF Configs, configFromBundle
<1>11. \A k \in 0 .. Releases[i].fw - 1 : disk[Offset(c) + k] = FirmwareCell(i, k)
  BY <1>3, <1>8
<1> QED
  BY <1>4, <1>5, <1>10, <1>11 DEF Stored

\* The image in hand does not leave the part of its component, if it fits.
LEMMA JobInRegion ==
  ASSUME IInv, pc = "flash", Fits(FlashStage[n].slot, want[FlashStage[n].slot])
  PROVE  LET job == FlashStage[n] IN
         /\ job.slot \in OnMmc /\ job.at \in Nat /\ job.len \in Nat
         /\ job.at .. job.at + job.len - 1 \subseteq Region(job.slot)
<1> DEFINE job == FlashStage[n]
<1>1. /\ want["os"] \in Indices /\ want["applet"] \in Indices /\ want["boot"] \in Indices
      /\ Shape(job)
      /\ job \in {trustedOS, trustedApplet, dummyApplet, bootloader(want["boot"]),
                 bootloaderConfig(want["boot"])}
  <2>1. stage \in {1, 2} /\ n \in 1 .. IF stage = 1 THEN 4 ELSE 1
    BY DEF IInv, TypeOK
  <2> QED
    BY <2>1, JobInHand DEF IInv
<1>2. job.at \in Nat /\ job.len \in Nat
  BY <1>1 DEF Shape
<1>3. CASE job = trustedOS
  <2>1. job.slot = "os" /\ job.at = OsBlock /\ job.len = MaxLength + Releases[want["os"]].fw
    BY <1>1, <1>3, Places
  <2> QED
    BY <2>1, <1>1, <1>2, Layout, Entry DEF Fits, Region, OnMmc
<1>4. CASE job = trustedApplet \/ job = dummyApplet
  <2>1. job.slot = "applet" /\ job.at = AppletBlock /\ job.len = MaxLength + Releases[want["applet"]].fw
    BY <1>1, <1>4, Places, DummyShape
  <2> QED
    BY <2>1, <1>1, <1>2, Layout, Entry DEF Fits, Region, OnMmc
<1>5. CASE job = bootloader(want["boot"])
  <2>1. job.slot = "boot" /\ job.at = BootloaderBlock
        /\ job.len = Releases[want["boot"]].fw + Releases[want["boot"]].hab
    BY <1>1, <1>5, BootShape
  <2> QED
    BY <2>1, <1>1, <1>2, Layout, Entry DEF Fits, Region, OnMmc
<1>6. CASE job = bootloaderConfig(want["boot"])
  <2>1. job.slot = "boot" /\ job.at = BootloaderConfigBlock /\ job.len = Releases[want["boot"]].cfg
    BY <1>1, <1>6, BootConfigShape
  <2> QED
    BY <2>1, <1>1, <1>2, Layout, Entry DEF Fits, Region, OnMmc
<1> QED
  BY <1>1, <1>3, <1>4, <1>5, <1>6

\* What a step may write: only the part of the component in hand, and the data.
LEMMA WrittenRegion ==
  ASSUME IInv, [Next]_vars, NEW c \in OnMmc, ~InHand(c)
  PROVE  \A a \in Region(c) \cap Addresses : disk'[a] = disk[a]
<1> DEFINE job == FlashStage[n]
<1>1. CASE pc = "flash" /\ (FlashImage \/ FlashFails)
  <2>1. job.slot # c /\ Fits(job.slot, want[job.slot])
    BY <1>1 DEF InHand
  <2>2. /\ job.slot \in OnMmc /\ job.at \in Nat /\ job.len \in Nat
        /\ job.at .. job.at + job.len - 1 \subseteq Region(job.slot)
    BY <1>1, <2>1, JobInRegion
  <2> HIDE DEF job
  <2>3. PICK m \in 0 .. job.len : WriteAt(job.img, m, job.at)
    BY <1>1, <2>2 DEF FlashImage, FlashFails, job
  <2>4. ASSUME NEW a \in Region(c) \cap Addresses PROVE disk'[a] = disk[a]
    <3>1. a \notin Region(job.slot)
      BY <2>1, <2>2, Layout DEF Region, OnMmc
    <3>2. a \notin job.at .. job.at + m - 1
      BY <2>2, <2>3, <3>1
    <3> QED
      BY <2>3, <3>2 DEF WriteAt
  <2> QED
    BY <2>4
<1>2. CASE WipeChunk \/ WipeFails
  <2>1. pc = "wipe" /\ n \in Nat /\ n < AppletDataNumBlocks
    BY <1>2 DEF WipeChunk, WipeFails, IInv, TypeOK
  <2>2. Chunk \in Nat
    BY <2>1, ChunkInData
  <2>3. PICK m \in 0 .. Chunk : WriteAt(ZeroImage, m, AppletDataBlock + n)
    BY <1>2, <2>2 DEF WipeChunk, WipeFails
  <2>4. \A a \in Region(c) : a < AppletDataBlock
    BY Layout DEF Region, OnMmc
  <2> QED
    BY <2>1, <2>3, <2>4, Layout DEF WriteAt, Addresses
<1>3. CASE UNCHANGED disk
  BY <1>3
<1> QED
  BY <1>1, <1>2, <1>3 DEF Next, Write, StartTool, StepFails, Fetch, GetBundle, BootIntoRecovery,
     WitnessAnswers, FlashImage, FlashFails, vars

\* No write of flashImages or wipeAppletData, whole or cut, makes another
\* component unreadable: what cmd/verify could read of it, it still can.
THEOREM OthersStayReadable == Spec => OthersKept
<1>1. ASSUME IInv, [Next]_vars, NEW c \in OnMmc, NEW i \in Indices,
             Fits(c, i), Reads(c, i), ~InHand(c)
      PROVE  Reads(c, i)'
  <2>1. Stored(c, i)
    BY <1>1, ReadsStored DEF IInv, TypeOK
  <2>2. Stored(c, i)'
    <3>1. /\ \A k \in 0 .. Releases[i].cfg - 1 :
               disk'[ConfigBlock(c) + k] = ConfigCell(configFromBundle(i, Offset(c)), k)
          /\ \A k \in 0 .. Releases[i].fw - 1 : disk'[Offset(c) + k] = FirmwareCell(i, k)
      BY <1>1, <2>1, InRegion, WrittenRegion DEF Stored
    <3> QED
      BY <3>1 DEF Stored, ConfigBlock, Offset, ConfigCell, FirmwareCell, configFromBundle
  <2> QED
    BY <1>1, <2>2, StoredReadsNext DEF StoredIsRead, Fits
<1>2. IInv /\ [Next]_vars =>
        [\A c \in OnMmc, i \in Indices :
           Fits(c, i) /\ Reads(c, i) /\ ~InHand(c) => Reads(c, i)']_vars
  BY <1>1
<1>3. QED
  BY <1>2, InitOK, StepOK, PTL DEF Spec, OthersKept

LEMMA OnDiskJob ==
  ASSUME NEW slot, NEW at, NEW len, NEW img, OnDisk(Job(slot, at, len, img))
  PROVE  \A k \in 0 .. len - 1 : disk[at + k] = img[k]
  BY JobFields DEF OnDisk, Holds

\* An image of prepareELF that is on the MMC is an entry stored.
LEMMA ElfStored ==
  ASSUME NEW c \in {"os", "applet"}, NEW i \in Indices, Releases[i].cfg <= MaxLength,
         OnDisk(prepareELF(c, i, ConfigBlock(c)))
  PROVE  Stored(c, i)
<1> DEFINE cfg == configFromBundle(i, Offset(c))
           len == MaxLength + Releases[i].fw
           img == [k \in 0 .. len - 1 |->
                     IF k < EncodedLen(cfg) THEN ConfigCell(cfg, k)
                     ELSE IF k < MaxLength THEN Zero
                     ELSE FirmwareCell(i, k - MaxLength)]
<1>1. Offset(c) = ConfigBlock(c) + MaxLength /\ ConfigBlock(c) \in Nat /\ Offset(c) \in Nat
  BY ConfigBlocks, Layout
<1>2. prepareELF(c, i, ConfigBlock(c)) = Job(c, ConfigBlock(c), len, img)
  BY <1>1 DEF prepareELF
<1>3. EncodedLen(cfg) = Releases[i].cfg
  BY <1>1, ConfigType
<1>4. Releases[i].cfg \in Nat /\ Releases[i].fw \in Nat
  BY Entry
<1> HIDE DEF cfg
<1>5. \A k \in 0 .. len - 1 : disk[ConfigBlock(c) + k] = img[k]
  <2> HIDE DEF len, img
  <2> QED
    BY <1>2, OnDiskJob
<1>6. ASSUME NEW k \in 0 .. Releases[i].cfg - 1 PROVE disk[ConfigBlock(c) + k] = ConfigCell(cfg, k)
  <2>1. k \in 0 .. len - 1 /\ k < EncodedLen(cfg)
    BY <1>3, <1>4, Layout
  <2> QED
    BY <2>1, <1>5
<1>7. ASSUME NEW k \in 0 .. Releases[i].fw - 1 PROVE disk[Offset(c) + k] = FirmwareCell(i, k)
  <2>1. /\ MaxLength + k \in 0 .. len - 1
        /\ ~(MaxLength + k < EncodedLen(cfg)) /\ ~(MaxLength + k < MaxLength)
        /\ (MaxLength + k) - MaxLength = k
        /\ ConfigBlock(c) + (MaxLength + k) = Offset(c) + k
    BY <1>1, <1>3, <1>4, Layout
  <2> QED
    BY <2>1, <1>5
<1> QED
  BY <1>6, <1>7 DEF Stored, cfg

\* The bootloader and its config on the MMC are an entry stored, with the HAB
\* signature where the ROM looks for it.
LEMMA BootStored ==
  ASSUME NEW i \in Indices, OnDisk(bootloader(i)), OnDisk(bootloaderConfig(i))
  PROVE  Stored("boot", i) /\ RomLoads(i)
<1> DEFINE cfg == configFromBundle(i, BootloaderBlock)
<1>1. EncodedLen(cfg) = Releases[i].cfg
  BY Layout, ConfigType
<1>2. Releases[i].fw \in Nat /\ Releases[i].hab \in Nat
  BY Entry
<1>3. RomLoads(i)
  <2> DEFINE len == Releases[i].fw + Releases[i].hab
             img == [k \in 0 .. len - 1 |->
                       IF k < Releases[i].fw THEN FirmwareCell(i, k)
                       ELSE HabCell(i, k - Releases[i].fw)]
  <2>1. bootloader(i) = Job("boot", BootloaderBlock, len, img)
    BY DEF bootloader
  <2>2. \A k \in 0 .. len - 1 : disk[BootloaderBlock + k] = img[k]
    <3> HIDE DEF len, img
    <3> QED
      BY <2>1, OnDiskJob
  <2>3. ASSUME NEW k \in 0 .. len - 1
        PROVE  disk[BootloaderBlock + k] = IF k < Releases[i].fw THEN FirmwareCell(i, k)
                                           ELSE HabCell(i, k - Releases[i].fw)
    <3>1. img[k] = IF k < Releases[i].fw THEN FirmwareCell(i, k)
                   ELSE HabCell(i, k - Releases[i].fw)
      OBVIOUS
    <3> HIDE DEF len, img
    <3> QED
      BY <2>2, <3>1
  <2> HIDE DEF img
  <2>4. ASSUME NEW k \in 0 .. len - 1, k < Releases[i].fw
        PROVE  disk[BootloaderBlock + k] = FirmwareCell(i, k)
    BY <2>3, <2>4
  <2>5. ASSUME NEW k \in 0 .. len - 1, ~(k < Releases[i].fw)
        PROVE  disk[BootloaderBlock + k] = HabCell(i, k - Releases[i].fw)
    BY <2>3, <2>5
  <2> QED
    BY <1>2, <2>4, <2>5 DEF RomLoads
<1> HIDE DEF cfg
<1>4. \A k \in 0 .. Releases[i].cfg - 1 :
        disk[BootloaderConfigBlock + k] = ConfigCell(cfg, k)
  <2> DEFINE len == EncodedLen(cfg)  img == [k \in 0 .. len - 1 |-> ConfigCell(cfg, k)]
  <2>1. bootloaderConfig(i) = Job("boot", BootloaderConfigBlock, len, img)
    BY DEF bootloaderConfig, cfg
  <2>2. \A k \in 0 .. len - 1 : disk[BootloaderConfigBlock + k] = img[k]
    <3> HIDE DEF len, img
    <3> QED
      BY <2>1, OnDiskJob
  <2> QED
    BY <2>2, <1>1
<1>5. ASSUME NEW k \in 0 .. Releases[i].fw - 1 PROVE disk[BootloaderBlock + k] = FirmwareCell(i, k)
  <2>1. k \in 0 .. Releases[i].fw + Releases[i].hab - 1 /\ k < Releases[i].fw
    BY <1>2
  <2> QED
    BY <2>1, <1>3 DEF RomLoads
<1> QED
  BY <1>3, <1>4, <1>5, ConfigBlocks DEF Stored, cfg

\* What a run of cmd/provision that ends well has installed, cmd/verify reads
\* back whole: the bundles this run fetched, whatever was on the MMC before.
THEOREM InstalledReadsBack == Spec => []ReadsBack
<1>1. ASSUME IInv, pc = "done", AllFit
      PROVE  /\ \A c \in OnMmc : Reads(c, want[c]) /\ Asked(c)
             /\ RomLoads(want["boot"])
  <2>1. \A c \in OnMmc : want[c] \in Indices /\ Asked(c)
    BY <1>1 DEF IInv, Fetched, Prepared, Asked, OnMmc, Components
  <2>2. /\ Releases[want["os"]].cfg <= MaxLength /\ Releases[want["applet"]].cfg <= MaxLength
        /\ OnDisk(trustedOS) /\ OnDisk(trustedApplet)
        /\ OnDisk(bootloader(want["boot"])) /\ OnDisk(bootloaderConfig(want["boot"]))
    BY <1>1 DEF IInv, Fetched, Flashed, Prepared, Past, AppletOn, Stages
  <2>3. Stored("os", want["os"])
    BY <2>1, <2>2, ElfStored, ConfigBlocks DEF trustedOS, OnMmc
  <2>4. Stored("applet", want["applet"])
    BY <2>1, <2>2, ElfStored, ConfigBlocks DEF trustedApplet, OnMmc
  <2>5. Stored("boot", want["boot"]) /\ RomLoads(want["boot"])
    BY <2>1, <2>2, BootStored DEF OnMmc
  <2>6. \A c \in OnMmc : Stored(c, want[c]) /\ Fits(c, want[c])
    BY <1>1, <2>3, <2>4, <2>5 DEF OnMmc, AllFit
  <2> QED
    BY <2>1, <2>5, <2>6, StoredReads
<1>2. IInv => ReadsBack
  BY <1>1 DEF ReadsBack, Asked
<1>3. QED
  BY <1>2, InitOK, StepOK, PTL DEF Spec
=============================================================================
