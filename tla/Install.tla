------------------------------- MODULE Install --------------------------------
(***************************************************************************)
(* The data side of cmd/provision: the bundles one run fetches, the images *)
(* it makes of them and where these go on the MMC, run after run on the    *)
(* same board.  Provision models what happens around it: which board it    *)
(* is, how it boots and is fused.                                          *)
(***************************************************************************)
EXTENDS FirmwareMmc, Sequences

CONSTANTS
  FlagChoices,   \* the --fuse, --wipe_witness_state, --os_index and
                 \* --applet_index an operator may pass
  ChunkBlocks,   \* chunkBlocks of wipeAppletData
  MaxRuns        \* bound: runs of the tool

None == -1   \* no override, nothing fetched

FlagsOf == [fuse : BOOLEAN, wipe : BOOLEAN, override : [{"os", "applet"} -> Int]]

ASSUME InstallAssumption ==
  /\ FlagChoices \subseteq FlagsOf
  /\ ChunkBlocks \in Nat \ {0}
  /\ MaxRuns \in Nat
  /\ FactoryDisk \in [Addresses -> {Zero, Other}]

VARIABLES
  pc,      \* where the run is
  stage,   \* 1: first boot into recovery, 2: the one after fusing
  flags,   \* the flags of this run
  want,    \* index of the entry fetched for each component
  n,       \* the index of the loop the run is in
  runs     \* runs so far

toolVars == <<pc, stage, flags, want, n, runs>>
vars == <<disk, toolVars>>

NoFlags  == [fuse |-> FALSE, wipe |-> FALSE, override |-> [c \in {"os", "applet"} |-> None]]
NoBundle == [c \in Components |-> None]

\* "idle": not started, or ended by an error; "witness": the board runs what was
\* installed, and what Provision models happens.
Pcs     == {"idle", "fetch", "recovery", "flash", "wipe", "witness", "done"}
Running == Pcs \ {"idle", "done"}

TypeOK ==
  /\ disk \in [Addresses -> Cells]
  /\ pc \in Pcs
  /\ stage \in {1, 2} /\ (stage = 2 => pc \in {"flash", "witness", "done"})
  /\ flags \in FlagsOf
  /\ want \in [Components -> Indices \cup {None}]
  /\ n \in Nat /\ runs \in 0 .. MaxRuns
  /\ pc = "fetch" => n \in 1 .. 4
  /\ pc = "flash" => n \in 1 .. IF stage = 1 THEN 4 ELSE 1
  /\ pc = "wipe" => n < AppletDataNumBlocks

Init ==
  /\ disk = FactoryDisk
  /\ pc = "idle" /\ stage = 1 /\ flags = NoFlags /\ want = NoBundle /\ n = 0 /\ runs = 0

StartTool(f) ==
  /\ pc \notin Running
  /\ runs < MaxRuns
  /\ runs' = runs + 1
  /\ pc' = "fetch" /\ stage' = 1 /\ n' = 1 /\ flags' = f /\ want' = NoBundle
  /\ UNCHANGED disk

Fails ==
  /\ pc' = "idle" /\ stage' = 1 /\ flags' = NoFlags /\ want' = NoBundle /\ n' = 0
  /\ UNCHANGED runs

\* A call returns an error, or the run is interrupted or killed between two writes.
StepFails ==
  /\ pc \in Running
  /\ Fails
  /\ UNCHANGED disk

-----------------------------------------------------------------------------
(* fetchLatestArtefacts *)

FetchOrder == <<"os", "applet", "boot", "recovery">>

Overridden(c) == c \in {"os", "applet"} /\ flags.override[c] # None

\* Mutant: takes the entry at the overriding index whatever it is.
OffersUnchecked(c, i) ==
  IF Overridden(c) THEN i = flags.override[c] ELSE Releases[i].comp = c

\* The bundles overridableBundleProvider may return: the one at the index that
\* overrides the choice, if the log has it and it is of the component; else the
\* one the update fetcher prefers among those of the component.
Offers(c, i) ==
  /\ Overridden(c) => i = flags.override[c]
  /\ Releases[i].comp = c

\* Mutant: one fetch too many.
AfterFetchPast ==
  IF n <= Len(FetchOrder) THEN n' = n + 1 /\ UNCHANGED pc ELSE n' = 0 /\ pc' = "recovery"

AfterFetch ==
  IF n < Len(FetchOrder) THEN n' = n + 1 /\ UNCHANGED pc ELSE n' = 0 /\ pc' = "recovery"

GetBundle(i) ==
  /\ pc = "fetch"
  /\ Offers(FetchOrder[n], i)
  /\ want' = [want EXCEPT ![FetchOrder[n]] = i]
  /\ AfterFetch
  /\ UNCHANGED <<disk, stage, flags, runs>>

-----------------------------------------------------------------------------
(* prepareFlashJobs.  An image is a function on 0 .. len - 1.              *)

Job(slot, at, len, img) == [slot |-> slot, at |-> at, len |-> len, img |-> img]

configFromBundle(i, offset) == [offset |-> offset, size |-> Releases[i].fw, index |-> i]

\* Mutant: the firmware follows its config without padding.
prepareELFUnpadded(c, i, block) ==
  LET cfg == configFromBundle(i, block + MaxLength)
      len == EncodedLen(cfg) + Releases[i].fw
  IN Job(c, block, len, [k \in 0 .. len - 1 |->
            IF k < EncodedLen(cfg) THEN ConfigCell(cfg, k)
            ELSE FirmwareCell(i, k - EncodedLen(cfg))])

\* The config, padded to MaxLength, and the firmware.
prepareELF(c, i, block) ==
  LET cfg == configFromBundle(i, block + MaxLength)
      len == MaxLength + Releases[i].fw
  IN Job(c, block, len, [k \in 0 .. len - 1 |->
            IF k < EncodedLen(cfg) THEN ConfigCell(cfg, k)
            ELSE IF k < MaxLength THEN Zero
            ELSE FirmwareCell(i, k - MaxLength)])

\* make panics on a negative length: the run ends before anything is written.
PaddingPanics(i) == Releases[i].cfg > MaxLength

bootloader(i) ==
  LET len == Releases[i].fw + Releases[i].hab
  IN Job("boot", BootloaderBlock, len, [k \in 0 .. len - 1 |->
            IF k < Releases[i].fw THEN FirmwareCell(i, k)
            ELSE HabCell(i, k - Releases[i].fw)])

\* Mutant: padded by MaxLength instead of to it.
bootloaderConfigPadded(i) ==
  LET cfg == configFromBundle(i, BootloaderBlock)
      len == EncodedLen(cfg) + MaxLength
  IN Job("boot", BootloaderConfigBlock, len,
         [k \in 0 .. len - 1 |-> IF k < EncodedLen(cfg) THEN ConfigCell(cfg, k) ELSE Zero])

\* Neither padded nor compared with MaxLength.
bootloaderConfig(i) ==
  LET cfg == configFromBundle(i, BootloaderBlock)
  IN Job("boot", BootloaderConfigBlock, EncodedLen(cfg),
         [k \in 0 .. EncodedLen(cfg) - 1 |-> ConfigCell(cfg, k)])

trustedOS     == prepareELF("os", want["os"], OsBlock)
trustedApplet == prepareELF("applet", want["applet"], AppletBlock)

dummyApplet ==
  Job("applet", trustedApplet.at, trustedApplet.len,
      [k \in 0 .. trustedApplet.len - 1 |-> Zero])

\* Mutant: when fusing, the applet is left for the second stage and nothing is
\* done about the one on the board.
FlashStageNoDummy ==
  IF stage = 2 THEN <<trustedApplet>>
  ELSE <<trustedOS, bootloader(want["boot"]), bootloaderConfig(want["boot"])>>
         \o (IF flags.fuse THEN <<>> ELSE <<trustedApplet>>)

\* The jobs of a stage, in their order.
FlashStage ==
  IF stage = 2 THEN <<trustedApplet>>
  ELSE <<trustedOS, bootloader(want["boot"]), bootloaderConfig(want["boot"]),
         IF flags.fuse THEN dummyApplet ELSE trustedApplet>>

BootIntoRecovery ==
  /\ pc = "recovery"
  /\ ~ \E c \in {"os", "applet"} : PaddingPanics(want[c])
  /\ pc' = "flash" /\ n' = 1
  /\ UNCHANGED <<disk, stage, flags, want, runs>>

-----------------------------------------------------------------------------
(* flashImages and wipeAppletData *)

\* The first m cells of an image, from a cell on.
WriteAt(img, m, at) ==
  disk' = [a \in Addresses |-> IF a \in at .. at + m - 1 THEN img[a - at] ELSE disk[a]]

FlashImage ==
  /\ pc = "flash"
  /\ LET job == FlashStage[n] IN
       /\ job.at + job.len <= MmcBlocks
       /\ WriteAt(job.img, job.len, job.at)
  /\ IF n < Len(FlashStage) THEN n' = n + 1 /\ UNCHANGED pc
     ELSE /\ n' = 0
          /\ pc' = IF stage = 1 /\ flags.wipe THEN "wipe" ELSE "witness"
  /\ UNCHANGED <<stage, flags, want, runs>>

\* A write, or the board's power, is cut: part of the image is on the MMC.
FlashFails ==
  /\ pc = "flash"
  /\ LET job == FlashStage[n] IN
       \E m \in 0 .. job.len :
         job.at + m <= MmcBlocks /\ WriteAt(job.img, m, job.at)
  /\ Fails

\* Mutant: a last chunk that is not whole is left out.
ChunkLast ==
  IF AppletDataNumBlocks - n < ChunkBlocks THEN 0 ELSE ChunkBlocks

\* The length of the chunk that starts n blocks into the data.
Chunk ==
  IF AppletDataNumBlocks - n < ChunkBlocks THEN AppletDataNumBlocks - n ELSE ChunkBlocks

ZeroImage == [k \in 0 .. ChunkBlocks - 1 |-> Zero]

WipeChunk ==
  /\ pc = "wipe"
  /\ WriteAt(ZeroImage, Chunk, AppletDataBlock + n)
  /\ IF n + ChunkBlocks < AppletDataNumBlocks THEN n' = n + ChunkBlocks /\ UNCHANGED pc
     ELSE n' = 0 /\ pc' = "witness"
  /\ UNCHANGED <<stage, flags, want, runs>>

WipeFails ==
  /\ pc = "wipe"
  /\ \E m \in 0 .. Chunk : WriteAt(ZeroImage, m, AppletDataBlock + n)
  /\ Fails

\* The board boots what was installed and answers.  A run that fuses goes on
\* with the second stage: back in recovery, it flashes the applet.
WitnessAnswers ==
  /\ pc = "witness"
  /\ IF stage = 1 /\ flags.fuse THEN stage' = 2 /\ pc' = "flash" /\ n' = 1
     ELSE pc' = "done" /\ UNCHANGED <<stage, n>>
  /\ UNCHANGED <<disk, flags, want, runs>>

Fetch == \E i \in Indices : GetBundle(i)
Write == FlashImage \/ FlashFails \/ WipeChunk \/ WipeFails
Next  == \/ \E f \in FlagChoices : StartTool(f)
         \/ StepFails \/ Fetch \/ BootIntoRecovery \/ Write \/ WitnessAnswers

Spec == Init /\ [][Next]_vars
-----------------------------------------------------------------------------
(* Properties. *)

\* The images of an entry do not reach into what comes after them.
Fits(c, i) ==
  /\ Releases[i].cfg <= MaxLength
  /\ CASE c = "boot"   -> BootloaderBlock + Releases[i].fw + Releases[i].hab
                             <= BootloaderConfigBlock
       [] c = "os"     -> OsBlock + MaxLength + Releases[i].fw <= AppletBlock
       [] c = "applet" -> AppletBlock + MaxLength + Releases[i].fw <= AppletDataBlock

AllFit == \A c \in OnMmc : Fits(c, want[c])

Reads(c, i) == extractFirmware[c] = {BundleOf(i)}

\* What the ROM loads is the bootloader and then its HAB signature.
RomLoads(i) ==
  \A k \in 0 .. Releases[i].fw + Releases[i].hab - 1 :
    disk[BootloaderBlock + k] =
      IF k < Releases[i].fw THEN FirmwareCell(i, k) ELSE HabCell(i, k - Releases[i].fw)

\* What cmd/provision reports as provisioned, cmd/verify reads back: the
\* bundles of this run and the proofs that came with them, each of the component
\* it stands for and the ones the operator asked for, and the ROM finds the
\* signature behind the bootloader, whatever longer, shorter, larger or cut
\* images of earlier runs the board had before.
ReadsBack ==
  pc = "done" /\ AllFit =>
    /\ \A c \in OnMmc :
         /\ Reads(c, want[c])
         /\ Releases[want[c]].comp = c
         /\ Overridden(c) => want[c] = flags.override[c]
    /\ RomLoads(want["boot"])

\* A write that succeeds, fails or is cut changes nothing about the other
\* components: what verify could read of them before, it still can.
InHand(c) == pc = "flash" /\ (FlashStage[n].slot = c \/ ~Fits(FlashStage[n].slot, want[FlashStage[n].slot]))
OthersKept ==
  [][\A c \in OnMmc, i \in Indices :
       Fits(c, i) /\ Reads(c, i) /\ ~InHand(c) => Reads(c, i)']_vars

\* "Add an extra job into the first stage to destroy any pre-existing applet":
\* from the end of the first stage of a run that fuses until the applet of the
\* second is written, there is no applet a loader could read.
NoAppletWhileFusing ==
  flags.fuse /\ (pc = "wipe" \/ (pc = "witness" /\ stage = 1) \/ (pc = "flash" /\ stage = 2))
    => extractFirmware["applet"] = {}

\* "wipeAppletData erases MMC blocks allocated to applet data storage": all of
\* them, whatever the size of the chunks.
DataWiped ==
  flags.wipe /\ pc = "witness" /\ stage = 1 =>
    \A a \in AppletDataBlock .. AppletDataBlock + AppletDataNumBlocks - 1 : disk[a] = Zero
=============================================================================
