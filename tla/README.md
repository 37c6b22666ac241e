# ArmoredWitness tools: specifications, model checks and proofs

This directory holds TLA+ specifications of the host tools of the ArmoredWitness
repository, the TLC configurations that check them on small instances, and
theorems about them that TLAPS checks for every value of the constants. Paths
below are relative to `src/`.

## 1. Inventory

| Component | State it keeps | Operations | Interacts with | What is hard |
|---|---|---|---|---|
| **Continuous monitor** `cmd/verify_build/cmd/continuous.go` | tracker `st`, its copy in `Monitor.st`, the state file | start, `From`, polling loop, restart | the firmware log (fetches), the build verifier (calls), the file system | crashes around `os.WriteFile`, two copies of one tracker, errors in the middle of a backlog, restarts |
| **Build verifier and installer** `cmd/verify_build/cmd/internal/build` | one directory per compiler version, working directories | `Verify`, `Switch`, `install`, clean-up | curl, tar, git, make (processes); other processes with the same `--tamago_dir` | concurrent and broken installs, processes joined by a pipe, evidence of failed builds |
| **Provisioning tool** `cmd/provision` | bundles fetched, position in `waitAndProvision`; on the board: MMC blocks and fuses | fetch bundles (with overrides), make images, boot into recovery, flash, wipe, status, fuse, second stage | device access; the operator, who power-cycles boards | irreversible fuses, aborted runs, several boards, a status that is old when it is acted on; images of different lengths over those of earlier runs |
| **Device access** `internal/device` | HID handle, file watcher | `DetectHID`, `BootIMX`, `BootIntoRecovery`, `DetectU2F`, `WitnessStatus`, `ActivateHAB` | boot ROM, recovery image and Trusted OS over USB; `/dev` | lost, late and foreign reports, events before anyone listens, retries |
| **Verification tool** `cmd/verify` | tracker, list of errors | fetch the recovery image, boot, extract, verify bundles | device access; the firmware log | a log that grows, is served stale or forks between two bundles |
| **Release pipeline** `deployment/build_and_release` | artefact buckets, the log | per component: build, upload, HAB-sign, manifest, sign, rebuild, sequence, integrate | Cloud Build, KMS, the log | concurrent triggers on one log, builds that stop halfway or are repeated, entries that cannot be taken back |
| `cmd/verify_build` single/root, release metadata | none after start | one verification | build verifier; the release pipeline calls `single` | sequential |
| `cmd/sign`, `cmd/manifest` | none | one file in, one file out | KMS; steps of the release pipeline | sequential |
| `cmd/printverifier`, `pkg/kmssigner` | none | one call | KMS | sequential |
| `internal/fetcher`, `internal/release`, `devices` | none (constant tables) | reads | HTTP, files | none |
| Other Terraform, docs | none | none | cloud APIs | no behaviour |

What makes each component correct:

* monitor: a persisted checkpoint never covers a leaf that was not decided; every
  leaf is decided in the end; nothing is skipped silently;
* build verifier: what is built with is a whole compiler; nobody writes into a
  directory somebody else fills; failed builds leave evidence; `Verify` ends, and
  one that does not holds up no other;
* provisioning: fuses are only set to the target, on a board that will boot
  again; success means installed, and installed means that `cmd/verify` reads back
  the bundles of this run; no aborted run makes a board useless;
* device access: a board only runs a whole image; the call ends; it returns a block
  device only of a board that runs the recovery image;
* verification: "verified" means valid bundles in one log; a good board is not
  rejected for the log's growth;
* release pipeline: every entry of the log can be installed, whatever failed
  where; builds do not take each other's entries away; the log takes nothing back.

The hazards these properties answer are listed, each at its line, in
`PROJECT.json`.

## 2. Modules

| Module | Models | Checked by | Proofs |
|---|---|---|---|
| `MonitorPromise` | abstract: published sizes, decided leaves, a frontier | refinement target | |
| `Monitor` | `continuous`, `stateTrackerFromFlags`, `Monitor.From` | `MCMonitor` | `MonitorProofs` |
| `WitnessDevice` | the board, seen from the host (external) | within `Provision` | |
| `Provision` (EXTENDS `WitnessDevice`) | `waitAndProvision`, device selection, status and HAB commands, operator | `MCProvision` | `ProvisionProofs` |
| `FirmwareMmc` | the blocks of the MMC, `readConfig`, `readFirmware`, `extractFirmware` of `cmd/verify` | within `Install` | |
| `Install` (EXTENDS `FirmwareMmc`) | `fetchLatestArtefacts`, `overridableBundleProvider`, `prepareFlashJobs`, `prepareELF`, `flashImages`, `wipeAppletData`, run after run | `MCInstall` | `InstallProofs` |
| `BuildVerify` | `Verify`, `Switch`, `install`, several processes | `MCBuildVerify` | `BuildVerifyProofs` |
| `DeviceVerify` | `waitAndVerify`, `verifyFirmwares`, the log | `MCDeviceVerify` | `DeviceVerifyProofs` |
| `RecoveryPromise` | abstract: what a caller of `BootIntoRecovery` may rely on | refinement target | |
| `SdpBoot` | one `BootIntoRecovery`, report by report | `MCSdpBoot` | `SdpBootProofs` |
| `BootCallers` (EXTENDS `SdpBootProofs`) | nothing of its own: a call of `SdpBoot` seen by `Provision` and by `DeviceVerify` | | its theorems |
| `FirmwareLog` | abstract: artefacts and entries, as those who install see them | refinement target | |
| `ReleasePipeline` | the four triggers of `main.tf`, `cmd/manifest create`, `cmd/sign`, `verify_build single` | `MCReleasePipeline` | `ReleasePipelineProofs` |

How they compose: `RecoveryPromise` is the contract of `BootIntoRecovery`. `SdpBoot`
implements it, report by report; `Provision` and `DeviceVerify` take the call for
what it promises (a readable device of a board that runs the image; or an error,
after which the board may run it or not; or a wait, for ever if the board is gone),
and `BootCallers` proves that they may: with the state of the call mapped to theirs,
each step `SdpBoot` makes is a step of theirs or one they do not see. `Install` opens the data side
of a run of `Provision`: its `pc = "witness"` stands for all that `Provision` models
between a stage's last write and the board's status, and its `FirmwareMmc` is
written by `cmd/provision` and read by `cmd/verify`, so `ReadsBack` relates the two.
`Monitor` takes a call of the build verifier as one step that decides a leaf or
errs; `BuildVerify` opens that call. `ReleasePipeline` takes it as the step
`Verify`, and produces the log that `Monitor`, `DeviceVerify` and the provisioning
tool read, of which `FirmwareLog` is the contract. Definitions named `...Late`,
`...Forgets`, and the like with a comment "Mutant" are deliberately wrong variants
that no action uses: each shows that a property would notice that mistake.

### Correspondence with the code

**Monitor.** A checkpoint is its size, because the tracker proves each new one
consistent with the last. `pc` is `down`, `from` (inside the loop of `From`),
`truncated` (inside `os.WriteFile`, after the truncation) or `poll`. `st` and
`monSt` are the two copies of the tracker's size. `StartNew` is the branch for a
missing state file, `StartKnown` the one for a file with a checkpoint or an empty
file (for which `NewLogStateTracker` asks the log, although `state == nil` is
false). `LeafErrs` keeps the error and goes on, `FetchFails` returns at once,
`FromEnds` returns the kept error or starts the write. `checked` and `forgot`
are history.

**Provision.** `pc` names the call `waitAndProvision` is in and `stage` tells its
two flash stages apart; `tgt` is the board whose block device is written, `dev` the
one the U2F handle reaches, which a power cycle makes stale. `FlashStage` is the
job list built at main.go:376-390. A flash, a wipe or a status may fail at any
point and leave a half-written region. The operator may start the tool with any
allowed flags, power-cycle any board at any time with the switch in either
position, leave it without power, and interrupt a run. `BlockAppears` takes the block
device of any board: the watcher reports whichever is created while it runs, and a
board that an earlier run has started may present its own only then. Initially a
board is new or has an earlier life, with fuses and images of that life. A boot that the tool is told has failed may have
started the board (`Started`). `found` is history: the boards a run has had on the
other end, which tells the runs that mix two of them up.

**FirmwareMmc, Install.** A cell is a block of the MMC. A bundle is named by the
index of its entry in the log: checkpoint, manifest and proofs come with the index,
and what the images are made of is told apart by entry, position and length. A
config cell carries the config it is part of, so that a decoder that meets the head
of one config and the tail of another fails, as GOB does. `want` holds the four
bundles of a run, `n` is the index of the loop the run is in: the fetches, the jobs
of a stage, or the blocks wiped so far. `Offers` is the override provider with its
check of the component; `prepareELF` pads the config to `MaxLength` and panics if it
is longer (`PaddingPanics`), the bootloader's config is not padded. `FlashStage` is
the list of jobs of a stage, with zeros instead of the applet in the first stage of
a run that fuses. A write may end after any number of blocks (`FlashFails`,
`WipeFails`) and leaves what lies behind it as it was. The fetcher is stateless; any
entry of a component may be the one it prefers.

**BuildVerify.** A compiler directory is absent, empty, partial without or with
`bin/go`, or whole. `TarStarts`, `Mkdir`, `Extract`, `Installed` are the steps of
`install` in the order of the code; `TarEnters` is the moment tar enters its `-C`
directory. tar may die at any time (`TarDies`): of a full disk, of a bad archive, or
because it has looked for its directory before `Mkdir` made it. Then either the rest
of the archive fits into the pipe and `tar.Wait` returns the error (`TarFails`), or
it does not and curl blocks (`CurlBlocks`, `pc = "hangs"`), since the waiting process
holds the reading end of the pipe itself until curl has ended. After a failed
download or a killed process, `orphan` says that a tar nobody waits for is still
writing. The working directory exists from `os.MkdirTemp`, whose failure is one of
the outcomes of `CheckGo`, to `Return`, the deferred function. Between them `Build`
ends in one of three ways: a command, the comparison of revisions or the reading of
the result fails (`CommandFails`), the digests differ (`Differs`), or they do not
(`Reproduces`); only the last sets the variable `cleanup` that `Return` looks at.
`RemoveAll` may leave the directory; `stray` is history of that and of the
directories of killed processes.

**DeviceVerify.** Trees are what a log shows to different readers; they agree up
to `ForkAt`. `lst` is the tracker, `n` the entry of the table of bundles, `errs`
whether an error has been remembered. `Refresh` is `lst.Update`, with stale
answers; `Prove` is the consistency proof from the bundle's checkpoint to the
tracker's.

**SdpBoot.** `pc` walks through `waitForBlockDevice`, `BootIMX` and its reports. The
ROM keeps the write position `dest` and the chunks in place, `mem`; it jumps into a
whole image or hangs. A refused data report may have reached the board or not, and
so may a refused jump (`BootIMX` then returns an error while the board starts). The
file watcher may fail to be made. Answers can be lost, late or preceded by unrelated
reports; the watcher may drop an event, which it reports in a channel nobody reads
(`LoseEvent`), and a board that was started may never come up or be unplugged
(`GoesOff`). `lost` is history of what the call may be waiting for and will not get.
`Wakes` is the sleep at the end of `BootIMX`, during which the block device may
appear. `ErrorAssumption` says that an error text that was put into another one
is a different text: a fact about strings that TLC evaluates and the provers do not
know.

**ReleasePipeline.** `pc` is the step of the trigger a build is at, `job` its
workspace. A step of which the command reports a failure may have had its effect
(`Goes`) or not (`StepFails`); the build then ends and its workspace is gone, but
what it stored stays. A manifest is named by its content, as `sha256sum` does:
two builds of one push can make the same one. `bucket` is the firmware bucket,
`entries` the files below `entries_dir`, `sequenced` and `integrated` the log. An
image is one that a rebuild reproduces or one that it does not; an SRK table is
the pinned one or another. Printing and listing steps are left out.

## 3. Runs

Eight runs pass:

| Run | Checks | Shows | Bounds |
|---|---|---|---|
| `monitor_promise` | `PersistedCovered`, `KeepsPromise`, `InitialBacklogChecked` | coverage, the refinement, and that the first backlog is decided around a leaf that never builds, when writes are not cut short | log grows from 3 to 5, start index 1, leaf 1 may be broken |
| `monitor_crash` | `TypeOK`, `LostOnlyByEmptyFile` | with torn writes, only an empty file loses coverage | log grows from 1 to 3, leaf 1 may be broken |
| `provision_board` | `TypeOK`, `SuccessMeansInstalled`, `FusedToTarget`, `FusedQuietUnlessMixed`, `Completable` | safety of provisioning with all flags; no aborted run puts the board beyond repair | one board, its earlier life in another environment |
| `install_readback` | `TypeOK`, `ReadsBack`, `NoAppletWhileFusing`, `DataWiped`, `OthersKept` | what is reported as provisioned is read back, after earlier lives, cut writes and overrides | one board, three runs, eight entries, five choices of flags |
| `build_shared` | `TypeOK`, `OneWriter`, `PartialOnlyBroken`, `EvidenceKept`, `VerifyEnds`, `NeverSetBack` | two installers, broken downloads, tars that die, removals that fail, killed processes; each gets on whatever the other does, and only a dead tar makes a `Verify` hang | two processes, two versions, three leaves |
| `verify_fork` | `TypeOK`, `VerifiedInOneLog`, `GoodNotRejected`, `Decided`, `NearerVerdict` | the verdict under forks, growth, staleness and faults | two trees, fork at 1, size 3 |
| `boot_board` | `TypeOK`, `RunsWholeImage`, `NeverWaitsInVain`, `Returns`, `KeepsPromise`, `EndsInTime` | no half image; the call ends with a readable device or an error, in a bounded number of steps, and waits in vain only for a board or an event that was lost; it keeps the contract of `RecoveryPromise` | 3 chunks, 2 unrelated events, 2 unrelated reports |
| `release_builds` | `TypeOK`, `LoggedIsInstallable`, `EntryNotLost`, `KeepsLog` | what is logged can be installed, and the log keeps its contract, with concurrent, failing and repeated builds | two builds at a time, one push of an OS and one of a bootloader |

and four show that the program does something else than it says (section 6):

| Run | Violates | Bounds |
|---|---|---|
| `monitor_backlog` | `NoBacklogWhilePolling` | log grows from 1 to 3 |
| `provision_mixup` | `FusedQuietAndSigned` | two boards |
| `build_partial` | `SwitchEnsures` | one process, downloads that break off |
| `boot_darwin` | `ContentionRetried` | macOS, no other fault |

Why the bounds are enough. In the monitor the interesting cases need a leaf
below the start index, a first backlog with a leaf that breaks and one after it,
and growth of the log while the process runs and while it is down: five leaves
have all of them. Provisioning runs are unbounded (any number of runs and power
cycles; the state space is finite); one board shows every history of a board, and
with two each of the three handles of a run (HID device, block device, U2F device)
can be another board's than the one before it, which is what a mix-up is; what holds
is proved for any number of boards. The layout of the MMC is
scaled down: the bootloader at block 1, its config at 4, the OS at 6, the applet at
10 and three blocks of its data at 14, with configs of up to two blocks and chunks
of two, instead of 0x2, 0x4FB0, 0x5000, 0x200000 and 0x400000 blocks at 0x400000 with
chunks of 2048; what matters is kept: a region holds a padded config and images of
different lengths with and without a gap behind them, the bootloader's region is
too small for one entry. The data is not a multiple of a chunk, although with the
constants of today it is one in the code, so that the shorter last chunk the code
provides for is one of the steps. The entries are longer and shorter ones of each component, a config that is flashed although it is
longer than `MaxLength` and one that makes the padding panic; the flags are overrides
that are right, of another component and not in the log. Three runs are an earlier
life, a run that is cut and one that completes. In the build verifier two
processes and two versions give a conflict and an absence of conflict; the three
leaves are a good one, one of the other version that does not match, and one that
is not signed. Three bundles are what the code has; sizes up to three put
checkpoints below, at and above the fork. Three chunks make a first, a middle and
a last one. In the release pipeline the number of builds one after the other is
not bounded, two at a time can be of the same push or of different ones, and the
two components are the one with two keys and one with a HAB signature: the applet
and the recovery image differ from these only in having one key and a different
file. The safety results are proved without these bounds (section 5). The
bounds in guards are `MaxSize` (`Publish`, `Grow`), `Noise` and `Chatter` (unrelated
events and reports) and `MaxRuns` (`StartTool` of `Install`); nothing else is capped.

Deadlock checking is off in the runs of `DeviceVerify` and `SdpBoot`, which model
one call or one process that ends, and in that of `Install`, where a run of the tool
ends in an overriding index that has no such entry, or the last run has ended.

## 4. Fairness

* `Monitor`: the process is started again when it is down (weak fairness of the
  starts; the deployment restarts it). A leaf that can be verified, the end of
  the loop and the write are not pre-empted by crashes and failed fetches for
  ever (strong fairness, per leaf). Without it a monitor that is killed each time
  at the same place makes no progress, and no code could.
* `Provision`: from some moment on only calm steps happen (the operator does
  what the tool asks, interrupts it when its board is gone, runs it without
  `--fuse`, and no fault occurs), and they happen. This says what a later run can
  do, not that the world is calm: the moment is arbitrary.
* `BuildVerify`: commands that were started end unless the code itself holds them
  up: each process is weakly fair in its steps. A curl that nobody reads from does
  not end, and nothing here says it does. A new `Verify` is never owed.
* `DeviceVerify`, `SdpBoot`: the process and the board go on with what they can
  do (weak fairness). Faults, noise, lost reports and growth are not fair. That a
  board which was started presents its device is owed only as long as it is not
  lost, which can be at any time: `Returns` says what happens then. `Decided` is about
  what `waitAndVerify` does with the calls it makes; it takes `BootIntoRecovery` for
  a call that returns, so a board that never comes is `Returns`' business.
* `Install`: none; it has safety properties only, and `Completable` of `Provision`
  says what later runs can do.
* `ReleasePipeline`: none. A build that stops is not started again by anything in
  the repository, so the pipeline owes nobody an entry.

## 5. Theorems

All proofs are checked by TLAPS without assumptions beyond the named `ASSUME`s of
the modules (types of the constants) and those named here.

* `OnlyEmptyFileLoses`: for every log, start index and set of broken leaves, with
  torn writes. The invariant `CoverInv` says: unless a start was made from an
  empty file, the persisted checkpoint is covered, the leaves the loop has passed
  without error are decided, and what precedes a loop that begins above the start
  index was covered before. The middle part is what makes it inductive: without
  it the end of the loop could persist anything.
* `PersistedIsCovered`, `MonitorKeepsPromise`: the same without torn writes, and
  the refinement: every step is a step of the promise or a stutter. `WholeInv`
  adds that the file is never empty or torn when a process is down.
* `OnlyFusedToTarget`: for every set of boards, histories and flags. A run that is
  armed to fuse a board it can still reach has seen that board's OS report the
  target, and as long as the handle is good the board has not been rebooted, so
  its OS is the same (`ArmedForTarget`).
* `SuccessIsInstalled`, `OnlyMixupHarms`: for every set of boards, what is true as
  long as a run has only had one of them on the other end. The invariant relates
  each `pc`, `stage` and `job` to what has been written on that board so far. The
  condition is necessary: run `provision_mixup` shows what happens with two, and
  `OnlyMixupHarms` that nothing else leads there. `OneBoardFusedQuietly` is its case
  of one board, where the property that `provision_mixup` refutes holds.
* `InstalledReadsBack`: for every layout that keeps its blocks in order, every log,
  any choice of flags and any number of runs. What makes it inductive is `Heads`:
  where a component has its config, the first cell, if it is the head of a config at
  all, says that the firmware is where that component has it and as long as its
  entry's, whatever was cut or left behind it; and `Flashed`: the jobs before `n`
  are on the MMC in full, because those after them do not reach back. `AllFit` is
  assumed of the bundles of the run: nothing in the code compares a bundle with its
  region (section 6), and one that does not fit is overwritten by, or overwrites,
  its neighbour. It says nothing of earlier runs: theirs may have been too long.
* `OthersStayReadable`: the same generality, for every write, cut or not: it only
  touches its own region if its image fits, and reading a component looks at no
  cell outside its own.
* `AppletDestroyed`, `WholeDataWiped`: the dummy applet is at least `MaxLength` long
  and begins where a config would, so the first cell of any config is zero until the
  second stage writes (`Dummy`); the blocks below `n` are zero and nothing writes to
  them until the status is read (`Wiped`).
* `NeverTwoWriters`: any number of processes and versions. A directory that is
  absent has no writer and no abandoned tar (`Written`), and `Mkdir` lets only
  the one pass that finds it absent.
* `PartialIsExcused`: any number of processes and versions. `SwitchEnsures`, what
  the comment of `Switch` promises, is false (run `build_partial`); this theorem
  says how far it is true. Its invariant: a directory that is neither absent nor
  whole is being installed, or an install of it broke off.
* `EvidenceIsKept`: for both values of `--cleanup`, any number of processes, any step
  that fails, removals that fail, and kills. The invariant `CleanupTells` relates the
  variable the deferred function reads to the way the build went: before that function
  `cleanup` is still the flag, and where the function finds it unset, the flag is unset
  and the leaf in hand has failed.
* `VerifiedMeansOneLog`: any number of trees, fork and sizes. The tracker only
  moves to trees its own is a beginning of, being a beginning is transitive, and
  two beginnings of one tree are beginnings of each other.
* `GoodIsNotRejected`: the same generality. Before a bundle's checkpoint is proved
  against the tracker's it is no larger, unless the log answered stale; no larger
  and not a beginning means another log (`NoFalseAlarm`).
* `WholeImageRuns`: any number of chunks, with faults and retries: below the chunk
  in hand everything is in memory, and the ROM's write position is at it. It also
  covers the retry for macOS as if it could happen.
* `CallKeepsPromise`: with faults, noise and chatter, every step of `SdpBoot` is a step
  of `RecoveryPromise` or a stutter. It needs `Presented`: until the jump is sent the
  board is still in SDP mode, and an event of a block device, a probe or a returned
  device means that the board presents one.
* `LoggedAlwaysInstallable`, `EntryIsNotLost`, `PipelineKeepsLog`: any number of
  concurrent builds and any pushes. The invariant `IInv` says what each build has
  done by the step it is at (`DoneSoFar`: image and HAB signature stored, table
  pinned, manifest accepted), and that not only the log's entries but also the
  files below `entries_dir` can be installed: sequencing takes whatever file has
  the name, also one that another build has put there. The refinement needs it
  because integrating shows entries of builds that have failed since.
* `CallEnds`, `WaitsAreMet`, `RunEnds`, `NobodySetBack`: the halves of the liveness
  properties of `SdpBoot`, `DeviceVerify` and `BuildVerify` that do not rest on fairness,
  for images of any length, any noise, any log and any number of processes. The first
  and the last two give a measure that every own step of the call, run or process
  lowers and no step of anyone else raises; the second says that whoever waits, waits
  for what is still to come unless it was lost on the way. (In `BuildVerify` the
  measure is the way to the end or to where curl blocks.) `CallEnds` uses
  `ErrorAssumption`: the bound exists because the retry for macOS is dead code; with
  a retry that is taken, refused chunks could go on for ever.
* `CallInProvision`, `CallInVerify`: the composition. From `CallKeepsPromise`, a call made
  report by report does in `Provision` only what `BootRecovery`, `BootFails`,
  `BlockAppears`, `Interrupt` (the call that fails after the board was started) and
  `Power` do (a board that is lost is one without power), and in `DeviceVerify` only
  `BootIntoRecovery` and `StepFails`, whatever the rest of their state is. The first is about boards that accept the recovery
  image; a board that does not hangs in `Provision`, and waits in `SdpBoot`.
* `TypeCorrect` of `Monitor`, `Provision`, `Install`, `BuildVerify`, `DeviceVerify`,
  `SdpBoot`, `ReleasePipeline`.

Only model-checked: the liveness properties (`InitialBacklogChecked`,
`Completable`, `VerifyEnds`, `Decided`, `Returns`), which rest on fairness and are out
of the prover's reach. For the last three, what is left to TLC is that the steps
that lower the measures are enabled and taken. No proof uses induction over data.
Where a refinement mapping gives a new function, it is written as a constructor and
not with EXCEPT: the SMT backend simplifies nested EXCEPTs of one function wrongly.

## 6. Findings

1. *The monitor never verifies what is published after its start*
   (`monitor_backlog`). `Monitor{st: st}` copies the tracker; the loop updates the
   original and `From` reads the copy. Only a restart with a missing state file
   makes it look further.
2. *With two boards connected the wrong one may be fused* (`provision_mixup`).
   `DetectU2F` takes the first witness it finds.
3. *A broken download counts as an installed compiler* (`build_partial`).
4. *The retry for macOS is dead code* (`boot_darwin`). The text of the error is
   compared after `sendHIDReport` has put it into another one.

Observations without a run of their own:

* An interrupted write of the state file loses the backlog: `os.WriteFile` leaves
  an empty file, which is not `nil`, so the start does not count as new and a later
  checkpoint is persisted above leaves nobody decided. `LostOnlyByEmptyFile`
  holds because of the word "only": each counterexample to `PersistedCovered` with
  torn writes goes through such a file.
* `cmd/provision/README.md` lists the check of the board's state before the flashing;
  the code flashes first (main.go:392) and looks at the fuses then (412), so a board
  it refuses is already overwritten. It stays repairable (`Completable`).
* Nothing compares the length of a bundle with the space for it: the bootloader may
  reach its config, the encoded config of the bootloader the OS that was flashed
  before it (main.go:341-345), the OS the applet. A config of OS or applet that is too
  long panics in `make` (583), with the board in recovery. `ReadsBack` and
  `OthersKept` are therefore about images that fit.
* `klog.Exitf` in `cmd/verify_build/cmd/single.go:71` leaves the process without
  the deferred `metadata.Cleanup`.
* `BootIMX` leaves its lock held when `Open` fails (`internal/device/sdp.go:98`). No
  caller uses a target twice, so nobody waits for it.
* With `--run_anyway` the tool logs "Fusing successful!" also after an
  `ActivateHAB` that failed (`cmd/provision/main.go:449-456`). `SuccessMeansInstalled`
  therefore asks for a fused board only in runs without that flag.

* A tar that dies before it has read the archive makes `Verify` hang
  (installer.go:76-95): `curl.StdoutPipe` keeps the reading end of the pipe open in
  this process until `curl.Run` returns, so curl gets no broken pipe but waits for
  room in it for ever, and `curl.Run` for curl, although `Switch` "ensures that the
  named version of Tamago is installed, or fails with an error". `VerifyEnds` has it
  as the only exception. One cause needs no fault at all: tar is started (83) before
  its directory is made (87), and a tar that enters it at once finds none.
* `waitForBlockDevice` and `probeDevice` (recovery.go:107-157) have no timeout, and
  nobody reads `watcher.Errors`: a board that was started and does not come up, or an
  event that is dropped, keeps the tool waiting until it is interrupted (`Returns`).
* The binding `firmware_log_bucket_writer` (main.tf:117) names the bucket `firmware`
  a second time, so this file does not let the builder write to the log's bucket.
  The model takes the permission as given.
* Entry files are only removed by the build that logged them. A build that fails
  after `Copy` leaves its file; it is harmless, since nothing but a build of the
  same manifest sequences it.

## 7. Not modelled

* `assertSigners` for two OS keys: the keys are constants of one process and a bundle
  is valid or not. The device registry: a table embedded at build time.
* The bytes of ELF, GOB and of a signature; the parsing of flags; `metadata.go` of
  `verify_build`, which writes a directory of its own once; boards whose MMC holds,
  before the first run, configs of another layout; what the witness writes to its
  data region while it runs.
* `printverifier`, `manifest verifysig`, `kmssigner`, `fetcher`, templates: stateless
  or constant; what a fetch or a call of the KMS can do is modelled at its callers.
* Permissions, keys and service accounts of the release pipeline, the presubmit
  and image builds, and the HAB PKI: declarations without behaviour.
* What report 4 carries: `sendHIDReport` takes any report with that number for the
  successful end of a command (sdp.go:158), and the model's ROM sends it only then.
* Cryptography: a signature or a proof is valid or it is not. A consistency proof
  exists exactly when one tree is the beginning of the other.
* Timeouts are possible at any moment instead of after a duration. Contexts
  are never cancelled, because every caller passes `context.Background()`.
* File permissions, other hardware faults than those named, and the contents of
  messages to the operator.

## 8. Plan

Written so far, in this order: `MonitorPromise`/`Monitor`, `WitnessDevice`/
`Provision`, `BuildVerify`, `DeviceVerify`, `SdpBoot`, `FirmwareLog`/`ReleasePipeline`,
`RecoveryPromise`, `FirmwareMmc`/`Install`, `BootCallers`, each with its runs and then its proofs.
Left:

1. `Install` as an implementation of the flashing of `Provision`: the blocks of a
   region mapped to its content (blank, half-written, old or new), as `BootCallers`
   does it for the boot.
2. `Signers`: `assertSigners` against a reference definition.

A component keeps to one passing run that asks all its questions, with bounds at
which the interesting cases happen, and one run for each disagreement with what
the repository says; a new component replaces or merges runs rather than repeat
one at another size.
