----------------------------- MODULE Provision ------------------------------
(***************************************************************************)
(* cmd/provision: waitAndProvision and what it calls, run again and again  *)
(* by an operator who power-cycles boards, in the order asked for or not.  *)
(***************************************************************************)
EXTENDS WitnessDevice, Sequences

CONSTANTS
  FlagChoices,   \* the --fuse, --wipe_witness_state and --run_anyway an
                 \* operator may pass
  NoDevice       \* no board

ASSUME FlagAssumption ==
  /\ FlagChoices \subseteq [fuse : BOOLEAN, wipe : BOOLEAN, anyway : BOOLEAN]
  /\ NoDevice \notin Devices

VARIABLES
  srk,    \* environment of the SRK hash an "old" and a "new" OS report
  pc,     \* where waitAndProvision is
  stage,  \* 1: first boot into recovery, 2: the one after fusing
  flags,  \* the flags of this run
  job,    \* index of the flash job in hand
  tgt,    \* the board BootIntoRecovery found, whose block device is written
  dev,    \* the board the U2F handle reaches, NoDevice if none or stale
  found   \* history: the boards this run has found

toolVars == <<pc, stage, flags, job, tgt, dev, found>>
vars == <<deviceVars, srk, toolVars>>

NoFlags == [fuse |-> FALSE, wipe |-> FALSE, anyway |-> FALSE]

Pcs == {"idle", "detect", "boot", "block", "flash", "wipe", "u2f", "status",
        "arm", "done"}
Running == Pcs \ {"idle", "done"}   \* "idle": not started, or ended by an error

TypeOK ==
  /\ DeviceTypeOK
  /\ srk \in [Image -> Envs \cup {"unknown"}]
  /\ pc \in Pcs
  /\ stage \in {1, 2}
  /\ flags \in [fuse : BOOLEAN, wipe : BOOLEAN, anyway : BOOLEAN]
  /\ job \in 1 .. 4
  /\ tgt \in Devices \cup {NoDevice} /\ dev \in Devices \cup {NoDevice}
  /\ found \subseteq Devices

Init ==
  /\ DeviceInit
  /\ srk \in [Image -> Envs \cup {"unknown"}]
  /\ pc = "idle"
  /\ stage = 1
  /\ flags = NoFlags
  /\ job = 1
  /\ tgt = NoDevice /\ dev = NoDevice
  /\ found = {}

-----------------------------------------------------------------------------
(* The operator. *)

\* Power-cycling or unplugging a board invalidates a handle held on it.
Power(d, switch) ==
  /\ mode' = [mode EXCEPT ![d] = AfterPower(d, switch)]
  /\ dev' = IF dev = d THEN NoDevice ELSE dev
  /\ UNCHANGED <<mmc, fuses, srk, pc, stage, flags, job, tgt, found>>

StartTool(f) ==
  /\ pc \notin Running
  /\ pc' = "detect"
  /\ flags' = f
  /\ found' = {}
  /\ UNCHANGED <<deviceVars, srk, stage, job, tgt, dev>>

\* The process ends, and with it all it held in variables.
Ends  == stage' = 1 /\ job' = 1 /\ tgt' = NoDevice /\ dev' = NoDevice
Fails == pc' = "idle" /\ flags' = NoFlags /\ found' = {} /\ Ends
Succeeds == pc' = "done" /\ UNCHANGED <<flags, found>> /\ Ends

\* The tool waits without a timeout: the operator interrupts it.
Interrupt ==
  /\ pc \in Running
  /\ Fails
  /\ UNCHANGED <<deviceVars, srk>>

-----------------------------------------------------------------------------
(* device.BootIntoRecovery *)

\* waitForHIDDevice: the first of the boards in serial download mode.
DetectHID ==
  /\ pc = "detect"
  /\ \E d \in Devices : mode[d] = "sdp" /\ tgt' = d /\ found' = found \cup {d}
  /\ pc' = "boot"
  /\ UNCHANGED <<deviceVars, srk, stage, flags, job, dev>>

Started ==
  /\ mode[tgt] = "sdp"
  /\ mode' = [mode EXCEPT ![tgt] = IF RecoveryBoots(tgt) THEN "ums" ELSE "off"]

\* BootIMX sends the recovery image to the board and starts it.
BootRecovery ==
  /\ pc = "boot"
  /\ Started
  /\ pc' = "block"
  /\ UNCHANGED <<mmc, fuses, srk, stage, flags, job, tgt, dev, found>>

\* It may fail although the board was started.
BootFails ==
  /\ pc = "boot"
  /\ Started \/ UNCHANGED mode
  /\ Fails
  /\ UNCHANGED <<mmc, fuses, srk>>

\* waitForBlockDevice and probeDevice: the first block device that is created
\* while the watcher runs, also that of a board an earlier run has started.
BlockAppears ==
  /\ pc = "block"
  /\ \E d \in Devices : mode[d] = "ums" /\ tgt' = d /\ found' = found \cup {d}
  /\ pc' = "flash"
  /\ UNCHANGED <<deviceVars, srk, stage, flags, job, dev>>

-----------------------------------------------------------------------------
(* flashImages and wipeAppletData *)

\* Mutant: the real applet is installed before fusing.
FlashStageAtOnce(st) ==
  IF st = 2 THEN << <<"applet", "new">> >>
  ELSE << <<"os", "new">>, <<"boot", "new">>, <<"conf", "new">>, <<"applet", "new">> >>

\* Mutant: the second stage is empty of the applet, the config is written again.
FlashStageForgets(st) ==
  IF st = 2 THEN << <<"conf", "new">> >>
  ELSE << <<"os", "new">>, <<"boot", "new">>, <<"conf", "new">>,
          <<"applet", IF flags.fuse THEN "zero" ELSE "new">> >>

\* The flash jobs of a stage, in order: a region and what it will hold.  When
\* fusing, zeros take the place of the applet until the second stage.
FlashStage(st) ==
  IF st = 2 THEN << <<"applet", "new">> >>
  ELSE << <<"os", "new">>, <<"boot", "new">>, <<"conf", "new">>,
          <<"applet", IF flags.fuse THEN "zero" ELSE "new">> >>

Write(slot, contents) == mmc' = [mmc EXCEPT ![tgt][slot] = contents]

\* Mutant: the index of the job is carried over into the next stage.
LeavesCounting(next) == pc' = next /\ job' = job + 1 /\ tgt' = NoDevice

\* The block device is not used after the last write of a stage.
Leaves(next) == pc' = next /\ job' = 1 /\ tgt' = NoDevice

FlashOne ==
  /\ pc = "flash"
  /\ mode[tgt] = "ums"
  /\ LET jobs == FlashStage(stage) IN
       /\ Write(jobs[job][1], jobs[job][2])
       /\ IF job < Len(jobs) THEN job' = job + 1 /\ UNCHANGED <<pc, tgt>>
          ELSE IF stage = 1 /\ flags.wipe THEN pc' = "wipe" /\ job' = 1 /\ UNCHANGED tgt
          ELSE Leaves("u2f")
  /\ UNCHANGED <<mode, fuses, srk, stage, flags, dev, found>>

\* The write or the sync fails, or the board is gone: the stage is abandoned
\* with a region half-written.
FlashFails ==
  /\ pc = "flash"
  /\ \/ mode[tgt] = "ums" /\ Write(FlashStage(stage)[job][1], "junk")
     \/ UNCHANGED mmc
  /\ Fails
  /\ UNCHANGED <<mode, fuses, srk>>

WipeData ==
  /\ pc = "wipe"
  /\ mode[tgt] = "ums"
  /\ Write("data", "zero")
  /\ Leaves("u2f")
  /\ UNCHANGED <<mode, fuses, srk, stage, flags, dev, found>>

WipeFails ==
  /\ pc = "wipe"
  /\ \/ mode[tgt] = "ums" /\ Write("data", "junk")
     \/ UNCHANGED mmc
  /\ Fails
  /\ UNCHANGED <<mode, fuses, srk>>

-----------------------------------------------------------------------------
(* waitForU2FDevice, WitnessStatus, ActivateHAB *)

\* DetectU2F opens the first board that runs the Trusted OS.
DetectU2F ==
  /\ pc = "u2f"
  /\ \E d \in Devices : mode[d] = "witness" /\ dev' = d /\ found' = found \cup {d}
  /\ pc' = "status"
  /\ UNCHANGED <<deviceVars, srk, stage, flags, job, tgt>>

\* The SRK environment the running OS reports; "unknown" is no key of
\* expectedSRKHashes.
ReportedSRK == srk[mmc[dev]["os"]]

\* Mutant: the environment is not compared with --hab_target.
RefusesAnyUnknown ==
  /\ flags.fuse
  /\ \/ fuses[dev] # "no" /\ ~flags.anyway
     \/ ReportedSRK = "unknown"

\* Mutant: a fused board is refused whatever the flags.
RefusesFused ==
  \/ fuses[dev] # "no" /\ ~flags.anyway
  \/ flags.fuse /\ (ReportedSRK = "unknown" \/ ReportedSRK # HabTarget)

\* The checks of the first status that end a run with --fuse.
RefusesStatus ==
  /\ flags.fuse
  /\ \/ fuses[dev] # "no" /\ ~flags.anyway
     \/ ReportedSRK = "unknown"
     \/ ReportedSRK # HabTarget

Status ==
  /\ pc = "status"
  /\ dev # NoDevice
  /\ IF stage = 2 THEN Succeeds
     ELSE IF RefusesStatus THEN Fails
     ELSE IF flags.fuse THEN pc' = "arm" /\ UNCHANGED <<stage, flags, job, tgt, dev, found>>
     ELSE Succeeds
  /\ UNCHANGED <<deviceVars, srk>>

\* The command fails: also when the board was rebooted and is running again.
StatusFails ==
  /\ pc = "status"
  /\ Fails
  /\ UNCHANGED <<deviceVars, srk>>

\* The second stage begins, or the run ends: after a failed ActivateHAB only
\* --run_anyway goes on.
GoesOn(err) ==
  IF ~err \/ flags.anyway
  THEN pc' = "detect" /\ stage' = 2 /\ dev' = NoDevice /\ UNCHANGED <<flags, job, tgt, found>>
  ELSE Fails

\* After the countdown.  The board burns the SRK hash of the OS it runs; the
\* answer may be an error although it did (a timeout), and is one when it is
\* fused already or cannot be reached.
ActivateHAB ==
  /\ pc = "arm"
  /\ \E err \in BOOLEAN :
       /\ \/ /\ dev # NoDevice
             /\ fuses[dev] = "no"
             /\ fuses' = [fuses EXCEPT ![dev] = ReportedSRK]
          \/ err /\ UNCHANGED fuses
       /\ GoesOn(err)
  /\ UNCHANGED <<mode, mmc, srk>>

Operator == \/ \E d \in Devices, switch \in Switches : Power(d, switch)
            \/ \E f \in FlagChoices : StartTool(f)
            \/ Interrupt
Recovery == DetectHID \/ BootRecovery \/ BootFails \/ BlockAppears
Flash    == FlashOne \/ FlashFails \/ WipeData \/ WipeFails
Witness  == DetectU2F \/ Status \/ StatusFails \/ ActivateHAB

Next == Operator \/ Recovery \/ Flash \/ Witness

Spec == Init /\ [][Next]_vars

-----------------------------------------------------------------------------
(* Properties. *)

\* Fusing cannot be undone, so a board is only ever fused to the environment
\* the operator targets, whatever OS it runs and whatever was done to it
\* between the status check and the countdown's end.
FusedToTarget ==
  [][\A d \in Devices : fuses'[d] # fuses[d] =>
        fuses[d] = "no" /\ fuses'[d] = HabTarget]_vars

Safe(d) ==
  /\ ~AppletRuns(d)
  /\ mmc[d]["boot"] \in Image /\ BootEnv(mmc[d]["boot"]) = HabTarget

\* A board is fused only while it runs no applet ("to ensure there's no
\* unexpected CPU load on the device when we attempt to set fuses"), and its
\* bootloader is signed for the fused key: it will boot again.
FusedQuietAndSigned == [][\A d \in Devices : fuses'[d] # fuses[d] => Safe(d)]_vars

\* With any number of boards on the desk, only a run that has found two of
\* them, in its two boots into recovery, in a wait for a block device or in the
\* search for the U2F device, can fuse a board that is not: the board of a run
\* that has met no other is fused quiet and signed, whatever the operator does
\* to the others.
FusedQuietUnlessMixed ==
  [][\A d \in Devices : fuses'[d] # fuses[d] /\ found = {d} => Safe(d)]_vars

Installed(d) ==
  /\ \A s \in {"os", "boot", "conf", "applet"} : mmc[d][s] = "new"
  /\ flags.wipe => mmc[d]["data"] = "zero"
  /\ flags.fuse /\ ~flags.anyway => fuses[d] = HabTarget

\* "Device provisioned!": the board of this run has every image of it, is wiped
\* and fused as asked, whatever earlier, aborted runs left on it and whatever
\* other boards there are; a run that has found several may have done half of
\* it to each.
SuccessMeansInstalled ==
  pc = "done" => found # {} /\ \A d \in Devices : found = {d} => Installed(d)

\* An operator who provisions without --fuse and switches and reboots the
\* board as the tool asks, who interrupts a run that waits for a board that is
\* gone and one with --fuse, and a tool whose steps meet no fault.
Gone == tgt # NoDevice /\ mode[tgt] # IF pc = "boot" THEN "sdp" ELSE "ums"
Lost == pc = "status" /\ dev = NoDevice

Calm == \/ \E f \in FlagChoices : ~f.fuse /\ StartTool(f)
        \/ (flags.fuse \/ Gone \/ Lost) /\ Interrupt
        \/ pc = "detect" /\ \E d \in Devices : mode[d] # "sdp" /\ Power(d, "usb")
        \/ pc = "u2f" /\ \E d \in Devices : mode[d] # "witness" /\ Power(d, "mmc")
        \/ DetectHID \/ BootRecovery \/ BlockAppears
        \/ FlashOne \/ WipeData \/ DetectU2F \/ Status

\* Faults and other doings of the operator stop, at an arbitrary moment, and
\* then what can go on does.
FairSpec == Spec /\ <>[][Calm]_vars /\ WF_vars(Calm)

\* The ROM of a board fused to another environment does not run this one's
\* recovery image.
Foreign(d) == fuses[d] \notin {"no", HabTarget}

\* No failed, interrupted or refused run, fused half-way or not, puts a board
\* beyond a later run without --fuse: that run can complete it.
Completable == []<>(pc = "done" \/ \A d \in Devices : Foreign(d))
=============================================================================
