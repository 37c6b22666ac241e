-------------------------- MODULE ProvisionProofs ---------------------------
(***************************************************************************)
(* Theorems about Provision, for any boards and any flags: a board is only *)
(* ever fused to --hab_target; and a run that has found one board only     *)
(* fuses it when it runs no applet and will boot again, and reports       *)
(* success when all of it is installed.                                    *)
(***************************************************************************)
EXTENDS Provision, TLAPS

\* The job index is within the jobs of the stage in hand, and the boards the
\* tool holds are boards this run has found.
ToolOK ==
  /\ pc # "flash" \/ stage = 2 => job = 1
  /\ pc \in {"boot", "block", "flash", "wipe"} => tgt \in found
  /\ pc \in {"status", "arm"} /\ dev # NoDevice => dev \in found
  /\ pc \notin {"status", "arm"} => dev = NoDevice
  /\ pc \in {"u2f", "status", "arm", "done"} \/ stage = 2 => found # {}
  /\ stage = 2 => pc \in {"detect", "boot", "block", "flash", "u2f", "status"}
  /\ pc = "arm" => stage = 1 /\ flags.fuse

\* What was checked at the status still holds when the countdown ends.
ArmedForTarget == pc = "arm" /\ dev # NoDevice => ReportedSRK = HabTarget

IInv == TypeOK /\ ToolOK /\ ArmedForTarget

LEMMA InitOK == Init => IInv
BY DeviceAssumption
   DEF Init, DeviceInit, IInv, TypeOK, DeviceTypeOK, ToolOK, ArmedForTarget, Pcs, Modes,
       Contents, Slots, Envs, NoFlags, Image

\* Every flash job names a region and the contents it will have.
LEMMA JobsWellFormed ==
  ASSUME IInv, pc = "flash"
  PROVE  /\ job \in 1 .. Len(FlashStage(stage))
         /\ FlashStage(stage)[job][1] \in Slots
         /\ FlashStage(stage)[job][2] \in Contents
         /\ Len(FlashStage(stage)) \in 1 .. 4
<1>1. CASE stage = 2
  BY <1>1 DEF IInv, TypeOK, ToolOK, FlashStage, Slots, Contents
<1>2. CASE stage = 1
  BY <1>2 DEF IInv, TypeOK, ToolOK, FlashStage, Slots, Contents
<1>3. QED
  BY <1>1, <1>2 DEF IInv, TypeOK

\* A write leaves the MMCs well-formed.
LEMMA WriteTypeOK ==
  ASSUME DeviceTypeOK, NEW slot \in Slots, NEW contents \in Contents, tgt \in Devices,
         Write(slot, contents)
  PROVE  mmc' \in [Devices -> [Slots -> Contents]]
BY DEF DeviceTypeOK, Write

LEMMA StepOK == IInv /\ [Next]_vars => IInv'
<1> SUFFICES ASSUME IInv, [Next]_vars PROVE IInv'
  OBVIOUS
<1> USE DEF IInv
<1>0. FlagChoices \subseteq [fuse : BOOLEAN, wipe : BOOLEAN, anyway : BOOLEAN] /\ NoDevice \notin Devices
  BY FlagAssumption
<1>1. ASSUME NEW d \in Devices, NEW switch \in Switches, Power(d, switch) PROVE IInv'
  <2>1. AfterPower(d, switch) \in Modes
    BY DEF AfterPower, Modes
  <2>2. DeviceTypeOK'
    BY <1>1, <2>1 DEF Power, TypeOK, DeviceTypeOK
  <2>3. QED
    BY <1>1, <2>2 DEF Power, TypeOK, ToolOK, ArmedForTarget, ReportedSRK
<1>2. ASSUME NEW f \in FlagChoices, StartTool(f) PROVE IInv'
  BY <1>0, <1>2 DEF StartTool, Running, TypeOK, DeviceTypeOK, deviceVars, Pcs, ToolOK, ArmedForTarget
<1>3. ASSUME Fails, UNCHANGED <<fuses, srk>>, mode' \in [Devices -> Modes],
             mmc' \in [Devices -> [Slots -> Contents]]
      PROVE  IInv'
  BY <1>3 DEF Fails, Ends, TypeOK, DeviceTypeOK, NoFlags, Pcs, ToolOK, ArmedForTarget
<1>4. CASE Interrupt
  BY <1>3, <1>4 DEF Interrupt, deviceVars, TypeOK, DeviceTypeOK
<1>5. CASE DetectHID
  BY <1>5 DEF DetectHID, TypeOK, DeviceTypeOK, deviceVars, Pcs, ToolOK, ArmedForTarget
<1>6. CASE BootRecovery
  <2>1. mode' \in [Devices -> Modes]
    BY <1>6 DEF BootRecovery, Started, TypeOK, DeviceTypeOK, Modes
  <2>2. QED
    BY <1>6, <2>1 DEF BootRecovery, Started, TypeOK, DeviceTypeOK, Pcs, ToolOK, ArmedForTarget
<1>7. CASE BootFails
  <2>1. mode' \in [Devices -> Modes]
    BY <1>7 DEF BootFails, Started, TypeOK, DeviceTypeOK, Modes
  <2>2. QED
    BY <1>3, <1>7, <2>1 DEF BootFails, TypeOK, DeviceTypeOK
<1>8. CASE BlockAppears
  BY <1>8 DEF BlockAppears, TypeOK, DeviceTypeOK, deviceVars, Pcs, ToolOK, ArmedForTarget
<1>9. CASE FlashOne
  <2>1. mmc' \in [Devices -> [Slots -> Contents]]
    <3>1. FlashStage(stage)[job][1] \in Slots /\ FlashStage(stage)[job][2] \in Contents
      BY <1>9, JobsWellFormed DEF FlashOne
    <3>2. Write(FlashStage(stage)[job][1], FlashStage(stage)[job][2]) /\ tgt \in Devices /\ DeviceTypeOK
      BY <1>9 DEF FlashOne, TypeOK, ToolOK
    <3>3. QED
      BY <3>1, <3>2, WriteTypeOK
  <2>2. job' \in 1 .. 4
    <3> DEFINE n == Len(FlashStage(stage))
    <3>1. n \in 1 .. 4 /\ job \in 1 .. n
      BY <1>9, JobsWellFormed DEF FlashOne
    <3>2. job' = 1 \/ (job < n /\ job' = job + 1)
      BY <1>9 DEF FlashOne, Leaves
    <3> HIDE DEF n
    <3>3. QED
      BY <3>1, <3>2
  <2>3. pc' \in {"flash", "wipe", "u2f"} /\ (pc' = "flash" => stage # 2) /\ (pc' # "flash" => job' = 1)
    <3>1. stage = 2 => ~(job < Len(FlashStage(stage)))
      BY <1>9 DEF FlashOne, ToolOK, FlashStage
    <3>2. CASE job < Len(FlashStage(stage))
      <4>1. pc = "flash" /\ pc' = pc
        BY <1>9, <3>2 DEF FlashOne
      <4>2. QED
        BY <3>1, <3>2, <4>1, Zenon
    <3>3. CASE ~(job < Len(FlashStage(stage)))
      BY <1>9, <3>3 DEF FlashOne, Leaves
    <3>4. QED
      BY <3>2, <3>3
  <2>4. pc' # "u2f" => tgt' = tgt
    BY <1>9 DEF FlashOne, Leaves
  <2>5. tgt' \in Devices \cup {NoDevice}
    BY <1>9 DEF FlashOne, Leaves, TypeOK
  <2>6. TypeOK'
    BY <1>9, <2>1, <2>2, <2>3, <2>5 DEF FlashOne, TypeOK, DeviceTypeOK, Pcs
  <2>7. pc = "flash" /\ UNCHANGED <<stage, flags, dev, found>>
    BY <1>9 DEF FlashOne
  <2>8. stage = 2 => pc' # "wipe"
    BY <1>9, <2>3 DEF FlashOne, Leaves
  <2>9. ToolOK'
    BY <2>3, <2>4, <2>7, <2>8 DEF ToolOK
  <2>10. QED
    BY <2>3, <2>6, <2>9 DEF ArmedForTarget
<1>10. CASE FlashFails
  <2>1. mmc' \in [Devices -> [Slots -> Contents]]
    <3>1. "junk" \in Contents
      BY DEF Contents
    <3>2. QED
      BY <1>10, <3>1, JobsWellFormed, WriteTypeOK DEF FlashFails, TypeOK, ToolOK, DeviceTypeOK
  <2>2. QED
    BY <1>3, <1>10, <2>1 DEF FlashFails, TypeOK, DeviceTypeOK
<1>11. CASE WipeData
  <2>1. mmc' \in [Devices -> [Slots -> Contents]]
    BY <1>11, WriteTypeOK DEF WipeData, TypeOK, ToolOK, Slots, Contents
  <2>2. QED
    BY <1>11, <2>1 DEF WipeData, Leaves, TypeOK, DeviceTypeOK, Pcs, ToolOK, ArmedForTarget
<1>12. CASE WipeFails
  <2>1. mmc' \in [Devices -> [Slots -> Contents]]
    BY <1>12, WriteTypeOK DEF WipeFails, TypeOK, DeviceTypeOK, ToolOK, Slots, Contents
  <2>2. QED
    BY <1>3, <1>12, <2>1 DEF WipeFails, TypeOK, DeviceTypeOK
<1>13. CASE DetectU2F
  BY <1>13 DEF DetectU2F, TypeOK, DeviceTypeOK, deviceVars, Pcs, ToolOK, ArmedForTarget
<1>14. CASE Status
  <2>1. CASE Fails
    BY <1>3, <1>14, <2>1 DEF Status, deviceVars, TypeOK, DeviceTypeOK
  <2>2. CASE Succeeds
    BY <1>14, <2>2 DEF Status, Succeeds, Ends, TypeOK, DeviceTypeOK, deviceVars, Pcs, ToolOK, ArmedForTarget
  <2>3. CASE stage # 2 /\ ~RefusesStatus /\ flags.fuse /\ pc' = "arm" /\ UNCHANGED <<stage, flags, job, tgt, dev, found>>
    BY <1>14, <2>3 DEF Status, RefusesStatus, ReportedSRK, TypeOK, DeviceTypeOK, deviceVars, Pcs, ToolOK,
                       ArmedForTarget
  <2>4. QED
    BY <1>14, <2>1, <2>2, <2>3 DEF Status
<1>15. CASE StatusFails
  BY <1>3, <1>15 DEF StatusFails, deviceVars, TypeOK, DeviceTypeOK
<1>16. CASE ActivateHAB
  <2>1. fuses' \in [Devices -> Envs \cup {"no"}]
    BY <1>16, DeviceAssumption DEF ActivateHAB, TypeOK, DeviceTypeOK, ArmedForTarget
  <2>2. CASE Fails
    BY <1>16, <2>1, <2>2 DEF ActivateHAB, Fails, Ends, TypeOK, DeviceTypeOK, NoFlags, Pcs, ToolOK, ArmedForTarget
  <2>3. CASE pc' = "detect" /\ stage' = 2 /\ dev' = NoDevice /\ UNCHANGED <<flags, job, tgt, found>>
    BY <1>16, <2>1, <2>3 DEF ActivateHAB, TypeOK, DeviceTypeOK, Pcs, ToolOK, ArmedForTarget
  <2>4. QED
    BY <1>16, <2>2, <2>3 DEF ActivateHAB, GoesOn
<1>17. CASE UNCHANGED vars
  BY <1>17 DEF vars, toolVars, deviceVars, TypeOK, DeviceTypeOK, ToolOK, ArmedForTarget, ReportedSRK
<1>18. QED
  BY <1>1, <1>2, <1>4, <1>5, <1>6, <1>7, <1>8, <1>9, <1>10, <1>11, <1>12, <1>13, <1>14, <1>15, <1>16, <1>17
     DEF Next, Operator, Recovery, Flash, Witness

\* Every reachable state of the tool and the boards is well-formed.
THEOREM TypeCorrect == Spec => []TypeOK
<1>1. IInv => TypeOK
  BY DEF IInv
<1>2. QED
  BY <1>1, InitOK, StepOK, PTL DEF Spec

\* A step that changes a fuse fuses one unfused board to the target.
LEMMA FuseStep ==
  ASSUME IInv, [Next]_vars, NEW d \in Devices, fuses'[d] # fuses[d]
  PROVE  pc = "arm" /\ dev = d /\ fuses[d] = "no" /\ fuses'[d] = HabTarget /\ mmc' = mmc
<1>1. CASE ActivateHAB
  BY <1>1 DEF ActivateHAB, IInv, TypeOK, DeviceTypeOK, ArmedForTarget
<1>2. ~ActivateHAB => UNCHANGED fuses
  BY DEF Next, Operator, Recovery, Flash, Witness, vars, deviceVars, Power, StartTool, Interrupt,
         DetectHID, BootRecovery, BootFails, BlockAppears, FlashOne, FlashFails, WipeData, WipeFails,
         DetectU2F, Status, StatusFails
<1>3. QED
  BY <1>1, <1>2

\* A board is only ever fused to the environment the operator targets: for any
\* number of boards, any flags, and whatever each board's OS reports
\* (waitAndProvision's SRK checks hold until ActivateHAB).
THEOREM OnlyFusedToTarget == Spec => FusedToTarget
<1>1. IInv /\ [Next]_vars =>
        [\A d \in Devices : fuses'[d] # fuses[d] => fuses[d] = "no" /\ fuses'[d] = HabTarget]_vars
  BY FuseStep
<1>2. QED
  BY <1>1, InitOK, StepOK, PTL DEF Spec, FusedToTarget

-----------------------------------------------------------------------------
(* A run that has found one board only: what it has written is on that     *)
(* board, however many others there are.                                   *)

Past == pc \in {"wipe", "u2f", "status", "arm"}
Beyond(n) == Past \/ (pc = "flash" /\ job > n)

\* How far the first stage has come.
FirstStage(d) ==
  /\ Beyond(1) => mmc[d]["os"] = "new"
  /\ Beyond(2) => mmc[d]["boot"] = "new"
  /\ Beyond(3) => mmc[d]["conf"] = "new"
  /\ Past => mmc[d]["applet"] = IF flags.fuse THEN "zero" ELSE "new"
  /\ Past /\ pc # "wipe" /\ flags.wipe => mmc[d]["data"] = "zero"

SecondStage(d) ==
  /\ \A s \in {"os", "boot", "conf"} : mmc[d][s] = "new"
  /\ flags.wipe => mmc[d]["data"] = "zero"
  /\ ~flags.anyway => fuses[d] = HabTarget
  /\ pc \in {"u2f", "status"} => mmc[d]["applet"] = "new"

Done(d) ==
  /\ stage = 1 => FirstStage(d)
  /\ stage = 2 => SecondStage(d)
  /\ pc = "done" => Installed(d)

Progress == \A d \in Devices : found = {d} => Done(d)

\* Unless it ends, a run does not forget a board, and it begins with none.
LEMMA FoundStep ==
  ASSUME IInv, [Next]_vars, NEW b \in Devices, found' = {b}
  PROVE  \/ found = {b}
         \/ found = {} /\ pc = "detect" /\ stage = 1 /\ DetectHID
<1> USE DEF IInv
<1>1. CASE DetectHID
  BY <1>1 DEF DetectHID, ToolOK, TypeOK
<1>2. CASE BlockAppears \/ DetectU2F
  BY <1>2 DEF BlockAppears, DetectU2F, ToolOK, TypeOK
<1>3. ASSUME NEW f \in FlagChoices, StartTool(f) PROVE FALSE
  BY <1>3 DEF StartTool
<1>4. ASSUME Fails PROVE FALSE
  BY <1>4 DEF Fails
<1>5. CASE Status
  BY <1>4, <1>5 DEF Status, Succeeds
<1>6. CASE ActivateHAB
  BY <1>4, <1>6 DEF ActivateHAB, GoesOn
<1>7. CASE BootRecovery \/ FlashOne \/ WipeData \/ UNCHANGED vars
  BY <1>7 DEF BootRecovery, FlashOne, WipeData, vars, toolVars
<1>8. ASSUME NEW d \in Devices, NEW switch \in Switches, Power(d, switch) PROVE found = {b}
  BY <1>8 DEF Power
<1>9. QED
  BY <1>1, <1>2, <1>3, <1>4, <1>5, <1>6, <1>7, <1>8
     DEF Next, Operator, Recovery, Flash, Witness, Interrupt, BootFails, FlashFails, WipeFails, StatusFails

LEMMA DoneStep ==
  ASSUME IInv, NEW b \in Devices, found = {b}, found' = {b}, Done(b), [Next]_vars
  PROVE  Done(b)'
<1> USE DEF IInv
<1>1. ASSUME Fails PROVE FALSE
  BY <1>1 DEF Fails
<1>2. ASSUME NEW d \in Devices, NEW switch \in Switches, Power(d, switch) PROVE Done(b)'
  BY <1>2 DEF Power, Done, FirstStage, SecondStage, Past, Beyond, Installed
<1>3. ASSUME NEW f \in FlagChoices, StartTool(f) PROVE FALSE
  BY <1>3 DEF StartTool
<1>4. ~Interrupt /\ ~BootFails /\ ~FlashFails /\ ~WipeFails /\ ~StatusFails
  BY <1>1 DEF Interrupt, BootFails, FlashFails, WipeFails, StatusFails
<1>5. CASE DetectHID
  BY <1>5 DEF DetectHID, deviceVars, Done, FirstStage, SecondStage, Past, Beyond
<1>6. CASE BootRecovery
  BY <1>6 DEF BootRecovery, Done, FirstStage, SecondStage, Past, Beyond
<1>7. CASE BlockAppears
  <2>1. stage = 2 => job = 1
    BY DEF ToolOK
  <2>2. stage = 1 => job = 1
    BY <1>7 DEF BlockAppears, ToolOK
  <2>3. QED
    BY <1>7, <2>1, <2>2 DEF BlockAppears, deviceVars, Done, FirstStage, SecondStage, Past, Beyond, TypeOK
<1>8. CASE FlashOne
  <2>1. tgt = b
    BY <1>8 DEF FlashOne, ToolOK
  <2>2. \A s \in Slots : mmc'[b][s] =
          IF s = FlashStage(stage)[job][1] THEN FlashStage(stage)[job][2] ELSE mmc[b][s]
    BY <1>8, <2>1, JobsWellFormed DEF FlashOne, Write, TypeOK, DeviceTypeOK
  <2>3. pc = "flash" /\ UNCHANGED <<stage, flags, fuses>>
    BY <1>8 DEF FlashOne
  <2>4. CASE stage = 1
    <3> DEFINE last == IF flags.fuse THEN "zero" ELSE "new"
    <3>1. /\ Len(FlashStage(stage)) = 4
          /\ FlashStage(stage)[1] = <<"os", "new">> /\ FlashStage(stage)[2] = <<"boot", "new">>
          /\ FlashStage(stage)[3] = <<"conf", "new">> /\ FlashStage(stage)[4] = <<"applet", last>>
      BY <2>4 DEF FlashStage
    <3>2. \/ job < 4 /\ job' = job + 1 /\ pc' = pc
          \/ ~(job < 4) /\ pc' = "wipe"
          \/ ~(job < 4) /\ pc' = "u2f" /\ ~flags.wipe
      BY <1>8, <2>4, <3>1 DEF FlashOne, Leaves
    <3> HIDE DEF last
    <3>3. CASE job = 1
      BY <2>2, <2>3, <2>4, <3>1, <3>2, <3>3 DEF Done, FirstStage, Past, Beyond, Slots
    <3>4. CASE job = 2
      BY <2>2, <2>3, <2>4, <3>1, <3>2, <3>4 DEF Done, FirstStage, Past, Beyond, Slots
    <3>5. CASE job = 3
      BY <2>2, <2>3, <2>4, <3>1, <3>2, <3>5 DEF Done, FirstStage, Past, Beyond, Slots
    <3>6. CASE job = 4
      BY <2>2, <2>3, <2>4, <3>1, <3>2, <3>6 DEF Done, FirstStage, Past, Beyond, Slots, last
    <3>7. QED
      BY <3>3, <3>4, <3>5, <3>6 DEF TypeOK
  <2>5. CASE stage = 2
    <3>1. job = 1 /\ FlashStage(stage)[1] = <<"applet", "new">> /\ Len(FlashStage(stage)) = 1
      BY <2>5 DEF FlashStage, ToolOK
    <3> DEFINE n == Len(FlashStage(stage))
    <3>2. ~(job < n) /\ stage # 1
      <4> HIDE DEF n
      <4>1. n = 1 /\ job = 1
        BY <3>1 DEF n
      <4>2. QED
        BY <2>5, <4>1
    <3>3. pc' = "u2f"
      BY <1>8, <3>2 DEF FlashOne, Leaves
    <3>4. QED
      BY <2>2, <2>3, <2>5, <3>1, <3>3 DEF Done, SecondStage, Slots
  <2>6. QED
    BY <2>4, <2>5 DEF TypeOK
<1>9. CASE WipeData
  <2>1. stage = 1 /\ tgt = b
    BY <1>9 DEF WipeData, ToolOK, TypeOK
  <2>2. \A s \in Slots : mmc'[b][s] = IF s = "data" THEN "zero" ELSE mmc[b][s]
    BY <1>9, <2>1 DEF WipeData, Write, TypeOK, DeviceTypeOK, Slots
  <2>3. QED
    BY <1>9, <2>1, <2>2 DEF WipeData, Leaves, Done, FirstStage, Past, Beyond, Slots
<1>10. CASE DetectU2F
  BY <1>10 DEF DetectU2F, deviceVars, Done, FirstStage, SecondStage, Past, Beyond
<1>11. CASE Status
  <2>1. CASE Succeeds /\ (stage = 2 \/ ~flags.fuse)
    BY <1>11, <2>1 DEF Status, Succeeds, Ends, deviceVars, TypeOK, Done, FirstStage, SecondStage,
                       Past, Beyond, Installed
  <2>2. CASE stage # 2 /\ pc' = "arm" /\ UNCHANGED <<stage, flags, job, tgt, dev, found>>
    BY <1>11, <2>2 DEF Status, deviceVars, TypeOK, Done, FirstStage, Past, Beyond
  <2>3. QED
    BY <1>1, <1>11, <2>1, <2>2 DEF Status
<1>12. CASE ActivateHAB
  <2>1. CASE Fails
    BY <1>1, <2>1
  <2>2. ASSUME NEW err \in BOOLEAN, GoesOn(err), ~Fails,
               \/ /\ dev # NoDevice
                  /\ fuses' = [fuses EXCEPT ![dev] = ReportedSRK]
               \/ err /\ UNCHANGED fuses
        PROVE  Done(b)'
    <3>1. pc' = "detect" /\ stage' = 2 /\ UNCHANGED <<mmc, flags>> /\ (~err \/ flags.anyway)
      BY <1>12, <2>2 DEF ActivateHAB, GoesOn
    <3>2. ~flags.anyway => fuses'[b] = HabTarget
      BY <1>12, <2>2, <3>1 DEF ActivateHAB, ToolOK, TypeOK, DeviceTypeOK, ArmedForTarget
    <3>3. pc = "arm" /\ stage = 1
      BY <1>12 DEF ActivateHAB, ToolOK
    <3>4. QED
      BY <3>1, <3>2, <3>3 DEF Done, FirstStage, SecondStage, Past, Beyond
  <2>3. QED
    BY <1>12, <2>1, <2>2 DEF ActivateHAB
<1>13. CASE UNCHANGED vars
  BY <1>13 DEF vars, toolVars, deviceVars, Done, FirstStage, SecondStage, Past, Beyond, Installed
<1>14. QED
  BY <1>2, <1>3, <1>4, <1>5, <1>6, <1>7, <1>8, <1>9, <1>10, <1>11, <1>12, <1>13
     DEF Next, Operator, Recovery, Flash, Witness

LEMMA ProgressInvariant == Spec => [](IInv /\ Progress)
<1>1. Init => Progress
  BY DEF Init, Progress
<1>2. IInv /\ Progress /\ [Next]_vars => Progress'
  <2> SUFFICES ASSUME IInv, Progress, [Next]_vars, NEW b \in Devices, found' = {b}
               PROVE  Done(b)'
    BY DEF Progress
  <2>1. CASE found = {b}
    BY <2>1, DoneStep DEF Progress
  <2>2. CASE DetectHID /\ stage = 1
    BY <2>2 DEF DetectHID, Done, FirstStage, Past, Beyond
  <2>3. QED
    BY <2>1, <2>2, FoundStep
<1>3. QED
  BY <1>1, <1>2, InitOK, StepOK, PTL DEF Spec

\* A run that ends with success and has found one board has installed every
\* image on it, wiped and fused it as asked, whatever aborted runs and power
\* cycles came before or in between and whatever other boards are on the desk.
THEOREM SuccessIsInstalled == Spec => []SuccessMeansInstalled
<1>1. IInv /\ Progress => SuccessMeansInstalled
  BY DEF IInv, ToolOK, Progress, Done, SuccessMeansInstalled
<1>2. QED
  BY <1>1, ProgressInvariant, PTL

\* What a fusing step leaves when the run has found no other board.
LEMMA SafeStep ==
  ASSUME IInv, Progress, [Next]_vars, NEW d \in Devices, fuses'[d] # fuses[d], found = {d}
  PROVE  Safe(d)
<1>1. pc = "arm" /\ stage = 1 /\ flags.fuse
  BY FuseStep DEF IInv, ToolOK
<1>2. mmc[d]["applet"] = "zero" /\ mmc[d]["boot"] = "new"
  BY <1>1 DEF Progress, Done, FirstStage, Past, Beyond
<1>3. QED
  BY <1>2 DEF Safe, AppletRuns, Image, BootEnv

\* For any number of boards: what fuses a board that runs an applet or will not
\* boot is a run that has found two boards (waitAndProvision's two flash
\* stages, waitForHIDDevice and DetectU2F); one that has found one neither
\* races the applet nor leaves a board that cannot boot.
THEOREM OnlyMixupHarms == Spec => FusedQuietUnlessMixed
<1>1. IInv /\ Progress /\ [Next]_vars =>
        [\A d \in Devices : fuses'[d] # fuses[d] /\ found = {d} => Safe(d)]_vars
  BY SafeStep
<1>2. QED
  BY <1>1, ProgressInvariant, PTL DEF Spec, FusedQuietUnlessMixed

\* With one board on the desk no run can find two, and what the comments of the
\* tool say of fusing is true.
THEOREM OneBoardFusedQuietly ==
  ASSUME NEW CONSTANT b, Devices = {b}
  PROVE  Spec => FusedQuietAndSigned
<1>1. IInv /\ Progress /\ [Next]_vars => [\A d \in Devices : fuses'[d] # fuses[d] => Safe(d)]_vars
  <2> SUFFICES ASSUME IInv, Progress, [Next]_vars, NEW d \in Devices, fuses'[d] # fuses[d]
               PROVE  Safe(d)
    OBVIOUS
  <2>1. dev = d /\ pc = "arm"
    BY FuseStep
  <2>2. found = {d}
    BY <2>1, FlagAssumption DEF FlagAssumption, IInv, ToolOK, TypeOK
  <2>3. QED
    BY <2>2, SafeStep
<1>2. QED
  BY <1>1, ProgressInvariant, PTL DEF Spec, FusedQuietAndSigned
=============================================================================
