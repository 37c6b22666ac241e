----------------------------- MODULE BootCallers ------------------------------
(***************************************************************************)
(* The callers of device.BootIntoRecovery, waitAndProvision and            *)
(* waitAndVerify, take a call of it for one or two steps.  What the call   *)
(* may do by its contract, RecoveryPromise, is shown here to be one of     *)
(* those steps or nothing the callers see, and with it what SdpBoot does,  *)
(* report by report.                                                       *)
(***************************************************************************)
EXTENDS SdpBootProofs

CONSTANTS
  Devices, HabTarget, OldBootEnv, FlagChoices, NoDevice,   \* those of Provision
  Board,                                                   \* the board the call is for
  Mode, Mmc, Fuses, Srk, Stage, Flags, Found               \* what else is on the desk
                                                           \* and in the tool meanwhile
CONSTANTS
  Trees, ForkAt, MaxSize,      \* those of DeviceVerify
  Heads, OnBoard, Tracked      \* the log, the board's bundles and the tracker

\* Where the call is, for its callers.
call == IF pc \in {"found", "failed"} THEN pc ELSE "waiting"

\* Provision during the call.  The board is off the bus of HID devices once it
\* is started; a call that fails ends the run, and with it what it held.
P == INSTANCE Provision WITH
  mode  <- [d \in Devices |-> IF d # Board THEN Mode[d]
                            ELSE IF board \in {"sdp", "off"} THEN board ELSE "ums"],
  mmc   <- Mmc,
  fuses <- Fuses,
  srk   <- Srk,
  pc    <- IF call = "found" THEN "flash"
           ELSE IF call = "failed" THEN "idle"
           ELSE IF board = "sdp" THEN "boot" ELSE "block",
  stage <- IF call = "failed" THEN 1 ELSE Stage,
  flags <- IF call = "failed" THEN [fuse |-> FALSE, wipe |-> FALSE, anyway |-> FALSE] ELSE Flags,
  job   <- 1,
  tgt   <- IF call = "failed" THEN NoDevice ELSE Board,
  dev   <- NoDevice,
  found <- IF call = "failed" THEN {} ELSE Found \cup {Board}

\* DeviceVerify during the call: a call that fails is a step that failed.
V == INSTANCE DeviceVerify WITH
  Faults  <- TRUE,
  head    <- Heads,
  device  <- OnBoard,
  pc      <- IF call = "found" THEN "extract" ELSE IF call = "failed" THEN "failed" ELSE "boot",
  tries   <- 0,
  lst     <- Tracked,
  n       <- 1,
  errs    <- FALSE,
  wronged <- (call = "failed")

RTypeOK ==
  /\ call \in {"waiting", "found", "failed"}
  /\ board \in {"sdp", "booting", "ums", "off"}

\* A call that found its device is for a board that was started.
CallInv == RTypeOK /\ (call = "found" => board \in {"ums", "off"})

LEMMA CallInit == Promise!RInit => CallInv
BY DEF Promise!RInit, CallInv, RTypeOK, call

LEMMA CallStep == CallInv /\ [Promise!RNext]_(Promise!rvars) => CallInv'
BY DEF CallInv, RTypeOK, call, Promise!RNext, Promise!rvars, Promise!RStart, Promise!Starts,
       Promise!RPresent, Promise!RSettle, Promise!RLost, Promise!RFound, Promise!RFail

\* The steps a caller does not see.
LEMMA Unseen ==
  ASSUME CallInv, Promise!RPresent \/ Promise!RSettle \/ UNCHANGED Promise!rvars
  PROVE  UNCHANGED P!vars /\ UNCHANGED V!vars
<1>1. call' = call /\ \A s \in {"sdp", "off"} : board' = s <=> board = s
  BY DEF CallInv, RTypeOK, call, Promise!RPresent, Promise!RSettle, Promise!rvars
<1> QED
  BY <1>1, Zenon
     DEF P!vars, P!deviceVars, P!toolVars, V!vars

\* What Provision makes of the call.
ProvisionStep == \/ P!BootRecovery \/ P!BootFails \/ P!BlockAppears \/ P!Interrupt
                 \/ P!Power(Board, "none")

\* A call of BootIntoRecovery for a board that the ROM lets run the recovery image
\* is, in every run of the tool and with any other boards on the desk, what
\* Provision takes it for: the board is started, the block device appears, the call
\* fails before or after the board was started, the run is given up while it
\* waits, or the started board is gone. (A board that does not accept the image keeps the call waiting;
\* Provision has it hang.)
THEOREM CallInProvision ==
  ASSUME Board \in Devices, Fuses[Board] \in {"no", HabTarget}
  PROVE  Spec => [][ProvisionStep]_(P!vars)
<1>1. CallInv /\ [Promise!RNext]_(Promise!rvars) => [ProvisionStep]_(P!vars)
  <2> USE DEF call
  <2> SUFFICES ASSUME CallInv, [Promise!RNext]_(Promise!rvars) PROVE [ProvisionStep]_(P!vars)
    OBVIOUS
  <2>1. CASE Promise!RPresent \/ Promise!RSettle \/ UNCHANGED Promise!rvars
    BY <2>1, Unseen
  <2>2. CASE Promise!RStart
    <3>1. P!BootRecovery
      BY <2>2 DEF Promise!RStart, Promise!Starts, P!BootRecovery, P!Started, P!RecoveryBoots, P!RomAccepts
    <3> QED
      BY <3>1 DEF ProvisionStep
  <2>3. CASE Promise!RFound
    <3>1. P!BlockAppears
      BY <2>3 DEF Promise!RFound, P!BlockAppears, P!deviceVars
    <3> QED
      BY <3>1 DEF ProvisionStep
  <2>4. CASE Promise!RFail
    <3>1. CASE board = "sdp"
      <4>1. P!BootFails
        BY <2>4, <3>1
           DEF Promise!RFail, Promise!Starts, P!BootFails, P!Started, P!RecoveryBoots, P!RomAccepts, P!Fails,
               P!Ends, P!NoFlags
      <4> QED
        BY <4>1 DEF ProvisionStep
    <3>2. CASE board # "sdp"
      BY <2>4, <3>2
         DEF ProvisionStep, Promise!RFail, Promise!Starts, P!Interrupt, P!Running, P!Pcs, P!Fails, P!Ends, P!NoFlags, P!deviceVars
    <3> QED
      BY <3>1, <3>2
  <2>5. CASE Promise!RLost
    <3>1. P!Power(Board, "none")
      BY <2>5 DEF Promise!RLost, P!Power, P!AfterPower
    <3> QED
      BY <3>1 DEF ProvisionStep
  <2> QED
    BY <2>1, <2>2, <2>3, <2>4, <2>5 DEF Promise!RNext
<1> QED
  BY <1>1, CallInit, CallStep, CallKeepsPromise, PTL DEF KeepsPromise, Promise!RSpec

\* The same for DeviceVerify, which sees only whether the call returns a device
\* or an error.
THEOREM CallInVerify == Spec => [][V!BootIntoRecovery \/ V!StepFails]_(V!vars)
<1>1. CallInv /\ [Promise!RNext]_(Promise!rvars) => [V!BootIntoRecovery \/ V!StepFails]_(V!vars)
  <2> USE DEF call
  <2> SUFFICES ASSUME CallInv, [Promise!RNext]_(Promise!rvars)
               PROVE  [V!BootIntoRecovery \/ V!StepFails]_(V!vars)
    OBVIOUS
  <2>1. CASE Promise!RPresent \/ Promise!RSettle \/ UNCHANGED Promise!rvars
    BY <2>1, Unseen
  <2>2. CASE Promise!RStart
    BY <2>2 DEF Promise!RStart, V!vars
  <2>3. CASE Promise!RFound
    BY <2>3 DEF Promise!RFound, V!BootIntoRecovery, V!Goes
  <2>4. CASE Promise!RFail
    BY <2>4 DEF Promise!RFail, V!StepFails
  <2>5. CASE Promise!RLost
    BY <2>5 DEF Promise!RLost, V!vars
  <2> QED
    BY <2>1, <2>2, <2>3, <2>4, <2>5 DEF Promise!RNext
<1> QED
  BY <1>1, CallInit, CallStep, CallKeepsPromise, PTL DEF KeepsPromise, Promise!RSpec
=============================================================================
