------------------------- MODULE DeviceVerifyProofs --------------------------
(***************************************************************************)
(* Theorems about DeviceVerify, for any number of trees a log shows, any   *)
(* fork and any sizes: a verified board's bundles are in one log, and a     *)
(* good board is not rejected because the log grows.                       *)
(***************************************************************************)
EXTENDS DeviceVerify, TLAPS

LEMMA PrefixTransitive ==
  ASSUME NEW c \in Checkpoints, NEW d \in Checkpoints, NEW e \in Checkpoints,
         Prefix(c, d), Prefix(d, e)
  PROVE  Prefix(c, e)
BY VerifyAssumption DEF Prefix, Checkpoints

\* Two beginnings of one tree are beginnings of each other.
LEMMA PrefixesOfOne ==
  ASSUME NEW c \in Checkpoints, NEW d \in Checkpoints, NEW e \in Checkpoints,
         Prefix(c, e), Prefix(d, e)
  PROVE  Prefix(c, d) \/ Prefix(d, c)
BY VerifyAssumption DEF Prefix, Checkpoints

\* Bundle k has passed both checks of verifyFirmwares.
Passed(k) == device[k].valid /\ Prefix(device[k].cp, lst)

PassedSoFar ==
  /\ pc \in {"bundle", "update", "prove"} /\ ~errs => \A k \in 1 .. 3 : k < n => Passed(k)
  /\ pc \in {"update", "prove"} => device[n].valid
  /\ pc \in {"recovery", "boot", "extract", "tracker"} => n = 1 /\ ~errs
  /\ pc = "verified" => \A k \in 1 .. 3 : Passed(k)

IInv == TypeOK /\ PassedSoFar

LEMMA InitOK == Init => IInv
<1> SUFFICES ASSUME Init PROVE IInv
  OBVIOUS
<1>1. head \in [Trees -> 0 .. MaxSize]
  BY VerifyAssumption DEF Init
<1>2. device \in [1 .. 3 -> Bundles]
  BY DEF Init
<1>3. pc = "recovery" /\ tries = 0 /\ lst \in Checkpoints /\ n = 1 /\ errs = FALSE
  BY DEF Init
<1>4. TypeOK
  <2>1. errs \in BOOLEAN /\ wronged \in BOOLEAN
    BY Zenon DEF Init
  <2>2. pc \in Pcs /\ tries \in 0 .. 1 /\ n \in 1 .. 3
    BY <1>3 DEF Pcs
  <2>3. QED
    BY <1>1, <1>2, <1>3, <2>1, <2>2 DEF TypeOK
<1>5. PassedSoFar
  BY <1>3 DEF PassedSoFar
<1>6. QED
  BY <1>4, <1>5 DEF IInv

\* The tracker only moves to a tree that its own is the beginning of.
LEMMA TrackerMoves ==
  ASSUME IInv, NEW c \in Checkpoints, lst' = c, Prefix(lst, c), UNCHANGED device,
         NEW k \in 1 .. 3, Passed(k)
  PROVE  Passed(k)'
BY PrefixTransitive DEF IInv, TypeOK, Passed, Bundles

LEMMA StepOK == IInv /\ [Next]_vars => IInv'
<1> SUFFICES ASSUME IInv, [Next]_vars PROVE IInv'
  OBVIOUS
<1> USE DEF IInv
<1>1. CASE Grow
  <2>1. head' \in [Trees -> 0 .. MaxSize]
    BY <1>1, VerifyAssumption DEF Grow, TypeOK
  <2>2. QED
    BY <1>1, <2>1 DEF Grow, TypeOK, PassedSoFar, Passed
<1>2. CASE FetchRecovery \/ BootIntoRecovery \/ ExtractFirmware
  BY <1>2 DEF FetchRecovery, BootIntoRecovery, ExtractFirmware, Goes, TypeOK, Pcs, PassedSoFar
<1>10. CASE ExtractFails
  BY <1>10 DEF ExtractFails, Goes, TypeOK, Pcs, PassedSoFar
<1>11. CASE StepFails
  BY <1>11 DEF StepFails, TypeOK, Pcs, PassedSoFar
<1>3. CASE NewTracker
  BY <1>3 DEF NewTracker, Goes, TypeOK, Pcs, PassedSoFar
<1>4. ASSUME NEW bad \in BOOLEAN, NextEntry(bad), UNCHANGED <<head, device, tries, lst, wronged>>,
             pc \in {"bundle", "prove"}, ~bad => Passed(n)
      PROVE  IInv'
  <2>1. TypeOK'
    BY <1>4 DEF NextEntry, TypeOK, Pcs
  <2>2. ~errs' => \A k \in 1 .. 3 : k < n \/ k = n => Passed(k)
    BY <1>4 DEF NextEntry, PassedSoFar
  <2>3. CASE n < 3
    BY <1>4, <2>1, <2>2, <2>3 DEF NextEntry, TypeOK, PassedSoFar, Passed
  <2>4. CASE ~(n < 3)
    BY <1>4, <2>1, <2>2, <2>4 DEF NextEntry, TypeOK, PassedSoFar, Passed
  <2>5. QED
    BY <2>3, <2>4
<1>5. CASE VerifyBundle
  <2>1. CASE device[n].valid
    BY <1>5, <2>1 DEF VerifyBundle, TypeOK, Pcs, PassedSoFar, Passed
  <2>2. CASE ~device[n].valid
    BY <1>4, <1>5, <2>2 DEF VerifyBundle
  <2>3. QED
    BY <2>1, <2>2
<1>6. CASE UpdateTracker
  <2>1. PICK c \in Checkpoints : Refresh(c)
    BY <1>6 DEF UpdateTracker
  <2>2. CASE UNCHANGED lst
    BY <1>6, <2>1, <2>2 DEF UpdateTracker, Refresh, TypeOK, Pcs, PassedSoFar, Passed
  <2>3. CASE lst' = c /\ Prefix(lst, c)
    <3>1. pc = "update" /\ pc' = "prove" /\ UNCHANGED <<device, n, errs, head, tries>> /\ wronged' \in BOOLEAN
      BY <1>6, <2>1, <2>3 DEF UpdateTracker, Refresh, Prefix, TypeOK
    <3>2. \A k \in 1 .. 3 : Passed(k) => Passed(k)'
      BY <2>3, <3>1, TrackerMoves
    <3>3. QED
      BY <2>3, <3>1, <3>2 DEF TypeOK, Pcs, PassedSoFar
  <2>4. QED
    BY <2>1, <2>2, <2>3 DEF Refresh
<1>7. CASE Prove
  <2>1. CASE Consistent(device[n].cp)
    BY <1>4, <1>7, <2>1 DEF Prove, Consistent, PassedSoFar, Passed
  <2>2. CASE ~Consistent(device[n].cp)
    BY <1>7, <2>2 DEF Prove, TypeOK, Pcs, PassedSoFar
  <2>3. QED
    BY <2>1, <2>2
<1>8. CASE UNCHANGED vars
  BY <1>8 DEF vars, TypeOK, PassedSoFar, Passed
<1>9. QED
  BY <1>1, <1>2, <1>3, <1>5, <1>6, <1>7, <1>8, <1>10, <1>11 DEF Next, Process

\* When the tool says "Device verified OK!", each bundle was accepted with its
\* component's keys and the checkpoints of all bundles belong to one log, for
\* every way the log may fork, grow or be served stale.
THEOREM VerifiedMeansOneLog == Spec => []VerifiedInOneLog
<1>1. IInv => VerifiedInOneLog
  <2> SUFFICES ASSUME IInv, pc = "verified", NEW k \in 1 .. 3, NEW m \in 1 .. 3
               PROVE  /\ device[k].valid
                      /\ Prefix(device[k].cp, device[m].cp) \/ Prefix(device[m].cp, device[k].cp)
    BY DEF VerifiedInOneLog, InOneLog
  <2>1. Passed(k) /\ Passed(m)
    BY DEF IInv, PassedSoFar
  <2>2. device[k].cp \in Checkpoints /\ device[m].cp \in Checkpoints /\ lst \in Checkpoints
    BY DEF IInv, TypeOK, Bundles
  <2>3. QED
    BY <2>1, <2>2, PrefixesOfOne DEF Passed
<1>2. QED
  BY <1>1, InitOK, StepOK, PTL DEF Spec

\* The type invariant of the verification.
THEOREM TypeCorrect == Spec => []TypeOK
<1>1. IInv => TypeOK
  BY DEF IInv
<1>2. QED
  BY <1>1, InitOK, StepOK, PTL DEF Spec
-----------------------------------------------------------------------------
(* No false alarm. *)

\* What excuses a rejection.
Excused ==
  wronged \/ \E k \in 1 .. 3 : ~device[k].valid \/ ~InOneLog(device[k].cp, lst)

NoFalseAlarm ==
  /\ errs => \E k \in 1 .. 3 : ~device[k].valid
  /\ pc = "prove" => wronged \/ device[n].cp.size <= lst.size
  /\ pc = "failed" => Excused

\* A checkpoint that is no larger than the tracker's and is not its beginning
\* is in another log.
LEMMA SmallerInOneLog ==
  ASSUME NEW c \in Checkpoints, NEW d \in Checkpoints, c.size <= d.size, InOneLog(c, d)
  PROVE  Prefix(c, d)
BY VerifyAssumption DEF Prefix, InOneLog, Checkpoints

LEMMA LargerInOneLog ==
  ASSUME NEW c \in Checkpoints, NEW d \in Checkpoints, ~(c.size <= d.size), InOneLog(c, d)
  PROVE  Prefix(d, c)
BY VerifyAssumption DEF Prefix, InOneLog, Checkpoints

LEMMA NextEntryNoAlarm ==
  ASSUME TypeOK, NoFalseAlarm, NEW bad \in BOOLEAN, NextEntry(bad), UNCHANGED <<device, lst, wronged>>,
         bad => ~device[n].valid
  PROVE  NoFalseAlarm'
<1>1. errs' => \E k \in 1 .. 3 : ~device[k].valid
  BY DEF NextEntry, NoFalseAlarm, TypeOK
<1>2. pc' # "prove" /\ (pc' = "failed" => errs')
  BY DEF NextEntry
<1>3. QED
  BY <1>1, <1>2, Zenon DEF NoFalseAlarm, Excused

LEMMA StepNoAlarm == IInv /\ NoFalseAlarm /\ [Next]_vars => NoFalseAlarm'
<1> SUFFICES ASSUME IInv, NoFalseAlarm, [Next]_vars PROVE NoFalseAlarm'
  OBVIOUS
<1>0. TypeOK /\ device[n].cp \in Checkpoints /\ lst \in Checkpoints
  BY DEF IInv, TypeOK, Bundles
<1>1. CASE Grow \/ FetchRecovery \/ BootIntoRecovery \/ ExtractFirmware \/ UNCHANGED vars
  <2>1. UNCHANGED <<device, lst, n, errs, wronged>>
    BY <1>1 DEF Grow, FetchRecovery, BootIntoRecovery, ExtractFirmware, vars
  <2>2. pc' = pc \/ (pc' # "prove" /\ pc' # "failed")
    BY <1>1 DEF Grow, FetchRecovery, BootIntoRecovery, ExtractFirmware, Goes, vars
  <2>3. QED
    BY <2>1, <2>2 DEF NoFalseAlarm, Excused
<1>2. CASE ExtractFails \/ StepFails
  BY <1>2 DEF ExtractFails, StepFails, Goes, NoFalseAlarm, Excused
<1>3. CASE NewTracker
  BY <1>3 DEF NewTracker, Goes, NoFalseAlarm
<1>4. CASE VerifyBundle
  <2>1. CASE ~device[n].valid
    <3>1. NextEntry(TRUE) /\ UNCHANGED <<device, lst, wronged>>
      BY <1>4, <2>1 DEF VerifyBundle
    <3>2. QED
      BY <1>0, <2>1, <3>1, NextEntryNoAlarm, Zenon
  <2>2. CASE device[n].valid
    <3>1. pc' = "prove" => device[n].cp.size <= lst.size
      BY <1>0, <1>4, <2>2 DEF VerifyBundle, Checkpoints
    <3>2. UNCHANGED <<device, lst, n, errs, wronged>> /\ pc' # "failed"
      BY <1>4, <2>2 DEF VerifyBundle
    <3>3. QED
      BY <3>1, <3>2 DEF NoFalseAlarm
  <2>3. QED
    BY <2>1, <2>2
<1>5. CASE UpdateTracker
  <2>1. PICK c \in Checkpoints :
          /\ Refresh(c)
          /\ wronged' = (wronged \/ c.size < device[n].cp.size \/ ~InOneLog(c, lst))
    BY <1>5 DEF UpdateTracker
  <2>2. UNCHANGED <<device, n, errs>>
    BY <1>5 DEF UpdateTracker
  <2>3. pc' = "prove" => wronged' \/ device[n].cp.size <= lst'.size
    <3>1. pc' = "prove" => c.size <= lst'.size
      BY <1>0, <2>1 DEF Refresh, Checkpoints
    <3>2. c.size < device[n].cp.size => wronged'
      BY <2>1, Zenon
    <3>3. lst' \in Checkpoints
      BY <1>0, <2>1 DEF Refresh
    <3>4. ~(c.size < device[n].cp.size) /\ c.size <= lst'.size => device[n].cp.size <= lst'.size
      BY <1>0, <3>3 DEF Checkpoints
    <3>5. QED
      BY <3>1, <3>2, <3>4
  <2>4. pc' = "failed" => wronged'
    <3>1. pc' = "failed" => ~(c.size <= lst.size) /\ ~Prefix(lst, c)
      BY <2>1 DEF Refresh
    <3>2. pc' = "failed" => ~InOneLog(c, lst)
      BY <1>0, <3>1, LargerInOneLog
    <3>3. QED
      BY <2>1, <3>2, Zenon
  <2>5. errs' => \E k \in 1 .. 3 : ~device'[k].valid
    BY <2>2 DEF NoFalseAlarm
  <2>6. QED
    BY <2>2, <2>3, <2>4, <2>5 DEF NoFalseAlarm, Excused
<1>6. CASE Prove
  <2>1. CASE Consistent(device[n].cp)
    BY <1>0, <1>6, <2>1, NextEntryNoAlarm DEF Prove
  <2>2. CASE ~Consistent(device[n].cp)
    <3>1. Excused
      <4>1. wronged \/ device[n].cp.size <= lst.size
        BY <1>6 DEF Prove, NoFalseAlarm
      <4>2. device[n].cp.size <= lst.size => ~InOneLog(device[n].cp, lst)
        BY <1>0, <2>2, SmallerInOneLog DEF Consistent
      <4>3. n \in 1 .. 3
        BY <1>0 DEF TypeOK
      <4>4. QED
        BY <4>1, <4>2, <4>3, Zenon DEF Excused
    <3>2. QED
      BY <1>6, <2>2, <3>1 DEF Prove, NoFalseAlarm, Excused
  <2>3. QED
    BY <2>1, <2>2
<1>7. QED
  BY <1>1, <1>2, <1>3, <1>4, <1>5, <1>6 DEF Next, Process

\* A board is rejected only if a bundle does not verify or is in another log
\* than the tracker's, a step failed, or the log answered an update with a
\* stale checkpoint or one of another tree: never because the log has grown.
THEOREM GoodIsNotRejected == Spec => []GoodNotRejected
<1>1. Init => NoFalseAlarm
  BY DEF Init, NoFalseAlarm
<1>2. NoFalseAlarm => GoodNotRejected
  BY DEF NoFalseAlarm, GoodNotRejected, Excused
<1>3. QED
  BY <1>1, <1>2, InitOK, StepOK, StepNoAlarm, PTL DEF Spec
-----------------------------------------------------------------------------
(* Every step of a run brings it nearer to its verdict.                    *)

\* The cases of ToGo.
LEMMA ToGoIs ==
  ASSUME NEW p, NEW k, NEW t
  PROVE  /\ p \in {"verified", "failed"} => ToGo(p, k, t) = 0
         /\ p = "prove"    => ToGo(p, k, t) = 1 + 3 * (3 - k)
         /\ p = "update"   => ToGo(p, k, t) = 2 + 3 * (3 - k)
         /\ p = "bundle"   => ToGo(p, k, t) = 3 + 3 * (3 - k)
         /\ p = "tracker"  => ToGo(p, k, t) = 10
         /\ p = "extract"  => ToGo(p, k, t) = 12 - t
         /\ p = "boot"     => ToGo(p, k, t) = 13
         /\ p = "recovery" => ToGo(p, k, t) = 14
BY DEF ToGo

LEMMA ToGoType == \A p \in Pcs, k \in 1 .. 3, t \in 0 .. 1 : ToGo(p, k, t) \in 0 .. 14
<1> SUFFICES ASSUME NEW p \in Pcs, NEW k \in 1 .. 3, NEW t \in 0 .. 1
             PROVE  ToGo(p, k, t) \in 0 .. 14
  OBVIOUS
<1>1. /\ 1 + 3 * (3 - k) \in 0 .. 14 /\ 2 + 3 * (3 - k) \in 0 .. 14
      /\ 3 + 3 * (3 - k) \in 0 .. 14 /\ 12 - t \in 0 .. 14
  OBVIOUS
<1> QED
  BY <1>1, ToGoIs DEF Pcs

\* The next entry of the table, and the verdict after the last, is nearer.
LEMMA NextEntryNearer ==
  ASSUME TypeOK, NEW bad, NextEntry(bad), pc \in {"bundle", "prove"}
  PROVE  ToGo(pc', n', tries') < ToGo(pc, n, tries)
<1>1. n \in 1 .. 3
  BY DEF TypeOK
<1>2. ToGo(pc, n, tries) \in {1 + 3 * (3 - n), 3 + 3 * (3 - n)}
  BY ToGoIs
<1>3. CASE n < 3
  <2>1. pc' = "bundle" /\ n' = n + 1
    BY <1>3 DEF NextEntry
  <2>2. ToGo(pc', n', tries') = 3 + 3 * (3 - (n + 1))
    BY <2>1, ToGoIs
  <2> QED
    BY <1>1, <1>2, <2>2
<1>4. CASE ~(n < 3)
  <2>1. pc' \in {"verified", "failed"}
    BY <1>4 DEF NextEntry
  <2>2. ToGo(pc', n', tries') = 0
    BY <2>1, ToGoIs
  <2> QED
    BY <1>1, <1>2, <2>2
<1> QED
  BY <1>3, <1>4

LEMMA NearerStep == IInv /\ Next => UNCHANGED runVars \/ ToGo(pc', n', tries') < ToGo(pc, n, tries)
<1> SUFFICES ASSUME IInv, Next, ~UNCHANGED runVars
             PROVE  ToGo(pc', n', tries') < ToGo(pc, n, tries)
  OBVIOUS
<1>0. TypeOK /\ PassedSoFar /\ n \in 1 .. 3 /\ tries \in 0 .. 1
  BY DEF IInv, TypeOK
<1>1. ~Grow
  BY Zenon DEF Grow, runVars
<1>2. CASE FetchRecovery \/ BootIntoRecovery \/ ExtractFirmware
  BY <1>0, <1>2, ToGoIs DEF FetchRecovery, BootIntoRecovery, ExtractFirmware, Goes
<1>3. CASE NewTracker
  <2>1. n = 1 /\ pc = "tracker" /\ pc' = "bundle" /\ n' = n
    BY <1>0, <1>3 DEF NewTracker, Goes, PassedSoFar
  <2> QED
    BY <2>1, ToGoIs
<1>4. CASE VerifyBundle
  <2>1. CASE ~device[n].valid
    BY <1>0, <1>4, <2>1, NextEntryNearer DEF VerifyBundle
  <2>2. CASE device[n].valid
    BY <1>0, <1>4, <2>2, ToGoIs DEF VerifyBundle
  <2> QED
    BY <2>1, <2>2
<1>5. CASE UpdateTracker
  <2>1. pc = "update" /\ pc' \in {"prove", "failed"} /\ n' = n
    BY <1>5 DEF UpdateTracker, Refresh
  <2> QED
    BY <1>0, <2>1, ToGoIs
<1>6. CASE Prove
  <2>1. CASE Consistent(device[n].cp)
    BY <1>0, <1>6, <2>1, NextEntryNearer DEF Prove
  <2>2. CASE ~Consistent(device[n].cp)
    <3>1. pc = "prove" /\ pc' = "failed"
      BY <1>6, <2>2 DEF Prove
    <3> QED
      BY <1>0, <3>1, ToGoIs
  <2> QED
    BY <2>1, <2>2
<1>7. CASE ExtractFails
  <2>1. CASE tries = 0
    BY <1>7, <2>1, ToGoIs DEF ExtractFails, Goes
  <2>2. CASE tries # 0
    BY <1>0, <1>7, <2>2, ToGoIs DEF ExtractFails, Goes
  <2> QED
    BY <2>1, <2>2
<1>8. CASE StepFails
  <2>1. pc \in {"recovery", "boot", "tracker", "update", "prove"} /\ pc' = "failed"
    BY <1>8 DEF StepFails
  <2> QED
    BY <1>0, <2>1, ToGoIs
<1> QED
  BY <1>1, <1>2, <1>3, <1>4, <1>5, <1>6, <1>7, <1>8 DEF Next, Process

\* A run reaches its verdict in a number of steps that the log has no influence
\* on, for any number of trees and any sizes: the one retry of the extraction is
\* counted, and each entry of the table is left behind whether or not its bundle
\* verifies.
THEOREM RunEnds == Spec => NearerVerdict
<1>1. IInv /\ IInv' /\ [Next]_vars
        => [/\ ToGo(pc, n, tries)' \in 0 .. 14
            /\ ToGo(pc, n, tries)' < ToGo(pc, n, tries)]_runVars
  <2> SUFFICES ASSUME IInv, IInv', [Next]_vars, ~UNCHANGED runVars
               PROVE  /\ ToGo(pc', n', tries') \in 0 .. 14
                      /\ ToGo(pc', n', tries') < ToGo(pc, n, tries)
    OBVIOUS
  <2>1. pc' \in Pcs /\ n' \in 1 .. 3 /\ tries' \in 0 .. 1
    BY DEF IInv, TypeOK
  <2>2. Next
    BY Zenon DEF vars, runVars
  <2> QED
    BY <2>1, <2>2, NearerStep, ToGoType
<1> QED
  BY <1>1, InitOK, StepOK, PTL DEF Spec, NearerVerdict
=============================================================================
