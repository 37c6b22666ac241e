---------------------------- MODULE DeviceVerify -----------------------------
(***************************************************************************)
(* cmd/verify: waitAndVerify boots a board into recovery, reads what is    *)
(* installed on it, and checks each bundle and its checkpoint against the  *)
(* firmware log.  The log may grow meanwhile, may be served from a stale   *)
(* cache, and may show different trees to different readers; the bundle    *)
(* verifier and the log's client are modelled from how main.go uses them.  *)
(***************************************************************************)
EXTENDS Naturals, Sequences

CONSTANTS
  Trees,     \* the trees the log shows; one, if it is honest
  ForkAt,    \* the size up to which they are the same
  MaxSize,   \* bound: the log stops growing here
  Faults     \* TRUE: any step that uses the network or the board may fail

ASSUME VerifyAssumption ==
  /\ ForkAt \in Nat /\ MaxSize \in Nat
  /\ Faults \in BOOLEAN

VARIABLES
  head,     \* the size each tree has grown to
  device,   \* the bundles on the board, in the order of the table in verifyFirmwares
  pc,       \* where the process is
  tries,    \* waitAndVerify(): i of the extraction loop
  lst,      \* verifyFirmwares(): LatestConsistent of its LogStateTracker
  n,        \* the entry of the table in hand
  errs,     \* errs is not empty
  wronged   \* history: a step failed, or the log answered an update with a
            \* checkpoint that is stale, or in another tree than the tracker's

vars == <<head, device, pc, tries, lst, n, errs, wronged>>

Checkpoints == [tree : Trees, size : 1 .. MaxSize]

\* The tree of c is the beginning of the tree of d: a consistency proof exists.
Prefix(c, d) == c.size <= d.size /\ (c.tree = d.tree \/ c.size <= ForkAt)

InOneLog(c, d) == Prefix(c, d) \/ Prefix(d, c)

Published(c) == c.size <= head[c.tree]

\* A bundle: whether BundleVerifier accepts it with the keys of its component
\* (signatures, inclusion, hash of the image), and its checkpoint.
Bundles == [valid : BOOLEAN, cp : Checkpoints]

Pcs == {"recovery", "boot", "extract", "tracker", "bundle", "update", "prove",
        "verified", "failed"}

TypeOK ==
  /\ head \in [Trees -> 0 .. MaxSize]
  /\ device \in [1 .. 3 -> Bundles]
  /\ pc \in Pcs
  /\ tries \in 0 .. 1
  /\ lst \in Checkpoints
  /\ n \in 1 .. 3
  /\ errs \in BOOLEAN /\ wronged \in BOOLEAN

Init ==
  /\ head \in [Trees -> 1 .. MaxSize]
  /\ device \in [1 .. 3 -> {b \in Bundles : Published(b.cp)}]
  /\ pc = "recovery"
  /\ tries = 0
  /\ lst \in Checkpoints /\ lst.size = 1
  /\ n = 1
  /\ errs = FALSE /\ wronged = FALSE

Grow ==
  /\ \E t \in Trees : head[t] < MaxSize /\ head' = [head EXCEPT ![t] = @ + 1]
  /\ UNCHANGED <<device, pc, tries, lst, n, errs, wronged>>

Goes(from, to) == pc = from /\ pc' = to

-----------------------------------------------------------------------------
(* waitAndVerify. *)

FetchRecovery ==
  /\ Goes("recovery", "boot")
  /\ UNCHANGED <<head, device, tries, lst, n, errs, wronged>>

BootIntoRecovery ==
  /\ Goes("boot", "extract")
  /\ UNCHANGED <<head, device, tries, lst, n, errs, wronged>>

ExtractFirmware ==
  /\ Goes("extract", "tracker")
  /\ UNCHANGED <<head, device, tries, lst, n, errs, wronged>>

\* Mutant: a failed try is not counted.
ExtractFailsUncounted ==
  /\ Faults
  /\ pc = "extract"
  /\ wronged' = TRUE
  /\ UNCHANGED <<head, device, pc, tries, lst, n, errs>>

\* One more try after the first failure.
ExtractFails ==
  /\ Faults
  /\ Goes("extract", IF tries = 0 THEN "extract" ELSE "failed")
  /\ tries' = IF tries = 0 THEN 1 ELSE tries
  /\ wronged' = TRUE
  /\ UNCHANGED <<head, device, lst, n, errs>>

\* Any other call that returns an error ends the process with it.
StepFails ==
  /\ Faults
  /\ pc \in {"recovery", "boot", "tracker", "update", "prove"}
  /\ pc' = "failed"
  /\ wronged' = TRUE
  /\ UNCHANGED <<head, device, tries, lst, n, errs>>

-----------------------------------------------------------------------------
(* verifyFirmwares. *)

\* NewLogStateTracker without a state: whatever the log serves is trusted.
NewTracker ==
  /\ Goes("tracker", "bundle")
  /\ \E c \in Checkpoints : Published(c) /\ lst' = c
  /\ UNCHANGED <<head, device, tries, n, errs, wronged>>

\* Mutant: the loop has no end.
NextEndless(bad) ==
  /\ errs' = (errs \/ bad)
  /\ pc' = "bundle" /\ n' = n + 1

\* Mutant: a bad bundle is looked at again.
NextAfterGood(bad) ==
  /\ errs' = (errs \/ bad)
  /\ IF bad THEN UNCHANGED <<pc, n>>
     ELSE IF n < 3 THEN pc' = "bundle" /\ n' = n + 1
     ELSE pc' = (IF errs' THEN "failed" ELSE "verified") /\ UNCHANGED n

\* To the next entry of the table, or to errors.Join.
NextEntry(bad) ==
  /\ errs' = (errs \/ bad)
  /\ IF n < 3 THEN pc' = "bundle" /\ n' = n + 1
     ELSE pc' = (IF errs' THEN "failed" ELSE "verified") /\ UNCHANGED n

\* Mutant: the tracker is never updated.
VerifyBundleNoUpdate ==
  /\ pc = "bundle"
  /\ IF ~device[n].valid THEN NextEntry(TRUE) ELSE pc' = "prove" /\ UNCHANGED <<n, errs>>
  /\ UNCHANGED <<head, device, tries, lst, wronged>>

\* A bundle that does not verify is remembered, and the others are looked at.
\* The checkpoint of one that does is compared with the tracker's.
VerifyBundle ==
  /\ pc = "bundle"
  /\ LET b == device[n] IN
       IF ~b.valid THEN NextEntry(TRUE)
       ELSE /\ pc' = IF b.cp.size > lst.size THEN "update" ELSE "prove"
            /\ UNCHANGED <<n, errs>>
  /\ UNCHANGED <<head, device, tries, lst, wronged>>

\* Mutant: the tracker is reset to what the log shows now.
RefreshTrusting(c) == pc' = "prove" /\ lst' = c

\* lst.Update: a larger checkpoint must be consistent with the one held.
Refresh(c) ==
  IF c.size <= lst.size THEN pc' = "prove" /\ UNCHANGED lst
  ELSE IF Prefix(lst, c) THEN pc' = "prove" /\ lst' = c
  ELSE pc' = "failed" /\ UNCHANGED lst

UpdateTracker ==
  /\ pc = "update"
  /\ \E c \in Checkpoints :
       /\ Published(c)
       /\ Refresh(c)
       /\ wronged' = (wronged \/ c.size < device[n].cp.size \/ ~InOneLog(c, lst))
  /\ UNCHANGED <<head, device, tries, n, errs>>

\* ConsistencyProof and VerifyConsistency, from the bundle's checkpoint to the
\* tracker's.
Consistent(c) == Prefix(c, lst)

Prove ==
  /\ pc = "prove"
  /\ IF Consistent(device[n].cp) THEN NextEntry(FALSE)
     ELSE pc' = "failed" /\ UNCHANGED <<n, errs>>
  /\ UNCHANGED <<head, device, tries, lst, wronged>>

Process ==
  \/ FetchRecovery \/ BootIntoRecovery \/ ExtractFirmware \/ NewTracker
  \/ VerifyBundle \/ UpdateTracker \/ Prove

Next == Grow \/ Process \/ ExtractFails \/ StepFails

Spec == Init /\ [][Next]_vars

FairSpec == Spec /\ WF_vars(Process)

-----------------------------------------------------------------------------
(* Properties. *)

\* "Device verified OK!" means that every bundle verified with its own keys,
\* and that all of them are in one log: whatever trees the log has shown to
\* those who installed them, their checkpoints are consistent with one
\* another, also when the tracker moved on between the bundles.
VerifiedInOneLog ==
  pc = "verified" =>
    \A k, m \in 1 .. 3 :
      device[k].valid /\ InOneLog(device[k].cp, device[m].cp)

\* A good board is not rejected because the log has grown since it was
\* provisioned or grows while it is verified: the tracker is brought up to a
\* bundle's checkpoint before the two are compared (verifyFirmwares).
GoodNotRejected ==
  pc = "failed" =>
    wronged \/ \E k \in 1 .. 3 : ~device[k].valid \/ ~InOneLog(device[k].cp, lst)

\* How far a run in step p is from its verdict, with bundle k in hand and t
\* tries made: the log and the number of its checkpoints have no part in it.
ToGo(p, k, t) ==
  CASE p \in {"verified", "failed"} -> 0
    [] p = "prove"    -> 1 + 3 * (3 - k)
    [] p = "update"   -> 2 + 3 * (3 - k)
    [] p = "bundle"   -> 3 + 3 * (3 - k)
    [] p = "tracker"  -> 10
    [] p = "extract"  -> 12 - t
    [] p = "boot"     -> 13
    [] p = "recovery" -> 14

runVars == <<device, pc, tries, lst, n, errs, wronged>>

\* No retry, rejected bundle or answer of the log sets a run back, and however
\* far the log has grown past a bundle, it is updated and proved against once:
\* after 14 steps of its own at most a run has come to its verdict.
NearerVerdict ==
  [][/\ ToGo(pc, n, tries)' \in 0 .. 14
     /\ ToGo(pc, n, tries)' < ToGo(pc, n, tries)]_runVars

\* Every run comes to a verdict.
Decided == <>(pc \in {"verified", "failed"})
=============================================================================
