--------------------------- MODULE MonitorProofs ----------------------------
(***************************************************************************)
(* Proofs about Monitor.tla for every log, start index and set of leaves   *)
(* that never build.                                                       *)
(***************************************************************************)
EXTENDS Monitor, TLAPS

\* Every variable of the monitor keeps its type, through crashes and restarts
\* (continuous, Monitor.From).
THEOREM TypeCorrect == Spec => []TypeOK
<1>1. Init => TypeOK
  <2> SUFFICES ASSUME Init PROVE TypeOK
    OBVIOUS
  <2>1. published \subseteq 0 .. MaxSize
    BY MonitorAssumption DEF Init
  <2>2. file \in [kind : Kinds, size : Nat]
    BY DEF Init, NoFile, Kinds
  <2> QED
    BY <2>1, <2>2 DEF Init, TypeOK, Pcs
<1>2. TypeOK /\ [Next]_vars => TypeOK'
  <2> SUFFICES ASSUME TypeOK, [Next]_vars PROVE TypeOK'
    OBVIOUS
  <2> USE MonitorAssumption DEF TypeOK, Kinds, Pcs, procVars, log, hist
  <2>0. published \subseteq Nat
    OBVIOUS
  <2>1. CASE Publish
    BY <2>1 DEF Publish
  <2>2. CASE StartNew
    <3>1. st' \in Nat /\ monSt' \in Nat
      BY <2>0, <2>2 DEF StartNew, CopyTracker
    <3> QED
      BY <2>2, <3>1 DEF StartNew, EnterFrom
  <2>3. CASE StartKnown
    <3>1. st' \in Nat /\ monSt' \in Nat
      BY <2>0, <2>3 DEF StartKnown, CopyTracker
    <3>2. forgot' \in BOOLEAN
      BY <2>3 DEF StartKnown
    <3> QED
      BY <2>3, <3>1, <3>2 DEF StartKnown
  <2>4. CASE LeafVerified
    BY <2>4 DEF LeafVerified
  <2>5. CASE LeafErrs
    BY <2>5 DEF LeafErrs
  <2>6. CASE FetchFails \/ PollFails \/ Crash
    BY <2>6 DEF FetchFails, PollFails, Crash
  <2>7. CASE FromEnds
    BY <2>7 DEF FromEnds, EmptyFile
  <2>8. CASE WriteState
    BY <2>8 DEF WriteState, Persisted, Checkpoint
  <2>9. CASE WriteFails
    BY <2>9 DEF WriteFails, EmptyFile, TornFile
  <2>10. CASE PollNothingNew
    BY <2>10 DEF PollNothingNew
  <2>11. CASE PollNew
    <3>1. st' \in Nat
      BY <2>0, <2>11 DEF PollNew, Tracked
    <3> QED
      BY <2>11, <3>1 DEF PollNew, EnterFrom
  <2>12. CASE StartFails \/ UNCHANGED vars
    BY <2>12 DEF StartFails, vars
  <2> QED
    BY <2>1, <2>2, <2>3, <2>4, <2>5, <2>6, <2>7, <2>8, <2>9, <2>10, <2>11, <2>12
       DEF Next, Start, From, Poll
<1> QED
  BY <1>1, <1>2, PTL DEF Spec

-----------------------------------------------------------------------------
(* Coverage.  The state file alone is not inductive: a checkpoint written   *)
(* by From is good because its loop, the process that reaches the polling   *)
(* loop, and every earlier process that wrote the file were.               *)

LoopCovered == pc = "from" /\ ~resErr =>
                 \A k \in StartIndex .. monSt - 1 : k < i => k \in checked
PastCovered == pc \in {"truncated", "poll"} => Covered(monSt)

CoverInv == forgot \/ (PersistedCovered /\ LoopCovered /\ PastCovered)

LEMMA CoverStep == TypeOK /\ CoverInv /\ [Next]_vars => CoverInv'
<1> SUFFICES ASSUME TypeOK, CoverInv, [Next]_vars, ~forgot' PROVE CoverInv'
  BY DEF CoverInv
<1>0. ~forgot
  BY DEF Next, Start, From, Poll, vars, log, hist, Publish, StartNew, StartKnown, StartFails,
         LeafVerified, LeafErrs, FetchFails, FromEnds, WriteState, WriteFails,
         PollNothingNew, PollNew, PollFails, Crash
<1>1. PersistedCovered /\ LoopCovered /\ PastCovered
  BY <1>0 DEF CoverInv
<1> USE <1>1, MonitorAssumption
    DEF TypeOK, PersistedCovered, LoopCovered, PastCovered, Covered, Kinds, Pcs, procVars, log, hist
<1>2. PersistedCovered' /\ LoopCovered' /\ PastCovered'
  <2>1. CASE Publish
    BY <2>1 DEF Publish
  <2>2. CASE StartNew
    BY <2>2 DEF StartNew, CopyTracker, EnterFrom
  <2>3. CASE StartKnown
    BY <2>3, ~forgot' DEF StartKnown, CopyTracker
  <2>4. CASE LeafVerified
    BY <2>4 DEF LeafVerified
  <2>5. CASE LeafErrs
    BY <2>5 DEF LeafErrs
  <2>6. CASE FetchFails \/ PollFails \/ Crash
    BY <2>6 DEF FetchFails, PollFails, Crash
  <2>7. CASE FromEnds
    BY <2>7 DEF FromEnds, EmptyFile
  <2>8. CASE WriteState
    BY <2>8 DEF WriteState, Persisted, Checkpoint
  <2>9. CASE WriteFails
    BY <2>9 DEF WriteFails, EmptyFile, TornFile
  <2>10. CASE PollNothingNew
    BY <2>10 DEF PollNothingNew
  <2>11. CASE PollNew
    BY <2>11 DEF PollNew, Tracked, EnterFrom
  <2>12. CASE StartFails \/ UNCHANGED vars
    BY <2>12 DEF StartFails, vars
  <2> QED
    BY <2>1, <2>2, <2>3, <2>4, <2>5, <2>6, <2>7, <2>8, <2>9, <2>10, <2>11, <2>12
       DEF Next, Start, From, Poll
<1> QED
  BY <1>2 DEF CoverInv

LEMMA CoverInvariant == Spec => []CoverInv
<1>1. Init => CoverInv
  BY DEF Init, CoverInv, PersistedCovered, LoopCovered, PastCovered, NoFile
<1> QED
  BY <1>1, CoverStep, TypeCorrect, PTL DEF Spec

\* However the write of the state file may be cut short, a persisted checkpoint
\* lies above an undecided leaf only after a start from an empty state file.
THEOREM OnlyEmptyFileLoses == Spec => []LostOnlyByEmptyFile
<1>1. CoverInv => LostOnlyByEmptyFile
  BY DEF CoverInv, LostOnlyByEmptyFile
<1> QED
  BY <1>1, CoverInvariant, PTL

-----------------------------------------------------------------------------
(* When WriteFile is never cut short, an empty state file exists only       *)
(* between its two steps, and the monitor implements MonitorPromise.        *)

WholeInv ==
  /\ ~forgot
  /\ (file.kind = "empty") <=> (pc = "truncated")
  /\ file.kind # "torn"
  /\ file.kind = "checkpoint" => file.size \in published
  /\ file.kind = "checkpoint" /\ pc # "down" => file.size = monSt
  /\ pc # "down" => monSt \in published

LEMMA WholeStep ==
  ASSUME ~TornWrites PROVE TypeOK /\ WholeInv /\ [Next]_vars => WholeInv'
<1> SUFFICES ASSUME TypeOK, WholeInv, [Next]_vars PROVE WholeInv'
  OBVIOUS
<1> USE ~TornWrites, MonitorAssumption DEF TypeOK, WholeInv, Kinds, Pcs, procVars, log, hist
<1>1. CASE Publish
  BY <1>1 DEF Publish
<1>2. CASE StartNew
  BY <1>2 DEF StartNew, CopyTracker, EnterFrom
<1>3. CASE StartKnown
  BY <1>3 DEF StartKnown, CopyTracker
<1>4. CASE LeafVerified \/ LeafErrs
  BY <1>4 DEF LeafVerified, LeafErrs
<1>5. CASE FetchFails \/ PollFails \/ Crash
  BY <1>5 DEF FetchFails, PollFails, Crash
<1>6. CASE FromEnds
  BY <1>6 DEF FromEnds, EmptyFile
<1>7. CASE WriteState
  BY <1>7 DEF WriteState, Persisted, Checkpoint
<1>8. CASE WriteFails
  BY <1>8 DEF WriteFails
<1>9. CASE PollNothingNew
  BY <1>9 DEF PollNothingNew
<1>10. CASE PollNew
  BY <1>10 DEF PollNew, EnterFrom
<1>11. CASE StartFails \/ UNCHANGED vars
  BY <1>11 DEF StartFails, vars
<1> QED
  BY <1>1, <1>2, <1>3, <1>4, <1>5, <1>6, <1>7, <1>8, <1>9, <1>10, <1>11
     DEF Next, Start, From, Poll

LEMMA WholeInvariant == ASSUME ~TornWrites PROVE Spec => []WholeInv
<1>1. Init => WholeInv
  BY DEF Init, WholeInv, NoFile
<1> QED
  BY <1>1, WholeStep, TypeCorrect, PTL DEF Spec

\* When WriteFile is never cut short, every leaf below a persisted checkpoint
\* has been decided, whatever the crashes, restarts and failed builds.
THEOREM PersistedIsCovered == ASSUME ~TornWrites PROVE Spec => []PersistedCovered
<1>1. WholeInv /\ CoverInv => PersistedCovered
  BY DEF WholeInv, CoverInv
<1> QED
  BY <1>1, WholeInvariant, CoverInvariant, PTL

\* A step of the monitor is a step of its promise, or changes nothing of it.
LEMMA PromiseStep ==
  ASSUME ~TornWrites,
         TypeOK, WholeInv, CoverInv, WholeInv', [Next]_vars
  PROVE  [Promise!PNext]_(Promise!pvars)
<1> USE ~TornWrites, MonitorAssumption
    DEF TypeOK, WholeInv, Kinds, Pcs, procVars, log, hist, frontier
<1>0. PersistedCovered /\ LoopCovered /\ PastCovered
  BY DEF CoverInv
<1>1. CASE Publish
  <2>1. Promise!PPublish
    BY <1>1 DEF Publish, Promise!PPublish
  <2> QED
    BY <2>1 DEF Promise!PNext
<1>2. CASE StartNew \/ StartKnown
  BY <1>2 DEF StartNew, StartKnown, CopyTracker, EnterFrom, Promise!pvars
<1>3. CASE LeafVerified
  <2>1. Promise!PCheck
    <3>1. monSt \in published /\ i \in 0 .. monSt - 1
      BY <1>3 DEF LeafVerified
    <3>2. checked' = checked \cup {i} /\ UNCHANGED <<published, frontier>>
      BY <1>3 DEF LeafVerified
    <3> QED
      BY <3>1, <3>2 DEF Promise!PCheck
  <2> QED
    BY <2>1 DEF Promise!PNext
<1>4. CASE LeafErrs \/ FetchFails \/ PollFails \/ Crash
  BY <1>4 DEF LeafErrs, FetchFails, PollFails, Crash, Promise!pvars
<1>5. CASE FromEnds
  <2>1. CASE resErr
    BY <1>5, <2>1 DEF FromEnds, Promise!pvars
  <2>2. CASE ~resErr
    <3>1. Promise!Done(monSt)
      BY <1>0, <1>5, <2>2 DEF FromEnds, LoopCovered, Promise!Done
    <3>2. frontier' = monSt /\ UNCHANGED <<published, checked>>
      BY <1>5, <2>2 DEF FromEnds, EmptyFile
    <3>3. monSt \in published /\ monSt >= frontier
      BY <1>5 DEF FromEnds
    <3> QED
      BY <3>1, <3>2, <3>3 DEF Promise!PAdvance, Promise!PNext
  <2> QED
    BY <2>1, <2>2
<1>6. CASE WriteState
  BY <1>6 DEF WriteState, Persisted, Checkpoint, Promise!pvars
<1>7. CASE WriteFails
  BY <1>7 DEF WriteFails
<1>8. CASE PollNothingNew
  BY <1>8 DEF PollNothingNew, Promise!pvars
<1>9. CASE PollNew
  BY <1>9 DEF PollNew, EnterFrom, Promise!pvars
<1>10. CASE StartFails \/ UNCHANGED vars
  BY <1>10 DEF StartFails, vars, Promise!pvars
<1> QED
  BY <1>1, <1>2, <1>3, <1>4, <1>5, <1>6, <1>7, <1>8, <1>9, <1>10
     DEF Next, Start, From, Poll

\* When WriteFile is never cut short, the monitor implements MonitorPromise:
\* only leaves under a published checkpoint are decided, and the persisted
\* frontier moves forward only, over decided leaves.
THEOREM MonitorKeepsPromise == ASSUME ~TornWrites PROVE Spec => KeepsPromise
<1>1. Init => Promise!PInit
  BY DEF Init, NoFile, frontier, Promise!PInit
<1> QED
  BY <1>1, PromiseStep, TypeCorrect, WholeInvariant, CoverInvariant, PTL
     DEF Spec, KeepsPromise, Promise!PSpec

=============================================================================
