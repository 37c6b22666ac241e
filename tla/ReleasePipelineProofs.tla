------------------------ MODULE ReleasePipelineProofs -------------------------
(***************************************************************************)
(* Theorems about ReleasePipeline, for any number of builds that run at    *)
(* the same time, and any pushes.                                          *)
(***************************************************************************)
EXTENDS ReleasePipeline, TLAPS

Late == {"copy", "sequence", "integrate", "remove"}

\* What build b has done so far.
DoneSoFar(b) ==
  /\ pc[b] \notin Ended \cup {"build", "upload"} => ImageOf(Note(b)) \in bucket
  /\ pc[b] \in {"csf", "create", "sign", "countersign", "verify"} \cup Late /\ Comp(b) \in Hab =>
       job[b].srk = "pinned"
  /\ pc[b] \in {"create", "sign", "countersign", "verify"} \cup Late /\ Comp(b) \in Hab =>
       CsfOf(Note(b)) \in bucket
  /\ pc[b] \in Late => Accepted(Note(b))
  /\ pc[b] = "integrate" => Note(b) \in sequenced

IInv ==
  /\ TypeOK
  /\ \A b \in Builds : DoneSoFar(b)
  /\ \A n \in entries \cup sequenced : Installable(n)
  /\ EntryNotLost

LEMMA NoteType ==
  ASSUME TypeOK, NEW b \in Builds
  PROVE  /\ job[b] \in Jobs /\ Push(b) \in Pushes
         /\ Note(b) \in Notes
         /\ ImageOf(Note(b)) \in Artefacts /\ CsfOf(Note(b)) \in Artefacts
<1>1. job[b] \in Jobs
  BY DEF TypeOK
<1>2. Push(b) \in Pushes /\ job[b].image \in Images /\ job[b].srk \in Tables /\ job[b].sigs \in SetsOfKeys
  BY <1>1 DEF Jobs, Push
<1>3. (IF Comp(b) \in Hab THEN job[b].srk ELSE "none") \in Tables
  BY <1>2 DEF Tables
<1>4. Note(b) \in Notes
  BY <1>2, <1>3 DEF Note, Notes
<1>5. QED
  BY <1>1, <1>2, <1>4 DEF ImageOf, CsfOf, Artefacts, Notes, Tables

LEMMA FreshType == \A p \in Pushes : Fresh(p) \in Jobs
BY DEF Fresh, Jobs, Images, Tables, SetsOfKeys

\* A step of build b leaves the state of the others, and what holds of them.
Moved(b, to, j) == pc' = [pc EXCEPT ![b] = to] /\ job' = [job EXCEPT ![b] = j]

LEMMA InitOK == Init => IInv
<1> SUFFICES ASSUME Init PROVE IInv
  OBVIOUS
<1>1. TypeOK
  BY FreshType DEF Init, TypeOK, Pcs, Ended
<1>2. \A b \in Builds : pc[b] = "idle"
  BY DEF Init
<1>3. \A b \in Builds : DoneSoFar(b)
  BY <1>2 DEF DoneSoFar, Ended, Late
<1>4. QED
  BY <1>1, <1>2, <1>3 DEF Init, IInv, EntryNotLost

\* What holds of a build that does not move goes on to hold when the stores
\* only lose the entry of another build that is integrated.
LEMMA OthersKeep ==
  ASSUME IInv, NEW b \in Builds, NEW d \in Builds, pc'[d] = pc[d], job'[d] = job[d],
         bucket \subseteq bucket', sequenced \subseteq sequenced', integrated \subseteq integrated',
         entries \subseteq entries' \cup integrated
  PROVE  /\ DoneSoFar(d)'
         /\ pc'[d] \in {"sequence", "integrate"} => Note(d)' \in entries' \cup integrated'
         /\ pc'[d] = "remove" => Note(d)' \in integrated'
<1>1. Note(d)' = Note(d) /\ Comp(d)' = Comp(d)
  BY DEF Note, Comp, Push
<1>2. DoneSoFar(d)'
  BY <1>1 DEF IInv, DoneSoFar, ImageOf, CsfOf, Accepted
<1>3. QED
  BY <1>1, <1>2 DEF IInv, EntryNotLost

\* A build that has ended, or begins, owes nothing.
LEMMA FreshOwesNothing ==
  ASSUME NEW b \in Builds, pc'[b] \in Ended \cup {"build"}
  PROVE  DoneSoFar(b)' /\ pc'[b] \notin {"sequence", "integrate", "remove"}
BY DEF DoneSoFar, Ended, Late

OwnEntry(b) ==
  /\ pc[b] \in {"sequence", "integrate"} => Note(b) \in entries \cup integrated
  /\ pc[b] = "remove" => Note(b) \in integrated

\* What every step does to the stores.
StoresGrow ==
  /\ bucket \subseteq bucket' /\ bucket' \subseteq Artefacts
  /\ sequenced \subseteq sequenced' /\ sequenced' \subseteq Notes
  /\ integrated \subseteq integrated' /\ integrated' \subseteq sequenced'
  /\ entries \subseteq entries' \cup integrated /\ entries' \subseteq Notes
  /\ \A n \in entries' \cup sequenced' : n \in entries \cup sequenced \/ Installable(n)'

LEMMA MovedOK ==
  ASSUME IInv, StoresGrow, NEW b \in Builds, NEW to \in Pcs, NEW j \in Jobs, Moved(b, to, j),
         DoneSoFar(b)', OwnEntry(b)'
  PROVE  IInv'
<1>1. TypeOK'
  BY DEF IInv, TypeOK, StoresGrow, Moved
<1>2. \A d \in Builds : d # b => pc'[d] = pc[d] /\ job'[d] = job[d]
  BY DEF IInv, TypeOK, Moved
<1>3. \A d \in Builds : DoneSoFar(d)' /\ OwnEntry(d)'
  <2> SUFFICES ASSUME NEW d \in Builds, d # b PROVE DoneSoFar(d)' /\ OwnEntry(d)'
    OBVIOUS
  <2>1. QED
    BY <1>2, OthersKeep DEF StoresGrow, OwnEntry
<1>4. \A n \in entries' \cup sequenced' : Installable(n)'
  BY DEF IInv, StoresGrow, Installable
<1>5. QED
  BY <1>1, <1>3, <1>4 DEF IInv, EntryNotLost, OwnEntry

LEMMA EndsOK ==
  ASSUME IInv, StoresGrow, NEW b \in Builds, NEW from, NEW to \in Ended, Ends(b, from, to)
  PROVE  IInv'
<1>1. Moved(b, to, Fresh(Push(b))) /\ Fresh(Push(b)) \in Jobs /\ to \in Pcs
  BY NoteType, FreshType DEF IInv, TypeOK, Ends, Moved, Push, Pcs
<1>2. pc'[b] = to
  BY <1>1 DEF Moved, IInv, TypeOK
<1>3. DoneSoFar(b)' /\ OwnEntry(b)'
  BY <1>2, FreshOwesNothing DEF OwnEntry
<1>4. QED
  BY <1>1, <1>3, MovedOK

LEMMA GoesOK ==
  ASSUME IInv, StoresGrow, NEW b \in Builds, NEW from, NEW to \in Pcs, NEW j \in Jobs,
         Goes(b, from, to, j),
         pc'[b] = to /\ job'[b] = j => DoneSoFar(b)' /\ OwnEntry(b)'
  PROVE  IInv'
<1>1. CASE Moved(b, to, j)
  <2>1. pc'[b] = to /\ job'[b] = j
    BY <1>1 DEF Moved, IInv, TypeOK
  <2>2. QED
    BY <1>1, <2>1, MovedOK
<1>2. CASE Ends(b, from, "failed")
  BY <1>2, EndsOK DEF Ended
<1>3. QED
  BY <1>1, <1>2 DEF Goes, Moved

LEMMA StoresSame == ASSUME IInv, UNCHANGED stores PROVE StoresGrow
BY DEF IInv, TypeOK, StoresGrow, stores

\* The steps before the manifest is handed to the log.
LEMMA BuildSteps ==
  ASSUME IInv, NEW b \in Builds,
         Triggered(b) \/ StepFails(b) \/ Build(b) \/ Srk(b) \/ Create(b) \/ Sign(b) \/ Countersign(b)
           \/ Verify(b)
  PROVE  IInv'
<1>0. StoresGrow
  BY StoresSame DEF Triggered, StepFails, Build, Srk, Create, Sign, Countersign, Verify
<1>1. job[b] \in Jobs /\ DoneSoFar(b)
  BY NoteType DEF IInv
<1>2. CASE Triggered(b)
  <2>1. PICK p \in Pushes : Moved(b, "build", Fresh(p))
    BY <1>2 DEF Triggered, Moved
  <2>2. pc'[b] = "build"
    BY <2>1 DEF Moved, IInv, TypeOK
  <2>3. DoneSoFar(b)' /\ OwnEntry(b)'
    BY <2>2, FreshOwesNothing DEF OwnEntry
  <2>4. QED
    BY <1>0, <2>1, <2>3, FreshType, MovedOK DEF Pcs
<1>3. CASE StepFails(b)
  BY <1>0, <1>3, EndsOK DEF StepFails, Ended
<1>4. CASE Build(b)
  <2>1. PICK i \in Images : Goes(b, "build", "upload", [job[b] EXCEPT !.image = i])
    BY <1>4 DEF Build
  <2>2. [job[b] EXCEPT !.image = i] \in Jobs
    BY <1>1 DEF Jobs
  <2>3. pc'[b] = "upload" => DoneSoFar(b)' /\ OwnEntry(b)'
    BY DEF DoneSoFar, OwnEntry, Late
  <2>4. QED
    BY <1>0, <2>1, <2>2, <2>3, GoesOK DEF Pcs
<1>5. CASE Srk(b)
  <2>1. CASE Ends(b, "srk", "refused")
    BY <1>0, <2>1, EndsOK DEF Ended
  <2>2. CASE Goes(b, "srk", "csf", [job[b] EXCEPT !.srk = "pinned"])
    <3>1. pc[b] = "srk"
      BY <2>2 DEF Goes, Ends
    <3>2. [job[b] EXCEPT !.srk = "pinned"] \in Jobs
      BY <1>1 DEF Jobs, Tables
    <3>3. ASSUME pc'[b] = "csf", job'[b] = [job[b] EXCEPT !.srk = "pinned"]
          PROVE  DoneSoFar(b)' /\ OwnEntry(b)'
      <4>1. ImageOf(Note(b))' = ImageOf(Note(b)) /\ job'[b].srk = "pinned"
        BY <1>1, <3>3 DEF Jobs, ImageOf, Note, Push
      <4>2. QED
        BY <1>0, <1>1, <3>1, <3>3, <4>1 DEF DoneSoFar, OwnEntry, Late, Ended, StoresGrow
    <3>4. QED
      BY <1>0, <2>2, <3>2, <3>3, GoesOK DEF Pcs
  <2>3. QED
    BY <1>5, <2>1, <2>2 DEF Srk
<1>6. CASE Create(b)
  <2>1. pc[b] = "create" /\ Goes(b, "create", "sign", job[b])
    BY <1>6 DEF Create, Goes, Ends
  <2>2. ASSUME pc'[b] = "sign", job'[b] = job[b] PROVE DoneSoFar(b)' /\ OwnEntry(b)'
    <3>1. Note(b)' = Note(b) /\ Comp(b)' = Comp(b)
      BY <2>2 DEF Note, Push, Comp
    <3>2. QED
      BY <1>0, <1>1, <2>1, <2>2, <3>1 DEF DoneSoFar, OwnEntry, Late, Ended, StoresGrow, ImageOf, CsfOf
  <2>3. QED
    BY <1>0, <1>1, <2>1, <2>2, GoesOK DEF Pcs
<1>7. ASSUME NEW k \in SetsOfKeys, NEW to \in {"countersign", "verify"},
             Goes(b, pc[b], to, [job[b] EXCEPT !.sigs = k]), pc[b] \in {"sign", "countersign"}
      PROVE  IInv'
  <2>1. [job[b] EXCEPT !.sigs = k] \in Jobs
    BY <1>1 DEF Jobs
  <2>2. ASSUME pc'[b] = to, job'[b] = [job[b] EXCEPT !.sigs = k] PROVE DoneSoFar(b)' /\ OwnEntry(b)'
    <3>1. /\ ImageOf(Note(b))' = ImageOf(Note(b)) /\ CsfOf(Note(b))' = CsfOf(Note(b))
          /\ Comp(b)' = Comp(b) /\ job'[b].srk = job[b].srk
      BY <1>1, <2>2 DEF Jobs, ImageOf, CsfOf, Note, Push, Comp
    <3>2. QED
      BY <1>0, <1>1, <1>7, <2>2, <3>1 DEF DoneSoFar, OwnEntry, Late, Ended, StoresGrow
  <2>3. QED
    BY <1>0, <1>7, <2>1, <2>2, GoesOK DEF Pcs
<1>8. CASE Sign(b)
  <2>1. Comp(b) # "os" => {Comp(b)} \in SetsOfKeys
    BY NoteType, PipelineAssumption DEF IInv, SetsOfKeys, Keys, Components, Comp
  <2>2. pc[b] = "sign"
    BY <1>8 DEF Sign, Goes, Ends
  <2>3. {"os1"} \in SetsOfKeys
    BY DEF SetsOfKeys, Keys, Components
  <2>4. QED
    BY <1>7, <1>8, <2>1, <2>2, <2>3 DEF Sign
<1>9. CASE Countersign(b)
  <2>1. job[b].sigs \cup {"os2"} \in SetsOfKeys
    BY <1>1 DEF SetsOfKeys, Keys, Components, Jobs
  <2>2. pc[b] = "countersign"
    BY <1>9 DEF Countersign, Goes, Ends
  <2>3. Goes(b, "countersign", "verify", [job[b] EXCEPT !.sigs = job[b].sigs \cup {"os2"}])
    BY <1>9 DEF Countersign
  <2>4. QED
    BY <1>7, <2>1, <2>2, <2>3
<1>10. CASE Verify(b)
  <2>1. CASE Ends(b, "verify", "refused")
    BY <1>0, <2>1, EndsOK DEF Ended
  <2>2. CASE Accepted(Note(b)) /\ Goes(b, "verify", "copy", job[b])
    <3>1. pc[b] = "verify"
      BY <2>2 DEF Goes, Ends
    <3>2. ASSUME pc'[b] = "copy", job'[b] = job[b] PROVE DoneSoFar(b)' /\ OwnEntry(b)'
      <4>1. Note(b)' = Note(b) /\ Comp(b)' = Comp(b)
        BY <3>2 DEF Note, Push, Comp
      <4>2. QED
        BY <1>0, <1>1, <2>2, <3>1, <3>2, <4>1
          DEF DoneSoFar, OwnEntry, Late, Ended, StoresGrow, ImageOf, CsfOf, Accepted
    <3>3. QED
      BY <1>0, <1>1, <2>2, <3>2, GoesOK DEF Pcs
  <2>3. QED
    BY <1>10, <2>1, <2>2 DEF Verify
<1>11. QED
  BY <1>2, <1>3, <1>4, <1>5, <1>6, <1>8, <1>9, <1>10

\* The effect of the step of b on the stores is known: b goes on with the same
\* workspace, so that only what its new step asks for is left to show.
LEMMA SameJob ==
  ASSUME IInv, StoresGrow, NEW b \in Builds, NEW to \in Pcs, NEW from, Goes(b, from, to, job[b]),
         \/ /\ from = "upload" /\ to = IF Comp(b) \in Hab THEN "srk" ELSE "create"
            /\ ImageOf(Note(b)) \in bucket'
         \/ from = "csf" /\ to = "create" /\ CsfOf(Note(b)) \in bucket'
         \/ from = "copy" /\ to = "sequence" /\ Note(b) \in entries'
         \/ from = "sequence" /\ to = "integrate" /\ Note(b) \in sequenced'
         \/ from = "integrate" /\ to = "remove" /\ Note(b) \in integrated'
  PROVE  IInv'
<1>1. job[b] \in Jobs /\ DoneSoFar(b) /\ OwnEntry(b) /\ pc[b] = from
  BY NoteType DEF IInv, EntryNotLost, OwnEntry, Goes, Ends
<1>2. ASSUME pc'[b] = to, job'[b] = job[b] PROVE DoneSoFar(b)' /\ OwnEntry(b)'
  <2>1. Note(b)' = Note(b) /\ Comp(b)' = Comp(b)
    BY <1>2 DEF Note, Push, Comp
  <2>2. DoneSoFar(b)'
    BY <1>1, <1>2, <2>1 DEF DoneSoFar, Late, Ended, StoresGrow, ImageOf, CsfOf, Accepted
  <2>3. OwnEntry(b)'
    BY <1>1, <1>2, <2>1 DEF OwnEntry, StoresGrow
  <2>4. QED
    BY <2>2, <2>3
<1>3. QED
  BY <1>1, <1>2, GoesOK

\* The steps that store artefacts.
LEMMA UploadSteps ==
  ASSUME IInv, NEW b \in Builds, Upload(b) \/ Csf(b)
  PROVE  IInv'
<1>1. ImageOf(Note(b)) \in Artefacts /\ CsfOf(Note(b)) \in Artefacts
  BY NoteType DEF IInv
<1>2. StoresGrow
  BY <1>1 DEF IInv, TypeOK, StoresGrow, Upload, Csf
<1>3. CASE Upload(b)
  BY <1>2, <1>3, SameJob DEF Upload, Pcs
<1>4. CASE Csf(b)
  BY <1>2, <1>4, SameJob DEF Csf, Pcs
<1>5. QED
  BY <1>3, <1>4

\* The steps that bring the manifest into the log.
LEMMA LogSteps ==
  ASSUME IInv, NEW b \in Builds, Copy(b) \/ Sequence(b) \/ Integrate(b) \/ Remove(b)
  PROVE  IInv'
<1>1. Note(b) \in Notes /\ DoneSoFar(b) /\ OwnEntry(b)
  BY NoteType DEF IInv, EntryNotLost, OwnEntry
<1>2. CASE Copy(b)
  <2>1. pc[b] = "copy"
    BY <1>2 DEF Copy, Goes, Ends
  <2>2. Comp(b) = Note(b).push.comp /\ (Comp(b) \in Hab => Note(b).hab = job[b].srk)
    BY DEF Note, Comp, Push
  <2>3. Installable(Note(b))
    BY <1>1, <2>1, <2>2 DEF DoneSoFar, Installable, Late, Ended
  <2>4. Note(b) \in entries' /\ entries' = entries \cup {Note(b)}
    BY <1>2 DEF Copy
  <2>5. \A n \in entries' \cup sequenced' : n \in entries \cup sequenced \/ Installable(n)'
    <3> SUFFICES ASSUME NEW n \in entries' \cup sequenced', n \notin entries \cup sequenced
                 PROVE  Installable(n)'
      OBVIOUS
    <3>1. n = Note(b)
      BY <1>2 DEF Copy
    <3>2. QED
      BY <1>2, <2>3, <3>1 DEF Copy, Installable
  <2>6. StoresGrow
    BY <1>1, <1>2, <2>5 DEF IInv, TypeOK, StoresGrow, Copy
  <2>7. QED
    BY <1>2, <2>4, <2>6, SameJob DEF Copy, Pcs
<1>3. CASE Sequence(b)
  <2>1. StoresGrow
    BY <1>1, <1>3 DEF IInv, TypeOK, StoresGrow, Sequence
  <2>2. pc[b] = "sequence"
    BY <1>3 DEF Sequence, Goes, Ends
  <2>3. Note(b) \in sequenced'
    BY <1>1, <1>3, <2>2 DEF IInv, TypeOK, Sequence, OwnEntry
  <2>4. CASE Goes(b, "sequence", "integrate", job[b])
    BY <2>1, <2>3, <2>4, SameJob DEF Pcs
  <2>5. CASE Ends(b, "sequence", "refused")
    BY <2>1, <2>5, EndsOK DEF Ended
  <2>6. QED
    BY <1>3, <2>4, <2>5 DEF Sequence
<1>4. CASE Integrate(b)
  <2>1. StoresGrow
    BY <1>4 DEF IInv, TypeOK, StoresGrow, Integrate
  <2>2. pc[b] = "integrate"
    BY <1>4 DEF Integrate, Goes, Ends
  <2>3. Note(b) \in integrated'
    BY <1>1, <1>4, <2>2 DEF DoneSoFar, Integrate
  <2>4. QED
    BY <1>4, <2>1, <2>3, SameJob DEF Integrate, Pcs
<1>5. CASE Remove(b)
  <2>1. pc[b] = "remove"
    BY <1>5 DEF Remove, Goes, Ends
  <2>2. StoresGrow
    BY <1>1, <1>5, <2>1 DEF IInv, TypeOK, StoresGrow, Remove, OwnEntry
  <2>3. CASE Goes(b, "remove", "done", Fresh(Push(b)))
    <3>1. Fresh(Push(b)) \in Jobs
      BY NoteType, FreshType DEF IInv
    <3>2. pc'[b] = "done" => DoneSoFar(b)' /\ OwnEntry(b)'
      BY FreshOwesNothing DEF Ended, OwnEntry
    <3>3. QED
      BY <2>2, <2>3, <3>1, <3>2, GoesOK DEF Pcs, Ended
  <2>4. CASE Ends(b, "remove", "refused")
    BY <2>2, <2>4, EndsOK DEF Ended
  <2>5. QED
    BY <1>5, <2>3, <2>4 DEF Remove
<1>6. QED
  BY <1>2, <1>3, <1>4, <1>5

LEMMA StepOK == IInv /\ [Next]_vars => IInv'
<1> SUFFICES ASSUME IInv, [Next]_vars PROVE IInv'
  OBVIOUS
<1>1. CASE Next
  <2>1. PICK b \in Builds : Triggered(b) \/ Step(b) \/ StepFails(b)
    BY <1>1 DEF Next
  <2>2. QED
    BY <2>1, BuildSteps, UploadSteps, LogSteps DEF Step
<1>2. CASE UNCHANGED vars
  BY <1>2 DEF vars, stores, IInv, TypeOK, DoneSoFar, EntryNotLost, Installable, Accepted, Note, Comp,
              Push, ImageOf, CsfOf
<1>3. QED
  BY <1>1, <1>2

\* The invariant holds in every state, of any number of builds.
THEOREM Invariant == Spec => []IInv
BY InitOK, StepOK, PTL DEF Spec

\* Every variable keeps its type, and no checkpoint commits to an entry that
\* was not sequenced.
THEOREM TypeCorrect == Spec => []TypeOK
<1>1. IInv => TypeOK
  BY DEF IInv
<1>2. QED
  BY <1>1, Invariant, PTL

\* Whatever steps of whatever builds fail, every entry of the log is one an
\* installer accepts and finds the artefacts of.
THEOREM LoggedAlwaysInstallable == Spec => []LoggedIsInstallable
<1>1. IInv => LoggedIsInstallable
  BY DEF IInv, LoggedIsInstallable
<1>2. QED
  BY <1>1, Invariant, PTL

\* No build takes the entry of another away before it is in the log.
THEOREM EntryIsNotLost == Spec => []EntryNotLost
<1>1. IInv => EntryNotLost
  BY DEF IInv
<1>2. QED
  BY <1>1, Invariant, PTL

-----------------------------------------------------------------------------
(* The log that checkpoints show implements FirmwareLog.                    *)

LEMMA StepKeepsLog == IInv /\ [Next]_vars => [Log!Store \/ Log!Appear]_<<bucket, integrated>>
<1> SUFFICES ASSUME IInv, Next PROVE Log!Store \/ Log!Appear \/ UNCHANGED <<bucket, integrated>>
  BY DEF vars, stores
<1>1. PICK b \in Builds : Triggered(b) \/ Step(b) \/ StepFails(b)
  BY DEF Next
<1>2. CASE Upload(b) \/ Csf(b)
  BY <1>2 DEF Upload, Csf, Log!Store
<1>3. CASE Integrate(b)
  <2>1. integrated' = sequenced /\ UNCHANGED bucket /\ integrated \subseteq sequenced
    BY <1>3 DEF Integrate, IInv, TypeOK
  <2>2. ASSUME NEW e \in sequenced
        PROVE  /\ e \in {n \in Notes : Accepted(n) /\ (n.push.comp \in Hab => n.hab = "pinned")}
               /\ ({ImageOf(e)} \cup IF e.push.comp \in Hab THEN {CsfOf(e)} ELSE {}) \subseteq bucket
    BY DEF IInv, TypeOK, Installable
  <2>3. QED
    BY <2>1, <2>2 DEF Log!Appear, IInv, TypeOK
<1>4. CASE ~(Upload(b) \/ Csf(b) \/ Integrate(b))
  <2>1. UNCHANGED <<bucket, integrated>>
    BY <1>1, <1>4 DEF Step, Triggered, StepFails, Build, Srk, Create, Sign, Countersign, Verify, Copy,
                      Sequence, Remove, stores
  <2>2. QED
    BY <2>1
<1>5. QED
  BY <1>2, <1>3, <1>4

\* Those who read the checkpoints see a log that takes nothing back and whose
\* entries can be installed as soon as they appear.
THEOREM PipelineKeepsLog == Spec => KeepsLog
<1>1. Init => Log!LInit
  BY DEF Init, Log!LInit
<1>2. QED
  BY <1>1, Invariant, StepKeepsLog, PTL DEF Spec, KeepsLog, Log!LSpec
=============================================================================
