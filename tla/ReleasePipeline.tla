--------------------------- MODULE ReleasePipeline ---------------------------
(***************************************************************************)
(* The release triggers of Cloud Build (deployment/build_and_release):     *)
(* a push builds a component, stores the artefacts by their digests, makes *)
(* and signs a manifest (cmd/manifest create, cmd/sign), verifies it       *)
(* (cmd/verify_build single), and has it sequenced and integrated into the *)
(* firmware log.  Builds run concurrently; a build stops at the first step *)
(* that fails, and may be started again.  The buckets and the log's cloud  *)
(* functions are modelled from how the triggers use them.                  *)
(***************************************************************************)
CONSTANTS
  Builds,    \* builds that may run at the same time
  Pushes,    \* [comp, rel]: a component, and the tag and commit pushed
  Faults     \* TRUE: a step may fail, before or after it had its effect

Components == {"applet", "os", "recovery", "boot"}
Hab        == {"recovery", "boot"}

ASSUME PipelineAssumption ==
  /\ \A p \in Pushes : p.comp \in Components
  /\ Faults \in BOOLEAN

VARIABLES
  pc,           \* the step each build is at
  job,          \* its workspace: what was pushed, the image, the SRK table, the
                \* signatures its manifest has
  bucket,       \* artefacts in the firmware bucket, by digest
  entries,      \* manifests below entries_dir, each in the directory of its digest
  sequenced,    \* entries of the log
  integrated    \* those its checkpoint commits to

stores == <<bucket, entries, sequenced, integrated>>
vars   == <<pc, job, stores>>

\* An image that the verifier's build reproduces, or does not.
Images == {"none", "repro", "odd"}
\* The table the devices are fused for, or one of other CAs.
Tables == {"none", "pinned", "other"}
Keys(c) == IF c = "os" THEN {"os1", "os2"} ELSE {c}
SetsOfKeys == SUBSET UNION {Keys(c) : c \in Components}

Jobs      == [push : Pushes, image : Images, srk : Tables, sigs : SetsOfKeys]
Notes     == [push : Pushes, image : Images, hab : Tables, sigs : SetsOfKeys]
Artefacts == [push : Pushes, image : Images, csf : Tables]

\* "failed": a step failed of itself; "refused": a check was not passed.
Ended == {"idle", "done", "failed", "refused"}
Pcs   == Ended \cup {"build", "upload", "srk", "csf", "create", "sign", "countersign", "verify",
                     "copy", "sequence", "integrate", "remove"}

TypeOK ==
  /\ pc \in [Builds -> Pcs]
  /\ job \in [Builds -> Jobs]
  /\ bucket \subseteq Artefacts
  /\ entries \subseteq Notes
  /\ sequenced \subseteq Notes /\ integrated \subseteq sequenced

Fresh(p) == [push |-> p, image |-> "none", srk |-> "none", sigs |-> {}]

Init ==
  /\ pc = [b \in Builds |-> "idle"]
  /\ \E p \in Pushes : job = [b \in Builds |-> Fresh(p)]
  /\ bucket = {} /\ entries = {} /\ sequenced = {} /\ integrated = {}

Push(b) == job[b].push
Comp(b) == Push(b).comp

\* What cmd/manifest create writes: the digests of the image and, for what the
\* boot ROM loads, of its HAB signature; with the signatures it has by now.
Note(b) == [push |-> Push(b), image |-> job[b].image,
            hab |-> IF Comp(b) \in Hab THEN job[b].srk ELSE "none", sigs |-> job[b].sigs]

ImageOf(n) == [push |-> n.push, image |-> n.image, csf |-> "none"]
CsfOf(n)   == [push |-> n.push, image |-> n.image, csf |-> n.hab]

-----------------------------------------------------------------------------
(* Steps.                                                                  *)

\* The build ends, and its workspace is gone.
Ends(b, from, to) ==
  /\ pc[b] = from
  /\ pc' = [pc EXCEPT ![b] = to]
  /\ job' = [job EXCEPT ![b] = Fresh(@.push)]

\* A step whose effect happens; its command may still report a failure.
Goes(b, from, to, j) ==
  \/ pc[b] = from /\ pc' = [pc EXCEPT ![b] = to] /\ job' = [job EXCEPT ![b] = j]
  \/ Faults /\ Ends(b, from, "failed")

\* A step that fails without its effect.
StepFails(b) ==
  /\ Faults
  /\ \E step \in Pcs \ Ended : Ends(b, step, "failed")
  /\ UNCHANGED stores

\* A push, or a build that is started again.
Triggered(b) ==
  /\ pc[b] \in Ended
  /\ pc' = [pc EXCEPT ![b] = "build"]
  /\ \E p \in Pushes : job' = [job EXCEPT ![b] = Fresh(p)]
  /\ UNCHANGED stores

Build(b) ==
  /\ \E i \in Images \ {"none"} : Goes(b, "build", "upload", [job[b] EXCEPT !.image = i])
  /\ UNCHANGED stores

Upload(b) ==
  /\ Goes(b, "upload", IF Comp(b) \in Hab THEN "srk" ELSE "create", job[b])
  /\ bucket' = bucket \cup {ImageOf(Note(b))}
  /\ UNCHANGED <<entries, sequenced, integrated>>

\* Mutant: the table is not compared with the pinned hash.
SrkUnpinned(b) ==
  /\ \E t \in Tables \ {"none"} : Goes(b, "srk", "csf", [job[b] EXCEPT !.srk = t])
  /\ UNCHANGED stores

\* The SRK table is made of the present CAs, and must have the pinned hash
\* (srk_hash, which the live configurations ci and prod set).
Srk(b) ==
  /\ \/ Goes(b, "srk", "csf", [job[b] EXCEPT !.srk = "pinned"])
     \/ Ends(b, "srk", "refused")
  /\ UNCHANGED stores

\* The HAB signature is made and uploaded.
Csf(b) ==
  /\ Goes(b, "csf", "create", job[b])
  /\ bucket' = bucket \cup {CsfOf(Note(b))}
  /\ UNCHANGED <<entries, sequenced, integrated>>

Create(b) ==
  /\ Goes(b, "create", "sign", job[b])
  /\ UNCHANGED stores

\* cmd/sign --manifest_file: one signature, which must verify with the key of
\* the artefact.
Sign(b) ==
  /\ IF Comp(b) = "os" THEN Goes(b, "sign", "countersign", [job[b] EXCEPT !.sigs = {"os1"}])
     ELSE Goes(b, "sign", "verify", [job[b] EXCEPT !.sigs = {Comp(b)}])
  /\ UNCHANGED stores

\* cmd/sign --note_file: opens the note with the first key and adds the second.
Countersign(b) ==
  /\ "os1" \in job[b].sigs
  /\ Goes(b, "countersign", "verify", [job[b] EXCEPT !.sigs = @ \cup {"os2"}])
  /\ UNCHANGED stores

\* verify_build single: all signers and no others, and the image is reproduced.
Accepted(n) == n.sigs = Keys(n.push.comp) /\ n.image = "repro"

\* Mutant: the result of the verification does not stop the build.
VerifyIgnored(b) ==
  /\ Goes(b, "verify", "copy", job[b])
  /\ UNCHANGED stores

Verify(b) ==
  /\ IF Accepted(Note(b)) THEN Goes(b, "verify", "copy", job[b])
     ELSE Ends(b, "verify", "refused")
  /\ UNCHANGED stores

Copy(b) ==
  /\ Goes(b, "copy", "sequence", job[b])
  /\ entries' = entries \cup {Note(b)}
  /\ UNCHANGED <<bucket, sequenced, integrated>>

\* The sequence function reads the directory of this manifest.  A build of the
\* same manifest may have removed the file: then there is nothing to sequence,
\* which may be an error or not.
Sequence(b) ==
  /\ \/ /\ Note(b) \in entries
        /\ sequenced' = sequenced \cup {Note(b)}
        /\ Goes(b, "sequence", "integrate", job[b])
     \/ /\ Note(b) \notin entries
        /\ UNCHANGED sequenced
        /\ Goes(b, "sequence", "integrate", job[b]) \/ Ends(b, "sequence", "refused")
  /\ UNCHANGED <<bucket, entries, integrated>>

\* Mutant: an entry that was not sequenced is integrated.
IntegrateFile(b) ==
  /\ Goes(b, "integrate", "remove", job[b])
  /\ integrated' = integrated \cup entries
  /\ UNCHANGED <<bucket, entries, sequenced>>

\* Mutant: the checkpoint commits to the entry of this build only.
IntegrateOwn(b) ==
  /\ Goes(b, "integrate", "remove", job[b])
  /\ integrated' = {Note(b)}
  /\ UNCHANGED <<bucket, entries, sequenced>>

\* The integrate function: all entries that have been sequenced.
Integrate(b) ==
  /\ Goes(b, "integrate", "remove", job[b])
  /\ integrated' = sequenced
  /\ UNCHANGED <<bucket, entries, sequenced>>

\* Mutant: everything below entries_dir is removed.
RemoveAll(b) ==
  /\ Goes(b, "remove", "done", Fresh(Push(b)))
  /\ entries' = {}
  /\ UNCHANGED <<bucket, sequenced, integrated>>

\* Removing a file that is not there is an error.
Remove(b) ==
  /\ IF Note(b) \in entries THEN Goes(b, "remove", "done", Fresh(Push(b)))
     ELSE Ends(b, "remove", "refused")
  /\ entries' = entries \ {Note(b)}
  /\ UNCHANGED <<bucket, sequenced, integrated>>

Step(b) ==
  \/ Build(b) \/ Upload(b) \/ Srk(b) \/ Csf(b) \/ Create(b) \/ Sign(b) \/ Countersign(b)
  \/ Verify(b) \/ Copy(b) \/ Sequence(b) \/ Integrate(b) \/ Remove(b)

Next == \E b \in Builds : Triggered(b) \/ Step(b) \/ StepFails(b)

Spec == Init /\ [][Next]_vars

-----------------------------------------------------------------------------
(* Properties.                                                             *)

\* What an installer needs of a manifest it finds in the log: the artefacts
\* it names, all signatures, an image that can be reproduced, and a HAB
\* signature that the fused devices accept.
Installable(n) ==
  /\ Accepted(n)
  /\ ImageOf(n) \in bucket
  /\ n.push.comp \in Hab => n.hab = "pinned" /\ CsfOf(n) \in bucket

\* Every entry of the log can be installed, whatever steps of whatever builds
\* failed and whoever integrated it ("Verify build reproducibility before we
\* log anything"; with another SRK hash "devices will be bricked").
LoggedIsInstallable == \A n \in sequenced : Installable(n)

\* Builds that run at the same time do not take each other's entry away: it is
\* there until it is in the log, be it by another build of the same manifest
\* ("This allows multiple triggers to run without colliding").
EntryNotLost ==
  \A b \in Builds :
    /\ pc[b] \in {"sequence", "integrate"} => Note(b) \in entries \cup integrated
    /\ pc[b] = "remove" => Note(b) \in integrated

\* Seen from those who read its checkpoints the log keeps what it promises:
\* what it has shown stays, and what appears can be installed at once
\* (FirmwareLog), with concurrent, failing and repeated builds.
Log == INSTANCE FirmwareLog WITH
         Entries   <- {n \in Notes : Accepted(n) /\ (n.push.comp \in Hab => n.hab = "pinned")},
         Needs     <- [n \in Notes |-> {ImageOf(n)} \cup IF n.push.comp \in Hab THEN {CsfOf(n)} ELSE {}],
         artefacts <- bucket,
         log       <- integrated

KeepsLog == Log!LSpec
=============================================================================
