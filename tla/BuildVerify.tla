----------------------------- MODULE BuildVerify ------------------------------
(***************************************************************************)
(* ReproducibleBuildVerifier.Verify (cmd/verify_build/cmd/internal/build): *)
(* install the compiler a manifest names unless its directory exists,      *)
(* check the source out, build it and compare the result.  Processes       *)
(* (continuous, single) share --tamago_dir; curl and tar are processes of  *)
(* their own, modelled from how installer.go uses them.                    *)
(***************************************************************************)
EXTENDS Naturals, FiniteSets

CONSTANTS
  Procs,       \* processes that share one --tamago_dir
  Versions,    \* versions of tamago
  Leaves,      \* manifests in the log
  VersionOf,   \* [Leaves -> Versions]: Build.TamagoVersion
  Signed,      \* leaves that pass note.Open, Unmarshal and assertSigners
  Matching,    \* leaves whose commit builds to the digest they claim
  Cleanup,     \* the --cleanup flag
  Faults       \* TRUE: downloads may break off, tar may die, files may not be
               \* removed and processes may be killed

ASSUME BuildAssumption ==
  /\ VersionOf \in [Leaves -> Versions]
  /\ Signed \subseteq Leaves /\ Matching \subseteq Leaves
  /\ Cleanup \in BOOLEAN /\ Faults \in BOOLEAN

VARIABLES
  tdir,     \* what is in each version's directory
  orphan,   \* versions a tar still extracts although its install has returned
  pc, leaf, \* where each process is, and the leaf it verifies
  tar,      \* the tar each process has started
  cleanup,  \* cleanup of each process's verifyManifest
  left,     \* leaves whose working directory outlived its Verify
  failed,   \* history: leaves whose build failed or differed in a working directory
  stray,    \* history: leaves of which a killed process or a failed RemoveAll
            \* left the working directory
  broken    \* history: versions an install of which broke off

works == <<cleanup, left, failed, stray>>
vars == <<tdir, orphan, pc, leaf, tar, broken, works>>

\* "nogo": parts of the archive; "go": parts of it, bin/go among them.
Dirs == {"absent", "empty", "nogo", "go", "whole"}
\* "hangs": in curl.Run, with a curl that will not end.
Pcs  == {"idle", "stat", "tar", "mkdir", "curl", "hangs", "check", "build", "return"}
Tars == {"none", "started", "inside", "dead"}

TypeOK ==
  /\ tdir \in [Versions -> Dirs]
  /\ orphan \subseteq Versions
  /\ pc \in [Procs -> Pcs]
  /\ leaf \in [Procs -> Leaves]
  /\ tar \in [Procs -> Tars]
  /\ \A p \in Procs : tar[p] # "none" => pc[p] \in {"mkdir", "curl", "hangs"}
  /\ cleanup \in [Procs -> BOOLEAN]
  /\ left \subseteq Leaves /\ failed \subseteq Leaves /\ stray \subseteq Leaves
  /\ broken \subseteq Versions

Init ==
  /\ tdir = [v \in Versions |-> "absent"]
  /\ orphan = {}
  /\ pc = [p \in Procs |-> "idle"]
  /\ leaf \in [Procs -> Leaves]
  /\ tar = [p \in Procs |-> "none"]
  /\ cleanup = [p \in Procs |-> Cleanup]
  /\ left = {} /\ failed = {} /\ stray = {} /\ broken = {}

Version(p) == VersionOf[leaf[p]]

Goes(p, from, to) == pc[p] = from /\ pc' = [pc EXCEPT ![p] = to]

-----------------------------------------------------------------------------
(* Verify, up to verifyManifest.  Which error it returns is not told apart.  *)

Verify(p, l) ==
  /\ leaf' = [leaf EXCEPT ![p] = l]
  /\ Goes(p, "idle", IF l \in Signed THEN "stat" ELSE "idle")
  /\ UNCHANGED <<tdir, orphan, tar, broken, works>>

-----------------------------------------------------------------------------
(* Tamago.Switch and Tamago.install.                                        *)

\* Switch: os.Stat of the version's directory.
Switch(p) ==
  /\ Goes(p, "stat", IF tdir[Version(p)] = "absent" THEN "tar" ELSE "check")
  /\ UNCHANGED <<tdir, orphan, leaf, tar, broken, works>>

TarStarts(p) ==
  /\ Goes(p, "tar", "mkdir")
  /\ tar' = [tar EXCEPT ![p] = "started"]
  /\ UNCHANGED <<tdir, orphan, leaf, broken, works>>

\* tar enters its directory when the first of the archive reaches it, so after
\* Mkdir; one that looks for it before may die (TarDies).
TarEnters(p) ==
  /\ tar[p] = "started" /\ pc[p] = "curl"
  /\ tar' = [tar EXCEPT ![p] = "inside"]
  /\ UNCHANGED <<tdir, orphan, pc, leaf, broken, works>>

\* Mutant: MkdirAll, which does not mind that the directory exists.
MkdirAll(p) ==
  /\ Goes(p, "mkdir", "curl")
  /\ tdir' = [tdir EXCEPT ![Version(p)] = IF @ = "absent" THEN "empty" ELSE @]
  /\ UNCHANGED <<orphan, leaf, tar, broken, works>>

\* Mutant: a process that was too late waits for the directory to go away.
MkdirWaits(p) ==
  /\ tdir[Version(p)] = "absent"
  /\ tdir' = [tdir EXCEPT ![Version(p)] = "empty"]
  /\ Goes(p, "mkdir", "curl")
  /\ UNCHANGED <<orphan, leaf, tar, broken, works>>

\* os.Mkdir fails when another process was faster; the tar it started gets no
\* input.
Mkdir(p) ==
  /\ \/ /\ tdir[Version(p)] = "absent"
        /\ tdir' = [tdir EXCEPT ![Version(p)] = "empty"]
        /\ Goes(p, "mkdir", "curl")
        /\ UNCHANGED tar
     \/ /\ tdir[Version(p)] # "absent"
        /\ tar' = [tar EXCEPT ![p] = "none"]
        /\ Goes(p, "mkdir", "idle")
        /\ UNCHANGED tdir
  /\ UNCHANGED <<orphan, leaf, broken, works>>

\* More of the archive arrives in a directory.
Grown(d) == IF d = "empty" THEN "nogo" ELSE IF d = "nogo" THEN "go" ELSE "whole"

Extract(p) ==
  /\ pc[p] = "curl" /\ tar[p] = "inside"
  /\ tdir[Version(p)] # "whole"
  /\ tdir' = [tdir EXCEPT ![Version(p)] = Grown(@)]
  /\ UNCHANGED <<orphan, pc, leaf, tar, broken, works>>

\* Mutant: tar is not waited for.
InstalledUnwaited(p) ==
  /\ tar[p] = "inside"
  /\ Goes(p, "curl", "check")
  /\ UNCHANGED <<tdir, orphan, leaf, tar, broken, works>>

\* curl.Run and tar.Wait have returned nil.
Installed(p) ==
  /\ tar[p] = "inside" /\ tdir[Version(p)] = "whole"
  /\ Goes(p, "curl", "check")
  /\ tar' = [tar EXCEPT ![p] = "none"]
  /\ UNCHANGED <<tdir, orphan, leaf, broken, works>>

\* tar dies: the disk is full, the archive is bad, or the directory it is to
\* enter is not there yet.
TarDies(p) ==
  /\ Faults
  /\ tar[p] \in {"started", "inside"}
  /\ tar' = [tar EXCEPT ![p] = "dead"]
  /\ UNCHANGED <<tdir, orphan, pc, leaf, broken, works>>

\* The rest of the archive fits into the pipe: curl.Run returns nil and tar.Wait
\* the error.
TarFails(p) ==
  /\ tar[p] = "dead"
  /\ Goes(p, "curl", "idle")
  /\ tar' = [tar EXCEPT ![p] = "none"]
  /\ broken' = broken \cup {Version(p)}
  /\ UNCHANGED <<tdir, orphan, leaf, works>>

\* It does not: curl waits for room in a pipe that nobody reads and that does not
\* break either, because curl.Run closes its reading end only when curl has ended.
CurlBlocks(p) ==
  /\ tar[p] = "dead" /\ tdir[Version(p)] # "whole"
  /\ Goes(p, "curl", "hangs")
  /\ broken' = broken \cup {Version(p)}
  /\ UNCHANGED <<tdir, orphan, leaf, tar, works>>

\* A tar whose process does not wait for it.
Abandoned(p) == IF pc[p] = "curl" /\ tar[p] # "dead" THEN {Version(p)} ELSE {}

\* curl fails: the error is returned at once, tar is not waited for and the
\* directory stays.
DownloadFails(p) ==
  /\ Faults
  /\ Goes(p, "curl", "idle")
  /\ tar' = [tar EXCEPT ![p] = "none"]
  /\ orphan' = orphan \cup Abandoned(p)
  /\ broken' = broken \cup {Version(p)}
  /\ UNCHANGED <<tdir, leaf, works>>

\* A tar no process waits for goes on with what it still gets, and ends.
OrphanTar(v) ==
  /\ v \in orphan
  /\ \/ tdir[v] # "whole" /\ tdir' = [tdir EXCEPT ![v] = Grown(@)] /\ UNCHANGED orphan
     \/ orphan' = orphan \ {v} /\ UNCHANGED tdir
  /\ UNCHANGED <<pc, leaf, tar, broken, works>>

HasGo(v) == tdir[v] \in {"go", "whole"}

\* Mutant: a compiler that is not there is installed again.
CheckGoAgain(p) ==
  /\ Goes(p, "check", IF HasGo(Version(p)) THEN "build" ELSE "stat")
  /\ UNCHANGED <<tdir, orphan, leaf, tar, broken, works>>

\* The second os.Stat of Switch, and os.MkdirTemp: what fails up to here has no
\* working directory.
CheckGo(p) ==
  /\ \/ HasGo(Version(p)) /\ Goes(p, "check", "build")
     \/ (Faults \/ ~HasGo(Version(p))) /\ Goes(p, "check", "idle")
  /\ UNCHANGED <<tdir, orphan, leaf, tar, broken, works>>

-----------------------------------------------------------------------------
(* The rest of verifyManifest, in the working directory.                    *)

\* clone, reset, rev-parse, its comparison, make or reading the result fails.
CommandFails(p) ==
  /\ Goes(p, "build", "return")
  /\ failed' = failed \cup {leaf[p]}
  /\ UNCHANGED <<cleanup, left, stray>>

\* Mutant: cleanup is set before the digests are compared.
DiffersCleaned(p) ==
  /\ Goes(p, "build", "return")
  /\ failed' = failed \cup {leaf[p]}
  /\ cleanup' = [cleanup EXCEPT ![p] = TRUE]
  /\ UNCHANGED <<left, stray>>

\* The digests are not the same: no error is returned, but false.
Differs(p) ==
  /\ Goes(p, "build", "return")
  /\ failed' = failed \cup {leaf[p]}
  /\ UNCHANGED <<cleanup, left, stray>>

\* make does not do better with part of a compiler.
Reproduces(p) ==
  /\ leaf[p] \in Matching
  /\ Goes(p, "build", "return")
  /\ cleanup' = [cleanup EXCEPT ![p] = TRUE]
  /\ UNCHANGED <<left, failed, stray>>

Build(p) ==
  /\ CommandFails(p) \/ Differs(p) \/ Reproduces(p)
  /\ UNCHANGED <<tdir, orphan, leaf, tar, broken>>

\* The call ends, and the next one has a cleanup of its own.
CallEnds(p) == cleanup' = [cleanup EXCEPT ![p] = Cleanup]

\* The deferred function; RemoveAll may leave what it cannot remove.
Return(p) ==
  /\ Goes(p, "return", "idle")
  /\ \/ cleanup[p] /\ UNCHANGED <<left, stray>>
     \/ cleanup[p] /\ Faults /\ left' = left \cup {leaf[p]} /\ stray' = stray \cup {leaf[p]}
     \/ ~cleanup[p] /\ left' = left \cup {leaf[p]} /\ UNCHANGED stray
  /\ CallEnds(p)
  /\ UNCHANGED <<tdir, orphan, leaf, tar, failed, broken>>

\* The process is killed; the curl and the tar it started are not, but a curl that
\* hangs gets its broken pipe.
Kill(p) ==
  /\ Faults
  /\ pc[p] # "idle"
  /\ pc' = [pc EXCEPT ![p] = "idle"]
  /\ tar' = [tar EXCEPT ![p] = "none"]
  /\ orphan' = orphan \cup Abandoned(p)
  /\ broken' = IF pc[p] = "curl" THEN broken \cup {Version(p)} ELSE broken
  /\ LET dir == IF pc[p] \in {"build", "return"} THEN {leaf[p]} ELSE {} IN
       left' = left \cup dir /\ stray' = stray \cup dir
  /\ CallEnds(p)
  /\ UNCHANGED <<tdir, leaf, failed>>

Progress(p) ==
  \/ Switch(p) \/ TarStarts(p) \/ TarEnters(p) \/ Mkdir(p) \/ Extract(p)
  \/ Installed(p) \/ TarFails(p) \/ CurlBlocks(p) \/ CheckGo(p) \/ Build(p) \/ Return(p)

Next ==
  \/ \E p \in Procs : \/ \E l \in Leaves : Verify(p, l)
                      \/ Progress(p) \/ TarDies(p) \/ DownloadFails(p) \/ Kill(p)
  \/ \E v \in Versions : OrphanTar(v)

Spec == Init /\ [][Next]_vars

\* Commands that have been started end, unless the code holds them up.
FairSpec == Spec /\ \A p \in Procs : WF_vars(Progress(p))

-----------------------------------------------------------------------------
(* Properties. *)

Installs(p, v) == pc[p] = "curl" /\ Version(p) = v

\* Two processes that find a version missing at the same time never extract
\* into its directory together, nor into one an abandoned tar still fills:
\* os.Mkdir lets one of them through (Tamago.install).
OneWriter ==
  \A v \in Versions, p, q \in Procs :
    Installs(p, v) => /\ v \notin orphan
                      /\ Installs(q, v) => q = p

\* "Switch ensures that the named version of Tamago is installed, or fails with
\* an error": what is built with is a whole compiler.
SwitchEnsures == \A p \in Procs : pc[p] = "build" => tdir[Version(p)] = "whole"

\* What is built with is a whole compiler unless an install of that version
\* broke off before or another process is installing it at the moment: nothing
\* else, no version, failed build or lost race for the directory, has this
\* effect.
PartialOnlyBroken ==
  \A p \in Procs :
    pc[p] = "build" /\ tdir[Version(p)] # "whole" =>
      Version(p) \in broken \/ \E q \in Procs : Installs(q, Version(p))

\* Every failed build leaves its evidence behind unless --cleanup is set, whichever
\* step it failed in and however often the leaf was tried, and nothing else is
\* left but what a killed process or a failed RemoveAll could not remove
\* (verifyManifest's "Cleanup will occur").
EvidenceKept ==
  /\ ~Cleanup => \A l \in failed :
       l \in left \/ \E p \in Procs : pc[p] = "return" /\ leaf[p] = l /\ ~cleanup[p]
  /\ left \subseteq IF Cleanup THEN stray ELSE stray \cup failed

\* How much of the archive is to come into a directory.
ToCome(d) == IF d = "whole" THEN 0 ELSE IF d = "go" THEN 1 ELSE IF d = "nogo" THEN 2 ELSE 3

\* How many of its own steps a Verify in step s has before it at most, with its
\* tar in state t and d in the directory of its compiler.
ToGo(s, t, d) ==
  CASE s \in {"idle", "hangs"} -> 0
    [] s = "return" -> 1
    [] s = "build"  -> 2
    [] s = "check"  -> 3
    [] s = "curl"   -> 4 + (IF t = "started" THEN 1 ELSE 0) + ToCome(d)
    [] s = "mkdir"  -> 9
    [] s = "tar"    -> 10
    [] s = "stat"   -> 11

Left(p) == ToGo(pc[p], tar[p], tdir[Version(p)])

\* Its own steps bring a Verify nearer to its end, and no other process, failed
\* or killed install or abandoned tar sets it back: nothing is installed twice
\* or waited for again because of what another does to the directory.
NeverSetBack ==
  [][\A p \in Procs : pc[p] # "idle" =>
        /\ Left(p)' \in 0 .. Left(p)
        /\ Progress(p) => Left(p)' # Left(p)]_vars

\* A Verify comes to an end whatever fails, except for one thing: a tar that dies
\* before it has read what does not fit into the pipe.  One that hangs for this
\* holds up no other.
VerifyEnds == \A p \in Procs : pc[p] # "idle" ~> pc[p] \in {"idle", "hangs"}
=============================================================================
