-------------------------- MODULE BuildVerifyProofs ---------------------------
(***************************************************************************)
(* Theorems about BuildVerify: for any processes, versions and leaves no   *)
(* two writers meet in a version's directory, what is built with is whole  *)
(* or excused, and the evidence of failed builds is kept.                  *)
(***************************************************************************)
EXTENDS BuildVerify, TLAPS

\* A directory that is being written exists, and has one writer.
Written ==
  \A v \in Versions :
    /\ v \in orphan => tdir[v] # "absent"
    /\ \A p \in Procs : Installs(p, v) => tdir[v] # "absent"

IInv == TypeOK /\ Written /\ OneWriter

LEMMA InitOK == Init => IInv
BY BuildAssumption DEF Init, IInv, TypeOK, Written, OneWriter, Installs, Dirs, Pcs, Tars

LEMMA TypeStep == TypeOK /\ [Next]_vars => TypeOK'
<1> SUFFICES ASSUME TypeOK, [Next]_vars PROVE TypeOK'
  OBVIOUS
<1> USE BuildAssumption DEF TypeOK, Goes, Version, works
<1>1. ASSUME NEW p \in Procs, NEW l \in Leaves, Verify(p, l) PROVE TypeOK'
  BY <1>1 DEF Verify, Pcs
<1>2. ASSUME NEW p \in Procs, Switch(p) PROVE TypeOK'
  BY <1>2 DEF Switch, Pcs
<1>3. ASSUME NEW p \in Procs, TarStarts(p) PROVE TypeOK'
  BY <1>3 DEF TarStarts, Pcs, Tars
<1>4. ASSUME NEW p \in Procs, TarEnters(p) PROVE TypeOK'
  BY <1>4 DEF TarEnters, Tars
<1>5. ASSUME NEW p \in Procs, Mkdir(p) PROVE TypeOK'
  BY <1>5 DEF Mkdir, Pcs, Tars, Dirs
<1>6. ASSUME NEW p \in Procs, Extract(p) PROVE TypeOK'
  BY <1>6 DEF Extract, Grown, Dirs
<1>7. ASSUME NEW p \in Procs, Installed(p) PROVE TypeOK'
  BY <1>7 DEF Installed, Pcs, Tars
<1>8. ASSUME NEW p \in Procs, CheckGo(p) PROVE TypeOK'
  BY <1>8 DEF CheckGo, Pcs
<1>9. ASSUME NEW p \in Procs, Build(p) PROVE TypeOK'
  BY <1>9 DEF Build, CommandFails, Differs, Reproduces, Pcs
<1>10. ASSUME NEW p \in Procs, DownloadFails(p) PROVE TypeOK'
  BY <1>10 DEF DownloadFails, Abandoned, Pcs, Tars
<1>11. ASSUME NEW p \in Procs, Kill(p) PROVE TypeOK'
  BY <1>11 DEF Kill, Abandoned, CallEnds, Pcs, Tars
<1>12. ASSUME NEW v \in Versions, OrphanTar(v) PROVE TypeOK'
  BY <1>12 DEF OrphanTar, Grown, Dirs
<1>13. ASSUME NEW p \in Procs, TarDies(p) PROVE TypeOK'
  BY <1>13 DEF TarDies, Tars
<1>14. ASSUME NEW p \in Procs, TarFails(p) \/ CurlBlocks(p) PROVE TypeOK'
  BY <1>14 DEF TarFails, CurlBlocks, Pcs, Tars
<1>15. ASSUME NEW p \in Procs, Return(p) PROVE TypeOK'
  BY <1>15 DEF Return, CallEnds, Pcs
<1>16. CASE UNCHANGED vars
  BY <1>16 DEF vars
<1>17. QED
  BY <1>1, <1>2, <1>3, <1>4, <1>5, <1>6, <1>7, <1>8, <1>9, <1>10, <1>11, <1>12, <1>13, <1>14, <1>15, <1>16
     DEF Next, Progress

\* The step that matters is Mkdir: it lets a process write a directory that
\* was not there, which therefore had no writer.
LEMMA WriterStep == IInv /\ [Next]_vars => (Written /\ OneWriter)'
<1> SUFFICES ASSUME IInv, [Next]_vars PROVE (Written /\ OneWriter)'
  OBVIOUS
<1> USE BuildAssumption DEF IInv, TypeOK, Written, OneWriter, Installs, Goes, Version, works
<1>1. ASSUME NEW p \in Procs, NEW l \in Leaves, Verify(p, l) PROVE (Written /\ OneWriter)'
  BY <1>1 DEF Verify
<1>2. ASSUME NEW p \in Procs, Switch(p) \/ TarStarts(p) \/ TarEnters(p) \/ CheckGo(p) \/ Installed(p)
      PROVE  (Written /\ OneWriter)'
  BY <1>2 DEF Switch, TarStarts, TarEnters, CheckGo, Installed
<1>3. ASSUME NEW p \in Procs, Mkdir(p) PROVE (Written /\ OneWriter)'
  BY <1>3 DEF Mkdir
<1>4. ASSUME NEW p \in Procs, Extract(p) PROVE (Written /\ OneWriter)'
  BY <1>4 DEF Extract, Grown
<1>5. ASSUME NEW p \in Procs, DownloadFails(p) \/ Kill(p) PROVE (Written /\ OneWriter)'
  BY <1>5 DEF DownloadFails, Kill, Abandoned
<1>6. ASSUME NEW v \in Versions, OrphanTar(v) PROVE (Written /\ OneWriter)'
  BY <1>6 DEF OrphanTar, Grown
<1>7. ASSUME NEW p \in Procs, TarDies(p) \/ TarFails(p) \/ CurlBlocks(p) PROVE (Written /\ OneWriter)'
  BY <1>7 DEF TarDies, TarFails, CurlBlocks
<1>8. ASSUME NEW p \in Procs, Build(p) \/ Return(p) PROVE (Written /\ OneWriter)'
  BY <1>8 DEF Build, CommandFails, Differs, Reproduces, Return
<1>9. CASE UNCHANGED vars
  BY <1>9 DEF vars
<1>10. QED
  BY <1>1, <1>2, <1>3, <1>4, <1>5, <1>6, <1>7, <1>8, <1>9 DEF Next, Progress

\* The type invariant of the build verifier.
THEOREM TypeCorrect == Spec => []TypeOK
<1>1. Init => TypeOK
  BY InitOK DEF IInv
<1>2. QED
  BY <1>1, TypeStep, PTL DEF Spec

\* Processes that share a --tamago_dir never extract into the same directory
\* together, however their os.Stat, tar, os.Mkdir and curl interleave, are
\* killed or fail.
THEOREM NeverTwoWriters == Spec => []OneWriter
<1>1. IInv /\ [Next]_vars => IInv'
  BY TypeStep, WriterStep DEF IInv
<1>2. IInv => OneWriter
  BY DEF IInv
<1>3. QED
  BY <1>1, <1>2, InitOK, PTL DEF Spec

\* A directory that is there is whole, unless its install broke off or goes on;
\* and a process builds in a directory that was there.
WholeOrExcused ==
  /\ orphan \subseteq broken
  /\ \A v \in Versions : \/ tdir[v] \in {"absent", "whole"} \/ v \in broken
                        \/ \E q \in Procs : Installs(q, v)
  /\ \A p \in Procs : pc[p] \in {"check", "build"} => tdir[Version(p)] # "absent"

LEMMA WholeStep == IInv /\ WholeOrExcused /\ [Next]_vars => WholeOrExcused'
<1> SUFFICES ASSUME IInv, WholeOrExcused, [Next]_vars PROVE WholeOrExcused'
  OBVIOUS
<1> USE BuildAssumption DEF IInv, TypeOK, WholeOrExcused, Installs, Goes, Version, works
<1>1. ASSUME NEW p \in Procs, NEW l \in Leaves, Verify(p, l) PROVE WholeOrExcused'
  BY <1>1 DEF Verify
<1>2. ASSUME NEW p \in Procs, Switch(p) PROVE WholeOrExcused'
  BY <1>2 DEF Switch
<1>3. ASSUME NEW p \in Procs, TarStarts(p) \/ TarEnters(p) PROVE WholeOrExcused'
  BY <1>3 DEF TarStarts, TarEnters
<1>4. ASSUME NEW p \in Procs, Mkdir(p) PROVE WholeOrExcused'
  BY <1>4 DEF Mkdir
<1>5. ASSUME NEW p \in Procs, Extract(p) PROVE WholeOrExcused'
  BY <1>5 DEF Extract, Grown
<1>6. ASSUME NEW p \in Procs, Installed(p) PROVE WholeOrExcused'
  BY <1>6 DEF Installed
<1>7. ASSUME NEW p \in Procs, CheckGo(p) PROVE WholeOrExcused'
  BY <1>7 DEF CheckGo
<1>8. ASSUME NEW p \in Procs, Build(p) \/ Return(p) PROVE WholeOrExcused'
  BY <1>8 DEF Build, CommandFails, Differs, Reproduces, Return
<1>9. ASSUME NEW p \in Procs, DownloadFails(p) \/ Kill(p) PROVE WholeOrExcused'
  BY <1>9 DEF DownloadFails, Kill, Abandoned
<1>10. ASSUME NEW v \in Versions, OrphanTar(v) PROVE WholeOrExcused'
  BY <1>10 DEF OrphanTar, Grown
<1>11. ASSUME NEW p \in Procs, TarDies(p) \/ TarFails(p) \/ CurlBlocks(p) PROVE WholeOrExcused'
  BY <1>11 DEF TarDies, TarFails, CurlBlocks
<1>12. CASE UNCHANGED vars
  BY <1>12 DEF vars
<1>13. QED
  BY <1>1, <1>2, <1>3, <1>4, <1>5, <1>6, <1>7, <1>8, <1>9, <1>10, <1>11, <1>12 DEF Next, Progress

\* What is built with is a whole compiler unless an install of it broke off or
\* is going on, for any number of processes, versions and leaves: an
\* undisturbed process keeps Switch's promise.
THEOREM PartialIsExcused == Spec => []PartialOnlyBroken
<1>1. Init => WholeOrExcused
  BY DEF Init, WholeOrExcused
<1>2. IInv /\ WholeOrExcused /\ [Next]_vars => IInv' /\ WholeOrExcused'
  BY TypeStep, WriterStep, WholeStep DEF IInv
<1>3. IInv /\ WholeOrExcused => PartialOnlyBroken
  BY BuildAssumption DEF IInv, TypeOK, WholeOrExcused, PartialOnlyBroken, Version
<1>4. QED
  BY <1>1, <1>2, <1>3, InitOK, PTL DEF Spec

\* What cleanup says of the call in hand: it is the flag's until the build is
\* reproduced, and a call returns without it only after a failure.
CleanupTells ==
  \A p \in Procs :
    /\ pc[p] # "return" => cleanup[p] = Cleanup
    /\ pc[p] = "return" /\ ~cleanup[p] => ~Cleanup /\ leaf[p] \in failed
    /\ Cleanup => cleanup[p]

EvidenceInv == TypeOK /\ CleanupTells /\ EvidenceKept

LEMMA CleanupStep == EvidenceInv /\ [Next]_vars => CleanupTells'
<1> SUFFICES ASSUME EvidenceInv, [Next]_vars PROVE CleanupTells'
  OBVIOUS
<1> USE BuildAssumption DEF EvidenceInv, TypeOK, CleanupTells, Goes, works
<1>1. ASSUME NEW p \in Procs, NEW l \in Leaves, Verify(p, l) PROVE CleanupTells'
  BY <1>1 DEF Verify
<1>2. ASSUME NEW p \in Procs,
             Switch(p) \/ TarStarts(p) \/ TarEnters(p) \/ Mkdir(p) \/ Extract(p) \/ Installed(p) \/ CheckGo(p)
      PROVE  CleanupTells'
  BY <1>2 DEF Switch, TarStarts, TarEnters, Mkdir, Extract, Installed, CheckGo
<1>3. ASSUME NEW p \in Procs, TarDies(p) \/ TarFails(p) \/ CurlBlocks(p) \/ DownloadFails(p) PROVE CleanupTells'
  BY <1>3 DEF TarDies, TarFails, CurlBlocks, DownloadFails
<1>4. ASSUME NEW p \in Procs, Build(p) PROVE CleanupTells'
  BY <1>4 DEF Build, CommandFails, Differs, Reproduces
<1>5. ASSUME NEW p \in Procs, Return(p) PROVE CleanupTells'
  BY <1>5 DEF Return, CallEnds
<1>6. ASSUME NEW p \in Procs, Kill(p) PROVE CleanupTells'
  BY <1>6 DEF Kill, CallEnds
<1>7. ASSUME NEW v \in Versions, OrphanTar(v) PROVE CleanupTells'
  BY <1>7 DEF OrphanTar
<1>8. CASE UNCHANGED vars
  BY <1>8 DEF vars
<1> QED
  BY <1>1, <1>2, <1>3, <1>4, <1>5, <1>6, <1>7, <1>8 DEF Next, Progress

\* A failed build is on its way to the deferred function or has left its
\* directory; what reaches that function with cleanup unset has failed.
LEMMA EvidenceStep == EvidenceInv /\ [Next]_vars => EvidenceKept'
<1> SUFFICES ASSUME EvidenceInv, [Next]_vars PROVE EvidenceKept'
  OBVIOUS
<1> USE DEF EvidenceInv, EvidenceKept, TypeOK, CleanupTells, Goes
<1>1. ASSUME NEW p \in Procs, Build(p) PROVE EvidenceKept'
  BY <1>1 DEF Build, CommandFails, Differs, Reproduces
<1>2. ASSUME NEW p \in Procs, Return(p) PROVE EvidenceKept'
  BY <1>2 DEF Return, CallEnds
<1>3. ASSUME NEW p \in Procs, Kill(p) PROVE EvidenceKept'
  BY <1>3 DEF Kill, CallEnds
<1>4. ASSUME UNCHANGED works, \A q \in Procs : pc[q] = "return" => pc'[q] = "return" /\ leaf'[q] = leaf[q]
      PROVE  EvidenceKept'
  BY <1>4 DEF works
<1>5. ASSUME NEW p \in Procs, NEW l \in Leaves, Verify(p, l) PROVE EvidenceKept'
  <2>1. UNCHANGED works /\ \A q \in Procs : pc[q] = "return" => pc'[q] = "return" /\ leaf'[q] = leaf[q]
    BY <1>5 DEF Verify
  <2> QED
    BY <2>1, <1>4
<1>6. ASSUME NEW p \in Procs,
             \/ Switch(p) \/ TarStarts(p) \/ TarEnters(p) \/ Mkdir(p) \/ Extract(p) \/ Installed(p)
             \/ CheckGo(p) \/ TarDies(p) \/ TarFails(p) \/ CurlBlocks(p) \/ DownloadFails(p)
      PROVE  EvidenceKept'
  <2>1. UNCHANGED works /\ \A q \in Procs : pc[q] = "return" => pc'[q] = "return" /\ leaf'[q] = leaf[q]
    BY <1>6
       DEF Switch, TarStarts, TarEnters, Mkdir, Extract, Installed, CheckGo, TarDies, TarFails, CurlBlocks,
           DownloadFails
  <2> QED
    BY <2>1, <1>4
<1>7. CASE UNCHANGED vars \/ \E v \in Versions : OrphanTar(v)
  BY <1>4, <1>7 DEF vars, OrphanTar
<1> QED
  BY <1>1, <1>2, <1>3, <1>5, <1>6, <1>7 DEF Next, Progress

\* The evidence of failed builds is kept, and nothing else is left over but what
\* could not be removed, with and without --cleanup, whichever step of a build
\* fails and for any number of processes that work on the same leaves.
THEOREM EvidenceIsKept == Spec => []EvidenceKept
<1>1. Init => EvidenceInv
  BY InitOK DEF Init, EvidenceInv, IInv, CleanupTells, EvidenceKept
<1>2. EvidenceInv /\ [Next]_vars => EvidenceInv'
  BY TypeStep, CleanupStep, EvidenceStep DEF EvidenceInv
<1>3. EvidenceInv => EvidenceKept
  BY DEF EvidenceInv
<1>4. QED
  BY <1>1, <1>2, <1>3, PTL DEF Spec
-----------------------------------------------------------------------------
(* No process sets another back.                                           *)

\* The cases of ToGo.
LEMMA ToGoIs ==
  ASSUME NEW s, NEW t, NEW d
  PROVE  /\ s = "idle"  => ToGo(s, t, d) = 0
         /\ s = "hangs"  => ToGo(s, t, d) = 0
         /\ s = "return" => ToGo(s, t, d) = 1
         /\ s = "build" => ToGo(s, t, d) = 2
         /\ s = "check" => ToGo(s, t, d) = 3
         /\ s = "curl"  => ToGo(s, t, d) = 4 + (IF t = "started" THEN 1 ELSE 0) + ToCome(d)
         /\ s = "mkdir" => ToGo(s, t, d) = 9
         /\ s = "tar"   => ToGo(s, t, d) = 10
         /\ s = "stat"  => ToGo(s, t, d) = 11
BY DEF ToGo

LEMMA ToGoType ==
  ASSUME NEW s \in Pcs, NEW t, NEW d
  PROVE  ToGo(s, t, d) \in 0 .. 11 /\ (s \notin {"idle", "hangs"} => ToGo(s, t, d) > 0)
<1>1. 4 + (IF t = "started" THEN 1 ELSE 0) + ToCome(d) \in 4 .. 8
  BY DEF ToCome
<1> QED
  BY <1>1, ToGoIs DEF Pcs

LEMMA ToComeLess ==
  ASSUME NEW d \in Dirs
  PROVE  /\ ToCome(Grown(d)) <= ToCome(d)
         /\ d \notin {"absent", "whole"} => ToCome(Grown(d)) < ToCome(d)
         /\ ToCome("empty") = 3 /\ ToCome(d) \in 0 .. 3
BY DEF ToCome, Grown, Dirs

LEMMA LeftIs ==
  ASSUME NEW p \in Procs
  PROVE  /\ Left(p)  = ToGo(pc[p], tar[p], tdir[VersionOf[leaf[p]]])
         /\ Left(p)' = ToGo(pc'[p], tar'[p], tdir'[VersionOf[leaf'[p]]])
BY DEF Left, Version

\* Its own steps bring a process nearer to its end.
LEMMA ProgressNearer ==
  ASSUME IInv, NEW p \in Procs, Progress(p)
  PROVE  ToGo(pc'[p], tar'[p], tdir'[VersionOf[leaf'[p]]]) < ToGo(pc[p], tar[p], tdir[VersionOf[leaf[p]]])
<1> DEFINE v == VersionOf[leaf[p]]
<1>0. /\ pc \in [Procs -> Pcs] /\ tar \in [Procs -> Tars] /\ tdir \in [Versions -> Dirs]
      /\ v \in Versions /\ leaf' = leaf
  BY BuildAssumption
     DEF IInv, TypeOK, Progress, Switch, TarStarts, TarEnters, Mkdir, Extract, Installed, TarFails,
         CurlBlocks, CheckGo, Build, Return
<1>1. tdir[v] \in Dirs /\ ToCome(tdir[v]) \in 0 .. 3
  BY <1>0, ToComeLess
<1>2. CASE Switch(p)
  BY <1>0, <1>2, ToGoIs DEF Switch, Goes
<1>3. CASE TarStarts(p)
  BY <1>0, <1>3, ToGoIs DEF TarStarts, Goes
<1>4. CASE TarEnters(p)
  <2>1. pc' = pc /\ pc[p] = "curl" /\ tar[p] = "started" /\ tar'[p] = "inside" /\ tdir' = tdir
    BY <1>0, <1>4 DEF TarEnters
  <2>2. ToGo(pc[p], tar[p], tdir[v]) = 4 + 1 + ToCome(tdir[v])
    BY <2>1, ToGoIs
  <2>3. ToGo(pc'[p], tar'[p], tdir'[v]) = 4 + 0 + ToCome(tdir[v])
    BY <2>1, ToGoIs
  <2> QED
    BY <1>0, <1>1, <2>2, <2>3
<1>5. CASE Mkdir(p)
  <2>1. CASE pc'[p] = "curl"
    <3>1. pc[p] = "mkdir" /\ ToGo(pc[p], tar[p], tdir[v]) = 9
      BY <1>0, <1>5, ToGoIs DEF Mkdir, Goes
    <3>2. tdir'[v] = "empty"
      BY <1>0, <1>5, <2>1 DEF Mkdir, Goes, Version
    <3>3. ToGo(pc'[p], tar'[p], tdir'[v]) \in {4 + 1 + 3, 4 + 0 + 3}
      BY <1>0, <1>1, <2>1, <3>2, ToGoIs, ToComeLess
    <3> QED
      BY <1>0, <3>1, <3>3
  <2>2. CASE pc'[p] = "idle"
    <3>1. pc[p] = "mkdir"
      BY <1>5 DEF Mkdir, Goes
    <3> QED
      BY <2>2, <3>1, ToGoIs
  <2> QED
    BY <1>0, <1>5, <2>1, <2>2 DEF Mkdir, Goes
<1>6. CASE Extract(p)
  <2>1. pc' = pc /\ tar' = tar /\ pc[p] = "curl" /\ tdir'[v] = Grown(tdir[v]) /\ tar[p] = "inside"
    BY <1>0, <1>6 DEF Extract, Version
  <2>2. tdir[v] \notin {"absent", "whole"}
    BY <1>0, <1>6, <2>1 DEF Extract, Version, IInv, Written, Installs
  <2>3. ToCome(Grown(tdir[v])) < ToCome(tdir[v]) /\ ToCome(Grown(tdir[v])) \in 0 .. 3
    BY <1>1, <2>2, ToComeLess DEF ToCome
  <2>4. /\ ToGo(pc[p], tar[p], tdir[v]) = 4 + 0 + ToCome(tdir[v])
        /\ ToGo(pc'[p], tar'[p], tdir'[v]) = 4 + 0 + ToCome(Grown(tdir[v]))
    BY <2>1, ToGoIs
  <2> QED
    BY <1>0, <1>1, <2>3, <2>4
<1>7. CASE Installed(p)
  <2>1. pc[p] = "curl" /\ pc'[p] = "check" /\ tar[p] = "inside"
    BY <1>0, <1>7 DEF Installed, Goes
  <2>2. ToGo(pc[p], tar[p], tdir[v]) = 4 + 0 + ToCome(tdir[v]) /\ ToGo(pc'[p], tar'[p], tdir'[v]) = 3
    BY <2>1, ToGoIs
  <2> QED
    BY <1>0, <1>1, <2>2
<1>8. CASE CheckGo(p)
  BY <1>0, <1>8, ToGoIs DEF CheckGo, Goes
<1>9. CASE Build(p)
  BY <1>0, <1>9, ToGoIs DEF Build, CommandFails, Differs, Reproduces, Goes
<1>10. CASE TarFails(p) \/ CurlBlocks(p)
  <2>1. pc[p] = "curl" /\ pc'[p] \in {"idle", "hangs"} /\ tar[p] = "dead"
    BY <1>0, <1>10 DEF TarFails, CurlBlocks, Goes
  <2>2. ToGo(pc[p], tar[p], tdir[v]) = 4 + 0 + ToCome(tdir[v]) /\ ToGo(pc'[p], tar'[p], tdir'[v]) = 0
    BY <2>1, ToGoIs
  <2> QED
    BY <1>0, <1>1, <2>2
<1>11. CASE Return(p)
  BY <1>0, <1>11, ToGoIs DEF Return, Goes
<1> QED
  BY <1>2, <1>3, <1>4, <1>5, <1>6, <1>7, <1>8, <1>9, <1>10, <1>11 DEF Progress

\* Whoever takes a step, the directory of no version comes to miss more.
LEMMA DirsGrow ==
  ASSUME IInv, Next, NEW v \in Versions
  PROVE  ToCome(tdir'[v]) <= ToCome(tdir[v]) /\ tdir'[v] \in Dirs
<1>0. tdir \in [Versions -> Dirs] /\ ToCome(tdir[v]) \in 0 .. 3 /\ tdir[v] \in Dirs
  BY ToComeLess DEF IInv, TypeOK
<1>1. ASSUME NEW q \in Procs, Mkdir(q) PROVE tdir'[v] \in {tdir[v], "empty"} /\ (tdir'[v] # tdir[v] => tdir[v] = "absent")
  BY <1>0, <1>1 DEF Mkdir
<1>2. tdir'[v] \in {tdir[v], Grown(tdir[v]), "empty"} /\ (tdir'[v] = "empty" => tdir[v] \in {"absent", "empty"})
  BY <1>0, <1>1
     DEF Next, Progress, Verify, Switch, TarStarts, TarEnters, Extract, Installed, TarDies, TarFails,
         CurlBlocks, CheckGo, Build, Return, DownloadFails, Kill, OrphanTar, Grown
<1>3. ToCome("absent") = 3 /\ ToCome("empty") = 3
  BY DEF ToCome
<1>4. Grown(tdir[v]) \in Dirs /\ "empty" \in Dirs
  BY DEF Grown, Dirs
<1> QED
  BY <1>0, <1>2, <1>3, <1>4, ToComeLess

\* What another process does leaves a process where it is; its own tar may die.
LEMMA OthersLeave ==
  ASSUME IInv, Next, NEW p \in Procs, pc[p] # "idle", ~Progress(p), pc'[p] # "idle"
  PROVE  pc'[p] = pc[p] /\ tar'[p] \in {tar[p], "dead"} /\ leaf'[p] = leaf[p]
<1>0. pc \in [Procs -> Pcs] /\ tar \in [Procs -> Tars] /\ leaf \in [Procs -> Leaves]
  BY DEF IInv, TypeOK
<1>1. ASSUME NEW q \in Procs, NEW l \in Leaves, Verify(q, l)
      PROVE  pc'[p] = pc[p] /\ tar'[p] = tar[p] /\ leaf'[p] = leaf[p]
  BY <1>0, <1>1 DEF Verify, Goes
<1>2. ASSUME NEW q \in Procs, Progress(q)
      PROVE  pc'[p] = pc[p] /\ tar'[p] = tar[p] /\ leaf'[p] = leaf[p]
  <2>1. p # q
    BY <1>2
  <2> QED
    BY <1>0, <1>2, <2>1
       DEF Progress, Switch, TarStarts, TarEnters, Mkdir, Extract, Installed, TarFails, CurlBlocks, CheckGo,
           Build, CommandFails, Differs, Reproduces, Return, Goes
<1>3. ASSUME NEW q \in Procs, DownloadFails(q) \/ Kill(q)
      PROVE  pc'[p] = pc[p] /\ tar'[p] = tar[p] /\ leaf'[p] = leaf[p]
  BY <1>0, <1>3 DEF DownloadFails, Kill, Goes
<1>4. ASSUME NEW v \in Versions, OrphanTar(v)
      PROVE  pc'[p] = pc[p] /\ tar'[p] = tar[p] /\ leaf'[p] = leaf[p]
  BY <1>4 DEF OrphanTar
<1>5. ASSUME NEW q \in Procs, TarDies(q)
      PROVE  pc'[p] = pc[p] /\ tar'[p] \in {tar[p], "dead"} /\ leaf'[p] = leaf[p]
  BY <1>0, <1>5 DEF TarDies
<1> QED
  BY <1>1, <1>2, <1>3, <1>4, <1>5 DEF Next

\* A Verify takes eleven steps of its own at most, for any number of processes,
\* versions and leaves, and no step of another adds to them: the directories that
\* processes share only fill up, whoever is killed or loses the race for one.
THEOREM NobodySetBack == Spec => NeverSetBack
<1>1. ASSUME IInv, IInv', Next, NEW p \in Procs, pc[p] # "idle"
      PROVE  Left(p)' \in 0 .. Left(p) /\ (Progress(p) => Left(p)' # Left(p))
  <2> DEFINE v == VersionOf[leaf[p]]
             now == ToGo(pc[p], tar[p], tdir[v])
             then == ToGo(pc'[p], tar'[p], tdir'[VersionOf[leaf'[p]]])
  <2>1. pc[p] \in Pcs /\ pc'[p] \in Pcs /\ v \in Versions
    BY <1>1, BuildAssumption DEF IInv, TypeOK
  <2>2. now \in 0 .. 11 /\ then \in 0 .. 11
    BY <1>1, <2>1, ToGoType
  <2>3. Progress(p) => then < now
    BY <1>1, ProgressNearer
  <2>4. CASE pc'[p] = "idle"
    <3>1. then = 0
      BY <2>4, ToGoIs
    <3> HIDE DEF now, then
    <3>2. then \in 0 .. now /\ (Progress(p) => then # now)
      BY <2>2, <2>3, <3>1
    <3> QED
      BY <3>2, LeftIs DEF now, then
  <2>5. CASE ~Progress(p) /\ pc'[p] # "idle"
    <3>1. pc'[p] = pc[p] /\ tar'[p] \in {tar[p], "dead"} /\ leaf'[p] = leaf[p]
      BY <1>1, <2>5, OthersLeave
    <3>2. ToCome(tdir'[v]) <= ToCome(tdir[v]) /\ ToCome(tdir'[v]) \in 0 .. 3 /\ ToCome(tdir[v]) \in 0 .. 3
      BY <1>1, <2>1, DirsGrow DEF ToCome
    <3>3. then <= now
      <4>1. CASE pc[p] = "curl"
        <5>1. /\ now = 4 + (IF tar[p] = "started" THEN 1 ELSE 0) + ToCome(tdir[v])
              /\ then \in {4 + (IF tar[p] = "started" THEN 1 ELSE 0) + ToCome(tdir'[v]), 4 + 0 + ToCome(tdir'[v])}
          BY <3>1, <4>1, ToGoIs
        <5> QED
          BY <3>2, <5>1
      <4>2. CASE pc[p] # "curl"
        BY <2>1, <2>2, <3>1, <4>2, ToGoIs DEF Pcs
      <4> QED
        BY <4>1, <4>2
    <3> HIDE DEF now, then
    <3>4. then \in 0 .. now
      BY <2>2, <3>3
    <3> QED
      BY <2>5, <3>4, LeftIs DEF now, then
  <2>6. CASE Progress(p)
    <3> HIDE DEF now, then
    <3>1. then \in 0 .. now /\ then # now
      BY <2>2, <2>3, <2>6
    <3> QED
      BY <3>1, LeftIs DEF now, then
  <2> QED
    BY <2>4, <2>5, <2>6
<1>2. IInv /\ IInv' /\ [Next]_vars
        => [\A p \in Procs : pc[p] # "idle" =>
              /\ Left(p)' \in 0 .. Left(p)
              /\ Progress(p) => Left(p)' # Left(p)]_vars
  BY <1>1
<1>3. IInv /\ [Next]_vars => IInv'
  BY TypeStep, WriterStep DEF IInv
<1> QED
  BY <1>2, <1>3, InitOK, PTL DEF Spec, NeverSetBack
=============================================================================
