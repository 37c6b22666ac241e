------------------------------ MODULE Monitor -------------------------------
(***************************************************************************)
(* The `verify_build continuous` process (cmd/verify_build/cmd/            *)
(* continuous.go): it follows the firmware log, verifies every leaf below  *)
(* a checkpoint, and keeps that checkpoint in a state file so that a       *)
(* restart does not start over.  The log and the log state tracker of the  *)
(* serverless-log client are modelled from how this code uses them.        *)
(*                                                                         *)
(* A checkpoint is its size: the tracker proves every new checkpoint       *)
(* consistent with the one it holds, so equal sizes mean equal trees.      *)
(***************************************************************************)
EXTENDS Naturals, FiniteSets

CONSTANTS
  StartIndex,  \* the --start_index flag
  InitSize,    \* the size of the log when the monitor is first started
  MaxSize,     \* bound: the log stops growing here
  Breakable,   \* leaves for which Verify may return an error on every attempt
  TornWrites   \* TRUE: os.WriteFile may be cut short after its truncation

ASSUME MonitorAssumption ==
  /\ StartIndex \in Nat
  /\ InitSize \in Nat
  /\ MaxSize \in Nat
  /\ InitSize <= MaxSize
  /\ Breakable \subseteq Nat
  /\ TornWrites \in BOOLEAN

VARIABLES
  published,  \* sizes of the checkpoints the log has published; any of them
              \* may still be served to a fetch (caches, slow replicas)
  broken,     \* leaves that are never built: their commit is gone, say
  file,       \* the state file
  pc,         \* where the process is
  st,         \* continuous(): the size in its LogStateTracker `st`
  monSt,      \* the size in Monitor.st, the copy made of `st` at start
  i,          \* From(): the leaf index of the loop
  resErr,     \* From(): resErr # nil
  checked,    \* history: leaves whose build was decided (matching or not)
  forgot      \* history: a process has started from an empty state file

log  == <<published, broken>>
hist == <<checked, forgot>>
vars == <<published, broken, file, pc, st, monSt, i, resErr, checked, forgot>>
procVars == <<st, monSt, i, resErr>>

\* The contents of the state file.  "torn" is a prefix of a checkpoint.
NoFile        == [kind |-> "missing", size |-> 0]
EmptyFile     == [kind |-> "empty", size |-> 0]
TornFile      == [kind |-> "torn", size |-> 0]
Checkpoint(n) == [kind |-> "checkpoint", size |-> n]

Kinds == {"missing", "empty", "torn", "checkpoint"}
Pcs   == {"down", "from", "truncated", "poll"}

TypeOK ==
  /\ published \subseteq 0 .. MaxSize
  /\ broken \subseteq Breakable
  /\ file \in [kind : Kinds, size : Nat]
  /\ pc \in Pcs
  /\ st \in Nat /\ monSt \in Nat /\ i \in Nat
  /\ resErr \in BOOLEAN
  /\ checked \subseteq Nat
  /\ forgot \in BOOLEAN

Init ==
  /\ published = {InitSize}
  /\ broken \in SUBSET Breakable
  /\ file = NoFile
  /\ pc = "down"
  /\ st = 0 /\ monSt = 0 /\ i = 0
  /\ resErr = FALSE
  /\ checked = {}
  /\ forgot = FALSE

-----------------------------------------------------------------------------
(* The log. *)

Publish ==
  /\ \E n \in 0 .. MaxSize : /\ \A m \in published : m < n
                             /\ published' = published \cup {n}
  /\ UNCHANGED <<broken, file, pc, procVars, hist>>

(* LogStateTracker.Update: a fetched checkpoint that is not larger than a   *)
(* non-empty one already held changes nothing.                             *)
Tracked(held, fetched) ==
  IF held > 0 /\ fetched <= held THEN held ELSE fetched

-----------------------------------------------------------------------------
(* Start of the process: stateTrackerFromFlags, the Monitor literal and     *)
(* the catch-up call of From.                                               *)

\* The value copy of the tracker that the Monitor literal stores.
CopyTracker(size) == monSt' = size

\* Mutant of EnterFrom: the loop starts one leaf late.
EnterFromLate(start) == /\ pc' = "from"
                        /\ i' = start + 1
                        /\ resErr' = FALSE

\* Mutant of EnterFrom: the range is taken as (start - 1, size].
EnterFromEarly(start) == /\ pc' = "from"
                         /\ i' = start - 1
                         /\ resErr' = FALSE

\* From(start) begins: the loop runs over start .. monSt - 1.
EnterFrom(start) == /\ pc' = "from"
                    /\ i' = start
                    /\ resErr' = FALSE

\* os.ReadFile found no file: the tracker is initialised from the log, and
\* the backlog is verified from StartIndex before anything else.
StartNew ==
  /\ pc = "down"
  /\ file.kind = "missing"
  /\ \E c \in published : st' = c /\ CopyTracker(c)
  /\ EnterFrom(StartIndex)
  /\ UNCHANGED <<log, file, hist>>

\* A state file exists.  One with a checkpoint initialises the tracker; an
\* empty one makes NewLogStateTracker fetch the checkpoint from the log.
\* Either way `state == nil` is false and there is no catch-up.
StartKnown ==
  /\ pc = "down"
  /\ \/ file.kind = "checkpoint" /\ st' = file.size /\ CopyTracker(file.size)
     \/ /\ file.kind = "empty"
        /\ \E c \in published : st' = c /\ CopyTracker(c)
  /\ pc' = "poll"
  /\ i' = 0
  /\ resErr' = FALSE
  /\ forgot' = (forgot \/ file.kind = "empty")
  /\ UNCHANGED <<log, file, checked>>

\* The file does not parse, or the log cannot be reached: klog.Exit.
StartFails ==
  /\ pc = "down"
  /\ UNCHANGED vars

-----------------------------------------------------------------------------
(* From: the loop over the leaves, then the state file.                    *)

\* Verify decided the leaf: reproducible, or not (which is only logged).
\* Only the nil error matters to what follows.
LeafVerified ==
  /\ pc = "from"
  /\ i < monSt
  /\ i \notin broken
  /\ checked' = checked \cup {i}
  /\ i' = i + 1
  /\ UNCHANGED <<log, file, pc, st, monSt, resErr, forgot>>

\* Mutant of LeafErrs: an error ends the loop at once.
LeafErrsReturns ==
  /\ pc = "from"
  /\ i < monSt
  /\ pc' = "down"
  /\ UNCHANGED <<log, file, procVars, hist>>

\* Verify failed (a clone, a compiler, a signature): the error is kept and
\* the loop goes on to the next leaf.
LeafErrs ==
  /\ pc = "from"
  /\ i < monSt
  /\ i' = i + 1
  /\ resErr' = TRUE
  /\ UNCHANGED <<log, file, pc, st, monSt, hist>>

\* The proof builder, the leaf or its inclusion proof could not be fetched
\* or verified: From returns at once and the caller exits.
FetchFails ==
  /\ pc = "from"
  /\ pc' = "down"
  /\ UNCHANGED <<log, file, procVars, hist>>

\* Mutant of FromEnds: the remembered error is forgotten.
FromEndsIgnoringErrors ==
  /\ pc = "from"
  /\ i >= monSt
  /\ pc' = "truncated"
  /\ file' = EmptyFile
  /\ UNCHANGED <<log, procVars, hist>>

\* After the loop: return resErr, or enter os.WriteFile, which truncates.
FromEnds ==
  /\ pc = "from"
  /\ i >= monSt
  /\ IF resErr
     THEN pc' = "down" /\ UNCHANGED file
     ELSE pc' = "truncated" /\ file' = EmptyFile
  /\ UNCHANGED <<log, procVars, hist>>

\* Mutant of Persisted: the checkpoint of the polling loop's tracker.
PersistedLive == Checkpoint(st)

\* What From writes: m.st.LatestConsistentRaw.
Persisted == Checkpoint(monSt)

WriteState ==
  /\ pc = "truncated"
  /\ file' = Persisted
  /\ pc' = "poll"
  /\ UNCHANGED <<log, procVars, hist>>

\* The write fails half-way (disk full): From returns the error.
WriteFails ==
  /\ TornWrites
  /\ pc = "truncated"
  /\ file' \in {EmptyFile, TornFile}
  /\ pc' = "down"
  /\ UNCHANGED <<log, procVars, hist>>

-----------------------------------------------------------------------------
(* The polling loop of continuous().                                       *)

PollNothingNew ==
  /\ pc = "poll"
  /\ \E c \in published : st' = Tracked(st, c)
  /\ st' = st
  /\ UNCHANGED <<log, file, pc, monSt, i, resErr, hist>>

\* `st` has grown: monitor.From(lastHead), which reads Monitor.st.
PollNew ==
  /\ pc = "poll"
  /\ \E c \in published : st' = Tracked(st, c)
  /\ st' > st
  /\ EnterFrom(st)
  /\ UNCHANGED <<log, file, monSt, hist>>

\* st.Update returned an error: klog.Exit.
PollFails ==
  /\ pc = "poll"
  /\ pc' = "down"
  /\ UNCHANGED <<log, file, procVars, hist>>

\* The process is killed, at any point; the next Start restarts it.
Crash ==
  /\ pc # "down"
  /\ pc = "truncated" => TornWrites
  /\ pc' = "down"
  /\ UNCHANGED <<log, file, procVars, hist>>

Start == StartNew \/ StartKnown \/ StartFails
From == LeafVerified \/ LeafErrs \/ FetchFails \/ FromEnds \/ WriteState \/ WriteFails
Poll == PollNothingNew \/ PollNew \/ PollFails

Next == Publish \/ Start \/ From \/ Poll \/ Crash

Spec == Init /\ [][Next]_vars

(* Fairness: the process is restarted when it is down; and a step that a    *)
(* crash or a failed fetch can pre-empt is not pre-empted for ever.        *)
AtLeaf(k) == pc = "from" /\ i = k

Fairness ==
  /\ WF_vars(StartNew) /\ WF_vars(StartKnown)
  /\ \A k \in 0 .. MaxSize - 1 : /\ SF_vars(AtLeaf(k) /\ LeafVerified)
                                 /\ SF_vars(AtLeaf(k) /\ k \in broken /\ LeafErrs)
  /\ SF_vars(FromEnds) /\ SF_vars(WriteState)

FairSpec == Spec /\ Fairness

-----------------------------------------------------------------------------
(* Properties.                                                             *)

\* Every leaf the operator asked for below n has been decided.
Covered(n) == \A k \in StartIndex .. n - 1 : k \in checked

\* A checkpoint in the state file is a claim that survives restarts: every
\* leaf below it has been decided, through failed builds, failed fetches and
\* crashes (continuous.go From: "Upon reaching the end of the leaves, the
\* checkpoint is persisted in the state file").
PersistedCovered == file.kind = "checkpoint" => Covered(file.size)

\* When the write of the state file can be cut short, there is one way only to
\* persist a checkpoint above an undecided leaf: a process started from an
\* empty state file, which it takes for a checkpoint it has seen before
\* (continuous.go: `state == nil` is false for an empty file).
LostOnlyByEmptyFile == PersistedCovered \/ forgot

\* Whenever the process is polling it has no backlog: every leaf below the
\* checkpoint of its tracker has been decided (continuous.go, above the
\* loop: "We've processed all leaves committed to by the tracker's
\* checkpoint, and now we enter polling mode").
NoBacklogWhilePolling == pc = "poll" => Covered(st)

\* A leaf that can be built is decided in the end if the log already held it
\* when the monitor was first started: neither a leaf whose build always
\* fails nor repeated restarts keep the loop from reaching it.
InitialBacklogChecked ==
  <>(\A k \in (StartIndex .. InitSize - 1) \ broken : k \in checked)

(* The frontier of MonitorPromise.  It moves when From has nothing left to *)
(* verify, at the truncation, so that the two steps of WriteFile are one.   *)
frontier == IF file.kind = "checkpoint" THEN file.size
            ELSE IF pc = "truncated" THEN monSt ELSE 0

Promise == INSTANCE MonitorPromise

\* The monitor implements its promise when WriteFile is not cut short.
KeepsPromise == Promise!PSpec
=============================================================================
