------------------------------- MODULE SdpBoot --------------------------------
(***************************************************************************)
(* One call of device.BootIntoRecovery on a board in serial download mode  *)
(* (internal/device/recovery.go, sdp.go): watch for block devices, send    *)
(* the recovery image over HID, jump into it, and wait for the block       *)
(* device it presents.  The boot ROM, the USB stack and the file watcher   *)
(* are modelled from how this code uses them.                              *)
(***************************************************************************)
EXTENDS Naturals, Sequences

CONSTANTS
  Chunks,    \* number of data reports the image is sent in
  Noise,     \* bound: unrelated file events
  Chatter,   \* bound: unrelated reports from the board
  Faults,    \* TRUE: writes are refused, answers late or lost, file events lost,
             \* and the board may fall silent
  Darwin     \* runtime.GOOS is darwin: writes may meet contention

ASSUME BootAssumption ==
  /\ Chunks \in Nat \ {0}
  /\ Noise \in Nat /\ Chatter \in Nat
  /\ Faults \in BOOLEAN /\ Darwin \in BOOLEAN

VARIABLES
  pc,       \* where the process is
  i,        \* fileWrite(): the chunk in hand
  err,      \* what the last write to the board returned
  board,    \* what the board does
  dest,     \* the chunk of the image the ROM's write position is at, 0 if none
  mem,      \* chunks that are in their place in the board's memory
  replies,  \* reports from the board not yet read
  chatter,  \* unrelated reports still to come
  watched,  \* events the watcher has not delivered yet; <<>> before it is set up
  noise,    \* unrelated file events still to come
  usable,   \* the block device can be opened and read
  lost      \* history: the started board, its event or its last report was lost

procVars  == <<pc, i, err>>
romVars   == <<board, dest, mem, replies, chatter>>
watchVars == <<watched, noise, usable, lost>>
vars == <<procVars, romVars, watchVars>>

\* "dcd?" and "file?" wait for the report that ends the command.
Pcs    == {"watch", "open", "dcd", "dcd?", "file", "chunk", "error", "file?", "jump", "sleep",
           "monitor", "probe", "found", "failed"}
Boards == {"sdp", "booting", "ums", "hung", "off"}
Last   == 4   \* D2H_RESPONSE_LAST
Status == 3   \* D2H_RESPONSE

\* The error of the HID library on contention, and what sendHIDReport makes of
\* it: an error with a text of its own around it.
General     == "hid: general error"
Wrapped(e)  == "failed to send HID report to device: " \o e
Errors      == {"", Wrapped(General), Wrapped("gone")}

\* None of these is what the workaround for macOS looks for.
ASSUME ErrorAssumption == General \notin Errors

TypeOK ==
  /\ pc \in Pcs
  /\ i \in 1 .. Chunks
  /\ err \in Errors
  /\ board \in Boards
  /\ dest \in 0 .. Chunks + 1
  /\ mem \subseteq 1 .. Chunks
  /\ replies \in Seq({Status, Last})
  /\ chatter \in 0 .. Chatter
  /\ watched \in Seq({"block", "other"})
  /\ noise \in 0 .. Noise
  /\ usable \in BOOLEAN /\ lost \in BOOLEAN

Init ==
  /\ pc = "watch" /\ i = 1 /\ err = ""
  /\ board = "sdp" /\ dest = 0 /\ mem = {} /\ replies = <<>> /\ chatter = Chatter
  /\ watched = <<>> /\ noise = Noise /\ usable = FALSE /\ lost = FALSE

-----------------------------------------------------------------------------
(* The environment. *)

\* Mutant: /dev is watched once the image has been sent.
WatchingLate == pc \in {"monitor", "probe", "found"}

\* The watcher is added before f() boots the board.
Watching == pc # "watch"

\* Something else appears in /dev.
OtherEvent ==
  /\ noise > 0
  /\ noise' = noise - 1
  /\ watched' = IF Watching THEN Append(watched, "other") ELSE watched
  /\ UNCHANGED <<procVars, romVars, usable, lost>>

\* The started image presents its block device.
BlockDevice ==
  /\ board = "booting"
  /\ board' = "ums"
  /\ watched' = IF Watching THEN Append(watched, "block") ELSE watched
  /\ UNCHANGED <<procVars, dest, mem, replies, chatter, noise, usable, lost>>

\* It takes a while for the device to become usable.
Settles ==
  /\ board = "ums" /\ ~usable
  /\ usable' = TRUE
  /\ UNCHANGED <<procVars, romVars, watched, noise, lost>>

\* The started board does not come up, or is unplugged.
GoesOff ==
  /\ Faults
  /\ board \in {"booting", "ums"}
  /\ board' = "off" /\ usable' = FALSE /\ lost' = TRUE
  /\ UNCHANGED <<procVars, dest, mem, replies, chatter, watched, noise>>

\* The watcher drops an event: it says so in watcher.Errors, which nobody reads.
LoseEvent ==
  /\ Faults
  /\ watched # <<>>
  /\ watched' = Tail(watched)
  /\ lost' = (lost \/ Head(watched) = "block")
  /\ UNCHANGED <<procVars, romVars, noise, usable>>

Chatters ==
  /\ chatter > 0 /\ board = "sdp" /\ pc \in {"dcd?", "file?"}
  /\ chatter' = chatter - 1
  /\ replies' = Append(replies, Status)
  /\ UNCHANGED <<procVars, board, dest, mem, watchVars>>

\* A report of the board gets lost.
LoseReply ==
  /\ Faults
  /\ replies # <<>>
  /\ replies' = Tail(replies)
  /\ lost' = (lost \/ Head(replies) = Last)
  /\ UNCHANGED <<procVars, board, dest, mem, chatter, watched, noise, usable>>

\* The ROM carries out the reports it receives, one after the other.
RomWritesChunk ==
  /\ mem' = IF dest = i THEN mem \cup {i} ELSE mem
  /\ dest' = IF dest \in 1 .. Chunks THEN dest + 1 ELSE dest
  /\ replies' = IF dest = Chunks THEN replies \o <<Status, Last>> ELSE replies
  /\ UNCHANGED <<board, chatter>>

RomJumps ==
  /\ board' = IF mem = 1 .. Chunks THEN "booting" ELSE "hung"
  /\ UNCHANGED <<dest, mem, replies, chatter>>

-----------------------------------------------------------------------------
(* waitForBlockDevice, up to its call of BootIMX. *)

AddWatch ==
  /\ pc = "watch"
  /\ pc' \in IF Faults THEN {"open", "failed"} ELSE {"open"}
  /\ UNCHANGED <<i, err, romVars, watchVars>>

-----------------------------------------------------------------------------
(* BootIMX. *)

\* A write is refused because of contention or because the board is gone;
\* sendHIDReport returns its own error around the library's.
Refused(to) ==
  /\ \/ Darwin /\ err' = Wrapped(General)
     \/ Faults /\ err' = Wrapped("gone")
  /\ pc' = to

Open ==
  /\ pc = "open"
  /\ pc' \in IF Faults THEN {"dcd", "failed"} ELSE {"dcd"}
  /\ UNCHANGED <<i, err, romVars, watchVars>>

DcdWrite ==
  /\ pc = "dcd"
  /\ \/ /\ pc' = "dcd?" /\ replies' = replies \o <<Status, Last>>
        /\ UNCHANGED err
     \/ Refused("failed") /\ UNCHANGED replies
  /\ UNCHANGED <<i, board, dest, mem, chatter, watchVars>>

\* sendHIDReport: reports other than the one waited for are skipped.
Answered ==
  /\ pc \in {"dcd?", "file?"}
  /\ replies # <<>>
  /\ replies' = Tail(replies)
  /\ pc' = IF Head(replies) # Last THEN pc ELSE IF pc = "dcd?" THEN "file" ELSE "jump"
  /\ UNCHANGED <<i, err, board, dest, mem, chatter, watchVars>>

\* The answer does not come in time, or the report cannot be read.
AnswerFails ==
  /\ Faults
  /\ pc \in {"dcd?", "file?"}
  /\ pc' = "failed"
  /\ UNCHANGED <<i, err, romVars, watchVars>>

\* The WriteFile command, to the start of the image.
FileWrite ==
  /\ pc = "file"
  /\ \/ pc' = "chunk" /\ i' = 1 /\ dest' = 1 /\ UNCHANGED err
     \/ Refused("failed") /\ UNCHANGED <<i, dest>>
  /\ UNCHANGED <<board, mem, replies, chatter, watchVars>>

\* Mutant: the last chunk is taken for sent one chunk too soon.
AfterChunkEarly == IF i >= Chunks - 1 THEN pc' = "jump" /\ UNCHANGED i
                   ELSE pc' = "chunk" /\ i' = i + 1

\* Mutant: the loop does not stop at the last chunk.
AfterChunkLate == IF i > Chunks THEN pc' = "file?" /\ UNCHANGED i
                  ELSE pc' = "chunk" /\ i' = i + 1

\* Only the last chunk is waited for.
AfterChunk == IF i = Chunks THEN pc' = "file?" /\ UNCHANGED i
              ELSE pc' = "chunk" /\ i' = i + 1

\* A data report.  The ROM may have received one whose write failed.
SendChunk ==
  /\ pc = "chunk"
  /\ \/ RomWritesChunk /\ AfterChunk /\ UNCHANGED err
     \/ Refused("error") /\ (UNCHANGED romVars \/ RomWritesChunk) /\ UNCHANGED i
  /\ UNCHANGED watchVars

\* Mutant: the retry does not look at the error.
ChunkErrorAlways ==
  /\ pc = "error"
  /\ IF Darwin
     THEN pc' = "chunk" /\ dest' = i
     ELSE pc' = "failed" /\ UNCHANGED dest
  /\ UNCHANGED <<i, err, board, mem, replies, chatter, watchVars>>

\* The workaround for macOS compares the text of the error, and repeats the
\* WriteFile command from the chunk that was not sent.
ChunkError ==
  /\ pc = "error"
  /\ IF Darwin /\ err = General
     THEN pc' = "chunk" /\ dest' = i
     ELSE pc' = "failed" /\ UNCHANGED dest
  /\ UNCHANGED <<i, err, board, mem, replies, chatter, watchVars>>

\* The ROM may have received a jump whose write failed.
Jump ==
  /\ pc = "jump"
  /\ \/ pc' = "sleep" /\ RomJumps /\ UNCHANGED err
     \/ Refused("failed") /\ (UNCHANGED romVars \/ RomJumps)
  /\ UNCHANGED <<i, watchVars>>

\* The image starts while the call sleeps for a second.
Wakes ==
  /\ pc = "sleep" /\ pc' = "monitor"
  /\ UNCHANGED <<i, err, romVars, watchVars>>

-----------------------------------------------------------------------------
(* The rest of waitForBlockDevice, and probeDevice. *)

Event ==
  /\ pc = "monitor"
  /\ watched # <<>>
  /\ watched' = Tail(watched)
  /\ pc' = IF Head(watched) = "block" THEN "probe" ELSE pc
  /\ UNCHANGED <<i, err, romVars, noise, usable, lost>>

\* Mutant: the error of the first try is not looked at.
ProbeOnce ==
  /\ pc = "probe"
  /\ pc' = "found"
  /\ UNCHANGED <<i, err, romVars, watchVars>>

Probe ==
  /\ pc = "probe" /\ usable
  /\ pc' = "found"
  /\ UNCHANGED <<i, err, romVars, watchVars>>

Env  == OtherEvent \/ Chatters \/ LoseReply \/ LoseEvent \/ GoesOff
Rom  == BlockDevice \/ Settles
Boot == Open \/ DcdWrite \/ Answered \/ AnswerFails \/ FileWrite \/ SendChunk \/ ChunkError \/ Jump \/ Wakes
Wait == AddWatch \/ Event \/ Probe

Next == Env \/ Rom \/ Boot \/ Wait

Spec == Init /\ [][Next]_vars

\* The board goes on with what it has started, and the process with what it
\* can do.
FairSpec == Spec /\ WF_vars(Rom) /\ WF_vars(Boot) /\ WF_vars(Wait)

-----------------------------------------------------------------------------
(* Properties. *)

\* The board is told to jump only when the whole image is in its memory,
\* whatever reports were refused, lost or answered by something else
\* (BootIMX): it never runs half an image.
RunsWholeImage == board # "hung"

\* A call ends, with an error or with the block device the board presents, which
\* can be read by then: also when reports are refused, late or lost, when the
\* device appears before its events are read, and when other events and reports
\* come in between ("Returns the HID device and detected block device path, or
\* an error").  The one exception is a board, or the event of it, that is lost
\* after the jump: the loops of waitForBlockDevice and probeDevice have no
\* timeout, and the call waits until the tool is interrupted.
Returns ==
  <>(\/ pc = "failed"
     \/ pc = "found" /\ board = "ums" /\ usable
     \/ pc \in {"monitor", "probe"} /\ lost)

Among(x, s) == \E k \in 1 .. Len(s) : s[k] = x

\* Whatever the order of reports and events, what the call waits for is still to
\* come unless it was lost on the way: while it sleeps or reads file events the
\* board is about to present its block device or the event is among those not
\* yet read, a device it probes is one that will settle, and the report that ends
\* a command is among those not yet read.
NeverWaitsInVain ==
  \/ lost
  \/ /\ pc \in {"sleep", "monitor"} => board = "booting" \/ Among("block", watched)
     /\ pc = "probe" => board = "ums"
     /\ pc \in {"dcd?", "file?"} => Among(Last, replies)

\* How far the process is from its end, and the world from quiet: each chunk
\* and each command counts for the reports it may add.
ToGo(p, k) ==
  CASE p \in {"found", "failed"} -> 0
    [] p = "probe"   -> 1
    [] p = "monitor" -> 2
    [] p = "sleep"   -> 3
    [] p = "jump"    -> 4
    [] p \in {"file?", "error"} -> 5
    [] p = "chunk"   -> 9 + 3 * (Chunks - k)
    [] p = "file"    -> 7 + 3 * Chunks
    [] p = "dcd?"    -> 8 + 3 * Chunks
    [] p = "dcd"     -> 11 + 3 * Chunks
    [] p = "open"    -> 12 + 3 * Chunks
    [] p = "watch"   -> 13 + 3 * Chunks

Queued == 2 * noise + 2 * chatter + Len(watched) + Len(replies)
Rest   == CASE board \in {"sdp", "booting"} -> 4
            [] board = "ums"  -> IF usable THEN 1 ELSE 2
            [] OTHER          -> 0

Left == ToGo(pc, i) + Queued + Rest

\* Every step of the process, the board and the world around them brings the
\* call nearer to its end, whatever is refused, lost or late: no loop, retry or
\* unrelated report or event keeps it going for ever.
EndsInTime == [][Left' \in Nat /\ Left' < Left]_vars

\* What the callers of BootIntoRecovery rely on.
Promise == INSTANCE RecoveryPromise WITH
  call <- IF pc \in {"found", "failed"} THEN pc ELSE "waiting",
  readable <- usable

\* A call starts the board at most once and not after it has returned, and the
\* block device it returns is the one of the started board and can be read
\* ("waits for the witness device file to appear to be working").
KeepsPromise == Promise!RSpec

\* "On macOS access contention with the OS causes errors, as a workaround we
\* retry from the transfer that got caught up": contention does not fail a boot.
ContentionRetried == [][pc = "error" /\ err = Wrapped(General) => pc' # "failed"]_vars
=============================================================================
