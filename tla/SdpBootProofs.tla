----------------------------- MODULE SdpBootProofs ----------------------------
(***************************************************************************)
(* A board is never told to run half an image, for any number of chunks,   *)
(* of unrelated events and of reports, with and without faults and on      *)
(* either operating system; a call keeps its promise, never waits for what *)
(* will not come, and every step brings it nearer to its end.              *)
(***************************************************************************)
EXTENDS SdpBoot, SequenceTheorems, TLAPS

\* Chunks below the one in hand are in memory, the write position of the ROM is
\* at the one in hand, and all of them are there once the last was accepted.
Loaded ==
  /\ pc \in {"chunk", "error"} => \A k \in 1 .. Chunks : k < i => k \in mem
  /\ pc = "chunk" => dest = i
  /\ pc \in {"file?", "jump"} => mem = 1 .. Chunks

IInv == TypeOK /\ Loaded /\ RunsWholeImage

LEMMA Bounds == Chunks \in Nat \ {0} /\ Noise \in Nat /\ Chatter \in Nat
  BY BootAssumption, Zenon DEF BootAssumption

\* The initial states satisfy the inductive invariant.
LEMMA InitOK == Init => IInv
<1> SUFFICES ASSUME Init PROVE IInv
  OBVIOUS
<1>1. usable \in BOOLEAN /\ lost \in BOOLEAN
  BY Zenon DEF Init
<1>2. err \in Errors
  BY Zenon DEF Init, Errors
<1>3. /\ pc = "watch" /\ i \in 1 .. Chunks /\ board = "sdp"
      /\ dest \in 0 .. Chunks + 1 /\ chatter \in 0 .. Chatter /\ noise \in 0 .. Noise
  <2>1. /\ pc = "watch" /\ i = 1 /\ board = "sdp" /\ dest = 0 /\ chatter = Chatter
        /\ noise = Noise
    BY Zenon DEF Init
  <2> QED
    BY <2>1, Bounds
<1>4. mem = {} /\ replies = <<>> /\ watched = <<>>
  BY DEF Init
<1>5. TypeOK
  BY <1>1, <1>2, <1>3, <1>4 DEF TypeOK, Pcs, Boards
<1> QED
  BY <1>3, <1>5 DEF IInv, Loaded, RunsWholeImage

\* A refused write leaves one of the errors.
LEMMA RefusedOK == ASSUME NEW to, Refused(to) PROVE pc' = to /\ err' \in Errors
  BY Zenon DEF Refused, Errors

\* The environment leaves the process and the memory of the board alone.
LEMMA EnvStep == IInv /\ (Env \/ Rom) => IInv'
<1> SUFFICES ASSUME IInv, Env \/ Rom PROVE IInv'
  OBVIOUS
<1> USE Bounds DEF IInv, TypeOK, Loaded, RunsWholeImage, Boards,
        procVars, romVars, watchVars, Status, Last
<1>1. CASE OtherEvent
  BY <1>1 DEF OtherEvent
<1>2. CASE Chatters
  BY <1>2 DEF Chatters
<1>3. CASE LoseReply
  BY <1>3 DEF LoseReply
<1>4. CASE BlockDevice
  BY <1>4 DEF BlockDevice
<1>5. CASE Settles
  BY <1>5 DEF Settles
<1>6. CASE GoesOff
  BY <1>6 DEF GoesOff
<1>7. CASE LoseEvent
  BY <1>7 DEF LoseEvent
<1> QED
  BY <1>1, <1>2, <1>3, <1>4, <1>5, <1>6, <1>7 DEF Env, Rom

\* The reports the ROM adds are reports.
LEMMA RomReplies ==
  ASSUME TypeOK, RomWritesChunk
  PROVE  replies' \in Seq({Status, Last}) /\ chatter' = chatter
<1>1. replies \in Seq({Status, Last}) /\ <<Status, Last>> \in Seq({Status, Last})
  BY DEF TypeOK
<1>2. replies \o <<Status, Last>> \in Seq({Status, Last})
  BY <1>1, ConcatProperties, Zenon
<1> QED
  BY <1>1, <1>2, Zenon DEF RomWritesChunk

\* A chunk that was accepted is in its place, for the write position is at it.
LEMMA ChunkStep == IInv /\ SendChunk => IInv'
<1> SUFFICES ASSUME IInv, SendChunk PROVE IInv'
  OBVIOUS
<1> USE Bounds DEF IInv, TypeOK, Loaded, RunsWholeImage,
        romVars, watchVars, Status, Last
<1>1. pc = "chunk" /\ dest = i /\ UNCHANGED watchVars
  BY DEF SendChunk
<1>2. CASE RomWritesChunk /\ AfterChunk /\ UNCHANGED err
  <2>1. mem' = mem \cup {i} /\ board' = board /\ dest' \in 0 .. Chunks + 1
    BY <1>1, <1>2 DEF RomWritesChunk
  <2>2. replies' \in Seq({Status, Last}) /\ chatter' = chatter
    BY <1>2, RomReplies
  <2>3. CASE i = Chunks
    <3>1. mem' = 1 .. Chunks
      <4>1. \A k \in 1 .. Chunks : k \in mem'
        BY <1>1, <2>1, <2>3
      <4>2. mem' \subseteq 1 .. Chunks
        BY <2>1
      <4> QED
        BY <4>1, <4>2
    <3> QED
      BY <1>1, <1>2, <2>1, <2>2, <2>3, <3>1 DEF AfterChunk, Pcs
  <2>4. CASE i # Chunks
    <3>1. pc' = "chunk" /\ i' = i + 1 /\ i' \in 1 .. Chunks /\ dest' = i'
      BY <1>1, <1>2, <2>4 DEF AfterChunk, RomWritesChunk
    <3> QED
      BY <1>1, <1>2, <2>1, <2>2, <3>1 DEF Pcs
  <2> QED
    BY <2>3, <2>4
<1>3. CASE Refused("error") /\ (UNCHANGED romVars \/ RomWritesChunk) /\ UNCHANGED i
  <2>1. pc' = "error" /\ err' \in Errors /\ i' = i
    BY <1>3, RefusedOK
  <2>2. /\ mem \subseteq mem' /\ mem' \subseteq 1 .. Chunks
        /\ board' = board /\ dest' \in 0 .. Chunks + 1
    <3>1. CASE UNCHANGED romVars
      BY <3>1
    <3>2. CASE RomWritesChunk
      BY <1>1, <3>2 DEF RomWritesChunk
    <3> QED
      BY <1>3, <3>1, <3>2
  <2>3. replies' \in Seq({Status, Last}) /\ chatter' = chatter
    BY <1>3, RomReplies
  <2> QED
    BY <1>1, <2>1, <2>2, <2>3 DEF Pcs
<1> QED
  BY <1>2, <1>3 DEF SendChunk

\* The other steps of the process: only FileWrite begins an image, only Answered
\* passes on to the jump, and only Jump starts the board.
LEMMA ProcessStep == IInv /\ (Boot \/ Wait) => IInv'
<1> SUFFICES ASSUME IInv, Boot \/ Wait PROVE IInv'
  OBVIOUS
<1> USE Bounds DEF IInv, TypeOK, Loaded, RunsWholeImage, Pcs,
        romVars, watchVars, Status, Last
<1>1. CASE Open
  BY <1>1 DEF Open
<1>2. CASE DcdWrite
  <2>1. replies' \in Seq({Status, Last})
    <3>1. replies \in Seq({Status, Last}) /\ <<Status, Last>> \in Seq({Status, Last})
      OBVIOUS
    <3>2. replies \o <<Status, Last>> \in Seq({Status, Last})
      BY <3>1, ConcatProperties, Zenon
    <3> QED
      BY <1>2, <3>1, <3>2, Zenon DEF DcdWrite
  <2>2. pc' \in {"dcd?", "failed"} /\ err' \in Errors
    BY <1>2, RefusedOK DEF DcdWrite
  <2> QED
    BY <1>2, <2>1, <2>2 DEF DcdWrite
<1>3. CASE Answered
  <2>1. replies' \in Seq({Status, Last})
    BY <1>3 DEF Answered
  <2> QED
    BY <1>3, <2>1 DEF Answered
<1>4. CASE AnswerFails
  BY <1>4 DEF AnswerFails
<1>5. CASE FileWrite
  <2>1. CASE pc' = "chunk" /\ i' = 1 /\ dest' = 1 /\ UNCHANGED err
    BY <1>5, <2>1 DEF FileWrite
  <2>2. CASE Refused("failed") /\ UNCHANGED <<i, dest>>
    BY <1>5, <2>2, RefusedOK DEF FileWrite
  <2> QED
    BY <1>5, <2>1, <2>2 DEF FileWrite
<1>6. CASE SendChunk
  BY <1>6, ChunkStep
<1>7. CASE ChunkError
  BY <1>7 DEF ChunkError
<1>8. CASE Jump
  <2>1. CASE pc' = "sleep" /\ RomJumps /\ UNCHANGED err
    BY <1>8, <2>1 DEF Jump, RomJumps, Boards
  <2>2. CASE Refused("failed") /\ (UNCHANGED romVars \/ RomJumps)
    BY <1>8, <2>2, RefusedOK DEF Jump, RomJumps, Boards
  <2> QED
    BY <1>8, <2>1, <2>2 DEF Jump
<1>9. CASE Wakes
  BY <1>9 DEF Wakes
<1>10. CASE AddWatch
  BY <1>10 DEF AddWatch
<1>11. CASE Event
  <2>1. watched' \in Seq({"block", "other"})
    BY <1>11 DEF Event
  <2> QED
    BY <1>11, <2>1 DEF Event
<1>12. CASE Probe
  BY <1>12 DEF Probe
<1> QED
  BY <1>1, <1>2, <1>3, <1>4, <1>5, <1>6, <1>7, <1>8, <1>9, <1>10, <1>11, <1>12
     DEF Boot, Wait

\* Every step of a call keeps the inductive invariant.
LEMMA StepOK == IInv /\ [Next]_vars => IInv'
<1>1. IInv /\ UNCHANGED vars => IInv'
  BY DEF IInv, TypeOK, Loaded, RunsWholeImage, vars, procVars, romVars, watchVars
<1> QED
  BY <1>1, EnvStep, ProcessStep DEF Next

\* The type invariant of a call.
THEOREM TypeCorrect == Spec => []TypeOK
<1>1. IInv => TypeOK
  BY DEF IInv
<1> QED
  BY <1>1, InitOK, StepOK, PTL DEF Spec

\* BootIMX tells the board to jump only when every chunk of the image is in its
\* memory, whatever was refused, lost or answered in between, and even where the
\* write is repeated from the chunk that was caught up.
THEOREM WholeImageRuns == Spec => []RunsWholeImage
<1>1. IInv => RunsWholeImage
  BY DEF IInv
<1> QED
  BY <1>1, InitOK, StepOK, PTL DEF Spec

-----------------------------------------------------------------------------
(* The call implements RecoveryPromise.                                    *)

\* The board is not started before the jump; a file event of the block device,
\* and a call that has read one, is of a board that has presented it; one that is
\* off since is lost.
Presented ==
  /\ pc \in {"watch", "open", "dcd", "dcd?", "file", "chunk", "error", "file?", "jump"}
       => board = "sdp"
  /\ \A k \in 1 .. Len(watched) : watched[k] = "block" => board \in {"ums", "off"}
  /\ pc \in {"probe", "found"} => board \in {"ums", "off"}
  /\ usable => board = "ums"
  /\ board = "off" => lost

\* What a step appends to the events, and what reading one leaves.
LEMMA Events ==
  ASSUME NEW s \in Seq({"block", "other"})
  PROVE  /\ \A e \in {"block", "other"} : \A k \in 1 .. Len(Append(s, e)) :
              Append(s, e)[k] = e \/ (k \in 1 .. Len(s) /\ Append(s, e)[k] = s[k])
         /\ s # <<>> => /\ 1 \in 1 .. Len(s) /\ Head(s) = s[1]
                        /\ \A k \in 1 .. Len(Tail(s)) :
                             k + 1 \in 1 .. Len(s) /\ Tail(s)[k] = s[k + 1]
  OBVIOUS

LEMMA PresentedInit == Init => Presented
<1> SUFFICES ASSUME Init PROVE Presented
  OBVIOUS
<1>1. pc = "watch" /\ board = "sdp" /\ watched = <<>>
  BY DEF Init
<1>2. ~usable
  BY Zenon DEF Init
<1>3. 1 .. Len(watched) = {}
  BY <1>1
<1> QED
  BY <1>1, <1>2, <1>3 DEF Presented

\* What is lost stays lost.
LEMMA LostStays == ASSUME [Next]_vars, lost PROVE lost'
<1>1. CASE GoesOff \/ LoseEvent \/ LoseReply
  BY <1>1, Zenon DEF GoesOff, LoseEvent, LoseReply
<1>2. CASE OtherEvent \/ Chatters \/ Rom \/ UNCHANGED vars
  BY <1>2 DEF OtherEvent, Chatters, Rom, BlockDevice, Settles, vars, watchVars
<1>3. CASE Boot \/ Wait
  BY <1>3 DEF Boot, Open, DcdWrite, Answered, AnswerFails, FileWrite, SendChunk, ChunkError, Jump, Wakes,
              Wait, AddWatch, Event, Probe, watchVars
<1> QED
  BY <1>1, <1>2, <1>3 DEF Next, Env

\* Every step keeps it.
LEMMA PresentedStep == IInv /\ Presented /\ [Next]_vars => Presented'
<1> SUFFICES ASSUME IInv, Presented, [Next]_vars PROVE Presented'
  OBVIOUS
<1>0. watched \in Seq({"block", "other"}) /\ pc \in Pcs /\ board \in Boards
  BY DEF IInv, TypeOK
<1>1. CASE OtherEvent
  BY <1>0, <1>1, Events DEF OtherEvent, Presented, procVars, romVars
<1>2. CASE BlockDevice
  <2>1. board' = "ums" /\ pc' = pc /\ pc # "watch" /\ usable' = usable
    BY <1>2 DEF BlockDevice, procVars, Presented
  <2>2. pc \notin {"open", "dcd", "dcd?", "file", "chunk", "error", "file?", "jump"}
    BY <1>2 DEF BlockDevice, Presented
  <2> QED
    BY <2>1, <2>2 DEF Presented
<1>3. CASE Settles
  BY <1>3 DEF Settles, Presented, procVars, romVars
<1>4. CASE Chatters \/ LoseReply
  <2>1. UNCHANGED <<pc, board, watched, usable>>
    BY <1>4 DEF Chatters, LoseReply, procVars, watchVars
  <2>2. lost => lost'
    BY <1>4, LostStays DEF Next, Env
  <2> QED
    BY <2>1, <2>2 DEF Presented
<1>5. CASE GoesOff
  <2>1. board' = "off" /\ lost' /\ ~usable' /\ pc' = pc /\ watched' = watched /\ board \in {"booting", "ums"}
    BY <1>5 DEF GoesOff, procVars
  <2> QED
    BY <2>1 DEF Presented
<1>6. CASE LoseEvent
  <2>1. board' = board /\ usable' = usable /\ pc' = pc /\ watched # <<>> /\ watched' = Tail(watched) /\ (lost => lost')
    BY <1>6 DEF LoseEvent, procVars, romVars
  <2> QED
    BY <1>0, <2>1, Events DEF Presented
<1>7. CASE Open \/ DcdWrite \/ Answered \/ AnswerFails \/ FileWrite \/ ChunkError \/ Wakes \/ AddWatch
  <2>1. board' = board /\ watched' = watched /\ usable' = usable /\ lost' = lost
    BY <1>7 DEF Open, DcdWrite, Answered, AnswerFails, FileWrite, ChunkError, Wakes, AddWatch,
                romVars, watchVars
  <2>2. /\ pc' \in {"open", "dcd", "dcd?", "file", "chunk", "file?", "jump"} => board = "sdp"
        /\ pc' \notin {"probe", "found", "watch", "error"}
    BY <1>7 DEF Open, DcdWrite, Answered, AnswerFails, FileWrite, ChunkError, Wakes, AddWatch,
                Presented, Refused
  <2> QED
    BY <2>1, <2>2 DEF Presented
<1>8. CASE SendChunk
  <2>1. board' = board /\ watched' = watched /\ usable' = usable /\ lost' = lost /\ board = "sdp"
    BY <1>8 DEF SendChunk, RomWritesChunk, romVars, watchVars, Presented
  <2>2. pc' \in {"chunk", "file?", "error"}
    BY <1>8 DEF SendChunk, AfterChunk, Refused
  <2> QED
    BY <2>1, <2>2 DEF Presented
<1>9. CASE Jump
  <2>1. pc' \in {"sleep", "failed"} /\ watched' = watched /\ usable' = usable /\ board = "sdp"
         /\ board' \in {"sdp", "booting", "hung"}
    BY <1>9 DEF Jump, Refused, RomJumps, romVars, watchVars, Presented
  <2> QED
    BY <2>1 DEF Presented
<1>10. CASE Event
  <2>1. pc' = "probe" => board \in {"ums", "off"}
    BY <1>0, <1>10, Events DEF Event, Presented
  <2> QED
    BY <1>0, <1>10, <2>1, Events DEF Event, Presented, romVars
<1>11. CASE Probe
  BY <1>11 DEF Probe, Presented, romVars, watchVars
<1>12. CASE UNCHANGED vars
  BY <1>12 DEF vars, procVars, romVars, watchVars, Presented
<1> QED
  BY <1>1, <1>2, <1>3, <1>4, <1>5, <1>6, <1>7, <1>8, <1>9, <1>10, <1>11, <1>12 DEF Next, Env, Rom, Boot, Wait

\* Every step of the call is one of the promise, or changes nothing of it.
LEMMA PromiseStep == IInv /\ Presented /\ [Next]_vars => [Promise!RNext]_(Promise!rvars)
<1> SUFFICES ASSUME IInv, Presented, [Next]_vars PROVE [Promise!RNext]_(Promise!rvars)
  OBVIOUS
<1> DEFINE call == IF pc \in {"found", "failed"} THEN pc ELSE "waiting"
<1> USE DEF Promise!RNext, Promise!rvars
<1>1. ASSUME UNCHANGED board, UNCHANGED usable, pc' = pc \/ (call = "waiting" /\ call' = "waiting")
      PROVE  [Promise!RNext]_(Promise!rvars)
  BY <1>1
<1>2. ASSUME UNCHANGED board, UNCHANGED usable, call = "waiting", pc' = "failed"
      PROVE  [Promise!RNext]_(Promise!rvars)
  BY <1>2 DEF Promise!RFail
<1>3. CASE OtherEvent \/ Chatters \/ LoseReply \/ LoseEvent \/ UNCHANGED vars
  BY <1>1, <1>3 DEF OtherEvent, Chatters, LoseReply, LoseEvent, vars, procVars, romVars, watchVars
<1>4. CASE GoesOff
  BY <1>4 DEF GoesOff, procVars, Promise!RLost
<1>5. CASE BlockDevice
  BY <1>5 DEF BlockDevice, procVars, Promise!RPresent
<1>6. CASE Settles
  BY <1>6 DEF Settles, procVars, romVars, Promise!RSettle
<1>7. CASE Open \/ DcdWrite \/ Answered \/ AnswerFails \/ FileWrite \/ ChunkError \/ Wakes \/ AddWatch
           \/ SendChunk \/ Event
  <2>1. board' = board /\ usable' = usable /\ call = "waiting"
    BY <1>7 DEF Open, DcdWrite, Answered, AnswerFails, FileWrite, ChunkError, Wakes, AddWatch,
                SendChunk, RomWritesChunk, Event, romVars, watchVars
  <2>2. pc' # "found"
    BY <1>7 DEF Open, DcdWrite, Answered, AnswerFails, FileWrite, ChunkError, Wakes, AddWatch,
                SendChunk, AfterChunk, Event, Refused
  <2> QED
    BY <1>1, <1>2, <2>1, <2>2
<1>8. CASE Jump
  <2>1. call = "waiting" /\ board = "sdp" /\ mem = 1 .. Chunks /\ usable' = usable
    BY <1>8 DEF Jump, watchVars, Presented, IInv, Loaded
  <2>2. CASE pc' = "sleep" /\ RomJumps
    BY <2>1, <2>2 DEF RomJumps, Promise!RStart, Promise!Starts
  <2>3. CASE pc' = "failed" /\ (UNCHANGED romVars \/ RomJumps)
    BY <2>1, <2>3 DEF RomJumps, romVars, Promise!RFail, Promise!Starts
  <2> QED
    BY <1>8, <2>2, <2>3 DEF Jump, Refused
<1>9. CASE Probe
  <2>1. call = "waiting" /\ call' = "found" /\ board = "ums" /\ usable
        /\ board' = board /\ usable' = usable
    BY <1>9 DEF Probe, Presented, romVars, watchVars
  <2> QED
    BY <2>1 DEF Promise!RFound
<1> QED
  BY <1>3, <1>4, <1>5, <1>6, <1>7, <1>8, <1>9 DEF Next, Env, Rom, Boot, Wait

\* A call of BootIntoRecovery starts the board at most once and not after it has
\* returned, and returns only a block device of the started board that can be
\* read, for any number of chunks, events and reports and with all faults.
THEOREM CallKeepsPromise == Spec => KeepsPromise
<1>1. Init => Promise!RInit
  BY DEF Init, Promise!RInit
<1> QED
  BY <1>1, InitOK, StepOK, PresentedInit, PresentedStep, PromiseStep, PTL
     DEF Spec, KeepsPromise, Promise!RSpec

-----------------------------------------------------------------------------
(* A call never waits in vain.                                             *)

\* What is in a queue stays there until it is read, and is read in order.
LEMMA Queues ==
  ASSUME NEW S, NEW s \in Seq(S), NEW x \in S
  PROVE  /\ \A e \in S : Among(x, s) => Among(x, Append(s, e))
         /\ Among(x, Append(s, x))
         /\ s # <<>> /\ Among(x, s) => Head(s) = x \/ Among(x, Tail(s))
<1>1. ASSUME NEW e \in S, Among(x, s) PROVE Among(x, Append(s, e))
  BY <1>1 DEF Among
<1>2. Among(x, Append(s, x))
  <2>1. Append(s, x)[Len(s) + 1] = x /\ Len(s) + 1 \in 1 .. Len(Append(s, x))
    OBVIOUS
  <2> QED
    BY <2>1 DEF Among
<1>3. ASSUME s # <<>>, Among(x, s), Head(s) # x PROVE Among(x, Tail(s))
  <2>1. PICK k \in 1 .. Len(s) : s[k] = x
    BY <1>3 DEF Among
  <2>2. k # 1
    BY <1>3, <2>1
  <2>3. k - 1 \in 1 .. Len(Tail(s)) /\ Tail(s)[k - 1] = x
    BY <2>1, <2>2
  <2> QED
    BY <2>3 DEF Among
<1> QED
  BY <1>1, <1>2, <1>3

\* The reports that end a command are put behind those not yet read.
LEMMA Reported ==
  ASSUME NEW s \in Seq({Status, Last})
  PROVE  Among(Last, s \o <<Status, Last>>)
<1>1. <<Status, Last>> \in Seq({Status, Last})
  OBVIOUS
<1>2. Len(s \o <<Status, Last>>) = Len(s) + 2 /\ (s \o <<Status, Last>>)[Len(s) + 2] = Last
  BY <1>1, ConcatProperties
<1> QED
  BY <1>2 DEF Among

LEMMA WaitsStep == IInv /\ Presented /\ NeverWaitsInVain /\ [Next]_vars => NeverWaitsInVain'
<1> SUFFICES ASSUME IInv, Presented, NeverWaitsInVain, [Next]_vars PROVE NeverWaitsInVain'
  OBVIOUS
<1> SUFFICES ASSUME ~lost, ~lost' PROVE NeverWaitsInVain'
  BY LostStays DEF NeverWaitsInVain
<1> DEFINE events == {"block", "other"}
           reports == {Status, Last}
<1>0. /\ watched \in Seq(events) /\ replies \in Seq(reports) /\ pc \in Pcs /\ board \in Boards
      /\ "block" \in events /\ "other" \in events /\ Status \in reports /\ Last \in reports
  BY DEF IInv, TypeOK
<1> HIDE DEF events, reports
<1>1. CASE OtherEvent
  <2>1. Among("block", watched) => Among("block", watched')
    BY <1>0, <1>1, Queues DEF OtherEvent
  <2> QED
    BY <1>1, <2>1 DEF OtherEvent, NeverWaitsInVain, procVars, romVars, Among
<1>2. CASE BlockDevice
  <2>1. pc # "watch" /\ Among("block", watched')
    BY <1>0, <1>2, Queues DEF BlockDevice, Presented, Watching
  <2> QED
    BY <1>2, <2>1 DEF BlockDevice, NeverWaitsInVain, procVars, Among
<1>3. CASE Settles
  BY <1>3 DEF Settles, NeverWaitsInVain, procVars, romVars, Among
<1>4. CASE Chatters
  <2>1. Among(Last, replies) => Among(Last, replies')
    BY <1>0, <1>4, Queues DEF Chatters
  <2> QED
    BY <1>4, <2>1 DEF Chatters, NeverWaitsInVain, procVars, watchVars, Among
<1>5. CASE LoseReply
  <2>1. Head(replies) # Last
    BY <1>5 DEF LoseReply
  <2>2. Among(Last, replies) => Among(Last, replies')
    BY <1>0, <1>5, <2>1, Queues DEF LoseReply
  <2> QED
    BY <1>5, <2>2 DEF LoseReply, NeverWaitsInVain, procVars, Among
<1>6. CASE LoseEvent
  <2>1. Head(watched) # "block"
    BY <1>6 DEF LoseEvent
  <2>2. Among("block", watched) => Among("block", watched')
    BY <1>0, <1>6, <2>1, Queues DEF LoseEvent
  <2> QED
    BY <1>6, <2>2 DEF LoseEvent, NeverWaitsInVain, procVars, romVars, Among
<1>7. CASE GoesOff
  BY <1>7, Zenon DEF GoesOff
<1>8. CASE DcdWrite
  <2>1. pc' = "dcd?" => Among(Last, replies')
    BY <1>0, <1>8, Reported DEF DcdWrite, Refused, reports
  <2>2. pc' \in {"dcd?", "failed"}
    BY <1>8 DEF DcdWrite, Refused
  <2> QED
    BY <2>1, <2>2 DEF NeverWaitsInVain
<1>9. CASE Answered
  <2>1. pc' \in {"dcd?", "file?"} => pc' = pc /\ Head(replies) # Last
    BY <1>9 DEF Answered
  <2>2. Among(Last, replies) /\ Head(replies) # Last => Among(Last, replies')
    BY <1>0, <1>9, Queues DEF Answered
  <2>3. pc' \notin {"sleep", "monitor", "probe"}
    BY <1>9 DEF Answered
  <2> QED
    BY <1>9, <2>1, <2>2, <2>3 DEF NeverWaitsInVain, Answered
<1>10. CASE SendChunk
  <2>1. pc' \in {"chunk", "file?", "error"}
    BY <1>10 DEF SendChunk, AfterChunk, Refused
  <2>2. pc' = "file?" => Among(Last, replies')
    <3> SUFFICES ASSUME pc' = "file?" PROVE Among(Last, replies')
      OBVIOUS
    <3>1. RomWritesChunk /\ dest = Chunks
      BY <1>10 DEF SendChunk, AfterChunk, Refused, IInv, Loaded
    <3> QED
      BY <1>0, <3>1, Reported DEF RomWritesChunk, reports
  <2> QED
    BY <2>1, <2>2 DEF NeverWaitsInVain
<1>11. CASE Jump
  <2>1. pc' \in {"sleep", "failed"}
    BY <1>11 DEF Jump, Refused
  <2>2. pc' = "sleep" => board' = "booting"
    BY <1>11 DEF Jump, Refused, RomJumps, IInv, Loaded
  <2> QED
    BY <2>1, <2>2 DEF NeverWaitsInVain
<1>12. CASE Wakes
  BY <1>12 DEF Wakes, NeverWaitsInVain, romVars, watchVars, Among
<1>13. CASE Event
  <2>1. Among("block", watched) => Head(watched) = "block" \/ Among("block", watched')
    BY <1>0, <1>13, Queues DEF Event
  <2>2. pc = "monitor" /\ board' = board /\ pc' = IF Head(watched) = "block" THEN "probe" ELSE pc
    BY <1>13 DEF Event, romVars
  <2>3. pc' = "probe" => board' = "ums"
    BY <2>2, PresentedStep DEF Presented
  <2> QED
    BY <2>1, <2>2, <2>3 DEF NeverWaitsInVain
<1>14. CASE Open \/ AnswerFails \/ FileWrite \/ ChunkError \/ AddWatch \/ Probe
  <2>1. pc' \in {"open", "dcd", "chunk", "failed", "found"}
    BY <1>14 DEF Open, AnswerFails, FileWrite, ChunkError, AddWatch, Probe, Refused
  <2> QED
    BY <2>1 DEF NeverWaitsInVain
<1>15. CASE UNCHANGED vars
  BY <1>15 DEF vars, procVars, romVars, watchVars, NeverWaitsInVain, Among
<1> QED
  BY <1>1, <1>2, <1>3, <1>4, <1>5, <1>6, <1>7, <1>8, <1>9, <1>10, <1>11, <1>12, <1>13, <1>14, <1>15
     DEF Next, Env, Rom, Boot, Wait

\* waitForBlockDevice adds its watcher before it starts the board, so a call
\* that sleeps or waits for events is waited for by a board or an event in turn;
\* and a command that is not answered is one whose answer may be late or lost.
THEOREM WaitsAreMet == Spec => []NeverWaitsInVain
<1>1. Init => NeverWaitsInVain
  BY DEF Init, NeverWaitsInVain
<1> QED
  BY <1>1, InitOK, StepOK, PresentedInit, PresentedStep, WaitsStep, PTL DEF Spec

-----------------------------------------------------------------------------
(* Every step brings the call nearer to its end.                           *)

\* What the steps do to the length of a queue.
LEMMA Lengths ==
  ASSUME NEW S, NEW s \in Seq(S)
  PROVE  /\ Len(s) \in Nat
         /\ \A e \in S : Len(Append(s, e)) = Len(s) + 1
         /\ s # <<>> => Len(Tail(s)) = Len(s) - 1 /\ Len(s) > 0
  OBVIOUS

LEMMA TwoReports ==
  ASSUME NEW s \in Seq({Status, Last})
  PROVE  Len(s \o <<Status, Last>>) = Len(s) + 2
<1>1. <<Status, Last>> \in Seq({Status, Last}) /\ Len(<<Status, Last>>) = 2
  OBVIOUS
<1> QED
  BY <1>1, ConcatProperties

\* The cases of ToGo.
LEMMA ToGoIs ==
  ASSUME NEW p, NEW k
  PROVE  /\ p \in {"found", "failed"} => ToGo(p, k) = 0
         /\ p = "probe"   => ToGo(p, k) = 1
         /\ p = "monitor" => ToGo(p, k) = 2
         /\ p = "sleep"   => ToGo(p, k) = 3
         /\ p = "jump"    => ToGo(p, k) = 4
         /\ p \in {"file?", "error"} => ToGo(p, k) = 5
         /\ p = "chunk"   => ToGo(p, k) = 9 + 3 * (Chunks - k)
         /\ p = "file"    => ToGo(p, k) = 7 + 3 * Chunks
         /\ p = "dcd?"    => ToGo(p, k) = 8 + 3 * Chunks
         /\ p = "dcd"     => ToGo(p, k) = 11 + 3 * Chunks
         /\ p = "open"    => ToGo(p, k) = 12 + 3 * Chunks
         /\ p = "watch"   => ToGo(p, k) = 13 + 3 * Chunks
<1>1. /\ p \in {"found", "failed"} => ToGo(p, k) = 0
      /\ p = "probe"   => ToGo(p, k) = 1
      /\ p = "monitor" => ToGo(p, k) = 2
      /\ p = "sleep"   => ToGo(p, k) = 3
      /\ p = "jump"    => ToGo(p, k) = 4
      /\ p \in {"file?", "error"} => ToGo(p, k) = 5
  BY DEF ToGo
<1>2. /\ p = "chunk"   => ToGo(p, k) = 9 + 3 * (Chunks - k)
      /\ p = "file"    => ToGo(p, k) = 7 + 3 * Chunks
      /\ p = "dcd?"    => ToGo(p, k) = 8 + 3 * Chunks
      /\ p = "dcd"     => ToGo(p, k) = 11 + 3 * Chunks
      /\ p = "open"    => ToGo(p, k) = 12 + 3 * Chunks
      /\ p = "watch"   => ToGo(p, k) = 13 + 3 * Chunks
  BY DEF ToGo
<1> QED
  BY <1>1, <1>2

LEMMA ToGoType == \A p \in Pcs : \A k \in 1 .. Chunks : ToGo(p, k) \in Nat
<1> SUFFICES ASSUME NEW p \in Pcs, NEW k \in 1 .. Chunks PROVE ToGo(p, k) \in Nat
  OBVIOUS
<1>1. /\ 9 + 3 * (Chunks - k) \in Nat /\ 7 + 3 * Chunks \in Nat /\ 8 + 3 * Chunks \in Nat
      /\ 11 + 3 * Chunks \in Nat /\ 12 + 3 * Chunks \in Nat /\ 13 + 3 * Chunks \in Nat
  BY Bounds
<1> QED
  BY <1>1, ToGoIs DEF Pcs

\* Every action brings it down: what the process appends to the reports is less
\* than what the step takes off ToGo, and every event is paid for by its cause.
LEMMA EndsStep == IInv /\ Presented /\ Next => Left' \in Nat /\ Left' < Left
<1> SUFFICES ASSUME IInv, Presented, Next PROVE Left' \in Nat /\ Left' < Left
  OBVIOUS
<1> DEFINE own   == ToGo(pc, i)
           own2  == ToGo(pc', i')
           rest  == Rest
           rest2 == Rest'
           left  == Left
           left2 == Left'
<1>0. TypeOK /\ TypeOK' /\ Loaded
  BY StepOK DEF IInv
<1>1. /\ noise \in Nat /\ chatter \in Nat /\ Len(watched) \in Nat /\ Len(replies) \in Nat
      /\ noise' \in Nat /\ chatter' \in Nat /\ Len(watched') \in Nat /\ Len(replies') \in Nat
      /\ watched \in Seq({"block", "other"}) /\ replies \in Seq({Status, Last})
  BY <1>0, Bounds DEF TypeOK
<1>2. /\ pc \in Pcs /\ i \in 1 .. Chunks /\ Chunks \in Nat
      /\ own \in Nat /\ own2 \in Nat /\ rest \in Nat /\ rest2 \in Nat
  <2>1. pc \in Pcs /\ pc' \in Pcs /\ i \in 1 .. Chunks /\ i' \in 1 .. Chunks
    BY <1>0 DEF TypeOK
  <2> QED
    BY <2>1, Bounds, ToGoType DEF Rest
<1>3. /\ left  = own + (2 * noise + 2 * chatter + Len(watched) + Len(replies)) + rest
      /\ left2 = own2 + (2 * noise' + 2 * chatter' + Len(watched') + Len(replies')) + rest2
  BY Zenon DEF Left, Queued
<1> HIDE DEF own, own2, rest, rest2, left, left2
<1>4. pc' = pc /\ i' = i => own2 = own
  BY DEF own, own2
<1>5. board' = board /\ usable' = usable => rest2 = rest
  BY DEF rest, rest2, Rest
<1>6. ASSUME own2 + (2 * noise' + 2 * chatter' + Len(watched') + Len(replies')) + rest2
               < own + (2 * noise + 2 * chatter + Len(watched) + Len(replies)) + rest
      PROVE  Left' \in Nat /\ Left' < Left
  <2>1. own2 + (2 * noise' + 2 * chatter' + Len(watched') + Len(replies')) + rest2 \in Nat
    BY <1>1, <1>2
  <2>2. left2 \in Nat /\ left2 < left
    BY <1>3, <1>6, <2>1, Zenon
  <2> QED
    BY <2>2, Zenon DEF left, left2
<1>7. CASE OtherEvent
  <2>1. pc' = pc /\ i' = i /\ UNCHANGED <<board, usable, chatter, replies>> /\ noise' = noise - 1
    BY <1>7 DEF OtherEvent, procVars, romVars
  <2>2. Len(watched') <= Len(watched) + 1
    BY <1>1, <1>7, Lengths DEF OtherEvent
  <2> QED
    BY <1>1, <1>2, <1>4, <1>5, <1>6, <2>1, <2>2
<1>8. CASE Chatters
  <2>1. pc' = pc /\ i' = i /\ UNCHANGED <<board, usable, noise, watched>> /\ chatter' = chatter - 1
    BY <1>8 DEF Chatters, procVars, watchVars
  <2>2. Len(replies') = Len(replies) + 1
    BY <1>1, <1>8, Lengths DEF Chatters
  <2> QED
    BY <1>1, <1>2, <1>4, <1>5, <1>6, <2>1, <2>2
<1>9. CASE LoseReply
  <2>1. pc' = pc /\ i' = i /\ UNCHANGED <<board, usable, noise, chatter, watched>>
    BY <1>9 DEF LoseReply, procVars
  <2>2. Len(replies') = Len(replies) - 1
    BY <1>1, <1>9, Lengths DEF LoseReply
  <2> QED
    BY <1>1, <1>2, <1>4, <1>5, <1>6, <2>1, <2>2
<1>10. CASE LoseEvent
  <2>1. pc' = pc /\ i' = i /\ UNCHANGED <<board, usable, noise, chatter, replies>>
    BY <1>10 DEF LoseEvent, procVars, romVars
  <2>2. Len(watched') = Len(watched) - 1
    BY <1>1, <1>10, Lengths DEF LoseEvent
  <2> QED
    BY <1>1, <1>2, <1>4, <1>5, <1>6, <2>1, <2>2
<1>11. CASE GoesOff
  <2>1. pc' = pc /\ i' = i /\ UNCHANGED <<noise, chatter, watched, replies>>
    BY <1>11 DEF GoesOff, procVars
  <2>2. rest2 < rest
    BY <1>11 DEF GoesOff, rest, rest2, Rest
  <2> QED
    BY <1>1, <1>2, <1>4, <1>6, <2>1, <2>2
<1>12. CASE BlockDevice
  <2>1. pc' = pc /\ i' = i /\ UNCHANGED <<noise, chatter, replies>>
    BY <1>12 DEF BlockDevice, procVars
  <2>2. rest2 <= rest - 2
    BY <1>12 DEF BlockDevice, rest, rest2, Rest
  <2>3. Len(watched') <= Len(watched) + 1
    BY <1>1, <1>12, Lengths DEF BlockDevice
  <2> QED
    BY <1>1, <1>2, <1>4, <1>6, <2>1, <2>2, <2>3
<1>13. CASE Settles
  <2>1. pc' = pc /\ i' = i /\ UNCHANGED <<noise, chatter, replies, watched>>
    BY <1>13 DEF Settles, procVars, romVars
  <2>2. rest2 = rest - 1
    BY <1>13 DEF Settles, rest, rest2, Rest, romVars
  <2> QED
    BY <1>1, <1>2, <1>4, <1>6, <2>1, <2>2
<1>14. CASE Event
  <2>1. UNCHANGED <<board, usable, noise, chatter, replies>>
    BY <1>14 DEF Event, romVars
  <2>2. Len(watched') = Len(watched) - 1
    BY <1>1, <1>14, Lengths DEF Event
  <2>3. own2 <= own
    BY <1>2, <1>4, <1>14, ToGoIs DEF Event, own, own2
  <2> QED
    BY <1>1, <1>2, <1>5, <1>6, <2>1, <2>2, <2>3
\* A step of the process that leaves the board and the events alone.
<1>15. ASSUME UNCHANGED <<board, noise, chatter, watched, usable>>,
              own2 + Len(replies') < own + Len(replies)
       PROVE  Left' \in Nat /\ Left' < Left
  BY <1>1, <1>2, <1>5, <1>6, <1>15
<1>16. CASE Open \/ AddWatch \/ AnswerFails \/ Wakes \/ Probe \/ FileWrite
  <2>1. UNCHANGED <<board, noise, chatter, watched, usable, replies>>
    BY <1>16 DEF Open, AddWatch, AnswerFails, Wakes, Probe, FileWrite, romVars, watchVars
  <2>2. CASE Open \/ AddWatch \/ AnswerFails
    <3>1. own2 < own
      BY <1>2, <2>2, ToGoIs DEF Open, AddWatch, AnswerFails, own, own2
    <3> QED
      BY <1>1, <1>2, <1>15, <2>1, <3>1
  <2>3. CASE Wakes \/ Probe
    <3>1. own2 < own
      BY <1>2, <2>3, ToGoIs DEF Wakes, Probe, own, own2
    <3> QED
      BY <1>1, <1>2, <1>15, <2>1, <3>1
  <2>4. CASE FileWrite
    <3>1. own = 7 + 3 * Chunks
      BY <2>4, ToGoIs DEF FileWrite, own
    <3>2. CASE pc' = "chunk" /\ i' = 1
      <4>1. own2 = 9 + 3 * (Chunks - 1)
        BY <3>2, ToGoIs DEF own2
      <4> QED
        BY <1>1, <1>2, <1>15, <2>1, <3>1, <4>1
    <3>3. CASE pc' = "failed"
      <4>1. own2 = 0
        BY <3>3, ToGoIs DEF own2
      <4> QED
        BY <1>1, <1>2, <1>15, <2>1, <3>1, <4>1
    <3> QED
      BY <2>4, <3>2, <3>3 DEF FileWrite, Refused
  <2> QED
    BY <1>16, <2>2, <2>3, <2>4
<1>17. CASE DcdWrite
  <2>1. UNCHANGED <<board, noise, chatter, watched, usable>> /\ pc = "dcd" /\ own = 11 + 3 * Chunks
    BY <1>17, ToGoIs DEF DcdWrite, watchVars, own
  <2>2. CASE pc' = "dcd?" /\ replies' = replies \o <<Status, Last>>
    <3>1. own2 = 8 + 3 * Chunks /\ Len(replies') = Len(replies) + 2
      BY <1>1, <2>2, TwoReports, ToGoIs DEF own2
    <3> QED
      BY <1>1, <1>2, <1>15, <2>1, <3>1
  <2>3. CASE pc' = "failed" /\ UNCHANGED replies
    <3>1. own2 = 0
      BY <2>3, ToGoIs DEF own2
    <3> QED
      BY <1>1, <1>2, <1>15, <2>1, <2>3, <3>1
  <2> QED
    BY <1>17, <2>2, <2>3 DEF DcdWrite, Refused
<1>18. CASE Answered
  <2>1. UNCHANGED <<board, noise, chatter, watched, usable>>
    BY <1>18 DEF Answered, watchVars
  <2>2. Len(replies') = Len(replies) - 1
    BY <1>1, <1>18, Lengths DEF Answered
  <2>3. own2 <= own
    BY <1>2, <1>4, <1>18, ToGoIs DEF Answered, own, own2
  <2> QED
    BY <1>1, <1>2, <1>15, <2>1, <2>2, <2>3
<1>19. CASE SendChunk
  <2>1. UNCHANGED <<board, noise, chatter, watched, usable>> /\ pc = "chunk"
    BY <1>19 DEF SendChunk, RomWritesChunk, romVars, watchVars
  <2>2. Len(replies') <= Len(replies) + 2
    BY <1>1, <1>19, TwoReports DEF SendChunk, RomWritesChunk, romVars
  <2>3. own2 + 2 < own
    <3>1. own = 9 + 3 * (Chunks - i)
      BY <2>1, ToGoIs DEF own
    <3>2. CASE pc' \in {"file?", "error"}
      BY <1>2, <3>1, <3>2, ToGoIs DEF own2
    <3>3. CASE pc' = "chunk" /\ i' = i + 1
      <4>1. own2 = 9 + 3 * (Chunks - (i + 1))
        BY <3>3, ToGoIs DEF own2
      <4> QED
        BY <1>2, <3>1, <4>1
    <3> QED
      BY <1>19, <3>2, <3>3 DEF SendChunk, AfterChunk, Refused
  <2> QED
    BY <1>1, <1>2, <1>15, <2>1, <2>2, <2>3
<1>20. CASE ChunkError
  <2>1. err # General
    BY <1>0, ErrorAssumption DEF TypeOK
  <2>2. pc = "error" /\ pc' = "failed" /\ UNCHANGED <<board, noise, chatter, watched, usable, replies>>
    BY <1>20, <2>1 DEF ChunkError, watchVars
  <2>3. own = 5 /\ own2 = 0
    BY <2>2, ToGoIs DEF own, own2
  <2> QED
    BY <1>1, <1>15, <2>2, <2>3
<1>21. CASE Jump
  <2>1. UNCHANGED <<noise, chatter, watched, usable, replies>> /\ pc = "jump" /\ board = "sdp"
    BY <1>21 DEF Jump, RomJumps, romVars, watchVars, Presented
  <2>2. own2 < own
    BY <1>21, ToGoIs DEF Jump, Refused, own, own2
  <2>3. rest2 <= rest
    BY <2>1 DEF rest, rest2, Rest
  <2> QED
    BY <1>1, <1>2, <1>6, <2>1, <2>2, <2>3
<1> QED
  BY <1>7, <1>8, <1>9, <1>10, <1>11, <1>12, <1>13, <1>14, <1>16, <1>17, <1>18, <1>19, <1>20, <1>21
     DEF Next, Env, Rom, Boot, Wait

\* No loop of a call goes round for ever: the chunks are counted down, a report
\* that is skipped is one fewer, and the repetition after a write that failed,
\* which would send one chunk again and again while the failure lasts, compares
\* a text that is not there.
THEOREM CallEnds == Spec => EndsInTime
<1>1. IInv /\ Presented /\ [Next]_vars => [Left' \in Nat /\ Left' < Left]_vars
  BY EndsStep
<1> QED
  BY <1>1, InitOK, StepOK, PresentedInit, PresentedStep, PTL DEF Spec, EndsInTime
=============================================================================
