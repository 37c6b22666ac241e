--------------------------- MODULE RecoveryPromise ---------------------------
(***************************************************************************)
(* What a call of device.BootIntoRecovery promises its callers, without    *)
(* reports, chunks or file events: it starts the board at most once, never *)
(* after it has returned, and it returns a block device only when the      *)
(* board presents one that can be read.  SdpBoot is shown to implement it; *)
(* Provision takes a call for this.                                        *)
(***************************************************************************)

VARIABLES call,      \* "waiting", or what it returned: "found" or "failed"
          board,     \* "sdp", "booting" the recovery image, "ums", or "off"
          readable   \* the block device can be read

rvars == <<call, board, readable>>

RInit == call = "waiting" /\ board = "sdp" /\ readable = FALSE

Starts == board = "sdp" /\ board' = "booting"

RStart == call = "waiting" /\ Starts /\ UNCHANGED <<call, readable>>

\* The started board goes on by itself, also when the call has failed.
RPresent == /\ board = "booting" /\ board' = "ums"
            /\ UNCHANGED <<call, readable>>

RSettle == /\ board = "ums" /\ readable' = TRUE
           /\ UNCHANGED <<call, board>>

\* It may fall silent or be unplugged at any time.
RLost == /\ board \in {"booting", "ums"} /\ board' = "off" /\ readable' = FALSE
         /\ UNCHANGED call

RFound == /\ call = "waiting" /\ board = "ums" /\ readable
          /\ call' = "found"
          /\ UNCHANGED <<board, readable>>

\* The last report may have reached the board although its write failed.
RFail == /\ call = "waiting" /\ call' = "failed"
         /\ Starts \/ UNCHANGED board
         /\ UNCHANGED readable

RNext == RStart \/ RPresent \/ RSettle \/ RLost \/ RFound \/ RFail

RSpec == RInit /\ [][RNext]_rvars
=============================================================================
