----------------------------- MODULE FrameParse ----------------------------
(***************************************************************************)
(* The filter every received frame passes, radio_protocol_parse of         *)
(* radio_protocol/radio_protocol.c: length, start byte, network id and     *)
(* version, checksum; then the handler the device type selects.  The two   *)
(* addresses and the payload play no part in it.                           *)
(***************************************************************************)
EXTENDS Integers, Bitwise

CONSTANTS NET_REGION_SELECT, NETWORK_VERSION

FRAME_START == 239

\* len and start are classes: whether len >= 14, whether data[0] is FRAME_START;
\* head is the byte data[1], type the four bits of data[2] the parser looks at.
Frame == [len : {13, 14}, start : {0, FRAME_START}, head : 0..255, crcOk : BOOLEAN,
          type : 0..15]

Handler(type) ==
  CASE type = 0  -> "endunit"
    [] type = 2  -> "gateway"
    [] type = 4  -> "doorunit"
    [] type = 6  -> "motion"
    [] type = 14 -> "factory"
    [] OTHER     -> "none"

\* data[1] & 0x0F < NETWORK_VERSION: in C, < binds tighter than &.
VersionTooLow(head) == (head & (IF 15 < NETWORK_VERSION THEN 1 ELSE 0)) # 0

Rejected(f) ==
  \/ f.len < 14
  \/ f.start # FRAME_START
  \/ f.head \div 16 # NET_REGION_SELECT
  \/ VersionTooLow(f.head)
  \/ ~f.crcOk

VARIABLES frame, handler   \* the last frame and the handler it went to

vars == <<frame, handler>>

Init == frame \in Frame /\ handler = "none"

radio_protocol_parse ==
  /\ frame' \in Frame
  /\ handler' = IF Rejected(frame') THEN "none" ELSE Handler(frame'.type)

Spec == Init /\ [][radio_protocol_parse]_vars

\* "Network version too low" (radio_protocol.c): a frame whose version is below
\* NETWORK_VERSION reaches no handler.
OldVersionRejected == handler # "none" => frame.head % 16 >= NETWORK_VERSION

=============================================================================
