------------------------------ MODULE LoraOta ------------------------------
(***************************************************************************)
(* Firmware update over the radio, ota/lora_ota.c: a download partition    *)
(* that is erased at the beginning of a session and programmed packet by   *)
(* packet, the RAM cursor update_file_cur_size, and the answers of         *)
(* gateway_api.c, which wait in the transmit queue: they carry neither a   *)
(* session nor an offset, are sent once, in order, and may come late.      *)
(*                                                                         *)
(* A packet is one unit of length; an image is a number of packets.  The   *)
(* gateway is external: it sends a begin, then the packets in order, then  *)
(* an end, each again until an answer of its kind comes, and may give up   *)
(* and begin again.  Frames and answers may be lost; the radio holds one   *)
(* frame for the RF thread, and a later one overwrites it.                 *)
(***************************************************************************)
EXTENDS Integers, Sequences

CONSTANTS Image,        \* firmware images
          Length,       \* Length[i]: packets of image i
          PartLen,      \* packets the download partition holds
          MaxAnswers,   \* answers the transmit queue holds
          MaxBegins,    \* sessions the gateway starts
          MaxResets     \* power losses

ASSUME OtaAssumption ==
  /\ PartLen \in Nat /\ MaxAnswers \in Nat /\ MaxBegins \in Nat /\ MaxResets \in Nat
  /\ Length \in [Image -> Nat \ {0}]

VARIABLES update_file_total_size, update_file_cur_size,
          dl_part,     \* the partition has been looked up since boot
          flash,       \* per packet of the partition: how far programmed, from which image
          rf,          \* the RF thread: running, stopped by an assertion, or in lora_ota_end
          down,        \* the frame in the radio, not handled yet
          up,          \* answers in the transmit queue
          gImage, gPhase, gPos,    \* gateway: image, phase, next offset to send
          mistaken,    \* in this session the gateway took an answer for another frame's
          begins, resets           \* sessions begun, power losses

ram == <<update_file_total_size, update_file_cur_size, dl_part>>
unit == <<ram, flash, rf, down, up>>
gateway == <<gImage, gPhase, gPos, mistaken>>
vars == <<unit, gateway, begins, resets>>

Cell == 0..(PartLen - 1)
Blank == <<"blank", "blank">>
Torn(i) == <<"torn", i>>
Whole(i) == <<"whole", i>>

\* What is sent.  An end has no content and a packet no session; the fields say
\* what the sender meant.  An answer is only its kind, its other fields are what
\* it answers: the gateway cannot see them.
Frame == [kind : {"begin", "packet", "end"}, session : 1..MaxBegins, image : Image, offset : Nat]
NoFrame == [kind |-> "none"]
Answer == [kind : {"start", "ack", "end"}, session : 1..MaxBegins, offset : Nat]

Init ==
  /\ update_file_total_size = 0 /\ update_file_cur_size = 0 /\ dl_part = FALSE
  /\ flash = [c \in Cell |-> Blank] /\ rf = "run" /\ down = NoFrame /\ up = <<>>
  /\ gImage \in Image /\ gPhase = "idle" /\ gPos = 0 /\ mistaken = FALSE
  /\ begins = 0 /\ resets = 0

-----------------------------------------------------------------------------
(* The gateway.                                                            *)

GatewayBegin ==
  /\ begins < MaxBegins /\ begins' = begins + 1
  /\ gImage' \in Image /\ gPhase' = "starting" /\ gPos' = 0
  /\ UNCHANGED <<unit, mistaken, resets>>

\* It sends, or sends again, the frame it waits to have answered; a frame lost in
\* the air is a step that does not happen.
GatewaySend ==
  /\ gPhase # "idle"
  /\ down' = [kind |-> IF gPhase = "starting" THEN "begin"
                       ELSE IF gPos < Length[gImage] THEN "packet" ELSE "end",
              session |-> begins, image |-> gImage, offset |-> gPos]
  /\ UNCHANGED <<ram, flash, rf, up, gateway, begins, resets>>

\* An answer arrives: one of the kind it waits for moves it on.
GatewayHears ==
  /\ up # <<>> /\ up' = Tail(up)
  /\ LET a == Head(up) IN
       \/ /\ a.kind = "start" /\ gPhase = "starting"
          /\ gPhase' = "sending" /\ mistaken' = (a.session # begins)
          /\ UNCHANGED gPos
       \/ /\ a.kind = "ack" /\ gPhase = "sending" /\ gPos < Length[gImage]
          /\ gPos' = gPos + 1 /\ mistaken' = (mistaken \/ a.session # begins \/ a.offset # gPos)
          /\ UNCHANGED gPhase
       \/ /\ a.kind = "end" /\ gPhase = "sending" /\ gPos = Length[gImage]
          /\ gPhase' = "idle"
          /\ UNCHANGED <<gPos, mistaken>>
  /\ UNCHANGED <<ram, flash, rf, down, gImage, begins, resets>>

\* An answer is lost, or is none the gateway waits for.
AnswerLost ==
  /\ up # <<>> /\ up' = Tail(up)
  /\ UNCHANGED <<ram, flash, rf, down, gateway, begins, resets>>

-----------------------------------------------------------------------------
(* The unit: radio_frame_gateway_parse_ota, in the RF thread.              *)

\* The answer goes through lora_tx_enqueue; a full queue drops it.
Enqueue(kind) ==
  up' = IF Len(up) < MaxAnswers
        THEN Append(up, [kind |-> kind, session |-> down.session, offset |-> down.offset])
        ELSE up

Arrives(kind) == rf = "run" /\ down.kind = kind /\ down' = NoFrame

EraseTo(n) == [c \in Cell |-> IF c < n THEN Blank ELSE flash[c]]

\* Seeded fault: the partition found is kept in a local variable.
Faulty_lora_ota_begin_local ==
  /\ Arrives("begin") /\ Length[down.image] <= PartLen
  /\ update_file_total_size' = Length[down.image]
  /\ flash' = EraseTo(Length[down.image]) /\ Enqueue("start")
  /\ UNCHANGED <<update_file_cur_size, dl_part, rf, gateway, begins, resets>>

\* The cursor is not reset.  An image that does not fit, or an erase that fails
\* part of the way, ends without an answer.
lora_ota_begin ==
  /\ Arrives("begin")
  /\ update_file_total_size' = Length[down.image] /\ dl_part' = TRUE
  /\ \/ Length[down.image] > PartLen /\ UNCHANGED <<flash, up>>
     \/ /\ Length[down.image] <= PartLen
        /\ \/ flash' = EraseTo(Length[down.image]) /\ Enqueue("start")
           \/ (\E n \in 0..Length[down.image] : flash' = EraseTo(n)) /\ UNCHANGED up
  /\ UNCHANGED <<update_file_cur_size, rf, gateway, begins, resets>>

\* Seeded fault: an old packet moves the cursor too.
Faulty_ReceiveOld ==
  /\ Arrives("packet") /\ update_file_cur_size # down.offset
  /\ update_file_cur_size' = update_file_cur_size + 1
  /\ Enqueue("ack")
  /\ UNCHANGED <<update_file_total_size, dl_part, flash, rf, gateway, begins, resets>>

\* A packet whose offset is not the cursor: acknowledged, not written ("old").
ReceiveOld ==
  /\ Arrives("packet") /\ update_file_cur_size # down.offset
  /\ Enqueue("ack")
  /\ UNCHANGED <<ram, flash, rf, gateway, begins, resets>>

\* Seeded fault: the packet is acknowledged although the write failed.
Faulty_WriteFails ==
  /\ Arrives("packet") /\ update_file_cur_size = down.offset /\ dl_part
  /\ Enqueue("ack")
  /\ UNCHANGED <<ram, flash, rf, gateway, begins, resets>>

\* A write outside the partition, or one that fails in the flash chip, perhaps
\* after a part of the packet: no answer.
WriteFails ==
  /\ Arrives("packet") /\ update_file_cur_size = down.offset /\ dl_part
  /\ \/ UNCHANGED flash
     \/ down.offset \in Cell /\ flash' = [flash EXCEPT ![down.offset] = Torn(down.image)]
  /\ UNCHANGED <<ram, rf, up, gateway, begins, resets>>

\* Seeded fault: the cursor stays where it was.
Faulty_ReceiveNew ==
  /\ Arrives("packet") /\ update_file_cur_size = down.offset /\ dl_part
  /\ down.offset \in Cell
  /\ flash' = [flash EXCEPT ![down.offset] = Whole(down.image)]
  /\ Enqueue("ack")
  /\ UNCHANGED <<ram, rf, gateway, begins, resets>>

ReceiveNew ==
  /\ Arrives("packet") /\ update_file_cur_size = down.offset /\ dl_part
  /\ down.offset \in Cell
  /\ flash' = [flash EXCEPT ![down.offset] = Whole(down.image)]
  /\ update_file_cur_size' = update_file_cur_size + 1
  /\ Enqueue("ack")
  /\ UNCHANGED <<update_file_total_size, dl_part, rf, gateway, begins, resets>>

\* fal_partition_write(RT_NULL, ...): assert(part) fails and the RF thread stops.
ReceiveUnopened ==
  /\ Arrives("packet") /\ update_file_cur_size = down.offset /\ ~dl_part
  /\ rf' = "assert"
  /\ UNCHANGED <<ram, flash, up, gateway, begins, resets>>

Written(i) == \A c \in 0..(Length[i] - 1) : c \in Cell /\ flash[c] = Whole(i)

\* resp_end, "update successfully", and 2 s of sleep; nothing is compared.  The
\* place tells what the partition holds of the image the gateway meant.
lora_ota_end ==
  /\ Arrives("end")
  /\ Enqueue("end")
  /\ rf' = IF Written(down.image) THEN "complete" ELSE "partial"
  /\ UNCHANGED <<ram, flash, gateway, begins, resets>>

\* RAM, the answers in the queue and the frame in the radio are gone.
Reboot ==
  /\ update_file_total_size' = 0 /\ update_file_cur_size' = 0 /\ dl_part' = FALSE
  /\ rf' = "run" /\ down' = NoFrame /\ up' = <<>>
  /\ UNCHANGED <<flash, gateway, begins>>

\* rt_hw_cpu_reset at the end of lora_ota_end.
EndReset ==
  /\ rf \in {"complete", "partial"}
  /\ Reboot /\ UNCHANGED resets

PowerLoss ==
  /\ resets < MaxResets /\ resets' = resets + 1
  /\ Reboot

Next ==
  \/ GatewayBegin \/ GatewaySend \/ GatewayHears \/ AnswerLost
  \/ lora_ota_begin \/ ReceiveOld \/ WriteFails \/ ReceiveNew \/ ReceiveUnopened
  \/ lora_ota_end \/ EndReset \/ PowerLoss

Spec == Init /\ [][Next]_vars

-----------------------------------------------------------------------------

\* Every variable keeps its type; the cursor stays in the partition.
TypeOK ==
  /\ update_file_total_size \in Nat /\ update_file_cur_size \in 0..PartLen
  /\ dl_part \in BOOLEAN /\ rf \in {"run", "assert", "complete", "partial"}
  /\ flash \in [Cell -> {Blank} \cup ({"torn", "whole"} \X Image)]
  /\ down \in Frame \cup {NoFrame} /\ up \in Seq(Answer) /\ Len(up) <= MaxAnswers
  /\ gImage \in Image /\ gPhase \in {"idle", "starting", "sending"} /\ gPos \in Nat
  /\ mistaken \in BOOLEAN
  /\ begins \in 0..MaxBegins /\ resets \in 0..MaxResets

\* The flash chip cannot program a packet twice without an erase between: when a
\* packet at the cursor is about to be written, its place is blank, or holds a
\* part of that same packet from a write that failed.  The cursor gives this over
\* repeated packets, repeated sessions and resets, as long as the gateway has not
\* taken a late answer for another one's.
ProgramOnce ==
  /\ ~mistaken /\ down.kind = "packet" /\ dl_part
  /\ update_file_cur_size = down.offset /\ down.offset \in Cell
  => flash[down.offset] \in {Blank, Torn(down.image)}

\* The first session since power-on, so far undisturbed by a reset.
FirstSession == begins <= 1 /\ resets = 0

\* In the first session the gateway is never ahead of the flash: every packet it
\* holds for acknowledged has been written, whatever frames, answers and writes
\* of lora_ota_receive failed - provided each answer it acted on was for the
\* frame it waited for, which unnumbered answers do not ensure.
AcknowledgedIsWritten ==
  FirstSession /\ ~mistaken /\ gPhase = "sending"
    => \A c \in 0..(gPos - 1) : c \in Cell /\ flash[c] = Whole(gImage)

\* assert(part) (fal_partition.c) fails only for the first packet of an image, and
\* only after a reset lost dl_part or a late start answer was mistaken for the one
\* of a new session: later packets are "old" to a rebooted unit, and no begin,
\* refused or answered, leaves the partition closed.
UnopenedOnlyAfterReset ==
  [][rf' = "assert" /\ rf # "assert" => down.offset = 0 /\ (resets > 0 \/ mistaken)]_vars

\* "update successfully" (lora_ota.c): a session that ends has written its image.
EndsComplete == rf # "partial"

\* The same where no answer was taken for another one's.
EndsCompleteUnmistaken == ~mistaken => rf # "partial"

=============================================================================
