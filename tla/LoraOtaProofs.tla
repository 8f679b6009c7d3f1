--------------------------- MODULE LoraOtaProofs ---------------------------
(***************************************************************************)
(* Proofs about LoraOta, for any images, any partition size, any length of *)
(* the transmit queue and any number of sessions and power losses.         *)
(*                                                                         *)
(* The cursor update_file_cur_size is never reset by a begin, so what it   *)
(* is worth depends on the session; frames and answers outlive the moment  *)
(* they were sent for, so the invariant speaks of them too.  Tagged says   *)
(* which session they are of, Opened what an unopened partition implies,   *)
(* Erased that in a session whose answers were not mistaken the packets    *)
(* from the cursor on are blank (or partly programmed by the same packet), *)
(* Ahead that in the first session those before the cursor are written and *)
(* neither the gateway nor an answer under way has passed it.              *)
(***************************************************************************)
EXTENDS LoraOta, TLAPS

\* The elements of a sequence.
Under(s) == {s[i] : i \in 1..Len(s)}
\* The 2 s between the answer of lora_ota_end and its reset.
Ending == rf \in {"complete", "partial"}

\* Frames and answers belong to sessions that were begun, and the frames of the
\* current session to its image.
Tagged ==
  /\ down.kind # "none" => down.session <= begins
  /\ down.kind # "none" /\ down.session = begins => down.image = gImage
  /\ \A a \in Under(up) : a.session <= begins

\* The answer to the begin of the current session is under way.
Started == \E a \in Under(up) : a.kind = "start" /\ a.session = begins

\* An unopened partition means an empty cursor and, if packets come, a reset or a
\* mistaken answer.  While the answer to this session's begin is under way no frame
\* of an earlier session is, so no end of it can reset the unit.
Opened ==
  /\ ~dl_part => update_file_cur_size = 0
  /\ \A a \in Under(up) : a.kind = "start" => dl_part
  /\ gPhase = "sending" /\ gPos < Length[gImage] /\ ~dl_part => resets > 0 \/ mistaken
  /\ down.kind = "packet" /\ ~dl_part => resets > 0 \/ mistaken
  /\ (down.kind = "end" \/ Ending) /\ gPhase = "sending" /\ gPos < Length[gImage] => mistaken
  /\ gPhase = "starting" /\ Started
       => /\ down.kind = "none" \/ (down.kind = "begin" /\ down.session = begins)
          /\ ~Ending

\* From the cursor on, the places of image i are ready to be programmed.
Clean(i) ==
  \A c \in Cell : update_file_cur_size <= c /\ c < Length[i] => flash[c] \in {Blank, Torn(i)}

\* A session in which packets flow on its own answers has a clean partition.
Erased ==
  /\ gPhase = "starting" /\ Started => Clean(gImage)
  /\ gPhase = "sending" /\ ~mistaken =>
       /\ dl_part => Clean(gImage)
       /\ down.kind # "none" => down.session = begins
       /\ down.kind = "begin" => dl_part
  /\ ProgramOnce

\* The first session: nothing is written before it sends, then the packets before
\* the cursor are, and neither gateway, packet nor answer is past it.
InStep ==
  /\ \A c \in 0..(update_file_cur_size - 1) : flash[c] = Whole(gImage)
  /\ \A a \in Under(up) : a.kind = "ack" => a.offset < update_file_cur_size
  /\ down.kind = "begin" => update_file_cur_size = 0 /\ gPos = 0
  /\ down.kind = "packet" => down.offset <= update_file_cur_size
  /\ gPhase = "sending" /\ (gPos < Length[gImage] \/ down.kind = "packet")
       => gPos <= update_file_cur_size
  /\ AcknowledgedIsWritten

Ahead ==
  /\ gPos <= Length[gImage]
  /\ gPhase = "starting" => gPos = 0
  /\ begins = 0 => gPhase = "idle" /\ gPos = 0 /\ down = NoFrame
  /\ FirstSession =>
       /\ gPhase = "starting" \/ begins = 0
            => /\ update_file_cur_size = 0 /\ ~mistaken
               /\ down.kind \notin {"packet", "end"} /\ ~Ending
       /\ down.kind = "end" \/ Ending => gPos = Length[gImage]
       /\ ~mistaken => InStep

IInv == TypeOK /\ Tagged /\ Opened /\ Erased /\ Ahead
-----------------------------------------------------------------------------
(* What the steps do, once for all parts of the invariant.                 *)

FlashType == [Cell -> {Blank} \cup ({"torn", "whole"} \X Image)]

Handler ==
  lora_ota_begin \/ ReceiveOld \/ WriteFails \/ ReceiveNew \/ ReceiveUnopened \/ lora_ota_end

\* A frame that is there has all its fields.
LEMMA FrameFields ==
  ASSUME TypeOK, down.kind # "none"
  PROVE  /\ down \in Frame /\ down.session \in 1..MaxBegins /\ down.image \in Image
         /\ down.offset \in Nat /\ down.kind \in {"begin", "packet", "end"}
BY DEF TypeOK, Frame, NoFrame

LEMMA NoFrameKind == NoFrame.kind = "none"
BY DEF NoFrame

\* An answer is added at the end or dropped.
LEMMA EnqueueFacts ==
  ASSUME TypeOK, down.kind # "none", NEW k \in {"start", "ack", "end"}, Enqueue(k)
  PROVE  /\ up' \in Seq(Answer) /\ Len(up') <= MaxAnswers
         /\ \A a \in Under(up') :
              a \in Under(up) \/ (a.kind = k /\ a.session = down.session /\ a.offset = down.offset)
<1> DEFINE b == [kind |-> k, session |-> down.session, offset |-> down.offset]
<1>1. b \in Answer
  BY FrameFields DEF Answer
<1>2. up \in Seq(Answer) /\ Len(up) <= MaxAnswers /\ MaxAnswers \in Nat
  BY OtaAssumption DEF TypeOK
<1>3. CASE Len(up) < MaxAnswers
  <2>1. up' = Append(up, b)
    BY <1>3 DEF Enqueue
  <2>2. /\ up' \in Seq(Answer) /\ Len(up') = Len(up) + 1
        /\ \A i \in 1..Len(up) : up'[i] = up[i]
        /\ up'[Len(up) + 1] = b
    BY <1>1, <1>2, <2>1
  <2>3. \A a \in Under(up') : a \in Under(up) \/ a = b
    BY <1>2, <2>2 DEF Under
  <2>4. b.kind = k /\ b.session = down.session /\ b.offset = down.offset
    OBVIOUS
  <2>5. QED BY <1>2, <1>3, <2>2, <2>3, <2>4
<1>4. CASE ~(Len(up) < MaxAnswers)
  <2>1. up' = up
    BY <1>4 DEF Enqueue
  <2>2. QED BY <1>2, <2>1
<1>5. QED BY <1>3, <1>4

\* Answers leave from the front.
LEMMA TailFacts ==
  ASSUME TypeOK, up # <<>>, up' = Tail(up)
  PROVE  /\ up' \in Seq(Answer) /\ Len(up') <= MaxAnswers
         /\ Under(up') \subseteq Under(up)
         /\ Head(up) \in Under(up)
<1>1. /\ up \in Seq(Answer) /\ Len(up) <= MaxAnswers /\ MaxAnswers \in Nat
      /\ Len(up) \in Nat \ {0}
  BY OtaAssumption DEF TypeOK
<1>2. /\ up' \in Seq(Answer) /\ Len(up') = Len(up) - 1
      /\ \A i \in 1..Len(up') : up'[i] = up[i + 1] /\ i + 1 \in 1..Len(up)
      /\ Head(up) = up[1] /\ 1 \in 1..Len(up)
  BY <1>1
<1>3. Under(up') \subseteq Under(up) /\ Head(up) \in Under(up)
  BY <1>2 DEF Under
<1>4. QED BY <1>1, <1>2, <1>3

\* A handler takes the frame, leaves the gateway alone and answers at most once.
LEMMA HandlerFacts ==
  ASSUME TypeOK, Handler
  PROVE  /\ rf = "run" /\ down.kind # "none" /\ down' = NoFrame
         /\ UNCHANGED <<gImage, gPhase, gPos, mistaken, begins, resets>>
         /\ up' \in Seq(Answer) /\ Len(up') <= MaxAnswers
         /\ \A a \in Under(up') :
              \/ a \in Under(up)
              \/ /\ a.session = down.session /\ a.offset = down.offset
                 /\ a.kind = "start" => /\ lora_ota_begin /\ flash' = EraseTo(Length[down.image])
                 /\ a.kind = "ack" => ReceiveOld \/ ReceiveNew
<1> USE DEF Arrives, gateway
<1>0. up \in Seq(Answer) /\ Len(up) <= MaxAnswers
  BY DEF TypeOK
<1>1. CASE lora_ota_begin
  <2>1. /\ rf = "run" /\ down.kind # "none" /\ down' = NoFrame
        /\ UNCHANGED <<gImage, gPhase, gPos, mistaken, begins, resets>>
    BY <1>1 DEF lora_ota_begin
  <2>2. CASE up' = up
    BY <1>0, <2>1, <2>2
  <2>3. CASE flash' = EraseTo(Length[down.image]) /\ Enqueue("start")
    BY <1>1, <2>1, <2>3, EnqueueFacts
  <2>4. QED BY <1>1, <2>2, <2>3 DEF lora_ota_begin
<1>2. CASE ReceiveOld \/ ReceiveNew
  <2>1. /\ rf = "run" /\ down.kind # "none" /\ down' = NoFrame /\ Enqueue("ack")
        /\ UNCHANGED <<gImage, gPhase, gPos, mistaken, begins, resets>>
    BY <1>2 DEF ReceiveOld, ReceiveNew
  <2>2. QED BY <1>2, <2>1, EnqueueFacts
<1>3. CASE WriteFails \/ ReceiveUnopened
  BY <1>0, <1>3 DEF WriteFails, ReceiveUnopened
<1>4. CASE lora_ota_end
  <2>1. /\ rf = "run" /\ down.kind # "none" /\ down' = NoFrame /\ Enqueue("end")
        /\ UNCHANGED <<gImage, gPhase, gPos, mistaken, begins, resets>>
    BY <1>4 DEF lora_ota_end
  <2>2. QED BY <2>1, EnqueueFacts
<1>5. QED BY <1>1, <1>2, <1>3, <1>4 DEF Handler

\* What a handler does to the flash.
LEMMA FlashFacts ==
  ASSUME Handler, Length[down.image] \in Nat
  PROVE  \/ flash' = flash
         \/ \E n \in Nat : flash' = EraseTo(n)
         \/ \E c \in Cell : flash' \in {[flash EXCEPT ![c] = Torn(down.image)],
                                       [flash EXCEPT ![c] = Whole(down.image)]}
<1>1. CASE lora_ota_begin
  <2>1. \A n \in 0..Length[down.image] : n \in Nat
    OBVIOUS
  <2>2. QED BY <1>1, <2>1 DEF lora_ota_begin
<1>2. CASE WriteFails \/ ReceiveNew
  BY <1>2 DEF WriteFails, ReceiveNew
<1>3. CASE ReceiveOld \/ ReceiveUnopened \/ lora_ota_end
  BY <1>3 DEF ReceiveOld, ReceiveUnopened, lora_ota_end
<1>4. QED BY <1>1, <1>2, <1>3 DEF Handler

\* The fields of an answer under way.
LEMMA AnswerFields ==
  ASSUME TypeOK
  PROVE  \A a \in Under(up) : a.session \in Nat \ {0} /\ a.offset \in Nat
<1>1. \A i \in 1..Len(up) : up[i] \in Answer
  BY DEF TypeOK
<1>2. \A a \in Answer : a.session \in Nat \ {0} /\ a.offset \in Nat
  BY OtaAssumption DEF Answer
<1>3. QED BY <1>1, <1>2 DEF Under

\* The gateway acts on an answer in one of three ways.
LEMMA HearsFacts ==
  ASSUME TypeOK, GatewayHears
  PROVE  /\ UNCHANGED <<update_file_cur_size, dl_part, flash, rf, down, gImage, begins, resets>>
         /\ Under(up') \subseteq Under(up) /\ Head(up) \in Under(up)
         /\ \/ /\ Head(up).kind = "start" /\ gPhase = "starting" /\ gPhase' = "sending"
               /\ mistaken' <=> Head(up).session # begins
               /\ gPos' = gPos
            \/ /\ Head(up).kind = "ack" /\ gPhase = "sending" /\ gPhase' = "sending"
               /\ gPos < Length[gImage] /\ gPos' = gPos + 1
               /\ mistaken' <=> mistaken \/ Head(up).session # begins \/ Head(up).offset # gPos
            \/ /\ gPhase = "sending" /\ gPhase' = "idle" /\ gPos = Length[gImage]
               /\ UNCHANGED <<gPos, mistaken>>
<1>1. /\ UNCHANGED <<update_file_cur_size, dl_part, flash, rf, down, gImage, begins, resets>>
      /\ Under(up') \subseteq Under(up) /\ Head(up) \in Under(up)
  BY TailFacts DEF GatewayHears, ram
<1>2. \/ /\ Head(up).kind = "start" /\ gPhase = "starting" /\ gPhase' = "sending"
         /\ mistaken' <=> Head(up).session # begins
         /\ gPos' = gPos
      \/ /\ Head(up).kind = "ack" /\ gPhase = "sending" /\ gPhase' = "sending"
         /\ gPos < Length[gImage] /\ gPos' = gPos + 1
         /\ mistaken' <=> mistaken \/ Head(up).session # begins \/ Head(up).offset # gPos
      \/ /\ gPhase = "sending" /\ gPhase' = "idle" /\ gPos = Length[gImage]
         /\ UNCHANGED <<gPos, mistaken>>
  BY Zenon DEF GatewayHears
<1>3. QED BY <1>1, <1>2

\* A reset empties queue and radio, and leaves gateway and flash alone.
LEMMA RebootFacts ==
  ASSUME Reboot
  PROVE  /\ update_file_cur_size' = 0 /\ dl_part' = FALSE /\ rf' = "run" /\ down' = NoFrame
         /\ up' = <<>> /\ Under(up') = {}
         /\ UNCHANGED <<flash, gImage, gPhase, gPos, mistaken, begins>>
<1>1. up' = <<>>
  BY DEF Reboot
<1>2. Under(<<>>) = {}
  BY DEF Under
<1>3. QED BY <1>1, <1>2 DEF Reboot, gateway

LEMMA NextCases ==
  ASSUME [Next]_vars
  PROVE  \/ GatewayBegin \/ GatewaySend \/ GatewayHears \/ AnswerLost
         \/ Handler \/ EndReset \/ PowerLoss \/ UNCHANGED vars
BY DEF Next, Handler

-----------------------------------------------------------------------------

LEMMA InitOK == Init => IInv
<1> SUFFICES ASSUME Init PROVE IInv
  OBVIOUS
<1>1. TypeOK
  <2>1. flash \in FlashType
    BY DEF Init, FlashType
  <2>2. /\ update_file_total_size \in Nat /\ update_file_cur_size \in 0..PartLen /\ gPos \in Nat
        /\ begins \in 0..MaxBegins /\ resets \in 0..MaxResets
    BY OtaAssumption DEF Init
  <2>3. dl_part \in BOOLEAN /\ mistaken \in BOOLEAN /\ gImage \in Image
    BY DEF Init
  <2>4. up \in Seq(Answer) /\ Len(up) <= MaxAnswers
    BY OtaAssumption DEF Init
  <2>5. rf = "run" /\ gPhase = "idle" /\ down = NoFrame
    BY DEF Init
  <2>6. QED BY <2>1, <2>2, <2>3, <2>4, <2>5 DEF TypeOK, FlashType
<1>2. Under(up) = {} /\ down.kind = "none"
  BY NoFrameKind DEF Init, Under
<1>3. Tagged /\ Opened /\ Erased /\ Ahead
  BY <1>2, OtaAssumption DEF Init, Tagged, Opened, Erased, Ahead, InStep, Started, Ending, ProgramOnce,
                             AcknowledgedIsWritten
<1>4. QED BY <1>1, <1>3 DEF IInv

\* Erasing and programming keep the flash typed.
LEMMA FlashTyped ==
  ASSUME flash \in FlashType, NEW i \in Image
  PROVE  /\ \A n \in Nat : EraseTo(n) \in FlashType
         /\ \A c \in Cell : [flash EXCEPT ![c] = Torn(i)] \in FlashType
         /\ \A c \in Cell : [flash EXCEPT ![c] = Whole(i)] \in FlashType
BY DEF FlashType, EraseTo, Torn, Whole

LEMMA TypeStep == TypeOK /\ Ahead /\ [Next]_vars => TypeOK'
<1> SUFFICES ASSUME TypeOK, Ahead, [Next]_vars PROVE TypeOK'
  OBVIOUS
<1> USE OtaAssumption DEF ram, unit, gateway
<1>1. CASE GatewayBegin
  BY <1>1 DEF GatewayBegin, TypeOK
<1>2. CASE GatewaySend
  <2>1. begins \in 1..MaxBegins
    BY <1>2 DEF GatewaySend, Ahead, TypeOK
  <2>2. QED BY <1>2, <2>1 DEF GatewaySend, TypeOK, Frame
<1>3. CASE GatewayHears
  <2>1. up' \in Seq(Answer) /\ Len(up') <= MaxAnswers
    BY <1>3, TailFacts DEF GatewayHears
  <2>2. mistaken' \in BOOLEAN
    BY <1>3 DEF GatewayHears, TypeOK
  <2>3. gPhase' \in {"idle", "starting", "sending"} /\ gPos' \in Nat
    BY <1>3 DEF GatewayHears, TypeOK
  <2>4. UNCHANGED <<ram, flash, rf, down, gImage, begins, resets>>
    BY <1>3 DEF GatewayHears
  <2>5. QED BY <2>1, <2>2, <2>3, <2>4 DEF TypeOK
<1>4. CASE AnswerLost
  <2>1. up' \in Seq(Answer) /\ Len(up') <= MaxAnswers
    BY <1>4, TailFacts DEF AnswerLost
  <2>2. QED BY <1>4, <2>1 DEF AnswerLost, TypeOK
<1>5. CASE Handler
  <2>1. /\ down' \in Frame \cup {NoFrame} /\ up' \in Seq(Answer) /\ Len(up') <= MaxAnswers
        /\ UNCHANGED <<gImage, gPhase, gPos, mistaken, begins, resets>>
    BY <1>5, HandlerFacts
  <2>2. /\ down.image \in Image /\ Length[down.image] \in Nat /\ flash \in FlashType
        /\ update_file_cur_size \in 0..PartLen
    BY <1>5, HandlerFacts, FrameFields DEF TypeOK, FlashType
  <2>3. flash' \in FlashType
    <3>1. CASE flash' = flash
      BY <2>2, <3>1
    <3>2. CASE \E n \in Nat : flash' = EraseTo(n)
      BY <2>2, <3>2, FlashTyped
    <3>3. CASE \E c \in Cell : flash' \in {[flash EXCEPT ![c] = Torn(down.image)],
                                           [flash EXCEPT ![c] = Whole(down.image)]}
      BY <2>2, <3>3, FlashTyped
    <3>4. QED BY <1>5, <2>2, <3>1, <3>2, <3>3, FlashFacts
  <2>4. dl_part' \in BOOLEAN
    BY <1>5 DEF Handler, lora_ota_begin, ReceiveOld, WriteFails, ReceiveNew, ReceiveUnopened,
                lora_ota_end, TypeOK
  <2>5. update_file_total_size' \in Nat
    BY <1>5, <2>2 DEF Handler, lora_ota_begin, ReceiveOld, WriteFails, ReceiveNew, ReceiveUnopened,
                lora_ota_end, TypeOK
  <2>6. update_file_cur_size' \in 0..PartLen
    BY <1>5, <2>2 DEF Handler, lora_ota_begin, ReceiveOld, WriteFails, ReceiveNew, ReceiveUnopened,
                lora_ota_end, Cell
  <2>7. rf' \in {"run", "assert", "complete", "partial"}
    BY <1>5 DEF Handler, lora_ota_begin, ReceiveOld, WriteFails, ReceiveNew, ReceiveUnopened,
                lora_ota_end, TypeOK
  <2>8. QED BY <2>1, <2>3, <2>4, <2>5, <2>6, <2>7 DEF TypeOK, FlashType
<1>6. CASE EndReset \/ PowerLoss
  <2>1. Reboot /\ resets' \in 0..MaxResets
    BY <1>6 DEF EndReset, PowerLoss, TypeOK
  <2>2. /\ update_file_total_size' \in Nat /\ update_file_cur_size' \in 0..PartLen
        /\ up' \in Seq(Answer) /\ Len(up') <= MaxAnswers
    BY <2>1 DEF Reboot
  <2>3. dl_part' \in BOOLEAN
    BY <2>1 DEF Reboot
  <2>4. rf' = "run" /\ down' = NoFrame /\ UNCHANGED <<flash, gateway, begins>>
    BY <2>1 DEF Reboot
  <2>5. QED BY <2>1, <2>2, <2>3, <2>4 DEF TypeOK
<1>7. CASE UNCHANGED vars
  BY <1>7 DEF vars, TypeOK
<1>8. QED
  BY <1>1, <1>2, <1>3, <1>4, <1>5, <1>6, <1>7, NextCases

-----------------------------------------------------------------------------

LEMMA TaggedStep == TypeOK /\ Tagged /\ [Next]_vars => Tagged'
<1> SUFFICES ASSUME TypeOK, Tagged, [Next]_vars PROVE Tagged'
  OBVIOUS
<1> USE DEF Tagged, ram, unit, gateway
<1>0. begins \in Nat /\ \A a \in Under(up) : a.session \in Nat
  BY AnswerFields, OtaAssumption DEF TypeOK
<1>1. CASE GatewayBegin
  <2>1. /\ begins' = begins + 1 /\ UNCHANGED <<down, up>>
        /\ down.kind # "none" => down.session \in Nat
    BY <1>1, FrameFields DEF GatewayBegin
  <2>2. \A a \in Under(up') : a.session <= begins'
    BY <1>0, <2>1
  <2>3. down'.kind # "none" => down'.session <= begins /\ down'.session \in Nat
    BY <2>1
  <2>4. QED BY <1>0, <2>1, <2>2, <2>3
<1>2. CASE GatewaySend
  BY <1>0, <1>2 DEF GatewaySend
<1>3. CASE GatewayHears \/ AnswerLost
  <2>1. up # <<>> /\ up' = Tail(up) /\ UNCHANGED <<down, gImage, begins>>
    BY <1>3 DEF GatewayHears, AnswerLost
  <2>2. QED BY <2>1, TailFacts
<1>4. CASE Handler
  <2>1. /\ down.kind # "none" /\ down'.kind = "none" /\ UNCHANGED begins
        /\ \A a \in Under(up') : a \in Under(up) \/ a.session = down.session
    BY <1>4, HandlerFacts, NoFrameKind
  <2>2. QED BY <2>1
<1>5. CASE EndReset \/ PowerLoss
  <2>1. down'.kind = "none" /\ Under(up') = {}
    BY <1>5, RebootFacts, NoFrameKind DEF EndReset, PowerLoss
  <2>2. QED BY <2>1
<1>6. CASE UNCHANGED vars
  BY <1>6 DEF vars
<1>7. QED
  BY <1>1, <1>2, <1>3, <1>4, <1>5, <1>6, NextCases

LEMMA OpenedStep == TypeOK /\ Tagged /\ Opened /\ Ahead /\ [Next]_vars => Opened'
<1> SUFFICES ASSUME TypeOK, Tagged, Opened, Ahead, [Next]_vars PROVE Opened'
  OBVIOUS
<1> USE OtaAssumption DEF ram, unit, gateway
<1>0. /\ begins \in Nat /\ resets \in Nat /\ gPos \in Nat /\ Length[gImage] \in Nat \ {0}
      /\ mistaken \in BOOLEAN /\ dl_part \in BOOLEAN /\ gPhase \in {"idle", "starting", "sending"}
      /\ \A a \in Under(up) : a.session \in Nat
  BY AnswerFields DEF TypeOK
<1>1. CASE GatewayBegin
  <2>1. /\ begins' = begins + 1 /\ gPhase' = "starting"
        /\ UNCHANGED <<update_file_cur_size, dl_part, rf, down, up, mistaken, resets>>
    BY <1>1 DEF GatewayBegin
  <2>2. ~Started'
    BY <1>0, <2>1 DEF Started, Tagged
  <2>3. QED BY <1>0, <2>1, <2>2 DEF Opened, Ending
<1>2. CASE GatewaySend
  <2>1. /\ gPhase # "idle"
        /\ UNCHANGED <<update_file_cur_size, dl_part, rf, up, gImage, gPhase, gPos, mistaken, begins, resets>>
        /\ down'.session = begins
        /\ gPhase = "starting" => down'.kind = "begin"
        /\ gPhase = "sending" => down'.kind = IF gPos < Length[gImage] THEN "packet" ELSE "end"
    BY <1>2 DEF GatewaySend
  <2>2. Started' = Started
    BY <2>1 DEF Started
  <2>3. QED BY <1>0, <2>1, <2>2 DEF Opened, Ending
<1>3. CASE GatewayHears
  <2>1. /\ UNCHANGED <<update_file_cur_size, dl_part, rf, down, gImage, begins, resets>>
        /\ Under(up') \subseteq Under(up) /\ Head(up) \in Under(up)
    BY <1>3, HearsFacts
  <2>2. CASE /\ Head(up).kind = "start" /\ gPhase = "starting" /\ gPhase' = "sending"
             /\ mistaken' <=> Head(up).session # begins
    <3>1. dl_part
      BY <2>1, <2>2 DEF Opened
    <3>2. ~mistaken' => Started
      BY <2>1, <2>2 DEF Started
    <3>3. QED BY <1>0, <2>1, <2>2, <3>1, <3>2 DEF Opened, Ending
  <2>3. CASE gPhase = "sending" /\ gPhase' \in {"sending", "idle"} /\ gPos' \in {gPos, gPos + 1}
             /\ (mistaken => mistaken')
    BY <1>0, <2>1, <2>3 DEF Opened, Ending
  <2>4. QED BY <1>3, <2>2, <2>3, HearsFacts
<1>4. CASE AnswerLost
  <2>1. /\ UNCHANGED <<update_file_cur_size, dl_part, rf, down, gImage, gPhase, gPos, mistaken, begins, resets>>
        /\ Under(up') \subseteq Under(up)
    BY <1>4, TailFacts DEF AnswerLost
  <2>2. Started' => Started
    BY <2>1 DEF Started
  <2>3. QED BY <1>0, <2>1, <2>2 DEF Opened, Ending
<1>5. CASE Handler
  <2>1. /\ rf = "run" /\ down.kind # "none" /\ down'.kind = "none"
        /\ UNCHANGED <<gImage, gPhase, gPos, mistaken, begins, resets>>
        /\ \A a \in Under(up') : a \in Under(up) \/ (a.kind = "start" => lora_ota_begin)
    BY <1>5, HandlerFacts, NoFrameKind
  <2>2. CASE lora_ota_begin
    <3>1. dl_part' = TRUE /\ rf' = rf
      BY <2>2 DEF lora_ota_begin
    <3>2. QED BY <1>0, <2>1, <3>1 DEF Opened, Ending
  <2>3. CASE ~lora_ota_begin
    <3>1. Started' => Started
      BY <2>1, <2>3 DEF Started
    <3>2. dl_part' = dl_part /\ (~dl_part => update_file_cur_size' = update_file_cur_size)
      BY <1>5, <2>3 DEF Handler, ReceiveOld, WriteFails, ReceiveNew, ReceiveUnopened, lora_ota_end
    <3>3. Ending' => down.kind = "end"
      BY <1>5, <2>1, <2>3 DEF Handler, ReceiveOld, WriteFails, ReceiveNew, ReceiveUnopened,
                             lora_ota_end, Ending, Arrives
    <3>4. gPhase' = "starting" /\ Started' => ~Ending'
      BY <2>1, <3>1, <3>3 DEF Opened
    <3>5. \A a \in Under(up') : a.kind = "start" => dl_part'
      BY <2>1, <2>3, <3>2 DEF Opened
    <3>6. QED BY <1>0, <2>1, <3>2, <3>3, <3>4, <3>5 DEF Opened
  <2>4. QED BY <2>2, <2>3
<1>6. CASE EndReset \/ PowerLoss
  <2>1. Reboot /\ (resets' > 0 \/ (Ending /\ resets' = resets))
    BY <1>0, <1>6 DEF EndReset, PowerLoss, Ending
  <2>2. /\ update_file_cur_size' = 0 /\ ~Ending' /\ down'.kind = "none" /\ Under(up') = {}
        /\ UNCHANGED <<gImage, gPhase, gPos, mistaken, begins>>
    BY <2>1, RebootFacts, NoFrameKind DEF Ending
  <2>3. QED BY <1>0, <2>1, <2>2 DEF Opened, Started
<1>7. CASE UNCHANGED vars
  BY <1>7 DEF vars, Opened, Started, Ending
<1>8. QED
  BY <1>1, <1>2, <1>3, <1>4, <1>5, <1>6, <1>7, NextCases

-----------------------------------------------------------------------------

\* A begin leaves the cursor alone and can only blank places.
LEMMA BeginErases ==
  ASSUME TypeOK, lora_ota_begin
  PROVE  /\ update_file_cur_size' = update_file_cur_size
         /\ \A c \in Cell : flash'[c] \in {flash[c], Blank}
<1>1. update_file_cur_size' = update_file_cur_size
  BY DEF lora_ota_begin
<1>2. \A n \in Nat : \A c \in Cell : EraseTo(n)[c] \in {flash[c], Blank}
  BY DEF EraseTo
<1>3. down.kind # "none" /\ Length[down.image] \in Nat /\ \A n \in 0..Length[down.image] : n \in Nat
  BY FrameFields, OtaAssumption DEF lora_ota_begin, Arrives
<1>4. flash' = flash \/ \E n \in Nat : flash' = EraseTo(n)
  BY <1>3 DEF lora_ota_begin
<1>5. QED BY <1>1, <1>2, <1>4

LEMMA ErasedStep == IInv /\ [Next]_vars => Erased'
<1> SUFFICES ASSUME IInv, [Next]_vars PROVE Erased'
  OBVIOUS
<1> USE OtaAssumption DEF IInv, ram, unit, gateway
<1>0. /\ update_file_cur_size \in 0..PartLen /\ gPos \in Nat /\ gImage \in Image
      /\ Length[gImage] \in Nat \ {0} /\ mistaken \in BOOLEAN /\ dl_part \in BOOLEAN
      /\ gPhase \in {"idle", "starting", "sending"} /\ begins \in Nat
      /\ flash \in [Cell -> {Blank} \cup ({"torn", "whole"} \X Image)] /\ PartLen \in Nat
      /\ \A a \in Under(up) : a.session \in Nat
  BY AnswerFields DEF TypeOK
<1>1. CASE GatewayBegin
  <2>1. /\ begins' = begins + 1 /\ gPhase' = "starting"
        /\ UNCHANGED <<update_file_cur_size, dl_part, flash, down, up, mistaken>>
    BY <1>1 DEF GatewayBegin
  <2>2. ~Started'
    BY <1>0, <2>1 DEF Started, Tagged
  <2>3. QED BY <2>1, <2>2 DEF Erased, ProgramOnce
<1>2. CASE GatewaySend
  <2>1. /\ gPhase # "idle"
        /\ UNCHANGED <<update_file_cur_size, dl_part, flash, up, gImage, gPhase, gPos, mistaken, begins>>
        /\ down'.session = begins /\ down'.image = gImage /\ down'.offset = gPos
        /\ gPhase = "starting" => down'.kind = "begin"
        /\ gPhase = "sending" => down'.kind = IF gPos < Length[gImage] THEN "packet" ELSE "end"
    BY <1>2 DEF GatewaySend
  <2>2. Started' = Started /\ Clean(gImage)' = Clean(gImage)
    BY <2>1 DEF Started, Clean
  <2>3. ProgramOnce'
    <3> SUFFICES ASSUME ~mistaken', down'.kind = "packet", dl_part', update_file_cur_size' = down'.offset,
                        down'.offset \in Cell
                 PROVE  flash'[down'.offset] \in {Blank, Torn(down'.image)}
      BY DEF ProgramOnce
    <3>1. gPhase = "sending" /\ gPos < Length[gImage] /\ ~mistaken /\ dl_part
      BY <1>0, <2>1
    <3>2. Clean(gImage) /\ update_file_cur_size = gPos /\ gPos \in Cell
      BY <2>1, <3>1 DEF Erased
    <3>3. QED BY <1>0, <2>1, <3>1, <3>2 DEF Clean
  <2>4. QED BY <1>0, <2>1, <2>2, <2>3 DEF Erased
<1>3. CASE GatewayHears
  <2>1. /\ UNCHANGED <<update_file_cur_size, dl_part, flash, down, gImage, begins>>
        /\ Under(up') \subseteq Under(up) /\ Head(up) \in Under(up)
    BY <1>3, HearsFacts
  <2>2. Clean(gImage)' = Clean(gImage)
    BY <2>1 DEF Clean
  <2>3. CASE /\ Head(up).kind = "start" /\ gPhase = "starting" /\ gPhase' = "sending"
             /\ mistaken' <=> Head(up).session # begins
    <3>1. CASE mistaken'
      BY <2>3, <3>1 DEF Erased, ProgramOnce
    <3>2. CASE ~mistaken'
      <4>1. Started /\ dl_part
        BY <2>1, <2>3, <3>2 DEF Started, Opened
      <4>2. Clean(gImage)' /\ (down.kind = "none" \/ (down.kind = "begin" /\ down.session = begins))
        BY <2>2, <2>3, <4>1 DEF Erased, Opened
      <4>3. QED BY <2>1, <2>3, <4>1, <4>2 DEF Erased, ProgramOnce
    <3>3. QED BY <3>1, <3>2
  <2>4. CASE gPhase = "sending" /\ gPhase' \in {"sending", "idle"} /\ (mistaken => mistaken')
    <3>1. ProgramOnce'
      BY <2>1, <2>4 DEF Erased, ProgramOnce
    <3>2. QED BY <2>1, <2>2, <2>4, <3>1 DEF Erased
  <2>5. QED BY <1>3, <2>3, <2>4, HearsFacts
<1>4. CASE AnswerLost
  <2>1. /\ UNCHANGED <<update_file_cur_size, dl_part, flash, down, gImage, gPhase, mistaken, begins>>
        /\ Under(up') \subseteq Under(up)
    BY <1>4, TailFacts DEF AnswerLost
  <2>2. (Started' => Started) /\ Clean(gImage)' = Clean(gImage)
    BY <2>1 DEF Started, Clean
  <2>3. ProgramOnce'
    BY <2>1 DEF Erased, ProgramOnce
  <2>4. QED BY <2>1, <2>2, <2>3 DEF Erased
<1>5. CASE Handler
  <2>1. /\ down.kind # "none" /\ down'.kind = "none"
        /\ UNCHANGED <<gImage, gPhase, gPos, mistaken, begins, resets>>
        /\ \A a \in Under(up') :
              \/ a \in Under(up)
              \/ /\ a.session = down.session
                 /\ a.kind = "start" => lora_ota_begin /\ flash' = EraseTo(Length[down.image])
    BY <1>5, HandlerFacts, NoFrameKind
  <2>2. SUFFICES /\ gPhase = "starting" /\ Started' => Clean(gImage)'
                 /\ gPhase = "sending" /\ ~mistaken /\ dl_part' => Clean(gImage)'
    BY <2>1, <2>2 DEF Erased, ProgramOnce
  <2>3. ASSUME gPhase = "starting", Started' PROVE Clean(gImage)'
    <3>1. CASE Started
      <4>1. Clean(gImage) /\ down.kind = "begin"
        BY <2>1, <2>3, <3>1 DEF Erased, Opened
      <4>2. lora_ota_begin
        BY <1>5, <4>1 DEF Handler, ReceiveOld, WriteFails, ReceiveNew, ReceiveUnopened, lora_ota_end, Arrives
      <4>3. QED BY <2>1, <4>1, <4>2, BeginErases DEF Clean
    <3>2. CASE ~Started
      <4>1. PICK a \in Under(up') : a.kind = "start" /\ a.session = begins
        BY <2>1, <2>3 DEF Started
      <4>2. lora_ota_begin /\ flash' = EraseTo(Length[down.image]) /\ down.session = begins
        BY <2>1, <3>2, <4>1 DEF Started
      <4>3. down.image = gImage
        BY <2>1, <4>2 DEF Tagged
      <4>4. QED BY <1>0, <2>1, <4>2, <4>3 DEF Clean, EraseTo
    <3>3. QED BY <3>1, <3>2
  <2>4. ASSUME gPhase = "sending", ~mistaken, dl_part' PROVE Clean(gImage)'
    <3>1. down.image = gImage /\ (down.kind = "begin" => dl_part)
      BY <2>1, <2>4 DEF Erased, Tagged
    <3>2. CASE lora_ota_begin
      <4>1. dl_part
        BY <3>1, <3>2 DEF lora_ota_begin, Arrives
      <4>2. QED BY <2>1, <2>4, <3>2, <4>1, BeginErases DEF Erased, Clean
    <3>3. CASE ~lora_ota_begin
      <4>1. dl_part
        BY <1>5, <2>4, <3>3 DEF Handler, ReceiveOld, WriteFails, ReceiveNew, ReceiveUnopened, lora_ota_end
      <4>2. Clean(gImage)
        BY <2>4, <4>1 DEF Erased
      <4>3. CASE flash' = flash /\ update_file_cur_size' = update_file_cur_size
        BY <2>1, <4>2, <4>3 DEF Clean
      <4>4. CASE WriteFails
        <5>1. /\ update_file_cur_size' = update_file_cur_size
              /\ flash' = flash \/ flash' = [flash EXCEPT ![down.offset] = Torn(gImage)]
          BY <3>1, <4>4 DEF WriteFails
        <5>2. QED BY <1>0, <2>1, <4>2, <5>1 DEF Clean
      <4>5. CASE ReceiveNew
        <5>1. /\ update_file_cur_size' = update_file_cur_size + 1 /\ down.offset = update_file_cur_size
              /\ flash' = [flash EXCEPT ![down.offset] = Whole(gImage)]
          BY <3>1, <4>5 DEF ReceiveNew
        <5>2. QED BY <1>0, <2>1, <4>2, <5>1 DEF Clean, Cell
      <4>6. QED
        BY <1>5, <3>3, <4>3, <4>4, <4>5 DEF Handler, ReceiveOld, ReceiveUnopened, lora_ota_end
    <3>4. QED BY <3>2, <3>3
  <2>5. QED BY <2>3, <2>4
<1>6. CASE EndReset \/ PowerLoss
  <2>1. dl_part' = FALSE /\ down'.kind = "none" /\ Under(up') = {}
    BY <1>6, RebootFacts, NoFrameKind DEF EndReset, PowerLoss
  <2>2. QED BY <2>1 DEF Erased, ProgramOnce, Started
<1>7. CASE UNCHANGED vars
  BY <1>7 DEF vars, Erased, ProgramOnce, Started, Clean
<1>8. QED
  BY <1>1, <1>2, <1>3, <1>4, <1>5, <1>6, <1>7, NextCases

-----------------------------------------------------------------------------

LEMMA AheadStep == IInv /\ [Next]_vars => Ahead'
<1> SUFFICES ASSUME IInv, [Next]_vars PROVE Ahead'
  OBVIOUS
<1> USE OtaAssumption DEF IInv, ram, unit, gateway
<1>0. /\ update_file_cur_size \in 0..PartLen /\ gPos \in Nat /\ gImage \in Image
      /\ Length[gImage] \in Nat \ {0} /\ mistaken \in BOOLEAN
      /\ gPhase \in {"idle", "starting", "sending"} /\ begins \in Nat /\ resets \in Nat
      /\ flash \in [Cell -> {Blank} \cup ({"torn", "whole"} \X Image)] /\ PartLen \in Nat
      /\ \A a \in Under(up) : a.session \in Nat \ {0} /\ a.offset \in Nat
  BY AnswerFields DEF TypeOK
<1>1. CASE GatewayBegin
  <2>1. /\ begins' = begins + 1 /\ gPhase' = "starting" /\ gPos' = 0 /\ gImage' \in Image
        /\ UNCHANGED <<update_file_cur_size, flash, rf, down, up, mistaken, resets>>
    BY <1>1 DEF GatewayBegin
  <2>2. ASSUME FirstSession'
        PROVE  /\ update_file_cur_size = 0 /\ ~mistaken /\ ~Ending /\ down = NoFrame /\ Under(up) = {}
    BY <1>0, <2>1, <2>2 DEF FirstSession, Ahead, Tagged
  <2>3. ASSUME FirstSession' PROVE InStep'
    BY <1>0, <2>1, <2>2, <2>3, NoFrameKind DEF InStep, AcknowledgedIsWritten
  <2>4. (Ending' <=> Ending) /\ Length[gImage'] \in Nat /\ begins' # 0
    BY <1>0, <2>1 DEF Ending
  <2>5. QED BY <1>0, <2>1, <2>2, <2>3, <2>4, NoFrameKind DEF Ahead
<1>2. CASE GatewaySend
  <2>1. /\ gPhase # "idle" /\ begins # 0
        /\ UNCHANGED <<update_file_cur_size, flash, rf, up, gImage, gPhase, gPos, mistaken, begins, resets>>
        /\ down'.offset = gPos
        /\ gPhase = "starting" => down'.kind = "begin"
        /\ gPhase = "sending" => down'.kind = IF gPos < Length[gImage] THEN "packet" ELSE "end"
    BY <1>2 DEF GatewaySend, Ahead
  <2>2. ASSUME FirstSession, ~mistaken PROVE InStep'
    <3>1. InStep /\ (gPhase = "starting" => update_file_cur_size = 0 /\ gPos = 0)
      BY <2>2 DEF Ahead
    <3>2. AcknowledgedIsWritten'
      BY <2>1, <3>1 DEF InStep, AcknowledgedIsWritten, FirstSession
    <3>3. QED BY <1>0, <2>1, <3>1, <3>2 DEF InStep
  <2>3. QED BY <1>0, <2>1, <2>2 DEF Ahead, FirstSession, Ending
<1>3. CASE GatewayHears
  <2>1. /\ UNCHANGED <<update_file_cur_size, flash, rf, down, gImage, begins, resets>>
        /\ Under(up') \subseteq Under(up) /\ Head(up) \in Under(up) /\ begins # 0
    BY <1>3, HearsFacts DEF Ahead
  <2>2. CASE gPhase = "starting" /\ gPhase' = "sending" /\ gPos' = gPos
    <3>1. ASSUME FirstSession PROVE InStep'
      <4>1. InStep /\ update_file_cur_size = 0 /\ gPos = 0
        BY <2>2, <3>1 DEF Ahead
      <4>2. QED BY <1>0, <2>1, <2>2, <4>1 DEF InStep, AcknowledgedIsWritten
    <3>2. QED BY <1>0, <2>1, <2>2, <3>1 DEF Ahead, FirstSession, Ending
  <2>3. CASE /\ Head(up).kind = "ack" /\ gPhase = "sending" /\ gPhase' = "sending"
             /\ gPos < Length[gImage] /\ gPos' = gPos + 1
             /\ mistaken' <=> mistaken \/ Head(up).session # begins \/ Head(up).offset # gPos
    <3>1. ASSUME FirstSession, ~mistaken' PROVE InStep'
      <4>1. InStep /\ Head(up).offset = gPos
        BY <2>3, <3>1 DEF Ahead
      <4>2. gPos < update_file_cur_size
        BY <2>1, <2>3, <4>1 DEF InStep
      <4>3. AcknowledgedIsWritten'
        <5> SUFFICES ASSUME NEW c \in 0..(gPos' - 1) PROVE c \in Cell /\ flash'[c] = Whole(gImage')
          BY DEF AcknowledgedIsWritten
        <5>1. c \in Cell /\ c \in 0..(update_file_cur_size - 1)
          BY <1>0, <2>3, <4>2 DEF Cell
        <5>2. QED BY <2>1, <4>1, <5>1 DEF InStep
      <4>4. QED BY <1>0, <2>1, <2>3, <4>1, <4>2, <4>3 DEF InStep
    <3>2. QED BY <1>0, <2>1, <2>3, <3>1 DEF Ahead, FirstSession, Ending
  <2>4. CASE gPhase = "sending" /\ gPhase' = "idle" /\ UNCHANGED <<gPos, mistaken>>
    <3>1. ASSUME FirstSession, ~mistaken PROVE InStep'
      <4>1. InStep
        BY <3>1 DEF Ahead
      <4>2. QED BY <1>0, <2>1, <2>4, <4>1 DEF InStep, AcknowledgedIsWritten
    <3>2. QED BY <1>0, <2>1, <2>4, <3>1 DEF Ahead, FirstSession, Ending
  <2>5. QED BY <1>3, <2>2, <2>3, <2>4, HearsFacts
<1>4. CASE AnswerLost
  <2>1. /\ UNCHANGED <<update_file_cur_size, flash, rf, down, gImage, gPhase, gPos, mistaken, begins, resets>>
        /\ Under(up') \subseteq Under(up)
    BY <1>4, TailFacts DEF AnswerLost
  <2>2. InStep => InStep'
    BY <2>1 DEF InStep, AcknowledgedIsWritten, FirstSession
  <2>3. QED BY <2>1, <2>2 DEF Ahead, FirstSession, Ending
<1>5. CASE Handler
  <2>1. /\ rf = "run" /\ down.kind # "none" /\ down' = NoFrame /\ down'.kind = "none"
        /\ UNCHANGED <<gImage, gPhase, gPos, mistaken, begins, resets>>
        /\ \A a \in Under(up') :
              \/ a \in Under(up)
              \/ a.offset = down.offset /\ (a.kind = "ack" => ReceiveOld \/ ReceiveNew)
    BY <1>5, HandlerFacts, NoFrameKind
  <2>2. /\ down.session \in Nat \ {0} /\ down.offset \in Nat
        /\ FirstSession => down.image = gImage
    <3>1. down.session \in Nat \ {0} /\ down.offset \in Nat
      BY <2>1, FrameFields
    <3>2. FirstSession => down.session = begins
      BY <1>0, <2>1, <3>1 DEF Tagged, FirstSession
    <3>3. QED BY <2>1, <3>1, <3>2 DEF Tagged
  <2>3. Ending' => down.kind = "end"
    BY <1>5, <2>1 DEF Handler, lora_ota_begin, ReceiveOld, WriteFails, ReceiveNew, ReceiveUnopened,
                      lora_ota_end, Ending, Arrives
  <2>4. down.kind # "packet" => update_file_cur_size' = update_file_cur_size
    BY <1>5 DEF Handler, lora_ota_begin, ReceiveOld, WriteFails, ReceiveNew, ReceiveUnopened,
                lora_ota_end, Arrives
  <2>5. ASSUME FirstSession, ~mistaken PROVE InStep'
    <3>1. InStep
      BY <2>5 DEF Ahead
    <3>2. CASE lora_ota_begin
      <4>1. update_file_cur_size = 0 /\ update_file_cur_size' = 0 /\ gPos = 0
        BY <3>1, <3>2 DEF InStep, lora_ota_begin, Arrives
      <4>2. \A a \in Under(up') : a.kind = "ack" => a \in Under(up)
        BY <2>1, <3>2 DEF lora_ota_begin, ReceiveOld, ReceiveNew, Arrives
      <4>3. QED BY <1>0, <2>1, <3>1, <4>1, <4>2 DEF InStep, AcknowledgedIsWritten
    <3>3. CASE ReceiveOld
      <4>1. /\ UNCHANGED <<update_file_cur_size, flash>> /\ down.offset # update_file_cur_size
            /\ down.kind = "packet"
        BY <3>3 DEF ReceiveOld, Arrives
      <4>2. down.offset < update_file_cur_size
        BY <1>0, <2>2, <3>1, <4>1 DEF InStep
      <4>3. QED BY <1>0, <2>1, <3>1, <4>1, <4>2 DEF InStep, AcknowledgedIsWritten, FirstSession
    <3>4. CASE WriteFails
      <4>1. /\ update_file_cur_size' = update_file_cur_size /\ down.offset = update_file_cur_size
            /\ down.kind = "packet" /\ up' = up
            /\ \A c \in Cell : c # down.offset => flash'[c] = flash[c]
        BY <1>0, <3>4 DEF WriteFails, Arrives
      <4>2. \A c \in 0..(update_file_cur_size - 1) : c \in Cell /\ flash'[c] = flash[c]
        BY <1>0, <4>1 DEF Cell
      <4>3. AcknowledgedIsWritten'
        <5> SUFFICES ASSUME gPhase' = "sending", NEW c \in 0..(gPos' - 1)
                     PROVE  c \in Cell /\ flash'[c] = Whole(gImage')
          BY DEF AcknowledgedIsWritten
        <5>1. c \in 0..(update_file_cur_size - 1)
          BY <1>0, <2>1, <3>1, <4>1 DEF InStep
        <5>2. QED BY <2>1, <3>1, <4>2, <5>1 DEF InStep
      <4>4. QED BY <1>0, <2>1, <3>1, <4>1, <4>2, <4>3 DEF InStep
    <3>5. CASE ReceiveNew
      <4>1. /\ update_file_cur_size' = update_file_cur_size + 1 /\ down.offset = update_file_cur_size
            /\ down.kind = "packet" /\ down.offset \in Cell
            /\ flash' = [flash EXCEPT ![down.offset] = Whole(gImage)]
        BY <2>2, <2>5, <3>5 DEF ReceiveNew, Arrives
      <4>2. \A c \in 0..(update_file_cur_size' - 1) : c \in Cell /\ flash'[c] = Whole(gImage')
        <5> SUFFICES ASSUME NEW c \in 0..(update_file_cur_size' - 1)
                     PROVE  c \in Cell /\ flash'[c] = Whole(gImage')
          OBVIOUS
        <5>1. c = down.offset \/ c \in 0..(update_file_cur_size - 1)
          BY <1>0, <4>1
        <5>2. c \in Cell
          BY <1>0, <4>1, <5>1 DEF Cell
        <5>3. QED BY <1>0, <2>1, <3>1, <4>1, <5>1, <5>2 DEF InStep
      <4>3. AcknowledgedIsWritten'
        <5> SUFFICES ASSUME gPhase' = "sending", NEW c \in 0..(gPos' - 1)
                     PROVE  c \in Cell /\ flash'[c] = Whole(gImage')
          BY DEF AcknowledgedIsWritten
        <5>1. c \in 0..(update_file_cur_size' - 1)
          BY <1>0, <2>1, <3>1, <4>1 DEF InStep
        <5>2. QED BY <4>2, <5>1
      <4>4. \A a \in Under(up') : a.kind = "ack" => a.offset < update_file_cur_size'
        BY <1>0, <2>1, <3>1, <4>1 DEF InStep
      <4>5. QED BY <1>0, <2>1, <3>1, <4>1, <4>2, <4>3, <4>4 DEF InStep
    <3>6. CASE ReceiveUnopened \/ lora_ota_end
      <4>1. UNCHANGED <<update_file_cur_size, flash>>
        BY <3>6 DEF ReceiveUnopened, lora_ota_end
      <4>2. \A a \in Under(up') : a.kind = "ack" => a \in Under(up)
        <5>1. CASE ReceiveUnopened
          BY <5>1 DEF ReceiveUnopened
        <5>2. CASE lora_ota_end
          BY <2>1, <5>2 DEF lora_ota_end, ReceiveOld, ReceiveNew, Arrives
        <5>3. QED BY <3>6, <5>1, <5>2
      <4>3. QED BY <1>0, <2>1, <3>1, <4>1, <4>2 DEF InStep, AcknowledgedIsWritten, FirstSession
    <3>7. QED BY <1>5, <3>2, <3>3, <3>4, <3>5, <3>6 DEF Handler
  <2>6. QED BY <1>0, <2>1, <2>3, <2>4, <2>5 DEF Ahead, FirstSession
<1>6. CASE EndReset \/ PowerLoss
  <2>1. Reboot /\ (FirstSession' => FirstSession /\ Ending)
    <3>1. CASE EndReset
      BY <3>1, RebootFacts DEF EndReset, FirstSession, Ending
    <3>2. CASE PowerLoss
      BY <1>0, <3>2 DEF PowerLoss, FirstSession
    <3>3. QED BY <1>6, <3>1, <3>2
  <2>2. /\ update_file_cur_size' = 0 /\ ~Ending' /\ down' = NoFrame /\ down'.kind = "none"
        /\ Under(up') = {} /\ UNCHANGED <<flash, gImage, gPhase, gPos, mistaken, begins>>
    BY <2>1, RebootFacts, NoFrameKind DEF Ending
  <2>3. ASSUME FirstSession', ~mistaken' PROVE InStep'
    <3>1. InStep /\ gPos = Length[gImage]
      BY <2>1, <2>2, <2>3 DEF Ahead
    <3>2. QED BY <1>0, <2>1, <2>2, <2>3, <3>1 DEF InStep, AcknowledgedIsWritten
  <2>4. QED BY <1>0, <2>1, <2>2, <2>3 DEF Ahead
<1>7. CASE UNCHANGED vars
  BY <1>7 DEF vars, Ahead, InStep, AcknowledgedIsWritten, FirstSession, Ending
<1>8. QED
  BY <1>1, <1>2, <1>3, <1>4, <1>5, <1>6, <1>7, NextCases

LEMMA Inductive == Spec => []IInv
<1>1. IInv /\ [Next]_vars => IInv'
  BY TypeStep, TaggedStep, OpenedStep, ErasedStep, AheadStep DEF IInv
<1>2. QED BY InitOK, <1>1, PTL DEF Spec

-----------------------------------------------------------------------------

\* The cursor stays inside the partition and every variable in its type, for any
\* number of sessions, resets, late answers and failed writes (lora_ota.c).
THEOREM OtaTypeCorrect == Spec => []TypeOK
<1>1. IInv => TypeOK
  BY DEF IInv
<1>2. QED BY Inductive, <1>1, PTL

\* No packet of the first session is taken for acknowledged unwritten, as long as
\* each answer of lora_ota_receive was taken for the packet it answers.
THEOREM OtaAcknowledged == Spec => []AcknowledgedIsWritten
<1>1. IInv => AcknowledgedIsWritten
  BY DEF IInv, Ahead, InStep, AcknowledgedIsWritten
<1>2. QED BY Inductive, <1>1, PTL

\* What lora_ota_receive is about to program is blank, or partly programmed by the
\* same packet, in any sequence of sessions and resets in which no late answer was
\* mistaken for another: the cursor and dl_part together see to it.
THEOREM OtaProgramOnce == Spec => []ProgramOnce
<1>1. IInv => ProgramOnce
  BY DEF IInv, Erased
<1>2. QED BY Inductive, <1>1, PTL

\* Only a first packet, after a reset or a mistaken start answer, meets the
\* unopened partition in fal_partition_write.
THEOREM OtaUnopened == Spec => UnopenedOnlyAfterReset
<1>1. IInv /\ [Next]_vars
        => [rf' = "assert" /\ rf # "assert" => down.offset = 0 /\ (resets > 0 \/ mistaken)]_vars
  <2> SUFFICES ASSUME IInv, Next, rf' = "assert", rf # "assert"
               PROVE  down.offset = 0 /\ (resets > 0 \/ mistaken)
    OBVIOUS
  <2>1. ReceiveUnopened
    BY DEF Next, GatewayBegin, GatewaySend, GatewayHears, AnswerLost, lora_ota_begin, ReceiveOld,
           WriteFails, ReceiveNew, lora_ota_end, EndReset, PowerLoss, Reboot, unit
  <2>2. down.kind = "packet" /\ down.offset = update_file_cur_size /\ ~dl_part
    BY <2>1 DEF ReceiveUnopened, Arrives
  <2>3. QED BY <2>2 DEF IInv, Opened
<1>2. QED BY Inductive, <1>1, PTL DEF Spec, UnopenedOnlyAfterReset

=============================================================================
