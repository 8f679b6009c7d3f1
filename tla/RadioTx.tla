------------------------------ MODULE RadioTx ------------------------------
(***************************************************************************)
(* The transmit path: lora_tx_enqueue, the radio_send thread               *)
(* (rf_encode_entry, rf_send_with_lbt of radio/radio_encoder.c), the       *)
(* listen-before-talk check of radio/radio_csma.c, the radio callbacks of  *)
(* radio/radio_app.c and the interrupt half of the driver                  *)
(* (SubGHz_Phy/stm32_radio_driver/radio.c).                                *)
(*                                                                         *)
(* An interrupt of the radio only stores its cause in the one word         *)
(* SubgRf.RadioIrq and wakes the RF thread, which calls back later: that   *)
(* thread sleeps in flash writes and erases, so a cause may be handled     *)
(* long after it arose, when the radio is doing something else, or be      *)
(* overwritten by the next one.  Two driver timers matter too: nothing     *)
(* stops the 4 min receive timer when a transmission begins, and only      *)
(* TX_DONE stops the 5 s transmit timer.  Messages are numbered in the     *)
(* order they are produced.  The gateway, its acknowledgements (which      *)
(* carry no number) and the losses of the air are external.                *)
(***************************************************************************)
EXTENDS Integers, Sequences

CONSTANTS N,                     \* messages the handlers produce
          Confirmed,             \* the ones of type MSG_CONFIRMED_UPLINK
          QueueSize,             \* messages rf_en_mq can hold
          MAX_LBT_RETRY_TIMES,
          MAX_ACK_RETRY_TIMES

Msg == 1..N

ASSUME TxAssumption ==
  /\ N \in Nat /\ Confirmed \subseteq Msg
  /\ QueueSize \in Nat \ {0}
  /\ MAX_LBT_RETRY_TIMES \in Nat \ {0}
  /\ MAX_ACK_RETRY_TIMES \in Nat \ {0}

VARIABLES made,      \* messages produced so far
          rf_en_mq,  \* the message queue
          pc, cur, retry_times, lbt,   \* the radio_send thread
          mode, chan, onAir,           \* the radio: what it does, its channel, the frame it sends
          rxTimer, txTimer,            \* the driver's timers are running
          irq,                         \* SubgRf.RadioIrq, "none" once the RF thread has handled it
          cad_detected,
          rf_txdone_sem, rf_ack_sem,   \* the completions: done or not
          fate,                        \* what became of each message
          sends,                       \* transmissions of each message
          heard,                       \* rf_ack_callback has run since the attempt began
          cut,                         \* a late CAD result has put a receiving or sending radio in standby
          gwGot, gwLast, gwOwes        \* gateway: received, last received, acks to send

thread  == <<pc, cur, retry_times, lbt>>
radio   == <<mode, chan, onAir, rxTimer, cut>>
driver  == <<txTimer, irq, cad_detected>>
sems    == <<rf_txdone_sem, rf_ack_sem>>
history == <<fate, sends, heard>>
gw      == <<gwGot, gwLast, gwOwes>>
vars    == <<made, rf_en_mq, thread, radio, driver, sems, history, gw>>

Init ==
  /\ made = 0 /\ rf_en_mq = <<>>
  /\ pc = "idle" /\ cur = 0 /\ retry_times = 0 /\ lbt = 0
  /\ mode = "rx" /\ chan = "rx" /\ onAir = 0 /\ rxTimer = TRUE /\ cut = FALSE
  /\ txTimer = FALSE /\ irq = "none" /\ cad_detected = FALSE
  /\ rf_txdone_sem = FALSE /\ rf_ack_sem = FALSE
  /\ fate = [m \in Msg |-> "none"] /\ sends = [m \in Msg |-> 0] /\ heard = FALSE
  /\ gwGot = {} /\ gwLast = 0 /\ gwOwes = {}

-----------------------------------------------------------------------------
(* The producers: any handler, from any thread.                            *)

\* Seeded fault: the newest message is put in front (rt_mq_urgent).
Faulty_lora_tx_enqueue ==
  /\ made < N
  /\ made' = made + 1
  /\ IF Len(rf_en_mq) < QueueSize
     THEN rf_en_mq' = <<made + 1>> \o rf_en_mq /\ fate' = [fate EXCEPT ![made + 1] = "queued"]
     ELSE fate' = [fate EXCEPT ![made + 1] = "dropped"] /\ UNCHANGED rf_en_mq
  /\ UNCHANGED <<thread, radio, driver, sems, sends, heard, gw>>

\* rt_mq_send does not wait, and its result is ignored: a full queue drops.
lora_tx_enqueue ==
  /\ made < N
  /\ made' = made + 1
  /\ IF Len(rf_en_mq) < QueueSize
     THEN rf_en_mq' = Append(rf_en_mq, made + 1) /\ fate' = [fate EXCEPT ![made + 1] = "queued"]
     ELSE fate' = [fate EXCEPT ![made + 1] = "dropped"] /\ UNCHANGED rf_en_mq
  /\ UNCHANGED <<thread, radio, driver, sems, sends, heard, gw>>

-----------------------------------------------------------------------------
(* The radio_send thread.                                                  *)

\* Seeded fault: Radio.Rx(0), a reception without the 4 min timer.
Faulty_radio_recv_start ==
  mode' = "rx" /\ chan' = "rx" /\ onAir' = 0 /\ rxTimer' = FALSE /\ cut' = FALSE

\* Receive without end; every Radio.Rx(4 min) starts the receive timer anew.
radio_recv_start ==
  mode' = "rx" /\ chan' = "rx" /\ onAir' = 0 /\ rxTimer' = TRUE /\ cut' = FALSE

Receive ==
  /\ pc = "idle" /\ rf_en_mq # <<>>
  /\ cur' = Head(rf_en_mq) /\ rf_en_mq' = Tail(rf_en_mq)
  /\ retry_times' = 0 /\ pc' = "attempt"
  /\ UNCHANGED <<made, lbt, radio, driver, sems, history, gw>>

\* The head of the retry loop: rt_completion_init(&rf_ack_sem), for a
\* confirmed message; then rf_send_with_lbt.
BeginAttempt ==
  /\ pc = "attempt"
  /\ rf_ack_sem' = IF cur \in Confirmed THEN FALSE ELSE rf_ack_sem
  /\ heard' = FALSE
  /\ lbt' = 0 /\ pc' = "csma"
  /\ UNCHANGED <<made, rf_en_mq, cur, retry_times, radio, driver, rf_txdone_sem, fate, sends, gw>>

\* csma_check_start up to its 10 ms sleep: standby, set the channel, start CAD.
CsmaStart ==
  /\ pc = "csma"
  /\ cad_detected' = FALSE
  /\ mode' = "cad" /\ chan' = "tx" /\ onAir' = 0 /\ cut' = FALSE
  /\ pc' = "sense"
  /\ UNCHANGED <<made, rf_en_mq, cur, retry_times, lbt, rxTimer, txTimer, irq, sems, history, gw>>

\* After the sleep: OnCadDone has reported a preamble.  The radio stays as it is.
CadBusy ==
  /\ pc = "sense" /\ cad_detected
  /\ pc' = "backoff"
  /\ UNCHANGED <<made, rf_en_mq, cur, retry_times, lbt, radio, driver, sems, history, gw>>

\* After the sleep, nothing reported (or not yet): IsChannelFree measures the
\* channel and leaves the radio in standby on it.
SenseDone(free) ==
  /\ pc = "sense" /\ ~cad_detected
  /\ mode' = "standby" /\ chan' = "tx" /\ onAir' = 0 /\ cut' = FALSE
  /\ pc' = IF free THEN "send" ELSE "backoff"
  /\ UNCHANGED <<made, rf_en_mq, cur, retry_times, lbt, rxTimer, driver, sems, history, gw>>

\* The 500-800 ms sleep is over; when the tries are used up the channel is busy.
Backoff ==
  /\ pc = "backoff"
  /\ lbt' = lbt + 1
  /\ pc' = IF lbt + 1 < MAX_LBT_RETRY_TIMES THEN "csma" ELSE "busy"
  /\ UNCHANGED <<made, rf_en_mq, cur, retry_times, radio, driver, sems, history, gw>>

\* Seeded fault: one attempt too many.
Faulty_AfterFailure ==
  IF cur \in Confirmed /\ retry_times < MAX_ACK_RETRY_TIMES
  THEN pc' = "attempt" /\ retry_times' = retry_times + 1 /\ UNCHANGED fate
  ELSE pc' = "idle" /\ fate' = [fate EXCEPT ![cur] = "failed"] /\ UNCHANGED retry_times

\* What rf_encode_entry does when an attempt has failed.
AfterFailure ==
  IF cur \in Confirmed /\ retry_times + 1 < MAX_ACK_RETRY_TIMES
  THEN pc' = "attempt" /\ retry_times' = retry_times + 1 /\ UNCHANGED fate
  ELSE pc' = "idle" /\ fate' = [fate EXCEPT ![cur] = "failed"] /\ UNCHANGED retry_times

\* Seeded fault: the busy path returns without listening again.
Faulty_ChannelBusy ==
  /\ pc = "busy"
  /\ AfterFailure
  /\ UNCHANGED <<made, rf_en_mq, cur, lbt, radio, driver, sems, sends, heard, gw>>

ChannelBusy ==
  /\ pc = "busy"
  /\ radio_recv_start
  /\ AfterFailure
  /\ UNCHANGED <<made, rf_en_mq, cur, lbt, driver, sems, sends, heard, gw>>

\* Seeded fault: the acknowledgement is awaited from after the transmission on.
Faulty_SentOk ==
  /\ pc = "wait_tx" /\ rf_txdone_sem
  /\ rf_txdone_sem' = FALSE /\ rf_ack_sem' = FALSE
  /\ pc' = IF cur \in Confirmed THEN "wait_ack" ELSE "idle"
  /\ fate' = IF cur \in Confirmed THEN fate ELSE [fate EXCEPT ![cur] = "sent"]
  /\ UNCHANGED <<made, rf_en_mq, cur, retry_times, lbt, radio, driver, sends, heard, gw>>

\* rt_completion_init(&rf_txdone_sem), then RF_Send, which starts the transmit
\* timer and does not choose the channel.
Send ==
  /\ pc = "send"
  /\ rf_txdone_sem' = FALSE
  /\ mode' = "tx" /\ onAir' = cur /\ txTimer' = TRUE /\ cut' = FALSE
  /\ sends' = [sends EXCEPT ![cur] = @ + 1]
  /\ pc' = "wait_tx"
  /\ UNCHANGED <<made, rf_en_mq, cur, retry_times, lbt, chan, rxTimer, irq, cad_detected,
                 rf_ack_sem, fate, heard, gw>>

SentOk ==
  /\ pc = "wait_tx" /\ rf_txdone_sem
  /\ rf_txdone_sem' = FALSE
  /\ pc' = IF cur \in Confirmed THEN "wait_ack" ELSE "idle"
  /\ fate' = IF cur \in Confirmed THEN fate ELSE [fate EXCEPT ![cur] = "sent"]
  /\ UNCHANGED <<made, rf_en_mq, cur, retry_times, lbt, radio, driver, rf_ack_sem, sends, heard, gw>>

\* No TX_DONE handled in 1000 ms.
SendTimeout ==
  /\ pc = "wait_tx" /\ ~rf_txdone_sem
  /\ AfterFailure
  /\ UNCHANGED <<made, rf_en_mq, cur, lbt, radio, driver, sems, sends, heard, gw>>

AckOk ==
  /\ pc = "wait_ack" /\ rf_ack_sem
  /\ rf_ack_sem' = FALSE
  /\ pc' = "idle" /\ fate' = [fate EXCEPT ![cur] = "acked"]
  /\ UNCHANGED <<made, rf_en_mq, cur, retry_times, lbt, radio, driver, rf_txdone_sem, sends, heard, gw>>

\* Seeded fault: the wait for the acknowledgement never ends by itself.
Faulty_AckTimeout == FALSE

\* No acknowledgement in 1000 ms.
AckTimeout ==
  /\ pc = "wait_ack" /\ ~rf_ack_sem
  /\ AfterFailure
  /\ UNCHANGED <<made, rf_en_mq, cur, lbt, radio, driver, sems, sends, heard, gw>>

EncoderStep ==
  \/ Receive \/ BeginAttempt \/ CsmaStart \/ CadBusy \/ (\E free \in BOOLEAN : SenseDone(free))
  \/ Backoff \/ ChannelBusy \/ Send \/ SentOk \/ SendTimeout \/ AckOk \/ AckTimeout

-----------------------------------------------------------------------------
(* Interrupts of the radio: RadioOnDioIrq stores the cause over whatever   *)
(* the RF thread has not handled yet.                                      *)

\* Channel activity detection is over; the radio falls back to standby.
CadIrq(found) ==
  /\ mode = "cad" /\ mode' = "standby"
  /\ irq' = IF found THEN "cad_detected" ELSE "cad_clear"
  /\ UNCHANGED <<made, rf_en_mq, thread, chan, onAir, rxTimer, cut, txTimer, cad_detected,
                 sems, history, gw>>

\* The frame is out.  The gateway gets it or not, and never on another channel.
TxDoneIrq ==
  /\ mode = "tx" /\ mode' = "standby" /\ onAir' = 0
  /\ irq' = "tx_done"
  /\ \/ /\ chan = "tx"
        /\ gwGot' = gwGot \cup {onAir} /\ gwLast' = onAir
        /\ gwOwes' = gwOwes \cup ({onAir} \cap Confirmed)
     \/ UNCHANGED gw
  /\ UNCHANGED <<made, rf_en_mq, thread, chan, rxTimer, cut, txTimer, cad_detected, sems, history>>

\* An acknowledgement from the gateway, heard if the radio receives.
AckIrq(m) ==
  /\ m \in gwOwes /\ gwOwes' = gwOwes \ {m}
  /\ \/ mode = "rx" /\ irq' = "ack"
     \/ UNCHANGED irq
  /\ UNCHANGED <<made, rf_en_mq, thread, radio, txTimer, cad_detected, sems, history, gwGot, gwLast>>

\* Any other frame, or one with a header or CRC error.
FrameIrq ==
  /\ mode = "rx" /\ irq' = "frame"
  /\ UNCHANGED <<made, rf_en_mq, thread, radio, txTimer, cad_detected, sems, history, gw>>

-----------------------------------------------------------------------------
(* The RF thread: RadioIrqProcess and the callbacks it makes.              *)

OnTxDone ==
  /\ irq = "tx_done" /\ irq' = "none"
  /\ txTimer' = FALSE
  /\ radio_recv_start
  /\ rf_txdone_sem' = TRUE
  /\ UNCHANGED <<made, rf_en_mq, thread, cad_detected, rf_ack_sem, history, gw>>

\* Standby, whatever the radio has been told to do since; nothing restarts it.
OnCadDone ==
  /\ irq \in {"cad_clear", "cad_detected"} /\ irq' = "none"
  /\ mode' = "standby" /\ onAir' = 0
  /\ cut' = (cut \/ mode \in {"rx", "tx"})
  /\ cad_detected' = (irq = "cad_detected")
  /\ UNCHANGED <<made, rf_en_mq, thread, chan, rxTimer, txTimer, sems, history, gw>>

\* radio_recv_start comes first; then the frame is parsed, rf_ack_callback called.
OnRxDone ==
  /\ irq \in {"ack", "frame"} /\ irq' = "none"
  /\ radio_recv_start
  /\ IF irq = "ack" THEN rf_ack_sem' = TRUE /\ heard' = TRUE ELSE UNCHANGED <<rf_ack_sem, heard>>
  /\ UNCHANGED <<made, rf_en_mq, thread, txTimer, cad_detected, rf_txdone_sem, fate, sends, gw>>

RadioIrqProcess == OnTxDone \/ OnCadDone \/ OnRxDone

-----------------------------------------------------------------------------
(* The driver's timers, in the soft timer thread.                          *)

\* 5 s after RF_Send, so never within the 1 s in which the thread waits for it;
\* a transmission that was cut short leaves the timer running.
OnTxTimeout ==
  /\ txTimer /\ pc # "wait_tx"
  /\ txTimer' = FALSE
  /\ radio_recv_start
  /\ UNCHANGED <<made, rf_en_mq, thread, irq, cad_detected, sems, history, gw>>

\* 4 min after the last radio_recv_start, whatever the radio is doing.
OnRxTimeout ==
  /\ rxTimer
  /\ radio_recv_start
  /\ UNCHANGED <<made, rf_en_mq, thread, driver, sems, history, gw>>

RadioEvent ==
  \/ (\E found \in BOOLEAN : CadIrq(found)) \/ TxDoneIrq \/ (\E m \in Msg : AckIrq(m)) \/ FrameIrq
  \/ RadioIrqProcess \/ OnTxTimeout \/ OnRxTimeout

Next == lora_tx_enqueue \/ EncoderStep \/ RadioEvent

\* The thread is scheduled whenever it is ready and its waits are bounded; the
\* two timers are kernel timers.  Interrupts may fail to come, and the RF thread
\* is not relied upon.
Fairness == WF_vars(EncoderStep) /\ WF_vars(OnTxTimeout) /\ WF_vars(OnRxTimeout)

Spec == Init /\ [][Next]_vars /\ Fairness

-----------------------------------------------------------------------------
(* What the transmit path promises.                                        *)

\* Every variable keeps its type; the queue never exceeds its capacity.
TypeOK ==
  /\ made \in 0..N
  /\ rf_en_mq \in Seq(Msg) /\ Len(rf_en_mq) <= QueueSize
  /\ pc \in {"idle", "attempt", "csma", "sense", "backoff", "busy", "send", "wait_tx", "wait_ack"}
  /\ cur \in 0..N /\ (pc # "idle" => cur \in Msg)
  /\ retry_times \in 0..(MAX_ACK_RETRY_TIMES - 1)
  /\ lbt \in 0..MAX_LBT_RETRY_TIMES
  /\ mode \in {"rx", "standby", "cad", "tx"} /\ chan \in {"rx", "tx"} /\ onAir \in 0..N
  /\ irq \in {"none", "tx_done", "cad_clear", "cad_detected", "ack", "frame"}
  /\ rxTimer \in BOOLEAN /\ txTimer \in BOOLEAN /\ cut \in BOOLEAN /\ cad_detected \in BOOLEAN
  /\ rf_txdone_sem \in BOOLEAN /\ rf_ack_sem \in BOOLEAN /\ heard \in BOOLEAN
  /\ fate \in [Msg -> {"none", "queued", "dropped", "sent", "acked", "failed"}]
  /\ sends \in [Msg -> Nat]
  /\ gwGot \subseteq Msg /\ gwLast \in 0..N /\ gwOwes \subseteq Msg

\* When the thread goes back to its queue the radio receives, or the transmit
\* timer will make it receive within 5 s: every path of rf_send_with_lbt, the busy
\* one included, sees to that.  The one exception is a CAD result handled so late
\* that its standby hits the restarted reception (OnCadDone restarts nothing): no
\* sensor is heard then until the receive timer, which is running, ends.
DeafOnlyByLateCad == pc = "idle" /\ mode # "rx" => txTimer \/ (cut /\ rxTimer)

\* A message is put on the air at most MAX_ACK_RETRY_TIMES times, once if it is
\* not a confirmed one.
SendsBounded ==
  \A m \in Msg : sends[m] <= IF m \in Confirmed THEN MAX_ACK_RETRY_TIMES ELSE 1

\* The gateway never receives an older message after a newer one.
DeliveredInOrder == [][gwLast' >= gwLast]_vars

\* When the wait for an acknowledgement ends, the message has succeeded exactly if
\* rf_ack_callback ran since rt_completion_init of this attempt, however early (while
\* sensing, sending or before rt_completion_wait): none of an earlier attempt counts.
\* Nothing is said of an attempt whose sending fails (busy channel, no TX_DONE): it
\* never comes to the wait, and rf_encode_entry repeats or gives up the message
\* without looking at rf_ack_sem.
AckDecidesWait ==
  [][pc = "wait_ack" /\ pc' # "wait_ack" => (fate'[cur] = "acked" <=> heard)]_vars

\* Every message the queue accepted is disposed of: busy channels, lost frames
\* and silence never hold up the thread for good.
EveryMessageEnds ==
  \A m \in Msg : fate[m] = "queued" ~> fate[m] \in {"sent", "acked", "failed"}

\* The radio always comes back to listening: if TX_DONE never came, or was handled
\* late, and also after a late CAD result has switched reception off.
ListensAgain == mode # "rx" ~> mode = "rx"

\* "rf_send_with_lbt ack success" (radio_encoder.c): a message that ends with
\* success was received by the gateway.
AckedMeansDelivered == \A m \in Msg : fate[m] = "acked" => m \in gwGot

=============================================================================
