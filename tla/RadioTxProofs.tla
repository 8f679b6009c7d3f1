--------------------------- MODULE RadioTxProofs ---------------------------
(***************************************************************************)
(* Proofs about RadioTx, for any number of messages, any queue size and    *)
(* any retry limits.  Fairness plays no part: everything here is safety.   *)
(*                                                                         *)
(* The inductive invariant has five parts besides the types: Deafness (why *)
(* the radio may be doing something else than receiving), Acks (rf_ack_sem *)
(* is done exactly when an acknowledgement was heard during the attempt),  *)
(* Pending (no message still to be dealt with counts as acknowledged),     *)
(* Ordered (queue, current message, frame on the air and last frame        *)
(* received are in the order of production) and Counted (transmissions     *)
(* against retry_times).                                                   *)
(***************************************************************************)
EXTENDS RadioTx, TLAPS

\* Places of the thread between csma_check_start and RF_Send.
Sensing == {"csma", "sense", "backoff", "busy", "send"}

\* What TypeOK needs to be inductive.
Placed ==
  /\ pc \in {"csma", "sense", "backoff"} => lbt < MAX_LBT_RETRY_TIMES
  /\ mode = "tx" => onAir \in Msg

Deafness ==
  /\ rxTimer
  /\ mode # "rx" => pc \in Sensing \/ txTimer \/ cut

Acks ==
  /\ pc = "wait_ack" => cur \in Confirmed
  /\ cur \in Confirmed /\ pc \notin {"idle", "attempt"} => rf_ack_sem = heard

\* No message still to be dealt with counts as acknowledged.
Pending == \A m \in Msg : m > cur \/ (m = cur /\ pc # "idle") => fate[m] # "acked"

Ordered ==
  /\ cur <= made
  /\ \A i \in 1..Len(rf_en_mq) : cur < rf_en_mq[i] /\ rf_en_mq[i] <= made
  /\ \A i, j \in 1..Len(rf_en_mq) : i < j => rf_en_mq[i] < rf_en_mq[j]
  /\ gwLast <= cur
  /\ mode = "tx" => gwLast <= onAir /\ onAir <= cur

Limit(m) == IF m \in Confirmed THEN MAX_ACK_RETRY_TIMES ELSE 1

Counted ==
  /\ \A m \in Msg : m < cur => sends[m] <= Limit(m)
  /\ \A m \in Msg : m > cur => sends[m] = 0
  /\ cur \in Msg =>
       /\ pc = "idle" => sends[cur] <= Limit(cur)
       /\ pc \in Sensing \cup {"attempt"} => sends[cur] <= retry_times
       /\ pc \in {"wait_tx", "wait_ack"} => sends[cur] <= retry_times + 1
       /\ pc # "idle" /\ cur \notin Confirmed => retry_times = 0

IInv == TypeOK /\ Placed /\ Deafness /\ Acks /\ Pending /\ Ordered /\ Counted

-----------------------------------------------------------------------------

LEMMA InitOK == Init => IInv
<1> SUFFICES ASSUME Init PROVE IInv
  OBVIOUS
<1> USE TxAssumption
<1>1. TypeOK
  <2>1. /\ made \in 0..N /\ cur \in 0..N /\ onAir \in 0..N /\ gwLast \in 0..N
        /\ retry_times \in 0..(MAX_ACK_RETRY_TIMES - 1) /\ lbt \in 0..MAX_LBT_RETRY_TIMES
    BY DEF Init
  <2>2. rf_en_mq \in Seq(Msg) /\ Len(rf_en_mq) <= QueueSize
    BY DEF Init
  <2>3. /\ rxTimer \in BOOLEAN /\ txTimer \in BOOLEAN /\ cut \in BOOLEAN /\ cad_detected \in BOOLEAN
        /\ rf_txdone_sem \in BOOLEAN /\ rf_ack_sem \in BOOLEAN /\ heard \in BOOLEAN
    BY DEF Init
  <2>4. /\ fate \in [Msg -> {"none", "queued", "dropped", "sent", "acked", "failed"}]
        /\ sends \in [Msg -> Nat]
    BY DEF Init
  <2>5. pc = "idle" /\ mode = "rx" /\ chan = "rx" /\ irq = "none" /\ gwGot = {} /\ gwOwes = {}
    BY DEF Init
  <2>6. QED BY <2>1, <2>2, <2>3, <2>4, <2>5 DEF TypeOK
<1>2. Placed /\ Deafness /\ Acks /\ Pending
  BY DEF Init, Placed, Deafness, Acks, Pending
<1>3. Ordered
  BY DEF Init, Ordered
<1>4. Counted
  BY DEF Init, Counted, Msg
<1>5. QED BY <1>1, <1>2, <1>3, <1>4 DEF IInv

\* What an attempt that failed leads to.
LEMMA AfterFailureFacts ==
  ASSUME TypeOK, pc # "idle", AfterFailure
  PROVE  /\ pc' \in {"attempt", "idle"}
         /\ retry_times' \in 0..(MAX_ACK_RETRY_TIMES - 1)
         /\ fate' \in [Msg -> {"none", "queued", "dropped", "sent", "acked", "failed"}]
         /\ pc' = "attempt" => cur \in Confirmed /\ retry_times' = retry_times + 1
         /\ pc' = "idle" => retry_times' = retry_times
BY TxAssumption DEF AfterFailure, TypeOK

LEMMA TypeStep == TypeOK /\ Placed /\ [Next]_vars => TypeOK' /\ Placed'
<1> SUFFICES ASSUME TypeOK, Placed, [Next]_vars PROVE TypeOK' /\ Placed'
  OBVIOUS
<1> USE TxAssumption DEF TypeOK, Placed, thread, radio, driver, sems, history, gw
<1>0. ASSUME radio_recv_start
      PROVE  mode' = "rx" /\ chan' = "rx" /\ onAir' \in 0..N /\ rxTimer' \in BOOLEAN /\ cut' \in BOOLEAN
  <2>1. mode' = "rx" /\ chan' = "rx" /\ onAir' \in 0..N
    BY <1>0 DEF radio_recv_start
  <2>2. rxTimer' \in BOOLEAN /\ cut' \in BOOLEAN
    BY <1>0 DEF radio_recv_start
  <2>3. QED BY <2>1, <2>2
<1>1. CASE lora_tx_enqueue
  <2>1. made + 1 \in Msg /\ made' \in 0..N
    BY <1>1 DEF lora_tx_enqueue, Msg
  <2>2. rf_en_mq' \in Seq(Msg) /\ Len(rf_en_mq') <= QueueSize
    <3>1. CASE Len(rf_en_mq) < QueueSize
      <4>1. rf_en_mq' = Append(rf_en_mq, made + 1)
        BY <1>1, <3>1 DEF lora_tx_enqueue
      <4>2. Append(rf_en_mq, made + 1) \in Seq(Msg)
        BY <2>1
      <4>3. Len(Append(rf_en_mq, made + 1)) = Len(rf_en_mq) + 1
        BY <2>1
      <4>4. QED BY <3>1, <4>1, <4>2, <4>3
    <3>2. CASE ~(Len(rf_en_mq) < QueueSize)
      BY <1>1, <3>2 DEF lora_tx_enqueue
    <3>3. QED BY <3>1, <3>2
  <2>3. fate' \in [Msg -> {"none", "queued", "dropped", "sent", "acked", "failed"}]
    BY <1>1, <2>1 DEF lora_tx_enqueue
  <2>4. QED BY <1>1, <2>1, <2>2, <2>3 DEF lora_tx_enqueue
<1>2. CASE Receive
  <2>1. rf_en_mq' \in Seq(Msg) /\ Len(rf_en_mq') <= QueueSize /\ cur' \in Msg
    BY <1>2 DEF Receive
  <2>2. cur' \in 0..N
    BY <2>1 DEF Msg
  <2>3. QED BY <1>2, <2>1, <2>2 DEF Receive
<1>3. CASE BeginAttempt
  <2>1. rf_ack_sem' \in BOOLEAN
    BY <1>3 DEF BeginAttempt
  <2>2. heard' \in BOOLEAN
    BY <1>3 DEF BeginAttempt
  <2>3. /\ pc = "attempt" /\ pc' = "csma" /\ lbt' = 0
        /\ UNCHANGED <<made, rf_en_mq, cur, retry_times, radio, driver, rf_txdone_sem, fate, sends, gw>>
    BY <1>3 DEF BeginAttempt
  <2>4. QED BY <2>1, <2>2, <2>3
<1>4. CASE CsmaStart
  <2>1. cut' \in BOOLEAN /\ cad_detected' \in BOOLEAN
    BY <1>4 DEF CsmaStart
  <2>2. QED BY <1>4, <2>1 DEF CsmaStart
<1>5. CASE CadBusy
  BY <1>5 DEF CadBusy
<1>6. ASSUME NEW free \in BOOLEAN, SenseDone(free) PROVE TypeOK' /\ Placed'
  <2>1. cut' \in BOOLEAN
    BY <1>6 DEF SenseDone
  <2>2. QED BY <1>6, <2>1 DEF SenseDone
<1>7. CASE Backoff
  BY <1>7 DEF Backoff
<1>8. CASE ChannelBusy
  BY <1>0, <1>8, AfterFailureFacts DEF ChannelBusy
<1>9. CASE Send
  <2>1. sends' \in [Msg -> Nat] /\ onAir' \in Msg /\ onAir' \in 0..N
    BY <1>9 DEF Send
  <2>2. rf_txdone_sem' \in BOOLEAN /\ txTimer' \in BOOLEAN /\ cut' \in BOOLEAN
    BY <1>9 DEF Send
  <2>3. QED BY <1>9, <2>1, <2>2 DEF Send
<1>10. CASE SentOk
  <2>1. rf_txdone_sem' \in BOOLEAN
    BY <1>10 DEF SentOk
  <2>2. fate' \in [Msg -> {"none", "queued", "dropped", "sent", "acked", "failed"}]
    BY <1>10 DEF SentOk
  <2>3. QED BY <1>10, <2>1, <2>2 DEF SentOk
<1>11. CASE SendTimeout
  BY <1>11, AfterFailureFacts DEF SendTimeout
<1>12. CASE AckOk
  <2>1. rf_ack_sem' \in BOOLEAN
    BY <1>12 DEF AckOk
  <2>2. QED BY <1>12, <2>1 DEF AckOk
<1>13. CASE AckTimeout
  BY <1>13, AfterFailureFacts DEF AckTimeout
<1>14. ASSUME NEW found \in BOOLEAN, CadIrq(found) PROVE TypeOK' /\ Placed'
  BY <1>14 DEF CadIrq
<1>15. CASE TxDoneIrq
  <2>1. gwGot' \subseteq Msg /\ gwLast' \in 0..N /\ gwOwes' \subseteq Msg
    BY <1>15 DEF TxDoneIrq
  <2>2. QED BY <1>15, <2>1 DEF TxDoneIrq
<1>16. ASSUME NEW m \in Msg, AckIrq(m) PROVE TypeOK' /\ Placed'
  BY <1>16 DEF AckIrq
<1>17. CASE FrameIrq
  BY <1>17 DEF FrameIrq
<1>18. CASE OnTxDone
  <2>1. txTimer' \in BOOLEAN /\ rf_txdone_sem' \in BOOLEAN
    BY <1>18 DEF OnTxDone
  <2>2. QED BY <1>0, <1>18, <2>1 DEF OnTxDone
<1>19. CASE OnCadDone
  <2>1. cut' \in BOOLEAN
    BY <1>19 DEF OnCadDone
  <2>2. cad_detected' \in BOOLEAN
    BY <1>19 DEF OnCadDone
  <2>3. /\ mode' = "standby" /\ onAir' = 0 /\ irq' = "none"
        /\ UNCHANGED <<made, rf_en_mq, thread, chan, rxTimer, txTimer, sems, history, gw>>
    BY <1>19 DEF OnCadDone
  <2>4. QED BY <2>1, <2>2, <2>3
<1>20. CASE OnRxDone
  <2>1. rf_ack_sem' \in BOOLEAN /\ heard' \in BOOLEAN
    BY <1>20 DEF OnRxDone
  <2>2. QED BY <1>0, <1>20, <2>1 DEF OnRxDone
<1>21. CASE OnTxTimeout
  <2>1. txTimer' \in BOOLEAN
    BY <1>21 DEF OnTxTimeout
  <2>2. QED BY <1>0, <1>21, <2>1 DEF OnTxTimeout
<1>22. CASE OnRxTimeout
  BY <1>0, <1>22 DEF OnRxTimeout
<1>23. CASE UNCHANGED vars
  BY <1>23 DEF vars
<1>24. QED
  BY <1>1, <1>2, <1>3, <1>4, <1>5, <1>6, <1>7, <1>8, <1>9, <1>10, <1>11, <1>12, <1>13, <1>14,
     <1>15, <1>16, <1>17, <1>18, <1>19, <1>20, <1>21, <1>22, <1>23
  DEF Next, EncoderStep, RadioEvent, RadioIrqProcess

-----------------------------------------------------------------------------

\* Whatever takes the radio out of reception leaves the thread sensing, the
\* transmit timer running, or is a late CAD result.
LEMMA DeafnessStep == TypeOK /\ Deafness /\ [Next]_vars => Deafness'
<1> SUFFICES ASSUME TypeOK, Deafness, [Next]_vars PROVE Deafness'
  OBVIOUS
<1> USE DEF Deafness, Sensing, thread, radio, driver
<1>1. CASE lora_tx_enqueue
  BY <1>1 DEF lora_tx_enqueue
<1>2. CASE Receive \/ BeginAttempt \/ CsmaStart \/ CadBusy \/ Backoff
  BY <1>2 DEF Receive, BeginAttempt, CsmaStart, CadBusy, Backoff
<1>3. ASSUME NEW free \in BOOLEAN, SenseDone(free) PROVE Deafness'
  BY <1>3 DEF SenseDone
<1>4. CASE Send \/ SentOk \/ AckOk
  BY <1>4 DEF Send, SentOk, AckOk
<1>5. CASE SendTimeout
  BY <1>5 DEF SendTimeout
<1>6. CASE AckTimeout
  BY <1>6 DEF AckTimeout
<1>7. CASE radio_recv_start
  BY <1>7 DEF radio_recv_start
<1>8. CASE ChannelBusy \/ OnTxDone \/ OnRxDone \/ OnTxTimeout \/ OnRxTimeout
  BY <1>7, <1>8 DEF ChannelBusy, OnTxDone, OnRxDone, OnTxTimeout, OnRxTimeout
<1>9. CASE OnCadDone
  <2>1. rxTimer' = rxTimer /\ txTimer' = txTimer /\ pc' = pc
    BY <1>9 DEF OnCadDone
  <2>2. mode \in {"rx", "tx"} => cut'
    BY <1>9 DEF OnCadDone
  <2>3. cut => cut'
    BY <1>9 DEF OnCadDone
  <2>4. QED BY <2>1, <2>2, <2>3 DEF TypeOK
<1>10. ASSUME NEW found \in BOOLEAN, CadIrq(found) PROVE Deafness'
  BY <1>10 DEF CadIrq
<1>11. CASE TxDoneIrq \/ FrameIrq
  BY <1>11 DEF TxDoneIrq, FrameIrq
<1>12. ASSUME NEW m \in Msg, AckIrq(m) PROVE Deafness'
  BY <1>12 DEF AckIrq
<1>13. CASE UNCHANGED vars
  BY <1>13 DEF vars
<1>14. QED
  BY <1>1, <1>2, <1>3, <1>4, <1>5, <1>6, <1>8, <1>9, <1>10, <1>11, <1>12, <1>13
  DEF Next, EncoderStep, RadioEvent, RadioIrqProcess

\* rf_ack_sem is done exactly when an acknowledgement was heard in this attempt.
LEMMA AcksStep == TypeOK /\ Acks /\ [Next]_vars => Acks'
<1> SUFFICES ASSUME TypeOK, Acks, [Next]_vars PROVE Acks'
  OBVIOUS
<1> USE DEF Acks, thread, sems, history
<1>1. CASE lora_tx_enqueue
  BY <1>1 DEF lora_tx_enqueue
<1>2. CASE Receive \/ CsmaStart \/ CadBusy \/ Backoff
  BY <1>2 DEF Receive, CsmaStart, CadBusy, Backoff
<1>3. CASE BeginAttempt
  <2>1. heard' = FALSE /\ pc' = "csma" /\ cur' = cur /\ (cur \in Confirmed => rf_ack_sem' = FALSE)
    BY <1>3 DEF BeginAttempt
  <2>2. QED BY <2>1
<1>4. ASSUME NEW free \in BOOLEAN, SenseDone(free) PROVE Acks'
  BY <1>4 DEF SenseDone
<1>5. CASE ChannelBusy \/ SendTimeout \/ AckTimeout
  <2>1. AfterFailure /\ pc # "idle"
    BY <1>5 DEF ChannelBusy, SendTimeout, AckTimeout
  <2>2. pc' \in {"attempt", "idle"}
    BY <2>1, AfterFailureFacts
  <2>3. QED BY <2>2
<1>6. CASE Send \/ SentOk \/ AckOk
  BY <1>6 DEF Send, SentOk, AckOk
<1>7. CASE OnTxDone \/ OnCadDone \/ OnTxTimeout \/ OnRxTimeout \/ TxDoneIrq \/ FrameIrq
  BY <1>7 DEF OnTxDone, OnCadDone, OnTxTimeout, OnRxTimeout, TxDoneIrq, FrameIrq
<1>8. CASE OnRxDone
  <2>1. rf_ack_sem' = heard' \/ UNCHANGED <<rf_ack_sem, heard>>
    BY <1>8 DEF OnRxDone
  <2>2. UNCHANGED thread
    BY <1>8 DEF OnRxDone
  <2>3. QED BY <2>1, <2>2
<1>9. ASSUME NEW found \in BOOLEAN, CadIrq(found) PROVE Acks'
  BY <1>9 DEF CadIrq
<1>10. ASSUME NEW m \in Msg, AckIrq(m) PROVE Acks'
  BY <1>10 DEF AckIrq
<1>11. CASE UNCHANGED vars
  BY <1>11 DEF vars
<1>12. QED
  BY <1>1, <1>2, <1>3, <1>4, <1>5, <1>6, <1>7, <1>8, <1>9, <1>10, <1>11
  DEF Next, EncoderStep, RadioEvent, RadioIrqProcess

-----------------------------------------------------------------------------

\* The queue after one more message, and after the thread has taken its head.
LEMMA OrderedEnqueue ==
  ASSUME TypeOK, Ordered, lora_tx_enqueue
  PROVE  Ordered'
<1> USE TxAssumption DEF TypeOK
<1>1. /\ made' = made + 1 /\ made \in 0..N /\ made + 1 \in Msg
      /\ UNCHANGED <<cur, gwLast, mode, onAir>>
  BY DEF lora_tx_enqueue, thread, radio, gw, Msg
<1>2. CASE Len(rf_en_mq) < QueueSize
  <2>1. rf_en_mq' = Append(rf_en_mq, made + 1)
    BY <1>2 DEF lora_tx_enqueue
  <2>2. /\ Len(rf_en_mq') = Len(rf_en_mq) + 1
        /\ \A i \in 1..Len(rf_en_mq) : rf_en_mq'[i] = rf_en_mq[i]
        /\ rf_en_mq'[Len(rf_en_mq) + 1] = made + 1
    BY <1>1, <2>1
  <2>3. \A i \in 1..Len(rf_en_mq) : rf_en_mq[i] \in Nat /\ rf_en_mq[i] < made + 1 /\ cur < rf_en_mq[i]
    <3> SUFFICES ASSUME NEW i \in 1..Len(rf_en_mq)
                 PROVE  rf_en_mq[i] \in Nat /\ rf_en_mq[i] < made + 1 /\ cur < rf_en_mq[i]
      OBVIOUS
    <3>1. rf_en_mq[i] \in Msg
      OBVIOUS
    <3>2. cur < rf_en_mq[i] /\ rf_en_mq[i] <= made
      BY DEF Ordered
    <3>3. QED BY <1>1, <3>1, <3>2 DEF Msg
  <2>4. cur' < made + 1 /\ cur' <= made'
    BY <1>1 DEF Ordered
  <2>5. ASSUME NEW i \in 1..Len(rf_en_mq')
        PROVE  cur' < rf_en_mq'[i] /\ rf_en_mq'[i] <= made'
    BY <1>1, <2>2, <2>3, <2>4
  <2>6. ASSUME NEW i \in 1..Len(rf_en_mq'), NEW j \in 1..Len(rf_en_mq'), i < j
        PROVE  rf_en_mq'[i] < rf_en_mq'[j]
    <3>1. i \in 1..Len(rf_en_mq)
      BY <2>2, <2>6
    <3>2. CASE j \in 1..Len(rf_en_mq)
      BY <2>2, <2>6, <3>1, <3>2 DEF Ordered
    <3>3. CASE j = Len(rf_en_mq) + 1
      BY <2>2, <2>3, <3>1, <3>3
    <3>4. QED BY <2>2, <3>2, <3>3
  <2>7. QED BY <1>1, <2>4, <2>5, <2>6 DEF Ordered
<1>3. CASE ~(Len(rf_en_mq) < QueueSize)
  <2>1. rf_en_mq' = rf_en_mq
    BY <1>3 DEF lora_tx_enqueue
  <2>2. \A i \in 1..Len(rf_en_mq) : rf_en_mq[i] \in Nat
    BY DEF Msg
  <2>3. QED BY <1>1, <2>1, <2>2 DEF Ordered
<1>4. QED BY <1>2, <1>3

LEMMA OrderedReceive ==
  ASSUME TypeOK, Ordered, Receive
  PROVE  Ordered' /\ cur < cur' /\ cur' \in Msg
<1> USE TxAssumption DEF TypeOK
<1>1. /\ rf_en_mq # <<>> /\ cur' = Head(rf_en_mq) /\ rf_en_mq' = Tail(rf_en_mq)
      /\ UNCHANGED <<made, gwLast, mode, onAir>>
  BY DEF Receive, radio, gw
<1>2. /\ Len(rf_en_mq) \in Nat \ {0} /\ cur' = rf_en_mq[1]
      /\ Len(rf_en_mq') = Len(rf_en_mq) - 1
      /\ \A i \in 1..Len(rf_en_mq') : rf_en_mq'[i] = rf_en_mq[i + 1]
      /\ \A i \in 1..Len(rf_en_mq) : rf_en_mq[i] \in Msg
  BY <1>1
<1>3. cur < cur' /\ cur' <= made' /\ cur' \in Msg
  BY <1>1, <1>2 DEF Ordered
<1>4. ASSUME NEW i \in 1..Len(rf_en_mq')
      PROVE  cur' < rf_en_mq'[i] /\ rf_en_mq'[i] <= made'
  <2>1. i + 1 \in 1..Len(rf_en_mq) /\ 1 \in 1..Len(rf_en_mq) /\ 1 < i + 1
    BY <1>2
  <2>2. QED BY <1>1, <1>2, <2>1 DEF Ordered
<1>5. ASSUME NEW i \in 1..Len(rf_en_mq'), NEW j \in 1..Len(rf_en_mq'), i < j
      PROVE  rf_en_mq'[i] < rf_en_mq'[j]
  <2>1. i + 1 \in 1..Len(rf_en_mq) /\ j + 1 \in 1..Len(rf_en_mq) /\ i + 1 < j + 1
    BY <1>2, <1>5
  <2>2. QED BY <1>2, <2>1 DEF Ordered
<1>6. gwLast' <= cur' /\ (mode' = "tx" => gwLast' <= onAir' /\ onAir' <= cur')
  BY <1>1, <1>3 DEF Ordered, Msg
<1>7. QED BY <1>3, <1>4, <1>5, <1>6 DEF Ordered

LEMMA OrderedStep == TypeOK /\ Ordered /\ [Next]_vars => Ordered'
<1> SUFFICES ASSUME TypeOK, Ordered, [Next]_vars PROVE Ordered'
  OBVIOUS
<1> USE DEF thread, radio, driver, gw
<1>1. CASE lora_tx_enqueue
  BY <1>1, OrderedEnqueue
<1>2. CASE Receive
  BY <1>2, OrderedReceive
<1>3. ASSUME UNCHANGED <<made, rf_en_mq, cur, gwLast>>,
             mode' = "tx" => (mode = "tx" /\ onAir' = onAir) \/ onAir' = cur
      PROVE  Ordered'
  BY <1>3, TxAssumption DEF Ordered, TypeOK
<1>4. CASE BeginAttempt \/ CadBusy \/ Backoff \/ SentOk \/ SendTimeout \/ AckOk \/ AckTimeout
  BY <1>3, <1>4 DEF BeginAttempt, CadBusy, Backoff, SentOk, SendTimeout, AckOk, AckTimeout
<1>5. CASE CsmaStart \/ Send
  BY <1>3, <1>5 DEF CsmaStart, Send
<1>6. ASSUME NEW free \in BOOLEAN, SenseDone(free) PROVE Ordered'
  BY <1>3, <1>6 DEF SenseDone
<1>7. CASE ChannelBusy \/ OnTxDone \/ OnRxDone \/ OnTxTimeout \/ OnRxTimeout
  BY <1>3, <1>7 DEF ChannelBusy, OnTxDone, OnRxDone, OnTxTimeout, OnRxTimeout, radio_recv_start
<1>8. CASE OnCadDone \/ FrameIrq
  BY <1>3, <1>8 DEF OnCadDone, FrameIrq
<1>9. ASSUME NEW found \in BOOLEAN, CadIrq(found) PROVE Ordered'
  BY <1>3, <1>9 DEF CadIrq
<1>10. ASSUME NEW m \in Msg, AckIrq(m) PROVE Ordered'
  BY <1>3, <1>10 DEF AckIrq
<1>11. CASE TxDoneIrq
  <2>1. /\ mode = "tx" /\ mode' = "standby" /\ gwLast' \in {gwLast, onAir}
        /\ UNCHANGED <<made, rf_en_mq, cur>>
    BY <1>11 DEF TxDoneIrq
  <2>2. QED BY <2>1 DEF Ordered
<1>12. CASE UNCHANGED vars
  BY <1>3, <1>12 DEF vars
<1>13. QED
  BY <1>1, <1>2, <1>4, <1>5, <1>6, <1>7, <1>8, <1>9, <1>10, <1>11, <1>12
  DEF Next, EncoderStep, RadioEvent, RadioIrqProcess

-----------------------------------------------------------------------------

\* Transmissions stay within the retries counted and the limit of each message.
LEMMA CountedStep == TypeOK /\ Acks /\ Ordered /\ Counted /\ [Next]_vars => Counted'
<1> SUFFICES ASSUME TypeOK, Acks, Ordered, Counted, [Next]_vars PROVE Counted'
  OBVIOUS
<1> USE TxAssumption DEF thread, history
<1>0. /\ cur \in 0..N /\ Msg \subseteq Nat /\ retry_times \in Nat
      /\ retry_times <= MAX_ACK_RETRY_TIMES - 1
      /\ pc # "idle" => cur \in Msg
      /\ sends \in [Msg -> Nat] /\ MAX_ACK_RETRY_TIMES \in Nat \ {0}
      /\ \A m \in Msg : Limit(m) \in Nat \ {0}
  BY DEF TypeOK, Msg, Limit
<1>1. CASE lora_tx_enqueue
  BY <1>1 DEF lora_tx_enqueue, Counted
<1>2. CASE Receive
  <2>1. cur < cur' /\ cur' \in Msg
    BY <1>2, OrderedReceive
  <2>2. pc = "idle" /\ pc' = "attempt" /\ retry_times' = 0 /\ sends' = sends
    BY <1>2 DEF Receive
  <2>3. \A m \in Msg : m < cur' => sends[m] <= Limit(m)
    <3> SUFFICES ASSUME NEW m \in Msg, m < cur' PROVE sends[m] <= Limit(m)
      OBVIOUS
    <3>1. m < cur \/ m = cur \/ m > cur
      BY <1>0
    <3>2. QED BY <1>0, <2>2, <3>1 DEF Counted
  <2>4. \A m \in Msg : m > cur' => sends[m] = 0
    BY <1>0, <2>1 DEF Counted
  <2>5. sends[cur'] = 0
    BY <2>1 DEF Counted
  <2>6. QED BY <2>2, <2>3, <2>4, <2>5 DEF Counted, Sensing, Limit
<1>3. CASE BeginAttempt \/ CsmaStart \/ CadBusy \/ Backoff
  <2>1. /\ UNCHANGED <<cur, sends, retry_times>>
        /\ pc \in Sensing \cup {"attempt"} /\ pc' \in Sensing
    BY <1>3 DEF BeginAttempt, CsmaStart, CadBusy, Backoff, Sensing
  <2>2. QED BY <2>1 DEF Counted, Sensing, Limit
<1>4. ASSUME NEW free \in BOOLEAN, SenseDone(free) PROVE Counted'
  <2>1. /\ UNCHANGED <<cur, sends, retry_times>>
        /\ pc \in Sensing \cup {"attempt"} /\ pc' \in Sensing
    BY <1>4 DEF SenseDone, Sensing
  <2>2. QED BY <2>1 DEF Counted, Sensing, Limit
<1>5. CASE ChannelBusy \/ SendTimeout \/ AckTimeout
  <2>1. /\ AfterFailure /\ pc # "idle" /\ UNCHANGED <<cur, sends>>
        /\ pc \in Sensing \cup {"wait_tx", "wait_ack"}
    BY <1>5 DEF ChannelBusy, SendTimeout, AckTimeout, Sensing
  <2>2. /\ pc' \in {"attempt", "idle"}
        /\ pc' = "attempt" => cur \in Confirmed /\ retry_times' = retry_times + 1
        /\ pc' = "idle" => retry_times' = retry_times
    BY <2>1, AfterFailureFacts
  <2>3. sends[cur] <= retry_times + 1 /\ (cur \notin Confirmed => retry_times = 0)
    BY <1>0, <2>1 DEF Counted
  <2>4. sends[cur] <= Limit(cur)
    BY <1>0, <2>1, <2>3 DEF Limit
  <2>5. QED BY <1>0, <2>1, <2>2, <2>3, <2>4 DEF Counted, Sensing, Limit
<1>6. CASE Send
  <2>1. /\ pc = "send" /\ pc' = "wait_tx" /\ UNCHANGED <<cur, retry_times>>
        /\ sends' = [sends EXCEPT ![cur] = @ + 1]
    BY <1>6 DEF Send
  <2>2. cur \in Msg /\ sends'[cur] = sends[cur] + 1 /\ \A m \in Msg \ {cur} : sends'[m] = sends[m]
    BY <1>0, <2>1
  <2>3. sends[cur] <= retry_times /\ (cur \notin Confirmed => retry_times = 0)
    BY <2>1, <2>2 DEF Counted, Sensing
  <2>4. \A m \in Msg : m < cur => m # cur /\ sends[m] <= Limit(m)
    BY <1>0 DEF Counted
  <2>5. \A m \in Msg : m > cur => m # cur /\ sends[m] = 0
    BY <1>0 DEF Counted
  <2>6. QED BY <1>0, <2>1, <2>2, <2>3, <2>4, <2>5 DEF Counted, Sensing, Limit
<1>7. CASE SentOk \/ AckOk
  <2>1. /\ UNCHANGED <<cur, sends, retry_times>> /\ pc \in {"wait_tx", "wait_ack"}
        /\ pc' \in {"wait_ack", "idle"}
    BY <1>7 DEF SentOk, AckOk
  <2>2. sends[cur] <= retry_times + 1 /\ (cur \notin Confirmed => retry_times = 0)
    BY <1>0, <2>1 DEF Counted
  <2>3. sends[cur] <= Limit(cur)
    BY <1>0, <2>1, <2>2 DEF Limit
  <2>4. QED BY <2>1, <2>2, <2>3 DEF Counted, Sensing, Limit
<1>8. CASE UNCHANGED <<pc, cur, sends, retry_times>>
  BY <1>8 DEF Counted, Limit
<1>9. CASE TxDoneIrq \/ FrameIrq \/ OnTxDone \/ OnCadDone \/ OnRxDone \/ OnTxTimeout \/ OnRxTimeout
  BY <1>8, <1>9 DEF TxDoneIrq, FrameIrq, OnTxDone, OnCadDone, OnRxDone, OnTxTimeout, OnRxTimeout
<1>10. ASSUME NEW found \in BOOLEAN, CadIrq(found) PROVE Counted'
  BY <1>8, <1>10 DEF CadIrq
<1>11. ASSUME NEW m \in Msg, AckIrq(m) PROVE Counted'
  BY <1>8, <1>11 DEF AckIrq
<1>12. CASE UNCHANGED vars
  BY <1>8, <1>12 DEF vars
<1>13. QED
  BY <1>1, <1>2, <1>3, <1>4, <1>5, <1>6, <1>7, <1>9, <1>10, <1>11, <1>12
  DEF Next, EncoderStep, RadioEvent, RadioIrqProcess

\* Only AckOk makes a message "acked", and it is done with the message.
LEMMA PendingStep == TypeOK /\ Ordered /\ Pending /\ [Next]_vars => Pending'
<1> SUFFICES ASSUME TypeOK, Ordered, Pending, [Next]_vars PROVE Pending'
  OBVIOUS
<1> USE DEF thread, history
<1>0. cur \in Nat /\ Msg \subseteq Nat /\ (pc # "idle" => cur \in Msg)
  BY TxAssumption DEF TypeOK, Msg
<1>1. CASE lora_tx_enqueue
  <2>1. \A m \in Msg : fate'[m] \in {fate[m], "queued", "dropped"}
    BY <1>1, TxAssumption DEF lora_tx_enqueue, TypeOK, Msg
  <2>2. UNCHANGED <<cur, pc>>
    BY <1>1 DEF lora_tx_enqueue
  <2>3. QED BY <2>1, <2>2 DEF Pending
<1>2. CASE Receive
  <2>1. cur < cur' /\ cur' \in Msg
    BY <1>2, OrderedReceive
  <2>2. fate' = fate
    BY <1>2 DEF Receive
  <2>3. QED BY <1>0, <2>1, <2>2 DEF Pending
<1>3. CASE UNCHANGED <<fate, cur>> /\ pc # "idle"
  BY <1>3 DEF Pending
<1>4. CASE UNCHANGED <<fate, cur, pc>>
  BY <1>4 DEF Pending
<1>5. CASE BeginAttempt \/ CsmaStart \/ CadBusy \/ Backoff \/ Send
  BY <1>3, <1>5 DEF BeginAttempt, CsmaStart, CadBusy, Backoff, Send
<1>6. ASSUME NEW free \in BOOLEAN, SenseDone(free) PROVE Pending'
  BY <1>3, <1>6 DEF SenseDone
<1>7. CASE ChannelBusy \/ SendTimeout \/ AckTimeout
  <2>1. AfterFailure /\ pc # "idle" /\ cur' = cur
    BY <1>7 DEF ChannelBusy, SendTimeout, AckTimeout
  <2>2. CASE fate' = fate
    BY <1>3, <2>1, <2>2
  <2>3. CASE fate' = [fate EXCEPT ![cur] = "failed"]
    <3>1. \A m \in Msg : fate'[m] \in {fate[m], "failed"}
      BY <2>3 DEF TypeOK
    <3>2. QED BY <2>1, <3>1 DEF Pending
  <2>4. QED BY <2>1, <2>2, <2>3 DEF AfterFailure
<1>8. CASE SentOk
  <2>1. \A m \in Msg : fate'[m] \in {fate[m], "sent"}
    BY <1>8 DEF SentOk, TypeOK
  <2>2. pc # "idle" /\ cur' = cur
    BY <1>8 DEF SentOk
  <2>3. QED BY <2>1, <2>2 DEF Pending
<1>9. CASE AckOk
  <2>1. \A m \in Msg : m # cur => fate'[m] = fate[m]
    BY <1>9 DEF AckOk, TypeOK
  <2>2. pc' = "idle" /\ cur' = cur
    BY <1>9 DEF AckOk
  <2>3. QED BY <1>0, <2>1, <2>2 DEF Pending
<1>10. CASE TxDoneIrq \/ FrameIrq \/ OnTxDone \/ OnCadDone \/ OnRxDone \/ OnTxTimeout \/ OnRxTimeout
  BY <1>4, <1>10 DEF TxDoneIrq, FrameIrq, OnTxDone, OnCadDone, OnRxDone, OnTxTimeout, OnRxTimeout
<1>11. ASSUME NEW found \in BOOLEAN, CadIrq(found) PROVE Pending'
  BY <1>4, <1>11 DEF CadIrq
<1>12. ASSUME NEW m \in Msg, AckIrq(m) PROVE Pending'
  BY <1>4, <1>12 DEF AckIrq
<1>13. CASE UNCHANGED vars
  BY <1>4, <1>13 DEF vars
<1>14. QED
  BY <1>1, <1>2, <1>5, <1>6, <1>7, <1>8, <1>9, <1>10, <1>11, <1>12, <1>13
  DEF Next, EncoderStep, RadioEvent, RadioIrqProcess

LEMMA Inductive == Spec => []IInv
<1>1. IInv /\ [Next]_vars => IInv'
  BY TypeStep, DeafnessStep, AcksStep, PendingStep, OrderedStep, CountedStep DEF IInv
<1>2. QED BY InitOK, <1>1, PTL DEF Spec

-----------------------------------------------------------------------------

\* Thread, queue, radio and completions keep their types; the queue rf_en_mq never
\* holds more than it can and retry_times stays below its limit.
THEOREM TxTypeCorrect == Spec => []TypeOK
<1>1. IInv => TypeOK
  BY DEF IInv
<1>2. QED BY Inductive, <1>1, PTL

\* While rf_encode_entry waits for a message the radio receives, or the transmit
\* timer of RF_Send is running, or a CAD result handled late by RadioIrqProcess has
\* switched reception off and the receive timer is running.
THEOREM TxDeafOnlyByLateCad == Spec => []DeafOnlyByLateCad
<1>1. IInv => DeafOnlyByLateCad
  BY DEF IInv, Deafness, DeafOnlyByLateCad, Sensing
<1>2. QED BY Inductive, <1>1, PTL

\* Over every path of rf_send_with_lbt a message is transmitted at most
\* MAX_ACK_RETRY_TIMES times, an unconfirmed one once.
THEOREM TxSendsBounded == Spec => []SendsBounded
<1>1. IInv => SendsBounded
  <2> SUFFICES ASSUME IInv, NEW m \in Msg PROVE sends[m] <= Limit(m)
    BY DEF SendsBounded, Limit
  <2>1. /\ m \in Nat /\ cur \in Nat /\ retry_times \in 0..(MAX_ACK_RETRY_TIMES - 1)
        /\ Limit(m) \in Nat \ {0} /\ MAX_ACK_RETRY_TIMES \in Nat \ {0} /\ sends[m] \in Nat
    BY TxAssumption DEF IInv, TypeOK, Msg, Limit
  <2>2. CASE m = cur
    <3>1. \/ pc = "idle" /\ sends[m] <= Limit(m)
          \/ sends[m] <= retry_times + 1 /\ (m \notin Confirmed => retry_times = 0)
      BY <2>1, <2>2 DEF IInv, TypeOK, Counted, Sensing
    <3>2. QED BY <2>1, <3>1 DEF Limit
  <2>3. CASE m # cur
    BY <2>1, <2>3 DEF IInv, Counted
  <2>4. QED BY <2>2, <2>3
<1>2. QED BY Inductive, <1>1, PTL

\* With the retries, timeouts and cut transmissions of the thread, the gateway
\* still receives messages in the order of production.
THEOREM TxInOrder == Spec => DeliveredInOrder
<1>1. IInv /\ [Next]_vars => [gwLast' >= gwLast]_vars
  <2> SUFFICES ASSUME IInv, Next PROVE gwLast' >= gwLast
    OBVIOUS
  <2>1. gwLast \in Nat
    BY TxAssumption DEF IInv, TypeOK
  <2>2. CASE TxDoneIrq
    <3>1. mode = "tx" /\ gwLast' \in {gwLast, onAir}
      BY <2>2 DEF TxDoneIrq, gw
    <3>2. onAir >= gwLast
      BY <2>1, <3>1, TxAssumption DEF IInv, TypeOK, Ordered
    <3>3. QED BY <2>1, <3>1, <3>2
  <2>3. CASE ~TxDoneIrq
    <3>1. gwLast' = gwLast
      BY <2>3 DEF Next, EncoderStep, RadioEvent, RadioIrqProcess, lora_tx_enqueue, Receive,
                  BeginAttempt, CsmaStart, CadBusy, SenseDone, Backoff, ChannelBusy, Send, SentOk,
                  SendTimeout, AckOk, AckTimeout, CadIrq, AckIrq, FrameIrq, OnTxDone, OnCadDone,
                  OnRxDone, OnTxTimeout, OnRxTimeout, gw
    <3>2. QED BY <2>1, <3>1
  <2>4. QED BY <2>2, <2>3
<1>2. QED BY Inductive, <1>1, PTL DEF Spec, DeliveredInOrder

\* The wait for an acknowledgement ends with success exactly if rf_ack_callback ran
\* since rt_completion_init of this attempt, even before rt_completion_wait; an
\* attempt that fails in rf_send_with_lbt never comes to this wait.
THEOREM TxAckDecidesWait == Spec => AckDecidesWait
<1>1. IInv /\ [Next]_vars
        => [pc = "wait_ack" /\ pc' # "wait_ack" => (fate'[cur] = "acked" <=> heard)]_vars
  <2> SUFFICES ASSUME IInv, Next, pc = "wait_ack", pc' # "wait_ack"
               PROVE  fate'[cur] = "acked" <=> heard
    OBVIOUS
  <2>1. rf_ack_sem = heard /\ cur \in Msg /\ fate[cur] # "acked"
    BY DEF IInv, TypeOK, Acks, Pending
  <2>2. AckOk \/ AckTimeout
    BY <2>1 DEF Next, EncoderStep, RadioEvent, RadioIrqProcess, lora_tx_enqueue, Receive,
                BeginAttempt, CsmaStart, CadBusy, SenseDone, Backoff, ChannelBusy, Send, SentOk,
                SendTimeout, CadIrq, TxDoneIrq, AckIrq, FrameIrq, OnTxDone, OnCadDone, OnRxDone,
                OnTxTimeout, OnRxTimeout, thread
  <2>3. CASE AckOk
    BY <2>1, <2>3 DEF AckOk, IInv, TypeOK
  <2>4. CASE AckTimeout
    BY <2>1, <2>4 DEF AckTimeout, AfterFailure, IInv, TypeOK
  <2>5. QED BY <2>2, <2>3, <2>4
<1>2. QED BY Inductive, <1>1, PTL DEF Spec, AckDecidesWait

=============================================================================
