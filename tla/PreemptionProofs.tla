-------------------------- MODULE PreemptionProofs -------------------------
(***************************************************************************)
(* Proofs about Preemption: what the unit keeps when its handlers are cut  *)
(* at every access to shared state, for any number of handlers and any pin *)
(* readings.  Each invariant says what the unit lacks while a handler is   *)
(* under way, and which statement, still waiting in some thread, will make *)
(* up for it; the structure of PreemptionTasks says that it comes.         *)
(***************************************************************************)
EXTENDS PreemptionTasks, MainUnitRefinement

USE DEF VALVE_STATUS_CLOSE, VALVE_STATUS_OPEN, PIN_LOW, PIN_HIGH

-----------------------------------------------------------------------------
(* What one statement does to the unit.                                    *)

\* A call or a test leaves the unit alone.
LEMMA CallUnseen ==
  ASSUME NEW u, NEW i \in Statement, i.op \in Call
  PROVE  Exec(u, i) = u
BY DEF Exec, Call

\* Each field has its own statements.
LEMMA ExecFacts ==
  ASSUME NEW u \in Unit, NEW i \in Statement, NEW v, v = Exec(u, i)
  PROVE  /\ v \in Unit
         /\ v.valve_valid = u.valve_valid
         /\ v.DeviceStatus = CASE i.op = "DeviceStatus" -> i.arg
                               [] i.op = "DeviceStatus_of_valve" ->
                                    IF u.valve_status = VALVE_STATUS_OPEN
                                    THEN "ValveOpen" ELSE "ValveClose"
                               [] OTHER -> u.DeviceStatus
         /\ v.priority = IF i.op = "priority"
                         THEN IF i.arg = "none" THEN 0 ELSE warning_priority(i.arg)
                         ELSE u.priority
         /\ v.lock_status = IF i.op = "lock_status"
                            THEN IF i.arg = "1" THEN 1 ELSE 0
                            ELSE u.lock_status
         /\ v.valve_status = IF i.op = "valve_status"
                             THEN IF i.arg = "open" THEN VALVE_STATUS_OPEN
                                                    ELSE VALVE_STATUS_CLOSE
                             ELSE u.valve_status
         /\ v.allow_add_device = IF i.op = "allow_add_device"
                                 THEN IF i.arg = "1" THEN 1 ELSE 0
                                 ELSE u.allow_add_device
         /\ "radio_learn" \in v.timers <=>
              \/ i.op = "start_learn_timer"
              \/ i.op # "stop_learn_timer" /\ "radio_learn" \in u.timers
<1> USE DEF Unit
<1>1. CASE i.op = "DeviceStatus"
  BY <1>1 DEF Exec, SetStatus, Statement, Device_Status, Alarm, Event
<1>2. CASE i.op = "DeviceStatus_of_valve"
  <2> DEFINE x == IF u.valve_status = VALVE_STATUS_OPEN THEN "ValveOpen" ELSE "ValveClose"
  <2>1. v = [u EXCEPT !.DeviceStatus = x] /\ x \in Device_Status
    BY <1>2 DEF Exec, SetStatus, Device_Status
  <2> HIDE DEF x
  <2>2. v \in Unit /\ v.DeviceStatus = x
    BY <2>1
  <2>3. QED BY <1>2, <2>1, <2>2 DEF x
<1>3. CASE i.op = "priority"
  <2> DEFINE x == IF i.arg = "none" THEN 0 ELSE warning_priority(i.arg)
  <2>1. v = [u EXCEPT !.priority = x] /\ x \in 0..8
    BY <1>3, PriorityRange DEF Exec, Statement, Event, Alarm
  <2> HIDE DEF x
  <2>2. v \in Unit /\ v.priority = x
    BY <2>1
  <2>3. QED BY <1>3, <2>1, <2>2 DEF x
<1>4. CASE i.op = "lock_status"
  BY <1>4 DEF Exec, valve_lock, valve_unlock
<1>5. CASE i.op = "valve_status"
  <2> DEFINE x == IF i.arg = "open" THEN VALVE_STATUS_OPEN ELSE VALVE_STATUS_CLOSE
  <2>1. v = [u EXCEPT !.valve_status = x] /\ x \in 0..1
    BY <1>5 DEF Exec
  <2> HIDE DEF x
  <2>2. v \in Unit /\ v.valve_status = x
    BY <2>1
  <2>3. QED BY <1>5, <2>1, <2>2 DEF x
<1>6. CASE i.op = "pins"
  <2> DEFINE x == [s \in Side |-> IF i.arg = "open" THEN PIN_LOW ELSE PIN_HIGH]
  <2>1. v = [u EXCEPT !.control_pin = x] /\ x \in [Side -> PIN_LOW..PIN_HIGH]
    BY <1>6 DEF Exec
  <2> HIDE DEF x
  <2>2. QED BY <1>6, <2>1
<1>7. CASE i.op = "swing"
  <2> DEFINE T == {turn_back_timer(i.arg), turn_check_timer(i.arg)}
             w == rt_timer_stop(u, T)
             x == [w.check_result EXCEPT ![i.arg] = 0]
             y == [w.control_pin EXCEPT ![i.arg] = PIN_HIGH]
  <2>1. v = [w EXCEPT !.check_result = x, !.control_pin = y]
    BY <1>7 DEF Exec
  <2>2. i.arg \in Side /\ "radio_learn" \notin T
    BY <1>7 DEF Statement, Side, turn_back_timer, turn_check_timer
  <2> HIDE DEF T
  <2>3. w = [u EXCEPT !.timers = u.timers \ T] /\ w \in Unit
    BY DEF rt_timer_stop
  <2>4. x \in [Side -> 0..1] /\ y \in [Side -> PIN_LOW..PIN_HIGH]
    BY <2>2, <2>3
  <2> HIDE DEF x, y, w
  <2>5. v \in Unit /\ v.timers = w.timers
    BY <2>1, <2>3, <2>4
  <2>6. QED BY <1>7, <2>1, <2>2, <2>3, <2>4, <2>5
<1>8. CASE i.op \in {"arm", "stop_checks", "start_detect", "stop_all", "start_learn_timer",
                     "stop_learn_timer"}
  <2> DEFINE A == CASE i.op = "arm" -> u.timers \cup {turn_back_timer(i.arg)}
                    [] i.op = "stop_checks" -> u.timers \ (TurnTimer \cup {"valve_delay_close"})
                    [] i.op = "start_detect" -> u.timers \cup {"valve_detect"}
                    [] i.op = "stop_all" -> u.timers \ ValveTimer
                    [] i.op = "start_learn_timer" -> u.timers \cup {"radio_learn"}
                    [] OTHER -> u.timers \ {"radio_learn"}
  <2>1. v = [u EXCEPT !.timers = A]
    BY <1>8 DEF Exec, rt_timer_start, rt_timer_stop
  <2>2. i.op = "arm" => i.arg \in Side
    BY DEF Statement
  <2>3. A \in SUBSET Timer
    BY <1>8, <2>2, TimerSets
  <2>4. "radio_learn" \in A <=>
              \/ i.op = "start_learn_timer"
              \/ i.op # "stop_learn_timer" /\ "radio_learn" \in u.timers
    BY <1>8, <2>2, TimerSets DEF TurnTimer, turn_back_timer, Side
  <2> HIDE DEF A
  <2>5. v \in Unit /\ v.timers = A
    BY <2>1, <2>3
  <2>6. QED BY <1>8, <2>1, <2>4, <2>5
<1>9. CASE i.op = "allow_add_device"
  <2> DEFINE x == IF i.arg = "1" THEN 1 ELSE 0
  <2>1. v = [u EXCEPT !.allow_add_device = x] /\ x \in 0..1
    BY <1>9 DEF Exec
  <2> HIDE DEF x
  <2>2. v \in Unit /\ v.allow_add_device = x
    BY <2>1
  <2>3. QED BY <1>9, <2>1, <2>2 DEF x
<1>10. CASE i.op \in Call \cup {"waterleak", "heard", "sweep", "flash"}
  <2>1. v = u
    BY <1>10 DEF Exec, Call
  <2>2. QED BY <1>10, <2>1 DEF Call
<1>11. QED
  BY <1>1, <1>2, <1>3, <1>4, <1>5, <1>6, <1>7, <1>8, <1>9, <1>10 DEF Statement, Primitive

-----------------------------------------------------------------------------
(* What a callback of the timer thread does to the unit, whatever the      *)
(* threads below it have left half done.                                   *)

\* The fields the invariants speak of are the same.
Alike(u, v) ==
  /\ v \in Unit
  /\ v.DeviceStatus = u.DeviceStatus
  /\ v.priority = u.priority
  /\ v.allow_add_device = u.allow_add_device
  /\ v.valve_status = u.valve_status
  /\ v.lock_status = u.lock_status
  /\ "radio_learn" \in u.timers <=> "radio_learn" \in v.timers

\* Callbacks never lock an open valve, release the lock, raise an alarm that
\* needs the valve, open the learning window or end it halfway.
TimerKeeps(u, v) ==
  /\ v \in Unit
  /\ v.DeviceStatus \in Event => u.DeviceStatus = v.DeviceStatus
  /\ u.lock_status = 1 => v.lock_status = 1
  /\ v.lock_status = 1 /\ v.valve_status = VALVE_STATUS_OPEN
       => u.lock_status = 1 /\ u.valve_status = VALVE_STATUS_OPEN
  /\ v.valve_status = VALVE_STATUS_OPEN
       => u.valve_status = VALVE_STATUS_OPEN \/ v.DeviceStatus = "ValveOpen"
  /\ v.allow_add_device = 1 =>
       /\ u.allow_add_device = 1
       /\ "radio_learn" \in u.timers => "radio_learn" \in v.timers
  /\ v.DeviceStatus = "LearnDevice" =>
       u.DeviceStatus = "LearnDevice" /\ v.allow_add_device = u.allow_add_device
  /\ Ranked(u) => Ranked(v)

LEMMA AlikeKeeps ==
  /\ \A u, v : Alike(u, v) => TimerKeeps(u, v)
  /\ \A u, w, v : Alike(u, w) /\ TimerKeeps(w, v) => TimerKeeps(u, v)
  /\ \A u, w, v : TimerKeeps(u, w) /\ Alike(w, v) => TimerKeeps(u, v)
BY DEF Alike, TimerKeeps, Ranked

LEMMA FiredAlike ==
  ASSUME NEW u \in Unit, NEW t \in ValveTimer
  PROVE  Alike(u, rt_timer_stop(u, {t}))
BY TimerSets DEF Alike, rt_timer_stop, Unit

LEMMA CheckStartAlike ==
  ASSUME NEW u \in Unit, NEW full
  PROVE  Alike(u, valve_check_start(u, full))
<1>1. CASE u.valve_status = VALVE_STATUS_CLOSE
  BY <1>1 DEF valve_check_start, Alike
<1>2. CASE u.valve_status # VALVE_STATUS_CLOSE
  <2> DEFINE T == {s \in Side : full[s] = 0}
             left == (u.timers \ {turn_check_timer(s) : s \in T}) \cup {turn_back_timer(s) : s \in T}
             result == [s \in Side |-> IF s \in T THEN 0 ELSE u.check_result[s]]
             pin == [s \in Side |-> IF s \in T THEN PIN_HIGH ELSE u.control_pin[s]]
             v == valve_check_start(u, full)
  <2>1. /\ left \in SUBSET Timer
        /\ "radio_learn" \in u.timers <=> "radio_learn" \in left
    BY TimerSets DEF Unit
  <2>2. result \in [Side -> 0..1] /\ pin \in [Side -> PIN_LOW..PIN_HIGH]
    BY DEF Unit
  <2>3. v = [u EXCEPT !.timers = left, !.check_result = result, !.control_pin = pin]
    BY <1>2 DEF valve_check_start, Unit
  <2> HIDE DEF left, result, pin, v
  <2>4. v \in Unit
    BY <2>1, <2>2, <2>3 DEF Unit
  <2>5. /\ v.DeviceStatus = u.DeviceStatus /\ v.priority = u.priority
        /\ v.allow_add_device = u.allow_add_device /\ v.timers = left
        /\ v.valve_status = u.valve_status /\ v.lock_status = u.lock_status
    BY <2>3 DEF Unit
  <2>6. QED BY <2>1, <2>4, <2>5 DEF Alike, v
<1>3. QED BY <1>1, <1>2

LEMMA TurnBackAlike ==
  ASSUME NEW u \in Unit, NEW s \in Side
  PROVE  Alike(u, turn_back_success(u, s))
<1> DEFINE pin == [u.control_pin EXCEPT ![s] = PIN_LOW]
           w == [u EXCEPT !.control_pin = pin]
           T == {turn_check_timer(s)}
<1>1. turn_back_success(u, s) = rt_timer_start(w, T)
  BY DEF turn_back_success
<1>2. pin \in [Side -> PIN_LOW..PIN_HIGH]
  BY DEF Unit
<1> HIDE DEF pin
<1>3. Alike(u, w)
  BY <1>2 DEF Alike, Unit
<1>4. T \subseteq Timer /\ "radio_learn" \notin T
  BY TimerSets
<1> HIDE DEF w, T
<1>5. Alike(w, rt_timer_start(w, T))
  BY <1>3, <1>4 DEF Alike, rt_timer_start, Unit
<1>6. QED BY <1>1, <1>3, <1>5 DEF Alike

LEMMA CheckFailAlike ==
  ASSUME NEW u \in Unit, NEW s \in Side
  PROVE  Alike(u, check_fail(u, s))
<1> DEFINE zero == 0
           result == [u.check_result EXCEPT ![s] = 1]
           v == check_fail(u, s)
<1>1. zero \in 0..1 /\ result \in [Side -> 0..1]
  BY DEF Unit
<1>2. v = [u EXCEPT !.valve_valid = zero, !.check_result = result]
  BY DEF check_fail, Unit
<1> HIDE DEF zero, result, v
<1>3. v \in Unit
  BY <1>1, <1>2 DEF Unit
<1>4. /\ v.DeviceStatus = u.DeviceStatus /\ v.priority = u.priority
      /\ v.allow_add_device = u.allow_add_device /\ v.timers = u.timers
      /\ v.valve_status = u.valve_status /\ v.lock_status = u.lock_status
  BY <1>1, <1>2 DEF Unit
<1>5. QED BY <1>3, <1>4 DEF Alike, v

\* Raising a valve-fault alarm sets the status and its priority.
LEMMA FailKeeps ==
  ASSUME NEW u \in Unit, NEW event \in FailAlarm
  PROVE  TimerKeeps(u, warning_enable(u, event))
<1> DEFINE p == warning_priority(event)
           w == [u EXCEPT !.priority = p]
           v == SetStatus(w, event)
<1>1. CASE ~(p >= u.priority)
  BY <1>1 DEF warning_enable, TimerKeeps
<1>2. CASE p >= u.priority
  <2>1. warning_enable(u, event) = v
    BY <1>2 DEF warning_enable, warning_callback, FailAlarm
  <2>2. p \in 0..8 /\ event \in Device_Status
    BY PriorityRange DEF Device_Status, Alarm
  <2>3. /\ w \in Unit /\ w.priority = p
        /\ w.DeviceStatus = u.DeviceStatus /\ w.allow_add_device = u.allow_add_device
        /\ w.valve_status = u.valve_status /\ w.lock_status = u.lock_status
        /\ w.timers = u.timers
    <3> HIDE DEF p
    <3> QED BY <2>2 DEF Unit
  <2> HIDE DEF w
  <2>4. /\ v \in Unit /\ v.DeviceStatus = event /\ v.priority = p
        /\ v.allow_add_device = w.allow_add_device /\ v.valve_status = w.valve_status
        /\ v.lock_status = w.lock_status /\ v.timers = w.timers
    BY <2>2, <2>3, SetStatusFacts
  <2> HIDE DEF v
  <2>5. v.DeviceStatus \notin Event /\ v.DeviceStatus # "LearnDevice"
    BY <2>4 DEF FailAlarm, Event
  <2>6. Ranked(v)
    BY <2>4 DEF Ranked
  <2>7. QED BY <2>1, <2>3, <2>4, <2>5, <2>6 DEF TimerKeeps
<1>3. QED BY <1>1, <1>2

LEMMA AllClearKeeps ==
  ASSUME NEW u \in Unit
  PROVE  TimerKeeps(u, warning_all_clear(u))
<1> DEFINE status == IF u.valve_status = VALVE_STATUS_OPEN THEN "ValveOpen" ELSE "ValveClose"
           zero == 0
           v == warning_all_clear(u)
<1>1. v = [u EXCEPT !.DeviceStatus = status, !.priority = zero]
  BY DEF warning_all_clear
<1>2. status \in {"ValveOpen", "ValveClose"} /\ status \in Device_Status /\ zero \in 0..8
  BY DEF Device_Status
<1> HIDE DEF status, zero, v
<1>3. v \in Unit
  BY <1>1, <1>2 DEF Unit
<1>4. /\ v.DeviceStatus = status /\ v.allow_add_device = u.allow_add_device
      /\ v.timers = u.timers /\ v.lock_status = u.lock_status /\ v.valve_status = u.valve_status
  BY <1>1 DEF Unit
<1>5. QED
  BY <1>2, <1>3, <1>4 DEF TimerKeeps, Ranked, Event, Alarm, FailAlarm, v

\* The timer body of learning, its own timer just removed.
LEMMA LearnEndKeeps ==
  ASSUME NEW u \in Unit
  PROVE  TimerKeeps(u, learn_end(rt_timer_stop(u, {"radio_learn"})))
<1> DEFINE zero == 0
           x == rt_timer_stop(u, {"radio_learn"})
           w == [x EXCEPT !.allow_add_device = zero]
           v == warning_all_clear(w)
<1>1. learn_end(x) = v /\ zero \in 0..1 /\ zero # 1
  BY DEF learn_end
<1> HIDE DEF zero
<1>2. /\ x \in Unit /\ x.DeviceStatus = u.DeviceStatus /\ x.priority = u.priority
      /\ x.valve_status = u.valve_status /\ x.lock_status = u.lock_status
  BY DEF rt_timer_stop, Unit
<1> HIDE DEF x
<1>3. /\ w \in Unit /\ w.DeviceStatus = x.DeviceStatus /\ w.priority = x.priority
      /\ w.valve_status = x.valve_status /\ w.lock_status = x.lock_status
      /\ w.allow_add_device # 1
  BY <1>1, <1>2 DEF Unit
<1> HIDE DEF w
<1>4. TimerKeeps(w, v)
  BY <1>3, AllClearKeeps
<1>5. v.DeviceStatus \in {"ValveOpen", "ValveClose"}
  BY <1>3, AllClearMoves DEF Clears
<1> HIDE DEF v
<1>6. TimerKeeps(u, v)
  BY <1>2, <1>3, <1>4, <1>5 DEF TimerKeeps, Ranked
<1>7. QED BY <1>1, <1>6 DEF x

\* Closing, with or without locking first, in a status that takes commands.
LEMMA CloseKeeps ==
  ASSUME NEW u \in Unit, Commandable(u)
  PROVE  TimerKeeps(u, valve_close(u)) /\ TimerKeeps(u, valve_close(valve_lock(u)))
<1>1. u.DeviceStatus \notin Event /\ u.DeviceStatus # "LearnDevice"
  BY DEF Commandable, Event
<1>2. ASSUME NEW w \in Unit, w.DeviceStatus = u.DeviceStatus, w.priority = u.priority,
             w.allow_add_device = u.allow_add_device, u.lock_status = 1 => w.lock_status = 1,
             "radio_learn" \in u.timers => "radio_learn" \in w.timers
      PROVE  TimerKeeps(u, valve_close(w))
  <2> DEFINE v == valve_close(w)
  <2>1. /\ v \in Unit /\ v.valve_status = VALVE_STATUS_CLOSE
        /\ v.lock_status = w.lock_status /\ v.priority = w.priority
        /\ v.allow_add_device = w.allow_add_device
        /\ "radio_learn" \in w.timers => "radio_learn" \in v.timers
        /\ v.DeviceStatus \in {w.DeviceStatus, "ValveClose"}
    BY ValveCloseFacts
  <2> HIDE DEF v
  <2>2. TimerKeeps(u, v)
    BY <1>1, <1>2, <2>1 DEF TimerKeeps, Ranked, Event, Alarm, FailAlarm
  <2>3. QED BY <2>2 DEF v
<1>3. TimerKeeps(u, valve_close(u))
  BY <1>2
<1> DEFINE w == valve_lock(u)
<1>4. w \in Unit /\ w.DeviceStatus = u.DeviceStatus /\ w.priority = u.priority
      /\ w.allow_add_device = u.allow_add_device /\ w.lock_status = 1 /\ w.timers = u.timers
  BY DEF valve_lock, Unit
<1> HIDE DEF w
<1>5. TimerKeeps(u, valve_close(w))
  BY <1>2, <1>4
<1>6. QED BY <1>3, <1>5 DEF w

LEMMA OpenKeeps ==
  ASSUME NEW u \in Unit
  PROVE  TimerKeeps(u, valve_open(u))
<1>1. CASE u.lock_status = 1 \/ u.valve_valid = 0
  BY <1>1 DEF valve_open, TimerKeeps
<1>2. CASE ~(u.lock_status = 1 \/ u.valve_valid = 0)
  <2> DEFINE pins == [s \in Side |-> PIN_LOW]
             one == 1
             opened == "ValveOpen"
             T == TurnTimer \cup {"valve_delay_close"}
             w == [u EXCEPT !.DeviceStatus = opened, !.valve_status = one, !.control_pin = pins]
             x == rt_timer_stop(w, T)
             v == rt_timer_start(x, {"valve_detect"})
  <2>1. /\ pins \in [Side -> PIN_LOW..PIN_HIGH] /\ one \in 0..1
        /\ opened \in Device_Status /\ opened = "ValveOpen"
    BY DEF Device_Status
  <2> HIDE DEF pins, one, opened
  <2>2. valve_open(u) = v
    BY <1>2 DEF valve_open, valve_turn_control, pins, one, opened
  <2>3. T \subseteq Timer /\ "radio_learn" \notin T
    BY TimerSets
  <2> HIDE DEF T
  <2>4. /\ w \in Unit /\ w.DeviceStatus = opened /\ w.lock_status = u.lock_status
        /\ w.allow_add_device = u.allow_add_device /\ w.timers = u.timers
    BY <2>1 DEF Unit
  <2> HIDE DEF w
  <2>5. /\ x \in Unit /\ x.DeviceStatus = opened /\ x.lock_status = u.lock_status
        /\ x.allow_add_device = u.allow_add_device
        /\ "radio_learn" \in u.timers => "radio_learn" \in x.timers
    BY <2>3, <2>4 DEF rt_timer_stop, Unit
  <2> HIDE DEF x
  <2>6. /\ v \in Unit /\ v.DeviceStatus = opened /\ v.lock_status = u.lock_status
        /\ v.allow_add_device = u.allow_add_device
        /\ "radio_learn" \in u.timers => "radio_learn" \in v.timers
    BY <2>5, TimerSets DEF rt_timer_start, Unit
  <2> HIDE DEF v
  <2>7. QED
    BY <1>2, <2>1, <2>2, <2>6 DEF TimerKeeps, Ranked, Event, Alarm, FailAlarm
<1>3. QED BY <1>1, <1>2

\* The last stage of the self-check, passed or failed.
LEMMA TurnCheckKeeps ==
  ASSUME NEW u \in Unit, NEW s \in Side, NEW full
  PROVE  TimerKeeps(u, valve_turn_check_timer_callback(u, s, full))
<1> DEFINE v == valve_turn_check_timer_callback(u, s, full)
<1>1. CASE full = 0
  <2> DEFINE one == 1
             w == [u EXCEPT !.valve_valid = one]
             sound == IF u.check_result[Other(s)] = 0 THEN valvefail_warning_disable(w) ELSE u
             result == [sound.check_result EXCEPT ![s] = 0]
  <2>1. v = [sound EXCEPT !.check_result[s] = 0] /\ one \in 0..1
    BY <1>1 DEF valve_turn_check_timer_callback
  <2> HIDE DEF one, v
  <2>2. Alike(u, w)
    BY <2>1 DEF Alike, Unit
  <2> HIDE DEF w
  <2>3. TimerKeeps(u, u) /\ TimerKeeps(u, w)
    BY <2>2, AlikeKeeps DEF TimerKeeps
  <2>4. TimerKeeps(u, warning_all_clear(w))
    BY <2>2, AllClearKeeps, AlikeKeeps DEF Alike
  <2>5. TimerKeeps(u, sound)
    BY <2>3, <2>4 DEF valvefail_warning_disable
  <2> HIDE DEF sound
  <2>6. sound \in Unit
    BY <2>5 DEF TimerKeeps
  <2>7. v = [sound EXCEPT !.check_result = result] /\ result \in [Side -> 0..1]
    BY <2>1, <2>6 DEF Unit
  <2> HIDE DEF result
  <2>8. Alike(sound, v)
    BY <2>6, <2>7 DEF Alike, Unit
  <2>9. QED BY <2>5, <2>8, AlikeKeeps DEF v
<1>2. CASE full # 0
  <2> DEFINE w == check_fail(u, s)
  <2>1. v = warning_enable(w, fail_event(s)) /\ fail_event(s) \in FailAlarm
    BY <1>2 DEF valve_turn_check_timer_callback, fail_event, FailAlarm
  <2>2. Alike(u, w)
    BY CheckFailAlike
  <2> HIDE DEF v, w
  <2>3. TimerKeeps(w, v)
    BY <2>1, <2>2, FailKeeps DEF Alike
  <2>4. QED BY <2>2, <2>3, AlikeKeeps DEF v
<1>3. QED BY <1>1, <1>2

\* The middle stage.
LEMMA TurnBackKeeps ==
  ASSUME NEW u \in Unit, NEW s \in Side, NEW full
  PROVE  TimerKeeps(u, valve_turn_back_timer_callback(u, s, full))
<1> DEFINE w == check_fail(u, s)
<1>1. Alike(u, w) /\ fail_event(s) \in FailAlarm
  BY CheckFailAlike DEF fail_event, FailAlarm
<1>2. TimerKeeps(w, warning_enable(w, fail_event(s)))
  BY <1>1, FailKeeps DEF Alike
<1>3. TimerKeeps(u, warning_enable(w, fail_event(s)))
  BY <1>1, <1>2, AlikeKeeps
<1>4. TimerKeeps(u, turn_back_success(u, s))
  BY TurnBackAlike, AlikeKeeps
<1>5. QED BY <1>3, <1>4 DEF valve_turn_back_timer_callback

\* Every step of the timer thread.
LEMMA TimerFacts ==
  ASSUME unit \in Unit, TimerThread
  PROVE  TimerKeeps(unit, unit')
<1>1. \A t \in ValveTimer : Alike(unit, Fired(t)) /\ Fired(t) \in Unit
  BY FiredAlike DEF Fired, Alike
<1>2. CASE DetectOnce
  <2>1. PICK full \in [Side -> FirstReadings] : unit' = valve_check_start(Fired("valve_detect"), full)
    BY <1>2 DEF DetectOnce, CheckStarts
  <2>2. QED BY <1>1, <2>1, TimerSets, CheckStartAlike, AlikeKeeps
<1>3. CASE DelayClose
  <2> DEFINE w == Fired("valve_delay_close")
  <2>1. Alike(unit, w) /\ w \in Unit
    BY <1>1, TimerSets
  <2>2. unit' = IF Commandable(w) THEN valve_close(valve_lock(w)) ELSE w
    BY <1>3 DEF DelayClose, valve_delay_close_timer_callback
  <2> HIDE DEF w
  <2>3. QED BY <2>1, <2>2, CloseKeeps, AlikeKeeps
<1>4. ASSUME NEW s \in Side, TurnBack(s) PROVE TimerKeeps(unit, unit')
  <2> DEFINE w == Fired(turn_back_timer(s))
  <2>1. Alike(unit, w) /\ w \in Unit
    BY <1>1, TimerSets
  <2>2. PICK full \in BackReadings : unit' = valve_turn_back_timer_callback(w, s, full)
    BY <1>4 DEF TurnBack
  <2> HIDE DEF w
  <2>3. QED BY <2>1, <2>2, TurnBackKeeps, AlikeKeeps
<1>5. ASSUME NEW s \in Side, TurnCheck(s) PROVE TimerKeeps(unit, unit')
  <2> DEFINE w == Fired(turn_check_timer(s))
  <2>1. Alike(unit, w) /\ w \in Unit
    BY <1>1, TimerSets
  <2>2. PICK full \in CheckReadings : unit' = valve_turn_check_timer_callback(w, s, full)
    BY <1>5 DEF TurnCheck
  <2> HIDE DEF w
  <2>3. QED BY <2>1, <2>2, TurnCheckKeeps, AlikeKeeps
<1>6. CASE LearnTimeout
  BY <1>6, LearnEndKeeps DEF LearnTimeout, radio_learn_timer_callback, Fired
<1>7. CASE DryContactEdge
  <2>1. PICK level \in 0..1 : unit' = valve_dry_contact_control(unit, level)
    BY <1>7 DEF DryContactEdge
  <2>2. TimerKeeps(unit, unit)
    BY DEF TimerKeeps
  <2>3. QED BY <2>1, <2>2, CloseKeeps, OpenKeeps DEF valve_dry_contact_control
<1>8. QED
  BY <1>2, <1>3, <1>4, <1>5, <1>6, <1>7 DEF TimerThread, TimerStep

-----------------------------------------------------------------------------
(* The threads.                                                            *)

\* Everything is well formed.
Typed ==
  /\ unit \in Unit
  /\ task \in [Thread -> Seq(Statement)]
  /\ \A t \in Thread : Structure(t, task[t])

\* Some thread has still to execute a statement of A.
Waiting(A) == \E t \in Thread : \E n \in 1..Len(task[t]) : task[t][n] \in A

\* Thread t executes its first statement and puts b in its place.
Does(t, b) ==
  /\ MayRun(t)
  /\ task[t] # <<>>
  /\ Expands(unit, task[t][1], b)
  /\ task' = [task EXCEPT ![t] = b \o Tail(task[t])]
  /\ unit' = Exec(unit, task[t][1])
  /\ Overtakes(t)

\* Element by element: the tasks of the other threads stay, that of t is b followed
\* by what came after the first statement.
Shifted(t, b) ==
  /\ b \in Seq(Statement)
  /\ Len(b) \in Nat
  /\ \A r \in Thread \ {t} : task'[r] = task[r]
  /\ task[t][1] \in Statement
  /\ Len(task[t]) \in Nat \ {0}
  /\ Len(task'[t]) = Len(b) + Len(task[t]) - 1
  /\ \A n \in 1..Len(b) : task'[t][n] = b[n]
  /\ \A n \in 2..Len(task[t]) : task'[t][n + Len(b) - 1] = task[t][n]

LEMMA PInitTyped ==
  ASSUME PInit
  PROVE  Typed
<1>1. PowerOn(0) \in Unit /\ valve_open(PowerOn(0)) \in Unit
  BY PowerOnGood, ValveOpenGood DEF Good
<1>2. \A t \in Thread : Structure(t, <<>>)
  <2> DEFINE e == <<>>
  <2>1. e \in Seq(Statement) /\ Len(e) = 0
    OBVIOUS
  <2> HIDE DEF e
  <2>2. \A n \in 1..Len(e) : FALSE
    BY <2>1
  <2>3. \A t \in Thread : Structure(t, e)
    BY <2>1, <2>2 DEF Structure
  <2>4. QED BY <2>3 DEF e
<1>3. <<>> \in Seq(Statement)
  OBVIOUS
<1>4. QED BY <1>1, <1>2, <1>3 DEF PInit, Typed

\* A step is the execution of a statement.
LEMMA StepDoes ==
  ASSUME Typed, NEW t \in Thread, Step(t)
  PROVE  /\ Typed'
         /\ \E b : Does(t, b) /\ Shifted(t, b)
<1> DEFINE s == task[t]
           i == s[1]
<1>1. s \in Seq(Statement) /\ s # <<>> /\ Head(s) = i /\ i \in Statement
  <2>1. s \in Seq(Statement) /\ s # <<>>
    BY DEF Typed, Step, Idle
  <2>2. Len(s) \in Nat \ {0}
    BY <2>1, EmptySeq, LenProperties
  <2>3. QED BY <2>1, <2>2
<1>2. PICK b \in Bodies(unit, list, i) : task' = [task EXCEPT ![t] = b \o Tail(s)]
  BY <1>1 DEF Step
<1>3. Expands(unit, i, b)
  BY <1>1, <1>2, BodiesExpand DEF Typed
<1>4. Fits(i, b) /\ b \in Seq(Statement)
  BY <1>1, <1>3, ExpandsFits DEF Fits
<1> DEFINE r == b \o Tail(s)
<1>5. task'[t] = r /\ \A x \in Thread \ {t} : task'[x] = task[x]
  BY <1>2 DEF Typed
<1>6. unit' = Exec(unit, i)
  BY <1>1 DEF Step
<1>7. Does(t, b)
  BY <1>1, <1>2, <1>3, <1>6 DEF Does, Step
<1> HIDE DEF s
<1>8. /\ r \in Seq(Statement)
      /\ Len(s) \in Nat \ {0} /\ Len(b) \in Nat /\ Len(r) = Len(b) + Len(s) - 1
      /\ \A n \in 1..Len(b) : r[n] = b[n]
      /\ \A n \in 2..Len(s) : r[n + Len(b) - 1] = s[n]
  BY <1>1, <1>4, Replaced
<1>9. Structure(t, s)
  BY DEF Typed, s
<1>10. Structure(t, r)
  BY <1>1, <1>4, <1>9, StructStep
<1> HIDE DEF r, i
<1>11. Shifted(t, b)
  BY <1>1, <1>4, <1>5, <1>8 DEF Shifted, s, i
<1>12. unit' \in Unit
  BY <1>1, <1>6, ExecFacts DEF Typed
<1>13. task' \in [Thread -> Seq(Statement)]
  BY <1>2, <1>8 DEF Typed, r
<1>14. \A x \in Thread : Structure(x, task'[x])
  BY <1>5, <1>10 DEF Typed
<1>15. Typed'
  BY <1>12, <1>13, <1>14 DEF Typed
<1>16. QED BY <1>7, <1>11, <1>15

\* Starting a thread gives it calls, and nothing else.
LEMMA StartFacts ==
  ASSUME Typed, NEW t \in Thread, Start(t)
  PROVE  /\ Typed'
         /\ unit' = unit /\ overtaken' = overtaken
         /\ task[t] = <<>>
         /\ \A r \in Thread \ {t} : task'[r] = task[r]
         /\ \A n \in 1..Len(task'[t]) : task'[t][n] \in Opening
<1>1. PICK p \in Programs(t) : task' = [task EXCEPT ![t] = p]
  BY DEF Start
<1>2. Structure(t, p) /\ p \in Seq(Opening)
  BY ProgramsOpen
<1>3. task'[t] = p /\ \A r \in Thread \ {t} : task'[r] = task[r]
  BY <1>1 DEF Typed
<1>4. \A n \in 1..Len(task'[t]) : task'[t][n] \in Opening
  BY <1>2, <1>3
<1>5. task' \in [Thread -> Seq(Statement)]
  BY <1>1, <1>2 DEF Typed, Structure
<1>6. \A r \in Thread : Structure(r, task'[r])
  BY <1>2, <1>3 DEF Typed
<1>7. unit' = unit /\ overtaken' = overtaken /\ task[t] = <<>>
  BY DEF Start, Idle
<1>8. Typed'
  BY <1>5, <1>6, <1>7 DEF Typed
<1>9. QED BY <1>3, <1>4, <1>7, <1>8

\* Everything else leaves the sequences alone.
LEMMA TimerTyped ==
  ASSUME Typed, TimerThread
  PROVE  Typed' /\ task' = task /\ TimerKeeps(unit, unit') /\ Overtakes("timer")
<1>1. TimerKeeps(unit, unit')
  BY TimerFacts DEF Typed
<1>2. task' = task /\ Overtakes("timer")
  BY DEF TimerThread
<1>3. Typed'
  BY <1>1, <1>2 DEF Typed, TimerKeeps
<1>4. QED BY <1>1, <1>2, <1>3

THEOREM PTyping == PSpec => []Typed
<1>1. PInit => Typed
  BY PInitTyped
<1>2. Typed /\ [PNext]_pvars => Typed'
  <2>1. ASSUME Typed, UNCHANGED pvars PROVE Typed'
    BY <2>1 DEF pvars, Typed
  <2>2. QED BY <2>1, StepDoes, StartFacts, TimerTyped DEF PNext
<1>3. QED BY <1>1, <1>2, PTL DEF PSpec

-----------------------------------------------------------------------------
(* Statements that wait for their turn.                                    *)

\* Only its execution takes a statement away.
LEMMA WaitingStays ==
  ASSUME NEW t \in Thread, NEW b, Shifted(t, b), NEW A, Waiting(A)
  PROVE  Waiting(A)' \/ task[t][1] \in A
<1>0. PICK r \in Thread : \E n \in 1..Len(task[r]) : task[r][n] \in A
  BY DEF Waiting
<1>1. PICK n \in 1..Len(task[r]) : task[r][n] \in A
  BY <1>0
<1>2. CASE r # t
  BY <1>1, <1>2 DEF Waiting, Shifted
<1>3. CASE r = t /\ n # 1
  <2> DEFINE m == n + Len(b) - 1
  <2>1. n \in 2..Len(task[t])
    BY <1>1, <1>3 DEF Shifted
  <2>2. m \in 1..Len(task'[t]) /\ task'[t][m] = task[t][n]
    BY <2>1 DEF Shifted
  <2> HIDE DEF m
  <2>3. QED BY <1>1, <1>3, <2>2 DEF Waiting
<1>4. QED BY <1>1, <1>2, <1>3

\* What follows the first statement waits, and so does what takes its place.
LEMMA WaitingNext ==
  ASSUME NEW t \in Thread, NEW b, Shifted(t, b), NEW A
  PROVE  /\ \A n \in 2..Len(task[t]) : task[t][n] \in A => Waiting(A)'
         /\ \A n \in 1..Len(b) : b[n] \in A => Waiting(A)'
<1>1. ASSUME NEW n \in 2..Len(task[t]), task[t][n] \in A PROVE Waiting(A)'
  <2> DEFINE m == n + Len(b) - 1
  <2>1. m \in 1..Len(task'[t]) /\ task'[t][m] = task[t][n]
    BY DEF Shifted
  <2> HIDE DEF m
  <2>2. QED BY <1>1, <2>1 DEF Waiting
<1>2. ASSUME NEW n \in 1..Len(b), b[n] \in A PROVE Waiting(A)'
  BY <1>2 DEF Waiting, Shifted
<1>3. QED BY <1>1, <1>2

\* Starting a thread, or a callback of a timer, loses none.
LEMMA WaitingKept ==
  ASSUME NEW A, Waiting(A),
         \/ task' = task
         \/ \E t \in Thread : task[t] = <<>> /\ \A r \in Thread \ {t} : task'[r] = task[r]
  PROVE  Waiting(A)'
<1>1. CASE task' = task
  BY <1>1 DEF Waiting
<1>2. ASSUME NEW t \in Thread, task[t] = <<>>, \A r \in Thread \ {t} : task'[r] = task[r]
      PROVE  Waiting(A)'
  <2>0. PICK r \in Thread : \E n \in 1..Len(task[r]) : task[r][n] \in A
    BY DEF Waiting
  <2>1. PICK n \in 1..Len(task[r]) : task[r][n] \in A
    BY <2>0
  <2>2. r # t
    BY <1>2, <2>1
  <2>3. QED BY <1>2, <2>1, <2>2 DEF Waiting
<1>3. QED BY <1>1, <1>2

\* Nothing waits at rest.
LEMMA RestWaits ==
  ASSUME AtRest, NEW A
  PROVE  ~Waiting(A)
BY DEF AtRest, Idle, Waiting

\* Where a statement of the new sequence comes from.
Origin(t, b) ==
  \A m \in 1..Len(task'[t]) :
    \/ m \in 1..Len(b) /\ task'[t][m] = b[m]
    \/ \E k \in 2..Len(task[t]) : m = k + Len(b) - 1 /\ task'[t][m] = task[t][k]

LEMMA CameFrom ==
  ASSUME NEW t \in Thread, NEW b, Shifted(t, b)
  PROVE  Origin(t, b)
<1> SUFFICES ASSUME NEW m \in 1..Len(task'[t])
             PROVE  \/ m \in 1..Len(b) /\ task'[t][m] = b[m]
                    \/ \E k \in 2..Len(task[t]) :
                         m = k + Len(b) - 1 /\ task'[t][m] = task[t][k]
  BY DEF Origin
<1>1. CASE m <= Len(b)
  BY <1>1 DEF Shifted
<1>2. CASE ~(m <= Len(b))
  <2> DEFINE k == m - Len(b) + 1
  <2>0. /\ Len(b) \in Nat /\ Len(task[t]) \in Nat \ {0} /\ m \in Int
        /\ m <= Len(b) + Len(task[t]) - 1
    BY DEF Shifted
  <2>1. k \in 2..Len(task[t]) /\ m = k + Len(b) - 1
    BY <1>2, <2>0
  <2> HIDE DEF k
  <2>2. task'[t][m] = task[t][k]
    BY <2>1 DEF Shifted
  <2>3. QED BY <2>1, <2>2
<1>3. QED BY <1>1, <1>2

-----------------------------------------------------------------------------
(* The learning window.  While it is open without its timer, the thread    *)
(* that opened it has still to start the timer, or one that stopped the    *)
(* timer has still to close it; while it is closed in LearnDevice, one has *)
(* still to open it or to leave the status.                                *)

WindowEnds == {i \in Statement : i.op = "start_learn_timer" \/ Is(i, "allow_add_device", "0")}

LearnEnds == {i \in Statement : i.op = "DeviceStatus_of_valve" \/ Is(i, "allow_add_device", "1")}

WindowInv ==
  /\ unit.allow_add_device = 1 /\ "radio_learn" \notin unit.timers => Waiting(WindowEnds)
  /\ unit.allow_add_device = 0 /\ unit.DeviceStatus = "LearnDevice" => Waiting(LearnEnds)

\* What is linked to the first statement of a thread comes to wait.
LEMMA LinkWaits ==
  ASSUME Typed, NEW t \in Thread, NEW b, Does(t, b), Shifted(t, b)
  PROVE  LET i == task[t][1]
         IN  /\ i \in Statement
             /\ i.op = "stop_learn_timer" => Waiting(WindowEnds)'
             /\ Is(i, "allow_add_device", "1") => Waiting(WindowEnds)'
             /\ Is(i, "allow_add_device", "0") => Waiting(LearnEnds)'
             /\ Is(i, "DeviceStatus", "LearnDevice") => Waiting(LearnEnds)'
<1> DEFINE s == task[t]
           i == s[1]
<1>1. LinkedAt(s, 1) /\ i \in Statement
  BY DEF Typed, Structure, Shifted
<1>2. ASSUME NEW op, NEW arg, Next1(s, 1, op, arg)
      PROVE  2 \in 2..Len(s) /\ s[2] \in Statement /\ Is(s[2], op, arg)
  BY <1>2 DEF Next1, Typed, Shifted
<1>3. \A A : 2 \in 2..Len(s) /\ s[2] \in A => Waiting(A)'
  BY WaitingNext
<1> HIDE DEF s
<1>4. i.op = "stop_learn_timer" => Waiting(WindowEnds)'
  BY <1>1, <1>2, <1>3 DEF LinkedAt, WindowEnds
<1>5. Is(i, "allow_add_device", "1") => Waiting(WindowEnds)'
  <2> SUFFICES ASSUME Is(i, "allow_add_device", "1") PROVE Waiting(WindowEnds)'
    OBVIOUS
  <2>1. Next1(s, 1, "start_learn_timer", "void")
    BY <1>1 DEF LinkedAt
  <2>2. QED BY <1>2, <1>3, <2>1 DEF WindowEnds, Is
<1>6. Is(i, "allow_add_device", "0") => Waiting(LearnEnds)'
  <2> SUFFICES ASSUME Is(i, "allow_add_device", "0") PROVE Waiting(LearnEnds)'
    OBVIOUS
  <2>1. Next1(s, 1, "DeviceStatus_of_valve", "void")
    BY <1>1 DEF LinkedAt
  <2>2. QED BY <1>2, <1>3, <2>1 DEF LearnEnds, Is
<1>7. Is(i, "DeviceStatus", "LearnDevice") => Waiting(LearnEnds)'
  BY <1>1, <1>2, <1>3 DEF LinkedAt, LearnEnds
<1>8. QED BY <1>1, <1>4, <1>5, <1>6, <1>7 DEF s

LEMMA WindowStep ==
  ASSUME Typed, WindowInv, [PNext]_pvars
  PROVE  WindowInv'
<1>1. ASSUME NEW t \in Thread, Step(t) PROVE WindowInv'
  <2>1. PICK b : Does(t, b) /\ Shifted(t, b)
    BY <1>1, StepDoes
  <2> DEFINE i == task[t][1]
  <2>2. /\ i \in Statement
        /\ i.op = "stop_learn_timer" => Waiting(WindowEnds)'
        /\ Is(i, "allow_add_device", "1") => Waiting(WindowEnds)'
        /\ Is(i, "allow_add_device", "0") => Waiting(LearnEnds)'
        /\ Is(i, "DeviceStatus", "LearnDevice") => Waiting(LearnEnds)'
    BY <2>1, LinkWaits
  <2>3. \A A : Waiting(A) => Waiting(A)' \/ i \in A
    BY <2>1, WaitingStays
  <2>4. unit \in Unit /\ unit' = Exec(unit, i)
    BY <2>1 DEF Typed, Does
  <2> HIDE DEF i
  <2>5. ASSUME unit'.allow_add_device = 1, "radio_learn" \notin unit'.timers
        PROVE  Waiting(WindowEnds)'
    <3>1. CASE i.op = "stop_learn_timer" \/ Is(i, "allow_add_device", "1")
      BY <2>2, <3>1
    <3>2. CASE ~(i.op = "stop_learn_timer" \/ Is(i, "allow_add_device", "1"))
      <4>1. unit.allow_add_device = 1 /\ "radio_learn" \notin unit.timers /\ i \notin WindowEnds
        BY <2>2, <2>4, <2>5, <3>2, ExecFacts DEF Is, Statement, WindowEnds
      <4>2. QED BY <2>3, <4>1 DEF WindowInv
    <3>3. QED BY <3>1, <3>2
  <2>6. ASSUME unit'.allow_add_device = 0, unit'.DeviceStatus = "LearnDevice"
        PROVE  Waiting(LearnEnds)'
    <3>1. CASE Is(i, "allow_add_device", "0") \/ Is(i, "DeviceStatus", "LearnDevice")
      BY <2>2, <3>1
    <3>2. CASE ~(Is(i, "allow_add_device", "0") \/ Is(i, "DeviceStatus", "LearnDevice"))
      <4>1. unit.allow_add_device = 0 /\ ~Is(i, "allow_add_device", "1")
        BY <2>2, <2>4, <2>6, <3>2, ExecFacts DEF Is, Statement
      <4>2. unit.DeviceStatus = "LearnDevice" /\ i.op # "DeviceStatus_of_valve"
        BY <2>2, <2>4, <2>6, <3>2, ExecFacts DEF Is
      <4>3. QED BY <2>3, <4>1, <4>2 DEF WindowInv, LearnEnds
    <3>3. QED BY <3>1, <3>2
  <2>7. QED BY <2>5, <2>6 DEF WindowInv
<1>2. ASSUME NEW t \in Thread, Start(t) PROVE WindowInv'
  <2>1. \A A : Waiting(A) => Waiting(A)'
    BY <1>2, StartFacts, WaitingKept
  <2>2. unit' = unit
    BY <1>2, StartFacts
  <2>3. QED BY <2>1, <2>2 DEF WindowInv
<1>3. CASE TimerThread
  <2>1. TimerKeeps(unit, unit') /\ \A A : Waiting(A) => Waiting(A)'
    BY <1>3, TimerTyped, WaitingKept
  <2>2. QED BY <2>1 DEF WindowInv, TimerKeeps
<1>4. CASE UNCHANGED pvars
  BY <1>4 DEF pvars, WindowInv, Waiting
<1>5. QED BY <1>1, <1>2, <1>3, <1>4 DEF PNext

\* Between frames, keys and hours the learning window always has its end, however
\* the RF thread, the button thread and the timer cut into radio_start_learn_device.
THEOREM WindowAtRest == PSpec => []WindowBoundedAtRest
<1>1. PInit => WindowInv
  <2> SUFFICES ASSUME PInit PROVE unit.allow_add_device = 0 /\ unit.DeviceStatus # "LearnDevice"
    BY DEF WindowInv
  <2>1. CASE unit = PowerOn(0)
    BY <2>1 DEF PowerOn
  <2>2. CASE unit = valve_open(PowerOn(0))
    <3>1. PowerOn(0).DeviceStatus = "ValveClose"
          /\ PowerOn(0).allow_add_device = 0
      BY DEF PowerOn
    <3>2. TimerKeeps(PowerOn(0), unit) /\ unit \in Unit
      BY <2>2, PowerOnGood, OpenKeeps DEF Good, TimerKeeps
    <3>3. QED BY <3>1, <3>2 DEF TimerKeeps, Unit
  <2>3. QED BY <2>1, <2>2 DEF PInit
<1>2. Typed /\ WindowInv => WindowBoundedAtRest
  <2> SUFFICES ASSUME Typed, WindowInv, AtRest PROVE LearnWindowBounded
    BY DEF WindowBoundedAtRest
  <2>1. ~Waiting(WindowEnds) /\ ~Waiting(LearnEnds)
    BY RestWaits
  <2>2. unit.allow_add_device \in 0..1
    BY DEF Typed, Unit
  <2>3. QED BY <2>1, <2>2 DEF WindowInv, LearnWindowBounded
<1>3. QED BY <1>1, <1>2, WindowStep, PTyping, PTL DEF PSpec

-----------------------------------------------------------------------------
(* The lock.  Only the RF thread releases it and only the RF thread raises *)
(* the alarms that lock; the one thread above it, that of the timers, does *)
(* not.  So the status under which it decided to unlock is still there     *)
(* when it does.                                                           *)

UnlockInv ==
  \A t \in Thread : \A n \in 1..Len(task[t]) :
    Unlocking(task[t][n]) => unit.DeviceStatus \notin LockAlarm

\* A thread that holds back what only the RF thread does is the RF thread, and while
\* another one runs it waits for the flash.
LEMMA OnlyRf ==
  ASSUME Typed, NEW r \in Thread, NEW n \in 1..Len(task[r]), Reserved(task[r][n])
  PROVE  r = "rf" /\ \A t \in Thread \ {r} : MayRun(t) => task[r][1].op = "flash"
<1>1. r = "rf" /\ task[r] \in Seq(Statement) /\ task[r] # <<>>
  <2>1. r = "rf" /\ task[r] \in Seq(Statement)
    BY DEF Typed, Structure
  <2>2. task[r] # <<>>
    OBVIOUS
  <2>3. QED BY <2>1, <2>2
<1>2. ASSUME NEW t \in Thread \ {r}, MayRun(t) PROVE task[r][1].op = "flash"
  <2>1. r \in Above(t)
    BY <1>1 DEF Above, Thread
  <2>2. QED BY <1>1, <1>2, <2>1 DEF MayRun, Idle, Asleep
<1>3. QED BY <1>1, <1>2

LEMMA UnlockReserved ==
  ASSUME NEW i
  PROVE  /\ Unlocking(i) => Reserved(i) /\ i.op # "flash"
         /\ i.op = "DeviceStatus" /\ i.arg \in LockAlarm => Reserved(i)
         /\ i \in Opening => ~Unlocking(i) /\ i.op # "DeviceStatus"
BY DEF Reserved, Unlocking, Is, Opening

\* Bodies release the lock only when the status takes commands.
LEMMA UnlockBody ==
  ASSUME NEW u \in Unit, NEW i \in Statement, NEW b, Expands(u, i, b),
         NEW m \in 1..Len(b), Unlocking(b[m])
  PROVE  i.op = "valve_unlock" \/ (i.op = "parse_valve_open" /\ Commandable(u))
BY DEF Expands, Unlocking, Is, S

LEMMA UnlockStep ==
  ASSUME Typed, UnlockInv, [PNext]_pvars
  PROVE  UnlockInv'
<1>1. ASSUME NEW t \in Thread, Step(t) PROVE UnlockInv'
  <2>1. PICK b : Does(t, b) /\ Shifted(t, b)
    BY <1>1, StepDoes
  <2> DEFINE i == task[t][1]
  <2>2. i \in Statement /\ 1 \in 1..Len(task[t]) /\ unit' = Exec(unit, i) /\ unit \in Unit
        /\ Expands(unit, i, b)
    BY <2>1 DEF Shifted, Does, Typed
  <2> SUFFICES ASSUME NEW r \in Thread, NEW m \in 1..Len(task'[r]), Unlocking(task'[r][m])
               PROVE  unit'.DeviceStatus \notin LockAlarm
    BY DEF UnlockInv
  <2>3. CASE r # t
    <3>1. task'[r] = task[r] /\ Reserved(task[r][m])
      BY <2>1, <2>3, UnlockReserved DEF Shifted
    <3>2. m = 1
      BY <3>1 DEF Typed, Structure, PrecededAt
    <3>3. task[r][1].op = "flash"
      BY <2>1, <2>3, <3>1, OnlyRf DEF Does
    <3>4. QED BY <3>1, <3>2, <3>3, UnlockReserved
  <2>4. CASE r = t
    <3>1. ASSUME NEW k \in 2..Len(task[t]), task'[t][m] = task[t][k] PROVE FALSE
      BY <2>1, <2>4, <3>1 DEF Typed, Structure, PrecededAt, Shifted
    <3>2. m \in 1..Len(b) /\ task'[t][m] = b[m]
      BY <2>1, <2>4, <3>1, CameFrom DEF Origin
    <3>3. i.op = "valve_unlock" \/ (i.op = "parse_valve_open" /\ Commandable(unit))
      BY <2>2, <2>4, <3>2, UnlockBody
    <3>4. unit' = unit
      BY <2>2, <3>3, CallUnseen DEF Call
    <3>5. QED
      BY <2>2, <3>3, <3>4 DEF UnlockInv, Unlocking, Commandable, LockAlarm
  <2>5. QED BY <2>3, <2>4
<1>2. ASSUME NEW t \in Thread, Start(t) PROVE UnlockInv'
  BY <1>2, StartFacts, UnlockReserved DEF UnlockInv
<1>3. CASE TimerThread
  BY <1>3, TimerTyped DEF UnlockInv, TimerKeeps, LockAlarm, Event
<1>4. CASE UNCHANGED pvars
  BY <1>4 DEF pvars, UnlockInv
<1>5. QED BY <1>1, <1>2, <1>3, <1>4 DEF PNext

\* No interleaving of the threads releases the lock under an alarm that locks.
THEOREM NeverUnlocked == PSpec => NoUnlockUnderAlarm
<1> DEFINE A == unit.lock_status = 1 /\ unit'.lock_status = 0
                  => unit.DeviceStatus \notin {"SlaverSensorLeak", "SlaverUltraLowPower"}
<1>1. PInit => UnlockInv
  BY DEF PInit, UnlockInv
<1>2. Typed /\ UnlockInv /\ [PNext]_pvars => A
  <2> SUFFICES ASSUME Typed, UnlockInv, [PNext]_pvars,
                      unit.lock_status = 1, unit'.lock_status = 0
               PROVE  unit.DeviceStatus \notin LockAlarm
    BY DEF LockAlarm
  <2>1. ASSUME NEW t \in Thread, Step(t) PROVE unit.DeviceStatus \notin LockAlarm
    <3>1. PICK b : Does(t, b) /\ Shifted(t, b)
      BY <2>1, StepDoes
    <3>2. task[t][1] \in Statement /\ unit \in Unit /\ unit' = Exec(unit, task[t][1])
          /\ 1 \in 1..Len(task[t])
      BY <3>1 DEF Shifted, Does, Typed
    <3>3. Unlocking(task[t][1])
      BY <3>2, ExecFacts DEF Unlocking, Is, Statement
    <3>4. QED BY <3>2, <3>3 DEF UnlockInv
  <2>2. CASE UNCHANGED pvars
    BY <2>2 DEF pvars
  <2>3. QED BY <2>1, <2>2, StartFacts, TimerTyped DEF PNext, TimerKeeps
<1>3. QED BY <1>1, <1>2, UnlockStep, PTyping, PTL DEF PSpec, NoUnlockUnderAlarm

-----------------------------------------------------------------------------
(* The alarms that lock.                                                   *)

\* Thread t executes a statement of A before its m-th.
Ahead(A, t, m) == \E n \in 1..m-1 : task[t][n] \in A

LEMMA AheadStays ==
  ASSUME NEW t \in Thread, NEW b, Shifted(t, b), NEW A,
         NEW k \in 2..Len(task[t]), NEW m, m = k + Len(b) - 1
  PROVE  /\ Ahead(A, t, k) => Ahead(A, t, m)' \/ task[t][1] \in A
         /\ \A n \in 1..Len(b) : b[n] \in A => Ahead(A, t, m)'
<1>0. Len(b) \in Nat /\ k \in Nat /\ k >= 2
  BY DEF Shifted
<1>1. ASSUME NEW n \in 1..k-1, task[t][n] \in A, n # 1
      PROVE  Ahead(A, t, m)'
  <2> DEFINE q == n + Len(b) - 1
  <2>1. n \in 2..Len(task[t]) /\ q \in 1..m-1
    BY <1>0, <1>1 DEF Shifted
  <2>2. task'[t][q] = task[t][n]
    BY <2>1 DEF Shifted
  <2> HIDE DEF q
  <2>3. QED BY <1>1, <2>1, <2>2 DEF Ahead
<1>2. ASSUME NEW n \in 1..Len(b), b[n] \in A
      PROVE  Ahead(A, t, m)'
  <2>1. n \in 1..m-1 /\ task'[t][n] = b[n]
    BY <1>0 DEF Shifted
  <2>2. QED BY <1>2, <2>1 DEF Ahead
<1>3. QED BY <1>1, <1>2 DEF Ahead

Locks == {i \in Statement : i.op = "valve_lock" \/ Is(i, "lock_status", "1")}

ShowsLock(i) == i.op = "DeviceStatus" /\ i.arg \in LockAlarm

\* The lock is set before the alarm is shown, and stays.
LockInv ==
  /\ unit.DeviceStatus \in LockAlarm => unit.lock_status = 1
  /\ \A t \in Thread : \A m \in 1..Len(task[t]) :
       ShowsLock(task[t][m]) => unit.lock_status = 1 \/ Ahead(Locks, t, m)

LEMMA ShowsLockFacts ==
  /\ \A i : ShowsLock(i) => ShowsAlarm(i) /\ Reserved(i) /\ i \notin Opening /\ i.op # "flash"
  /\ \A i : Unlocking(i) => ~Quiet(i) /\ i.op # "priority"
BY DEF ShowsLock, ShowsAlarm, Reserved, LockAlarm, Event, Opening, Unlocking, Quiet, Is

\* Only the body of a callback shows such an alarm, and it locks first.
LEMMA ShowsLockBody ==
  ASSUME NEW u \in Unit, NEW i \in Statement, NEW b \in Seq(Statement), Expands(u, i, b),
         NEW m \in 1..Len(b), ShowsLock(b[m])
  PROVE  \E n \in 1..m-1 : b[n] \in Locks
<1>1. /\ i.op = "callback"
      /\ b = <<S("valve_lock", "void"), S("valve_close", "void"), S("DeviceStatus", i.arg)>>
  BY DEF Expands, ShowsLock, LockAlarm, S
<1>2. m = 3 /\ b[1] \in Statement /\ b[1].op = "valve_lock"
  BY <1>1 DEF ShowsLock, S
<1>3. QED BY <1>2 DEF Locks

\* Expanding or executing a statement of Locks leaves another or the lock set.
LEMMA LocksBody ==
  ASSUME NEW u \in Unit, NEW i \in Locks, NEW b \in Seq(Statement), Expands(u, i, b)
  PROVE  Exec(u, i).lock_status = 1 \/ \E n \in 1..Len(b) : b[n] \in Locks
<1>1. CASE Is(i, "lock_status", "1")
  BY <1>1, ExecFacts DEF Is, Locks
<1>2. CASE i.op = "valve_lock" /\ b = <<>>
  <2>1. u.lock_status = 1
    BY <1>2 DEF Expands, Unit
  <2>2. QED BY <1>2, <2>1, CallUnseen DEF Call, Locks
<1>3. CASE i.op = "valve_lock" /\ b # <<>>
  <2>1. b = <<S("lock_status", "1"), S("flash", "void")>>
    BY <1>3 DEF Expands
  <2>2. 1 \in 1..Len(b) /\ b[1] \in Statement /\ Is(b[1], "lock_status", "1")
    BY <2>1 DEF S, Is
  <2>3. QED BY <2>2 DEF Locks
<1>4. QED BY <1>1, <1>2, <1>3 DEF Locks

LEMMA LockStep ==
  ASSUME Typed, UnlockInv, LockInv, [PNext]_pvars
  PROVE  LockInv'
<1>1. ASSUME NEW t \in Thread, Step(t) PROVE LockInv'
  <2>1. PICK b : Does(t, b) /\ Shifted(t, b) /\ Origin(t, b)
    BY <1>1, StepDoes, CameFrom
  <2> DEFINE i == task[t][1]
  <2>2. /\ i \in Statement /\ 1 \in 1..Len(task[t]) /\ b \in Seq(Statement)
        /\ unit' = Exec(unit, i) /\ unit \in Unit /\ Expands(unit, i, b)
    BY <2>1 DEF Shifted, Does, Typed
  <2>3. unit.lock_status = 1 /\ unit'.lock_status # 1 => Unlocking(i)
    BY <2>2, ExecFacts DEF Unlocking, Is, Statement
  <2>4. ASSUME unit'.DeviceStatus \in LockAlarm PROVE unit'.lock_status = 1
    <3>1. CASE ShowsLock(i)
      <4>1. unit.lock_status = 1
        BY <2>2, <3>1 DEF LockInv, Ahead
      <4>2. QED BY <2>3, <3>1, <4>1 DEF ShowsLock, Unlocking, Is
    <3>2. CASE ~ShowsLock(i)
      <4>1. unit.DeviceStatus \in LockAlarm
        <5>1. CASE i.op = "DeviceStatus"
          BY <2>2, <2>4, <3>2, <5>1, ExecFacts DEF ShowsLock
        <5>2. CASE i.op = "DeviceStatus_of_valve"
          BY <2>2, <2>4, <5>2, ExecFacts DEF LockAlarm
        <5>3. CASE i.op # "DeviceStatus" /\ i.op # "DeviceStatus_of_valve"
          BY <2>2, <2>4, <5>3, ExecFacts
        <5>4. QED BY <5>1, <5>2, <5>3
      <4>2. QED BY <2>2, <2>3, <4>1 DEF LockInv, UnlockInv
    <3>3. QED BY <3>1, <3>2
  <2>5. ASSUME NEW r \in Thread, NEW m \in 1..Len(task'[r]), ShowsLock(task'[r][m])
        PROVE  unit'.lock_status = 1 \/ Ahead(Locks, r, m)'
    <3>1. CASE r # t
      <4>1. task'[r] = task[r]
        BY <2>1, <3>1 DEF Shifted
      <4>2. unit.lock_status = 1 \/ Ahead(Locks, r, m)
        BY <2>5, <4>1 DEF LockInv
      <4>3. r = "rf" /\ ~Unlocking(i)
        <5>1. Reserved(task[r][m])
          BY <2>5, <4>1, ShowsLockFacts
        <5>2. Unlocking(i) => t = "rf"
          BY <2>2, UnlockReserved DEF Typed, Structure
        <5>3. QED BY <3>1, <4>1, <5>1, <5>2, OnlyRf
      <4>4. Ahead(Locks, r, m) => Ahead(Locks, r, m)'
        BY <4>1 DEF Ahead
      <4>5. QED BY <2>3, <4>2, <4>3, <4>4
    <3>2. CASE r = t /\ m \in 1..Len(b) /\ task'[t][m] = b[m]
      <4>1. PICK n \in 1..m-1 : b[n] \in Locks
        BY <2>2, <2>5, <3>2, ShowsLockBody
      <4>2. n \in 1..Len(b)
        BY <2>1, <3>2, <4>1 DEF Shifted
      <4>3. task'[t][n] = b[n]
        BY <2>1, <4>2 DEF Shifted
      <4>4. QED BY <3>2, <4>1, <4>3 DEF Ahead
    <3>3. ASSUME r = t, NEW k \in 2..Len(task[t]), m = k + Len(b) - 1, task'[t][m] = task[t][k]
          PROVE  unit'.lock_status = 1 \/ Ahead(Locks, r, m)'
      <4>1. ShowsLock(task[t][k]) /\ ShowsAlarm(task[t][k]) /\ k \in 1..Len(task[t])
        BY <2>1, <2>5, <3>3, ShowsLockFacts DEF Shifted
      <4>2. unit.lock_status = 1 \/ Ahead(Locks, t, k)
        BY <4>1 DEF LockInv
      <4>3. ~Unlocking(i)
        <5>1. PrecededAt(task[t], k) /\ 1 \in 1..k-1
          BY <2>1, <4>1 DEF Typed, Structure, Shifted
        <5>2. QED BY <4>1, <5>1, ShowsLockFacts DEF PrecededAt, Is
      <4>4. Ahead(Locks, t, k) => Ahead(Locks, t, m)' \/ i \in Locks
        BY <2>1, <3>3, AheadStays
      <4>5. i \in Locks => unit'.lock_status = 1 \/ Ahead(Locks, t, m)'
        <5>1. (\E n \in 1..Len(b) : b[n] \in Locks) => Ahead(Locks, t, m)'
          BY <2>1, <3>3, AheadStays
        <5>2. QED BY <2>2, <5>1, LocksBody
      <4>6. QED BY <2>3, <3>3, <4>2, <4>3, <4>4, <4>5
    <3>4. ASSUME r = t
          PROVE  \/ m \in 1..Len(b) /\ task'[t][m] = b[m]
                 \/ \E k \in 2..Len(task[t]) : m = k + Len(b) - 1 /\ task'[t][m] = task[t][k]
      <4>1. m \in 1..Len(task'[t])
        BY <3>4
      <4>2. QED BY <2>1, <4>1 DEF Origin
    <3>5. QED BY <3>1, <3>2, <3>3, <3>4
  <2>6. QED BY <2>4, <2>5 DEF LockInv
<1>2. ASSUME NEW t \in Thread, Start(t) PROVE LockInv'
  BY <1>2, StartFacts, ShowsLockFacts DEF LockInv, Ahead
<1>3. CASE TimerThread
  <2>1. TimerKeeps(unit, unit') /\ task' = task
    BY <1>3, TimerTyped
  <2>2. \A t, m : Ahead(Locks, t, m) => Ahead(Locks, t, m)'
    BY <2>1 DEF Ahead
  <2>3. QED BY <2>1, <2>2 DEF LockInv, TimerKeeps, LockAlarm, Event
<1>4. CASE UNCHANGED pvars
  BY <1>4 DEF pvars, LockInv, Ahead
<1>5. QED BY <1>1, <1>2, <1>3, <1>4 DEF PNext

-----------------------------------------------------------------------------
(* Calls that are not cut in two.                                          *)

LEMMA NotOvertaken ==
  ASSUME NEW h, Overtakes(h), NEW c, c \notin overtaken'
  PROVE  /\ c \notin overtaken
         /\ \A r \in Thread \ {h} : c \in Inside(r) => unit' = unit
BY DEF Overtakes

\* The last statements of the calls.
LEMMA EndOfFacts ==
  ASSUME NEW i
  PROVE  /\ i.op = "start_detect" => "valve_open" \in EndOf(i)
         /\ i.op = "stop_all" => "valve_close" \in EndOf(i)
         /\ i.op \in {"check_half", "arm"} => "valve_check_start" \in EndOf(i)
         /\ ShowsAlarm(i) => "warning_enable" \in EndOf(i)
         /\ i = S("priority", "none") => "warning_all_clear" \in EndOf(i)
<1> DEFINE p == S("priority", "none")
<1>1. p.op = "priority" /\ p.arg = "none"
  BY DEF S
<1> HIDE DEF p
<1>2. i.op = "start_detect" => EndOf(i) = {"valve_open"}
  <2> SUFFICES ASSUME i.op = "start_detect", i # p PROVE EndOf(i) = {"valve_open"}
    BY <1>1
  <2>1. QED BY Zenon DEF EndOf, p
<1>3. i.op = "stop_all" => EndOf(i) = {"valve_close"}
  <2> SUFFICES ASSUME i.op = "stop_all", i # p PROVE EndOf(i) = {"valve_close"}
    BY <1>1
  <2>1. QED BY Zenon DEF EndOf, p
<1>4. i.op \in {"check_half", "arm"} => EndOf(i) = {"valve_check_start"}
  <2> SUFFICES ASSUME i.op \in {"check_half", "arm"}, i # p
               PROVE  EndOf(i) = {"valve_check_start"}
    BY <1>1
  <2>1. CASE i.op = "check_half"
    BY <2>1, Zenon DEF EndOf, p
  <2>2. CASE i.op = "arm"
    BY <2>2, Zenon DEF EndOf, p
  <2>3. QED BY <2>1, <2>2
<1>5. Event \subseteq Alarm
  BY DEF Event, Alarm
<1>6. ShowsAlarm(i) => EndOf(i) = {"warning_enable"}
  <2> SUFFICES ASSUME ShowsAlarm(i), i # p PROVE EndOf(i) = {"warning_enable"}
    BY <1>1 DEF ShowsAlarm
  <2>1. CASE i.op = "callback"
    BY <2>1, Zenon DEF EndOf, p
  <2>2. CASE i.op = "DeviceStatus" /\ i.arg \in Alarm
    BY <2>2, Zenon DEF EndOf, p
  <2>3. QED BY <1>5, <2>1, <2>2 DEF ShowsAlarm
<1>7. i = p => EndOf(i) = {"warning_all_clear"}
  <2> SUFFICES ASSUME i = p, i.op = "priority" PROVE EndOf(i) = {"warning_all_clear"}
    BY <1>1
  <2>1. QED BY Zenon DEF EndOf, p
<1>8. QED BY <1>2, <1>3, <1>4, <1>6, <1>7 DEF p

LEMMA InsideIf ==
  ASSUME NEW r \in Thread, NEW n \in 1..Len(task[r]), NEW c, c \in EndOf(task[r][n])
  PROVE  c \in Inside(r)
BY DEF Inside

\* Whoever has still to drive the valve open is inside valve_open, to the start of
\* its last timer.
LEMMA PinsInside ==
  ASSUME Typed, NEW r \in Thread, NEW n \in 1..Len(task[r]), Is(task[r][n], "pins", "open")
  PROVE  "valve_open" \in Inside(r)
<1> DEFINE s == task[r]
<1>1. Len(s) \in Nat /\ \A k \in 1..Len(s) : LinkedAt(s, k)
  BY LenProperties DEF Typed, Structure
<1> HIDE DEF s
<1>2. n + 1 \in 1..Len(s) /\ s[n+1].op = "stop_checks"
  BY <1>1 DEF LinkedAt, Next1, Is, s
<1> DEFINE q == n + 1
<1>3. q \in 1..Len(s) /\ s[q].op = "stop_checks"
  BY <1>2
<1> HIDE DEF q
<1>4. q + 1 \in 1..Len(s) /\ s[q+1].op = "start_detect"
  BY <1>1, <1>3 DEF LinkedAt, Next1, Is
<1> DEFINE e == q + 1
<1>5. e \in 1..Len(s) /\ "valve_open" \in EndOf(s[e])
  BY <1>4, EndOfFacts
<1> HIDE DEF e
<1>6. QED BY <1>5, InsideIf DEF s

LEMMA OpenInside ==
  ASSUME Typed, NEW r \in Thread, NEW n \in 1..Len(task[r]), Is(task[r][n], "valve_status", "open")
  PROVE  "valve_open" \in Inside(r)
<1> DEFINE p == n + 1
<1>1. p \in 1..Len(task[r]) /\ Is(task[r][p], "pins", "open")
  BY DEF Typed, Structure, LinkedAt, Next1
<1> HIDE DEF p
<1>2. QED BY <1>1, PinsInside

\* Whoever has still to show an alarm is inside warning_enable.
LEMMA AlarmInside ==
  ASSUME NEW r \in Thread, NEW n \in 1..Len(task[r]), ShowsAlarm(task[r][n])
  PROVE  "warning_enable" \in Inside(r)
BY EndOfFacts, InsideIf

-----------------------------------------------------------------------------
(* A locked valve.                                                         *)

Shuts == {i \in Statement : i.op = "valve_close" \/ Is(i, "valve_status", "shut")}

\* As long as no valve_open has been cut in two, a locked valve is shut or about to
\* be, and only an unlocked one is about to be open.
OpenInv ==
  "valve_open" \notin overtaken =>
    /\ unit.lock_status = 1 /\ unit.valve_status = VALVE_STATUS_OPEN => Waiting(Shuts)
    /\ \A t \in Thread : \A n \in 1..Len(task[t]) :
         Is(task[t][n], "valve_status", "open") =>
           unit.lock_status = 0 /\ (n = 1 => unit.DeviceStatus = "ValveOpen")

\* Closing leaves a shut valve or a statement that shuts it.
LEMMA ShutsBody ==
  ASSUME NEW u \in Unit, NEW i \in Shuts, NEW b \in Seq(Statement), Expands(u, i, b)
  PROVE  \/ Exec(u, i).valve_status = VALVE_STATUS_CLOSE
         \/ \E n \in 1..Len(b) : b[n] \in Shuts
<1>1. CASE Is(i, "valve_status", "shut")
  BY <1>1, ExecFacts DEF Is, Shuts
<1>2. CASE i.op = "valve_close" /\ u.valve_valid = 0
  <2>1. b = <<S("valve_status", "shut"), S("pins", "shut")>>
    BY <1>2 DEF Expands
  <2>2. 1 \in 1..Len(b) /\ b[1] \in Statement /\ Is(b[1], "valve_status", "shut")
    BY <2>1 DEF S, Is
  <2>3. QED BY <2>2 DEF Shuts
<1>3. CASE i.op = "valve_close" /\ u.valve_valid # 0
  <2>1. b = <<S("DeviceStatus", "ValveClose"), S("valve_status", "shut"), S("pins", "shut"),
              S("stop_all", "void")>>
    BY <1>3 DEF Expands
  <2>2. 2 \in 1..Len(b) /\ b[2] \in Statement /\ Is(b[2], "valve_status", "shut")
    BY <2>1 DEF S, Is
  <2>3. QED BY <2>2 DEF Shuts
<1>4. QED BY <1>1, <1>2, <1>3 DEF Shuts

\* Only the body of an unlocked valve_open opens.
LEMMA OpenBody ==
  ASSUME NEW u \in Unit, NEW i \in Statement, NEW b, Expands(u, i, b),
         NEW m \in 1..Len(b), Is(b[m], "valve_status", "open")
  PROVE  i.op = "valve_open" /\ u.lock_status = 0 /\ m = 2
<1>1. /\ i.op = "valve_open" /\ u.lock_status = 0
      /\ b = <<S("DeviceStatus", "ValveOpen"), S("valve_status", "open"), S("pins", "open"),
               S("stop_checks", "void"), S("start_detect", "void")>>
  BY DEF Expands, Is, S
<1>2. m = 2
  BY <1>1 DEF Is, S
<1>3. QED BY <1>1, <1>2

\* What is no call is executed and gone.
LEMMA Executed ==
  ASSUME NEW u, NEW i, i.op \in Primitive, NEW b, Expands(u, i, b)
  PROVE  b = <<>>
BY DEF Expands, Primitive

LEMMA OpenStep ==
  ASSUME Typed, OpenInv, [PNext]_pvars
  PROVE  OpenInv'
<1>1. ASSUME NEW t \in Thread, Step(t), "valve_open" \notin overtaken' PROVE OpenInv'
  <2>1. PICK b : Does(t, b) /\ Shifted(t, b) /\ Origin(t, b)
    BY <1>1, StepDoes, CameFrom
  <2> DEFINE i == task[t][1]
  <2>2. /\ i \in Statement /\ 1 \in 1..Len(task[t]) /\ b \in Seq(Statement)
        /\ unit' = Exec(unit, i) /\ unit \in Unit /\ Expands(unit, i, b)
    BY <2>1 DEF Shifted, Does, Typed
  <2>3. /\ "valve_open" \notin overtaken
        /\ \A r \in Thread \ {t} : "valve_open" \in Inside(r) => unit' = unit
    BY <1>1, <2>1, NotOvertaken DEF Does
  <2>4. ASSUME unit'.lock_status = 1, unit'.valve_status = VALVE_STATUS_OPEN
        PROVE  Waiting(Shuts)'
    <3>1. CASE Is(i, "valve_status", "open")
      <4>1. unit'.lock_status = unit.lock_status
        BY <2>2, <3>1, ExecFacts DEF Is
      <4>2. QED BY <2>2, <2>3, <2>4, <3>1, <4>1 DEF OpenInv
    <3>2. CASE Is(i, "lock_status", "1")
      <4>1. Next1(task[t], 2, "valve_close", "void")
        BY <2>2, <3>2 DEF Typed, Structure, LinkedAt
      <4>2. 3 \in 2..Len(task[t]) /\ task[t][3] \in Statement /\ task[t][3].op = "valve_close"
        BY <4>1 DEF Next1, Is, Typed
      <4>3. task[t][3] \in Shuts
        BY <4>2 DEF Shuts
      <4>4. QED BY <2>1, <4>2, <4>3, WaitingNext
    <3>3. CASE ~Is(i, "valve_status", "open") /\ ~Is(i, "lock_status", "1")
      <4>1. unit.lock_status = 1
        BY <2>2, <2>4, <3>3, ExecFacts DEF Is, Statement
      <4>2. unit.valve_status = VALVE_STATUS_OPEN
        BY <2>2, <2>4, <3>3, ExecFacts DEF Is, Statement
      <4>3. Waiting(Shuts)' \/ i \in Shuts
        BY <2>1, <2>3, <4>1, <4>2, WaitingStays DEF OpenInv
      <4>4. i \in Shuts => \E n \in 1..Len(b) : b[n] \in Shuts
        BY <2>2, <2>4, ShutsBody
      <4>5. QED BY <2>1, <4>3, <4>4, WaitingNext
    <3>4. QED BY <3>1, <3>2, <3>3
  <2>5. ASSUME NEW r \in Thread, NEW m \in 1..Len(task'[r]), Is(task'[r][m], "valve_status", "open")
        PROVE  unit'.lock_status = 0 /\ (m = 1 => unit'.DeviceStatus = "ValveOpen")
    <3>1. CASE r # t
      <4>1. task'[r] = task[r]
        BY <2>1, <3>1 DEF Shifted
      <4>2. unit' = unit
        BY <2>3, <2>5, <3>1, <4>1, OpenInside
      <4>3. QED BY <2>3, <2>5, <4>1, <4>2 DEF OpenInv
    <3>2. CASE r = t /\ m \in 1..Len(b) /\ task'[t][m] = b[m]
      <4>1. i.op = "valve_open" /\ unit.lock_status = 0 /\ m = 2
        BY <2>2, <2>5, <3>2, OpenBody
      <4>2. unit' = unit
        BY <2>2, <4>1, CallUnseen DEF Call
      <4>3. QED BY <4>1, <4>2
    <3>3. ASSUME r = t, NEW k \in 2..Len(task[t]), m = k + Len(b) - 1, task'[t][m] = task[t][k]
          PROVE  unit'.lock_status = 0 /\ (m = 1 => unit'.DeviceStatus = "ValveOpen")
      <4>1. k \in 1..Len(task[t]) /\ Is(task[t][k], "valve_status", "open")
        BY <2>1, <2>5, <3>3 DEF Shifted
      <4>2. Is(i, "DeviceStatus", "ValveOpen")
        BY <3>3, <4>1 DEF Typed, Structure, PrecededAt
      <4>3. unit'.DeviceStatus = "ValveOpen" /\ unit'.lock_status = unit.lock_status
        BY <2>2, <4>2, ExecFacts DEF Is
      <4>4. unit.lock_status = 0
        BY <2>3, <4>1 DEF OpenInv
      <4>5. QED BY <4>3, <4>4
    <3>4. ASSUME r = t
          PROVE  \/ m \in 1..Len(b) /\ task'[t][m] = b[m]
                 \/ \E k \in 2..Len(task[t]) : m = k + Len(b) - 1 /\ task'[t][m] = task[t][k]
      <4>1. m \in 1..Len(task'[t])
        BY <3>4
      <4>2. QED BY <2>1, <4>1 DEF Origin
    <3>5. QED BY <3>1, <3>2, <3>3, <3>4
  <2>6. QED BY <2>4, <2>5 DEF OpenInv
<1>2. ASSUME NEW t \in Thread, Start(t) PROVE OpenInv'
  <2>1. \A A : Waiting(A) => Waiting(A)'
    BY <1>2, StartFacts, WaitingKept
  <2>2. \A i \in Opening : ~Is(i, "valve_status", "open")
    BY DEF Is, Opening
  <2>3. QED BY <1>2, <2>1, <2>2, StartFacts DEF OpenInv
<1>3. ASSUME TimerThread, "valve_open" \notin overtaken' PROVE OpenInv'
  <2>1. TimerKeeps(unit, unit') /\ task' = task /\ \A A : Waiting(A) => Waiting(A)'
    BY <1>3, TimerTyped, WaitingKept
  <2>2. /\ "valve_open" \notin overtaken
        /\ \A r \in Thread : "valve_open" \in Inside(r) => unit' = unit
    BY <1>3, TimerTyped, NotOvertaken DEF Thread
  <2>3. ASSUME NEW r \in Thread, NEW m \in 1..Len(task[r]), Is(task[r][m], "valve_status", "open")
        PROVE  unit' = unit
    BY <2>2, <2>3, OpenInside
  <2>4. QED BY <2>1, <2>2, <2>3 DEF OpenInv, TimerKeeps
<1>4. CASE UNCHANGED pvars
  BY <1>4 DEF pvars, OpenInv, Waiting
<1>5. QED BY <1>1, <1>2, <1>3, <1>4 DEF PNext, OpenInv

\* Unless a valve_open was cut in two, a locked valve is shut at rest.
THEOREM LockedShutAtRest == PSpec => []LockedOpenOnlyOvertaken
<1>1. PInit => OpenInv
  <2> SUFFICES ASSUME PInit PROVE unit.lock_status # 1 /\ \A t \in Thread : Len(task[t]) = 0
    BY DEF OpenInv
  <2>1. PowerOn(0).lock_status = 0 /\ PowerOn(0) \in Unit
    BY PowerOnGood DEF PowerOn, Good
  <2>2. valve_open(PowerOn(0)).lock_status = 0
    BY <2>1, ValveOpenFacts
  <2>3. QED BY <2>1, <2>2 DEF PInit
<1>2. Typed /\ OpenInv => LockedOpenOnlyOvertaken
  <2> SUFFICES ASSUME Typed, OpenInv, Uncut({"valve_open"}), unit.lock_status = 1
               PROVE  unit.valve_status = VALVE_STATUS_CLOSE
    BY DEF LockedOpenOnlyOvertaken
  <2>1. ~Waiting(Shuts) /\ "valve_open" \notin overtaken
    BY RestWaits DEF Uncut
  <2>2. unit.valve_status \in 0..1
    BY DEF Typed, Unit
  <2>3. QED BY <2>1, <2>2 DEF OpenInv
<1>3. QED BY <1>1, <1>2, OpenStep, PTyping, PTL DEF PSpec

-----------------------------------------------------------------------------
(* The alarm of a silent sensor, which shuts the valve without locking it. *)

SilentInv ==
  "valve_open" \notin overtaken /\ "warning_enable" \notin overtaken =>
    /\ unit.DeviceStatus = "SlaverOffline" => unit.valve_status = VALVE_STATUS_CLOSE
    /\ \A t \in Thread : \A m \in 1..Len(task[t]) :
         Is(task[t][m], "DeviceStatus", "SlaverOffline")
           => unit.valve_status = VALVE_STATUS_CLOSE \/ Ahead(Shuts, t, m)

LEMMA ShowsSilence ==
  \A i : Is(i, "DeviceStatus", "SlaverOffline") => ShowsAlarm(i) /\ i \notin Opening
BY DEF ShowsAlarm, Event, Opening, Is

\* Only the body of its callback shows that alarm, and it closes first.
LEMMA SilenceBody ==
  ASSUME NEW u \in Unit, NEW i \in Statement, NEW b \in Seq(Statement), Expands(u, i, b),
         NEW m \in 1..Len(b), Is(b[m], "DeviceStatus", "SlaverOffline")
  PROVE  \E n \in 1..m-1 : b[n] \in Shuts
<1>1. i.op = "callback" /\ b = <<S("valve_close", "void"), S("DeviceStatus", i.arg)>>
  BY DEF Expands, Is, LockAlarm, S
<1>2. m = 2 /\ b[1] \in Statement /\ b[1].op = "valve_close"
  BY <1>1 DEF Is, S
<1>3. QED BY <1>2 DEF Shuts

LEMMA SilentStep ==
  ASSUME Typed, OpenInv, SilentInv, [PNext]_pvars
  PROVE  SilentInv'
<1>1. ASSUME NEW t \in Thread, Step(t),
             "valve_open" \notin overtaken', "warning_enable" \notin overtaken'
      PROVE  SilentInv'
  <2>1. PICK b : Does(t, b) /\ Shifted(t, b) /\ Origin(t, b)
    BY <1>1, StepDoes, CameFrom
  <2> DEFINE i == task[t][1]
  <2>2. /\ i \in Statement /\ 1 \in 1..Len(task[t]) /\ b \in Seq(Statement)
        /\ unit' = Exec(unit, i) /\ unit \in Unit /\ Expands(unit, i, b)
    BY <2>1 DEF Shifted, Does, Typed
  <2>3. /\ "valve_open" \notin overtaken /\ "warning_enable" \notin overtaken
        /\ \A r \in Thread \ {t} : "warning_enable" \in Inside(r) => unit' = unit
    BY <1>1, <2>1, NotOvertaken DEF Does
  <2>4. unit.valve_status = VALVE_STATUS_CLOSE /\ unit'.valve_status # VALVE_STATUS_CLOSE
          => Is(i, "valve_status", "open")
    BY <2>2, ExecFacts DEF Is, Statement
  <2>5. ASSUME unit'.DeviceStatus = "SlaverOffline"
        PROVE  unit'.valve_status = VALVE_STATUS_CLOSE
    <3>1. CASE Is(i, "DeviceStatus", "SlaverOffline")
      <4>1. unit.valve_status = VALVE_STATUS_CLOSE
        BY <2>2, <2>3, <3>1 DEF SilentInv, Ahead
      <4>2. QED BY <2>4, <3>1, <4>1 DEF Is
    <3>2. CASE ~Is(i, "DeviceStatus", "SlaverOffline")
      <4>1. unit.DeviceStatus = "SlaverOffline"
        BY <2>2, <2>5, <3>2, ExecFacts DEF Is
      <4>2. ~Is(i, "valve_status", "open")
        BY <2>2, <2>3, <4>1 DEF OpenInv
      <4>3. QED BY <2>3, <2>4, <4>1, <4>2 DEF SilentInv
    <3>3. QED BY <3>1, <3>2
  <2>6. ASSUME NEW r \in Thread, NEW m \in 1..Len(task'[r]),
               Is(task'[r][m], "DeviceStatus", "SlaverOffline")
        PROVE  unit'.valve_status = VALVE_STATUS_CLOSE \/ Ahead(Shuts, r, m)'
    <3>1. CASE r # t
      <4>1. task'[r] = task[r]
        BY <2>1, <3>1 DEF Shifted
      <4>2. ShowsAlarm(task[r][m])
        BY <2>6, <4>1, ShowsSilence
      <4>3. unit' = unit
        BY <2>3, <3>1, <4>1, <4>2, AlarmInside
      <4>4. Ahead(Shuts, r, m) => Ahead(Shuts, r, m)'
        BY <4>1 DEF Ahead
      <4>5. QED BY <2>3, <2>6, <4>1, <4>3, <4>4 DEF SilentInv
    <3>2. CASE r = t /\ m \in 1..Len(b) /\ task'[t][m] = b[m]
      <4>1. PICK n \in 1..m-1 : b[n] \in Shuts
        BY <2>2, <2>6, <3>2, SilenceBody
      <4>2. n \in 1..Len(b)
        BY <2>1, <3>2, <4>1 DEF Shifted
      <4>3. task'[t][n] = b[n]
        BY <2>1, <4>2 DEF Shifted
      <4>4. QED BY <3>2, <4>1, <4>3 DEF Ahead
    <3>3. ASSUME r = t, NEW k \in 2..Len(task[t]), m = k + Len(b) - 1, task'[t][m] = task[t][k]
          PROVE  unit'.valve_status = VALVE_STATUS_CLOSE \/ Ahead(Shuts, r, m)'
      <4>1. Is(task[t][k], "DeviceStatus", "SlaverOffline") /\ ShowsAlarm(task[t][k])
            /\ k \in 1..Len(task[t])
        BY <2>1, <2>6, <3>3, ShowsSilence DEF Shifted
      <4>2. unit.valve_status = VALVE_STATUS_CLOSE \/ Ahead(Shuts, t, k)
        BY <2>3, <4>1 DEF SilentInv
      <4>3. ~Is(i, "valve_status", "open")
        <5>1. PrecededAt(task[t], k) /\ 1 \in 1..k-1
          BY <2>1, <4>1 DEF Typed, Structure, Shifted
        <5>2. Quiet(i) \/ i.op = "priority"
          BY <4>1, <5>1 DEF PrecededAt, Is
        <5>3. QED BY <5>2 DEF Quiet, Is
      <4>4. Ahead(Shuts, t, k) => Ahead(Shuts, t, m)' \/ i \in Shuts
        BY <2>1, <3>3, AheadStays
      <4>5. i \in Shuts => unit'.valve_status = VALVE_STATUS_CLOSE \/ Ahead(Shuts, t, m)'
        <5>1. (\E n \in 1..Len(b) : b[n] \in Shuts) => Ahead(Shuts, t, m)'
          BY <2>1, <3>3, AheadStays
        <5>2. QED BY <2>2, <5>1, ShutsBody
      <4>6. QED BY <2>4, <3>3, <4>2, <4>3, <4>4, <4>5
    <3>4. ASSUME r = t
          PROVE  \/ m \in 1..Len(b) /\ task'[t][m] = b[m]
                 \/ \E k \in 2..Len(task[t]) : m = k + Len(b) - 1 /\ task'[t][m] = task[t][k]
      <4>1. m \in 1..Len(task'[t])
        BY <3>4
      <4>2. QED BY <2>1, <4>1 DEF Origin
    <3>5. QED BY <3>1, <3>2, <3>3, <3>4
  <2>7. QED BY <2>5, <2>6 DEF SilentInv
<1>2. ASSUME NEW t \in Thread, Start(t) PROVE SilentInv'
  <2>1. \A r \in Thread, m \in Int : Ahead(Shuts, r, m) => r = t \/ Ahead(Shuts, r, m)'
    BY <1>2, StartFacts DEF Ahead
  <2>2. QED BY <1>2, <2>1, StartFacts, ShowsSilence DEF SilentInv
<1>3. ASSUME TimerThread, "valve_open" \notin overtaken', "warning_enable" \notin overtaken'
      PROVE  SilentInv'
  <2>1. TimerKeeps(unit, unit') /\ task' = task
    BY <1>3, TimerTyped
  <2>2. \A t, m : Ahead(Shuts, t, m) => Ahead(Shuts, t, m)'
    BY <2>1 DEF Ahead
  <2>3. /\ "valve_open" \notin overtaken /\ "warning_enable" \notin overtaken
        /\ \A r \in Thread : "warning_enable" \in Inside(r) => unit' = unit
    BY <1>3, TimerTyped, NotOvertaken DEF Thread
  <2>4. ASSUME NEW r \in Thread, NEW m \in 1..Len(task[r]),
               Is(task[r][m], "DeviceStatus", "SlaverOffline")
        PROVE  unit' = unit
    BY <2>3, <2>4, ShowsSilence, AlarmInside
  <2>5. unit'.DeviceStatus = "SlaverOffline" => unit'.valve_status = VALVE_STATUS_CLOSE
    <3>1. unit.valve_status \in 0..1 /\ unit'.valve_status \in 0..1
      BY <2>1 DEF Typed, TimerKeeps, Unit
    <3>2. QED BY <2>1, <2>3, <3>1 DEF SilentInv, TimerKeeps, Event
  <2>6. QED BY <2>1, <2>2, <2>3, <2>4, <2>5 DEF SilentInv
<1>4. CASE UNCHANGED pvars
  BY <1>4 DEF pvars, SilentInv, Ahead
<1>5. QED BY <1>1, <1>2, <1>3, <1>4 DEF PNext, SilentInv

\* At rest a leak or an exhausted battery on display is locked, and shut unless a
\* valve_open was cut in two; a silent sensor has the valve shut unless that or its
\* own alarm was cut.
THEOREM AlarmsHoldAtRest == PSpec => []AlarmHoldsAtRest
<1>1. PInit => LockInv /\ SilentInv /\ OpenInv
  <2> SUFFICES ASSUME PInit
               PROVE  /\ \A t \in Thread : Len(task[t]) = 0
                      /\ unit.DeviceStatus \notin Event /\ unit.lock_status # 1
    BY DEF LockInv, SilentInv, OpenInv, LockAlarm, Event
  <2>1. PowerOn(0).lock_status = 0 /\ PowerOn(0).DeviceStatus = "ValveClose" /\ PowerOn(0) \in Unit
    BY PowerOnGood DEF PowerOn, Good
  <2>2. /\ valve_open(PowerOn(0)).lock_status = 0
        /\ valve_open(PowerOn(0)).DeviceStatus \in {"ValveClose", "ValveOpen"}
    BY <2>1, ValveOpenFacts
  <2>3. QED BY <2>1, <2>2 DEF PInit, Event
<1>2. PInit => UnlockInv
  BY DEF PInit, UnlockInv
<1>3. Typed /\ LockInv /\ SilentInv /\ OpenInv => AlarmHoldsAtRest
  <2> SUFFICES ASSUME Typed, LockInv, SilentInv, OpenInv, AtRest PROVE AlarmHoldsAtRest
    BY DEF AlarmHoldsAtRest, Uncut
  <2>1. ~Waiting(Shuts)
    BY RestWaits
  <2>2. unit.valve_status \in 0..1
    BY DEF Typed, Unit
  <2>3. QED BY <2>1, <2>2 DEF AlarmHoldsAtRest, Uncut, LockInv, SilentInv, OpenInv, LockAlarm
<1>4. QED
  BY <1>1, <1>2, <1>3, UnlockStep, LockStep, OpenStep, SilentStep, PTyping, PTL DEF PSpec

-----------------------------------------------------------------------------
(* The stored priority.                                                    *)

AlarmShows == {i \in Statement : ShowsAlarm(i)}

\* The priority is that of the alarm shown, or an alarm is about to be shown; it is
\* that of the alarm about to be shown once it has been stored; and it is not reset
\* while an alarm is on display.
RankInv ==
  "warning_enable" \notin overtaken /\ "warning_all_clear" \notin overtaken =>
    /\ Ranked(unit) \/ Waiting(AlarmShows)
    /\ \A t \in Thread : \A m \in 1..Len(task[t]) :
         /\ ShowsAlarm(task[t][m]) =>
              \/ unit.priority = warning_priority(task[t][m].arg)
              \/ m = 2 /\ task[t][1].op = "priority"
         /\ m = 1 /\ Is(task[t][m], "priority", "none") => unit.DeviceStatus \notin Alarm

LEMMA EventFacts ==
  /\ Event \subseteq Alarm
  /\ \A e \in {"ValveOpen", "ValveClose", "LearnDevice"} : e \notin Alarm /\ e \notin Event
  /\ "none" \notin Event
  /\ \A i \in Statement : ShowsAlarm(i) => i.arg \in Event
  /\ \A i \in Opening : ~ShowsAlarm(i) /\ i.op # "priority"
BY DEF Event, Alarm, FailAlarm, Statement, ShowsAlarm, Opening

\* Alarms are shown by the bodies of warning_enable and of the callback.
LEMMA AlarmBody ==
  ASSUME NEW u \in Unit, NEW i \in Statement, NEW b, Expands(u, i, b),
         NEW m \in 1..Len(b), ShowsAlarm(b[m])
  PROVE  \/ i.op = "warning_enable" /\ m = 2 /\ b[1].op = "priority"
         \/ i.op = "callback" /\ b[m].arg = i.arg
<1>1. CASE i.op = "warning_enable"
  <2>1. b = <<S("priority", i.arg), S("callback", i.arg)>>
    BY <1>1 DEF Expands
  <2>2. QED BY <1>1, <2>1 DEF ShowsAlarm, S
<1>2. CASE i.op = "callback"
  <2>1. \/ b = <<S("valve_lock", "void"), S("valve_close", "void"), S("DeviceStatus", i.arg)>>
        \/ b = <<S("valve_close", "void"), S("DeviceStatus", i.arg)>>
    BY <1>2 DEF Expands
  <2>2. QED BY <1>2, <2>1 DEF ShowsAlarm, S
<1>3. CASE i.op # "warning_enable" /\ i.op # "callback"
  BY <1>3 DEF Expands, ShowsAlarm, Event, S
<1>4. QED BY <1>1, <1>2, <1>3

\* A callback that does nothing finds its alarm on display.
LEMMA CallbackBody ==
  ASSUME NEW u \in Unit, NEW i \in Statement, i.op = "callback",
         NEW b \in Seq(Statement), Expands(u, i, b)
  PROVE  u.DeviceStatus = i.arg \/ \E n \in 1..Len(b) : b[n] \in AlarmShows
<1>1. i.arg \in Event
  BY DEF Statement
<1>2. CASE b = <<S("valve_lock", "void"), S("valve_close", "void"), S("DeviceStatus", i.arg)>>
  <2>1. 3 \in 1..Len(b) /\ b[3] \in Statement /\ ShowsAlarm(b[3])
    BY <1>1, <1>2 DEF ShowsAlarm, S
  <2>2. QED BY <2>1 DEF AlarmShows
<1>3. CASE b = <<S("valve_close", "void"), S("DeviceStatus", i.arg)>>
  <2>1. 2 \in 1..Len(b) /\ b[2] \in Statement /\ ShowsAlarm(b[2])
    BY <1>1, <1>3 DEF ShowsAlarm, S
  <2>2. QED BY <2>1 DEF AlarmShows
<1>4. QED BY <1>2, <1>3 DEF Expands

\* No body begins with the reset of the priority.
LEMMA ResetBody ==
  ASSUME NEW u \in Unit, NEW i \in Statement, NEW b, Expands(u, i, b), 1 \in 1..Len(b)
  PROVE  ~Is(b[1], "priority", "none")
<1>1. CASE i.op = "warning_enable"
  <2>1. b = <<S("priority", i.arg), S("callback", i.arg)>>
    BY <1>1 DEF Expands
  <2>2. QED BY <1>1, <2>1, EventFacts DEF Is, S, Statement
<1>2. CASE i.op # "warning_enable"
  BY <1>2 DEF Expands, Is, S
<1>3. QED BY <1>1, <1>2

\* Whoever has still to reset the priority is inside warning_all_clear.
LEMMA ResetInside ==
  ASSUME Typed, NEW r \in Thread, NEW n \in 1..Len(task[r]), Is(task[r][n], "priority", "none")
  PROVE  "warning_all_clear" \in Inside(r)
<1>1. task[r][n] \in Statement
  BY DEF Typed
<1>2. task[r][n] = S("priority", "none")
  BY <1>1 DEF Statement, Is, S
<1>3. QED BY <1>2, EndOfFacts, InsideIf

\* The alarm on display has its priority, or waits.
LEMMA RankShown ==
  ASSUME Typed, RankInv, "warning_enable" \notin overtaken, "warning_all_clear" \notin overtaken,
         NEW t \in Thread, NEW b, Does(t, b), Shifted(t, b)
  PROVE  Ranked(unit') \/ Waiting(AlarmShows)'
<1> DEFINE i == task[t][1]
<1>1. /\ i \in Statement /\ 1 \in 1..Len(task[t]) /\ b \in Seq(Statement)
      /\ unit' = Exec(unit, i) /\ unit \in Unit /\ Expands(unit, i, b)
  BY DEF Shifted, Does, Typed
<1>2. /\ Ranked(unit) \/ Waiting(AlarmShows)
      /\ ShowsAlarm(i) => unit.priority = warning_priority(i.arg)
      /\ Is(i, "priority", "none") => unit.DeviceStatus \notin Alarm
  BY <1>1 DEF RankInv
<1> SUFFICES ASSUME unit'.DeviceStatus \in Alarm
             PROVE  unit'.priority = warning_priority(unit'.DeviceStatus) \/ Waiting(AlarmShows)'
  BY DEF Ranked
<1>3. CASE i.op = "DeviceStatus"
  <2>1. unit'.DeviceStatus = i.arg /\ unit'.priority = unit.priority
    BY <1>1, <1>3, ExecFacts
  <2>2. i.arg \in Event
    BY <1>1, <1>3, <2>1, EventFacts DEF Statement
  <2>3. QED BY <1>2, <1>3, <2>1, <2>2 DEF ShowsAlarm
<1>4. CASE i.op = "DeviceStatus_of_valve"
  <2>1. unit'.DeviceStatus \in {"ValveOpen", "ValveClose"}
    BY <1>1, <1>4, ExecFacts
  <2>2. QED BY <2>1, EventFacts
<1>5. CASE i.op = "priority" /\ i.arg = "none"
  <2>1. unit'.DeviceStatus = unit.DeviceStatus
    BY <1>1, <1>5, ExecFacts
  <2>2. QED BY <1>2, <1>5, <2>1 DEF Is
<1>6. CASE i.op = "priority" /\ i.arg # "none"
  <2>1. Next1(task[t], 1, "callback", i.arg)
    BY <1>1, <1>6 DEF Typed, Structure, LinkedAt
  <2>2. 2 \in 2..Len(task[t]) /\ task[t][2] \in AlarmShows
    BY <2>1 DEF Next1, Is, Typed, AlarmShows, ShowsAlarm
  <2>3. QED BY <2>2, WaitingNext
<1>7. CASE i.op \notin {"DeviceStatus", "DeviceStatus_of_valve", "priority"}
  <2>1. unit'.DeviceStatus = unit.DeviceStatus /\ unit'.priority = unit.priority
    BY <1>1, <1>7, ExecFacts
  <2>2. CASE Waiting(AlarmShows)
    <3>1. Waiting(AlarmShows)' \/ i \in AlarmShows
      BY <2>2, WaitingStays
    <3>2. i \in AlarmShows => i.op = "callback" /\ unit.priority = warning_priority(i.arg)
      BY <1>2, <1>7 DEF AlarmShows, ShowsAlarm
    <3>3. i.op = "callback" => unit.DeviceStatus = i.arg \/ Waiting(AlarmShows)'
      BY <1>1, CallbackBody, WaitingNext
    <3>4. QED BY <2>1, <3>1, <3>2, <3>3
  <2>3. QED BY <1>2, <2>1, <2>2 DEF Ranked
<1>8. QED BY <1>3, <1>4, <1>5, <1>6, <1>7

LEMMA RankStep ==
  ASSUME Typed, RankInv, [PNext]_pvars
  PROVE  RankInv'
<1>1. ASSUME NEW t \in Thread, Step(t),
             "warning_enable" \notin overtaken', "warning_all_clear" \notin overtaken'
      PROVE  RankInv'
  <2>1. PICK b : Does(t, b) /\ Shifted(t, b) /\ Origin(t, b)
    BY <1>1, StepDoes, CameFrom
  <2> DEFINE i == task[t][1]
  <2>2. /\ i \in Statement /\ 1 \in 1..Len(task[t]) /\ b \in Seq(Statement)
        /\ unit' = Exec(unit, i) /\ unit \in Unit /\ Expands(unit, i, b)
    BY <2>1 DEF Shifted, Does, Typed
  <2>3. /\ "warning_enable" \notin overtaken /\ "warning_all_clear" \notin overtaken
        /\ \A r \in Thread \ {t} : "warning_enable" \in Inside(r) => unit' = unit
        /\ \A r \in Thread \ {t} : "warning_all_clear" \in Inside(r) => unit' = unit
    BY <1>1, <2>1, NotOvertaken DEF Does
  <2>4. Ranked(unit') \/ Waiting(AlarmShows)'
    BY <2>1, <2>3, RankShown
  <2>5. ASSUME NEW r \in Thread, NEW m \in 1..Len(task'[r]), ShowsAlarm(task'[r][m])
        PROVE  \/ unit'.priority = warning_priority(task'[r][m].arg)
               \/ m = 2 /\ task'[r][1].op = "priority"
    <3>1. CASE r # t
      <4>1. task'[r] = task[r]
        BY <2>1, <3>1 DEF Shifted
      <4>2. unit' = unit
        BY <2>3, <2>5, <3>1, <4>1, AlarmInside
      <4>3. QED BY <2>3, <2>5, <4>1, <4>2 DEF RankInv
    <3>2. CASE r = t /\ m \in 1..Len(b) /\ task'[t][m] = b[m]
      <4>1. \/ i.op = "warning_enable" /\ m = 2 /\ b[1].op = "priority"
            \/ i.op = "callback" /\ b[m].arg = i.arg
        BY <2>2, <2>5, <3>2, AlarmBody
      <4>2. m = 2 => task'[t][1] = b[1]
        BY <2>1, <3>2 DEF Shifted
      <4>3. CASE i.op = "callback" /\ b[m].arg = i.arg
        <5>1. unit.priority = warning_priority(i.arg)
          BY <2>2, <2>3, <4>3 DEF RankInv, ShowsAlarm
        <5>2. unit' = unit
          BY <2>2, <4>3, CallUnseen DEF Call
        <5>3. QED BY <3>2, <4>3, <5>1, <5>2
      <4>4. QED BY <3>2, <4>1, <4>2, <4>3
    <3>3. ASSUME r = t, NEW k \in 2..Len(task[t]), m = k + Len(b) - 1, task'[t][m] = task[t][k]
          PROVE  unit'.priority = warning_priority(task'[r][m].arg)
      <4>1. k \in 1..Len(task[t]) /\ ShowsAlarm(task[t][k]) /\ task[t][k] \in Statement
        BY <2>1, <2>5, <3>3 DEF Shifted, Typed
      <4>2. Quiet(i) \/ (k = 2 /\ Is(i, "priority", task[t][k].arg))
        <5>1. PrecededAt(task[t], k) /\ 1 \in 1..k-1
          BY <2>1, <4>1 DEF Typed, Structure, Shifted
        <5>2. QED BY <4>1, <5>1 DEF PrecededAt
      <4>3. CASE i.op = "priority"
        <5>1. i.arg = task[t][k].arg /\ i.arg # "none"
          BY <4>1, <4>2, <4>3, EventFacts DEF Quiet, Is
        <5>2. unit'.priority = warning_priority(i.arg)
          BY <2>2, <4>3, <5>1, ExecFacts
        <5>3. QED BY <3>3, <5>1, <5>2
      <4>4. CASE i.op # "priority"
        <5>1. unit.priority = warning_priority(task[t][k].arg)
          BY <2>3, <4>1, <4>4 DEF RankInv
        <5>2. unit'.priority = unit.priority
          BY <2>2, <4>4, ExecFacts
        <5>3. QED BY <3>3, <5>1, <5>2
      <4>5. QED BY <4>3, <4>4
    <3>4. ASSUME r = t
          PROVE  \/ m \in 1..Len(b) /\ task'[t][m] = b[m]
                 \/ \E k \in 2..Len(task[t]) : m = k + Len(b) - 1 /\ task'[t][m] = task[t][k]
      <4>1. m \in 1..Len(task'[t])
        BY <3>4
      <4>2. QED BY <2>1, <4>1 DEF Origin
    <3>5. QED BY <3>1, <3>2, <3>3, <3>4
  <2>6. ASSUME NEW r \in Thread, 1 \in 1..Len(task'[r]), Is(task'[r][1], "priority", "none")
        PROVE  unit'.DeviceStatus \notin Alarm
    <3>1. CASE r # t
      <4>1. task'[r] = task[r]
        BY <2>1, <3>1 DEF Shifted
      <4>2. unit' = unit
        BY <2>3, <2>6, <3>1, <4>1, ResetInside
      <4>3. QED BY <2>3, <2>6, <4>1, <4>2 DEF RankInv
    <3>2. ASSUME r = t, 1 \in 1..Len(b) PROVE FALSE
      <4>1. task'[t][1] = b[1]
        BY <2>1, <3>2 DEF Shifted
      <4>2. QED BY <2>2, <2>6, <3>2, <4>1, ResetBody
    <3>3. ASSUME r = t, NEW k \in 2..Len(task[t]), 1 = k + Len(b) - 1, task'[t][1] = task[t][k]
          PROVE  unit'.DeviceStatus \notin Alarm
      <4>1. k = 2 /\ k \in 1..Len(task[t])
        BY <2>1, <3>3 DEF Shifted
      <4>2. i.op = "DeviceStatus_of_valve"
        BY <2>6, <3>3, <4>1 DEF Typed, Structure, PrecededAt
      <4>3. QED BY <2>2, <4>2, ExecFacts, EventFacts
    <3>4. ASSUME r = t
          PROVE  \/ 1 \in 1..Len(b)
                 \/ \E k \in 2..Len(task[t]) : 1 = k + Len(b) - 1 /\ task'[t][1] = task[t][k]
      <4>1. 1 \in 1..Len(task'[t])
        BY <2>6, <3>4
      <4>2. QED BY <2>1, <4>1 DEF Origin
    <3>5. QED BY <3>1, <3>2, <3>3, <3>4
  <2>7. QED BY <2>4, <2>5, <2>6 DEF RankInv
<1>2. ASSUME NEW t \in Thread, Start(t) PROVE RankInv'
  <2>1. \A A : Waiting(A) => Waiting(A)'
    BY <1>2, StartFacts, WaitingKept
  <2>2. QED BY <1>2, <2>1, StartFacts, EventFacts DEF RankInv, Is
<1>3. ASSUME TimerThread, "warning_enable" \notin overtaken', "warning_all_clear" \notin overtaken'
      PROVE  RankInv'
  <2>1. TimerKeeps(unit, unit') /\ task' = task /\ \A A : Waiting(A) => Waiting(A)'
    BY <1>3, TimerTyped, WaitingKept
  <2>2. /\ "warning_enable" \notin overtaken /\ "warning_all_clear" \notin overtaken
        /\ \A r \in Thread : "warning_enable" \in Inside(r) => unit' = unit
        /\ \A r \in Thread : "warning_all_clear" \in Inside(r) => unit' = unit
    BY <1>3, TimerTyped, NotOvertaken DEF Thread
  <2>3. ASSUME NEW r \in Thread, NEW m \in 1..Len(task[r]),
               ShowsAlarm(task[r][m]) \/ Is(task[r][m], "priority", "none")
        PROVE  unit' = unit
    BY <2>2, <2>3, AlarmInside, ResetInside
  <2>4. QED BY <2>1, <2>2, <2>3 DEF RankInv, TimerKeeps
<1>4. CASE UNCHANGED pvars
  BY <1>4 DEF pvars, RankInv, Waiting
<1>5. QED BY <1>1, <1>2, <1>3, <1>4 DEF PNext, RankInv

\* The stored priority is that of the alarm on display at rest, unless raising or
\* clearing an alarm was cut in two.
THEOREM RankedAtRest == PSpec => []RankAtRest
<1>1. PInit => RankInv
  <2> SUFFICES ASSUME PInit
               PROVE  (\A t \in Thread : Len(task[t]) = 0) /\ unit.DeviceStatus \notin Alarm
    BY DEF RankInv, Ranked
  <2>1. PowerOn(0).DeviceStatus = "ValveClose" /\ PowerOn(0) \in Unit
    BY PowerOnGood DEF PowerOn, Good
  <2>2. valve_open(PowerOn(0)).DeviceStatus \in {"ValveClose", "ValveOpen"}
    BY <2>1, ValveOpenFacts
  <2>3. QED BY <2>1, <2>2, EventFacts DEF PInit, Alarm, FailAlarm
<1>2. RankInv => RankAtRest
  <2> SUFFICES ASSUME RankInv, Uncut({"warning_enable", "warning_all_clear"})
               PROVE  AlarmRankRecorded
    BY DEF RankAtRest
  <2>1. ~Waiting(AlarmShows) /\ "warning_enable" \notin overtaken
        /\ "warning_all_clear" \notin overtaken
    BY RestWaits DEF Uncut
  <2>2. QED BY <2>1 DEF RankInv, Ranked, AlarmRankRecorded
<1>3. QED BY <1>1, <1>2, RankStep, PTyping, PTL DEF PSpec

-----------------------------------------------------------------------------
(* The motors.                                                             *)

\* With sound motors, which have left their stop after three seconds and are back on
\* it at the end, no self-check fails and the valve stays valid.
SoundMotors == BackReadings \subseteq {1} /\ CheckReadings \subseteq {0}

DrivenShut(u) == \A s \in Side : u.control_pin[s] = PIN_HIGH

\* No stage of a self-check is due that would move a half.
Unswung(u) == u.timers \cap TurnTimer = {}

\* The pins and the stages of the self-check stay as they are, and so does the valve.
Undriven(u, v) ==
  /\ v.valve_valid = u.valve_valid /\ v.valve_status = u.valve_status
  /\ v.control_pin = u.control_pin /\ v.timers \cap TurnTimer = u.timers \cap TurnTimer

\* What one statement does to them.
LEMMA ExecDrives ==
  ASSUME NEW u \in Unit, NEW i \in Statement, NEW v, v = Exec(u, i)
  PROVE  /\ Is(i, "pins", "shut") => DrivenShut(v)
         /\ DrivenShut(u) /\ ~Is(i, "pins", "open") => DrivenShut(v)
         /\ i.op = "stop_all" => Unswung(v)
         /\ Unswung(u) /\ i.op # "arm" => Unswung(v)
<1> USE DEF Unit
<1>1. CASE i.op \in {"DeviceStatus", "DeviceStatus_of_valve", "priority", "lock_status",
                     "valve_status", "allow_add_device"}
  <2>1. v.control_pin = u.control_pin /\ v.timers = u.timers
    <3>1. CASE i.op = "DeviceStatus"
      BY <3>1 DEF Exec, SetStatus
    <3>2. CASE i.op = "DeviceStatus_of_valve"
      <4> DEFINE x == IF u.valve_status = VALVE_STATUS_OPEN THEN "ValveOpen" ELSE "ValveClose"
      <4>1. v = [u EXCEPT !.DeviceStatus = x]
        BY <3>2 DEF Exec, SetStatus
      <4> HIDE DEF x
      <4>2. QED BY <4>1
    <3>3. CASE i.op = "priority"
      <4> DEFINE x == IF i.arg = "none" THEN 0 ELSE warning_priority(i.arg)
      <4>1. v = [u EXCEPT !.priority = x]
        BY <3>3 DEF Exec
      <4> HIDE DEF x
      <4>2. QED BY <4>1
    <3>4. CASE i.op = "lock_status"
      BY <3>4 DEF Exec, valve_lock, valve_unlock
    <3>5. CASE i.op = "valve_status"
      <4> DEFINE x == IF i.arg = "open" THEN VALVE_STATUS_OPEN ELSE VALVE_STATUS_CLOSE
      <4>1. v = [u EXCEPT !.valve_status = x]
        BY <3>5 DEF Exec
      <4> HIDE DEF x
      <4>2. QED BY <4>1
    <3>6. CASE i.op = "allow_add_device"
      <4> DEFINE x == IF i.arg = "1" THEN 1 ELSE 0
      <4>1. v = [u EXCEPT !.allow_add_device = x]
        BY <3>6 DEF Exec
      <4> HIDE DEF x
      <4>2. QED BY <4>1
    <3>7. QED BY <1>1, <3>1, <3>2, <3>3, <3>4, <3>5, <3>6
  <2>2. QED BY <1>1, <2>1 DEF DrivenShut, Unswung, Is
<1>2. CASE i.op = "pins"
  <2> DEFINE x == [s \in Side |-> IF i.arg = "open" THEN PIN_LOW ELSE PIN_HIGH]
  <2>1. v = [u EXCEPT !.control_pin = x] /\ (i.arg # "open" => \A s \in Side : x[s] = PIN_HIGH)
    BY <1>2 DEF Exec
  <2> HIDE DEF x
  <2>2. v.control_pin = x /\ v.timers = u.timers
    BY <2>1
  <2>3. QED BY <1>2, <2>1, <2>2 DEF DrivenShut, Unswung, Is
<1>3. CASE i.op = "swing"
  <2> DEFINE T == {turn_back_timer(i.arg), turn_check_timer(i.arg)}
             w == rt_timer_stop(u, T)
             x == [w.check_result EXCEPT ![i.arg] = 0]
             y == [w.control_pin EXCEPT ![i.arg] = PIN_HIGH]
  <2>1. v = [w EXCEPT !.check_result = x, !.control_pin = y]
    BY <1>3 DEF Exec
  <2> HIDE DEF T
  <2>2. w = [u EXCEPT !.timers = u.timers \ T] /\ w \in Unit
    BY DEF rt_timer_stop
  <2>3. w.timers = u.timers \ T /\ w.control_pin = u.control_pin
    BY <2>2
  <2>4. DrivenShut(u) => \A s \in Side : y[s] = PIN_HIGH
    BY <2>2, <2>3 DEF DrivenShut
  <2> HIDE DEF x, y, w
  <2>5. v.timers = w.timers /\ v.control_pin = y
    BY <2>1, <2>2
  <2>6. DrivenShut(u) => DrivenShut(v)
    BY <2>4, <2>5 DEF DrivenShut
  <2>7. Unswung(u) => Unswung(v)
    BY <2>3, <2>5 DEF Unswung
  <2>8. QED BY <1>3, <2>6, <2>7 DEF Is
<1>4. CASE i.op \in {"arm", "stop_checks", "start_detect", "stop_all", "start_learn_timer",
                     "stop_learn_timer"}
  <2> DEFINE A == CASE i.op = "arm" -> u.timers \cup {turn_back_timer(i.arg)}
                    [] i.op = "stop_checks" -> u.timers \ (TurnTimer \cup {"valve_delay_close"})
                    [] i.op = "start_detect" -> u.timers \cup {"valve_detect"}
                    [] i.op = "stop_all" -> u.timers \ ValveTimer
                    [] i.op = "start_learn_timer" -> u.timers \cup {"radio_learn"}
                    [] OTHER -> u.timers \ {"radio_learn"}
  <2>1. v = [u EXCEPT !.timers = A]
    BY <1>4 DEF Exec, rt_timer_start, rt_timer_stop
  <2>2. /\ i.op = "stop_all" => A \cap TurnTimer = {}
        /\ Unswung(u) /\ i.op # "arm" => A \cap TurnTimer = {}
    BY <1>4 DEF ValveTimer, TurnTimer, Unswung
  <2> HIDE DEF A
  <2>3. v.timers = A /\ v.control_pin = u.control_pin
    BY <2>1
  <2>4. QED BY <1>4, <2>2, <2>3 DEF DrivenShut, Unswung, Is
<1>5. CASE i.op \in Call \cup {"waterleak", "heard", "sweep", "flash"}
  <2>1. v = u
    BY <1>5 DEF Exec, Call
  <2>2. QED BY <1>5, <2>1 DEF Call, Is
<1>6. QED BY <1>1, <1>2, <1>3, <1>4, <1>5 DEF Statement, Primitive

\* Closing a sound valve drives it shut and drops the self-check.
LEMMA CloseDrives ==
  ASSUME NEW u \in Unit, u.valve_valid = 1
  PROVE  LET v == valve_close(u)
         IN  v.valve_valid = 1 /\ DrivenShut(v) /\ Unswung(v)
<1> DEFINE pins == [s \in Side |-> PIN_HIGH]
           zero == 0
           closed == "ValveClose"
           w == [u EXCEPT !.DeviceStatus = closed, !.valve_status = zero, !.control_pin = pins]
           v == rt_timer_stop(w, ValveTimer)
<1>1. \A s \in Side : pins[s] = PIN_HIGH
  OBVIOUS
<1> HIDE DEF pins, zero, closed
<1>2. valve_close(u) = v
  BY DEF valve_close, valve_turn_control, pins, zero, closed
<1>3. w.valve_valid = 1 /\ w.control_pin = pins /\ w.timers = u.timers
  BY DEF Unit
<1>4. v.valve_valid = w.valve_valid /\ v.control_pin = w.control_pin /\ v.timers = w.timers \ ValveTimer
  BY DEF Unit, rt_timer_stop
<1> HIDE DEF w, v
<1>5. QED BY <1>1, <1>2, <1>3, <1>4, TimerSets DEF DrivenShut, Unswung

\* Opening changes nothing or leaves an open valve.
LEMMA OpenDrives ==
  ASSUME NEW u \in Unit
  PROVE  \/ valve_open(u) = u
         \/ /\ valve_open(u).valve_valid = u.valve_valid
            /\ valve_open(u).valve_status = VALVE_STATUS_OPEN
<1>1. CASE u.lock_status = 1 \/ u.valve_valid = 0
  BY <1>1 DEF valve_open
<1>2. CASE ~(u.lock_status = 1 \/ u.valve_valid = 0)
  <2> DEFINE pins == [s \in Side |-> PIN_LOW]
             one == 1
             opened == "ValveOpen"
             T == TurnTimer \cup {"valve_delay_close"}
             w == [u EXCEPT !.DeviceStatus = opened, !.valve_status = one, !.control_pin = pins]
             x == rt_timer_stop(w, T)
             v == rt_timer_start(x, {"valve_detect"})
  <2>1. one = VALVE_STATUS_OPEN
    OBVIOUS
  <2> HIDE DEF pins, one, opened
  <2>2. valve_open(u) = v
    BY <1>2 DEF valve_open, valve_turn_control, pins, one, opened
  <2> HIDE DEF T
  <2>3. w.valve_valid = u.valve_valid /\ w.valve_status = one
    BY DEF Unit
  <2>4. x.valve_valid = w.valve_valid /\ x.valve_status = w.valve_status
    BY DEF Unit, rt_timer_stop
  <2>5. v.valve_valid = x.valve_valid /\ v.valve_status = x.valve_status
    BY DEF Unit, rt_timer_start, rt_timer_stop
  <2> HIDE DEF w, x, v
  <2>6. QED BY <2>1, <2>2, <2>3, <2>4, <2>5
<1>3. QED BY <1>1, <1>2

\* A callback leaves a closed valve driven shut with no stage due, or its pins and
\* stages as they were, or it has just run one of the stages.
LEMMA TimerDrives ==
  ASSUME SoundMotors, unit \in Unit, unit.valve_valid = 1, TimerThread
  PROVE  /\ unit'.valve_valid = 1
         /\ unit'.valve_status = VALVE_STATUS_CLOSE =>
              \/ DrivenShut(unit') /\ Unswung(unit')
              \/ Undriven(unit, unit')
              \/ unit.valve_status = VALVE_STATUS_CLOSE /\ ~Unswung(unit) /\ unit' # unit
<1> DEFINE Goal == /\ unit'.valve_valid = 1
                   /\ unit'.valve_status = VALVE_STATUS_CLOSE =>
                        \/ DrivenShut(unit') /\ Unswung(unit')
                        \/ Undriven(unit, unit')
                        \/ /\ unit.valve_status = VALVE_STATUS_CLOSE
                           /\ ~Unswung(unit) /\ unit' # unit
<1>1. ASSUME NEW t \in Timer
      PROVE  LET w == Fired(t)
             IN  /\ w \in Unit /\ w.timers = unit.timers \ {t}
                 /\ w.valve_valid = 1 /\ w.valve_status = unit.valve_status
                 /\ w.control_pin = unit.control_pin
  BY DEF Fired, rt_timer_stop, Unit
<1>2. \A t \in Timer \ TurnTimer : Undriven(unit, Fired(t))
  BY <1>1 DEF Undriven
<1>3. "valve_detect" \in Timer \ TurnTimer /\ "valve_delay_close" \in Timer \ TurnTimer
      /\ "radio_learn" \in Timer \ TurnTimer
  BY TimerSets DEF TurnTimer
<1>4. CASE DetectOnce
  <2> DEFINE w == Fired("valve_detect")
  <2>1. PICK full \in [Side -> FirstReadings] : unit' = valve_check_start(w, full)
    BY <1>4 DEF DetectOnce, CheckStarts
  <2>2. w \in Unit /\ w.valve_valid = 1 /\ Undriven(unit, w)
    BY <1>1, <1>2, <1>3
  <2> HIDE DEF w
  <2>3. CASE w.valve_status = VALVE_STATUS_CLOSE
    BY <2>1, <2>2, <2>3 DEF valve_check_start
  <2>4. CASE w.valve_status # VALVE_STATUS_CLOSE
    <3> DEFINE T == {s \in Side : full[s] = 0}
               left == (w.timers \ {turn_check_timer(s) : s \in T})
                         \cup {turn_back_timer(s) : s \in T}
               result == [s \in Side |-> IF s \in T THEN 0 ELSE w.check_result[s]]
               pin == [s \in Side |-> IF s \in T THEN PIN_HIGH ELSE w.control_pin[s]]
    <3>1. unit' = [w EXCEPT !.timers = left, !.check_result = result, !.control_pin = pin]
      BY <2>1, <2>2, <2>4 DEF valve_check_start, Unit
    <3> HIDE DEF left, result, pin
    <3>2. unit'.valve_valid = 1 /\ unit'.valve_status = w.valve_status
      BY <2>2, <3>1 DEF Unit
    <3>3. QED BY <2>4, <3>2
  <2>5. QED BY <2>3, <2>4
<1>5. CASE DelayClose
  <2> DEFINE w == Fired("valve_delay_close")
             x == valve_lock(w)
  <2>1. w \in Unit /\ w.valve_valid = 1 /\ Undriven(unit, w)
    BY <1>1, <1>2, <1>3
  <2>2. unit' = IF Commandable(w) THEN valve_close(x) ELSE w
    BY <1>5 DEF DelayClose, valve_delay_close_timer_callback
  <2> HIDE DEF w
  <2>3. x \in Unit /\ x.valve_valid = 1
    BY <2>1 DEF valve_lock, Unit
  <2> HIDE DEF x
  <2>4. QED BY <2>1, <2>2, <2>3, CloseDrives
<1>6. ASSUME NEW s \in Side, TurnBack(s) PROVE Goal
  <2> DEFINE t == turn_back_timer(s)
             w == Fired(t)
             pin == [w.control_pin EXCEPT ![s] = PIN_LOW]
             y == [w EXCEPT !.control_pin = pin]
             T == {turn_check_timer(s)}
  <2>1. t \in Timer /\ t \in TurnTimer /\ t \in unit.timers /\ t \notin T
    BY <1>6, TimerSets DEF TurnBack, Fire, turn_back_timer, turn_check_timer
  <2>2. w \in Unit /\ w.timers = unit.timers \ {t} /\ w.valve_valid = 1
        /\ w.valve_status = unit.valve_status
    BY <1>1, <2>1
  <2>3. unit' = rt_timer_start(y, T)
    BY <1>6 DEF TurnBack, SoundMotors, valve_turn_back_timer_callback, turn_back_success
  <2> HIDE DEF t, w, pin, T
  <2>4. y.timers = w.timers /\ y.valve_valid = 1 /\ y.valve_status = w.valve_status
    BY <2>2 DEF Unit
  <2>5. /\ unit'.timers = w.timers \cup T /\ unit'.valve_valid = 1
        /\ unit'.valve_status = w.valve_status
    BY <2>2, <2>3, <2>4 DEF rt_timer_start, Unit
  <2>6. t \notin unit'.timers
    BY <2>1, <2>2, <2>5
  <2>7. unit' # unit
    BY <2>1, <2>6
  <2>8. QED BY <2>1, <2>2, <2>5, <2>7 DEF Unswung
<1>7. ASSUME NEW s \in Side, TurnCheck(s) PROVE Goal
  <2> DEFINE t == turn_check_timer(s)
             w == Fired(t)
             one == 1
             x == [w EXCEPT !.valve_valid = one]
             sound == IF w.check_result[Other(s)] = 0 THEN valvefail_warning_disable(x) ELSE w
             result == [sound.check_result EXCEPT ![s] = 0]
  <2>1. t \in Timer /\ t \in TurnTimer /\ t \in unit.timers /\ one = 1
    BY <1>7, TimerSets DEF TurnCheck, Fire
  <2>2. w \in Unit /\ w.timers = unit.timers \ {t} /\ w.valve_valid = 1
        /\ w.valve_status = unit.valve_status
    BY <1>1, <2>1
  <2>3. unit' = [sound EXCEPT !.check_result[s] = 0]
    BY <1>7 DEF TurnCheck, SoundMotors, valve_turn_check_timer_callback
  <2> HIDE DEF t, w, one
  <2>4. x.timers = w.timers /\ x.valve_valid = 1 /\ x.valve_status = w.valve_status /\ x \in Unit
    BY <2>1, <2>2 DEF Unit
  <2> HIDE DEF x
  <2>5. sound \in Unit /\ sound.timers = w.timers /\ sound.valve_valid = 1
        /\ sound.valve_status = w.valve_status
    <3> DEFINE status == IF x.valve_status = VALVE_STATUS_OPEN THEN "ValveOpen" ELSE "ValveClose"
               zero == 0
               z == [x EXCEPT !.DeviceStatus = status, !.priority = zero]
    <3>1. warning_all_clear(x) = z
      BY DEF warning_all_clear
    <3>2. status \in Device_Status /\ zero \in 0..8
      BY DEF Device_Status
    <3> HIDE DEF status, zero
    <3>3. z \in Unit /\ z.timers = x.timers /\ z.valve_valid = x.valve_valid
          /\ z.valve_status = x.valve_status
      BY <2>4, <3>2 DEF Unit
    <3> HIDE DEF z
    <3>4. QED BY <2>2, <2>4, <3>1, <3>3 DEF valvefail_warning_disable
  <2> HIDE DEF sound
  <2>6. unit' = [sound EXCEPT !.check_result = result]
    BY <2>3, <2>5 DEF Unit
  <2> HIDE DEF result
  <2>7. unit'.timers = sound.timers /\ unit'.valve_valid = 1
        /\ unit'.valve_status = sound.valve_status
    BY <2>5, <2>6 DEF Unit
  <2>8. t \notin unit'.timers
    BY <2>2, <2>5, <2>7
  <2>9. unit' # unit
    BY <2>1, <2>8
  <2>10. QED BY <2>1, <2>2, <2>5, <2>7, <2>9 DEF Unswung
<1>8. CASE LearnTimeout
  <2> DEFINE w == Fired("radio_learn")
             zero == 0
             x == [w EXCEPT !.allow_add_device = zero]
             status == IF x.valve_status = VALVE_STATUS_OPEN THEN "ValveOpen" ELSE "ValveClose"
             v == [x EXCEPT !.DeviceStatus = status, !.priority = zero]
  <2>1. w \in Unit /\ w.valve_valid = 1 /\ Undriven(unit, w)
    BY <1>1, <1>2, <1>3
  <2>2. unit' = v
    BY <1>8 DEF LearnTimeout, radio_learn_timer_callback, learn_end, warning_all_clear
  <2> HIDE DEF w, zero
  <2>3. Undriven(w, x) /\ x.valve_valid = 1
    BY <2>1 DEF Undriven, Unit
  <2> HIDE DEF status
  <2>4. Undriven(x, v)
    BY <2>1 DEF Undriven, Unit
  <2>5. QED BY <2>1, <2>2, <2>3, <2>4 DEF Undriven
<1>9. CASE DryContactEdge
  <2>1. PICK level \in 0..1 : unit' = valve_dry_contact_control(unit, level)
    BY <1>9 DEF DryContactEdge
  <2>2. unit' = unit \/ unit' = valve_close(unit) \/ unit' = valve_open(unit)
    BY <2>1 DEF valve_dry_contact_control
  <2>3. QED BY <2>2, CloseDrives, OpenDrives DEF Undriven
<1>10. QED
  BY <1>4, <1>5, <1>6, <1>7, <1>8, <1>9 DEF TimerThread, TimerStep

\* A valid valve is closed by the long body of valve_close, which drives it shut and
\* then stops the self-check.
SoundInv ==
  /\ unit.valve_valid = 1
  /\ \A t \in Thread : \A n \in 1..Len(task[t]) :
       Is(task[t][n], "pins", "shut") => Next1(task[t], n, "stop_all", "void")

PinsShut == {i \in Statement : Is(i, "pins", "shut")}

StopsAll == {i \in Statement : i.op = "stop_all"}

Undisturbed ==
  /\ "valve_open" \notin overtaken
  /\ "valve_close" \notin overtaken
  /\ "valve_check_start" \notin overtaken

\* While the calls that write pins and stages are not cut, what a closed valve lacks
\* is still to be done by its valve_close, and what moves it is left to an open one.
DriveInv ==
  Undisturbed =>
    /\ unit.valve_status = VALVE_STATUS_CLOSE =>
         /\ DrivenShut(unit) \/ Waiting(PinsShut)
         /\ Unswung(unit) \/ Waiting(StopsAll)
    /\ \A t \in Thread : \A n \in 1..Len(task[t]) :
         (n = 1 /\ Is(task[t][n], "pins", "open")) \/ task[t][n].op \in CheckSteps
           => unit.valve_status = VALVE_STATUS_OPEN

\* What the bodies add to these sequences.
LEMMA DriveBody ==
  ASSUME NEW u \in Unit, NEW i \in Statement, NEW b, Expands(u, i, b), NEW m \in 1..Len(b)
  PROVE  /\ Is(b[m], "pins", "shut") /\ u.valve_valid = 1
              => m + 1 \in 1..Len(b) /\ Is(b[m+1], "stop_all", "void")
         /\ m = 1 => ~Is(b[m], "pins", "open")
         /\ b[m].op \in CheckSteps =>
              \/ i.op = "valve_check_start" /\ u.valve_status = VALVE_STATUS_OPEN
              \/ i.op = "check_half"
<1>1. CASE i.op = "valve_close"
  <2>1. CASE u.valve_valid = 0
    <3>1. b = <<S("valve_status", "shut"), S("pins", "shut")>>
      BY <1>1, <2>1 DEF Expands
    <3>2. QED BY <1>1, <2>1, <3>1 DEF Is, S, CheckSteps
  <2>2. CASE u.valve_valid # 0
    <3>1. b = <<S("DeviceStatus", "ValveClose"), S("valve_status", "shut"), S("pins", "shut"),
                S("stop_all", "void")>>
      BY <1>1, <2>2 DEF Expands
    <3>2. QED BY <1>1, <2>2, <3>1 DEF Is, S, CheckSteps
  <2>3. QED BY <2>1, <2>2
<1>2. CASE i.op = "valve_open"
  <2>1. b = <<S("DeviceStatus", "ValveOpen"), S("valve_status", "open"), S("pins", "open"),
              S("stop_checks", "void"), S("start_detect", "void")>>
    BY <1>2 DEF Expands
  <2>2. QED BY <1>2, <2>1 DEF Is, S, CheckSteps
<1>3. CASE i.op \in {"valve_check_start", "check_half"}
  <2>1. \/ /\ i.op = "valve_check_start" /\ u.valve_status = VALVE_STATUS_OPEN
           /\ b = <<S("check_half", "left"), S("check_half", "right")>>
        \/ i.op = "check_half" /\ b = <<S("swing", i.arg), S("arm", i.arg)>>
    BY <1>3 DEF Expands
  <2>2. QED BY <2>1 DEF Is, S
<1>4. CASE i.op \notin {"valve_close", "valve_open", "valve_check_start", "check_half"}
  BY <1>4 DEF Expands, Is, S, CheckSteps
<1>5. QED BY <1>1, <1>2, <1>3, <1>4

\* Whoever has still to drive the valve open, or to do a stage of the self-check, or
\* to stop it, is inside its call.
LEMMA DriveInside ==
  ASSUME Typed, NEW r \in Thread, NEW n \in 1..Len(task[r])
  PROVE  /\ Is(task[r][n], "pins", "open") => "valve_open" \in Inside(r)
         /\ task[r][n].op \in CheckSteps => "valve_check_start" \in Inside(r)
         /\ task[r][n] \in StopsAll => "valve_close" \in Inside(r)
<1> DEFINE s == task[r]
<1>1. Len(s) \in Nat /\ \A k \in 1..Len(s) : LinkedAt(s, k)
  BY LenProperties DEF Typed, Structure
<1>2. \A k \in 1..Len(s) : \A c : c \in EndOf(s[k]) => c \in Inside(r)
  BY InsideIf
<1> HIDE DEF s
<1>3. Is(s[n], "pins", "open") => "valve_open" \in Inside(r)
  BY PinsInside DEF s
<1>4. ASSUME s[n].op = "swing" PROVE "valve_check_start" \in Inside(r)
  <2>1. n + 1 \in 1..Len(s) /\ s[n+1].op = "arm"
    BY <1>1, <1>4 DEF LinkedAt, Next1, Is, s
  <2> DEFINE e == n + 1
  <2>2. e \in 1..Len(s) /\ "valve_check_start" \in EndOf(s[e])
    BY <2>1, EndOfFacts
  <2> HIDE DEF e
  <2>3. QED BY <1>2, <2>2
<1>5. s[n].op \in {"check_half", "arm"} => "valve_check_start" \in Inside(r)
  BY <1>2, EndOfFacts DEF s
<1>6. s[n] \in StopsAll => "valve_close" \in Inside(r)
  BY <1>2, EndOfFacts DEF s, StopsAll
<1>7. QED BY <1>3, <1>4, <1>5, <1>6 DEF s, CheckSteps

LEMMA SoundStep ==
  ASSUME SoundMotors, Typed, SoundInv, [PNext]_pvars
  PROVE  SoundInv'
<1>1. ASSUME NEW t \in Thread, Step(t) PROVE SoundInv'
  <2>1. PICK b : Does(t, b) /\ Shifted(t, b) /\ Origin(t, b)
    BY <1>1, StepDoes, CameFrom
  <2> DEFINE i == task[t][1]
  <2>2. /\ i \in Statement /\ 1 \in 1..Len(task[t]) /\ b \in Seq(Statement)
        /\ unit' = Exec(unit, i) /\ unit \in Unit /\ Expands(unit, i, b)
    BY <2>1 DEF Shifted, Does, Typed
  <2>3. unit'.valve_valid = 1
    BY <2>2, ExecFacts DEF SoundInv
  <2>4. ASSUME NEW r \in Thread, NEW m \in 1..Len(task'[r]), Is(task'[r][m], "pins", "shut")
        PROVE  Next1(task'[r], m, "stop_all", "void")
    <3>1. CASE r # t
      BY <2>1, <2>4, <3>1 DEF Shifted, SoundInv
    <3>2. CASE r = t /\ m \in 1..Len(b) /\ task'[t][m] = b[m]
      <4>1. m + 1 \in 1..Len(b) /\ Is(b[m+1], "stop_all", "void")
        BY <2>2, <2>4, <3>2, DriveBody DEF SoundInv
      <4> DEFINE q == m + 1
      <4>2. q \in 1..Len(b) /\ Is(b[q], "stop_all", "void")
        BY <4>1
      <4> HIDE DEF q
      <4>3. q \in 1..Len(task'[t]) /\ task'[t][q] = b[q]
        BY <2>1, <4>2 DEF Shifted
      <4>4. QED BY <3>2, <4>2, <4>3 DEF Next1, q
    <3>3. ASSUME r = t, NEW k \in 2..Len(task[t]), m = k + Len(b) - 1, task'[t][m] = task[t][k]
          PROVE  Next1(task'[r], m, "stop_all", "void")
      <4>0. Len(b) \in Nat /\ Len(task[t]) \in Nat
        BY <2>1 DEF Shifted
      <4>1. k \in 1..Len(task[t])
        BY <4>0
      <4>2. k + 1 \in 1..Len(task[t]) /\ Is(task[t][k+1], "stop_all", "void")
        BY <2>4, <3>3, <4>1 DEF SoundInv, Next1
      <4> DEFINE q == k + 1
      <4>3. q \in 2..Len(task[t]) /\ Is(task[t][q], "stop_all", "void") /\ m + 1 = q + Len(b) - 1
        BY <3>3, <4>0, <4>2
      <4> HIDE DEF q
      <4>4. task'[t][m+1] = task[t][q] /\ m + 1 \in 1..Len(task'[t])
        BY <2>1, <4>3 DEF Shifted
      <4>5. QED BY <3>3, <4>3, <4>4 DEF Next1
    <3>4. ASSUME r = t
          PROVE  \/ m \in 1..Len(b) /\ task'[t][m] = b[m]
                 \/ \E k \in 2..Len(task[t]) : m = k + Len(b) - 1 /\ task'[t][m] = task[t][k]
      <4>1. m \in 1..Len(task'[t])
        BY <3>4
      <4>2. QED BY <2>1, <4>1 DEF Origin
    <3>5. QED BY <3>1, <3>2, <3>3, <3>4
  <2>5. QED BY <2>3, <2>4 DEF SoundInv
<1>2. ASSUME NEW t \in Thread, Start(t) PROVE SoundInv'
  <2>1. \A i \in Opening : ~Is(i, "pins", "shut")
    BY DEF Is, Opening
  <2>2. QED BY <1>2, <2>1, StartFacts DEF SoundInv
<1>3. CASE TimerThread
  <2>1. unit'.valve_valid = 1
    BY <1>3, TimerDrives DEF Typed, SoundInv
  <2>2. QED BY <1>3, <2>1, TimerTyped DEF SoundInv
<1>4. CASE UNCHANGED pvars
  BY <1>4 DEF pvars, SoundInv
<1>5. QED BY <1>1, <1>2, <1>3, <1>4 DEF PNext

LEMMA DriveStep ==
  ASSUME SoundMotors, Typed, SoundInv, DriveInv, [PNext]_pvars
  PROVE  DriveInv'
<1>1. ASSUME NEW t \in Thread, Step(t), Undisturbed' PROVE DriveInv'
  <2>1. PICK b : Does(t, b) /\ Shifted(t, b) /\ Origin(t, b)
    BY <1>1, StepDoes, CameFrom
  <2> DEFINE i == task[t][1]
  <2>2. /\ i \in Statement /\ 1 \in 1..Len(task[t]) /\ b \in Seq(Statement)
        /\ unit' = Exec(unit, i) /\ unit \in Unit /\ Expands(unit, i, b)
    BY <2>1 DEF Shifted, Does, Typed
  <2>3. /\ Undisturbed
        /\ \A r \in Thread \ {t} :
             "valve_open" \in Inside(r) \/ "valve_check_start" \in Inside(r) => unit' = unit
    BY <1>1, <2>1, NotOvertaken DEF Does, Undisturbed
  <2>4. LinkedAt(task[t], 1)
    BY <2>2 DEF Typed, Structure
  <2>5. /\ Is(i, "pins", "open") => unit.valve_status = VALVE_STATUS_OPEN
        /\ i.op \in CheckSteps => unit.valve_status = VALVE_STATUS_OPEN
    BY <2>2, <2>3 DEF DriveInv
  <2>6. ASSUME unit'.valve_status = VALVE_STATUS_CLOSE
        PROVE  DrivenShut(unit') \/ Waiting(PinsShut)'
    <3>1. CASE Is(i, "valve_status", "shut")
      <4>1. 2 \in 2..Len(task[t]) /\ task[t][2] \in PinsShut
        BY <2>4, <3>1 DEF LinkedAt, Next1, Is, PinsShut, Typed
      <4>2. QED BY <2>1, <4>1, WaitingNext
    <3>2. CASE ~Is(i, "valve_status", "shut")
      <4>1. unit.valve_status = VALVE_STATUS_CLOSE
        BY <2>2, <2>6, <3>2, ExecFacts DEF Is, Statement
      <4>2. DrivenShut(unit) => DrivenShut(unit')
        BY <2>2, <2>5, <4>1, ExecDrives
      <4>3. Waiting(PinsShut) => Waiting(PinsShut)' \/ Is(i, "pins", "shut")
        BY <2>1, WaitingStays DEF PinsShut
      <4>4. Is(i, "pins", "shut") => DrivenShut(unit')
        BY <2>2, ExecDrives
      <4>5. QED BY <2>3, <4>1, <4>2, <4>3, <4>4 DEF DriveInv
    <3>3. QED BY <3>1, <3>2
  <2>7. ASSUME unit'.valve_status = VALVE_STATUS_CLOSE
        PROVE  Unswung(unit') \/ Waiting(StopsAll)'
    <3>1. CASE Is(i, "valve_status", "shut")
      <4>1. 2 \in 1..Len(task[t]) /\ Is(task[t][2], "pins", "shut")
        BY <2>4, <3>1 DEF LinkedAt, Next1
      <4>2. Next1(task[t], 2, "stop_all", "void")
        BY <4>1 DEF SoundInv
      <4>3. 3 \in 2..Len(task[t]) /\ task[t][3] \in StopsAll
        BY <4>2 DEF Next1, Is, StopsAll, Typed
      <4>4. QED BY <2>1, <4>3, WaitingNext
    <3>2. CASE ~Is(i, "valve_status", "shut")
      <4>1. unit.valve_status = VALVE_STATUS_CLOSE
        BY <2>2, <2>6, <2>7, <3>2, ExecFacts DEF Is, Statement
      <4>2. Unswung(unit) => Unswung(unit')
        BY <2>2, <2>5, <4>1, ExecDrives DEF CheckSteps
      <4>3. Waiting(StopsAll) => Waiting(StopsAll)' \/ i.op = "stop_all"
        BY <2>1, WaitingStays DEF StopsAll
      <4>4. i.op = "stop_all" => Unswung(unit')
        BY <2>2, ExecDrives
      <4>5. QED BY <2>3, <4>1, <4>2, <4>3, <4>4 DEF DriveInv
    <3>3. QED BY <3>1, <3>2
  <2>8. ASSUME NEW r \in Thread, NEW m \in 1..Len(task'[r]),
               m = 1 /\ Is(task'[r][m], "pins", "open")
        PROVE  unit'.valve_status = VALVE_STATUS_OPEN
    <3>1. CASE r # t
      <4>1. task'[r] = task[r]
        BY <2>1, <3>1 DEF Shifted
      <4>2. unit' = unit
        BY <2>3, <2>8, <3>1, <4>1, DriveInside
      <4>3. QED BY <2>3, <2>8, <4>1, <4>2 DEF DriveInv
    <3>2. ASSUME r = t, m \in 1..Len(b), task'[t][m] = b[m] PROVE FALSE
      BY <2>2, <2>8, <3>2, DriveBody
    <3>3. ASSUME r = t, NEW k \in 2..Len(task[t]), m = k + Len(b) - 1, task'[t][m] = task[t][k]
          PROVE  unit'.valve_status = VALVE_STATUS_OPEN
      <4>1. k = 2 /\ k \in 1..Len(task[t])
        BY <2>1, <2>8, <3>3 DEF Shifted
      <4>2. Is(i, "valve_status", "open")
        BY <2>8, <3>3, <4>1 DEF Typed, Structure, PrecededAt
      <4>3. QED BY <2>2, <4>2, ExecFacts DEF Is
    <3>4. ASSUME r = t
          PROVE  \/ m \in 1..Len(b) /\ task'[t][m] = b[m]
                 \/ \E k \in 2..Len(task[t]) : m = k + Len(b) - 1 /\ task'[t][m] = task[t][k]
      <4>1. m \in 1..Len(task'[t])
        BY <3>4
      <4>2. QED BY <2>1, <4>1 DEF Origin
    <3>5. QED BY <3>1, <3>2, <3>3, <3>4
  <2>9. ASSUME NEW r \in Thread, NEW m \in 1..Len(task'[r]), task'[r][m].op \in CheckSteps
        PROVE  unit'.valve_status = VALVE_STATUS_OPEN
    <3>1. CASE r # t
      <4>1. task'[r] = task[r]
        BY <2>1, <3>1 DEF Shifted
      <4>2. unit' = unit
        BY <2>3, <2>9, <3>1, <4>1, DriveInside
      <4>3. QED BY <2>3, <2>9, <4>1, <4>2 DEF DriveInv
    <3>2. ASSUME r = t, m \in 1..Len(b), task'[t][m] = b[m]
          PROVE  unit'.valve_status = VALVE_STATUS_OPEN
      <4>1. \/ i.op = "valve_check_start" /\ unit.valve_status = VALVE_STATUS_OPEN
            \/ i.op = "check_half"
        BY <2>2, <2>9, <3>2, DriveBody
      <4>2. unit' = unit
        BY <2>2, <4>1, CallUnseen DEF Call
      <4>3. QED BY <2>5, <4>1, <4>2 DEF CheckSteps
    <3>3. ASSUME r = t, NEW k \in 2..Len(task[t]), m = k + Len(b) - 1, task'[t][m] = task[t][k]
          PROVE  unit'.valve_status = VALVE_STATUS_OPEN
      <4>1. k \in 1..Len(task[t]) /\ 1 \in 1..k-1
        BY <2>1, <3>3 DEF Shifted
      <4>2. i.op \in CheckSteps
        BY <2>9, <3>3, <4>1 DEF Typed, Structure, PrecededAt
      <4>3. unit'.valve_status = unit.valve_status
        BY <2>2, <4>2, ExecFacts DEF CheckSteps
      <4>4. QED BY <2>5, <4>2, <4>3
    <3>4. ASSUME r = t
          PROVE  \/ m \in 1..Len(b) /\ task'[t][m] = b[m]
                 \/ \E k \in 2..Len(task[t]) : m = k + Len(b) - 1 /\ task'[t][m] = task[t][k]
      <4>1. m \in 1..Len(task'[t])
        BY <3>4
      <4>2. QED BY <2>1, <4>1 DEF Origin
    <3>5. QED BY <3>1, <3>2, <3>3, <3>4
  <2>10. QED BY <2>6, <2>7, <2>8, <2>9 DEF DriveInv
<1>2. ASSUME NEW t \in Thread, Start(t) PROVE DriveInv'
  <2>1. \A A : Waiting(A) => Waiting(A)'
    BY <1>2, StartFacts, WaitingKept
  <2>2. \A i \in Opening : ~Is(i, "pins", "open") /\ i.op \notin CheckSteps
    BY DEF Is, Opening, CheckSteps
  <2>3. QED BY <1>2, <2>1, <2>2, StartFacts DEF DriveInv, Undisturbed
<1>3. ASSUME TimerThread, Undisturbed' PROVE DriveInv'
  <2>1. task' = task /\ \A A : Waiting(A) => Waiting(A)'
    BY <1>3, TimerTyped, WaitingKept
  <2>2. /\ Undisturbed
        /\ \A r \in Thread : "valve_open" \in Inside(r) \/ "valve_close" \in Inside(r)
                                \/ "valve_check_start" \in Inside(r) => unit' = unit
    BY <1>3, TimerTyped, NotOvertaken DEF Thread, Undisturbed
  <2>3. ASSUME NEW r \in Thread, NEW m \in 1..Len(task[r]),
               Is(task[r][m], "pins", "open") \/ task[r][m].op \in CheckSteps
                 \/ task[r][m] \in StopsAll
        PROVE  unit' = unit
    BY <2>2, <2>3, DriveInside
  <2>4. ~Waiting(StopsAll) \/ unit' = unit
    BY <2>3 DEF Waiting
  <2>5. unit'.valve_status = VALVE_STATUS_CLOSE =>
          \/ DrivenShut(unit') /\ Unswung(unit')
          \/ Undriven(unit, unit')
          \/ unit.valve_status = VALVE_STATUS_CLOSE /\ ~Unswung(unit) /\ unit' # unit
    BY <1>3, TimerDrives DEF Typed, SoundInv
  <2>6. ASSUME unit'.valve_status = VALVE_STATUS_CLOSE
        PROVE  /\ DrivenShut(unit') \/ Waiting(PinsShut)'
               /\ Unswung(unit') \/ Waiting(StopsAll)'
    <3>1. CASE Undriven(unit, unit')
      BY <2>1, <2>2, <2>6, <3>1 DEF DriveInv, Undriven, DrivenShut, Unswung
    <3>2. CASE unit.valve_status = VALVE_STATUS_CLOSE /\ ~Unswung(unit) /\ unit' # unit
      BY <2>2, <2>4, <3>2 DEF DriveInv
    <3>3. QED BY <2>5, <2>6, <3>1, <3>2
  <2>7. QED BY <2>1, <2>2, <2>3, <2>6 DEF DriveInv
<1>4. CASE UNCHANGED pvars
  BY <1>4 DEF pvars, DriveInv, Undisturbed, Waiting
<1>5. QED BY <1>1, <1>2, <1>3, <1>4 DEF PNext, DriveInv

\* With sound motors a closed valve is driven shut at rest, unless one of the calls
\* that write the pins and the self-check timers was cut in two.
THEOREM ShutAtRest ==
  ASSUME SoundMotors
  PROVE  PSpec => []DrivenShutAtRest
<1>1. PInit => SoundInv /\ DriveInv
  <2> SUFFICES ASSUME PInit
               PROVE  /\ \A t \in Thread : Len(task[t]) = 0
                      /\ unit.valve_valid = 1
                      /\ unit.valve_status = VALVE_STATUS_CLOSE => DrivenShut(unit) /\ Unswung(unit)
    BY DEF SoundInv, DriveInv
  <2>1. /\ PowerOn(0) \in Unit /\ PowerOn(0).valve_valid = 1
        /\ DrivenShut(PowerOn(0)) /\ Unswung(PowerOn(0))
    BY PowerOnGood DEF PowerOn, Good, DrivenShut, Unswung
  <2>2. valve_open(PowerOn(0)) = PowerOn(0) \/
          /\ valve_open(PowerOn(0)).valve_valid = 1
          /\ valve_open(PowerOn(0)).valve_status = VALVE_STATUS_OPEN
    BY <2>1, OpenDrives
  <2>3. \A t \in Thread : Len(task[t]) = 0
    BY DEF PInit
  <2>4. QED BY <2>1, <2>2, <2>3 DEF PInit
<1>2. Typed /\ DriveInv => DrivenShutAtRest
  <2> SUFFICES ASSUME Typed, DriveInv, Uncut({"valve_open", "valve_close", "valve_check_start"})
               PROVE  ClosedValveDrivenShut
    BY DEF DrivenShutAtRest
  <2>1. ~Waiting(PinsShut) /\ Undisturbed
    BY RestWaits DEF Uncut, Undisturbed
  <2>2. QED BY <2>1 DEF DriveInv, ClosedValveDrivenShut, DrivenShut
<1>3. Typed /\ SoundInv /\ DriveInv /\ [PNext]_pvars => SoundInv' /\ DriveInv'
  BY SoundStep, DriveStep
<1>4. QED BY <1>1, <1>2, <1>3, PTyping, PTL DEF PSpec

=============================================================================
