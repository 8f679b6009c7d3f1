-------------------------- MODULE MainUnitProofs ---------------------------
(***************************************************************************)
(* Proofs about MainUnit, for any set of devices and any pin readings.     *)
(*                                                                         *)
(* The inductive invariant is a property Good of the unit record and a     *)
(* property WellKept of the device list.  Every function of valve_work.c   *)
(* and water_work.c that a handler calls last preserves Good; the lemmas   *)
(* say so function by function, and the theorems put handlers together     *)
(* from them.                                                              *)
(***************************************************************************)
EXTENDS MainUnit, TLAPS

\* The invariants of MainUnit that speak of the unit record alone.
Held(u) ==
  /\ u.DeviceStatus \in {"SlaverSensorLeak", "SlaverUltraLowPower"} => u.lock_status = 1
  /\ u.DeviceStatus \in {"SlaverSensorLeak", "SlaverUltraLowPower", "SlaverOffline"}
       => u.valve_status = VALVE_STATUS_CLOSE

Ranked(u) == u.DeviceStatus \in Alarm => u.priority = warning_priority(u.DeviceStatus)

Blamed(u) == u.DeviceStatus \in FailAlarm => u.valve_valid = 0

Windowed(u) ==
  /\ u.DeviceStatus = "LearnDevice" => u.allow_add_device = 1
  /\ u.allow_add_device = 1 => "radio_learn" \in u.timers

Good(u) == u \in Unit /\ Held(u) /\ Ranked(u) /\ Blamed(u) /\ Windowed(u)

\* Only known devices have flags; one door unit, one gateway.
Single(l) == \A D \in {DoorUnit, Gateway} : \A d, e \in l.known \cap D : d = e

WellKept(l) ==
  /\ l \in List
  /\ l.waterleak \cup l.wirelost \cup l.offline \cup l.recv \subseteq l.known
  /\ Single(l)

IInv == Good(unit) /\ WellKept(list) /\ dry \in Dry

-----------------------------------------------------------------------------
(* The functions of valve_work.c.                                          *)

USE DEF VALVE_STATUS_CLOSE, VALVE_STATUS_OPEN, PIN_LOW, PIN_HIGH

\* The timers of the valve are not the learning timer.
LEMMA TimerSets ==
  /\ TurnTimer \subseteq ValveTimer
  /\ ValveTimer \subseteq Timer
  /\ "radio_learn" \in Timer /\ "radio_learn" \notin ValveTimer
  /\ "valve_detect" \in ValveTimer /\ "valve_delay_close" \in ValveTimer
  /\ \A s \in Side : turn_back_timer(s) \in TurnTimer /\ turn_check_timer(s) \in TurnTimer
BY DEF Timer, ValveTimer, TurnTimer, Side, turn_back_timer, turn_check_timer

\* What closing does to a unit, bad valve or not: it is shut; lock, priority,
\* verdict, window and learning timer are as before.
LEMMA ValveCloseFacts ==
  ASSUME NEW u \in Unit
  PROVE  /\ valve_close(u) \in Unit
         /\ valve_close(u).valve_status = VALVE_STATUS_CLOSE
         /\ valve_close(u).lock_status = u.lock_status
         /\ valve_close(u).priority = u.priority
         /\ valve_close(u).valve_valid = u.valve_valid
         /\ valve_close(u).allow_add_device = u.allow_add_device
         /\ "radio_learn" \in u.timers => "radio_learn" \in valve_close(u).timers
         /\ valve_close(u).DeviceStatus \in {u.DeviceStatus, "ValveClose"}
<1> DEFINE shut == [s \in Side |-> PIN_HIGH]
           zero == 0
           closed == "ValveClose"
           v == valve_close(u)
<1>1. /\ shut \in [Side -> PIN_LOW..PIN_HIGH]
      /\ zero \in 0..1 /\ zero = VALVE_STATUS_CLOSE
      /\ closed \in Device_Status /\ closed = "ValveClose"
  BY DEF Device_Status
<1> HIDE DEF shut, zero, closed
<1>2. CASE u.valve_valid = 0
  <2>1. v = [u EXCEPT !.valve_status = zero, !.control_pin = shut]
    BY <1>2 DEF valve_close, valve_turn_control, zero, shut
  <2> HIDE DEF v
  <2>2. v \in Unit
    BY <1>1, <2>1 DEF Unit
  <2>3. /\ v.DeviceStatus = u.DeviceStatus /\ v.priority = u.priority
        /\ v.allow_add_device = u.allow_add_device /\ v.timers = u.timers
        /\ v.valve_status = zero /\ v.lock_status = u.lock_status /\ v.valve_valid = u.valve_valid
    BY <2>1 DEF Unit
  <2>4. QED
    BY <1>1, <2>2, <2>3 DEF v
<1>3. CASE u.valve_valid # 0
  <2> DEFINE left == u.timers \ ValveTimer
  <2>1. v = [u EXCEPT !.DeviceStatus = closed, !.valve_status = zero, !.control_pin = shut,
                      !.timers = left]
    BY <1>3 DEF valve_close, valve_turn_control, rt_timer_stop, zero, shut, closed, Unit
  <2>2. left \in SUBSET Timer /\ ("radio_learn" \in u.timers => "radio_learn" \in left)
    BY TimerSets DEF Unit
  <2> HIDE DEF v, left
  <2>3. v \in Unit
    BY <1>1, <2>1, <2>2 DEF Unit
  <2>4. /\ v.DeviceStatus = closed /\ v.priority = u.priority
        /\ v.allow_add_device = u.allow_add_device /\ v.timers = left
        /\ v.valve_status = zero /\ v.lock_status = u.lock_status /\ v.valve_valid = u.valve_valid
    BY <2>1 DEF Unit
  <2>5. QED
    BY <1>1, <2>2, <2>3, <2>4 DEF v
<1>4. QED BY <1>2, <1>3

\* Closing keeps a good unit good.
LEMMA ValveCloseGood ==
  ASSUME NEW u, Good(u)
  PROVE  Good(valve_close(u))
<1> DEFINE v == valve_close(u)
<1>1. /\ v \in Unit /\ v.valve_status = VALVE_STATUS_CLOSE /\ v.lock_status = u.lock_status
      /\ v.priority = u.priority /\ v.valve_valid = u.valve_valid
      /\ v.allow_add_device = u.allow_add_device
      /\ "radio_learn" \in u.timers => "radio_learn" \in v.timers
      /\ v.DeviceStatus \in {u.DeviceStatus, "ValveClose"}
  BY ValveCloseFacts DEF Good
<1> HIDE DEF v
<1>2. QED
  BY <1>1 DEF Good, Held, Ranked, Blamed, Windowed, Alarm, FailAlarm, v

\* Opening keeps a good unit good.
LEMMA ValveOpenGood ==
  ASSUME NEW u, Good(u)
  PROVE  Good(valve_open(u))
<1> DEFINE open == [s \in Side |-> PIN_LOW]
           one == 1
           opened == "ValveOpen"
           left == (u.timers \ (TurnTimer \cup {"valve_delay_close"})) \cup {"valve_detect"}
           v == valve_open(u)
<1>1. /\ open \in [Side -> PIN_LOW..PIN_HIGH]
      /\ one \in 0..1
      /\ opened \in Device_Status /\ opened = "ValveOpen"
  BY DEF Device_Status
<1>2. u \in Unit
  BY DEF Good
<1>3. left \in SUBSET Timer /\ ("radio_learn" \in u.timers => "radio_learn" \in left)
  BY <1>2, TimerSets DEF Unit
<1>4. CASE u.lock_status = 1 \/ u.valve_valid = 0
  BY <1>4 DEF valve_open
<1>5. CASE ~(u.lock_status = 1 \/ u.valve_valid = 0)
  <2> HIDE DEF open, one, opened
  <2>1. v = [u EXCEPT !.DeviceStatus = opened, !.valve_status = one, !.control_pin = open,
                      !.timers = left]
    <3> DEFINE T == TurnTimer \cup {"valve_delay_close"}
               w == [u EXCEPT !.DeviceStatus = opened, !.valve_status = one, !.control_pin = open]
               x == [w EXCEPT !.timers = u.timers \ T]
    <3>1. v = rt_timer_start(rt_timer_stop(w, T), {"valve_detect"})
      BY <1>5 DEF valve_open, valve_turn_control, open, one, opened
    <3>2. rt_timer_stop(w, T) = x
      BY <1>2 DEF rt_timer_stop, Unit
    <3>3. rt_timer_start(x, {"valve_detect"}) = [w EXCEPT !.timers = left]
      <4> HIDE DEF T
      <4>1. x.timers = u.timers \ T
        BY <1>2 DEF Unit
      <4>2. rt_timer_start(x, {"valve_detect"}) = [x EXCEPT !.timers = left]
        BY <4>1 DEF rt_timer_start, T
      <4> HIDE DEF left
      <4>3. [x EXCEPT !.timers = left] = [w EXCEPT !.timers = left]
        BY <1>2 DEF Unit
      <4>4. QED BY <4>2, <4>3
    <3>4. QED BY <3>1, <3>2, <3>3
  <2> HIDE DEF v, left
  <2>2. v \in Unit
    BY <1>1, <1>2, <1>3, <2>1 DEF Unit
  <2>3. /\ v.DeviceStatus = opened
        /\ v.allow_add_device = u.allow_add_device /\ v.timers = left
    BY <1>2, <2>1 DEF Unit
  <2>4. QED
    BY <1>1, <1>3, <2>2, <2>3 DEF Good, Held, Ranked, Blamed, Windowed, Alarm, FailAlarm, v
<1>6. QED BY <1>4, <1>5

\* Locking, and releasing the lock while no alarm needs it.
LEMMA ValveLockGood ==
  ASSUME NEW u, Good(u)
  PROVE  /\ Good(valve_lock(u))
         /\ valve_lock(u).lock_status = 1
         /\ valve_lock(u).DeviceStatus = u.DeviceStatus
BY DEF valve_lock, Good, Unit, Held, Ranked, Blamed, Windowed

\* Releasing the lock is harmless in the statuses that take commands.
LEMMA ValveUnlockGood ==
  ASSUME NEW u, Good(u), Commandable(u)
  PROVE  Good(valve_unlock(u))
BY DEF valve_unlock, Good, Unit, Held, Ranked, Blamed, Windowed, Commandable

\* Starting or stopping the delayed close touches one timer of the valve.
LEMMA DelayControlGood ==
  ASSUME NEW u, Good(u), NEW value \in 0..1
  PROVE  Good(valve_delay_control(u, value))
BY TimerSets DEF valve_delay_control, rt_timer_start, rt_timer_stop, Good, Unit, Held, Ranked,
     Blamed, Windowed

\* An edge of the input contact opens, closes or does nothing.
LEMMA DryContactControlGood ==
  ASSUME NEW u, Good(u), NEW level \in 0..1
  PROVE  Good(valve_dry_contact_control(u, level))
BY ValveCloseGood, ValveOpenGood DEF valve_dry_contact_control

\* The self-check moves pins, results and its own timers.
LEMMA CheckStartGood ==
  ASSUME NEW u, Good(u), NEW full
  PROVE  Good(valve_check_start(u, full))
<1>1. CASE u.valve_status = VALVE_STATUS_CLOSE
  BY <1>1 DEF valve_check_start
<1>2. CASE u.valve_status # VALVE_STATUS_CLOSE
  <2> DEFINE T == {s \in Side : full[s] = 0}
             c == valve_check_start(u, full)
             timers == (u.timers \ {turn_check_timer(s) : s \in T}) \cup {turn_back_timer(s) : s \in T}
             result == [s \in Side |-> IF s \in T THEN 0 ELSE u.check_result[s]]
             pin == [s \in Side |-> IF s \in T THEN PIN_HIGH ELSE u.control_pin[s]]
  <2>1. c = [u EXCEPT !.timers = timers, !.check_result = result, !.control_pin = pin]
    BY <1>2 DEF valve_check_start
  <2>2. timers \in SUBSET Timer /\ ("radio_learn" \in u.timers => "radio_learn" \in timers)
    BY TimerSets DEF Good, Unit
  <2>3. result \in [Side -> 0..1] /\ pin \in [Side -> PIN_LOW..PIN_HIGH]
    BY DEF Good, Unit
  <2> HIDE DEF timers, result, pin, T, c
  <2>4. QED
    BY <2>1, <2>2, <2>3 DEF Good, Unit, Held, Ranked, Blamed, Windowed, c
<1>3. QED BY <1>1, <1>2

-----------------------------------------------------------------------------
(* The functions of water_work.c.                                          *)

\* Showing a status changes the status and nothing else.
LEMMA SetStatusFacts ==
  ASSUME NEW u \in Unit, NEW status \in Device_Status
  PROVE  /\ SetStatus(u, status) \in Unit
         /\ SetStatus(u, status).DeviceStatus = status
         /\ SetStatus(u, status).priority = u.priority
         /\ SetStatus(u, status).allow_add_device = u.allow_add_device
         /\ SetStatus(u, status).valve_status = u.valve_status
         /\ SetStatus(u, status).lock_status = u.lock_status
         /\ SetStatus(u, status).valve_valid = u.valve_valid
         /\ SetStatus(u, status).timers = u.timers
BY DEF SetStatus, Unit

\* Locking sets the lock and nothing else.
LEMMA LockFacts ==
  ASSUME NEW u \in Unit
  PROVE  /\ valve_lock(u) \in Unit
         /\ valve_lock(u).lock_status = 1
         /\ valve_lock(u).DeviceStatus = u.DeviceStatus
         /\ valve_lock(u).priority = u.priority
         /\ valve_lock(u).allow_add_device = u.allow_add_device
         /\ valve_lock(u).valve_status = u.valve_status
         /\ valve_lock(u).valve_valid = u.valve_valid
         /\ valve_lock(u).timers = u.timers
BY DEF valve_lock, Unit

\* Every alarm has a priority from 1 to 8; a leak has the highest.
LEMMA PriorityRange ==
  /\ \A event \in Alarm : warning_priority(event) \in 1..8
  /\ warning_priority("SlaverSensorLeak") = 8
BY DEF warning_priority, Alarm, FailAlarm

\* Raising an alarm keeps a good unit good: the priority stored is that of the
\* alarm shown, and the alarms that need a shut or locked valve shut and lock it.
LEMMA WarningEnableGood ==
  ASSUME NEW u, Good(u), NEW event \in Alarm, event \in FailAlarm => u.valve_valid = 0
  PROVE  Good(warning_enable(u, event))
<1> DEFINE p == warning_priority(event)
           w == [u EXCEPT !.priority = p]
<1>1. CASE ~(p >= u.priority)
  BY <1>1 DEF warning_enable
<1>2. CASE p >= u.priority
  <2>1. warning_enable(u, event) = warning_callback(w, event)
    BY <1>2 DEF warning_enable
  <2>2. u \in Unit /\ p \in 0..8 /\ event \in Device_Status
    BY PriorityRange DEF Good, Device_Status
  <2>3. /\ w \in Unit /\ w.priority = p
        /\ w.DeviceStatus = u.DeviceStatus /\ w.allow_add_device = u.allow_add_device
        /\ w.valve_status = u.valve_status /\ w.lock_status = u.lock_status
        /\ w.valve_valid = u.valve_valid /\ w.timers = u.timers
    <3> HIDE DEF p
    <3> QED BY <2>2 DEF Unit
  <2> HIDE DEF w
  <2>4. CASE event = "SlaverUltraLowPower" \/ (event = "SlaverSensorLeak" /\ u.DeviceStatus # event)
    <3> DEFINE c == valve_close(valve_lock(w))
               v == SetStatus(c, event)
    <3>1. warning_callback(w, event) = v
      BY <2>3, <2>4 DEF warning_callback
    <3>2. /\ c \in Unit /\ c.valve_status = VALVE_STATUS_CLOSE /\ c.lock_status = 1
          /\ c.priority = p /\ c.valve_valid = u.valve_valid
          /\ c.allow_add_device = u.allow_add_device
          /\ "radio_learn" \in u.timers => "radio_learn" \in c.timers
      BY <2>3, LockFacts, ValveCloseFacts
    <3> HIDE DEF c
    <3>3. /\ v \in Unit /\ v.DeviceStatus = event /\ v.priority = p
          /\ v.allow_add_device = c.allow_add_device /\ v.valve_status = c.valve_status
          /\ v.lock_status = c.lock_status /\ v.valve_valid = c.valve_valid /\ v.timers = c.timers
      BY <2>2, <3>2, SetStatusFacts
    <3> HIDE DEF v
    <3>4. Good(v)
      BY <2>4, <3>2, <3>3 DEF Good, Held, Ranked, Blamed, Windowed, Alarm, FailAlarm
    <3>5. QED BY <2>1, <3>1, <3>4
  <2>5. CASE event = "SlaverOffline" /\ u.DeviceStatus # event
    <3> DEFINE c == valve_close(w)
               v == SetStatus(c, event)
    <3>1. warning_callback(w, event) = v
      BY <2>3, <2>5 DEF warning_callback
    <3>2. /\ c \in Unit /\ c.valve_status = VALVE_STATUS_CLOSE
          /\ c.priority = p /\ c.allow_add_device = u.allow_add_device
          /\ "radio_learn" \in u.timers => "radio_learn" \in c.timers
      BY <2>3, ValveCloseFacts
    <3> HIDE DEF c
    <3>3. /\ v \in Unit /\ v.DeviceStatus = event /\ v.priority = p
          /\ v.allow_add_device = c.allow_add_device /\ v.valve_status = c.valve_status
          /\ v.timers = c.timers
      BY <2>2, <3>2, SetStatusFacts
    <3> HIDE DEF v
    <3>4. Good(v)
      BY <2>5, <3>2, <3>3 DEF Good, Held, Ranked, Blamed, Windowed, Alarm, FailAlarm
    <3>5. QED BY <2>1, <3>1, <3>4
  <2>6. CASE event \in {"SlaverSensorLeak", "SlaverOffline"} /\ u.DeviceStatus = event
    <3>1. warning_callback(w, event) = w
      BY <2>3, <2>6 DEF warning_callback
    <3>2. Good(w)
      BY <2>3, <2>6 DEF Good, Held, Ranked, Blamed, Windowed
    <3>3. QED BY <2>1, <3>1, <3>2
  <2>7. CASE event \notin {"SlaverUltraLowPower", "SlaverSensorLeak", "SlaverOffline"}
    <3> DEFINE v == SetStatus(w, event)
    <3>1. warning_callback(w, event) = v
      BY <2>7 DEF warning_callback
    <3>2. /\ v \in Unit /\ v.DeviceStatus = event /\ v.priority = p
          /\ v.allow_add_device = u.allow_add_device
          /\ v.valve_valid = u.valve_valid /\ v.timers = u.timers
      BY <2>2, <2>3, SetStatusFacts
    <3> HIDE DEF v
    <3>3. Good(v)
      BY <2>7, <3>2 DEF Good, Held, Ranked, Blamed, Windowed, Alarm, FailAlarm
    <3>4. QED BY <2>1, <3>1, <3>3
  <2>8. QED BY <2>4, <2>5, <2>6, <2>7
<1>3. QED BY <1>1, <1>2

\* Clearing the alarms keeps a good unit good; so do its two conditional uses.
LEMMA AllClearGood ==
  ASSUME NEW u \in Unit, u.allow_add_device = 1 => "radio_learn" \in u.timers
  PROVE  /\ Good(warning_all_clear(u))
         /\ warning_all_clear(u).lock_status = u.lock_status
<1> DEFINE status == IF u.valve_status = VALVE_STATUS_OPEN THEN "ValveOpen" ELSE "ValveClose"
           zero == 0
           v == warning_all_clear(u)
<1>1. v = [u EXCEPT !.DeviceStatus = status, !.priority = zero]
  BY DEF warning_all_clear
<1>2. status \in {"ValveOpen", "ValveClose"} /\ status \in Device_Status /\ zero \in 0..8
  BY DEF Device_Status
<1> HIDE DEF status, zero, v
<1>3. v \in Unit
  BY <1>1, <1>2 DEF Unit
<1>4. /\ v.DeviceStatus = status /\ v.allow_add_device = u.allow_add_device
      /\ v.timers = u.timers /\ v.lock_status = u.lock_status
  BY <1>1 DEF Unit
<1>5. QED
  BY <1>2, <1>3, <1>4 DEF Good, Held, Ranked, Blamed, Windowed, Alarm, FailAlarm, v

\* Clearing a valve-fault alarm keeps a good unit good.
LEMMA FailDisableGood ==
  ASSUME NEW u, Good(u)
  PROVE  Good(valvefail_warning_disable(u))
BY AllClearGood DEF valvefail_warning_disable, Good, Windowed

\* Clearing an offline alarm keeps a good unit good.
LEMMA OfflineCheckGood ==
  ASSUME NEW u, Good(u), NEW someOffline
  PROVE  Good(warning_offline_check(u, someOffline))
BY AllClearGood DEF warning_offline_check, Good, Windowed

\* Learning ends with the window closed, whether its timer still runs or not.
LEMMA LearnEndGood ==
  ASSUME NEW u \in Unit
  PROVE  Good(learn_end(u))
<1> DEFINE zero == 0
           w == [u EXCEPT !.allow_add_device = zero]
<1>1. zero \in 0..1 /\ zero # 1
  OBVIOUS
<1>2. learn_end(u) = warning_all_clear(w)
  BY DEF learn_end
<1> HIDE DEF zero
<1>3. w \in Unit /\ w.allow_add_device = zero
  BY <1>1 DEF Unit
<1> HIDE DEF w
<1>4. QED
  BY <1>1, <1>2, <1>3, AllClearGood

\* Entering and leaving the learning mode.
LEMMA StartLearnGood ==
  ASSUME NEW u, Good(u)
  PROVE  Good(radio_start_learn_device(u))
<1>1. u \in Unit
  BY DEF Good
<1>2. CASE Commandable(u)
  <2> DEFINE learn == "LearnDevice"
             one == 1
             more == u.timers \cup {"radio_learn"}
             v == radio_start_learn_device(u)
  <2>1. v = [u EXCEPT !.DeviceStatus = learn, !.allow_add_device = one, !.timers = more]
    <3> DEFINE w == [u EXCEPT !.DeviceStatus = learn, !.allow_add_device = one]
    <3>1. v = rt_timer_start(w, {"radio_learn"})
      BY <1>2 DEF radio_start_learn_device, Commandable
    <3>2. rt_timer_start(w, {"radio_learn"}) = [w EXCEPT !.timers = more]
      BY <1>1 DEF rt_timer_start, Unit
    <3>3. QED BY <3>1, <3>2
  <2>2. /\ learn \in Device_Status /\ learn = "LearnDevice" /\ one \in 0..1 /\ one = 1
        /\ more \in SUBSET Timer /\ "radio_learn" \in more
    BY <1>1, TimerSets DEF Device_Status, Unit
  <2> HIDE DEF learn, one, more, v
  <2>3. v \in Unit
    BY <1>1, <2>1, <2>2 DEF Unit
  <2>4. v.DeviceStatus = learn /\ v.allow_add_device = one /\ v.timers = more
    BY <1>1, <2>1 DEF Unit
  <2>5. QED
    BY <2>2, <2>3, <2>4 DEF Good, Held, Ranked, Blamed, Windowed, Alarm, FailAlarm, v
<1>3. CASE ~Commandable(u) /\ u.DeviceStatus = "LearnDevice"
  <2>1. rt_timer_stop(u, {"radio_learn"}) \in Unit
    BY <1>1 DEF rt_timer_stop, Unit
  <2>2. QED
    BY <1>3, <2>1, LearnEndGood DEF radio_start_learn_device
<1>4. CASE ~Commandable(u) /\ u.DeviceStatus # "LearnDevice"
  BY <1>4 DEF radio_start_learn_device
<1>5. QED BY <1>2, <1>3, <1>4

\* Restarting the learning timer, in learning mode or not, keeps a good unit good.
LEMMA RefreshLearnGood ==
  ASSUME NEW u, Good(u)
  PROVE  Good(radio_refresh_learn_device(u))
BY TimerSets DEF radio_refresh_learn_device, rt_timer_start, Good, Unit, Held, Ranked, Blamed, Windowed

-----------------------------------------------------------------------------
(* The timer callbacks.                                                    *)

\* A timer other than the learning timer has fired: the unit is as good as before.
LEMMA FiredGood ==
  ASSUME NEW u, Good(u), NEW t \in ValveTimer
  PROVE  Good(rt_timer_stop(u, {t}))
BY TimerSets DEF rt_timer_stop, Good, Unit, Held, Ranked, Blamed, Windowed

\* The delayed close locks and closes, or is dropped.
LEMMA DelayCloseGood ==
  ASSUME NEW u, Good(u)
  PROVE  Good(valve_delay_close_timer_callback(u))
BY ValveLockGood, ValveCloseGood DEF valve_delay_close_timer_callback

\* A failed stage of the self-check raises its alarm with the valve marked bad.
LEMMA CheckFailGood ==
  ASSUME NEW u, Good(u), NEW s \in Side
  PROVE  Good(warning_enable(check_fail(u, s), fail_event(s)))
<1> DEFINE zero == 0
           result == [u.check_result EXCEPT ![s] = 1]
           v == check_fail(u, s)
<1>1. u \in Unit /\ zero \in 0..1 /\ zero = 0 /\ result \in [Side -> 0..1]
  BY DEF Good, Unit
<1>2. v = [u EXCEPT !.valve_valid = zero, !.check_result = result]
  BY <1>1 DEF check_fail, Unit
<1> HIDE DEF zero, result, v
<1>3. v \in Unit
  BY <1>1, <1>2 DEF Unit
<1>4. /\ v.DeviceStatus = u.DeviceStatus /\ v.priority = u.priority
      /\ v.allow_add_device = u.allow_add_device /\ v.timers = u.timers
      /\ v.valve_status = u.valve_status /\ v.lock_status = u.lock_status /\ v.valve_valid = zero
  BY <1>1, <1>2 DEF Unit
<1>5. Good(v) /\ v.valve_valid = 0
  BY <1>1, <1>3, <1>4 DEF Good, Held, Ranked, Blamed, Windowed
<1>6. fail_event(s) \in Alarm
  BY DEF fail_event, Alarm, FailAlarm
<1>7. QED
  BY <1>5, <1>6, WarningEnableGood DEF v

\* Stage 1 of the self-check, passed or failed.
LEMMA TurnBackGood ==
  ASSUME NEW u, Good(u), NEW s \in Side, NEW full
  PROVE  Good(valve_turn_back_timer_callback(u, s, full))
<1> DEFINE pin == [u.control_pin EXCEPT ![s] = PIN_LOW]
           more == u.timers \cup {turn_check_timer(s)}
           v == turn_back_success(u, s)
<1>1. u \in Unit
  BY DEF Good
<1>2. /\ pin \in [Side -> PIN_LOW..PIN_HIGH]
      /\ more \in SUBSET Timer /\ ("radio_learn" \in u.timers => "radio_learn" \in more)
  BY <1>1, TimerSets DEF Unit
<1>3. v = [u EXCEPT !.control_pin = pin, !.timers = more]
  <2> DEFINE w == [u EXCEPT !.control_pin = pin]
  <2>1. v = rt_timer_start(w, {turn_check_timer(s)})
    BY <1>1 DEF turn_back_success, Unit
  <2>2. rt_timer_start(w, {turn_check_timer(s)}) = [w EXCEPT !.timers = more]
    BY <1>1 DEF rt_timer_start, Unit
  <2>3. QED BY <2>1, <2>2
<1> HIDE DEF pin, more, v
<1>4. v \in Unit
  BY <1>1, <1>2, <1>3 DEF Unit
<1>5. /\ v.DeviceStatus = u.DeviceStatus /\ v.priority = u.priority
      /\ v.allow_add_device = u.allow_add_device /\ v.timers = more
      /\ v.valve_status = u.valve_status /\ v.lock_status = u.lock_status
      /\ v.valve_valid = u.valve_valid
  BY <1>1, <1>3 DEF Unit
<1>6. Good(v)
  BY <1>2, <1>4, <1>5 DEF Good, Held, Ranked, Blamed, Windowed
<1>7. QED
  BY <1>6, CheckFailGood DEF valve_turn_back_timer_callback, v

\* A passed self-check restores the valve and clears its alarm together.
LEMMA TurnCheckGood ==
  ASSUME NEW u, Good(u), NEW s \in Side, NEW full
  PROVE  Good(valve_turn_check_timer_callback(u, s, full))
<1>1. CASE full = 0
  <2> DEFINE one == 1
             w == [u EXCEPT !.valve_valid = one]
             sound == IF u.check_result[Other(s)] = 0 THEN valvefail_warning_disable(w) ELSE u
             result == [sound.check_result EXCEPT ![s] = 0]
             v == valve_turn_check_timer_callback(u, s, full)
  <2>1. one \in 0..1 /\ u \in Unit
    BY DEF Good
  <2>2. v = [sound EXCEPT !.check_result[s] = 0]
    BY <1>1 DEF valve_turn_check_timer_callback
  <2>3. Good(sound)
    <3> HIDE DEF one
    <3>1. w \in Unit
      BY <2>1 DEF Unit
    <3>2. /\ w.DeviceStatus = u.DeviceStatus /\ w.priority = u.priority
          /\ w.allow_add_device = u.allow_add_device /\ w.timers = u.timers
          /\ w.valve_status = u.valve_status /\ w.lock_status = u.lock_status
      BY <2>1 DEF Unit
    <3> HIDE DEF w
    <3>3. CASE w.DeviceStatus \in FailAlarm
      BY <3>1, <3>2, <3>3, AllClearGood DEF valvefail_warning_disable, Good, Windowed
    <3>4. CASE w.DeviceStatus \notin FailAlarm
      BY <3>1, <3>2, <3>4 DEF valvefail_warning_disable, Good, Held, Ranked, Blamed, Windowed
    <3>5. QED BY <3>3, <3>4
  <2> HIDE DEF sound, v
  <2>4. result \in [Side -> 0..1]
    BY <2>3 DEF Good, Unit
  <2>5. v = [sound EXCEPT !.check_result = result]
    BY <2>2, <2>3 DEF Good, Unit
  <2> HIDE DEF result
  <2>6. v \in Unit
    BY <2>3, <2>4, <2>5 DEF Good, Unit
  <2>7. /\ v.DeviceStatus = sound.DeviceStatus /\ v.priority = sound.priority
        /\ v.allow_add_device = sound.allow_add_device /\ v.timers = sound.timers
        /\ v.valve_status = sound.valve_status /\ v.lock_status = sound.lock_status
        /\ v.valve_valid = sound.valve_valid
    BY <2>3, <2>5 DEF Good, Unit
  <2>8. QED
    BY <2>3, <2>6, <2>7 DEF Good, Held, Ranked, Blamed, Windowed, v
<1>2. CASE full # 0
  BY <1>2, CheckFailGood DEF valve_turn_check_timer_callback
<1>3. QED BY <1>1, <1>2

\* A unit that has just booted is good.
LEMMA PowerOnGood ==
  ASSUME NEW lock \in 0..1
  PROVE  Good(PowerOn(lock))
BY DEF PowerOn, Good, Unit, Held, Ranked, Blamed, Windowed, Device_Status, Alarm, FailAlarm

\* A boot ends in a good unit, with or without a leak in the flash.
LEMMA ValveInitGood ==
  ASSUME NEW lock \in 0..1, NEW leakStored
  PROVE  Good(valve_init(lock, leakStored))
<1>1. "SlaverSensorLeak" \in Alarm /\ "SlaverSensorLeak" \notin FailAlarm
  BY DEF Alarm, FailAlarm
<1>2. QED
  BY <1>1, PowerOnGood, WarningEnableGood DEF valve_init

-----------------------------------------------------------------------------
(* The device list.                                                        *)

\* Dropping nodes drops their flags.
LEMMA WithoutKept ==
  ASSUME NEW l, WellKept(l), NEW D
  PROVE  /\ WellKept(Without(l, D))
         /\ Without(l, D).known = l.known \ D
<1> DEFINE w == Without(l, D)
<1>1. w \in List
  BY DEF WellKept, List, Without
<1>2. /\ w.known = l.known \ D /\ w.waterleak = l.waterleak \ D /\ w.wirelost = l.wirelost \ D
      /\ w.offline = l.offline \ D /\ w.recv = l.recv \ D
  BY DEF Without
<1> HIDE DEF w
<1>3. QED
  BY <1>1, <1>2 DEF WellKept, Single, w

\* A known device, or nobody, gets a flag.
LEMMA FlagKept ==
  ASSUME NEW l, WellKept(l), NEW d \in l.known, NEW value
  PROVE  /\ WellKept(aq_device_waterleak_set(l, d, value))
         /\ aq_device_waterleak_set(l, d, value).known = l.known
         /\ WellKept(aq_device_wirelost_set(l, d, value))
         /\ aq_device_wirelost_set(l, d, value).known = l.known
<1>1. l \in List
  BY DEF WellKept
<1>2. \A flags \in SUBSET l.known : SetFlag(flags, d, value) \in SUBSET l.known
  BY DEF SetFlag
<1>3. l.known \subseteq Device
  BY <1>1 DEF List
<1>4. /\ WellKept(aq_device_waterleak_set(l, d, value))
      /\ aq_device_waterleak_set(l, d, value).known = l.known
  BY <1>1, <1>2, <1>3 DEF aq_device_waterleak_set, WellKept, List, Single
<1>5. /\ WellKept(aq_device_wirelost_set(l, d, value))
      /\ aq_device_wirelost_set(l, d, value).known = l.known
  BY <1>1, <1>2, <1>3 DEF aq_device_wirelost_set, WellKept, List, Single
<1>6. QED BY <1>4, <1>5

\* Hearing a known device.
LEMMA HeartRecvKept ==
  ASSUME NEW l, WellKept(l), NEW d \in l.known
  PROVE  WellKept(aq_device_heart_recv(l, d)) /\ WellKept(aq_device_recv_set(l, d))
BY DEF aq_device_heart_recv, aq_device_recv_set, WellKept, List, Single

\* The hourly and the boot-time sweeps of the marks.
LEMMA SweepKept ==
  ASSUME NEW l, WellKept(l)
  PROVE  /\ WellKept(heart_sweep(l))
         /\ WellKept(gateway_heart_check(l))
         /\ WellKept(aq_device_heart_recv_clear(l))
         /\ WellKept(read_device_from_flash(l))
BY DEF heart_sweep, gateway_heart_check, aq_device_heart_recv_clear,
       read_device_from_flash, WellKept, List, Single

\* A new device is kept well when it is the only one of its type, if its type
\* is one of the two that allow one only.
LEMMA CreateKept ==
  ASSUME NEW l, WellKept(l), NEW d \in Device,
         \A D \in {DoorUnit, Gateway} : d \in D => l.known \cap D \subseteq {d}
  PROVE  /\ WellKept(aq_device_create(l, d))
         /\ d \in aq_device_create(l, d).known
<1> DEFINE more == l.known \cup {d}
           w == aq_device_create(l, d)
<1>1. l \in List /\ more \in SUBSET Device
  BY DEF WellKept, List
<1>2. w = [l EXCEPT !.known = more]
  BY DEF aq_device_create
<1>3. \A D \in {DoorUnit, Gateway} : \A a, b \in more \cap D : a = b
  BY DEF WellKept, Single
<1>4. d \in more /\ l.known \subseteq more
  OBVIOUS
<1> HIDE DEF more, w
<1>5. w \in List
  BY <1>1, <1>2 DEF List
<1>6. /\ w.known = more /\ w.waterleak = l.waterleak /\ w.wirelost = l.wirelost
      /\ w.offline = l.offline /\ w.recv = l.recv
  BY <1>1, <1>2 DEF List
<1>7. QED
  BY <1>3, <1>4, <1>5, <1>6 DEF WellKept, Single, w

-----------------------------------------------------------------------------
(* The handlers.                                                           *)

\* The common end of the end-unit handlers.
LEMMA EndunitDoneStep ==
  ASSUME dry \in Dry, NEW u, Good(u), NEW l, WellKept(l), NEW d \in l.known, EndunitDone(u, l, d)
  PROVE  IInv'
<1>1. list' = aq_device_heart_recv(l, d)
  BY DEF EndunitDone
<1>2. WellKept(list')
  BY <1>1, HeartRecvKept
<1>3. Good(unit')
  BY OfflineCheckGood DEF EndunitDone
<1>4. dry' \in Dry
  BY DEF EndunitDone
<1>5. QED BY <1>2, <1>3, <1>4 DEF IInv

\* Which events are alarms, and which of them blame the valve.
LEMMA AlarmEvents ==
  \A e \in {"SlaverSensorLeak", "SlaverUltraLowPower", "SlaverLowPower", "SlaverSensorLost",
            "SlaverOffline"} : e \in Alarm /\ e \notin FailAlarm
BY DEF Alarm, FailAlarm

\* Frames of end units preserve the invariant.
LEMMA EndunitStep ==
  ASSUME IInv, NEW d \in EndUnit, EndunitFrame(d)
  PROVE  IInv'
<1>1. Good(unit) /\ WellKept(list) /\ dry \in Dry
  BY DEF IInv
<1>2. ASSUME NEW battery \in 0..2, EndunitHeart(d, battery) PROVE IInv'
  <2> DEFINE u == CASE battery = 1 -> warning_enable(unit, "SlaverLowPower")
                    [] battery = 2 -> warning_enable(unit, "SlaverUltraLowPower")
                    [] OTHER -> unit
  <2>1. d \in list.known /\ EndunitDone(u, list, d)
    BY <1>2 DEF EndunitHeart, aq_device_find
  <2>2. Good(u)
    BY <1>1, WarningEnableGood, AlarmEvents
  <2> HIDE DEF u
  <2>3. QED BY <1>1, <2>1, <2>2, EndunitDoneStep
<1>3. CASE EndunitValveOpen(d)
  <2> DEFINE u == IF Commandable(unit) THEN valve_open(valve_unlock(unit)) ELSE unit
  <2>1. d \in list.known /\ EndunitDone(u, list, d)
    BY <1>3 DEF EndunitValveOpen, aq_device_find
  <2>2. Good(u)
    BY <1>1, ValveUnlockGood, ValveOpenGood
  <2> HIDE DEF u
  <2>3. QED BY <1>1, <2>1, <2>2, EndunitDoneStep
<1>4. CASE EndunitValveClose(d)
  <2> DEFINE l == aq_device_waterleak_set(list, d, 0)
             u == CASE unit.DeviceStatus = "SlaverSensorLeak" ->
                         IF aq_device_waterleak_find(l) THEN unit ELSE warning_all_clear(unit)
                    [] Commandable(unit) -> valve_close(valve_lock(unit))
                    [] OTHER -> unit
  <2>1. d \in list.known /\ EndunitDone(u, l, d)
    BY <1>4 DEF EndunitValveClose, aq_device_find
  <2>2. Good(warning_all_clear(unit)) /\ Good(valve_close(valve_lock(unit)))
    BY <1>1, AllClearGood, ValveLockGood, ValveCloseGood DEF Good, Windowed
  <2>3. Good(u)
    BY <1>1, <2>2
  <2>4. WellKept(l) /\ d \in l.known
    BY <1>1, <2>1, FlagKept
  <2> HIDE DEF u, l
  <2>5. QED BY <1>1, <2>1, <2>3, <2>4, EndunitDoneStep
<1>5. CASE EndunitLeak(d)
  <2> DEFINE l == aq_device_waterleak_set(list, d, 1)
             u == warning_enable(unit, "SlaverSensorLeak")
  <2>1. d \in list.known /\ EndunitDone(u, l, d)
    BY <1>5 DEF EndunitLeak, aq_device_find
  <2>2. Good(u)
    BY <1>1, WarningEnableGood, AlarmEvents
  <2>3. WellKept(l) /\ d \in l.known
    BY <1>1, <2>1, FlagKept
  <2> HIDE DEF u, l
  <2>4. QED BY <1>1, <2>1, <2>2, <2>3, EndunitDoneStep
<1>6. CASE EndunitLeakOver(d)
  <2> DEFINE l == aq_device_waterleak_set(list, d, 0)
             u == IF unit.DeviceStatus = "SlaverSensorLeak" /\ ~aq_device_waterleak_find(l)
                  THEN valve_close(warning_all_clear(unit)) ELSE unit
  <2>1. d \in list.known /\ EndunitDone(u, l, d)
    BY <1>6 DEF EndunitLeakOver, aq_device_find
  <2>2. Good(valve_close(warning_all_clear(unit)))
    BY <1>1, AllClearGood, ValveCloseGood DEF Good, Windowed
  <2>3. Good(u)
    BY <1>1, <2>2
  <2>4. WellKept(l) /\ d \in l.known
    BY <1>1, <2>1, FlagKept
  <2> HIDE DEF u, l
  <2>5. QED BY <1>1, <2>1, <2>3, <2>4, EndunitDoneStep
<1>7. CASE EndunitLost(d)
  <2> DEFINE l == aq_device_wirelost_set(list, d, 1)
             u == warning_enable(unit, "SlaverSensorLost")
  <2>1. d \in list.known /\ EndunitDone(u, l, d)
    BY <1>7 DEF EndunitLost, aq_device_find
  <2>2. Good(u)
    BY <1>1, WarningEnableGood, AlarmEvents
  <2>3. WellKept(l) /\ d \in l.known
    BY <1>1, <2>1, FlagKept
  <2> HIDE DEF u, l
  <2>4. QED BY <1>1, <2>1, <2>2, <2>3, EndunitDoneStep
<1>8. CASE EndunitLostOver(d)
  <2> DEFINE l == aq_device_wirelost_set(list, d, 0)
             u == IF unit.DeviceStatus = "SlaverSensorLost" /\ ~aq_device_wirelost_find(l)
                  THEN warning_all_clear(unit) ELSE unit
  <2>1. d \in list.known /\ EndunitDone(u, l, d)
    BY <1>8 DEF EndunitLostOver, aq_device_find
  <2>2. Good(warning_all_clear(unit))
    BY <1>1, AllClearGood DEF Good, Windowed
  <2>3. Good(u)
    BY <1>1, <2>2
  <2>4. WellKept(l) /\ d \in l.known
    BY <1>1, <2>1, FlagKept
  <2> HIDE DEF u, l
  <2>5. QED BY <1>1, <2>1, <2>3, <2>4, EndunitDoneStep
<1>9. CASE EndunitAdd(d)
  <2> DEFINE u == radio_refresh_learn_device(unit)
             l == aq_device_create(list, d)
  <2>1. Good(u)
    BY <1>1, RefreshLearnGood
  <2>2. WellKept(l) /\ d \in l.known
    BY <1>1, CreateKept, DeviceAssumption DEF Device
  <2>3. EndunitDone(u, l, d) \/ (unit' = u /\ list' = l /\ UNCHANGED dry)
    BY <1>9 DEF EndunitAdd
  <2> HIDE DEF u, l
  <2>4. CASE EndunitDone(u, l, d)
    BY <1>1, <2>1, <2>2, <2>4, EndunitDoneStep
  <2>5. CASE unit' = u /\ list' = l /\ UNCHANGED dry
    BY <1>1, <2>1, <2>2, <2>5 DEF IInv
  <2>6. QED BY <2>3, <2>4, <2>5
<1>10. CASE EndunitStartLearn(d)
  <2> DEFINE u == radio_start_learn_device(unit)
  <2>1. Good(u)
    BY <1>1, StartLearnGood
  <2>2. \/ d \in list.known /\ EndunitDone(u, list, d)
        \/ unit' = u /\ UNCHANGED <<list, dry>>
    BY <1>10 DEF EndunitStartLearn, aq_device_find
  <2> HIDE DEF u
  <2>3. CASE d \in list.known /\ EndunitDone(u, list, d)
    BY <1>1, <2>1, <2>3, EndunitDoneStep
  <2>4. CASE unit' = u /\ UNCHANGED <<list, dry>>
    BY <1>1, <2>1, <2>4 DEF IInv
  <2>5. QED BY <2>2, <2>3, <2>4
<1>11. QED
  BY <1>2, <1>3, <1>4, <1>5, <1>6, <1>7, <1>8, <1>9, <1>10 DEF EndunitFrame

\* The valve handlers of motion sensor, gateway and door unit.
LEMMA ValveCommandGood ==
  ASSUME NEW u, Good(u), Commandable(u)
  PROVE  /\ Good(valve_open(valve_unlock(u)))
         /\ Good(valve_close(u))
         /\ Good(valve_close(valve_lock(u)))
BY ValveUnlockGood, ValveOpenGood, ValveCloseGood, ValveLockGood

\* Frames of door units preserve the invariant.
LEMMA DoorunitStep ==
  ASSUME IInv, NEW d \in DoorUnit, DoorunitFrame(d)
  PROVE  IInv'
<1>1. Good(unit) /\ WellKept(list) /\ dry \in Dry
  BY DEF IInv
<1>2. CASE DoorunitHeart(d)
  BY <1>1, <1>2, HeartRecvKept DEF DoorunitHeart, aq_device_find, IInv
<1>3. ASSUME NEW command \in 0..3, DoorunitValve(d, command) PROVE IInv'
  <2>1. Good(valve_delay_control(unit, 0)) /\ Good(valve_delay_control(unit, 1))
    BY <1>1, DelayControlGood
  <2>2. Good(unit')
    BY <1>1, <1>3, <2>1, ValveCommandGood DEF DoorunitValve
  <2>3. WellKept(list') /\ dry' \in Dry
    BY <1>1, <1>3, HeartRecvKept DEF DoorunitValve, aq_device_find
  <2>4. QED BY <2>2, <2>3 DEF IInv
<1>4. CASE DoorunitAdd(d)
  <2> DEFINE cleared == aq_doorunit_delete(list)
             l == aq_device_create(cleared, d)
  <2>1. WellKept(cleared) /\ cleared.known = list.known \ DoorUnit
    BY <1>1, WithoutKept DEF aq_doorunit_delete
  <2>2. d \in Device /\ d \notin Gateway /\ cleared.known \cap DoorUnit = {}
    BY <2>1, DeviceAssumption DEF Device
  <2>3. WellKept(l) /\ d \in l.known
    <3> HIDE DEF cleared
    <3> QED BY <2>1, <2>2, CreateKept
  <2>4. WellKept(aq_device_heart_recv(l, d))
    <3> HIDE DEF l
    <3> QED BY <2>3, HeartRecvKept
  <2>5. Good(unit') /\ dry' \in Dry
    BY <1>1, <1>4, RefreshLearnGood DEF DoorunitAdd
  <2>6. WellKept(list')
    BY <1>4, <2>1, <2>3, <2>4 DEF DoorunitAdd
  <2>7. QED BY <2>5, <2>6 DEF IInv
<1>5. QED BY <1>2, <1>3, <1>4 DEF DoorunitFrame

\* Frames of motion sensors preserve the invariant.
LEMMA MotionStep ==
  ASSUME IInv, NEW d \in Motion, MotionFrame(d)
  PROVE  IInv'
<1>1. Good(unit) /\ WellKept(list) /\ dry \in Dry
  BY DEF IInv
<1>2. CASE MotionHeart(d)
  BY <1>1, <1>2, HeartRecvKept DEF MotionHeart, aq_device_find, IInv
<1>3. ASSUME NEW value \in 0..1, MotionControl(d, value) PROVE IInv'
  <2>1. Good(unit')
    BY <1>1, <1>3, ValveCommandGood DEF MotionControl
  <2>2. WellKept(list') /\ dry' \in Dry
    BY <1>1, <1>3, HeartRecvKept DEF MotionControl, aq_device_find
  <2>3. QED BY <2>1, <2>2 DEF IInv
<1>4. CASE MotionAdd(d)
  <2> DEFINE l == aq_device_create(list, d)
  <2>1. WellKept(l) /\ d \in l.known
    BY <1>1, CreateKept, DeviceAssumption DEF Device
  <2>2. WellKept(aq_device_heart_recv(l, d))
    <3> HIDE DEF l
    <3> QED BY <2>1, HeartRecvKept
  <2>3. Good(unit') /\ dry' \in Dry
    BY <1>1, <1>4, RefreshLearnGood DEF MotionAdd
  <2>4. WellKept(list')
    BY <1>4, <2>1, <2>2 DEF MotionAdd
  <2>5. QED BY <2>3, <2>4 DEF IInv
<1>5. QED BY <1>2, <1>3, <1>4 DEF MotionFrame

\* Frames of gateways preserve the invariant.
LEMMA GatewayStep ==
  ASSUME IInv, NEW g \in Gateway, GatewayFrame(g)
  PROVE  IInv'
<1>1. Good(unit) /\ WellKept(list) /\ dry \in Dry
  BY DEF IInv
<1>2. ASSUME NEW value \in 0..1, GatewayControl(g, value) PROVE IInv'
  <2>1. Good(unit')
    BY <1>1, <1>2, ValveCommandGood DEF GatewayControl
  <2>2. WellKept(list') /\ dry' \in Dry
    BY <1>1, <1>2, HeartRecvKept DEF GatewayControl, aq_device_find
  <2>3. QED BY <2>1, <2>2 DEF IInv
<1>3. CASE GatewayOther(g)
  BY <1>1, <1>3, HeartRecvKept DEF GatewayOther, aq_device_find, IInv
<1>4. ASSUME NEW d \in Device, GatewayDelete(g, d) PROVE IInv'
  BY <1>1, <1>4, HeartRecvKept, WithoutKept DEF GatewayDelete, aq_device_find, aq_device_delete, IInv
<1>5. CASE GatewayAdd(g)
  <2> DEFINE cleared == aq_gateway_delete(list)
             l == aq_device_create(cleared, g)
  <2>1. WellKept(cleared) /\ cleared.known = list.known \ Gateway
    BY <1>1, WithoutKept DEF aq_gateway_delete
  <2>2. g \in Device /\ g \notin DoorUnit /\ cleared.known \cap Gateway = {}
    BY <2>1, DeviceAssumption DEF Device
  <2>3. WellKept(l) /\ g \in l.known
    <3> HIDE DEF cleared
    <3> QED BY <2>1, <2>2, CreateKept
  <2>4. WellKept(aq_device_recv_set(l, g))
    <3> HIDE DEF l
    <3> QED BY <2>3, HeartRecvKept
  <2>5. Good(unit') /\ dry' \in Dry
    BY <1>1, <1>5, RefreshLearnGood DEF GatewayAdd
  <2>6. WellKept(list')
    BY <1>5, <2>1, <2>3, <2>4 DEF GatewayAdd
  <2>7. QED BY <2>5, <2>6 DEF IInv
<1>6. QED BY <1>2, <1>3, <1>4, <1>5 DEF GatewayFrame

\* Timer callbacks preserve the invariant.
LEMMA TimerStepOK ==
  ASSUME IInv, TimerStep
  PROVE  IInv'
<1>1. Good(unit) /\ WellKept(list) /\ dry \in Dry
  BY DEF IInv
<1>2. \A t \in ValveTimer : Good(Fired(t))
  BY <1>1, FiredGood DEF Fired
<1>3. SUFFICES Good(unit') /\ UNCHANGED <<list, dry>>
  BY <1>1 DEF IInv
<1>4. CASE DetectOnce
  BY <1>2, <1>4, TimerSets, CheckStartGood DEF DetectOnce, CheckStarts
<1>5. CASE DelayClose
  BY <1>2, <1>5, TimerSets, DelayCloseGood DEF DelayClose
<1>6. ASSUME NEW s \in Side, TurnBack(s) PROVE Good(unit') /\ UNCHANGED <<list, dry>>
  <2>1. turn_back_timer(s) \in ValveTimer
    BY TimerSets
  <2>2. QED BY <1>2, <1>6, <2>1, TurnBackGood DEF TurnBack
<1>7. ASSUME NEW s \in Side, TurnCheck(s) PROVE Good(unit') /\ UNCHANGED <<list, dry>>
  <2>1. turn_check_timer(s) \in ValveTimer
    BY TimerSets
  <2>2. QED BY <1>2, <1>7, <2>1, TurnCheckGood DEF TurnCheck
<1>8. CASE LearnTimeout
  <2>1. Fired("radio_learn") \in Unit
    BY <1>1 DEF Fired, rt_timer_stop, Good, Unit
  <2>2. QED BY <1>8, <2>1, LearnEndGood DEF LearnTimeout, radio_learn_timer_callback
<1>9. QED BY <1>4, <1>5, <1>6, <1>7, <1>8 DEF TimerStep

\* The keys preserve the invariant.
LEMMA KeyStepOK ==
  ASSUME IInv, KeyStep
  PROVE  IInv'
<1>1. Good(unit) /\ WellKept(list) /\ dry \in Dry
  BY DEF IInv
<1>2. SUFFICES Good(unit') /\ UNCHANGED <<list, dry>>
  BY <1>1 DEF IInv
<1>3. CASE KeyOnClick
  BY <1>1, <1>3, ValveOpenGood DEF KeyOnClick
<1>4. CASE KeyOffClick
  BY <1>1, <1>4, ValveCloseGood DEF KeyOffClick
<1>5. CASE KeyOnLong
  BY <1>1, <1>5, CheckStartGood DEF KeyOnLong, CheckStarts
<1>6. CASE KeyOffLong
  BY <1>1, <1>6, StartLearnGood DEF KeyOffLong
<1>7. QED BY <1>3, <1>4, <1>5, <1>6 DEF KeyStep

\* The poll of the dry contacts preserves the invariant.
LEMMA DryContactStep ==
  ASSUME IInv, DryContactPoll
  PROVE  IInv'
<1>1. Good(unit) /\ WellKept(list)
  BY DEF IInv
<1>2. PICK level \in 0..1 :
        LET u == IF level # dry.level THEN valve_dry_contact_control(unit, level) ELSE unit
        IN  unit' = u /\ dry' = dry_contact_outputs(u, level) /\ UNCHANGED list
  BY DEF DryContactPoll
<1>3. Good(unit')
  BY <1>1, <1>2, DryContactControlGood
<1>4. dry' = dry_contact_outputs(unit', level)
  BY <1>2
<1>5. dry' \in Dry
  <2>1. unit'.valve_status \in 0..1 /\ level \in -1..1
    BY <1>3 DEF Good, Unit
  <2>2. QED BY <1>4, <2>1 DEF dry_contact_outputs, get_valve_status, Dry
<1>6. QED BY <1>1, <1>2, <1>3, <1>5 DEF IInv

\* The hour of the RTC thread preserves the invariant.
LEMMA RtcStep ==
  ASSUME IInv, RtcHour
  PROVE  IInv'
<1>1. Good(unit) /\ WellKept(list) /\ dry \in Dry
  BY DEF IInv
<1>2. PICK heartDue \in BOOLEAN, checked \in {unit} \cup CheckStarts(unit) :
        LET swept == IF heartDue THEN heart_sweep(list) ELSE list
        IN  /\ unit' = IF heartDue /\ aq_device_endunit_offline_find(swept)
                       THEN warning_enable(checked, "SlaverOffline")
                       ELSE checked
            /\ list' = gateway_heart_check(swept)
            /\ UNCHANGED dry
  BY DEF RtcHour
<1>3. Good(checked)
  BY <1>1, <1>2, CheckStartGood DEF CheckStarts
<1>4. Good(warning_enable(checked, "SlaverOffline"))
  BY <1>3, WarningEnableGood, AlarmEvents
<1>5. WellKept(list')
  BY <1>1, <1>2, SweepKept
<1>6. QED BY <1>1, <1>2, <1>3, <1>4, <1>5 DEF IInv

\* Resets preserve the invariant.
LEMMA ResetStepOK ==
  ASSUME IInv, ResetStep
  PROVE  IInv'
<1>1. Good(unit) /\ WellKept(list)
  BY DEF IInv
<1>2. ASSUME NEW lock \in 0..1, NEW l, WellKept(l), Boot(lock, l) PROVE IInv'
  <2>1. dry' \in Dry
    BY <1>2 DEF Boot, dry_contact_init, Dry
  <2>2. QED BY <1>2, <2>1, ValveInitGood, SweepKept DEF Boot, IInv
<1>3. unit.lock_status \in 0..1
  BY <1>1 DEF Good, Unit
<1>4. CASE PowerCycle
  BY <1>1, <1>2, <1>3, <1>4 DEF PowerCycle
<1>5. ASSUME NEW d \in EndUnit, PowerLossInLeak(d) PROVE IInv'
  <2>1. WellKept(aq_device_waterleak_set(list, d, 1))
    BY <1>1, <1>5, FlagKept DEF PowerLossInLeak, aq_device_find
  <2>2. QED BY <1>2, <1>3, <1>5, <2>1 DEF PowerLossInLeak
<1>6. CASE FactoryReset
  <2>1. WellKept(EmptyList)
    BY DEF EmptyList, WellKept, List, Single
  <2>2. QED BY <1>2, <1>6, <2>1 DEF FactoryReset
<1>7. QED BY <1>4, <1>5, <1>6 DEF ResetStep

-----------------------------------------------------------------------------

\* The first state satisfies the invariant.
LEMMA InitOK == Init => IInv
<1> SUFFICES ASSUME Init PROVE IInv
  OBVIOUS
<1>1. Good(unit)
  BY PowerOnGood DEF Init
<1>2. WellKept(list)
  BY DEF Init, EmptyList, WellKept, List, Single
<1>3. dry \in Dry
  BY DEF Init, dry_contact_init, Dry
<1>4. QED BY <1>1, <1>2, <1>3 DEF IInv

\* Every step preserves the invariant.
LEMMA NextOK == IInv /\ [Next]_vars => IInv'
<1> SUFFICES ASSUME IInv, [Next]_vars PROVE IInv'
  OBVIOUS
<1>1. CASE Next
  BY <1>1, EndunitStep, DoorunitStep, MotionStep, GatewayStep, TimerStepOK, KeyStepOK,
     DryContactStep, RtcStep, ResetStepOK DEF Next
<1>2. CASE UNCHANGED vars
  BY <1>2 DEF vars, IInv
<1>3. QED BY <1>1, <1>2

\* The inductive invariant holds in every reachable state of the unit, for any
\* devices, any slot limit and any pin readings.
THEOREM Invariance == Spec => []IInv
BY InitOK, NextOK, PTL DEF Spec

\* Every variable keeps its type, and only devices in the list have flags.
THEOREM TypeCorrect == Spec => []TypeOK
<1>1. IInv => TypeOK
  BY DEF IInv, TypeOK, Good, WellKept
<1>2. QED BY <1>1, Invariance, PTL

\* While a leak or an exhausted battery is on display the valve is shut and
\* locked, while a silent sensor is on display it is shut.
THEOREM AlarmHolds == Spec => []AlarmHoldsValveShut
<1>1. IInv => AlarmHoldsValveShut
  BY DEF IInv, AlarmHoldsValveShut, Good, Held
<1>2. QED BY <1>1, Invariance, PTL

\* NowEvent holds the priority of the alarm on display.
THEOREM RankRecorded == Spec => []AlarmRankRecorded
<1>1. IInv => AlarmRankRecorded
  BY DEF IInv, AlarmRankRecorded, Good, Ranked
<1>2. QED BY <1>1, Invariance, PTL

\* A valve-fault alarm is on display only for a valve marked bad.
THEOREM FailMeansInvalid == Spec => []FailAlarmMeansInvalid
<1>1. IInv => FailAlarmMeansInvalid
  BY DEF IInv, FailAlarmMeansInvalid, Good, Blamed
<1>2. QED BY <1>1, Invariance, PTL

\* The learning window always has its timer running.
THEOREM WindowBounded == Spec => []LearnWindowBounded
<1>1. IInv => LearnWindowBounded
  BY DEF IInv, LearnWindowBounded, Good, Windowed
<1>2. QED BY <1>1, Invariance, PTL

\* One door unit and one gateway at most, for any number of candidates.
THEOREM OneOfEach == Spec => []OneDoorOneGateway
<1>1. IInv => OneDoorOneGateway
  BY DEF IInv, OneDoorOneGateway, WellKept, Single
<1>2. QED BY <1>1, Invariance, PTL

-----------------------------------------------------------------------------
(* Action properties that follow from the invariant.                       *)

\* No alarm outranks a leak: raising it always shows it, locked and shut.
LEMMA LeakRaised ==
  ASSUME NEW u, Good(u)
  PROVE  LET v == warning_enable(u, "SlaverSensorLeak")
         IN  /\ v.DeviceStatus = "SlaverSensorLeak"
             /\ v.lock_status = 1
             /\ v.valve_status = VALVE_STATUS_CLOSE
<1> DEFINE event == "SlaverSensorLeak"
           p == warning_priority(event)
           w == [u EXCEPT !.priority = p]
           v == warning_enable(u, event)
<1>1. u \in Unit /\ p \in 0..8 /\ p >= u.priority /\ event \in Device_Status
  BY PriorityRange DEF Good, Unit, Device_Status, Alarm
<1>2. Good(v)
  BY WarningEnableGood, AlarmEvents
<1>3. v = warning_callback(w, event)
  BY <1>1 DEF warning_enable
<1>4. w \in Unit /\ w.DeviceStatus = u.DeviceStatus
  <2> HIDE DEF p
  <2> QED BY <1>1 DEF Unit
<1> HIDE DEF w
<1>5. v.DeviceStatus = event
  <2>1. CASE w.DeviceStatus = event
    BY <1>3, <2>1 DEF warning_callback
  <2>2. CASE w.DeviceStatus # event
    <3>1. v = SetStatus(valve_close(valve_lock(w)), event)
      BY <1>3, <2>2 DEF warning_callback
    <3>2. valve_close(valve_lock(w)) \in Unit
      BY <1>4, LockFacts, ValveCloseFacts
    <3>3. QED BY <1>1, <3>1, <3>2, SetStatusFacts
  <2>3. QED BY <2>1, <2>2
<1>6. QED BY <1>2, <1>5 DEF Good, Held

\* Every leak report leaves the unit in leak alarm, locked and shut, whatever
\* priority an earlier alarm left behind.
THEOREM EveryLeakShuts == Spec => EveryLeakReportShuts
<1> DEFINE A == (\E d \in EndUnit : EndunitLeak(d))
                  => /\ unit'.DeviceStatus = "SlaverSensorLeak"
                     /\ unit'.lock_status = 1
                     /\ unit'.valve_status = VALVE_STATUS_CLOSE
<1>1. IInv => A
  <2> SUFFICES ASSUME IInv, NEW d \in EndUnit, EndunitLeak(d)
               PROVE  /\ unit'.DeviceStatus = "SlaverSensorLeak"
                      /\ unit'.lock_status = 1
                      /\ unit'.valve_status = VALVE_STATUS_CLOSE
    OBVIOUS
  <2> DEFINE v == warning_enable(unit, "SlaverSensorLeak")
  <2>1. /\ v.DeviceStatus = "SlaverSensorLeak" /\ v.lock_status = 1
        /\ v.valve_status = VALVE_STATUS_CLOSE
    BY LeakRaised DEF IInv
  <2>2. unit' = v
    BY <2>1 DEF EndunitLeak, EndunitDone, warning_offline_check
  <2>3. QED BY <2>1, <2>2
<1>2. QED BY <1>1, Invariance, PTL DEF EveryLeakReportShuts

\* A boot that finds a leak in the flash shows it and locks the valve.
LEMMA BootWithLeak ==
  ASSUME NEW lock \in 0..1, NEW l, WellKept(l), Boot(lock, l), aq_device_waterleak_find(list')
  PROVE  unit'.DeviceStatus = "SlaverSensorLeak" /\ unit'.lock_status = 1
<1>1. list'.waterleak = l.waterleak
  BY DEF Boot, aq_device_heart_recv_clear, read_device_from_flash, WellKept, List
<1>2. aq_device_waterleak_find(l)
  BY <1>1 DEF aq_device_waterleak_find
<1>3. unit' = warning_enable(PowerOn(lock), "SlaverSensorLeak")
  BY <1>2 DEF Boot, valve_init
<1>4. QED BY <1>3, PowerOnGood, LeakRaised

\* After any reset, one in the middle of a leak report included, a leak the flash
\* remembers is alarmed again and the valve is locked.
THEOREM LeakSurvives == Spec => LeakSurvivesReset
<1> DEFINE A == ResetStep /\ aq_device_waterleak_find(list')
                  => unit'.DeviceStatus = "SlaverSensorLeak" /\ unit'.lock_status = 1
<1>1. IInv => A
  <2> SUFFICES ASSUME IInv, ResetStep, aq_device_waterleak_find(list')
               PROVE  unit'.DeviceStatus = "SlaverSensorLeak" /\ unit'.lock_status = 1
    OBVIOUS
  <2>1. WellKept(list) /\ unit.lock_status \in 0..1
    BY DEF IInv, Good, Unit
  <2>2. CASE PowerCycle
    BY <2>1, <2>2, BootWithLeak DEF PowerCycle
  <2>3. ASSUME NEW d \in EndUnit, PowerLossInLeak(d)
        PROVE  unit'.DeviceStatus = "SlaverSensorLeak" /\ unit'.lock_status = 1
    <3>1. WellKept(aq_device_waterleak_set(list, d, 1))
      BY <2>1, <2>3, FlagKept DEF PowerLossInLeak, aq_device_find
    <3>2. QED BY <2>1, <2>3, <3>1, BootWithLeak DEF PowerLossInLeak
  <2>4. CASE FactoryReset
    <3>1. WellKept(EmptyList)
      BY DEF EmptyList, WellKept, List, Single
    <3>2. QED BY <2>4, <3>1, BootWithLeak DEF FactoryReset
  <2>5. QED BY <2>2, <2>3, <2>4 DEF ResetStep
<1>2. QED BY <1>1, Invariance, PTL DEF LeakSurvivesReset

=============================================================================
