------------------------- MODULE MainUnitRefinement ------------------------
(***************************************************************************)
(* MainUnit implements AlarmValve, for any set of devices and any pin      *)
(* readings, and the action properties of MainUnit that speak of what the  *)
(* house sees.                                                             *)
(*                                                                         *)
(* What the house sees of a unit record is its status, its valve and its   *)
(* lock.  The relations below say how a step may change the three; they    *)
(* are the actions of AlarmValve in terms of the code's variables.  The    *)
(* lemmas classify every function and then every handler, and StepKinds    *)
(* puts them together: with the inductive invariant of MainUnitProofs, a   *)
(* step of the unit is of one of these kinds.  All theorems follow from    *)
(* it.                                                                     *)
(***************************************************************************)
EXTENDS MainUnitProofs

USE DEF VALVE_STATUS_CLOSE, VALVE_STATUS_OPEN, PIN_LOW, PIN_HIGH

Stays(u, v) ==
  /\ v.DeviceStatus = u.DeviceStatus
  /\ v.valve_status = u.valve_status
  /\ v.lock_status = u.lock_status

Raises(u, v) ==
  /\ v.DeviceStatus \in Alarm
  /\ u.DeviceStatus \in Alarm
       => warning_priority(v.DeviceStatus) >= warning_priority(u.DeviceStatus)
  /\ v.valve_status =
       IF v.DeviceStatus \in {"SlaverSensorLeak", "SlaverUltraLowPower", "SlaverOffline"}
       THEN VALVE_STATUS_CLOSE ELSE u.valve_status
  /\ v.lock_status = IF v.DeviceStatus \in {"SlaverSensorLeak", "SlaverUltraLowPower"}
                     THEN 1 ELSE u.lock_status

Clears(u, v) ==
  /\ v.DeviceStatus \in {"ValveOpen", "ValveClose"}
  /\ v.valve_status = u.valve_status
  /\ v.lock_status = u.lock_status

\* The statuses in which some handler opens or closes the valve.
Obeys(u) == Commandable(u) \/ u.DeviceStatus = "SlaverLowPower"

Opens(u, v) ==
  /\ Obeys(u)
  /\ v.DeviceStatus = "ValveOpen"
  /\ v.valve_status = VALVE_STATUS_OPEN
  /\ v.lock_status = 0

Unlocks(u, v) ==
  /\ Commandable(u) /\ u.valve_valid = 0
  /\ v.DeviceStatus = u.DeviceStatus
  /\ v.valve_status = u.valve_status
  /\ v.lock_status = 0

Closes(u, v) ==
  /\ Obeys(u)
  /\ v.DeviceStatus \in {u.DeviceStatus, "ValveClose"}
  /\ v.valve_status = VALVE_STATUS_CLOSE
  /\ v.lock_status \in {u.lock_status, 1}

Learns(u, v) ==
  /\ Commandable(u)
  /\ v.DeviceStatus = "LearnDevice"
  /\ v.valve_status = u.valve_status
  /\ v.lock_status = u.lock_status

\* What a step other than a reset may do, the end of a leak alarm excepted.
Moves(u, v) ==
  \/ Stays(u, v)
  \/ Raises(u, v)
  \/ u.DeviceStatus # "SlaverSensorLeak" /\ Clears(u, v)
  \/ Opens(u, v)
  \/ Unlocks(u, v)
  \/ Closes(u, v)
  \/ Learns(u, v)

\* A reset shuts the valve; it alarms a leak, or shows none with the lock given.
Boots(lock, v) ==
  /\ v.valve_status = VALVE_STATUS_CLOSE
  /\ \/ v.DeviceStatus = "SlaverSensorLeak" /\ v.lock_status = 1
     \/ v.DeviceStatus = "ValveClose" /\ v.lock_status = lock

-----------------------------------------------------------------------------
(* Functions of valve_work.c.                                              *)

\* A change that the house does not see, before any move, is part of the move.
LEMMA StaysThenMoves ==
  ASSUME NEW u, NEW w, NEW v, Stays(u, w), w.valve_valid = u.valve_valid, Moves(w, v)
  PROVE  Moves(u, v)
BY DEF Stays, Moves, Raises, Clears, Opens, Unlocks, Closes, Learns, Obeys, Commandable

\* valve_open leaves the unit alone, or opens a sound and unlocked valve.
LEMMA ValveOpenFacts ==
  ASSUME NEW u \in Unit
  PROVE  \/ (u.lock_status = 1 \/ u.valve_valid = 0) /\ valve_open(u) = u
         \/ /\ u.lock_status = 0 /\ u.valve_valid = 1
            /\ valve_open(u).DeviceStatus = "ValveOpen"
            /\ valve_open(u).valve_status = VALVE_STATUS_OPEN
            /\ valve_open(u).lock_status = 0
<1>1. CASE u.lock_status = 1 \/ u.valve_valid = 0
  BY <1>1 DEF valve_open
<1>2. CASE ~(u.lock_status = 1 \/ u.valve_valid = 0)
  <2> DEFINE pins == [s \in Side |-> PIN_LOW]
             one == 1
             opened == "ValveOpen"
             T == TurnTimer \cup {"valve_delay_close"}
             w == [u EXCEPT !.DeviceStatus = opened, !.valve_status = one, !.control_pin = pins]
             x == rt_timer_stop(w, T)
             y == rt_timer_start(x, {"valve_detect"})
  <2>2. u.lock_status = 0 /\ u.valve_valid = 1 /\ one = 1 /\ opened = "ValveOpen"
    BY <1>2 DEF Unit
  <2> HIDE DEF pins, one, opened
  <2>1. valve_open(u) = y
    BY <1>2 DEF valve_open, valve_turn_control, pins, one, opened
  <2> HIDE DEF T
  <2>3. w.DeviceStatus = opened /\ w.valve_status = one /\ w.lock_status = u.lock_status
    BY DEF Unit
  <2>4. x.DeviceStatus = w.DeviceStatus /\ x.valve_status = w.valve_status /\ x.lock_status = w.lock_status
    BY DEF Unit, rt_timer_stop
  <2>5. y.DeviceStatus = x.DeviceStatus /\ y.valve_status = x.valve_status /\ y.lock_status = x.lock_status
    BY DEF Unit, rt_timer_start, rt_timer_stop
  <2> HIDE DEF w, x, y
  <2>6. QED BY <2>1, <2>2, <2>3, <2>4, <2>5
<1>3. QED BY <1>1, <1>2

\* Unlocking a unit that takes commands and opening its valve either opens it or,
\* when the valve is bad, only unlocks it.
LEMMA UnlockOpenMoves ==
  ASSUME NEW u \in Unit, Commandable(u)
  PROVE  Opens(u, valve_open(valve_unlock(u))) \/ Unlocks(u, valve_open(valve_unlock(u)))
<1> DEFINE w == valve_unlock(u)
           v == valve_open(w)
<1>1. /\ w \in Unit /\ w.lock_status = 0
      /\ w.DeviceStatus = u.DeviceStatus /\ w.valve_status = u.valve_status
      /\ w.valve_valid = u.valve_valid
  BY DEF valve_unlock, Unit
<1> HIDE DEF w
<1>2. \/ (w.lock_status = 1 \/ w.valve_valid = 0) /\ v = w
      \/ /\ v.DeviceStatus = "ValveOpen"
         /\ v.valve_status = VALVE_STATUS_OPEN
         /\ v.lock_status = 0
  BY <1>1, ValveOpenFacts
<1> HIDE DEF v
<1>3. Opens(u, v) \/ Unlocks(u, v)
  BY <1>1, <1>2 DEF Opens, Unlocks, Obeys
<1>4. QED BY <1>3 DEF v, w

\* The same without unlocking first: a locked valve stays as it is.
LEMMA OpenMoves ==
  ASSUME NEW u \in Unit, Obeys(u)
  PROVE  Stays(u, valve_open(u)) \/ Opens(u, valve_open(u))
BY ValveOpenFacts DEF Stays, Opens

\* Closing, with or without locking first.
LEMMA CloseMoves ==
  ASSUME NEW u \in Unit, Obeys(u)
  PROVE  Closes(u, valve_close(u)) /\ Closes(u, valve_close(valve_lock(u)))
<1>1. Closes(u, valve_close(u))
  BY ValveCloseFacts DEF Closes
<1> DEFINE w == valve_lock(u)
<1>2. w \in Unit /\ w.lock_status = 1 /\ w.DeviceStatus = u.DeviceStatus
  BY LockFacts
<1> HIDE DEF w
<1>3. /\ valve_close(w).valve_status = VALVE_STATUS_CLOSE
      /\ valve_close(w).lock_status = w.lock_status
      /\ valve_close(w).DeviceStatus \in {w.DeviceStatus, "ValveClose"}
  BY <1>2, ValveCloseFacts
<1>4. Closes(u, valve_close(w))
  BY <1>2, <1>3 DEF Closes
<1>5. QED BY <1>1, <1>4 DEF w

\* Timers come and go unseen.
LEMMA TimersUnseen ==
  ASSUME NEW u \in Unit, NEW T
  PROVE  /\ Stays(u, rt_timer_start(u, T)) /\ rt_timer_start(u, T).valve_valid = u.valve_valid
         /\ Stays(u, rt_timer_stop(u, T)) /\ rt_timer_stop(u, T).valve_valid = u.valve_valid
BY DEF Stays, rt_timer_start, rt_timer_stop, Unit

\* So do the stages of the self-check that do not fail.
LEMMA CheckStartUnseen ==
  ASSUME NEW u \in Unit, NEW full
  PROVE  Stays(u, valve_check_start(u, full)) /\ valve_check_start(u, full).valve_valid = u.valve_valid
BY DEF Stays, valve_check_start, Unit

LEMMA TurnBackUnseen ==
  ASSUME NEW u \in Unit, NEW s \in Side
  PROVE  Stays(u, turn_back_success(u, s))
BY DEF Stays, turn_back_success, rt_timer_start, Unit

-----------------------------------------------------------------------------
(* Functions of water_work.c.                                              *)

\* Raising an alarm on a unit whose stored priority is that of the alarm shown
\* changes nothing, or shows the new alarm in place of one that ranks no higher.
LEMMA EnableMoves ==
  ASSUME NEW u, Good(u), NEW event \in Alarm
  PROVE  \/ Stays(u, warning_enable(u, event))
         \/ /\ Raises(u, warning_enable(u, event))
            /\ warning_enable(u, event).DeviceStatus = event
<1> DEFINE p == warning_priority(event)
           w == [u EXCEPT !.priority = p]
           v == warning_enable(u, event)
<1>1. CASE ~(p >= u.priority)
  BY <1>1 DEF warning_enable, Stays
<1>2. CASE p >= u.priority
  <2>1. v = warning_callback(w, event)
    BY <1>2 DEF warning_enable
  <2>2. /\ u \in Unit /\ p \in 0..8 /\ event \in Device_Status
        /\ u.DeviceStatus \in Alarm => p >= warning_priority(u.DeviceStatus)
    BY <1>2, PriorityRange DEF Good, Ranked, Device_Status
  <2>3. /\ w \in Unit
        /\ w.DeviceStatus = u.DeviceStatus
        /\ w.valve_status = u.valve_status /\ w.lock_status = u.lock_status
    <3> HIDE DEF p
    <3> QED BY <2>2 DEF Unit
  <2> HIDE DEF w
  <2>4. CASE event = "SlaverUltraLowPower" \/ (event = "SlaverSensorLeak" /\ u.DeviceStatus # event)
    <3> DEFINE c == valve_close(valve_lock(w))
    <3>1. v = SetStatus(c, event)
      BY <2>1, <2>3, <2>4 DEF warning_callback
    <3>2. c \in Unit /\ c.valve_status = VALVE_STATUS_CLOSE /\ c.lock_status = 1
      BY <2>3, LockFacts, ValveCloseFacts
    <3> HIDE DEF c, v
    <3>3. v.DeviceStatus = event /\ v.valve_status = c.valve_status /\ v.lock_status = c.lock_status
      BY <2>2, <3>1, <3>2, SetStatusFacts
    <3>4. Raises(u, v)
      BY <2>2, <2>4, <3>2, <3>3 DEF Raises
    <3>5. QED BY <3>3, <3>4 DEF v
  <2>5. CASE event = "SlaverOffline" /\ u.DeviceStatus # event
    <3> DEFINE c == valve_close(w)
    <3>1. v = SetStatus(c, event)
      BY <2>1, <2>3, <2>5 DEF warning_callback
    <3>2. c \in Unit /\ c.valve_status = VALVE_STATUS_CLOSE /\ c.lock_status = u.lock_status
      BY <2>3, ValveCloseFacts
    <3> HIDE DEF c, v
    <3>3. v.DeviceStatus = event /\ v.valve_status = c.valve_status /\ v.lock_status = c.lock_status
      BY <2>2, <3>1, <3>2, SetStatusFacts
    <3>4. Raises(u, v)
      BY <2>2, <2>5, <3>2, <3>3 DEF Raises
    <3>5. QED BY <3>3, <3>4 DEF v
  <2>6. CASE event \in {"SlaverSensorLeak", "SlaverOffline"} /\ u.DeviceStatus = event
    <3>1. v = w
      BY <2>1, <2>3, <2>6 DEF warning_callback
    <3>2. QED BY <2>3, <3>1 DEF Stays
  <2>7. CASE event \notin {"SlaverUltraLowPower", "SlaverSensorLeak", "SlaverOffline"}
    <3>1. v = SetStatus(w, event)
      BY <2>1, <2>7 DEF warning_callback
    <3> HIDE DEF v
    <3>2. v.DeviceStatus = event /\ v.valve_status = u.valve_status /\ v.lock_status = u.lock_status
      BY <2>2, <2>3, <3>1, SetStatusFacts
    <3>3. Raises(u, v)
      BY <2>2, <2>7, <3>2 DEF Raises
    <3>4. QED BY <3>2, <3>3 DEF v
  <2>8. QED BY <2>4, <2>5, <2>6, <2>7
<1>3. QED BY <1>1, <1>2

\* Clearing the alarms shows the position of the valve and moves nothing.
LEMMA AllClearMoves ==
  ASSUME NEW u \in Unit
  PROVE  /\ warning_all_clear(u) \in Unit
         /\ Clears(u, warning_all_clear(u))
<1> DEFINE status == IF u.valve_status = VALVE_STATUS_OPEN THEN "ValveOpen" ELSE "ValveClose"
           zero == 0
           v == warning_all_clear(u)
<1>1. v = [u EXCEPT !.DeviceStatus = status, !.priority = zero]
  BY DEF warning_all_clear
<1>2. status \in {"ValveOpen", "ValveClose"} /\ status \in Device_Status /\ zero \in 0..8
  BY DEF Device_Status
<1> HIDE DEF status, zero, v
<1>3. v \in Unit
  BY <1>1, <1>2 DEF Unit
<1>4. v.DeviceStatus = status /\ v.valve_status = u.valve_status /\ v.lock_status = u.lock_status
  BY <1>1 DEF Unit
<1>5. QED BY <1>2, <1>3, <1>4 DEF Clears, v

\* Learning ends like an alarm.
LEMMA LearnEndMoves ==
  ASSUME NEW u \in Unit
  PROVE  Clears(u, learn_end(u))
<1> DEFINE zero == 0
           w == [u EXCEPT !.allow_add_device = zero]
           v == warning_all_clear(w)
<1>1. learn_end(u) = v /\ zero \in 0..1
  BY DEF learn_end
<1> HIDE DEF zero
<1>2. w \in Unit /\ w.valve_status = u.valve_status /\ w.lock_status = u.lock_status
  BY <1>1 DEF Unit
<1> HIDE DEF w
<1>3. Clears(w, v)
  BY <1>2, AllClearMoves
<1> HIDE DEF v
<1>4. QED BY <1>1, <1>2, <1>3 DEF Clears

\* The learn request starts learning, ends it, or is dropped under an alarm.
LEMMA StartLearnMoves ==
  ASSUME NEW u \in Unit
  PROVE  /\ Moves(u, radio_start_learn_device(u))
         /\ radio_start_learn_device(u).DeviceStatus = "SlaverOffline"
              => Stays(u, radio_start_learn_device(u))
<1> DEFINE v == radio_start_learn_device(u)
<1>1. CASE Commandable(u)
  <2> DEFINE learn == "LearnDevice"
             one == 1
             w == [u EXCEPT !.DeviceStatus = learn, !.allow_add_device = one]
  <2>1. v = rt_timer_start(w, {"radio_learn"})
    BY <1>1 DEF radio_start_learn_device, Commandable
  <2>2. learn = "LearnDevice" /\ learn \in Device_Status /\ one \in 0..1
    BY DEF Device_Status
  <2> HIDE DEF learn, one
  <2>3. /\ w \in Unit /\ w.DeviceStatus = learn
        /\ w.valve_status = u.valve_status /\ w.lock_status = u.lock_status
    BY <2>2 DEF Unit
  <2> HIDE DEF w
  <2>4. Stays(w, v)
    BY <2>1, <2>3, TimersUnseen
  <2> HIDE DEF v
  <2>5. Learns(u, v) /\ v.DeviceStatus # "SlaverOffline"
    BY <1>1, <2>2, <2>3, <2>4 DEF Stays, Learns
  <2>6. QED BY <2>5 DEF Moves, v
<1>2. CASE ~Commandable(u) /\ u.DeviceStatus = "LearnDevice"
  <2> DEFINE w == rt_timer_stop(u, {"radio_learn"})
  <2>1. v = learn_end(w)
    BY <1>2 DEF radio_start_learn_device
  <2>2. w \in Unit /\ Stays(u, w)
    BY TimersUnseen DEF rt_timer_stop, Unit
  <2> HIDE DEF w
  <2>3. Clears(w, v)
    BY <2>1, <2>2, LearnEndMoves
  <2> HIDE DEF v
  <2>4. Clears(u, v) /\ v.DeviceStatus # "SlaverOffline"
    BY <2>2, <2>3 DEF Stays, Clears
  <2>5. QED BY <1>2, <2>4 DEF Moves, v
<1>3. CASE ~Commandable(u) /\ u.DeviceStatus # "LearnDevice"
  BY <1>3 DEF radio_start_learn_device, Moves, Stays
<1>4. QED BY <1>1, <1>2, <1>3

-----------------------------------------------------------------------------
(* The timer callbacks.                                                    *)

\* A failed stage of the self-check raises its alarm or leaves a graver one.
LEMMA CheckFailMoves ==
  ASSUME NEW u, Good(u), NEW s \in Side
  PROVE  Moves(u, warning_enable(check_fail(u, s), fail_event(s)))
<1> DEFINE zero == 0
           result == [u.check_result EXCEPT ![s] = 1]
           w == check_fail(u, s)
           v == warning_enable(w, fail_event(s))
<1>1. u \in Unit /\ zero \in 0..1 /\ zero = 0 /\ result \in [Side -> 0..1]
  BY DEF Good, Unit
<1>2. w = [u EXCEPT !.valve_valid = zero, !.check_result = result]
  BY <1>1 DEF check_fail, Unit
<1> HIDE DEF zero, result, w
<1>3. w \in Unit
  BY <1>1, <1>2 DEF Unit
<1>4. /\ w.DeviceStatus = u.DeviceStatus /\ w.priority = u.priority
      /\ w.allow_add_device = u.allow_add_device /\ w.timers = u.timers
      /\ w.valve_status = u.valve_status /\ w.lock_status = u.lock_status /\ w.valve_valid = zero
  BY <1>1, <1>2 DEF Unit
<1>5. Good(w)
  BY <1>1, <1>3, <1>4 DEF Good, Held, Ranked, Blamed, Windowed
<1>6. fail_event(s) \in Alarm
  BY DEF fail_event, Alarm, FailAlarm
<1>7. Stays(w, v) \/ Raises(w, v)
  BY <1>5, <1>6, EnableMoves
<1> HIDE DEF v
<1>8. Stays(u, v) \/ Raises(u, v)
  BY <1>4, <1>7 DEF Stays, Raises
<1>9. QED BY <1>8 DEF Moves, v, w

\* Stage 1 of the self-check.
LEMMA TurnBackMoves ==
  ASSUME NEW u, Good(u), NEW s \in Side, NEW full
  PROVE  Moves(u, valve_turn_back_timer_callback(u, s, full))
<1>1. u \in Unit
  BY DEF Good
<1>2. CASE full = 1
  BY <1>1, <1>2, TurnBackUnseen DEF valve_turn_back_timer_callback, Moves
<1>3. CASE full # 1
  BY <1>3, CheckFailMoves DEF valve_turn_back_timer_callback
<1>4. QED BY <1>2, <1>3

\* Stage 2: a sound valve clears a valve-fault alarm, and no other.
LEMMA TurnCheckMoves ==
  ASSUME NEW u, Good(u), NEW s \in Side, NEW full
  PROVE  Moves(u, valve_turn_check_timer_callback(u, s, full))
<1>1. u \in Unit
  BY DEF Good
<1>2. CASE full = 0
  <2> DEFINE one == 1
             w == [u EXCEPT !.valve_valid = one]
             sound == IF u.check_result[Other(s)] = 0 THEN valvefail_warning_disable(w) ELSE u
             v == valve_turn_check_timer_callback(u, s, full)
  <2>1. v = [sound EXCEPT !.check_result[s] = 0] /\ one \in 0..1
    BY <1>2 DEF valve_turn_check_timer_callback
  <2> HIDE DEF one
  <2>2. w \in Unit /\ Stays(u, w)
    BY <1>1, <2>1 DEF Unit, Stays
  <2> HIDE DEF w
  <2>3. /\ sound \in Unit
        /\ Stays(u, sound) \/ (u.DeviceStatus # "SlaverSensorLeak" /\ Clears(u, sound))
    <3>1. CASE u.check_result[Other(s)] = 0 /\ w.DeviceStatus \in FailAlarm
      <4>1. sound = warning_all_clear(w)
        BY <3>1 DEF valvefail_warning_disable
      <4> HIDE DEF sound
      <4>2. sound \in Unit /\ Clears(w, sound)
        BY <2>2, <4>1, AllClearMoves
      <4>3. QED BY <2>2, <3>1, <4>2 DEF Clears, Stays, FailAlarm
    <3>2. CASE u.check_result[Other(s)] = 0 /\ w.DeviceStatus \notin FailAlarm
      <4>1. sound = w
        BY <3>2 DEF valvefail_warning_disable
      <4>2. QED BY <2>2, <4>1
    <3>3. CASE u.check_result[Other(s)] # 0
      BY <1>1, <3>3 DEF Stays
    <3>4. QED BY <3>1, <3>2, <3>3
  <2> HIDE DEF sound, v
  <2>4. Stays(sound, v)
    BY <2>1, <2>3 DEF Unit, Stays
  <2>5. Stays(u, v) \/ (u.DeviceStatus # "SlaverSensorLeak" /\ Clears(u, v))
    BY <2>3, <2>4 DEF Stays, Clears
  <2>6. QED BY <2>5 DEF Moves, v
<1>3. CASE full # 0
  BY <1>3, CheckFailMoves DEF valve_turn_check_timer_callback
<1>4. QED BY <1>2, <1>3

\* The delayed close.
LEMMA DelayCloseMoves ==
  ASSUME NEW u \in Unit
  PROVE  Moves(u, valve_delay_close_timer_callback(u))
<1>1. CASE Commandable(u)
  BY <1>1, CloseMoves DEF valve_delay_close_timer_callback, Moves, Obeys
<1>2. CASE ~Commandable(u)
  BY <1>2 DEF valve_delay_close_timer_callback, Moves, Stays
<1>3. QED BY <1>1, <1>2

\* A boot, with or without a leak in the flash.
LEMMA ValveInitBoots ==
  ASSUME NEW lock \in 0..1, NEW leakStored
  PROVE  Boots(lock, valve_init(lock, leakStored))
<1>1. CASE leakStored
  BY <1>1, PowerOnGood, LeakRaised DEF valve_init, Boots
<1>2. CASE ~leakStored
  BY <1>2 DEF valve_init, PowerOn, Boots
<1>3. QED BY <1>1, <1>2

-----------------------------------------------------------------------------
(* The handlers.                                                           *)

\* The end of a leak alarm: no sensor reports water, or learning has timed out.
LeakEnds ==
  /\ Clears(unit, unit')
  /\ ~aq_device_waterleak_find(list') \/ LearnTimeout

\* A reset keeps the lock that the flash holds, or is the factory reset.
Restarts ==
  /\ ResetStep
  /\ Boots(unit.lock_status, unit') \/ (FactoryReset /\ Boots(0, unit'))

\* The common end of the end-unit handlers: an offline alarm that was on display
\* before the frame may be cleared.
LEMMA EndunitDoneMoves ==
  ASSUME NEW u \in Unit, NEW l, NEW d, EndunitDone(u, l, d), Moves(unit, u),
         u.DeviceStatus = "SlaverOffline" => Stays(unit, u)
  PROVE  Moves(unit, unit')
<1>1. PICK some : unit' = warning_offline_check(u, some)
  BY DEF EndunitDone
<1>2. CASE unit' = u
  BY <1>2
<1>3. CASE unit' # u
  <2>1. u.DeviceStatus = "SlaverOffline" /\ unit' = warning_all_clear(u)
    BY <1>1, <1>3 DEF warning_offline_check
  <2>2. Clears(u, unit')
    BY <2>1, AllClearMoves
  <2>3. unit.DeviceStatus # "SlaverSensorLeak" /\ Clears(unit, unit')
    BY <2>1, <2>2 DEF Stays, Clears
  <2>4. QED BY <2>3 DEF Moves
<1>4. QED BY <1>2, <1>3

\* The same after a handler that has ended a leak alarm.
LEMMA EndunitDoneDry ==
  ASSUME NEW u, NEW l \in List, NEW d, EndunitDone(u, l, d), Clears(unit, u),
         ~aq_device_waterleak_find(l)
  PROVE  LeakEnds
<1>1. unit' = u
  BY DEF EndunitDone, warning_offline_check, Clears
<1>2. list'.waterleak = l.waterleak
  BY DEF EndunitDone, aq_device_heart_recv, List
<1>3. QED BY <1>1, <1>2 DEF LeakEnds, aq_device_waterleak_find

\* Flags are set in a list of the same type.
LEMMA FlagTyped ==
  ASSUME NEW l, WellKept(l), NEW d \in l.known
  PROVE  aq_device_waterleak_set(l, d, 0) \in List
BY FlagKept DEF WellKept

\* The alarms an end unit's frame raises never leave the offline alarm new.
LEMMA EndunitRaises ==
  ASSUME IInv, NEW event \in Alarm, event # "SlaverOffline", NEW l, NEW d,
         EndunitDone(warning_enable(unit, event), l, d), event \notin FailAlarm
  PROVE  Moves(unit, unit')
<1> DEFINE u == warning_enable(unit, event)
<1>1. Good(unit) /\ Good(u)
  BY WarningEnableGood DEF IInv
<1>2. Stays(unit, u) \/ (Raises(unit, u) /\ u.DeviceStatus = event)
  BY <1>1, EnableMoves
<1>3. u \in Unit
  BY <1>1 DEF Good
<1>4. EndunitDone(u, l, d)
  OBVIOUS
<1> HIDE DEF u
<1>5. QED BY <1>2, <1>3, <1>4, EndunitDoneMoves DEF Moves

\* Frames of end units.
LEMMA EndunitMoves ==
  ASSUME IInv, NEW d \in EndUnit, EndunitFrame(d)
  PROVE  Moves(unit, unit') \/ LeakEnds
<1>1. Good(unit) /\ WellKept(list) /\ unit \in Unit /\ list \in List
  BY DEF IInv, Good, WellKept
<1>2. Moves(unit, unit) /\ Stays(unit, unit)
  BY DEF Moves, Stays
<1>3. ASSUME NEW battery \in 0..2, EndunitHeart(d, battery) PROVE Moves(unit, unit')
  <2>1. CASE battery = 1
    <3>1. EndunitDone(warning_enable(unit, "SlaverLowPower"), list, d)
      BY <1>3, <2>1 DEF EndunitHeart
    <3>2. QED BY <3>1, EndunitRaises, AlarmEvents
  <2>2. CASE battery = 2
    <3>1. EndunitDone(warning_enable(unit, "SlaverUltraLowPower"), list, d)
      BY <1>3, <2>2 DEF EndunitHeart
    <3>2. QED BY <3>1, EndunitRaises, AlarmEvents
  <2>3. CASE battery = 0
    <3>1. EndunitDone(unit, list, d)
      BY <1>3, <2>3 DEF EndunitHeart
    <3>2. QED BY <1>1, <1>2, <3>1, EndunitDoneMoves
  <2>4. QED BY <2>1, <2>2, <2>3
<1>4. CASE EndunitValveOpen(d)
  <2> DEFINE v == valve_open(valve_unlock(unit))
  <2>1. CASE Commandable(unit)
    <3>1. EndunitDone(v, list, d)
      BY <1>4, <2>1 DEF EndunitValveOpen
    <3>2. v \in Unit
      BY <1>1, <2>1, ValveCommandGood DEF Good
    <3>3. Opens(unit, v) \/ Unlocks(unit, v)
      BY <1>1, <2>1, UnlockOpenMoves
    <3> HIDE DEF v
    <3>4. Moves(unit, v) /\ v.DeviceStatus # "SlaverOffline"
      BY <2>1, <3>3 DEF Moves, Opens, Unlocks, Commandable
    <3>5. QED BY <3>1, <3>2, <3>4, EndunitDoneMoves
  <2>2. CASE ~Commandable(unit)
    <3>1. EndunitDone(unit, list, d)
      BY <1>4, <2>2 DEF EndunitValveOpen
    <3>2. QED BY <1>1, <1>2, <3>1, EndunitDoneMoves
  <2>3. QED BY <2>1, <2>2
<1>5. CASE EndunitValveClose(d)
  <2> DEFINE l == aq_device_waterleak_set(list, d, 0)
             v == valve_close(valve_lock(unit))
  <2>1. d \in list.known /\ l \in List
    BY <1>1, <1>5, FlagTyped DEF EndunitValveClose, aq_device_find
  <2>2. CASE unit.DeviceStatus = "SlaverSensorLeak" /\ ~aq_device_waterleak_find(l)
    <3>1. EndunitDone(warning_all_clear(unit), l, d)
      BY <1>5, <2>2 DEF EndunitValveClose, Commandable
    <3> HIDE DEF l
    <3>2. QED BY <1>1, <2>1, <2>2, <3>1, AllClearMoves, EndunitDoneDry
  <2>3. CASE Commandable(unit)
    <3>1. EndunitDone(v, l, d)
      BY <1>5, <2>3 DEF EndunitValveClose, Commandable
    <3>2. v \in Unit
      BY <1>1, <2>3, ValveCommandGood DEF Good
    <3>3. Closes(unit, v)
      BY <1>1, <2>3, CloseMoves DEF Obeys
    <3> HIDE DEF v, l
    <3>4. Moves(unit, v) /\ v.DeviceStatus # "SlaverOffline"
      BY <2>3, <3>3 DEF Moves, Closes, Commandable
    <3>5. QED BY <3>1, <3>2, <3>4, EndunitDoneMoves
  <2>4. CASE /\ ~(unit.DeviceStatus = "SlaverSensorLeak" /\ ~aq_device_waterleak_find(l))
             /\ ~Commandable(unit)
    <3>1. EndunitDone(unit, l, d)
      BY <1>5, <2>4 DEF EndunitValveClose
    <3> HIDE DEF l
    <3>2. QED BY <1>1, <1>2, <3>1, EndunitDoneMoves
  <2>5. QED BY <2>2, <2>3, <2>4
<1>6. CASE EndunitLeak(d)
  BY <1>6, EndunitRaises, AlarmEvents DEF EndunitLeak
<1>7. CASE EndunitLeakOver(d)
  <2> DEFINE l == aq_device_waterleak_set(list, d, 0)
             w == warning_all_clear(unit)
             v == valve_close(w)
  <2>1. d \in list.known /\ l \in List
    BY <1>1, <1>7, FlagTyped DEF EndunitLeakOver, aq_device_find
  <2>2. CASE unit.DeviceStatus = "SlaverSensorLeak" /\ ~aq_device_waterleak_find(l)
    <3>1. EndunitDone(v, l, d)
      BY <1>7, <2>2 DEF EndunitLeakOver
    <3>2. w \in Unit /\ Clears(unit, w)
      BY <1>1, AllClearMoves
    <3>3. unit.valve_status = VALVE_STATUS_CLOSE
      BY <1>1, <2>2 DEF Good, Held
    <3> HIDE DEF w, l
    <3>4. /\ v.valve_status = VALVE_STATUS_CLOSE /\ v.lock_status = w.lock_status
          /\ v.DeviceStatus \in {w.DeviceStatus, "ValveClose"}
      BY <3>2, ValveCloseFacts
    <3> HIDE DEF v
    <3>5. Clears(unit, v)
      BY <3>2, <3>3, <3>4 DEF Clears
    <3>6. QED BY <2>1, <2>2, <3>1, <3>5, EndunitDoneDry
  <2>3. CASE ~(unit.DeviceStatus = "SlaverSensorLeak" /\ ~aq_device_waterleak_find(l))
    <3>1. EndunitDone(unit, l, d)
      BY <1>7, <2>3 DEF EndunitLeakOver
    <3> HIDE DEF l
    <3>2. QED BY <1>1, <1>2, <3>1, EndunitDoneMoves
  <2>4. QED BY <2>2, <2>3
<1>8. CASE EndunitLost(d)
  BY <1>8, EndunitRaises, AlarmEvents DEF EndunitLost
<1>9. CASE EndunitLostOver(d)
  <2> DEFINE l == aq_device_wirelost_set(list, d, 0)
             v == warning_all_clear(unit)
  <2>1. CASE unit.DeviceStatus = "SlaverSensorLost" /\ ~aq_device_wirelost_find(l)
    <3>1. EndunitDone(v, l, d)
      BY <1>9, <2>1 DEF EndunitLostOver
    <3>2. v \in Unit /\ Clears(unit, v)
      BY <1>1, AllClearMoves
    <3> HIDE DEF l, v
    <3>3. Moves(unit, v) /\ v.DeviceStatus # "SlaverOffline"
      BY <2>1, <3>2 DEF Moves, Clears
    <3>4. QED BY <3>1, <3>2, <3>3, EndunitDoneMoves
  <2>2. CASE ~(unit.DeviceStatus = "SlaverSensorLost" /\ ~aq_device_wirelost_find(l))
    <3>1. EndunitDone(unit, l, d)
      BY <1>9, <2>2 DEF EndunitLostOver
    <3> HIDE DEF l
    <3>2. QED BY <1>1, <1>2, <3>1, EndunitDoneMoves
  <2>3. QED BY <2>1, <2>2
<1>10. CASE EndunitAdd(d)
  <2> DEFINE u == radio_refresh_learn_device(unit)
             l == aq_device_create(list, d)
  <2>1. u \in Unit /\ Stays(unit, u)
    BY <1>1, RefreshLearnGood, TimersUnseen DEF Good, radio_refresh_learn_device
  <2>2. EndunitDone(u, l, d) \/ unit' = u
    BY <1>10 DEF EndunitAdd
  <2> HIDE DEF u, l
  <2>3. QED BY <2>1, <2>2, EndunitDoneMoves DEF Moves
<1>11. CASE EndunitStartLearn(d)
  <2> DEFINE u == radio_start_learn_device(unit)
  <2>1. u \in Unit
    BY <1>1, StartLearnGood DEF Good
  <2>2. Moves(unit, u) /\ (u.DeviceStatus = "SlaverOffline" => Stays(unit, u))
    BY <1>1, StartLearnMoves
  <2>3. EndunitDone(u, list, d) \/ unit' = u
    BY <1>11 DEF EndunitStartLearn
  <2> HIDE DEF u
  <2>4. QED BY <2>1, <2>2, <2>3, EndunitDoneMoves
<1>12. QED
  BY <1>3, <1>4, <1>5, <1>6, <1>7, <1>8, <1>9, <1>10, <1>11 DEF EndunitFrame

\* The commands of door unit, motion sensor and gateway.
LEMMA CommandMoves ==
  ASSUME NEW u \in Unit, Commandable(u)
  PROVE  /\ Moves(u, valve_open(valve_unlock(u)))
         /\ Moves(u, valve_close(u))
         /\ Moves(u, valve_close(valve_lock(u)))
<1>1. Opens(u, valve_open(valve_unlock(u))) \/ Unlocks(u, valve_open(valve_unlock(u)))
  BY UnlockOpenMoves
<1>2. Closes(u, valve_close(u)) /\ Closes(u, valve_close(valve_lock(u)))
  BY CloseMoves DEF Obeys
<1>3. QED BY <1>1, <1>2 DEF Moves

\* Starting or stopping the delayed close, and restarting the learning timer.
LEMMA TimerControlMoves ==
  ASSUME NEW u \in Unit
  PROVE  /\ Moves(u, u)
         /\ \A value : Moves(u, valve_delay_control(u, value))
         /\ Moves(u, radio_refresh_learn_device(u))
BY TimersUnseen DEF Moves, Stays, valve_delay_control, radio_refresh_learn_device

\* Frames of door units, motion sensors and gateways.
LEMMA DoorunitMoves ==
  ASSUME IInv, NEW d \in DoorUnit, DoorunitFrame(d)
  PROVE  Moves(unit, unit')
<1>1. unit \in Unit
  BY DEF IInv, Good
<1>2. Moves(unit, unit) /\ Moves(unit, radio_refresh_learn_device(unit))
  BY <1>1, TimerControlMoves
<1>3. CASE DoorunitHeart(d)
  BY <1>2, <1>3 DEF DoorunitHeart
<1>4. ASSUME NEW command \in 0..3, DoorunitValve(d, command) PROVE Moves(unit, unit')
  BY <1>1, <1>2, <1>4, CommandMoves, TimerControlMoves DEF DoorunitValve
<1>5. CASE DoorunitAdd(d)
  BY <1>2, <1>5 DEF DoorunitAdd
<1>6. QED BY <1>3, <1>4, <1>5 DEF DoorunitFrame

LEMMA MotionMoves ==
  ASSUME IInv, NEW d \in Motion, MotionFrame(d)
  PROVE  Moves(unit, unit')
<1>1. unit \in Unit
  BY DEF IInv, Good
<1>2. Moves(unit, unit) /\ Moves(unit, radio_refresh_learn_device(unit))
  BY <1>1, TimerControlMoves
<1>3. ASSUME NEW value \in 0..1, MotionControl(d, value) PROVE Moves(unit, unit')
  BY <1>1, <1>2, <1>3, CommandMoves DEF MotionControl
<1>4. QED BY <1>2, <1>3 DEF MotionFrame, MotionHeart, MotionAdd

LEMMA GatewayMoves ==
  ASSUME IInv, NEW g \in Gateway, GatewayFrame(g)
  PROVE  Moves(unit, unit')
<1>1. unit \in Unit
  BY DEF IInv, Good
<1>2. Moves(unit, unit) /\ Moves(unit, radio_refresh_learn_device(unit))
  BY <1>1, TimerControlMoves
<1>3. ASSUME NEW value \in 0..1, GatewayControl(g, value) PROVE Moves(unit, unit')
  BY <1>1, <1>2, <1>3, CommandMoves DEF GatewayControl
<1>4. QED BY <1>2, <1>3 DEF GatewayFrame, GatewayOther, GatewayDelete, GatewayAdd

\* The soft timers.
LEMMA TimerMoves ==
  ASSUME IInv, TimerStep
  PROVE  Moves(unit, unit') \/ LeakEnds
<1>1. Good(unit) /\ unit \in Unit
  BY DEF IInv, Good
<1>2. \A t \in ValveTimer : Good(Fired(t))
  BY <1>1, FiredGood DEF Fired
<1>3. \A t : /\ Fired(t) \in Unit
             /\ Stays(unit, Fired(t)) /\ Fired(t).valve_valid = unit.valve_valid
  BY <1>1, TimersUnseen DEF Fired, rt_timer_stop, Unit
<1>4. \A t, v : Moves(Fired(t), v) => Moves(unit, v)
  BY <1>3, StaysThenMoves
<1>5. CASE DetectOnce
  <2>1. PICK full : unit' = valve_check_start(Fired("valve_detect"), full)
    BY <1>5 DEF DetectOnce, CheckStarts
  <2>2. Moves(Fired("valve_detect"), unit')
    BY <1>3, <2>1, CheckStartUnseen DEF Moves
  <2>3. QED BY <1>4, <2>2
<1>6. CASE DelayClose
  <2>1. Moves(Fired("valve_delay_close"), unit')
    BY <1>3, <1>6, DelayCloseMoves DEF DelayClose
  <2>2. QED BY <1>4, <2>1
<1>7. ASSUME NEW s \in Side, TurnBack(s) PROVE Moves(unit, unit')
  <2> DEFINE w == Fired(turn_back_timer(s))
  <2>1. Good(w)
    BY <1>2, TimerSets
  <2>2. PICK full : unit' = valve_turn_back_timer_callback(w, s, full)
    BY <1>7 DEF TurnBack
  <2>3. Moves(w, unit')
    <3> HIDE DEF w
    <3> QED BY <2>1, <2>2, TurnBackMoves
  <2>4. QED BY <1>4, <2>3
<1>8. ASSUME NEW s \in Side, TurnCheck(s) PROVE Moves(unit, unit')
  <2> DEFINE w == Fired(turn_check_timer(s))
  <2>1. Good(w)
    BY <1>2, TimerSets
  <2>2. PICK full : unit' = valve_turn_check_timer_callback(w, s, full)
    BY <1>8 DEF TurnCheck
  <2>3. Moves(w, unit')
    <3> HIDE DEF w
    <3> QED BY <2>1, <2>2, TurnCheckMoves
  <2>4. QED BY <1>4, <2>3
<1>9. CASE LearnTimeout
  <2>1. Clears(Fired("radio_learn"), unit')
    BY <1>3, <1>9, LearnEndMoves DEF LearnTimeout, radio_learn_timer_callback
  <2>2. Clears(unit, unit')
    BY <1>3, <2>1 DEF Stays, Clears
  <2>3. QED BY <1>9, <2>2 DEF LeakEnds
<1>10. QED BY <1>5, <1>6, <1>7, <1>8, <1>9 DEF TimerStep

\* The keys.
LEMMA KeyMoves ==
  ASSUME IInv, KeyStep
  PROVE  Moves(unit, unit')
<1>1. unit \in Unit /\ Moves(unit, unit)
  BY TimerControlMoves DEF IInv, Good
<1>2. CASE KeyOnClick
  <2>1. unit' = unit \/ (Obeys(unit) /\ unit' = valve_open(unit))
    BY <1>2 DEF KeyOnClick, Obeys, Commandable
  <2>2. QED BY <1>1, <2>1, OpenMoves DEF Moves
<1>3. CASE KeyOffClick
  <2>1. unit' = unit \/ (Obeys(unit) /\ unit' = valve_close(unit))
    BY <1>3 DEF KeyOffClick, Obeys, Commandable
  <2>2. QED BY <1>1, <2>1, CloseMoves DEF Moves
<1>4. CASE KeyOnLong
  <2>1. PICK full : unit' = valve_check_start(unit, full)
    BY <1>4 DEF KeyOnLong, CheckStarts
  <2>2. QED BY <1>1, <2>1, CheckStartUnseen DEF Moves
<1>5. CASE KeyOffLong
  BY <1>1, <1>5, StartLearnMoves DEF KeyOffLong
<1>6. QED BY <1>2, <1>3, <1>4, <1>5 DEF KeyStep

\* The poll of the dry contact.
LEMMA DryContactMoves ==
  ASSUME IInv, DryContactPoll
  PROVE  Moves(unit, unit')
<1>1. unit \in Unit /\ Moves(unit, unit)
  BY TimerControlMoves DEF IInv, Good
<1>2. PICK level \in 0..1 : unit' \in {unit, valve_dry_contact_control(unit, level)}
  BY DEF DryContactPoll
<1>3. \/ unit' = unit
      \/ Obeys(unit) /\ unit' \in {valve_close(unit), valve_open(unit)}
  BY <1>2 DEF valve_dry_contact_control, Obeys
<1>4. QED BY <1>1, <1>3, OpenMoves, CloseMoves DEF Moves

\* The hour of the RTC thread.
LEMMA RtcMoves ==
  ASSUME IInv, RtcHour
  PROVE  Moves(unit, unit')
<1>1. Good(unit) /\ unit \in Unit
  BY DEF IInv, Good
<1>2. PICK checked \in {unit} \cup CheckStarts(unit) :
        unit' \in {checked, warning_enable(checked, "SlaverOffline")}
  BY DEF RtcHour
<1>3. Good(checked)
  BY <1>1, <1>2, CheckStartGood DEF CheckStarts
<1>4. Stays(unit, checked) /\ checked.valve_valid = unit.valve_valid
  BY <1>1, <1>2, CheckStartUnseen DEF CheckStarts, Stays
<1>5. Moves(checked, unit')
  BY <1>2, <1>3, EnableMoves, AlarmEvents DEF Moves, Stays
<1>6. QED BY <1>4, <1>5, StaysThenMoves

\* Resets.
LEMMA ResetRestarts ==
  ASSUME IInv, ResetStep
  PROVE  Restarts
<1>1. unit.lock_status \in 0..1
  BY DEF IInv, Good, Unit
<1>2. \A lock \in 0..1 : \A l : Boot(lock, l) => Boots(lock, unit')
  BY ValveInitBoots DEF Boot
<1>3. QED BY <1>1, <1>2 DEF Restarts, ResetStep, PowerCycle, PowerLossInLeak, FactoryReset

\* Every step of the unit is of one of the kinds above.
LEMMA StepKinds ==
  ASSUME IInv, [Next]_vars
  PROVE  Moves(unit, unit') \/ LeakEnds \/ Restarts
<1>1. CASE Next
  BY <1>1, EndunitMoves, DoorunitMoves, MotionMoves, GatewayMoves, TimerMoves, KeyMoves,
     DryContactMoves, RtcMoves, ResetRestarts DEF Next
<1>2. CASE UNCHANGED vars
  BY <1>2 DEF vars, Moves, Stays
<1>3. QED BY <1>1, <1>2

-----------------------------------------------------------------------------
(* Action properties.                                                      *)

\* A leak alarm ends only when no sensor reports water, when learning times out
\* or in a reset: no other of the handlers that clear alarms clears a leak.
THEOREM LeakEndsDry == Spec => LeakEndsOnlyWhenDry
<1> DEFINE A == unit.DeviceStatus = "SlaverSensorLeak" /\ unit'.DeviceStatus # "SlaverSensorLeak"
                  => ~aq_device_waterleak_find(list') \/ LearnTimeout \/ ResetStep
<1>1. IInv /\ [Next]_vars => A
  <2> SUFFICES ASSUME IInv, [Next]_vars, unit.DeviceStatus = "SlaverSensorLeak",
                      unit'.DeviceStatus # "SlaverSensorLeak"
               PROVE  ~aq_device_waterleak_find(list') \/ LearnTimeout \/ ResetStep
    OBVIOUS
  <2>1. ~Moves(unit, unit')
    BY DEF Moves, Stays, Raises, Opens, Unlocks, Closes, Learns, Obeys, Commandable,
           Alarm, FailAlarm, warning_priority
  <2>2. QED BY <2>1, StepKinds DEF LeakEnds, Restarts
<1>2. QED BY <1>1, Invariance, PTL DEF Spec, LeakEndsOnlyWhenDry

\* A step never replaces an alarm by one of lower priority, whatever order the
\* reports of batteries, wires, leaks, self-checks and the sweep come in.
THEOREM NoDowngrade == Spec => NoAlarmDowngrade
<1> DEFINE A == unit.DeviceStatus \in Alarm /\ unit'.DeviceStatus \in Alarm
                  => warning_priority(unit'.DeviceStatus) >= warning_priority(unit.DeviceStatus)
<1>1. IInv /\ [Next]_vars => A
  <2> SUFFICES ASSUME IInv, [Next]_vars, unit.DeviceStatus \in Alarm, unit'.DeviceStatus \in Alarm
               PROVE  warning_priority(unit'.DeviceStatus) >= warning_priority(unit.DeviceStatus)
    OBVIOUS
  <2>1. /\ unit'.DeviceStatus \notin {"ValveOpen", "ValveClose", "LearnDevice"}
        /\ warning_priority(unit.DeviceStatus) \in 1..8
    BY PriorityRange DEF Alarm, FailAlarm
  <2>2. CASE Moves(unit, unit')
    BY <2>1, <2>2 DEF Moves, Stays, Raises, Clears, Opens, Unlocks, Closes, Learns
  <2>3. CASE Restarts
    BY <2>1, <2>3, PriorityRange DEF Restarts, Boots
  <2>4. QED BY <2>1, <2>2, <2>3, StepKinds DEF LeakEnds, Clears
<1>2. QED BY <1>1, Invariance, PTL DEF Spec, NoAlarmDowngrade

\* No handler opens the valve while learning or under an alarm other than a lost
\* wire or a low battery.
THEOREM NoOpening == Spec => NoOpenUnderAlarm
<1> DEFINE A == unit.valve_status = VALVE_STATUS_CLOSE /\ unit'.valve_status = VALVE_STATUS_OPEN
                  => Commandable(unit) \/ unit.DeviceStatus = "SlaverLowPower"
<1>1. IInv /\ [Next]_vars => A
  <2> SUFFICES ASSUME IInv, [Next]_vars, unit.valve_status = VALVE_STATUS_CLOSE,
                      unit'.valve_status = VALVE_STATUS_OPEN
               PROVE  Obeys(unit)
    BY DEF Obeys
  <2>1. CASE Moves(unit, unit')
    BY <2>1 DEF Moves, Stays, Raises, Clears, Opens, Unlocks, Closes, Learns
  <2>2. QED BY <2>1, StepKinds DEF LeakEnds, Clears, Restarts, Boots
<1>2. QED BY <1>1, Invariance, PTL DEF Spec, NoOpenUnderAlarm

\* Outside a factory reset the lock is released only together with opening the
\* valve, unless the valve is known to be bad.
THEOREM UnlockOpens == Spec => UnlockOnlyToOpen
<1> DEFINE A == unit.lock_status = 1 /\ unit'.lock_status = 0
                  => unit'.valve_status = VALVE_STATUS_OPEN \/ unit.valve_valid = 0 \/ FactoryReset
<1>1. IInv /\ [Next]_vars => A
  <2> SUFFICES ASSUME IInv, [Next]_vars, unit.lock_status = 1, unit'.lock_status = 0
               PROVE  unit'.valve_status = VALVE_STATUS_OPEN \/ unit.valve_valid = 0 \/ FactoryReset
    OBVIOUS
  <2>1. CASE Moves(unit, unit')
    BY <2>1 DEF Moves, Stays, Raises, Clears, Opens, Unlocks, Closes, Learns
  <2>2. CASE Restarts
    BY <2>2 DEF Restarts, Boots
  <2>3. QED BY <2>1, <2>2, StepKinds DEF LeakEnds, Clears
<1>2. QED BY <1>1, Invariance, PTL DEF Spec, UnlockOnlyToOpen

\* A locked valve is shut.  No alarm need be on display, so the invariant of
\* MainUnitProofs does not say it; StepKinds makes it inductive.
THEOREM LockedShut == Spec => []LockedMeansShut
<1>1. Init => LockedMeansShut
  BY DEF Init, PowerOn, LockedMeansShut
<1>2. LockedMeansShut /\ IInv /\ [Next]_vars => LockedMeansShut'
  <2> SUFFICES ASSUME LockedMeansShut, IInv, [Next]_vars PROVE LockedMeansShut'
    OBVIOUS
  <2>1. CASE Moves(unit, unit')
    BY <2>1 DEF LockedMeansShut, Moves, Stays, Raises, Clears, Opens, Unlocks, Closes, Learns
  <2>2. QED BY <2>1, StepKinds DEF LockedMeansShut, LeakEnds, Clears, Restarts, Boots
<1>3. QED BY <1>1, <1>2, Invariance, PTL DEF Spec

-----------------------------------------------------------------------------
(* The refinement.  House is AlarmValve under the mapping of MainUnit.     *)

\* AlarmShown as a function of the record.
Show(u) ==
  CASE u.DeviceStatus = "SlaverSensorLeak"    -> "leak"
    [] u.DeviceStatus = "SlaverUltraLowPower" -> "exhausted"
    [] u.DeviceStatus = "SlaverOffline"       -> "silent"
    [] u.DeviceStatus \in FailAlarm           -> "fault"
    [] u.DeviceStatus = "SlaverLowPower"      -> "low"
    [] u.DeviceStatus = "SlaverSensorLost"    -> "lost"
    [] u.DeviceStatus = "LearnDevice"         -> "learning"
    [] OTHER                                  -> "none"

Position(u) == IF u.valve_status = VALVE_STATUS_OPEN THEN "open" ELSE "shut"

\* Which alarm a status shows.
LEMMA ShowFacts ==
  ASSUME NEW u
  PROVE  /\ Show(u) = "leak" <=> u.DeviceStatus = "SlaverSensorLeak"
         /\ Show(u) = "exhausted" <=> u.DeviceStatus = "SlaverUltraLowPower"
         /\ Show(u) = "silent" <=> u.DeviceStatus = "SlaverOffline"
         /\ u.DeviceStatus \in {"ValveOpen", "ValveClose"} => Show(u) = "none"
         /\ u.DeviceStatus = "LearnDevice" => Show(u) = "learning"
         /\ u.DeviceStatus = "SlaverLowPower" => Show(u) = "low"
         /\ u.DeviceStatus = "SlaverSensorLost" => Show(u) = "lost"
BY DEF Show, FailAlarm

\* The ranks of AlarmValve order the alarms as the priorities of warning_init do.
LEMMA RankFacts ==
  ASSUME NEW u, NEW v, v.DeviceStatus \in Alarm, u.DeviceStatus \in Device_Status,
         u.DeviceStatus \in Alarm
           => warning_priority(v.DeviceStatus) >= warning_priority(u.DeviceStatus)
  PROVE  /\ Show(v) \in DOMAIN House!Rank \ {"none", "learning"}
         /\ House!Rank[Show(v)] >= House!Rank[Show(u)]
BY DEF House!Rank, Show, Alarm, FailAlarm, Device_Status, warning_priority

\* The variables of House, before and after a step.
LEMMA Mapped ==
  /\ AlarmShown = Show(unit) /\ AlarmShown' = Show(unit')
  /\ (IF unit.valve_status = VALVE_STATUS_OPEN THEN "open" ELSE "shut") = Position(unit)
  /\ (IF unit.valve_status = VALVE_STATUS_OPEN THEN "open" ELSE "shut")' = Position(unit')
BY DEF AlarmShown, Show, Position

\* A unit powers on as a house without alarm, the valve shut and unlocked.
LEMMA InitMaps == Init => House!Init
<1> SUFFICES ASSUME Init PROVE House!Init
  OBVIOUS
<1>1. unit.DeviceStatus = "ValveClose" /\ unit.valve_status = 0 /\ unit.lock_status = 0
  BY DEF Init, PowerOn
<1>2. AlarmShown = "none"
  BY <1>1, Mapped, ShowFacts
<1>3. (unit.lock_status = 1) = FALSE
  BY <1>1
<1>4. (IF unit.valve_status = VALVE_STATUS_OPEN THEN "open" ELSE "shut") = "shut"
  BY <1>1
<1>5. QED BY <1>2, <1>3, <1>4, Zenon DEF House!Init

\* A move of the unit is a step of the house, or is not seen.
LEMMA MovesMap ==
  ASSUME IInv, Moves(unit, unit')
  PROVE  [House!Next]_(House!avars)
<1>1. unit \in Unit /\ unit.DeviceStatus \in Device_Status
  BY DEF IInv, Good, Unit
<1>2. CASE Stays(unit, unit')
  <2>1. AlarmShown' = AlarmShown
    BY <1>2 DEF Stays, AlarmShown
  <2>2. QED BY <1>2, <2>1 DEF Stays, House!avars
<1>3. CASE Raises(unit, unit')
  <2> DEFINE a == Show(unit')
  <2>1. a \in DOMAIN House!Rank \ {"none", "learning"} /\ House!Rank[a] >= House!Rank[AlarmShown]
    BY <1>1, <1>3, RankFacts, Mapped DEF Raises
  <2>2. AlarmShown' = a
    BY Mapped
  <2>3. Position(unit') = IF a \in House!Shutting THEN "shut" ELSE Position(unit)
    BY <1>3, ShowFacts DEF Raises, Position, House!Shutting, House!Locking
  <2>4. (unit.lock_status = 1)' = (unit.lock_status = 1 \/ a \in House!Locking)
    <3>1. a \in House!Locking <=> unit'.DeviceStatus \in {"SlaverSensorLeak", "SlaverUltraLowPower"}
      BY ShowFacts DEF House!Locking
    <3>2. (unit.lock_status = 1)' <=> (unit.lock_status = 1 \/ a \in House!Locking)
      BY <1>3, <3>1 DEF Raises
    <3>3. QED BY <3>2, Zenon
  <2> HIDE DEF a
  <2>5. House!Raise(a)
    BY <2>1, <2>2, <2>3, <2>4, Mapped DEF House!Raise
  <2>6. QED BY <2>1, <2>5 DEF House!Next
<1>4. CASE Clears(unit, unit')
  <2>1. AlarmShown' = "none"
    BY <1>4, ShowFacts, Mapped DEF Clears
  <2>2. House!Clear
    BY <1>4, <2>1 DEF Clears, House!Clear
  <2>3. QED BY <2>2 DEF House!Next
<1>5. ASSUME Obeys(unit) PROVE AlarmShown \in House!Obeying
  BY <1>5, ShowFacts, Mapped DEF Obeys, Commandable, House!Obeying
<1>6. ASSUME Commandable(unit) PROVE AlarmShown \in {"none", "lost"}
  BY <1>6, ShowFacts, Mapped DEF Commandable
<1>7. CASE Opens(unit, unit')
  <2>1. AlarmShown' = "none" /\ Position(unit') = "open"
    BY <1>7, ShowFacts, Mapped DEF Opens, Position
  <2>2. (unit.lock_status = 1)' = FALSE
    BY <1>7 DEF Opens
  <2>3. AlarmShown \in House!Obeying
    BY <1>5, <1>7 DEF Opens
  <2>4. House!Open
    BY <2>1, <2>2, <2>3, Mapped, Zenon DEF House!Open
  <2>5. QED BY <2>4 DEF House!Next
<1>8. CASE Unlocks(unit, unit')
  <2>1. AlarmShown' = AlarmShown
    BY <1>8 DEF Unlocks, AlarmShown
  <2>2. (unit.lock_status = 1)' = FALSE
    BY <1>8 DEF Unlocks
  <2>3. Position(unit') = Position(unit)
    BY <1>8 DEF Unlocks, Position
  <2>4. AlarmShown \in {"none", "lost"}
    BY <1>6, <1>8 DEF Unlocks
  <2>5. House!Unlock
    BY <2>1, <2>2, <2>3, <2>4, Mapped, Zenon DEF House!Unlock
  <2>6. QED BY <2>5 DEF House!Next
<1>9. CASE Closes(unit, unit')
  <2>1. AlarmShown' \in {"none", AlarmShown}
    <3>1. CASE unit'.DeviceStatus = unit.DeviceStatus
      BY <3>1 DEF AlarmShown
    <3>2. CASE unit'.DeviceStatus = "ValveClose"
      BY <3>2, ShowFacts, Mapped
    <3>3. QED BY <1>9, <3>1, <3>2 DEF Closes
  <2>2. (unit.lock_status = 1)' \in {unit.lock_status = 1, TRUE}
    <3>1. CASE unit'.lock_status = unit.lock_status
      BY <3>1
    <3>2. CASE unit'.lock_status = 1
      BY <3>2
    <3>3. QED BY <1>9, <3>1, <3>2 DEF Closes
  <2>3. Position(unit') = "shut"
    BY <1>9 DEF Closes, Position
  <2>4. AlarmShown \in House!Obeying
    BY <1>5, <1>9 DEF Closes
  <2>5. House!Close
    BY <2>1, <2>2, <2>3, <2>4, Mapped, Zenon DEF House!Close
  <2>6. QED BY <2>5 DEF House!Next
<1>10. CASE Learns(unit, unit')
  <2>1. AlarmShown' = "learning" /\ AlarmShown \in {"none", "lost"}
    BY <1>6, <1>10, ShowFacts, Mapped DEF Learns
  <2>2. House!Learn
    BY <1>10, <2>1 DEF Learns, House!Learn
  <2>3. QED BY <2>2 DEF House!Next
<1>11. QED BY <1>2, <1>3, <1>4, <1>7, <1>8, <1>9, <1>10 DEF Moves

\* So are the end of a leak alarm and a reset.
LEMMA LeakEndsMaps ==
  ASSUME LeakEnds
  PROVE  House!Next
<1>1. AlarmShown' = "none"
  BY ShowFacts, Mapped DEF LeakEnds, Clears
<1>2. House!Clear
  BY <1>1 DEF LeakEnds, Clears, House!Clear
<1>3. QED BY <1>2 DEF House!Next

LEMMA RestartMaps ==
  ASSUME Restarts
  PROVE  House!Next
<1>1. PICK lock \in {unit.lock_status, 0} : Boots(lock, unit')
  BY DEF Restarts
<1>2. Position(unit') = "shut"
  BY <1>1 DEF Boots, Position
<1>3. CASE unit'.DeviceStatus = "SlaverSensorLeak" /\ unit'.lock_status = 1
  <2>1. AlarmShown' = "leak"
    BY <1>3, ShowFacts, Mapped
  <2>2. (unit.lock_status = 1)' = TRUE
    BY <1>3
  <2>3. QED BY <1>2, <2>1, <2>2, Mapped, Zenon DEF House!Next, House!Reset
<1>4. CASE unit'.DeviceStatus = "ValveClose" /\ unit'.lock_status = lock
  <2>1. AlarmShown' = "none"
    BY <1>4, ShowFacts, Mapped
  <2>2. (unit.lock_status = 1)' \in {unit.lock_status = 1, FALSE}
    <3>1. CASE lock = unit.lock_status
      BY <1>4, <3>1
    <3>2. CASE lock = 0
      <4>1. (unit.lock_status = 1)' = FALSE
        BY <1>4, <3>2
      <4>2. QED BY <4>1, Zenon
    <3>3. QED BY <1>1, <3>1, <3>2
  <2>3. House!Reset
    BY <1>2, <2>1, <2>2, Mapped, Zenon DEF House!Reset
  <2>4. QED BY <2>3 DEF House!Next
<1>5. QED BY <1>1, <1>3, <1>4 DEF Boots

\* The unit implements AlarmValve: whatever devices there are and whatever the
\* pins read, each step of a handler is a step of the house or none.
THEOREM Refinement == Spec => PromiseKept
<1>1. IInv /\ [Next]_vars => [House!Next]_(House!avars)
  BY StepKinds, MovesMap, LeakEndsMaps, RestartMaps
<1>2. QED BY <1>1, InitMaps, Invariance, PTL DEF Spec, PromiseKept, House!Spec

=============================================================================
