----------------------------- MODULE WaterWork -----------------------------
(***************************************************************************)
(* The alarm state of the unit, applications/water_work.c: DeviceStatus,   *)
(* the priority of the alarm in force (NowEvent), the device-learning mode *)
(* with its 30 s timer, and the callbacks of valve_work.c that raise or    *)
(* clear an alarm.                                                         *)
(*                                                                         *)
(* The Master* events are bound but never raised by the code and have no   *)
(* counterpart here.  NowEvent.last_id and NowEvent.callback are only      *)
(* logged.  The call of gateway_connect_start when learning ends touches   *)
(* only the state of Heart.                                                *)
(***************************************************************************)
EXTENDS ValveWork

FailAlarm == {"ValveLeftFail", "ValveRightFail"}

Alarm == FailAlarm \cup {"SlaverLowPower", "SlaverUltraLowPower",
                         "SlaverSensorLeak", "SlaverSensorLost", "SlaverOffline"}

Device_Status == Alarm \cup {"ValveClose", "ValveOpen", "LearnDevice"}

\* Seeded fault: the two priorities 6 and 8 exchanged.
Faulty_warning_priority(event) ==
  CASE event = "SlaverSensorLeak"    -> 6
    [] event = "SlaverUltraLowPower" -> 8
    [] event = "SlaverOffline"       -> 5
    [] event \in FailAlarm           -> 4
    [] event = "SlaverLowPower"      -> 3
    [] OTHER                         -> 1

\* The priorities warning_init binds; an event is named by the status it sets.
warning_priority(event) ==
  CASE event = "SlaverSensorLeak"    -> 8
    [] event = "SlaverUltraLowPower" -> 6
    [] event = "SlaverOffline"       -> 5
    [] event \in FailAlarm           -> 4
    [] event = "SlaverLowPower"      -> 3
    [] OTHER                         -> 1

fail_event(s) == IF s = "left" THEN "ValveLeftFail" ELSE "ValveRightFail"

Timer == ValveTimer \cup {"radio_learn"}

\* The globals of valve_work.c and water_work.c.
Unit == [DeviceStatus     : Device_Status,
         priority         : 0..8,
         allow_add_device : 0..1,
         valve_status     : 0..1,
         lock_status      : 0..1,
         valve_valid      : 0..1,
         check_result     : [Side -> 0..1],
         control_pin      : [Side -> PIN_LOW..PIN_HIGH],
         timers           : SUBSET Timer]

\* The globals after a reset, with the lock as the flash holds it.
PowerOn(lock) ==
  [DeviceStatus |-> "ValveClose", priority |-> 0, allow_add_device |-> 0,
   valve_status |-> VALVE_STATUS_CLOSE, lock_status |-> lock, valve_valid |-> 1,
   check_result |-> [s \in Side |-> 0], control_pin |-> [s \in Side |-> PIN_HIGH],
   timers |-> {}]

-----------------------------------------------------------------------------

SetStatus(u, status) == [u EXCEPT !.DeviceStatus = status]

\* Seeded fault: the alarms shut the valve without locking it.
Faulty_warning_callback(u, event) ==
  IF event \in {"SlaverUltraLowPower", "SlaverSensorLeak", "SlaverOffline"}
  THEN SetStatus(valve_close(u), event)
  ELSE SetStatus(u, event)

\* The callback each event is bound to.
warning_callback(u, event) ==
  CASE event = "SlaverUltraLowPower" ->
         SetStatus(valve_close(valve_lock(u)), event)
    [] event = "SlaverSensorLeak" ->
         IF u.DeviceStatus # event
         THEN SetStatus(valve_close(valve_lock(u)), event)
         ELSE u
    [] event = "SlaverOffline" ->
         IF u.DeviceStatus # event THEN SetStatus(valve_close(u), event) ELSE u
    [] OTHER -> SetStatus(u, event)

\* Seeded faults: the priority is not stored; the priority is not compared.
Faulty_warning_enable_unranked(u, event) ==
  IF warning_priority(event) >= u.priority THEN warning_callback(u, event) ELSE u

Faulty_warning_enable_latest(u, event) ==
  warning_callback([u EXCEPT !.priority = warning_priority(event)], event)

warning_enable(u, event) ==
  IF warning_priority(event) >= u.priority
  THEN warning_callback([u EXCEPT !.priority = warning_priority(event)], event)
  ELSE u

\* DeviceStatus = get_valve_status(): the first two statuses are the valve's.
warning_all_clear(u) ==
  [u EXCEPT !.DeviceStatus = IF u.valve_status = VALVE_STATUS_OPEN
                             THEN "ValveOpen" ELSE "ValveClose",
            !.priority = 0]

valvefail_warning_disable(u) ==
  IF u.DeviceStatus \in FailAlarm THEN warning_all_clear(u) ELSE u

\* someOffline: aq_device_endunit_offline_find() found an end unit.
warning_offline_check(u, someOffline) ==
  IF u.DeviceStatus = "SlaverOffline" /\ ~someOffline THEN warning_all_clear(u) ELSE u

-----------------------------------------------------------------------------

\* Seeded fault: the window for broadcast learn frames stays open.
Faulty_learn_end(u) == warning_all_clear(u)

learn_end(u) == warning_all_clear([u EXCEPT !.allow_add_device = 0])

radio_start_learn_device(u) ==
  CASE Commandable(u) ->
         rt_timer_start([u EXCEPT !.DeviceStatus = "LearnDevice", !.allow_add_device = 1],
                        {"radio_learn"})
    [] u.DeviceStatus = "LearnDevice" -> learn_end(rt_timer_stop(u, {"radio_learn"}))
    [] OTHER -> u

radio_refresh_learn_device(u) == rt_timer_start(u, {"radio_learn"})

\* The timer body: every alarm is cleared, whatever raised it.
radio_learn_timer_callback(u) == learn_end(u)

-----------------------------------------------------------------------------
(* The timer callbacks of valve_work.c that raise or clear alarms.         *)

valve_delay_close_timer_callback(u) ==
  IF Commandable(u) THEN valve_close(valve_lock(u)) ELSE u

valve_turn_back_timer_callback(u, s, full) ==
  IF full = 1 THEN turn_back_success(u, s)
              ELSE warning_enable(check_fail(u, s), fail_event(s))

\* Seeded fault: the valve is found sound and its alarm stays.
Faulty_valve_turn_check_timer_callback(u, s, full) ==
  IF full = 0
  THEN [u EXCEPT !.valve_valid = IF u.check_result[Other(s)] = 0 THEN 1 ELSE @,
                 !.check_result[s] = 0]
  ELSE warning_enable(check_fail(u, s), fail_event(s))

valve_turn_check_timer_callback(u, s, full) ==
  IF full = 0
  THEN LET sound == IF u.check_result[Other(s)] = 0
                    THEN valvefail_warning_disable([u EXCEPT !.valve_valid = 1])
                    ELSE u
       IN  [sound EXCEPT !.check_result[s] = 0]
  ELSE warning_enable(check_fail(u, s), fail_event(s))

\* Seeded fault: the boot trusts the lock and does not look for a stored leak.
Faulty_valve_init(lock, leakStored) == PowerOn(lock)

\* valve_init: leakStored is aq_device_waterleak_find() on the list just read.
valve_init(lock, leakStored) ==
  IF leakStored THEN warning_enable(PowerOn(lock), "SlaverSensorLeak") ELSE PowerOn(lock)

=============================================================================
