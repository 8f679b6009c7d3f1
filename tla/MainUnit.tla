------------------------------ MODULE MainUnit -----------------------------
(***************************************************************************)
(* The main unit of the leak alarm: the valve and alarm state (WaterWork), *)
(* the learnt devices (DeviceList) and the dry contacts, driven by         *)
(*   - the frames end units, door units, motion sensors and the gateway    *)
(*     send (radio_protocol/*.c, RF thread),                               *)
(*   - the soft timers of valve_work.c, water_work.c and dry_contact.c,    *)
(*   - the keys and the Modbus coil (key.c, sample_mb_slave.c),            *)
(*   - the hourly RTC alarm (rtc.c), and power loss.                       *)
(* One action is one handler, run to its end.  Time is abstract: a running *)
(* one-shot timer may fire at any moment.  What a handler queues for the   *)
(* radio is not part of this state.                                        *)
(***************************************************************************)
EXTENDS WaterWork, DeviceList

CONSTANTS FirstReadings,   \* what FULLY_OPEN may read when a check begins,
          BackReadings,    \* three seconds into it,
          CheckReadings    \* and at its end

ASSUME ReadingsAssumption ==
  /\ FirstReadings \subseteq 0..1
  /\ BackReadings \subseteq 0..1
  /\ CheckReadings \subseteq 0..1

VARIABLES unit,  \* the globals of valve_work.c and water_work.c
          list,  \* the device list of flashwork.c
          dry    \* dry_contact.c: the input level last seen, the output relays

vars == <<unit, list, dry>>

Dry == [level : -1..1, tech : 0..1, leak : 0..1, valve : 0..1]

dry_contact_init == [level |-> -1, tech |-> 0, leak |-> 0, valve |-> 0]

Init == unit = PowerOn(0) /\ list = EmptyList /\ dry = dry_contact_init

-----------------------------------------------------------------------------
(* Frames.  A frame for another address, of an unknown device or with an   *)
(* unknown command changes nothing.                                        *)

\* The end of radio_frame_endunit_parse, after the handler left u and l.
EndunitDone(u, l, d) ==
  LET heard == aq_device_heart_recv(l, d)
  IN  /\ list' = heard
      /\ unit' = warning_offline_check(u, aq_device_endunit_offline_find(heard))
      /\ UNCHANGED dry

\* battery: 1 low, 2 ultra low, anything else good.
EndunitHeart(d, battery) ==
  /\ aq_device_find(list, d)
  /\ EndunitDone(CASE battery = 1 -> warning_enable(unit, "SlaverLowPower")
                   [] battery = 2 -> warning_enable(unit, "SlaverUltraLowPower")
                   [] OTHER -> unit,
                 list, d)

\* Seeded fault: the lock is released before the status is looked at.
Faulty_EndunitValveOpen(d) ==
  /\ aq_device_find(list, d)
  /\ EndunitDone(IF Commandable(unit) THEN valve_open(valve_unlock(unit)) ELSE valve_unlock(unit),
                 list, d)

EndunitValveOpen(d) ==
  /\ aq_device_find(list, d)
  /\ EndunitDone(IF Commandable(unit) THEN valve_open(valve_unlock(unit)) ELSE unit, list, d)

EndunitValveClose(d) ==
  LET l == aq_device_waterleak_set(list, d, 0)
  IN  /\ aq_device_find(list, d)
      /\ EndunitDone(CASE unit.DeviceStatus = "SlaverSensorLeak" ->
                            IF aq_device_waterleak_find(l) THEN unit ELSE warning_all_clear(unit)
                       [] Commandable(unit) -> valve_close(valve_lock(unit))
                       [] OTHER -> unit,
                     l, d)

EndunitLeak(d) ==
  /\ aq_device_find(list, d)
  /\ EndunitDone(warning_enable(unit, "SlaverSensorLeak"),
                 aq_device_waterleak_set(list, d, 1), d)

\* Seeded fault: the first sensor to dry ends the alarm of all.
Faulty_EndunitLeakOver(d) ==
  /\ aq_device_find(list, d)
  /\ EndunitDone(IF unit.DeviceStatus = "SlaverSensorLeak"
                 THEN valve_close(warning_all_clear(unit)) ELSE unit,
                 aq_device_waterleak_set(list, d, 0), d)

EndunitLeakOver(d) ==
  LET l == aq_device_waterleak_set(list, d, 0)
  IN  /\ aq_device_find(list, d)
      /\ EndunitDone(IF unit.DeviceStatus = "SlaverSensorLeak" /\ ~aq_device_waterleak_find(l)
                     THEN valve_close(warning_all_clear(unit))
                     ELSE unit,
                     l, d)

EndunitLost(d) ==
  /\ aq_device_find(list, d)
  /\ EndunitDone(warning_enable(unit, "SlaverSensorLost"),
                 aq_device_wirelost_set(list, d, 1), d)

EndunitLostOver(d) ==
  LET l == aq_device_wirelost_set(list, d, 0)
  IN  /\ aq_device_find(list, d)
      /\ EndunitDone(IF unit.DeviceStatus = "SlaverSensorLost" /\ ~aq_device_wirelost_find(l)
                     THEN warning_all_clear(unit)
                     ELSE unit,
                     l, d)

\* The addressed learn frame "add device", of a unit that was known or is new;
\* whether learning is allowed is not asked.
EndunitAdd(d) ==
  /\ CanCreate(list, d)
  /\ LET u == radio_refresh_learn_device(unit)
         l == aq_device_create(list, d)
     IN  IF aq_device_find(list, d)
         THEN EndunitDone(u, l, d)
         ELSE unit' = u /\ list' = l /\ UNCHANGED dry

\* The addressed learn frame "start learn", which even an unknown unit may send.
EndunitStartLearn(d) ==
  LET u == radio_start_learn_device(unit)
  IN  IF aq_device_find(list, d)
      THEN EndunitDone(u, list, d)
      ELSE unit' = u /\ UNCHANGED <<list, dry>>

DoorunitHeart(d) ==
  /\ aq_device_find(list, d)
  /\ list' = aq_device_heart_recv(list, d)
  /\ UNCHANGED <<unit, dry>>

\* command: 0 close, 1 open, 2 start the delayed close, 3 stop it.
DoorunitValve(d, command) ==
  /\ aq_device_find(list, d)
  /\ unit' = IF command = 3 THEN valve_delay_control(unit, 0)
             ELSE IF ~Commandable(unit) THEN unit
             ELSE CASE command = 0 -> valve_close(valve_lock(unit))
                    [] command = 1 -> valve_open(valve_unlock(unit))
                    [] command = 2 -> valve_delay_control(unit, 1)
  /\ list' = aq_device_heart_recv(list, d)
  /\ UNCHANGED dry

\* The door unit in the list, if any, makes way for the new one.
DoorunitAdd(d) ==
  LET cleared == aq_doorunit_delete(list)
      l == aq_device_create(cleared, d)
  IN  /\ UNCHANGED dry
      /\ IF CanCreate(cleared, d)
         THEN /\ unit' = radio_refresh_learn_device(unit)
              /\ list' = IF aq_device_find(list, d) THEN aq_device_heart_recv(l, d) ELSE l
         ELSE /\ UNCHANGED unit
              /\ list' = cleared

MotionHeart(d) ==
  /\ aq_device_find(list, d)
  /\ list' = aq_device_heart_recv(list, d)
  /\ UNCHANGED <<unit, dry>>

\* Seeded fault: the motion sensor does not look at the status.
Faulty_MotionControl(d, value) ==
  /\ aq_device_find(list, d)
  /\ unit' = IF value = 1 THEN valve_open(valve_unlock(unit)) ELSE valve_close(unit)
  /\ list' = aq_device_heart_recv(list, d)
  /\ UNCHANGED dry

\* A motion sensor closes without locking, and opens a locked valve.
MotionControl(d, value) ==
  /\ aq_device_find(list, d)
  /\ unit' = IF ~Commandable(unit) THEN unit
             ELSE IF value = 1 THEN valve_open(valve_unlock(unit)) ELSE valve_close(unit)
  /\ list' = aq_device_heart_recv(list, d)
  /\ UNCHANGED dry

MotionAdd(d) ==
  /\ CanCreate(list, d)
  /\ unit' = radio_refresh_learn_device(unit)
  /\ list' = LET l == aq_device_create(list, d)
             IN  IF aq_device_find(list, d) THEN aq_device_heart_recv(l, d) ELSE l
  /\ UNCHANGED dry

GatewayControl(g, value) ==
  /\ aq_device_find(list, g)
  /\ unit' = IF ~Commandable(unit) THEN unit
             ELSE IF value = 1 THEN valve_open(valve_unlock(unit)) ELSE valve_close(unit)
  /\ list' = aq_device_recv_set(list, g)
  /\ UNCHANGED dry

\* Heartbeat answers, acknowledgements, sync requests and firmware packets.
GatewayOther(g) ==
  /\ aq_device_find(list, g)
  /\ list' = aq_device_recv_set(list, g)
  /\ UNCHANGED <<unit, dry>>

\* The device list is corrected; the alarm that device raised stays.
GatewayDelete(g, d) ==
  /\ aq_device_find(list, g)
  /\ list' = aq_device_delete(aq_device_recv_set(list, g), d)
  /\ UNCHANGED <<unit, dry>>

GatewayAdd(g) ==
  LET cleared == aq_gateway_delete(list)
      l == aq_device_create(cleared, g)
  IN  /\ UNCHANGED dry
      /\ IF CanCreate(cleared, g)
         THEN /\ unit' = radio_refresh_learn_device(unit)
              /\ list' = IF aq_device_find(list, g) THEN aq_device_recv_set(l, g) ELSE l
         ELSE /\ UNCHANGED unit
              /\ list' = cleared

-----------------------------------------------------------------------------
(* Timers, keys, dry contact, RTC, power.                                  *)

Fire(t) == t \in unit.timers
Fired(t) == rt_timer_stop(unit, {t})

\* What a call of valve_check_start may leave, as the two pins read.
CheckStarts(u) == {valve_check_start(u, full) : full \in [Side -> FirstReadings]}

DetectOnce ==
  /\ Fire("valve_detect")
  /\ unit' \in CheckStarts(Fired("valve_detect"))
  /\ UNCHANGED <<list, dry>>

DelayClose ==
  /\ Fire("valve_delay_close")
  /\ unit' = valve_delay_close_timer_callback(Fired("valve_delay_close"))
  /\ UNCHANGED <<list, dry>>

TurnBack(s) ==
  /\ Fire(turn_back_timer(s))
  /\ \E full \in BackReadings :
       unit' = valve_turn_back_timer_callback(Fired(turn_back_timer(s)), s, full)
  /\ UNCHANGED <<list, dry>>

TurnCheck(s) ==
  /\ Fire(turn_check_timer(s))
  /\ \E full \in CheckReadings :
       unit' = valve_turn_check_timer_callback(Fired(turn_check_timer(s)), s, full)
  /\ UNCHANGED <<list, dry>>

LearnTimeout ==
  /\ Fire("radio_learn")
  /\ unit' = radio_learn_timer_callback(Fired("radio_learn"))
  /\ UNCHANGED <<list, dry>>

\* The ON key, or Modbus writing 1 to coil 0.
KeyOnClick ==
  /\ unit' = IF \/ unit.DeviceStatus \in {"ValveClose", "SlaverSensorLost"}
                \/ unit.DeviceStatus = "SlaverLowPower" /\ get_valve_status(unit) = 0
             THEN valve_open(unit)
             ELSE unit
  /\ UNCHANGED <<list, dry>>

\* The OFF key, Modbus writing 0 to coil 0, or Modbus writing the status register.
KeyOffClick ==
  /\ unit' = IF \/ unit.DeviceStatus = "ValveOpen"
                \/ unit.DeviceStatus = "SlaverLowPower" /\ get_valve_status(unit) = 1
             THEN valve_close(unit)
             ELSE unit
  /\ UNCHANGED <<list, dry>>

KeyOnLong ==
  /\ unit' \in CheckStarts(unit)
  /\ UNCHANGED <<list, dry>>

KeyOffLong ==
  /\ unit' = radio_start_learn_device(unit)
  /\ UNCHANGED <<list, dry>>

TechAlarm == Alarm \ {"SlaverSensorLeak"}

\* Seeded fault: a leak falls into the technical alarms.
Faulty_dry_contact_outputs(u, level) ==
  [level |-> level, tech |-> IF u.DeviceStatus \in Alarm THEN 1 ELSE 0, leak |-> 0,
   valve |-> get_valve_status(u)]

dry_contact_outputs(u, level) ==
  [level |-> level,
   tech  |-> IF u.DeviceStatus \in TechAlarm THEN 1 ELSE 0,
   leak  |-> IF u.DeviceStatus = "SlaverSensorLeak" THEN 1 ELSE 0,
   valve |-> get_valve_status(u)]

\* Every 200 ms: obey an edge of the input contact, then set the relays.
DryContactPoll ==
  \E level \in 0..1 :
    LET u == IF level # dry.level THEN valve_dry_contact_control(unit, level) ELSE unit
    IN  /\ unit' = u
        /\ dry' = dry_contact_outputs(u, level)
        /\ UNCHANGED list

\* The RTC thread's hour.  Every 120th starts a valve check, every 48th sweeps
\* for silent devices; which of the two fall due is left open.
RtcHour ==
  \E heartDue \in BOOLEAN, checked \in {unit} \cup CheckStarts(unit) :
    LET swept == IF heartDue THEN heart_sweep(list) ELSE list
    IN  /\ unit' = IF heartDue /\ aq_device_endunit_offline_find(swept)
                   THEN warning_enable(checked, "SlaverOffline")
                   ELSE checked
        /\ list' = gateway_heart_check(swept)
        /\ UNCHANGED dry

\* main() after a reset: what the flash holds is read back.
Boot(lock, l) ==
  /\ unit' = valve_init(lock, aq_device_waterleak_find(l))
  /\ list' = aq_device_heart_recv_clear(read_device_from_flash(l))
  /\ dry' = dry_contact_init

PowerCycle == Boot(unit.lock_status, list)

\* Power fails inside the leak handler: the flag is saved, the lock is not yet.
PowerLossInLeak(d) ==
  /\ aq_device_find(list, d)
  /\ Boot(unit.lock_status, aq_device_waterleak_set(list, d, 1))

\* Both keys held: the environment is erased and the unit resets.
FactoryReset == Boot(0, EmptyList)

-----------------------------------------------------------------------------

EndunitFrame(d) ==
  \/ \E battery \in 0..2 : EndunitHeart(d, battery)
  \/ EndunitValveOpen(d)
  \/ EndunitValveClose(d)
  \/ EndunitLeak(d)
  \/ EndunitLeakOver(d)
  \/ EndunitLost(d)
  \/ EndunitLostOver(d)
  \/ EndunitAdd(d)
  \/ EndunitStartLearn(d)

DoorunitFrame(d) ==
  \/ DoorunitHeart(d)
  \/ \E command \in 0..3 : DoorunitValve(d, command)
  \/ DoorunitAdd(d)

MotionFrame(d) ==
  \/ MotionHeart(d)
  \/ \E value \in 0..1 : MotionControl(d, value)
  \/ MotionAdd(d)

GatewayFrame(g) ==
  \/ \E value \in 0..1 : GatewayControl(g, value)
  \/ GatewayOther(g)
  \/ \E d \in Device : GatewayDelete(g, d)
  \/ GatewayAdd(g)

TimerStep ==
  \/ DetectOnce
  \/ DelayClose
  \/ \E s \in Side : TurnBack(s) \/ TurnCheck(s)
  \/ LearnTimeout

KeyStep == KeyOnClick \/ KeyOffClick \/ KeyOnLong \/ KeyOffLong

ResetStep == PowerCycle \/ (\E d \in EndUnit : PowerLossInLeak(d)) \/ FactoryReset

Next ==
  \/ \E d \in EndUnit : EndunitFrame(d)
  \/ \E d \in DoorUnit : DoorunitFrame(d)
  \/ \E d \in Motion : MotionFrame(d)
  \/ \E g \in Gateway : GatewayFrame(g)
  \/ TimerStep
  \/ KeyStep
  \/ DryContactPoll
  \/ RtcHour
  \/ ResetStep

\* The poll timer is periodic and nothing stops it, so polls keep happening.
Spec == Init /\ [][Next]_vars /\ WF_vars(DryContactPoll)

-----------------------------------------------------------------------------
(* What the unit promises.                                                 *)

\* Every variable keeps its type, and only a device in the list has flags.
TypeOK ==
  /\ unit \in Unit
  /\ list \in List
  /\ dry \in Dry
  /\ list.waterleak \cup list.wirelost \cup list.offline \cup list.recv \subseteq list.known

\* While the unit shows a leak or an exhausted sensor battery the valve is shut
\* and locked, and while it shows a silent sensor the valve is shut: whatever
\* keys, dry contact, timers and frames arrive, in any order, after the
\* callbacks of water_work.c that shut it.
AlarmHoldsValveShut ==
  /\ unit.DeviceStatus \in {"SlaverSensorLeak", "SlaverUltraLowPower"} => unit.lock_status = 1
  /\ unit.DeviceStatus \in {"SlaverSensorLeak", "SlaverUltraLowPower", "SlaverOffline"}
       => unit.valve_status = VALVE_STATUS_CLOSE

\* A locked valve is shut, alarm or not: valve_open is the only function that
\* opens it and refuses while locked, and of the handlers that lock none leaves
\* the valve as it was.
LockedMeansShut == unit.lock_status = 1 => unit.valve_status = VALVE_STATUS_CLOSE

\* The alarm shown is the alarm whose priority NowEvent holds, so that
\* warning_enable compares a new event with what is really on display.
AlarmRankRecorded ==
  unit.DeviceStatus \in Alarm => unit.priority = warning_priority(unit.DeviceStatus)

\* A valve-fault alarm is never on display for a valve the self-check has found
\* sound: valve_valid and the alarm are cleared together.
FailAlarmMeansInvalid == unit.DeviceStatus \in FailAlarm => unit.valve_valid = 0

\* The learning window always has an end: while the unit is learning, or would
\* accept a broadcast learn frame, the 30 s timer that ends learning is running.
LearnWindowBounded ==
  /\ unit.DeviceStatus = "LearnDevice" => unit.allow_add_device = 1
  /\ unit.allow_add_device = 1 => "radio_learn" \in unit.timers

\* "just allow one device" (radio_protocol_doorunit.c): one door unit at most,
\* and one gateway, however often they are learnt, deleted and learnt again.
OneDoorOneGateway ==
  \A D \in {DoorUnit, Gateway} :
    \A d, e \in list.known \cap D : d = e

\* A valve the unit holds closed has both halves driven shut: no self-check that
\* was under way when the valve was closed drives a half open again.
ClosedValveDrivenShut ==
  unit.valve_status = VALVE_STATUS_CLOSE => \A s \in Side : unit.control_pin[s] = PIN_HIGH

\* A leak alarm ends only when no device reports water any more; the exceptions
\* are the end of learning, which clears every alarm, and a reset.
LeakEndsOnlyWhenDry ==
  [][unit.DeviceStatus = "SlaverSensorLeak" /\ unit'.DeviceStatus # "SlaverSensorLeak"
       => ~aq_device_waterleak_find(list') \/ LearnTimeout \/ ResetStep]_vars

\* A step never replaces an alarm by one of lower priority.
NoAlarmDowngrade ==
  [][unit.DeviceStatus \in Alarm /\ unit'.DeviceStatus \in Alarm
       => warning_priority(unit'.DeviceStatus) >= warning_priority(unit.DeviceStatus)]_vars

\* No handler opens the valve while learning or under an alarm other than a lost
\* wire or a low battery: each of the seven that can open it guards against it.
NoOpenUnderAlarm ==
  [][unit.valve_status = VALVE_STATUS_CLOSE /\ unit'.valve_status = VALVE_STATUS_OPEN
       => Commandable(unit) \/ unit.DeviceStatus = "SlaverLowPower"]_vars

\* Outside a factory reset the lock is released only together with opening the
\* valve, unless the valve is known to be bad.
UnlockOnlyToOpen ==
  [][unit.lock_status = 1 /\ unit'.lock_status = 0
       => unit'.valve_status = VALVE_STATUS_OPEN \/ unit.valve_valid = 0 \/ FactoryReset]_vars

\* Every leak report leaves the unit in leak alarm with the valve locked and
\* shut, whatever priority an earlier alarm left behind in NowEvent.
EveryLeakReportShuts ==
  [][(\E d \in EndUnit : EndunitLeak(d))
       => /\ unit'.DeviceStatus = "SlaverSensorLeak"
          /\ unit'.lock_status = 1
          /\ unit'.valve_status = VALVE_STATUS_CLOSE]_vars

\* After any reset, one in the middle of a leak report included, a leak the flash
\* remembers is alarmed again and the valve is locked.
LeakSurvivesReset ==
  [][ResetStep /\ aq_device_waterleak_find(list')
       => unit'.DeviceStatus = "SlaverSensorLeak" /\ unit'.lock_status = 1]_vars

\* A leak alarm that lasts reaches the leak relay of the dry contact.
LeakReachesRelay ==
  unit.DeviceStatus = "SlaverSensorLeak"
    ~> (dry.leak = 1 \/ unit.DeviceStatus # "SlaverSensorLeak")

\* What the house sees of the unit: the alarm on display, the valve and its lock.
AlarmShown ==
  CASE unit.DeviceStatus = "SlaverSensorLeak"    -> "leak"
    [] unit.DeviceStatus = "SlaverUltraLowPower" -> "exhausted"
    [] unit.DeviceStatus = "SlaverOffline"       -> "silent"
    [] unit.DeviceStatus \in FailAlarm           -> "fault"
    [] unit.DeviceStatus = "SlaverLowPower"      -> "low"
    [] unit.DeviceStatus = "SlaverSensorLost"    -> "lost"
    [] unit.DeviceStatus = "LearnDevice"         -> "learning"
    [] OTHER                                     -> "none"

House == INSTANCE AlarmValve
  WITH alarm <- AlarmShown,
       valve <- IF unit.valve_status = VALVE_STATUS_OPEN THEN "open" ELSE "shut",
       lock  <- unit.lock_status = 1

\* Whatever frames, keys, timers and resets come, the unit implements AlarmValve:
\* each handler of the code is one of its steps or none.
PromiseKept == House!Spec

\* "Now in Warining Mode" (water_work.c): learning leaves alarms alone.
LearnTimeoutKeepsAlarm ==
  [][LearnTimeout /\ unit.DeviceStatus \in Alarm
       => unit'.DeviceStatus = unit.DeviceStatus]_vars

=============================================================================
