----------------------------- MODULE Preemption ----------------------------
(***************************************************************************)
(* MainUnit with its handlers cut into steps.  The globals of valve_work.c *)
(* and water_work.c have no lock, and the threads that run the handlers    *)
(* have fixed priorities:                                                  *)
(*   timer thread (4)   callbacks of MainUnit; nothing preempts them here  *)
(*   RF thread (5)      frames of end units                                *)
(*   RTC thread (11)    valve check, sweep for silent devices              *)
(*   button thread (28) keys                                               *)
(* A thread runs while every thread above it is idle or sleeps in a flash  *)
(* write (sfud waits for the chip with rt_thread_delay).                   *)
(*                                                                         *)
(* task[t] is what thread t has still to do: a sequence of statements, at  *)
(* most one access to the shared state each.  Executing a statement either *)
(* changes the unit or, for a call or a test, puts a body in its place.    *)
(* Left out: the Modbus thread (10), whose writes run the key handlers,    *)
(* the delayed close (there is no door unit), and resets.                  *)
(***************************************************************************)
EXTENDS MainUnit, Sequences

CONSTANT MaxHandlers  \* bound on frames, hours, keys and edges of the dry contact

VARIABLES started,   \* how many there have been
          task,      \* per thread, the statements still to be executed
          overtaken  \* history: the calls that a higher thread has cut in two

pvars == <<unit, list, dry, started, task, overtaken>>

Thread == {"rf", "rtc", "key"}

Above(t) == CASE t = "rf" -> {} [] t = "rtc" -> {"rf"} [] t = "key" -> {"rf", "rtc"}

\* The argument is "void" where the statement takes none.
S(op, arg) == [op |-> op, arg |-> arg]

-----------------------------------------------------------------------------
(* Statements that change the unit or the list.                            *)

Exec(u, i) ==
  CASE i.op = "DeviceStatus" -> SetStatus(u, i.arg)
    [] i.op = "DeviceStatus_of_valve" ->
         SetStatus(u, IF u.valve_status = VALVE_STATUS_OPEN THEN "ValveOpen" ELSE "ValveClose")
    [] i.op = "priority" -> [u EXCEPT !.priority = IF i.arg = "none" THEN 0
                                                   ELSE warning_priority(i.arg)]
    [] i.op = "lock_status" -> IF i.arg = "1" THEN valve_lock(u) ELSE valve_unlock(u)
    [] i.op = "valve_status" ->
         [u EXCEPT !.valve_status = IF i.arg = "open" THEN VALVE_STATUS_OPEN
                                                      ELSE VALVE_STATUS_CLOSE]
    [] i.op = "pins" ->
         [u EXCEPT !.control_pin = [s \in Side |-> IF i.arg = "open" THEN PIN_LOW ELSE PIN_HIGH]]
    [] i.op = "swing" -> [rt_timer_stop(u, {turn_back_timer(i.arg), turn_check_timer(i.arg)})
                            EXCEPT !.check_result[i.arg] = 0, !.control_pin[i.arg] = PIN_HIGH]
    [] i.op = "arm" -> rt_timer_start(u, {turn_back_timer(i.arg)})
    [] i.op = "stop_checks" -> rt_timer_stop(u, TurnTimer \cup {"valve_delay_close"})
    [] i.op = "start_detect" -> rt_timer_start(u, {"valve_detect"})
    [] i.op = "stop_all" -> rt_timer_stop(u, ValveTimer)
    [] i.op = "allow_add_device" -> [u EXCEPT !.allow_add_device = IF i.arg = "1" THEN 1 ELSE 0]
    [] i.op = "start_learn_timer" -> rt_timer_start(u, {"radio_learn"})
    [] i.op = "stop_learn_timer" -> rt_timer_stop(u, {"radio_learn"})
    [] OTHER -> u

\* One end unit is enough here: a list statement is about all of them.
ExecList(l, i) ==
  CASE i.op = "waterleak" -> [l EXCEPT !.waterleak = IF i.arg = "1" THEN EndUnit ELSE {}]
    [] i.op = "heard" -> [l EXCEPT !.recv = EndUnit, !.offline = {}]
    [] i.op = "sweep" -> heart_sweep(l)
    [] OTHER -> l

-----------------------------------------------------------------------------
(* Calls and tests: the bodies that may take their place.                  *)

If(test, body) == IF test THEN body ELSE <<>>

\* Seeded fault: the lock is not tested.
Faulty_valve_open_body(u) ==
  If(u.valve_valid = 1,
     <<S("DeviceStatus", "ValveOpen"), S("valve_status", "open"), S("pins", "open"),
       S("stop_checks", "void"), S("start_detect", "void")>>)

valve_open_body(u) ==
  If(u.lock_status = 0 /\ u.valve_valid = 1,
     <<S("DeviceStatus", "ValveOpen"), S("valve_status", "open"), S("pins", "open"),
       S("stop_checks", "void"), S("start_detect", "void")>>)

\* Seeded fault: the self-check timers are stopped before the halves are driven.
Faulty_valve_close_body(u) ==
  <<S("stop_all", "void"), S("DeviceStatus", "ValveClose"), S("valve_status", "shut"),
    S("pins", "shut")>>

valve_close_body(u) ==
  LET shut == <<S("valve_status", "shut"), S("pins", "shut")>>
  IN  IF u.valve_valid = 0 THEN shut
      ELSE <<S("DeviceStatus", "ValveClose")>> \o shut \o <<S("stop_all", "void")>>

\* Stage 0 of one half, as its pin reads.
check_half_bodies(s) ==
  {If(full = 0, <<S("swing", s), S("arm", s)>>) : full \in FirstReadings}

\* Seeded fault: the alarm shuts the valve before it locks it.
Faulty_callback_body(u, event) ==
  <<S("valve_close", "void"), S("valve_lock", "void"), S("DeviceStatus", event)>>

callback_body(u, event) ==
  CASE event = "SlaverUltraLowPower" ->
         <<S("valve_lock", "void"), S("valve_close", "void"), S("DeviceStatus", event)>>
    [] event = "SlaverSensorLeak" ->
         If(u.DeviceStatus # event,
            <<S("valve_lock", "void"), S("valve_close", "void"), S("DeviceStatus", event)>>)
    [] event = "SlaverOffline" ->
         If(u.DeviceStatus # event, <<S("valve_close", "void"), S("DeviceStatus", event)>>)
    [] OTHER -> <<S("DeviceStatus", event)>>

\* Seeded fault: the priority is stored after the callback has run.
Faulty_warning_enable_body(u, event) ==
  If(warning_priority(event) >= u.priority, <<S("callback", event), S("priority", event)>>)

\* The callback is called through NowEvent.callback, just stored; the build (-O2)
\* keeps the value in a register, so the event's own callback runs.
warning_enable_body(u, event) ==
  If(warning_priority(event) >= u.priority, <<S("priority", event), S("callback", event)>>)

all_clear_body == <<S("DeviceStatus_of_valve", "void"), S("priority", "none")>>

\* Seeded fault: the timer is started before the window is opened.
Faulty_learn_body(u) ==
  CASE Commandable(u) -> <<S("DeviceStatus", "LearnDevice"), S("start_learn_timer", "void"),
                           S("allow_add_device", "1")>>
    [] u.DeviceStatus = "LearnDevice" ->
         <<S("stop_learn_timer", "void"), S("allow_add_device", "0")>> \o all_clear_body
    [] OTHER -> <<>>

learn_body(u) ==
  CASE Commandable(u) -> <<S("DeviceStatus", "LearnDevice"), S("allow_add_device", "1"),
                           S("start_learn_timer", "void")>>
    [] u.DeviceStatus = "LearnDevice" ->
         <<S("stop_learn_timer", "void"), S("allow_add_device", "0")>> \o all_clear_body
    [] OTHER -> <<>>

\* Seeded fault: the lock is released whatever the status.
Faulty_parse_valve_open_body(u) == <<S("valve_unlock", "void"), S("valve_open", "void")>>

parse_valve_open_body(u) ==
  If(Commandable(u), <<S("valve_unlock", "void"), S("valve_open", "void")>>)

\* The end of radio_frame_endunit_parse.
parse_end == <<S("heard", "void"), S("save", "void"), S("warning_offline_check", "void")>>

Bodies(u, l, i) ==
  CASE i.op = "valve_open" -> {valve_open_body(u)}
    [] i.op = "valve_close" -> {valve_close_body(u)}
    [] i.op = "valve_lock" ->
         {If(u.lock_status = 0, <<S("lock_status", "1"), S("flash", "void")>>)}
    [] i.op = "valve_unlock" ->
         {If(u.lock_status = 1, <<S("lock_status", "0"), S("flash", "void")>>)}
    [] i.op = "valve_check_start" ->
         {If(u.valve_status = VALVE_STATUS_OPEN,
             <<S("check_half", "left"), S("check_half", "right")>>)}
    [] i.op = "check_half" -> check_half_bodies(i.arg)
    [] i.op = "warning_enable" -> {warning_enable_body(u, i.arg)}
    [] i.op = "callback" -> {callback_body(u, i.arg)}
    [] i.op = "warning_offline_check" ->
         {If(u.DeviceStatus = "SlaverOffline" /\ ~aq_device_endunit_offline_find(l),
             all_clear_body)}
    [] i.op = "radio_start_learn_device" -> {learn_body(u)}
    [] i.op = "waterleak_set" ->
         {If((i.arg = "1") # aq_device_waterleak_find(l),
             <<S("waterleak", i.arg), S("flash", "void")>>)}
    \* a stored level or flag that may have changed
    [] i.op = "save" -> {<<>>, <<S("flash", "void")>>}
    \* the tests of the frame handlers
    [] i.op = "parse_valve_open" -> {parse_valve_open_body(u)}
    [] i.op = "parse_valve_close" ->
         {CASE u.DeviceStatus = "SlaverSensorLeak" ->
                 If(~aq_device_waterleak_find(l), all_clear_body)
            [] Commandable(u) -> <<S("valve_lock", "void"), S("valve_close", "void")>>
            [] OTHER -> <<>>}
    [] i.op = "parse_warn_over" ->
         {If(u.DeviceStatus = "SlaverSensorLeak" /\ ~aq_device_waterleak_find(l),
             all_clear_body \o <<S("valve_close", "void")>>)}
    \* of the keys and of the sweep
    [] i.op = "key_on_click" ->
         {If(\/ u.DeviceStatus \in {"ValveClose", "SlaverSensorLost"}
             \/ u.DeviceStatus = "SlaverLowPower" /\ get_valve_status(u) = 0,
             <<S("valve_open", "void")>>)}
    [] i.op = "key_off_click" ->
         {If(\/ u.DeviceStatus = "ValveOpen"
             \/ u.DeviceStatus = "SlaverLowPower" /\ get_valve_status(u) = 1,
             <<S("valve_close", "void")>>)}
    [] i.op = "sweep_end" ->
         {If(aq_device_endunit_offline_find(l), <<S("warning_enable", "SlaverOffline")>>)}
    [] OTHER -> {<<>>}

\* What may start a thread: a frame, an hour, a key.
Programs(t) ==
  CASE t = "rf" ->
         {<<S("waterleak_set", "1"), S("warning_enable", "SlaverSensorLeak")>> \o parse_end,
          <<S("waterleak_set", "0"), S("parse_warn_over", "void")>> \o parse_end,
          <<S("waterleak_set", "0"), S("parse_valve_close", "void")>> \o parse_end,
          <<S("parse_valve_open", "void")>> \o parse_end,
          <<S("save", "void"), S("warning_enable", "SlaverUltraLowPower")>> \o parse_end,
          <<S("radio_start_learn_device", "void")>> \o parse_end}
    [] t = "rtc" ->
         {<<S("valve_check_start", "void")>>,
          <<S("sweep", "void"), S("save", "void"), S("sweep_end", "void")>>}
    [] t = "key" ->
         {<<S("key_on_click", "void")>>, <<S("key_off_click", "void")>>,
          <<S("valve_check_start", "void")>>, <<S("radio_start_learn_device", "void")>>}

-----------------------------------------------------------------------------

Idle(t) == task[t] = <<>>

Asleep(t) == ~Idle(t) /\ Head(task[t]).op = "flash"

MayRun(t) == \A h \in Above(t) : Idle(h) \/ Asleep(h)

\* The call whose last statement i is, for the calls that must not be cut in two.
EndOf(i) ==
  CASE i.op = "start_detect" -> {"valve_open"}
    [] i.op = "stop_all" -> {"valve_close"}
    [] i.op \in {"check_half", "arm"} -> {"valve_check_start"}
    [] i.op = "start_learn_timer" -> {"radio_start_learn_device"}
    [] i.op = "callback" \/ (i.op = "DeviceStatus" /\ i.arg \in Alarm) -> {"warning_enable"}
    [] i = S("priority", "none") -> {"warning_all_clear"}
    [] OTHER -> {}

Inside(t) == UNION {EndOf(task[t][n]) : n \in 1..Len(task[t])}

\* A step of thread h that changes the unit overtakes the calls others are inside.
Overtakes(h) ==
  overtaken' = IF unit' = unit THEN overtaken
               ELSE overtaken \cup UNION {Inside(t) : t \in Thread \ {h}}

Stimulus == started < MaxHandlers /\ started' = started + 1

Start(t) ==
  /\ MayRun(t) /\ Idle(t)
  /\ Stimulus
  /\ \E p \in Programs(t) : task' = [task EXCEPT ![t] = p]
  /\ UNCHANGED <<unit, list, dry, overtaken>>

Step(t) ==
  /\ MayRun(t) /\ ~Idle(t)
  /\ LET i == Head(task[t])
     IN  /\ \E body \in Bodies(unit, list, i) : task' = [task EXCEPT ![t] = body \o Tail(@)]
         /\ unit' = Exec(unit, i)
         /\ list' = ExecList(list, i)
  /\ Overtakes(t)
  /\ UNCHANGED <<dry, started>>

\* The input edge of the poll; the relays it sets are left to MainUnit.
DryContactEdge ==
  \E level \in 0..1 :
    /\ level # dry.level
    /\ Stimulus
    /\ unit' = valve_dry_contact_control(unit, level)
    /\ dry' = [dry EXCEPT !.level = level]
    /\ UNCHANGED list

TimerThread ==
  /\ (TimerStep /\ UNCHANGED started) \/ DryContactEdge
  /\ Overtakes("timer")
  /\ UNCHANGED task

\* The unit has booted with its end units learnt before.
PInit ==
  /\ unit \in {PowerOn(0), valve_open(PowerOn(0))}
  /\ list = [EmptyList EXCEPT !.known = EndUnit]
  /\ dry = [dry_contact_init EXCEPT !.level = 1]
  /\ started = 0
  /\ task = [t \in Thread |-> <<>>]
  /\ overtaken = {}

PNext == TimerThread \/ \E t \in Thread : Start(t) \/ Step(t)

PSpec == PInit /\ [][PNext]_pvars

-----------------------------------------------------------------------------
(* What survives preemption, and where it does not, which call must have   *)
(* been cut in two.  A unit is at rest when no handler is under way.       *)

AtRest == \A t \in Thread : Idle(t)

Uncut(calls) == AtRest /\ overtaken \cap calls = {}

\* However the RF and button threads, which both start and end learning, and the
\* learning timer cut into each other: at rest the window has its timer running.
WindowBoundedAtRest == AtRest => LearnWindowBounded

\* A locked valve stands open only if a leak, a close frame or the like came
\* between the test of the lock in valve_open and its end.
LockedOpenOnlyOvertaken ==
  Uncut({"valve_open"}) /\ unit.lock_status = 1 => unit.valve_status = VALVE_STATUS_CLOSE

\* The alarms of AlarmHoldsValveShut at rest: a leak or an exhausted battery is
\* always locked, and shut unless a valve_open was cut; a silent sensor has the
\* valve shut unless its own alarm was cut too, between valve_close and the status.
AlarmHoldsAtRest ==
  /\ AtRest /\ unit.DeviceStatus \in {"SlaverSensorLeak", "SlaverUltraLowPower"}
       => /\ unit.lock_status = 1
          /\ "valve_open" \in overtaken \/ unit.valve_status = VALVE_STATUS_CLOSE
  /\ Uncut({"valve_open", "warning_enable"}) /\ unit.DeviceStatus = "SlaverOffline"
       => unit.valve_status = VALVE_STATUS_CLOSE

\* With sound motors, a closed valve is driven shut unless one of the calls that
\* write the pins and the self-check timers was cut.
DrivenShutAtRest ==
  Uncut({"valve_open", "valve_close", "valve_check_start"}) => ClosedValveDrivenShut

\* The stored priority is that of the alarm shown unless raising or clearing an
\* alarm was cut; a cut learn, open or close does not disturb it.
RankAtRest == Uncut({"warning_enable", "warning_all_clear"}) => AlarmRankRecorded

\* Even cut at any point, and with lower threads running while it waits for the
\* flash, no handler releases the lock under a leak or exhausted-battery alarm.
NoUnlockUnderAlarm ==
  [][unit.lock_status = 1 /\ unit'.lock_status = 0
       => unit.DeviceStatus \notin {"SlaverSensorLeak", "SlaverUltraLowPower"}]_pvars

=============================================================================
