----------------------------- MODULE ValveWork -----------------------------
(***************************************************************************)
(* The valve driver, applications/valve_work.c: the two motorised halves   *)
(* of the valve, the lock, and the self-check that swings each half shut   *)
(* and open again under the control of one-shot soft timers.               *)
(*                                                                         *)
(* Every function of the file is an operator from a unit record to a unit  *)
(* record, so that handlers call them in the order the code does.  The     *)
(* record holds the globals of valve_work.c and of water_work.c; see Unit  *)
(* in WaterWork.  Leds, the buzzer, the log and the Modbus mirrors         *)
(* mb_valve_control_state / mb_valve_check_state (written here, never read *)
(* by the control code) are left out.                                      *)
(***************************************************************************)
EXTENDS Integers

VALVE_STATUS_CLOSE == 0
VALVE_STATUS_OPEN  == 1

\* The motor control pin of a half: low drives it open, high drives it shut.
PIN_LOW  == 0
PIN_HIGH == 1

Side == {"left", "right"}

Other(s) == IF s = "left" THEN "right" ELSE "left"

\* The one-shot timers of valve_work.c; a unit holds the set of running ones.
turn_back_timer(s)  == IF s = "left" THEN "left_turn_back" ELSE "right_turn_back"
turn_check_timer(s) == IF s = "left" THEN "left_turn_check" ELSE "right_turn_check"

TurnTimer == {"left_turn_back", "right_turn_back", "left_turn_check", "right_turn_check"}

ValveTimer == TurnTimer \cup {"valve_detect", "valve_delay_close"}

rt_timer_start(u, T) == [u EXCEPT !.timers = @ \cup T]
rt_timer_stop(u, T)  == [u EXCEPT !.timers = @ \ T]

-----------------------------------------------------------------------------

valve_turn_control(u, dir) ==
  IF dir < 0
  THEN [u EXCEPT !.valve_status = VALVE_STATUS_CLOSE,
                 !.control_pin = [s \in Side |-> PIN_HIGH]]
  ELSE [u EXCEPT !.valve_status = VALVE_STATUS_OPEN,
                 !.control_pin = [s \in Side |-> PIN_LOW]]

\* Seeded fault: a locked valve opens.
Faulty_valve_open(u) ==
  IF u.valve_valid = 0
  THEN u
  ELSE rt_timer_start(valve_turn_control([u EXCEPT !.DeviceStatus = "ValveOpen"], 1),
                      {"valve_detect"})

\* Refused, with nothing changed, while locked or while the valve is known bad.
valve_open(u) ==
  IF u.lock_status = 1 \/ u.valve_valid = 0
  THEN u
  ELSE LET opened == valve_turn_control([u EXCEPT !.DeviceStatus = "ValveOpen"], 1)
       IN  rt_timer_start(rt_timer_stop(opened, TurnTimer \cup {"valve_delay_close"}),
                          {"valve_detect"})

\* Seeded fault: closing forgets the self-check timers.
Faulty_valve_close(u) ==
  IF u.valve_valid = 0
  THEN valve_turn_control(u, -1)
  ELSE rt_timer_stop(valve_turn_control([u EXCEPT !.DeviceStatus = "ValveClose"], -1),
                     {"valve_detect", "valve_delay_close"})

\* A bad valve is still driven shut, but the early return leaves DeviceStatus
\* and every running timer alone.
valve_close(u) ==
  IF u.valve_valid = 0
  THEN valve_turn_control(u, -1)
  ELSE rt_timer_stop(valve_turn_control([u EXCEPT !.DeviceStatus = "ValveClose"], -1),
                     ValveTimer)

\* RAM and the flash key "valve_lock" are written together, on a change only,
\* so one field stands for both.
valve_lock(u)   == [u EXCEPT !.lock_status = 1]
valve_unlock(u) == [u EXCEPT !.lock_status = 0]

get_valve_lock(u)   == u.lock_status
get_valve_status(u) == u.valve_status

\* The statuses in which the valve obeys an ordinary open or close command.
Commandable(u) == u.DeviceStatus \in {"ValveClose", "ValveOpen", "SlaverSensorLost"}

valve_delay_control(u, value) ==
  IF value = 1 THEN rt_timer_start(u, {"valve_delay_close"})
               ELSE rt_timer_stop(u, {"valve_delay_close"})

valve_dry_contact_control(u, level) ==
  IF ~Commandable(u) THEN u
  ELSE IF level = 1 THEN valve_close(u) ELSE valve_open(u)

-----------------------------------------------------------------------------
(* The self-check.  full[s] is what the FULLY_OPEN pin of half s reads:    *)
(* 0 when that half stands fully open.                                     *)

\* Stage 0: swing shut each half that stands fully open.
valve_check_start(u, full) ==
  IF u.valve_status = VALVE_STATUS_CLOSE
  THEN u
  ELSE LET tested == {s \in Side : full[s] = 0}
       IN  [u EXCEPT
             !.timers = (@ \ {turn_check_timer(s) : s \in tested})
                        \cup {turn_back_timer(s) : s \in tested},
             !.check_result = [s \in Side |-> IF s \in tested THEN 0 ELSE @[s]],
             !.control_pin = [s \in Side |-> IF s \in tested THEN PIN_HIGH ELSE @[s]]]

\* Stage 1, three seconds later: the half has left its stop, drive it back.
turn_back_success(u, s) ==
  rt_timer_start([u EXCEPT !.control_pin[s] = PIN_LOW], {turn_check_timer(s)})

\* A failed stage: the half is recorded bad, and with it the valve.
check_fail(u, s) == [u EXCEPT !.valve_valid = 0, !.check_result[s] = 1]

=============================================================================
