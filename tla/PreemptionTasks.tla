-------------------------- MODULE PreemptionTasks --------------------------
(***************************************************************************)
(* Proofs about the sequences of statements of Preemption: what a thread   *)
(* has still to do.  Structure says which statement must follow which,     *)
(* what may stand before one, and what is left to the RF thread; every     *)
(* program has it, and it is kept when the first statement is executed or  *)
(* replaced by its body.  PreemptionProofs relates the sequences to the    *)
(* unit.                                                                   *)
(***************************************************************************)
EXTENDS Preemption, SequenceTheorems, TLAPS

USE DEF VALVE_STATUS_CLOSE, VALVE_STATUS_OPEN, PIN_LOW, PIN_HIGH

-----------------------------------------------------------------------------
(* Statements.                                                             *)

\* The events whose callbacks run under the model's programs.
Event == {"SlaverUltraLowPower", "SlaverSensorLeak", "SlaverOffline"}

\* The alarms that lock the valve.
LockAlarm == {"SlaverUltraLowPower", "SlaverSensorLeak"}

Call == {"valve_open", "valve_close", "valve_lock", "valve_unlock", "valve_check_start",
         "check_half", "warning_enable", "callback", "warning_offline_check",
         "radio_start_learn_device", "waterleak_set", "save", "parse_valve_open",
         "parse_valve_close", "parse_warn_over", "key_on_click", "key_off_click", "sweep_end"}

Primitive == {"DeviceStatus", "DeviceStatus_of_valve", "priority", "lock_status",
              "valve_status", "pins", "swing", "arm", "stop_checks", "start_detect", "stop_all",
              "allow_add_device", "start_learn_timer", "stop_learn_timer", "waterleak", "heard",
              "sweep", "flash"}

Argument == Device_Status \cup Side \cup {"void", "0", "1", "open", "shut", "none"}

\* The statements a thread may hold, with the arguments each may have.
Statement ==
  {i \in [op : Call \cup Primitive, arg : Argument] :
     /\ i.op = "DeviceStatus" => i.arg \in Event \cup {"ValveOpen", "ValveClose", "LearnDevice"}
     /\ i.op = "priority" => i.arg \in Event \cup {"none"}
     /\ i.op \in {"warning_enable", "callback"} => i.arg \in Event
     /\ i.op \in {"swing", "arm", "check_half"} => i.arg \in Side
     /\ i.op \in {"lock_status", "allow_add_device", "waterleak_set", "waterleak"}
          => i.arg \in {"0", "1"}
     /\ i.op \in {"valve_status", "pins"} => i.arg \in {"open", "shut"}}

Is(i, op, arg) == i.op = op /\ i.arg = arg

\* An alarm is about to be shown.
ShowsAlarm(i) == i.op = "callback" \/ (i.op = "DeviceStatus" /\ i.arg \in Event)

\* The lock is about to be released.
Unlocking(i) == i.op = "valve_unlock" \/ Is(i, "lock_status", "0")

\* What stands between the call of a callback and the status it shows.
Quiet(i) ==
  \/ i.op \in {"valve_lock", "valve_close", "flash", "stop_all"}
  \/ Is(i, "lock_status", "1") \/ Is(i, "DeviceStatus", "ValveClose")
  \/ Is(i, "valve_status", "shut") \/ Is(i, "pins", "shut")

\* The stages of a self-check.
CheckSteps == {"check_half", "swing", "arm"}

\* The statement after the n-th has this op and this arg.
Next1(s, n, op, arg) == n + 1 \in 1..Len(s) /\ Is(s[n+1], op, arg)

\* Which statement must directly follow the n-th.
LinkedAt(s, n) ==
  /\ s[n].op = "stop_learn_timer" => Next1(s, n, "allow_add_device", "0")
  /\ Is(s[n], "allow_add_device", "0") => Next1(s, n, "DeviceStatus_of_valve", "void")
  /\ s[n].op = "DeviceStatus_of_valve" => Next1(s, n, "priority", "none")
  /\ Is(s[n], "DeviceStatus", "LearnDevice") => Next1(s, n, "allow_add_device", "1")
  /\ Is(s[n], "allow_add_device", "1") => Next1(s, n, "start_learn_timer", "void")
  /\ s[n].op = "valve_lock" => Next1(s, n, "valve_close", "void")
  /\ Is(s[n], "lock_status", "1") =>
       Next1(s, n, "flash", "void") /\ Next1(s, n+1, "valve_close", "void")
  /\ Is(s[n], "DeviceStatus", "ValveOpen") => Next1(s, n, "valve_status", "open")
  /\ Is(s[n], "valve_status", "open") => Next1(s, n, "pins", "open")
  /\ Is(s[n], "pins", "open") => Next1(s, n, "stop_checks", "void")
  /\ s[n].op = "stop_checks" => Next1(s, n, "start_detect", "void")
  /\ Is(s[n], "valve_status", "shut") => Next1(s, n, "pins", "shut")
  /\ s[n].op = "swing" => Next1(s, n, "arm", s[n].arg)
  /\ s[n].op = "priority" /\ s[n].arg # "none" => n = 1 /\ Next1(s, 1, "callback", s[n].arg)

\* What may stand before the m-th.
PrecededAt(s, m) ==
  /\ ShowsAlarm(s[m]) =>
       \A n \in 1..m-1 : Quiet(s[n]) \/ (n = 1 /\ m = 2 /\ Is(s[1], "priority", s[2].arg))
  /\ s[m].op = "callback" => m = 1 \/ (m = 2 /\ Is(s[1], "priority", s[2].arg))
  /\ Is(s[m], "priority", "none") => m = 1 \/ s[m-1].op = "DeviceStatus_of_valve"
  /\ Unlocking(s[m]) => m = 1
  /\ Is(s[m], "valve_status", "open") => m = 1 \/ (m = 2 /\ Is(s[1], "DeviceStatus", "ValveOpen"))
  /\ Is(s[m], "pins", "open") => m = 1 \/ Is(s[m-1], "valve_status", "open")
  /\ s[m].op \in CheckSteps => \A n \in 1..m-1 : s[n].op \in CheckSteps

\* What only the RF thread does: unlock, and raise the alarms that lock.
Reserved(i) ==
  \/ Unlocking(i)
  \/ i.op = "parse_valve_open"
  \/ i.op \in {"warning_enable", "callback", "priority", "DeviceStatus"} /\ i.arg \in LockAlarm

Structure(t, s) ==
  /\ s \in Seq(Statement)
  /\ \A n \in 1..Len(s) : LinkedAt(s, n)
  /\ \A n \in 1..Len(s) : PrecededAt(s, n)
  /\ \A n \in 1..Len(s) : Reserved(s[n]) => t = "rf"

\* What may take the place of the first statement i of a sequence, and when.
Expands(u, i, b) ==
  \/ /\ b = <<>>
     /\ i.op # "valve_close"
     /\ i.op = "valve_lock" => u.lock_status # 0
     /\ i.op = "callback" => u.DeviceStatus = i.arg
  \/ /\ i.op = "valve_open" /\ u.lock_status = 0 /\ u.valve_valid = 1
     /\ b = <<S("DeviceStatus", "ValveOpen"), S("valve_status", "open"), S("pins", "open"),
              S("stop_checks", "void"), S("start_detect", "void")>>
  \/ /\ i.op = "valve_close" /\ u.valve_valid = 0
     /\ b = <<S("valve_status", "shut"), S("pins", "shut")>>
  \/ /\ i.op = "valve_close" /\ u.valve_valid # 0
     /\ b = <<S("DeviceStatus", "ValveClose"), S("valve_status", "shut"), S("pins", "shut"),
              S("stop_all", "void")>>
  \/ i.op = "valve_lock" /\ b = <<S("lock_status", "1"), S("flash", "void")>>
  \/ i.op = "valve_unlock" /\ b = <<S("lock_status", "0"), S("flash", "void")>>
  \/ /\ i.op = "valve_check_start" /\ u.valve_status = VALVE_STATUS_OPEN
     /\ b = <<S("check_half", "left"), S("check_half", "right")>>
  \/ i.op = "check_half" /\ b = <<S("swing", i.arg), S("arm", i.arg)>>
  \/ i.op = "warning_enable" /\ b = <<S("priority", i.arg), S("callback", i.arg)>>
  \/ /\ i.op = "callback" /\ i.arg \in LockAlarm
     /\ b = <<S("valve_lock", "void"), S("valve_close", "void"), S("DeviceStatus", i.arg)>>
  \/ /\ i.op = "callback" /\ i.arg = "SlaverOffline"
     /\ b = <<S("valve_close", "void"), S("DeviceStatus", i.arg)>>
  \/ /\ i.op = "radio_start_learn_device" /\ Commandable(u)
     /\ b = <<S("DeviceStatus", "LearnDevice"), S("allow_add_device", "1"),
              S("start_learn_timer", "void")>>
  \/ /\ i.op = "radio_start_learn_device" /\ u.DeviceStatus = "LearnDevice"
     /\ b = <<S("stop_learn_timer", "void"), S("allow_add_device", "0"),
              S("DeviceStatus_of_valve", "void"), S("priority", "none")>>
  \/ i.op = "waterleak_set" /\ b = <<S("waterleak", i.arg), S("flash", "void")>>
  \/ i.op = "save" /\ b = <<S("flash", "void")>>
  \/ /\ i.op = "parse_valve_open" /\ Commandable(u)
     /\ b = <<S("valve_unlock", "void"), S("valve_open", "void")>>
  \/ /\ i.op \in {"warning_offline_check", "parse_valve_close"}
     /\ b = <<S("DeviceStatus_of_valve", "void"), S("priority", "none")>>
  \/ i.op = "parse_valve_close" /\ b = <<S("valve_lock", "void"), S("valve_close", "void")>>
  \/ /\ i.op = "parse_warn_over"
     /\ b = <<S("DeviceStatus_of_valve", "void"), S("priority", "none"), S("valve_close", "void")>>
  \/ i.op = "key_on_click" /\ b = <<S("valve_open", "void")>>
  \/ i.op = "key_off_click" /\ b = <<S("valve_close", "void")>>
  \/ i.op = "sweep_end" /\ b = <<S("warning_enable", "SlaverOffline")>>

-----------------------------------------------------------------------------
(* Sequences of statements.                                                *)

\* Two sequences put together, element by element.
LEMMA ConcatIs ==
  ASSUME NEW X, NEW s \in Seq(X), NEW t \in Seq(X), NEW r \in Seq(X),
         Len(r) = Len(s) + Len(t),
         \A n \in 1..Len(s) : r[n] = s[n],
         \A n \in 1..Len(t) : r[Len(s) + n] = t[n]
  PROVE  s \o t = r
<1> DEFINE c == s \o t
<1>1. /\ c \in Seq(X) /\ Len(c) = Len(s) + Len(t)
      /\ \A n \in 1 .. Len(s) + Len(t) : c[n] = IF n <= Len(s) THEN s[n] ELSE t[n - Len(s)]
  BY ConcatProperties
<1>2. Len(s) \in Nat /\ Len(t) \in Nat
  BY LenProperties
<1> HIDE DEF c
<1>3. ASSUME NEW n \in 1..Len(c)
      PROVE  c[n] = r[n]
  <2>1. CASE n <= Len(s)
    BY <1>1, <1>2, <2>1
  <2>2. CASE ~(n <= Len(s))
    <3>1. n - Len(s) \in 1..Len(t)
      BY <1>1, <1>2, <2>2
    <3>2. r[Len(s) + (n - Len(s))] = t[n - Len(s)]
      BY <3>1
    <3>3. Len(s) + (n - Len(s)) = n
      BY <1>2, <1>1
    <3>4. QED BY <1>1, <1>2, <2>2, <3>2, <3>3
  <2>3. QED BY <2>1, <2>2
<1>4. c = r
  BY <1>1, <1>3, SeqEqual
<1>5. QED BY <1>4 DEF c

\* The same for the literals of the bodies.
LEMMA Concat12 ==
  ASSUME NEW w, NEW x, NEW y
  PROVE  <<w>> \o <<x, y>> = <<w, x, y>>
<1> DEFINE X == {w, x, y}
           s == <<w>>
           t == <<x, y>>
           c == <<w, x, y>>
<1>1. w \in X /\ x \in X /\ y \in X
  OBVIOUS
<1> HIDE DEF X
<1>2. s \in Seq(X) /\ t \in Seq(X) /\ c \in Seq(X)
  BY <1>1
<1>3. /\ Len(s) = 1 /\ s[1] = w
      /\ Len(t) = 2 /\ t[1] = x /\ t[2] = y
      /\ Len(c) = 3 /\ c[1] = w /\ c[2] = x /\ c[3] = y
  OBVIOUS
<1> HIDE DEF s, t, c
<1>4. /\ Len(c) = Len(s) + Len(t) /\ \A n \in 1..Len(s) : c[n] = s[n]
      /\ \A n \in 1..Len(t) : c[Len(s) + n] = t[n]
  BY <1>3
<1>5. s \o t = c
  BY <1>2, <1>4, ConcatIs
<1>6. QED BY <1>5 DEF s, t, c

LEMMA Concat31 ==
  ASSUME NEW w, NEW x, NEW y, NEW z
  PROVE  <<w, x, y>> \o <<z>> = <<w, x, y, z>>
<1> DEFINE X == {w, x, y, z}
           s == <<w, x, y>>
           t == <<z>>
           c == <<w, x, y, z>>
<1>1. w \in X /\ x \in X /\ y \in X /\ z \in X
  OBVIOUS
<1> HIDE DEF X
<1>2. s \in Seq(X) /\ t \in Seq(X) /\ c \in Seq(X)
  BY <1>1
<1>3. /\ Len(s) = 3 /\ s[1] = w /\ s[2] = x /\ s[3] = y
      /\ Len(t) = 1 /\ t[1] = z
      /\ Len(c) = 4 /\ c[1] = w /\ c[2] = x /\ c[3] = y /\ c[4] = z
  OBVIOUS
<1> HIDE DEF s, t, c
<1>4. /\ Len(c) = Len(s) + Len(t) /\ \A n \in 1..Len(s) : c[n] = s[n]
      /\ \A n \in 1..Len(t) : c[Len(s) + n] = t[n]
  BY <1>3
<1>5. s \o t = c
  BY <1>2, <1>4, ConcatIs
<1>6. QED BY <1>5 DEF s, t, c

LEMMA Concat22 ==
  ASSUME NEW w, NEW x, NEW y, NEW z
  PROVE  <<w, x>> \o <<y, z>> = <<w, x, y, z>>
<1> DEFINE X == {w, x, y, z}
           s == <<w, x>>
           t == <<y, z>>
           c == <<w, x, y, z>>
<1>1. w \in X /\ x \in X /\ y \in X /\ z \in X
  OBVIOUS
<1> HIDE DEF X
<1>2. s \in Seq(X) /\ t \in Seq(X) /\ c \in Seq(X)
  BY <1>1
<1>3. /\ Len(s) = 2 /\ s[1] = w /\ s[2] = x
      /\ Len(t) = 2 /\ t[1] = y /\ t[2] = z
      /\ Len(c) = 4 /\ c[1] = w /\ c[2] = x /\ c[3] = y /\ c[4] = z
  OBVIOUS
<1> HIDE DEF s, t, c
<1>4. /\ Len(c) = Len(s) + Len(t) /\ \A n \in 1..Len(s) : c[n] = s[n]
      /\ \A n \in 1..Len(t) : c[Len(s) + n] = t[n]
  BY <1>3
<1>5. s \o t = c
  BY <1>2, <1>4, ConcatIs
<1>6. QED BY <1>5 DEF s, t, c

LEMMA Concat21 ==
  ASSUME NEW w, NEW x, NEW y
  PROVE  <<w, x>> \o <<y>> = <<w, x, y>>
<1> DEFINE X == {w, x, y}
           s == <<w, x>>
           t == <<y>>
           c == <<w, x, y>>
<1>1. w \in X /\ x \in X /\ y \in X
  OBVIOUS
<1> HIDE DEF X
<1>2. s \in Seq(X) /\ t \in Seq(X) /\ c \in Seq(X)
  BY <1>1
<1>3. /\ Len(s) = 2 /\ s[1] = w /\ s[2] = x
      /\ Len(t) = 1 /\ t[1] = y
      /\ Len(c) = 3 /\ c[1] = w /\ c[2] = x /\ c[3] = y
  OBVIOUS
<1> HIDE DEF s, t, c
<1>4. /\ Len(c) = Len(s) + Len(t) /\ \A n \in 1..Len(s) : c[n] = s[n]
      /\ \A n \in 1..Len(t) : c[Len(s) + n] = t[n]
  BY <1>3
<1>5. s \o t = c
  BY <1>2, <1>4, ConcatIs
<1>6. QED BY <1>5 DEF s, t, c

\* Putting b in the place of the first statement of s.
LEMMA Replaced ==
  ASSUME NEW s \in Seq(Statement), s # <<>>, NEW b \in Seq(Statement), NEW r, r = b \o Tail(s)
  PROVE  /\ r \in Seq(Statement)
         /\ Len(s) \in Nat \ {0} /\ Len(b) \in Nat /\ Len(r) = Len(b) + Len(s) - 1
         /\ \A n \in 1..Len(b) : r[n] = b[n]
         /\ \A n \in 2..Len(s) : r[n + Len(b) - 1] = s[n]
<1> DEFINE q == Tail(s)
<1>1. q \in Seq(Statement) /\ Len(q) = Len(s) - 1 /\ \A n \in 1..Len(q) : q[n] = s[n+1]
  BY HeadTailProperties
<1>2. Len(s) \in Nat \ {0} /\ Len(b) \in Nat
  BY LenProperties, EmptySeq
<1> HIDE DEF q
<1>3. /\ b \o q \in Seq(Statement) /\ Len(b \o q) = Len(b) + Len(q)
      /\ \A n \in 1 .. Len(b) + Len(q) : (b \o q)[n] = IF n <= Len(b) THEN b[n] ELSE q[n - Len(b)]
  BY <1>1, ConcatProperties
<1>4. QED BY <1>1, <1>2, <1>3 DEF q

\* The bodies of Preemption, one by one.
LEMMA BodiesExpand ==
  ASSUME NEW u \in Unit, NEW l, NEW i \in Statement, NEW b \in Bodies(u, l, i)
  PROVE  Expands(u, i, b)
<1>1. u.valve_status \in 0..1 /\ u.lock_status \in 0..1 /\ u.valve_valid \in 0..1
  BY DEF Unit
<1>2. CASE i.op \in Primitive
  BY <1>2 DEF Bodies, Expands, Primitive
<1>3. CASE i.op = "valve_open"
  BY <1>3 DEF Bodies, If, valve_open_body, Expands
<1>4. CASE i.op = "valve_close"
  <2> DEFINE x == S("DeviceStatus", "ValveClose")
             y == S("valve_status", "shut")
             z == S("pins", "shut")
             w == S("stop_all", "void")
  <2>1. b = IF u.valve_valid = 0 THEN <<y, z>> ELSE <<x>> \o <<y, z>> \o <<w>>
    BY <1>4 DEF Bodies, valve_close_body
  <2>2. <<x>> \o <<y, z>> = <<x, y, z>> /\ <<x, y, z>> \o <<w>> = <<x, y, z, w>>
    <3> HIDE DEF x, y, z, w
    <3>1. <<x>> \o <<y, z>> = <<x, y, z>>
      BY Concat12
    <3>2. <<x, y, z>> \o <<w>> = <<x, y, z, w>>
      BY Concat31
    <3>3. QED BY <3>1, <3>2
  <2>3. b = IF u.valve_valid = 0 THEN <<y, z>> ELSE <<x, y, z, w>>
    BY <2>1, <2>2
  <2>4. QED BY <1>4, <2>3 DEF Expands
<1>5. CASE i.op \in {"valve_lock", "valve_unlock"}
  BY <1>1, <1>5 DEF Bodies, If, Expands
<1>6. CASE i.op = "valve_check_start"
  BY <1>6 DEF Bodies, If, Expands
<1>7. CASE i.op = "check_half"
  BY <1>7 DEF Bodies, If, check_half_bodies, Expands
<1>8. CASE i.op = "warning_enable"
  BY <1>8 DEF Bodies, If, warning_enable_body, Expands
<1>9. CASE i.op = "callback"
  BY <1>9 DEF Bodies, If, callback_body, Expands, Statement, Event, LockAlarm
<1>10. CASE i.op \in {"warning_offline_check", "waterleak_set", "save", "key_on_click",
                      "key_off_click", "sweep_end"}
  BY <1>10 DEF Bodies, If, all_clear_body, Expands
<1>11. CASE i.op = "radio_start_learn_device"
  <2> DEFINE x == S("stop_learn_timer", "void")
             y == S("allow_add_device", "0")
             z == S("DeviceStatus_of_valve", "void")
             w == S("priority", "none")
  <2>1. <<x, y>> \o <<z, w>> = <<x, y, z, w>>
    <3> HIDE DEF x, y, z, w
    <3>1. QED BY Concat22
  <2>2. b = learn_body(u)
    BY <1>11 DEF Bodies
  <2>3. CASE Commandable(u)
    <3>1. u.DeviceStatus # "LearnDevice"
      BY <2>3 DEF Commandable
    <3>2. b = <<S("DeviceStatus", "LearnDevice"), S("allow_add_device", "1"),
                S("start_learn_timer", "void")>>
      BY <2>2, <2>3, <3>1 DEF learn_body
    <3>3. QED BY <1>11, <2>3, <3>2 DEF Expands
  <2>4. CASE ~Commandable(u) /\ u.DeviceStatus = "LearnDevice"
    <3>1. b = <<x, y, z, w>>
      BY <2>1, <2>2, <2>4 DEF learn_body, all_clear_body
    <3>2. QED BY <1>11, <2>4, <3>1 DEF Expands
  <2>5. CASE ~Commandable(u) /\ u.DeviceStatus # "LearnDevice"
    BY <1>11, <2>2, <2>5 DEF learn_body, Expands
  <2>6. QED BY <2>3, <2>4, <2>5
<1>12. CASE i.op \in {"parse_valve_open", "parse_valve_close"}
  BY <1>12 DEF Bodies, If, parse_valve_open_body, all_clear_body, Expands
<1>13. CASE i.op = "parse_warn_over"
  <2> DEFINE x == S("DeviceStatus_of_valve", "void")
             y == S("priority", "none")
             z == S("valve_close", "void")
  <2>1. <<x, y>> \o <<z>> = <<x, y, z>>
    <3> HIDE DEF x, y, z
    <3>1. QED BY Concat21
  <2>2. b = <<>> \/ b = <<x, y>> \o <<z>>
    BY <1>13 DEF Bodies, If, all_clear_body
  <2>3. QED BY <1>13, <2>1, <2>2 DEF Expands
<1>14. QED
  BY <1>2, <1>3, <1>4, <1>5, <1>6, <1>7, <1>8, <1>9, <1>10, <1>11, <1>12, <1>13
     DEF Statement, Call

-----------------------------------------------------------------------------
(* The structure of a sequence survives the expansion of its first         *)
(* statement.                                                              *)

\* What a body keeps of the statement i it takes the place of.
Fits(i, b) ==
  /\ b \in Seq(Statement)
  /\ \A n \in 1..Len(b) :
       LinkedAt(b, n) \/ (n = 1 /\ i.op = "valve_lock" /\ Len(b) = 2
                                /\ Is(b[1], "lock_status", "1") /\ Is(b[2], "flash", "void"))
  /\ \A n \in 1..Len(b) : PrecededAt(b, n)
  /\ \A n \in 1..Len(b) : Reserved(b[n]) => Reserved(i)
  /\ \A n \in 1..Len(b) : Quiet(i) => Quiet(b[n])
  /\ \A n \in 1..Len(b) : i.op \in CheckSteps => b[n].op \in CheckSteps
  /\ i.op \in Primitive => Len(b) = 0

LEMMA FitsEmpty ==
  ASSUME NEW i
  PROVE  Fits(i, <<>>)
<1>1. <<>> \in Seq(Statement) /\ Len(<<>>) = 0
  OBVIOUS
<1>2. QED BY <1>1 DEF Fits

\* Each body fits.
LEMMA ExpandsFits ==
  ASSUME NEW u, NEW i \in Statement, NEW b, Expands(u, i, b)
  PROVE  Fits(i, b)
<1>1. CASE b = <<>>
  BY <1>1, FitsEmpty
<1>2. CASE /\ i.op = "valve_open"
           /\ b = <<S("DeviceStatus", "ValveOpen"), S("valve_status", "open"),
                      S("pins", "open"), S("stop_checks", "void"), S("start_detect", "void")>>
  <2>1. b \in Seq(Statement)
    BY <1>2 DEF S, Statement, Call, Primitive, Argument, Event, Side, Device_Status, Alarm,
           LockAlarm
  <2>2. Len(b) = 5 /\ Is(b[1], "DeviceStatus", "ValveOpen") /\
        Is(b[2], "valve_status", "open") /\ Is(b[3], "pins", "open") /\
        Is(b[4], "stop_checks", "void") /\ Is(b[5], "start_detect", "void")
    BY <1>2 DEF S, Is
  <2>3. QED
    BY <1>2, <2>1, <2>2
       DEF Is, Fits, LinkedAt, PrecededAt, Next1, Reserved, ShowsAlarm, Unlocking, Quiet,
           CheckSteps, Primitive, LockAlarm, Event
<1>3. CASE /\ i.op = "valve_close"
           /\ b = <<S("valve_status", "shut"), S("pins", "shut")>>
  <2>1. b \in Seq(Statement)
    BY <1>3 DEF S, Statement, Call, Primitive, Argument, Event, Side, Device_Status, Alarm,
           LockAlarm
  <2>2. Len(b) = 2 /\ Is(b[1], "valve_status", "shut") /\ Is(b[2], "pins", "shut")
    BY <1>3 DEF S, Is
  <2>3. QED
    BY <1>3, <2>1, <2>2
       DEF Is, Fits, LinkedAt, PrecededAt, Next1, Reserved, ShowsAlarm, Unlocking, Quiet,
           CheckSteps, Primitive, LockAlarm, Event
<1>4. CASE /\ i.op = "valve_close"
           /\ b = <<S("DeviceStatus", "ValveClose"), S("valve_status", "shut"),
                      S("pins", "shut"), S("stop_all", "void")>>
  <2>1. b \in Seq(Statement)
    BY <1>4 DEF S, Statement, Call, Primitive, Argument, Event, Side, Device_Status, Alarm,
           LockAlarm
  <2>2. Len(b) = 4 /\ Is(b[1], "DeviceStatus", "ValveClose") /\
        Is(b[2], "valve_status", "shut") /\ Is(b[3], "pins", "shut") /\
        Is(b[4], "stop_all", "void")
    BY <1>4 DEF S, Is
  <2>3. QED
    BY <1>4, <2>1, <2>2
       DEF Is, Fits, LinkedAt, PrecededAt, Next1, Reserved, ShowsAlarm, Unlocking, Quiet,
           CheckSteps, Primitive, LockAlarm, Event
<1>5. CASE /\ i.op = "valve_lock"
           /\ b = <<S("lock_status", "1"), S("flash", "void")>>
  <2>1. b \in Seq(Statement)
    BY <1>5 DEF S, Statement, Call, Primitive, Argument, Event, Side, Device_Status, Alarm,
           LockAlarm
  <2>2. Len(b) = 2 /\ Is(b[1], "lock_status", "1") /\ Is(b[2], "flash", "void")
    BY <1>5 DEF S, Is
  <2>3. QED
    BY <1>5, <2>1, <2>2
       DEF Is, Fits, LinkedAt, PrecededAt, Next1, Reserved, ShowsAlarm, Unlocking, Quiet,
           CheckSteps, Primitive, LockAlarm, Event
<1>6. CASE /\ i.op = "valve_unlock"
           /\ b = <<S("lock_status", "0"), S("flash", "void")>>
  <2>1. b \in Seq(Statement)
    BY <1>6 DEF S, Statement, Call, Primitive, Argument, Event, Side, Device_Status, Alarm,
           LockAlarm
  <2>2. Len(b) = 2 /\ Is(b[1], "lock_status", "0") /\ Is(b[2], "flash", "void")
    BY <1>6 DEF S, Is
  <2>3. QED
    BY <1>6, <2>1, <2>2
       DEF Is, Fits, LinkedAt, PrecededAt, Next1, Reserved, ShowsAlarm, Unlocking, Quiet,
           CheckSteps, Primitive, LockAlarm, Event
<1>7. CASE /\ i.op = "valve_check_start"
           /\ b = <<S("check_half", "left"), S("check_half", "right")>>
  <2>1. b \in Seq(Statement)
    BY <1>7 DEF S, Statement, Call, Primitive, Argument, Event, Side, Device_Status, Alarm,
           LockAlarm
  <2>2. Len(b) = 2 /\ Is(b[1], "check_half", "left") /\ Is(b[2], "check_half", "right")
    BY <1>7 DEF S, Is
  <2>3. QED
    BY <1>7, <2>1, <2>2
       DEF Is, Fits, LinkedAt, PrecededAt, Next1, Reserved, ShowsAlarm, Unlocking, Quiet,
           CheckSteps, Primitive, LockAlarm, Event
<1>8. CASE /\ i.op = "check_half"
           /\ b = <<S("swing", i.arg), S("arm", i.arg)>>
  <2>1. b \in Seq(Statement)
    BY <1>8 DEF S, Statement, Call, Primitive, Argument, Event, Side, Device_Status, Alarm,
           LockAlarm
  <2>2. Len(b) = 2 /\ Is(b[1], "swing", i.arg) /\ Is(b[2], "arm", i.arg)
    BY <1>8 DEF S, Is
  <2>3. QED
    BY <1>8, <2>1, <2>2
       DEF Is, Fits, LinkedAt, PrecededAt, Next1, Reserved, ShowsAlarm, Unlocking, Quiet,
           CheckSteps, Primitive, LockAlarm, Event
<1>9. CASE /\ i.op = "warning_enable"
           /\ b = <<S("priority", i.arg), S("callback", i.arg)>>
  <2>1. b \in Seq(Statement)
    BY <1>9 DEF S, Statement, Call, Primitive, Argument, Event, Side, Device_Status, Alarm,
           LockAlarm
  <2>2. Len(b) = 2 /\ Is(b[1], "priority", i.arg) /\ Is(b[2], "callback", i.arg)
    BY <1>9 DEF S, Is
  <2>3. QED
    BY <1>9, <2>1, <2>2
       DEF Is, Fits, LinkedAt, PrecededAt, Next1, Reserved, ShowsAlarm, Unlocking, Quiet,
           CheckSteps, Primitive, LockAlarm, Event
<1>10. CASE /\ i.op = "callback" /\ i.arg \in LockAlarm
             /\ b = <<S("valve_lock", "void"), S("valve_close", "void"),
                       S("DeviceStatus", i.arg)>>
  <2>1. b \in Seq(Statement)
    BY <1>10 DEF S, Statement, Call, Primitive, Argument, Event, Side, Device_Status, Alarm,
           LockAlarm
  <2>2. Len(b) = 3 /\ Is(b[1], "valve_lock", "void") /\ Is(b[2], "valve_close", "void") /\
        Is(b[3], "DeviceStatus", i.arg)
    BY <1>10 DEF S, Is
  <2>3. QED
    BY <1>10, <2>1, <2>2
       DEF Is, Fits, LinkedAt, PrecededAt, Next1, Reserved, ShowsAlarm, Unlocking, Quiet,
           CheckSteps, Primitive, LockAlarm, Event
<1>11. CASE /\ i.op = "callback" /\ i.arg = "SlaverOffline"
             /\ b = <<S("valve_close", "void"), S("DeviceStatus", i.arg)>>
  <2>1. b \in Seq(Statement)
    BY <1>11 DEF S, Statement, Call, Primitive, Argument, Event, Side, Device_Status, Alarm,
           LockAlarm
  <2>2. Len(b) = 2 /\ Is(b[1], "valve_close", "void") /\ Is(b[2], "DeviceStatus", i.arg)
    BY <1>11 DEF S, Is
  <2>3. QED
    BY <1>11, <2>1, <2>2
       DEF Is, Fits, LinkedAt, PrecededAt, Next1, Reserved, ShowsAlarm, Unlocking, Quiet,
           CheckSteps, Primitive, LockAlarm, Event
<1>12. CASE /\ i.op = "radio_start_learn_device"
             /\ b = <<S("DeviceStatus", "LearnDevice"), S("allow_add_device", "1"),
                       S("start_learn_timer", "void")>>
  <2>1. b \in Seq(Statement)
    BY <1>12 DEF S, Statement, Call, Primitive, Argument, Event, Side, Device_Status, Alarm,
           LockAlarm
  <2>2. Len(b) = 3 /\ Is(b[1], "DeviceStatus", "LearnDevice") /\
        Is(b[2], "allow_add_device", "1") /\ Is(b[3], "start_learn_timer", "void")
    BY <1>12 DEF S, Is
  <2>3. QED
    BY <1>12, <2>1, <2>2
       DEF Is, Fits, LinkedAt, PrecededAt, Next1, Reserved, ShowsAlarm, Unlocking, Quiet,
           CheckSteps, Primitive, LockAlarm, Event
<1>13. CASE /\ i.op = "radio_start_learn_device"
             /\ b = <<S("stop_learn_timer", "void"), S("allow_add_device", "0"),
                       S("DeviceStatus_of_valve", "void"), S("priority", "none")>>
  <2>1. b \in Seq(Statement)
    BY <1>13 DEF S, Statement, Call, Primitive, Argument, Event, Side, Device_Status, Alarm,
           LockAlarm
  <2>2. Len(b) = 4 /\ Is(b[1], "stop_learn_timer", "void") /\
        Is(b[2], "allow_add_device", "0") /\ Is(b[3], "DeviceStatus_of_valve", "void") /\
        Is(b[4], "priority", "none")
    BY <1>13 DEF S, Is
  <2>3. QED
    BY <1>13, <2>1, <2>2
       DEF Is, Fits, LinkedAt, PrecededAt, Next1, Reserved, ShowsAlarm, Unlocking, Quiet,
           CheckSteps, Primitive, LockAlarm, Event
<1>14. CASE /\ i.op = "waterleak_set"
             /\ b = <<S("waterleak", i.arg), S("flash", "void")>>
  <2>1. b \in Seq(Statement)
    BY <1>14 DEF S, Statement, Call, Primitive, Argument, Event, Side, Device_Status, Alarm,
           LockAlarm
  <2>2. Len(b) = 2 /\ Is(b[1], "waterleak", i.arg) /\ Is(b[2], "flash", "void")
    BY <1>14 DEF S, Is
  <2>3. QED
    BY <1>14, <2>1, <2>2
       DEF Is, Fits, LinkedAt, PrecededAt, Next1, Reserved, ShowsAlarm, Unlocking, Quiet,
           CheckSteps, Primitive, LockAlarm, Event
<1>15. CASE /\ i.op = "save"
             /\ b = <<S("flash", "void")>>
  <2>1. b \in Seq(Statement)
    BY <1>15 DEF S, Statement, Call, Primitive, Argument, Event, Side, Device_Status, Alarm,
           LockAlarm
  <2>2. Len(b) = 1 /\ Is(b[1], "flash", "void")
    BY <1>15 DEF S, Is
  <2>3. QED
    BY <1>15, <2>1, <2>2
       DEF Is, Fits, LinkedAt, PrecededAt, Next1, Reserved, ShowsAlarm, Unlocking, Quiet,
           CheckSteps, Primitive, LockAlarm, Event
<1>16. CASE /\ i.op = "parse_valve_open"
             /\ b = <<S("valve_unlock", "void"), S("valve_open", "void")>>
  <2>1. b \in Seq(Statement)
    BY <1>16 DEF S, Statement, Call, Primitive, Argument, Event, Side, Device_Status, Alarm,
           LockAlarm
  <2>2. Len(b) = 2 /\ Is(b[1], "valve_unlock", "void") /\ Is(b[2], "valve_open", "void")
    BY <1>16 DEF S, Is
  <2>3. QED
    BY <1>16, <2>1, <2>2
       DEF Is, Fits, LinkedAt, PrecededAt, Next1, Reserved, ShowsAlarm, Unlocking, Quiet,
           CheckSteps, Primitive, LockAlarm, Event
<1>17. CASE /\ i.op \in {"warning_offline_check", "parse_valve_close"}
             /\ b = <<S("DeviceStatus_of_valve", "void"), S("priority", "none")>>
  <2>1. b \in Seq(Statement)
    BY <1>17 DEF S, Statement, Call, Primitive, Argument, Event, Side, Device_Status, Alarm,
           LockAlarm
  <2>2. Len(b) = 2 /\ Is(b[1], "DeviceStatus_of_valve", "void") /\
        Is(b[2], "priority", "none")
    BY <1>17 DEF S, Is
  <2>3. QED
    BY <1>17, <2>1, <2>2
       DEF Is, Fits, LinkedAt, PrecededAt, Next1, Reserved, ShowsAlarm, Unlocking, Quiet,
           CheckSteps, Primitive, LockAlarm, Event
<1>18. CASE /\ i.op = "parse_valve_close"
             /\ b = <<S("valve_lock", "void"), S("valve_close", "void")>>
  <2>1. b \in Seq(Statement)
    BY <1>18 DEF S, Statement, Call, Primitive, Argument, Event, Side, Device_Status, Alarm,
           LockAlarm
  <2>2. Len(b) = 2 /\ Is(b[1], "valve_lock", "void") /\ Is(b[2], "valve_close", "void")
    BY <1>18 DEF S, Is
  <2>3. QED
    BY <1>18, <2>1, <2>2
       DEF Is, Fits, LinkedAt, PrecededAt, Next1, Reserved, ShowsAlarm, Unlocking, Quiet,
           CheckSteps, Primitive, LockAlarm, Event
<1>19. CASE /\ i.op = "parse_warn_over"
             /\ b = <<S("DeviceStatus_of_valve", "void"), S("priority", "none"),
                       S("valve_close", "void")>>
  <2>1. b \in Seq(Statement)
    BY <1>19 DEF S, Statement, Call, Primitive, Argument, Event, Side, Device_Status, Alarm,
           LockAlarm
  <2>2. Len(b) = 3 /\ Is(b[1], "DeviceStatus_of_valve", "void") /\
        Is(b[2], "priority", "none") /\ Is(b[3], "valve_close", "void")
    BY <1>19 DEF S, Is
  <2>3. QED
    BY <1>19, <2>1, <2>2
       DEF Is, Fits, LinkedAt, PrecededAt, Next1, Reserved, ShowsAlarm, Unlocking, Quiet,
           CheckSteps, Primitive, LockAlarm, Event
<1>20. CASE /\ i.op = "key_on_click"
             /\ b = <<S("valve_open", "void")>>
  <2>1. b \in Seq(Statement)
    BY <1>20 DEF S, Statement, Call, Primitive, Argument, Event, Side, Device_Status, Alarm,
           LockAlarm
  <2>2. Len(b) = 1 /\ Is(b[1], "valve_open", "void")
    BY <1>20 DEF S, Is
  <2>3. QED
    BY <1>20, <2>1, <2>2
       DEF Is, Fits, LinkedAt, PrecededAt, Next1, Reserved, ShowsAlarm, Unlocking, Quiet,
           CheckSteps, Primitive, LockAlarm, Event
<1>21. CASE /\ i.op = "key_off_click"
             /\ b = <<S("valve_close", "void")>>
  <2>1. b \in Seq(Statement)
    BY <1>21 DEF S, Statement, Call, Primitive, Argument, Event, Side, Device_Status, Alarm,
           LockAlarm
  <2>2. Len(b) = 1 /\ Is(b[1], "valve_close", "void")
    BY <1>21 DEF S, Is
  <2>3. QED
    BY <1>21, <2>1, <2>2
       DEF Is, Fits, LinkedAt, PrecededAt, Next1, Reserved, ShowsAlarm, Unlocking, Quiet,
           CheckSteps, Primitive, LockAlarm, Event
<1>22. CASE /\ i.op = "sweep_end"
             /\ b = <<S("warning_enable", "SlaverOffline")>>
  <2>1. b \in Seq(Statement)
    BY <1>22 DEF S, Statement, Call, Primitive, Argument, Event, Side, Device_Status, Alarm,
           LockAlarm
  <2>2. Len(b) = 1 /\ Is(b[1], "warning_enable", "SlaverOffline")
    BY <1>22 DEF S, Is
  <2>3. QED
    BY <1>22, <2>1, <2>2
       DEF Is, Fits, LinkedAt, PrecededAt, Next1, Reserved, ShowsAlarm, Unlocking, Quiet,
           CheckSteps, Primitive, LockAlarm, Event
<1>23. QED
  BY <1>1, <1>2, <1>3, <1>4, <1>5, <1>6, <1>7, <1>8, <1>9, <1>10, <1>11, <1>12, <1>13,
     <1>14, <1>15, <1>16, <1>17, <1>18, <1>19, <1>20, <1>21, <1>22, Zenon DEF Expands

\* The structure is kept when the first statement of s is executed or expanded.
LEMMA StructStep ==
  ASSUME NEW t, NEW s, Structure(t, s), s # <<>>,
         NEW b, Fits(s[1], b), NEW r, r = b \o Tail(s)
  PROVE  Structure(t, r)
<1> DEFINE k == Len(b)
<1>1. s \in Seq(Statement) /\ b \in Seq(Statement)
  BY DEF Structure, Fits
<1>2. /\ r \in Seq(Statement)
      /\ Len(s) \in Nat \ {0} /\ k \in Nat /\ Len(r) = k + Len(s) - 1
      /\ \A n \in 1..k : r[n] = b[n]
      /\ \A n \in 2..Len(s) : r[n + k - 1] = s[n]
  BY <1>1, Replaced
<1>3. s[1] \in Statement
  BY <1>1, <1>2
<1> HIDE DEF k
<1>4. ASSUME NEW n \in 1..Len(r), n > k
      PROVE  /\ n - k + 1 \in 2..Len(s) /\ n - k + 1 \in 1..Len(s)
             /\ r[n] = s[n - k + 1]
  <2>1. n - k + 1 \in 2..Len(s)
    BY <1>2, <1>4
  <2>2. r[(n - k + 1) + k - 1] = s[n - k + 1]
    BY <1>2, <2>1
  <2>3. (n - k + 1) + k - 1 = n
    BY <1>2
  <2>4. QED BY <1>2, <2>1, <2>2, <2>3
<1>5. ASSUME NEW n \in 1..Len(r)
      PROVE  LinkedAt(r, n)
  <2>1. CASE n > k
    <3> DEFINE j == n - k + 1
    <3>1. j \in 2..Len(s) /\ r[n] = s[j] /\ LinkedAt(s, j)
      BY <1>4, <2>1 DEF Structure
    <3>2. \A op, arg : Next1(s, j, op, arg) => Next1(r, n, op, arg)
      <4>1. j + 1 \in 1..Len(s) => n + 1 \in 1..Len(r) /\ n + 1 > k /\ (n + 1) - k + 1 = j + 1
        BY <1>2, <2>1
      <4>2. j + 1 \in 1..Len(s) => n + 1 \in 1..Len(r) /\ r[n + 1] = s[j + 1]
        BY <1>4, <4>1
      <4>3. QED BY <4>2 DEF Next1
    <3>3. \A op, arg : Next1(s, j + 1, op, arg) => Next1(r, n + 1, op, arg)
      <4>1. j + 1 + 1 \in 1..Len(s) =>
              n + 1 + 1 \in 1..Len(r) /\ n + 1 + 1 > k /\ (n + 1 + 1) - k + 1 = j + 1 + 1
        BY <1>2, <2>1
      <4>2. j + 1 + 1 \in 1..Len(s) => n + 1 + 1 \in 1..Len(r) /\ r[n + 1 + 1] = s[j + 1 + 1]
        BY <1>4, <4>1
      <4>3. QED BY <4>2 DEF Next1
    <3>4. j # 1
      BY <3>1
    <3> HIDE DEF j
    <3>5. QED BY <3>1, <3>2, <3>3, <3>4 DEF LinkedAt
  <2>2. CASE ~(n > k)
    <3>1. n \in 1..k /\ r[n] = b[n]
      BY <1>2, <2>2
    <3>2. \A op, arg : Next1(b, n, op, arg) => Next1(r, n, op, arg)
      BY <1>2, <3>1 DEF Next1, k
    <3>3. \A op, arg : Next1(b, n + 1, op, arg) => Next1(r, n + 1, op, arg)
      BY <1>2, <3>1 DEF Next1, k
    <3>4. CASE LinkedAt(b, n)
      BY <3>1, <3>2, <3>3, <3>4 DEF LinkedAt
    <3>5. CASE /\ n = 1 /\ s[1].op = "valve_lock" /\ Len(b) = 2
               /\ Is(b[1], "lock_status", "1") /\ Is(b[2], "flash", "void")
      <4>1. LinkedAt(s, 1)
        BY <1>2 DEF Structure
      <4>2. 2 \in 2..Len(s) /\ Is(s[2], "valve_close", "void")
        BY <1>2, <3>5, <4>1 DEF LinkedAt, Next1
      <4>3. r[2 + k - 1] = s[2]
        BY <1>2, <4>2
      <4>4. 3 \in 1..Len(r) /\ 2 \in 1..Len(r) /\ Is(r[3], "valve_close", "void")
        BY <1>2, <3>5, <4>2, <4>3 DEF k
      <4>5. Is(r[2], "flash", "void") /\ Is(r[1], "lock_status", "1")
        BY <1>2, <3>5 DEF k
      <4>6. QED BY <3>5, <4>4, <4>5 DEF LinkedAt, Next1, Is
    <3>6. QED BY <3>1, <3>4, <3>5 DEF Fits, k
  <2>3. QED BY <1>2, <2>1, <2>2
<1>6. ASSUME NEW m \in 1..Len(r)
      PROVE  PrecededAt(r, m)
  <2>1. CASE m > k
    <3> DEFINE j == m - k + 1
    <3>1. j \in 2..Len(s) /\ r[m] = s[j] /\ PrecededAt(s, j) /\ PrecededAt(s, 1)
      BY <1>2, <1>4, <2>1 DEF Structure
    <3>2. ASSUME NEW n \in 1..m-1
          PROVE  \/ n <= k /\ k # 0 /\ n \in 1..k /\ r[n] = b[n]
                 \/ n > k /\ n - k + 1 \in 2..j-1 /\ r[n] = s[n - k + 1]
      <4>1. CASE n <= k
        BY <1>2, <4>1
      <4>2. CASE n > k
        <5>1. n \in 1..Len(r) /\ n - k + 1 \in 2..j-1
          BY <1>2, <4>2
        <5>2. QED BY <1>4, <4>2, <5>1
      <4>3. QED BY <1>2, <4>1, <4>2
    <3>3. k # 0 => s[1].op \notin Primitive
      BY DEF Fits, k
    <3>4. k \in Nat /\ m \in Nat /\ m > k
      BY <1>2, <2>1
    <3>5. ShowsAlarm(r[m]) =>
            \A n \in 1..m-1 : Quiet(r[n]) \/ (n = 1 /\ m = 2 /\ Is(r[1], "priority", r[2].arg))
      <4> SUFFICES ASSUME ShowsAlarm(r[m]), NEW n \in 1..m-1
                   PROVE  Quiet(r[n])
        OBVIOUS
      <4>1. \A q \in 1..j-1 : Quiet(s[q]) \/ (q = 1 /\ j = 2 /\ Is(s[1], "priority", s[2].arg))
        BY <3>1 DEF PrecededAt
      <4>2. CASE n > k
        <5> HIDE DEF j
        <5>1. n - k + 1 \in 2..j-1 /\ r[n] = s[n - k + 1]
          BY ONLY <3>2, <3>4, <4>2, n \in 1..m-1
        <5>2. n - k + 1 \in 1..j-1 /\ n - k + 1 # 1
          BY <3>1, <3>4, <5>1
        <5>3. QED BY <4>1, <5>1, <5>2
      <4>3. CASE n <= k
        <5>1. 1 \in 1..j-1 /\ s[1].op \notin Primitive
          BY <3>1, <3>2, <3>3, <3>4, <4>3
        <5>2. Quiet(s[1])
          BY <4>1, <5>1 DEF Is, Primitive
        <5>3. QED BY <3>2, <4>3, <5>2 DEF Fits, k
      <4>4. QED BY <1>2, <4>2, <4>3
    <3>6. j = 2 /\ s[1].op \in Primitive => m = 1
      BY <1>2, <3>3
    <3>7. j # 2 => r[m-1] = s[j-1]
      <4> SUFFICES ASSUME j # 2 PROVE r[m-1] = s[j-1]
        OBVIOUS
      <4>1. m - 1 \in 1..m-1 /\ m - 1 > k /\ (m - 1) - k + 1 = j - 1
        BY <3>4
      <4>2. r[m-1] = s[(m-1) - k + 1]
        <5> DEFINE q == m - 1
        <5>1. q \in 1..m-1 /\ q > k /\ ~(q <= k)
          BY <3>4, <4>1
        <5> HIDE DEF q
        <5>2. r[q] = s[q - k + 1]
          BY <3>2, <5>1
        <5>3. QED BY <5>2 DEF q
      <4>3. QED BY <4>1, <4>2
    <3>8. r[m].op = "callback" => m = 1
      BY <3>1, <3>6 DEF PrecededAt, Is, Primitive
    <3>9. Is(r[m], "priority", "none") => m = 1 \/ r[m-1].op = "DeviceStatus_of_valve"
      <4>1. Is(r[m], "priority", "none") => s[j-1].op = "DeviceStatus_of_valve"
        BY <3>1 DEF PrecededAt
      <4>2. j = 2 => j - 1 = 1
        OBVIOUS
      <4>3. QED BY <3>6, <3>7, <4>1, <4>2 DEF Primitive
    <3>10. ~Unlocking(r[m])
      BY <3>1 DEF PrecededAt
    <3>11. Is(r[m], "valve_status", "open") => m = 1
      BY <3>1, <3>6 DEF PrecededAt, Is, Primitive
    <3>12. Is(r[m], "pins", "open") => m = 1 \/ Is(r[m-1], "valve_status", "open")
      <4>1. Is(r[m], "pins", "open") => Is(s[j-1], "valve_status", "open")
        BY <3>1 DEF PrecededAt
      <4>2. j = 2 => j - 1 = 1
        OBVIOUS
      <4>3. QED BY <3>6, <3>7, <4>1, <4>2 DEF Primitive, Is
    <3>13. r[m].op \in CheckSteps => \A n \in 1..m-1 : r[n].op \in CheckSteps
      <4> SUFFICES ASSUME r[m].op \in CheckSteps, NEW n \in 1..m-1
                   PROVE  r[n].op \in CheckSteps
        OBVIOUS
      <4>1. \A q \in 1..j-1 : s[q].op \in CheckSteps
        BY <3>1 DEF PrecededAt
      <4>2. CASE n > k
        <5> HIDE DEF j
        <5>1. n - k + 1 \in 2..j-1 /\ r[n] = s[n - k + 1]
          BY ONLY <3>2, <3>4, <4>2, n \in 1..m-1
        <5>2. n - k + 1 \in 1..j-1
          BY <3>1, <3>4, <5>1
        <5>3. QED BY <4>1, <5>1, <5>2
      <4>3. CASE n <= k
        <5>1. s[1].op \in CheckSteps
          BY <3>1, <4>1
        <5>2. QED BY <3>2, <4>3, <5>1 DEF Fits, k
      <4>4. QED BY <1>2, <4>2, <4>3
    <3> HIDE DEF j
    <3>14. QED
      BY <3>5, <3>8, <3>9, <3>10, <3>11, <3>12, <3>13 DEF PrecededAt
  <2>2. CASE ~(m > k)
    <3>1. m \in 1..k /\ PrecededAt(b, m)
      BY <1>2, <2>2 DEF Fits, k
    <3>2. \A n \in 1..m : r[n] = b[n]
      BY <1>2, <3>1
    <3>3. \A n \in 1..m-1 : n \in 1..m
      BY <1>2, <3>1
    <3>4. 1 \in 1..m /\ m \in 1..m /\ (m = 1 \/ m - 1 \in 1..m) /\ (m = 2 => 2 \in 1..m)
      BY <1>2, <3>1
    <3>5. QED BY <3>1, <3>2, <3>3, <3>4 DEF PrecededAt
  <2>3. QED BY <1>2, <2>1, <2>2
<1>7. ASSUME NEW n \in 1..Len(r), Reserved(r[n])
      PROVE  t = "rf"
  <2>1. CASE n > k
    BY <1>4, <1>7, <2>1 DEF Structure
  <2>2. CASE ~(n > k)
    <3>1. n \in 1..k /\ r[n] = b[n]
      BY <1>2, <2>2
    <3>2. Reserved(s[1])
      BY <1>7, <3>1 DEF Fits, k
    <3>3. QED BY <1>2, <3>2 DEF Structure
  <2>3. QED BY <1>2, <2>1, <2>2
<1>8. QED BY <1>2, <1>5, <1>6, <1>7 DEF Structure

-----------------------------------------------------------------------------
(* What a thread starts with: calls that tie nothing to their neighbours.  *)

Opening ==
  {i \in Statement :
     i.op \in {"waterleak_set", "warning_enable", "parse_warn_over", "parse_valve_close",
               "parse_valve_open", "save", "radio_start_learn_device", "heard",
               "warning_offline_check", "valve_check_start", "sweep", "sweep_end",
               "key_on_click", "key_off_click"}}

LEMMA OpeningStructure ==
  ASSUME NEW t, NEW s \in Seq(Opening), \A n \in 1..Len(s) : Reserved(s[n]) => t = "rf"
  PROVE  Structure(t, s)
<1>1. \A n \in 1..Len(s) : s[n] \in Opening
  OBVIOUS
<1>2. s \in Seq(Statement)
  BY SeqDef, <1>1 DEF Opening
<1>3. ASSUME NEW n \in 1..Len(s)
      PROVE  LinkedAt(s, n) /\ PrecededAt(s, n)
  BY <1>1 DEF Opening, LinkedAt, PrecededAt, Is, ShowsAlarm, Unlocking, CheckSteps
<1>4. QED BY <1>2, <1>3 DEF Structure

LEMMA ProgramsOpen ==
  ASSUME NEW t \in Thread, NEW p \in Programs(t)
  PROVE  Structure(t, p) /\ p \in Seq(Opening)
<1> USE DEF S, Opening, Statement, Call, Primitive, Argument, Event, Side, Device_Status, Alarm
<1>1. parse_end \in Seq(Opening)
  BY DEF parse_end
<1>2. CASE t = "rf"
  <2> HIDE DEF Opening
  <2>1. \A q : q \in Seq(Opening) => q \o parse_end \in Seq(Opening)
    BY <1>1, ConcatProperties
  <2> DEFINE A == <<S("waterleak_set", "1"), S("warning_enable", "SlaverSensorLeak")>>
             B == <<S("waterleak_set", "0"), S("parse_warn_over", "void")>>
             C == <<S("waterleak_set", "0"), S("parse_valve_close", "void")>>
             D == <<S("parse_valve_open", "void")>>
             E == <<S("save", "void"), S("warning_enable", "SlaverUltraLowPower")>>
             F == <<S("radio_start_learn_device", "void")>>
  <2>2. /\ A \in Seq(Opening) /\ B \in Seq(Opening) /\ C \in Seq(Opening)
        /\ D \in Seq(Opening) /\ E \in Seq(Opening) /\ F \in Seq(Opening)
    BY DEF Opening
  <2>3. p \in {A \o parse_end, B \o parse_end, C \o parse_end, D \o parse_end, E \o parse_end,
               F \o parse_end}
    BY <1>2 DEF Programs
  <2> HIDE DEF A, B, C, D, E, F
  <2>4. p \in Seq(Opening)
    BY <2>1, <2>2, <2>3
  <2>5. QED BY <1>2, <2>4, OpeningStructure
<1>3. CASE t # "rf"
  <2> DEFINE Safe == {i \in Opening : ~Reserved(i)}
             A == S("valve_check_start", "void")
             B == S("sweep", "void")
             C == S("save", "void")
             D == S("sweep_end", "void")
             E == S("key_on_click", "void")
             F == S("key_off_click", "void")
             G == S("radio_start_learn_device", "void")
  <2>1. /\ A \in Safe /\ B \in Safe /\ C \in Safe /\ D \in Safe
        /\ E \in Safe /\ F \in Safe /\ G \in Safe
    BY DEF Reserved, Unlocking, Is
  <2>2. \/ p = <<A>> \/ p = <<B, C, D>>
        \/ p = <<E>> \/ p = <<F>> \/ p = <<G>>
    <3>1. CASE t = "rtc"
      <4>1. Programs(t) = {<<A>>, <<B, C, D>>}
        BY <3>1 DEF Programs
      <4> HIDE DEF A, B, C, D, E, F, G
      <4>2. QED BY <4>1, Zenon
    <3>2. CASE t = "key"
      <4>1. Programs(t) = {<<E>>, <<F>>, <<A>>, <<G>>}
        BY <3>2 DEF Programs
      <4> HIDE DEF A, B, C, D, E, F, G
      <4>2. QED BY <4>1, Zenon
    <3>3. QED BY <1>3, <3>1, <3>2 DEF Thread
  <2> HIDE DEF Opening, Safe, A, B, C, D, E, F, G
  <2>3. p \in Seq(Safe)
    <3>1. /\ <<A>> \in Seq(Safe) /\ <<B, C, D>> \in Seq(Safe)
          /\ <<E>> \in Seq(Safe) /\ <<F>> \in Seq(Safe) /\ <<G>> \in Seq(Safe)
      BY <2>1
    <3>2. QED BY <2>2, <3>1, Zenon
  <2> USE DEF Safe
  <2>4. p \in Seq(Opening) /\ \A n \in 1..Len(p) : ~Reserved(p[n])
    <3>1. \A n \in 1..Len(p) : p[n] \in Safe
      BY <2>3
    <3>2. QED BY <2>3, <3>1, SeqDef
  <2>5. QED BY <2>4, OpeningStructure
<1>4. QED BY <1>2, <1>3

=============================================================================
