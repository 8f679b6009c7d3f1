----------------------------- MODULE AlarmValve ----------------------------
(***************************************************************************)
(* What the main unit promises the house, without devices, timers, motors  *)
(* or stored priorities: an alarm, a valve and a lock, and the only ways   *)
(* in which they change.  MainUnit implements it (MainUnit!PromiseKept).   *)
(***************************************************************************)
EXTENDS Integers

VARIABLES alarm, valve, lock

avars == <<alarm, valve, lock>>

\* "none" stands for the two states without an alarm, open and closed.
Rank == [none |-> 0, learning |-> 0, lost |-> 1, low |-> 2, fault |-> 3,
         silent |-> 4, exhausted |-> 5, leak |-> 6]

Locking == {"leak", "exhausted"}   \* alarms that shut and lock the valve
Shutting == Locking \cup {"silent"} \* alarms that shut it

\* Without an alarm, or with one that only warns, the valve obeys.
Obeying == {"none", "lost", "low"}

Init == alarm = "none" /\ valve = "shut" /\ lock = FALSE

\* A new alarm takes the place of one that is no more urgent.
Raise(a) ==
  /\ Rank[a] >= Rank[alarm]
  /\ alarm' = a
  /\ valve' = IF a \in Shutting THEN "shut" ELSE valve
  /\ lock' = (lock \/ a \in Locking)

\* An alarm or learning ends; valve and lock stay as they are.
Clear ==
  /\ alarm' = "none"
  /\ UNCHANGED <<valve, lock>>

Open ==
  /\ alarm \in Obeying
  /\ alarm' = "none" /\ valve' = "open" /\ lock' = FALSE

\* Asked to open, a bad valve is only unlocked.
Unlock ==
  /\ alarm \in {"none", "lost"}
  /\ lock' = FALSE
  /\ UNCHANGED <<alarm, valve>>

\* Some commands lock as well; a bad valve keeps the warning on display.
Close ==
  /\ alarm \in Obeying
  /\ alarm' \in {"none", alarm} /\ valve' = "shut" /\ lock' \in {lock, TRUE}

Learn ==
  /\ alarm \in {"none", "lost"}
  /\ alarm' = "learning"
  /\ UNCHANGED <<valve, lock>>

\* Every reset shuts the valve; a remembered leak is alarmed at once, and only a
\* factory reset forgets the lock.
Reset ==
  /\ valve' = "shut"
  /\ \/ alarm' = "leak" /\ lock' = TRUE
     \/ alarm' = "none" /\ lock' \in {lock, FALSE}

Next ==
  \/ \E a \in DOMAIN Rank \ {"none", "learning"} : Raise(a)
  \/ Clear \/ Open \/ Unlock \/ Close \/ Learn \/ Reset

Spec == Init /\ [][Next]_avars

\* A leak or an exhausted sensor keeps the valve shut and locked, a silent sensor
\* keeps it shut, and a locked valve is shut.
Safe ==
  /\ alarm \in Locking => lock
  /\ alarm \in Shutting => valve = "shut"
  /\ lock => valve = "shut"

=============================================================================
