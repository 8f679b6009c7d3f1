-------------------------- MODULE AlarmValveProofs -------------------------
(***************************************************************************)
(* What the abstract specification gives the house.  Safe is inductive: no *)
(* strengthening is needed, which is why it is stated there and not in     *)
(* terms of DeviceStatus and the stored priority.                          *)
(***************************************************************************)
EXTENDS AlarmValve, TLAPS

LEMMA RaiseSafe ==
  ASSUME Safe, NEW a \in DOMAIN Rank \ {"none", "learning"}, Raise(a)
  PROVE  Safe'
<1>1. /\ alarm' = a
      /\ valve' = IF a \in Shutting THEN "shut" ELSE valve
      /\ lock' = (lock \/ a \in Locking)
  BY DEF Raise
<1>2. Locking \subseteq Shutting
  BY DEF Locking, Shutting
<1>3. CASE a \in Shutting
  BY <1>1, <1>3, Zenon DEF Safe
<1>4. CASE a \notin Shutting
  BY <1>1, <1>2, <1>4, Zenon DEF Safe
<1>5. QED BY <1>3, <1>4

\* In every behaviour AlarmValve allows, a leak or an exhausted sensor has the
\* valve shut and locked, a silent sensor has it shut, and a locked valve is shut:
\* what the seven handlers of the code that can open a valve are guarded for.
THEOREM HouseSafe == Spec => []Safe
<1> USE DEF Locking, Shutting, Obeying
<1>1. Init => Safe
  BY DEF Init, Safe
<1>2. Safe /\ [Next]_avars => Safe'
  <2> SUFFICES ASSUME Safe, [Next]_avars PROVE Safe'
    OBVIOUS
  <2>1. ASSUME NEW a \in DOMAIN Rank \ {"none", "learning"}, Raise(a) PROVE Safe'
    BY <2>1, RaiseSafe
  <2>2. CASE Clear
    BY <2>2 DEF Clear, Safe
  <2>3. CASE Open
    BY <2>3, Zenon DEF Open, Safe
  <2>4. CASE Unlock
    BY <2>4, Zenon DEF Unlock, Safe
  <2>5. CASE Close
    BY <2>5, Zenon DEF Close, Safe
  <2>6. CASE Learn
    BY <2>6 DEF Learn, Safe
  <2>7. CASE Reset
    BY <2>7, Zenon DEF Reset, Safe
  <2>8. CASE UNCHANGED avars
    BY <2>8 DEF avars, Safe
  <2>9. QED BY <2>1, <2>2, <2>3, <2>4, <2>5, <2>6, <2>7, <2>8 DEF Next
<1>3. QED BY <1>1, <1>2, PTL DEF Spec

=============================================================================
