----------------------------- MODULE DeviceList ----------------------------
(***************************************************************************)
(* The list of learnt devices, storage/flashwork.c, as the protocol        *)
(* handlers see it: which addresses are known, and the flags of each.      *)
(* A list is a record of sets of addresses.  Every setter saves the device *)
(* to flash when it changes a flag, so the same record stands for RAM and  *)
(* flash; recv is the exception (no mark of it survives a reset).  The     *)
(* stored battery and rssi levels are only ever uploaded.                  *)
(***************************************************************************)
EXTENDS Integers, FiniteSets

CONSTANTS EndUnit, DoorUnit, Motion, Gateway,  \* addresses, by device type
          MaxSlaver                            \* MAX_SLAVER_DEVICE

Device == EndUnit \cup DoorUnit \cup Motion \cup Gateway

ASSUME DeviceAssumption ==
  /\ IsFiniteSet(Device)
  /\ EndUnit \cap (DoorUnit \cup Motion \cup Gateway) = {}
  /\ DoorUnit \cap (Motion \cup Gateway) = {}
  /\ Motion \cap Gateway = {}

ASSUME MaxSlaverAssumption == MaxSlaver \in Nat

List == [known     : SUBSET Device,
         waterleak : SUBSET Device,
         wirelost  : SUBSET Device,
         offline   : SUBSET Device,    \* online == 0
         recv      : SUBSET Device]

EmptyList == [known |-> {}, waterleak |-> {}, wirelost |-> {}, offline |-> {}, recv |-> {}]

\* Seeded fault: the leak flag outlives the device.
Faulty_Without(l, D) == [l EXCEPT !.known = @ \ D, !.wirelost = @ \ D,
                                  !.offline = @ \ D, !.recv = @ \ D]

\* The flags of a device live in its node: dropping the node drops them.
Without(l, D) == [known |-> l.known \ D, waterleak |-> l.waterleak \ D,
                  wirelost |-> l.wirelost \ D, offline |-> l.offline \ D,
                  recv |-> l.recv \ D]

aq_device_find(l, d) == d \in l.known

aq_device_delete(l, d) == Without(l, {d})
aq_gateway_delete(l)   == Without(l, Gateway)

\* Seeded fault: the old door unit stays.
Faulty_aq_doorunit_delete(l) == l

aq_doorunit_delete(l)  == Without(l, DoorUnit)

\* One slot per known device: no slot is free when MaxSlaver are known
\* (the test total_slot > 4095 before it is then still false).
CanCreate(l, d) == d \in l.known \/ Cardinality(l.known) < MaxSlaver

aq_device_create(l, d) == [l EXCEPT !.known = @ \cup {d}]

SetFlag(flags, d, value) == IF value = 1 THEN flags \cup {d} ELSE flags \ {d}

aq_device_waterleak_set(l, d, value) == [l EXCEPT !.waterleak = SetFlag(@, d, value)]
aq_device_wirelost_set(l, d, value)  == [l EXCEPT !.wirelost = SetFlag(@, d, value)]

aq_device_waterleak_find(l)       == l.waterleak # {}
aq_device_wirelost_find(l)        == l.wirelost # {}
aq_device_endunit_offline_find(l) == l.offline \cap EndUnit # {}

aq_device_recv_set(l, d) == [l EXCEPT !.recv = @ \cup {d}]

\* A frame of a known device: it has been heard, and it is online.
aq_device_heart_recv(l, d) == [l EXCEPT !.recv = @ \cup {d}, !.offline = @ \ {d}]

\* The gateway's record is saved only when it is created, before it is heard.
read_device_from_flash(l) == [l EXCEPT !.recv = @ \ Gateway]

aq_device_heart_recv_clear(l) == [l EXCEPT !.recv = @ \cap Gateway]

\* The sweep of aq_device_heart_check: unheard since the last one is offline.
heart_sweep(l) ==
  [l EXCEPT !.offline = @ \cup ((l.known \ Gateway) \ l.recv),
            !.recv = @ \cap Gateway]

\* gateway_heart_check of heart.c: the gateway's mark is consumed every hour.
gateway_heart_check(l) == [l EXCEPT !.recv = @ \ Gateway]

=============================================================================
