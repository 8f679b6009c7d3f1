---------------------------- MODULE DeviceStore ----------------------------
(***************************************************************************)
(* How the device list of storage/flashwork.c is kept in RAM and in flash: *)
(* the bitmap total_slot with its flash key "slot", and one node per slot  *)
(* with its flash record "index:<slot>".  The two are separate writes, and *)
(* deleting a device leaves its record behind.                             *)
(*                                                                         *)
(* Four parties touch it: the RF thread (create, delete, flags), the RTC   *)
(* thread (which saves a node it found in the list), the two-key factory   *)
(* reset (which erases the flash and resets three seconds later), and the  *)
(* power supply.  flash_mutex is held by the RF thread from the moment a   *)
(* node is in the list until its record is written.                        *)
(*                                                                         *)
(* A node is kept at its slot.  The list order of the code matters only    *)
(* where two nodes have one address; such nodes come from the flash, which *)
(* is read in slot order.                                                  *)
(***************************************************************************)
EXTENDS Integers, FiniteSets, Functions

CONSTANTS Id,       \* device addresses
          NSlots    \* MAX_SLAVER_DEVICE

ASSUME NSlotsAssumption == NSlots \in Nat \ {0}

Slot == 0 .. NSlots - 1

\* Of the flags in a node, the one that must survive a reset.
Node == [id : Id, waterleak : 0..1]

\* A list or a flash area holds nodes at some of the slots.
Nodes == UNION {[S -> Node] : S \in SUBSET Slot}

Nowhere == [s \in {} |-> 0]

Put(f, s, n) == [t \in DOMAIN f \cup {s} |-> IF t = s THEN n ELSE f[t]]

VARIABLES
  total_slot,  \* RAM: the bitmap, as the set of taken slots
  node,        \* RAM: the nodes of _device_list
  slot_key,    \* flash: the key "slot"
  index,       \* flash: the records "index:<slot>"
  create,      \* how far aq_device_create is, and the slot it took
  held,        \* the node the RTC thread is about to save
  window,      \* between the factory erase and its reset: "open", and
               \* "written" once the key "slot" has been written in it
  learnt,      \* history: the addresses learnt and neither deleted nor erased since
  mishap       \* history: what has gone wrong so far

ram == <<total_slot, node, create, held>>
flash == <<slot_key, index>>
vars == <<total_slot, node, slot_key, index, create, held, window, learnt, mishap>>

Mishap == {"no memory", "torn create", "write after erase", "freed node saved"}

NotCreating == [step |-> "idle", slot |-> 0]
NothingHeld == [state |-> "none", slot |-> 0, content |-> Nowhere]

Init ==
  /\ total_slot = {} /\ slot_key = {}
  /\ node = Nowhere /\ index = Nowhere
  /\ create = NotCreating /\ held = NothingHeld
  /\ window = "none" /\ learnt = {} /\ mishap = {}

-----------------------------------------------------------------------------
(* The RF thread.                                                          *)

RfIdle == create.step = "idle"

SlotsOf(d) == {s \in DOMAIN node : node[s].id = d}

\* Seeded fault: an address that is already there is not looked for.
Faulty_aq_device_find(d) == FALSE

aq_device_find(d) == SlotsOf(d) # {}

Lowest(S) == CHOOSE s \in S : \A t \in S : s <= t

FreeSlots == Slot \ total_slot

get_free_device_slot == Lowest(FreeSlots)

\* Seeded fault: the slot is handed out and its bit is not set.
Faulty_TakeSlot == UNCHANGED total_slot

TakeSlot == total_slot' = total_slot \cup {get_free_device_slot}

\* aq_device_create up to the list: the slot is taken, the node appended.
\* (Only slots below MAX_SLAVER_DEVICE are handed out, so the test
\* total_slot > 4095 is never true.)
CreateAppend(d) ==
  /\ RfIdle /\ ~aq_device_find(d) /\ FreeSlots # {}
  /\ TakeSlot
  /\ node' = Put(node, get_free_device_slot, [id |-> d, waterleak |-> 0])
  /\ create' = [step |-> "slot", slot |-> get_free_device_slot]
  /\ UNCHANGED <<flash, held, window, learnt, mishap>>

\* rt_malloc fails: the early return keeps the slot taken in RAM.
CreateNoMemory(d) ==
  /\ RfIdle /\ ~aq_device_find(d) /\ FreeSlots # {}
  /\ TakeSlot
  /\ mishap' = mishap \cup {"no memory"}
  /\ UNCHANGED <<node, flash, create, held, window, learnt>>

\* flash_set_key("slot", ...): the key takes the bitmap given.
SaveSlotKey(bits) ==
  /\ slot_key' = bits
  /\ IF window = "none"
     THEN UNCHANGED <<window, mishap>>
     ELSE window' = "written" /\ mishap' = mishap \cup {"write after erase"}

CreateSaveSlot ==
  /\ create.step = "slot"
  /\ SaveSlotKey(total_slot)
  /\ create' = [create EXCEPT !.step = "record"]
  /\ UNCHANGED <<total_slot, node, index, held, learnt>>

CreateSaveRecord ==
  /\ create.step = "record"
  /\ index' = Put(index, create.slot, node[create.slot])
  /\ create' = NotCreating
  /\ learnt' = IF window = "none" THEN learnt \cup {node[create.slot].id} ELSE learnt
  /\ UNCHANGED <<total_slot, node, slot_key, held, window, mishap>>

\* Seeded fault: the bitmap is corrected in RAM only.
Faulty_aq_device_delete(d) ==
  /\ RfIdle /\ aq_device_find(d)
  /\ LET s == Lowest(SlotsOf(d))
     IN  /\ total_slot' = total_slot \ {s}
         /\ node' = Restrict(node, DOMAIN node \ {s})
  /\ learnt' = learnt \ {d}
  /\ UNCHANGED <<flash, create, held, window, mishap>>

\* The first node with the address goes; its record stays in flash.  The RTC
\* thread may still hold a pointer to the freed node.
aq_device_delete(d) ==
  /\ RfIdle /\ aq_device_find(d)
  /\ LET s == Lowest(SlotsOf(d))
     IN  /\ total_slot' = total_slot \ {s}
         /\ SaveSlotKey(total_slot \ {s})
         /\ node' = Restrict(node, DOMAIN node \ {s})
         /\ held' = IF held.state = "live" /\ held.slot = s
                    THEN [held EXCEPT !.state = "freed", !.content = Put(Nowhere, s, node[s])]
                    ELSE held
  /\ learnt' = learnt \ {d}
  /\ UNCHANGED <<index, create>>

\* Seeded fault: the flag is set in RAM only.
Faulty_aq_device_waterleak_set(d, value) ==
  /\ RfIdle /\ {s \in SlotsOf(d) : node[s].waterleak # value} # {}
  /\ node' = [s \in DOMAIN node |->
                IF s \in SlotsOf(d) THEN [node[s] EXCEPT !.waterleak = value] ELSE node[s]]
  /\ UNCHANGED <<total_slot, flash, create, held, window, learnt, mishap>>

\* Every node with the address takes the flag and, if that changed it, is saved.
aq_device_waterleak_set(d, value) ==
  LET changed == {s \in SlotsOf(d) : node[s].waterleak # value}
      flagged == [s \in changed |-> [node[s] EXCEPT !.waterleak = value]]
  IN  /\ RfIdle /\ changed # {}
      /\ node' = [s \in DOMAIN node |-> IF s \in changed THEN flagged[s] ELSE node[s]]
      /\ index' = [s \in DOMAIN index \cup changed |->
                     IF s \in changed THEN flagged[s] ELSE index[s]]
      /\ UNCHANGED <<total_slot, slot_key, create, held, window, learnt, mishap>>

-----------------------------------------------------------------------------
(* The RTC thread's sweep (aq_device_online_set): a node is picked without *)
(* the mutex and saved under it.                                           *)

SweepPick(s) ==
  /\ held.state = "none" /\ s \in DOMAIN node
  /\ held' = [state |-> "live", slot |-> s, content |-> Nowhere]
  /\ UNCHANGED <<total_slot, node, flash, create, window, learnt, mishap>>

SweepSave ==
  /\ held.state = "live" /\ RfIdle
  /\ index' = Put(index, held.slot, node[held.slot])
  /\ held' = NothingHeld
  /\ UNCHANGED <<total_slot, node, slot_key, create, window, learnt, mishap>>

\* The node was freed meanwhile: its memory still holds it, or has become a
\* newer node, whose own record is then written once more.
SweepSaveFreed ==
  /\ held.state = "freed" /\ RfIdle
  /\ \/ /\ index' = Put(index, held.slot, held.content[held.slot])
        /\ mishap' = mishap \cup {"freed node saved"}
     \/ UNCHANGED <<index, mishap>>
  /\ held' = NothingHeld
  /\ UNCHANGED <<total_slot, node, slot_key, create, window, learnt>>

-----------------------------------------------------------------------------
(* Resets.                                                                 *)

\* Seeded fault: every record found is loaded, whatever the bitmap says.
Faulty_read_device_from_flash == index

\* The list the flash would give: taken slots that have a record.
read_device_from_flash == Restrict(index, slot_key \cap DOMAIN index)

Boot ==
  /\ total_slot' = slot_key
  /\ node' = read_device_from_flash
  /\ create' = NotCreating
  /\ held' = NothingHeld
  /\ window' = "none"
  /\ mishap' = IF create.step = "record" THEN mishap \cup {"torn create"} ELSE mishap
  /\ UNCHANGED <<flash, learnt>>

PowerLoss == Boot

\* ef_env_set_default: the flash is empty, RAM and its users are not told.
FactoryErase ==
  /\ window = "none"
  /\ slot_key' = {} /\ index' = Nowhere
  /\ window' = "open"
  /\ learnt' = {}
  /\ UNCHANGED <<ram, mishap>>

\* rt_hw_cpu_reset, three seconds after the erase.  The RF thread sleeps inside
\* flash writes, so this reset too can meet a create half done.
FactoryReset ==
  /\ window # "none"
  /\ Boot

-----------------------------------------------------------------------------

Next ==
  \/ \E d \in Id :
       \/ CreateAppend(d)
       \/ CreateNoMemory(d)
       \/ aq_device_delete(d)
       \/ \E value \in 0..1 : aq_device_waterleak_set(d, value)
  \/ CreateSaveSlot
  \/ CreateSaveRecord
  \/ \E s \in Slot : SweepPick(s)
  \/ SweepSave
  \/ SweepSaveFreed
  \/ PowerLoss
  \/ FactoryErase
  \/ FactoryReset

Spec == Init /\ [][Next]_vars

-----------------------------------------------------------------------------
(* What the store promises.                                                *)

\* Every variable keeps its type, and every node of the list owns a taken slot:
\* get_free_device_slot never hands out a slot whose record is in use.
TypeOK ==
  /\ total_slot \subseteq Slot /\ slot_key \subseteq Slot
  /\ node \in Nodes /\ index \in Nodes
  /\ create \in [step : {"idle", "slot", "record"}, slot : Slot]
  /\ held \in [state : {"none", "live", "freed"}, slot : Slot, content : Nodes]
  /\ window \in {"none", "open", "written"}
  /\ learnt \subseteq Id /\ mishap \subseteq Mishap
  /\ DOMAIN node \subseteq total_slot

\* Slots that are taken and hold no node.
Phantom == total_slot \ DOMAIN node

\* At any moment outside the factory window a reset would give back every device
\* of the list, with its leak flag: all but the one being created, unless the
\* sweep has saved a freed node.
ResetKeepsDevices ==
  window = "none" /\ "freed node saved" \notin mishap
    => \A s \in DOMAIN node :
         \/ s = create.slot /\ ~RfIdle
         \/ s \in DOMAIN read_device_from_flash /\ read_device_from_flash[s] = node[s]

\* A reset adds a device only at a slot that is taken in RAM and holds no node,
\* as a failed rt_malloc or an earlier torn create leaves it: the record of a
\* deleted device is never read back from a free slot.
ResetAddsOnlyPhantoms ==
  window = "none"
    => \A s \in DOMAIN read_device_from_flash \ DOMAIN node : s \in Phantom

\* As long as no mishap has occurred, however many resets there were, the list is
\* exactly what was learnt and not deleted, every address once, and no slot is lost.
ExactWithoutMishap ==
  mishap = {} /\ window = "none" /\ RfIdle
    => /\ Phantom = {}
       /\ {node[s].id : s \in DOMAIN node} = learnt
       /\ \A s, t \in DOMAIN node : node[s].id = node[t].id => s = t

\* A factory reset in whose three seconds no device was created or deleted leaves
\* an empty list with every slot free, even if flags were saved meanwhile.
FactoryResetEmpties ==
  [][FactoryReset /\ window = "open" => node' = Nowhere /\ total_slot' = {}]_vars

=============================================================================
