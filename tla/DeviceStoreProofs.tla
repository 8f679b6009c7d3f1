------------------------- MODULE DeviceStoreProofs -------------------------
(***************************************************************************)
(* Proofs about DeviceStore, for any addresses and any number of slots.    *)
(*                                                                         *)
(* The invariants of the module are not inductive as they stand.  What     *)
(* they need besides: a create under way has its node in the list, the     *)
(* sweep's pointer is to a node of the list until the node is freed        *)
(* (Pointed); outside the factory window the key in flash names no slot    *)
(* that is free in RAM, and inside it is empty until written (Keyed); and  *)
(* without a mishap the key lags behind the bitmap by the slot of a create *)
(* that has not saved it yet, and nothing else (Exact).                    *)
(***************************************************************************)
EXTENDS DeviceStore, WellFoundedInduction, TLAPS

Pointed ==
  /\ ~RfIdle => create.slot \in DOMAIN node
  /\ held.state = "live" => held.slot \in DOMAIN node
  /\ held.state = "freed" => held.slot \in DOMAIN held.content

Keyed ==
  /\ window = "none" => slot_key \subseteq total_slot
  /\ window = "open" => slot_key = {}
  /\ create.step = "record" /\ window = "none" => create.slot \in slot_key

\* The slots whose create has not come to an end.
Creating == IF RfIdle THEN {} ELSE {create.slot}
Unsaved == IF create.step = "slot" THEN {create.slot} ELSE {}

Exact ==
  /\ mishap = {} /\ window = "none" =>
       /\ total_slot = DOMAIN node
       /\ slot_key = total_slot \ Unsaved
       /\ \A s \in DOMAIN node \ Creating : node[s].id \in learnt
       /\ \A d \in learnt : \E s \in DOMAIN node \ Creating : node[s].id = d
       /\ \A s, t \in DOMAIN node : node[s].id = node[t].id => s = t
  /\ mishap = {} /\ window # "none" => window = "open" /\ learnt = {}

\* A node of the list that flash holds as it is.
Kept(s) == s \in slot_key /\ s \in DOMAIN index /\ index[s] = node[s]

AllKept == \A s \in DOMAIN node \ Creating : Kept(s)

\* ResetKeepsDevices in these terms.
Keeps == window = "none" /\ "freed node saved" \notin mishap => AllKept

IInv == TypeOK /\ Pointed /\ Keyed /\ Keeps /\ Exact

-----------------------------------------------------------------------------
(* Sets of slots and lists of nodes.                                       *)

\* get_free_device_slot hands out a free slot, a delete finds a node.
LEMMA LowestIn ==
  ASSUME NEW S \in SUBSET Slot, S # {}
  PROVE  Lowest(S) \in S
<1>1. S \subseteq Nat
  BY NSlotsAssumption DEF Slot
<1>2. PICK s \in S : \A t \in S : <<t, s>> \notin OpToRel(<, Nat)
  BY <1>1, NatLessThanWellFounded, WFMin, Zenon
<1>3. \A t \in S : ~(t < s)
  BY <1>1, <1>2, Zenon DEF OpToRel
<1>4. \A t \in S : s <= t
  BY <1>1, <1>3
<1>5. QED BY <1>4 DEF Lowest

\* A list is a function from some slots to nodes.
LEMMA NodesIs ==
  ASSUME NEW f
  PROVE  f \in Nodes <=> /\ f = [s \in DOMAIN f |-> f[s]]
                         /\ DOMAIN f \subseteq Slot
                         /\ \A s \in DOMAIN f : f[s] \in Node
BY DEF Nodes

LEMMA PutNodes ==
  ASSUME NEW f \in Nodes, NEW s \in Slot, NEW n \in Node
  PROVE  Put(f, s, n) \in Nodes /\ DOMAIN Put(f, s, n) = DOMAIN f \cup {s}
<1>1. DOMAIN Put(f, s, n) = DOMAIN f \cup {s}
  BY DEF Put
<1>2. \A t \in DOMAIN f \cup {s} : Put(f, s, n)[t] = IF t = s THEN n ELSE f[t]
  BY DEF Put
<1>3. Put(f, s, n) = [t \in DOMAIN Put(f, s, n) |-> Put(f, s, n)[t]]
  BY DEF Put
<1>4. QED BY <1>1, <1>2, <1>3, NodesIs

LEMMA RestrictNodes ==
  ASSUME NEW f \in Nodes, NEW S \in SUBSET DOMAIN f
  PROVE  /\ Restrict(f, S) \in Nodes
         /\ DOMAIN Restrict(f, S) = S
         /\ \A t \in S : Restrict(f, S)[t] = f[t]
<1>1. DOMAIN Restrict(f, S) = S /\ \A t \in S : Restrict(f, S)[t] = f[t]
  BY DEF Restrict
<1>2. Restrict(f, S) = [t \in DOMAIN Restrict(f, S) |-> Restrict(f, S)[t]]
  BY DEF Restrict
<1>3. QED BY <1>1, <1>2, NodesIs

\* The empty list.
LEMMA NowhereNodes == Nowhere \in Nodes /\ DOMAIN Nowhere = {}
BY NodesIs DEF Nowhere

\* A new node, and a node with its flag changed.
LEMMA NewNode == \A d \in Id : [id |-> d, waterleak |-> 0] \in Node
BY DEF Node

\* What aq_device_waterleak_set does to the list: addresses stay, and a node and
\* its record are equal afterwards if they are both written or both left alone.
LEMMA WaterleakSetFacts ==
  ASSUME TypeOK, NEW d \in Id, NEW value \in 0..1, aq_device_waterleak_set(d, value)
  PROVE  /\ node' \in Nodes /\ index' \in Nodes
         /\ DOMAIN node' = DOMAIN node /\ DOMAIN index \subseteq DOMAIN index'
         /\ \A s \in DOMAIN node : node'[s].id = node[s].id
         /\ \A s \in DOMAIN node :
               \/ s \in DOMAIN index' /\ index'[s] = node'[s]
               \/ /\ node'[s] = node[s]
                  /\ s \in DOMAIN index => index'[s] = index[s]
<1> DEFINE changed == {s \in SlotsOf(d) : node[s].waterleak # value}
           flagged(s) == [node[s] EXCEPT !.waterleak = value]
<1>1. node \in Nodes /\ index \in Nodes
  BY DEF TypeOK
<1>2. /\ node' = [s \in DOMAIN node |-> IF s \in changed THEN flagged(s) ELSE node[s]]
      /\ index' = [s \in DOMAIN index \cup changed |-> IF s \in changed THEN flagged(s) ELSE index[s]]
  BY DEF aq_device_waterleak_set
<1>3. changed \subseteq DOMAIN node
  BY DEF SlotsOf
<1>4. \A s \in DOMAIN node : node[s] \in Node /\ s \in Slot
  BY <1>1, NodesIs
<1>5. \A s \in changed : flagged(s) \in Node /\ flagged(s).id = node[s].id
  BY <1>3, <1>4 DEF Node
<1> HIDE DEF changed, flagged
<1>6. DOMAIN node' = DOMAIN node /\ DOMAIN index' = DOMAIN index \cup changed
  BY <1>2
<1>7. /\ \A s \in DOMAIN node : node'[s] = IF s \in changed THEN flagged(s) ELSE node[s]
      /\ \A s \in DOMAIN index' : index'[s] = IF s \in changed THEN flagged(s) ELSE index[s]
  BY <1>2
<1>8. node' \in Nodes
  <2>1. node' = [s \in DOMAIN node' |-> node'[s]]
    BY <1>2
  <2>2. QED BY <1>4, <1>5, <1>6, <1>7, <2>1, NodesIs
<1>9. index' \in Nodes
  <2>1. index' = [s \in DOMAIN index' |-> index'[s]]
    BY <1>2
  <2>2. \A s \in DOMAIN index : index[s] \in Node /\ s \in Slot
    BY <1>1, NodesIs
  <2>3. QED BY <1>3, <1>4, <1>5, <1>6, <1>7, <2>1, <2>2, NodesIs
<1>10. \A s \in DOMAIN node : node'[s].id = node[s].id
  BY <1>5, <1>7
<1>11. QED BY <1>3, <1>6, <1>7, <1>8, <1>9, <1>10

\* What a reset loads.
LEMMA BootFacts ==
  ASSUME TypeOK, Boot
  PROVE  /\ node' \in Nodes
         /\ DOMAIN node' = slot_key \cap DOMAIN index
         /\ \A s \in DOMAIN node' : node'[s] = index[s]
         /\ total_slot' = slot_key /\ window' = "none"
         /\ create' = NotCreating /\ held' = NothingHeld
         /\ UNCHANGED <<slot_key, index, learnt>>
         /\ mishap' \in SUBSET Mishap /\ mishap \subseteq mishap'
         /\ mishap' = {} => create.step # "record"
<1>1. index \in Nodes /\ mishap \subseteq Mishap
  BY DEF TypeOK
<1>2. mishap' = IF create.step = "record" THEN mishap \cup {"torn create"} ELSE mishap
  BY DEF Boot
<1>3. mishap' \in SUBSET Mishap /\ mishap \subseteq mishap' /\ (mishap' = {} => create.step # "record")
  BY <1>1, <1>2 DEF Mishap
<1>4. node' = Restrict(index, slot_key \cap DOMAIN index)
  BY DEF Boot, read_device_from_flash
<1>5. /\ node' \in Nodes /\ DOMAIN node' = slot_key \cap DOMAIN index
      /\ \A s \in DOMAIN node' : node'[s] = index[s]
  BY <1>1, <1>4, RestrictNodes
<1>6. /\ total_slot' = slot_key /\ window' = "none"
      /\ create' = NotCreating /\ held' = NothingHeld
      /\ UNCHANGED <<slot_key, index, learnt>>
  BY DEF Boot, flash
<1>7. QED BY <1>3, <1>5, <1>6

\* A slot that a create takes is new to the list.
LEMMA FreeSlotFacts ==
  ASSUME TypeOK, FreeSlots # {}
  PROVE  get_free_device_slot \in Slot \ total_slot /\ get_free_device_slot \notin DOMAIN node
<1>1. FreeSlots \in SUBSET Slot /\ FreeSlots = Slot \ total_slot
  BY DEF FreeSlots
<1>2. get_free_device_slot \in FreeSlots
  BY <1>1, LowestIn DEF get_free_device_slot
<1>3. QED BY <1>1, <1>2 DEF TypeOK

\* What a delete takes out of the list.
LEMMA DeleteFacts ==
  ASSUME TypeOK, NEW d \in Id, aq_device_delete(d)
  PROVE  \E s \in DOMAIN node :
           /\ node[s].id = d
           /\ total_slot' = total_slot \ {s} /\ slot_key' = total_slot \ {s}
           /\ node' \in Nodes /\ DOMAIN node' = DOMAIN node \ {s}
           /\ \A t \in DOMAIN node' : node'[t] = node[t]
           /\ learnt' = learnt \ {d}
           /\ UNCHANGED <<index, create>> /\ RfIdle
           /\ IF window = "none" THEN UNCHANGED <<window, mishap>>
              ELSE window' = "written" /\ mishap' = mishap \cup {"write after erase"}
           /\ held' = IF held.state = "live" /\ held.slot = s
                      THEN [held EXCEPT !.state = "freed", !.content = Put(Nowhere, s, node[s])]
                      ELSE held
<1>1. SlotsOf(d) # {} /\ SlotsOf(d) \in SUBSET DOMAIN node
  BY DEF aq_device_delete, aq_device_find, SlotsOf
<1>2. node \in Nodes
  BY DEF TypeOK
<1>3. SlotsOf(d) \in SUBSET Slot
  BY <1>1, <1>2, NodesIs
<1> DEFINE s == Lowest(SlotsOf(d))
<1>4. s \in SlotsOf(d)
  BY <1>1, <1>3, LowestIn
<1>5. s \in DOMAIN node /\ node[s].id = d
  BY <1>4 DEF SlotsOf
<1>6. /\ total_slot' = total_slot \ {s} /\ slot_key' = total_slot \ {s}
      /\ node' = Restrict(node, DOMAIN node \ {s})
      /\ learnt' = learnt \ {d}
      /\ UNCHANGED <<index, create>> /\ RfIdle
      /\ IF window = "none" THEN UNCHANGED <<window, mishap>>
         ELSE window' = "written" /\ mishap' = mishap \cup {"write after erase"}
      /\ held' = IF held.state = "live" /\ held.slot = s
                 THEN [held EXCEPT !.state = "freed", !.content = Put(Nowhere, s, node[s])]
                 ELSE held
  BY DEF aq_device_delete, SaveSlotKey
<1> HIDE DEF s
<1>7. /\ node' \in Nodes /\ DOMAIN node' = DOMAIN node \ {s}
      /\ \A t \in DOMAIN node' : node'[t] = node[t]
  BY <1>2, <1>6, RestrictNodes
<1>8. QED BY <1>5, <1>6, <1>7

-----------------------------------------------------------------------------

LEMMA InitOK == Init => IInv
<1> SUFFICES ASSUME Init PROVE IInv
  OBVIOUS
<1>1. 0 \in Slot
  BY NSlotsAssumption DEF Slot
<1>2. /\ node = Nowhere /\ index = Nowhere /\ Nowhere \in Nodes /\ DOMAIN Nowhere = {}
      /\ total_slot = {} /\ slot_key = {} /\ learnt = {} /\ mishap = {} /\ window = "none"
      /\ create = [step |-> "idle", slot |-> 0]
      /\ held = [state |-> "none", slot |-> 0, content |-> Nowhere]
  BY NowhereNodes DEF Init, NotCreating, NothingHeld
<1>3. TypeOK
  BY <1>1, <1>2 DEF TypeOK
<1>4. Pointed /\ Keyed
  BY <1>2 DEF Pointed, Keyed, RfIdle
<1>5. Keeps
  BY <1>2 DEF Keeps, AllKept
<1>6. Exact
  BY <1>2 DEF Exact, Unsaved, Creating, RfIdle
<1>7. QED BY <1>3, <1>4, <1>5, <1>6 DEF IInv

LEMMA TypeStep == TypeOK /\ Pointed /\ [Next]_vars => TypeOK' /\ Pointed'
<1> SUFFICES ASSUME TypeOK, Pointed, [Next]_vars PROVE TypeOK' /\ Pointed'
  OBVIOUS
<1>0. /\ node \in Nodes /\ index \in Nodes /\ DOMAIN node \subseteq Slot /\ DOMAIN index \subseteq Slot
      /\ \A s \in DOMAIN node : node[s] \in Node
  BY NodesIs DEF TypeOK
<1> USE DEF Pointed, RfIdle, ram, flash
<1>1. ASSUME NEW d \in Id, CreateAppend(d) PROVE TypeOK' /\ Pointed'
  <2> DEFINE g == get_free_device_slot
             n == [id |-> d, waterleak |-> 0]
  <2>1. g \in Slot /\ g \notin DOMAIN node /\ n \in Node
    BY <1>1, FreeSlotFacts, NewNode DEF CreateAppend
  <2>2. /\ total_slot' = total_slot \cup {g} /\ node' = Put(node, g, n)
        /\ create' = [step |-> "slot", slot |-> g]
        /\ UNCHANGED <<slot_key, index, held, window, learnt, mishap>>
    BY <1>1 DEF CreateAppend, TakeSlot
  <2> HIDE DEF g, n
  <2>3. node' \in Nodes /\ DOMAIN node' = DOMAIN node \cup {g}
    BY <1>0, <2>1, <2>2, PutNodes
  <2>4. QED BY <2>1, <2>2, <2>3 DEF TypeOK
<1>2. ASSUME NEW d \in Id, CreateNoMemory(d) PROVE TypeOK' /\ Pointed'
  <2>1. get_free_device_slot \in Slot
    BY <1>2, FreeSlotFacts DEF CreateNoMemory
  <2>2. mishap' \subseteq Mishap
    BY <1>2 DEF CreateNoMemory, Mishap, TypeOK
  <2>3. QED BY <1>2, <2>1, <2>2 DEF CreateNoMemory, TakeSlot, TypeOK
<1>3. CASE CreateSaveSlot
  <2>1. window' \in {"none", "open", "written"} /\ mishap' \subseteq Mishap
    BY <1>3 DEF CreateSaveSlot, SaveSlotKey, Mishap, TypeOK
  <2>2. /\ create' \in [step : {"idle", "slot", "record"}, slot : Slot]
        /\ create'.slot = create.slot /\ create.step # "idle"
    BY <1>3 DEF CreateSaveSlot, TypeOK
  <2>3. QED BY <1>3, <2>1, <2>2 DEF CreateSaveSlot, SaveSlotKey, TypeOK
<1>4. CASE CreateSaveRecord
  <2>1. create.slot \in DOMAIN node /\ create.slot \in Slot /\ node[create.slot] \in Node
    BY <1>0, <1>4 DEF CreateSaveRecord, TypeOK
  <2>2. index' \in Nodes
    BY <1>0, <1>4, <2>1, PutNodes DEF CreateSaveRecord
  <2>3. learnt' \subseteq Id
    BY <1>4, <2>1 DEF CreateSaveRecord, TypeOK, Node
  <2>4. create' \in [step : {"idle", "slot", "record"}, slot : Slot] /\ create'.step = "idle"
    BY <1>4, NSlotsAssumption DEF CreateSaveRecord, NotCreating, Slot
  <2>5. QED BY <1>4, <2>2, <2>3, <2>4 DEF CreateSaveRecord, TypeOK
<1>5. ASSUME NEW d \in Id, aq_device_delete(d) PROVE TypeOK' /\ Pointed'
  <2>1. PICK s \in DOMAIN node :
          /\ total_slot' = total_slot \ {s} /\ slot_key' = total_slot \ {s}
          /\ node' \in Nodes /\ DOMAIN node' = DOMAIN node \ {s}
          /\ learnt' = learnt \ {d}
          /\ UNCHANGED <<index, create>> /\ RfIdle
          /\ IF window = "none" THEN UNCHANGED <<window, mishap>>
             ELSE window' = "written" /\ mishap' = mishap \cup {"write after erase"}
          /\ held' = IF held.state = "live" /\ held.slot = s
                     THEN [held EXCEPT !.state = "freed", !.content = Put(Nowhere, s, node[s])]
                     ELSE held
    BY <1>5, DeleteFacts
  <2>2. window' \in {"none", "open", "written"} /\ mishap' \subseteq Mishap
    BY <2>1 DEF Mishap, TypeOK
  <2>3. Put(Nowhere, s, node[s]) \in Nodes /\ DOMAIN Put(Nowhere, s, node[s]) = {s}
    <3>1. s \in Slot /\ node[s] \in Node
      BY <1>0
    <3>2. DOMAIN Put(Nowhere, s, node[s]) = DOMAIN Nowhere \cup {s}
      BY <3>1, NowhereNodes, PutNodes
    <3>3. QED BY <3>1, <3>2, NowhereNodes, PutNodes
  <2>4. /\ held' \in [state : {"none", "live", "freed"}, slot : Slot, content : Nodes]
        /\ held'.state = "live" => held'.slot \in DOMAIN node'
        /\ held'.state = "freed" => held'.slot \in DOMAIN held'.content
    <3>1. CASE held.state = "live" /\ held.slot = s
      <4> DEFINE q == Put(Nowhere, s, node[s])
                 f == "freed"
      <4>1. q \in Nodes /\ DOMAIN q = {s} /\ f \in {"none", "live", "freed"} /\ f = "freed"
        BY <2>3
      <4>2. held' = [held EXCEPT !.state = f, !.content = q]
        BY <2>1, <3>1
      <4> HIDE DEF q, f
      <4>3. QED BY <3>1, <4>1, <4>2 DEF TypeOK
    <3>2. CASE ~(held.state = "live" /\ held.slot = s)
      BY <2>1, <3>2 DEF TypeOK
    <3>3. QED BY <3>1, <3>2
  <2>5. QED BY <2>1, <2>2, <2>4 DEF TypeOK
<1>6. ASSUME NEW d \in Id, NEW value \in 0..1, aq_device_waterleak_set(d, value) PROVE TypeOK' /\ Pointed'
  <2>1. node' \in Nodes /\ index' \in Nodes /\ DOMAIN node' = DOMAIN node
    BY <1>6, WaterleakSetFacts
  <2>2. UNCHANGED <<total_slot, slot_key, create, held, window, learnt, mishap>>
    BY <1>6 DEF aq_device_waterleak_set
  <2>3. QED BY <2>1, <2>2 DEF TypeOK
<1>7. ASSUME NEW s \in Slot, SweepPick(s) PROVE TypeOK' /\ Pointed'
  <2>1. held' = [state |-> "live", slot |-> s, content |-> Nowhere] /\ s \in DOMAIN node
    BY <1>7 DEF SweepPick
  <2>2. UNCHANGED <<total_slot, node, slot_key, index, create, window, learnt, mishap>>
    BY <1>7 DEF SweepPick
  <2>3. QED BY <2>1, <2>2, NowhereNodes DEF TypeOK
<1>8. CASE SweepSave
  <2>1. held' = [state |-> "none", slot |-> 0, content |-> Nowhere] /\ 0 \in Slot
    BY <1>8, NSlotsAssumption DEF SweepSave, NothingHeld, Slot
  <2>2. index' \in Nodes
    <3>1. held.slot \in DOMAIN node /\ index' = Put(index, held.slot, node[held.slot])
      BY <1>8 DEF SweepSave
    <3>2. held.slot \in Slot /\ node[held.slot] \in Node
      BY <1>0, <3>1
    <3>3. QED BY <1>0, <3>1, <3>2, PutNodes
  <2>3. QED BY <1>8, <2>1, <2>2, NowhereNodes DEF SweepSave, TypeOK
<1>9. CASE SweepSaveFreed
  <2>1. held' = NothingHeld /\ UNCHANGED <<total_slot, node, slot_key, create, window, learnt>>
    BY <1>9 DEF SweepSaveFreed
  <2>2. held.content \in Nodes /\ held.slot \in DOMAIN held.content /\ held.slot \in Slot
    BY <1>9 DEF SweepSaveFreed, TypeOK
  <2>3. held.content[held.slot] \in Node
    BY <2>2, NodesIs
  <2>4. index' \in Nodes /\ mishap' \subseteq Mishap
    <3>1. CASE index' = Put(index, held.slot, held.content[held.slot])
               /\ mishap' = mishap \cup {"freed node saved"}
      <4>1. index' \in Nodes
        BY <1>0, <2>2, <2>3, <3>1, PutNodes
      <4>2. mishap' \subseteq Mishap
        BY <3>1 DEF Mishap, TypeOK
      <4>3. QED BY <4>1, <4>2
    <3>2. CASE UNCHANGED <<index, mishap>>
      BY <3>2 DEF TypeOK
    <3>3. QED BY <1>9, <3>1, <3>2 DEF SweepSaveFreed
  <2>5. held' = [state |-> "none", slot |-> 0, content |-> Nowhere] /\ 0 \in Slot
    BY <2>1, NSlotsAssumption DEF NothingHeld, Slot
  <2>6. QED BY <2>1, <2>4, <2>5, NowhereNodes DEF TypeOK
<1>10. CASE Boot
  <2>1. create' = [step |-> "idle", slot |-> 0] /\ 0 \in Slot
    BY <1>10, BootFacts, NSlotsAssumption DEF NotCreating, Slot
  <2>2. held' = [state |-> "none", slot |-> 0, content |-> Nowhere]
    BY <1>10, BootFacts DEF NothingHeld
  <2>3. QED BY <1>10, <2>1, <2>2, BootFacts, NowhereNodes DEF TypeOK
<1>11. CASE FactoryErase
  <2>1. index' \in Nodes /\ slot_key' = {} /\ window' = "open" /\ learnt' = {}
    BY <1>11, NowhereNodes DEF FactoryErase
  <2>2. QED BY <1>11, <2>1 DEF FactoryErase, TypeOK
<1>12. CASE UNCHANGED vars
  BY <1>12 DEF vars, TypeOK
<1>13. QED
  BY <1>1, <1>2, <1>3, <1>4, <1>5, <1>6, <1>7, <1>8, <1>9, <1>10, <1>11, <1>12
     DEF Next, PowerLoss, FactoryReset

\* The key in flash against the bitmap in RAM.
LEMMA KeyedStep == TypeOK /\ Pointed /\ Keyed /\ [Next]_vars => Keyed'
<1> SUFFICES ASSUME TypeOK, Pointed, Keyed, [Next]_vars PROVE Keyed'
  OBVIOUS
<1> USE DEF Keyed, ram, flash
<1>1. ASSUME NEW d \in Id, CreateAppend(d) \/ CreateNoMemory(d) PROVE Keyed'
  <2>1. /\ total_slot \subseteq total_slot' /\ UNCHANGED <<slot_key, window>>
        /\ create' = create \/ create'.step = "slot"
    <3>1. CASE CreateAppend(d)
      BY <3>1 DEF CreateAppend, TakeSlot
    <3>2. CASE CreateNoMemory(d)
      BY <3>2 DEF CreateNoMemory, TakeSlot
    <3>3. QED BY <1>1, <3>1, <3>2
  <2>2. QED BY <2>1
<1>2. CASE CreateSaveSlot
  <2>1. create.slot \in total_slot /\ create'.slot = create.slot /\ slot_key' = total_slot
    BY <1>2 DEF CreateSaveSlot, SaveSlotKey, TypeOK, Pointed, RfIdle
  <2>2. QED BY <1>2, <2>1 DEF CreateSaveSlot, SaveSlotKey
<1>3. CASE CreateSaveRecord
  BY <1>3 DEF CreateSaveRecord, NotCreating
<1>4. ASSUME NEW d \in Id, aq_device_delete(d) PROVE Keyed'
  <2>1. PICK s \in DOMAIN node :
          /\ total_slot' = total_slot \ {s} /\ slot_key' = total_slot \ {s}
          /\ IF window = "none" THEN UNCHANGED <<window, mishap>>
             ELSE window' = "written" /\ mishap' = mishap \cup {"write after erase"}
          /\ UNCHANGED create /\ RfIdle
    BY <1>4, DeleteFacts
  <2>2. QED BY <2>1 DEF RfIdle
<1>5. ASSUME NEW d \in Id, NEW value \in 0..1, aq_device_waterleak_set(d, value) PROVE Keyed'
  BY <1>5 DEF aq_device_waterleak_set
<1>6. ASSUME NEW s \in Slot, SweepPick(s) PROVE Keyed'
  BY <1>6 DEF SweepPick
<1>7. CASE SweepSave
  BY <1>7 DEF SweepSave
<1>8. CASE SweepSaveFreed
  <2>1. UNCHANGED <<total_slot, slot_key, window, create>>
    BY <1>8 DEF SweepSaveFreed
  <2>2. QED BY <2>1
<1>9. CASE Boot
  <2>1. total_slot' = slot_key /\ slot_key' = slot_key /\ window' = "none" /\ create'.step = "idle"
    BY <1>9, BootFacts DEF NotCreating
  <2>2. QED BY <2>1
<1>10. CASE FactoryErase
  BY <1>10 DEF FactoryErase
<1>11. CASE UNCHANGED vars
  BY <1>11 DEF vars
<1>12. QED
  BY <1>1, <1>2, <1>3, <1>4, <1>5, <1>6, <1>7, <1>8, <1>9, <1>10, <1>11
     DEF Next, PowerLoss, FactoryReset

LEMMA KeepsIs == TypeOK => (ResetKeepsDevices <=> Keeps)
<1> SUFFICES ASSUME TypeOK PROVE ResetKeepsDevices <=> Keeps
  OBVIOUS
<1>1. /\ DOMAIN read_device_from_flash = slot_key \cap DOMAIN index
      /\ \A s \in DOMAIN read_device_from_flash : read_device_from_flash[s] = index[s]
  BY RestrictNodes DEF read_device_from_flash, TypeOK
<1>2. QED BY <1>1 DEF ResetKeepsDevices, Keeps, AllKept, Kept, Creating

LEMMA KeepsStep == TypeOK /\ Pointed /\ Keyed /\ Keeps /\ [Next]_vars => Keeps'
<1> SUFFICES ASSUME TypeOK, Pointed, Keyed, Keeps, [Next]_vars,
                    window' = "none", "freed node saved" \notin mishap'
             PROVE  AllKept'
  BY DEF Keeps
<1>0. /\ node \in Nodes /\ index \in Nodes /\ DOMAIN node \subseteq total_slot
      /\ DOMAIN node \subseteq Slot
      /\ \A s \in DOMAIN node : node[s] \in Node
      /\ window = "none" /\ "freed node saved" \notin mishap => AllKept
  BY NodesIs DEF TypeOK, Keeps
<1> USE DEF AllKept, Kept, Creating, RfIdle, ram, flash
<1>1. ASSUME NEW d \in Id, CreateAppend(d) PROVE AllKept'
  <2> DEFINE g == get_free_device_slot
             n == [id |-> d, waterleak |-> 0]
  <2>1. g \in Slot /\ g \notin DOMAIN node /\ n \in Node
    BY <1>1, FreeSlotFacts, NewNode DEF CreateAppend
  <2>2. /\ node' = Put(node, g, n) /\ create.step = "idle"
        /\ create' = [step |-> "slot", slot |-> g]
        /\ UNCHANGED <<slot_key, index, window, mishap>>
    BY <1>1 DEF CreateAppend
  <2> HIDE DEF g, n
  <2>3. DOMAIN node' = DOMAIN node \cup {g} /\ \A t \in DOMAIN node : node'[t] = node[t]
    BY <2>1, <2>2 DEF Put
  <2>4. QED BY <1>0, <2>1, <2>2, <2>3
<1>2. ASSUME NEW d \in Id, CreateNoMemory(d) PROVE AllKept'
  <2>1. UNCHANGED <<node, slot_key, index, create, window>> /\ mishap \subseteq mishap'
    BY <1>2 DEF CreateNoMemory
  <2>2. QED BY <1>0, <2>1
<1>3. CASE CreateSaveSlot
  <2>1. /\ slot_key' = total_slot /\ window = "none" /\ UNCHANGED <<node, index, mishap>>
        /\ create'.slot = create.slot /\ create.step # "idle" /\ create'.step # "idle"
    BY <1>3 DEF CreateSaveSlot, SaveSlotKey, TypeOK
  <2>2. QED BY <1>0, <2>1
<1>4. CASE CreateSaveRecord
  <2>1. /\ create.slot \in DOMAIN node /\ index' = Put(index, create.slot, node[create.slot])
        /\ create.step = "record" /\ UNCHANGED <<node, slot_key, window, mishap>>
    BY <1>4 DEF CreateSaveRecord, Pointed
  <2>2. /\ DOMAIN index' = DOMAIN index \cup {create.slot} /\ index'[create.slot] = node[create.slot]
        /\ \A t \in DOMAIN index \ {create.slot} : index'[t] = index[t]
    BY <2>1 DEF Put
  <2>3. create.slot \in slot_key
    BY <2>1 DEF Keyed
  <2>4. QED BY <1>0, <2>1, <2>2, <2>3
<1>5. ASSUME NEW d \in Id, aq_device_delete(d) PROVE AllKept'
  <2>1. PICK s \in DOMAIN node :
          /\ slot_key' = total_slot \ {s}
          /\ DOMAIN node' = DOMAIN node \ {s} /\ \A t \in DOMAIN node' : node'[t] = node[t]
          /\ UNCHANGED <<index, create>> /\ RfIdle
          /\ IF window = "none" THEN UNCHANGED <<window, mishap>>
             ELSE window' = "written" /\ mishap' = mishap \cup {"write after erase"}
    BY <1>5, DeleteFacts
  <2>2. window = "none" /\ mishap' = mishap
    BY <2>1
  <2>3. QED BY <1>0, <2>1, <2>2
<1>6. ASSUME NEW d \in Id, NEW value \in 0..1, aq_device_waterleak_set(d, value) PROVE AllKept'
  <2>1. UNCHANGED <<slot_key, create, window, mishap>>
    BY <1>6 DEF aq_device_waterleak_set
  <2>2. /\ DOMAIN node' = DOMAIN node /\ DOMAIN index \subseteq DOMAIN index'
        /\ \A s \in DOMAIN node :
              \/ s \in DOMAIN index' /\ index'[s] = node'[s]
              \/ /\ node'[s] = node[s]
                 /\ s \in DOMAIN index => index'[s] = index[s]
    BY <1>6, WaterleakSetFacts
  <2>3. QED BY <1>0, <2>1, <2>2
<1>7. ASSUME NEW s \in Slot, SweepPick(s) PROVE AllKept'
  BY <1>0, <1>7 DEF SweepPick
<1>8. CASE SweepSave
  <2>1. /\ held.slot \in DOMAIN node /\ index' = Put(index, held.slot, node[held.slot])
        /\ UNCHANGED <<node, slot_key, create, window, mishap>>
    BY <1>8 DEF SweepSave, Pointed
  <2>2. /\ DOMAIN index' = DOMAIN index \cup {held.slot} /\ index'[held.slot] = node[held.slot]
        /\ \A t \in DOMAIN index \ {held.slot} : index'[t] = index[t]
    BY <2>1 DEF Put
  <2>3. QED BY <1>0, <2>1, <2>2
<1>9. CASE SweepSaveFreed
  <2>1. UNCHANGED <<node, slot_key, index, create, window, mishap>>
    BY <1>9 DEF SweepSaveFreed
  <2>2. QED BY <1>0, <2>1
<1>10. CASE Boot
  BY <1>10, BootFacts
<1>11. CASE FactoryErase
  BY <1>11 DEF FactoryErase
<1>12. CASE UNCHANGED vars
  BY <1>0, <1>12 DEF vars
<1>13. QED
  BY <1>1, <1>2, <1>3, <1>4, <1>5, <1>6, <1>7, <1>8, <1>9, <1>10, <1>11, <1>12
     DEF Next, PowerLoss, FactoryReset

\* Without a mishap the list, the bitmap, the key and the history agree.
LEMMA ExactStep == TypeOK /\ Pointed /\ Keyed /\ Keeps /\ Exact /\ [Next]_vars => Exact'
<1> SUFFICES ASSUME TypeOK, Pointed, Keyed, Keeps, Exact, [Next]_vars PROVE Exact'
  OBVIOUS
<1>0. DOMAIN node \subseteq total_slot /\ learnt \subseteq Id
  BY DEF TypeOK
<1> USE DEF Exact, Unsaved, Creating, RfIdle, ram, flash
<1>1. ASSUME NEW d \in Id, CreateAppend(d) PROVE Exact'
  <2> DEFINE g == get_free_device_slot
             n == [id |-> d, waterleak |-> 0]
  <2>1. g \notin total_slot /\ g \notin DOMAIN node /\ n.id = d
    BY <1>1, FreeSlotFacts DEF CreateAppend
  <2>2. /\ node' = Put(node, g, n) /\ create.step = "idle" /\ total_slot' = total_slot \cup {g}
        /\ create' = [step |-> "slot", slot |-> g]
        /\ UNCHANGED <<slot_key, window, learnt, mishap>>
    BY <1>1 DEF CreateAppend, TakeSlot
  <2>3. \A s \in DOMAIN node : node[s].id # d
    BY <1>1 DEF CreateAppend, aq_device_find, SlotsOf
  <2> HIDE DEF g, n
  <2>4. /\ DOMAIN node' = DOMAIN node \cup {g} /\ node'[g] = n
        /\ \A t \in DOMAIN node : node'[t] = node[t]
    BY <2>1, <2>2 DEF Put
  <2>5. create'.step = "slot" /\ create'.slot = g
    BY <2>2
  <2>6. QED BY <2>1, <2>2, <2>3, <2>4, <2>5
<1>2. ASSUME NEW d \in Id, CreateNoMemory(d) PROVE Exact'
  <2>1. mishap' # {}
    BY <1>2 DEF CreateNoMemory
  <2>2. QED BY <2>1
<1>3. CASE CreateSaveSlot
  <2>1. CASE window = "none"
    <3>1. /\ slot_key' = total_slot /\ UNCHANGED <<total_slot, node, window, learnt, mishap>>
          /\ create'.slot = create.slot /\ create.step = "slot" /\ create'.step = "record"
      BY <1>3, <2>1 DEF CreateSaveSlot, SaveSlotKey, TypeOK
    <3>2. QED BY <3>1
  <2>2. CASE window # "none"
    <3>1. mishap' # {}
      BY <1>3, <2>2 DEF CreateSaveSlot, SaveSlotKey
    <3>2. QED BY <3>1
  <2>3. QED BY <2>1, <2>2
<1>4. CASE CreateSaveRecord
  <2>1. /\ create.slot \in DOMAIN node /\ create.step = "record" /\ create'.step = "idle"
        /\ learnt' = IF window = "none" THEN learnt \cup {node[create.slot].id} ELSE learnt
        /\ UNCHANGED <<total_slot, node, slot_key, window, mishap>>
    BY <1>4 DEF CreateSaveRecord, NotCreating, Pointed
  <2>2. QED BY <2>1
<1>5. ASSUME NEW d \in Id, aq_device_delete(d) PROVE Exact'
  <2>1. PICK s \in DOMAIN node :
          /\ node[s].id = d
          /\ total_slot' = total_slot \ {s} /\ slot_key' = total_slot \ {s}
          /\ DOMAIN node' = DOMAIN node \ {s} /\ \A t \in DOMAIN node' : node'[t] = node[t]
          /\ learnt' = learnt \ {d}
          /\ UNCHANGED create /\ create.step = "idle"
          /\ IF window = "none" THEN UNCHANGED <<window, mishap>>
             ELSE window' = "written" /\ mishap' = mishap \cup {"write after erase"}
    BY <1>5, DeleteFacts
  <2>2. CASE window = "none"
    BY <2>1, <2>2
  <2>3. CASE window # "none"
    BY <2>1, <2>3
  <2>4. QED BY <2>2, <2>3
<1>6. ASSUME NEW d \in Id, NEW value \in 0..1, aq_device_waterleak_set(d, value) PROVE Exact'
  <2>1. UNCHANGED <<total_slot, slot_key, create, window, learnt, mishap>>
    BY <1>6 DEF aq_device_waterleak_set
  <2>2. DOMAIN node' = DOMAIN node /\ \A s \in DOMAIN node : node'[s].id = node[s].id
    BY <1>6, WaterleakSetFacts
  <2>3. QED BY <2>1, <2>2
<1>7. ASSUME NEW s \in Slot, SweepPick(s) PROVE Exact'
  BY <1>7 DEF SweepPick
<1>8. CASE SweepSave
  BY <1>8 DEF SweepSave
<1>9. CASE SweepSaveFreed
  <2>1. UNCHANGED <<total_slot, node, slot_key, create, window, learnt>> /\ (mishap' = {} => mishap = {})
    BY <1>9 DEF SweepSaveFreed
  <2>2. QED BY <2>1
<1>10. CASE Boot
  <2> SUFFICES ASSUME mishap' = {} PROVE Exact'
    OBVIOUS
  <2>1. /\ DOMAIN node' = slot_key \cap DOMAIN index
        /\ \A s \in DOMAIN node' : node'[s] = index[s]
        /\ total_slot' = slot_key /\ window' = "none" /\ create'.step = "idle"
        /\ UNCHANGED <<slot_key, learnt>>
        /\ mishap = {} /\ create.step # "record"
    BY <1>10, BootFacts DEF NotCreating
  <2>2. CASE window = "none"
    <3>1. slot_key = DOMAIN node \ Creating
      BY <2>1, <2>2 DEF TypeOK
    <3>2. \A s \in DOMAIN node \ Creating : s \in DOMAIN index /\ index[s] = node[s]
      BY <2>1, <2>2 DEF Keeps, AllKept, Kept
    <3>3. DOMAIN node' = DOMAIN node \ Creating /\ \A s \in DOMAIN node' : node'[s] = node[s]
      BY <2>1, <3>1, <3>2
    <3>4. QED BY <2>1, <2>2, <3>1, <3>3
  <2>3. CASE window # "none"
    <3>1. slot_key = {} /\ learnt = {}
      BY <2>1, <2>3 DEF Keyed
    <3>2. QED BY <2>1, <3>1
  <2>4. QED BY <2>2, <2>3
<1>11. CASE FactoryErase
  BY <1>11 DEF FactoryErase
<1>12. CASE UNCHANGED vars
  BY <1>12 DEF vars
<1>13. QED
  BY <1>1, <1>2, <1>3, <1>4, <1>5, <1>6, <1>7, <1>8, <1>9, <1>10, <1>11, <1>12
     DEF Next, PowerLoss, FactoryReset

LEMMA Inductive == Spec => []IInv
<1>1. IInv /\ [Next]_vars => IInv'
  BY TypeStep, KeyedStep, KeepsStep, ExactStep DEF IInv
<1>2. QED BY InitOK, <1>1, PTL DEF Spec

-----------------------------------------------------------------------------
(* The theorems.                                                           *)

\* Every variable keeps its type, and every node of _device_list owns a bit of
\* total_slot, whatever creates, deletes, sweeps and resets occur.
THEOREM StoreTypeCorrect == Spec => []TypeOK
<1>1. IInv => TypeOK
  BY DEF IInv
<1>2. QED BY Inductive, <1>1, PTL

\* A power loss at any moment gives read_device_from_flash the list back, with
\* its leak flags, but for the device aq_device_create has not finished with.
THEOREM StoreKeeps == Spec => []ResetKeepsDevices
<1>1. IInv => ResetKeepsDevices
  BY KeepsIs DEF IInv
<1>2. QED BY Inductive, <1>1, PTL

\* A reset adds a device only at a slot that RAM had taken without a node:
\* aq_device_delete leaves the record, but not the bit that would load it.
THEOREM StorePhantoms == Spec => []ResetAddsOnlyPhantoms
<1>1. IInv => ResetAddsOnlyPhantoms
  <2> SUFFICES ASSUME IInv, window = "none",
                      NEW s \in DOMAIN read_device_from_flash \ DOMAIN node
               PROVE  s \in Phantom
    BY DEF ResetAddsOnlyPhantoms
  <2>1. DOMAIN read_device_from_flash = slot_key \cap DOMAIN index
    BY RestrictNodes DEF read_device_from_flash, IInv, TypeOK
  <2>2. slot_key \subseteq total_slot
    BY DEF IInv, Keyed
  <2>3. QED BY <2>1, <2>2 DEF Phantom
<1>2. QED BY Inductive, <1>1, PTL

\* While no mishap has occurred, the list between two operations is what
\* aq_device_create and aq_device_delete have made of it, through any resets.
THEOREM StoreExact == Spec => []ExactWithoutMishap
<1>1. IInv => ExactWithoutMishap
  <2> SUFFICES ASSUME IInv, mishap = {}, window = "none", RfIdle
               PROVE  /\ Phantom = {}
                      /\ {node[s].id : s \in DOMAIN node} = learnt
                      /\ \A s, t \in DOMAIN node : node[s].id = node[t].id => s = t
    BY DEF ExactWithoutMishap
  <2>1. /\ total_slot = DOMAIN node
        /\ \A s \in DOMAIN node : node[s].id \in learnt
        /\ \A d \in learnt : \E s \in DOMAIN node : node[s].id = d
        /\ \A s, t \in DOMAIN node : node[s].id = node[t].id => s = t
    BY DEF IInv, Exact, Creating
  <2>2. {node[s].id : s \in DOMAIN node} = learnt
    BY <2>1
  <2>3. QED BY <2>1, <2>2 DEF Phantom
<1>2. QED BY Inductive, <1>1, PTL

\* The two-key factory reset leaves an empty list and every slot free, unless
\* the key "slot" was written between ef_env_set_default and the reset.
THEOREM StoreFactoryEmpties == Spec => FactoryResetEmpties
<1>1. IInv /\ FactoryReset /\ window = "open" => node' = Nowhere /\ total_slot' = {}
  <2> SUFFICES ASSUME IInv, FactoryReset, window = "open" PROVE node' = Nowhere /\ total_slot' = {}
    OBVIOUS
  <2>1. slot_key = {}
    BY DEF IInv, Keyed
  <2>2. node' \in Nodes /\ DOMAIN node' = slot_key \cap DOMAIN index /\ total_slot' = slot_key
    BY BootFacts DEF IInv, FactoryReset
  <2>3. node' = [s \in DOMAIN node' |-> node'[s]]
    BY <2>2, NodesIs
  <2>4. QED BY <2>1, <2>2, <2>3 DEF Nowhere
<1>2. QED BY Inductive, <1>1, PTL DEF FactoryResetEmpties

=============================================================================
