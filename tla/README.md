# Verification of the Aqualarm main unit (LoRa, HK)

The main unit closes a building's water valve when a wireless sensor reports a
leak. It is an STM32WL running RT-Thread: a motorised valve in two halves, keys,
leds, dry contacts, a Modbus slave, and a LoRa radio that talks to end units
(leak sensors), a door unit, motion sensors and a gateway. These modules model
its control logic as TLA+, TLC checks it on small instances, and TLAPS proves every
invariant and action property of the passing runs for any number of devices, slots,
messages, sessions and interrupting handlers.

## Inventory

### Threads

| context | priority | runs |
|---|---|---|
| soft timer thread | 4 | all one-shot valve timers, the learning timer, the 200 ms dry-contact poll, the driver's radio timeouts |
| `wl_rf_thread` | 5 | `RadioIrqProcess`: `OnRxDone` and with it every frame handler, `OnTxDone`, `OnCadDone`; sleeps in flash writes and erases |
| `radio_send` | 9 | `rf_encode_entry`: queue, listen-before-talk, retries |
| `heart` | 10 | periodic uplinks to the gateway |
| `rtc_thread` | 11 | the hourly alarm: valve check, device sweep |
| `md_s_poll` (Modbus slave) | 10 | coil and register writes, which call the key handlers |
| button thread | 28 | key handlers |

The globals of `valve_work.c` and `water_work.c` are shared by all of them without
a lock; only the device list has a mutex.

### Components

| component | state | operations | correct when |
|---|---|---|---|
| valve driver, `valve_work.c` | status, lock (also in flash), verdict `valve_valid`, check results, motor pins, six timers | open, close, lock, delayed close, dry-contact command, two-stage self-check of each half | an alarm keeps it shut and locked; a closed valve stays driven shut; verdict and fault alarm agree |
| alarms and learning, `water_work.c` | `DeviceStatus`, `NowEvent`, `Allow_Add_Device`, learning timer | `warning_enable`, the callbacks, all-clear, start/refresh/end learning | alarms are ranked, not downgraded, end only for cause; learning always ends |
| frame handlers, `radio_protocol_*.c` | none of their own | heartbeat, learn, valve, warning, control, sync, firmware | each command respects the alarm in force |
| frame filter, `radio_protocol.c` | none | length, start byte, region, version, checksum, dispatch | only well-formed frames reach a handler |
| device list, `flashwork.c` | list in RAM, slot bitmap and records in flash | create, find, delete, flags, heartbeat marks, sweep | flags belong to known devices; one door unit, one gateway; leaks survive a reset |
| dry contacts, `dry_contact.c` | last input level, three relays | poll | relays follow the alarm and the valve |
| keys, `key.c`; Modbus callbacks | hold counters | click, long hold, two-key reset | obey alarms |
| RTC thread, `rtc.c` | two hour counters | hourly alarm | silent devices are found |
| gateway heartbeat, `heart.c` | retry counter, connect timer | connect, periodic uplink, hourly check | the gateway's absence is noticed |
| transmit path, `radio_encoder.c`, `radio_csma.c`, `radio_app.c` | queue, completions, radio mode, `cad_detected`, two driver timers, the interrupt word `RadioIrq` | enqueue, sense, send, wait, retry, callbacks | messages end, in order, bounded retries; the radio returns to receiving |
| firmware update, `lora_ota.c` | cursor, size, partition handle, flash; answers in the transmit queue | begin, receive, end | a session that reports success wrote its image |

The frame handlers call valve, alarm and list functions directly; those queue
uplinks with `lora_tx_enqueue`. Timer callbacks call the same functions. The dry
contact poll reads `DeviceStatus`. Acknowledgement frames reach the transmit path
through a completion, firmware frames go to `lora_ota.c`.

What is hard here: threads of different priority inside the same handlers, with no
lock on what they share; the order of alarms, commands, self-check timers and the
learning timer; resets inside a handler or a session; radio timeouts that fire
while the sending thread senses or transmits; radio interrupts that the RF thread
handles late or that overwrite each other; late acknowledgements and late or doubled
firmware answers, none of which is numbered; sessions begun twice; a device list
whose bitmap and records are separate flash writes. `PROJECT.json` lists each hazard
at its line.

## Modules

| module | models | form |
|---|---|---|
| `ValveWork` | `valve_work.c` | each C function is an operator from a *unit* record (all globals) to a unit record, so handlers compose them in the code's order |
| `WaterWork` | `water_work.c`, and the callbacks of `valve_work.c` that raise alarms | same style; events are named by the status they set |
| `DeviceList` | `flashwork.c` as handlers see it | a record of sets of addresses |
| `DeviceStore` | `flashwork.c` as it is stored | slot bitmap and nodes in RAM, key "slot" and records in flash; `aq_device_create` cut at its two writes, the RTC thread's save cut from its find, failing `rt_malloc`, power loss, the two-key factory reset |
| `MainUnit` | frame handlers, timers, keys, Modbus, dry contact, RTC, boot | state machine: `unit`, `list`, `dry`; one action per handler |
| `AlarmValve` | what the house is promised | abstract: an alarm, a valve and a lock, and seven ways in which they change; `MainUnit!PromiseKept` is the refinement |
| `Preemption` | the same handlers on their threads | `MainUnit`'s state, plus per thread the statements it has still to execute; one statement, at most one access to the shared state, is one step |
| `RadioTx` | transmit path | the thread as a program counter, split at every point where it sleeps or waits, the radio and its two timers, its interrupts and the RF thread that handles them later, an external gateway |
| `LoraOta` | firmware update | cursor, flash cells, the frame in the radio, the answers in the transmit queue, an external gateway that repeats and restarts |
| `FrameParse` | frame filter | the tests of `radio_protocol_parse` over frames of a few bytes, with C's operator precedence |
| `MC*` | | instances for TLC |
| `*Proofs` | | theorems and proofs about `MainUnit`, `RadioTx`, `LoraOta`, `DeviceStore`, `AlarmValve`, `Preemption` |
| `MainUnitRefinement` | | proofs of the refinement and of the action properties of `MainUnit` |
| `PreemptionTasks` | | lemmas on the sequences of statements, used by `PreemptionProofs` |

Definitions whose names begin with `Faulty_` are seeded faults: plausible bugs used
to show that each property can fail. No specification uses them.

### Abstractions

- **Handlers are atomic** in `MainUnit` and cut into statements in `Preemption`.
  There a thread runs while every thread above it is idle or asleep, and a thread
  is asleep inside a flash write: sfud waits for the chip with `rt_thread_delay`
  (`src/rt-thread/components/drivers/spi/spi_flash_sfud.c:248`). Timer callbacks
  are not cut: no thread modelled is above theirs, and the only one that writes
  flash, the delayed close, is left out. So are the Modbus thread, which runs the
  key handlers, the frames of lost wires and low batteries, and resets.
- **The list as sets, the list as stored.** `DeviceList` gives handlers what they
  see; `DeviceStore` keeps the nodes at their slots, of each node the address and
  the leak flag. The list order matters only where two nodes have one address, and
  such nodes come out of the flash in slot order. `aq_device_delete` does not clear
  the record; a freed node the sweep still points to holds its old content or has
  become a newer node.
- **Time is abstract**: a running timer may fire at any moment, in any order. Each
  hourly alarm may or may not be the one that checks the valve or sweeps. In
  `RadioTx` one fact about time is kept: the 5 s transmit timer cannot expire
  within the 1 s the thread waits for `TX_DONE`.
- **RAM and flash** share a field where the code writes both together (the lock,
  device flags). `PowerLossInLeak` is the window in the leak handler between two
  such writes. `recv` does not survive a reset.
- **Leds, buzzer, logs, Modbus mirror registers, stored battery and
  signal levels** are never read by the control code and are left out. The
  `Master*` events are bound but nothing that runs raises them (the only caller,
  `factory_water_leak_simulate`, has none itself).
- **Uplinks** a handler queues do not appear in `MainUnit`; `RadioTx` takes them as
  messages arriving in any pattern.
- **Radio interrupts** store their cause in `RadioIrq`, over one not handled yet; the
  RF thread handles it at any later moment or, as far as liveness goes, never. The
  few instructions between its `rt_event_recv` and the reading of `RadioIrq` are not
  cut. CRC and header errors are `FrameIrq`, their callbacks doing the same.
  `IRQ_RX_TX_TIMEOUT` calls back like the timers and is left out, and so is a frame
  heard in the 5 ms in which `IsChannelFree` measures.
- **Firmware update.** In `LoraOta` a packet is one unit long and flash is one cell
  per packet, blank, torn (a write that failed part of the way) or whole; an erase
  may fail after any number of cells. Frames carry what the sender meant and answers
  what they answer; no step of the unit reads the session, and the gateway acts on
  the kind of an answer alone: these fields only set `mistaken`, which records that
  in this session the gateway took an answer for that of another frame. Answers stay
  in the queue for any time, in order. What else the queue holds is left out; an
  answer dropped because of it is an answer lost.

## Runs

Passing runs:

| run | instance | shows |
|---|---|---|
| `house` | two end units, a motion sensor, two door units and two gateways, two slots; the self-check finds nothing to test; devices of one type are symmetric | `TypeOK`, `AlarmHoldsValveShut`, `AlarmRankRecorded`, `LearnWindowBounded`, `OneDoorOneGateway`, `LockedMeansShut`, `LeakEndsOnlyWhenDry`, `NoAlarmDowngrade`, `EveryLeakReportShuts`, `LeakSurvivesReset`, `NoOpenUnderAlarm`, `UnlockOnlyToOpen`, `PromiseKept` |
| `selfcheck` | one end unit; every pin reading at every stage | `FailAlarmMeansInvalid`, `PromiseKept`, `LeakReachesRelay` |
| `preemption` | one end unit, sound motors, the valve open or shut at first; three frames, hours, keys or contact edges, and any timers | `WindowBoundedAtRest`, `LockedOpenOnlyOvertaken`, `AlarmHoldsAtRest`, `DrivenShutAtRest`, `RankAtRest`, `NoUnlockUnderAlarm` |
| `store` | three addresses, two slots, any number of operations and resets | `TypeOK`, `ResetKeepsDevices`, `ResetAddsOnlyPhantoms`, `ExactWithoutMishap`, `FactoryResetEmpties` |
| `tx` | three messages, two of them confirmed; queue of two; two sensing tries and two transmissions | `TypeOK`, `DeafOnlyByLateCad`, `SendsBounded`, `DeliveredInOrder`, `AckDecidesWait`, `EveryMessageEnds`, `ListensAgain` |
| `ota` | images of 3, 4 and 5 packets, a partition of 4, three answers in the queue, three sessions, two power losses | `TypeOK`, `ProgramOnce`, `AcknowledgedIsWritten`, `UnopenedOnlyAfterReset` |

Why the bounds are enough to be interesting: two end units are the least for which
"the last sensor to dry" differs from "the first"; two door units and two gateways
with two slots make replacement meet a full list; the full pin readings let each
half fail at either stage while the other passes. No operator tells two devices of a
type apart, so `house` may permute them; it checks safety only, and the liveness
property is in `selfcheck`, without symmetry. Three handlers are one for each
thread, so that each of two can be cut by a higher one. Two slots and three
addresses fill the list and give a deleted record a slot that another address
takes. Three messages overfill the queue and give a message before and after a
confirmed one. Three sessions and two resets give every order of session, restart
and reset around one image; three answers in the queue are enough for one that comes
late, one that is doubled and one that is due. The images are a little shorter than
the partition, as long, and longer.

### The refinement

`AlarmValve` knows an alarm, a valve and a lock. A new alarm replaces one that is
no more urgent; a leak or an exhausted sensor shuts and locks, a silent sensor
shuts; the valve obeys only without an alarm or under one that merely warns; a bad
valve asked to open is only unlocked. `MainUnit` reads these off `DeviceStatus`,
`valve_status` and `lock_status`; `PromiseKept` says that each handler, timer, key,
poll and reset is one step of `AlarmValve` or none. Theorem `Refinement` of
`MainUnitRefinement` proves it, and `AlarmValveProofs` what the promise is worth:
`Safe`.

### What preemption leaves

`Preemption` keeps, as history, which calls were cut by a step that changed the
unit, and its properties say what holds at rest unless a certain call was cut:

- the learning window always has its timer, and no handler ever releases the lock
  under a leak or an exhausted battery, whatever is cut;
- if `valve_open` of a key is cut by a leak after it has tested the lock, the valve
  ends locked and open; cut between setting the status and the valve
  (`valve_work.c:88` and `:91`) it ends with the leak on display and an open valve,
  and repeated leak reports change nothing as the callback compares the status;
- `valve_check_start` and `valve_close`, cut by each other, leave a half of a closed
  valve driven open;
- the silent-sensor alarm of the RTC thread, cut between `valve_close` and the
  status, may be shown over an open valve;
- `warning_enable` cut by the learning timer leaves an alarm with priority 0.

Each of these needs two handlers within microseconds or within a flash write. The
properties bound them: nothing else goes wrong, and nothing without such a cut.
`PreemptionProofs` proves each of them for any number of handlers.

### What the store gives back

A reset gives back every device whose creation had ended, with its flag
(`ResetKeepsDevices`); without a mishap it gives back nothing else and loses no slot
(`ExactWithoutMishap`). The mishaps are named: a failed `rt_malloc` leaves the slot
taken; a create torn between bitmap and record leaves a slot whose old record, if
there is one, comes back as a device that had been deleted, and learnt again at
another slot that address is there twice; a create or delete in the three seconds
after a factory erase writes the bitmap of RAM into the erased flash; the sweep can
save a node that was freed.

Runs that show a disagreement between the code and what it says of itself (each is a finding in `PROJECT.json`):

| run | property | what happens |
|---|---|---|
| `reopen` | `ClosedValveDrivenShut` | `valve_close` on a valve marked bad returns before it stops the self-check timers; the pending timer of the other half drives that half open |
| `learn` | `LearnTimeoutKeepsAlarm` | an alarm raised while learning is cleared by the learning timer |
| `lateack` | `AckedMeansDelivered` | acknowledgements carry no number; a late one confirms the next message |
| `ota_restart` | `EndsCompleteUnmistaken` | `lora_ota_begin` keeps the old cursor; a session restarted in the same boot is reported successful with blank cells, though every answer was taken for what it was |
| `ota_late` | `EndsComplete` | answers carry no offset; in one session without a reset a packet repeated because its answer is late is answered twice, the second answer is taken for that of the next packet and the gateway stays one answer ahead; a packet lost from then on is never sent again, and the session is reported successful with a hole in the image |
| `version` | `OldVersionRejected` | `data[1] & 0x0F < NETWORK_VERSION` is always 0 |

`LeakEndsOnlyWhenDry` names the learning timer as an exception because of the
`learn` finding; `AcknowledgedIsWritten` speaks of the first session because of
`ota_restart`, and it and `ProgramOnce` only of sessions in which no answer was
mistaken because of `ota_late`. `ClosedValveDrivenShut` holds with sound
motors (`DrivenShutAtRest`) and fails once a half has failed its check (`reopen`).
`lora_ota_receive` does not test `dl_part`: the first packet after a reset inside a
session reaches `fal_partition_write` with no partition, whose assertion fails
(`fal_partition.c:439`); `UnopenedOnlyAfterReset` shows that the only other way is a
start answer of an earlier session, taken for that of the new one.

`OnCadDone` is called after a standby and restarts nothing (`radio.c:1706-1721`).
Handled late, it ends a reception that `rf_send_with_lbt` has restarted on its busy
path, or cuts a transmission: the unit then hears no sensor until a timer fires, at
worst the 4 min one. `DeafOnlyByLateCad` names this as the only such case at rest,
and `ListensAgain` shows that it ends. An acknowledgement handled in an attempt whose
sending then fails is not looked at (`radio_encoder.c:127`), and the message is
repeated or given up; `AckDecidesWait` speaks of the attempts that come to the wait.

Deadlock is checked in `MainUnit` and `DeviceStore`, which never stop. It is off in
`RadioTx`, `LoraOta` and `Preemption`, where messages, sessions and stimuli are
numbered and run out.

### Fairness

- `MainUnit`: `WF(DryContactPoll)`. The poll is a periodic soft timer that is
  started at boot and never stopped. Nothing else is assumed to happen.
- `RadioTx`: `WF(EncoderStep)`: the thread is scheduled when ready, and each of its
  waits has a timeout. `WF(OnTxTimeout)` and `WF(OnRxTimeout)`: the driver's timers
  are kernel timers; only `TX_DONE` stops the first, and every `radio_recv_start`
  starts the second anew. No interrupt is assumed to come, nor the RF thread to
  handle one.
- `LoraOta`, `DeviceStore`, `Preemption`: none; only safety is stated.

## Proofs

`MainUnitProofs` proves, for every finite set of devices of the four types, every
slot limit and every set of pin readings:

| theorem | property |
|---|---|
| `Invariance` | `IInv` is an invariant |
| `TypeCorrect` | `TypeOK` |
| `AlarmHolds` | `AlarmHoldsValveShut` |
| `RankRecorded` | `AlarmRankRecorded` |
| `FailMeansInvalid` | `FailAlarmMeansInvalid` |
| `WindowBounded` | `LearnWindowBounded` |
| `OneOfEach` | `OneDoorOneGateway` |
| `EveryLeakShuts` | `EveryLeakReportShuts` |
| `LeakSurvives` | `LeakSurvivesReset` |

Assumptions: `DeviceAssumption` (the address sets are finite and disjoint by type:
an address has one type), `MaxSlaverAssumption`, `ReadingsAssumption` (a pin reads
0 or 1).

The inductive invariant is `IInv == Good(unit) /\ WellKept(list) /\ dry \in Dry`.
`Good` joins the type of the unit record with four parts that need each other or
the type: `Held` (alarm implies shut and locked), `Ranked` (the alarm shown is the
one whose priority is stored), `Blamed` (a fault alarm implies a bad verdict) and
`Windowed` (an open learning window has its timer running). `Ranked` carries
`EveryLeakReportShuts`' base: no stored priority exceeds that of a leak. `Blamed`
uses that `valve_open` is refused when the verdict is bad. `WellKept` says that
flags belong to known devices and that there is one door unit and one gateway.

The proof follows the code: one lemma per C function says that the operator maps a
`Good` unit to a `Good` one (`ValveOpenGood`, `WarningEnableGood`, `AllClearGood`,
...), one per list operation that it keeps `WellKept`, then one step lemma per
group of handlers, then `NextOK`. The two action theorems use `IInv` in the state
before the step.

`RadioTxProofs` proves, for any number of messages, queue size and retry limits
(`TxAssumption`):

| theorem | property |
|---|---|
| `TxTypeCorrect` | `TypeOK` |
| `TxDeafOnlyByLateCad` | `DeafOnlyByLateCad` |
| `TxSendsBounded` | `SendsBounded` |
| `TxInOrder` | `DeliveredInOrder` |
| `TxAckDecidesWait` | `AckDecidesWait` |

Its invariant adds to the types that the receive timer always runs and why the radio
may be doing something else than receiving (`Deafness`: the thread is sensing, the
transmit timer runs, or a late CAD result has cut the radio off), that in an attempt
of a confirmed message the completion is done exactly if an acknowledgement was
handled since its start (`Acks`), that no message still to be dealt with counts as
acknowledged (`Pending`), that queue, current message, frame on the air and last
frame received are in the order of production (`Ordered`), and transmissions against
the retry counter at each place of the thread (`Counted`).

`LoraOtaProofs` proves, for any images, partition size, length of the answer queue,
sessions and resets (`OtaAssumption`):

| theorem | property |
|---|---|
| `OtaTypeCorrect` | `TypeOK` |
| `OtaAcknowledged` | `AcknowledgedIsWritten` |
| `OtaUnopened` | `UnopenedOnlyAfterReset` |
| `OtaProgramOnce` | `ProgramOnce` |

The cursor is not reset by a begin, and frames and answers outlive the moment they
were sent for, so the invariant speaks of all of them. `Tagged` says that they are of
sessions that were begun; `Opened` that an unopened partition means a cursor of 0 and,
where packets come, a reset or a mistaken answer; `Erased` that in a session whose
answers were not mistaken the cells from the cursor on are blank, or torn by the same
image; `Ahead` that in the first session those before the cursor are written, and
that neither the gateway, a packet nor an answer under way has passed it.

`DeviceStoreProofs` proves, for any addresses and number of slots
(`NSlotsAssumption`):

| theorem | property |
|---|---|
| `StoreTypeCorrect` | `TypeOK` |
| `StoreKeeps` | `ResetKeepsDevices` |
| `StorePhantoms` | `ResetAddsOnlyPhantoms` |
| `StoreExact` | `ExactWithoutMishap` |
| `StoreFactoryEmpties` | `FactoryResetEmpties` |

The invariant adds that a create under way and the sweep's pointer are at nodes of
the list (`Pointed`), how the key in flash stands to the bitmap in and out of the
factory window (`Keyed`), and, without a mishap, that the key lacks the slot of an
unsaved create and nothing else and that addresses are unique (`Exact`).

`AlarmValveProofs` proves `HouseSafe`, that `Safe` holds in every behaviour of
`AlarmValve`; `Safe` is inductive as it stands.

`MainUnitRefinement` proves, under the assumptions of `MainUnitProofs`:

| theorem | property |
|---|---|
| `Refinement` | `PromiseKept` |
| `LockedShut` | `LockedMeansShut` |
| `NoOpening` | `NoOpenUnderAlarm` |
| `UnlockOpens` | `UnlockOnlyToOpen` |
| `NoDowngrade` | `NoAlarmDowngrade` |
| `LeakEndsDry` | `LeakEndsOnlyWhenDry` |

The house sees status, valve and lock. Seven relations say how these may move:
they stay, an alarm is raised over one of no higher rank, the status clears, a
valve that may be commanded opens, closes or is unlocked, learning starts. One
lemma per C function names its kind, one per handler follows from those, and
`StepKinds` says that a step from a state of `IInv` is of one of the seven kinds,
ends a leak for cause, or is a restart. The theorems read off that list; for
`Refinement` each kind is an action of `AlarmValve`. `IInv` is needed because only
`Ranked` makes the test on the priority a test on the alarm shown.

`PreemptionProofs` proves about the handlers on their threads, cut at every access
to the shared state:

| theorem | property |
|---|---|
| `PTyping` | `Typed` (types, and the structure of what each thread has still to do) |
| `NeverUnlocked` | `NoUnlockUnderAlarm` |
| `WindowAtRest` | `WindowBoundedAtRest` |
| `LockedShutAtRest` | `LockedOpenOnlyOvertaken` |
| `AlarmsHoldAtRest` | `AlarmHoldsAtRest` |
| `RankedAtRest` | `RankAtRest` |
| `ShutAtRest` | `DrivenShutAtRest` |

They hold for any number of handlers and any pin readings, under the assumptions on
the constants of `MainUnit`; `MaxHandlers`, which ends the run, plays no part. Only
`ShutAtRest` has a hypothesis: `SoundMotors`, that no half ever reads a failed
check. It is that of the run, and `reopen` shows that it is needed.

A property at rest says nothing in between, so it is far from inductive. The
argument has two halves:

- *Sequences* (`PreemptionTasks`). `Structure` says of the statements a thread has
  still to execute what must follow a statement (the window is opened, then its timer
  started), what may stand before one (before an alarm is shown, nothing that
  clears or releases), and what is left to the RF thread (raising a locking alarm, unlocking). Executing the
  first statement, or putting the body of a call in its place, keeps it.
- *The unit* (`PreemptionProofs`). Each invariant says what the unit lacks while
  handlers are under way and which statement that some thread has still to execute
  (`Waiting`) makes up for it: `WindowInv` that an open window without timer waits
  for the timer or for its closing; `LockInv` that an alarm about to be shown has
  locked or will have; `OpenInv`, `SilentInv`, `RankInv` and `DriveInv` the same for
  the valve, the silent sensor, the priority and the pins, each as long as the calls
  its property names have not been cut. At rest nothing waits, and the property is
  what remains. `Overtakes` gives the use of that condition: inside a call not cut,
  no other thread changes the unit. `UnlockInv` needs no such condition: only the RF
  thread unlocks or raises the alarms that lock, and timers, the one thread above it,
  do not.

### Only model-checked

- liveness (`LeakReachesRelay`, `EveryMessageEnds`, `ListensAgain`): fairness and
  `ENABLED` are outside the prover's reach;
- that `Preemption` with handlers not cut does what `MainUnit` does: the bodies are
  written from the same lines, and no run compares the two;
- the six findings, which are counterexamples of TLC.

## Not modelled

- `led.c`, `ws2812b.c`, the buzzer: outputs nobody reads back.
- `gateway_api.c` but for the firmware answers, `radio_protocol_utils.c`: layout of
  uplink frames.
- `radio_protocol_factory.c`: production-line measurements.
- RT-Thread, HAL, the SubGHz driver but for its interrupt word and timers, EasyFlash, FreeModbus, fal: third-party. What the
  application needs of them is modelled where it is used and marked external.
- Memory reuse in the delete loops of `flashwork.c` (they follow the `next` pointer
  of a freed node): below a model whose list has no pointers.
- The order of boot. `main` runs at priority 10 and starts the RF threads before
  `valve_init` has created the timers and read the lock; a frame of a known device
  in between would use them too early. Boot is one step here.
- The one buffer `lora_tx_buf` in which all uplinks are put together: two threads
  can mix their frames in it. The content of uplinks is not modelled.
- The connect timer and the thread of `heart.c`: they repeat uplinks and set a led.
  The hour counters of `rtc.c` and the hold counters of `key.c` are choices.

Most of the repository's lines are RT-Thread, its packages, the HAL and vendor
headers, copied in unchanged. The program itself is the code under
`src/applications`, `src/radio`, `src/radio_protocol`, `src/storage` and `src/ota`,
and that is what the modules map.

## Plan

Done: the core (`ValveWork`, `WaterWork`, `DeviceList`, `MainUnit`), `RadioTx`,
`LoraOta`, `FrameParse`, `Preemption`, `DeviceStore`, `AlarmValve` with the
refinement, and the proofs above: every invariant and action property of the
passing runs.

Next, in this order:

1. `DeviceStore` without a mishap as an implementation of `DeviceList`: create,
   delete and flags map to the operations on sets, resets to a stutter.
2. The programs of `Preemption`, run to their end without a cut, shown equal to the
   handlers of `MainUnit`, by TLC and then by proof.
3. The order of boot, as one more thread of `Preemption`.
