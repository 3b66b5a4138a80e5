# TLA+ specifications of the nRF52 e-ink price tag firmware

The firmware (Zephyr, C) turns a shop price tag into a BLE device: a host
connects and draws on the panel through a Nordic-UART-like service, and tags
flood authenticated commands to each other with legacy advertising beacons.
This directory models the parts of it whose correctness depends on order: what
several threads, callbacks, timers and resets do to shared state.

Source paths below are relative to the repository's `src/` directory (`app/...`,
`ble/...`), others to its root (`docs/...`, `lib/...`).

## 1. The system

Threads and their state:

| Where code runs | What |
|---|---|
| BLE receive thread (cooperative, outranks the rest) | `connected`, `disconnected`, `recycled_cb`, `scan_cb`, `commands_process` with the stream decoder, which draws its frames here, `commands_on_disconnect`, mcumgr's hook |
| system workqueue (one item at a time, FIFO) | `adv_work`, `adv_retry_work`, `adv_settle_work`, the mesh's `tx_work` and `rpl_save_work`, `vs_watchdog_work` (which may wait for the panel), `dfu_busy_work`, `confirm_work` |
| command thread | `cmd_thread`: text commands and opcode frames |
| mesh thread | `mesh_thread_fn`: received PDUs, originations, saves, FORGET, and the handlers of relayed commands |
| screensaver thread | drawing, battery states and recovery, the profile's schedule, saving statistics, advertiser self-heal |
| main thread | `main()`: the boot order, then nothing |

### Inventory of components

**Replay list** (`app/mesh_pdu.c` 219-361). State: per source the highest
sequence number accepted, a bitmap below it, an age. Operations: check, commit
(with eviction of the oldest source), reset, export, import. Hard: a 16-bit
counter that wraps, reordering, more sources than slots, a blob that holds less
than the list. Correct when a number once accepted is refused until its source
is forgotten, and an import refuses at least what the export stood for.

**Mesh node** (`app/mesh.c`). State: job queue, replay list, dirty flag and
time of last save, own sequence counter, beacon ring, two flash keys.
Operations: hear, originate, forget, deferred save, relay, dispatch, boot. Hard:
resets between any two steps, a bounded queue shared with the save, writes that
fail, handlers that hold the thread for minutes, flash wear against exposure.
Correct when nothing is accepted twice, a forgery leaves no trace, no sequence
number is used twice, and what was accepted reaches flash in bounded time.

**Mesh beacon pump** (`app/mesh.c` 147-208). State: ring, `beaconing`,
`tx_work`. Operations: enqueue, one pass. Hard: `beaconing` and `tx_work` are
touched by two threads around blocking calls. Correct when entries leave in
order, each gets its air time, none is forgotten, and the radio is handed back.

**Advertising and beacons** (`ble/ble_service.c`). State: the one advertising
set, `adv_running`, `adv_param_active`, `beacon_active`, `advertising_allowed`,
streaming mode, boot burst, interval, connection. Operations: start, retry,
settle, self-heal, interval, streaming mode, connection callbacks, beacon
set/end. Hard: all of these share one advertiser through flags that are set
after blocking calls. Correct when the flags describe the radio and the tag
never stays invisible.

**Command reception and dispatch** (`app/commands.c`). State: two slots, two
fifos, the line and the frame being received, the DFU window, the stream, the
connection. Operations: every byte, the command thread's steps, timers, the
SMP hook, connect, disconnect. Hard: the receive thread and the command thread
pass slots to each other while links come and go. Correct when no slot leaks or
is in two hands, an old link's commands do not run on the new one, and a host
that vanishes leaves no mode behind.

**Mesh PDU codec** (`app/mesh_pdu.c` 24-219, the originate descriptor of
`app/mesh.c`). No state but a cache of subkeys. Operations: parse, build,
verify, TTL, describe a broadcast for the mesh thread. Hard: lengths that depend
on bytes of the PDU itself, a code that must not cover the TTL. Correct when a
built PDU is read back as it was meant and verifies after every relay.

**Video stream receiver** (`app/commands.c` 195-587, 1100-1250). State: the
decoder, the frame buffers it writes into, `vs_poisoned`, the active flag, the
watchdog, and what a stream takes from others: the HV rails, the connection
parameters, the red plane, the screensaver. Operations: every byte, flush, start,
stop, watchdog, disconnect. Hard: deltas are XORed in place before anything about
the frame is checked; bytes get lost; three threads may end one stream. Correct
when a wrong frame is never shown unless the link damaged it unnoticed, and
whoever ends a stream gives back everything it took.

**Display manager and screensaver thread** (`app/display_manager.c`). State: the
panel and the streaming flags under `display_lock`; `screensaver_enabled`, mode,
`keep_on`, and request flags outside it. Operations: some twenty drawing paths,
the switches, the battery screens. Hard: five threads draw; a refresh blocks for
seconds; RAM, registers and waveform are lost at every power-down. Correct when
no refresh reads what was lost, a switched-off saver does not draw, the rails do
not stay up, requests are served, and an empty battery gets its turn.

**Panel driver** (`lib/eink/ssd1675a.c`). State: power, sleep, waveform,
`ram_undefined`; the controller behind it. Correct as above.

**Power profile and schedule** (`app/power_profile.c`, the waits of
`display_manager.c`). State: profile, stored mode. Operations: night window,
tick, set. Hard: midnight, an interval that changes under a sleep, a capped
sleep. Correct when the clock on the panel is no older than promised.

**Battery monitor** (`app/battery.c`). State: a ring of readings, state machine
with hysteresis, a count of high readings. Correct when an empty battery is acted
on in time and a bench supply never is.

**Statistics persistence** (`app/persist.c`). State: a record in retained RAM
with a seal, a snapshot in flash with its spent mark. Operations: restore, load,
first tick, save, count. Hard: a reset between any two steps, an image swap that
moves the RAM. Correct when nothing is counted twice and what was saved is
carried over.

**Boot, confirmation, factory reset** (`main.c`, `app/factory.c`). State: the
stage, the image's confirmation. Hard: the order of the stages, images that
crash. Correct when a bad image is left and settings are as stored.

**Wall clock** (`app/system_time.c`). State: an offset. Correct when it is never
behind the build nor what it showed before a reset.

**Access control** (`app/secauth.c`). State: key, gate. Correct when both are
what the next boot will find.

**Command handlers and text parsing** (`app/commands.c` from 600). The handlers
are sequences of calls into the parts above.

**Screens and graphics** (`display_screens.c`, `lib/gfx/`), **host tools**,
**tests, examples, build**: section 7.

### Interactions

`scan_cb` puts RX jobs on the mesh queue; the mesh thread commits, saves, calls
`tx_enqueue` (pump) and `cmd_dispatch_opcode` (handlers). The pump calls
`ble_service_beacon_set/_end`, which take the advertiser from `adv_work` and
give it back. `connected`/`disconnected` change the advertising flags and
trigger `commands_on_disconnect`, which undoes what commands and the stream left
set. A stream's start and end call `ble_service_set_streaming_mode`; the power
profile calls `ble_service_set_idle_adv_interval_s`.

Handlers run on the command thread and, for flooded commands, on the mesh
thread; they draw under `display_lock`, which the screensaver thread takes for
each of its drawings, but flip its flags without it. `vs_teardown` runs on the
receive thread, the command thread or the workqueue, and gives the rails, the
connection and the screensaver back from there. `power_profile_set` asks the
screensaver thread for a full redraw. The screensaver thread saves statistics
before it switches the tag off; `main()` restores them before anything draws and
counts the boot after; `confirm_work` confirms an image once it has run a while.

## 2. Modules

| Module | Models |
|---|---|
| `ReplayList` | The operators on one replay list. A bitmap is the set of its bit positions; `Diff` is the `int16_t` cast. |
| `AtMostOnce` | Abstract: a remembered broadcast is never accepted again; memory is lost by whole sources, on request, or back to what is durable at a reboot. `current` makes each acceptance visible, so that accepting a remembered broadcast again is not a stutter. `MeshNode!AMO` maps it to the PDU `mesh_handle_pdu` has accepted and not yet passed on. |
| `MeshNode` | `mesh.c`'s queue, thread, timers, flash and reboot. One action per job kind and step: an RX job is `TakeRefused`, or `TakeAccepted`, `SaveOrDefer`, `Relay`, `HandlerReturns`; a FORGET is two steps; `SaveTimer` is `rpl_save_fn`. |
| `MeshPdu` | A PDU and an originate descriptor, byte by byte, for an arbitrary code function. |
| `BeaconPump` | `tx_enqueue` (`Enqueue` under the lock, `Kick` after it) and `tx_work_fn` (`PumpTakes`, `BeaconSetReturns`, `PumpDrained`, `BeaconEndReturns`) with `k_work_schedule` as it is: a no-op on pending work. |
| `Advertising` | `ble_service.c`'s advertiser: `adv_work_handler` in four steps (`AdvRestarts`, `AdvStopped`, `AdvStarts`, `AdvResumes`/`AdvRefused`), everything that submits it, the link, and the beacons. |
| `Air` | `BeaconPump` and `Advertising` on their one workqueue and one radio. |
| `CommandQueue` | Reception, command thread, DFU window, stream flag, link. |
| `StreamCodec` | The stream's byte machine: header, the five decoders, half-resolution expansion, CRC; and the host's encoder as the reference for what bytes mean. `Write` lands the `n` bytes of a run at once, where the code loops; the theorem `WrittenOneByOne` shows that it is the same. |
| `VStream` | A stream: `StreamCodec` on the receive thread (`HeaderByte`, `DataByte`, `Flush`, `FlushShows`, `StopByte`), the command thread's start and stop, the watchdog, and `vs_teardown` in three steps on any of the three; the host and the link on the other side. |
| `Panel` | What each driver call does to the controller: power, sleep, registers, waveform, rails, two RAM planes. |
| `Display` | `display_manager.c` over `Panel`. A handler is the list of calls it makes (`Handler`); a call is one action where it does not block and two where it waits for the panel (`CallOf(t)`); the screensaver thread is one action per place it may be at. The static screensaver's frame is three: `StaticLooks` decides what is due, `StaticDraws` clears the request and draws what was decided, `DrawEnds`; a request set between the first two is the ghost `missed`. Likewise `TIME` looks at the screensaver (`Redraws`) before it forces an update (`Forces`), and `UPDATE` (`RequestsFull`) before it asks (`AsksFull`) and forces. |
| `Saver` | The schedule of the screensaver thread against the wall clock, the battery monitor, the stored display mode, and what is on the panel over reboots. |
| `Boot` | `main()` stage by stage; the retained record, the snapshot, the settings, the image and its confirmation; a crash or power cut at any step. A key or gate is written (`SetsKey`, `SetsGate`) and then put in force (`TakesEffect`), a mode put in force (`SetsMode`) and then written (`KeepsMode`); `half` says which is in between. |
| `MCMeshNode`, `MCAir`, `MCCommandQueue`, `MCStream`, `MCDisplay`, `MCBoot`, `MCSaver` | Instances for TLC. |
| `MeshNodeProofs` (with the lemmas of `ReplayList`), `MeshPduProofs`, `AirProofs`, `CommandQueueProofs`, `VStreamProofs`, `DisplayProofs`, `BootProofs`, `SaverProofs` | Theorems. |

How state corresponds to code: variables keep the source's names where they
have one (`rpl_dirty`, `rpl_saved_s`, `my_seq`, `tx_count`, `beaconing`,
`adv_running`, `beacon_active`, `rx_slot`, `opc_slot`, `dfu_busy`,
`vs_poisoned`, `keep_on`, `session_base`, ...). `Display.d` is the record of
what `display_lock` guards, `Boot.ram` and `Boot.flash` the two copies of
`struct persist_data` (None where the seal or the key is missing). Variables the
code does not have are: program positions (`stage`, `pump`, `ble`, `kicking`,
`pc`, `prog`), kernel state (`tx_queued`, `tx_timer`, `adv_queued`, `save_due`,
`dfu_timer`, `vs_watchdog`), the environment (`air`, `conn`, `link`, `wire`,
`mv`), history (`seen`, `savedSeen`, `sent`, `holds`, `shown`, `strays`,
`loose`, `truth`, `failed`, `due`, `flat`, `wiped`, ...), and counters that only bound
the state space.

Abstractions worth knowing:

- *Time.* `MeshNode` counts seconds: everything but a command handler finishes
  in the second it starts in, and a due timer fires before the next second. `Air`
  counts ticks of a fraction of `BEACON_MS`, without any relation to steps.
  `Saver` counts a unit that divides every interval, and a pass of its thread
  takes no time. `Display`, `VStream` and `CommandQueue` have no clock: a timeout
  may expire whenever its timer is armed. `Boot` counts persist's seconds.
- *The air.* Any PDU of `Src` with an issued number may be heard at any time,
  any number of times, in any order. A forgery carries any number in `Forged`
  and any source's id, this tag's included. Peers use fewer than half the
  sequence numbers; the comment in `mesh_pdu.h` names the blind spot beyond it.
- *Own floods.* A tag's own originations enter `mesh_handle_pdu` as trusted:
  they skip check and commit, and are relayed and dispatched like others.
- *Bytes.* `CommandQueue` keeps the first and last byte of a line or frame;
  `StreamCodec` and `MeshPdu` have every bit of theirs.
- *The stream's link* drops a run of bytes or flips a bit of a payload or CRC,
  and only in sessions with the CRC switched on: without it the code promises
  nothing. The CRC is the code's CRC-16, computed. One byte is turned over until
  the decoder is back in step (the ghost `astray`, which a frame sent to an idle
  decoder clears): what several errors of one frame may cancel out is not the
  code's affair. A plane a decoder writes to while `astray` counts as damaged.
- *Sizes.* A plane has at most 16383 bytes (`StreamCodecAssumption`; the panel's
  has 4736), so that two planes of the worst packing fit a frame's 16-bit length,
  and the pictures a host sends have the size of their session's resolution
  (`VStreamAssumption`).
- *Pictures.* `Display` and `Saver` name what is drawn (a clock, a host picture,
  a test pattern); a RAM plane holds such a name or `Unknown`.
- *Handlers.* In `CommandQueue`, four commands change state the module has
  (`REBOOT`, `DFU:START`/`DONE`, `VSTREAM:start`/`stop`); `UPDATE` stands for
  the rest. `SYSINFO` behaves as `REBOOT` does on the receive path, `HOST:` as
  `DFU:` at the gate. In `Display`, handlers that make the same calls share one.
- *The access gate* (`secauth.c`) may refuse any command at any time.
- *Flash.* A saved setting is written or not, never in part. A failed write is a
  choice wherever the code looks at, or ignores, its result.
- *The slips.* A definition whose comment begins with "Slip" is a wrong variant
  of the one after it. None is used by a specification; they show that the
  property they belong to notices.

## 3. Runs

| Run | Shows |
|---|---|
| `mesh_node` | `NoReplay`, `RebootSafe`, `OnlyAuthentic`, `FreshSeq`, `DirtyIsCovered` (with a write of the list that fails), and the implementation of `AtMostOnce`. |
| `air` | Order, flags against radio (`BeaconOwnsAir`, `NoUnknownAdvertiser`, `BorrowedIsReturned`) and, under fairness, `HandedBack` and `NeverDark`. |
| `commands` | `SlotsConserved`, `OldCommandsDropped` and, under fairness, `NothingLeftBehind`. |
| `stream` | `ShownIsSent`: a plane shown wrong is one the link damaged. `PoisonHolds`: no black plane spoiled by a frame with a bad CRC is shown before a whole frame. `LetGo`, `PhotoKept`: what three threads ending a stream leave, unless a frame or a start came while the watchdog was ending it (`late`). `StreamEnds` under fairness. |
| `panel` | `WavesSound`: no refresh on an unpowered, sleeping, unconfigured panel or undefined RAM. `OneStray`: the saver draws at most once after it was switched off. `RailsDown`: in picture mode, with no stream and nothing under way, the high-voltage rails are down, but for the holds and sessions without a release to follow, which `loose` marks (a mode set, or a stream's frame shown, after the switch; a frame of the waveform test). `RequestDrawn`: a request for a full refresh is only consumed by one, but for one that `missed` marks. |
| `panel_live` | `RequestServed` and `BatteryKills` with a fair screensaver thread. |
| `boot` | `NeverOvercounts`, `SnapshotCarried`, `SpentAfterUpdate`, `ClockSane`, `SettingsDurable`, and `BadImageLeaves` under fairness. |
| `power` | `Fresh`, `OnBoundary`, `DiesInTime`, `SupplySpared`, `PictureKept`. |
| `air_dark`, `air_lost`, `panel_rails`, `picture_wiped` | One counterexample each: section 6. |

Bounds, and why they are enough:

- `mesh_node`: the counter has 6 values, starts at 4 and wraps within the 3
  numbers a peer uses; a 2-bit window, so that a number can lie in it and below
  it; 2 interchangeable peers for 1 slot, so that every new source evicts;
  `Expire` within the uptime, so that a source expires; a queue of 1, so that the
  deferred save meets a full queue; 2 own numbers and 1 reboot at any step; 1
  failing write.
- `air`: a ring of 2 with 3 PDUs has two of them waiting, overflows, drains, and
  is refilled while a beacon flies; 2 ticks of air time distinguish a short one from a full one; two
  connections, one refused start and one profile change may each fall between
  any two steps.
- `commands`: the code's 2 slots; 2 connections, so that the first's
  commands can be met by the second. Nothing else is bounded.
- `stream`: a panel of two lines of two bytes (one byte at half resolution); raw,
  delta and dual types; pictures that make the run-length code use runs and
  literals; two sessions, full with CRC and half without; 5 units of work, which
  connections, commands, frames and faults share, so that a stream, a frame, a
  damaged frame, another and a second stream all fit. `count` is
  `stream_partial_count` modulo the maintenance interval: it runs on through all
  streams, so with an interval of 4 the frame that balances the panel may be the
  third of one stream or the first of the next. `Others`, the partial frames that
  other drawing counts between two streams, is {0} here and any set of naturals in
  the proofs. Every byte is a step.
- `panel`: one panel buffer (the harder case: red comes from a replayed scene);
  22 handlers, four of them also flooded (the rest make calls of the same kinds); two commands or frames, so that any
  two handlers meet each other, a running saver and the watchdog. The interval of
  rail cycles and of full refreshes is 2. `panel_live` keeps three commands, one
  of them endless.
- `boot`: three images, the middle one bad; one key besides the factory and the
  default one; 3 powered seconds, 3 pieces of work, 2 faults, so that a crash
  during recovery from a crash happens. Deadlock is checked: the tag may be off,
  from where a new battery starts it.
- `power`: a day of two hours of eight units, with a short day and a long night
  interval, a profile without night redraws, and an interval that divides neither
  the hour nor the day; four voltages, one on each side of each threshold; a history
  of 2; 4 changes by the host, the battery or a reboot.

Most models stop by their bounds alone, which is why those configurations switch
deadlock checking off.

## 4. Fairness

`MeshNode`, `Saver` and the `panel` run are checked for safety only.

`Air`: weak fairness for each work item, each blocking call's return, the
tick, the self-heal of the screensaver thread (it calls
`ble_service_ensure_advertising` in every cycle) and the recycling of a freed
connection. A pass of the pump gets strong fairness: the system workqueue is
FIFO, so that an item resubmitted for ever cannot keep another out, although
each of them disables the other while it runs. Nobody has to connect,
disconnect, put PDUs or stream.

`LateResume` is a scheduling assumption of `Air`. FALSE says that the workqueue
returns from `bt_le_adv_start` and sets `adv_running` before the host hears of
a connection made to that very advertiser. A connection needs an advertising
event, a CONNECT_IND and an HCI event, so that this is nearly always so, but
nothing in the code makes it so: with TRUE, `NeverDark` fails (`air_dark`).
The safety theorems do not need the assumption.

`CommandQueue`: weak fairness for the command thread (handlers return; the
development loops that only `REBOOT` ends are left out), the two timers, and
the end of a disconnect that began. The host owes nothing: `NothingLeftBehind`
is about a host that has gone for good.

`VStream`: weak fairness for showing a flushed frame, for the command thread, for
the watchdog once armed, and for each thread's teardown. The host owes nothing,
not even the next byte: the watchdog ends its stream.

`Display`: weak fairness for every caller's next call; strong fairness for the
screensaver thread's steps and for the boundaries of its interval. A mutex of
the kernel goes to its longest waiter of the highest priority when it is given
back, so a thread that waits for one taken again and again gets it; that is
strong fairness. It counts as able to move only where the lock is free or its
holder is in a short drawing, except for the places that skip an endless
animation. A `TEST` that never ends is a caller like others.

`Boot`: weak fairness for the stages of `main()`, and for the crash of an image
that is bad. Nobody has to update, save or charge.

## 5. Proofs

All theorems hold for every value of the constants that satisfies the named
assumptions: any number of peers, list and queue slots, any window up to half
the counter, any timing constants, profiles and thresholds, any images and keys.
The bounds (`MaxUptime`, `MaxWork`, ...) are arbitrary naturals.

**Replay list** (first part of `MeshNodeProofs`). Serial arithmetic has no order, so the
lemmas speak of positions relative to a base that no number in play precedes
(`Near`: all within half the counter of it), where `Diff` is plain subtraction
(`DiffOfNear`). An entry `Covers` a number that lies below its window or has its
bit. `CommitTracksNew`: a commit covers its number. `CommitKeepsTracks`: it
uncovers nothing but the source it evicts. `TrackedIsRefused`: a covered number
fails the check. `ExportCovers`, `ImportTracks`: a blob's list covers what the
live list did. These are the whole content of `mesh_pdu.c`'s list.

**Mesh node** (`MeshNodeProofs`). The inductive invariant `IInv` joins types,
"every remembered message is tracked" (which implies `NoReplay`, and unlike it
survives a commit for another number of the same source), "every message that
flash stands for is covered by what flash holds", "every queued authentic PDU
carries an issued number" and "no source owns two slots" (without which
`rpl_find` would see only the first). From it: `TypeCorrect`, `NeverReplayed`,
`RebootForgetsNothingSaved`, `ForgeriesLeaveNoTrace`, `NoSourceTwice`, and
`Refinement`: every step is a step of `AtMostOnce` or stutters.
`CommitsAreCovered` has an induction of its own over the save timer and the
queue. `NumbersAreFresh` assumes that writes of `mesh/seq` do not fail
(`next_seq` ignores the result) and proves that every number sent is older
than the counter, live and saved, within one turn of the counter.

**PDU codec** (`MeshPduProofs`). Lemmas say where each part of a concatenation
lies and that reading a part gives what was put there. `BuiltIsRead`: parsing
what was built gives back its fields, for every address type, number and payload
that fits. `RelayKeepsTrust`: a PDU that verifies still does after a change of
its TTL, so every relay of it is as trusted as the original. `DescribedIsSaid`:
the descriptor the command thread writes is read by the mesh thread as the same
broadcast. The code function is a constant operator: nothing is assumed of it
but the length of its result. TLC does not run this module: the theorems are
about functions of its bytes, not about behaviours.

**Pump and advertiser** (`AirProofs`). `AirImplementsPump`: a step of the
composition is a step of the pump with an arbitrary BLE service behind it.
So `PumpInOrder`, `PumpOnePass` and `PumpReturns` are proved of the pump alone
and carried over. `BeaconKeepsAir` and `AdvertiserIsKnown` need `AirInv`, which
says what is on the air in every call the workqueue may be blocked in, for
either value of `LateResume`. `AirIsTyped` needs that the pump hands over a PDU
it was given.

**Command path** (`CommandQueueProofs`). `IInv` adds to types, `SlotsConserved`
and `OldCommandsDropped`: the receiver has a slot exactly while it is in a line
it keeps (`ReceiverInv`), and the command thread one exactly while it works
(`ThreadInv`). Hence `TypeCorrect`, `SlotsNeverLeak`, `OldLinkSilenced`.

**Boot** (`BootProofs`). `Inv` joins types with what each stage of `main()` knows
of the retained record, the snapshot and the copy in hand: before the first tick
a record stands for a past that has not been counted on top of, after it for the
present; a snapshot not spent is one the next boot may still restore; what is in
force is stored, but for the setting whose change is half done and a mode whose
write failed. From it
`NothingCountedTwice`, `TotalsAreCarried`, `SnapshotsAreSpent`, `ClockIsSane`
and `SettingsAreDurable`, over any sequence of crashes, updates and failed
writes.

**Schedule and battery** (`SaverProofs`). `Timely` bounds how long the thread
still sleeps by how long ago the battery was looked at and how long it has been
empty; `Kept` says what the panel may show in each state of the monitor. From
them `SupplyIsSpared`, `DiesWithinASleep` and `PictureIsKept`.

The clock's punctuality comes from a plan. `Fresh` bounds the clock's age only
while the thread is on schedule, and is not inductive: a step within a sleep must
know that the sleep ends in time. `Planned` ties the age to where the thread is
on its way to the boundary it aims at, through `SinceLast`, the time since the
interval's last boundary; `OnTime` says that a sleep meant to end at a boundary
does, `Places` what each pass remembers. Midnight needs the care: boundaries are
counted from it, so an interval that does not divide the day is cut short there.
Lemmas on quotient and remainder, for any positive divisor, carry the
arithmetic. `ClockStaysFresh` and `DrawsOnBoundaries` hold for any length of the
day, profiles, sleep cap and setting of the clock. The bound without the day's
remainder, tempting and enough for every interval that divides a day, is false
(section 6).

**Video stream** (`VStreamProofs`). Three threads may tear one stream down, with
one flag read and cleared by each. The inductive invariant `IInv` says who may be
where at once: the command thread starts or handles a stop only while the receive
thread is out of the stream (`CmdAlone`), the receive thread ends a stream only
with the watchdog out of its way (`RxAlone`), the watchdog gives back what it
found (`WqOwns`); what is taken belongs to a running stream or to a thread that
is about to drop it (`TakenInv`); from a stream's start to the last step of its
end the screensaver is off and no photo is kept (`SaverInv`). None of these is
inductive alone. `ThreadsAgree` is `IInv`, `NothingIsLeft` and `PhotoIsKept`
follow from it, and need nothing of what the bytes decode to.

The decoder comes with lemmas on the operators of `StreamCodec`: the nibble
tables, the exclusive or and the CRC stay in their widths, a byte of a wire plane
lands inside the panel's (`PlacesInPlane`) and no two of them at one place
(`PlacesApart`), and what is marked covers it (`MarkCovers`). From them, and with
no hypothesis:

- `WrittenOneByOne`: a run written at once is the code's loop.
- `BytesAreCarried`: whatever a host sends, the wire carries bytes. `Packed` is
  a recursive function; that it exists is shown by the least place from which it
  does (`PackedUnfolds`), and the same argument bounds it: packing at most
  doubles the data (`PackedType`), so that a length fits its two bytes.
- `DecoderStays`: whatever bytes arrive, the decoder never counts past the end
  of its frame, the count of a run never underflows, no 16-bit length or
  checksum overflows, and both planes stay planes. The induction needs `RunOK`
  (a run under way has bytes left), and that half a length or checksum leaves
  room for its low byte (`HighByte`). `StreamIsTyped` adds the other variables.
- `DeltaIsMarked`: while a frame comes in, the marked rows only grow, and every
  cell a delta turns over lies in one: what `vs_flush_frame` hands to
  `write_partial_stream_rows` is all that changed.

The other theorems have one hypothesis, `Detected`: a frame that the link has
damaged does not pass its checksum. Sixteen bits cannot promise that; the code
relies on it (`vs_flush_frame` compares the CRC, never the length), and without
it the theorems are false: a decoder that has lost its place may take bytes of a
picture for the header of a frame without checksum. TLC finds it true of every
step of the instance of the `stream` run, losses and corruptions included.

`DecoderKeepsPlace` is the invariant behind them, `StreamInv`, of four parts that
need each other: the decoder's types (`StreamOK`); that what a host has sent has
its session's size and means what it says (`HostInv`); that between frames the
panel and the frame buffer agree, and within a delta differ in marked rows only
(`SyncInv`); and `PictureInv`:

- While nothing is astray the decoder is in the host's frame (`InPlace`), or in
  its farewell (`Stopping`). `Along` says it for one frame: what is left on the
  wire is the frame's tail from the decoder's place (`PlaceIn`), the header
  fields read so far are the host's, the checksum is that of the bytes read, the
  unpacker stands in the packed data where the decoder's run and count say
  (`Unpacking`), and every cell is either what it is meant to be or will be once
  its byte has come (`Due`; for a delta, by an exclusive or with what it holds).
- Between frames, the buffer is what was sent, but for damaged planes
  (`Holding`); so is the one that waits for the panel (`Ready`).
- The host is silent while a command is queued or runs (`Silent`), and a plane is
  known to be damaged once the decoder has gone astray (`StrayMarked`).

One byte at a time keeps `Along`: `HeaderAlong`, `DataAlong`, `FlushAlong`. Under
them lie `MeantIs` (a byte doubled by `vs_nib_dbl` into a block of two by two is
the half-resolution plane, pixel by pixel), `PartBack` (an exclusive or twice is
none) and the lemmas of `Unpacking` (what the packer made is what the unpacker
undoes, for runs, literals and anything between). From them follow

- `IntactFramesAreTaken`: a frame the link did not damage is never dropped or
  refused, fills its planes, and leaves in each the picture the host encoded.
- `PoisonIsHeld`: the flag `vs_poisoned` covers every spoiled black plane; that a
  frame which heals is whole (`HealsWhole`) is the point above.
- `PanelFollows`: whenever a frame of a running stream is shown, the panel's black
  plane is the frame buffer's, though only the marked rows were sent. It excepts
  what the host knows to be lost (`damaged`): a delta dropped for want of its end
  has changed the buffer and its rows are forgotten (section 6). That this
  happens to damaged frames only is `EndsInFlushIs`.
- `ShownIsWhatWasSent`: `ShownIsSent`, for every panel, picture, frame type,
  resolution, and any order of frames, faults, stops and threads.

**Display manager** (`DisplayProofs`). The driver's functions come first: each
takes a panel that is `Ready` (not believed asleep means powered, awake and set
up; not believed undefined means a written red plane) to a ready one. Then each
drawing path takes a `Good` record `d` to a good one; a power-down may follow it
only if it `Held` no running stream. The inductive invariant `IInv` joins that
with who holds the lock (`LockInv`: whoever has frames to draw holds it, but for
the farewell of a dying battery), with what the power-down after each frame under
way relies on (`HeldInv`, needed because the flags it looks at are written
outside the lock), with where the screensaver thread may stand after a stray
frame (`StrayInv`), and with what a decision for a partial frame means for the
request flag (`PartInv`: a request that is set when one is due was set since the
thread looked, and is `missed`). Hence `WavesAreSound`, `OnlyOneStray` and
`RequestIsDrawn`, for any subset of the commands and any interleaving of the five
threads.

`RailsComeDown` (`RailsDown`) is about the end of every path. `RailsInv` follows
the calls a handler still has to make: a panel held in picture mode has a call
that will release it, or make a stream of it, on some thread's list (`HoldInv`);
a session nobody holds is the animation's, still on its list (`SessionInv`); what
a list promises stays ahead while it is worked off (`ListsInv`, `StrokesInv`);
and a low battery, which switches the saver off without a release, is over
before the thread rests (`LowInv`). The attempt to prove it showed that a race
is not the only way to leave the rails up: a test frame does so by itself.
`loose` marks exactly what has no release ahead.

Every safety property of the passing runs is proved. Only model-checked: all
liveness (`HandedBack`, `NeverDark`, `NothingLeftBehind`, `StreamEnds`,
`RequestServed`, `BatteryKills`, `BadImageLeaves`), which is out of the provers'
reach; the hypothesis `Detected`, which is no theorem; and the properties that
fail. Proved only, with no run of their own: `PumpOnePass`, `NoSourceTwice`,
`ThreadsAgree`, `WrittenOneByOne`, `BytesAreCarried`, `DecoderStays`,
`DeltaIsMarked`, `DecoderKeepsPlace`, `IntactFramesAreTaken`, `PanelFollows`, the
types of `Air`, `Boot` and `VStream` (`AirIsTyped`, `StreamIsTyped`),
`MeshPduProofs`.

## 6. Where code and documents disagree

With a counterexample each:

1. `air_dark`: see `LateResume`. `adv_running = true` (`ble_service.c` 262)
   overwrites the `false` of `connected`; afterwards every path believes the
   advertiser is up.
2. `air_lost`: a PDU enqueued while `tx_work_fn` is inside
   `ble_service_beacon_end` finds `beaconing` set, does not kick, and no timer
   is pending: it waits for the next flood.
3. `panel_rails`: switching the saver off releases the panel only if
   `keep_display_on` is set (`display_manager.c` 1269), but a frame of the
   waveform test begins a session whatever the flag says (1001-1005). After the
   test mode, a picture, the screensaver and a second picture, one after the
   other, the tag rests with its rails up. A switch-off between the thread's look
   at the mode and its test frame leaves the same.
4. `picture_wiped`: a profile change asks for a full redraw whatever is on the
   panel; after a restart in picture mode the frame buffers are blank.

Seen while modelling, without a run of their own:

- An `UPDATE` given while the static screensaver has decided on a partial frame
  and not yet cleared the request (`display_manager.c` 1105-1111; 1433-1437 sets
  it without the lock) is lost with that frame, where the comment at 1430 says
  "refresh fully, now". `RequestDrawn` excepts it (`missed`).
- `TIME` looks whether the screensaver runs before it forces an update, which
  looks again (`commands.c` 755-756, 773-774, `display_manager.c` 1451-1464). A
  switch-off on another thread in between has a full frame of the buffers drawn,
  where the comment at 774 says "picture mode: never paint over the image".
- `mesh.c` 87-92 promises an unsaved window that does not grow with a handler's
  run time; within `RPL_SAVE_MIN_S` of a write the commit is left to the deferred
  save, whose job waits behind the handler (251).
- A PDU enqueued while the first `ble_service_beacon_set` of a burst is under way
  queues `tx_work`, makes the rescheduling after the beacon a no-op, and cuts
  that beacon short (`mesh.c` 205).
- With both slots taken a `REBOOT` line is refused (`commands.c` 2328), where
  `docs/protocol.md` 32-33 says it always gets through; opcode frames are
  executed during a firmware transfer (2266), where 34-35 says only four
  commands are.
- A delta frame whose end byte never comes has changed the frame buffer and does
  not poison it (`commands.c` 570); a clean frame with one plane clears
  `vs_poisoned` for both (479). `ShownIsSent` counts the first as damage, and
  `PoisonHolds` speaks of the black plane only; `PanelFollows` needs a hypothesis
  against the first.
- A frame or a start that comes while the watchdog is ending the previous stream
  keeps the rails on or loses the saver: `late` in `VStream` marks it, and
  `LetGo` and `PhotoKept` except it. A frame whose checksum fails then re-arms
  the watchdog (`commands.c` 513) after the stream is gone; it finds no stream when
  it fires, and `LetGo` does not speak of it.
- Every `STREAM_REFRESH_INTERVAL`-th frame of a two-plane stream goes out without
  its red plane (`display_manager.c` 851-862): `ShownIsSent` excepts that plane of
  that frame.
- `docs/architecture.md` 21 says that nothing that talks to the panel may run on
  the receive thread; `vs_flush_frame` does.
- A crash between sealing an empty record and restoring the snapshot into it
  loses the snapshot's totals (`persist.c` 112-126): `failed.seal` in `Boot`.
  The write that marks a snapshot spent is not repeated if it fails (176):
  `failed.spend`. Nor is a failed confirmation (`main.c` 33).
- A battery that recovers brings the screensaver over a picture
  (`display_manager.c` 1376-1381): the second exception of `PictureKept`.
- A full frame on another thread does not end a running stream (`display_manager.c`
  721-729, 635-648): the controller is reset, `streaming_active` stays set, and the
  stream's next frames are driven on discharged rails. `cut` in `Display` marks
  such a stream, and `WavesSound` excepts it.
- A red plane staged by `FAPPLY:RED` does not survive another drawing in between
  (`display_manager.c` 628), although `red_staged` stays set: the picture then
  comes without its red.
- Boundaries of an interval are counted from midnight (`power_profile.c` 232-234)
  and restart there. A sleep that its cap ends after midnight aims anew at the first
  boundary of the new day, so with an interval that does not divide the day the
  clock can be older than interval and cap together, by up to what the interval
  leaves of
  the day; `Fresh` states the true bound. The proof found it.
- `cmd_spitest` talks to the panel without its lock (`commands.c` 1415); it is a
  development command and not among `Display`'s.

## 7. Not modelled

- *AES-CMAC and the cache of its subkeys*: a pure function, a parameter of
  `MeshPdu` and a perfect predicate in `MeshNode`. *Challenge and response* of
  `secauth.c`: the gate may refuse anything.
- *Screens and graphics* (`display_screens.c`, `lib/gfx/`): straight-line
  drawing without state another part relies on; the host tests compare it pixel
  by pixel. *Waveform tables, the SPI bus and the busy line*: hardware.
- *Text parsing* of numbers and hexadecimal digits, queries, and formatting: the
  models start from the command that was meant.
- *Naming, sending notifications, pairing, PHY requests*: calls into the
  Bluetooth stack without effect on the state modelled.
- *Factory reset* (two commands and a timer that end in erasing everything and a
  reboot); the mesh's *group* and *scan* switches.
- *Battery curves, gauge, converter*: a reading is a level. *Rotation and
  ghosting counters*; *energy*, which is counted where refreshes are; *time zones*
  and formatting. `HOST` time in `Boot`: the clock is only set by the build and
  the record there; `Saver` sets it at will.
- In `VStream`, panels without a buffer for the red plane: `Display` has both.
- *Host tools* but for the stream encoder; *tests, examples, build*.

What would come next: the factory reset as an actor of `Boot`; the life of a canvas and the gauge as pure functions.
