--------------------------------- MODULE Boot ---------------------------------
(***************************************************************************)
(* What survives a reset: the statistics in retained RAM with their seal,  *)
(* their snapshot in flash and its spending (src/app/persist.c), the wall  *)
(* clock (system_time.c), the key and the access gate (secauth.c,          *)
(* factory.c), the display mode (power_profile.c), and the confirmation of *)
(* a new image; over the boot order of src/main.c, with a crash or a power *)
(* cut between any two of its steps.                                       *)
(*                                                                         *)
(* MCUboot and the settings backend are external: a saved value is written *)
(* or not, never in part.  Time is counted in persist's seconds; the build *)
(* stamp of an image is its name.                                          *)
(***************************************************************************)
EXTENDS Integers

CONSTANTS
    Builds,       \* build stamps of the images
    Bad,          \* those of them that crash before they are confirmed
    First,        \* the image the tag was made with
    Keys,         \* keys a peer may set
    FactoryKey,   \* the provisioned key, or None
    DefaultKey,
    ConfirmAfter, \* the delay of confirm_work
    None,
    MaxTime,      \* bound: powered seconds
    MaxWork,      \* bound: refreshes, settings changed, images uploaded, restarts
    MaxFaults     \* bound: resets nobody asked for, power cuts and failed flash writes

(* struct persist_data.                                                    *)
Records ==
    [up : Nat, wall : Nat, build : Builds \cup {0}, boots : Nat, updates : Nat, refreshes : Nat,
     since : Nat, spent : BOOLEAN]

ASSUME BootAssumption ==
    /\ Builds \subseteq Nat \ {0} /\ Bad \subseteq Builds /\ First \in Builds \ Bad
    /\ None \notin Builds \cup Keys \cup Records
    /\ ConfirmAfter \in Nat \ {0}
    /\ MaxTime \in Nat /\ MaxWork \in Nat /\ MaxFaults \in Nat

VARIABLES
    image, spare, swap, confirmed,       \* MCUboot: what runs, what it may swap in
    ram, flash,                          \* struct persist_data, sealed, and "ps/d"
    stored,                              \* the other settings: key, gate, mode
    stage,                               \* where main() is
    copy, ram_was_valid, session_base,   \* persist.c's own
    live,                                \* key, gate and mode in force
    half,                                \* the setting whose change is half done
    uptime, time_offset_sec,
    truth,                               \* history: what really happened
    left,                                \* what remains of the bounds
    failed                               \* history: what went wrong half way

boot == <<image, spare, swap, confirmed>>
persist == <<ram, flash, copy, ram_was_valid, session_base>>
clock == <<uptime, time_offset_sec>>
settings == <<stored, live, half>>
vars == <<boot, persist, settings, clock, stage, truth, left, failed>>

Zeros == [up |-> 0, wall |-> 0, build |-> 0, boots |-> 0, updates |-> 0, refreshes |-> 0,
          since |-> 0, spent |-> FALSE]

Stages == {"reset", "clock", "restore", "load", "count", "spend", "draw", "run", "off"}

Running == stage \in {"draw", "run"}

Init ==
    /\ image = First /\ spare = None /\ swap = "none" /\ confirmed = TRUE
    /\ ram = None /\ flash = None
    /\ stored = [key |-> None, gate |-> FALSE, mode |-> "clock"]
    /\ stage = "reset" /\ copy = None /\ ram_was_valid = FALSE /\ session_base = 0
    /\ live = [key |-> DefaultKey, gate |-> FALSE, mode |-> "clock"] /\ half = "none"
    /\ uptime = 0 /\ time_offset_sec = 0
    /\ truth = [up |-> 0, boots |-> 0, updates |-> 0, refreshes |-> 0, build |-> 0]
    /\ left = [time |-> MaxTime, work |-> MaxWork, faults |-> MaxFaults]
    /\ failed = [spend |-> FALSE, mode |-> FALSE, seal |-> FALSE]

Now == uptime + time_offset_sec

(***************************************************************************)
(* The boot.                                                               *)
(***************************************************************************)
(* MCUboot: an image marked "test" is swapped in; one that was not         *)
(* confirmed since is swapped out again.                                   *)
Starts ==
    /\ stage = "reset" /\ stage' = "clock"
    /\ IF swap = "test" \/ (swap = "tested" /\ ~confirmed)
       THEN image' = spare /\ spare' = image
       ELSE UNCHANGED <<image, spare>>
    /\ swap' = IF swap = "test" THEN "tested" ELSE "none"
    /\ confirmed' = (swap # "test")
    /\ UNCHANGED <<persist, settings, clock, truth, left, failed>>

(* system_time_init.                                                       *)
SetsClock ==
    /\ stage = "clock" /\ stage' = "restore"
    /\ uptime' = 0 /\ time_offset_sec' = image
    /\ UNCHANGED <<boot, persist, settings, truth, left, failed>>

Sealed == IF ram # None THEN ram ELSE Zeros

(* persist_init.                                                           *)
Validates ==
    /\ stage = "restore" /\ stage' = "load"
    /\ ram_was_valid' = (ram # None)
    /\ ram' = Sealed
    /\ session_base' = IF ram # None THEN ram.up ELSE 0
    /\ UNCHANGED <<boot, flash, copy, settings, clock, truth, left, failed>>

(* secauth_init.                                                           *)
Effective(key) ==
    IF key # None THEN key ELSE IF FactoryKey # None THEN FactoryKey ELSE DefaultKey

(* persist_settings_set on "d": the snapshot, if one was ever written.     *)
LoadsSnapshot == copy' = flash

(* sec_settings_set and pwr_settings_set; what was never written keeps its *)
(* default.                                                                *)
LoadsSettings == live' = [stored EXCEPT !.key = Effective(stored.key)]

(* settings_load, and secauth_init after it.                               *)
Loads ==
    /\ stage = "load" /\ stage' = "count"
    /\ LoadsSnapshot /\ LoadsSettings /\ half' = "none"
    /\ failed' = [failed EXCEPT !.mode = FALSE]
    /\ UNCHANGED <<boot, ram, flash, ram_was_valid, session_base, stored, clock, truth, left>>

(* Slip: the RAM is asked now, when persist_init has sealed it.            *)
RestorableLate == ram = None /\ copy # None /\ ~copy.spent

Restorable == ~ram_was_valid /\ copy # None /\ ~copy.spent

(* Slip: a saved clock is better than none.                                *)
AdoptsAny(wall) == wall # 0

Adopts(wall) == wall > image

(* Slip: any boot of another image than the last counts, the first too.    *)
RealUpdateAny(record) == record.build # image

RealUpdate(record) == record.build # image /\ record.build # 0

(* Slip: only a snapshot that was restored is spent.                       *)
ToSpendRestored(record) == RealUpdate(record) /\ Restorable

ToSpend(record) == RealUpdate(record) /\ copy # None /\ ~copy.spent

(* persist_post_settings, under its lock.                                  *)
Counts ==
    /\ stage = "count"
    /\ LET r == IF Restorable THEN copy ELSE ram
           counted == [r EXCEPT !.spent = FALSE, !.boots = @ + 1,
                                !.updates = IF RealUpdate(r) THEN @ + 1 ELSE @,
                                !.build = image,
                                !.since = IF r.build # image THEN 0 ELSE @]
       IN /\ ram' = counted
          /\ session_base' = IF Restorable THEN copy.up ELSE session_base
          /\ time_offset_sec' = IF Adopts(r.wall) THEN r.wall - uptime ELSE time_offset_sec
          /\ stage' = IF ToSpend(r) THEN "spend" ELSE "draw"
    /\ truth' = [truth EXCEPT !.boots = @ + 1, !.build = image,
                              !.updates = IF truth.build \notin {0, image} THEN @ + 1 ELSE @]
    /\ UNCHANGED <<boot, flash, copy, ram_was_valid, settings, uptime, left, failed>>

(* A flash write: it is done, or it fails.                                 *)
Writes(done) == done \/ left.faults > 0

Less(done) == IF done THEN left ELSE [left EXCEPT !.faults = @ - 1]

(* ... and its end: the snapshot just counted in is marked as spent; an    *)
(* error is ignored.                                                       *)
Spends(done) ==
    /\ stage = "spend" /\ stage' = "draw" /\ Writes(done)
    /\ copy' = [copy EXCEPT !.spent = TRUE]
    /\ flash' = IF done THEN copy' ELSE flash
    /\ left' = Less(done) /\ failed' = [failed EXCEPT !.spend = @ \/ ~done]
    /\ UNCHANGED <<boot, ram, ram_was_valid, session_base, settings, clock, truth>>

Refreshed ==
    /\ ram' = [ram EXCEPT !.refreshes = @ + 1, !.since = @ + 1]
    /\ truth' = [truth EXCEPT !.refreshes = @ + 1]
    /\ left' = [left EXCEPT !.work = @ - 1]

(* The first screen of a clock, and none of a picture.                     *)
Draws ==
    /\ stage = "draw" /\ stage' = "run"
    /\ IF live.mode = "clock" /\ left.work > 0 THEN Refreshed ELSE UNCHANGED <<ram, truth, left>>
    /\ UNCHANGED <<boot, flash, copy, ram_was_valid, session_base, settings, clock, failed>>

(***************************************************************************)
(* The running tag.                                                        *)
(***************************************************************************)
(* A second passes; a bad image does not live to be confirmed.             *)
Passes ==
    /\ stage = "run" /\ left.time > 0
    /\ image \in Bad => uptime + 1 < ConfirmAfter
    /\ uptime' = uptime + 1 /\ left' = [left EXCEPT !.time = @ - 1]
    /\ truth' = [truth EXCEPT !.up = @ + 1]
    /\ UNCHANGED <<boot, persist, settings, time_offset_sec, stage, failed>>

(* Slip: the image is confirmed a moment early.                            *)
RanLongEarly == uptime + 1 >= ConfirmAfter

RanLong == uptime >= ConfirmAfter

(* confirm_handler.                                                        *)
Confirms ==
    /\ stage = "run" /\ ~confirmed /\ RanLong /\ confirmed' = TRUE
    /\ UNCHANGED <<image, spare, swap, persist, settings, clock, stage, truth, left, failed>>

(* refresh_live_locked.                                                    *)
Rolled == [ram EXCEPT !.up = session_base + uptime, !.wall = Now]

(* persist_tick.                                                           *)
Ticks ==
    /\ stage = "run" /\ ram' = Rolled
    /\ UNCHANGED <<boot, flash, copy, ram_was_valid, session_base, settings, clock, stage, truth,
                   left, failed>>

(* persist_add_refresh.                                                    *)
Refreshes ==
    /\ stage = "run" /\ left.work > 0 /\ Refreshed
    /\ UNCHANGED <<boot, flash, copy, ram_was_valid, session_base, settings, clock, stage, failed>>

(* persist_save_to_flash, and what follows it: REBOOT resets, a dying      *)
(* battery switches off, a low one goes on.                                *)
Saves(done, next) ==
    /\ stage = "run" /\ Writes(done) /\ stage' = next
    /\ next = "run" \/ left.work > 0
    /\ ram' = Rolled
    /\ LET snap == [Rolled EXCEPT !.spent = FALSE]
       IN IF done THEN flash' = snap /\ copy' = snap ELSE UNCHANGED <<flash, copy>>
    /\ left' = [Less(done) EXCEPT !.work = IF next = "run" THEN @ ELSE @ - 1]
    /\ failed' = [failed EXCEPT !.spend = @ /\ ~done, !.seal = @ /\ ~done]
    /\ UNCHANGED <<boot, ram_was_valid, session_base, settings, clock, truth>>

(* Nothing resets the tag but the user who took its battery out.           *)
NewBattery ==
    /\ stage = "off" /\ stage' = "reset" /\ ram' = None
    /\ UNCHANGED <<boot, flash, copy, ram_was_valid, session_base, settings, clock, truth, left,
                   failed>>

(* An image arrives, or one that is to be tried next is replaced.          *)
Uploads(b) ==
    /\ stage = "run" /\ confirmed /\ left.work > 0 /\ b # image
    /\ spare' = b /\ swap' = "test" /\ left' = [left EXCEPT !.work = @ - 1]
    /\ UNCHANGED <<image, confirmed, persist, settings, clock, stage, truth, failed>>

(* The one command thread begins to change a setting.                      *)
Changes ==
    /\ stage = "run" /\ half = "none" /\ left.work > 0
    /\ UNCHANGED <<boot, persist, clock, stage, truth>>

(* secauth_set_key of an authenticated peer writes the key ...             *)
SetsKey(k, done) ==
    /\ Changes /\ Writes(done)
    /\ left' = [Less(done) EXCEPT !.work = @ - 1]
    /\ IF done THEN stored' = [stored EXCEPT !.key = k] /\ half' = "key"
       ELSE UNCHANGED <<stored, half>>
    /\ UNCHANGED <<live, failed>>

(* ... and secauth_set_enforced the gate, which in RAM follow it.          *)
SetsGate(on, done) ==
    /\ Changes /\ Writes(done)
    /\ left' = [Less(done) EXCEPT !.work = @ - 1]
    /\ IF done THEN stored' = [stored EXCEPT !.gate = on] /\ half' = "gate"
       ELSE UNCHANGED <<stored, half>>
    /\ UNCHANGED <<live, failed>>

TakesEffect ==
    /\ stage = "run" /\ half \in {"key", "gate"} /\ half' = "none"
    /\ live' = IF half = "key" THEN [live EXCEPT !.key = stored.key]
               ELSE [live EXCEPT !.gate = stored.gate]
    /\ UNCHANGED <<boot, persist, stored, clock, stage, truth, left, failed>>

(* power_display_saver_store does it the other way round: in force ...     *)
SetsMode(mode) ==
    /\ Changes /\ mode # live.mode
    /\ left' = [left EXCEPT !.work = @ - 1]
    /\ live' = [live EXCEPT !.mode = mode] /\ half' = "mode"
    /\ UNCHANGED <<stored, failed>>

(* Slip: only the mode that is not the default needs to be written.        *)
StoredPicture(done) ==
    IF done /\ live.mode = "picture" THEN [stored EXCEPT !.mode = live.mode] ELSE stored

StoredMode(done) == IF done THEN [stored EXCEPT !.mode = live.mode] ELSE stored

(* ... whether it is then written or not.                                  *)
KeepsMode(done) ==
    /\ stage = "run" /\ half = "mode" /\ half' = "none" /\ Writes(done)
    /\ stored' = StoredMode(done) /\ left' = Less(done)
    /\ failed' = [failed EXCEPT !.mode = ~done]
    /\ UNCHANGED <<boot, persist, live, clock, stage, truth>>

(***************************************************************************)
(* A crash resets and keeps the RAM; a power cut does not.  A bad image    *)
(* crashes by itself.                                                      *)
(***************************************************************************)
(* persist_init has sealed zeros that were to be overwritten.              *)
CutsRestore == stage \in {"load", "count"} /\ ~ram_was_valid

Faults(keeps) ==
    /\ stage \notin {"reset", "off"} /\ left.faults > 0
    /\ stage' = "reset" /\ ram' = IF keeps THEN ram ELSE None
    /\ left' = [left EXCEPT !.faults = @ - 1]
    /\ failed' = [failed EXCEPT !.seal = @ \/ (keeps /\ CutsRestore), !.spend = @ \/ stage = "spend"]
    /\ UNCHANGED <<boot, flash, copy, ram_was_valid, session_base, settings, clock, truth>>

Crashes ==
    /\ image \in Bad /\ stage \notin {"reset", "off"} /\ stage' = "reset"
    /\ failed' = [failed EXCEPT !.seal = @ \/ CutsRestore, !.spend = @ \/ stage = "spend"]
    /\ UNCHANGED <<boot, persist, settings, clock, truth, left>>

Next ==
    \/ Starts \/ SetsClock \/ Validates \/ Loads \/ Counts \/ Draws
    \/ Passes \/ Confirms \/ Ticks \/ Refreshes \/ NewBattery \/ Crashes \/ TakesEffect
    \/ \E b \in Builds : Uploads(b)
    \/ \E done, keeps \in BOOLEAN, next \in {"reset", "off", "run"} :
          Spends(done) \/ Saves(done, next) \/ Faults(keeps)
    \/ \E done \in BOOLEAN :
          \/ \E k \in Keys : SetsKey(k, done)
          \/ \E on \in BOOLEAN : SetsGate(on, done)
          \/ KeepsMode(done)
    \/ \E mode \in {"clock", "picture"} : SetsMode(mode)

Spec == Init /\ [][Next]_vars

(* main() goes on, and an image that cannot live crashes.                  *)
Fairness ==
    /\ WF_vars(Starts \/ SetsClock \/ Validates \/ Loads \/ Counts \/ Draws
               \/ \E done \in BOOLEAN : Spends(done))
    /\ WF_vars(Crashes)

FairSpec == Spec /\ Fairness

-----------------------------------------------------------------------------
Settings(keys) == [key : keys, gate : BOOLEAN, mode : {"clock", "picture"}]

ImagesOK ==
    /\ image \in Builds /\ spare \in Builds \cup {None}
    /\ swap \in {"none", "test", "tested"} /\ confirmed \in BOOLEAN
    /\ swap # "none" => spare # None

RecordsOK ==
    /\ ram \in Records \cup {None} /\ flash \in Records \cup {None} /\ copy \in Records \cup {None}
    /\ stage \in {"load", "count", "spend", "draw", "run"} => ram # None
    /\ stage = "spend" => copy # None

SettingsOK == stored \in Settings(Keys \cup {None}) /\ live \in Settings(Keys \cup {FactoryKey, DefaultKey})

CountersOK ==
    /\ session_base \in Nat /\ uptime \in Nat /\ time_offset_sec \in Int
    /\ truth \in [up : Nat, boots : Nat, updates : Nat, refreshes : Nat, build : Builds \cup {0}]
    /\ left \in [time : Nat, work : Nat, faults : Nat]

TypeOK ==
    /\ stage \in Stages /\ ram_was_valid \in BOOLEAN
    /\ failed \in [spend : BOOLEAN, mode : BOOLEAN, seal : BOOLEAN]
    /\ half \in {"none", "key", "gate", "mode"} /\ (half = "key" => stored.key \in Keys)
    /\ ImagesOK /\ RecordsOK /\ SettingsOK /\ CountersOK

(* Every total the tag shows is one that really happened: no boot, update, *)
(* refresh or second is counted twice, whatever was restored from where.   *)
Within(record) ==
    /\ record.up <= truth.up /\ record.boots <= truth.boots
    /\ record.updates <= truth.updates /\ record.refreshes <= truth.refreshes
    /\ record.since <= record.refreshes

NeverOvercounts ==
    /\ \A record \in {ram, flash} \ {None} : Within(record)
    /\ Running => session_base + uptime <= truth.up

(* The running totals are never behind a snapshot that is still to be      *)
(* used: what was saved before a reset is carried across it.               *)
AtLeast(record, other) ==
    /\ record.up >= other.up /\ record.boots >= other.boots
    /\ record.updates >= other.updates /\ record.refreshes >= other.refreshes

SnapshotAlwaysCarried == Running /\ flash # None => flash.spent \/ AtLeast(ram, flash)

(* ... unless a crash came between the sealing of empty RAM and the        *)
(* restoring of the snapshot into it.                                      *)
SnapshotCarried == failed.seal \/ SnapshotAlwaysCarried

(* Once an update is counted, no snapshot of an earlier image is left to   *)
(* be restored, unless the write that marks it failed or was cut short, or *)
(* the snapshot was passed over as above.                                  *)
SpentAfterUpdate ==
    Running /\ flash # None /\ ~flash.spent => failed.spend \/ failed.seal \/ flash.build = image

(* The clock is never behind the build of the image, nor behind what it    *)
(* was seen to show before the reset.                                      *)
ClockSane == Running => Now >= image /\ Now >= ram.wall

(* The key and the gate in force are the ones the next boot will find,     *)
(* but for the one setting whose change is under way.                      *)
KeyDurable ==
    /\ half = "key" \/ live.key = Effective(stored.key)
    /\ half = "gate" \/ live.gate = stored.gate

(* ... and so is the display mode, unless its write failed.                *)
ModeDurable == failed.mode \/ half = "mode" \/ live.mode = stored.mode

SettingsDurable == Running => KeyDurable /\ ModeDurable

(* A crashing image gives way to the one before, unless the battery ends   *)
(* the matter.                                                             *)
BadImageLeaves == image \in Bad ~> image \notin Bad \/ stage = "off"
=============================================================================
