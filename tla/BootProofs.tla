------------------------------ MODULE BootProofs ------------------------------
(***************************************************************************)
(* What survives resets, for every set of images and keys, every bound and *)
(* every order of faults.                                                  *)
(***************************************************************************)
EXTENDS Boot, TLAPS

Early == {"reset", "clock", "restore"}

Loading == {"load", "count"}

After == {"spend", "draw", "run"}

(* The totals: an update that a record has not seen is one it does not     *)
(* count, and what a boot adds to a base was lived by this tag.            *)
Unseen(record) == record.build \notin {0, truth.build} => record.updates < truth.updates

Counted ==
    /\ \A record \in {ram, flash, copy} \ {None} : Within(record) /\ Unseen(record)
    /\ stage \in Loading \cup After => session_base + uptime <= truth.up

(* The clock: set by the image, then only forward.                         *)
Timed ==
    /\ stage \in {"restore", "load", "count"} => uptime = 0 /\ time_offset_sec = image
    /\ stage \in After => Now >= image /\ Now >= ram.wall

(* Where the RAM, if it is valid, stands for what a snapshot holds.        *)
Stands ==
    \/ stage \in Early /\ ram # None
    \/ stage \in Loading /\ ram_was_valid
    \/ stage \in After

Unspent == flash # None /\ ~flash.spent

Carried ==
    /\ stage \in Loading \cup After => ram.up <= session_base + uptime
    /\ stage = "count" => copy = flash
    /\ ~failed.seal /\ Unspent /\ Stands => AtLeast(ram, flash)

Spent ==
    /\ stage \in After => ram.build = image
    /\ flash # None => flash.build # 0
    /\ copy # None => copy.build # 0
    /\ ~failed.seal /\ ~failed.spend /\ Unspent /\ Stands /\ stage # "spend" => flash.build = ram.build

Durable == stage \in {"count"} \cup After => KeyDurable /\ ModeDurable

Inv == TypeOK /\ Counted /\ Timed /\ Carried /\ Spent /\ Durable

-----------------------------------------------------------------------------
(* Records stay records.                                                   *)
LEMMA RefreshedRecord ==
    ASSUME NEW r \in Records
    PROVE  [r EXCEPT !.refreshes = @ + 1, !.since = @ + 1] \in Records
<1>1. r.refreshes + 1 \in Nat /\ r.since + 1 \in Nat
    BY DEF Records
<1> QED BY <1>1 DEF Records

(* The history counts a boot, and an update when the image is another one. *)
LEMMA BootedTruth ==
    ASSUME NEW t \in [up : Nat, boots : Nat, updates : Nat, refreshes : Nat,
    build : Builds \cup {0}],
           NEW b \in Builds, NEW n \in Nat
    PROVE  [t EXCEPT !.boots = @ + 1, !.build = b, !.updates = n]
              \in [up : Nat, boots : Nat, updates : Nat, refreshes : Nat,
              build : Builds \cup {0}]
<1>1. t.boots + 1 \in Nat
    OBVIOUS
<1> QED BY <1>1

(* Uploads, swaps and confirmations keep the two images known.             *)
LEMMA StepImages == ImagesOK /\ [Next]_vars => ImagesOK'
<1> SUFFICES ASSUME ImagesOK, [Next]_vars PROVE ImagesOK'
    OBVIOUS
<1> USE BootAssumption DEF ImagesOK
<1>1. ASSUME Starts PROVE ImagesOK'
    <2>1. confirmed' \in BOOLEAN
        BY <1>1, Zenon DEF Starts
    <2> QED BY <1>1, <2>1 DEF Starts
<1>2. ASSUME Confirms PROVE ImagesOK'
    BY <1>2 DEF Confirms
<1>3. ASSUME NEW b \in Builds, Uploads(b) PROVE ImagesOK'
    BY <1>3 DEF Uploads
<1>4. ASSUME UNCHANGED boot PROVE ImagesOK'
    BY <1>4 DEF boot
<1> QED
    BY <1>1, <1>2, <1>3, <1>4
    DEF Next, vars, SetsClock, Validates, Loads, LoadsSnapshot, LoadsSettings, Counts, Spends,
        Draws, Passes, Ticks, Refreshes,
        Saves, NewBattery, SetsKey, SetsGate, SetsMode, TakesEffect, KeepsMode, Changes, Faults,
        Crashes

(* The record in RAM, wherever it comes from, is one.                      *)
LEMMA StepRecords == TypeOK /\ Timed /\ [Next]_vars => RecordsOK'
<1> SUFFICES ASSUME TypeOK, Timed, [Next]_vars PROVE RecordsOK'
    OBVIOUS
<1> USE BootAssumption DEF RecordsOK
<1>0. RecordsOK
    BY DEF TypeOK
<1>1. ASSUME Validates PROVE RecordsOK'
    <2>1. Zeros \in Records
        BY DEF Zeros, Records
    <2> QED BY <1>0, <1>1, <2>1 DEF Validates, Sealed
<1>2. ASSUME Loads PROVE RecordsOK'
    BY <1>0, <1>2 DEF Loads, LoadsSnapshot, LoadsSettings
<1>3. ASSUME Counts PROVE RecordsOK'
    <2> DEFINE r == IF Restorable THEN copy ELSE ram
    <2>1. ram # None
        BY <1>0, <1>3 DEF Counts
    <2>2. r \in Records
        BY <1>0, <2>1 DEF Restorable
    <2>3. ASSUME NEW record \in Records
          PROVE [record EXCEPT !.spent = FALSE, !.boots = @ + 1,
                               !.updates = IF RealUpdate(record) THEN @ + 1 ELSE @,
                               !.build = image,
                               !.since = IF record.build # image THEN 0 ELSE @] \in Records
        <3>1. image \in Builds
            BY DEF TypeOK, ImagesOK
        <3>2. /\ record.boots + 1 \in Nat
              /\ (IF RealUpdate(record) THEN record.updates + 1 ELSE record.updates) \in Nat
              /\ (IF record.build # image THEN 0 ELSE record.since) \in Nat
            BY DEF Records
        <3> QED BY <3>1, <3>2 DEF Records
    <2>4. ram' \in Records
        <3> HIDE DEF r
        <3>1. [r EXCEPT !.spent = FALSE, !.boots = @ + 1,
                        !.updates = IF RealUpdate(r) THEN @ + 1 ELSE @,
                        !.build = image,
                        !.since = IF r.build # image THEN 0 ELSE @] \in Records
            BY <2>2, <2>3
        <3> QED BY <1>3, <3>1 DEF Counts, r
    <2>5. stage' = "spend" => copy # None
        BY <1>3 DEF Counts, ToSpend
    <2> QED BY <1>0, <1>3, <2>4, <2>5 DEF Counts
<1>4. ASSUME NEW done \in BOOLEAN, Spends(done) PROVE RecordsOK'
    <2>1. copy' \in Records /\ UNCHANGED ram
        BY <1>0, <1>4 DEF Spends, Records
    <2> QED BY <1>0, <1>4, <2>1 DEF Spends
<1>5. ASSUME Refreshed, stage \in {"draw", "run"} PROVE ram' \in Records
    <2>1. ram \in Records
        BY <1>0, <1>5
    <2>2. ram' = [ram EXCEPT !.refreshes = @ + 1, !.since = @ + 1]
        BY <1>5 DEF Refreshed
    <2> QED BY <2>1, <2>2, RefreshedRecord
<1>6. ASSUME Draws PROVE RecordsOK'
    <2>1. stage = "draw" /\ stage' = "run" /\ UNCHANGED <<flash, copy>>
        BY <1>6 DEF Draws
    <2>2. ram' \in Records
        <3>1. CASE Refreshed
            BY <1>5, <2>1, <3>1
        <3>2. CASE UNCHANGED ram
            BY <1>0, <2>1, <3>2
        <3> QED BY <1>6, <3>1, <3>2 DEF Draws
    <2> QED BY <1>0, <2>1, <2>2
<1>7. ASSUME Refreshes PROVE RecordsOK'
    BY <1>0, <1>5, <1>7 DEF Refreshes
<1>8. ASSUME stage = "run" PROVE Rolled \in Records
    <2>1. ram \in Records
        BY <1>0, <1>8
    <2>2. session_base + uptime \in Nat
        BY DEF TypeOK, CountersOK
    <2>3. Now \in Nat
        BY <1>8 DEF Timed, After, TypeOK, CountersOK, ImagesOK, Now
    <2> QED BY <2>1, <2>2, <2>3 DEF Rolled, Records
<1>9. ASSUME Ticks PROVE RecordsOK'
    BY <1>0, <1>8, <1>9 DEF Ticks
<1>10. ASSUME NEW done \in BOOLEAN, NEW next \in {"reset", "off", "run"}, Saves(done, next)
       PROVE  RecordsOK'
    <2>1. Rolled \in Records /\ [Rolled EXCEPT !.spent = FALSE] \in Records
        <3>1. Rolled \in Records
            BY <1>8, <1>10 DEF Saves
        <3> HIDE DEF Rolled
        <3> QED BY <3>1 DEF Records
    <2> HIDE DEF Rolled
    <2> QED BY <1>0, <1>10, <2>1 DEF Saves
<1>11. ASSUME NewBattery PROVE RecordsOK'
    BY <1>0, <1>11 DEF NewBattery
<1>12. ASSUME NEW keeps \in BOOLEAN, Faults(keeps) PROVE RecordsOK'
    BY <1>0, <1>12 DEF Faults
<1>13. ASSUME Starts \/ SetsClock \/ Crashes PROVE RecordsOK'
    BY <1>0, <1>13 DEF Starts, SetsClock, Crashes, persist
<1>14. ASSUME UNCHANGED <<persist, stage>> PROVE RecordsOK'
    BY <1>0, <1>14 DEF persist
<1> QED
    BY <1>1, <1>2, <1>3, <1>4, <1>6, <1>7, <1>9, <1>10, <1>11, <1>12, <1>13, <1>14
    DEF Next, vars, Passes, Confirms, Uploads, SetsKey, SetsGate, SetsMode, TakesEffect, KeepsMode,
        Changes

(* No change of a setting stores a value that is not one.                  *)
LEMMA StepSettings == TypeOK /\ [Next]_vars => SettingsOK'
<1> SUFFICES ASSUME TypeOK, [Next]_vars PROVE SettingsOK'
    OBVIOUS
<1> USE BootAssumption DEF SettingsOK, Settings
<1>0. SettingsOK
    BY DEF TypeOK
<1>1. ASSUME Loads PROVE SettingsOK'
    <2>1. Effective(stored.key) \in Keys \cup {FactoryKey, DefaultKey}
        BY <1>0 DEF Effective
    <2> QED BY <1>0, <1>1, <2>1 DEF Loads, LoadsSnapshot, LoadsSettings
<1>2. ASSUME NEW k \in Keys, NEW done \in BOOLEAN, SetsKey(k, done) PROVE SettingsOK'
    BY <1>0, <1>2 DEF SetsKey
<1>3. ASSUME NEW on \in BOOLEAN, NEW done \in BOOLEAN, SetsGate(on, done) PROVE SettingsOK'
    BY <1>0, <1>3 DEF SetsGate
<1>4. ASSUME NEW mode \in {"clock", "picture"}, SetsMode(mode) PROVE SettingsOK'
    BY <1>0, <1>4 DEF SetsMode
<1>6. ASSUME NEW done \in BOOLEAN, KeepsMode(done) PROVE SettingsOK'
    BY <1>0, <1>6 DEF KeepsMode, StoredMode
<1>7. ASSUME TakesEffect PROVE SettingsOK'
    <2>1. CASE half = "key"
        <3>1. half = "key" => stored.key \in Keys
            BY DEF TypeOK
        <3> QED BY <1>0, <1>7, <2>1, <3>1 DEF TakesEffect
    <2>2. CASE half # "key"
        BY <1>0, <1>7, <2>2 DEF TakesEffect
    <2> QED BY <2>1, <2>2
<1>5. ASSUME UNCHANGED settings PROVE SettingsOK'
    BY <1>0, <1>5 DEF settings
<1> QED
    BY <1>1, <1>2, <1>3, <1>4, <1>5, <1>6, <1>7
    DEF Next, vars, Starts, SetsClock, Validates, Counts, Spends, Draws, Passes, Confirms,
        Ticks,
        Refreshes, Saves, NewBattery, Uploads, Faults, Crashes

(* Uptime, the clock and the counted history stay numbers.                 *)
LEMMA StepCounters == TypeOK /\ [Next]_vars => CountersOK'
<1> SUFFICES ASSUME TypeOK, [Next]_vars PROVE CountersOK'
    OBVIOUS
<1> USE BootAssumption DEF CountersOK
<1>0. CountersOK /\ image \in Builds /\ RecordsOK
    BY DEF TypeOK, ImagesOK
<1>1. ASSUME SetsClock PROVE CountersOK'
    BY <1>0, <1>1 DEF SetsClock, persist
<1>2. ASSUME Validates PROVE CountersOK'
    BY <1>0, <1>2 DEF Validates, clock, RecordsOK, Records
<1>3. ASSUME Counts PROVE CountersOK'
    <2> DEFINE r == IF Restorable THEN copy ELSE ram
    <2>1. r \in Records
        BY <1>0, <1>3 DEF Counts, Restorable, RecordsOK
    <2>2. r.wall \in Nat /\ (Restorable => copy.up \in Nat)
        BY <1>0, <2>1 DEF Records
    <2>3. session_base' = IF Restorable THEN copy.up ELSE session_base
        BY <1>3 DEF Counts
    <2>4. time_offset_sec' = IF Adopts(r.wall) THEN r.wall - uptime ELSE time_offset_sec
        BY <1>3 DEF Counts
    <2>5. truth' \in [up : Nat, boots : Nat, updates : Nat, refreshes : Nat, build : Builds \cup {0}]
        <3> DEFINE updates == IF truth.build \notin {0,
            image} THEN truth.updates + 1 ELSE truth.updates
        <3>1. updates \in Nat
            BY <1>0
        <3>2. truth' = [truth EXCEPT !.boots = @ + 1, !.build = image, !.updates = updates]
            BY <1>3 DEF Counts
        <3> HIDE DEF updates
        <3>3. truth \in [up : Nat, boots : Nat, updates : Nat, refreshes : Nat,
                         build : Builds \cup {0}]
            BY <1>0
        <3> QED BY <1>0, <3>1, <3>2, <3>3, BootedTruth
    <2>6. UNCHANGED <<uptime, left>>
        BY <1>3 DEF Counts
    <2> HIDE DEF r
    <2> QED BY <1>0, <2>2, <2>3, <2>4, <2>5, <2>6
<1>4. ASSUME NEW done \in BOOLEAN, Spends(done) PROVE CountersOK'
    BY <1>0, <1>4 DEF Spends, Writes, Less, clock
<1>5. ASSUME left.work > 0, Refreshed, UNCHANGED <<session_base, clock>> PROVE CountersOK'
    BY <1>0, <1>5 DEF Refreshed, clock
<1>6. ASSUME Draws PROVE CountersOK'
    <2>1. CASE Refreshed /\ left.work > 0
        BY <1>5, <1>6, <2>1 DEF Draws
    <2>2. CASE UNCHANGED <<ram, truth, left>>
        BY <1>0, <1>6, <2>2 DEF Draws, clock
    <2> QED BY <1>6, <2>1, <2>2 DEF Draws
<1>7. ASSUME Passes PROVE CountersOK'
    BY <1>0, <1>7 DEF Passes, persist
<1>8. ASSUME Refreshes PROVE CountersOK'
    BY <1>5, <1>8 DEF Refreshes
<1>9. ASSUME NEW done \in BOOLEAN, NEW next \in {"reset", "off", "run"}, Saves(done, next)
      PROVE  CountersOK'
    <2>1. Less(done) \in [time : Nat, work : Nat, faults : Nat] /\ Less(done).work = left.work
        BY <1>0, <1>9 DEF Saves, Writes, Less
    <2>2. left' \in [time : Nat, work : Nat, faults : Nat]
        <3> HIDE DEF Less
        <3> QED BY <1>0, <1>9, <2>1 DEF Saves
    <2> QED BY <1>0, <1>9, <2>2 DEF Saves, clock
<1>10. ASSUME NEW b \in Builds, Uploads(b) PROVE CountersOK'
    BY <1>0, <1>10 DEF Uploads, persist, clock
<1>11. ASSUME NEW done \in BOOLEAN, Writes(done), UNCHANGED <<session_base, clock, truth>>,
              \/ left.work > 0 /\ left' = [Less(done) EXCEPT !.work = @ - 1]
              \/ left' = Less(done)
       PROVE  CountersOK'
    BY <1>0, <1>11 DEF Writes, Less, clock
<1>14. ASSUME NEW mode \in {"clock", "picture"}, SetsMode(mode) PROVE CountersOK'
    BY <1>0, <1>14 DEF SetsMode, Changes, persist, clock
<1>12. ASSUME NEW keeps \in BOOLEAN, Faults(keeps) PROVE CountersOK'
    BY <1>0, <1>12 DEF Faults, clock
<1>13. ASSUME UNCHANGED <<session_base, clock, truth, left>> PROVE CountersOK'
    BY <1>0, <1>13 DEF clock
<1> QED
    BY <1>1, <1>2, <1>3, <1>4, <1>6, <1>7, <1>8, <1>9, <1>10, <1>11, <1>12, <1>13, <1>14
    DEF Next, vars, persist, Starts, Loads, LoadsSnapshot, LoadsSettings, Confirms, Ticks,
        NewBattery, SetsKey, SetsGate, KeepsMode, TakesEffect, Changes, Crashes

(* The key whose change is half done is the one that was stored.           *)
LEMMA StepHalf ==
    TypeOK /\ [Next]_vars =>
        half' \in {"none", "key", "gate", "mode"} /\ (half' = "key" => stored'.key \in Keys)
<1> DEFINE Half == half \in {"none", "key", "gate", "mode"} /\ (half = "key" => stored.key \in Keys)
<1> SUFFICES ASSUME TypeOK, [Next]_vars PROVE Half'
    OBVIOUS
<1>0. Half /\ stored \in Settings(Keys \cup {None})
    BY DEF TypeOK, SettingsOK
<1>1. ASSUME Loads \/ TakesEffect \/ \E done \in BOOLEAN : KeepsMode(done) PROVE Half'
    BY <1>1 DEF Loads, TakesEffect, KeepsMode
<1>2. ASSUME NEW k \in Keys, NEW done \in BOOLEAN, SetsKey(k, done) PROVE Half'
    BY <1>0, <1>2 DEF SetsKey, Settings
<1>3. ASSUME NEW on \in BOOLEAN, NEW done \in BOOLEAN, SetsGate(on, done) PROVE Half'
    BY <1>0, <1>3 DEF SetsGate, Settings
<1>4. ASSUME NEW mode \in {"clock", "picture"}, SetsMode(mode) PROVE Half'
    BY <1>4 DEF SetsMode
<1>5. ASSUME UNCHANGED settings PROVE Half'
    BY <1>0, <1>5 DEF settings
<1> HIDE DEF Half
<1> QED
    BY <1>1, <1>2, <1>3, <1>4, <1>5
    DEF Next, vars, Starts, SetsClock, Validates, Counts, Spends, Draws, Passes, Confirms,
        Ticks, Refreshes, Saves, NewBattery, Uploads, Faults, Crashes

(* Together: the types are inductive.  The clock of a record needs Timed.  *)
LEMMA StepTyped == TypeOK /\ Timed /\ [Next]_vars => TypeOK'
<1> SUFFICES ASSUME TypeOK, Timed, [Next]_vars PROVE TypeOK'
    OBVIOUS
<1>1. ImagesOK' /\ RecordsOK' /\ SettingsOK' /\ CountersOK'
    BY StepImages, StepRecords, StepSettings, StepCounters DEF TypeOK
<1>2. stage' \in Stages
    BY DEF TypeOK, Stages, Next, vars, Starts, SetsClock, Validates, Loads, LoadsSnapshot,
        LoadsSettings, Counts, Spends, Draws,
           Passes, Confirms, Ticks, Refreshes, Saves, NewBattery, Uploads, SetsKey, SetsGate,
           SetsMode, TakesEffect, KeepsMode, Changes, Faults, Crashes
<1>3. ram_was_valid' \in BOOLEAN
    BY Zenon DEF TypeOK, Next, vars, persist, Starts, SetsClock, Validates, Loads,
        LoadsSnapshot, LoadsSettings, Counts, Spends,
           Draws, Passes, Confirms, Ticks, Refreshes, Saves, NewBattery, Uploads, SetsKey,
           SetsGate, SetsMode, TakesEffect, KeepsMode, Changes, Faults, Crashes
<1>4. failed' \in [spend : BOOLEAN, mode : BOOLEAN, seal : BOOLEAN]
    BY DEF TypeOK, Next, vars, Starts, SetsClock, Validates, Loads, LoadsSnapshot,
        LoadsSettings, Counts, Spends,
           Draws, Passes, Confirms, Ticks, Refreshes, Saves, NewBattery, Uploads, SetsKey,
           SetsGate, SetsMode, TakesEffect, KeepsMode, Changes, Faults, Crashes
<1>5. half' \in {"none", "key", "gate", "mode"} /\ (half' = "key" => stored'.key \in Keys)
    BY StepHalf
<1> QED BY <1>1, <1>2, <1>3, <1>4, <1>5 DEF TypeOK

-----------------------------------------------------------------------------
(* What the records of RAM and flash look like after a step.               *)
LEMMA RolledRecord ==
    ASSUME TypeOK, stage = "run"
    PROVE  /\ Rolled.up = session_base + uptime /\ Rolled.wall = Now
           /\ Rolled.build = ram.build /\ Rolled.boots = ram.boots /\ Rolled.updates = ram.updates
           /\ Rolled.refreshes = ram.refreshes /\ Rolled.since = ram.since /\ Rolled.spent = ram.spent
<1>1. ram \in Records
    BY DEF TypeOK, RecordsOK
<1> QED BY <1>1 DEF Rolled, Records

(* A refresh changes nothing of the record but its refreshes.              *)
LEMMA RefreshedRam ==
    ASSUME TypeOK, Refreshed, stage \in {"draw", "run"}
    PROVE  /\ ram'.up = ram.up /\ ram'.wall = ram.wall /\ ram'.build = ram.build
           /\ ram'.boots = ram.boots /\ ram'.updates = ram.updates
           /\ ram'.refreshes = ram.refreshes + 1 /\ ram'.since = ram.since + 1
           /\ ram'.spent = ram.spent
           /\ truth'.up = truth.up /\ truth'.boots = truth.boots /\ truth'.updates = truth.updates
           /\ truth'.refreshes = truth.refreshes + 1 /\ truth'.build = truth.build
<1>1. ram \in Records
    BY DEF TypeOK, RecordsOK
<1>2. truth \in [up : Nat, boots : Nat, updates : Nat, refreshes : Nat, build : Builds \cup {0}]
    BY DEF TypeOK, CountersOK
<1> QED BY <1>1, <1>2 DEF Refreshed, Records

(* The record that is counted in at boot: the snapshot, or what RAM kept.  *)
Base == IF Restorable THEN copy ELSE ram

(* persist_post_settings counts from the RAM, or from the snapshot.        *)
LEMMA CountedRam ==
    ASSUME TypeOK, Counts
    PROVE  /\ Base \in Records /\ ram' \in Records
           /\ ram'.up = Base.up /\ ram'.wall = Base.wall /\ ram'.build = image
           /\ ram'.boots = Base.boots + 1 /\ ram'.refreshes = Base.refreshes
           /\ ram'.updates = IF RealUpdate(Base) THEN Base.updates + 1 ELSE Base.updates
           /\ ram'.since = IF Base.build # image THEN 0 ELSE Base.since
           /\ session_base' = IF Restorable THEN copy.up ELSE session_base
           /\ time_offset_sec' = IF Adopts(Base.wall) THEN Base.wall - uptime ELSE time_offset_sec
           /\ stage' = IF ToSpend(Base) THEN "spend" ELSE "draw"
<1>1. Base \in Records
    BY DEF TypeOK, RecordsOK, Counts, Base, Restorable
<1>2. ram' = [Base EXCEPT !.spent = FALSE, !.boots = @ + 1,
                          !.updates = IF RealUpdate(Base) THEN @ + 1 ELSE @,
                          !.build = image,
                          !.since = IF Base.build # image THEN 0 ELSE @]
    BY DEF Counts, Base
<1>3. image \in Builds /\ Base.boots + 1 \in Nat
      /\ (IF RealUpdate(Base) THEN Base.updates + 1 ELSE Base.updates) \in Nat
      /\ (IF Base.build # image THEN 0 ELSE Base.since) \in Nat
    BY <1>1, BootAssumption DEF TypeOK, ImagesOK, Records
<1>4. ram' \in Records
    BY <1>1, <1>2, <1>3 DEF Records
<1>5. /\ ram'.up = Base.up /\ ram'.wall = Base.wall /\ ram'.build = image
      /\ ram'.boots = Base.boots + 1 /\ ram'.refreshes = Base.refreshes
      /\ ram'.updates = IF RealUpdate(Base) THEN Base.updates + 1 ELSE Base.updates
      /\ ram'.since = IF Base.build # image THEN 0 ELSE Base.since
    BY <1>1, <1>2 DEF Records
<1> QED BY <1>1, <1>4, <1>5 DEF Counts, Base

(* The clock does not go back over a step.                                 *)
LEMMA StepTimed == TypeOK /\ Timed /\ [Next]_vars => Timed'
<1> SUFFICES ASSUME TypeOK, Timed, [Next]_vars PROVE Timed'
    OBVIOUS
<1> USE DEF Timed, After, Now
<1>0. image \in Nat /\ uptime \in Nat /\ time_offset_sec \in Int
    BY BootAssumption DEF TypeOK, ImagesOK, CountersOK
<1>1. ASSUME Starts \/ NewBattery \/ Crashes \/ \E keeps \in BOOLEAN : Faults(keeps) PROVE Timed'
    BY <1>1 DEF Starts, NewBattery, Crashes, Faults
<1>2. ASSUME SetsClock PROVE Timed'
    BY <1>2 DEF SetsClock, boot
<1>3. ASSUME Validates \/ Loads PROVE Timed'
    BY <1>3 DEF Validates, Loads, LoadsSnapshot, LoadsSettings, boot, clock
<1>4. ASSUME Counts PROVE Timed'
    <2>1. uptime = 0 /\ time_offset_sec = image /\ UNCHANGED <<uptime, image>>
          /\ stage' \in {"spend", "draw"}
        BY <1>4 DEF Counts, boot
    <2>2. Base.wall \in Nat
        BY <1>4, CountedRam DEF Records
    <2>3. time_offset_sec' = (IF Adopts(Base.wall) THEN Base.wall ELSE image) /\ ram'.wall = Base.wall
        BY <1>0, <1>4, <2>1, <2>2, CountedRam
    <2> QED BY <1>0, <2>1, <2>2, <2>3 DEF Adopts
<1>5. ASSUME NEW done \in BOOLEAN, Spends(done) PROVE Timed'
    BY <1>5 DEF Spends, boot, clock
<1>6. ASSUME stage \in {"draw", "run"}, stage' = "run", ram' = ram \/ Refreshed, UNCHANGED <<clock, image>>
      PROVE  Timed'
    BY <1>6, RefreshedRam DEF clock
<1>7. ASSUME Draws \/ Refreshes PROVE Timed'
    BY <1>6, <1>7 DEF Draws, Refreshes, boot
<1>8. ASSUME Passes PROVE Timed'
    <2>1. stage = "run" /\ uptime' = uptime + 1 /\ UNCHANGED <<stage, time_offset_sec, image, ram>>
        BY <1>8 DEF Passes, boot, persist
    <2>2. ram.wall \in Nat
        BY <2>1 DEF TypeOK, RecordsOK, Records
    <2> QED BY <1>0, <2>1, <2>2
<1>9. ASSUME Ticks \/ \E done \in BOOLEAN, next \in {"reset", "off", "run"} : Saves(done, next)
      PROVE  Timed'
    <2>1. stage = "run" /\ ram' = Rolled /\ UNCHANGED <<image, clock>>
        BY <1>9 DEF Ticks, Saves, boot
    <2>2. stage' \in {"run", "reset", "off"}
        BY <1>9 DEF Ticks, Saves
    <2> QED BY <1>0, <2>1, <2>2, RolledRecord DEF clock
<1>10. ASSUME UNCHANGED <<clock, stage, ram, image>> PROVE Timed'
    BY <1>10 DEF clock
<1> QED
    BY <1>1, <1>2, <1>3, <1>4, <1>5, <1>7, <1>8, <1>9, <1>10
    DEF Next, vars, boot, persist, Confirms, Uploads, SetsKey, SetsGate, SetsMode, TakesEffect,
        KeepsMode, Changes

-----------------------------------------------------------------------------
Sound(record) == Within(record) /\ Unseen(record)

(* ... of what will have happened after the step.                          *)
SoundAfter(record) ==
    /\ record.up <= truth'.up /\ record.boots <= truth'.boots
    /\ record.updates <= truth'.updates /\ record.refreshes <= truth'.refreshes
    /\ record.since <= record.refreshes
    /\ record.build \notin {0, truth'.build} => record.updates < truth'.updates

(* What happened stays true of the records that were true before.          *)
LEMMA TruthGrows ==
    ASSUME TypeOK, [Next]_vars, NEW r \in Records, Sound(r)
    PROVE  SoundAfter(r)
<1> USE DEF Sound, SoundAfter, Within, Unseen
<1>0. truth \in [up : Nat, boots : Nat, updates : Nat, refreshes : Nat, build : Builds \cup {0}]
    BY DEF TypeOK, CountersOK
<1>1. r.up \in Nat /\ r.boots \in Nat /\ r.updates \in Nat /\ r.refreshes \in Nat /\ r.since \in Nat
    BY DEF Records
<1>2. ASSUME Counts PROVE SoundAfter(r)
    <2>1. /\ truth'.up = truth.up /\ truth'.boots = truth.boots + 1 /\ truth'.build = image
          /\ truth'.refreshes = truth.refreshes
          /\ truth'.updates = IF truth.build \notin {0, image} THEN truth.updates + 1 ELSE truth.updates
        BY <1>0, <1>2 DEF Counts
    <2>2. CASE truth.build \notin {0, image}
        BY <1>0, <1>1, <2>1, <2>2
    <2>3. CASE truth.build \in {0, image}
        BY <1>0, <1>1, <2>1, <2>3
    <2> QED BY <2>2, <2>3
<1>3. ASSUME Passes PROVE SoundAfter(r)
    <2>1. /\ truth'.up = truth.up + 1 /\ truth'.boots = truth.boots /\ truth'.build = truth.build
          /\ truth'.refreshes = truth.refreshes /\ truth'.updates = truth.updates
        BY <1>0, <1>3 DEF Passes
    <2> QED BY <1>0, <1>1, <2>1
<1>4. ASSUME Refreshed PROVE SoundAfter(r)
    <2>1. /\ truth'.up = truth.up /\ truth'.boots = truth.boots /\ truth'.build = truth.build
          /\ truth'.refreshes = truth.refreshes + 1 /\ truth'.updates = truth.updates
        BY <1>0, <1>4 DEF Refreshed
    <2> QED BY <1>0, <1>1, <2>1
<1>5. ASSUME UNCHANGED truth PROVE SoundAfter(r)
    BY <1>5
<1> QED
    BY <1>2, <1>3, <1>4, <1>5
    DEF Next, vars, Starts, SetsClock, Validates, Loads, LoadsSnapshot, LoadsSettings, Spends,
        Draws, Confirms, Ticks, Refreshes,
        Saves, NewBattery, Uploads, SetsKey, SetsGate, SetsMode, TakesEffect, KeepsMode, Changes,
        Faults, Crashes

(* The record counted in at boot is sound with the boot it counts.         *)
LEMMA CountedIsSound ==
    ASSUME TypeOK, Counted, Counts
    PROVE  SoundAfter(ram')
<1> USE DEF Sound, SoundAfter, Within, Unseen
<1>0. truth \in [up : Nat, boots : Nat, updates : Nat, refreshes : Nat, build : Builds \cup {0}]
      /\ image \in Builds /\ image # 0
    BY BootAssumption DEF TypeOK, CountersOK, ImagesOK
<1>1. Base \in Records /\ Sound(Base)
    <2>1. Base \in {ram, copy} \ {None}
        BY DEF TypeOK, RecordsOK, Counts, Base, Restorable
    <2> QED BY <2>1, CountedRam DEF Counted
<1>2. /\ Base.up \in Nat /\ Base.boots \in Nat /\ Base.updates \in Nat /\ Base.refreshes \in Nat
      /\ Base.since \in Nat
    BY <1>1 DEF Records
<1>3. /\ truth'.up = truth.up /\ truth'.boots = truth.boots + 1 /\ truth'.build = image
      /\ truth'.refreshes = truth.refreshes
      /\ truth'.updates = IF truth.build \notin {0, image} THEN truth.updates + 1 ELSE truth.updates
    BY <1>0 DEF Counts
<1>4. ram'.up <= truth'.up /\ ram'.boots <= truth'.boots /\ ram'.updates <= truth'.updates
      /\ ram'.refreshes <= truth'.refreshes /\ ram'.since <= ram'.refreshes
    <2>1. ram'.updates <= truth'.updates
        <3>1. ram'.updates = IF Base.build # image /\ Base.build # 0 THEN Base.updates + 1 ELSE Base.updates
            BY CountedRam DEF RealUpdate
        <3>2. CASE truth.build \notin {0, image}
            BY <1>0, <1>1, <1>2, <1>3, <3>1, <3>2
        <3>3. CASE truth.build \in {0, image}
            BY <1>0, <1>1, <1>2, <1>3, <3>1, <3>3
        <3> QED BY <3>2, <3>3
    <2>2. ram'.up = Base.up /\ ram'.boots = Base.boots + 1 /\ ram'.refreshes = Base.refreshes
          /\ ram'.since = IF Base.build # image THEN 0 ELSE Base.since
        BY CountedRam
    <2> QED BY <1>0, <1>1, <1>2, <1>3, <2>1, <2>2
<1>5. ram'.build = truth'.build
    BY <1>3, CountedRam
<1> QED BY <1>4, <1>5

(* No step makes a record claim more than happened (NeverOvercounts).      *)
LEMMA StepCounted == TypeOK /\ Timed /\ Counted /\ [Next]_vars => Counted'
<1> SUFFICES ASSUME TypeOK, Timed, Counted, [Next]_vars PROVE Counted'
    OBVIOUS
<1>0. /\ ram \in Records \cup {None} /\ flash \in Records \cup {None} /\ copy \in Records \cup {None}
      /\ session_base \in Nat /\ uptime \in Nat /\ truth.up \in Nat
    BY DEF TypeOK, RecordsOK, CountersOK
<1> DEFINE Good(record) == record # None => SoundAfter(record)
<1>1. Good(ram) /\ Good(flash) /\ Good(copy)
    BY <1>0, TruthGrows DEF Counted, Sound
<1> DEFINE Based == stage' \in Loading \cup After => session_base' + uptime' <= truth'.up
<1>2. ASSUME ram' # None => SoundAfter(ram'), flash' # None => SoundAfter(flash'), copy' # None => SoundAfter(copy'), Based
      PROVE  Counted'
    BY <1>2 DEF Counted, SoundAfter, Within, Unseen
<1>3. ASSUME UNCHANGED <<ram, flash, copy>>
      PROVE  (ram' # None => SoundAfter(ram')) /\ (flash' # None => SoundAfter(flash')) /\ (copy' # None => SoundAfter(copy'))
    BY <1>1, <1>3
<1> USE DEF Loading, After
<1>4. ASSUME Validates PROVE Counted'
    <2>1. UNCHANGED <<flash, copy, truth, uptime>> /\ uptime = 0 /\ session_base' \in {0, ram.up}
        BY <1>4 DEF Validates, clock, Timed
    <2>2. ram' # None => SoundAfter(ram')
        <3>1. CASE ram # None
            BY <1>1, <1>4, <3>1 DEF Validates, Sealed, Sound, Within, Unseen
        <3>2. CASE ram = None
            <4>1. ram' = Zeros /\ truth \in [up : Nat, boots : Nat, updates : Nat, refreshes : Nat, build : Builds \cup {0}]
                BY <1>4, <3>2 DEF Validates, Sealed, TypeOK, CountersOK
            <4> QED BY <2>1, <4>1 DEF Sound, SoundAfter, Within, Unseen, Zeros
        <3> QED BY <3>1, <3>2
    <2>3. Based
        <3>1. ram # None => ram.up <= truth.up
            BY DEF Counted, Within
        <3> QED BY <1>0, <1>4, <2>1, <3>1 DEF Validates
    <2>4. (flash' # None => SoundAfter(flash')) /\ (copy' # None => SoundAfter(copy'))
        BY <1>1, <2>1 DEF Sound, SoundAfter, Within, Unseen
    <2> QED BY <1>2, <2>2, <2>3, <2>4
<1>5. ASSUME Loads PROVE Counted'
    <2>1. copy' = flash /\ UNCHANGED <<ram, flash, truth, session_base, uptime>> /\ stage \in Loading
        BY <1>5 DEF Loads, LoadsSnapshot, LoadsSettings, clock
    <2>2. Based
        BY <2>1 DEF Counted
    <2>3. (ram' # None => SoundAfter(ram')) /\ (flash' # None => SoundAfter(flash')) /\ (copy' # None => SoundAfter(copy'))
        BY <1>1, <2>1 DEF Sound, SoundAfter, Within, Unseen
    <2> QED BY <1>2, <2>2, <2>3
<1>6. ASSUME Counts PROVE Counted'
    <2>1. UNCHANGED <<flash, copy, uptime>> /\ stage = "count" /\ uptime = 0 /\ truth'.up = truth.up
        BY <1>6 DEF Counts, Timed, TypeOK, CountersOK
    <2>2. Based
        <3>1. Restorable => copy # None /\ copy.up <= truth.up /\ copy.up \in Nat
            BY <1>0 DEF Restorable, Counted, Within, Records
        <3> QED BY <1>0, <1>6, <2>1, <3>1, CountedRam DEF Counted
    <2>3. (flash' # None => SoundAfter(flash')) /\ (copy' # None => SoundAfter(copy'))
        BY <1>1, <2>1 DEF Sound, SoundAfter, Within, Unseen
    <2> QED BY <1>2, <1>6, <2>2, <2>3, CountedIsSound
<1>7. ASSUME NEW done \in BOOLEAN, Spends(done) PROVE Counted'
    <2>1. UNCHANGED <<ram, truth, session_base, uptime>> /\ stage = "spend"
          /\ copy' = [copy EXCEPT !.spent = TRUE] /\ flash' \in {flash, copy'}
        BY <1>7 DEF Spends, clock
    <2>2. copy \in Records
        BY <1>0, <2>1 DEF TypeOK, RecordsOK
    <2>3. /\ copy'.up = copy.up /\ copy'.boots = copy.boots /\ copy'.updates = copy.updates
          /\ copy'.refreshes = copy.refreshes /\ copy'.since = copy.since /\ copy'.build = copy.build
        BY <2>1, <2>2 DEF Records
    <2>4. SoundAfter(copy')
        <3>1. copy # None
            BY <2>1 DEF TypeOK, RecordsOK
        <3> QED BY <1>1, <2>1, <2>3, <3>1 DEF Sound, SoundAfter, Within, Unseen
    <2>5. (ram' # None => SoundAfter(ram')) /\ (flash' # None => SoundAfter(flash'))
        BY <1>1, <2>1, <2>4 DEF Sound, SoundAfter, Within, Unseen
    <2> QED BY <1>2, <2>1, <2>4, <2>5 DEF Counted
<1>8. ASSUME Refreshed, stage \in {"draw", "run"}, UNCHANGED <<flash, copy, session_base, clock>>
      PROVE  Counted'
    <2>1. SoundAfter(ram')
        <3>1. ram \in Records /\ Sound(ram)
            BY <1>0, <1>8 DEF TypeOK, RecordsOK, Counted, Sound
        <3>2. truth \in [up : Nat, boots : Nat, updates : Nat, refreshes : Nat,
        build : Builds \cup {0}]
            BY DEF TypeOK, CountersOK
        <3>3. ram.refreshes \in Nat /\ ram.since \in Nat
            BY <3>1 DEF Records
        <3> QED BY <1>8, <3>1, <3>2, <3>3, RefreshedRam DEF Sound, SoundAfter, Within, Unseen
    <2>2. (flash' # None => SoundAfter(flash')) /\ (copy' # None => SoundAfter(copy'))
        BY <1>1, <1>8 DEF Sound, SoundAfter, Within, Unseen
    <2>3. Based
        BY <1>8, RefreshedRam DEF Counted, clock
    <2> QED BY <1>2, <2>1, <2>2, <2>3
<1>9. ASSUME Draws PROVE Counted'
    <2>1. CASE Refreshed
        BY <1>8, <1>9, <2>1 DEF Draws
    <2>2. CASE UNCHANGED <<ram, truth, left>>
        <3>1. UNCHANGED <<ram, flash, copy>>
            BY <1>9, <2>2 DEF Draws
        <3>2. Based
            BY <1>9, <2>2 DEF Draws, clock, Counted
        <3> QED BY <1>2, <1>3, <3>1, <3>2
    <2> QED BY <1>9, <2>1, <2>2 DEF Draws
<1>10. ASSUME Refreshes PROVE Counted'
    BY <1>8, <1>10 DEF Refreshes
<1>11. ASSUME stage = "run", UNCHANGED truth,
              NEW record, record \in {Rolled, [Rolled EXCEPT !.spent = FALSE]}
       PROVE  SoundAfter(record)
    <2>1. ram \in Records /\ Within(ram) /\ Unseen(ram)
        BY <1>0, <1>11 DEF TypeOK, RecordsOK, Counted
    <2>2. session_base + uptime <= truth.up
        BY <1>11 DEF Counted
    <2>3. /\ record.up = session_base + uptime /\ record.build = ram.build /\ record.boots = ram.boots
          /\ record.updates = ram.updates /\ record.refreshes = ram.refreshes /\ record.since = ram.since
        BY <1>11, <2>1 DEF Rolled, Records
    <2> QED BY <1>11, <2>1, <2>2, <2>3 DEF SoundAfter, Within, Unseen
<1>12. ASSUME Ticks PROVE Counted'
    <2>1. stage = "run" /\ ram' = Rolled /\ UNCHANGED <<flash, copy, session_base, uptime, stage, truth>>
        BY <1>12 DEF Ticks, clock
    <2>2. SoundAfter(ram')
        BY <1>11, <2>1 DEF Sound, SoundAfter, Within, Unseen
    <2>3. (flash' # None => SoundAfter(flash')) /\ (copy' # None => SoundAfter(copy'))
        BY <1>1, <2>1 DEF Sound, SoundAfter, Within, Unseen
    <2>4. Based
        BY <2>1 DEF Counted
    <2> QED BY <1>2, <2>2, <2>3, <2>4
<1>13. ASSUME NEW done \in BOOLEAN, NEW next \in {"reset", "off", "run"}, Saves(done, next) PROVE Counted'
    <2> DEFINE snap == [Rolled EXCEPT !.spent = FALSE]
    <2>1. stage = "run" /\ ram' = Rolled /\ UNCHANGED <<session_base, uptime, truth>>
          /\ ((flash' = snap /\ copy' = snap) \/ UNCHANGED <<flash, copy>>)
        BY <1>13 DEF Saves, clock
    <2>2. SoundAfter(ram')
        BY <1>11, <2>1 DEF Sound, SoundAfter, Within, Unseen
    <2>3. (flash' # None => SoundAfter(flash')) /\ (copy' # None => SoundAfter(copy'))
        <3>1. CASE flash' = snap /\ copy' = snap
            BY <1>11, <2>1, <3>1 DEF Sound, SoundAfter, Within, Unseen
        <3>2. CASE UNCHANGED <<flash, copy>>
            BY <1>1, <2>1, <3>2 DEF Sound, SoundAfter, Within, Unseen
        <3> QED BY <2>1, <3>1, <3>2
    <2>4. Based
        BY <2>1 DEF Counted
    <2> QED BY <1>2, <2>2, <2>3, <2>4
<1>14. ASSUME NewBattery \/ \E keeps \in BOOLEAN : Faults(keeps) PROVE Counted'
    <2>1. ram' \in {ram, None} /\ UNCHANGED <<flash, copy, truth>> /\ stage' = "reset"
        BY <1>14 DEF NewBattery, Faults
    <2>2. (ram' # None => SoundAfter(ram')) /\ (flash' # None => SoundAfter(flash')) /\ (copy' # None => SoundAfter(copy'))
        BY <1>1, <2>1 DEF Sound, SoundAfter, Within, Unseen
    <2> QED BY <1>2, <2>1, <2>2
<1>15. ASSUME Starts \/ SetsClock \/ Crashes PROVE Counted'
    <2>1. UNCHANGED <<ram, flash, copy>> /\ Based
        BY <1>15 DEF Starts, SetsClock, Crashes, persist
    <2>9. (ram' # None => SoundAfter(ram')) /\ (flash' # None => SoundAfter(flash')) /\ (copy' # None => SoundAfter(copy'))
        BY <1>3, <2>1
    <2> QED BY <1>2, <2>1, <2>9
<1>16. ASSUME Passes PROVE Counted'
    <2>1. UNCHANGED <<ram, flash, copy, session_base>> /\ stage = "run" /\ uptime' = uptime + 1
          /\ truth'.up = truth.up + 1
        BY <1>16 DEF Passes, TypeOK, CountersOK, persist
    <2>2. Based
        BY <1>0, <2>1 DEF Counted
    <2> QED BY <1>2, <1>3, <2>1, <2>2
<1>17. ASSUME UNCHANGED <<persist, truth, clock, stage>> PROVE Counted'
    <2>1. UNCHANGED <<ram, flash, copy>> /\ Based
        BY <1>17 DEF Counted, persist, clock
    <2>9. (ram' # None => SoundAfter(ram')) /\ (flash' # None => SoundAfter(flash')) /\ (copy' # None => SoundAfter(copy'))
        BY <1>3, <2>1
    <2> QED BY <1>2, <2>1, <2>9
<1> QED
    BY <1>4, <1>5, <1>6, <1>7, <1>9, <1>10, <1>12, <1>13, <1>14, <1>15, <1>16, <1>17
    DEF Next, vars, Confirms, Uploads, SetsKey, SetsGate, SetsMode, TakesEffect, KeepsMode, Changes

-----------------------------------------------------------------------------
Flags == [spend : BOOLEAN, mode : BOOLEAN, seal : BOOLEAN]

(* A fault or a crash that leaves valid RAM leaves it standing for what it *)
(* stood for, or is on record.                                             *)
LEMMA FaultsKeepStanding ==
    ASSUME TypeOK, (\E keeps \in BOOLEAN : Faults(keeps)) \/ Crashes
    PROVE  /\ UNCHANGED <<flash, copy>> /\ stage' = "reset" /\ ram' \in {ram, None}
           /\ (ram' # None) /\ ~failed'.seal => Stands /\ ~failed.seal
           /\ ~failed'.spend => ~failed.spend /\ stage # "spend"
<1> USE DEF Stands, Early, Loading, After, CutsRestore
<1>0. failed \in Flags /\ stage \in Stages /\ ram_was_valid \in BOOLEAN
    BY DEF TypeOK, Flags
<1>1. CASE Crashes
    <2>1. failed' = [failed EXCEPT !.seal = @ \/ CutsRestore, !.spend = @ \/ stage = "spend"]
          /\ UNCHANGED <<ram, flash, copy>> /\ stage \notin {"reset", "off"} /\ stage' = "reset"
        BY <1>1 DEF Crashes, persist
    <2>2. (~failed'.seal => ~failed.seal /\ ~CutsRestore) /\ (~failed'.spend => ~failed.spend /\ stage # "spend")
        BY <1>0, <2>1 DEF Flags
    <2> QED BY <1>0, <2>1, <2>2 DEF Stages
<1>2. ASSUME NEW keeps \in BOOLEAN, Faults(keeps)
      PROVE  /\ UNCHANGED <<flash, copy>> /\ stage' = "reset" /\ ram' \in {ram, None}
             /\ (ram' # None) /\ ~failed'.seal => Stands /\ ~failed.seal
             /\ ~failed'.spend => ~failed.spend /\ stage # "spend"
    <2>1. failed' = [failed EXCEPT !.seal = @ \/ (keeps /\ CutsRestore), !.spend = @ \/ stage = "spend"]
          /\ UNCHANGED <<flash, copy>> /\ stage \notin {"reset", "off"} /\ stage' = "reset"
          /\ ram' = (IF keeps THEN ram ELSE None)
        BY <1>2 DEF Faults
    <2>2. (~failed'.seal => ~failed.seal /\ ~(keeps /\ CutsRestore))
          /\ (~failed'.spend => ~failed.spend /\ stage # "spend")
        BY <1>0, <2>1 DEF Flags
    <2> QED BY <1>0, <2>1, <2>2 DEF Stages
<1> QED BY <1>1, <1>2

(* No step leaves less in RAM than was saved (SnapshotCarried).            *)
LEMMA StepCarried == TypeOK /\ Timed /\ Carried /\ [Next]_vars => Carried'
<1> SUFFICES ASSUME TypeOK, Timed, Carried, [Next]_vars PROVE Carried'
    OBVIOUS
<1> USE DEF Carried, Stands, Unspent, Early, Loading, After, AtLeast
<1>0. /\ ram \in Records \cup {None} /\ flash \in Records \cup {None} /\ copy \in Records \cup {None}
      /\ session_base \in Nat /\ uptime \in Nat /\ failed \in Flags /\ stage \in Stages
      /\ ram_was_valid \in BOOLEAN
    BY DEF TypeOK, RecordsOK, CountersOK, Flags
<1>1. ASSUME Starts \/ SetsClock PROVE Carried'
    BY <1>1 DEF Starts, SetsClock, persist
<1>2. ASSUME Validates PROVE Carried'
    <2>1. uptime = 0 /\ UNCHANGED <<flash, copy, uptime, failed>> /\ stage = "restore" /\ stage' = "load"
          /\ session_base' = (IF ram # None THEN ram.up ELSE 0)
        BY <1>2 DEF Validates, Timed, clock
    <2>2. CASE ram # None
        <3>1. ram' = ram /\ ram.up \in Nat
            BY <1>0, <1>2, <2>2 DEF Validates, Sealed, Records
        <3> QED BY <2>1, <2>2, <3>1
    <2>3. CASE ram = None
        <3>1. ram'.up = 0 /\ ram_was_valid' = FALSE
            BY <1>2, <2>3 DEF Validates, Sealed, Zeros
        <3> QED BY <2>1, <2>3, <3>1
    <2> QED BY <2>2, <2>3
<1>3. ASSUME Loads PROVE Carried'
    <2>1. copy' = flash /\ UNCHANGED <<ram, flash, ram_was_valid, session_base, uptime>>
          /\ stage = "load" /\ stage' = "count" /\ failed'.seal = failed.seal
        BY <1>0, <1>3 DEF Loads, LoadsSnapshot, LoadsSettings, clock, Flags
    <2> QED BY <2>1
<1>4. ASSUME Counts PROVE Carried'
    <2>1. /\ stage = "count" /\ copy = flash /\ uptime = 0 /\ UNCHANGED <<flash, failed, uptime>>
          /\ stage' \in {"spend", "draw"}
        BY <1>4 DEF Counts, Timed
    <2>2. /\ Base \in Records /\ ram'.up = Base.up /\ ram'.boots = Base.boots + 1
          /\ ram'.refreshes = Base.refreshes
          /\ session_base' = (IF Restorable THEN copy.up ELSE session_base)
        BY <1>4, CountedRam
    <2>3. Base.updates <= ram'.updates /\ Base.boots \in Nat /\ Base.up \in Nat /\ Base.refreshes \in Nat
        <3>1. Base.updates \in Nat /\ Base.boots \in Nat /\ Base.up \in Nat /\ Base.refreshes \in Nat
            BY <2>2 DEF Records
        <3>2. ram'.updates = IF RealUpdate(Base) THEN Base.updates + 1 ELSE Base.updates
            BY <1>4, CountedRam
        <3> QED BY <3>1, <3>2
    <2>4. CASE Restorable
        BY <2>1, <2>2, <2>3, <2>4 DEF Base
    <2>5. CASE ~Restorable
        <3>1. Base = ram /\ session_base' = session_base
            BY <2>2, <2>5 DEF Base
        <3>2. ASSUME ~failed.seal, Unspent PROVE AtLeast(ram, flash)
            BY <2>1, <2>5, <3>2 DEF Restorable
        <3>3. flash # None => flash.up \in Nat /\ flash.boots \in Nat /\ flash.updates \in Nat
                              /\ flash.refreshes \in Nat
            BY <1>0 DEF Records
        <3>4. ram \in Records /\ ram.updates \in Nat
            BY <2>2, <3>1 DEF Records
        <3>5. /\ ram'.up = ram.up /\ ram'.boots = ram.boots + 1 /\ ram'.refreshes = ram.refreshes
              /\ ram.updates <= ram'.updates /\ ram'.updates \in Nat
              /\ ram.up \in Nat /\ ram.boots \in Nat /\ ram.refreshes \in Nat
            <4>1. ram' \in Records
                BY <1>4, CountedRam
            <4> QED BY <2>2, <2>3, <3>1, <4>1 DEF Records
        <3>6. ASSUME ~failed.seal, Unspent PROVE AtLeast(ram', flash)
            BY <3>2, <3>3, <3>4, <3>5, <3>6
        <3>7. ram'.up <= session_base' + uptime'
            BY <2>1, <3>1, <3>5
        <3> QED BY <2>1, <3>6, <3>7
    <2> QED BY <2>4, <2>5
<1>5. ASSUME NEW done \in BOOLEAN, Spends(done) PROVE Carried'
    <2>1. /\ stage = "spend" /\ stage' = "draw" /\ UNCHANGED <<ram, session_base, uptime>>
          /\ copy' = [copy EXCEPT !.spent = TRUE] /\ flash' = (IF done THEN copy' ELSE flash)
          /\ failed'.seal = failed.seal
        BY <1>0, <1>5 DEF Spends, clock, Flags
    <2>2. copy'.spent
        <3>1. copy \in Records
            BY <1>0, <2>1 DEF TypeOK, RecordsOK
        <3> QED BY <2>1, <3>1 DEF Records
    <2> QED BY <2>1, <2>2
<1>6. ASSUME Refreshed, stage \in {"draw", "run"}, stage' = "run",
             UNCHANGED <<flash, session_base, uptime, failed>>
      PROVE  Carried'
    <2>1. ram.refreshes \in Nat
        BY <1>0, <1>6 DEF TypeOK, RecordsOK, Records
    <2>2. flash # None => flash.refreshes \in Nat
        BY <1>0 DEF Records
    <2> QED BY <1>0, <1>6, <2>1, <2>2, RefreshedRam
<1>7. ASSUME Draws \/ Refreshes PROVE Carried'
    <2>1. stage \in {"draw", "run"} /\ stage' = "run" /\ UNCHANGED <<flash, session_base, uptime, failed>>
        BY <1>7 DEF Draws, Refreshes, clock
    <2>2. CASE ram' = ram
        BY <2>1, <2>2
    <2> QED BY <1>6, <1>7, <2>1, <2>2 DEF Draws, Refreshes
<1>8. ASSUME Passes PROVE Carried'
    <2>1. UNCHANGED <<ram, flash, copy, session_base, stage, failed>> /\ stage = "run"
          /\ uptime' = uptime + 1
        BY <1>8 DEF Passes, persist
    <2>2. ram.up \in Nat
        BY <1>0, <2>1 DEF TypeOK, RecordsOK, Records
    <2> QED BY <1>0, <2>1, <2>2
<1>9. ASSUME stage = "run" PROVE
          /\ Rolled.up = session_base + uptime /\ AtLeast(Rolled, ram)
          /\ ~failed.seal /\ Unspent => AtLeast(Rolled, flash)
    <2>1. ram \in Records
        BY <1>0, <1>9 DEF TypeOK, RecordsOK
    <2>2. /\ Rolled.up = session_base + uptime /\ Rolled.boots = ram.boots
          /\ Rolled.updates = ram.updates /\ Rolled.refreshes = ram.refreshes
        BY <1>9, RolledRecord
    <2>3. /\ ram.up \in Nat /\ ram.boots \in Nat /\ ram.updates \in Nat /\ ram.refreshes \in Nat
        BY <2>1 DEF Records
    <2>4. flash # None => flash.up \in Nat
        BY <1>0 DEF Records
    <2> QED BY <1>0, <1>9, <2>2, <2>3, <2>4
<1>10. ASSUME Ticks PROVE Carried'
    <2>1. stage = "run" /\ ram' = Rolled /\ UNCHANGED <<flash, copy, session_base, uptime, stage, failed>>
        BY <1>10 DEF Ticks, clock
    <2> HIDE DEF AtLeast
    <2>2. AtLeast(ram', flash') <=> AtLeast(Rolled, flash)
        BY <2>1 DEF AtLeast
    <2>3. (AtLeast(ram, flash))' <=> AtLeast(ram', flash')
        BY DEF AtLeast
    <2>4. session_base + uptime \in Nat
        BY <1>0
    <2> QED BY <1>9, <2>1, <2>2, <2>3, <2>4
<1>11. ASSUME NEW done \in BOOLEAN, NEW next \in {"reset", "off", "run"}, Saves(done, next)
       PROVE  Carried'
    <2> DEFINE snap == [Rolled EXCEPT !.spent = FALSE]
    <2>1. /\ stage = "run" /\ ram' = Rolled /\ UNCHANGED <<session_base, uptime>> /\ stage' = next
          /\ IF done THEN flash' = snap ELSE UNCHANGED flash
        BY <1>11 DEF Saves, clock
    <2>2. done \/ failed'.seal = failed.seal
        BY <1>0, <1>11 DEF Saves, Flags
    <2>3. session_base + uptime \in Nat
        BY <1>0
    <2>4. CASE done
        <3>1. Rolled \in Records
            <4>1. ram \in Records /\ ram' \in Records \cup {None} /\ ram' = Rolled
                BY <1>0, <2>1, StepRecords DEF TypeOK, RecordsOK
            <4>2. ram \in Records /\ session_base + uptime \in Nat /\ Now \in Nat
                BY <2>1, <2>3, <4>1, BootAssumption DEF Timed, TypeOK, CountersOK, ImagesOK, Now
            <4> QED BY <4>2 DEF Rolled, Records
        <3>2. /\ snap.up = Rolled.up /\ snap.boots = Rolled.boots /\ snap.updates = Rolled.updates
              /\ snap.refreshes = Rolled.refreshes
              /\ Rolled.up \in Nat /\ Rolled.boots \in Nat /\ Rolled.updates \in Nat /\ Rolled.refreshes \in Nat
            <4> HIDE DEF Rolled
            <4> QED BY <3>1 DEF Records
        <3> HIDE DEF snap
        <3> QED BY <1>9, <2>1, <2>3, <2>4, <3>2
    <2>5. CASE ~done
        BY <1>9, <2>1, <2>2, <2>3, <2>5
    <2> QED BY <2>4, <2>5
<1>12. ASSUME NewBattery PROVE Carried'
    BY <1>12 DEF NewBattery
<1>13. ASSUME (\E keeps \in BOOLEAN : Faults(keeps)) \/ Crashes PROVE Carried'
    <2>1. /\ UNCHANGED <<flash, copy>> /\ stage' = "reset" /\ ram' \in {ram, None}
          /\ (ram' # None) /\ ~failed'.seal => Stands /\ ~failed.seal
        BY <1>13, FaultsKeepStanding
    <2> QED BY <2>1
<1>14. ASSUME UNCHANGED <<persist, clock, stage>>, failed'.seal = failed.seal PROVE Carried'
    BY <1>14 DEF persist, clock
<1>15. ASSUME NEW done \in BOOLEAN, KeepsMode(done) PROVE Carried'
    <2>1. failed'.seal = failed.seal
        BY <1>0, <1>15 DEF KeepsMode, Flags
    <2> QED BY <1>14, <1>15, <2>1 DEF KeepsMode
<1> QED
    BY <1>1, <1>2, <1>3, <1>4, <1>5, <1>7, <1>8, <1>10, <1>11, <1>12, <1>13, <1>14, <1>15
    DEF Next, vars, Confirms, Uploads, SetsKey, SetsGate, SetsMode, TakesEffect, Changes

-----------------------------------------------------------------------------
(* A snapshot that was counted in gets marked (SpentAfterUpdate).          *)
LEMMA StepSpent == TypeOK /\ Carried /\ Spent /\ [Next]_vars => Spent'
<1> SUFFICES ASSUME TypeOK, Carried, Spent, [Next]_vars PROVE Spent'
    OBVIOUS
<1> USE DEF Spent, Stands, Unspent, Early, Loading, After
<1>0. /\ ram \in Records \cup {None} /\ flash \in Records \cup {None} /\ copy \in Records \cup {None}
      /\ failed \in Flags /\ stage \in Stages /\ ram_was_valid \in BOOLEAN /\ image # 0
    BY BootAssumption DEF TypeOK, RecordsOK, ImagesOK, Flags
<1>1. ASSUME Starts \/ SetsClock PROVE Spent'
    BY <1>1 DEF Starts, SetsClock, persist
<1>2. ASSUME Validates PROVE Spent'
    BY <1>2 DEF Validates, Sealed
<1>3. ASSUME Loads PROVE Spent'
    <2>1. copy' = flash /\ UNCHANGED <<ram, flash, ram_was_valid>> /\ stage = "load" /\ stage' = "count"
          /\ failed'.seal = failed.seal /\ failed'.spend = failed.spend
        BY <1>0, <1>3 DEF Loads, LoadsSnapshot, LoadsSettings, Flags
    <2> QED BY <2>1
<1>4. ASSUME Counts PROVE Spent'
    <2>1. /\ stage = "count" /\ copy = flash /\ UNCHANGED <<flash, copy, failed, image>>
          /\ ram'.build = image /\ stage' = (IF ToSpend(Base) THEN "spend" ELSE "draw")
        BY <1>4, CountedRam DEF Counts, Carried, boot
    <2>2. ASSUME ~failed.seal, ~failed.spend, Unspent, stage' = "draw" PROVE flash.build = image
        <3>1. Base.build = image \/ Base.build = 0
            BY <2>1, <2>2 DEF ToSpend, RealUpdate
        <3>2. CASE Restorable
            BY <2>1, <2>2, <3>1, <3>2 DEF Base
        <3>3. CASE ~Restorable
            BY <2>1, <2>2, <3>1, <3>3 DEF Base, Restorable
        <3> QED BY <3>2, <3>3
    <2> QED BY <2>1, <2>2
<1>5. ASSUME NEW done \in BOOLEAN, Spends(done) PROVE Spent'
    <2>1. /\ stage = "spend" /\ stage' = "draw" /\ UNCHANGED <<ram, image>>
          /\ copy' = [copy EXCEPT !.spent = TRUE] /\ flash' = (IF done THEN copy' ELSE flash)
          /\ ~done => failed'.spend
        BY <1>0, <1>5 DEF Spends, boot, Flags
    <2>2. copy'.spent /\ copy'.build = copy.build /\ copy.build # 0
        <3>1. copy \in Records /\ copy.build # 0
            BY <1>0, <2>1 DEF TypeOK, RecordsOK
        <3> QED BY <2>1, <3>1 DEF Records
    <2> QED BY <2>1, <2>2
<1>6. ASSUME Draws \/ Refreshes PROVE Spent'
    <2>1. stage \in {"draw", "run"} /\ stage' = "run" /\ UNCHANGED <<flash, copy, failed, image>>
        BY <1>6 DEF Draws, Refreshes, boot
    <2>2. ram'.build = ram.build
        BY <1>6, <2>1, RefreshedRam DEF Draws, Refreshes
    <2> QED BY <2>1, <2>2
<1>7. ASSUME Ticks PROVE Spent'
    <2>1. stage = "run" /\ ram' = Rolled /\ UNCHANGED <<flash, copy, failed, image, stage>>
        BY <1>7 DEF Ticks, boot
    <2>2. ram'.build = ram.build
        BY <2>1, RolledRecord
    <2> QED BY <2>1, <2>2
<1>8. ASSUME NEW done \in BOOLEAN, NEW next \in {"reset", "off", "run"}, Saves(done, next) PROVE Spent'
    <2> DEFINE snap == [Rolled EXCEPT !.spent = FALSE]
    <2>1. /\ stage = "run" /\ ram' = Rolled /\ UNCHANGED image /\ stage' = next
          /\ IF done THEN flash' = snap /\ copy' = snap ELSE UNCHANGED <<flash, copy>>
        BY <1>8 DEF Saves, boot
    <2>2. done \/ (failed'.seal = failed.seal /\ failed'.spend = failed.spend)
        BY <1>0, <1>8 DEF Saves, Flags
    <2>3. Rolled.build = image
        BY <2>1, RolledRecord
    <2>4. done => snap.build = Rolled.build
        BY DEF Rolled
    <2> HIDE DEF snap
    <2> QED BY <1>0, <2>1, <2>2, <2>3, <2>4
<1>9. ASSUME NewBattery PROVE Spent'
    BY <1>9 DEF NewBattery
<1>10. ASSUME (\E keeps \in BOOLEAN : Faults(keeps)) \/ Crashes PROVE Spent'
    <2>1. /\ UNCHANGED <<flash, copy>> /\ stage' = "reset" /\ ram' \in {ram, None}
          /\ (ram' # None) /\ ~failed'.seal => Stands /\ ~failed.seal
          /\ ~failed'.spend => ~failed.spend /\ stage # "spend"
        BY <1>10, FaultsKeepStanding
    <2> QED BY <2>1
<1>11. ASSUME UNCHANGED <<persist, stage, image>>, failed'.seal = failed.seal, failed'.spend = failed.spend
       PROVE  Spent'
    BY <1>11 DEF persist
<1>12. ASSUME NEW done \in BOOLEAN, KeepsMode(done) PROVE Spent'
    <2>1. failed'.seal = failed.seal /\ failed'.spend = failed.spend
        BY <1>0, <1>12 DEF KeepsMode, Flags
    <2> QED BY <1>11, <1>12, <2>1 DEF KeepsMode, boot
<1> QED
    BY <1>1, <1>2, <1>3, <1>4, <1>5, <1>6, <1>7, <1>8, <1>9, <1>10, <1>11, <1>12
    DEF Next, vars, boot, Passes, Confirms, Uploads, SetsKey, SetsGate, SetsMode, TakesEffect,
        Changes

-----------------------------------------------------------------------------
(* What is in force is stored, but for a mode whose write failed.          *)
LEMMA StepDurable == TypeOK /\ Durable /\ [Next]_vars => Durable'
<1> SUFFICES ASSUME TypeOK, Durable, [Next]_vars PROVE Durable'
    OBVIOUS
<1> USE DEF Durable, KeyDurable, ModeDurable, After
<1>0. /\ stored \in Settings(Keys \cup {None}) /\ live \in Settings(Keys \cup {FactoryKey, DefaultKey})
      /\ failed \in Flags
    BY DEF TypeOK, SettingsOK, Flags
<1>1. ASSUME Loads PROVE Durable'
    <2>1. live' = [stored EXCEPT !.key = Effective(stored.key)] /\ UNCHANGED stored
        BY <1>1 DEF Loads, LoadsSnapshot, LoadsSettings
    <2>2. live'.key = Effective(stored.key) /\ live'.gate = stored.gate /\ live'.mode = stored.mode
        BY <1>0, <2>1 DEF Settings
    <2> QED BY <2>1, <2>2
<1>2. ASSUME NEW k \in Keys, NEW done \in BOOLEAN, SetsKey(k, done) PROVE Durable'
    <2>1. stage = "run" /\ UNCHANGED <<live, failed>>
          /\ \/ stored' = [stored EXCEPT !.key = k] /\ half' = "key" /\ half = "none"
             \/ UNCHANGED <<stored, half>>
        BY <1>2 DEF SetsKey, Changes
    <2>2. CASE stored' = [stored EXCEPT !.key = k] /\ half' = "key" /\ half = "none"
        <3>1. stored'.gate = stored.gate /\ stored'.mode = stored.mode
            BY <1>0, <2>2 DEF Settings
        <3> QED BY <2>1, <2>2, <3>1
    <2> QED BY <2>1, <2>2
<1>3. ASSUME NEW on \in BOOLEAN, NEW done \in BOOLEAN, SetsGate(on, done) PROVE Durable'
    <2>1. stage = "run" /\ UNCHANGED <<live, failed>>
          /\ \/ stored' = [stored EXCEPT !.gate = on] /\ half' = "gate" /\ half = "none"
             \/ UNCHANGED <<stored, half>>
        BY <1>3 DEF SetsGate, Changes
    <2>2. CASE stored' = [stored EXCEPT !.gate = on] /\ half' = "gate" /\ half = "none"
        <3>1. stored'.key = stored.key /\ stored'.mode = stored.mode
            BY <1>0, <2>2 DEF Settings
        <3> QED BY <2>1, <2>2, <3>1
    <2> QED BY <2>1, <2>2
<1>4. ASSUME NEW mode \in {"clock", "picture"}, SetsMode(mode) PROVE Durable'
    <2>1. stage = "run" /\ half = "none" /\ half' = "mode" /\ UNCHANGED <<stored, failed>>
          /\ live' = [live EXCEPT !.mode = mode]
        BY <1>4 DEF SetsMode, Changes
    <2>2. live'.key = live.key /\ live'.gate = live.gate
        BY <1>0, <2>1 DEF Settings
    <2> QED BY <2>1, <2>2
<1>12. ASSUME NEW done \in BOOLEAN, KeepsMode(done) PROVE Durable'
    <2>1. stage = "run" /\ half = "mode" /\ UNCHANGED live
          /\ stored' = (IF done THEN [stored EXCEPT !.mode = live.mode] ELSE stored)
          /\ failed' = [failed EXCEPT !.mode = ~done]
        BY <1>12 DEF KeepsMode, StoredMode
    <2>2. stored'.key = stored.key /\ stored'.gate = stored.gate /\ (done => stored'.mode = live.mode)
        BY <1>0, <2>1 DEF Settings
    <2>3. ~done => failed'.mode
        BY <1>0, <2>1 DEF Flags
    <2> QED BY <2>1, <2>2, <2>3
<1>13. ASSUME TakesEffect PROVE Durable'
    <2>0. stage = "run" /\ half \in {"key", "gate"} /\ UNCHANGED <<stored, failed>>
        BY <1>13 DEF TakesEffect
    <2>1. CASE half = "key"
        <3>1. live'.key = stored.key /\ live'.gate = live.gate /\ live'.mode = live.mode
            BY <1>0, <1>13, <2>1 DEF TakesEffect, Settings
        <3>2. stored.key # None
            BY <2>1, BootAssumption DEF TypeOK
        <3> QED BY <2>0, <2>1, <3>1, <3>2 DEF Effective
    <2>2. CASE half = "gate"
        <3>1. live'.key = live.key /\ live'.gate = stored.gate /\ live'.mode = live.mode
            BY <1>0, <1>13, <2>2 DEF TakesEffect, Settings
        <3> QED BY <2>0, <2>2, <3>1
    <2> QED BY <2>0, <2>1, <2>2
<1>5. ASSUME stage' \in {"reset", "clock", "restore", "load", "off"} PROVE Durable'
    BY <1>5
<1>6. ASSUME UNCHANGED settings, failed'.mode = failed.mode, stage \in {"count"} \cup After PROVE Durable'
    BY <1>6 DEF settings
<1>7. ASSUME NEW done \in BOOLEAN, Spends(done) PROVE Durable'
    <2>1. failed'.mode = failed.mode
        BY <1>0, <1>7 DEF Spends, Flags
    <2> QED BY <1>6, <1>7, <2>1 DEF Spends
<1>8. ASSUME NEW done \in BOOLEAN, NEW next \in {"reset", "off", "run"}, Saves(done, next) PROVE Durable'
    <2>1. failed'.mode = failed.mode
        BY <1>0, <1>8 DEF Saves, Flags
    <2> QED BY <1>6, <1>8, <2>1 DEF Saves
<1>9. ASSUME Starts \/ SetsClock \/ Validates \/ NewBattery \/ Crashes \/ \E keeps \in BOOLEAN : Faults(keeps)
      PROVE  Durable'
    BY <1>5, <1>9 DEF Starts, SetsClock, Validates, NewBattery, Crashes, Faults
<1>10. ASSUME Counts \/ Draws \/ Passes \/ Confirms \/ Ticks \/ Refreshes \/ \E b \in Builds : Uploads(b)
       PROVE  Durable'
    BY <1>6, <1>10 DEF Counts, Draws, Passes, Confirms, Ticks, Refreshes, Uploads
<1>11. CASE UNCHANGED vars
    BY <1>11 DEF vars, settings
<1> QED
    BY <1>1, <1>2, <1>3, <1>4, <1>7, <1>8, <1>9, <1>10, <1>11, <1>12, <1>13 DEF Next

-----------------------------------------------------------------------------
(* A tag that was never started has nothing to account for.                *)
LEMMA InitInv == Init => Inv
<1> SUFFICES ASSUME Init PROVE Inv
    OBVIOUS
<1> USE BootAssumption DEF Init
<1>1. ImagesOK /\ RecordsOK /\ CountersOK
    BY DEF ImagesOK, RecordsOK, CountersOK
<1>2. SettingsOK
    BY DEF SettingsOK, Settings
<1>3. TypeOK
    BY <1>1, <1>2 DEF TypeOK, Stages
<1>4. Counted /\ Timed /\ Carried /\ Spent /\ Durable
    BY DEF Counted, Timed, Carried, Spent, Durable, Stands, Unspent, Early, Loading, After
<1> QED BY <1>3, <1>4 DEF Inv

(* The parts, each kept with the help of the ones before it.               *)
LEMMA StepInv == Inv /\ [Next]_vars => Inv'
BY StepTyped, StepTimed, StepCounted, StepCarried, StepSpent, StepDurable DEF Inv

(* The inductive invariant of the boot: main, persist_* and secauth_*.     *)
THEOREM Invariance == Spec => []Inv
BY InitInv, StepInv, PTL DEF Spec

(* Every variable of the boot keeps its type.                              *)
THEOREM TypeCorrect == Spec => []TypeOK
<1>1. Inv => TypeOK
    BY DEF Inv
<1> QED BY <1>1, Invariance, PTL

(* No boot, update, refresh or second is counted twice, in RAM or flash.   *)
THEOREM NothingCountedTwice == Spec => []NeverOvercounts
<1>1. Inv => NeverOvercounts
    BY DEF Inv, Counted, NeverOvercounts, Running, After
<1> QED BY <1>1, Invariance, PTL

(* What was saved before a reset is carried across it.                     *)
THEOREM TotalsAreCarried == Spec => []SnapshotCarried
<1>1. Inv => SnapshotCarried
    BY DEF Inv, Carried, SnapshotCarried, SnapshotAlwaysCarried, Running, Unspent, Stands, After
<1> QED BY <1>1, Invariance, PTL

(* No snapshot of an earlier image outlives the update that counted it in. *)
THEOREM SnapshotsAreSpent == Spec => []SpentAfterUpdate
<1>1. Inv => SpentAfterUpdate
    BY DEF Inv, Spent, SpentAfterUpdate, Running, Unspent, Stands, After
<1> QED BY <1>1, Invariance, PTL

(* The clock never goes behind the image or what it showed.                *)
THEOREM ClockIsSane == Spec => []ClockSane
<1>1. Inv => ClockSane
    BY DEF Inv, Timed, ClockSane, Running, After
<1> QED BY <1>1, Invariance, PTL

(* The next boot finds the key, the gate and the mode that are in force.   *)
THEOREM SettingsAreDurable == Spec => []SettingsDurable
<1>1. Inv => SettingsDurable
    BY DEF Inv, Durable, SettingsDurable, Running, After
<1> QED BY <1>1, Invariance, PTL

=============================================================================
