----------------------------- MODULE SaverProofs -----------------------------
(***************************************************************************)
(* What holds of the saver for every profile, threshold and bound.         *)
(***************************************************************************)
EXTENDS Saver, SequenceTheorems, TLAPS

(***************************************************************************)
(* Division with remainder, for any divisor.                               *)
(***************************************************************************)
(* Division with remainder.                                                *)
LEMMA DivMod ==
    ASSUME NEW n \in Nat, NEW m \in Nat \ {0}
    PROVE  n \div m \in Nat /\ n % m \in 0 .. m - 1 /\ n = m * (n \div m) + (n % m)
<1>1. n % m = n - m * (n \div m)
    BY Z3
<1>2. n \div m \in Nat
    OBVIOUS
<1>3. n % m \in 0 .. m - 1
    OBVIOUS
<1> DEFINE q == n \div m
           r == n % m
<1> HIDE DEF q, r
<1>4. r = n - m * q /\ q \in Nat /\ r \in 0 .. m - 1
    BY <1>1, <1>2, <1>3 DEF q, r
<1>5. m * q \in Nat
    BY <1>4
<1>6. n = m * q + r
    BY <1>4, <1>5
<1> QED BY <1>2, <1>3, <1>6 DEF q, r

(* The remainder of what is given as one.                                  *)
LEMMA ModOf ==
    ASSUME NEW q \in Nat, NEW m \in Nat \ {0}, NEW r \in 0 .. m - 1
    PROVE  (m * q + r) % m = r
BY SMTT(30)

(* How a remainder counts.                                                 *)
LEMMA ModNext ==
    ASSUME NEW n \in Nat, NEW m \in Nat \ {0}
    PROVE  (n + 1) % m = IF (n % m) + 1 = m THEN 0 ELSE (n % m) + 1
<1> DEFINE q == n \div m
           r == n % m
<1>1. q \in Nat /\ r \in 0 .. m - 1 /\ n = m * q + r
    BY DivMod
<1> HIDE DEF q, r
<1>2. CASE r + 1 = m
    <2>1. n + 1 = m * (q + 1) + 0
        BY <1>1, <1>2
    <2>2. (m * (q + 1) + 0) % m = 0
        BY <1>1, ModOf
    <2> QED BY <1>2, <2>1, <2>2 DEF r
<1>3. CASE r + 1 # m
    <2>1. n + 1 = m * q + (r + 1)
        BY <1>1
    <2>2. r + 1 \in 0 .. m - 1
        BY <1>1, <1>3
    <2>3. (m * q + (r + 1)) % m = r + 1
        BY <1>1, <2>2, ModOf
    <2> QED BY <1>3, <2>1, <2>3 DEF r
<1> QED BY <1>2, <1>3

(* A remainder of what is less than the divisor.                           *)
LEMMA ModSmall ==
    ASSUME NEW m \in Nat \ {0}, NEW n \in 0 .. m - 1
    PROVE  n % m = n
OBVIOUS

(* What is short of a multiple.                                            *)
LEMMA ModRest ==
    ASSUME NEW n \in Nat, NEW m \in Nat \ {0}
    PROVE  (n + (m - (n % m))) % m = 0
<1> DEFINE q == n \div m
           r == n % m
<1>1. q \in Nat /\ r \in 0 .. m - 1 /\ n = m * q + r
    BY DivMod
<1> HIDE DEF q, r
<1>2. n + (m - r) = m * (q + 1) + 0
    BY <1>1
<1>3. (m * (q + 1) + 0) % m = 0
    BY <1>1, ModOf
<1> QED BY <1>2, <1>3 DEF r

(* The difference of two multiples.                                        *)
LEMMA ModLess ==
    ASSUME NEW n \in Nat, NEW k \in Nat, NEW m \in Nat \ {0}, k <= n, n % m = 0, k % m = 0
    PROVE  (n - k) % m = 0
<1> DEFINE q == n \div m
           p == k \div m
<1>1. q \in Nat /\ p \in Nat /\ n = m * q /\ k = m * p
    BY DivMod
<1> HIDE DEF q, p
<1>2. q - p \in Nat
    <2> SUFFICES ASSUME q < p PROVE FALSE
        BY <1>1
    <2> DEFINE e == p - q
    <2>1. e \in Nat \ {0} /\ p = q + e
        BY <1>1
    <2> HIDE DEF e
    <2>2. m * (q + e) = m * q + m * e
        BY <1>1, <2>1
    <2>3. m * e \in Nat \ {0}
        BY <2>1
    <2> QED BY <1>1, <2>1, <2>2, <2>3
<1>3. n - k = m * (q - p) + 0
    BY <1>1
<1>4. 0 \in 0 .. m - 1
    OBVIOUS
<1>5. (m * (q - p) + 0) % m = 0
    BY ONLY <1>2, <1>4, ModOf
<1> QED BY <1>3, <1>5

-----------------------------------------------------------------------------
(* The battery monitor keeps its ring within its length.                   *)
LEMMA RememberedType ==
    ASSUME NEW history \in Readings, NEW v \in Levels
    PROVE  Remembered(history, v) \in Readings
<1> USE SaverAssumption
<1>1. CASE Len(history) < HistoryLen
    <2>1. Append(history, v) \in Seq(Levels) /\ Len(Append(history, v)) = Len(history) + 1
        BY AppendProperties DEF Readings
    <2> QED BY <1>1, <2>1, LenProperties DEF Readings, Remembered
<1>2. CASE ~(Len(history) < HistoryLen)
    <2>1. history # << >>
        BY <1>2, EmptySeq DEF Readings
    <2>2. Tail(history) \in Seq(Levels) /\ Len(Tail(history)) = Len(history) - 1
        BY <2>1, HeadTailProperties DEF Readings
    <2>3. /\ Append(Tail(history), v) \in Seq(Levels)
          /\ Len(Append(Tail(history), v)) = Len(Tail(history)) + 1
        BY <2>2, AppendProperties
    <2> QED BY <1>2, <2>2, <2>3, LenProperties DEF Readings, Remembered
<1> QED BY <1>1, <1>2

(* battery_monitor_update keeps its state typed, and leaves a supply that  *)
(* was never high alone.                                                   *)
LEMMA MonitorType ==
    ASSUME NEW b \in Monitors, NEW v \in Levels
    PROVE  /\ MonitorUpdate(b, v) \in Monitors
           /\ b.high <= MonitorUpdate(b, v).high
           /\ (b.state # "ok" => b.high = WasHighCount)
              => (MonitorUpdate(b, v).state # "ok" => MonitorUpdate(b, v).high = WasHighCount)
<1> USE SaverAssumption
<1> DEFINE history == Remembered(b.history, v)
           high == HighSeen(b.high, v)
<1>1. history \in Readings
    BY RememberedType DEF Monitors
<1>2. high \in 0..WasHighCount /\ b.high <= high
    BY DEF HighSeen, Monitors
<1>3. NextState(b.state, v, history) \in {"ok", "low", "critical", "shutdown"}
    <2>1. b.state \in {"ok", "low", "critical", "shutdown"}
        BY DEF Monitors
    <2> HIDE DEF history
    <2> QED BY <2>1, Zenon DEF NextState
<1>4. CASE b.state = "shutdown"
    BY <1>4 DEF MonitorUpdate, Monitors
<1>5. CASE b.state # "shutdown"
    <2>1. MonitorUpdate(b, v) =
            [history |-> history, high |-> high,
             state |-> IF high < WasHighCount THEN b.state ELSE NextState(b.state, v, history)]
        BY <1>5 DEF MonitorUpdate
    <2> HIDE DEF history, high
    <2> QED BY <1>1, <1>2, <1>3, <2>1 DEF Monitors, Readings
<1> QED BY <1>4, <1>5

(* A charged battery that is read as critical is switched off.             *)
LEMMA CriticalIsSeen ==
    ASSUME NEW b \in Monitors, NEW v \in Levels,
           v <= Critical, b.high = WasHighCount
    PROVE  /\ MonitorUpdate(b, v).state \in {"critical", "shutdown"}
<1> USE SaverAssumption
<1> DEFINE history == Remembered(b.history, v)
           high == HighSeen(b.high, v)
<1>1. high = WasHighCount
    BY DEF HighSeen, Monitors
<1>2. NextState(b.state, v, history) \in {"critical", "shutdown"} \/ b.state = "shutdown"
    <2>1. b.state \in {"ok", "low", "critical", "shutdown"}
        BY DEF Monitors
    <2>2. ~(Critical < v) /\ ~(v >= Recover)
        OBVIOUS
    <2> HIDE DEF history
    <2> QED BY <2>1, <2>2, Zenon DEF NextState
<1>3. b.state # "shutdown" => MonitorUpdate(b, v).state = NextState(b.state, v, history)
    BY <1>1 DEF MonitorUpdate
<1> QED BY <1>2, <1>3 DEF MonitorUpdate

(* A voltage that is not high does not add to the count.                   *)
LEMMA LowIsNotCounted ==
    ASSUME NEW b \in Monitors, NEW v \in Levels, v <= Critical
    PROVE  MonitorUpdate(b, v).high = b.high
<1>1. ~(v >= WasHigh)
    BY SaverAssumption
<1>2. HighSeen(b.high, v) = b.high
    BY <1>1 DEF HighSeen
<1> QED BY <1>2 DEF MonitorUpdate

(* A sleep is never longer than the cap (power_profile_seconds_to_tick).   *)
LEMMA SleepIsCapped ==
    ASSUME NEW p \in Profiles, NEW t \in Nat
    PROVE  SleepFor(SecondsToTick(p, t)) \in 0..MaxSleep
<1> USE SaverAssumption
<1>1. Interval(p, t) \in Nat
    BY DEF Interval
<1>2. SecondsToTick(p, t) \in Int
    BY <1>1 DEF SecondsToTick, Never
<1> QED BY <1>2 DEF SleepFor

(* A day has a length.                                                     *)
LEMMA DayType == Day \in Nat \ {0}
BY SaverAssumption DEF Day

(* The wall clock turns over at midnight.                                  *)
LEMMA ClockRuns ==
    ASSUME NEW t \in 0 .. Day - 1
    PROVE  (t + 1) % Day = IF t + 1 = Day THEN 0 ELSE t + 1
<1>1. t % Day = t
    BY DayType, ModSmall
<1>2. Day \in Nat \ {0} /\ t \in Nat
    BY DayType
<1>3. (t + 1) % Day = IF (t % Day) + 1 = Day THEN 0 ELSE (t % Day) + 1
    BY ONLY <1>2, ModNext, Zenon
<1> QED BY <1>1, <1>3, Zenon

-----------------------------------------------------------------------------
(* What the top of a pass does to the battery's own state.                 *)
LEMMA BeginsType ==
    ASSUME TypeOK, NEW fails \in BOOLEAN, Begins(fails)
    PROVE  /\ batt' \in Monitors /\ age' \in Nat /\ flat' \in Nat /\ left' \in 0..MaxChanges
           /\ UNCHANGED <<now, profile, stored, mv>>
<1> USE SaverAssumption
<1>1. batt' \in Monitors
    BY MonitorType DEF Begins, Read, TypeOK
<1> QED BY <1>1 DEF Begins, TypeOK

(* The first state is of its type.                                         *)
LEMMA InitTyped == Init => TypeOK
<1> SUFFICES ASSUME Init PROVE TypeOK
    OBVIOUS
<1> USE SaverAssumption, DayType
<1>1. batt \in Monitors
    <2>1. << >> \in Seq(Levels) /\ Len(<< >>) = 0
        OBVIOUS
    <2> QED BY <2>1 DEF Init, FreshBattery, Monitors, Readings
<1>2. thread \in Threads
    BY DEF Init, Started, Threads
<1>3. {saver, wake, tick_due, warned, wiped} \subseteq BOOLEAN
    BY Zenon DEF Init
<1> QED BY <1>1, <1>2, <1>3 DEF Init, TypeOK, Images

(* Every action keeps the types.                                           *)
LEMMA StepTyped == TypeOK /\ [Next]_vars => TypeOK'
<1> SUFFICES ASSUME TypeOK, [Next]_vars PROVE TypeOK'
    OBVIOUS
<1> USE SaverAssumption
<1>0. thread \in Threads
    BY DEF TypeOK
<1>1. ASSUME NEW fails \in BOOLEAN, Dies(fails) \/ Warns(fails) PROVE TypeOK'
    <2>1. CASE Dies(fails)
        <3>1. thread' \in Threads
            BY <1>0, <2>1 DEF Dies, Threads
        <3> QED BY <2>1, <3>1, BeginsType DEF Dies, TypeOK, Images
    <2>2. CASE Warns(fails)
        <3>1. thread' \in Threads
            BY <2>2 DEF Warns, Goes, Threads
        <3>2. saver' \in BOOLEAN /\ warned' \in BOOLEAN
            BY <2>2, Zenon DEF Warns, TypeOK
        <3> QED BY <2>2, <3>1, <3>2, BeginsType DEF Warns, TypeOK, Images
    <2> QED BY <1>1, <2>1, <2>2
<1>2. ASSUME Shows PROVE TypeOK'
    <2>1. SleepFor(SecondsToTick(profile, now)) \in Nat
          /\ Reaches(SecondsToTick(profile, now)) \in BOOLEAN
        BY SleepIsCapped DEF TypeOK, Reaches
    <2>2. thread' \in Threads
        BY <1>2, <2>1 DEF Shows, Goes, Threads
    <2>3. {saver', warned', wiped'} \subseteq BOOLEAN
        <3>1. wiped \in BOOLEAN
            BY DEF TypeOK
        <3> QED BY <1>2, <3>1, Zenon DEF Shows
    <2>4. fb' \in Images /\ panel' \in Images /\ due' \in Nat
        BY <1>2 DEF Shows, TypeOK, Images
    <2>5. /\ batt' \in Monitors /\ age' \in Nat /\ flat' \in Nat /\ left' \in 0..MaxChanges
          /\ UNCHANGED <<now, profile, stored, mv>>
        BY <1>2, BeginsType DEF Shows
    <2>6. UNCHANGED <<wake, tick_due>>
        BY <1>2 DEF Shows
    <2> QED BY <2>2, <2>3, <2>4, <2>5, <2>6 DEF TypeOK
<1>3. ASSUME Rests PROVE TypeOK'
    <2>1. thread' \in Threads
        BY <1>3 DEF Rests, Goes, Threads
    <2> QED BY <1>3, <2>1, BeginsType DEF Rests, image, TypeOK
<1>4. ASSUME Wakes PROVE TypeOK'
    <2>1. Woken \in BOOLEAN /\ thread.hits \in BOOLEAN /\ tick_due \in BOOLEAN
        BY <1>0 DEF Woken, Threads, TypeOK
    <2>2. tick_due' \in BOOLEAN
        BY <1>4, <2>1, Zenon DEF Wakes, TickDue
    <2>3. thread' \in Threads
        BY <1>0, <1>4, <2>1 DEF Wakes, Threads
    <2> QED BY <1>4, <2>2, <2>3 DEF Wakes, TypeOK, power, image
<1>5. ASSUME Elapses PROVE TypeOK'
    <2>1. (now + 1) % Day \in 0..(Day - 1)
        BY DayType DEF TypeOK
    <2>2. thread' \in Threads
        BY <1>0, <1>5 DEF Elapses, Threads
    <2> QED BY <1>5, <2>1, <2>2 DEF Elapses, TypeOK, image
<1>6. ASSUME ShowsPicture \/ ShowsClock PROVE TypeOK'
    <2>1. {saver', wake', wiped'} \subseteq BOOLEAN
        BY <1>6, Zenon DEF ShowsPicture, ShowsClock, TypeOK, image
    <2> QED BY <1>6, <2>1 DEF ShowsPicture, ShowsClock, Changes, TypeOK, power, image, Images
<1>7. ASSUME Reboots PROVE TypeOK'
    <2>1. << >> \in Seq(Levels) /\ Len(<< >>) = 0
        OBVIOUS
    <2>2. batt' \in Monitors /\ thread' \in Threads
        BY <1>7, <2>1 DEF Reboots, Started, FreshBattery, Threads, Monitors, Readings
    <2>3. {saver', wake', tick_due', warned'} \subseteq BOOLEAN
        BY <1>7, Zenon DEF Reboots
    <2> QED BY <1>7, <2>2, <2>3 DEF Reboots, Changes, TypeOK, Images
<1>8. ASSUME NEW v \in Levels, Drifts(v) PROVE TypeOK'
    BY <1>8 DEF Drifts, Changes, TypeOK, schedule, image
<1>9. ASSUME NEW p \in Profiles, SetsProfile(p) PROVE TypeOK'
    BY <1>9 DEF SetsProfile, ForceUpdate, Changes, TypeOK, power
<1>10. ASSUME NEW t \in 0..(Day - 1), SetsTime(t) PROVE TypeOK'
    BY <1>10 DEF SetsTime, ShowsTime, ForceUpdate, Changes, TypeOK, power
<1>11. CASE UNCHANGED vars
    BY <1>11 DEF vars, schedule, power, image, TypeOK
<1> QED BY <1>1, <1>2, <1>3, <1>4, <1>5, <1>6, <1>7, <1>8, <1>9, <1>10, <1>11 DEF Next

(* Every variable of the saver keeps its type.                             *)
THEOREM TypeCorrect == Spec => []TypeOK
BY InitTyped, StepTyped, PTL DEF Spec

-----------------------------------------------------------------------------
(* A tag on a supply that never looked like a charged battery is spared.   *)
LEMMA StepSpared == TypeOK /\ SupplySpared /\ [Next]_vars => SupplySpared'
<1> SUFFICES ASSUME TypeOK, SupplySpared, [Next]_vars PROVE SupplySpared'
    OBVIOUS
<1>1. ASSUME NEW fails \in BOOLEAN, Begins(fails) PROVE SupplySpared'
    <2>1. MonitorUpdate(batt, mv).state # "ok" => MonitorUpdate(batt, mv).high = WasHighCount
        BY MonitorType DEF TypeOK, SupplySpared
    <2> QED BY <1>1, <2>1 DEF Begins, Read, SupplySpared
<1>2. ASSUME Reboots PROVE SupplySpared'
    BY <1>2 DEF Reboots, FreshBattery, SupplySpared
<1>3. ASSUME UNCHANGED batt PROVE SupplySpared'
    BY <1>3 DEF SupplySpared
<1> QED BY <1>1, <1>2, <1>3
        DEF Next, vars, Dies, Warns, Shows, Rests, Wakes, Elapses, Drifts, SetsProfile, SetsTime,
            ShowsPicture, ShowsClock, power

(* A tag that was never seen with a charged battery is not taken for one   *)
(* with an empty battery (battery_monitor_update, the external supply).    *)
THEOREM SupplyIsSpared == Spec => []SupplySpared
<1>1. Init => SupplySpared
    BY DEF Init, FreshBattery, SupplySpared
<1> QED BY <1>1, StepSpared, TypeCorrect, PTL DEF Spec

-----------------------------------------------------------------------------
(* DiesInTime is not inductive: the time a charged battery has been        *)
(* critical is bounded by the time since the last look, and that, with     *)
(* what is left to sleep, by a cadence and a sleep.                        *)
Timely ==
    /\ Alive => batt.state \in {"ok", "low"}
    /\ thread.at = "asleep" => age + thread.for < Cadence + MaxSleep
    /\ thread.at = "pass" => age < Cadence + MaxSleep
    /\ flat > 0 => mv <= Critical
    /\ Alive /\ batt.high = WasHighCount => flat <= age
    /\ DiesInTime

(* Every action keeps a dying battery within a sleep of a look.            *)
LEMMA StepTimely == TypeOK /\ Timely /\ [Next]_vars => Timely'
<1> SUFFICES ASSUME TypeOK, Timely, [Next]_vars PROVE Timely'
    OBVIOUS
<1> USE SaverAssumption DEF Alive
<1>0. /\ age \in Nat /\ flat \in Nat /\ mv \in Levels /\ thread \in Threads /\ thread.for \in Nat
      /\ batt \in Monitors /\ batt.high \in 0..WasHighCount
    BY DEF TypeOK, Threads, Monitors
<1>1. ASSUME NEW fails \in BOOLEAN, Begins(fails)
      PROVE  /\ flat' > 0 => mv' <= Critical
             /\ flat' \in Nat /\ flat' < Cadence + MaxSleep
             /\ age' \in Nat /\ age' < Cadence
             /\ batt'.state \in {"ok", "low"} /\ batt'.high = WasHighCount => flat' <= age'
    <2>1. thread.at = "pass" /\ age < Cadence + MaxSleep /\ flat < Cadence + MaxSleep
        BY <1>1 DEF Begins, Timely, DiesInTime
    <2>2. flat' = (IF fails THEN 0 ELSE flat) /\ mv' = mv /\ age' = (IF Looks THEN 0 ELSE age)
        BY <1>1 DEF Begins
    <2>3. ASSUME batt'.state \in {"ok", "low"}, batt'.high = WasHighCount PROVE flat' <= age'
        <3>1. CASE flat' = 0
            BY <1>0, <2>2, <3>1 DEF Looks
        <3>2. CASE flat' # 0
            <4>1. ~fails /\ flat' = flat /\ mv <= Critical
                BY <1>0, <2>2, <3>2 DEF Timely
            <4>2. CASE Looks
                <5>1. batt' = MonitorUpdate(batt, mv)
                    BY <1>1, <4>1, <4>2 DEF Begins, Read
                <5>2. batt.high = WasHighCount
                    BY <1>0, <2>3, <4>1, <5>1, LowIsNotCounted
                <5> QED BY <1>0, <2>3, <4>1, <5>1, <5>2, CriticalIsSeen
            <4>3. CASE ~Looks
                BY <1>1, <2>1, <2>2, <2>3, <4>1, <4>3 DEF Begins, Read, Timely
            <4> QED BY <4>2, <4>3
        <3> QED BY <3>1, <3>2
    <2>4. flat' > 0 => mv' <= Critical
        BY <2>2 DEF Timely
    <2>5. flat' \in Nat /\ flat' < Cadence + MaxSleep
        BY <1>0, <2>1, <2>2
    <2>6. age' \in Nat /\ age' < Cadence
        <3>1. CASE Looks
            BY <2>2, <3>1
        <3>2. CASE ~Looks
            BY <1>0, <2>2, <3>2 DEF Looks
        <3> QED BY <3>1, <3>2
    <2> QED BY <2>3, <2>4, <2>5, <2>6, Zenon
<1>2. ASSUME NEW fails \in BOOLEAN, Begins(fails), NEW for \in 0..MaxSleep, NEW kind, NEW hits,
             Goes(kind, for, hits), batt'.state \in {"ok", "low"}
      PROVE  Timely'
    BY <1>0, <1>1, <1>2 DEF Goes, Timely, DiesInTime
<1>3. ASSUME NEW fails \in BOOLEAN, Dies(fails) PROVE Timely'
    BY <1>0, <1>1, <1>3 DEF Dies, Threads, Timely, DiesInTime
<1>4. ASSUME NEW fails \in BOOLEAN, Warns(fails) PROVE Timely'
    <2>1. Begins(fails) /\ batt'.state = "low" /\ Goes("low", Cadence, FALSE)
        BY <1>4 DEF Warns
    <2>2. Cadence \in 0..MaxSleep
        OBVIOUS
    <2> QED BY <1>2, <2>1, <2>2
<1>5. ASSUME Shows PROVE Timely'
    <2> DEFINE to == SecondsToTick(profile, now)
    <2>1. batt'.state = "ok" /\ Goes("tick", SleepFor(to), Reaches(to))
        BY <1>5 DEF Shows
    <2>2. SleepFor(to) \in 0..MaxSleep
        BY SleepIsCapped, DayType DEF TypeOK
    <2>3. PICK fails \in BOOLEAN : Begins(fails)
        BY <1>5 DEF Shows
    <2> HIDE DEF to
    <2> QED BY <1>2, <2>1, <2>2, <2>3
<1>6. ASSUME Rests PROVE Timely'
    <2>1. batt'.state = "ok" /\ Goes("picture", Nap, FALSE)
        BY <1>6 DEF Rests
    <2>2. Nap \in 0..MaxSleep
        OBVIOUS
    <2>3. PICK fails \in BOOLEAN : Begins(fails)
        BY <1>6 DEF Rests
    <2> QED BY <1>2, <2>1, <2>2, <2>3
<1>7. ASSUME Wakes PROVE Timely'
    BY <1>0, <1>7 DEF Wakes, power, Threads, Timely, DiesInTime
<1>8. ASSUME Elapses PROVE Timely'
    <2>1. thread.at = "asleep" /\ thread'.at = "asleep" /\ thread'.for = thread.for - 1 /\ thread.for > 0
        BY <1>0, <1>8 DEF Elapses, Threads
    <2>2. age' = age + 1 /\ UNCHANGED <<batt, mv>>
        BY <1>8 DEF Elapses
    <2>3. flat' = IF mv <= Critical /\ batt.high = WasHighCount THEN flat + 1 ELSE 0
        BY <1>8 DEF Elapses
    <2>4. CASE mv <= Critical /\ batt.high = WasHighCount
        BY <1>0, <2>1, <2>2, <2>3, <2>4 DEF Timely, DiesInTime
    <2>5. CASE ~(mv <= Critical /\ batt.high = WasHighCount)
        BY <1>0, <2>1, <2>2, <2>3, <2>5 DEF Timely, DiesInTime
    <2> QED BY <2>4, <2>5
<1>9. ASSUME Reboots PROVE Timely'
    BY <1>0, <1>9 DEF Reboots, Changes, Started, FreshBattery, Timely, DiesInTime
<1>10. ASSUME NEW v \in Levels, Drifts(v) PROVE Timely'
    BY <1>0, <1>10 DEF Drifts, Changes, schedule, Timely, DiesInTime
<1>11. ASSUME UNCHANGED <<thread, power>> PROVE Timely'
    BY <1>11 DEF power, Timely, DiesInTime
<1> QED BY <1>3, <1>4, <1>5, <1>6, <1>7, <1>8, <1>9, <1>10, <1>11
        DEF Next, vars, schedule, SetsProfile, SetsTime, ShowsPicture, ShowsClock

(* A charged battery that went critical is switched off from within a      *)
(* sleep and a cadence, in picture mode as well.                           *)
THEOREM DiesWithinASleep == Spec => []DiesInTime
<1>1. Init => Timely
    <2> SUFFICES ASSUME Init PROVE Timely
        OBVIOUS
    <2> QED BY SaverAssumption DEF Init, Started, FreshBattery, Alive, Timely, DiesInTime
<1>2. Timely => DiesInTime
    BY DEF Timely
<1> QED BY <1>1, <1>2, StepTimely, TypeCorrect, PTL DEF Spec

-----------------------------------------------------------------------------
(* A picture whose mode is stored is not behind a clock.                   *)
Kept == PictureKept /\ (stored = "picture" /\ ~wiped => ~saver)

(* Every action keeps what a shown picture depends on.                     *)
LEMMA StepKept == TypeOK /\ Kept /\ [Next]_vars => Kept'
<1> SUFFICES ASSUME TypeOK, Kept, [Next]_vars PROVE Kept'
    OBVIOUS
<1> USE DEF Kept, PictureKept, PictureStays, Alive
<1>1. ASSUME NEW fails \in BOOLEAN, Dies(fails) PROVE Kept'
    BY <1>1 DEF Dies, Begins, TypeOK, Threads
<1>2. ASSUME NEW fails \in BOOLEAN, Warns(fails) PROVE Kept'
    BY <1>2 DEF Warns, Begins, Goes, TypeOK
<1>3. ASSUME Shows PROVE Kept'
    BY <1>3 DEF Shows, Begins, SaverOn, TypeOK
<1>4. ASSUME Rests PROVE Kept'
    BY <1>4 DEF Rests, Begins, Goes, image
<1>5. ASSUME Wakes \/ Elapses PROVE Kept'
    <2>1. Alive /\ UNCHANGED <<stored, saver, panel, wiped>>
        BY <1>5 DEF Wakes, Elapses, image
    <2> QED BY <2>1
<1>6. ASSUME ShowsPicture \/ ShowsClock PROVE Kept'
    BY <1>6 DEF ShowsPicture, ShowsClock
<1>7. ASSUME Reboots PROVE Kept'
    BY <1>7 DEF Reboots, Changes, TypeOK
<1>8. ASSUME NEW v \in Levels, Drifts(v) PROVE Kept'
    BY <1>8 DEF Drifts, Changes, schedule, image
<1>9. ASSUME NEW p \in Profiles, SetsProfile(p) PROVE Kept'
    BY <1>9 DEF SetsProfile, ForceUpdate, Changes
<1>10. ASSUME NEW t \in 0..(Day - 1), SetsTime(t) PROVE Kept'
    BY <1>10 DEF SetsTime, ShowsTime, ForceUpdate, Changes
<1>11. CASE UNCHANGED vars
    BY <1>11 DEF vars, schedule, image
<1> QED BY <1>1, <1>2, <1>3, <1>4, <1>5, <1>6, <1>7, <1>8, <1>9, <1>10, <1>11 DEF Next

(* Nothing but the two known paths paints over a picture.                  *)
THEOREM PictureIsKept == Spec => []PictureKept
<1>1. Init => Kept
    BY DEF Init, Kept, PictureKept, PictureStays
<1>2. Kept => PictureKept
    BY DEF Kept
<1> QED BY <1>1, <1>2, StepKept, TypeCorrect, PTL DEF Spec
-----------------------------------------------------------------------------
(***************************************************************************)
(* The schedule.  Fresh is not inductive: what bounds the age of the clock *)
(* on the panel is where the sleep that goes on will end.  j is the        *)
(* interval in force, n the time, d the time j went without a redraw.      *)
(***************************************************************************)

(* The time since the last boundary, which the first one of a day has      *)
(* behind midnight.                                                        *)
SinceLast(j, n) == (n % j) + (IF n < j THEN Day % j ELSE 0)

(* A sleep begun under another interval; one that ends at the boundary or  *)
(* before it; one that has reached it.                                     *)
OnPlan(j, n, for, hits, d) ==
    \/ d + for < MaxSleep
    \/ /\ for + (n % j) <= j /\ (~hits => for + (n % j) < j)
       /\ d < MaxSleep + SinceLast(j, n)
    \/ for = 0 /\ hits /\ d < MaxSleep + j + (Day % j)

(* What the plan says of remainders.                                       *)
LEMMA PlanTypes ==
    ASSUME NEW j \in 1 .. Day, NEW n \in 0 .. Day - 1
    PROVE  /\ n % j \in 0 .. j - 1 /\ Day % j \in 0 .. j - 1
           /\ SinceLast(j, n) \in Nat
BY DayType, DivMod DEF SinceLast

(* A unit of a sleep passes.                                               *)
LEMMA PlanRuns ==
    ASSUME NEW j \in 1 .. Day, NEW n \in 0 .. Day - 1, NEW for \in Nat \ {0},
           NEW hits \in BOOLEAN, NEW d \in Nat, OnPlan(j, n, for, hits, d)
    PROVE  OnPlan(j, (n + 1) % Day, for - 1, hits, d + 1)
<1> USE SaverAssumption, DayType
<1> DEFINE a == n % j
           r == Day % j
<1>0. a \in 0 .. j - 1 /\ r \in 0 .. j - 1
    BY PlanTypes
<1>1. (n + 1) % j = IF a + 1 = j THEN 0 ELSE a + 1
    BY ModNext
<1>2. CASE d + for < MaxSleep
    BY <1>2 DEF OnPlan
<1>3. CASE /\ for + a <= j /\ (~hits => for + a < j)
           /\ d < MaxSleep + SinceLast(j, n)
    <2>1. d < MaxSleep + a + (IF n < j THEN r ELSE 0)
        BY <1>0, <1>3 DEF SinceLast
    <2> HIDE DEF a, r
    <2>2. CASE a + 1 = j
        <3>1. for - 1 = 0 /\ hits
            BY <1>0, <1>3, <2>2
        <3>2. d + 1 < MaxSleep + j + r
            BY <1>0, <2>1, <2>2
        <3> QED BY <3>1, <3>2 DEF OnPlan, r
    <2>3. CASE a + 1 # j /\ n + 1 < Day
        <3>1. (n + 1) % Day = n + 1
            BY <2>3, ClockRuns
        <3>2. n < j => n + 1 < j
            <4> SUFFICES ASSUME n = j - 1 PROVE FALSE
                OBVIOUS
            <4>1. a = j - 1
                BY ModSmall DEF a
            <4> QED BY <2>3, <4>1
        <3>3. SinceLast(j, n + 1) = (a + 1) + (IF n < j THEN r ELSE 0)
            BY <1>1, <2>3, <3>2 DEF SinceLast, r
        <3>4. d + 1 < MaxSleep + SinceLast(j, n + 1)
            BY <1>0, <2>1, <3>3
        <3>5. /\ (for - 1) + (a + 1) <= j
              /\ ~hits => (for - 1) + (a + 1) < j
            BY <1>0, <1>3
        <3>6. (n + 1) % j = a + 1
            BY <1>1, <2>3
        <3>7. OnPlan(j, n + 1, for - 1, hits, d + 1)
            BY <3>4, <3>5, <3>6 DEF OnPlan
        <3> QED BY <3>1, <3>7
    <2>4. CASE a + 1 # j /\ n + 1 = Day
        <3>1. (n + 1) % Day = 0
            BY <2>4, ClockRuns
        <3>2. 0 % j = 0
            BY ModSmall
        <3>3. r = a + 1
            BY <1>1, <2>4 DEF r
        <3>4. ~(n < j)
            <4> SUFFICES ASSUME n = j - 1 PROVE FALSE
                BY <2>4
            <4>1. a = j - 1
                BY ModSmall DEF a
            <4> QED BY <2>4, <4>1
        <3>5. SinceLast(j, 0) = r
            BY <1>0, <3>2 DEF SinceLast, r
        <3>6. d + 1 < MaxSleep + SinceLast(j, 0)
            BY <1>0, <2>1, <3>3, <3>4, <3>5
        <3>7. (for - 1) + 0 <= j /\ (~hits => (for - 1) + 0 < j)
            BY <1>0, <1>3
        <3> QED BY <3>1, <3>2, <3>6, <3>7 DEF OnPlan
    <2> QED BY <2>2, <2>3, <2>4
<1> QED BY <1>2, <1>3 DEF OnPlan

(* A sleep planned at n, in force at once.                                 *)
LEMMA PlanMade ==
    ASSUME NEW p \in Profiles, NEW n \in 0 .. Day - 1, Interval(p, n) \in 1 .. Day, NEW d \in Nat,
           d < MaxSleep + SinceLast(Interval(p, n), n)
    PROVE  LET to == SecondsToTick(p, n)
           IN  OnPlan(Interval(p, n), n, SleepFor(to), Reaches(to), d)
<1> DEFINE j == Interval(p, n)
           a == n % j
           to == SecondsToTick(p, n)
<1>1. a \in 0 .. j - 1 /\ to = j - a
    BY PlanTypes DEF SecondsToTick
<1> HIDE DEF a, to
<1>2. /\ SleepFor(to) + a <= j
      /\ ~Reaches(to) => SleepFor(to) + a < j
    BY <1>1, SaverAssumption DEF SleepFor, Reaches
<1> QED BY <1>2 DEF OnPlan, a, to

(* What a plan promises.                                                   *)
LEMMA PlanBounds ==
    ASSUME NEW j \in 1 .. Day, NEW n \in 0 .. Day - 1, NEW for \in Nat,
           NEW hits \in BOOLEAN, NEW d \in Nat, OnPlan(j, n, for, hits, d)
    PROVE  /\ d < j + MaxSleep + (Day % j)
           /\ ~hits => d < MaxSleep + SinceLast(j, n)
<1>1. n % j \in 0 .. j - 1 /\ Day % j \in 0 .. j - 1
    BY PlanTypes
<1>2. SinceLast(j, n) \in Nat /\ SinceLast(j, n) <= (n % j) + (Day % j)
    BY <1>1 DEF SinceLast
<1> QED BY <1>1, <1>2, SaverAssumption DEF OnPlan

(* The interval in force is one of the profile's, and within a day.        *)
LEMMA IntervalType ==
    ASSUME NEW p \in Profiles, NEW t \in Nat
    PROVE  Interval(p, t) \in {p.day, p.night} /\ Interval(p, t) \in 0 .. Day
<1>1. p \in [day : 0..Hour, night : 0..Hour, from : 0..(Hours - 1), to : 0..(Hours - 1)]
    BY SaverAssumption
<1>2. Hour <= Day
    <2>1. Hour \in Nat /\ Hours - 1 \in Nat
        BY SaverAssumption
    <2>2. Hour * (Hours - 1) \in Nat /\ Day = Hour * (Hours - 1) + Hour
        BY <2>1, SaverAssumption DEF Day
    <2> QED BY <2>1, <2>2
<1>3. Interval(p, t) \in {p.day, p.night}
    BY DEF Interval
<1> QED BY <1>1, <1>2, <1>3, DayType, SaverAssumption

(* Where the thread may be with what it remembers.                         *)
Places ==
    /\ thread.at = "asleep" => thread.for <= MaxSleep /\ thread.kind # "boot"
    /\ thread.at = "pass" => thread.for = 0
    /\ Alive /\ thread.kind = "tick" => batt.state = "ok" /\ ~warned
    /\ Alive /\ thread.kind = "low" => batt.state = "low"
    /\ thread.hits => thread.kind = "tick"
    /\ thread.at = "pass" /\ thread.kind \in {"boot", "picture"} => tick_due
    /\ thread.at = "asleep" /\ thread.kind = "picture" /\ saver => wake
    /\ /\ thread.kind = "low"
       /\ thread.at = "pass" \/ (thread.at = "asleep" /\ thread.for < Cadence)
       => due = 0

InForce == Interval(profile, now)

(* The thread keeps to the schedule, and no wake-up is on its way.         *)
Keeping == thread.kind = "tick" /\ saver /\ ~wake

(* The age of the clock follows the plan.                                  *)
Planned ==
    Keeping /\ InForce > 0 =>
        /\ thread.at = "pass" /\ ~tick_due => due < MaxSleep + SinceLast(InForce, now)
        /\ thread.at = "asleep" => OnPlan(InForce, now, thread.for, thread.hits, due)

(* A sleep to a boundary ends at one.                                      *)
OnTime ==
    Keeping /\ Alive /\ thread.hits =>
        \E n \in {profile.day, profile.night} \ {0} :
            Day % n # 0 \/ (now + thread.for) % n = 0

(* Every action keeps the places.                                          *)
LEMMA StepPlaces == TypeOK /\ Places /\ [Next]_vars => Places'
<1> SUFFICES ASSUME TypeOK, Places, [Next]_vars PROVE Places'
    OBVIOUS
<1> USE SaverAssumption DEF Places, Alive
<1>0. thread \in Threads /\ thread.for \in Nat
    BY DEF TypeOK, Threads
<1>1. ASSUME NEW fails \in BOOLEAN, Dies(fails) PROVE Places'
    BY <1>0, <1>1 DEF Dies, Begins, Threads
<1>2. ASSUME NEW fails \in BOOLEAN, Warns(fails) PROVE Places'
    BY <1>0, <1>2 DEF Warns, Begins, Goes
<1>3. CASE Shows
    <2>1. SleepFor(SecondsToTick(profile, now)) \in 0..MaxSleep
        BY SleepIsCapped, DayType DEF TypeOK
    <2> QED BY <1>0, <1>3, <2>1 DEF Shows, Begins, Goes
<1>4. CASE Rests
    BY <1>0, <1>4 DEF Rests, Begins, Goes, SaverOn
<1>5. CASE Wakes
    <2>1. /\ thread.at = "asleep" /\ (thread.for = 0 \/ Woken) /\ tick_due' = TickDue
          /\ thread'.at = "pass" /\ thread'.for = 0 /\ thread'.kind = thread.kind
          /\ thread'.hits = (thread.hits /\ ~Woken)
          /\ UNCHANGED <<batt, warned, saver, due>>
        BY <1>0, <1>5 DEF Wakes, power, Threads
    <2>2. thread.kind = "picture" => TickDue
        BY DEF TickDue
    <2>3. thread.kind = "low" => thread.for = 0
        BY <2>1 DEF Woken
    <2>4. thread'.hits => thread'.kind = "tick"
        BY <2>1, Zenon
    <2>5. thread.kind = "low" => due = 0
        BY <1>0, <2>1, <2>3
    <2>6. thread'.kind \in {"boot", "picture"} => tick_due'
        BY <2>1, <2>2
    <2> QED BY <2>1, <2>4, <2>5, <2>6
<1>6. CASE Elapses
    <2>1. /\ thread.at = "asleep" /\ thread'.at = "asleep" /\ thread'.for = thread.for - 1
          /\ thread'.kind = thread.kind /\ thread'.hits = thread.hits
          /\ UNCHANGED <<batt, warned, saver, wake>>
        BY <1>0, <1>6 DEF Elapses, Threads
    <2>2. batt.state = "low" => due' = 0
        BY <1>6 DEF Elapses, Scheduled
    <2> QED BY <1>0, <2>1, <2>2
<1>7. CASE Reboots
    BY <1>7 DEF Reboots, Changes, Started
<1>8. ASSUME UNCHANGED <<thread, batt, warned, tick_due, due>>, saver' /\ ~saver => wake', wake => wake'
      PROVE  Places'
    BY <1>8
<1>9. CASE ShowsPicture \/ ShowsClock
    BY <1>8, <1>9 DEF ShowsPicture, ShowsClock, power
<1>10. ASSUME NEW v \in Levels, Drifts(v) PROVE Places'
    BY <1>8, <1>10 DEF Drifts, schedule
<1>11. ASSUME NEW p \in Profiles, SetsProfile(p) PROVE Places'
    BY <1>8, <1>11 DEF SetsProfile, ForceUpdate, power
<1>12. ASSUME NEW t \in 0..(Day - 1), SetsTime(t) PROVE Places'
    BY <1>8, <1>12 DEF SetsTime, ShowsTime, ForceUpdate, power
<1>13. CASE UNCHANGED vars
    BY <1>8, <1>13 DEF vars, schedule, power
<1> QED BY <1>1, <1>2, <1>3, <1>4, <1>5, <1>6, <1>7, <1>9, <1>10, <1>11, <1>12, <1>13 DEF Next

(* A unit of sleep keeps the clock's age on its plan.                      *)
LEMMA ElapsePlanned ==
    ASSUME TypeOK, Places, Planned, Elapses
    PROVE  Planned'
<1> USE SaverAssumption, DayType
<1>0. /\ thread \in Threads /\ thread.for \in Nat /\ thread.hits \in BOOLEAN
      /\ now \in 0 .. Day - 1 /\ due \in Nat /\ profile \in Profiles
    BY DEF TypeOK, Threads
<1>1. /\ thread.at = "asleep" /\ thread.for > 0 /\ ~Woken
      /\ thread'.at = "asleep" /\ thread'.kind = thread.kind /\ thread'.for = thread.for - 1
      /\ thread'.hits = thread.hits /\ now' = (now + 1) % Day
      /\ UNCHANGED <<profile, saver, wake, batt>>
    BY <1>0 DEF Elapses, Threads
<1>2. now' \in 0 .. Day - 1
    BY <1>0, <1>1, DivMod
<1> SUFFICES ASSUME Keeping', InForce' > 0
             PROVE  OnPlan(InForce', now', thread'.for, thread'.hits, due')
    BY <1>1 DEF Planned
<1>3. Keeping /\ batt.state = "ok"
    BY <1>1 DEF Keeping, Places, Alive
<1>4. /\ InForce \in 0 .. Day /\ InForce' = Interval(profile, now') /\ InForce' \in 1 .. Day
    BY <1>0, <1>1, <1>2, IntervalType DEF InForce
<1>5. CASE InForce = InForce'
    <2>1. due' = due + 1
        BY <1>3, <1>4, <1>5 DEF Elapses, Scheduled, Keeping, InForce
    <2>2. OnPlan(InForce, now, thread.for, thread.hits, due)
        BY <1>1, <1>3, <1>4, <1>5 DEF Planned
    <2>3. OnPlan(InForce, (now + 1) % Day, thread.for - 1, thread.hits, due + 1)
        BY <1>0, <1>1, <1>4, <1>5, <2>2, PlanRuns
    <2> QED BY <1>1, <1>5, <2>1, <2>3
<1>6. CASE InForce # InForce'
    <2>1. due' = 0
        BY <1>4, <1>6 DEF Elapses, InForce
    <2>2. thread'.for < MaxSleep
        BY <1>0, <1>1 DEF Places
    <2> QED BY <1>0, <1>1, <2>1, <2>2 DEF OnPlan
<1> QED BY <1>5, <1>6

(* The thread plans its next sleep.                                        *)
LEMMA ShowsPlanned ==
    ASSUME TypeOK, Places, Planned, Shows
    PROVE  Planned'
<1> USE SaverAssumption, DayType
<1> DEFINE to == SecondsToTick(profile, now)
<1>0. now \in 0 .. Day - 1 /\ due \in Nat /\ profile \in Profiles /\ thread \in Threads
    BY DEF TypeOK
<1>1. /\ thread.at = "pass" /\ SaverOn /\ UNCHANGED <<now, profile, wake>>
      /\ thread'.at = "asleep" /\ thread'.for = SleepFor(to) /\ thread'.hits = Reaches(to)
      /\ due' = IF tick_due THEN 0 ELSE due
    BY DEF Shows, Begins, Goes
<1> HIDE DEF to
<1> SUFFICES ASSUME ~wake, InForce > 0
             PROVE  OnPlan(InForce, now, SleepFor(to), Reaches(to), due')
    BY <1>1 DEF Planned, Keeping, InForce
<1>2. InForce = Interval(profile, now) /\ InForce \in 1 .. Day
    BY <1>0, IntervalType DEF InForce
<1>3. SinceLast(InForce, now) \in Nat
    BY <1>0, <1>2, PlanTypes
<1>4. due' \in Nat /\ due' < MaxSleep + SinceLast(InForce, now)
    <2>1. CASE tick_due \/ due = 0
        BY <1>1, <1>3, <2>1
    <2>2. CASE ~tick_due /\ due # 0
        <3>1. thread.kind = "tick" /\ ~warned
            BY <1>0, <1>1, <2>2 DEF Places, Threads, Alive
        <3>2. saver
            BY <1>1, <3>1 DEF SaverOn
        <3> QED BY <1>0, <1>1, <2>2, <3>1, <3>2 DEF Planned, Keeping
    <2> QED BY <2>1, <2>2
<1> QED BY <1>0, <1>2, <1>4, PlanMade DEF to

(* Every action keeps the clock's age on its plan.                         *)
LEMMA StepPlanned == TypeOK /\ Places /\ Planned /\ [Next]_vars => Planned'
<1> SUFFICES ASSUME TypeOK, Places, Planned, [Next]_vars PROVE Planned'
    OBVIOUS
<1>0. thread \in Threads /\ thread.for \in Nat /\ thread.hits \in BOOLEAN
    BY DEF TypeOK, Threads
<1>1. CASE Shows
    BY <1>1, ShowsPlanned
<1>2. CASE Elapses
    BY <1>2, ElapsePlanned
<1>3. ASSUME thread'.kind \in {"boot", "low", "picture"} \/ thread'.at = "off" PROVE Planned'
    BY <1>3 DEF Planned, Keeping
<1>4. ASSUME NEW fails \in BOOLEAN, Dies(fails) \/ Warns(fails) PROVE Planned'
    BY <1>0, <1>3, <1>4 DEF Dies, Warns, Goes, Threads
<1>5. CASE Rests \/ Reboots
    <2>1. CASE Rests
        BY <1>3, <2>1 DEF Rests, Goes
    <2>2. CASE Reboots
        <3>1. thread' = Started
            BY <2>2 DEF Reboots
        <3> QED BY <1>3, <3>1 DEF Started
    <2> QED BY <1>5, <2>1, <2>2
<1>6. CASE Wakes
    <2>1. /\ thread.at = "asleep" /\ (thread.for = 0 \/ Woken) /\ tick_due' = TickDue
          /\ thread'.at = "pass" /\ thread'.kind = thread.kind
          /\ UNCHANGED <<saver, profile, now, due>>
        BY <1>0, <1>6 DEF Wakes, Threads
    <2> SUFFICES ASSUME Keeping', InForce' > 0, ~tick_due'
                 PROVE  due < MaxSleep + SinceLast(InForce, now)
        BY <2>1 DEF Planned, InForce
    <2>2. thread.kind = "tick" /\ ~Woken /\ ~thread.hits
        BY <2>1 DEF Keeping, TickDue
    <2>3. Keeping /\ InForce > 0
        BY <2>1, <2>2 DEF Keeping, Woken, InForce
    <2>4. OnPlan(InForce, now, thread.for, thread.hits, due)
        BY <2>1, <2>3 DEF Planned
    <2>5. now \in 0 .. Day - 1 /\ due \in Nat /\ InForce \in 1 .. Day
        BY <2>3, IntervalType, DayType DEF TypeOK, InForce
    <2> QED BY <1>0, <2>2, <2>4, <2>5, PlanBounds
<1>7. ASSUME UNCHANGED <<thread, tick_due, due>>,
             \/ ~saver' \/ wake'
             \/ UNCHANGED <<saver, wake, profile, now>>
      PROVE  Planned'
    BY <1>7 DEF Planned, Keeping, InForce
<1>8. CASE ShowsPicture \/ ShowsClock
    <2>1. saver \in BOOLEAN /\ wake \in BOOLEAN
        BY DEF TypeOK
    <2>2. CASE ShowsPicture
        BY <1>7, <2>2 DEF ShowsPicture, power
    <2>3. CASE ShowsClock
        <3>1. UNCHANGED <<thread, tick_due, due, profile, now>>
            BY <2>3 DEF ShowsClock, power
        <3>2. CASE saver
            BY <1>7, <2>1, <2>3, <3>1, <3>2 DEF ShowsClock
        <3>3. CASE ~saver
            BY <1>7, <2>3, <3>1, <3>3 DEF ShowsClock
        <3> QED BY <3>2, <3>3
    <2> QED BY <1>8, <2>2, <2>3
<1>9. ASSUME NEW v \in Levels, Drifts(v) PROVE Planned'
    BY <1>7, <1>9 DEF Drifts, schedule
<1>10. ASSUME NEW p \in Profiles, SetsProfile(p) PROVE Planned'
    BY <1>7, <1>10 DEF SetsProfile, ForceUpdate, power
<1>11. ASSUME NEW t \in 0..(Day - 1), SetsTime(t) PROVE Planned'
    BY <1>7, <1>11 DEF SetsTime, ShowsTime, ForceUpdate, power
<1>12. CASE UNCHANGED vars
    BY <1>7, <1>12 DEF vars, schedule
<1> QED BY <1>1, <1>2, <1>4, <1>5, <1>6, <1>8, <1>9, <1>10, <1>11, <1>12 DEF Next

(* The clock on the panel is never older than the interval in force and a  *)
(* sleep, for every profile a host may set (display_manager.c:1411-1423).  *)
THEOREM ClockStaysFresh == Spec => []Fresh
<1>1. Init => Places /\ Planned
    BY DEF Init, Started, FreshBattery, Places, Planned, Alive, Keeping
<1>2. TypeOK /\ Places /\ Planned => Fresh
    <2> SUFFICES ASSUME TypeOK, Places, Planned, Scheduled(now), thread.at = "asleep", ~wake
                 PROVE  due < InForce + MaxSleep + (Day % InForce)
        BY DEF Fresh, InForce
    <2>1. thread.kind = "tick"
        BY DEF TypeOK, Threads, Places, Scheduled, Alive
    <2>2. OnPlan(InForce, now, thread.for, thread.hits, due)
        BY <2>1 DEF Planned, Keeping, Scheduled, InForce
    <2>3. /\ now \in 0 .. Day - 1 /\ due \in Nat /\ InForce \in 1 .. Day
          /\ thread.for \in Nat /\ thread.hits \in BOOLEAN
        BY IntervalType, DayType DEF TypeOK, Threads, InForce, Scheduled
    <2> QED BY <2>2, <2>3, PlanBounds
<1> QED BY <1>1, <1>2, StepPlaces, StepPlanned, TypeCorrect, PTL DEF Spec

-----------------------------------------------------------------------------
(* The end of a sleep that hits is a boundary of n.                        *)
Hits(n, t) == Day % n # 0 \/ t % n = 0

(* ... also over midnight, which is a boundary of what divides the day.    *)
LEMMA HitsRuns ==
    ASSUME NEW n \in Nat \ {0}, NEW t \in 0 .. Day - 1, NEW for \in Nat \ {0}, Hits(n, t + for)
    PROVE  Hits(n, ((t + 1) % Day) + (for - 1))
<1> USE DayType
<1>1. CASE t + 1 < Day
    <2>1. (t + 1) % Day = t + 1
        BY <1>1, ClockRuns
    <2>2. ((t + 1) % Day) + (for - 1) = t + for
        BY <2>1
    <2> QED BY <2>2
<1>2. CASE t + 1 = Day /\ Day % n = 0
    <2>1. (t + 1) % Day = 0
        BY <1>2, ClockRuns
    <2>2. (t + for) % n = 0
        BY <1>2 DEF Hits
    <2>3. t + for \in Nat /\ Day \in Nat /\ Day <= t + for /\ (t + for) - Day = for - 1
        BY <1>2
    <2>4. ((t + for) - Day) % n = 0
        BY <1>2, <2>2, <2>3, ModLess
    <2>5. ((t + 1) % Day) + (for - 1) = (t + for) - Day
        BY <2>1, <2>3
    <2> QED BY <2>4, <2>5 DEF Hits
<1>3. CASE Day % n # 0
    BY <1>3 DEF Hits
<1> QED BY <1>1, <1>2, <1>3

(* A sleep planned to reach a boundary does.                               *)
LEMMA HitsMade ==
    ASSUME NEW p \in Profiles, NEW t \in 0 .. Day - 1, Reaches(SecondsToTick(p, t))
    PROVE  /\ Interval(p, t) \in {p.day, p.night} \ {0}
           /\ Hits(Interval(p, t), t + SleepFor(SecondsToTick(p, t)))
<1> USE DayType, SaverAssumption
<1>1. Interval(p, t) \in {p.day, p.night} /\ Interval(p, t) \in Nat
    BY IntervalType
<1>2. Interval(p, t) # 0
    BY DEF Reaches, SleepFor, SecondsToTick, Never
<1>3. SecondsToTick(p, t) = Interval(p, t) - (t % Interval(p, t))
    BY <1>2 DEF SecondsToTick
<1>4. SleepFor(SecondsToTick(p, t)) = Interval(p, t) - (t % Interval(p, t))
    BY <1>3 DEF Reaches
<1>5. (t + (Interval(p, t) - (t % Interval(p, t)))) % Interval(p, t) = 0
    <2>1. Interval(p, t) \in Nat \ {0} /\ t \in Nat
        BY <1>1, <1>2
    <2> QED BY ONLY <2>1, ModRest, Zenon
<1> QED BY <1>1, <1>2, <1>4, <1>5 DEF Hits

(* Every action keeps a sleep to a boundary on time.                       *)
LEMMA StepOnTime == TypeOK /\ Places /\ OnTime /\ [Next]_vars => OnTime'
<1> SUFFICES ASSUME TypeOK, Places, OnTime, [Next]_vars PROVE OnTime'
    OBVIOUS
<1> USE DayType
<1> DEFINE Due(n) == Hits(n, now + thread.for)
<1>a. OnTime <=> (Keeping /\ Alive /\ thread.hits =>
                    \E n \in {profile.day, profile.night} \ {0} : Due(n))
    BY DEF OnTime, Hits
<1>b. OnTime' <=> (Keeping' /\ Alive' /\ thread'.hits =>
                    \E n \in {profile'.day, profile'.night} \ {0} : Hits(n, now' + thread'.for))
    BY DEF OnTime, Hits
<1> HIDE DEF Due
<1>0. /\ thread \in Threads /\ thread.for \in Nat /\ thread.hits \in BOOLEAN
      /\ now \in 0 .. Day - 1 /\ profile \in Profiles
    BY DEF TypeOK, Threads
<1>1. CASE Shows
    <2> DEFINE to == SecondsToTick(profile, now)
    <2>1. /\ UNCHANGED <<now, profile>>
          /\ thread'.for = SleepFor(to) /\ thread'.hits = Reaches(to)
        BY <1>1 DEF Shows, Begins, Goes
    <2> HIDE DEF to
    <2>2. SUFFICES ASSUME Reaches(to)
                   PROVE  \E n \in {profile.day, profile.night} \ {0} : Hits(n, now + SleepFor(to))
        BY <1>b, <2>1
    <2> QED BY <1>0, <2>2, HitsMade DEF to
<1>2. CASE Elapses
    <2>1. /\ thread.at = "asleep" /\ thread.for > 0 /\ now' = (now + 1) % Day
          /\ thread'.at = "asleep" /\ thread'.kind = thread.kind /\ thread'.for = thread.for - 1
          /\ thread'.hits = thread.hits /\ UNCHANGED <<profile, saver, wake>>
        BY <1>0, <1>2 DEF Elapses, Threads
    <2>2. SUFFICES ASSUME Keeping, thread.hits
                   PROVE  \E n \in {profile.day, profile.night} \ {0} : Hits(n, now' + thread'.for)
        BY <1>b, <2>1 DEF Keeping
    <2>3. PICK n \in {profile.day, profile.night} \ {0} : Hits(n, now + thread.for)
        BY <1>a, <2>1, <2>2 DEF Due, Alive
    <2>4. n \in Nat \ {0}
        BY <1>0, SaverAssumption
    <2>5. Hits(n, now' + thread'.for)
        BY <1>0, <2>1, <2>3, <2>4, HitsRuns
    <2> QED BY <2>5
<1>3. ASSUME ~thread'.hits \/ thread'.kind \in {"boot", "low", "picture"} \/ thread'.at = "off"
      PROVE  OnTime'
    BY <1>3 DEF OnTime, Keeping, Alive
<1>4. ASSUME NEW fails \in BOOLEAN, Dies(fails) \/ Warns(fails) PROVE OnTime'
    BY <1>0, <1>3, <1>4 DEF Dies, Warns, Goes, Threads
<1>5. CASE Rests
    BY <1>3, <1>5 DEF Rests, Goes
<1>6. CASE Reboots
    <2>1. thread' = Started
        BY <1>6 DEF Reboots
    <2> QED BY <1>3, <2>1 DEF Started
<1>7. CASE Wakes
    <2>1. /\ thread.at = "asleep" /\ (thread.for = 0 \/ Woken)
          /\ thread'.at = "pass" /\ thread'.kind = thread.kind /\ thread'.for = 0
          /\ thread'.hits = (thread.hits /\ ~Woken) /\ UNCHANGED <<saver, profile, now>>
        BY <1>0, <1>7 DEF Wakes, Threads
    <2>2. SUFFICES ASSUME Keeping', thread.hits, ~Woken
                   PROVE  \E n \in {profile.day, profile.night} \ {0} : Hits(n, now + thread.for)
        <3>1. CASE Woken
            BY <1>3, <2>1, <3>1
        <3>2. CASE ~Woken
            BY <1>b, <2>1, <3>2
        <3> QED BY <3>1, <3>2
    <2>3. Keeping
        BY <2>1, <2>2 DEF Keeping, Woken
    <2> QED BY <1>a, <2>1, <2>2, <2>3 DEF Due, Alive
<1>8. ASSUME UNCHANGED thread, \/ ~saver' \/ wake'
                               \/ UNCHANGED <<saver, wake, profile, now>>
      PROVE  OnTime'
    BY <1>8 DEF OnTime, Keeping, Alive
<1>9. CASE ShowsPicture \/ ShowsClock
    <2>1. saver \in BOOLEAN /\ wake \in BOOLEAN
        BY DEF TypeOK
    <2>2. CASE ShowsPicture
        BY <1>8, <2>2 DEF ShowsPicture, power
    <2>3. CASE ShowsClock
        <3>1. UNCHANGED <<thread, profile, now>>
            BY <2>3 DEF ShowsClock, power
        <3>2. CASE saver
            BY <1>8, <2>1, <2>3, <3>1, <3>2 DEF ShowsClock
        <3>3. CASE ~saver
            BY <1>8, <2>3, <3>1, <3>3 DEF ShowsClock
        <3> QED BY <3>2, <3>3
    <2> QED BY <1>9, <2>2, <2>3
<1>10. ASSUME NEW v \in Levels, Drifts(v) PROVE OnTime'
    BY <1>8, <1>10 DEF Drifts, schedule
<1>11. ASSUME NEW p \in Profiles, SetsProfile(p) PROVE OnTime'
    BY <1>8, <1>11 DEF SetsProfile, ForceUpdate, power
<1>12. ASSUME NEW t \in 0..(Day - 1), SetsTime(t) PROVE OnTime'
    BY <1>8, <1>12 DEF SetsTime, ShowsTime, ForceUpdate, power
<1>13. CASE UNCHANGED vars
    BY <1>8, <1>13 DEF vars, schedule
<1> QED BY <1>1, <1>2, <1>4, <1>5, <1>6, <1>7, <1>9, <1>10, <1>11, <1>12, <1>13 DEF Next

(* A redraw nobody asked for comes at a boundary, whatever the profiles    *)
(* (power_profile_seconds_to_tick, display_manager.c:1411-1423).           *)
THEOREM DrawsOnBoundaries == Spec => OnBoundary
<1>1. Init => Places /\ OnTime
    BY DEF Init, Started, FreshBattery, Places, OnTime, Alive, Keeping
<1>2. TypeOK /\ Places /\ OnTime /\ [Next]_vars
        => [Shows /\ tick_due /\ thread.hits /\ ~wake => Boundary(now)]_vars
    <2> SUFFICES ASSUME TypeOK, Places, OnTime, Shows, thread.hits, ~wake
                 PROVE  Boundary(now)
        OBVIOUS
    <2>1. thread.at = "pass" /\ SaverOn /\ thread.for = 0 /\ now \in Nat
        <3>1. thread.at = "pass" /\ SaverOn
            BY DEF Shows, Begins
        <3>2. now \in Nat
            BY DayType DEF TypeOK
        <3> QED BY <3>1, <3>2 DEF Places
    <2>2. Keeping /\ Alive
        BY <2>1 DEF Places, SaverOn, Keeping, Alive
    <2>3. PICK n \in {profile.day, profile.night} \ {0} : Day % n # 0 \/ (now + 0) % n = 0
        BY <2>1, <2>2 DEF OnTime
    <2>4. now + 0 = now
        BY <2>1
    <2> QED BY <2>3, <2>4 DEF Boundary
<1> QED BY <1>1, <1>2, StepPlaces, StepOnTime, TypeCorrect, PTL DEF Spec, OnBoundary
=============================================================================
