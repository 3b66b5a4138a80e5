--------------------------------- MODULE Saver --------------------------------
(***************************************************************************)
(* What the display thread sleeps and wakes by: the profile's schedule of  *)
(* redraws (src/app/power_profile.c), the battery monitor (battery.c), the *)
(* stored display mode, and what host commands and reboots leave on the    *)
(* panel (display_manager.c, commands.c).                                  *)
(*                                                                         *)
(* A pass of the thread takes no time here; how it shares the panel with   *)
(* other threads is in Display.  Time counts in a unit that divides every  *)
(* interval; a day has Hours hours of Hour units.                          *)
(***************************************************************************)
EXTENDS Integers, Sequences, SequencesExt

CONSTANTS
    Hour, Hours,  \* units of an hour, hours of a day
    Profiles,     \* records [day, night, from, to]: intervals, 0 for never, and hours
    MaxSleep,     \* POWER_PROFILE_MAX_SLEEP_S
    Cadence,      \* the half minute between two looks at the battery
    Nap,          \* the wait in picture mode
    Levels,       \* what the battery may measure
    Low, Critical, Recover, WasHigh,  \* thresholds
    Margin,       \* how far above Low the average may be
    WasHighCount, HistoryLen,
    MaxChanges    \* bound: commands, reboots, failed readings and new voltages

ASSUME SaverAssumption ==
    /\ Hour \in Nat \ {0} /\ Hours \in Nat \ {0}
    /\ MaxSleep \in Nat \ {0} /\ Cadence \in Nat \ {0} /\ Nap \in Nat \ {0}
    /\ Cadence <= MaxSleep /\ Nap <= MaxSleep
    /\ Profiles \subseteq [day : 0..Hour, night : 0..Hour, from : 0..(Hours - 1), to : 0..(Hours - 1)]
    /\ Levels \cup {Low, Critical, Recover, WasHigh} \subseteq Nat
    /\ Critical <= Low /\ Low < Recover /\ Recover <= WasHigh
    /\ Margin \in Nat /\ WasHighCount \in Nat \ {0} /\ HistoryLen \in Nat \ {0}
    /\ MaxChanges \in Nat

VARIABLES
    now,              \* the wall clock
    profile, saver, stored,  \* profile, screensaver_enabled, "pwr/m"
    wake,             \* sem_screensaver_wake
    thread,           \* where the thread is, how long it still sleeps, and to what
    tick_due, age,    \* age of the last maintenance
    batt,             \* state, batt_history, batt_high_seen
    warned,           \* low_battery_screen_shown
    mv,               \* the battery
    fb, panel,        \* what the frame buffers and the panel hold
    due,              \* history: how long an interval was in force without a redraw
    flat,             \* history: how long a battery once charged has been critical
    wiped,            \* history: a picture was drawn over by what is not one
    left              \* what remains of MaxChanges

schedule == <<now, profile, saver, stored, wake, thread, tick_due, due>>
power == <<age, batt, warned, mv, flat>>
image == <<fb, panel, wiped>>
vars == <<schedule, power, image, left>>

Never == -1

Day == Hour * Hours

(* power_profile_is_night.                                                 *)
IsNight(p, hour) ==
    \/ p.from < p.to /\ p.from <= hour /\ hour < p.to
    \/ p.from > p.to /\ (p.from <= hour \/ hour < p.to)

(* power_profile_tick_minutes.                                             *)
Interval(p, t) == IF IsNight(p, t \div Hour) THEN p.night ELSE p.day

(* power_profile_seconds_to_tick.                                          *)
SecondsToTick(p, t) ==
    IF Interval(p, t) = 0 THEN Never ELSE Interval(p, t) - (t % Interval(p, t))

SleepFor(to) == IF to < 0 \/ to > MaxSleep THEN MaxSleep ELSE to

(* Slip: a capped sleep draws as well.                                     *)
ReachesAlways(to) == to >= 0

Reaches(to) == SleepFor(to) = to

(***************************************************************************)
(* battery_monitor_update.                                                 *)
(***************************************************************************)
Average(history) == FoldLeft(+, 0, history) \div Len(history)

NextState(state, v, history) ==
    CASE state = "critical" -> "shutdown"
      [] state \in {"ok", "low"} /\ v <= Critical -> "critical"
      [] state = "ok" /\ Critical < v /\ v <= Low /\ Average(history) <= Low + Margin -> "low"
      [] state = "low" /\ v >= Recover -> "ok"
      [] OTHER -> state

(* Slip: the ring does not wrap.                                           *)
RememberedAll(history, v) == Append(history, v)

Remembered(history, v) ==
    IF Len(history) < HistoryLen THEN Append(history, v) ELSE Append(Tail(history), v)

(* The count stops mattering once it is reached.                           *)
HighSeen(high, v) == IF v >= WasHigh /\ high < WasHighCount THEN high + 1 ELSE high

(* Slip: a supply that was never high is watched as well.                  *)
MonitorUpdateAlways(b, v) ==
    LET history == Remembered(b.history, v)
    IN [history |-> history, high |-> HighSeen(b.high, v), state |-> NextState(b.state, v, history)]

MonitorUpdate(b, v) ==
    LET history == Remembered(b.history, v)
        high == HighSeen(b.high, v)
    IN IF b.state = "shutdown" THEN b
       ELSE [history |-> history, high |-> high,
             state |-> IF high < WasHighCount THEN b.state ELSE NextState(b.state, v, history)]

-----------------------------------------------------------------------------
(* The thread as it starts: nothing read, and a redraw due.                *)
Started == [at |-> "pass", for |-> 0, kind |-> "boot", hits |-> FALSE]

FreshBattery == [state |-> "ok", history |-> << >>, high |-> 0]

Init ==
    /\ now = 0 /\ profile \in Profiles /\ saver = TRUE /\ stored = "clock" /\ wake = FALSE
    /\ thread = Started /\ tick_due = TRUE /\ age = Cadence
    /\ batt = FreshBattery /\ warned = FALSE /\ mv \in Levels
    /\ fb = "clock" /\ panel = "clock"
    /\ due = 0 /\ flat = 0 /\ wiped = FALSE /\ left = MaxChanges

Alive == thread.at # "off"

Changes == Alive /\ left > 0 /\ left' = left - 1

Goes(kind, for, hits) == thread' = [at |-> "asleep", for |-> for, kind |-> kind, hits |-> hits]

(***************************************************************************)
(* A pass of screensaver_thread.  It begins with a look at the battery,    *)
(* rate-limited, that may fail.                                            *)
(***************************************************************************)
(* Slip: the battery is looked at when something is drawn.                 *)
LooksWhenDrawing == tick_due /\ saver

Looks == age >= Cadence

Read(fails) == IF Looks /\ ~fails THEN MonitorUpdate(batt, mv) ELSE batt

Begins(fails) ==
    /\ thread.at = "pass"
    /\ fails => Looks /\ left > 0
    /\ batt' = Read(fails)
    /\ age' = IF Looks THEN 0 ELSE age
    /\ flat' = IF fails THEN 0 ELSE flat
    /\ left' = IF fails THEN left - 1 ELSE left
    /\ UNCHANGED <<now, profile, stored, mv>>

(* The farewell, and system-off.                                           *)
Dies(fails) ==
    /\ Begins(fails) /\ batt'.state \in {"critical", "shutdown"}
    /\ thread' = [thread EXCEPT !.at = "off"] /\ fb' = "farewell" /\ panel' = "farewell"
    /\ UNCHANGED <<saver, wake, tick_due, due, warned, wiped>>

(* The warning, once, and half a minute of sleep.                          *)
Warns(fails) ==
    /\ Begins(fails) /\ batt'.state = "low"
    /\ IF warned THEN UNCHANGED <<saver, fb, panel>>
       ELSE saver' = FALSE /\ fb' = "warning" /\ panel' = "warning"
    /\ warned' = TRUE /\ Goes("low", Cadence, FALSE)
    /\ UNCHANGED <<wake, tick_due, due, wiped>>

(* Recovery turns the screensaver on, whatever it was before.              *)
SaverOn == saver \/ warned

Shows ==
    /\ Begins(FALSE) \/ Begins(TRUE)
    /\ batt'.state = "ok" /\ SaverOn
    /\ saver' = TRUE /\ warned' = FALSE /\ wiped' = (wiped \/ (warned /\ stored = "picture"))
    /\ IF tick_due THEN fb' = "clock" /\ panel' = "clock" /\ due' = 0 ELSE UNCHANGED <<fb, panel, due>>
    /\ LET to == SecondsToTick(profile, now) IN Goes("tick", SleepFor(to), Reaches(to))
    /\ UNCHANGED <<wake, tick_due>>

Rests ==
    /\ Begins(FALSE) \/ Begins(TRUE)
    /\ batt'.state = "ok" /\ ~SaverOn /\ Goes("picture", Nap, FALSE)
    /\ UNCHANGED <<saver, wake, tick_due, due, warned, image>>

(* The sleep in BATT_LOW is k_sleep, which no wake-up ends.                *)
Woken == wake /\ thread.kind # "low"

(* Slip: only a wake-up draws.                                             *)
TickDueIfWoken == thread.kind = "picture" \/ Woken

TickDue ==
    CASE thread.kind = "picture" -> TRUE
      [] thread.kind = "tick" -> Woken \/ thread.hits
      [] OTHER -> tick_due

Wakes ==
    /\ thread.at = "asleep" /\ (thread.for = 0 \/ Woken)
    /\ thread' = [thread EXCEPT !.at = "pass", !.for = 0, !.hits = @ /\ ~Woken]
    /\ tick_due' = TickDue
    /\ wake' = IF thread.kind = "low" THEN wake ELSE FALSE
    /\ UNCHANGED <<now, profile, saver, stored, due, power, image, left>>

Scheduled(t) == saver /\ batt.state = "ok" /\ Interval(profile, t) > 0

Elapses ==
    /\ thread.at = "asleep" /\ thread.for > 0 /\ ~Woken
    /\ thread' = [thread EXCEPT !.for = @ - 1]
    /\ now' = (now + 1) % Day /\ age' = age + 1
    /\ due' = IF Scheduled(now) /\ Interval(profile, now') = Interval(profile, now)
              THEN due + 1 ELSE 0
    /\ flat' = IF mv <= Critical /\ batt.high = WasHighCount THEN flat + 1 ELSE 0
    /\ UNCHANGED <<profile, saver, stored, wake, tick_due, batt, warned, mv, image, left>>

-----------------------------------------------------------------------------
(* The battery runs down, recovers, is changed.                            *)
Drifts(v) ==
    /\ Changes /\ v # mv /\ mv' = v /\ flat' = 0
    /\ UNCHANGED <<schedule, age, batt, warned, image>>

(* display_manager_force_update: without a screensaver it draws here, and  *)
(* what it draws is the frame buffers.                                     *)
ForceUpdate ==
    /\ wake' = (wake \/ saver)
    /\ panel' = IF saver THEN panel ELSE fb
    /\ UNCHANGED fb

(* power_profile_set.                                                      *)
SetsProfile(p) ==
    /\ Changes /\ p # profile /\ profile' = p /\ ForceUpdate
    /\ wiped' = (wiped \/ (~saver /\ panel # fb))
    /\ UNCHANGED <<now, saver, stored, thread, tick_due, due, power>>

(* Slip: a new time is shown whatever the mode.                            *)
ShowsTimeAlways == ForceUpdate

ShowsTime == IF saver THEN ForceUpdate ELSE UNCHANGED <<wake, fb, panel>>

(* cmd_time.                                                               *)
SetsTime(t) ==
    /\ Changes /\ t # now /\ now' = t /\ ShowsTime
    /\ UNCHANGED <<profile, saver, stored, thread, tick_due, due, power, wiped>>

(* cmd_fapply, or another command that shows an image and stores the mode. *)
ShowsPicture ==
    /\ Changes /\ saver' = FALSE /\ stored' = "picture" /\ fb' = "picture" /\ panel' = "picture"
    /\ wiped' = FALSE
    /\ UNCHANGED <<now, profile, wake, thread, tick_due, due, power>>

(* cmd_saver.                                                              *)
ShowsClock ==
    /\ Changes /\ saver' = TRUE /\ stored' = "clock" /\ wake' = (wake \/ ~saver)
    /\ UNCHANGED <<now, profile, thread, tick_due, due, power, image>>

(* A reboot: the frame buffers are lost and the panel is not; main() draws *)
(* the clock, or nothing.                                                  *)
Reboots ==
    /\ Changes /\ saver' = (stored = "clock") /\ wake' = FALSE /\ thread' = Started
    /\ tick_due' = TRUE /\ age' = Cadence /\ batt' = FreshBattery /\ warned' = FALSE /\ due' = 0
    /\ fb' = (IF stored = "clock" THEN "clock" ELSE "blank")
    /\ panel' = IF stored = "clock" THEN "clock" ELSE panel
    /\ UNCHANGED <<now, profile, stored, mv, flat, wiped>>

Next ==
    \/ \E fails \in BOOLEAN : Dies(fails) \/ Warns(fails)
    \/ Shows \/ Rests \/ Wakes \/ Elapses \/ ShowsPicture \/ ShowsClock \/ Reboots
    \/ \E v \in Levels : Drifts(v)
    \/ \E p \in Profiles : SetsProfile(p)
    \/ \E t \in 0..(Day - 1) : SetsTime(t)

Spec == Init /\ [][Next]_vars

-----------------------------------------------------------------------------
Images == {"clock", "picture", "blank", "warning", "farewell"}

Threads ==
    [at : {"pass", "asleep", "off"}, for : Nat, hits : BOOLEAN,
     kind : {"boot", "low", "tick", "picture"}]

Readings == {history \in Seq(Levels) : Len(history) <= HistoryLen}

Monitors ==
    [state : {"ok", "low", "critical", "shutdown"}, history : Readings, high : 0..WasHighCount]

TypeOK ==
    /\ now \in 0..(Day - 1) /\ profile \in Profiles /\ saver \in BOOLEAN
    /\ stored \in {"clock", "picture"} /\ wake \in BOOLEAN /\ tick_due \in BOOLEAN
    /\ thread \in Threads
    /\ age \in Nat /\ due \in Nat /\ flat \in Nat /\ left \in 0..MaxChanges
    /\ batt \in Monitors
    /\ warned \in BOOLEAN /\ mv \in Levels /\ fb \in Images /\ panel \in Images /\ wiped \in BOOLEAN

(* While one interval is in force the clock on the panel is never older    *)
(* than it and one capped sleep, however day turned to night before, the   *)
(* profile was changed or the clock set (display_manager.c:1411-1423); and *)
(* what the interval leaves of the day, for boundaries count from midnight *)
(* (power_profile.c:232-234).                                              *)
Fresh ==
    LET interval == Interval(profile, now)
    IN  Scheduled(now) /\ thread.at = "asleep" /\ ~wake
            => due < interval + MaxSleep + (Day % interval)

(* A redraw nobody asked for comes at a boundary of an interval of the     *)
(* profile (of one that divides the day; others slip at midnight).         *)
Boundary(t) ==
    \E n \in {profile.day, profile.night} \ {0} : Day % n # 0 \/ t % n = 0

OnBoundary ==
    [][Shows /\ tick_due /\ thread.hits /\ ~wake => Boundary(now)]_vars

(* A charged battery that went critical is switched off from within one    *)
(* capped sleep and one cadence, in picture mode as in clock mode, as long *)
(* as it can be read (display_manager.c:1296-1328, 1399-1403).             *)
DiesInTime == Alive => flat < MaxSleep + Cadence

(* A tag that boots on a supply that is not a charged battery is never     *)
(* switched off or inhibited.                                              *)
SupplySpared == batt.state # "ok" => batt.high = WasHighCount

(* Until the battery is low, a picture stays on the panel until the next   *)
(* picture or clock, over reboots, new times and new profiles.             *)
PictureStays == ~saver /\ Alive => panel \in {"picture", "warning"}

(* ... except for what is known: power_profile_set draws the frame buffers *)
(* over it, which a reboot has emptied, and a battery that recovers brings *)
(* the clock.                                                              *)
PictureKept == wiped \/ PictureStays
=============================================================================
