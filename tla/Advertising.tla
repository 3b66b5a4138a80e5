---------------------------- MODULE Advertising -----------------------------
(***************************************************************************)
(* The one advertising set of src/ble/ble_service.c, shared by the         *)
(* connectable advertiser (adv_work and the works that submit it) and the  *)
(* mesh beacons (ble_service_beacon_set, ble_service_beacon_end).          *)
(*                                                                         *)
(* adv_work, its retry and settle works and the beacon pump all run on the *)
(* system workqueue, one at a time; the connection callbacks and the       *)
(* threads that set the interval or streaming run in between, whenever a   *)
(* bt_le_adv_start or bt_le_adv_stop blocks.  `ble' says which of those    *)
(* calls the workqueue is in.                                              *)
(*                                                                         *)
(* LateResume is a scheduling assumption: FALSE says that the workqueue    *)
(* resumes from a bt_le_adv_start before the host is told of a connection  *)
(* made to that advertiser; TRUE makes no such promise.                    *)
(***************************************************************************)
EXTENDS Integers

CONSTANTS
    Pdus,         \* what a beacon carries
    Intervals,    \* the idle intervals a sleep profile may ask for
    LateResume,
    MaxConns, MaxRefusals, MaxProfiles   \* bounds

ASSUME AdvertisingAssumption ==
    /\ Intervals # {} /\ Intervals \subseteq Nat
    /\ Pdus \subseteq Nat
    /\ LateResume \in BOOLEAN
    /\ MaxConns \in Nat /\ MaxRefusals \in Nat /\ MaxProfiles \in Nat

VARIABLES
    air,        \* what the controller advertises
    conn,       \* "none", "up", or "down": gone, its slot not recycled yet
    allowed,    \* advertising_allowed
    adv_running, adv_param_active, beacon_active, ble_streaming_mode,
    boot_burst, \* uptime is below adv_boot_fast_until
    interval,   \* adv_param_idle's
    adv_queued, \* adv_work waits for the system workqueue
    retrying,   \* adv_retry_work is scheduled
    ble,        \* the call the system workqueue blocks in
    param,      \* the parameter set adv_work_handler has chosen
    conns, refusals, profiles

advVars == <<air, conn, allowed, adv_running, adv_param_active, beacon_active,
             ble_streaming_mode, boot_burst, interval, adv_queued, retrying, ble, param,
             conns, refusals, profiles>>

linkVars == <<conn, allowed, conns>>
wishVars == <<ble_streaming_mode, boot_burst, interval, profiles>>

Off == [kind |-> "off", arg |-> 0]

(* What a successful start of a parameter set puts on the air.             *)
Connectable(p) == [kind |-> p, arg |-> IF p = "idle" THEN interval ELSE 0]

Beacon(pdu) == [kind |-> "beacon", arg |-> pdu]

IsConnectable(a) == a.kind \in {"fast", "idle"}

AdvInit ==
    /\ air = Off /\ conn = "none"
    /\ allowed = TRUE /\ adv_queued = TRUE         \* ble_service_init
    /\ adv_running = FALSE /\ adv_param_active = "none"
    /\ beacon_active = FALSE /\ ble_streaming_mode = FALSE /\ boot_burst = TRUE
    /\ interval \in Intervals
    /\ retrying = FALSE /\ ble = "idle" /\ param = "none"
    /\ conns = 0 /\ refusals = 0 /\ profiles = 0

(* advertising_start.                                                      *)
AdvertisingStart == adv_queued' = (adv_queued \/ allowed)

(***************************************************************************)
(* adv_work_handler.                                                       *)
(***************************************************************************)
Wanted == IF ble_streaming_mode \/ boot_burst THEN "fast" ELSE "idle"

NothingToDo ==
    \/ beacon_active
    \/ ~allowed \/ conn = "up"
    \/ adv_running /\ adv_param_active = Wanted

AdvSkips ==
    /\ ble = "idle" /\ adv_queued /\ adv_queued' = FALSE
    /\ NothingToDo
    /\ UNCHANGED <<air, linkVars, adv_running, adv_param_active, beacon_active,
                   wishVars, retrying, ble, param, refusals>>

AdvRestarts ==
    /\ ble = "idle" /\ adv_queued /\ adv_queued' = FALSE
    /\ ~NothingToDo
    /\ param' = Wanted
    /\ ble' = IF adv_running THEN "stop" ELSE "start"
    /\ UNCHANGED <<air, linkVars, adv_running, adv_param_active, beacon_active,
                   wishVars, retrying, refusals>>

AdvStopped ==
    /\ ble = "stop" /\ ble' = "start"
    /\ air' = Off
    /\ adv_running' = FALSE /\ adv_param_active' = "none"
    /\ UNCHANGED <<linkVars, beacon_active, wishVars, adv_queued, retrying, param, refusals>>

(* bt_le_adv_start in the controller.  With a connection, or with one that *)
(* still holds the only slot, a connectable advertiser cannot start; over  *)
(* an advertiser that is up it does nothing, and -EALREADY is a success.   *)
AdvStarts ==
    /\ ble = "start" /\ ble' = "started"
    /\ IF air = Off THEN conn = "none" /\ air' = Connectable(param) ELSE UNCHANGED air
    /\ UNCHANGED <<linkVars, adv_running, adv_param_active, beacon_active, wishVars,
                   adv_queued, retrying, param, refusals>>

(* Slip: the flag is not set.                                              *)
AdvResumesUnmarked ==
    /\ ble = "started" /\ ble' = "idle" /\ param' = "none"
    /\ UNCHANGED <<air, linkVars, adv_running, adv_param_active, beacon_active,
                   wishVars, adv_queued, retrying, refusals>>

(* ... and adv_work_handler's last lines, once it is back.                 *)
AdvResumes ==
    /\ ble = "started" /\ ble' = "idle" /\ param' = "none"
    /\ adv_running' = TRUE /\ adv_param_active' = param
    /\ UNCHANGED <<air, linkVars, beacon_active, wishVars, adv_queued, retrying, refusals>>

(* The controller may refuse for a moment; no slot is a refusal too.       *)
MayRefuse == refusals < MaxRefusals /\ refusals' = refusals + 1

AdvRefused ==
    /\ ble = "start" /\ ble' = "idle" /\ param' = "none"
    /\ air = Off
    /\ IF conn = "none" THEN MayRefuse ELSE UNCHANGED refusals
    /\ retrying' = TRUE
    /\ UNCHANGED <<air, linkVars, adv_running, adv_param_active, beacon_active,
                   wishVars, adv_queued>>

(***************************************************************************)
(* Who submits adv_work.                                                   *)
(***************************************************************************)
RetryFires ==
    /\ ble = "idle" /\ retrying /\ retrying' = FALSE
    /\ AdvertisingStart
    /\ UNCHANGED <<air, linkVars, adv_running, adv_param_active, beacon_active,
                   wishVars, ble, param, refusals>>

(* adv_settle_handler, as the boot burst ends.                             *)
Settle ==
    /\ ble = "idle" /\ boot_burst /\ boot_burst' = FALSE
    /\ IF adv_running /\ ~ble_streaming_mode THEN AdvertisingStart ELSE UNCHANGED adv_queued
    /\ UNCHANGED <<air, linkVars, adv_running, adv_param_active, beacon_active,
                   ble_streaming_mode, interval, profiles, retrying, ble, param, refusals>>

(* ble_service_ensure_advertising, from the screensaver thread.            *)
EnsureAdvertising ==
    /\ allowed /\ conn # "up" /\ ~beacon_active /\ ~adv_running
    /\ AdvertisingStart
    /\ UNCHANGED <<air, linkVars, adv_running, adv_param_active, beacon_active,
                   wishVars, retrying, ble, param, refusals>>

(* ble_service_set_idle_adv_interval_s, from power_profile_apply.          *)
SetInterval(i) ==
    /\ i # interval /\ profiles < MaxProfiles /\ profiles' = profiles + 1
    /\ interval' = i
    /\ adv_param_active' = IF adv_param_active = "idle" THEN "none" ELSE adv_param_active
    /\ IF adv_running /\ ~ble_streaming_mode THEN AdvertisingStart ELSE UNCHANGED adv_queued
    /\ UNCHANGED <<air, linkVars, adv_running, beacon_active, ble_streaming_mode,
                   boot_burst, retrying, ble, param, refusals>>

(* ble_service_set_streaming_mode, from a stream's start, its end or its   *)
(* watchdog; a start may still be under way when its host has gone.        *)
SetStreaming(on) ==
    /\ ble_streaming_mode # on /\ ble_streaming_mode' = on
    /\ conns > 0
    /\ IF conn # "up" /\ allowed THEN AdvertisingStart ELSE UNCHANGED adv_queued
    /\ UNCHANGED <<air, linkVars, adv_running, adv_param_active, beacon_active,
                   boot_burst, interval, profiles, retrying, ble, param, refusals>>

(***************************************************************************)
(* The link.                                                               *)
(***************************************************************************)
(* Slip: connected() forgets that the controller took the advertiser down. *)
ConnectedStale ==
    /\ conn = "none" /\ IsConnectable(air) /\ conns < MaxConns
    /\ LateResume \/ ble # "started"
    /\ conn' = "up" /\ conns' = conns + 1 /\ allowed' = FALSE
    /\ air' = Off
    /\ UNCHANGED <<adv_running, adv_param_active, beacon_active, wishVars, adv_queued, retrying,
                   ble, param, refusals>>

Connected ==
    /\ conn = "none" /\ IsConnectable(air) /\ conns < MaxConns
    /\ LateResume \/ ble # "started"
    /\ conn' = "up" /\ conns' = conns + 1
    /\ air' = Off                                  \* by the controller
    /\ adv_running' = FALSE /\ adv_param_active' = "none" /\ allowed' = FALSE
    /\ UNCHANGED <<beacon_active, wishVars, adv_queued, retrying, ble, param, refusals>>

(* disconnected: streaming ends; `allowed' is still FALSE, so nothing is   *)
(* submitted yet.                                                          *)
Disconnected ==
    /\ conn = "up" /\ conn' = "down"
    /\ ble_streaming_mode' = FALSE
    /\ UNCHANGED <<air, allowed, conns, adv_running, adv_param_active, beacon_active,
                   boot_burst, interval, profiles, adv_queued, retrying, ble, param, refusals>>

(* recycled_cb.                                                            *)
Recycled ==
    /\ conn = "down" /\ conn' = "none"
    /\ allowed' = TRUE /\ adv_queued' = TRUE
    /\ UNCHANGED <<air, conns, adv_running, adv_param_active, beacon_active, wishVars,
                   retrying, ble, param, refusals>>

(***************************************************************************)
(* The beacons, called by the pump on the same workqueue.                  *)
(***************************************************************************)
BeaconSetCalled ==
    /\ ble = "idle"
    /\ ble' = IF adv_running \/ beacon_active THEN "set_stop" ELSE "set_start"
    /\ beacon_active' = (beacon_active \/ ~adv_running)
    /\ UNCHANGED <<air, linkVars, adv_running, adv_param_active, wishVars, adv_queued,
                   retrying, param, refusals>>

BeaconStopped ==
    /\ ble = "set_stop" /\ ble' = "set_start"
    /\ air' = Off
    /\ adv_running' = FALSE /\ adv_param_active' = "none" /\ beacon_active' = TRUE
    /\ UNCHANGED <<linkVars, wishVars, adv_queued, retrying, param, refusals>>

BeaconStarts(pdu) ==
    /\ ble = "set_start" /\ ble' = "idle"
    /\ air = Off /\ air' = Beacon(pdu)
    /\ UNCHANGED <<linkVars, adv_running, adv_param_active, beacon_active, wishVars,
                   adv_queued, retrying, param, refusals>>

(* Slip: the error path leaves the flag.                                   *)
BeaconRefusedMarked ==
    /\ ble = "set_start" /\ ble' = "idle"
    /\ IF air = Off THEN MayRefuse ELSE UNCHANGED refusals
    /\ UNCHANGED <<air, linkVars, adv_running, adv_param_active, beacon_active, wishVars,
                   adv_queued, retrying, param>>

BeaconRefused ==
    /\ ble = "set_start" /\ ble' = "idle"
    /\ beacon_active' = FALSE
    /\ IF air = Off THEN MayRefuse ELSE UNCHANGED refusals
    /\ UNCHANGED <<air, linkVars, adv_running, adv_param_active, wishVars, adv_queued,
                   retrying, param>>

(* ble_service_beacon_end, from its call to its return; it stops nothing   *)
(* if no beacon is up.                                                     *)
BeaconEnd ==
    IF beacon_active
    THEN /\ air' = Off /\ beacon_active' = FALSE
         /\ adv_running' = FALSE /\ adv_param_active' = "none"
         /\ IF allowed /\ conn # "up" THEN AdvertisingStart ELSE UNCHANGED adv_queued
         /\ UNCHANGED <<linkVars, wishVars, retrying, ble, param, refusals>>
    ELSE UNCHANGED advVars

-----------------------------------------------------------------------------
AdvTypeOK ==
    /\ air \in {Off, [kind |-> "fast", arg |-> 0]} \cup [kind : {"idle"}, arg : Intervals]
               \cup [kind : {"beacon"}, arg : Pdus]
    /\ conn \in {"none", "up", "down"}
    /\ {allowed, adv_running, beacon_active, ble_streaming_mode, boot_burst, adv_queued,
        retrying} \subseteq BOOLEAN
    /\ adv_param_active \in {"none", "fast", "idle"}
    /\ interval \in Intervals
    /\ ble \in {"idle", "stop", "start", "started", "set_stop", "set_start"}
    /\ param \in IF ble \in {"stop", "start", "started"} THEN {"fast", "idle"} ELSE {"none"}
    /\ conns \in Nat /\ refusals \in Nat /\ profiles \in Nat
=============================================================================
