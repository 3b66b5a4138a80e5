-------------------------------- MODULE Air ---------------------------------
(***************************************************************************)
(* The beacon pump of src/app/mesh.c and the advertiser of                 *)
(* src/ble/ble_service.c on their one radio and their one system           *)
(* workqueue.                                                              *)
(***************************************************************************)
EXTENDS BeaconPump, Advertising

ASSUME AirAssumption == Pdus = 1 .. MaxPuts

vars == <<pumpVars, advVars>>

Init == PumpInit /\ AdvInit

(* adv_work, the retry and the settle work wait while the pump is inside   *)
(* ble_service.c, and the pump waits for them.                             *)
Idle == pump = "idle" /\ ble = "idle"

(* The mesh thread and the timer of tx_work: at any time.                  *)
PumpAlone == (Enqueue \/ Kick \/ TxTimerFires) /\ UNCHANGED advVars

(* ble_service.c outside the beacons.                                      *)
WorkqueueAlone ==
    /\ \/ Idle /\ (AdvSkips \/ AdvRestarts \/ RetryFires \/ Settle)
       \/ AdvStopped \/ AdvStarts \/ AdvResumes \/ AdvRefused
    /\ UNCHANGED pumpVars

(* The other threads' callbacks and calls.                                 *)
Others ==
    /\ \/ EnsureAdvertising
       \/ \E i \in Intervals : SetInterval(i)
       \/ \E on \in BOOLEAN : SetStreaming(on)
       \/ Connected \/ Disconnected \/ Recycled
    /\ UNCHANGED pumpVars

(* tx_work_fn with the calls it makes.                                     *)
SetCalled == Idle /\ PumpTakes /\ BeaconSetCalled

SetStopped == BeaconStopped /\ UNCHANGED pumpVars

SetDone == BeaconSetReturns(TRUE) /\ BeaconStarts(entry)

SetFailed == BeaconSetReturns(FALSE) /\ BeaconRefused

Drained == Idle /\ PumpDrained /\ UNCHANGED advVars

EndDone == BeaconEndReturns /\ BeaconEnd

Tick == PumpTick /\ UNCHANGED advVars

Next ==
    \/ PumpAlone \/ WorkqueueAlone \/ Others
    \/ SetCalled \/ SetStopped \/ SetDone \/ SetFailed \/ Drained \/ EndDone
    \/ Tick

(* The threads run, time passes, the screensaver thread comes back to its  *)
(* self-heal, and a freed connection slot is recycled.  The workqueue      *)
(* takes its works first in, first out, so that one submitted again and    *)
(* again does not keep the pump out (strong fairness).  Nobody has to      *)
(* connect, to disconnect or to stream.                                    *)
Fairness ==
    /\ WF_vars(PumpAlone /\ puts' = puts)
    /\ WF_vars(Idle /\ (AdvSkips \/ AdvRestarts) /\ UNCHANGED pumpVars)
    /\ WF_vars(Idle /\ RetryFires /\ UNCHANGED pumpVars)
    /\ WF_vars(Idle /\ Settle /\ UNCHANGED pumpVars)
    /\ WF_vars((AdvStopped \/ AdvStarts \/ AdvResumes \/ AdvRefused) /\ UNCHANGED pumpVars)
    /\ WF_vars(EnsureAdvertising /\ UNCHANGED pumpVars)
    /\ WF_vars(Recycled /\ UNCHANGED pumpVars)
    /\ SF_vars(SetCalled \/ Drained)
    /\ WF_vars(SetStopped \/ SetDone \/ SetFailed \/ EndDone)
    /\ WF_vars(Tick)

Spec == Init /\ [][Next]_vars

FairSpec == Spec /\ Fairness

-----------------------------------------------------------------------------
TypeOK == PumpTypeOK /\ AdvTypeOK

(* Outside the calls that change it, the radio carries a beacon exactly    *)
(* while beacon_active says so: adv_work never clobbers a beacon, a beacon *)
(* never outlives its flag, and a connection never leaves either behind    *)
(* ("True while the adv instance is borrowed", ble_service.c).             *)
BeaconOwnsAir == Idle => (beacon_active <=> air.kind = "beacon")

(* An advertiser that is on the air is known to be: adv_work would restart *)
(* it for ever, and a beacon could not start over it, otherwise            *)
(* (adv_running in adv_work_handler and ble_service_beacon_set).           *)
NoUnknownAdvertiser == Idle /\ IsConnectable(air) => adv_running

(* The radio is not borrowed for good: the pump always hands it back once  *)
(* the floods stop (tx_work_fn's rescheduling, ble_service_beacon_end).    *)
HandedBack == beaconing ~> ~beaconing

(* "Advertising must never silently die" (ble_service.c:41): a tag that is *)
(* free to advertise is sooner or later connectable or connected, through  *)
(* refused starts, beacons, profile changes and reconnections.             *)
Visible == IsConnectable(air) \/ conn = "up"

NeverDark == []<>Visible

(* mesh.c:166: an entry put while a beacon is in flight is pulled by its   *)
(* timer: none is left on the ring.                                        *)
EveryEntryPulled == ring # <<>> ~> ring = <<>>
=============================================================================
