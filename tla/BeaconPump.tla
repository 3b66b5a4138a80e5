----------------------------- MODULE BeaconPump -----------------------------
(***************************************************************************)
(* The beacon ring of src/app/mesh.c.  The mesh thread puts a PDU on the   *)
(* ring and kicks the pump, tx_work, unless a beacon is in flight; tx_work *)
(* runs on the system workqueue, hands one entry at a time to              *)
(* ble_service_beacon_set and comes back BEACON_MS later for the next.     *)
(*                                                                         *)
(* The calls into ble_service.c block, and the mesh thread runs meanwhile: *)
(* `pump' says which of them tx_work_fn is in.  Their other half is module *)
(* Advertising, and module Air puts the two together.  The PDUs are        *)
(* numbered in the order they are handed to tx_enqueue.                    *)
(***************************************************************************)
EXTENDS Integers, Sequences

CONSTANTS
    RingSlots,    \* TXRING_SLOTS
    BeaconTicks,  \* BEACON_MS
    None,         \* nothing there
    MaxPuts       \* bound: PDUs handed to tx_enqueue

ASSUME BeaconPumpAssumption ==
    /\ RingSlots \in Nat \ {0} /\ BeaconTicks \in Nat \ {0} /\ MaxPuts \in Nat
    /\ None \notin Nat

VARIABLES
    ring,       \* tx_ring, tx_head, tx_count: the entries waiting
    kicking,    \* tx_enqueue has stored its entry and not yet read `beaconing'
    beaconing,  \* the pump's flag
    tx_queued,  \* tx_work waits for the system workqueue
    tx_timer,   \* ticks until tx_work is queued
    pump,       \* where tx_work_fn is
    entry,      \* the PDU it took off the ring
    puts        \* PDUs handed to tx_enqueue so far

pumpVars == <<ring, kicking, beaconing, tx_queued, tx_timer, pump, entry, puts>>

PumpInit ==
    /\ ring = <<>> /\ kicking = FALSE /\ beaconing = FALSE
    /\ tx_queued = FALSE /\ tx_timer = None
    /\ pump = "idle" /\ entry = None /\ puts = 0

(* k_work_schedule: a no-op on work that is delayed or queued; work that   *)
(* is merely running is queued again.                                      *)
Schedule(delay) ==
    IF tx_queued \/ tx_timer # None
    THEN UNCHANGED <<tx_queued, tx_timer>>
    ELSE IF delay = 0
         THEN tx_queued' = TRUE /\ UNCHANGED tx_timer
         ELSE tx_timer' = delay /\ UNCHANGED tx_queued

(* tx_enqueue under tx_lock; a full ring drops the PDU.                    *)
Enqueue ==
    /\ ~kicking /\ puts < MaxPuts
    /\ puts' = puts + 1 /\ kicking' = TRUE
    /\ ring' = IF Len(ring) < RingSlots THEN Append(ring, puts + 1) ELSE ring
    /\ UNCHANGED <<beaconing, tx_queued, tx_timer, pump, entry>>

(* tx_enqueue after tx_lock: start the pump only if it is idle.            *)
Kick ==
    /\ kicking /\ kicking' = FALSE
    /\ IF beaconing THEN UNCHANGED <<tx_queued, tx_timer>> ELSE Schedule(0)
    /\ UNCHANGED <<ring, beaconing, pump, entry, puts>>

TxTimerFires ==
    /\ tx_timer = 0 /\ tx_timer' = None
    /\ tx_queued' = TRUE
    /\ UNCHANGED <<ring, kicking, beaconing, pump, entry, puts>>

TxStarts == tx_queued /\ pump = "idle" /\ tx_queued' = FALSE

(* Slip: the entry that was put on last is taken first.                    *)
PumpTakesNewest ==
    /\ TxStarts /\ ring # <<>>
    /\ entry' = ring[Len(ring)] /\ ring' = SubSeq(ring, 1, Len(ring) - 1) /\ pump' = "set"
    /\ UNCHANGED <<kicking, beaconing, tx_timer, puts>>

(* tx_work_fn takes the oldest entry and calls ble_service_beacon_set.     *)
PumpTakes ==
    /\ TxStarts /\ ring # <<>>
    /\ entry' = Head(ring) /\ ring' = Tail(ring) /\ pump' = "set"
    /\ UNCHANGED <<kicking, beaconing, tx_timer, puts>>

(* Slip: no way back after a beacon.                                       *)
BeaconSetReturnsLast(ok) ==
    /\ pump = "set" /\ pump' = "idle" /\ entry' = None
    /\ beaconing' = (ok \/ beaconing)
    /\ UNCHANGED <<ring, kicking, tx_queued, tx_timer, puts>>

(* ble_service_beacon_set is back; the entry is gone even if it failed.    *)
BeaconSetReturns(ok) ==
    /\ pump = "set" /\ pump' = "idle" /\ entry' = None
    /\ beaconing' = (ok \/ beaconing)
    /\ Schedule(BeaconTicks)
    /\ UNCHANGED <<ring, kicking, puts>>

(* Slip: the radio is not returned.                                        *)
PumpDrainedQuietly ==
    /\ TxStarts /\ ring = <<>>
    /\ UNCHANGED <<ring, kicking, beaconing, tx_timer, pump, entry, puts>>

(* tx_work_fn finds the ring empty; a pump that was beaconing calls        *)
(* ble_service_beacon_end, and clears its flag when that is back.          *)
PumpDrained ==
    /\ TxStarts /\ ring = <<>>
    /\ pump' = IF beaconing THEN "end" ELSE "idle"
    /\ UNCHANGED <<ring, kicking, beaconing, tx_timer, entry, puts>>

BeaconEndReturns ==
    /\ pump = "end" /\ pump' = "idle"
    /\ beaconing' = FALSE
    /\ UNCHANGED <<ring, kicking, tx_queued, tx_timer, entry, puts>>

(* BEACON_MS is counted down by the system timer.                          *)
PumpTick ==
    /\ tx_timer # 0
    /\ tx_timer' = IF tx_timer = None THEN None ELSE tx_timer - 1
    /\ UNCHANGED <<ring, kicking, beaconing, tx_queued, pump, entry, puts>>

(* The pump with any behaviour of ble_service.c behind it.                 *)
PumpNext ==
    \/ Enqueue \/ Kick \/ TxTimerFires \/ PumpTakes \/ PumpDrained
    \/ \E ok \in BOOLEAN : BeaconSetReturns(ok)
    \/ BeaconEndReturns \/ PumpTick

PumpSpec == PumpInit /\ [][PumpNext]_pumpVars

-----------------------------------------------------------------------------
PumpTypeOK ==
    /\ ring \in Seq(1 .. puts) /\ Len(ring) <= RingSlots
    /\ kicking \in BOOLEAN /\ beaconing \in BOOLEAN /\ tx_queued \in BOOLEAN
    /\ tx_timer \in 0 .. BeaconTicks \cup {None}
    /\ pump \in {"idle", "set", "end"}
    /\ entry \in IF pump = "set" THEN 1 .. puts ELSE {None}
    /\ puts \in Nat

(* A relayed PDU is put on the air at most once and in the order of        *)
(* acceptance: what waits on the ring is in order and newer than the one   *)
(* the pump took (tx_enqueue, tx_work_fn).                                 *)
InOrder ==
    /\ \A i, j \in 1 .. Len(ring) : i < j => ring[i] < ring[j]
    /\ \A i \in 1 .. Len(ring) : pump = "set" => entry < ring[i]

(* tx_work is never both delayed and queued: k_work_schedule gives every   *)
(* pass of the pump one successor.                                         *)
OnePass == ~(tx_queued /\ tx_timer # None)

(* A pump that has borrowed the advertiser always comes back to return it: *)
(* while `beaconing' is set a pass is running, queued or timed             *)
(* (tx_work_fn reschedules itself after every entry).                      *)
BorrowedIsReturned ==
    beaconing => pump # "idle" \/ tx_queued \/ tx_timer # None
=============================================================================
