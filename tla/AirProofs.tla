------------------------------ MODULE AirProofs ------------------------------
(***************************************************************************)
(* Proofs about the beacon pump and the advertiser, for every ring size,   *)
(* beacon time and set of intervals, and whether or not the workqueue      *)
(* resumes late.                                                           *)
(***************************************************************************)
EXTENDS Air, TLAPS

(***************************************************************************)
(* The pump alone, whatever ble_service.c answers.                         *)
(***************************************************************************)
PumpInv == PumpTypeOK /\ InOrder /\ OnePass /\ BorrowedIsReturned

(* What an entry appended to the ring changes.                             *)
LEMMA AppendRing ==
    ASSUME NEW S, NEW r \in Seq(S), NEW e \in S
    PROVE  /\ Append(r, e) \in Seq(S) /\ Len(r) \in Nat /\ Len(Append(r, e)) = Len(r) + 1
           /\ Append(r, e)[Len(r) + 1] = e
           /\ \A i \in 1 .. Len(r) : Append(r, e)[i] = r[i]
OBVIOUS

(* What is left of the ring without its first entry.                       *)
LEMMA TailRing ==
    ASSUME NEW S, NEW r \in Seq(S), r # <<>>
    PROVE  /\ Head(r) \in S /\ Tail(r) \in Seq(S)
           /\ Len(r) \in Nat \ {0} /\ Len(Tail(r)) = Len(r) - 1 /\ Head(r) = r[1]
           /\ \A i \in 1 .. Len(Tail(r)) : Tail(r)[i] = r[i + 1]
OBVIOUS

(* k_work_schedule leaves exactly one pass pending.                        *)
LEMMA ScheduleKeeps ==
    ASSUME PumpInv, NEW delay \in 0 .. BeaconTicks, Schedule(delay)
    PROVE  /\ tx_queued' \in BOOLEAN /\ tx_timer' \in 0 .. BeaconTicks \cup {None}
           /\ ~(tx_queued' /\ tx_timer' # None)
           /\ tx_queued' \/ tx_timer' # None
<1>1. /\ tx_queued \in BOOLEAN /\ tx_timer \in 0 .. BeaconTicks \cup {None}
      /\ ~(tx_queued /\ tx_timer # None) /\ None \notin Nat /\ BeaconTicks \in Nat
    BY BeaconPumpAssumption DEF PumpInv, PumpTypeOK, OnePass
<1>2. CASE tx_queued \/ tx_timer # None
    <2>1. tx_queued' = tx_queued /\ tx_timer' = tx_timer
        BY <1>2 DEF Schedule
    <2> QED BY <1>1, <1>2, <2>1
<1>3. CASE ~(tx_queued \/ tx_timer # None) /\ delay = 0
    <2>1. tx_queued' = TRUE /\ tx_timer' = None
        BY <1>3 DEF Schedule
    <2> QED BY <2>1, Zenon
<1>4. CASE ~(tx_queued \/ tx_timer # None) /\ delay # 0
    <2>1. tx_queued' = tx_queued /\ tx_timer' = delay
        BY <1>4 DEF Schedule
    <2>2. delay # None
        BY <1>1
    <2> QED BY <1>1, <1>4, <2>1, <2>2, Zenon
<1> QED BY <1>2, <1>3, <1>4

(* An empty ring satisfies the invariant of the pump.                      *)
LEMMA PumpInitInv == PumpInit => PumpInv
<1> SUFFICES ASSUME PumpInit PROVE PumpInv
    OBVIOUS
<1>1. PumpTypeOK
    <2>1. ring = <<>> /\ puts = 0 /\ pump = "idle" /\ entry = None /\ tx_timer = None
        BY DEF PumpInit
    <2>2. ring \in Seq(1 .. puts) /\ Len(ring) <= RingSlots
        BY <2>1, BeaconPumpAssumption
    <2>3. kicking \in BOOLEAN /\ beaconing \in BOOLEAN /\ tx_queued \in BOOLEAN
        BY Zenon DEF PumpInit
    <2> QED BY <2>1, <2>2, <2>3 DEF PumpTypeOK
<1>2. InOrder /\ OnePass /\ BorrowedIsReturned
    BY DEF PumpInit, InOrder, OnePass, BorrowedIsReturned
<1> QED BY <1>1, <1>2 DEF PumpInv

(* Every action of the pump keeps it.                                      *)
LEMMA PumpStep == PumpInv /\ [PumpNext]_pumpVars => PumpInv'
<1> SUFFICES ASSUME PumpInv, [PumpNext]_pumpVars
             PROVE  PumpInv'
    OBVIOUS
<1>0. /\ ring \in Seq(1 .. puts) /\ Len(ring) \in Nat /\ Len(ring) <= RingSlots /\ puts \in Nat
      /\ None \notin Nat /\ BeaconTicks \in Nat \ {0} /\ RingSlots \in Nat
    BY BeaconPumpAssumption DEF PumpInv, PumpTypeOK
<1>1. CASE Enqueue
    <2>1. puts' = puts + 1 /\ kicking' = TRUE
          /\ UNCHANGED <<beaconing, tx_queued, tx_timer, pump, entry>>
        BY <1>1 DEF Enqueue
    <2>2. ring \in Seq(1 .. puts')
        BY <1>0, <2>1
    <2>3. CASE Len(ring) < RingSlots
        <3>1. ring' = Append(ring, puts + 1) /\ puts + 1 \in 1 .. puts'
            BY <1>0, <1>1, <2>1, <2>3 DEF Enqueue
        <3>2. /\ ring' \in Seq(1 .. puts') /\ Len(ring') = Len(ring) + 1
              /\ ring'[Len(ring) + 1] = puts + 1
              /\ \A i \in 1 .. Len(ring) : ring'[i] = ring[i]
            BY <2>2, <3>1, AppendRing
        <3>3. \A i \in 1 .. Len(ring) : ring[i] \in 1 .. puts
            BY <1>0
        <3>4. PumpTypeOK'
            BY <1>0, <2>1, <2>3, <3>2 DEF PumpInv, PumpTypeOK
        <3>5. InOrder'
            <4>1. ASSUME NEW i \in 1 .. Len(ring'), NEW j \in 1 .. Len(ring'), i < j
                  PROVE  ring'[i] < ring'[j]
                <5>1. i \in 1 .. Len(ring) /\ ring'[i] = ring[i] /\ ring[i] \in 1 .. puts
                    BY <1>0, <3>2, <3>3, <4>1
                <5>2. CASE j \in 1 .. Len(ring)
                    <6>1. ring'[j] = ring[j] /\ ring[i] < ring[j]
                        BY <3>2, <4>1, <5>1, <5>2 DEF PumpInv, InOrder
                    <6> QED BY <5>1, <6>1
                <5>3. CASE j = Len(ring) + 1
                    BY <1>0, <3>2, <5>1, <5>3
                <5> QED BY <1>0, <3>2, <5>2, <5>3
            <4>2. \A i \in 1 .. Len(ring') : pump' = "set" => entry' < ring'[i]
                <5> SUFFICES ASSUME NEW i \in 1 .. Len(ring'), pump = "set"
                             PROVE  entry < ring'[i]
                    BY <2>1
                <5>1. entry \in 1 .. puts
                    BY DEF PumpInv, PumpTypeOK
                <5>2. CASE i \in 1 .. Len(ring)
                    <6>1. ring'[i] = ring[i] /\ entry < ring[i]
                        BY <3>2, <5>2 DEF PumpInv, InOrder
                    <6> QED BY <6>1
                <5>3. CASE i = Len(ring) + 1
                    BY <1>0, <3>2, <5>1, <5>3
                <5> QED BY <1>0, <3>2, <5>2, <5>3
            <4> QED BY <4>1, <4>2 DEF InOrder
        <3> QED BY <2>1, <3>4, <3>5 DEF PumpInv, OnePass, BorrowedIsReturned
    <2>4. CASE ~(Len(ring) < RingSlots)
        <3>1. ring' = ring
            BY <1>1, <2>4 DEF Enqueue
        <3>2. PumpTypeOK'
            BY <1>0, <2>1, <2>2, <3>1 DEF PumpInv, PumpTypeOK
        <3> QED BY <2>1, <3>1, <3>2 DEF PumpInv, InOrder, OnePass, BorrowedIsReturned
    <2> QED BY <2>3, <2>4
<1>2. CASE Kick
    <2>1. kicking' = FALSE /\ UNCHANGED <<ring, beaconing, pump, entry, puts>>
        BY <1>2 DEF Kick
    <2>2. CASE beaconing
        <3>1. UNCHANGED <<tx_queued, tx_timer>>
            BY <1>2, <2>2 DEF Kick
        <3>2. PumpTypeOK'
            BY <2>1, <3>1 DEF PumpInv, PumpTypeOK
        <3> QED BY <2>1, <3>1, <3>2 DEF PumpInv, InOrder, OnePass, BorrowedIsReturned
    <2>3. CASE ~beaconing
        <3>1. /\ tx_queued' \in BOOLEAN /\ tx_timer' \in 0 .. BeaconTicks \cup {None}
              /\ ~(tx_queued' /\ tx_timer' # None)
            BY <1>0, <1>2, <2>3, ScheduleKeeps DEF Kick
        <3>2. PumpTypeOK'
            BY <2>1, <3>1 DEF PumpInv, PumpTypeOK
        <3> QED BY <2>1, <2>3, <3>1, <3>2 DEF PumpInv, InOrder, OnePass, BorrowedIsReturned
    <2> QED BY <2>2, <2>3
<1>3. CASE TxTimerFires
    <2>1. tx_timer' = None /\ tx_queued' = TRUE
          /\ UNCHANGED <<ring, kicking, beaconing, pump, entry, puts>>
        BY <1>3 DEF TxTimerFires
    <2>2. PumpTypeOK'
        BY <2>1 DEF PumpInv, PumpTypeOK
    <2> QED BY <2>1, <2>2 DEF PumpInv, InOrder, OnePass, BorrowedIsReturned
<1>4. CASE PumpTakes
    <2>1. /\ ring # <<>> /\ entry' = Head(ring) /\ ring' = Tail(ring) /\ pump' = "set"
          /\ tx_queued' = FALSE /\ UNCHANGED <<kicking, beaconing, tx_timer, puts>>
        BY <1>4 DEF PumpTakes, TxStarts
    <2>2. /\ entry' \in 1 .. puts /\ ring' \in Seq(1 .. puts) /\ entry' = ring[1]
          /\ Len(ring) \in Nat \ {0} /\ Len(ring') = Len(ring) - 1
          /\ \A i \in 1 .. Len(ring') : ring'[i] = ring[i + 1]
        BY <1>0, <2>1, TailRing
    <2>3. PumpTypeOK'
        <3>1. ring' \in Seq(1 .. puts') /\ Len(ring') <= RingSlots
            BY <1>0, <2>1, <2>2
        <3>2. entry' \in IF pump' = "set" THEN 1 .. puts' ELSE {None}
            BY <2>1, <2>2
        <3>3. /\ kicking' \in BOOLEAN /\ beaconing' \in BOOLEAN
              /\ tx_timer' \in 0 .. BeaconTicks \cup {None} /\ puts' \in Nat
              /\ pump' \in {"idle", "set", "end"}
            BY <2>1 DEF PumpInv, PumpTypeOK
        <3>4. tx_queued' \in BOOLEAN
            BY <2>1, Zenon
        <3> QED BY <3>1, <3>2, <3>3, <3>4 DEF PumpTypeOK
    <2>4. InOrder'
        <3>1. ASSUME NEW i \in 1 .. Len(ring'), NEW j \in 1 .. Len(ring'), i < j
              PROVE  ring'[i] < ring'[j]
            <4>1. /\ i + 1 \in 1 .. Len(ring) /\ j + 1 \in 1 .. Len(ring) /\ i + 1 < j + 1
                  /\ ring'[i] = ring[i + 1] /\ ring'[j] = ring[j + 1]
                BY <2>2, <3>1
            <4> QED BY <4>1 DEF PumpInv, InOrder
        <3>2. ASSUME NEW i \in 1 .. Len(ring')
              PROVE  entry' < ring'[i]
            <4>1. /\ 1 \in 1 .. Len(ring) /\ i + 1 \in 1 .. Len(ring) /\ 1 < i + 1
                  /\ ring'[i] = ring[i + 1] /\ entry' = ring[1]
                BY <2>2, <3>2
            <4>2. ring[1] < ring[i + 1]
                BY <4>1 DEF PumpInv, InOrder
            <4> QED BY <4>1, <4>2
        <3> QED BY <3>1, <3>2 DEF InOrder
    <2> QED BY <2>1, <2>3, <2>4 DEF PumpInv, OnePass, BorrowedIsReturned
<1>5. CASE PumpDrained
    <2>1. /\ pump' = IF beaconing THEN "end" ELSE "idle"
          /\ tx_queued' = FALSE /\ pump = "idle"
          /\ UNCHANGED <<ring, kicking, beaconing, tx_timer, entry, puts>>
        BY <1>5 DEF PumpDrained, TxStarts
    <2>2. PumpTypeOK'
        BY <2>1 DEF PumpInv, PumpTypeOK
    <2> QED BY <2>1, <2>2 DEF PumpInv, InOrder, OnePass, BorrowedIsReturned
<1>6. ASSUME NEW ok \in BOOLEAN, BeaconSetReturns(ok)
      PROVE  PumpInv'
    <2>1. /\ pump' = "idle" /\ entry' = None /\ beaconing' = (ok \/ beaconing)
          /\ UNCHANGED <<ring, kicking, puts>>
        BY <1>6 DEF BeaconSetReturns
    <2>2. /\ tx_queued' \in BOOLEAN /\ tx_timer' \in 0 .. BeaconTicks \cup {None}
          /\ ~(tx_queued' /\ tx_timer' # None)
          /\ tx_queued' \/ tx_timer' # None
        BY <1>0, <1>6, ScheduleKeeps DEF BeaconSetReturns
    <2>3. beaconing' \in BOOLEAN
        BY <2>1, Zenon
    <2>4. PumpTypeOK'
        BY <2>1, <2>2, <2>3 DEF PumpInv, PumpTypeOK
    <2> QED BY <2>1, <2>2, <2>4 DEF PumpInv, InOrder, OnePass, BorrowedIsReturned
<1>7. CASE BeaconEndReturns
    <2>1. /\ pump = "end" /\ pump' = "idle" /\ beaconing' = FALSE
          /\ UNCHANGED <<ring, kicking, tx_queued, tx_timer, entry, puts>>
        BY <1>7 DEF BeaconEndReturns
    <2>2. PumpTypeOK'
        BY <2>1 DEF PumpInv, PumpTypeOK
    <2> QED BY <2>1, <2>2 DEF PumpInv, InOrder, OnePass, BorrowedIsReturned
<1>8. CASE PumpTick
    <2>1. /\ tx_timer # 0 /\ tx_timer' = IF tx_timer = None THEN None ELSE tx_timer - 1
          /\ UNCHANGED <<ring, kicking, beaconing, tx_queued, pump, entry, puts>>
        BY <1>8 DEF PumpTick
    <2>2. tx_timer' \in 0 .. BeaconTicks \cup {None} /\ (tx_timer = None <=> tx_timer' = None)
        BY <1>0, <2>1 DEF PumpInv, PumpTypeOK
    <2>3. PumpTypeOK'
        BY <2>1, <2>2 DEF PumpInv, PumpTypeOK
    <2> QED BY <2>1, <2>2, <2>3 DEF PumpInv, InOrder, OnePass, BorrowedIsReturned
<1>9. CASE UNCHANGED pumpVars
    BY <1>9 DEF pumpVars, PumpInv, PumpTypeOK, InOrder, OnePass, BorrowedIsReturned
<1> QED BY <1>1, <1>2, <1>3, <1>4, <1>5, <1>6, <1>7, <1>8, <1>9 DEF PumpNext

(* Every step of the whole is a step of the pump or leaves it alone.       *)
LEMMA AirStepsThePump == [Next]_vars => [PumpNext]_pumpVars
BY DEF Next, vars, PumpNext, PumpAlone, WorkqueueAlone, Others, SetCalled, SetStopped, SetDone,
       SetFailed, Drained, EndDone, Tick

(* The pump inside ble_service.c is a pump.                                *)
THEOREM AirImplementsPump == Spec => PumpSpec
<1>1. Init => PumpInit
    BY DEF Init
<1> QED BY <1>1, AirStepsThePump, PTL DEF Spec, PumpSpec

(* The invariant of the pump holds within Air.                             *)
LEMMA PumpInvariance == Spec => []PumpInv
<1>1. Init => PumpInit
    BY DEF Init
<1> QED BY <1>1, PumpInitInv, PumpStep, AirStepsThePump, PTL DEF Spec

(* No relayed PDU is aired twice or out of order (tx_enqueue, tx_work_fn). *)
THEOREM PumpInOrder == Spec => []InOrder
<1>1. PumpInv => InOrder
    BY DEF PumpInv
<1> QED BY <1>1, PumpInvariance, PTL

(* Delayed or queued, never both: the pump has one next pass.              *)
THEOREM PumpOnePass == Spec => []OnePass
<1>1. PumpInv => OnePass
    BY DEF PumpInv
<1> QED BY <1>1, PumpInvariance, PTL

(* The pump that borrowed the advertiser has a pass ahead that returns it. *)
THEOREM PumpReturns == Spec => []BorrowedIsReturned
<1>1. PumpInv => BorrowedIsReturned
    BY DEF PumpInv
<1> QED BY <1>1, PumpInvariance, PTL

(***************************************************************************)
(* The pump and the advertiser on the one radio.  Between the blocking     *)
(* calls the flags describe the radio; inside one, what the call has       *)
(* already stopped stays stopped.                                          *)
(***************************************************************************)
Quiet == ~IsConnectable(air) /\ air.kind # "beacon"

AirInv ==
    /\ pump = "set" <=> ble \in {"set_stop", "set_start"}
    /\ ble = "idle" => /\ beacon_active <=> air.kind = "beacon"
                       /\ IsConnectable(air) => adv_running
    /\ ble \in {"stop", "start", "started"} => /\ ~beacon_active /\ air.kind # "beacon"
                                            /\ param \in {"fast", "idle"}
    /\ ble = "start" => Quiet
    /\ ble = "set_start" => Quiet /\ beacon_active

(* A radio that is off carries nothing.                                    *)
LEMMA OffIsQuiet == Off.kind = "off"
BY DEF Off

(* Every action of the composition keeps the invariant of the radio.       *)
LEMMA AirStep == AirInv /\ [Next]_vars => AirInv'
<1> SUFFICES ASSUME AirInv, [Next]_vars
             PROVE  AirInv'
    OBVIOUS
<1> USE DEF linkVars, wishVars, IsConnectable, Quiet
<1>1. ASSUME UNCHANGED <<pump, air, ble, param, adv_running, beacon_active>>
      PROVE  AirInv'
    BY <1>1 DEF AirInv
<1>2. CASE PumpAlone
    BY <1>1, <1>2 DEF PumpAlone, advVars, Enqueue, Kick, TxTimerFires
<1>3. CASE WorkqueueAlone
    <2>1. UNCHANGED pump
        BY <1>3 DEF WorkqueueAlone, pumpVars
    <2>2. CASE AdvSkips \/ RetryFires \/ Settle
        BY <1>1, <2>1, <2>2 DEF AdvSkips, RetryFires, Settle
    <2>3. CASE AdvRestarts
        <3>1. /\ ble = "idle" /\ ~beacon_active /\ UNCHANGED <<air, adv_running, beacon_active>>
              /\ ble' = IF adv_running THEN "stop" ELSE "start"
              /\ param' \in {"fast", "idle"}
            BY <2>3 DEF AdvRestarts, NothingToDo, Wanted
        <3> QED BY <2>1, <3>1 DEF AirInv
    <2>4. CASE AdvStopped
        BY <2>1, <2>4, OffIsQuiet DEF AdvStopped, AirInv
    <2>5. CASE AdvStarts
        <3>1. ble = "start" /\ ble' = "started" /\ UNCHANGED <<beacon_active, param>>
            BY <2>5 DEF AdvStarts
        <3>3. air'.kind = param \/ air' = air
            BY <2>5 DEF AdvStarts, Connectable
        <3>2. param \in {"fast", "idle"}
            BY <3>1 DEF AirInv
        <3> QED BY <2>1, <3>1, <3>2, <3>3 DEF AirInv
    <2>6. CASE AdvResumes
        BY <2>1, <2>6 DEF AdvResumes, AirInv
    <2>7. CASE AdvRefused
        BY <2>1, <2>7 DEF AdvRefused, AirInv
    <2> QED BY <1>3, <2>2, <2>3, <2>4, <2>5, <2>6, <2>7 DEF WorkqueueAlone
<1>4. CASE Others
    <2>1. UNCHANGED pump
        BY <1>4 DEF Others, pumpVars
    <2>2. CASE EnsureAdvertising \/ Disconnected \/ Recycled
        BY <1>1, <2>1, <2>2 DEF EnsureAdvertising, Disconnected, Recycled
    <2>3. ASSUME NEW i \in Intervals, SetInterval(i)
          PROVE  AirInv'
        BY <1>1, <2>1, <2>3 DEF SetInterval
    <2>4. ASSUME NEW on \in BOOLEAN, SetStreaming(on)
          PROVE  AirInv'
        BY <1>1, <2>1, <2>4 DEF SetStreaming
    <2>5. CASE Connected
        <3>1. /\ IsConnectable(air) /\ air' = Off
              /\ UNCHANGED <<ble, param, beacon_active>>
            BY <2>5 DEF Connected
        <3> QED BY <2>1, <3>1, OffIsQuiet DEF AirInv
    <2> QED BY <1>4, <2>2, <2>3, <2>4, <2>5 DEF Others
<1>5. CASE SetCalled
    <2>1. /\ pump = "idle" /\ ble = "idle" /\ pump' = "set"
          /\ ble' = IF adv_running \/ beacon_active THEN "set_stop" ELSE "set_start"
          /\ beacon_active' = (beacon_active \/ ~adv_running)
          /\ UNCHANGED <<air, adv_running>>
        BY <1>5 DEF SetCalled, Idle, PumpTakes, BeaconSetCalled
    <2> QED BY <2>1 DEF AirInv
<1>6. CASE SetStopped
    <2>1. /\ ble = "set_stop" /\ ble' = "set_start" /\ air' = Off /\ beacon_active' = TRUE
          /\ UNCHANGED pump
        BY <1>6 DEF SetStopped, BeaconStopped, pumpVars
    <2> QED BY <2>1, OffIsQuiet DEF AirInv
<1>7. CASE SetDone
    <2>1. /\ ble = "set_start" /\ ble' = "idle" /\ pump' = "idle" /\ air'.kind = "beacon"
          /\ UNCHANGED <<beacon_active, adv_running>>
        BY <1>7 DEF SetDone, BeaconSetReturns, BeaconStarts, Beacon
    <2> QED BY <2>1 DEF AirInv
<1>8. CASE SetFailed
    <2>1. /\ ble = "set_start" /\ ble' = "idle" /\ pump' = "idle" /\ beacon_active' = FALSE
          /\ UNCHANGED air
        BY <1>8 DEF SetFailed, BeaconSetReturns, BeaconRefused
    <2> QED BY <2>1 DEF AirInv
<1>9. CASE Drained
    <2>1. /\ pump = "idle" /\ ble = "idle" /\ pump' \in {"idle", "end"}
          /\ UNCHANGED <<air, ble, param, adv_running, beacon_active>>
        BY <1>9 DEF Drained, Idle, PumpDrained, advVars
    <2> QED BY <2>1 DEF AirInv
<1>10. CASE EndDone
    <2>1. pump = "end" /\ pump' = "idle"
        BY <1>10 DEF EndDone, BeaconEndReturns
    <2>2. CASE beacon_active
        <3>1. air' = Off /\ beacon_active' = FALSE /\ adv_running' = FALSE
              /\ UNCHANGED <<ble, param>>
            BY <1>10, <2>2 DEF EndDone, BeaconEnd
        <3> QED BY <2>1, <2>2, <3>1, OffIsQuiet DEF AirInv
    <2>3. CASE ~beacon_active
        <3>1. UNCHANGED <<air, ble, param, adv_running, beacon_active>>
            BY <1>10, <2>3 DEF EndDone, BeaconEnd, advVars
        <3> QED BY <2>1, <3>1 DEF AirInv
    <2> QED BY <2>2, <2>3
<1>11. CASE Tick
    BY <1>1, <1>11 DEF Tick, PumpTick, advVars
<1>12. CASE UNCHANGED vars
    BY <1>1, <1>12 DEF vars, pumpVars, advVars
<1> QED BY <1>2, <1>3, <1>4, <1>5, <1>6, <1>7, <1>8, <1>9, <1>10, <1>11, <1>12 DEF Next

(* The invariant of the radio holds throughout.                            *)
LEMMA AirInvariance == Spec => []AirInv
<1>1. Init => AirInv
    BY OffIsQuiet DEF Init, PumpInit, AdvInit, AirInv, Quiet, IsConnectable
<1> QED BY <1>1, AirStep, PTL DEF Spec

(* adv_work never clobbers a beacon, and no beacon outlives its flag, over *)
(* every interleaving with connections, refusals and profile changes       *)
(* (adv_work_handler, ble_service_beacon_set, ble_service_beacon_end).     *)
THEOREM BeaconKeepsAir == Spec => []BeaconOwnsAir
<1>1. AirInv => BeaconOwnsAir
    BY DEF AirInv, BeaconOwnsAir, Idle
<1> QED BY <1>1, AirInvariance, PTL

(* No connectable advertiser runs behind adv_running's back.               *)
THEOREM AdvertiserIsKnown == Spec => []NoUnknownAdvertiser
<1>1. AirInv => NoUnknownAdvertiser
    BY DEF AirInv, NoUnknownAdvertiser, Idle
<1> QED BY <1>1, AirInvariance, PTL

(***************************************************************************)
(* The types of the whole.  A beacon carries what the pump took off the    *)
(* ring, and that is a PDU it was given.                                   *)
(***************************************************************************)
AirTypes == AdvTypeOK /\ puts <= MaxPuts

Flags == {allowed, adv_running, beacon_active, ble_streaming_mode, boot_burst, adv_queued, retrying}

(* The actions of ble_service.c keep its types.                            *)
LEMMA AdvStepsKeepTypes ==
    ASSUME AdvTypeOK,
           \/ AdvSkips \/ AdvRestarts \/ AdvStopped \/ AdvStarts \/ AdvResumes \/ AdvRefused
           \/ RetryFires \/ Settle \/ EnsureAdvertising
           \/ \E i \in Intervals : SetInterval(i)
           \/ \E on \in BOOLEAN : SetStreaming(on)
           \/ Connected \/ Disconnected \/ Recycled
    PROVE  AdvTypeOK'
<1> USE DEF AdvTypeOK, AdvertisingStart, linkVars, wishVars
<1>1. CASE AdvSkips
    BY <1>1 DEF AdvSkips
<1>2. CASE AdvRestarts
    BY <1>2 DEF AdvRestarts, Wanted
<1>3. CASE AdvStopped
    BY <1>3 DEF AdvStopped
<1>4. CASE AdvStarts
    BY <1>4 DEF AdvStarts, Connectable
<1>5. CASE AdvResumes
    BY <1>5 DEF AdvResumes
<1>6. CASE AdvRefused
    BY <1>6 DEF AdvRefused, MayRefuse
<1>7. CASE RetryFires
    BY <1>7 DEF RetryFires
<1>8. CASE Settle
    BY <1>8 DEF Settle
<1>9. CASE EnsureAdvertising
    BY <1>9 DEF EnsureAdvertising
<1>10. ASSUME NEW i \in Intervals, SetInterval(i)
       PROVE  AdvTypeOK'
    BY <1>10 DEF SetInterval
<1>11. ASSUME NEW on \in BOOLEAN, SetStreaming(on)
       PROVE  AdvTypeOK'
    BY <1>11 DEF SetStreaming
<1>12. CASE Connected
    <2>1. /\ air' = Off /\ conn' = "up" /\ adv_running' = FALSE /\ adv_param_active' = "none"
          /\ allowed' = FALSE /\ conns' = conns + 1
          /\ UNCHANGED <<beacon_active, ble_streaming_mode, boot_burst, interval, profiles,
                         adv_queued, retrying, ble, param, refusals>>
        BY <1>12 DEF Connected
    <2>2. Flags' \subseteq BOOLEAN
        <3>1. {beacon_active', ble_streaming_mode', boot_burst', adv_queued', retrying'} \subseteq BOOLEAN
            BY <2>1
        <3> QED BY <2>1, <3>1 DEF Flags
    <2> QED BY <2>1, <2>2 DEF Flags
<1>13. CASE Disconnected
    BY <1>13 DEF Disconnected
<1>14. CASE Recycled
    BY <1>14 DEF Recycled
<1> QED BY <1>1, <1>2, <1>3, <1>4, <1>5, <1>6, <1>7, <1>8, <1>9, <1>10, <1>11, <1>12, <1>13, <1>14

(* And so does every step of the two together.                             *)
LEMMA AirTypesStep == PumpInv /\ AirTypes /\ [Next]_vars => AirTypes'
<1> SUFFICES ASSUME PumpInv, AirTypes, [Next]_vars
             PROVE  AirTypes'
    OBVIOUS
<1>1. AdvTypeOK /\ puts <= MaxPuts /\ MaxPuts \in Nat /\ puts \in Nat
    BY BeaconPumpAssumption DEF AirTypes, PumpInv, PumpTypeOK
<1>2. puts' <= MaxPuts
    <2>1. CASE Enqueue
        BY <1>1, <2>1 DEF Enqueue
    <2>2. CASE ~Enqueue
        <3>1. puts' = puts
            BY <2>2, AirStepsThePump DEF PumpNext, pumpVars, Kick, TxTimerFires, PumpTakes,
               PumpDrained, BeaconSetReturns, BeaconEndReturns, PumpTick
        <3> QED BY <1>1, <3>1
    <2> QED BY <2>1, <2>2
<1>3. AdvTypeOK'
    <2>1. ASSUME UNCHANGED advVars
          PROVE  AdvTypeOK'
        BY <1>1, <2>1 DEF advVars, AdvTypeOK
    <2>2. CASE PumpAlone \/ Drained \/ Tick \/ UNCHANGED vars
        BY <2>1, <2>2 DEF PumpAlone, Drained, Tick, vars
    <2>3. CASE WorkqueueAlone \/ Others
        BY <1>1, <2>3, AdvStepsKeepTypes DEF WorkqueueAlone, Others
    <2>4. CASE SetCalled
        BY <1>1, <2>4 DEF SetCalled, BeaconSetCalled, AdvTypeOK, linkVars, wishVars
    <2>5. CASE SetStopped
        BY <1>1, <2>5 DEF SetStopped, BeaconStopped, AdvTypeOK, linkVars, wishVars
    <2>6. CASE SetDone
        <3>1. entry \in Pdus
            <4>1. pump = "set"
                BY <2>6 DEF SetDone, BeaconSetReturns
            <4> QED BY <1>1, <4>1, AirAssumption DEF PumpInv, PumpTypeOK
        <3> QED BY <1>1, <2>6, <3>1 DEF SetDone, BeaconStarts, Beacon, AdvTypeOK, linkVars, wishVars
    <2>7. CASE SetFailed
        <3>1. /\ ble = "set_start" /\ ble' = "idle" /\ beacon_active' = FALSE
              /\ refusals' \in {refusals, refusals + 1}
              /\ UNCHANGED <<air, conn, allowed, conns, adv_running, adv_param_active, adv_queued,
                             ble_streaming_mode, boot_burst, interval, profiles, retrying, param>>
            BY <2>7 DEF SetFailed, BeaconRefused, MayRefuse, linkVars, wishVars
        <3>2. Flags' \subseteq BOOLEAN
            BY <1>1, <3>1 DEF AdvTypeOK, Flags
        <3> QED BY <1>1, <3>1, <3>2 DEF AdvTypeOK, Flags
    <2>8. CASE EndDone
        BY <1>1, <2>1, <2>8 DEF EndDone, BeaconEnd, AdvertisingStart, AdvTypeOK, linkVars, wishVars
    <2> QED BY <2>2, <2>3, <2>4, <2>5, <2>6, <2>7, <2>8 DEF Next
<1> QED BY <1>2, <1>3 DEF AirTypes

(* The pump and the advertiser keep their types: what is on the air is     *)
(* nothing, a connectable advertiser at one of the profiles' intervals, or *)
(* a PDU the mesh has handed over, and adv_work_handler carries a          *)
(* parameter set exactly while it is in a call.                            *)
THEOREM AirIsTyped == Spec => []TypeOK
<1>1. Init => AirTypes
    <2>1. Init => puts <= MaxPuts
        BY BeaconPumpAssumption DEF Init, PumpInit
    <2>2. AdvInit => AdvTypeOK
        <3>1. AdvInit => Flags \subseteq BOOLEAN
            BY DEF AdvInit, Flags
        <3> QED BY <3>1 DEF AdvInit, AdvTypeOK, Flags
    <2> QED BY <2>1, <2>2 DEF Init, AirTypes
<1>2. PumpInv /\ AirTypes => TypeOK
    BY DEF PumpInv, AirTypes, TypeOK
<1> QED BY <1>1, <1>2, PumpInvariance, AirTypesStep, PTL DEF Spec
=============================================================================
