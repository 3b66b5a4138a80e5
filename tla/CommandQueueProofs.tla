------------------------- MODULE CommandQueueProofs -------------------------
(***************************************************************************)
(* Proofs about the command path, for any number of slots, any set of      *)
(* commands and any number of connections.                                 *)
(***************************************************************************)
EXTENDS CommandQueue, TLAPS

(* A line or a frame that is being received has its slot, or is being      *)
(* thrown away; nothing else holds one.                                    *)
ReceiverInv ==
    /\ rx_slot # None <=> rx_line # None /\ ~rx_discard
    /\ rx_discard => rx_line # None
    /\ ~opc_busy => opc_slot = None

(* The command thread holds a slot exactly while it is at work, and it and *)
(* the waiting slots are filled.                                           *)
ThreadInv ==
    /\ stage = "idle" <=> running = None
    /\ running # None => holds[running] # None
    /\ \A s \in Queued : holds[s] # None

IInv == TypeOK /\ SlotsConserved /\ OldCommandsDropped /\ ReceiverInv /\ ThreadInv

(* What a slot appended to the queue changes.                              *)
LEMMA RangeAppend ==
    ASSUME NEW S, NEW q \in Seq(S), NEW e \in S
    PROVE  /\ Append(q, e) \in Seq(S)
           /\ Range(Append(q, e)) = Range(q) \cup {e}
           /\ IsInjective(q) /\ e \notin Range(q) => IsInjective(Append(q, e))
<1> DEFINE a == Append(q, e)
<1>1. /\ a \in Seq(S) /\ Len(q) \in Nat /\ DOMAIN q = 1 .. Len(q)
      /\ DOMAIN a = 1 .. (Len(q) + 1)
      /\ \A i \in 1 .. Len(q) : a[i] = q[i]
      /\ a[Len(q) + 1] = e
    OBVIOUS
<1> HIDE DEF a
<1>2. Range(a) = Range(q) \cup {e}
    <2>1. ASSUME NEW x \in Range(a) PROVE x \in Range(q) \cup {e}
        <3>1. PICK i \in 1 .. (Len(q) + 1) : x = a[i]
            BY <1>1 DEF Range
        <3>2. i \in 1 .. Len(q) \/ i = Len(q) + 1
            BY <1>1
        <3> QED BY <1>1, <3>1, <3>2 DEF Range
    <2>2. ASSUME NEW x \in Range(q) PROVE x \in Range(a)
        <3>1. PICK i \in 1 .. Len(q) : x = q[i]
            BY <1>1 DEF Range
        <3>2. i \in DOMAIN a /\ x = a[i]
            BY <1>1, <3>1
        <3> QED BY <3>2 DEF Range
    <2>3. e \in Range(a)
        <3>1. Len(q) + 1 \in DOMAIN a
            BY <1>1
        <3> QED BY <1>1, <3>1 DEF Range
    <2> QED BY <2>1, <2>2, <2>3
<1>3. ASSUME IsInjective(q), e \notin Range(q) PROVE IsInjective(a)
    <2>1. \A i \in 1 .. Len(q) : q[i] # e
        BY <1>1, <1>3 DEF Range
    <2>2. \A i, j \in 1 .. Len(q) : q[i] = q[j] => i = j
        BY <1>1, <1>3 DEF IsInjective
    <2>3. \A i \in 1 .. (Len(q) + 1) : i \in 1 .. Len(q) \/ i = Len(q) + 1
        BY <1>1
    <2>4. \A i, j \in 1 .. (Len(q) + 1) : a[i] = a[j] => i = j
        BY <1>1, <2>1, <2>2, <2>3
    <2> QED BY <1>1, <2>4 DEF IsInjective
<1> QED BY <1>1, <1>2, <1>3 DEF a

(* What is left of the queue without its first slot.                       *)
LEMMA RangeTail ==
    ASSUME NEW S, NEW q \in Seq(S), q # <<>>, IsInjective(q)
    PROVE  /\ Head(q) \in Range(q) /\ Head(q) \in S /\ Tail(q) \in Seq(S)
           /\ Range(Tail(q)) = Range(q) \ {Head(q)}
           /\ IsInjective(Tail(q))
<1> DEFINE t == Tail(q)
<1>1. /\ Head(q) \in S /\ t \in Seq(S) /\ Len(q) \in Nat \ {0} /\ DOMAIN q = 1 .. Len(q)
      /\ DOMAIN t = 1 .. (Len(q) - 1) /\ Head(q) = q[1]
      /\ \A i \in 1 .. (Len(q) - 1) : t[i] = q[i + 1]
    OBVIOUS
<1> HIDE DEF t
<1>2. Head(q) \in Range(q)
    <2>1. 1 \in DOMAIN q
        BY <1>1
    <2> QED BY <1>1, <2>1 DEF Range
<1>3. \A i, j \in 1 .. Len(q) : q[i] = q[j] => i = j
    BY <1>1 DEF IsInjective
<1>4. Range(t) = Range(q) \ {Head(q)}
    <2>1. ASSUME NEW x \in Range(t) PROVE x \in Range(q) \ {Head(q)}
        <3>1. PICK i \in 1 .. (Len(q) - 1) : x = t[i]
            BY <1>1 DEF Range
        <3>2. i + 1 \in 1 .. Len(q) /\ 1 \in 1 .. Len(q) /\ i + 1 # 1
            BY <1>1
        <3>3. x = q[i + 1] /\ x # q[1]
            BY <1>1, <1>3, <3>1, <3>2
        <3> QED BY <1>1, <3>2, <3>3 DEF Range
    <2>2. ASSUME NEW x \in Range(q) \ {Head(q)} PROVE x \in Range(t)
        <3>1. PICK i \in 1 .. Len(q) : x = q[i]
            BY <1>1 DEF Range
        <3>2. i # 1
            BY <1>1, <2>2, <3>1
        <3>3. i - 1 \in 1 .. (Len(q) - 1) /\ (i - 1) + 1 = i
            BY <1>1, <3>2
        <3>4. x = t[i - 1]
            BY <1>1, <3>1, <3>3
        <3> QED BY <1>1, <3>3, <3>4 DEF Range
    <2> QED BY <2>1, <2>2
<1>5. IsInjective(t)
    <2>1. ASSUME NEW i \in 1 .. (Len(q) - 1), NEW j \in 1 .. (Len(q) - 1), t[i] = t[j]
          PROVE  i = j
        <3>1. i + 1 \in 1 .. Len(q) /\ j + 1 \in 1 .. Len(q)
            BY <1>1
        <3>2. q[i + 1] = q[j + 1]
            BY <1>1, <2>1
        <3>3. i + 1 = j + 1
            BY <1>3, <3>1, <3>2
        <3> QED BY <3>3
    <2> QED BY <1>1, <2>1 DEF IsInjective
<1> QED BY <1>1, <1>2, <1>4, <1>5 DEF t

(* An empty queue holds nothing.                                           *)
LEMMA NothingHeld ==
    /\ Range(<<>>) = {} /\ IsInjective(<<>>) /\ <<>> \in Seq(Slot)
<1>1. DOMAIN <<>> = {}
    OBVIOUS
<1> QED BY <1>1 DEF Range, IsInjective

(* A fresh start satisfies the invariant.                                  *)
LEMMA EmptyInv ==
    ASSUME free = Slot, ready = <<>>, holds = [s \in Slot |-> None],
           rx_slot = None, rx_line = None, rx_discard = FALSE, opc_slot = None,
           opc_busy = FALSE, running = None, stage = "idle",
           dfu_busy = FALSE, dfu_timer = FALSE, vstream_active = FALSE, vs_watchdog = FALSE,
           link \in 0 .. MaxLinks, state = "down"
    PROVE  IInv
<1>1. TypeOK
    BY NothingHeld DEF TypeOK
<1>2. SlotsConserved
    BY NothingHeld, CommandQueueAssumption DEF SlotsConserved, Queued, Held
<1>3. OldCommandsDropped /\ ReceiverInv /\ ThreadInv
    BY NothingHeld DEF OldCommandsDropped, ReceiverInv, ThreadInv, Queued
<1> QED BY <1>1, <1>2, <1>3 DEF IInv

(* The first start is one.                                                 *)
LEMMA InitInv == Init => IInv
<1> SUFFICES ASSUME Init PROVE IInv
    OBVIOUS
<1>1. link \in 0 .. MaxLinks
    BY CommandQueueAssumption DEF Init
<1> QED BY <1>1, EmptyInv, Zenon DEF Init

(* So is every restart.                                                    *)
LEMMA RestartInv == IInv /\ Restart => IInv'
<1> SUFFICES ASSUME IInv, Restart PROVE IInv'
    OBVIOUS
<1>1. link' \in 0 .. MaxLinks
    BY DEF IInv, TypeOK, Restart
<1>2. /\ free' = Slot /\ ready' = <<>> /\ holds' = [s \in Slot |-> None]
      /\ rx_slot' = None /\ rx_line' = None /\ ~rx_discard' /\ opc_slot' = None
      /\ running' = None /\ stage' = "idle" /\ state' = "down"
    BY Zenon DEF Restart
<1>3. TypeOK'
    <2>1. {rx_discard', opc_busy', dfu_busy', dfu_timer', vstream_active', vs_watchdog'}
              \subseteq BOOLEAN
        BY Zenon DEF Restart
    <2> QED BY <1>1, <1>2, <2>1, NothingHeld DEF TypeOK
<1>4. SlotsConserved'
    BY <1>2, NothingHeld, CommandQueueAssumption DEF SlotsConserved, Queued, Held
<1>5. OldCommandsDropped' /\ ReceiverInv' /\ ThreadInv'
    BY <1>2, NothingHeld DEF OldCommandsDropped, ReceiverInv, ThreadInv, Queued
<1> QED BY <1>3, <1>4, <1>5 DEF IInv

(* Steps that touch neither a slot nor the connection.                     *)
Elsewhere ==
    /\ UNCHANGED <<free, ready, holds>> /\ UNCHANGED <<running, link>>
    /\ UNCHANGED <<rx_slot, rx_line, rx_discard, opc_slot, opc_busy>>
    /\ stage = "idle" <=> stage' = "idle"
    /\ state' = state \/ (state # "down" /\ state' = "closing")

(* A step that touches no slot keeps the invariant.                        *)
LEMMA ElsewhereInv == IInv /\ TypeOK' /\ Elsewhere => IInv'
<1> SUFFICES ASSUME IInv, TypeOK', Elsewhere PROVE IInv'
    OBVIOUS
<1> USE DEF Elsewhere
<1>1. SlotsConserved'
    BY DEF IInv, SlotsConserved, Queued, Held
<1>2. OldCommandsDropped'
    BY DEF IInv, OldCommandsDropped, Queued
<1>3. ReceiverInv' /\ ThreadInv'
    BY DEF IInv, ReceiverInv, ThreadInv, Queued
<1> QED BY <1>1, <1>2, <1>3 DEF IInv

(***************************************************************************)
(* The receive thread.                                                     *)
(***************************************************************************)
LEMMA RxTypes == IInv /\ Rx => TypeOK'
<1> SUFFICES ASSUME IInv, Rx PROVE TypeOK'
    OBVIOUS
<1> USE DEF IInv, TypeOK, slotVars, rxVars, runVars, dfuVars, streamVars, linkVars
<1>1. ASSUME NEW c \in Commands, LineStarts(c) PROVE TypeOK'
    BY <1>1 DEF LineStarts
<1>2. CASE LineEaten
    BY <1>2 DEF LineEaten
<1>3. CASE LineQueued
    <2>1. rx_slot \in Slot /\ rx_line \in Commands
        BY <1>3 DEF LineQueued, LineEnded, ReceiverInv
    <2>2. [cmd |-> rx_line, text |-> TRUE, link |-> link] \in Content
        BY <2>1 DEF Content
    <2>3. ready' \in Seq(Slot) /\ holds' \in [Slot -> Content \cup {None}]
        BY <1>3, <2>1, <2>2, RangeAppend DEF LineQueued
    <2> QED BY <1>3, <2>3 DEF LineQueued
<1>4. CASE LineRunsInline /\ ~Restart
    <2>1. rx_slot \in Slot
        BY <1>4 DEF LineRunsInline, LineEnded, ReceiverInv
    <2> QED BY <1>4, <2>1 DEF LineRunsInline
<1>5. CASE Restart
    BY <1>5, RestartInv
<1>6. CASE FrameStarts
    BY <1>6 DEF FrameStarts
<1>7. ASSUME NEW c \in Commands, FrameEnds(c) PROVE TypeOK'
    <2>1. [cmd |-> c, text |-> FALSE, link |-> link] \in Content
        BY DEF Content
    <2>2. CASE opc_slot = None
        <3>1. /\ opc_busy' = FALSE
              /\ UNCHANGED <<slotVars, opc_slot, rx_slot, rx_line, rx_discard, runVars, dfuVars,
                             streamVars, linkVars>>
            BY <1>7, <2>2 DEF FrameEnds
        <3>2. {rx_discard', opc_busy', dfu_busy', dfu_timer', vstream_active', vs_watchdog'}
                  \subseteq BOOLEAN
            BY <3>1, Zenon
        <3> QED BY <3>1, <3>2
    <2>3. CASE opc_slot # None
        <3>0. opc_slot \in Slot
            BY <2>3
        <3>1. ready' \in Seq(Slot) /\ holds' \in [Slot -> Content \cup {None}]
            <4>1. /\ ready' = Append(ready, opc_slot)
                  /\ holds' = [holds EXCEPT ![opc_slot] =
                                  [cmd |-> c, text |-> FALSE, link |-> link]]
                BY <1>7, <2>3 DEF FrameEnds
            <4>2. ready' \in Seq(Slot)
                BY <3>0, <4>1, RangeAppend
            <4> QED BY <2>1, <3>0, <4>1, <4>2
        <3>2. opc_busy' = FALSE /\ opc_slot' = None
            BY <1>7, <2>3 DEF FrameEnds
        <3>3. UNCHANGED <<free, rx_slot, rx_line, rx_discard, runVars, dfuVars, streamVars, linkVars>>
            BY <1>7 DEF FrameEnds
        <3>4. {rx_discard', opc_busy', dfu_busy', dfu_timer', vstream_active', vs_watchdog'}
                  \subseteq BOOLEAN
            BY <3>2, <3>3, Zenon
        <3> QED BY <3>1, <3>2, <3>3, <3>4
    <2> QED BY <2>2, <2>3
<1>8. CASE StreamStops
    BY <1>8 DEF StreamStops
<1> QED BY <1>1, <1>2, <1>3, <1>4, <1>5, <1>6, <1>7, <1>8, Zenon DEF Rx, LineRunsInline

(* What the receive thread does keeps it.                                  *)
LEMMA RxKeeps == IInv /\ Rx => IInv'
<1> SUFFICES ASSUME IInv, Rx PROVE IInv'
    OBVIOUS
<1>0. TypeOK /\ TypeOK' /\ SlotsConserved /\ OldCommandsDropped /\ ReceiverInv /\ ThreadInv
    BY RxTypes DEF IInv
<1> USE DEF slotVars, rxVars, runVars, linkVars
<1>1. ASSUME NEW c \in Commands, LineStarts(c) PROVE IInv'
    <2>1. rx_slot = None /\ ready' = ready /\ holds' = holds /\ c # None
          /\ opc_slot' = opc_slot /\ opc_busy' = opc_busy /\ rx_line' = c
          /\ UNCHANGED <<running, stage, link, state>>
        BY <1>0, <1>1, CommandQueueAssumption DEF LineStarts, ReceiverInv
    <2>2. CASE free = {} /\ rx_discard' = TRUE /\ UNCHANGED <<free, rx_slot>>
        BY <1>0, <2>1, <2>2
        DEF IInv, SlotsConserved, OldCommandsDropped, ReceiverInv, ThreadInv, Queued, Held
    <2>3. CASE \E s \in free : rx_slot' = s /\ free' = free \ {s} /\ UNCHANGED rx_discard
        <3>1. PICK s \in free : rx_slot' = s /\ free' = free \ {s} /\ UNCHANGED rx_discard
            BY <2>3
        <3>2. s \in Slot /\ s # None /\ ~rx_discard
            BY <1>0, <1>1, CommandQueueAssumption DEF TypeOK, ReceiverInv, LineStarts
        <3>3. SlotsConserved'
            BY <1>0, <2>1, <3>1, <3>2 DEF SlotsConserved, Queued, Held
        <3>4. OldCommandsDropped' /\ ReceiverInv' /\ ThreadInv'
            BY <1>0, <1>1, <2>1, <3>1, <3>2
            DEF OldCommandsDropped, ReceiverInv, ThreadInv, Queued, LineStarts, Receiving
        <3> QED BY <1>0, <3>3, <3>4 DEF IInv
    <2> QED BY <1>1, <2>2, <2>3 DEF LineStarts
<1>2. CASE LineEaten
    <2>1. /\ UNCHANGED <<free, ready, holds, rx_slot, opc_slot, opc_busy, running, stage, link, state>>
          /\ rx_slot = None /\ rx_line' = None /\ ~rx_discard'
        BY <1>0, <1>2 DEF LineEaten, ReceiverInv
    <2> QED BY <1>0, <2>1
            DEF IInv, SlotsConserved, OldCommandsDropped, ReceiverInv, ThreadInv, Queued, Held
<1>3. CASE LineQueued
    <2> DEFINE full == [cmd |-> rx_line, text |-> TRUE, link |-> link]
    <2>1. /\ rx_slot \in Slot /\ rx_slot # None /\ ready \in Seq(Slot) /\ ~rx_discard
          /\ state = "up" /\ rx_slot \notin Queued
        BY <1>0, <1>3 DEF LineQueued, LineEnded, Receiving, ReceiverInv, TypeOK, SlotsConserved, Held
    <2>2. /\ ready' = Append(ready, rx_slot) /\ holds' = [holds EXCEPT ![rx_slot] = full]
          /\ rx_slot' = None /\ rx_line' = None
          /\ UNCHANGED <<free, rx_discard, opc_slot, opc_busy, running, stage, link, state>>
        BY <1>3 DEF LineQueued
    <2>3. Queued' = Queued \cup {rx_slot} /\ IsInjective(ready')
        BY <1>0, <2>1, <2>2, RangeAppend DEF Queued, SlotsConserved
    <2>4. full # None /\ full.link = link
        <3>1. rx_line \in Commands /\ link \in 0 .. MaxLinks
            BY <1>0, <1>3 DEF TypeOK, LineQueued, LineEnded
        <3>2. full \in Content
            BY <3>1 DEF Content
        <3> QED BY <3>2, CommandQueueAssumption
    <2>5. holds'[rx_slot] = full /\ \A s \in Slot : s # rx_slot => holds'[s] = holds[s]
        BY <1>0, <2>1, <2>2 DEF TypeOK
    <2>6. SlotsConserved'
        BY <1>0, <2>1, <2>2, <2>3 DEF SlotsConserved, Held
    <2>7. OldCommandsDropped' /\ ReceiverInv' /\ ThreadInv'
        BY <1>0, <2>1, <2>2, <2>3, <2>4, <2>5
        DEF OldCommandsDropped, ReceiverInv, ThreadInv, SlotsConserved, Held, TypeOK
    <2> QED BY <1>0, <2>6, <2>7 DEF IInv
<1>4. CASE LineRunsInline /\ ~Restart
    <2>1. /\ rx_slot \in Slot /\ rx_slot # None /\ ~rx_discard
          /\ free' = free \cup {rx_slot} /\ rx_slot' = None /\ rx_line' = None
          /\ UNCHANGED <<ready, holds, rx_discard, opc_slot, opc_busy, running, stage, link, state>>
        BY <1>0, <1>4 DEF LineRunsInline, LineEnded, ReceiverInv, TypeOK
    <2>2. SlotsConserved'
        BY <1>0, <2>1 DEF SlotsConserved, Queued, Held
    <2>3. OldCommandsDropped' /\ ReceiverInv' /\ ThreadInv'
        BY <1>0, <2>1 DEF OldCommandsDropped, ReceiverInv, ThreadInv, Queued
    <2> QED BY <1>0, <2>2, <2>3 DEF IInv
<1>5. CASE Restart
    BY <1>5, RestartInv
<1>6. CASE FrameStarts
    <2>1. /\ opc_slot = None /\ opc_busy' = TRUE /\ state = "up"
          /\ UNCHANGED <<ready, holds, rx_slot, rx_line, rx_discard, running, stage, link, state>>
        BY <1>0, <1>6 DEF FrameStarts, Receiving, ReceiverInv
    <2>2. CASE UNCHANGED <<free, opc_slot>>
        BY <1>0, <2>1, <2>2
        DEF IInv, SlotsConserved, OldCommandsDropped, ReceiverInv, ThreadInv, Queued, Held
    <2>3. CASE \E s \in free : opc_slot' = s /\ free' = free \ {s}
        <3>1. PICK s \in free : opc_slot' = s /\ free' = free \ {s}
            BY <2>3
        <3>2. s \in Slot /\ s # None
            BY <1>0, CommandQueueAssumption DEF TypeOK
        <3>3. SlotsConserved'
            BY <1>0, <2>1, <3>1, <3>2 DEF SlotsConserved, Queued, Held
        <3>4. OldCommandsDropped' /\ ReceiverInv' /\ ThreadInv'
            BY <1>0, <2>1, <3>1, <3>2 DEF OldCommandsDropped, ReceiverInv, ThreadInv, Queued
        <3> QED BY <1>0, <3>3, <3>4 DEF IInv
    <2> QED BY <1>6, <2>2, <2>3 DEF FrameStarts
<1>7. ASSUME NEW c \in Commands, FrameEnds(c) PROVE IInv'
    <2> DEFINE full == [cmd |-> c, text |-> FALSE, link |-> link]
    <2>0. /\ opc_busy' = FALSE /\ state = "up"
          /\ UNCHANGED <<free, rx_slot, rx_line, rx_discard, running, stage, link, state>>
        BY <1>7 DEF FrameEnds, Receiving
    <2>1. CASE opc_slot = None
        <3>1. UNCHANGED <<ready, holds, opc_slot>>
            BY <1>7, <2>1 DEF FrameEnds
        <3> QED BY <1>0, <2>0, <2>1, <3>1
                DEF IInv, SlotsConserved, OldCommandsDropped, ReceiverInv, ThreadInv, Queued, Held
    <2>2. CASE opc_slot # None
        <3>1. /\ ready' = Append(ready, opc_slot) /\ holds' = [holds EXCEPT ![opc_slot] = full]
              /\ opc_slot' = None
            BY <1>7, <2>2 DEF FrameEnds
        <3>2. opc_slot \in Slot /\ ready \in Seq(Slot) /\ opc_slot \notin Queued
            BY <1>0, <2>2 DEF TypeOK, SlotsConserved, Held
        <3>3. Queued' = Queued \cup {opc_slot} /\ IsInjective(ready')
            BY <1>0, <3>1, <3>2, RangeAppend DEF Queued, SlotsConserved
        <3>4. full # None /\ full.link = link
            <4>0. link \in 0 .. MaxLinks
                BY <1>0 DEF TypeOK
            <4>1. full \in Content
                BY <4>0 DEF Content
            <4> QED BY <4>1, CommandQueueAssumption
        <3>5. holds'[opc_slot] = full /\ \A s \in Slot : s # opc_slot => holds'[s] = holds[s]
            BY <1>0, <3>1, <3>2 DEF TypeOK
        <3>6. SlotsConserved'
            BY <1>0, <2>0, <2>2, <3>1, <3>2, <3>3 DEF SlotsConserved, Held
        <3>7. OldCommandsDropped'
            BY <1>0, <2>0, <3>1, <3>2, <3>3, <3>4, <3>5
            DEF OldCommandsDropped, SlotsConserved, TypeOK
        <3>8. ReceiverInv'
            BY <1>0, <2>0, <3>1 DEF ReceiverInv
        <3>9. ThreadInv'
            BY <1>0, <2>0, <2>2, <3>2, <3>3, <3>4, <3>5 DEF ThreadInv, SlotsConserved, TypeOK
        <3> QED BY <1>0, <3>6, <3>7, <3>8, <3>9 DEF IInv
    <2> QED BY <2>1, <2>2
<1>8. CASE StreamStops
    <2>1. Elsewhere
        BY <1>8 DEF StreamStops, Elsewhere
    <2> QED BY <1>0, <2>1, ElsewhereInv
<1> QED BY <1>1, <1>2, <1>3, <1>4, <1>5, <1>6, <1>7, <1>8, Zenon DEF Rx, LineRunsInline

(***************************************************************************)
(* The command thread, the timers and the link.                            *)
(***************************************************************************)
LEMMA TakeKeeps == IInv /\ Take => IInv'
<1> SUFFICES ASSUME IInv, Take PROVE IInv'
    OBVIOUS
<1>0. TypeOK /\ SlotsConserved /\ OldCommandsDropped /\ ReceiverInv /\ ThreadInv
    BY DEF IInv
<1>1. /\ ready \in Seq(Slot) /\ ready # <<>> /\ IsInjective(ready) /\ running = None
      /\ running' = Head(ready) /\ ready' = Tail(ready) /\ stage' = "gate"
      /\ UNCHANGED <<free, holds, link, state>>
      /\ UNCHANGED <<rx_slot, rx_line, rx_discard, opc_slot, opc_busy>>
      /\ UNCHANGED <<dfu_busy, dfu_timer, vstream_active, vs_watchdog>>
    BY <1>0 DEF Take, TypeOK, SlotsConserved, ThreadInv, rxVars, dfuVars, streamVars, linkVars
<1>2. /\ running' \in Queued /\ running' \in Slot /\ ready' \in Seq(Slot)
      /\ Queued' = Queued \ {running'} /\ IsInjective(ready')
    BY <1>1, RangeTail DEF Queued
<1>3. running' # None
    BY <1>2, CommandQueueAssumption
<1>4. TypeOK'
    BY <1>0, <1>1, <1>2 DEF TypeOK
<1>5. SlotsConserved'
    BY <1>0, <1>1, <1>2, <1>3 DEF SlotsConserved, Held
<1>6. OldCommandsDropped' /\ ReceiverInv'
    BY <1>0, <1>1, <1>2, NothingHeld DEF OldCommandsDropped, ReceiverInv, Queued
<1>7. ThreadInv'
    BY <1>0, <1>1, <1>2, <1>3 DEF ThreadInv
<1> QED BY <1>4, <1>5, <1>6, <1>7 DEF IInv

(* Giving the slot back keeps it.                                          *)
LEMMA ReleaseKeeps == IInv /\ Release => IInv'
<1> SUFFICES ASSUME IInv, Release PROVE IInv'
    OBVIOUS
<1>0. TypeOK /\ SlotsConserved /\ OldCommandsDropped /\ ReceiverInv /\ ThreadInv
    BY DEF IInv
<1>1. /\ running \in Slot /\ running # None /\ stage' = "idle"
      /\ free' = free \cup {running} /\ running' = None
      /\ holds' = [holds EXCEPT ![running] = None]
      /\ UNCHANGED <<ready, link, state>>
      /\ UNCHANGED <<rx_slot, rx_line, rx_discard, opc_slot, opc_busy>>
      /\ UNCHANGED <<dfu_busy, dfu_timer, vstream_active, vs_watchdog>>
    BY <1>0 DEF Release, TypeOK, ThreadInv, rxVars, dfuVars, streamVars, linkVars
<1>2. TypeOK'
    BY <1>0, <1>1 DEF TypeOK
<1>3. Queued' = Queued /\ running \notin Queued /\ Queued \subseteq Slot
    BY <1>0, <1>1 DEF Queued, SlotsConserved, Held
<1>4. \A s \in Queued : holds'[s] = holds[s]
    BY <1>0, <1>1, <1>3 DEF TypeOK
<1>5. SlotsConserved'
    BY <1>0, <1>1, <1>3 DEF SlotsConserved, Held
<1>6. OldCommandsDropped' /\ ReceiverInv' /\ ThreadInv'
    BY <1>0, <1>1, <1>3, <1>4 DEF OldCommandsDropped, ReceiverInv, ThreadInv
<1> QED BY <1>2, <1>5, <1>6 DEF IInv

(* What the command thread does keeps it.                                  *)
LEMMA CmdThreadKeeps == IInv /\ CmdThread => IInv'
<1> SUFFICES ASSUME IInv, CmdThread PROVE IInv'
    OBVIOUS
<1>0. TypeOK
    BY DEF IInv
<1> USE DEF slotVars, rxVars, dfuVars, streamVars, linkVars
<1>1. CASE Gate
    <2>1. Elsewhere
        BY <1>1 DEF Gate, Elsewhere
    <2>2. TypeOK'
        BY <1>0, <1>1 DEF Gate, TypeOK
    <2> QED BY <2>1, <2>2, ElsewhereInv
<1>2. CASE RunPlain
    <2>1. Elsewhere
        BY <1>2 DEF RunPlain, Elsewhere
    <2>2. TypeOK'
        BY <1>0, <1>2 DEF RunPlain, TypeOK
    <2> QED BY <2>1, <2>2, ElsewhereInv
<1>3. CASE RunDfu
    <2>1. Elsewhere
        BY <1>3 DEF RunDfu, Elsewhere
    <2>2. dfu_busy' \in BOOLEAN
        BY <1>3, Zenon DEF RunDfu
    <2>3. TypeOK'
        BY <1>0, <1>3, <2>2 DEF RunDfu, TypeOK
    <2> QED BY <2>1, <2>3, ElsewhereInv
<1>4. CASE SetDfuTimer
    <2>1. Elsewhere
        BY <1>4 DEF SetDfuTimer, Elsewhere
    <2>2. dfu_timer' \in BOOLEAN
        BY <1>4, Zenon DEF SetDfuTimer
    <2>3. TypeOK'
        BY <1>0, <1>4, <2>2 DEF SetDfuTimer, TypeOK
    <2> QED BY <2>1, <2>3, ElsewhereInv
<1>5. CASE RunStream
    <2>1. Elsewhere
        BY <1>5 DEF RunStream, Elsewhere
    <2>2. vstream_active' \in BOOLEAN /\ vs_watchdog' \in BOOLEAN
        BY <1>5, Zenon DEF RunStream
    <2>3. TypeOK'
        BY <1>0, <1>5, <2>2 DEF RunStream, TypeOK
    <2> QED BY <2>1, <2>3, ElsewhereInv
<1> QED BY <1>1, <1>2, <1>3, <1>4, <1>5, TakeKeeps, ReleaseKeeps, RestartInv
        DEF CmdThread, RunReboot

(* Timers, the mcumgr hook and the start of a disconnect keep it.          *)
LEMMA TimersKeep ==
    IInv /\ (WatchdogFires \/ DfuExpires \/ UploadStarts \/ UploadChunk \/ UploadEnds
             \/ DisconnectBegins) => IInv'
<1> SUFFICES ASSUME IInv, WatchdogFires \/ DfuExpires \/ UploadStarts \/ UploadChunk
                          \/ UploadEnds \/ DisconnectBegins
             PROVE  IInv'
    OBVIOUS
<1>0. TypeOK
    BY DEF IInv
<1> USE DEF slotVars, rxVars, runVars, dfuVars, streamVars, linkVars
<1>1. Elsewhere
    BY DEF WatchdogFires, DfuExpires, UploadStarts, UploadChunk, UploadEnds, DisconnectBegins,
           Elsewhere
<1>2. {rx_discard', opc_busy', dfu_busy', dfu_timer', vstream_active', vs_watchdog'}
          \subseteq BOOLEAN
    BY <1>0, Zenon DEF TypeOK, WatchdogFires, DfuExpires, UploadStarts, UploadChunk, UploadEnds,
                       DisconnectBegins
<1>3. TypeOK'
    BY <1>0, <1>1, <1>2
    DEF TypeOK, Elsewhere, WatchdogFires, DfuExpires, UploadStarts, UploadChunk, UploadEnds,
        DisconnectBegins
<1> QED BY <1>1, <1>3, ElsewhereInv

(* A new link keeps it.                                                    *)
LEMMA ConnectKeeps == IInv /\ Connect => IInv'
<1> SUFFICES ASSUME IInv, Connect PROVE IInv'
    OBVIOUS
<1>1. /\ UNCHANGED <<free, ready, holds, running, stage>> /\ state' = "up"
      /\ UNCHANGED <<rx_slot, rx_line, rx_discard, opc_slot, opc_busy>>
      /\ UNCHANGED <<dfu_busy, dfu_timer, vstream_active, vs_watchdog>>
      /\ ready = <<>> /\ link' = link + 1 /\ link < MaxLinks
    BY DEF Connect, IInv, OldCommandsDropped, slotVars, rxVars, runVars, dfuVars, streamVars
<1>2. TypeOK'
    <2>1. link' \in 0 .. MaxLinks
        BY <1>1, CommandQueueAssumption DEF IInv, TypeOK
    <2> QED BY <1>1, <2>1 DEF IInv, TypeOK
<1>3. SlotsConserved' /\ ReceiverInv' /\ ThreadInv'
    BY <1>1 DEF IInv, SlotsConserved, ReceiverInv, ThreadInv, Queued, Held
<1>4. OldCommandsDropped'
    BY <1>1, NothingHeld DEF OldCommandsDropped, Queued
<1> QED BY <1>2, <1>3, <1>4 DEF IInv

(* The end of a disconnect, which collects the slots, keeps it.            *)
LEMMA DisconnectKeeps == IInv /\ DisconnectEnds => IInv'
<1> SUFFICES ASSUME IInv, DisconnectEnds PROVE IInv'
    OBVIOUS
<1>0. TypeOK /\ SlotsConserved /\ ThreadInv
    BY DEF IInv
<1>1. /\ rx_slot' = None /\ rx_line' = None /\ ~rx_discard' /\ opc_slot' = None
      /\ free' = free \cup Queued \cup ({rx_slot, opc_slot} \ {None})
      /\ ready' = <<>> /\ holds' = [s \in Slot |-> IF s \in Queued THEN None ELSE holds[s]]
      /\ state' = "down" /\ UNCHANGED <<running, stage, link>>
    BY Zenon DEF DisconnectEnds, runVars
<1>2. {rx_discard', opc_busy', dfu_busy', dfu_timer', vstream_active', vs_watchdog'}
          \subseteq BOOLEAN
    BY <1>0, Zenon DEF DisconnectEnds, TypeOK, streamVars
<1>3. TypeOK'
    BY <1>0, <1>1, <1>2, NothingHeld DEF TypeOK, SlotsConserved
<1>4. SlotsConserved'
    BY <1>0, <1>1, NothingHeld, CommandQueueAssumption DEF SlotsConserved, Held, Queued
<1>5. OldCommandsDropped' /\ ReceiverInv'
    BY <1>1, NothingHeld DEF OldCommandsDropped, ReceiverInv, Queued
<1>6. ThreadInv'
    <2>1. running # None => running \in Slot /\ running \notin Queued
        BY <1>0 DEF TypeOK, SlotsConserved, Held
    <2> QED BY <1>0, <1>1, <2>1, NothingHeld DEF ThreadInv, Queued
<1> QED BY <1>3, <1>4, <1>5, <1>6 DEF IInv

(* A stutter keeps it.                                                     *)
LEMMA StutterKeeps == IInv /\ UNCHANGED vars => IInv'
BY DEF vars, slotVars, rxVars, runVars, dfuVars, streamVars, linkVars, IInv, TypeOK,
       SlotsConserved, OldCommandsDropped, ReceiverInv, ThreadInv, Queued, Held

(* The inductive invariant holds throughout.                               *)
LEMMA Invariance == Spec => []IInv
<1>1. IInv /\ [Next]_vars => IInv'
    BY RxKeeps, CmdThreadKeeps, TimersKeep, ConnectKeeps, DisconnectKeeps, StutterKeeps DEF Next
<1> QED BY InitInv, <1>1, PTL DEF Spec

(* Every variable keeps its type.                                          *)
THEOREM TypeCorrect == Spec => []TypeOK
<1>1. IInv => TypeOK
    BY DEF IInv
<1> QED BY <1>1, Invariance, PTL

(* No slot is lost or in two hands, over any number of connections,        *)
(* disconnects in mid-line or mid-frame, and restarts.                     *)
THEOREM SlotsNeverLeak == Spec => []SlotsConserved
<1>1. IInv => SlotsConserved
    BY DEF IInv
<1> QED BY <1>1, Invariance, PTL

(* What waits for the command thread came over the present connection.     *)
THEOREM OldLinkSilenced == Spec => []OldCommandsDropped
<1>1. IInv => OldCommandsDropped
    BY DEF IInv
<1> QED BY <1>1, Invariance, PTL
=============================================================================
